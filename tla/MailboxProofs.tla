---------------------------- MODULE MailboxProofs ----------------------------
(***************************************************************************)
(* What follows from the mailbox's two actions alone, for every set of     *)
(* devices and payloads.                                                   *)
(***************************************************************************)
EXTENDS Mailbox, TLAPS

(* A packet has one slot, its own, and every slot from the oldest packet    *)
(* held up to the top of the stream is filled.                              *)
MailboxInv == TypeOK /\ OnePacketPerSlot /\ NoHoles

LEMMA MailboxInit == Init => MailboxInv
BY DEF Init, MailboxInv, TypeOK, OnePacketPerSlot, NoHoles

(* The row Append adds fills the slot one past the top.                     *)
LEMMA AppendKeeps ==
  ASSUME MailboxInv, NEW d \in Device, NEW p \in Payload, Append(d, p)
  PROVE  MailboxInv'
<1> DEFINE new == [origin |-> d, counter |-> top[d] + 1, payload |-> p]
<1>1. /\ top \in [Device -> Nat] /\ rows \subseteq Row
      /\ rows' = rows \cup {new}
      /\ top' \in [Device -> Nat]
      /\ \A e \in Device : top'[e] = IF e = d THEN top[d] + 1 ELSE top[e]
  BY DEF Append, MailboxInv, TypeOK
<1>2. new \in Row /\ new.origin = d /\ new.counter = top[d] + 1
  BY <1>1 DEF Row
<1> HIDE DEF new
<1>3. TypeOK'
  BY <1>1, <1>2 DEF TypeOK
<1>4. \A row \in rows :
        /\ row.origin \in Device /\ row.counter \in 1 .. top[row.origin]
        /\ row.counter \in Nat /\ top[row.origin] \in Nat
  BY <1>1 DEF MailboxInv, OnePacketPerSlot, Row
<1>5. OnePacketPerSlot'
  <2>1. \A row \in rows' : row.counter \in 1 .. top'[row.origin]
    BY <1>1, <1>2, <1>4
  <2>2. \A row \in rows : row.origin = d => row.counter # new.counter
    BY <1>1, <1>2, <1>4
  <2>3. \A x, y \in rows' :
          x.origin = y.origin /\ x.counter = y.counter => x = y
    BY <1>1, <1>2, <2>2 DEF MailboxInv, OnePacketPerSlot
  <2> QED BY <2>1, <2>3 DEF OnePacketPerSlot
<1>6. NoHoles'
  <2> SUFFICES ASSUME NEW row \in rows', NEW c \in row.counter .. top'[row.origin]
               PROVE  \E x \in rows' : x.origin = row.origin /\ x.counter = c
    BY DEF NoHoles
  <2>1. CASE row \in rows
    <3>1. CASE c \in row.counter .. top[row.origin]
      BY <1>1, <2>1, <3>1 DEF MailboxInv, NoHoles
    <3>2. CASE c \notin row.counter .. top[row.origin]
      <4>1. row.origin = d /\ c = top[d] + 1
        BY <1>1, <1>4, <2>1, <3>2
      <4> QED BY <1>1, <1>2, <4>1
    <3> QED BY <3>1, <3>2
  <2>2. CASE row = new
    BY <1>1, <1>2, <2>2
  <2> QED BY <1>1, <2>1, <2>2
<1> QED BY <1>3, <1>5, <1>6 DEF MailboxInv

(* Compact takes the oldest packets of one stream and nothing between two.  *)
LEMMA CompactKeeps ==
  ASSUME MailboxInv, NEW d \in Device, NEW n \in 1 .. top[d], Compact(d, n)
  PROVE  MailboxInv'
<1>1. /\ rows' = {row \in rows : row.origin = d => row.counter > n}
      /\ rows' \subseteq rows /\ top' = top
      /\ top \in [Device -> Nat] /\ rows \subseteq Row
  BY DEF Compact, MailboxInv, TypeOK
<1>2. TypeOK' /\ OnePacketPerSlot'
  BY <1>1 DEF MailboxInv, TypeOK, OnePacketPerSlot
<1>3. NoHoles'
  <2> SUFFICES ASSUME NEW row \in rows', NEW c \in row.counter .. top[row.origin]
               PROVE  \E x \in rows' : x.origin = row.origin /\ x.counter = c
    BY <1>1 DEF NoHoles
  <2>1. PICK x \in rows : x.origin = row.origin /\ x.counter = c
    BY <1>1 DEF MailboxInv, NoHoles
  <2>2. row.counter \in Nat /\ n \in Nat /\ c \in Nat /\ c >= row.counter
    BY <1>1 DEF Row
  <2>3. row.origin = d => row.counter > n
    BY <1>1
  <2>4. x.origin = d => x.counter > n
    BY <2>1, <2>2, <2>3
  <2> QED BY <1>1, <2>1, <2>4
<1> QED BY <1>2, <1>3 DEF MailboxInv

LEMMA MailboxStep == MailboxInv /\ [Next]_mailbox => MailboxInv'
<1> SUFFICES ASSUME MailboxInv, [Next]_mailbox PROVE MailboxInv'
  OBVIOUS
<1>1. CASE UNCHANGED mailbox
  BY <1>1 DEF mailbox, MailboxInv, TypeOK, OnePacketPerSlot, NoHoles
<1> QED BY <1>1, AppendKeeps, CompactKeeps DEF Next

(* Whatever implements the mailbox stores one packet per slot and holds the *)
(* unbroken tail of every stream.                                           *)
THEOREM MailboxSafe == Spec => []MailboxInv
BY MailboxInit, MailboxStep, PTL DEF Spec
=============================================================================

------------------------------ MODULE Mailbox ------------------------------
(***************************************************************************)
(* What the relay's packet store promises one account, with no handlers,   *)
(* no SQL statements and no failures: one append-only stream per device,   *)
(* whose oldest packets may be dropped.                                    *)
(*                                                                         *)
(* The promise is in what a step cannot do.  A slot is filled once, by the *)
(* packet one past the top of its stream, so a counter is never re-issued; *)
(* the bytes under a slot never change; only a prefix of a stream is ever  *)
(* dropped, and dropping it does not move the top.                         *)
(***************************************************************************)
EXTENDS Naturals

CONSTANTS
  Device,    \* origin devices of the account
  Payload    \* packet bodies

VARIABLES
  top,       \* the highest counter each stream has ever accepted
  rows       \* the packets still held: [origin, counter, payload]

mailbox == <<top, rows>>

Row == [origin : Device, counter : Nat, payload : Payload]

Init ==
  /\ top = [d \in Device |-> 0]
  /\ rows = {}

(* The next packet of d's stream is accepted. *)
Append(d, p) ==
  /\ top' = [top EXCEPT ![d] = @ + 1]
  /\ rows' = rows \cup {[origin |-> d, counter |-> top[d] + 1, payload |-> p]}

(* Everything of d's stream up to and including counter n is dropped. *)
Compact(d, n) ==
  /\ rows' = {row \in rows : row.origin = d => row.counter > n}
  /\ UNCHANGED top

Next ==
  \E d \in Device :
    \/ \E p \in Payload : Append(d, p)
    \/ \E n \in 1 .. top[d] : Compact(d, n)

Spec == Init /\ [][Next]_mailbox

-----------------------------------------------------------------------------

TypeOK ==
  /\ top \in [Device -> Nat]
  /\ rows \subseteq Row

(* A slot identifies at most one packet, and no packet is above its top. *)
OnePacketPerSlot ==
  /\ \A row \in rows : row.counter \in 1 .. top[row.origin]
  /\ \A x, y \in rows :
       x.origin = y.origin /\ x.counter = y.counter => x = y

(* What is held of a stream is its unbroken tail: after the first held      *)
(* packet every later one up to the top is there.                           *)
NoHoles ==
  \A row \in rows : \A c \in row.counter .. top[row.origin] :
    \E x \in rows : x.origin = row.origin /\ x.counter = c
=============================================================================

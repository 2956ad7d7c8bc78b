------------------------------- MODULE Backoff -------------------------------
(***************************************************************************)
(* The per-name backoff of limit.Backoff, as operators on its entries.     *)
(*                                                                         *)
(* Times are kept relative to the present, so that nothing grows with the  *)
(* clock: an entry has how long ago its last failure was (quiet, for       *)
(* f.last) and how long it still blocks its name (left, for f.until).  A   *)
(* caller that read the clock lag ago sees both as they were then.         *)
(***************************************************************************)
EXTENDS Naturals, Integers, FiniteSets, FiniteSetsExt

CONSTANTS
  Free,        \* loginFreeFailures
  Base,        \* loginBackoffBase
  Cap,         \* loginBackoffMax
  Forget,      \* loginBackoffReset
  ShiftLimit,  \* the 32 of over < 32
  Width,       \* bits of a time.Duration
  MaxKeys,     \* limit.maxKeys
  MaxLag       \* bound: the time between reading the clock and the lock

(* Powers of two, as a function: the proofs need its recurrence. *)
Pow2[n \in Nat] == IF n = 0 THEN 1 ELSE 2 * Pow2[n - 1]

(* The first number that is too large for a time.Duration. *)
Half == Pow2[Width - 1]

(* The delays fit a Duration as far as the shift goes, the cap is reached   *)
(* before the shift stops, and a name is not forgotten while it is blocked. *)
ASSUME BackoffAssumption ==
  /\ {Free, MaxLag} \subseteq Nat
  /\ {Base, Cap, Forget, ShiftLimit, Width, MaxKeys} \subseteq Nat \ {0}
  /\ ShiftLimit > 1 /\ Cap < Half
  /\ Base * Pow2[ShiftLimit - 2] < Half
  /\ Cap <= Base * Pow2[ShiftLimit - 1] /\ Base <= Cap
  /\ Cap + MaxLag <= Forget

(* Failures are told apart up to the count whose shift leaves the word, and *)
(* quiet up to the time that forgets them whatever the lag.                 *)
MaxCount == Free + Width + 1
MaxQuiet == Forget + MaxLag + 1

Failures ==
  [count : 1 .. MaxCount, quiet : 0 .. MaxQuiet, left : -MaxLag .. Cap]

(* A shift of a Duration: it wraps around at the word's width. *)
Shifted(n, by) ==
  LET word == (n * Pow2[by]) % (2 * Half)
  IN IF word < Half THEN word ELSE word - 2 * Half

(* Mutant of Delay: the shift alone. *)
DelayUnlimited(over) == Min({Cap, Shifted(Base, over - 1)})

(* How long failure number over past the free ones blocks. *)
Delay(over) ==
  IF over < ShiftLimit THEN Min({Cap, Shifted(Base, over - 1)}) ELSE Cap

(* Mutant of Forgotten: it is the shortest delay that is waited for. *)
ForgottenEarly(f, lag) == f.quiet - lag > Base

(* An hour without failures has passed. *)
Forgotten(f, lag) == f.quiet - lag > Forget

Without(entries, names) == [n \in DOMAIN entries \ names |-> entries[n]]

Swept(entries, lag) ==
  Without(entries, {n \in DOMAIN entries : Forgotten(entries[n], lag)})

(* Wait: how long name must wait, and the entries, less a forgotten one. *)
Blocked(entries, name, lag) ==
  /\ name \in DOMAIN entries
  /\ ~Forgotten(entries[name], lag)
  /\ entries[name].left + lag > 0

Waited(entries, name, lag) ==
  IF name \in DOMAIN entries /\ Forgotten(entries[name], lag)
  THEN Without(entries, {name}) ELSE entries

(* The entry after one more failure. *)
Counted(f, lag) ==
  LET count == Min({MaxCount, f.count + 1})
      over == count - Free
  IN [count |-> count, quiet |-> lag,
      left |-> IF over > 0 THEN Delay(over) - lag ELSE f.left]

Fresh == [count |-> 0, quiet |-> 0, left |-> -MaxLag]

(* Fail: a new name takes a place in the table, swept first when there is   *)
(* none, and is not recorded when there still is none.                      *)
Failed(entries, name, lag) ==
  LET known == name \in DOMAIN entries
      room == IF ~known /\ Cardinality(DOMAIN entries) >= MaxKeys
              THEN Swept(entries, lag) ELSE entries
      f == IF known /\ ~Forgotten(entries[name], lag) THEN entries[name]
           ELSE Fresh
  IN IF ~known /\ Cardinality(DOMAIN room) >= MaxKeys THEN room
     ELSE [n \in DOMAIN room \cup {name} |->
             IF n = name THEN Counted(f, lag) ELSE room[n]]

(* One unit of time passes. *)
Older(entries) ==
  [n \in DOMAIN entries |->
     [entries[n] EXCEPT !.quiet = Min({MaxQuiet, @ + 1}),
                        !.left = Max({-MaxLag, @ - 1})]]
=============================================================================

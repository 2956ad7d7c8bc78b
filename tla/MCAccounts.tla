----------------------------- MODULE MCAccounts -----------------------------
(***************************************************************************)
(* Accounts for TLC: up to three accounts, which may be of one name,       *)
(* created at once or one after the other was deleted; two devices and two *)
(* requests.  No action tells one table of owned rows from another, and    *)
(* one stands for all.                                                     *)
(***************************************************************************)
EXTENDS Accounts, TLC

Symmetry ==
  Permutations(Request) \cup Permutations(Name) \cup Permutations(Device)
=============================================================================

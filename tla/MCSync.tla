------------------------------- MODULE MCSync -------------------------------
(***************************************************************************)
(* Sync for TLC: one device that keeps pulling, beside the retrying        *)
(* clients of MCUploadRetry.  MaxFailures bounds the requests cut off, the *)
(* restarts and the pulls lost, together.                                  *)
(*                                                                         *)
(* Fairness: handlers and the pulling device take their next step; an      *)
(* upload of a snapshot that is accepted is sent again until it is         *)
(* answered.  No client has to upload anything new.                        *)
(***************************************************************************)
EXTENDS MCUploadRetry, Sync

syncRetryVars == <<syncVars, failures>>

MCSyncInit == FailInit /\ SyncInit

Lose ==
  /\ failures < MaxFailures
  /\ failures' = failures + 1
  /\ LosePull

Read == Reader /\ UNCHANGED failures

MCSyncNext ==
  \/ RetryNext /\ Beside
  \/ Read
  \/ Lose

Resend(u) ==
  /\ u.counter <= Mark(u.origin)
  /\ \E r \in Request : Send(r, u)
  /\ Beside

SyncSpec ==
  /\ MCSyncInit /\ [][MCSyncNext]_syncRetryVars
  /\ WF_syncRetryVars(Read)
  /\ \A r \in Request : WF_syncRetryVars(Work(r) /\ Beside)
  /\ \A u \in Uploads : u.snapshot => SF_syncRetryVars(Resend(u))

(* Honest clients, as few as a pull can get stuck on, liveness being dear   *)
(* to check: a snapshot of b stands for the head of a's stream, whose       *)
(* second packet fills a page alone, and a's own snapshot covers that one   *)
(* in turn.                                                                 *)
SyncUploads ==
  {Packet(a, 1, p, {}), Packet(a, 2, q, {}),
   Snapshot(b, 1, p, CoverAB(1, 1), {}), Snapshot(a, 3, p, CoverAB(3, 1), {})}

ASSUME SyncUploadsAssumption == Honest(SyncUploads) /\ CoversItself(SyncUploads)

ARank == [d \in Device |-> IF d = a THEN 1 ELSE 2]
=============================================================================

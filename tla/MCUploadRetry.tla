---------------------------- MODULE MCUploadRetry ----------------------------
(***************************************************************************)
(* Upload with clients that retry.  A device sends a plain packet when it  *)
(* is the next of its stream, and again as long as it is stored; it goes   *)
(* on re-sending its snapshots: it has not seen the 201.  Requests are cut *)
(* off and the relay restarts at most MaxFailures times, at any statement. *)
(*                                                                         *)
(* Fairness: a handler that can take its next statement takes it (the Go   *)
(* scheduler runs it, busy_timeout queues it for the write lock), and a    *)
(* client that can always get through again eventually does.  Nothing is   *)
(* assumed of when failures happen, only that they stop.                   *)
(***************************************************************************)
EXTENDS MCUpload, UploadFailures

ASSUME RetryUploadsAssumption == OneDeclaration(RetryUploads)

Send(r, u) ==
  /\ u.snapshot \/ u.counter <= Mark(u.origin) + 1
  /\ Kept(u)
  /\ Receive(r, u)
  /\ UNCHANGED failures

SendBlob(r, id) ==
  /\ id \notin blobs
  /\ ReceiveBlob(r, id)
  /\ UNCHANGED failures

Work(r) == Serve(r) /\ UNCHANGED failures

RetryNext ==
  \/ \E r \in Request :
       \/ \E u \in Uploads : Send(r, u)
       \/ \E id \in Blob : SendBlob(r, id)
       \/ Work(r)
  \/ Fail

RetrySpec ==
  /\ FailInit /\ [][RetryNext]_failVars
  /\ \A r \in Request : WF_failVars(Work(r))
  /\ \A u \in Uploads :
       u.snapshot => SF_failVars(\E r \in Request : Send(r, u))

-----------------------------------------------------------------------------

Accepted(u) == u.snapshot /\ u.counter <= Mark(u.origin)

(* The prune runs for an already-held slot too: a client that keeps         *)
(* re-sending an accepted snapshot gets every packet it covers deleted for  *)
(* good, however many attempts were cut off between two statements.         *)
RetryReclaimsPackets ==
  \A u \in Uploads : \A d \in Device :
    Accepted(u) ~> [](Below(packets, d, Clip(u, d)) = {})
=============================================================================

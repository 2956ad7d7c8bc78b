--------------------------- MODULE UploadFailures ---------------------------
(***************************************************************************)
(* Upload with the failures counted.  A failure is a request that is cut   *)
(* off between two statements, or a restart, which cuts off every request. *)
(* It keeps what the statements before it wrote and loses what the ones    *)
(* after it would have: for a snapshot, the space its prune was to earn.   *)
(***************************************************************************)
EXTENDS UploadClients

CONSTANT MaxFailures   \* bound: how many failures happen

VARIABLE failures

failVars == <<vars, failures>>

Fail ==
  /\ failures < MaxFailures
  /\ failures' = failures + 1
  /\ Restart \/ \E r \in Request : Cancel(r)

FailInit == Init /\ failures = 0

FailNext == (NextSteady /\ UNCHANGED failures) \/ Fail

SpecFail == FailInit /\ [][FailNext]_failVars

(* An upload that adds no reference to a packet that is gone: it is new, or *)
(* its packet is still stored, or it declares no blob.                      *)
Kept(u) ==
  \/ u.counter > Mark(u.origin) \/ u.counter \in Counters(u.origin)
  \/ u.blobs = {}

KeptNext ==
  \/ /\ \E r \in Request :
          \/ \E u \in Uploads : Kept(u) /\ Receive(r, u)
          \/ \E id \in Blob : ReceiveBlob(r, id)
          \/ Serve(r)
     /\ UNCHANGED failures
  \/ Fail

SpecKept == FailInit /\ [][KeptNext]_failVars

(* Every upload of a slot declares the same blobs. *)
OneDeclaration(uploads) ==
  \A u, v \in uploads : SameSlot(u, v) => u.blobs = v.blobs

-----------------------------------------------------------------------------
(* Properties of requests that come one after the other.                    *)

(* The quota of an account at rest.  What CoveredBytes credited to a        *)
(* snapshot, PruneCovered frees, unless a failure comes between; and then   *)
(* the account is over by that snapshot alone, however often the same rows  *)
(* are credited again before a prune gets through.                          *)
RestWithinQuota ==
  Idle => UserStorageBytes <= UserQuotaBytes + failures * LargestSize

(* packet_blobs says which blobs each stored packet declared: no row of it  *)
(* names a packet that is gone and keeps a blob alive for it.               *)
RefsOfStoredPackets ==
  Idle /\ failures = 0 => \A ref \in refs : ref.counter \in Counters(ref.origin)

(* A client can re-send what the relay holds: the upload of a packet that   *)
(* is stored is not refused for a blob that is not, although the blobs are  *)
(* checked before the slot is looked at.                                    *)
ResendOfStoredServed ==
  failures = 0 =>
    \A r \in Request : req[r].pc = "missing" =>
      req[r].up.counter \notin Counters(req[r].up.origin)

(* A stored packet has the blobs its upload declared.  The promise is over  *)
(* the declarations, which MissingBlobs checked and recordPacketBlobs still *)
(* has to record.  The exception is a failure between the INSERT and that   *)
(* record: the packet is stored, nothing says what it declared, and until   *)
(* its client re-sends it collectBlobs may take those blobs.                *)
StoredPacketHasItsBlobs ==
  \A row \in packets : \A u \in Uploads : SameSlot(row, u) =>
    \A id \in u.blobs :
      \/ id \in blobs
      \/ /\ failures > 0
         /\ [origin |-> u.origin, counter |-> u.counter, blob |-> id] \notin refs

(* The promise as the comment in uploadPacket gives it, without exception:  *)
(* "stored packet => its blobs are stored".                                 *)
DeclaredBlobsStored ==
  \A row \in packets : \A u \in Uploads :
    SameSlot(row, u) => u.blobs \subseteq blobs
=============================================================================

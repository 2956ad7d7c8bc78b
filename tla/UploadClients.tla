---------------------------- MODULE UploadClients ----------------------------
(***************************************************************************)
(* What the clients of an account add to Upload: which uploads fit         *)
(* together, the order they are sent in, and what the relay promises under *)
(* each such assumption.  The relay checks none of these assumptions.      *)
(***************************************************************************)
EXTENDS UploadInvariant

SameSlot(u, v) == u.origin = v.origin /\ u.counter = v.counter

(* A packet has one body, whoever uploads it: a carrier's copy of a         *)
(* snapshot differs from it in the declarations alone.                      *)
OneBodyPerSlot(uploads) ==
  \A u, v \in uploads : SameSlot(u, v) => u.payload = v.payload

(* A snapshot that covers another one holds what that one holds, so it      *)
(* covers all that one covers, and it was not there to be covered by it.    *)
CoversNest(uploads) ==
  \A u, v \in uploads :
    u.snapshot /\ v.snapshot /\ ~SameSlot(u, v)
               /\ u.covers[v.origin] >= v.counter =>
      /\ \A d \in Device : v.covers[d] <= u.covers[d]
      /\ v.covers[u.origin] < u.counter

(* A snapshot holds its own stream up to itself. *)
CoversItself(uploads) ==
  \A u \in uploads : u.snapshot => u.covers[u.origin] >= u.counter

(* The uploads of clients that follow the protocol. *)
Honest(uploads) == OneBodyPerSlot(uploads) /\ CoversNest(uploads)

-----------------------------------------------------------------------------
(* Honest clients.                                                          *)

(* Counter n of d's stream is readable, as itself or inside a stored        *)
(* snapshot that covers it, and that is flagged as one: pull puts it first. *)
Readable(d, n) ==
  \/ n \in Counters(d)
  \/ \E u \in Uploads : /\ d \in Covered(u) /\ Clip(u, d) >= n
                        /\ \E row \in Held(u.origin) :
                             /\ row.counter = u.counter
                             /\ row.payload = u.payload /\ row.snap

(* Nothing accepted is lost: under honest clients, a packet that was        *)
(* accepted is still readable, whatever PruneCovered deleted, for whom and  *)
(* in whatever order, and wherever a prune was cut off.                     *)
NothingLost == \A d \in Device : \A n \in 1 .. Mark(d) : Readable(d, n)

-----------------------------------------------------------------------------
(* Clients that upload each stream in order: no counter beyond the next one *)
(* is ever sent.                                                            *)

NextInOrder ==
  \/ \E r \in Request :
       \/ \E u \in Uploads : u.counter <= Mark(u.origin) + 1 /\ Receive(r, u)
       \/ \E id \in Blob : ReceiveBlob(r, id)
       \/ Serve(r)
       \/ Cancel(r)
  \/ Restart

SpecInOrder == Init /\ [][NextInOrder]_vars

LargestSize == Max({Size[z] : z \in Payload \cup Blob})

(* The checks and the insert are not atomic, so every concurrent request    *)
(* but the first may carry the account one body over its quota.             *)
QuotaOvershoot ==
  UserStorageBytes <= UserQuotaBytes + (Cardinality(Request) - 1) * LargestSize

(* The number of streams is only passed by the requests that raced with the *)
(* last one admitted.                                                       *)
StreamOvershoot == StreamCount <= MaxStreamsPerUser + Cardinality(Request) - 1

-----------------------------------------------------------------------------
(* No request is cut off and the relay does not stop. *)

NextSteady ==
  \E r \in Request :
    \/ \E u \in Uploads : Receive(r, u)
    \/ \E id \in Blob : ReceiveBlob(r, id)
    \/ Serve(r)

Idle == \A r \in Request : req[r].pc = "idle"
=============================================================================

------------------------------- MODULE Upload -------------------------------
(***************************************************************************)
(* The write path of one account: POST /api/v2/changes/ (uploadPacket with *)
(* InsertPacket and PruneCovered) and PUT /api/v2/blobs/{id}/ (putBlob),   *)
(* over the account's rows in packets, stream_marks, blobs, packet_blobs.  *)
(*                                                                         *)
(* The grain is the SQL statement.  SQLite runs each statement atomically  *)
(* (one write lock, autocommit), but neither handler opens a transaction,  *)
(* so the statements of concurrent requests interleave freely, and a       *)
(* request can be cut off between any two of them: its context is          *)
(* cancelled when the client goes away, a statement can fail with          *)
(* SQLITE_BUSY, the process can crash.  Everything a handler does between  *)
(* two statements is local to it and belongs to the step of the first.     *)
(***************************************************************************)
EXTENDS Naturals, FiniteSets, FiniteSetsExt, Functions

CONSTANTS
  Device,              \* origin device ids of the account
  Blob,                \* blob ids
  Payload,             \* packet bodies
  Request,             \* handler goroutines that may run at the same time
  None,                \* no upload, no device
  Uploads,             \* the packet uploads clients may send
  Size,                \* length in bytes of each payload and each blob
  UserQuotaBytes,      \* NOO_USER_QUOTA_BYTES, 0 for no quota
  MaxStreamsPerUser,   \* NOO_MAX_STREAMS_PER_USER, 0 for no limit
  MinFreeDiskBytes     \* NOO_MIN_FREE_DISK_BYTES, 0 for no disk guard

(* One upload: the slot, the body, the X-Noo-Snapshot-Covers declaration    *)
(* (snapshot is TRUE when the header is there, covers is 0 for a device it  *)
(* does not name) and the X-Noo-Blobs declaration.                          *)
UploadType ==
  [origin : Device, counter : Nat \ {0}, payload : Payload,
   snapshot : BOOLEAN, covers : [Device -> Nat], blobs : SUBSET Blob]

ASSUME UploadsAssumption == Uploads \subseteq UploadType
ASSUME SizeAssumption == Size \in [Payload \cup Blob -> Nat]
ASSUME NoneAssumption == None \notin Uploads /\ None \notin Device
ASSUME LimitsAssumption ==
  {UserQuotaBytes, MaxStreamsPerUser, MinFreeDiskBytes} \subseteq Nat

VARIABLES
  packets,   \* rows of packets: [origin, counter, payload, snap]
  marks,     \* stream_marks.high_water of each device, 0 for no row
  blobs,     \* the blob ids held
  refs,      \* rows of packet_blobs: [origin, counter, blob]
  req        \* the locals of each handler

tables == <<packets, marks, blobs, refs>>
vars == <<tables, req>>

PacketRow ==
  [origin : Device, counter : Nat \ {0}, payload : Payload, snap : BOOLEAN]
RefRow == [origin : Device, counter : Nat \ {0}, blob : Blob]

Answers == {"missing", "full", "gap", "ack"}
Stages ==
  {"idle", "hasblob", "checkmark", "streams", "covered", "quota", "insert",
   "raise", "held", "record", "flag", "prune", "reassert", "count",
   "delpackets", "delrefs", "garbage", "collect",
   "puthas", "putquota", "put"} \cup Answers

Handler ==
  [pc : Stages,                  \* the next statement
   up : Uploads \cup {None},     \* the upload served, None for a blob PUT
   todo : SUBSET Blob,           \* ids still ahead in a loop over blob ids
   devs : SUBSET Device,         \* devices still ahead in a loop over covers
   at : Device \cup {None},      \* the device PruneCovered is working on
   mark : Nat,                   \* the last StreamMark, while it is used
   freed : SUBSET PacketRow,     \* the rows CoveredBytes has counted so far
   stored : BOOLEAN,             \* InsertPacket's result: inserted
   pruned : BOOLEAN,             \* result.Packets > 0
   arrived : Nat]                \* history: the mark when the upload arrived

Blank ==
  [pc |-> "idle", up |-> None, todo |-> {}, devs |-> {}, at |-> None,
   mark |-> 0, freed |-> {}, stored |-> FALSE, pruned |-> FALSE, arrived |-> 0]

TypeOK ==
  /\ packets \subseteq PacketRow
  /\ marks \in [Device -> Nat]
  /\ blobs \subseteq Blob
  /\ refs \subseteq RefRow
  /\ req \in [Request -> Handler]

Init ==
  /\ packets = {}
  /\ marks = [d \in Device |-> 0]
  /\ blobs = {}
  /\ refs = {}
  /\ req = [r \in Request |-> Blank]

-----------------------------------------------------------------------------
(* Queries.                                                                 *)

Held(d) == {row \in packets : row.origin = d}
Counters(d) == {row.counter : row \in Held(d)}

(* StreamMark: the greater of what is stored and what is remembered. *)
Mark(d) == Max({0, marks[d]} \cup Counters(d))

(* StreamCount: streams with a mark or a stored packet. *)
StreamCount == Cardinality({d \in Device : marks[d] > 0 \/ Held(d) # {}})

Bytes(rows) == SumFunctionOnSet([row \in rows |-> Size[row.payload]], rows)

(* UserStorageBytes: packet payloads plus blobs. *)
UserStorageBytes == Bytes(packets) + SumFunctionOnSet(Size, blobs)

(* The blobs no packet_blobs row declares. *)
Garbage == {id \in blobs : \A ref \in refs : ref.blob # id}

(* Mutant of Clip: coverage equal to the upload's own counter is kept. *)
ClipLate(u, d) ==
  IF d = u.origin /\ u.covers[d] > u.counter THEN u.counter - 1
                                             ELSE u.covers[d]

(* A declared counter, clipped so that it never reaches the upload itself. *)
Clip(u, d) ==
  IF d = u.origin /\ u.covers[d] >= u.counter THEN u.counter - 1
                                              ELSE u.covers[d]

(* The devices the loops over covers do not skip outright. *)
Covered(u) == {d \in Device : u.snapshot /\ Clip(u, d) >= 1}

(* Mutant of Below: the bound alone, not what is under it. *)
BelowAlone(rows, d, n) == {row \in rows : row.origin = d /\ row.counter = n}

(* Every row of a set of rows at or below counter n of d's stream. *)
Below(rows, d, n) == {row \in rows : row.origin = d /\ row.counter <= n}

(* Mutant of UpTo: an exclusive bound. *)
UpToExclusive(h) == Min({Clip(h.up, h.at), h.mark}) - 1

(* PruneCovered's upTo for the device at hand, once the mark is read. *)
UpTo(h) == Min({Clip(h.up, h.at), h.mark})

-----------------------------------------------------------------------------
(* Control.                                                                 *)

(* Request r is at one stage and its locals become those of handler h. *)
Step(r, from, h) == req[r].pc = from /\ req' = [req EXCEPT ![r] = h]

Goto(r, from, to) == Step(r, from, [req[r] EXCEPT !.pc = to])

(* checkPacketStorage's checks after the disk check, those switched on. *)
ToQuota(u) ==
  IF UserQuotaBytes = 0 THEN "insert"
  ELSE IF Covered(u) # {} THEN "covered" ELSE "quota"

ToStreams(u) ==
  IF u.counter = 1 /\ MaxStreamsPerUser > 0 THEN "streams" ELSE ToQuota(u)

ToPrune(u) == IF Covered(u) = {} THEN "ack" ELSE "prune"

(* Mutant of ToFlag: an upload of a held slot is answered at once. *)
ToFlagOnInsert(u, inserted) == IF inserted THEN ToPrune(u) ELSE "ack"

(* What follows recordPacketBlobs: the held branch raises the flag first. *)
ToFlag(u, inserted) ==
  IF u.snapshot /\ ~inserted THEN "flag" ELSE ToPrune(u)

ToRecord(u, inserted) ==
  IF u.blobs # {} THEN "record" ELSE ToFlag(u, inserted)

-----------------------------------------------------------------------------
(* uploadPacket up to the insert.                                           *)

(* The request is parsed and its body read; no table is touched yet. *)
Receive(r, u) ==
  /\ Step(r, "idle",
          [Blank EXCEPT !.pc = IF u.blobs # {} THEN "hasblob" ELSE "checkmark",
                        !.up = u, !.todo = u.blobs, !.devs = Covered(u),
                        !.arrived = Mark(u.origin)])
  /\ UNCHANGED tables

(* Mutant of HasBlob: the ids are looked up and the misses forgotten. *)
HasBlobUnchecked(r) ==
  \E id \in req[r].todo :
    /\ Step(r, "hasblob",
            [req[r] EXCEPT !.todo = @ \ {id},
               !.pc = IF req[r].todo = {id} THEN "checkmark" ELSE "hasblob"])
    /\ UNCHANGED tables

(* MissingBlobs, one HasBlob at a time.  It goes on after a miss, but only  *)
(* to list the other missing ids in the 409.                                *)
HasBlob(r) ==
  \E id \in req[r].todo \cap blobs :
    /\ Step(r, "hasblob",
            [req[r] EXCEPT !.todo = @ \ {id},
               !.pc = IF req[r].todo = {id} THEN "checkmark" ELSE "hasblob"])
    /\ UNCHANGED tables

MissingBlob(r) ==
  /\ Goto(r, "hasblob", "missing")
  /\ req[r].todo \ blobs # {}
  /\ UNCHANGED tables

(* checkPacketStorage reads the mark: only the next counter of the stream   *)
(* is new data and meets the limits.                                        *)
ReadMark(r, to) ==
  /\ Step(r, "checkmark",
          [req[r] EXCEPT !.pc = to, !.mark = Mark(req[r].up.origin)])
  /\ UNCHANGED tables

PassOldOrGap(r) ==
  /\ ReadMark(r, "insert")
  /\ req[r].up.counter # Mark(req[r].up.origin) + 1

(* Mutant of CheckNew: a slot already held is checked too. *)
CheckNewAndOld(r) ==
  /\ ReadMark(r, ToStreams(req[r].up))
  /\ req[r].up.counter <= Mark(req[r].up.origin) + 1

CheckNew(r) ==
  /\ ReadMark(r, ToStreams(req[r].up))
  /\ req[r].up.counter = Mark(req[r].up.origin) + 1

(* checkDisk: how much is free is not up to this account. *)
RefuseDisk(r) ==
  /\ MinFreeDiskBytes > 0
  /\ ReadMark(r, "full")
  /\ req[r].up.counter = Mark(req[r].up.origin) + 1

(* Mutant of CheckStreams: the limit itself lets one more in. *)
CheckStreamsOneMore(r) ==
  /\ Goto(r, "streams", ToQuota(req[r].up))
  /\ StreamCount <= MaxStreamsPerUser
  /\ UNCHANGED tables

CheckStreams(r) ==
  /\ Goto(r, "streams", ToQuota(req[r].up))
  /\ StreamCount < MaxStreamsPerUser
  /\ UNCHANGED tables

RefuseStream(r) ==
  /\ Goto(r, "streams", "full")
  /\ StreamCount >= MaxStreamsPerUser
  /\ UNCHANGED tables

(* checkQuota is only asked for growth: a credit that pays for the upload   *)
(* admits it.                                                               *)
ToCredited(u, rows) == IF Size[u.payload] > Bytes(rows) THEN "quota" ELSE "insert"

(* One device of CoveredBytes.  After the last one, devs is ready for the   *)
(* loop of PruneCovered.                                                    *)
CoveredBytes(r) ==
  \E d \in req[r].devs :
    LET u == req[r].up
        rows == req[r].freed \cup Below(packets, d, Clip(u, d))
        last == req[r].devs = {d}
    IN /\ Step(r, "covered",
               [req[r] EXCEPT
                  !.pc = IF last THEN ToCredited(u, rows) ELSE "covered",
                  !.freed = rows,
                  !.devs = IF last THEN Covered(u) ELSE @ \ {d}])
       /\ UNCHANGED tables

(* Mutant of FitsQuota: asks whether the account is full, not whether it    *)
(* would be.                                                                *)
FitsQuotaBefore(size, rows) ==
  UserStorageBytes <= UserQuotaBytes + Bytes(rows)

(* checkQuota: used + delta > quota, with delta = size - freed. *)
FitsQuota(size, rows) ==
  UserStorageBytes + size <= UserQuotaBytes + Bytes(rows)

CheckQuota(r) ==
  /\ Goto(r, "quota", IF FitsQuota(Size[req[r].up.payload], req[r].freed)
                      THEN "insert" ELSE "full")
  /\ UNCHANGED tables

-----------------------------------------------------------------------------
(* InsertPacket.                                                            *)

(* Mutant of InsertPacket: the row is stored under the mark it was read at. *)
InsertPacketAtMark(r) ==
  LET u == req[r].up IN
  /\ Step(r, "insert", [req[r] EXCEPT !.pc = "raise", !.stored = TRUE])
  /\ Mark(u.origin) = u.counter - 1
  /\ packets' = packets \cup {[origin |-> u.origin, counter |-> Mark(u.origin),
                               payload |-> u.payload, snap |-> u.snapshot]}
  /\ UNCHANGED <<marks, blobs, refs>>

(* Mutant of InsertPacket: a slot already filled is filled again. *)
InsertPacketAgain(r) ==
  LET u == req[r].up IN
  /\ Step(r, "insert", [req[r] EXCEPT !.pc = "raise", !.stored = TRUE])
  /\ Mark(u.origin) >= u.counter - 1
  /\ packets' = packets \cup {[origin |-> u.origin, counter |-> u.counter,
                               payload |-> u.payload, snap |-> u.snapshot]}
  /\ UNCHANGED <<marks, blobs, refs>>

(* The guarded INSERT ... SELECT fills the slot one past the mark. *)
InsertPacket(r) ==
  LET u == req[r].up IN
  /\ Step(r, "insert", [req[r] EXCEPT !.pc = "raise", !.stored = TRUE])
  /\ Mark(u.origin) = u.counter - 1
  /\ packets' = packets \cup {[origin |-> u.origin, counter |-> u.counter,
                               payload |-> u.payload, snap |-> u.snapshot]}
  /\ UNCHANGED <<marks, blobs, refs>>

InsertNothing(r) ==
  /\ Goto(r, "insert", "held")
  /\ Mark(req[r].up.origin) # req[r].up.counter - 1
  /\ UNCHANGED tables

(* raiseMark never lowers. *)
Raised(d, n) == [marks EXCEPT ![d] = IF @ < n THEN n ELSE @]

(* On to recordPacketBlobs, after either outcome of the insert. *)
Record(r, from, inserted) ==
  Step(r, from, [req[r] EXCEPT !.pc = ToRecord(req[r].up, inserted),
                               !.todo = req[r].up.blobs, !.mark = 0])

RaiseMark(r) ==
  /\ Record(r, "raise", TRUE)
  /\ marks' = Raised(req[r].up.origin, req[r].up.counter)
  /\ UNCHANGED <<packets, blobs, refs>>

(* Mutant of ReadHeld: a gap goes on to record and prune. *)
ReadHeldOrGap(r) ==
  /\ Record(r, "held", FALSE)
  /\ UNCHANGED tables

(* Nothing was inserted: StreamMark, a second statement, tells a held slot  *)
(* from a gap.                                                              *)
ReadHeld(r) ==
  /\ Record(r, "held", FALSE)
  /\ req[r].up.counter <= Mark(req[r].up.origin)
  /\ UNCHANGED tables

(* Mutant of ReadGap: the top of the stream counts as a gap. *)
ReadGapAtTop(r) ==
  LET held == Mark(req[r].up.origin) IN
  /\ Step(r, "held", [req[r] EXCEPT !.pc = "gap", !.mark = held])
  /\ req[r].up.counter >= held
  /\ UNCHANGED tables

(* The 409 names held + 1 as the next counter. *)
ReadGap(r) ==
  LET held == Mark(req[r].up.origin) IN
  /\ Step(r, "held", [req[r] EXCEPT !.pc = "gap", !.mark = held])
  /\ req[r].up.counter > held
  /\ UNCHANGED tables

(* One INSERT OR IGNORE of recordPacketBlobs. *)
RecordBlob(r) ==
  LET u == req[r].up IN
  \E id \in req[r].todo :
    /\ Step(r, "record",
            [req[r] EXCEPT !.todo = @ \ {id},
               !.pc = IF req[r].todo = {id} THEN ToFlag(u, req[r].stored)
                                            ELSE "record"])
    /\ refs' = refs \cup {[origin |-> u.origin, counter |-> u.counter,
                           blob |-> id]}
    /\ UNCHANGED <<packets, marks, blobs>>

(* flagSnapshot: the row, if it is still there, is a snapshot from now on. *)
FlagSnapshot(r) ==
  LET u == req[r].up
      slot == {row \in Held(u.origin) : row.counter = u.counter}
  IN /\ Goto(r, "flag", ToPrune(u))
     /\ packets' =
          (packets \ slot) \cup {[row EXCEPT !.snap = TRUE] : row \in slot}
     /\ UNCHANGED <<marks, blobs, refs>>

-----------------------------------------------------------------------------
(* PruneCovered: a loop over covers, in the random order of a Go map.       *)

(* The loop is done with device d; p is result.Packets > 0. *)
NextDevice(r, from, d, p) ==
  LET left == req[r].devs \ {d} IN
  Step(r, from, [req[r] EXCEPT !.pc = IF left # {} THEN "prune"
                                      ELSE IF p THEN "garbage" ELSE "ack",
                               !.devs = left, !.at = None, !.mark = 0,
                               !.pruned = p])

ReadCoveredMark(r) ==
  \E d \in req[r].devs :
    /\ Step(r, "prune",
            [req[r] EXCEPT !.pc = "reassert", !.at = d, !.mark = Mark(d)])
    /\ Mark(d) > 0
    /\ UNCHANGED tables

(* A device nothing was ever held for must not get a mark. *)
SkipUnknown(r) ==
  \E d \in req[r].devs :
    /\ NextDevice(r, "prune", d, req[r].pruned)
    /\ Mark(d) = 0
    /\ UNCHANGED tables

(* Mutant of Reassert: the mark is taken to be there already. *)
ReassertNothing(r) == Goto(r, "reassert", "count") /\ UNCHANGED tables

Reassert(r) ==
  /\ Goto(r, "reassert", "count")
  /\ marks' = Raised(req[r].at, req[r].mark)
  /\ UNCHANGED <<packets, blobs, refs>>

CountSome(r) ==
  /\ Goto(r, "count", "delpackets")
  /\ Below(packets, req[r].at, UpTo(req[r])) # {}
  /\ UNCHANGED tables

CountNone(r) ==
  /\ NextDevice(r, "count", req[r].at, req[r].pruned)
  /\ Below(packets, req[r].at, UpTo(req[r])) = {}
  /\ UNCHANGED tables

DeletePackets(r) ==
  /\ Goto(r, "delpackets", "delrefs")
  /\ packets' = packets \ Below(packets, req[r].at, UpTo(req[r]))
  /\ UNCHANGED <<marks, blobs, refs>>

(* Mutant of DeleteRefs: it clears the device up to the mark. *)
DeleteRefsToMark(r) ==
  /\ NextDevice(r, "delrefs", req[r].at, TRUE)
  /\ refs' = refs \ Below(refs, req[r].at, req[r].mark)
  /\ UNCHANGED <<packets, marks, blobs>>

(* Mutant of DeleteRefs: an exclusive bound, unlike that of DeletePackets. *)
DeleteRefsBefore(r) ==
  /\ NextDevice(r, "delrefs", req[r].at, TRUE)
  /\ refs' = refs \ Below(refs, req[r].at, UpTo(req[r]) - 1)
  /\ UNCHANGED <<packets, marks, blobs>>

DeleteRefs(r) ==
  /\ NextDevice(r, "delrefs", req[r].at, TRUE)
  /\ refs' = refs \ Below(refs, req[r].at, UpTo(req[r]))
  /\ UNCHANGED <<packets, marks, blobs>>

(* collectBlobs: a SELECT, and a DELETE only if the SELECT saw garbage. *)
CountGarbage(r) ==
  /\ Goto(r, "garbage", IF Garbage = {} THEN "ack" ELSE "collect")
  /\ UNCHANGED tables

CollectBlobs(r) ==
  /\ Goto(r, "collect", "ack")
  /\ blobs' = blobs \ Garbage
  /\ UNCHANGED <<packets, marks, refs>>

-----------------------------------------------------------------------------
(* putBlob: checkBlobStorage, skipped when no limit is set, then PutBlob.   *)

ReceiveBlob(r, id) ==
  /\ Step(r, "idle",
          [Blank EXCEPT !.pc = IF MinFreeDiskBytes = 0 /\ UserQuotaBytes = 0
                               THEN "put" ELSE "puthas",
                        !.todo = {id}])
  /\ UNCHANGED tables

(* A blob already held passes; a new one meets the disk and quota checks. *)
PutHas(r) ==
  /\ Goto(r, "puthas", IF req[r].todo \subseteq blobs \/ UserQuotaBytes = 0
                       THEN "put" ELSE "putquota")
  /\ UNCHANGED tables

RefusePutDisk(r) ==
  /\ MinFreeDiskBytes > 0
  /\ Goto(r, "puthas", "full")
  /\ req[r].todo \cap blobs = {}
  /\ UNCHANGED tables

PutQuota(r) ==
  \E id \in req[r].todo :
    /\ Goto(r, "putquota", IF FitsQuota(Size[id], {}) THEN "put" ELSE "full")
    /\ UNCHANGED tables

PutBlob(r) ==
  /\ Goto(r, "put", "ack")
  /\ blobs' = blobs \cup req[r].todo
  /\ UNCHANGED <<packets, marks, refs>>

-----------------------------------------------------------------------------
(* Answers and failures.                                                    *)

Respond(r) ==
  /\ req[r].pc \in Answers
  /\ req' = [req EXCEPT ![r] = Blank]
  /\ UNCHANGED tables

(* The request stops between two statements: the client disconnects and     *)
(* r.Context() is cancelled, or the next statement fails and the answer is  *)
(* a 500.  What its statements have written so far stays.                   *)
Cancel(r) ==
  /\ req[r].pc \notin Answers \cup {"idle"}
  /\ req' = [req EXCEPT ![r] = Blank]
  /\ UNCHANGED tables

(* The process stops and starts again: every request is gone, and migrate   *)
(* seeds the marks from what is stored before the first request is served.  *)
Restart ==
  /\ marks' = [d \in Device |-> Mark(d)]
  /\ req' = [r \in Request |-> Blank]
  /\ UNCHANGED <<packets, blobs, refs>>

-----------------------------------------------------------------------------

Check(r) ==
  \/ HasBlob(r) \/ MissingBlob(r)
  \/ PassOldOrGap(r) \/ CheckNew(r) \/ RefuseDisk(r)
  \/ CheckStreams(r) \/ RefuseStream(r)
  \/ CoveredBytes(r) \/ CheckQuota(r)

Insert(r) ==
  \/ InsertPacket(r) \/ RaiseMark(r)
  \/ InsertNothing(r) \/ ReadHeld(r) \/ ReadGap(r)
  \/ RecordBlob(r) \/ FlagSnapshot(r)

Prune(r) ==
  \/ ReadCoveredMark(r) \/ SkipUnknown(r) \/ Reassert(r)
  \/ CountSome(r) \/ CountNone(r) \/ DeletePackets(r) \/ DeleteRefs(r)
  \/ CountGarbage(r) \/ CollectBlobs(r)

Put(r) == PutHas(r) \/ RefusePutDisk(r) \/ PutQuota(r) \/ PutBlob(r)

(* What a handler does once its request is in. *)
Serve(r) == Check(r) \/ Insert(r) \/ Prune(r) \/ Put(r) \/ Respond(r)

Next ==
  \/ \E r \in Request :
       \/ \E u \in Uploads : Receive(r, u)
       \/ \E id \in Blob : ReceiveBlob(r, id)
       \/ Serve(r)
       \/ Cancel(r)
  \/ Restart

Spec == Init /\ [][Next]_vars

-----------------------------------------------------------------------------
(* Properties.                                                              *)

(* The refinement mapping to Mailbox: the tops of the streams and what is   *)
(* held of them, snapshot flags aside.                                      *)
top == [d \in Device |-> Mark(d)]

Row(row) ==
  [origin |-> row.origin, counter |-> row.counter, payload |-> row.payload]

Box == INSTANCE Mailbox WITH
  top <- top, rows <- {Row(row) : row \in packets}

(* The store implements the mailbox: whatever interleaves, crashes or is    *)
(* re-sent, InsertPacket fills exactly the next slot of a stream, bytes are *)
(* never replaced, and PruneCovered drops a prefix without lowering what    *)
(* StreamMark answers, so no counter is ever issued twice.                  *)
MailboxSpec == Box!Spec

(* A slot of the packets table identifies one packet, and no row is above   *)
(* the top of its stream.                                                   *)
OnePacketPerSlot == Box!OnePacketPerSlot

(* What is held of a stream is its unbroken tail: whatever pruned it, and   *)
(* however often the prune was cut off, no packet is missing between two.   *)
TailUnbroken == Box!NoHoles

(* The blast radius of PruneCovered: an accepted packet is missing only if  *)
(* some snapshot upload whose own slot was accepted declared it covered,    *)
(* whatever the requests that pruned it raced with or died of.              *)
PrunedWasCovered ==
  \A d \in Device : \A c \in 1 .. Mark(d) :
    \/ c \in Counters(d)
    \/ \E u \in Uploads :
         d \in Covered(u) /\ Clip(u, d) >= c /\ u.counter <= Mark(u.origin)

(* A 200 or 201 tells the truth: the slot counts as accepted, and if the    *)
(* row is still there it has every reference the upload declared and, for a *)
(* snapshot, the flag pull ordering keys on, whoever inserted it.           *)
AckTellsTruth ==
  \A r \in Request : req[r].pc = "ack" /\ req[r].up # None =>
    LET u == req[r].up IN
    /\ u.counter <= Mark(u.origin)
    /\ \A row \in Held(u.origin) : row.counter = u.counter =>
         /\ u.snapshot => row.snap
         /\ \A b \in u.blobs :
              [origin |-> u.origin, counter |-> u.counter, blob |-> b] \in refs

(* Declarations are only ever added to: a packet_blobs row goes only when   *)
(* its packet is gone, so a crash between the two DELETEs of PruneCovered   *)
(* never leaves a stored packet whose blob nothing keeps alive.             *)
RefsOutlivePackets ==
  [][\A ref \in refs \ refs' : \A row \in packets' :
       ~(row.origin = ref.origin /\ row.counter = ref.counter)]_vars

(* A slot that was held when the upload arrived is never refused for space, *)
(* however full the account and whatever happens in the meantime.           *)
ResendNeverRefused ==
  \A r \in Request : req[r].pc = "full" /\ req[r].up # None =>
    req[r].up.counter > req[r].arrived

(* A "Non-contiguous counter" 409 is given only to an upload that was past  *)
(* the next counter when it arrived.                                        *)
GapWasReal ==
  \A r \in Request : req[r].pc = "gap" => req[r].up.counter > req[r].arrived + 1

=============================================================================

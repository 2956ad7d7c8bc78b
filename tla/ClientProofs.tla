---------------------------- MODULE ClientProofs ----------------------------
(***************************************************************************)
(* What the relay promises its clients: the limits on what they store, the *)
(* blobs of what they stored, that nothing accepted is lost, and that a    *)
(* device that pulls gets it, for every set of devices, blobs, payloads,   *)
(* requests and uploads.  Each theorem names what it asks of the clients.  *)
(***************************************************************************)
EXTENDS UploadProofs, UploadFailures, Sync, SumProofs, SequenceTheorems

-----------------------------------------------------------------------------
(* The way of a request through the statements.                             *)

(* Where a statement may lead. *)
Arrows ==
  ({"hasblob"} \X {"hasblob", "checkmark", "missing"})
  \cup ({"checkmark"} \X {"streams", "covered", "quota", "insert", "full"})
  \cup ({"streams"} \X {"covered", "quota", "insert", "full"})
  \cup ({"covered"} \X {"covered", "quota", "insert"})
  \cup ({"quota"} \X {"insert", "full"})
  \cup ({"insert"} \X {"raise", "held"})
  \cup ({"raise"} \X {"record", "flag", "prune", "ack"})
  \cup ({"held"} \X {"gap", "record", "flag", "prune", "ack"})
  \cup ({"record"} \X {"record", "flag", "prune", "ack"})
  \cup ({"flag"} \X {"prune", "ack"})
  \cup ({"prune"} \X {"reassert", "prune", "garbage", "ack"})
  \cup ({"reassert"} \X {"count"})
  \cup ({"count"} \X {"delpackets", "prune", "garbage", "ack"})
  \cup ({"delpackets"} \X {"delrefs"})
  \cup ({"delrefs"} \X {"prune", "garbage", "ack"})
  \cup ({"garbage"} \X {"collect", "ack"})
  \cup ({"collect"} \X {"ack"})
  \cup ({"puthas"} \X {"put", "putquota", "full"})
  \cup ({"putquota"} \X {"put", "full"})
  \cup ({"put"} \X {"ack"})

(* Stages only an upload that covers something gets to from elsewhere. *)
CoverStages == {"covered", "prune"}

(* Request r went from one stage to another, with its upload; no other      *)
(* request moved.                                                           *)
Walks(r) ==
  /\ <<req[r].pc, req'[r].pc>> \in Arrows
  /\ req'[r].up = req[r].up
  /\ req[r].pc # "covered" => req'[r].freed = req[r].freed
  /\ req'[r].pc \in CoverStages =>
       \/ Covered(req[r].up) # {}
       \/ req[r].pc \in {"covered", "prune", "count", "delrefs"}
  /\ req'[r].pc = "flag" => req[r].up.snapshot
  /\ \A s \in Request \ {r} : req'[s] = req[s]

LEMMA WalkGoto ==
  ASSUME TypeOK, NEW r \in Request, NEW from, NEW to, Goto(r, from, to),
         <<from, to>> \in Arrows,
         to \in CoverStages => Covered(req[r].up) # {}, to # "flag"
  PROVE  Walks(r) /\ req'[r].todo = req[r].todo
<1>1. /\ req[r].pc = from /\ req'[r] = [req[r] EXCEPT !.pc = to]
      /\ \A s \in Request \ {r} : req'[s] = req[s]
  BY StepMoves DEF Goto
<1> QED BY <1>1 DEF Handler, TypeOK, Walks

LEMMA NextWays ==
  ASSUME NEW u, NEW inserted, NEW rows
  PROVE  /\ ToQuota(u) \in {"insert", "covered", "quota"}
         /\ ToStreams(u) \in {"streams", "insert", "covered", "quota"}
         /\ ToCredited(u, rows) \in {"quota", "insert"}
         /\ ToPrune(u) \in {"ack", "prune"}
         /\ ToFlag(u, inserted) \in {"flag", "ack", "prune"}
         /\ ToRecord(u, inserted) \in {"record", "flag", "ack", "prune"}
         /\ "flag" \in {ToFlag(u, inserted), ToRecord(u, inserted)} => u.snapshot
         /\ Covered(u) = {} =>
              {ToQuota(u), ToStreams(u), ToPrune(u), ToFlag(u, inserted),
               ToRecord(u, inserted)} \cap CoverStages = {}
BY DEF CoverStages, ToQuota, ToStreams, ToCredited, ToPrune, ToFlag, ToRecord

LEMMA CheckWalks ==
  ASSUME TypeOK, NEW r \in Request, Check(r)
  PROVE  Walks(r)
<1> DEFINE u == req[r].up
<1>h. req[r] \in Handler
  BY DEF TypeOK
<1>m. ASSUME NEW to \in {"streams", "insert", "covered", "quota", "full"},
             ReadMark(r, to), to \in CoverStages => Covered(u) # {}
      PROVE  Walks(r)
  <2> DEFINE h2 == [req[r] EXCEPT !.pc = to, !.mark = Mark(u.origin)]
  <2>1. Step(r, "checkmark", h2)
    BY <1>m DEF ReadMark
  <2>2. h2.pc = to /\ h2.up = u /\ h2.freed = req[r].freed
    BY <1>h DEF Handler
  <2> HIDE DEF h2
  <2> QED BY <1>m, <2>1, <2>2, StepMoves DEF Walks, Arrows
<1>1. CASE HasBlob(r)
  <2> DEFINE to(id) == IF req[r].todo = {id} THEN "checkmark" ELSE "hasblob"
             left(id) == req[r].todo \ {id}
             h2(id) == [req[r] EXCEPT !.todo = left(id), !.pc = to(id)]
  <2>1. PICK id \in req[r].todo : Step(r, "hasblob", h2(id))
    BY <1>1 DEF HasBlob
  <2>2. h2(id).pc = to(id) /\ h2(id).up = u
        /\ h2(id).freed = req[r].freed
    <3> HIDE DEF to, left
    <3> QED BY <1>h DEF Handler
  <2>3. to(id) \in {"checkmark", "hasblob"}
    OBVIOUS
  <2> HIDE DEF h2, to
  <2> QED BY <2>1, <2>2, <2>3, StepMoves DEF Walks, Arrows, CoverStages
<1>2. CASE MissingBlob(r)
  BY <1>2, WalkGoto DEF MissingBlob, Arrows, CoverStages
<1>3. CASE PassOldOrGap(r) \/ CheckNew(r) \/ RefuseDisk(r)
  BY <1>3, <1>m, NextWays DEF PassOldOrGap, CheckNew, RefuseDisk, CoverStages
<1>4. CASE CheckStreams(r) \/ RefuseStream(r)
  <2>1. PICK to \in {"insert", "covered", "quota", "full"} :
          Goto(r, "streams", to) /\ (to \in CoverStages => Covered(u) # {})
    BY <1>4, NextWays DEF CheckStreams, RefuseStream, CoverStages
  <2> QED BY <2>1, WalkGoto DEF Arrows, CoverStages
<1>5. CASE CheckQuota(r)
  <2>1. PICK to \in {"insert", "full"} : Goto(r, "quota", to)
    BY <1>5 DEF CheckQuota
  <2> QED BY <2>1, WalkGoto DEF Arrows, CoverStages
<1>6. CASE CoveredBytes(r)
  <2> DEFINE rows(d) == req[r].freed \cup Below(packets, d, Clip(u, d))
             to(d) == IF req[r].devs = {d} THEN ToCredited(u, rows(d))
                                           ELSE "covered"
             left(d) == IF req[r].devs = {d} THEN Covered(u)
                                             ELSE req[r].devs \ {d}
             h2(d) == [req[r] EXCEPT !.pc = to(d), !.freed = rows(d),
                                     !.devs = left(d)]
  <2>1. PICK d \in req[r].devs : Step(r, "covered", h2(d))
    BY <1>6 DEF CoveredBytes
  <2>2. h2(d).pc = to(d) /\ h2(d).up = u
    <3> HIDE DEF to, left, rows
    <3> QED BY <1>h DEF Handler
  <2>3. to(d) \in {"quota", "insert", "covered"}
    BY NextWays
  <2> HIDE DEF h2, to
  <2> QED BY <2>1, <2>2, <2>3, StepMoves DEF Walks, Arrows, CoverStages
<1> QED BY <1>1, <1>2, <1>3, <1>4, <1>5, <1>6 DEF Check

LEMMA InsertWalks ==
  ASSUME TypeOK, NEW r \in Request, Insert(r)
  PROVE  Walks(r)
<1> DEFINE u == req[r].up
<1>h. req[r] \in Handler
  BY DEF TypeOK
<1>r. ASSUME NEW from \in {"raise", "held"}, NEW inserted,
             Record(r, from, inserted)
      PROVE  Walks(r)
  <2> DEFINE to == ToRecord(u, inserted)
             h2 == [req[r] EXCEPT !.pc = to, !.todo = u.blobs, !.mark = 0]
  <2>1. Step(r, from, h2)
    BY <1>r DEF Record
  <2>2. h2.pc = to /\ h2.up = u /\ h2.freed = req[r].freed
    <3> HIDE DEF to
    <3> QED BY <1>h DEF Handler
  <2>3. /\ to \in {"record", "flag", "ack", "prune"}
        /\ to \in CoverStages => Covered(u) # {}
        /\ to = "flag" => u.snapshot
    BY NextWays
  <2> HIDE DEF h2, to
  <2> QED BY <2>1, <2>2, <2>3, StepMoves DEF Walks, Arrows, CoverStages
<1>1. CASE InsertPacket(r)
  <2> DEFINE h2 == [req[r] EXCEPT !.pc = "raise", !.stored = TRUE]
  <2>1. Step(r, "insert", h2)
    BY <1>1 DEF InsertPacket
  <2>2. h2.pc = "raise" /\ h2.up = u /\ h2.freed = req[r].freed
    BY <1>h DEF Handler
  <2> HIDE DEF h2
  <2> QED BY <2>1, <2>2, StepMoves DEF Walks, Arrows, CoverStages
<1>2. CASE InsertNothing(r)
  BY <1>2, WalkGoto DEF InsertNothing, Arrows, CoverStages
<1>3. CASE RaiseMark(r) \/ ReadHeld(r)
  BY <1>3, <1>r DEF RaiseMark, ReadHeld
<1>4. CASE ReadGap(r)
  <2> DEFINE h2 == [req[r] EXCEPT !.pc = "gap", !.mark = Mark(u.origin)]
  <2>1. Step(r, "held", h2)
    BY <1>4 DEF ReadGap
  <2>2. h2.pc = "gap" /\ h2.up = u /\ h2.freed = req[r].freed
    BY <1>h DEF Handler
  <2> HIDE DEF h2
  <2> QED BY <2>1, <2>2, StepMoves DEF Walks, Arrows, CoverStages
<1>5. CASE RecordBlob(r)
  <2> DEFINE to(id) == IF req[r].todo = {id} THEN ToFlag(u, req[r].stored)
                                             ELSE "record"
             left(id) == req[r].todo \ {id}
             h2(id) == [req[r] EXCEPT !.todo = left(id), !.pc = to(id)]
  <2>1. PICK id \in req[r].todo : Step(r, "record", h2(id))
    BY <1>5 DEF RecordBlob
  <2>2. h2(id).pc = to(id) /\ h2(id).up = u
        /\ h2(id).freed = req[r].freed
    <3> HIDE DEF to, left
    <3> QED BY <1>h DEF Handler
  <2>3. /\ to(id) \in {"record", "flag", "ack", "prune"}
        /\ to(id) \in CoverStages => Covered(u) # {}
        /\ to(id) = "flag" => u.snapshot
    BY NextWays DEF CoverStages
  <2> HIDE DEF h2, to
  <2> QED BY <2>1, <2>2, <2>3, StepMoves DEF Walks, Arrows, CoverStages
<1>6. CASE FlagSnapshot(r)
  BY <1>6, NextWays, WalkGoto DEF FlagSnapshot, Arrows, CoverStages
<1> QED BY <1>1, <1>2, <1>3, <1>4, <1>5, <1>6 DEF Insert

LEMMA PruneWalks ==
  ASSUME TypeOK, NEW r \in Request, Prune(r)
  PROVE  Walks(r)
<1>h. req[r] \in Handler
  BY DEF TypeOK
<1>n. ASSUME NEW from \in {"prune", "count", "delrefs"}, NEW d, NEW p,
             NextDevice(r, from, d, p)
      PROVE  Walks(r)
  <2> DEFINE left == req[r].devs \ {d}
             to == IF left # {} THEN "prune" ELSE IF p THEN "garbage" ELSE "ack"
             h2 == [req[r] EXCEPT !.pc = to, !.devs = left, !.at = None,
                                  !.mark = 0, !.pruned = p]
  <2>1. Step(r, from, h2)
    BY <1>n DEF NextDevice
  <2>2. h2.pc = to /\ h2.up = req[r].up /\ h2.freed = req[r].freed
    <3> HIDE DEF to, left
    <3> QED BY <1>h DEF Handler
  <2>3. to \in {"prune", "garbage", "ack"}
    OBVIOUS
  <2> HIDE DEF h2, to
  <2> QED BY <2>1, <2>2, <2>3, StepMoves DEF Walks, Arrows, CoverStages
<1>1. CASE ReadCoveredMark(r)
  <2> DEFINE h2(d) == [req[r] EXCEPT !.pc = "reassert", !.at = d,
                                     !.mark = Mark(d)]
  <2>1. PICK d \in req[r].devs : Step(r, "prune", h2(d))
    BY <1>1 DEF ReadCoveredMark
  <2>2. h2(d).pc = "reassert" /\ h2(d).up = req[r].up
        /\ h2(d).freed = req[r].freed
    BY <1>h DEF Handler
  <2> HIDE DEF h2
  <2> QED BY <2>1, <2>2, StepMoves DEF Walks, Arrows, CoverStages
<1>2. CASE SkipUnknown(r) \/ CountNone(r) \/ DeleteRefs(r)
  BY <1>2, <1>n DEF SkipUnknown, CountNone, DeleteRefs
<1>3. CASE Reassert(r) \/ CountSome(r) \/ DeletePackets(r) \/ CollectBlobs(r)
  BY <1>3, WalkGoto
     DEF Reassert, CountSome, DeletePackets, CollectBlobs, Arrows, CoverStages
<1>4. CASE CountGarbage(r)
  <2>1. PICK to \in {"ack", "collect"} : Goto(r, "garbage", to)
    BY <1>4 DEF CountGarbage
  <2> QED BY <2>1, WalkGoto DEF Arrows, CoverStages
<1> QED BY <1>1, <1>2, <1>3, <1>4 DEF Prune

LEMMA PutWalks ==
  ASSUME TypeOK, NEW r \in Request, Put(r)
  PROVE  Walks(r) /\ req'[r].todo = req[r].todo
<1>1. CASE PutHas(r) \/ RefusePutDisk(r)
  <2>1. PICK to \in {"put", "putquota", "full"} : Goto(r, "puthas", to)
    BY <1>1 DEF PutHas, RefusePutDisk
  <2> QED BY <2>1, WalkGoto DEF Arrows, CoverStages
<1>2. CASE PutQuota(r)
  <2>1. PICK to \in {"put", "full"} : Goto(r, "putquota", to)
    BY <1>2 DEF PutQuota
  <2> QED BY <2>1, WalkGoto DEF Arrows, CoverStages
<1>3. CASE PutBlob(r)
  BY <1>3, WalkGoto DEF PutBlob, Arrows, CoverStages
<1> QED BY <1>1, <1>2, <1>3 DEF Put

(* Which statements a stage has. *)
LEMMA StageActions ==
  ASSUME NEW r \in Request, Check(r) \/ Insert(r) \/ Prune(r) \/ Put(r)
  PROVE  /\ req[r].pc = "checkmark" =>
              PassOldOrGap(r) \/ CheckNew(r) \/ RefuseDisk(r)
         /\ req[r].pc = "streams" => CheckStreams(r) \/ RefuseStream(r)
         /\ req[r].pc = "quota" => CheckQuota(r)
         /\ req[r].pc = "insert" => InsertPacket(r) \/ InsertNothing(r)
         /\ req[r].pc = "puthas" => PutHas(r) \/ RefusePutDisk(r)
         /\ req[r].pc = "putquota" => PutQuota(r)
         /\ req[r].pc = "put" => PutBlob(r)
BY DEF Check, Insert, Prune, Put, HasBlob, MissingBlob, PassOldOrGap,
        CheckNew, RefuseDisk, ReadMark, CheckStreams, RefuseStream, CoveredBytes,
        CheckQuota, InsertPacket, InsertNothing, FlagSnapshot, RaiseMark, ReadHeld,
        ReadGap, Record, RecordBlob, ReadCoveredMark, SkipUnknown, NextDevice,
        Reassert, CountSome, CountNone, DeletePackets, DeleteRefs, CountGarbage,
        CollectBlobs, PutHas, RefusePutDisk, PutQuota, PutBlob, Goto, Step

(* A request that comes in or ends, and nothing else. *)
Fresh(r) ==
  /\ req'[r].pc \in {"idle", "hasblob", "checkmark", "put", "puthas"}
  /\ UserQuotaBytes > 0 => req'[r].pc # "put"
  /\ \A s \in Request \ {r} : req'[s] = req[s]
  /\ UNCHANGED tables

LEMMA FreshStep ==
  ASSUME TypeOK, NEW r \in Request,
         \/ Respond(r) \/ Cancel(r)
         \/ \E u \in Uploads : Receive(r, u)
         \/ \E id \in Blob : ReceiveBlob(r, id)
  PROVE  Fresh(r)
<1>1. CASE Respond(r) \/ Cancel(r)
  BY <1>1 DEF Respond, Cancel, TypeOK, Blank, Fresh
<1>2. ASSUME NEW u \in Uploads, Receive(r, u)
      PROVE  Fresh(r)
  <2> DEFINE to == IF u.blobs # {} THEN "hasblob" ELSE "checkmark"
             h2 == [Blank EXCEPT !.pc = to, !.up = u, !.todo = u.blobs,
                      !.devs = Covered(u), !.arrived = Mark(u.origin)]
  <2>1. Step(r, "idle", h2)
    BY <1>2 DEF Receive
  <2>2. h2.pc = to
    <3> HIDE DEF to
    <3> QED BY DEF Blank
  <2> HIDE DEF h2
  <2> QED BY <1>2, <2>1, <2>2, StepMoves DEF Receive, Fresh
<1>3. ASSUME NEW id \in Blob, ReceiveBlob(r, id)
      PROVE  Fresh(r)
  <2> DEFINE to == IF MinFreeDiskBytes = 0 /\ UserQuotaBytes = 0
                   THEN "put" ELSE "puthas"
             h2 == [Blank EXCEPT !.pc = to, !.todo = {id}]
  <2>1. Step(r, "idle", h2)
    BY <1>3 DEF ReceiveBlob
  <2>2. h2.pc = to
    <3> HIDE DEF to
    <3> QED BY DEF Blank
  <2>3. to \in {"put", "puthas"} /\ (UserQuotaBytes > 0 => to # "put")
    OBVIOUS
  <2> HIDE DEF h2, to
  <2> QED BY <1>3, <2>1, <2>2, <2>3, StepMoves DEF ReceiveBlob, Fresh
<1> QED BY <1>1, <1>2, <1>3

LEMMA StepCases ==
  ASSUME TypeOK, [Next]_vars
  PROVE  \/ UNCHANGED vars
         \/ Restart
         \/ \E r \in Request : Fresh(r)
         \/ \E r \in Request :
              Walks(r) /\ (Check(r) \/ Insert(r) \/ Prune(r) \/ Put(r))
BY FreshStep, CheckWalks, InsertWalks, PruneWalks, PutWalks DEF Next, Serve

-----------------------------------------------------------------------------
(* Declared blobs.                                                          *)

(* Stages between the check of the declared blobs and the end of            *)
(* recordPacketBlobs.                                                       *)
Checked ==
  {"checkmark", "streams", "covered", "quota", "insert", "raise", "held",
   "record"}

(* The blobs the handler has looked up are still there. *)
BlobsHeld(h, held) ==
  h.up \in Uploads =>
    /\ h.pc = "hasblob" => h.up.blobs \ h.todo \subseteq held
    /\ h.pc \in Checked => h.up.blobs \subseteq held
    /\ h.pc = "record" => h.todo \subseteq h.up.blobs

(* No reference dangles, of a stored packet or of a pruned one. *)
BlobInv ==
  /\ \A ref \in refs : ref.blob \in blobs
  /\ \A r \in Request : BlobsHeld(req[r], blobs)

LEMMA BlobsGrow ==
  ASSUME NEW h, NEW held, NEW held2, held \subseteq held2, BlobsHeld(h, held)
  PROVE  BlobsHeld(h, held2)
BY DEF BlobsHeld

(* The handler's own step, when no blob goes. *)
LEMMA WalkHolds ==
  ASSUME TypeOK, HandlersOK, NEW r \in Request, Walks(r), BlobsHeld(req[r], blobs),
         Check(r) \/ Insert(r) \/ Prune(r) \/ Put(r)
  PROVE  BlobsHeld(req'[r], blobs)
<1> DEFINE u == req[r].up
<1>h. req[r] \in Handler /\ (req[r].pc \in UploadStages => u \in Uploads)
  BY HandlerFacts DEF HandlerOK, ServesUpload
<1>1. CASE HasBlob(r)
  <2> DEFINE to(id) == IF req[r].todo = {id} THEN "checkmark" ELSE "hasblob"
             left(id) == req[r].todo \ {id}
             h2(id) == [req[r] EXCEPT !.todo = left(id), !.pc = to(id)]
  <2>1. PICK id \in req[r].todo \cap blobs : Step(r, "hasblob", h2(id))
    BY <1>1 DEF HasBlob
  <2>2. h2(id).pc = to(id) /\ h2(id).up = u /\ h2(id).todo = left(id)
    <3> HIDE DEF to, left
    <3> QED BY <1>h DEF Handler
  <2>3. req'[r] = h2(id) /\ req[r].pc = "hasblob"
    BY <2>1, StepMoves
  <2>4. BlobsHeld(h2(id), blobs)
    <3> HIDE DEF h2
    <3> QED BY <2>1, <2>2, <2>3 DEF BlobsHeld, Checked
  <2> QED BY <2>3, <2>4
<1>2. ASSUME NEW from, NEW inserted, Record(r, from, inserted)
      PROVE  req'[r].todo = u.blobs
  <2> DEFINE to == ToRecord(u, inserted)
             h2 == [req[r] EXCEPT !.pc = to, !.todo = u.blobs, !.mark = 0]
  <2>1. Step(r, from, h2)
    BY <1>2 DEF Record
  <2>2. h2.todo = u.blobs
    <3> HIDE DEF to
    <3> QED BY <1>h DEF Handler
  <2> HIDE DEF h2
  <2> QED BY <2>1, <2>2, StepMoves
<1>3. CASE RecordBlob(r)
  <2> DEFINE to(id) == IF req[r].todo = {id} THEN ToFlag(u, req[r].stored)
                                             ELSE "record"
             left(id) == req[r].todo \ {id}
             h2(id) == [req[r] EXCEPT !.todo = left(id), !.pc = to(id)]
  <2>1. PICK id \in req[r].todo : Step(r, "record", h2(id))
    BY <1>3 DEF RecordBlob
  <2>2. h2(id).todo = left(id)
    <3> HIDE DEF to, left
    <3> QED BY <1>h DEF Handler
  <2>3. req'[r].todo \subseteq req[r].todo /\ req[r].pc = "record"
    BY <2>1, <2>2, StepMoves
  <2>4. req'[r].pc # "hasblob"
    BY <2>3 DEF Walks, Arrows
  <2> QED BY <2>3, <2>4 DEF BlobsHeld, Checked, Walks
<1>4. CASE RaiseMark(r) \/ ReadHeld(r)
  <2>1. req'[r].todo = u.blobs
    BY <1>2, <1>4 DEF RaiseMark, ReadHeld
  <2>2. req[r].pc \in {"raise", "held"}
    BY <1>4 DEF RaiseMark, ReadHeld, Record, Step
  <2> QED BY <2>1, <2>2 DEF BlobsHeld, Checked, Walks, Arrows
<1>5. ASSUME req[r].pc \notin {"hasblob", "record", "raise", "held"}
      PROVE  BlobsHeld(req'[r], blobs)
  BY <1>5 DEF BlobsHeld, Checked, Walks, Arrows
<1>6. CASE MissingBlob(r) \/ ReadGap(r)
  <2>1. CASE MissingBlob(r)
    BY <2>1, GotoMoves DEF MissingBlob, BlobsHeld, Checked
  <2>2. CASE ReadGap(r)
    <3> DEFINE h2 == [req[r] EXCEPT !.pc = "gap", !.mark = Mark(u.origin)]
    <3>1. Step(r, "held", h2)
      BY <2>2 DEF ReadGap
    <3>2. h2.pc = "gap"
      BY <1>h DEF Handler
    <3> HIDE DEF h2
    <3> QED BY <3>1, <3>2, StepMoves DEF BlobsHeld, Checked
  <2> QED BY <1>6, <2>1, <2>2
<1>7. \/ HasBlob(r) \/ MissingBlob(r) \/ RaiseMark(r) \/ ReadHeld(r)
      \/ ReadGap(r) \/ RecordBlob(r)
      \/ req[r].pc \notin {"hasblob", "record", "raise", "held"}
  BY DEF Check, Insert, Prune, Put, PassOldOrGap, CheckNew, RefuseDisk, ReadMark,
         CheckStreams, RefuseStream, CoveredBytes, CheckQuota, InsertPacket,
         InsertNothing, FlagSnapshot, ReadCoveredMark, SkipUnknown, NextDevice,
         Reassert, CountSome, CountNone, DeletePackets, DeleteRefs, CountGarbage,
         CollectBlobs, PutHas, RefusePutDisk, PutQuota, PutBlob, Goto, Step
<1> QED BY <1>1, <1>3, <1>4, <1>5, <1>6, <1>7

(* The statements that take blobs away or add references. *)
LEMMA BlobsMove ==
  ASSUME [Next]_vars
  PROVE  /\ blobs \subseteq blobs' \/ \E r \in Request : CollectBlobs(r)
         /\ refs' \subseteq refs \/ \E r \in Request : RecordBlob(r)
<1>1. ASSUME NEW r \in Request, Check(r) \/ Put(r) \/ Respond(r) \/ Cancel(r)
      PROVE  blobs \subseteq blobs' /\ refs' = refs
  BY <1>1
     DEF Check, HasBlob, MissingBlob, PassOldOrGap, CheckNew, RefuseDisk, ReadMark,
         CheckStreams, RefuseStream, CoveredBytes, CheckQuota,
         Put, PutHas, RefusePutDisk, PutQuota, PutBlob, Respond, Cancel, tables
<1>2. ASSUME NEW r \in Request, Insert(r)
      PROVE  blobs' = blobs /\ (refs' = refs \/ RecordBlob(r))
  BY <1>2
     DEF Insert, InsertPacket, InsertNothing, RaiseMark, ReadHeld, ReadGap,
         RecordBlob, FlagSnapshot, tables
<1>3. ASSUME NEW r \in Request, Prune(r)
      PROVE  (blobs' = blobs \/ CollectBlobs(r)) /\ refs' \subseteq refs
  BY <1>3 DEF Prune, ReadCoveredMark, SkipUnknown, Reassert, CountSome, CountNone,
              DeletePackets, DeleteRefs, CountGarbage, CollectBlobs, tables
<1>4. ASSUME NEW r \in Request,
             \/ \E u \in Uploads : Receive(r, u)
             \/ \E id \in Blob : ReceiveBlob(r, id)
      PROVE  blobs' = blobs /\ refs' = refs
  BY <1>4 DEF Receive, ReceiveBlob, tables
<1>5. CASE UNCHANGED vars
  BY <1>5 DEF vars, tables
<1>6. CASE Restart
  BY <1>6 DEF Restart
<1> QED BY <1>1, <1>2, <1>3, <1>4, <1>5, <1>6 DEF Next, Serve

(* What a handler relies on after a step that takes no blob away. *)
LEMMA HoldersStep ==
  ASSUME TypeOK, HandlersOK, BlobInv, [Next]_vars, blobs \subseteq blobs'
  PROVE  \A r \in Request : BlobsHeld(req'[r], blobs')
<1>b. \A r \in Request : BlobsHeld(req[r], blobs')
  BY BlobsGrow DEF BlobInv
<1>n. BlobsHeld(Blank, blobs')
  BY NoneAssumption DEF BlobsHeld, Blank
<1>1. CASE UNCHANGED vars
  BY <1>1, <1>b DEF vars
<1>2. CASE Restart
  BY <1>2, <1>n DEF Restart
<1>3. ASSUME NEW r \in Request, Respond(r) \/ Cancel(r)
      PROVE  \A s \in Request : BlobsHeld(req'[s], blobs')
  BY <1>3, <1>b, <1>n DEF Respond, Cancel, TypeOK
<1>4. ASSUME NEW r \in Request, NEW u \in Uploads, Receive(r, u)
      PROVE  \A s \in Request : BlobsHeld(req'[s], blobs')
  <2> DEFINE to == IF u.blobs # {} THEN "hasblob" ELSE "checkmark"
             h2 == [Blank EXCEPT !.pc = to, !.up = u, !.todo = u.blobs,
                      !.devs = Covered(u), !.arrived = Mark(u.origin)]
  <2>1. Step(r, "idle", h2)
    BY <1>4 DEF Receive
  <2>2. h2.pc = to /\ h2.up = u /\ h2.todo = u.blobs
    <3> HIDE DEF to
    <3> QED BY DEF Blank
  <2>3. to = "hasblob" \/ (to = "checkmark" /\ u.blobs = {})
    OBVIOUS
  <2> HIDE DEF h2, to
  <2>4. BlobsHeld(h2, blobs')
    BY <2>2, <2>3 DEF BlobsHeld, Checked
  <2> QED BY <2>1, <2>4, <1>b, StepMoves
<1>5. ASSUME NEW r \in Request, NEW id \in Blob, ReceiveBlob(r, id)
      PROVE  \A s \in Request : BlobsHeld(req'[s], blobs')
  <2> DEFINE to == IF MinFreeDiskBytes = 0 /\ UserQuotaBytes = 0
                   THEN "put" ELSE "puthas"
             h2 == [Blank EXCEPT !.pc = to, !.todo = {id}]
  <2>1. Step(r, "idle", h2)
    BY <1>5 DEF ReceiveBlob
  <2>2. h2.up = None
    <3> HIDE DEF to
    <3> QED BY DEF Blank
  <2> HIDE DEF h2
  <2>3. BlobsHeld(h2, blobs')
    BY <2>2, NoneAssumption DEF BlobsHeld
  <2> QED BY <2>1, <2>3, <1>b, StepMoves
<1>6. ASSUME NEW r \in Request, Walks(r),
             Check(r) \/ Insert(r) \/ Prune(r) \/ Put(r)
      PROVE  \A s \in Request : BlobsHeld(req'[s], blobs')
  <2>1. BlobsHeld(req'[r], blobs')
    BY <1>6, WalkHolds, BlobsGrow DEF BlobInv
  <2> QED BY <1>6, <1>b, <2>1 DEF Walks
<1> QED BY <1>1, <1>2, <1>3, <1>4, <1>5, <1>6,
           CheckWalks, InsertWalks, PruneWalks, PutWalks DEF Next, Serve

(* Handlers serve one request at a time. *)
OneAtATime == \A r, s \in Request : r = s

LEMMA BlobStep ==
  ASSUME OneAtATime, IInv, BlobInv, [Next]_vars
  PROVE  BlobInv'
<1>1. ASSUME NEW r \in Request, CollectBlobs(r)
      PROVE  BlobInv'
  <2>1. Goto(r, "collect", "ack") /\ blobs' = blobs \ Garbage /\ refs' = refs
    BY <1>1 DEF CollectBlobs
  <2>2. req'[r].pc = "ack"
    BY <2>1, GotoMoves DEF IInv
  <2>3. \A s \in Request : BlobsHeld(req'[s], blobs')
    BY <2>2 DEF OneAtATime, BlobsHeld, Checked
  <2>4. \A ref \in refs : ref.blob \in blobs \ Garbage
    BY DEF BlobInv, Garbage
  <2> QED BY <2>1, <2>3, <2>4 DEF BlobInv
<1>2. ASSUME blobs \subseteq blobs'
      PROVE  BlobInv'
  <2>1. \A r \in Request : BlobsHeld(req'[r], blobs')
    BY <1>2, HoldersStep DEF IInv
  <2>2. \A ref \in refs' : ref.blob \in blobs'
    <3>1. CASE refs' \subseteq refs
      BY <1>2, <3>1 DEF BlobInv
    <3>2. ASSUME NEW r \in Request, RecordBlob(r)
          PROVE  \A ref \in refs' : ref.blob \in blobs'
      <4>1. req[r].pc = "record"
        BY <3>2 DEF RecordBlob, Step
      <4>2. req[r].todo \subseteq blobs
        BY <4>1, ServedType DEF IInv, UploadStages, BlobInv, BlobsHeld, Checked
      <4>3. PICK id \in req[r].todo :
              refs' = refs \cup {[origin |-> req[r].up.origin,
                                  counter |-> req[r].up.counter, blob |-> id]}
        BY <3>2 DEF RecordBlob
      <4> QED BY <1>2, <4>2, <4>3 DEF BlobInv
    <3> QED BY <3>1, <3>2, BlobsMove
  <2> QED BY <2>1, <2>2 DEF BlobInv
<1> QED BY <1>1, <1>2, BlobsMove

-----------------------------------------------------------------------------
(* The limit on streams.                                                    *)

Streams == {d \in Device : marks[d] > 0 \/ Held(d) # {}}

(* Handlers past the check of the stream limit whose stream is still to be  *)
(* opened.                                                                  *)
Opening(r) ==
  /\ req[r].up \in Uploads /\ req[r].up.counter = 1
  /\ req[r].pc \in {"covered", "quota", "insert"}
  /\ Mark(req[r].up.origin) = 0

Openers == {r \in Request : Opening(r)}

(* Whoever is admitted last finds a stream free, and at that moment all the *)
(* other handlers may have been admitted.                                   *)
StreamInv ==
  /\ IsFiniteSet(Streams)
  /\ Cardinality(Streams) + Cardinality(Openers) <=
       MaxStreamsPerUser + Cardinality(Request) - 1

(* A stream is one whose mark is above 0. *)
LEMMA StreamsByMark ==
  ASSUME TypeOK, HasTop
  PROVE  \A d \in Device : d \in Streams <=> Mark(d) > 0
<1> SUFFICES ASSUME NEW d \in Device PROVE d \in Streams <=> Mark(d) > 0
  OBVIOUS
<1>1. /\ Mark(d) \in Nat /\ Mark(d) \in {0, marks[d]} \cup Counters(d)
      /\ marks[d] \in Nat /\ Mark(d) >= marks[d]
      /\ \A n \in Counters(d) : Mark(d) >= n
  BY MarkIsTop DEF Tops, TypeOK
<1>2. \A row \in Held(d) : row.counter \in Nat \ {0} /\ row.counter \in Counters(d)
  BY DEF TypeOK, PacketRow, Held, Counters
<1>3. Held(d) # {} => Mark(d) > 0
  BY <1>1, <1>2
<1>4. Counters(d) # {} => Held(d) # {}
  BY DEF Counters
<1> QED BY <1>1, <1>3, <1>4 DEF Streams

LEMMA StreamsAfter ==
  ASSUME TypeOK', HasTop'
  PROVE  Streams' = {d \in Device : Mark(d)' > 0}
<1> SUFFICES ASSUME NEW d \in Device PROVE d \in Streams' <=> Mark(d)' > 0
  BY DEF Streams
<1>1. PICK top1 \in Tops(d)' : \A m \in Tops(d)' : top1 >= m
  BY DEF HasTop
<1>2. Mark(d)' = top1
  BY <1>1, NewTop
<1>3. /\ marks'[d] \in Nat
      /\ \A row \in Held(d)' : row.counter \in Nat \ {0}
                               /\ row.counter \in Counters(d)'
  BY DEF TypeOK, PacketRow, Held, Counters
<1>4. \A n \in Counters(d)' : \E row \in Held(d)' : row.counter = n
  BY DEF Counters
<1>5. /\ top1 \in Nat /\ top1 >= marks'[d]
      /\ \A n \in Counters(d)' : top1 >= n
      /\ top1 = 0 \/ top1 = marks'[d] \/ top1 \in Counters(d)'
  BY <1>1, <1>3, <1>4 DEF Tops
<1>6. Held(d)' # {} => top1 > 0
  BY <1>3, <1>5
<1>7. d \in Streams' <=> marks'[d] > 0 \/ Held(d)' # {}
  BY DEF Streams
<1> QED BY <1>2, <1>3, <1>4, <1>5, <1>6, <1>7

(* A step that leaves the tops alone admits no one to open a stream, or     *)
(* there was room for one more.                                             *)
LEMMA OpenersStep ==
  ASSUME MaxStreamsPerUser > 0, IInv, [Next]_vars, IInv',
         \A d \in Device : Mark(d)' >= Mark(d)
  PROVE  Openers' \subseteq Openers \/ StreamCount < MaxStreamsPerUser
<1>m. \A r \in Request : \A u \in Uploads :
        /\ u.origin \in Device /\ Mark(u.origin) \in Nat /\ Mark(u.origin)' \in Nat
        /\ Mark(u.origin)' = 0 => Mark(u.origin) = 0
  <2>1. \A u \in Uploads : u.origin \in Device
    BY UploadsAssumption DEF UploadType
  <2>2. \A d \in Device : Mark(d) \in Nat
    BY MarkIsTop DEF IInv
  <2>3. \A d \in Device : Mark(d)' \in Nat
    BY StepGrows DEF IInv, Growth, top
  <2> QED BY <2>1, <2>2, <2>3
<1>s. ASSUME NEW s \in Request, req'[s] = req[s], Opening(s)'
      PROVE  Opening(s)
  BY <1>s, <1>m DEF Opening
<1>1. CASE UNCHANGED vars
  BY <1>1, <1>s DEF vars, Openers
<1>n. ASSUME NEW s \in Request, req'[s].pc \notin {"covered", "quota", "insert"}
      PROVE  ~Opening(s)'
  BY <1>n DEF Opening
<1>2. CASE Restart
  BY <1>2, <1>n DEF Restart, Blank, Openers
<1>3. ASSUME NEW r \in Request, Fresh(r)
      PROVE  Openers' \subseteq Openers
  BY <1>3, <1>n, <1>s DEF Fresh, Openers
<1>4. ASSUME NEW r \in Request, Walks(r),
             Check(r) \/ Insert(r) \/ Prune(r) \/ Put(r),
             ~(StreamCount < MaxStreamsPerUser)
      PROVE  Openers' \subseteq Openers
  <2>1. \A s \in Request \ {r} : Opening(s)' => Opening(s)
    BY <1>4, <1>s DEF Walks
  <2>2. ASSUME Opening(r)'
        PROVE  Opening(r)
    <3> DEFINE u == req[r].up
    <3>1. /\ u \in Uploads /\ u.counter = 1 /\ Mark(u.origin) = 0
          /\ req'[r].pc \in {"covered", "quota", "insert"} /\ req'[r].up = u
      BY <1>4, <1>m, <2>2 DEF Opening, Walks
    <3>2. req[r].pc \in {"checkmark", "streams", "covered", "quota"}
      BY <1>4, <3>1 DEF Walks, Arrows
    <3>3. req[r].pc # "streams"
      <4> SUFFICES ASSUME req[r].pc = "streams" PROVE FALSE
        OBVIOUS
      <4>1. RefuseStream(r)
        BY <1>4, StageActions DEF CheckStreams
      <4>2. req'[r].pc = "full"
        BY <4>1, GotoMoves DEF RefuseStream, IInv
      <4> QED BY <3>1, <4>2
    <3>4. req[r].pc # "checkmark"
      <4> SUFFICES ASSUME req[r].pc = "checkmark" PROVE FALSE
        OBVIOUS
      <4>1. PassOldOrGap(r) \/ CheckNew(r) \/ RefuseDisk(r)
        BY <1>4, StageActions
      <4>2. ~PassOldOrGap(r)
        BY <3>1 DEF PassOldOrGap
      <4>3. ToStreams(u) = "streams"
        BY <3>1 DEF ToStreams
      <4>4. \A to : ReadMark(r, to) => req'[r].pc = to
        BY DEF ReadMark, Step, IInv, TypeOK, Handler
      <4> QED BY <3>1, <4>1, <4>2, <4>3, <4>4 DEF CheckNew, RefuseDisk
    <3> QED BY <3>1, <3>2, <3>3, <3>4 DEF Opening
  <2> QED BY <2>1, <2>2 DEF Openers
<1> QED BY <1>1, <1>2, <1>3, <1>4, StepCases DEF IInv

(* The stream an insert opens was still to be opened, by that handler. *)
LEMMA InsertOpens ==
  ASSUME IInv, [Next]_vars, IInv', NEW r \in Request, InsertsNext(r)
  PROVE  \/ Streams' = Streams
         \/ r \in Openers /\ r \notin Openers'
            /\ \E d : d \notin Streams /\ Streams' = Streams \cup {d}
<1> DEFINE u == req[r].up
<1>1. req[r].pc = "insert" /\ Mark(u.origin) = u.counter - 1
  BY DEF InsertsNext, InsertPacket, Step
<1>2. u \in Uploads /\ u.origin \in Device /\ u.counter \in Nat
  BY <1>1, ServedType DEF UploadStages, IInv
<1>3. \A d \in Device :
        /\ Mark(d) \in Nat
        /\ Mark(d)' = IF d = u.origin THEN Mark(d) + 1 ELSE Mark(d)
  BY MarkIsTop DEF InsertsNext, IInv
<1>4. /\ \A d \in Device : d \in Streams <=> Mark(d) > 0
      /\ Streams' = {d \in Device : Mark(d)' > 0} /\ Streams \subseteq Device
  BY StreamsByMark, StreamsAfter DEF IInv, Streams
<1>5. CASE Mark(u.origin) > 0
  BY <1>2, <1>3, <1>4, <1>5
<1>6. CASE Mark(u.origin) = 0
  <2>1. u.origin \notin Streams /\ Streams' = Streams \cup {u.origin}
    BY <1>2, <1>3, <1>4, <1>6
  <2>2. r \in Openers
    BY <1>1, <1>2, <1>6 DEF Openers, Opening
  <2>3. req'[r].pc = "raise"
    BY DEF InsertsNext, InsertPacket, Step, IInv, TypeOK, Handler
  <2>4. r \notin Openers'
    BY <2>3 DEF Openers, Opening
  <2> QED BY <2>1, <2>2, <2>4
<1> QED BY <1>2, <1>3, <1>5, <1>6

LEMMA StreamStep ==
  ASSUME IsFiniteSet(Request), MaxStreamsPerUser > 0,
         IInv, StreamInv, [Next]_vars, IInv'
  PROVE  StreamInv'
<1> DEFINE n == Cardinality(Request)
           a == Cardinality(Streams)
           b == Cardinality(Openers)
           a2 == Cardinality(Streams')
           b2 == Cardinality(Openers')
<1>1. /\ n \in Nat /\ a \in Nat /\ b \in Nat /\ b2 \in Nat /\ b2 <= n
      /\ MaxStreamsPerUser \in Nat /\ IsFiniteSet(Openers)
      /\ a + b <= MaxStreamsPerUser + n - 1
  <2>1. Openers \in SUBSET Request /\ Openers' \in SUBSET Request
    BY DEF Openers
  <2>2. /\ IsFiniteSet(Openers) /\ IsFiniteSet(Openers')
        /\ Cardinality(Openers') <= n
    BY <2>1, FS_Subset
  <2> QED BY <2>2, FS_CardinalityType, LimitsAssumption DEF StreamInv
<1>2. \A d \in Device : Mark(d)' >= Mark(d)
  BY StepGrows DEF IInv, Growth
<1>3. Openers' \subseteq Openers \/ a < MaxStreamsPerUser
  BY <1>2, OpenersStep DEF StreamCount, Streams
<1>4. Openers' \subseteq Openers => b2 <= b
  BY <1>1, FS_Subset
<1>5. CASE Streams' = Streams
  <2>1. a2 = a /\ IsFiniteSet(Streams')
    BY <1>5 DEF StreamInv
  <2>2. a2 + b2 <= MaxStreamsPerUser + n - 1
    <3> HIDE DEF n, a, b, a2, b2
    <3> QED BY <1>1, <1>3, <1>4, <2>1
  <2> QED BY <2>1, <2>2 DEF StreamInv
<1>6. ASSUME NEW r \in Request, r \in Openers, r \notin Openers',
             NEW d, d \notin Streams, Streams' = Streams \cup {d}
      PROVE  StreamInv'
  <2>1. a2 = a + 1 /\ IsFiniteSet(Streams')
    BY <1>6, FS_AddElement DEF StreamInv
  <2>2. b2 <= n - 1 /\ (Openers' \subseteq Openers => b2 <= b - 1)
    <3>1. /\ IsFiniteSet(Openers \ {r}) /\ IsFiniteSet(Request \ {r})
          /\ Cardinality(Openers \ {r}) = b - 1
          /\ Cardinality(Request \ {r}) = n - 1
      BY <1>1, <1>6, FS_RemoveElement
    <3>2. Openers' \subseteq Request \ {r}
      BY <1>6 DEF Openers
    <3>3. Openers' \subseteq Openers => Openers' \subseteq Openers \ {r}
      BY <1>6
    <3> QED BY <3>1, <3>2, <3>3, FS_Subset
  <2>3. a2 + b2 <= MaxStreamsPerUser + n - 1
    <3> HIDE DEF n, a, b, a2, b2
    <3> QED BY <1>1, <1>3, <2>1, <2>2
  <2> QED BY <2>1, <2>3 DEF StreamInv
<1>7. Streams' = Streams \/ \E r \in Request : InsertsNext(r)
  <2>1. CASE TopsKept
    BY <2>1, StreamsByMark, StreamsAfter DEF TopsKept, IInv, Streams
  <2> QED BY <2>1, TopStep DEF IInv
<1> QED BY <1>5, <1>6, <1>7, InsertOpens

(* NOO_MAX_STREAMS_PER_USER is passed by less than the number of requests    *)
(* served at the same time, in whatever order clients upload.                *)
THEOREM StreamLimitKept ==
  IsFiniteSet(Request) /\ MaxStreamsPerUser > 0 => (Spec => []StreamOvershoot)
<1> SUFFICES ASSUME IsFiniteSet(Request), MaxStreamsPerUser > 0
             PROVE  Spec => []StreamOvershoot
  OBVIOUS
<1>1. Init => StreamInv
  <2> SUFFICES ASSUME Init PROVE StreamInv
    OBVIOUS
  <2>1. Streams = {} /\ Openers = {}
    BY NoneAssumption DEF Init, Streams, Held, Openers, Opening, Blank
  <2> QED BY <2>1, FS_EmptySet, FS_CardinalityType, LimitsAssumption DEF StreamInv
<1>2. IInv /\ StreamInv /\ [Next]_vars /\ IInv' => StreamInv'
  BY StreamStep
<1>3. StreamInv => StreamOvershoot
  <2> SUFFICES ASSUME StreamInv PROVE StreamOvershoot
    OBVIOUS
  <2>1. Openers \in SUBSET Request
    BY DEF Openers
  <2>2. Cardinality(Openers) \in Nat /\ Cardinality(Streams) \in Nat
    BY <2>1, FS_Subset, FS_CardinalityType DEF StreamInv
  <2>3. StreamCount = Cardinality(Streams)
    BY DEF StreamCount, Streams
  <2> QED BY <2>2, <2>3, FS_CardinalityType, LimitsAssumption
          DEF StreamInv, StreamOvershoot
<1> QED BY <1>1, <1>2, <1>3, Invariance, PTL DEF Spec

-----------------------------------------------------------------------------
(* The quota, while nothing frees space.                                    *)

NothingCovers == \A u \in Uploads : Covered(u) = {}

(* Some payload or blob is the largest: the relay reads no body beyond its  *)
(* limit on bodies.                                                         *)
SizesBounded ==
  \E n \in {Size[z] : z \in Payload \cup Blob} :
    \A m \in {Size[z] : z \in Payload \cup Blob} : n >= m

LEMMA LargestFacts ==
  ASSUME SizesBounded
  PROVE  /\ LargestSize \in Nat
         /\ \A z \in Payload \cup Blob : Size[z] \in Nat /\ Size[z] <= LargestSize
<1> DEFINE sizes == {Size[z] : z \in Payload \cup Blob}
<1>1. PICK n \in sizes : \A m \in sizes : n >= m
  BY DEF SizesBounded
<1>2. LargestSize \in sizes /\ \A m \in sizes : LargestSize >= m
  BY <1>1 DEF LargestSize, Max
<1>3. \A z \in Payload \cup Blob : Size[z] \in Nat
  BY SizeAssumption
<1> QED BY <1>2, <1>3

(* A handler that is credited nothing and prunes nothing. *)
CalmHandler(h) ==
  /\ h.freed = {}
  /\ h.pc \notin {"covered", "prune", "reassert", "count", "delpackets",
                  "delrefs", "garbage", "collect"}
  /\ h.pc \in PutStages => \E id \in Blob : h.todo = {id}

(* An upload sent in order is of a filled slot or of the next one. *)
SentInOrder(h, t) ==
  h.up \in Uploads
  /\ h.pc \in {"hasblob", "checkmark", "streams", "quota", "insert"}
    => h.up.counter <= t[h.up.origin] + 1

(* A slot has one row. *)
OneRow ==
  \A x, y \in packets :
    x.origin = y.origin /\ x.counter = y.counter => x = y

SteadyInv ==
  /\ IsFiniteSet(packets) /\ IsFiniteSet(blobs) /\ OneRow
  /\ \A r \in Request : CalmHandler(req[r]) /\ SentInOrder(req[r], top)

(* Bytes that handler h, past its checks, is about to store. *)
DueOf(h, t, held) ==
  IF h.up \in Uploads /\ h.pc = "insert" /\ h.up.counter = t[h.up.origin] + 1
  THEN Size[h.up.payload]
  ELSE IF h.pc = "put" /\ h.todo \cap held = {}
       THEN Size[CHOOSE id \in h.todo : TRUE] ELSE 0

Due == [r \in Request |-> DueOf(req[r], top, blobs)]

(* The bytes stored and those about to be. *)
QuotaInv ==
  UserStorageBytes + SumFunctionOnSet(Due, Request) <=
    UserQuotaBytes + (Cardinality(Request) - 1) * LargestSize

-----------------------------------------------------------------------------

LEMMA InOrderIsNext == [NextInOrder]_vars => [Next]_vars
BY DEF NextInOrder, Next

(* Bytes of a set of rows. *)
LEMMA BytesFacts ==
  ASSUME NEW rows, IsFiniteSet(rows), \A x \in rows : x.payload \in Payload
  PROVE  /\ Bytes(rows) \in Nat
         /\ \A row : row \notin rows /\ row.payload \in Payload =>
              Bytes(rows \cup {row}) = Bytes(rows) + Size[row.payload]
<1> DEFINE f == [x \in rows |-> Size[x.payload]]
<1>1. \A z \in Payload : Size[z] \in Nat
  BY SizeAssumption
<1>2. NatsOn(f, rows) /\ IntsOn(f, rows)
  BY <1>1 DEF NatsOn, IntsOn
<1>3. Bytes(rows) \in Nat
  BY <1>2, SumGrows DEF Bytes
<1>4. ASSUME NEW row, row \notin rows, row.payload \in Payload
      PROVE  Bytes(rows \cup {row}) = Bytes(rows) + Size[row.payload]
  <2> DEFINE more == rows \cup {row}
             f2 == [x \in more |-> Size[x.payload]]
  <2>1. /\ \A x \in rows : f2[x] = f[x]
        /\ f2[row] = Size[row.payload] /\ Size[row.payload] \in Nat
        /\ IntsOn(f2, more)
    BY <1>1, <1>4 DEF IntsOn
  <2>2. Bytes(rows) = SumFunctionOnSet(f, rows)
        /\ Bytes(more) = SumFunctionOnSet(f2, more)
    BY DEF Bytes
  <2> HIDE DEF f, f2
  <2>3. SumFunctionOnSet(f2, rows) = SumFunctionOnSet(f, rows)
    BY <1>2, <2>1, SumSame
  <2>4. SumFunctionOnSet(f2, more) = f2[row] + SumFunctionOnSet(f2, rows)
    BY <1>4, <2>1, SumAdd
  <2> QED BY <1>3, <2>1, <2>2, <2>3, <2>4
<1> QED BY <1>3, <1>4

(* Bytes of rows and of part of them. *)
LEMMA BytesSplit ==
  ASSUME NEW rows, IsFiniteSet(rows), \A x \in rows : x.payload \in Payload,
         NEW part \in SUBSET rows
  PROVE  /\ Bytes(rows) = Bytes(rows \ part) + Bytes(part)
         /\ Bytes(rows) \in Nat /\ Bytes(rows \ part) \in Nat
         /\ Bytes(part) \in Nat
<1> DEFINE f(some) == [x \in some |-> Size[x.payload]]
<1>1. \A z \in Payload : Size[z] \in Nat
  BY SizeAssumption
<1>2. \A some \in SUBSET rows : /\ IntsOn(f(some), some) /\ IntsOn(f(rows), some)
                                /\ \A x \in some : f(some)[x] = f(rows)[x]
  BY <1>1 DEF IntsOn
<1>3. \A some \in SUBSET rows : IsFiniteSet(some) /\ Bytes(some) \in Nat
  <2>1. ASSUME NEW some \in SUBSET rows
        PROVE  IsFiniteSet(some) /\ Bytes(some) \in Nat
    <3>1. IsFiniteSet(some)
      BY FS_Subset
    <3> QED BY <3>1, BytesFacts
  <2> QED BY <2>1
<1>4. ASSUME NEW some \in SUBSET rows
      PROVE  Bytes(some) = SumFunctionOnSet(f(rows), some)
  <2>1. Bytes(some) = SumFunctionOnSet(f(some), some)
    BY DEF Bytes
  <2>2. /\ IsFiniteSet(some) /\ IntsOn(f(rows), some)
        /\ \A x \in some : f(some)[x] = f(rows)[x]
    BY <1>2, <1>3
  <2> HIDE DEF f
  <2>3. SumFunctionOnSet(f(some), some) = SumFunctionOnSet(f(rows), some)
    BY <2>2, SumSame
  <2> QED BY <2>1, <2>3
<1>5. IntsOn(f(rows), rows)
  BY <1>2
<1> HIDE DEF f
<1>6. SumFunctionOnSet(f(rows), rows) =
        SumFunctionOnSet(f(rows), rows \ part) + SumFunctionOnSet(f(rows), part)
  BY <1>5, SumSplit
<1>7. rows \ part \in SUBSET rows /\ rows \in SUBSET rows
  OBVIOUS
<1> QED BY <1>3, <1>4, <1>6, <1>7

LEMMA BlobBytesFacts ==
  ASSUME NEW held, IsFiniteSet(held), held \subseteq Blob
  PROVE  /\ SumFunctionOnSet(Size, held) \in Nat
         /\ \A id \in Blob \ held :
              SumFunctionOnSet(Size, held \cup {id}) =
                SumFunctionOnSet(Size, held) + Size[id]
<1>1. \A id \in Blob : Size[id] \in Nat
  BY SizeAssumption
<1>2. SumFunctionOnSet(Size, held) \in Nat
  BY <1>1, SumGrows DEF NatsOn
<1>3. ASSUME NEW id \in Blob \ held
      PROVE  SumFunctionOnSet(Size, held \cup {id}) =
               SumFunctionOnSet(Size, held) + Size[id]
  <2>1. IntsOn(Size, held \cup {id}) /\ id \notin held
    BY <1>1 DEF IntsOn
  <2>2. SumFunctionOnSet(Size, held \cup {id}) =
          Size[id] + SumFunctionOnSet(Size, held)
    BY <2>1, SumAdd
  <2> QED BY <1>1, <1>2, <2>2
<1> QED BY <1>2, <1>3

(* A slot stays one row's: the insert fills the slot past all others, and   *)
(* the flag is set in place.                                                *)
LEMMA OneRowStep ==
  ASSUME IInv, OneRow, [Next]_vars
  PROVE  OneRow'
<1>1. CASE packets' \subseteq packets
  BY <1>1 DEF OneRow
<1>2. ASSUME NEW r \in Request, InsertPacket(r)
      PROVE  OneRow'
  <2> DEFINE u == req[r].up
             row == [origin |-> u.origin, counter |-> u.counter,
                     payload |-> u.payload, snap |-> u.snapshot]
  <2>1. /\ req[r].pc = "insert" /\ Mark(u.origin) = u.counter - 1
        /\ packets' = packets \cup {row}
    BY <1>2 DEF InsertPacket, Step
  <2>2. u.origin \in Device /\ u.counter \in Nat
    BY <2>1, ServedType DEF UploadStages, IInv
  <2>3. row.origin = u.origin /\ row.counter = u.counter
    OBVIOUS
  <2> HIDE DEF row
  <2>4. \A x \in packets : x.origin = u.origin => x.counter < u.counter
    <3>1. \A x \in packets : x.counter \in Nat /\ x.counter \in Counters(x.origin)
      BY DEF IInv, TypeOK, PacketRow, Counters, Held
    <3>2. \A x \in packets : x.origin = u.origin => Mark(u.origin) >= x.counter
      BY <2>2, <3>1, MarkIsTop DEF IInv, Tops
    <3> QED BY <2>1, <2>2, <3>1, <3>2
  <2> QED BY <2>1, <2>2, <2>3, <2>4 DEF OneRow
<1>3. ASSUME NEW r \in Request, FlagSnapshot(r)
      PROVE  OneRow'
  <2> DEFINE u == req[r].up
             slot == {row \in Held(u.origin) : row.counter = u.counter}
             flag(row) == [row EXCEPT !.snap = TRUE]
  <2>1. packets' = (packets \ slot) \cup {flag(row) : row \in slot}
    BY <1>3 DEF FlagSnapshot
  <2>2. \A row \in packets : /\ flag(row).origin = row.origin
                             /\ flag(row).counter = row.counter
    BY DEF IInv, TypeOK, PacketRow
  <2>3. slot \subseteq packets
        /\ \A x \in packets : \A y \in slot :
             x.origin = y.origin /\ x.counter = y.counter => x \in slot
    BY DEF Held
  <2> HIDE DEF slot, flag
  <2> QED BY <2>1, <2>2, <2>3 DEF OneRow
<1>4. ASSUME NEW r \in Request, DeletePackets(r)
      PROVE  packets' \subseteq packets
  BY <1>4 DEF DeletePackets
<1> QED BY <1>1, <1>2, <1>3, <1>4, PacketsMove

(* The guarded insert stores its body's bytes, in a row that was not there. *)
LEMMA InsertBytes ==
  ASSUME IInv, IsFiniteSet(packets), NEW r \in Request, InsertPacket(r)
  PROVE  /\ req[r].pc = "insert" /\ Mark(req[r].up.origin) = req[r].up.counter - 1
         /\ req[r].up.counter = top[req[r].up.origin] + 1
         /\ Bytes(packets') = Bytes(packets) + Size[req[r].up.payload]
         /\ Size[req[r].up.payload] \in Nat
         /\ packets \subseteq packets' /\ packets' # packets
         /\ IsFiniteSet(packets') /\ blobs' = blobs
<1> DEFINE u == req[r].up
           row == [origin |-> u.origin, counter |-> u.counter,
                   payload |-> u.payload, snap |-> u.snapshot]
<1>1. /\ req[r].pc = "insert" /\ Mark(u.origin) = u.counter - 1
      /\ packets' = packets \cup {row} /\ blobs' = blobs
  BY DEF InsertPacket, Step
<1>2. /\ u.origin \in Device /\ u.counter \in Nat /\ u.payload \in Payload
  BY <1>1, ServedType DEF UploadStages, IInv
<1>3. row \notin packets
  <2>1. ASSUME row \in packets
        PROVE  FALSE
    <3>1. u.counter \in Counters(u.origin)
      BY <2>1 DEF Counters, Held
    <3>2. Mark(u.origin) >= u.counter /\ Mark(u.origin) \in Nat
      BY <1>2, <3>1, MarkIsTop DEF IInv, Tops
    <3> QED BY <1>1, <1>2, <3>2
  <2> QED BY <2>1
<1>4. u.counter = top[u.origin] + 1
  BY <1>1, <1>2, MarkIsTop DEF top, IInv
<1>5. row.payload = u.payload /\ \A x \in packets : x.payload \in Payload
  BY DEF IInv, TypeOK, PacketRow
<1> HIDE DEF row
<1>6. Bytes(packets') = Bytes(packets) + Size[u.payload]
  BY <1>1, <1>2, <1>3, <1>5, BytesFacts
<1> QED BY <1>1, <1>2, <1>3, <1>4, <1>6, FS_AddElement, SizeAssumption

(* Setting a flag changes no bytes. *)
LEMMA FlagBytes ==
  ASSUME IInv, OneRow, IsFiniteSet(packets), NEW r \in Request, FlagSnapshot(r)
  PROVE  IsFiniteSet(packets') /\ Bytes(packets') = Bytes(packets)
<1> DEFINE u == req[r].up
           slot == {row \in Held(u.origin) : row.counter = u.counter}
           flag(row) == [row EXCEPT !.snap = TRUE]
<1>1. packets' = (packets \ slot) \cup {flag(row) : row \in slot}
  BY DEF FlagSnapshot
<1>2. \A row \in packets : /\ flag(row).origin = row.origin
                           /\ flag(row).counter = row.counter
                           /\ flag(row).payload = row.payload
                           /\ row.payload \in Payload
  BY DEF IInv, TypeOK, PacketRow
<1>3. /\ \A x \in slot : x \in packets /\ x.origin = u.origin
                         /\ x.counter = u.counter
      /\ \A x \in packets :
           x.origin = u.origin /\ x.counter = u.counter => x \in slot
  BY DEF Held
<1> HIDE DEF slot, flag
<1>4. CASE slot = {}
  <2>1. packets' = packets
    BY <1>1, <1>4
  <2> QED BY <2>1
<1>5. ASSUME NEW x \in slot
      PROVE  IsFiniteSet(packets') /\ Bytes(packets') = Bytes(packets)
  <2> DEFINE rest == packets \ {x}
  <2>1. slot = {x}
    BY <1>3, <1>5 DEF OneRow
  <2>2. packets' = rest \cup {flag(x)} /\ packets = rest \cup {x}
    BY <1>1, <1>3, <2>1
  <2>3. flag(x) \notin rest
    BY <1>2, <1>3, <2>1
  <2>4. IsFiniteSet(rest) /\ IsFiniteSet(rest \cup {flag(x)})
    BY FS_RemoveElement, FS_AddElement
  <2>5. x \notin rest /\ \A y \in rest : y.payload \in Payload
    BY <1>2
  <2> HIDE DEF rest
  <2>6. /\ Bytes(rest \cup {flag(x)}) = Bytes(rest) + Size[flag(x).payload]
        /\ Bytes(rest \cup {x}) = Bytes(rest) + Size[x.payload]
    BY <1>2, <1>3, <2>3, <2>4, <2>5, BytesFacts
  <2> QED BY <1>2, <1>3, <2>2, <2>4, <2>6
<1> QED BY <1>4, <1>5

(* The statements that change what is stored, while nothing is pruned. *)
LEMMA StorageMoves ==
  ASSUME IInv, SteadyInv, [Next]_vars, IInv'
  PROVE  \/ /\ Bytes(packets') = Bytes(packets) /\ IsFiniteSet(packets')
            /\ blobs' = blobs
         \/ \E r \in Request : InsertPacket(r)
         \/ \E r \in Request : PutBlob(r)
<1>c. \A r \in Request : ~DeletePackets(r) /\ ~CollectBlobs(r)
  BY DEF SteadyInv, CalmHandler, DeletePackets, CollectBlobs, Goto, Step
<1>1. ASSUME NEW r \in Request, FlagSnapshot(r)
      PROVE  Bytes(packets') = Bytes(packets) /\ IsFiniteSet(packets')
             /\ blobs' = blobs
  BY <1>1, FlagBytes DEF SteadyInv, FlagSnapshot
<1>2. blobs' = blobs \/ \E r \in Request : PutBlob(r)
  <2>1. ASSUME NEW r \in Request, Check(r) \/ Insert(r) \/ Prune(r)
        PROVE  blobs' = blobs
    BY <1>c, <2>1 DEF Check, HasBlob, MissingBlob, PassOldOrGap, CheckNew,
         RefuseDisk, ReadMark, CheckStreams, RefuseStream, CoveredBytes, CheckQuota,
         Insert, InsertPacket, InsertNothing, RaiseMark, ReadHeld, ReadGap,
         RecordBlob, FlagSnapshot, Prune, ReadCoveredMark, SkipUnknown, Reassert,
         CountSome, CountNone, DeletePackets, DeleteRefs, CountGarbage, tables
  <2>2. ASSUME NEW r \in Request, Put(r), ~PutBlob(r)
        PROVE  blobs' = blobs
    BY <2>2 DEF Put, PutHas, RefusePutDisk, PutQuota, tables
  <2> QED BY <2>1, <2>2, StepCases DEF Fresh, Restart, tables, vars, IInv
<1>3. ASSUME NEW r \in Request, PutBlob(r)
      PROVE  packets' = packets
  BY <1>3 DEF PutBlob
<1> QED BY <1>1, <1>2, <1>3, <1>c, PacketsMove DEF SteadyInv

(* In a calm account no handler comes to be credited or to prune. *)
LEMMA CalmStep ==
  ASSUME NothingCovers, UserQuotaBytes > 0, IInv, SteadyInv, [Next]_vars,
         NEW r \in Request
  PROVE  CalmHandler(req'[r])
<1>b. CalmHandler(Blank)
  BY DEF CalmHandler, Blank, PutStages
<1>o. CalmHandler(req[r])
  BY DEF SteadyInv
<1>1. CASE UNCHANGED vars
  BY <1>1, <1>o DEF vars
<1>2. CASE Restart
  BY <1>2, <1>b DEF Restart
<1>3. ASSUME NEW s \in Request, Respond(s) \/ Cancel(s)
      PROVE  CalmHandler(req'[r])
  BY <1>3, <1>b, <1>o DEF Respond, Cancel, IInv, TypeOK
<1>4. ASSUME NEW s \in Request, NEW u \in Uploads, Receive(s, u)
      PROVE  CalmHandler(req'[r])
  <2> DEFINE to == IF u.blobs # {} THEN "hasblob" ELSE "checkmark"
             h2 == [Blank EXCEPT !.pc = to, !.up = u, !.todo = u.blobs,
                      !.devs = Covered(u), !.arrived = Mark(u.origin)]
  <2>1. Step(s, "idle", h2)
    BY <1>4 DEF Receive
  <2>2. h2.pc = to /\ h2.freed = {}
    <3> HIDE DEF to
    <3> QED BY DEF Blank
  <2> HIDE DEF h2
  <2>3. CalmHandler(h2)
    BY <2>2 DEF CalmHandler, PutStages
  <2> QED BY <2>1, <2>3, <1>o, StepMoves DEF IInv
<1>5. ASSUME NEW s \in Request, NEW id \in Blob, ReceiveBlob(s, id)
      PROVE  CalmHandler(req'[r])
  <2> DEFINE to == IF MinFreeDiskBytes = 0 /\ UserQuotaBytes = 0
                   THEN "put" ELSE "puthas"
             h2 == [Blank EXCEPT !.pc = to, !.todo = {id}]
  <2>1. Step(s, "idle", h2)
    BY <1>5 DEF ReceiveBlob
  <2>2. h2.pc = to /\ h2.freed = {} /\ h2.todo = {id}
    <3> HIDE DEF to
    <3> QED BY DEF Blank
  <2> HIDE DEF h2
  <2>3. CalmHandler(h2)
    BY <2>2 DEF CalmHandler, PutStages
  <2> QED BY <2>1, <2>3, <1>o, StepMoves DEF IInv
<1>6. ASSUME NEW s \in Request, Walks(s),
             Check(s) \/ Insert(s) \/ Prune(s) \/ Put(s)
      PROVE  CalmHandler(req'[r])
  <2>1. CASE r # s
    BY <1>6, <1>o, <2>1 DEF Walks
  <2>2. CASE r = s
    <3>1. /\ req[r].pc \notin {"covered", "prune", "reassert", "count",
                               "delpackets", "delrefs", "garbage", "collect"}
          /\ req[r].freed = {}
      BY <1>o DEF CalmHandler
    <3>2. req'[r].freed = {}
      BY <1>6, <2>2, <3>1 DEF Walks
    <3>3. req[r].pc \in UploadStages => Covered(req[r].up) = {}
      BY ServedType DEF NothingCovers, IInv
    <3>4. req'[r].pc \notin CoverStages
      <4>1. req'[r].pc \in CoverStages => req[r].pc \in UploadStages
        BY <1>6, <2>2 DEF Walks, Arrows, CoverStages, UploadStages
      <4> QED BY <1>6, <2>2, <3>1, <3>3, <4>1 DEF Walks
    <3>5. req'[r].pc \notin {"covered", "prune", "reassert", "count",
                             "delpackets", "delrefs", "garbage", "collect"}
      BY <1>6, <2>2, <3>1, <3>4 DEF Walks, Arrows, CoverStages
    <3>6. ASSUME req'[r].pc \in PutStages
          PROVE  \E id \in Blob : req'[r].todo = {id}
      <4>1. req[r].pc \in {"puthas", "putquota"}
        BY <1>6, <2>2, <3>6 DEF Walks, Arrows, PutStages
      <4>2. Put(r)
        BY <1>6, <2>2, <4>1, StageActions DEF Put
      <4>3. req'[r].todo = req[r].todo
        BY <4>2, PutWalks DEF IInv
      <4> QED BY <1>o, <4>1, <4>3 DEF CalmHandler, PutStages
    <3> QED BY <3>2, <3>5, <3>6 DEF CalmHandler
  <2> QED BY <2>1, <2>2
<1> QED BY <1>1, <1>2, <1>3, <1>4, <1>5, <1>6,
           CheckWalks, InsertWalks, PruneWalks, PutWalks DEF Next, Serve, IInv

LEMMA SentInOrderStep ==
  ASSUME IInv, SteadyInv, [NextInOrder]_vars, IInv', NEW r \in Request
  PROVE  SentInOrder(req'[r], top')
<1>n. [Next]_vars
  BY InOrderIsNext
<1>g. \A u \in Uploads :
        /\ u.origin \in Device /\ u.counter \in Nat
        /\ top[u.origin] \in Nat /\ top'[u.origin] \in Nat
        /\ top'[u.origin] >= top[u.origin] /\ top[u.origin] = Mark(u.origin)
  <2>1. \A u \in Uploads : u.origin \in Device /\ u.counter \in Nat
    BY UploadsAssumption DEF UploadType
  <2>2. \A d \in Device :
          /\ top[d] = Mark(d) /\ top'[d] = Mark(d)' /\ Mark(d) \in Nat
          /\ Mark(d)' \in Nat /\ Mark(d)' >= Mark(d)
    BY <1>n, StepGrows, MarkIsTop DEF IInv, Growth, top
  <2> QED BY <2>1, <2>2
<1>b. SentInOrder(Blank, top')
  BY NoneAssumption DEF SentInOrder, Blank
<1>o. SentInOrder(req[r], top')
  BY <1>g DEF SteadyInv, SentInOrder
<1>1. CASE UNCHANGED vars
  BY <1>1, <1>o DEF vars
<1>2. CASE Restart
  BY <1>2, <1>b DEF Restart
<1>3. ASSUME NEW s \in Request, Respond(s) \/ Cancel(s)
      PROVE  SentInOrder(req'[r], top')
  BY <1>3, <1>b, <1>o DEF Respond, Cancel, IInv, TypeOK
<1>4. ASSUME NEW s \in Request, NEW u \in Uploads, Receive(s, u),
             u.counter <= Mark(u.origin) + 1
      PROVE  SentInOrder(req'[r], top')
  <2> DEFINE to == IF u.blobs # {} THEN "hasblob" ELSE "checkmark"
             h2 == [Blank EXCEPT !.pc = to, !.up = u, !.todo = u.blobs,
                      !.devs = Covered(u), !.arrived = Mark(u.origin)]
  <2>1. Step(s, "idle", h2)
    BY <1>4 DEF Receive
  <2>2. h2.up = u
    BY DEF Blank
  <2> HIDE DEF h2
  <2>3. SentInOrder(h2, top')
    BY <1>4, <1>g, <2>2 DEF SentInOrder
  <2> QED BY <2>1, <2>3, <1>o, StepMoves DEF IInv
<1>5. ASSUME NEW s \in Request, NEW id \in Blob, ReceiveBlob(s, id)
      PROVE  SentInOrder(req'[r], top')
  <2> DEFINE to == IF MinFreeDiskBytes = 0 /\ UserQuotaBytes = 0
                   THEN "put" ELSE "puthas"
             h2 == [Blank EXCEPT !.pc = to, !.todo = {id}]
  <2>1. Step(s, "idle", h2)
    BY <1>5 DEF ReceiveBlob
  <2>2. h2.up = None
    BY DEF Blank
  <2> HIDE DEF h2
  <2>3. SentInOrder(h2, top')
    BY <2>2, NoneAssumption DEF SentInOrder
  <2> QED BY <2>1, <2>3, <1>o, StepMoves DEF IInv
<1>6. ASSUME NEW s \in Request, Walks(s)
      PROVE  SentInOrder(req'[r], top')
  <2>1. CASE r # s
    BY <1>6, <1>o, <2>1 DEF Walks
  <2>2. CASE r = s
    <3>1. req'[r].up = req[r].up
      BY <1>6, <2>2 DEF Walks
    <3>2. req[r].pc # "covered"
      BY DEF SteadyInv, CalmHandler
    <3>3. req'[r].pc \in {"hasblob", "checkmark", "streams", "quota", "insert"} =>
            req[r].pc \in {"hasblob", "checkmark", "streams", "quota", "insert"}
      BY <1>6, <2>2, <3>2 DEF Walks, Arrows
    <3> QED BY <1>o, <3>1, <3>3 DEF SentInOrder
  <2> QED BY <2>1, <2>2
<1> QED BY <1>1, <1>2, <1>3, <1>4, <1>5, <1>6,
           CheckWalks, InsertWalks, PruneWalks, PutWalks DEF NextInOrder, Serve, IInv

LEMMA SteadyStep ==
  ASSUME NothingCovers, UserQuotaBytes > 0, IInv, SteadyInv, [NextInOrder]_vars,
         IInv'
  PROVE  SteadyInv'
<1>n. [Next]_vars
  BY InOrderIsNext
<1>1. IsFiniteSet(packets') /\ IsFiniteSet(blobs')
  <2>1. ASSUME NEW r \in Request, InsertPacket(r)
        PROVE  IsFiniteSet(packets') /\ IsFiniteSet(blobs')
    BY <2>1, FS_AddElement DEF InsertPacket, SteadyInv
  <2>2. ASSUME NEW r \in Request, PutBlob(r)
        PROVE  IsFiniteSet(packets') /\ IsFiniteSet(blobs')
    <3>1. PICK id \in Blob : req[r].todo = {id}
      BY <2>2 DEF PutBlob, Goto, Step, SteadyInv, CalmHandler, PutStages
    <3> QED BY <2>2, <3>1, FS_AddElement DEF PutBlob, SteadyInv
  <2> QED BY <1>n, <2>1, <2>2, StorageMoves DEF SteadyInv
<1>2. OneRow'
  BY <1>n, OneRowStep DEF SteadyInv
<1>3. \A r \in Request : CalmHandler(req'[r]) /\ SentInOrder(req'[r], top')
  BY <1>n, CalmStep, SentInOrderStep
<1> QED BY <1>1, <1>2, <1>3 DEF SteadyInv

(* What a handler is about to store is no more than one body. *)
LEMMA DueType ==
  ASSUME SizesBounded, NEW h, CalmHandler(h), NEW t, NEW held
  PROVE  DueOf(h, t, held) \in Nat /\ DueOf(h, t, held) <= LargestSize
<1>1. LargestSize \in Nat
      /\ \A z \in Payload \cup Blob : Size[z] \in Nat /\ Size[z] <= LargestSize
  BY LargestFacts
<1>2. h.up \in Uploads => h.up.payload \in Payload
  BY UploadsAssumption DEF UploadType
<1>3. h.pc = "put" => (CHOOSE id \in h.todo : TRUE) \in Blob
  BY DEF CalmHandler, PutStages
<1> QED BY <1>1, <1>2, <1>3 DEF DueOf

(* Time only settles it: the slot is filled, the blob is there. *)
LEMMA DueShrinks ==
  ASSUME SizesBounded, NEW h, CalmHandler(h), NEW t, NEW t2, SentInOrder(h, t),
         NEW held, NEW held2, held \subseteq held2,
         h.up \in Uploads => /\ h.up.counter \in Nat
                             /\ t[h.up.origin] \in Nat
                             /\ t2[h.up.origin] \in Nat
                             /\ t2[h.up.origin] >= t[h.up.origin]
  PROVE  DueOf(h, t2, held2) <= DueOf(h, t, held)
<1>1. /\ DueOf(h, t, held) \in Nat /\ DueOf(h, t2, held2) \in Nat
  BY DueType
<1>2. CASE h.pc = "insert"
  <2>1. h.up \in Uploads /\ h.up.counter = t2[h.up.origin] + 1 =>
          h.up.counter = t[h.up.origin] + 1
    BY <1>2 DEF SentInOrder
  <2> QED BY <1>1, <1>2, <2>1 DEF DueOf
<1>3. CASE h.pc = "put"
  BY <1>1, <1>3 DEF DueOf
<1>4. CASE h.pc \notin {"insert", "put"}
  BY <1>4 DEF DueOf
<1> QED BY <1>2, <1>3, <1>4

(* The sum follows one value when the others do not grow. *)
LEMMA SumFollows ==
  ASSUME NEW S, IsFiniteSet(S), NEW f, IntsOn(f, S), NEW f2, IntsOn(f2, S),
         NEW x \in S, \A y \in S \ {x} : f2[y] <= f[y]
  PROVE  SumFunctionOnSet(f2, S) + f[x] <= SumFunctionOnSet(f, S) + f2[x]
<1> DEFINE T == S \ {x}
<1>1. IsFiniteSet(T) /\ IntsOn(f, T) /\ IntsOn(f2, T) /\ f[x] \in Int /\ f2[x] \in Int
  BY FS_RemoveElement DEF IntsOn
<1>2. SumFunctionOnSet(f, S) = f[x] + SumFunctionOnSet(f, T)
  BY SumRemove
<1>3. SumFunctionOnSet(f2, S) = f2[x] + SumFunctionOnSet(f2, T)
  BY SumRemove
<1>4. \A y \in T : f2[y] <= f[y]
  OBVIOUS
<1> HIDE DEF T
<1>5. SumFunctionOnSet(f2, T) <= SumFunctionOnSet(f, T)
  BY <1>1, <1>4, SumOrdered
<1>6. SumFunctionOnSet(f2, T) \in Int /\ SumFunctionOnSet(f, T) \in Int
  BY <1>1, SumInt
<1> QED BY <1>1, <1>2, <1>3, <1>5, <1>6

(* All values but one are bounded by n. *)
LEMMA SumOfOthers ==
  ASSUME NEW S, IsFiniteSet(S), NEW f, IntsOn(f, S), NEW x \in S, NEW n \in Nat,
         \A y \in S : f[y] <= n
  PROVE  SumFunctionOnSet(f, S) <= f[x] + (Cardinality(S) - 1) * n
<1> DEFINE T == S \ {x}
<1>1. IsFiniteSet(T) /\ IntsOn(f, T) /\ f[x] \in Int
      /\ Cardinality(T) = Cardinality(S) - 1
  BY FS_RemoveElement DEF IntsOn
<1>2. SumFunctionOnSet(f, S) = f[x] + SumFunctionOnSet(f, T)
  BY SumRemove
<1>3. \A y \in T : f[y] <= n
  OBVIOUS
<1> HIDE DEF T
<1>4. SumFunctionOnSet(f, T) <= Cardinality(T) * n
  BY <1>1, <1>3, SumBounded
<1>5. SumFunctionOnSet(f, T) \in Int
  BY <1>1, SumInt
<1>6. Cardinality(T) \in Nat /\ Cardinality(T) * n \in Nat
  <2>1. \A i, j \in Nat : i * j \in Nat
    OBVIOUS
  <2> QED BY <1>1, <2>1, FS_CardinalityType
<1>7. SumFunctionOnSet(f, S) <= f[x] + Cardinality(T) * n
  BY <1>1, <1>2, <1>4, <1>5, <1>6
<1> QED BY <1>1, <1>7

(* A request gets to store something only when it fits. *)
LEMMA AdmittedFits ==
  ASSUME NothingCovers, UserQuotaBytes > 0, IInv, SteadyInv, NEW r \in Request,
         Walks(r), Check(r) \/ Insert(r) \/ Prune(r) \/ Put(r)
  PROVE  \/ DueOf(req'[r], top', blobs') = 0
         \/ /\ UserStorageBytes + DueOf(req'[r], top', blobs') <= UserQuotaBytes
            /\ UNCHANGED tables
<1> DEFINE u == req[r].up
<1>w. /\ <<req[r].pc, req'[r].pc>> \in Arrows
      /\ req'[r].up = u
      /\ req[r].pc \notin {"covered"} /\ req[r].freed = {}
      /\ CalmHandler(req[r])
  BY DEF Walks, SteadyInv, CalmHandler
<1>u. req[r].pc \in UploadStages => u \in Uploads /\ Covered(u) = {}
  BY ServedType DEF IInv, NothingCovers
<1>q. req[r].pc \in UploadStages =>
        ToQuota(u) = "quota" /\ ToStreams(u) \in {"streams", "quota"}
  BY <1>u DEF ToQuota, ToStreams
<1>b. Bytes({}) = 0
  BY SumEmpty DEF Bytes
<1>t. UNCHANGED tables => top' = top /\ blobs' = blobs
                          /\ UserStorageBytes' = UserStorageBytes
  BY DEF tables, top, Mark, Counters, Held, UserStorageBytes, Bytes
<1>1. CASE req'[r].pc = "insert"
  <2>1. req[r].pc \in {"checkmark", "streams", "quota"}
    BY <1>1, <1>w DEF Arrows
  <2>2. CASE req[r].pc = "checkmark"
    <3>1. ASSUME CheckNew(r) \/ RefuseDisk(r)
          PROVE  FALSE
      <4>1. PICK to \in {"streams", "quota", "full"} : ReadMark(r, to)
        BY <1>q, <2>2, <3>1 DEF CheckNew, RefuseDisk, UploadStages
      <4> DEFINE h2 == [req[r] EXCEPT !.pc = to, !.mark = Mark(req[r].up.origin)]
      <4>2. Step(r, "checkmark", h2) /\ h2.pc = to
        BY <4>1 DEF ReadMark, IInv, TypeOK, Handler
      <4> HIDE DEF h2
      <4> QED BY <1>1, <4>2, StepMoves DEF IInv
    <3>2. PassOldOrGap(r)
      BY <2>2, <3>1, StageActions
    <3>3. u.counter # Mark(u.origin) + 1 /\ UNCHANGED tables
      BY <3>2 DEF PassOldOrGap, ReadMark
    <3>4. u \in Uploads /\ u.origin \in Device
      BY <1>u, <2>2, UploadsAssumption DEF UploadType, UploadStages
    <3>5. top'[u.origin] = Mark(u.origin)
      BY <1>t, <3>3, <3>4 DEF top
    <3> QED BY <1>1, <1>w, <3>3, <3>5 DEF DueOf
  <2>3. CASE req[r].pc = "streams"
    <3>1. PICK to \in {"quota", "full"} : Goto(r, "streams", to)
      BY <1>q, <2>3, StageActions DEF CheckStreams, RefuseStream, UploadStages
    <3>2. req'[r].pc = to
      BY <3>1 DEF Goto, Step, IInv, TypeOK, Handler
    <3> QED BY <1>1, <3>2
  <2>4. CASE req[r].pc = "quota"
    <3>1. CheckQuota(r)
      BY <2>4, StageActions
    <3>2. req'[r].pc = (IF FitsQuota(Size[u.payload], req[r].freed)
                       THEN "insert" ELSE "full")
      BY <3>1 DEF CheckQuota, Goto, Step, IInv, TypeOK, Handler
    <3>3. FitsQuota(Size[u.payload], {})
      BY <1>1, <1>w, <3>2
    <3>4. UserStorageBytes + Size[u.payload] <= UserQuotaBytes
      BY <1>b, <3>3, LimitsAssumption DEF FitsQuota
    <3>5. DueOf(req'[r], top', blobs') \in {0, Size[u.payload]}
      BY <1>1, <1>w DEF DueOf
    <3>6. UNCHANGED tables
      BY <3>1 DEF CheckQuota
    <3> QED BY <3>4, <3>5, <3>6
  <2> QED BY <2>1, <2>2, <2>3, <2>4
<1>2. CASE req'[r].pc = "put"
  <2>1. req[r].pc \in {"puthas", "putquota"}
    BY <1>2, <1>w DEF Arrows
  <2>2. Put(r)
    BY <2>1, StageActions DEF Put
  <2>3. PICK id \in Blob : req[r].todo = {id} /\ req'[r].todo = {id}
    BY <1>w, <2>1, <2>2, PutWalks DEF CalmHandler, PutStages, IInv
  <2>4. CASE req[r].pc = "puthas"
    <3>1. PutHas(r) \/ RefusePutDisk(r)
      BY <2>4, StageActions
    <3>2. CASE RefusePutDisk(r)
      BY <1>2, <3>2 DEF RefusePutDisk, Goto, Step, IInv, TypeOK, Handler
    <3>3. CASE PutHas(r)
      <4>1. req'[r].pc = (IF req[r].todo \subseteq blobs \/ UserQuotaBytes = 0
                         THEN "put" ELSE "putquota")
        BY <3>3 DEF PutHas, Goto, Step, IInv, TypeOK, Handler
      <4>2. id \in blobs /\ blobs' = blobs
        BY <1>2, <2>3, <3>3, <4>1 DEF PutHas, tables
      <4> QED BY <1>2, <2>3, <4>2 DEF DueOf
    <3> QED BY <3>1, <3>2, <3>3
  <2>5. CASE req[r].pc = "putquota"
    <3>1. PutQuota(r)
      BY <2>5, StageActions
    <3>2. req'[r].pc = (IF FitsQuota(Size[id], {}) THEN "put" ELSE "full")
          /\ UNCHANGED tables
      BY <2>3, <3>1 DEF PutQuota, Goto, Step, IInv, TypeOK, Handler
    <3>3. UserStorageBytes + Size[id] <= UserQuotaBytes
      BY <1>2, <1>b, <3>2, LimitsAssumption DEF FitsQuota
    <3>4. DueOf(req'[r], top', blobs') \in {0, Size[id]}
      BY <1>2, <2>3 DEF DueOf
    <3> QED BY <3>2, <3>3, <3>4
  <2> QED BY <2>1, <2>4, <2>5
<1>3. CASE req'[r].pc \notin {"insert", "put"}
  BY <1>3 DEF DueOf
<1> QED BY <1>1, <1>2, <1>3

(* The bytes stored grow by one body, and only by one that was due. *)
LEMMA StorageGrows ==
  ASSUME SizesBounded, UserQuotaBytes > 0, IInv, SteadyInv, [Next]_vars, IInv',
         SteadyInv'
  PROVE  /\ UserStorageBytes \in Nat /\ UserStorageBytes' \in Nat
         /\ \/ UserStorageBytes' = UserStorageBytes
            \/ \E r \in Request :
                 /\ DueOf(req'[r], top', blobs') = 0
                 /\ UserStorageBytes' =
                      UserStorageBytes + DueOf(req[r], top, blobs)
                 /\ \A s \in Request \ {r} : req'[s] = req[s]
<1>1. /\ IsFiniteSet(packets) /\ IsFiniteSet(blobs) /\ blobs \subseteq Blob
      /\ IsFiniteSet(packets') /\ IsFiniteSet(blobs') /\ blobs' \subseteq Blob
      /\ \A x \in packets : x.payload \in Payload
      /\ \A x \in packets' : x.payload \in Payload
  BY DEF IInv, TypeOK, PacketRow, SteadyInv
<1>2. /\ Bytes(packets) \in Nat /\ Bytes(packets') \in Nat
      /\ SumFunctionOnSet(Size, blobs) \in Nat
      /\ SumFunctionOnSet(Size, blobs') \in Nat
  BY <1>1, BytesFacts, BlobBytesFacts
<1>3. /\ UserStorageBytes = Bytes(packets) + SumFunctionOnSet(Size, blobs)
      /\ UserStorageBytes' = Bytes(packets') + SumFunctionOnSet(Size, blobs')
  BY DEF UserStorageBytes
<1>4. ASSUME NEW r \in Request, InsertPacket(r)
      PROVE  /\ DueOf(req'[r], top', blobs') = 0
             /\ UserStorageBytes' = UserStorageBytes + DueOf(req[r], top, blobs)
             /\ \A s \in Request \ {r} : req'[s] = req[s]
  <2>1. req'[r].pc = "raise" /\ \A s \in Request \ {r} : req'[s] = req[s]
    BY <1>4 DEF InsertPacket, Step, IInv, TypeOK, Handler
  <2>2. DueOf(req'[r], top', blobs') = 0
    BY <2>1 DEF DueOf
  <2>3. req[r].up \in Uploads
    BY <1>4, InsertBytes, ServedType DEF UploadStages, IInv, SteadyInv
  <2>4. DueOf(req[r], top, blobs) = Size[req[r].up.payload]
    BY <1>4, <2>3, InsertBytes DEF DueOf, SteadyInv
  <2>5. UserStorageBytes' = UserStorageBytes + Size[req[r].up.payload]
    BY <1>2, <1>3, <1>4, InsertBytes DEF SteadyInv
  <2> QED BY <2>1, <2>2, <2>4, <2>5
<1>5. ASSUME NEW r \in Request, PutBlob(r)
      PROVE  /\ DueOf(req'[r], top', blobs') = 0
             /\ UserStorageBytes' = UserStorageBytes + DueOf(req[r], top, blobs)
             /\ \A s \in Request \ {r} : req'[s] = req[s]
  <2>1. /\ req[r].pc = "put" /\ blobs' = blobs \cup req[r].todo
        /\ packets' = packets /\ req'[r].pc = "ack"
        /\ \A s \in Request \ {r} : req'[s] = req[s]
    BY <1>5 DEF PutBlob, Goto, Step, IInv, TypeOK, Handler
  <2>2. PICK id \in Blob : req[r].todo = {id}
    BY <2>1 DEF SteadyInv, CalmHandler, PutStages
  <2>3. Size[id] \in Nat
    BY SizeAssumption
  <2>4. DueOf(req'[r], top', blobs') = 0
    BY <2>1 DEF DueOf
  <2>5. DueOf(req[r], top, blobs) = IF id \in blobs THEN 0 ELSE Size[id]
    BY <2>1, <2>2 DEF DueOf
  <2>6. Bytes(packets') = Bytes(packets)
    BY <2>1
  <2>7. CASE id \in blobs
    <3>1. blobs' = blobs
      BY <2>1, <2>2, <2>7
    <3>2. UserStorageBytes' = UserStorageBytes + 0
      BY <1>2, <1>3, <2>6, <3>1
    <3> QED BY <2>1, <2>4, <2>5, <2>7, <3>2
  <2>8. CASE id \notin blobs
    <3>1. SumFunctionOnSet(Size, blobs') = SumFunctionOnSet(Size, blobs) + Size[id]
      BY <1>1, <2>1, <2>2, <2>8, BlobBytesFacts
    <3>2. UserStorageBytes' = UserStorageBytes + Size[id]
      BY <1>2, <1>3, <2>3, <2>6, <3>1
    <3> QED BY <2>1, <2>4, <2>5, <2>8, <3>2
  <2> QED BY <2>7, <2>8
<1>6. UserStorageBytes \in Nat /\ UserStorageBytes' \in Nat
  BY <1>2, <1>3
<1>7. Bytes(packets') = Bytes(packets) /\ blobs' = blobs =>
        UserStorageBytes' = UserStorageBytes
  BY <1>3
<1> QED BY <1>4, <1>5, <1>6, <1>7, StorageMoves

(* What a request is about to store does not grow, unless it has just been  *)
(* admitted.                                                                *)
LEMMA DueMoves ==
  ASSUME NothingCovers, SizesBounded, UserQuotaBytes > 0, IInv, SteadyInv,
         [NextInOrder]_vars, IInv', SteadyInv'
  PROVE  LET due(r) == DueOf(req[r], top, blobs)
             due2(r) == DueOf(req'[r], top', blobs')
         IN \/ \A s \in Request : due2(s) <= due(s)
            \/ \E r \in Request :
                 /\ UserStorageBytes + due2(r) <= UserQuotaBytes
                 /\ UserStorageBytes' = UserStorageBytes
<1>n. [Next]_vars
  BY InOrderIsNext
<1>1. \A r \in Request : /\ DueOf(req[r], top, blobs) \in Nat
                         /\ DueOf(req'[r], top', blobs') \in Nat
  BY DueType DEF SteadyInv
<1>2. blobs \subseteq blobs'
  BY <1>n, StorageMoves DEF PutBlob, InsertPacket
<1>3. \A u \in Uploads : /\ u.counter \in Nat
                         /\ top[u.origin] \in Nat /\ top'[u.origin] \in Nat
                         /\ top'[u.origin] >= top[u.origin]
  <2>1. \A u \in Uploads : u.origin \in Device /\ u.counter \in Nat
    BY UploadsAssumption DEF UploadType
  <2>2. \A d \in Device : top[d] \in Nat /\ top'[d] \in Nat /\ top'[d] >= top[d]
    BY <1>n, StepGrows, MarkIsTop DEF IInv, Growth, top
  <2> QED BY <2>1, <2>2
<1>4. \A s \in Request : req'[s] = req[s] =>
        DueOf(req'[s], top', blobs') <= DueOf(req[s], top, blobs)
  BY <1>2, <1>3, DueShrinks DEF SteadyInv
<1>5. \A s \in Request : DueOf(req'[s], top', blobs') = 0 =>
        DueOf(req'[s], top', blobs') <= DueOf(req[s], top, blobs)
  BY <1>1
<1>6. CASE UNCHANGED vars
  BY <1>4, <1>6 DEF vars
<1>7. CASE Restart
  <2>1. \A s \in Request : req'[s].pc = "idle"
    BY <1>7 DEF Restart, Blank
  <2> QED BY <1>5, <2>1 DEF DueOf
<1>8. ASSUME NEW r \in Request, Fresh(r)
      PROVE  \A s \in Request :
               DueOf(req'[s], top', blobs') <= DueOf(req[s], top, blobs)
  <2>1. DueOf(req'[r], top', blobs') = 0
    BY <1>8 DEF Fresh, DueOf
  <2> QED BY <1>4, <1>5, <1>8, <2>1 DEF Fresh
<1>9. ASSUME NEW r \in Request, Walks(r),
             Check(r) \/ Insert(r) \/ Prune(r) \/ Put(r)
      PROVE  \/ \A s \in Request :
                  DueOf(req'[s], top', blobs') <= DueOf(req[s], top, blobs)
             \/ /\ UserStorageBytes + DueOf(req'[r], top', blobs') <=
                     UserQuotaBytes
                /\ UserStorageBytes' = UserStorageBytes
  <2>1. CASE DueOf(req'[r], top', blobs') = 0
    BY <1>4, <1>5, <1>9, <2>1 DEF Walks
  <2>2. UNCHANGED tables => UserStorageBytes' = UserStorageBytes
    BY DEF tables, UserStorageBytes, Bytes
  <2> QED BY <1>9, <2>1, <2>2, AdmittedFits
<1> QED BY <1>n, <1>6, <1>7, <1>8, <1>9, StepCases DEF IInv

LEMMA QuotaStep ==
  ASSUME NothingCovers, SizesBounded, UserQuotaBytes > 0,
         IsFiniteSet(Request), IInv, SteadyInv, QuotaInv, [NextInOrder]_vars,
         IInv', SteadyInv'
  PROVE  QuotaInv'
<1> DEFINE used == UserStorageBytes
           used2 == UserStorageBytes'
           room == (Cardinality(Request) - 1) * LargestSize
<1>n. [Next]_vars
  BY InOrderIsNext
<1>1. PICK f : f = Due
  OBVIOUS
<1>2. PICK f2 : f2 = Due'
  OBVIOUS
<1>3. \A r \in Request : /\ f[r] = DueOf(req[r], top, blobs)
                         /\ f2[r] = DueOf(req'[r], top', blobs')
                         /\ f[r] \in Nat /\ f2[r] \in Nat
                         /\ f2[r] <= LargestSize
  <2>1. \A r \in Request : /\ f[r] = DueOf(req[r], top, blobs)
                           /\ f2[r] = DueOf(req'[r], top', blobs')
    BY <1>1, <1>2 DEF Due
  <2> QED BY <2>1, DueType DEF SteadyInv
<1>4. IntsOn(f, Request) /\ IntsOn(f2, Request)
  BY <1>3 DEF IntsOn
<1>5. /\ QuotaInv => used + SumFunctionOnSet(f, Request) <= UserQuotaBytes + room
      /\ used2 + SumFunctionOnSet(f2, Request) <= UserQuotaBytes + room =>
           QuotaInv'
  BY <1>1, <1>2 DEF QuotaInv
<1>6. /\ SumFunctionOnSet(f, Request) \in Int
      /\ SumFunctionOnSet(f2, Request) \in Int
  BY <1>4, SumInt
<1>7. used \in Nat /\ used2 \in Nat /\ UserQuotaBytes \in Nat /\ room \in Int
  <2>1. \A i, j \in Int : i * j \in Int
    OBVIOUS
  <2>2. Cardinality(Request) - 1 \in Int /\ LargestSize \in Int
    BY LargestFacts, FS_CardinalityType
  <2>3. room \in Int
    BY <2>1, <2>2
  <2> QED BY <1>n, <2>3, StorageGrows, LimitsAssumption
<1>8. ASSUME \A s \in Request : f2[s] <= f[s], used2 = used
      PROVE  QuotaInv'
  <2>1. SumFunctionOnSet(f2, Request) <= SumFunctionOnSet(f, Request)
    BY <1>4, <1>8, SumOrdered
  <2> HIDE DEF room, used, used2
  <2> QED BY <1>5, <1>6, <1>7, <1>8, <2>1
<1>9. ASSUME NEW r \in Request, used + f2[r] <= UserQuotaBytes, used2 = used
      PROVE  QuotaInv'
  <2>1. SumFunctionOnSet(f2, Request) <= f2[r] + room
    BY <1>3, <1>4, LargestFacts, SumOfOthers
  <2>2. f2[r] \in Nat
    BY <1>3
  <2> HIDE DEF room, used, used2
  <2> QED BY <1>5, <1>6, <1>7, <1>9, <2>1, <2>2
<1>10. ASSUME NEW r \in Request, f2[r] = 0, used2 = used + f[r],
              \A s \in Request \ {r} : req'[s] = req[s]
       PROVE  QuotaInv'
  <2>1. \A s \in Request \ {r} : f2[s] <= f[s]
    <3>1. blobs \subseteq blobs'
      BY <1>n, StorageMoves DEF PutBlob, InsertPacket
    <3>2. \A u \in Uploads : u.origin \in Device /\ u.counter \in Nat
      BY UploadsAssumption DEF UploadType
    <3>3. \A d \in Device :
            top[d] \in Nat /\ top'[d] \in Nat /\ top'[d] >= top[d]
      BY <1>n, StepGrows, MarkIsTop DEF IInv, Growth, top
    <3> QED BY <1>3, <1>10, <3>1, <3>2, <3>3, DueShrinks DEF SteadyInv
  <2>2. SumFunctionOnSet(f2, Request) + f[r] <=
          SumFunctionOnSet(f, Request) + f2[r]
    BY <1>4, <2>1, SumFollows
  <2>3. f[r] \in Nat
    BY <1>3
  <2> HIDE DEF room, used, used2
  <2> QED BY <1>5, <1>6, <1>7, <1>10, <2>2, <2>3
<1>11. \/ used2 = used
       \/ \E r \in Request :
            /\ f2[r] = 0 /\ used2 = used + f[r]
            /\ \A s \in Request \ {r} : req'[s] = req[s]
  BY <1>n, <1>3, StorageGrows
<1>12. \/ \A s \in Request : f2[s] <= f[s]
       \/ \E r \in Request : used + f2[r] <= UserQuotaBytes /\ used2 = used
  BY <1>3, DueMoves
<1> QED BY <1>8, <1>9, <1>10, <1>11, <1>12

(* NOO_USER_QUOTA_BYTES is passed by at most the largest body for each      *)
(* concurrent request but one, when clients upload their streams in order   *)
(* and no snapshot is credited for what it covers.                          *)
THEOREM QuotaKept ==
  /\ NothingCovers /\ SizesBounded /\ UserQuotaBytes > 0
  /\ IsFiniteSet(Request) /\ Request # {}
  => (SpecInOrder => []QuotaOvershoot)
<1> SUFFICES ASSUME NothingCovers, SizesBounded, UserQuotaBytes > 0,
                    IsFiniteSet(Request), Request # {}
             PROVE  SpecInOrder => []QuotaOvershoot
  OBVIOUS
<1> DEFINE Inv == IInv /\ SteadyInv /\ QuotaInv
<1>1. Init => Inv
  <2> SUFFICES ASSUME Init PROVE Inv
    OBVIOUS
  <2>1. IInv
    BY InitIInv
  <2>2. SteadyInv
    BY FS_EmptySet, NoneAssumption
       DEF Init, SteadyInv, OneRow, CalmHandler, SentInOrder, Blank, PutStages
  <2>3. UserStorageBytes = 0
    BY SumEmpty DEF Init, UserStorageBytes, Bytes
  <2>4. SumFunctionOnSet(Due, Request) = 0
    BY SumZero, NoneAssumption DEF Init, Due, DueOf, Blank
  <2>5. (Cardinality(Request) - 1) * LargestSize \in Nat
    <3>1. \A i, j \in Nat : i * j \in Nat
      OBVIOUS
    <3>2. Cardinality(Request) - 1 \in Nat
      BY FS_EmptySet, FS_CardinalityType
    <3> QED BY <3>1, <3>2, LargestFacts
  <2> QED BY <2>1, <2>2, <2>3, <2>4, <2>5, LimitsAssumption DEF QuotaInv
<1>2. Inv /\ [NextInOrder]_vars => Inv'
  <2> SUFFICES ASSUME Inv, [NextInOrder]_vars PROVE Inv'
    OBVIOUS
  <2>1. IInv'
    BY InOrderIsNext, IInvStep
  <2>2. SteadyInv'
    BY <2>1, SteadyStep
  <2> QED BY <2>1, <2>2, QuotaStep
<1>3. Inv => QuotaOvershoot
  <2> SUFFICES ASSUME Inv PROVE QuotaOvershoot
    OBVIOUS
  <2>1. UserStorageBytes \in Nat
    <3>1. Bytes(packets) \in Nat /\ SumFunctionOnSet(Size, blobs) \in Nat
      BY BytesFacts, BlobBytesFacts DEF IInv, TypeOK, PacketRow, SteadyInv
    <3> QED BY <3>1 DEF UserStorageBytes
  <2>2. SumFunctionOnSet(Due, Request) \in Nat
    <3>1. NatsOn(Due, Request)
      BY DueType DEF NatsOn, Due, SteadyInv
    <3> QED BY <3>1, SumGrows
  <2>3. (Cardinality(Request) - 1) * LargestSize \in Int
    <3>1. \A i, j \in Int : i * j \in Int
      OBVIOUS
    <3> QED BY <3>1, LargestFacts, FS_CardinalityType
  <2> QED BY <2>1, <2>2, <2>3, LimitsAssumption DEF QuotaInv, QuotaOvershoot
<1> QED BY <1>1, <1>2, <1>3, PTL DEF SpecInOrder

-----------------------------------------------------------------------------
(* An account at rest.                                                      *)

(* Stages from the insert a credit paid for to the end of the prune that    *)
(* earns it.                                                                *)
LoopStages == {"prune", "reassert", "count", "delpackets", "delrefs"}
OwingStages == {"raise", "record", "flag"} \cup LoopStages

(* Stages at which the devices ahead are all the upload covers. *)
WholeStages ==
  {"hasblob", "checkmark", "streams", "quota", "insert", "held", "raise",
   "record", "flag"}

(* Devices whose rows the loop of PruneCovered has not deleted yet. *)
Ahead(h) == IF h.pc = "delrefs" THEN h.devs \ {h.at} ELSE h.devs

(* What handler h was credited, over the rows stored and the tops t: it is  *)
(* declared covered, still there at the insert, and none of it without one. *)
CreditOK(h, rows, t) ==
  /\ \A row \in h.freed : /\ row.origin \in Covered(h.up)
                          /\ row.counter <= Clip(h.up, row.origin)
  /\ h.pc \in WholeStages => h.devs = Covered(h.up)
  /\ h.pc \in {"hasblob", "checkmark", "held", "flag"} => h.freed = {}
  /\ h.pc \in {"streams", "covered", "quota"} =>
       h.up.counter = t[h.up.origin] + 1
  /\ h.pc \in {"streams", "covered", "quota", "insert"} => h.freed \subseteq rows
  /\ h.pc = "insert" => h.freed = {} \/ h.up.counter = t[h.up.origin] + 1
  /\ h.pc = "raise" => h.stored
  /\ h.pc = "record" => h.stored \/ h.freed = {}

(* What the loop has still to delete of it. *)
LoopOK(h, rows) ==
  /\ h.pc \in LoopStages =>
       \A row \in h.freed \cap rows : row.origin \in Ahead(h)
  /\ h.pc \in DeviceStages =>
       \A row \in rows : row.origin = h.at => row.counter <= h.mark

(* What an account at rest may hold: its quota, and one body more for each  *)
(* failure so far.                                                          *)
Allowed == UserQuotaBytes + failures * LargestSize

(* The account is within its bound, but for what h has still to delete, and *)
(* for no more than what h has stored.                                      *)
Paid(h, rows, used, bound) ==
  /\ h.pc \notin OwingStages => used <= bound
  /\ h.pc \in OwingStages => /\ used <= bound + Bytes(h.freed \cap rows)
                             /\ used <= bound + LargestSize

(* What h is about to store fits. *)
Admitted(h, rows, held, t, used, bound) ==
  /\ h.pc = "insert" /\ h.up.counter = t[h.up.origin] + 1 =>
       used + Size[h.up.payload] <= bound + Bytes(h.freed \cap rows)
  /\ h.pc \in PutStages => \E id \in Blob :
       /\ h.todo = {id}
       /\ h.pc = "put" => id \in held \/ used + Size[id] <= bound

RestOK(h, rows, held, t, used, bound) ==
  CreditOK(h, rows, t) /\ LoopOK(h, rows) /\ Paid(h, rows, used, bound)
  /\ Admitted(h, rows, held, t, used, bound)

RestInv ==
  /\ IsFiniteSet(packets) /\ IsFiniteSet(blobs) /\ OneRow /\ failures \in Nat
  /\ \A r \in Request :
       RestOK(req[r], packets, blobs, top, UserStorageBytes, Allowed)

(* Stages at which an upload that owes nothing is asked nothing. *)
SpentStages ==
  {"idle", "missing", "full", "gap", "ack", "garbage", "collect"}

LEMMA SpentRests ==
  ASSUME NEW h, NEW h2, NEW rows, NEW held, NEW t, NEW used,
         NEW bound, RestOK(h, rows, held, t, used, bound), h.pc \notin OwingStages,
         h2.pc \in SpentStages, h2.up = h.up, h2.freed = h.freed
  PROVE  RestOK(h2, rows, held, t, used, bound)
<1>1. CreditOK(h2, rows, t)
  BY DEF RestOK, CreditOK, SpentStages, WholeStages
<1>2. LoopOK(h2, rows)
  BY DEF LoopOK, SpentStages, LoopStages, DeviceStages
<1>3. Paid(h2, rows, used, bound)
  BY DEF RestOK, Paid, SpentStages, OwingStages, LoopStages
<1>4. Admitted(h2, rows, held, t, used, bound)
  BY DEF Admitted, SpentStages, PutStages
<1> QED BY <1>1, <1>2, <1>3, <1>4 DEF RestOK

(* The numbers the quota is about. *)
LEMMA RestNumbers ==
  ASSUME SizesBounded, IInv, IsFiniteSet(packets), IsFiniteSet(blobs),
         failures \in Nat
  PROVE  /\ UserStorageBytes \in Nat /\ UserQuotaBytes \in Nat
         /\ Allowed \in Nat /\ UserQuotaBytes <= Allowed
         /\ \A rows \in SUBSET packets : Bytes(rows) \in Nat /\ IsFiniteSet(rows)
         /\ \A z \in Payload \cup Blob : Size[z] \in Nat
<1>1. \A row \in packets : row.payload \in Payload
  BY DEF IInv, TypeOK, PacketRow
<1>2. ASSUME NEW rows \in SUBSET packets
      PROVE  Bytes(rows) \in Nat /\ IsFiniteSet(rows)
  <2>1. IsFiniteSet(rows) /\ \A row \in rows : row.payload \in Payload
    BY <1>1, FS_Subset
  <2> QED BY <2>1, BytesFacts
<1>3. Bytes(packets) \in Nat
  BY <1>2
<1>4. SumFunctionOnSet(Size, blobs) \in Nat
  BY BlobBytesFacts DEF IInv, TypeOK
<1>5. UserStorageBytes \in Nat
  BY <1>3, <1>4 DEF UserStorageBytes
<1>6. failures * LargestSize \in Nat
  <2>1. \A i, j \in Nat : i * j \in Nat
    OBVIOUS
  <2> QED BY <2>1, LargestFacts
<1>7. Allowed \in Nat /\ UserQuotaBytes <= Allowed
  BY <1>6, LimitsAssumption DEF Allowed
<1> QED BY <1>2, <1>5, <1>7, SizeAssumption, LimitsAssumption

LEMMA RestFacts ==
  ASSUME IInv, RestInv, NEW r \in Request
  PROVE  /\ RestOK(req[r], packets, blobs, top, UserStorageBytes, Allowed)
         /\ req[r] \in Handler
         /\ \A from, x : Step(r, from, x) => req[r].pc = from /\ req'[r] = x
         /\ req[r].pc \in UploadStages =>
              /\ req[r].up \in Uploads /\ req[r].up.origin \in Device
              /\ req[r].up.counter \in Nat \ {0} /\ req[r].up.payload \in Payload
BY StepMoves, ServedType DEF RestInv, IInv, TypeOK

(* What the checks admit fits the quota, and what a credit counted is       *)
(* stored and covered.                                                      *)
LEMMA CheckRests ==
  ASSUME UserQuotaBytes > 0, SizesBounded, IInv, RestInv, NEW r \in Request, Check(r)
  PROVE  RestOK(req'[r], packets, blobs, top, UserStorageBytes, Allowed)
<1> DEFINE h == req[r]
           h2 == req'[r]
           used == UserStorageBytes
<1>w. Walks(r)
  BY CheckWalks DEF IInv
<1>h. /\ RestOK(h, packets, blobs, top, used, Allowed) /\ h \in Handler
      /\ h2.up = h.up /\ (h.pc # "covered" => h2.freed = h.freed)
      /\ <<h.pc, h2.pc>> \in Arrows
  BY <1>w, RestFacts DEF Walks
<1>t. \A from, x : Step(r, from, x) => h.pc = from /\ h2 = x
  BY RestFacts
<1>u. h.pc \in UploadStages =>
        /\ h.up \in Uploads /\ h.up.origin \in Device /\ h.up.counter \in Nat \ {0}
        /\ h.up.payload \in Payload
  BY RestFacts
<1>n. /\ used \in Nat /\ UserQuotaBytes \in Nat /\ Allowed \in Nat
      /\ UserQuotaBytes <= Allowed
      /\ \A rows \in SUBSET packets : Bytes(rows) \in Nat /\ IsFiniteSet(rows)
      /\ \A z \in Payload \cup Blob : Size[z] \in Nat
  BY RestNumbers DEF RestInv
<1>1. CASE HasBlob(r)
  <2>1. h.pc = "hasblob" /\ h2.pc \in {"hasblob", "checkmark"} /\ h2.devs = h.devs
    BY <1>1, <1>h, <1>t DEF HasBlob, Handler
  <2> QED BY <1>h, <2>1 DEF RestOK, CreditOK, LoopOK, Paid, Admitted, OwingStages,
             LoopStages, WholeStages, DeviceStages, PutStages
<1>2. CASE MissingBlob(r) \/ RefuseDisk(r) \/ RefuseStream(r)
  <2>1. h.pc \in {"hasblob", "checkmark", "streams"} /\ h2.pc \in {"missing", "full"}
    BY <1>2, <1>h, <1>t DEF MissingBlob, RefuseDisk, ReadMark, RefuseStream,
                               Goto, Handler
  <2> QED BY <1>h, <2>1, SpentRests DEF SpentStages, OwingStages, LoopStages
<1>3. CASE PassOldOrGap(r)
  <2>1. /\ h.pc = "checkmark" /\ h2.pc = "insert" /\ h2.devs = h.devs
        /\ h.up.counter # Mark(h.up.origin) + 1
    BY <1>3, <1>h, <1>t DEF PassOldOrGap, ReadMark, Handler
  <2>2. h.up.counter # top[h.up.origin] + 1
    BY <1>u, <2>1 DEF top, UploadStages
  <2> QED BY <1>h, <2>1, <2>2 DEF RestOK, CreditOK, LoopOK, Paid, Admitted,
             OwingStages, LoopStages, WholeStages, DeviceStages, PutStages
<1>4. CASE CheckNew(r) \/ CheckStreams(r)
  <2>1. /\ h.pc \in {"checkmark", "streams"}
        /\ h2.pc \in {"streams", "covered", "quota"} /\ h2.devs = h.devs
        /\ h.pc = "checkmark" => h.up.counter = Mark(h.up.origin) + 1
    <3>1. /\ ToQuota(h.up) \in {"covered", "quota"}
          /\ ToStreams(h.up) \in {"streams", "covered", "quota"}
      BY DEF ToQuota, ToStreams
    <3>2. CASE CheckNew(r)
      BY <1>h, <1>t, <3>1, <3>2 DEF CheckNew, ReadMark, Handler
    <3>3. CASE CheckStreams(r)
      BY <1>h, <3>1, <3>3, GotoMoves DEF CheckStreams, IInv
    <3> QED BY <1>4, <3>2, <3>3
  <2>2. h.up.counter = top[h.up.origin] + 1
    BY <1>h, <1>u, <2>1 DEF top, UploadStages, RestOK, CreditOK
  <2>3. h.freed \subseteq packets /\ h.devs = Covered(h.up)
    BY <1>h, <2>1 DEF RestOK, CreditOK, WholeStages
  <2> QED BY <1>h, <2>1, <2>2, <2>3 DEF RestOK, CreditOK, LoopOK, Paid, Admitted,
             OwingStages, LoopStages, WholeStages, DeviceStages, PutStages
<1>5. CASE CoveredBytes(r)
  <2>1. PICK d \in h.devs :
          LET rows == h.freed \cup Below(packets, d, Clip(h.up, d))
              last == h.devs = {d}
          IN Step(r, "covered",
               [req[r] EXCEPT
                  !.pc = IF last THEN ToCredited(h.up, rows) ELSE "covered",
                  !.freed = rows,
                  !.devs = IF last THEN Covered(h.up) ELSE @ \ {d}])
    BY <1>5 DEF CoveredBytes
  <2> DEFINE rows == h.freed \cup Below(packets, d, Clip(h.up, d))
             to == IF h.devs = {d} THEN ToCredited(h.up, rows) ELSE "covered"
  <2>2. /\ h.pc = "covered" /\ h2.pc = to /\ h2.freed = rows
        /\ to # "covered" => h2.devs = Covered(h.up)
    <3>1. PICK devs2 : devs2 = IF h.devs = {d} THEN Covered(h.up) ELSE h.devs \ {d}
      OBVIOUS
    <3>2. Step(r, "covered", [req[r] EXCEPT !.pc = to, !.freed = rows,
                                            !.devs = devs2])
      BY <2>1, <3>1
    <3>3. to # "covered" => devs2 = Covered(h.up)
      BY <3>1
    <3> HIDE DEF rows, to
    <3> QED BY <1>h, <1>t, <3>2, <3>3 DEF Handler
  <2>3. /\ to \in {"covered", "quota", "insert"}
        /\ to = "insert" => Size[h.up.payload] <= Bytes(rows)
    <3>1. h.up.payload \in Payload /\ rows \subseteq packets
      BY <1>u, <1>h, <2>2 DEF UploadStages, RestOK, CreditOK, Below
    <3>2. Size[h.up.payload] \in Nat /\ Bytes(rows) \in Nat
      BY <1>n, <3>1
    <3> HIDE DEF rows
    <3> QED BY <3>2 DEF ToCredited
  <2>4. d \in Covered(h.up)
    BY <1>u, <2>2, HandlerFacts DEF IInv, HandlerOK, ServesUpload, UploadStages
  <2>5. /\ \A row \in rows : /\ row.origin \in Covered(h.up)
                             /\ row.counter <= Clip(h.up, row.origin)
        /\ rows \subseteq packets /\ rows \cap packets = rows
    BY <1>h, <2>2, <2>4 DEF RestOK, CreditOK, Below
  <2> HIDE DEF rows, to
  <2>6. CreditOK(h2, packets, top)
    BY <1>h, <2>2, <2>3, <2>5 DEF RestOK, CreditOK, WholeStages
  <2>7. used <= Allowed
    BY <1>h, <2>2 DEF RestOK, Paid, OwingStages, LoopStages
  <2>8. to = "insert" =>
          used + Size[h.up.payload] <= Allowed + Bytes(rows)
    BY <1>n, <1>u, <2>2, <2>3, <2>5, <2>7 DEF UploadStages
  <2> QED BY <1>h, <2>2, <2>3, <2>5, <2>6, <2>7, <2>8 DEF RestOK, LoopOK, Paid,
             Admitted, OwingStages, LoopStages, DeviceStages, PutStages
<1>6. CASE CheckQuota(r)
  <2>1. /\ h.pc = "quota" /\ h2.devs = h.devs /\ h2.pc \in {"insert", "full"}
        /\ h2.pc = "insert" => FitsQuota(Size[h.up.payload], h.freed)
    BY <1>6, <1>h, GotoMoves DEF CheckQuota, IInv
  <2>2. CASE h2.pc = "full"
    BY <1>h, <2>1, <2>2, SpentRests DEF SpentStages, OwingStages, LoopStages
  <2>3. CASE h2.pc = "insert"
    <3>1. h.freed \cap packets = h.freed
      BY <1>h, <2>1 DEF RestOK, CreditOK
    <3>2. used + Size[h.up.payload] <= Allowed + Bytes(h.freed)
      <4>1. used + Size[h.up.payload] <= UserQuotaBytes + Bytes(h.freed)
        BY <2>1, <2>3 DEF FitsQuota
      <4>2. Size[h.up.payload] \in Nat /\ Bytes(h.freed \cap packets) \in Nat
        BY <1>n, <1>u, <2>1 DEF UploadStages
      <4> QED BY <1>n, <3>1, <4>1, <4>2
    <3>3. CreditOK(h2, packets, top) /\ LoopOK(h2, packets)
      BY <1>h, <2>1, <2>3 DEF RestOK, CreditOK, LoopOK, LoopStages, WholeStages,
         DeviceStages
    <3>4. Paid(h2, packets, used, Allowed)
      BY <1>h, <2>1, <2>3 DEF RestOK, Paid, OwingStages, LoopStages
    <3>5. Admitted(h2, packets, blobs, top, used, Allowed)
      BY <1>h, <2>1, <2>3, <3>1, <3>2 DEF Admitted, PutStages
    <3> QED BY <3>3, <3>4, <3>5 DEF RestOK
  <2> QED BY <2>1, <2>2, <2>3
<1> QED BY <1>1, <1>2, <1>3, <1>4, <1>5, <1>6 DEF Check

LEMMA NoBytes == Bytes({}) = 0
BY SumEmpty DEF Bytes

(* Between the insert and the prune nothing is owed but what was credited.  *)
LEMMA OwingRests ==
  ASSUME NEW h, NEW h2, NEW rows, NEW held, NEW t, NEW used \in Nat,
         NEW bound \in Nat, SizesBounded,
         RestOK(h, rows, held, t, used, bound), Bytes(h.freed \cap rows) \in Nat,
         h.pc \in {"held", "raise", "record"},
         h2.pc \in {"record", "flag", "prune", "ack"},
         h2.up = h.up, h2.freed = h.freed, h2.devs = h.devs,
         h2.pc = "record" => h2.stored \/ h.freed = {},
         h2.pc = "flag" => h.freed = {},
         h2.pc = "ack" => Covered(h.up) = {}
  PROVE  RestOK(h2, rows, held, t, used, bound)
<1>1. CreditOK(h2, rows, t) /\ h.devs = Covered(h.up)
  BY DEF RestOK, CreditOK, WholeStages
<1>2. LoopOK(h2, rows)
  BY <1>1 DEF CreditOK, LoopOK, LoopStages, DeviceStages, Ahead
<1>3. Paid(h2, rows, used, bound)
  <2>1. /\ used <= bound + Bytes(h.freed \cap rows)
        /\ used <= bound + LargestSize
    BY LargestFacts DEF RestOK, Paid, OwingStages, LoopStages
  <2>2. CASE h2.pc = "ack"
    <3>1. h.freed \cap rows = {}
      BY <2>2 DEF RestOK, CreditOK
    <3> QED BY <2>1, <2>2, <3>1, NoBytes, LimitsAssumption
            DEF Paid, OwingStages, LoopStages
  <2> QED BY <2>1, <2>2 DEF Paid, OwingStages, LoopStages
<1>4. Admitted(h2, rows, held, t, used, bound)
  BY DEF Admitted, PutStages
<1> QED BY <1>1, <1>2, <1>3, <1>4 DEF RestOK

LEMMA InsertRests ==
  ASSUME SizesBounded, IInv, RestInv, NEW r \in Request,
         \/ InsertNothing(r) \/ RaiseMark(r) \/ ReadHeld(r) \/ ReadGap(r)
         \/ RecordBlob(r)
  PROVE  RestOK(req'[r], packets, blobs, top, UserStorageBytes, Allowed)
<1> DEFINE h == req[r]
           h2 == req'[r]
           used == UserStorageBytes
<1>w. Walks(r)
  BY InsertWalks DEF IInv, Insert
<1>h. /\ RestOK(h, packets, blobs, top, used, Allowed) /\ h \in Handler
      /\ h2.up = h.up /\ (h.pc # "covered" => h2.freed = h.freed)
  BY <1>w, RestFacts DEF Walks
<1>t. \A from, x : Step(r, from, x) => h.pc = from /\ h2 = x
  BY RestFacts
<1>u. h.pc \in UploadStages =>
        /\ h.up \in Uploads /\ h.up.origin \in Device /\ h.up.counter \in Nat \ {0}
        /\ h.up.payload \in Payload
  BY RestFacts
<1>n. /\ used \in Nat /\ UserQuotaBytes \in Nat /\ Allowed \in Nat
      /\ UserQuotaBytes <= Allowed
      /\ \A rows \in SUBSET packets : Bytes(rows) \in Nat /\ IsFiniteSet(rows)
      /\ \A z \in Payload \cup Blob : Size[z] \in Nat
  BY RestNumbers DEF RestInv
<1>b. Bytes(h.freed \cap packets) \in Nat
  BY <1>n
<1>1. CASE InsertNothing(r)
  <2>1. /\ h.pc = "insert" /\ h2.pc = "held" /\ h2.devs = h.devs
        /\ Mark(h.up.origin) # h.up.counter - 1
    BY <1>1, GotoMoves DEF InsertNothing, IInv
  <2>2. h.up.counter # top[h.up.origin] + 1
    BY <1>u, <2>1, MarkIsTop DEF top, UploadStages, IInv
  <2> QED BY <1>h, <2>1, <2>2 DEF RestOK, CreditOK, LoopOK, Paid, Admitted,
             OwingStages, LoopStages, WholeStages, DeviceStages, PutStages
<1>2. CASE RaiseMark(r)
  <2>1. /\ h.pc = "raise" /\ h2.pc = ToRecord(h.up, TRUE)
        /\ h2.devs = h.devs /\ h2.stored = h.stored
    BY <1>2, <1>h, <1>t DEF RaiseMark, Record, Handler
  <2>2. /\ h2.pc \in {"record", "prune", "ack"}
        /\ h2.pc = "ack" => Covered(h.up) = {}
    BY <2>1 DEF ToRecord, ToFlag, ToPrune
  <2>3. h.stored
    BY <1>h, <2>1 DEF RestOK, CreditOK
  <2> QED BY <1>h, <1>n, <1>b, <2>1, <2>2, <2>3, OwingRests
<1>3. CASE ReadHeld(r)
  <2>1. /\ h.pc = "held" /\ h2.pc = ToRecord(h.up, FALSE) /\ h2.devs = h.devs
    BY <1>3, <1>h, <1>t DEF ReadHeld, Record, Handler
  <2>2. /\ h2.pc \in {"record", "flag", "prune", "ack"}
        /\ h2.pc = "ack" => Covered(h.up) = {}
    BY <2>1 DEF ToRecord, ToFlag, ToPrune
  <2>3. h.freed = {}
    BY <1>h, <2>1 DEF RestOK, CreditOK
  <2> QED BY <1>h, <1>n, <1>b, <2>1, <2>2, <2>3, OwingRests
<1>4. CASE ReadGap(r)
  <2>1. h.pc = "held" /\ h2.pc = "gap"
    BY <1>4, <1>h, <1>t DEF ReadGap, Handler
  <2> QED BY <1>h, <2>1, SpentRests DEF SpentStages, OwingStages, LoopStages
<1>5. CASE RecordBlob(r)
  <2>1. /\ h.pc = "record" /\ h2.pc \in {ToFlag(h.up, h.stored), "record"}
        /\ h2.devs = h.devs /\ h2.stored = h.stored
    <3>1. PICK pc \in {ToFlag(h.up, h.stored), "record"}, id \in h.todo :
            /\ h.pc = "record"
            /\ req' = [req EXCEPT ![r] = [h EXCEPT !.todo = @ \ {id}, !.pc = pc]]
      BY <1>5, <1>h DEF RecordBlob, Step
    <3> QED BY <1>h, <1>t, <3>1 DEF Handler
  <2>2. /\ h2.pc \in {"record", "flag", "prune", "ack"}
        /\ h2.pc = "ack" => Covered(h.up) = {}
        /\ h2.pc = "flag" => ~h.stored
    BY <2>1 DEF ToFlag, ToPrune
  <2>3. h.stored \/ h.freed = {}
    BY <1>h, <2>1 DEF RestOK, CreditOK
  <2> QED BY <1>h, <1>n, <1>b, <2>1, <2>2, <2>3, OwingRests
<1> QED BY <1>1, <1>2, <1>3, <1>4, <1>5

(* The rows credited of the device at hand are those its turn deletes.      *)
LEMMA CreditBelow ==
  ASSUME IInv, RestInv, NEW r \in Request,
         req[r].pc \in {"count", "delpackets"}
  PROVE  \A row \in req[r].freed \cap packets :
           /\ row.origin \in req[r].devs
           /\ row.origin = req[r].at =>
                row \in Below(packets, req[r].at, UpTo(req[r]))
<1> DEFINE h == req[r]
<1>1. RestOK(h, packets, blobs, top, UserStorageBytes, Allowed)
  BY DEF RestInv
<1>2. h.up \in Uploads /\ h.at \in Device /\ h.mark \in Nat
      /\ Clip(h.up, h.at) \in Nat
  <2>1. h.up \in Uploads /\ h \in Handler
    BY ServedType DEF UploadStages, IInv, TypeOK
  <2>2. h.at \in Device
    BY HandlerFacts DEF IInv, HandlerOK, ReadsPrunedStream, DeviceStages, Covered
  <2> QED BY <2>1, <2>2, ClipType DEF Handler
<1>3. \A n \in Nat : n <= Clip(h.up, h.at) /\ n <= h.mark => n <= UpTo(h)
  BY <1>2, MinOfTwo DEF UpTo, Min
<1>4. \A row \in packets : row.counter \in Nat
  BY DEF IInv, TypeOK, PacketRow
<1>5. \A row \in h.freed \cap packets : row.origin = h.at =>
        row.counter <= Clip(h.up, h.at) /\ row.counter <= h.mark
  BY <1>1 DEF RestOK, CreditOK, LoopOK, DeviceStages
<1>6. \A row \in h.freed \cap packets : row.origin \in h.devs
  BY <1>1 DEF RestOK, LoopOK, LoopStages, Ahead
<1> QED BY <1>3, <1>4, <1>5, <1>6 DEF Below

(* The loop of PruneCovered is over only when all that was credited is gone. *)
LEMMA PruneRests ==
  ASSUME SizesBounded, IInv, RestInv, NEW r \in Request,
         \/ ReadCoveredMark(r) \/ SkipUnknown(r) \/ Reassert(r) \/ CountSome(r)
         \/ CountNone(r) \/ DeleteRefs(r) \/ CountGarbage(r)
  PROVE  RestOK(req'[r], packets, blobs, top, UserStorageBytes, Allowed)
<1> DEFINE h == req[r]
           h2 == req'[r]
           used == UserStorageBytes
<1>w. Walks(r)
  BY PruneWalks DEF IInv, Prune
<1>h. /\ RestOK(h, packets, blobs, top, used, Allowed) /\ h \in Handler
      /\ h2.up = h.up /\ (h.pc # "covered" => h2.freed = h.freed)
  BY <1>w, RestFacts DEF Walks
<1>t. \A from, x : Step(r, from, x) => h.pc = from /\ h2 = x
  BY RestFacts
<1>u. h.pc \in UploadStages =>
        /\ h.up \in Uploads /\ h.up.origin \in Device /\ h.up.counter \in Nat \ {0}
        /\ h.up.payload \in Payload
  BY RestFacts
<1>n. /\ used \in Nat /\ UserQuotaBytes \in Nat /\ Allowed \in Nat
      /\ UserQuotaBytes <= Allowed
      /\ \A rows \in SUBSET packets : Bytes(rows) \in Nat /\ IsFiniteSet(rows)
      /\ \A z \in Payload \cup Blob : Size[z] \in Nat
  BY RestNumbers DEF RestInv
<1>c. \A row \in packets : row.origin \in Device /\ row.counter \in Nat \ {0}
  BY DEF IInv, TypeOK, PacketRow
<1>m. \A row \in packets : row.counter <= Mark(row.origin)
  <2>1. \A row \in packets : row.counter \in Tops(row.origin)
    BY <1>c DEF Tops, Counters, Held
  <2> QED BY <1>c, <2>1, MarkIsTop DEF IInv
<1>d. ASSUME NEW from, NEW d, NEW p, NextDevice(r, from, d, p),
             from \in LoopStages,
             \A row \in h.freed \cap packets :
               row.origin \in h.devs /\ row.origin # d
      PROVE  RestOK(h2, packets, blobs, top, used, Allowed)
  <2> DEFINE left == h.devs \ {d}
             to == IF left # {} THEN "prune" ELSE IF p THEN "garbage" ELSE "ack"
  <2>1. Step(r, from, [h EXCEPT !.pc = to, !.devs = left, !.at = None, !.mark = 0,
                                !.pruned = p])
    BY <1>d DEF NextDevice
  <2>2. \A row \in h.freed \cap packets : row.origin \in left
    BY <1>d
  <2>3. to \in {"prune", "garbage", "ack"} /\ (to # "prune" => left = {})
    OBVIOUS
  <2> HIDE DEF to, left
  <2>4. h.pc = from /\ h2.pc = to /\ h2.devs = left
    <3>1. /\ h.pc = from
          /\ h2 = [h EXCEPT !.pc = to, !.devs = left, !.at = None, !.mark = 0,
                            !.pruned = p]
      BY <1>t, <2>1
    <3> QED BY <1>h, <3>1 DEF Handler
  <2>5. h2.freed = h.freed
    BY <1>d, <1>h, <2>4 DEF LoopStages
  <2>6. CreditOK(h2, packets, top)
    BY <1>h, <2>3, <2>4, <2>5 DEF RestOK, CreditOK, WholeStages
  <2>7. LoopOK(h2, packets)
    BY <2>2, <2>3, <2>4, <2>5 DEF LoopOK, LoopStages, DeviceStages, Ahead
  <2>8. /\ used <= Allowed + Bytes(h.freed \cap packets)
        /\ used <= Allowed + LargestSize
    BY <1>d, <1>h, <2>4 DEF RestOK, Paid, OwingStages
  <2>9. to # "prune" => h.freed \cap packets = {}
    BY <2>2, <2>3
  <2>10. Paid(h2, packets, used, Allowed)
    <3>1. to # "prune" => used <= Allowed
      BY <1>n, <2>8, <2>9, NoBytes
    <3> QED BY <2>3, <2>4, <2>5, <2>8, <3>1 DEF Paid, OwingStages, LoopStages
  <2> QED BY <2>3, <2>4, <2>6, <2>7, <2>10 DEF RestOK, Admitted, PutStages
<1>1. CASE ReadCoveredMark(r)
  <2>1. PICK d \in h.devs :
          Step(r, "prune", [h EXCEPT !.pc = "reassert", !.at = d, !.mark = Mark(d)])
    BY <1>1 DEF ReadCoveredMark
  <2>2. /\ h.pc = "prune" /\ h2.pc = "reassert" /\ h2.at = d /\ h2.mark = Mark(d)
        /\ h2.devs = h.devs
    BY <1>h, <1>t, <2>1 DEF Handler
  <2> QED BY <1>h, <1>m, <2>2 DEF RestOK, CreditOK, LoopOK, Paid, Admitted, Ahead,
             OwingStages, LoopStages, WholeStages, DeviceStages, PutStages
<1>2. CASE SkipUnknown(r)
  <2>1. PICK d \in h.devs : NextDevice(r, "prune", d, h.pruned) /\ Mark(d) = 0
    BY <1>2 DEF SkipUnknown
  <2>2. h.pc = "prune"
    BY <1>t, <2>1 DEF NextDevice
  <2>3. \A row \in h.freed \cap packets : row.origin \in h.devs /\ row.origin # d
    BY <1>c, <1>h, <1>m, <2>1, <2>2 DEF RestOK, LoopOK, LoopStages, Ahead
  <2> QED BY <1>d, <2>1, <2>3 DEF LoopStages
<1>3. CASE Reassert(r) \/ CountSome(r)
  <2>1. /\ h.pc \in {"reassert", "count"} /\ h2.pc \in {"count", "delpackets"}
        /\ h2.devs = h.devs /\ h2.at = h.at /\ h2.mark = h.mark
    BY <1>3, GotoMoves DEF Reassert, CountSome, IInv
  <2> QED BY <1>h, <2>1 DEF RestOK, CreditOK, LoopOK, Paid, Admitted, Ahead,
             OwingStages, LoopStages, WholeStages, DeviceStages, PutStages
<1>4. CASE CountNone(r)
  <2>1. /\ h.pc = "count" /\ NextDevice(r, "count", h.at, h.pruned)
        /\ Below(packets, h.at, UpTo(h)) = {}
    BY <1>4, <1>t DEF CountNone, NextDevice
  <2>2. \A row \in h.freed \cap packets : row.origin \in h.devs /\ row.origin # h.at
    BY <1>4, <1>h, <2>1, CreditBelow DEF LoopStages, DeviceStages
  <2> QED BY <1>d, <2>1, <2>2 DEF LoopStages
<1>5. CASE DeleteRefs(r)
  <2>1. h.pc = "delrefs" /\ NextDevice(r, "delrefs", h.at, TRUE)
    BY <1>5, <1>t DEF DeleteRefs, NextDevice
  <2>2. \A row \in h.freed \cap packets : row.origin \in h.devs /\ row.origin # h.at
    BY <1>h, <2>1 DEF RestOK, LoopOK, LoopStages, Ahead
  <2> QED BY <1>d, <2>1, <2>2 DEF LoopStages
<1>6. CASE CountGarbage(r)
  <2>1. h.pc = "garbage" /\ h2.pc \in {"ack", "collect"}
    BY <1>6, GotoMoves DEF CountGarbage, IInv
  <2> QED BY <1>h, <2>1, SpentRests DEF SpentStages, OwingStages, LoopStages
<1> QED BY <1>1, <1>2, <1>3, <1>4, <1>5, <1>6

(* An insert that was admitted takes no more than the quota and the credit. *)
LEMMA StoreRests ==
  ASSUME SizesBounded, IInv, RestInv, NEW r \in Request, InsertPacket(r)
  PROVE  RestOK(req'[r], packets', blobs', top', UserStorageBytes', Allowed)
<1> DEFINE h == req[r]
           h2 == req'[r]
<1>1. /\ h.pc = "insert" /\ h2.pc = "raise" /\ h2.stored = TRUE
      /\ h2.up = h.up /\ h2.freed = h.freed /\ h2.devs = h.devs
  <2>1. Step(r, "insert", [h EXCEPT !.pc = "raise", !.stored = TRUE])
    BY DEF InsertPacket
  <2>2. h.pc = "insert" /\ h2 = [h EXCEPT !.pc = "raise", !.stored = TRUE]
    BY <2>1, RestFacts
  <2> QED BY <2>2, RestFacts DEF Handler
<1>2. RestOK(h, packets, blobs, top, UserStorageBytes, Allowed)
  BY RestFacts
<1>3. UserStorageBytes' = UserStorageBytes + Size[h.up.payload]
  <2>1. Bytes(packets) \in Nat /\ SumFunctionOnSet(Size, blobs) \in Nat
    BY BytesFacts, BlobBytesFacts DEF RestInv, IInv, TypeOK, PacketRow
  <2> QED BY <2>1, InsertBytes DEF RestInv, UserStorageBytes
<1>4. h.freed \cap packets' = h.freed /\ h.freed \cap packets = h.freed
  BY <1>1, <1>2, InsertBytes DEF RestOK, CreditOK, RestInv
<1>5. UserStorageBytes' <= Allowed + Bytes(h.freed)
  BY <1>1, <1>2, <1>3, <1>4, InsertBytes DEF RestOK, Admitted, RestInv
<1>7. UserStorageBytes' <= Allowed + LargestSize
  <2>1. UserStorageBytes <= Allowed
    BY <1>1, <1>2 DEF RestOK, Paid, OwingStages, LoopStages
  <2>2. h.up.payload \in Payload
    BY <1>1, RestFacts DEF UploadStages
  <2>3. Size[h.up.payload] \in Nat /\ Size[h.up.payload] <= LargestSize
    BY <2>2, LargestFacts
  <2>4. UserStorageBytes \in Nat /\ Allowed \in Nat
    BY RestNumbers DEF RestInv
  <2> QED BY <1>3, <2>1, <2>3, <2>4, LargestFacts
<1>6. CreditOK(h2, packets', top')
  BY <1>1, <1>2 DEF RestOK, CreditOK, WholeStages
<1> QED BY <1>1, <1>4, <1>5, <1>6, <1>7 DEF RestOK, LoopOK, Paid, Admitted,
           OwingStages, LoopStages, DeviceStages, PutStages

(* Setting a flag owes nothing. *)
LEMMA FlagRests ==
  ASSUME SizesBounded, IInv, RestInv, NEW r \in Request, FlagSnapshot(r)
  PROVE  RestOK(req'[r], packets', blobs', top', UserStorageBytes', Allowed)
<1> DEFINE h == req[r]
           h2 == req'[r]
<1>1. /\ h.pc = "flag" /\ h2.pc \in {"prune", "ack"}
      /\ h2.up = h.up /\ h2.freed = h.freed /\ h2.devs = h.devs
  BY RestFacts DEF FlagSnapshot, Goto, Handler, ToPrune
<1>2. RestOK(h, packets, blobs, top, UserStorageBytes, Allowed)
  BY RestFacts
<1>3. UserStorageBytes' = UserStorageBytes
  BY FlagBytes DEF RestInv, UserStorageBytes, FlagSnapshot
<1>4. h.freed = {} /\ UserStorageBytes <= Allowed + Bytes(h.freed \cap packets)
  BY <1>1, <1>2 DEF RestOK, CreditOK, Paid, OwingStages
<1>5. UserStorageBytes' <= Allowed /\ Bytes({} \cap packets') = 0
  <2>1. {} \cap packets = {} /\ {} \cap packets' = {}
    OBVIOUS
  <2>2. Allowed \in Nat
    BY RestNumbers DEF RestInv
  <2> QED BY <1>3, <1>4, <2>1, <2>2, NoBytes
<1>6. UserStorageBytes' <= Allowed + LargestSize /\ Allowed \in Nat
  <2>1. Allowed \in Nat /\ UserStorageBytes \in Nat
    BY RestNumbers DEF RestInv
  <2> QED BY <1>3, <1>5, <2>1, LargestFacts
<1> QED BY <1>1, <1>4, <1>5, <1>6 DEF RestOK, CreditOK, WholeStages,
           LoopOK, Paid, Admitted, OwingStages, LoopStages, DeviceStages, PutStages

(* What a turn of the loop deletes, it no longer owes. *)
LEMMA DeleteRests ==
  ASSUME SizesBounded, IInv, RestInv, NEW r \in Request, DeletePackets(r)
  PROVE  RestOK(req'[r], packets', blobs', top', UserStorageBytes', Allowed)
<1> DEFINE h == req[r]
           h2 == req'[r]
           gone == Below(packets, h.at, UpTo(h))
           owed == h.freed \cap packets
           owed2 == h.freed \cap packets'
<1>1. /\ h.pc = "delpackets" /\ h2.pc = "delrefs" /\ h2.freed = h.freed
      /\ h2.up = h.up /\ h2.devs = h.devs /\ h2.at = h.at /\ h2.mark = h.mark
  BY RestFacts DEF DeletePackets, Goto, Handler
<1>2. /\ packets' = packets \ gone /\ blobs' = blobs
  BY DEF DeletePackets
<1>3. RestOK(h, packets, blobs, top, UserStorageBytes, Allowed)
  BY RestFacts
<1>4. \A row \in owed2 : row.origin \in h.devs /\ row.origin # h.at
  BY <1>1, <1>2, CreditBelow
<1>5. gone \in SUBSET packets /\ owed \in SUBSET packets
      /\ owed2 = owed \ (owed \cap gone)
  BY <1>2 DEF Below
<1>6. IsFiniteSet(packets) /\ \A x \in packets : x.payload \in Payload
  BY DEF RestInv, IInv, TypeOK, PacketRow
<1>7. UserStorageBytes <= Allowed + Bytes(owed)
  BY <1>1, <1>3 DEF RestOK, Paid, OwingStages, LoopStages
<1>8. SumFunctionOnSet(Size, blobs) \in Nat /\ Allowed \in Nat
  BY BlobBytesFacts, RestNumbers DEF RestInv, IInv, TypeOK
<1>9. UserStorageBytes = Bytes(packets) + SumFunctionOnSet(Size, blobs)
      /\ UserStorageBytes' = Bytes(packets') + SumFunctionOnSet(Size, blobs)
  BY <1>2 DEF UserStorageBytes
<1> HIDE DEF gone, owed, owed2
<1>10. /\ UserStorageBytes' <= Allowed + Bytes(owed2)
       /\ UserStorageBytes' <= UserStorageBytes
  <2> DEFINE both == owed \cap gone
  <2>1. /\ Bytes(packets) = Bytes(packets') + Bytes(gone)
        /\ Bytes(packets') \in Nat /\ Bytes(gone) \in Nat
    BY <1>2, <1>5, <1>6, BytesSplit
  <2>2. /\ IsFiniteSet(owed) /\ \A x \in owed : x.payload \in Payload
        /\ IsFiniteSet(gone) /\ \A x \in gone : x.payload \in Payload
    BY <1>5, <1>6, FS_Subset
  <2>3. both \in SUBSET owed /\ both \in SUBSET gone /\ owed2 = owed \ both
    BY <1>5
  <2> HIDE DEF both
  <2>4. /\ Bytes(owed) = Bytes(owed2) + Bytes(both)
        /\ Bytes(owed2) \in Nat /\ Bytes(both) \in Nat
    BY <2>2, <2>3, BytesSplit
  <2>5. Bytes(both) <= Bytes(gone)
    <3>1. /\ Bytes(gone) = Bytes(gone \ both) + Bytes(both)
          /\ Bytes(gone \ both) \in Nat
      BY <2>2, <2>3, BytesSplit
    <3> QED BY <2>4, <3>1
  <2> QED BY <1>7, <1>8, <1>9, <2>1, <2>4, <2>5
<1>13. UserStorageBytes' <= Allowed + LargestSize
  <2>1. UserStorageBytes <= Allowed + LargestSize
    BY <1>1, <1>3 DEF RestOK, Paid, OwingStages, LoopStages
  <2>2. UserStorageBytes \in Nat /\ UserStorageBytes' \in Nat
    <3>1. UserStorageBytes \in Nat
      BY RestNumbers DEF RestInv
    <3>2. Bytes(packets') \in Nat
      BY <1>2, <1>5, <1>6, BytesSplit
    <3> QED BY <1>8, <1>9, <3>1, <3>2
  <2> QED BY <1>8, <1>10, <2>1, <2>2, LargestFacts
<1>11. LoopOK(h2, packets')
  <2>1. packets' \subseteq packets
    BY <1>2
  <2>2. \A row \in packets : row.origin = h.at => row.counter <= h.mark
    BY <1>1, <1>3 DEF RestOK, LoopOK, DeviceStages
  <2> QED BY <1>1, <1>4, <2>1, <2>2 DEF LoopOK, LoopStages, DeviceStages, Ahead, owed2
<1>12. CreditOK(h2, packets', top')
  BY <1>1, <1>3 DEF RestOK, CreditOK, WholeStages
<1> QED BY <1>1, <1>10, <1>11, <1>12, <1>13 DEF RestOK, Paid, Admitted,
           OwingStages, LoopStages, PutStages, owed2

(* Blobs that are collected, and what a PUT stores. *)
LEMMA CollectRests ==
  ASSUME SizesBounded, IInv, RestInv, NEW r \in Request, CollectBlobs(r)
  PROVE  /\ RestOK(req'[r], packets', blobs', top', UserStorageBytes', Allowed)
         /\ IsFiniteSet(blobs')
<1> DEFINE h == req[r]
           h2 == req'[r]
<1>1. /\ h.pc = "collect" /\ h2.pc = "ack" /\ h2.up = h.up /\ h2.freed = h.freed
      /\ blobs' \in SUBSET blobs /\ packets' = packets
  BY RestFacts DEF CollectBlobs, Goto, Handler
<1>2. RestOK(h, packets, blobs, top, UserStorageBytes, Allowed)
  BY RestFacts
<1>3. IsFiniteSet(blobs')
  BY <1>1, FS_Subset DEF RestInv
<1>4. UserStorageBytes' <= UserStorageBytes
  <2>1. NatsOn(Size, blobs)
    BY SizeAssumption DEF NatsOn, IInv, TypeOK
  <2>2. /\ SumFunctionOnSet(Size, blobs') <= SumFunctionOnSet(Size, blobs)
        /\ SumFunctionOnSet(Size, blobs') \in Nat
        /\ SumFunctionOnSet(Size, blobs) \in Nat
    BY <1>1, <2>1, SumGrows, BlobBytesFacts DEF RestInv, IInv, TypeOK
  <2>3. Bytes(packets) \in Nat
    BY BytesFacts DEF RestInv, IInv, TypeOK, PacketRow
  <2>4. UserStorageBytes' = Bytes(packets) + SumFunctionOnSet(Size, blobs')
    BY <1>1 DEF UserStorageBytes
  <2> QED BY <2>2, <2>3, <2>4 DEF UserStorageBytes
<1>5. UserStorageBytes <= Allowed /\ UserStorageBytes \in Nat
      /\ UserStorageBytes' \in Nat
  <2>1. UserStorageBytes \in Nat
    BY RestNumbers DEF RestInv
  <2>2. Bytes(packets') \in Nat /\ SumFunctionOnSet(Size, blobs') \in Nat
    BY <1>1, <1>3, BytesFacts, BlobBytesFacts DEF RestInv, IInv, TypeOK, PacketRow
  <2> QED BY <1>1, <1>2, <2>1, <2>2
          DEF RestOK, Paid, OwingStages, LoopStages, UserStorageBytes
<1>6. UserStorageBytes' <= Allowed
  <2>1. Allowed \in Nat
    BY RestNumbers DEF RestInv
  <2> QED BY <1>4, <1>5, <2>1
<1>7. CreditOK(h2, packets', top') /\ LoopOK(h2, packets')
  BY <1>1, <1>2 DEF RestOK, CreditOK, LoopOK, LoopStages, WholeStages, DeviceStages
<1>8. Paid(h2, packets', UserStorageBytes', Allowed)
  BY <1>1, <1>6 DEF Paid, OwingStages, LoopStages
<1>9. Admitted(h2, packets', blobs', top', UserStorageBytes', Allowed)
  BY <1>1 DEF Admitted, PutStages
<1> QED BY <1>3, <1>7, <1>8, <1>9 DEF RestOK

LEMMA PutRests ==
  ASSUME UserQuotaBytes > 0, SizesBounded, IInv, RestInv, NEW r \in Request,
         PutHas(r) \/ RefusePutDisk(r) \/ PutQuota(r)
  PROVE  RestOK(req'[r], packets, blobs, top, UserStorageBytes, Allowed)
<1> DEFINE h == req[r]
           h2 == req'[r]
           used == UserStorageBytes
<1>h. RestOK(h, packets, blobs, top, used, Allowed) /\ h \in Handler
  BY RestFacts
<1>1. CASE RefusePutDisk(r)
  <2>1. /\ h.pc = "puthas" /\ h2.pc = "full" /\ h2.up = h.up /\ h2.freed = h.freed
    BY <1>1, RestFacts DEF RefusePutDisk, Goto, Handler
  <2> QED BY <1>h, <2>1, SpentRests DEF SpentStages, OwingStages, LoopStages
<1>2. CASE PutHas(r)
  <2>1. /\ h.pc = "puthas" /\ h2.pc \in {"put", "putquota"} /\ h2.up = h.up
        /\ h2.freed = h.freed /\ h2.todo = h.todo
        /\ h2.pc = "put" => h.todo \subseteq blobs
    BY <1>2, RestFacts DEF PutHas, Goto, Handler
  <2> QED BY <1>h, <2>1 DEF RestOK, CreditOK, LoopOK, Paid, Admitted, OwingStages,
             LoopStages, WholeStages, DeviceStages, PutStages
<1>3. CASE PutQuota(r)
  <2>1. PICK id \in h.todo :
          Goto(r, "putquota", IF FitsQuota(Size[id], {}) THEN "put" ELSE "full")
    BY <1>3 DEF PutQuota
  <2>2. /\ h.pc = "putquota" /\ h2.pc \in {"put", "full"} /\ h2.up = h.up
        /\ h2.freed = h.freed /\ h2.todo = h.todo
        /\ h2.pc = "put" => FitsQuota(Size[id], {})
    BY <2>1, RestFacts DEF Goto, Handler
  <2>3. CASE h2.pc = "full"
    BY <1>h, <2>2, <2>3, SpentRests DEF SpentStages, OwingStages, LoopStages
  <2>4. CASE h2.pc = "put"
    <3>1. id \in Blob /\ h.todo = {id}
      BY <1>h, <2>1, <2>2 DEF RestOK, Admitted, PutStages
    <3>2. used + Size[id] <= Allowed
      <4>1. used + Size[id] <= UserQuotaBytes + 0
        BY <2>2, <2>4, NoBytes DEF FitsQuota
      <4>2. /\ used \in Nat /\ UserQuotaBytes \in Nat /\ Allowed \in Nat
            /\ UserQuotaBytes <= Allowed /\ Size[id] \in Nat
        BY <3>1, RestNumbers DEF RestInv
      <4> QED BY <4>1, <4>2
    <3>3. CreditOK(h2, packets, top) /\ LoopOK(h2, packets)
      BY <1>h, <2>2, <2>4 DEF RestOK, CreditOK, LoopOK, LoopStages, WholeStages,
         DeviceStages
    <3>4. Paid(h2, packets, used, Allowed)
      BY <1>h, <2>2, <2>4 DEF RestOK, Paid, OwingStages, LoopStages
    <3>5. Admitted(h2, packets, blobs, top, used, Allowed)
      BY <2>2, <2>4, <3>1, <3>2 DEF Admitted, PutStages
    <3> QED BY <3>3, <3>4, <3>5 DEF RestOK
  <2> QED BY <2>2, <2>3, <2>4
<1> QED BY <1>1, <1>2, <1>3

LEMMA PutBlobRests ==
  ASSUME SizesBounded, IInv, RestInv, NEW r \in Request, PutBlob(r)
  PROVE  /\ RestOK(req'[r], packets', blobs', top', UserStorageBytes', Allowed)
         /\ IsFiniteSet(blobs')
<1> DEFINE h == req[r]
           h2 == req'[r]
<1>1. /\ h.pc = "put" /\ h2.pc = "ack" /\ h2.up = h.up /\ h2.freed = h.freed
      /\ blobs' = blobs \cup h.todo /\ packets' = packets
  BY RestFacts DEF PutBlob, Goto, Handler
<1>2. RestOK(h, packets, blobs, top, UserStorageBytes, Allowed)
  BY RestFacts
<1>3. PICK id \in Blob : /\ h.todo = {id}
                        /\ \/ id \in blobs
                           \/ UserStorageBytes + Size[id] <= Allowed
  BY <1>1, <1>2 DEF RestOK, Admitted, PutStages
<1>4. blobs' = blobs \cup {id} /\ IsFiniteSet(blobs')
  BY <1>1, <1>3, FS_AddElement DEF RestInv
<1>5. UserStorageBytes' <= Allowed
  <2>1. CASE id \in blobs
    <3>1. UserStorageBytes' = UserStorageBytes
      BY <1>1, <1>4, <2>1 DEF UserStorageBytes
    <3> QED BY <1>1, <1>2, <3>1 DEF RestOK, Paid, OwingStages, LoopStages
  <2>2. CASE id \notin blobs
    <3>1. /\ SumFunctionOnSet(Size, blobs') = SumFunctionOnSet(Size, blobs) + Size[id]
          /\ SumFunctionOnSet(Size, blobs) \in Nat
      BY <1>4, <2>2, BlobBytesFacts DEF RestInv, IInv, TypeOK
    <3>2. Bytes(packets) \in Nat /\ Size[id] \in Nat
      BY BytesFacts, SizeAssumption DEF RestInv, IInv, TypeOK, PacketRow
    <3>3. UserStorageBytes' = Bytes(packets) + SumFunctionOnSet(Size, blobs')
      BY <1>1 DEF UserStorageBytes
    <3>4. UserStorageBytes' = UserStorageBytes + Size[id]
      BY <3>1, <3>2, <3>3 DEF UserStorageBytes
    <3> QED BY <1>3, <2>2, <3>4
  <2> QED BY <2>1, <2>2
<1> QED BY <1>1, <1>2, <1>4, <1>5 DEF RestOK, CreditOK, WholeStages, LoopOK, Paid,
           Admitted, OwingStages, LoopStages, DeviceStages, PutStages

(* A request that comes in or is answered finds the account at rest. *)
LEMMA FreshRests ==
  ASSUME UserQuotaBytes > 0, SizesBounded, IInv, RestInv, NEW r \in Request,
         \/ \E u \in Uploads : Receive(r, u)
         \/ \E id \in Blob : ReceiveBlob(r, id)
         \/ Respond(r)
  PROVE  RestOK(req'[r], packets, blobs, top, UserStorageBytes, Allowed)
<1> DEFINE h == req[r]
           h2 == req'[r]
           used == UserStorageBytes
<1>h. RestOK(h, packets, blobs, top, used, Allowed)
  BY RestFacts
<1>1. ASSUME h.pc \in Answers \cup {"idle"}, h2.freed = {},
             \/ h2.pc = "idle"
             \/ h2.pc \in {"hasblob", "checkmark"} /\ h2.devs = Covered(h2.up)
             \/ h2.pc = "puthas" /\ \E id \in Blob : h2.todo = {id}
      PROVE  RestOK(h2, packets, blobs, top, used, Allowed)
  <2>1. used <= Allowed
    BY <1>h, <1>1 DEF RestOK, Paid, OwingStages, LoopStages, Answers
  <2> QED BY <1>1, <2>1 DEF RestOK, CreditOK, LoopOK, Paid, Admitted, OwingStages,
             LoopStages, WholeStages, DeviceStages, PutStages
<1>2. ASSUME NEW u \in Uploads, Receive(r, u)
      PROVE  RestOK(h2, packets, blobs, top, used, Allowed)
  <2> DEFINE to == IF u.blobs # {} THEN "hasblob" ELSE "checkmark"
             x == [Blank EXCEPT !.pc = to, !.up = u, !.todo = u.blobs,
                                !.devs = Covered(u), !.arrived = Mark(u.origin)]
  <2>1. h.pc = "idle" /\ h2 = x
    BY <1>2, RestFacts DEF Receive
  <2>2. x.pc = to /\ x.freed = {} /\ x.up = u /\ x.devs = Covered(u)
    <3> HIDE DEF to
    <3> QED BY DEF Blank
  <2>3. to \in {"hasblob", "checkmark"}
    OBVIOUS
  <2> HIDE DEF x, to
  <2> QED BY <1>1, <2>1, <2>2, <2>3
<1>3. ASSUME NEW id \in Blob, ReceiveBlob(r, id)
      PROVE  RestOK(h2, packets, blobs, top, used, Allowed)
  <2>1. h.pc = "idle" /\ h2 = [Blank EXCEPT !.pc = "puthas", !.todo = {id}]
    <3>1. UserQuotaBytes # 0
      BY LimitsAssumption
    <3>2. Step(r, "idle", [Blank EXCEPT !.pc = "puthas", !.todo = {id}])
      BY <1>3, <3>1 DEF ReceiveBlob
    <3> QED BY <3>2, RestFacts
  <2>2. h2.pc = "puthas" /\ h2.freed = {} /\ h2.todo = {id}
    BY <2>1 DEF Blank
  <2> QED BY <1>1, <2>1, <2>2
<1>4. CASE Respond(r)
  <2>1. h.pc \in Answers /\ h2 = Blank
    BY <1>4 DEF Respond, IInv, TypeOK
  <2> QED BY <1>1, <2>1 DEF Blank
<1> QED BY <1>2, <1>3, <1>4

LEMMA SteadyIsNext == [NextSteady]_vars => [Next]_vars
BY DEF NextSteady, Next

LEMMA RestStep ==
  ASSUME OneAtATime, UserQuotaBytes > 0, SizesBounded, IInv, RestInv,
         [NextSteady]_vars, failures' = failures, IInv'
  PROVE  RestInv'
<1>n. [Next]_vars
  BY SteadyIsNext
<1>a. Allowed' = Allowed
  BY DEF Allowed
<1>o. OneRow'
  BY <1>n, OneRowStep DEF RestInv
<1>e. ASSUME IsFiniteSet(packets'), IsFiniteSet(blobs'), NEW r \in Request,
             RestOK(req'[r], packets', blobs', top', UserStorageBytes', Allowed)
      PROVE  RestInv'
  <2>1. \A s \in Request :
          RestOK(req'[s], packets', blobs', top', UserStorageBytes', Allowed)
    BY <1>e DEF OneAtATime
  <2> QED BY <1>a, <1>e, <1>o, <2>1 DEF RestInv
<1>q. ASSUME packets' = packets, blobs' = blobs, NEW r \in Request,
             RestOK(req'[r], packets, blobs, top, UserStorageBytes, Allowed)
      PROVE  RestInv'
  <2>1. \A s \in Request : ~InsertsNext(s)
    BY <1>q, InsertBytes DEF InsertsNext, RestInv
  <2>2. TopsKept
    BY <1>n, <2>1, TopStep DEF IInv
  <2>3. top' = top
    BY <2>2 DEF TopsKept, top
  <2>4. UserStorageBytes' = UserStorageBytes
    BY <1>q DEF UserStorageBytes
  <2>5. RestOK(req'[r], packets', blobs', top', UserStorageBytes', Allowed)
    BY <1>q, <2>3, <2>4
  <2> QED BY <1>e, <1>q, <2>5 DEF RestInv
<1>1. ASSUME NEW r \in Request, Check(r)
      PROVE  RestInv'
  <2>1. packets' = packets /\ blobs' = blobs
    BY <1>1 DEF Check, HasBlob, MissingBlob, PassOldOrGap, CheckNew, RefuseDisk,
       ReadMark, CheckStreams, RefuseStream, CoveredBytes, CheckQuota, tables
  <2> QED BY <1>1, <1>q, <2>1, CheckRests
<1>2. ASSUME NEW r \in Request,
             \/ InsertNothing(r) \/ RaiseMark(r) \/ ReadHeld(r) \/ ReadGap(r)
             \/ RecordBlob(r)
      PROVE  RestInv'
  <2>1. packets' = packets /\ blobs' = blobs
    BY <1>2 DEF InsertNothing, RaiseMark, ReadHeld, ReadGap, RecordBlob, tables
  <2> QED BY <1>2, <1>q, <2>1, InsertRests
<1>3. ASSUME NEW r \in Request,
             \/ ReadCoveredMark(r) \/ SkipUnknown(r) \/ Reassert(r) \/ CountSome(r)
             \/ CountNone(r) \/ DeleteRefs(r) \/ CountGarbage(r)
      PROVE  RestInv'
  <2>1. packets' = packets /\ blobs' = blobs
    BY <1>3 DEF ReadCoveredMark, SkipUnknown, Reassert, CountSome, CountNone,
       DeleteRefs, CountGarbage, tables
  <2> QED BY <1>3, <1>q, <2>1, PruneRests
<1>4. ASSUME NEW r \in Request, PutHas(r) \/ RefusePutDisk(r) \/ PutQuota(r)
      PROVE  RestInv'
  <2>1. packets' = packets /\ blobs' = blobs
    BY <1>4 DEF PutHas, RefusePutDisk, PutQuota, tables
  <2> QED BY <1>4, <1>q, <2>1, PutRests
<1>5. ASSUME NEW r \in Request,
             \/ \E u \in Uploads : Receive(r, u)
             \/ \E id \in Blob : ReceiveBlob(r, id)
             \/ Respond(r)
      PROVE  RestInv'
  <2>1. packets' = packets /\ blobs' = blobs
    BY <1>5 DEF Receive, ReceiveBlob, Respond, tables
  <2> QED BY <1>5, <1>q, <2>1, FreshRests
<1>6. ASSUME NEW r \in Request, InsertPacket(r)
      PROVE  RestInv'
  <2>1. IsFiniteSet(packets') /\ blobs' = blobs
    BY <1>6, InsertBytes DEF RestInv
  <2> QED BY <1>6, <1>e, <2>1, StoreRests DEF RestInv
<1>7. ASSUME NEW r \in Request, FlagSnapshot(r)
      PROVE  RestInv'
  <2>1. IsFiniteSet(packets') /\ blobs' = blobs
    BY <1>7, FlagBytes DEF RestInv, FlagSnapshot
  <2> QED BY <1>7, <1>e, <2>1, FlagRests DEF RestInv
<1>8. ASSUME NEW r \in Request, DeletePackets(r)
      PROVE  RestInv'
  <2>1. packets' \in SUBSET packets /\ blobs' = blobs
    BY <1>8 DEF DeletePackets
  <2>2. IsFiniteSet(packets')
    BY <2>1, FS_Subset DEF RestInv
  <2> QED BY <1>8, <1>e, <2>1, <2>2, DeleteRests DEF RestInv
<1>9. ASSUME NEW r \in Request, CollectBlobs(r) \/ PutBlob(r)
      PROVE  RestInv'
  <2>1. packets' = packets
    BY <1>9 DEF CollectBlobs, PutBlob
  <2>2. /\ RestOK(req'[r], packets', blobs', top', UserStorageBytes', Allowed)
        /\ IsFiniteSet(blobs')
    BY <1>9, CollectRests, PutBlobRests
  <2> QED BY <1>e, <2>1, <2>2 DEF RestInv
<1>10. CASE UNCHANGED vars
  <2>1. /\ packets' = packets /\ blobs' = blobs /\ req' = req
        /\ marks' = marks
    BY <1>10 DEF vars, tables
  <2>2. top' = top /\ UserStorageBytes' = UserStorageBytes
    BY <2>1 DEF top, Mark, Counters, Held, UserStorageBytes
  <2>3. \A r \in Request :
          RestOK(req'[r], packets', blobs', top', UserStorageBytes', Allowed')
    BY <1>a, <2>1, <2>2 DEF RestInv
  <2> QED BY <1>o, <2>1, <2>3 DEF RestInv
<1> QED BY <1>1, <1>2, <1>3, <1>4, <1>5, <1>6, <1>7, <1>8, <1>9, <1>10
        DEF NextSteady, Serve, Insert, Prune, Put

LEMMA FailIsNext == Fail => Next
BY DEF Fail, Next

LEMMA FailNextIsNext == [FailNext]_failVars => [Next]_vars
BY SteadyIsNext, FailIsNext DEF FailNext, failVars

(* A failure leaves the account over by what the request cut off has stored. *)
LEMMA FailRests ==
  ASSUME OneAtATime, Request # {}, SizesBounded, IInv, RestInv, Fail
  PROVE  RestInv'
<1>1. packets' = packets /\ blobs' = blobs /\ OneRow'
  <2>1. packets' = packets /\ blobs' = blobs
    BY DEF Fail, Restart, Cancel, tables
  <2> QED BY <2>1 DEF RestInv, OneRow
<1>2. \A r \in Request : req'[r] = Blank
  <2>1. CASE Restart
    BY <2>1 DEF Restart
  <2>2. ASSUME NEW r \in Request, Cancel(r)
        PROVE  \A s \in Request : req'[s] = Blank
    BY <2>2 DEF Cancel, OneAtATime, IInv, TypeOK
  <2> QED BY <2>1, <2>2 DEF Fail
<1>3. failures' \in Nat /\ Allowed' = Allowed + LargestSize
  <2>1. failures \in Nat /\ failures' = failures + 1
    BY DEF Fail, RestInv
  <2>2. \A i, j \in Nat : (i + 1) * j = i * j + j /\ i * j \in Nat
    OBVIOUS
  <2>3. /\ (failures + 1) * LargestSize = failures * LargestSize + LargestSize
        /\ failures * LargestSize \in Nat
    BY <2>1, <2>2, LargestFacts
  <2>4. Allowed' = UserQuotaBytes + (failures + 1) * LargestSize
    BY <2>1 DEF Allowed
  <2> QED BY <2>1, <2>3, <2>4, LargestFacts, LimitsAssumption DEF Allowed
<1>4. UserStorageBytes <= Allowed + LargestSize
  <2>1. PICK r \in Request : TRUE
    OBVIOUS
  <2>2. Paid(req[r], packets, UserStorageBytes, Allowed)
    BY DEF RestInv, RestOK
  <2>3. UserStorageBytes \in Nat /\ Allowed \in Nat
    BY RestNumbers DEF RestInv
  <2> QED BY <2>2, <2>3, LargestFacts DEF Paid
<1>5. UserStorageBytes' <= Allowed'
  <2>1. UserStorageBytes' = UserStorageBytes
    BY <1>1 DEF UserStorageBytes
  <2> QED BY <1>3, <1>4, <2>1
<1>6. \A r \in Request :
        RestOK(req'[r], packets', blobs', top', UserStorageBytes', Allowed')
  BY <1>2, <1>5 DEF Blank, RestOK, CreditOK, LoopOK, Paid, Admitted, OwingStages,
     LoopStages, WholeStages, DeviceStages, PutStages
<1> QED BY <1>1, <1>3, <1>6 DEF RestInv

(* What CoveredBytes credited to a snapshot, PruneCovered frees: however the *)
(* loop over covers runs, an account whose requests come one after the other *)
(* is within NOO_USER_QUOTA_BYTES whenever it is at rest, but for one body   *)
(* for each request that was cut off; however many failures there are, and   *)
(* wherever they strike.                                                     *)
THEOREM RestsWithinQuota ==
  OneAtATime /\ Request # {} /\ UserQuotaBytes > 0 /\ SizesBounded
    => (SpecFail => []RestWithinQuota)
<1> SUFFICES ASSUME OneAtATime, Request # {}, UserQuotaBytes > 0, SizesBounded
             PROVE  SpecFail => []RestWithinQuota
  OBVIOUS
<1> DEFINE Inv == IInv /\ RestInv
<1>1. FailInit => Inv
  <2> SUFFICES ASSUME Init, failures = 0 PROVE Inv
    BY DEF FailInit
  <2>1. IInv
    BY InitIInv
  <2>2. UserStorageBytes = 0 /\ UserStorageBytes <= Allowed
    <3>1. UserStorageBytes = 0
      BY SumEmpty DEF Init, UserStorageBytes, Bytes
    <3>2. Allowed \in Nat
      BY <2>1, FS_EmptySet, RestNumbers DEF Init
    <3> QED BY <3>1, <3>2
  <2>3. \A r \in Request :
          RestOK(req[r], packets, blobs, top, UserStorageBytes, Allowed)
    BY <2>2 DEF Init, Blank, RestOK, CreditOK, LoopOK, Paid,
       Admitted, OwingStages, LoopStages, WholeStages, DeviceStages, PutStages
  <2> QED BY <2>1, <2>3, FS_EmptySet DEF Init, RestInv, OneRow
<1>2. Inv /\ [FailNext]_failVars => Inv'
  <2> SUFFICES ASSUME Inv, [FailNext]_failVars PROVE Inv'
    OBVIOUS
  <2>1. IInv'
    BY FailNextIsNext, IInvStep
  <2>2. CASE Fail
    BY <2>1, <2>2, FailRests
  <2>3. CASE [NextSteady]_vars /\ failures' = failures
    BY <2>1, <2>3, RestStep
  <2> QED BY <2>1, <2>2, <2>3 DEF FailNext, failVars
<1>3. Inv => RestWithinQuota
  BY DEF Idle, RestWithinQuota, RestInv, RestOK, Paid, OwingStages, LoopStages,
     Allowed
<1> QED BY <1>1, <1>2, <1>3, PTL DEF SpecFail

-----------------------------------------------------------------------------
(* References and re-sends, while nothing has failed.                       *)

LEMMA KeptIsNext == [KeptNext]_failVars => [Next]_vars
BY FailIsNext DEF KeptNext, Next, failVars

(* Which statements the stages around the tables of packets and references  *)
(* have.                                                                    *)
LEMMA TableActions ==
  ASSUME NEW r \in Request, Check(r) \/ Insert(r) \/ Prune(r) \/ Put(r)
  PROVE  /\ req[r].pc = "hasblob" => HasBlob(r) \/ MissingBlob(r)
         /\ req[r].pc = "raise" => RaiseMark(r)
         /\ req[r].pc = "held" => ReadHeld(r) \/ ReadGap(r)
         /\ req[r].pc = "record" => RecordBlob(r)
         /\ req[r].pc = "delpackets" => DeletePackets(r)
         /\ req[r].pc = "delrefs" => DeleteRefs(r)
BY DEF Check, Insert, Prune, Put, HasBlob, MissingBlob, PassOldOrGap,
        CheckNew, RefuseDisk, ReadMark, CheckStreams, RefuseStream, CoveredBytes,
        CheckQuota, InsertPacket, InsertNothing, FlagSnapshot, RaiseMark, ReadHeld,
        ReadGap, Record, RecordBlob, ReadCoveredMark, SkipUnknown, NextDevice,
        Reassert, CountSome, CountNone, DeletePackets, DeleteRefs, CountGarbage,
        CollectBlobs, PutHas, RefusePutDisk, PutQuota, PutBlob, Goto, Step

(* An upload comes in. *)
LEMMA ReceiveMoves ==
  ASSUME TypeOK, NEW r \in Request, NEW u \in Uploads, Receive(r, u)
  PROVE  /\ req[r].pc = "idle" /\ req'[r].pc \in {"hasblob", "checkmark"}
         /\ req'[r].up = u /\ req'[r].todo = u.blobs
         /\ \A s \in Request \ {r} : req'[s] = req[s]
         /\ UNCHANGED tables
<1> DEFINE to == IF u.blobs # {} THEN "hasblob" ELSE "checkmark"
           h2 == [Blank EXCEPT !.pc = to, !.up = u, !.todo = u.blobs,
                    !.devs = Covered(u), !.arrived = Mark(u.origin)]
<1>1. Step(r, "idle", h2) /\ UNCHANGED tables
  BY DEF Receive
<1>2. h2.pc = to /\ h2.up = u /\ h2.todo = u.blobs
  <2> HIDE DEF to
  <2> QED BY DEF Blank
<1>3. to \in {"hasblob", "checkmark"}
  OBVIOUS
<1> HIDE DEF h2, to
<1> QED BY <1>1, <1>2, <1>3, StepMoves

(* A blob comes in, or a request ends with its answer. *)
LEMMA OtherMoves ==
  ASSUME TypeOK, NEW r \in Request,
         Respond(r) \/ \E id \in Blob : ReceiveBlob(r, id)
  PROVE  /\ req[r].pc \in Answers \cup {"idle"}
         /\ req'[r].pc \in {"idle", "put", "puthas"}
         /\ \A s \in Request \ {r} : req'[s] = req[s]
         /\ UNCHANGED tables
<1>1. CASE Respond(r)
  BY <1>1 DEF Respond, TypeOK, Blank
<1>2. ASSUME NEW id \in Blob, ReceiveBlob(r, id)
      PROVE  /\ req[r].pc = "idle" /\ req'[r].pc \in {"put", "puthas"}
             /\ \A s \in Request \ {r} : req'[s] = req[s]
             /\ UNCHANGED tables
  <2> DEFINE to == IF MinFreeDiskBytes = 0 /\ UserQuotaBytes = 0
                   THEN "put" ELSE "puthas"
             h2 == [Blank EXCEPT !.pc = to, !.todo = {id}]
  <2>1. Step(r, "idle", h2) /\ UNCHANGED tables
    BY <1>2 DEF ReceiveBlob
  <2>2. h2.pc = to
    <3> HIDE DEF to
    <3> QED BY DEF Blank
  <2>3. to \in {"put", "puthas"}
    OBVIOUS
  <2> HIDE DEF h2, to
  <2> QED BY <2>1, <2>2, <2>3, StepMoves
<1> QED BY <1>1, <1>2

(* Where recordPacketBlobs starts and how it goes on. *)
LEMMA RecordMoves ==
  ASSUME TypeOK, NEW r \in Request, NEW from, NEW inserted,
         Record(r, from, inserted)
  PROVE  /\ req[r].pc = from /\ req'[r].up = req[r].up
         /\ req'[r].todo = req[r].up.blobs
         /\ req[r].up.blobs # {} => req'[r].pc = "record"
<1> DEFINE to == ToRecord(req[r].up, inserted)
           h2 == [req[r] EXCEPT !.pc = to, !.todo = req[r].up.blobs, !.mark = 0]
<1>1. Step(r, from, h2)
  BY DEF Record
<1>2. h2.pc = to /\ h2.up = req[r].up /\ h2.todo = req[r].up.blobs
  <2> HIDE DEF to
  <2> QED BY DEF TypeOK, Handler
<1>3. req[r].up.blobs # {} => to = "record"
  BY DEF ToRecord
<1> HIDE DEF h2, to
<1> QED BY <1>1, <1>2, <1>3, StepMoves

LEMMA RecordBlobMoves ==
  ASSUME TypeOK, NEW r \in Request, RecordBlob(r)
  PROVE  /\ req[r].pc = "record"
         /\ \E id \in req[r].todo :
              /\ refs' = refs \cup {Link(req[r].up, id)}
              /\ req'[r].todo = req[r].todo \ {id}
              /\ req[r].todo # {id} => req'[r].pc = "record"
<1> DEFINE u == req[r].up
           to(id) == IF req[r].todo = {id} THEN ToFlag(u, req[r].stored)
                                           ELSE "record"
           left(id) == req[r].todo \ {id}
           h2(id) == [req[r] EXCEPT !.todo = left(id), !.pc = to(id)]
<1>1. PICK id \in req[r].todo : /\ Step(r, "record", h2(id))
                                /\ refs' = refs \cup {Link(u, id)}
  BY DEF RecordBlob, Link
<1>2. h2(id).todo = left(id) /\ h2(id).pc = to(id)
  <2> HIDE DEF to, left
  <2> QED BY DEF TypeOK, Handler
<1>3. req[r].todo # {id} => to(id) = "record"
  OBVIOUS
<1> HIDE DEF h2, to
<1> QED BY <1>1, <1>2, <1>3, StepMoves

(* A reference has its packet, or the second DELETE of PruneCovered is about *)
(* to take it.                                                              *)
Backed(ref) ==
  \/ ref.counter \in Counters(ref.origin)
  \/ \E r \in Request : /\ req[r].pc = "delrefs" /\ ref.origin = req[r].at
                        /\ ref.counter <= UpTo(req[r])

(* A request that has references to add has a packet to add them to. *)
HasSlot(r) ==
  req[r].up \in Uploads =>
    /\ req[r].pc \in Unstored => Kept(req[r].up)
    /\ req[r].pc \in {"raise", "record"} =>
         \/ req[r].up.blobs = {}
         \/ req[r].up.counter \in Counters(req[r].up.origin)

BackInv == (\A ref \in refs : Backed(ref)) /\ \A r \in Request : HasSlot(r)

(* The uploads that come in are kept, and nothing fails. *)
KeptSteady ==
  \E r \in Request :
    \/ \E u \in Uploads : Kept(u) /\ Receive(r, u)
    \/ \E id \in Blob : ReceiveBlob(r, id)
    \/ Serve(r)

(* A step at the edges of a request, or one that leaves the tables alone. *)
LEMMA BackBeside ==
  ASSUME OneAtATime, BackInv, NEW r \in Request,
         refs' = refs, req[r].pc # "delrefs",
         \A d \in Device : Counters(d)' = Counters(d),
         refs \subseteq RefRow, HasSlot(r)'
  PROVE  BackInv'
<1>1. \A ref \in refs : ref.counter \in Counters(ref.origin)'
  BY DEF BackInv, Backed, OneAtATime, RefRow
<1> QED BY <1>1 DEF BackInv, Backed, OneAtATime

LEMMA BackStep ==
  ASSUME OneAtATime, IInv, BlobInv, BackInv, IInv', KeptSteady
  PROVE  BackInv'
<1>n. [Next]_vars
  BY DEF KeptSteady, Next
<1>t. TypeOK /\ HandlersOK /\ HasTop /\ TypeOK' /\ refs \subseteq RefRow
  BY DEF IInv, TypeOK
<1>k. ASSUME packets' = packets
      PROVE  \A d \in Device : Counters(d)' = Counters(d)
  BY <1>k DEF Counters, Held
<1>1. ASSUME NEW r \in Request, NEW u \in Uploads, Kept(u), Receive(r, u)
      PROVE  BackInv'
  <2>1. /\ req[r].pc = "idle" /\ req'[r].pc \in {"hasblob", "checkmark"}
        /\ req'[r].up = u /\ UNCHANGED tables
    BY <1>1, <1>t, ReceiveMoves
  <2>2. Kept(u)'
    BY <1>1, <2>1 DEF tables, Kept, Mark, Counters, Held
  <2>3. HasSlot(r)'
    BY <2>1, <2>2 DEF HasSlot
  <2> QED BY <1>k, <1>t, <2>1, <2>3, BackBeside DEF tables
<1>2. ASSUME NEW r \in Request,
             Respond(r) \/ \E id \in Blob : ReceiveBlob(r, id)
      PROVE  BackInv'
  <2>1. /\ req[r].pc \in Answers \cup {"idle"}
        /\ req'[r].pc \in {"idle", "put", "puthas"} /\ UNCHANGED tables
    BY <1>2, <1>t, OtherMoves
  <2>2. HasSlot(r)' /\ req[r].pc # "delrefs"
    BY <2>1 DEF HasSlot, Unstored, Answers
  <2> QED BY <1>k, <1>t, <2>1, <2>2, BackBeside DEF tables
<1>3. ASSUME NEW r \in Request, Check(r) \/ Insert(r) \/ Prune(r) \/ Put(r)
      PROVE  BackInv'
  <2> DEFINE u == req[r].up
  <2>w. Walks(r)
    BY <1>3, <1>t, CheckWalks, InsertWalks, PruneWalks, PutWalks
  <2>u. req[r].pc \in UploadStages =>
          u \in Uploads /\ u.origin \in Device /\ u.counter \in Nat
    BY <1>t, ServedType
  <2>f. req'[r].up = u /\ HasSlot(r)
    BY <2>w DEF Walks, BackInv
  <2>1. CASE InsertPacket(r)
    <3> DEFINE row == [origin |-> u.origin, counter |-> u.counter,
                       payload |-> u.payload, snap |-> u.snapshot]
    <3>1. /\ req[r].pc = "insert" /\ packets' = packets \cup {row} /\ refs' = refs
      BY <2>1 DEF InsertPacket, Step
    <3>2. row.origin = u.origin /\ row.counter = u.counter
      OBVIOUS
    <3> HIDE DEF row
    <3>3. /\ u.counter \in Counters(u.origin)'
          /\ \A d \in Device : Counters(d) \subseteq Counters(d)'
      <4>1. row \in packets' /\ packets \subseteq packets'
        BY <3>1
      <4>2. u.counter \in Counters(u.origin)'
        BY <2>f, <3>2, <4>1 DEF Counters, Held
      <4> QED BY <4>1, <4>2 DEF Counters, Held
    <3>4. \A ref \in refs : ref.counter \in Counters(ref.origin)'
      BY <1>t, <3>1, <3>3 DEF BackInv, Backed, OneAtATime, RefRow
    <3>5. req'[r].pc \notin Unstored \/ req'[r].pc = "held"
      BY <3>1, <2>w DEF Walks, Arrows, Unstored
    <3>6. req'[r].pc # "held"
      <4> DEFINE h2 == [req[r] EXCEPT !.pc = "raise", !.stored = TRUE]
      <4>1. Step(r, "insert", h2)
        BY <2>1 DEF InsertPacket
      <4>2. h2.pc = "raise"
        BY <1>t DEF Handler, TypeOK
      <4> HIDE DEF h2
      <4> QED BY <1>t, <4>1, <4>2, StepMoves
    <3>7. HasSlot(r)'
      BY <2>f, <3>3, <3>5, <3>6 DEF HasSlot
    <3> QED BY <3>1, <3>4, <3>7 DEF BackInv, Backed, OneAtATime
  <2>2. CASE RecordBlob(r)
    <3>1. req[r].pc = "record" /\ packets' = packets
      BY <2>2, <1>t, RecordBlobMoves DEF RecordBlob
    <3>2. PICK id \in req[r].todo : refs' = refs \cup {Link(u, id)}
      BY <2>2, <1>t, RecordBlobMoves
    <3>3. u \in Uploads /\ u.origin \in Device
      BY <2>u, <3>1 DEF UploadStages
    <3>4. u.blobs # {}
      BY <3>1, <3>2, <3>3 DEF BlobInv, BlobsHeld
    <3>5. u.counter \in Counters(u.origin)'
      BY <1>k, <2>f, <3>1, <3>3, <3>4 DEF HasSlot
    <3>6. \A ref \in refs : ref.counter \in Counters(ref.origin)'
      BY <1>k, <1>t, <3>1 DEF BackInv, Backed, OneAtATime, RefRow
    <3>7. \A ref \in refs' : ref.counter \in Counters(ref.origin)'
      BY <2>f, <3>2, <3>5, <3>6 DEF Link
    <3>8. req'[r].pc \notin Unstored
      BY <2>w, <3>1 DEF Walks, Arrows, Unstored
    <3>9. HasSlot(r)'
      BY <2>f, <3>5, <3>8 DEF HasSlot
    <3> QED BY <3>7, <3>9 DEF BackInv, Backed, OneAtATime
  <2>3. CASE DeletePackets(r)
    <3>1. /\ req[r].pc = "delpackets" /\ req'[r].pc = "delrefs"
          /\ req'[r].at = req[r].at /\ req'[r].mark = req[r].mark
      BY <2>3, <1>t, GotoMoves DEF DeletePackets
    <3>2. /\ packets' = packets \ Below(packets, req[r].at, UpTo(req[r]))
          /\ refs' = refs
      BY <2>3 DEF DeletePackets
    <3>3. UpTo(req[r])' = UpTo(req[r])
      BY <2>f, <3>1 DEF UpTo
    <3>4. \A ref \in refs : ref.counter \in Counters(ref.origin)
      BY <1>t, <3>1 DEF BackInv, Backed, OneAtATime
    <3>5. \A ref \in refs : \/ ref.counter \in Counters(ref.origin)'
                            \/ /\ ref.origin = req[r].at
                               /\ ref.counter <= UpTo(req[r])
      BY <3>2, <3>4 DEF Counters, Held, Below
    <3>6. HasSlot(r)'
      BY <3>1 DEF HasSlot, Unstored
    <3>7. \A ref \in refs : Backed(ref)'
      BY <3>1, <3>3, <3>5 DEF Backed
    <3> QED BY <3>2, <3>6, <3>7 DEF BackInv, OneAtATime
  <2>4. CASE DeleteRefs(r)
    <3>1. /\ req[r].pc = "delrefs" /\ packets' = packets
          /\ refs' = refs \ Below(refs, req[r].at, UpTo(req[r]))
      BY <2>4 DEF DeleteRefs, NextDevice, Step
    <3>2. \A ref \in refs' : ref.counter \in Counters(ref.origin)
      BY <3>1 DEF BackInv, Backed, OneAtATime, Below
    <3>3. \A ref \in refs' : ref.counter \in Counters(ref.origin)'
      BY <1>k, <1>t, <3>1, <3>2 DEF RefRow
    <3>4. HasSlot(r)'
      BY <2>w, <3>1 DEF Walks, Arrows, HasSlot, Unstored
    <3> QED BY <3>3, <3>4 DEF BackInv, Backed, OneAtATime
  <2>5. CASE ~(InsertPacket(r) \/ RecordBlob(r) \/ DeletePackets(r) \/ DeleteRefs(r))
    <3>1. refs' = refs
      BY <1>n, <2>5, RefsMove DEF OneAtATime
    <3>2. \A d \in Device : Counters(d)' = Counters(d)
      <4>1. packets' = packets \/ FlagSnapshot(r)
        BY <1>n, <2>5, PacketsMove DEF OneAtATime
      <4> QED BY <1>k, <1>t, <4>1, FlagKeepsTops
    <3>3. \A d \in Device : Mark(d)' = Mark(d)
      <4>1. TopsKept
        BY <1>n, <1>t, <2>5, TopStep DEF OneAtATime, InsertsNext
      <4> QED BY <4>1 DEF TopsKept
    <3>4. req[r].pc \notin {"record", "delpackets", "delrefs"}
      BY <1>3, <2>5, TableActions
    <3>5. req[r].pc = "insert" => req'[r].pc = "held"
      BY <1>3, <1>t, <2>5, StageActions, GotoMoves DEF InsertNothing
    <3>6. req[r].pc = "held" /\ req'[r].pc = "record" =>
            u.counter <= Mark(u.origin)
      <4>1. CASE ReadHeld(r)
        BY <4>1 DEF ReadHeld
      <4>2. CASE ReadGap(r)
        <5> DEFINE h2 == [req[r] EXCEPT !.pc = "gap", !.mark = Mark(u.origin)]
        <5>1. Step(r, "held", h2)
          BY <4>2 DEF ReadGap
        <5>2. h2.pc = "gap"
          BY <1>t DEF Handler, TypeOK
        <5> HIDE DEF h2
        <5> QED BY <1>t, <5>1, <5>2, StepMoves
      <4> QED BY <1>3, <4>1, <4>2, TableActions
    <3>7. HasSlot(r)'
      <4> SUFFICES ASSUME u \in Uploads
                   PROVE  /\ req'[r].pc \in Unstored => Kept(u)'
                          /\ req'[r].pc \in {"raise", "record"} =>
                               u.blobs = {} \/ u.counter \in Counters(u.origin)'
        BY <2>f DEF HasSlot
      <4>1. u.origin \in Device /\ u.counter \in Nat
        BY UploadsAssumption DEF UploadType
      <4>2. Kept(u)' <=> Kept(u)
        BY <2>f, <3>2, <3>3, <4>1 DEF Kept
      <4>3. req'[r].pc \in Unstored => req[r].pc \in Unstored
        BY <2>w DEF Walks, Arrows, Unstored
      <4>4. req'[r].pc \in {"raise", "record"} =>
              req[r].pc \in {"raise", "held"}
        BY <2>w, <3>4, <3>5 DEF Walks, Arrows
      <4>5. req[r].pc = "held" => Kept(u)
        BY <2>f DEF HasSlot, Unstored
      <4>6. Mark(u.origin) \in Nat
        BY <1>t, <4>1, MarkIsTop
      <4>7. req[r].pc = "held" /\ req'[r].pc = "record" =>
              u.blobs = {} \/ u.counter \in Counters(u.origin)
        BY <3>6, <4>1, <4>5, <4>6 DEF Kept
      <4>8. req[r].pc = "held" => req'[r].pc # "raise"
        BY <2>w DEF Walks, Arrows
      <4> QED BY <2>f, <3>2, <4>1, <4>2, <4>3, <4>4, <4>7, <4>8 DEF HasSlot
    <3> QED BY <1>t, <3>1, <3>2, <3>4, <3>7, BackBeside
  <2> QED BY <2>1, <2>2, <2>3, <2>4, <2>5
<1> QED BY <1>1, <1>2, <1>3 DEF KeptSteady, Serve

(* packet_blobs says which blobs each stored packet declared: as long as no *)
(* request is cut off and no slot that was pruned is uploaded again with a  *)
(* declaration, no row of it is left at rest for a packet that is gone.     *)
THEOREM ReferencesHavePackets ==
  OneAtATime => (SpecKept => []RefsOfStoredPackets)
<1> SUFFICES ASSUME OneAtATime PROVE SpecKept => []RefsOfStoredPackets
  OBVIOUS
<1> DEFINE Inv == /\ IInv /\ BlobInv /\ failures \in Nat
                  /\ failures = 0 => BackInv
<1>1. FailInit => Inv
  <2> SUFFICES ASSUME FailInit PROVE Inv
    OBVIOUS
  <2>1. IInv
    BY InitIInv DEF FailInit
  <2>2. BlobInv /\ BackInv
    BY NoneAssumption DEF FailInit, Init, BlobInv, BlobsHeld, BackInv, HasSlot, Blank
  <2> QED BY <2>1, <2>2 DEF FailInit
<1>2. Inv /\ [KeptNext]_failVars => Inv'
  <2> SUFFICES ASSUME Inv, [KeptNext]_failVars PROVE Inv'
    OBVIOUS
  <2>1. IInv' /\ BlobInv'
    BY KeptIsNext, IInvStep, BlobStep
  <2>2. CASE Fail
    BY <2>1, <2>2 DEF Fail
  <2>3. CASE KeptSteady /\ failures' = failures
    BY <2>1, <2>3, BackStep
  <2>4. CASE UNCHANGED failVars
    <3>1. failures = 0 => BackInv'
      BY <2>4 DEF failVars, vars, tables, BackInv, Backed, HasSlot, Kept, Mark,
         Counters, Held
    <3> QED BY <2>1, <2>4, <3>1 DEF failVars
  <2> QED BY <2>2, <2>3, <2>4 DEF KeptNext, KeptSteady
<1>3. Inv => RefsOfStoredPackets
  BY DEF RefsOfStoredPackets, Idle, BackInv, Backed
<1> QED BY <1>1, <1>2, <1>3, PTL DEF SpecKept

(* A declared blob of a stored packet is still to be recorded: the request   *)
(* that stored it, or one that re-sends it, is on its way to the end of     *)
(* recordPacketBlobs.                                                       *)
Recording(u, b) ==
  \E r \in Request :
    /\ SameSlot(req[r].up, u)
    /\ req[r].pc = "raise" \/ (req[r].pc = "record" /\ b \in req[r].todo)

(* What a stored packet declared is recorded, or about to be. *)
DeclaredOK ==
  \A row \in packets : \A u \in Uploads : SameSlot(row, u) =>
    \A b \in u.blobs : Link(u, b) \in refs \/ Recording(u, b)

(* A blob is looked up because it was declared, and found missing only if   *)
(* the packet is not stored.                                                *)
LooksUp(r) ==
  /\ req[r].pc = "hasblob" => req[r].todo \subseteq req[r].up.blobs
  /\ req[r].pc = "missing" =>
       req[r].up.counter \notin Counters(req[r].up.origin)

ResendInv == DeclaredOK /\ \A r \in Request : LooksUp(r)

(* The other links stay as long as their packet does. *)
LEMMA DeclaredStay ==
  ASSUME IInv, AckInv, [Next]_vars, DeclaredOK,
         \A row \in packets' : \E old \in packets : SameSlot(old, row),
         \A u \in Uploads : \A b \in u.blobs :
           Recording(u, b) => Link(u, b) \in refs' \/ Recording(u, b)'
  PROVE  DeclaredOK'
<1> SUFFICES ASSUME NEW row \in packets', NEW u \in Uploads, SameSlot(row, u),
                    NEW b \in u.blobs
             PROVE  Link(u, b) \in refs' \/ Recording(u, b)'
  BY DEF DeclaredOK
<1>1. PICK old \in packets : SameSlot(old, row)
  OBVIOUS
<1>2. SameSlot(old, u)
  BY <1>1 DEF SameSlot
<1>3. Link(u, b) \in refs \/ Recording(u, b)
  BY <1>2 DEF DeclaredOK
<1>4. Link(u, b) \in refs => Link(u, b) \in refs'
  BY LinksMove DEF LinksStay, Link, SameSlot
<1> QED BY <1>3, <1>4

(* A packet that is stored was stored before, unless it is inserted. *)
LEMMA SlotsStay ==
  ASSUME IInv, [Next]_vars, \A r \in Request : ~InsertPacket(r)
  PROVE  \A row \in packets' : \E old \in packets : SameSlot(old, row)
<1>1. CASE packets' \subseteq packets
  BY <1>1 DEF SameSlot
<1>2. ASSUME NEW r \in Request, FlagSnapshot(r)
      PROVE  \A row \in packets' : \E old \in packets : SameSlot(old, row)
  <2> DEFINE slot == {row \in Held(req[r].up.origin) :
                        row.counter = req[r].up.counter}
             flag(row) == [row EXCEPT !.snap = TRUE]
  <2>1. packets' = (packets \ slot) \cup {flag(row) : row \in slot}
    BY <1>2 DEF FlagSnapshot
  <2>2. \A row \in packets : /\ flag(row).origin = row.origin
                             /\ flag(row).counter = row.counter
    BY DEF IInv, TypeOK, PacketRow
  <2>3. slot \subseteq packets
    BY DEF Held
  <2> HIDE DEF slot, flag
  <2> QED BY <2>1, <2>2, <2>3 DEF SameSlot
<1>3. ASSUME NEW r \in Request, DeletePackets(r)
      PROVE  packets' \subseteq packets
  BY <1>3 DEF DeletePackets
<1> QED BY <1>1, <1>2, <1>3, PacketsMove

LEMMA ResendStep ==
  ASSUME OneAtATime, OneDeclaration(Uploads), IInv, AckInv, BlobInv, ResendInv,
         IInv', NextSteady
  PROVE  ResendInv'
<1>n. [Next]_vars
  BY DEF NextSteady, Next
<1>t. TypeOK /\ HandlersOK /\ HasTop /\ TypeOK'
  BY DEF IInv
<1>d. DeclaredOK /\ \A r \in Request : LooksUp(r)
  BY DEF ResendInv
<1>e. ASSUME NEW r \in Request, UNCHANGED tables,
             req[r].pc \notin {"raise", "record"},
             req'[r].pc # "missing",
             req'[r].pc = "hasblob" => req'[r].todo \subseteq req'[r].up.blobs
      PROVE  ResendInv'
  <2>1. \A row \in packets' : \E old \in packets : SameSlot(old, row)
    BY <1>e DEF tables, SameSlot
  <2>2. \A u \in Uploads : \A b \in u.blobs : ~Recording(u, b)
    BY <1>e DEF Recording, OneAtATime
  <2>3. DeclaredOK'
    BY <1>d, <1>n, <2>1, <2>2, DeclaredStay
  <2>4. LooksUp(r)'
    BY <1>e DEF LooksUp
  <2> QED BY <2>3, <2>4 DEF ResendInv, OneAtATime
<1>1. ASSUME NEW r \in Request, NEW u \in Uploads, Receive(r, u)
      PROVE  ResendInv'
  BY <1>1, <1>e, <1>t, ReceiveMoves
<1>2. ASSUME NEW r \in Request,
             Respond(r) \/ \E id \in Blob : ReceiveBlob(r, id)
      PROVE  ResendInv'
  <2>1. /\ req[r].pc \in Answers \cup {"idle"}
        /\ req'[r].pc \in {"idle", "put", "puthas"} /\ UNCHANGED tables
    BY <1>2, <1>t, OtherMoves
  <2> QED BY <1>e, <2>1 DEF Answers
<1>3. ASSUME NEW r \in Request, Check(r) \/ Insert(r) \/ Prune(r) \/ Put(r)
      PROVE  ResendInv'
  <2> DEFINE h == req[r]
             up == req[r].up
  <2>w. Walks(r)
    BY <1>3, <1>t, CheckWalks, InsertWalks, PruneWalks, PutWalks
  <2>u. h.pc \in UploadStages =>
          up \in Uploads /\ up.origin \in Device /\ up.counter \in Nat
    BY <1>t, ServedType
  <2>f. req'[r].up = up /\ (\A s \in Request : s = r)
    BY <2>w DEF Walks, OneAtATime
  <2>l. LooksUp(r)'
    <3>1. ASSUME req'[r].pc = "hasblob"
          PROVE  req'[r].todo \subseteq req'[r].up.blobs
      <4>1. h.pc = "hasblob"
        BY <2>w, <3>1 DEF Walks, Arrows
      <4>2. ~MissingBlob(r)
        BY <1>t, <3>1, GotoMoves DEF MissingBlob
      <4>3. HasBlob(r)
        BY <1>3, <4>1, <4>2, TableActions
      <4> DEFINE to(id) == IF h.todo = {id} THEN "checkmark" ELSE "hasblob"
                 left(id) == h.todo \ {id}
                 h2(id) == [h EXCEPT !.todo = left(id), !.pc = to(id)]
      <4>4. PICK id \in h.todo : Step(r, "hasblob", h2(id))
        BY <4>3 DEF HasBlob
      <4>5. h2(id).todo = left(id)
        <5> HIDE DEF to, left
        <5> QED BY <1>t DEF Handler, TypeOK
      <4>6. req'[r].todo = left(id)
        <5> HIDE DEF h2
        <5> QED BY <1>t, <4>4, <4>5, StepMoves
      <4>7. h.todo \subseteq up.blobs
        BY <1>d, <4>1 DEF LooksUp
      <4> QED BY <2>f, <4>6, <4>7
    <3>2. ASSUME req'[r].pc = "missing", up.counter \in Counters(up.origin)'
          PROVE  FALSE
      <4>1. h.pc = "hasblob"
        BY <2>w, <3>2 DEF Walks, Arrows
      <4>2. up \in Uploads
        BY <2>u, <4>1 DEF UploadStages
      <4>3. MissingBlob(r)
        <5>1. CASE HasBlob(r)
          <6> DEFINE to(id) == IF h.todo = {id} THEN "checkmark" ELSE "hasblob"
                     left(id) == h.todo \ {id}
                     h2(id) == [h EXCEPT !.todo = left(id), !.pc = to(id)]
          <6>1. PICK id \in h.todo : Step(r, "hasblob", h2(id))
            BY <5>1 DEF HasBlob
          <6>2. h2(id).pc = to(id)
            <7> HIDE DEF to, left
            <7> QED BY <1>t DEF Handler, TypeOK
          <6>3. to(id) # "missing"
            OBVIOUS
          <6> HIDE DEF h2, to
          <6> QED BY <1>t, <3>2, <6>1, <6>2, <6>3, StepMoves
        <5> QED BY <1>3, <4>1, <5>1, TableActions
      <4>4. PICK b \in h.todo : b \notin blobs
        BY <4>3 DEF MissingBlob
      <4>5. b \in up.blobs
        BY <1>d, <4>1, <4>4 DEF LooksUp
      <4>6. packets' = packets
        BY <4>3 DEF MissingBlob, tables
      <4>7. PICK row \in packets : SameSlot(row, up)
        BY <2>f, <3>2, <4>6 DEF Counters, Held, SameSlot
      <4>8. Link(up, b) \in refs \/ Recording(up, b)
        BY <1>d, <4>2, <4>5, <4>7 DEF DeclaredOK
      <4>9. ~Recording(up, b)
        BY <2>f, <4>1 DEF Recording
      <4> QED BY <4>4, <4>8, <4>9 DEF BlobInv, Link
    <3> QED BY <2>f, <3>1, <3>2 DEF LooksUp
  <2>k. ASSUME NEW u \in Uploads, NEW b \in u.blobs, Recording(u, b)
        PROVE  Link(u, b) \in refs' \/ Recording(u, b)'
    <3>1. /\ SameSlot(up, u)
          /\ h.pc = "raise" \/ (h.pc = "record" /\ b \in h.todo)
      BY <2>f, <2>k DEF Recording
    <3>2. up \in Uploads
      BY <2>u, <3>1 DEF UploadStages
    <3>3. u.blobs = up.blobs
      BY <3>1, <3>2 DEF OneDeclaration
    <3>4. CASE h.pc = "raise"
      <4>1. RaiseMark(r)
        BY <1>3, <3>4, TableActions
      <4>2. req'[r].todo = up.blobs /\ req'[r].pc = "record"
        BY <1>t, <2>k, <3>3, <4>1, RecordMoves DEF RaiseMark
      <4> QED BY <2>f, <3>1, <3>3, <4>2 DEF Recording
    <3>5. CASE h.pc = "record" /\ b \in h.todo
      <4>1. RecordBlob(r)
        BY <1>3, <3>5, TableActions
      <4>2. PICK id \in h.todo : /\ refs' = refs \cup {Link(up, id)}
                                 /\ req'[r].todo = h.todo \ {id}
                                 /\ h.todo # {id} => req'[r].pc = "record"
        BY <1>t, <4>1, RecordBlobMoves
      <4>3. CASE id = b
        BY <3>1, <4>2, <4>3 DEF Link, SameSlot
      <4>4. CASE id # b
        BY <2>f, <3>1, <3>5, <4>2, <4>4 DEF Recording
      <4> QED BY <4>3, <4>4
    <3> QED BY <3>1, <3>4, <3>5
  <2>1. CASE InsertPacket(r)
    <3> DEFINE row == [origin |-> up.origin, counter |-> up.counter,
                       payload |-> up.payload, snap |-> up.snapshot]
               h2 == [h EXCEPT !.pc = "raise", !.stored = TRUE]
    <3>1. /\ Step(r, "insert", h2) /\ h.pc = "insert"
          /\ packets' = packets \cup {row} /\ refs' = refs
      BY <2>1 DEF InsertPacket, Step
    <3>2. h2.pc = "raise"
      BY <1>t DEF Handler, TypeOK
    <3>3. SameSlot(row, up)
      BY DEF SameSlot
    <3> HIDE DEF row, h2
    <3>4. req'[r].pc = "raise"
      BY <1>t, <3>1, <3>2, StepMoves
    <3>5. \A u \in Uploads : \A b \in u.blobs : ~Recording(u, b)
      BY <2>f, <3>1 DEF Recording
    <3>6. ASSUME NEW u \in Uploads, SameSlot(row, u), NEW b \in u.blobs
          PROVE  Recording(u, b)'
      <4>1. SameSlot(req'[r].up, u)
        BY <2>f, <3>3, <3>6 DEF SameSlot
      <4> QED BY <3>4, <4>1 DEF Recording
    <3>7. DeclaredOK'
      BY <1>d, <3>1, <3>5, <3>6 DEF DeclaredOK
    <3> QED BY <2>f, <2>l, <3>7 DEF ResendInv
  <2>2. CASE ~InsertPacket(r)
    <3>1. \A row \in packets' : \E old \in packets : SameSlot(old, row)
      BY <1>n, <2>2, <2>f, SlotsStay
    <3>2. DeclaredOK'
      BY <1>d, <1>n, <2>k, <3>1, DeclaredStay
    <3> QED BY <2>f, <2>l, <3>2 DEF ResendInv
  <2> QED BY <2>1, <2>2
<1> QED BY <1>1, <1>2, <1>3 DEF NextSteady, Serve

(* Requests that come one after the other, cut off any number of times. *)
FailInv ==
  /\ IInv /\ AckInv /\ BlobInv /\ failures \in Nat
  /\ failures = 0 => ResendInv

LEMMA FailInvariance ==
  OneAtATime /\ OneDeclaration(Uploads) => (SpecFail => []FailInv)
<1> SUFFICES ASSUME OneAtATime, OneDeclaration(Uploads)
             PROVE  SpecFail => []FailInv
  OBVIOUS
<1>1. FailInit => FailInv
  <2> SUFFICES ASSUME FailInit PROVE FailInv
    OBVIOUS
  <2>1. IInv /\ AckInv
    BY InitIInv, InitAck DEF FailInit
  <2>2. BlobInv /\ ResendInv
    BY NoneAssumption DEF FailInit, Init, BlobInv, BlobsHeld, ResendInv,
       DeclaredOK, LooksUp, Blank
  <2> QED BY <2>1, <2>2 DEF FailInit, FailInv
<1>2. FailInv /\ [FailNext]_failVars => FailInv'
  <2> SUFFICES ASSUME FailInv, [FailNext]_failVars PROVE FailInv'
    OBVIOUS
  <2>1. IInv' /\ AckInv' /\ BlobInv'
    BY FailNextIsNext, IInvStep, AckStep, BlobStep DEF FailInv
  <2>2. CASE Fail
    BY <2>1, <2>2 DEF Fail, FailInv
  <2>3. CASE NextSteady /\ failures' = failures
    BY <2>1, <2>3, ResendStep DEF FailInv
  <2>4. CASE UNCHANGED failVars
    <3>1. failures = 0 => ResendInv'
      BY <2>4 DEF failVars, vars, tables, FailInv, ResendInv, DeclaredOK,
         Recording, LooksUp, Counters, Held
    <3> QED BY <2>1, <2>4, <3>1 DEF failVars, FailInv
  <2> QED BY <2>2, <2>3, <2>4 DEF FailNext
<1> QED BY <1>1, <1>2, PTL DEF SpecFail

(* A client can re-send what the relay holds: as long as no request is cut   *)
(* off, an upload whose packet is stored is not refused for a missing blob,  *)
(* although MissingBlobs runs before the slot is looked at.                  *)
THEOREM ResendsAreServed ==
  OneAtATime /\ OneDeclaration(Uploads) => (SpecFail => []ResendOfStoredServed)
<1>1. FailInv => ResendOfStoredServed
  BY DEF FailInv, ResendOfStoredServed, ResendInv, LooksUp
<1> QED BY <1>1, FailInvariance, PTL

(* The request that is about to record a blob holds it: it has looked up    *)
(* all the blobs of the slot, and no other request ran a prune since.       *)
LEMMA RecordingHolds ==
  ASSUME IInv, BlobInv, OneDeclaration(Uploads),
         NEW u \in Uploads, NEW b \in u.blobs, Recording(u, b)
  PROVE  b \in blobs
<1>1. PICK r \in Request : /\ SameSlot(req[r].up, u)
                           /\ req[r].pc = "raise" \/ req[r].pc = "record"
  BY DEF Recording
<1>2. req[r].up \in Uploads
  BY <1>1, ServedType DEF IInv, UploadStages
<1>3. req[r].up.blobs \subseteq blobs
  BY <1>1, <1>2 DEF BlobInv, BlobsHeld, Checked
<1> QED BY <1>1, <1>2, <1>3 DEF OneDeclaration

(* When requests come one after the other, a stored packet has every blob   *)
(* that any upload of its slot declared: collectBlobs takes none of them    *)
(* from under it.  After a failure that holds of what recordPacketBlobs got *)
(* to record; a packet cut off before that has no reference to keep a blob. *)
THEOREM BlobsStayOneAtATime ==
  OneAtATime /\ OneDeclaration(Uploads) =>
    (SpecFail => []StoredPacketHasItsBlobs)
<1> SUFFICES ASSUME OneAtATime, OneDeclaration(Uploads)
             PROVE  SpecFail => []StoredPacketHasItsBlobs
  OBVIOUS
<1>1. FailInv => StoredPacketHasItsBlobs
  <2> SUFFICES ASSUME FailInv, NEW row \in packets, NEW u \in Uploads,
                      SameSlot(row, u), NEW b \in u.blobs
               PROVE  b \in blobs \/ (failures > 0 /\ Link(u, b) \notin refs)
    BY DEF StoredPacketHasItsBlobs, Link
  <2>1. CASE Link(u, b) \in refs
    BY <2>1 DEF FailInv, BlobInv, Link
  <2>2. CASE failures = 0 /\ Link(u, b) \notin refs
    <3>1. Recording(u, b)
      BY <2>2 DEF FailInv, ResendInv, DeclaredOK
    <3> QED BY <3>1, RecordingHolds DEF FailInv
  <2> QED BY <2>1, <2>2 DEF FailInv
<1> QED BY <1>1, FailInvariance, PTL

-----------------------------------------------------------------------------
(* Honest clients.                                                          *)

(* A stored row has the slot and the body of some upload, and the flag only *)
(* if that one is a snapshot.                                               *)
RowsFromUploads ==
  \A row \in packets :
    \E u \in Uploads : /\ SameSlot(row, u) /\ row.payload = u.payload
                       /\ row.snap => u.snapshot

(* Upload u is stored: a row has its slot, its body and the flag. *)
Stored(u) ==
  \E row \in Held(u.origin) :
    row.counter = u.counter /\ row.payload = u.payload /\ row.snap

(* flagSnapshot is for snapshots. *)
FlagsSnapshots == \A r \in Request : req[r].pc = "flag" => req[r].up.snapshot

HonestInv == RowsFromUploads /\ FlagsSnapshots /\ NothingLost

LEMMA UploadFacts ==
  ASSUME NEW u \in Uploads
  PROVE  /\ u.origin \in Device /\ u.counter \in Nat \ {0}
         /\ u.snapshot \in BOOLEAN /\ u.covers \in [Device -> Nat]
BY UploadsAssumption DEF UploadType

(* What a clipped declaration keeps of the declaration. *)
LEMMA ClipFacts ==
  ASSUME NEW u \in Uploads, NEW d \in Device
  PROVE  /\ Clip(u, d) \in Nat /\ u.covers[d] \in Nat
         /\ Clip(u, d) <= u.covers[d]
         /\ d = u.origin => Clip(u, d) < u.counter
         /\ \A n \in Nat : n <= u.covers[d] /\ (d = u.origin => n < u.counter)
                             => n <= Clip(u, d)
BY UploadFacts, ClipType DEF Clip

(* A filled slot whose row is held stores every upload of that slot. *)
LEMMA HeldIsStored ==
  ASSUME OneBodyPerSlot(Uploads), RowsFromUploads, NEW u \in Uploads,
         NEW row \in packets, SameSlot(row, u)
  PROVE  row.payload = u.payload
<1>1. PICK v \in Uploads : /\ SameSlot(row, v) /\ row.payload = v.payload
                           /\ row.snap => v.snapshot
  BY DEF RowsFromUploads
<1>2. SameSlot(v, u)
  BY <1>1 DEF SameSlot
<1>3. \A a, b \in Uploads : SameSlot(a, b) => a.payload = b.payload
  BY DEF OneBodyPerSlot
<1>4. v.payload = u.payload
  BY <1>2, <1>3
<1> QED BY <1>1, <1>4

(* If snapshot u covers the slot of another snapshot v, u covers what v     *)
(* covers.                                                                  *)
LEMMA CoverContained ==
  ASSUME CoversNest(Uploads), NEW u \in Uploads, NEW v \in Uploads,
         u.snapshot, v.snapshot, v.origin \in Covered(u),
         v.counter <= Clip(u, v.origin)
  PROVE  /\ ~SameSlot(u, v)
         /\ v.covers[u.origin] < u.counter
         /\ \A d \in Device : \A n \in Nat \ {0} :
              d \in Covered(v) /\ n <= Clip(v, d)
                => d \in Covered(u) /\ n <= Clip(u, d)
<1>1. /\ u.origin \in Device /\ v.origin \in Device
      /\ u.counter \in Nat \ {0} /\ v.counter \in Nat \ {0}
  BY UploadFacts
<1>2. ~SameSlot(u, v)
  BY <1>1, ClipFacts DEF SameSlot
<1>3. v.counter <= u.covers[v.origin]
  BY <1>1, ClipFacts
<1>4. /\ \A d \in Device : v.covers[d] <= u.covers[d]
      /\ v.covers[u.origin] < u.counter
  BY <1>1, <1>2, <1>3, ClipFacts DEF CoversNest
<1>5. ASSUME NEW d \in Device, NEW n \in Nat \ {0},
             d \in Covered(v), n <= Clip(v, d)
      PROVE  d \in Covered(u) /\ n <= Clip(u, d)
  <2>1. /\ Clip(v, d) \in Nat /\ v.covers[d] \in Nat /\ u.covers[d] \in Nat
        /\ Clip(v, d) <= v.covers[d] /\ Clip(u, d) \in Nat
    BY ClipFacts
  <2>2. v.covers[d] <= u.covers[d]
    BY <1>4
  <2>3. n <= v.covers[d] /\ n <= u.covers[d]
    BY <1>5, <2>1, <2>2
  <2>4. d = u.origin => n < u.counter
    BY <1>1, <1>4, <2>1, <2>3
  <2>5. n <= Clip(u, d)
    BY <2>3, <2>4, ClipFacts
  <2> QED BY <2>1, <2>5 DEF Covered
<1> QED BY <1>2, <1>4, <1>5

(* What stays readable of a stream after a step that deletes nothing. *)
LEMMA ReadableStays ==
  ASSUME \A row \in packets : \E new \in packets' :
           /\ new.origin = row.origin /\ new.counter = row.counter
           /\ new.payload = row.payload /\ (row.snap => new.snap),
         NEW d, NEW n, Readable(d, n)
  PROVE  Readable(d, n)'
<1>1. CASE n \in Counters(d)
  BY <1>1 DEF Readable, Counters, Held
<1>2. ASSUME NEW u \in Uploads, d \in Covered(u), Clip(u, d) >= n, Stored(u)
      PROVE  Readable(d, n)'
  <2>1. Stored(u)'
    BY <1>2 DEF Stored, Held
  <2> QED BY <1>2, <2>1 DEF Readable, Stored, Covered, Clip
<1> QED BY <1>1, <1>2 DEF Readable, Stored

(* DeletePackets for snapshot u: what u covers is readable afterwards, in u *)
(* itself or in a snapshot that covers u, which this prune does not touch.  *)
LEMMA PrunerStays ==
  ASSUME Honest(Uploads), IInv, AckInv, HonestInv,
         NEW r \in Request, DeletePackets(r),
         NEW d \in Device, NEW n \in Nat \ {0},
         d \in Covered(req[r].up), n <= Clip(req[r].up, d)
  PROVE  Readable(d, n)'
<1> DEFINE e == req[r].at
           bound == UpTo(req[r])
<1>i. TypeOK /\ HasTop /\ HandlersOK
  BY DEF IInv
<1>0. PICK u \in Uploads : u = req[r].up
  BY <1>i, DeletesCovered
<1>1. /\ e \in Covered(u) /\ e \in Device
      /\ u.counter <= Mark(u.origin)
      /\ bound \in Nat /\ Clip(u, e) \in Nat /\ bound <= Clip(u, e)
      /\ packets' = packets \ Below(packets, e, bound)
      /\ d \in Covered(u) /\ n <= Clip(u, d) /\ Clip(u, d) >= n
  BY <1>0, <1>i, DeletesCovered, ClipFacts
<1> HIDE DEF e, bound
<1>2. /\ u.origin \in Device /\ u.counter \in Nat \ {0}
      /\ Mark(u.origin) \in Nat
  BY <1>1, <1>i, UploadFacts, MarkIsTop
<1>3. \A row \in packets :
        row.counter \in Nat /\ (row.origin = e => row.counter > bound)
          => row \in packets'
  BY <1>1 DEF Below
<1>4. Readable(u.origin, u.counter)
  BY <1>1, <1>2 DEF HonestInv, NothingLost
<1>5. CASE u.counter \in Counters(u.origin)
  <2>1. PICK row \in packets : row.origin = u.origin /\ row.counter = u.counter
    BY <1>5 DEF Counters, Held
  <2>2. row.payload = u.payload
    BY <1>1, <2>1, HeldIsStored DEF Honest, HonestInv, SameSlot
  <2>6. row.snap
    <3>1. FlagOK(req[r], packets)
      BY <1>0 DEF AckInv, AckOK
    <3>2. u.snapshot /\ req[r].pc = "delpackets"
      BY <1>1 DEF Covered, DeletePackets, Goto, Step
    <3> QED BY <1>0, <2>1, <3>1, <3>2 DEF FlagOK, Flagged, Recorded, SlotRows
  <2>3. u.origin = e => u.counter > bound
    BY <1>1, <1>2, ClipFacts
  <2>4. row \in packets'
    BY <1>2, <1>3, <2>1, <2>3
  <2>5. Stored(u)'
    BY <2>1, <2>2, <2>4, <2>6 DEF Stored, Held
  <2> QED BY <1>1, <2>5 DEF Readable, Stored, Covered, Clip
<1>6. ASSUME NEW w \in Uploads, u.origin \in Covered(w),
             Clip(w, u.origin) >= u.counter, Stored(w)
      PROVE  Readable(d, n)'
  <2>1. PICK row \in packets :
          /\ row.origin = w.origin /\ row.counter = w.counter
          /\ row.payload = w.payload /\ row.snap
    BY <1>6 DEF Stored, Held
  <2>2. w.snapshot /\ u.snapshot
    BY <1>1, <1>6 DEF Covered
  <2>3. u.counter <= Clip(w, u.origin)
    BY <1>2, <1>6, ClipFacts
  <2>4. /\ ~SameSlot(w, u) /\ u.covers[w.origin] < w.counter
        /\ d \in Covered(w) /\ n <= Clip(w, d)
    BY <1>1, <1>6, <2>2, <2>3, CoverContained DEF Honest
  <2>5. w.origin \in Device /\ w.counter \in Nat \ {0}
    BY UploadFacts
  <2>6. w.origin = e => w.counter > bound
    BY <1>1, <2>4, <2>5, ClipFacts
  <2>7. Stored(w)'
    BY <1>3, <2>1, <2>5, <2>6 DEF Stored, Held
  <2>8. Clip(w, d) >= n
    BY <2>4, ClipFacts
  <2> QED BY <2>4, <2>7, <2>8 DEF Readable, Stored, Covered, Clip
<1> QED BY <1>4, <1>5, <1>6 DEF Readable, Stored

(* DeletePackets loses nothing: what it takes is covered by the snapshot it *)
(* runs for, and a snapshot it takes covers no more than that one.          *)
LEMMA DeleteLosesNothing ==
  ASSUME Honest(Uploads), IInv, AckInv, HonestInv,
         NEW r \in Request, DeletePackets(r),
         NEW d \in Device, NEW n \in Nat \ {0}, Readable(d, n)
  PROVE  Readable(d, n)'
<1> DEFINE u == req[r].up
           e == req[r].at
           bound == UpTo(req[r])
<1>1. /\ u \in Uploads /\ e \in Covered(u) /\ e \in Device
      /\ bound \in Nat /\ Clip(u, e) \in Nat /\ bound <= Clip(u, e)
      /\ packets' = packets \ Below(packets, e, bound)
  BY DeletesCovered DEF IInv
<1>2. \A row \in packets :
        row \notin packets' => row.origin = e /\ row.counter <= bound
  BY <1>1 DEF Below
<1>3. ASSUME d \in Covered(u), n <= Clip(u, d)
      PROVE  Readable(d, n)'
  BY <1>3, PrunerStays
<1>4. CASE n \in Counters(d)
  <2>1. PICK row \in packets : row.origin = d /\ row.counter = n
    BY <1>4 DEF Counters, Held
  <2>2. CASE row \in packets'
    BY <2>1, <2>2 DEF Readable, Counters, Held
  <2>3. CASE row \notin packets'
    <3>1. d = e /\ n <= bound
      BY <1>2, <2>1, <2>3
    <3>2. n <= Clip(u, d)
      BY <1>1, <3>1
    <3> QED BY <1>1, <1>3, <3>1, <3>2
  <2> QED BY <2>2, <2>3
<1>5. ASSUME NEW v \in Uploads, d \in Covered(v), Clip(v, d) >= n, Stored(v)
      PROVE  Readable(d, n)'
  <2>1. PICK row \in packets :
          /\ row.origin = v.origin /\ row.counter = v.counter
          /\ row.payload = v.payload /\ row.snap
    BY <1>5 DEF Stored, Held
  <2>2. CASE row \in packets'
    <3>1. Stored(v)'
      BY <2>1, <2>2 DEF Stored, Held
    <3> QED BY <1>5, <3>1 DEF Readable, Stored, Covered, Clip
  <2>3. CASE row \notin packets'
    <3>1. v.origin = e /\ v.counter <= bound
      BY <1>2, <2>1, <2>3
    <3>2. v.snapshot /\ u.snapshot
      BY <1>1, <1>5 DEF Covered
    <3>3. v.counter <= Clip(u, v.origin)
      BY <1>1, <3>1, UploadFacts
    <3>4. n <= Clip(v, d)
      BY <1>5, ClipFacts
    <3> HIDE DEF u, e, bound
    <3>5. d \in Covered(u) /\ n <= Clip(u, d)
      BY <1>1, <1>5, <3>1, <3>2, <3>3, <3>4, CoverContained DEF Honest
    <3> QED BY <1>3, <3>5
  <2> QED BY <2>2, <2>3
<1> QED BY <1>4, <1>5 DEF Readable, Stored

(* Setting a flag keeps the rest of every row. *)
LEMMA FlagKeepsRows ==
  ASSUME TypeOK, NEW r \in Request, FlagSnapshot(r)
  PROVE  /\ \A row \in packets : \E new \in packets' :
              /\ new.origin = row.origin /\ new.counter = row.counter
              /\ new.payload = row.payload /\ (row.snap => new.snap)
         /\ \A new \in packets' : \E row \in packets :
              /\ new.origin = row.origin /\ new.counter = row.counter
              /\ new.payload = row.payload
              /\ new.snap => row.snap \/ SameSlot(row, req[r].up)
<1> DEFINE u == req[r].up
           slot == {row \in Held(u.origin) : row.counter = u.counter}
           flag(row) == [row EXCEPT !.snap = TRUE]
<1>1. packets' = (packets \ slot) \cup {flag(row) : row \in slot}
  BY DEF FlagSnapshot
<1>2. \A row \in packets :
        /\ flag(row).origin = row.origin /\ flag(row).counter = row.counter
        /\ flag(row).payload = row.payload /\ flag(row).snap
  BY DEF TypeOK, PacketRow
<1>3. slot \subseteq packets /\ \A row \in slot : SameSlot(row, u)
  BY DEF Held, SameSlot
<1> HIDE DEF slot, flag
<1> QED BY <1>1, <1>2, <1>3

(* Slots and bodies of rows come from uploads and never change. *)
LEMMA RowsStep ==
  ASSUME OneBodyPerSlot(Uploads), TypeOK, HandlersOK, RowsFromUploads,
         FlagsSnapshots, [Next]_vars
  PROVE  RowsFromUploads'
<1>1. CASE packets' = packets
  BY <1>1 DEF RowsFromUploads, SameSlot
<1>2. ASSUME NEW r \in Request, InsertPacket(r)
      PROVE  RowsFromUploads'
  <2>1. req[r].up \in Uploads
    BY <1>2, ServedType DEF InsertPacket, Step, UploadStages
  <2> QED BY <1>2, <2>1 DEF InsertPacket, RowsFromUploads, SameSlot
<1>3. ASSUME NEW r \in Request, FlagSnapshot(r)
      PROVE  RowsFromUploads'
  <2> DEFINE u == req[r].up
  <2>1. req[r].pc = "flag" /\ u \in Uploads /\ u.snapshot
    <3>1. req[r].pc = "flag"
      BY <1>3 DEF FlagSnapshot, Goto, Step
    <3> QED BY <3>1, ServedType DEF FlagsSnapshots, UploadStages
  <2> HIDE DEF u
  <2>2. ASSUME NEW new \in packets'
        PROVE  \E v \in Uploads : /\ SameSlot(new, v) /\ new.payload = v.payload
                                  /\ new.snap => v.snapshot
    <3>1. PICK row \in packets :
            /\ new.origin = row.origin /\ new.counter = row.counter
            /\ new.payload = row.payload
            /\ new.snap => row.snap \/ SameSlot(row, u)
      BY <1>3, FlagKeepsRows DEF u
    <3>2. PICK v \in Uploads : /\ SameSlot(row, v) /\ row.payload = v.payload
                               /\ row.snap => v.snapshot
      BY DEF RowsFromUploads
    <3>3. CASE SameSlot(row, u)
      <4>1. row \in packets
        BY <3>1
      <4>2. new.payload = u.payload
        BY <2>1, <3>1, <3>3, <4>1, HeldIsStored
      <4>3. SameSlot(new, u)
        BY <3>1, <3>3 DEF SameSlot
      <4> QED BY <2>1, <4>2, <4>3
    <3> QED BY <3>1, <3>2, <3>3 DEF SameSlot
  <2> QED BY <2>2 DEF RowsFromUploads
<1>4. ASSUME NEW r \in Request, DeletePackets(r)
      PROVE  RowsFromUploads'
  BY <1>4 DEF DeletePackets, RowsFromUploads, SameSlot
<1> QED BY <1>1, <1>2, <1>3, <1>4, PacketsMove

LEMMA FlagsStep ==
  ASSUME TypeOK, FlagsSnapshots, [Next]_vars
  PROVE  FlagsSnapshots'
<1>1. ASSUME NEW r \in Request, Walks(r), NEW s \in Request
      PROVE  req'[s].pc = "flag" => req'[s].up.snapshot
  BY <1>1 DEF Walks, FlagsSnapshots
<1>2. ASSUME NEW r \in Request, Fresh(r), NEW s \in Request
      PROVE  req'[s].pc = "flag" => req'[s].up.snapshot
  BY <1>2 DEF Fresh, FlagsSnapshots
<1>3. CASE Restart
  BY <1>3 DEF Restart, Blank, FlagsSnapshots
<1>4. CASE UNCHANGED vars
  BY <1>4 DEF vars, FlagsSnapshots
<1>5. (\A s \in Request : req'[s].pc = "flag" => req'[s].up.snapshot) =>
        FlagsSnapshots'
  BY DEF FlagsSnapshots
<1> QED BY <1>1, <1>2, <1>3, <1>4, <1>5, StepCases

LEMMA LostStep ==
  ASSUME Honest(Uploads), IInv, AckInv, HonestInv, [Next]_vars, IInv'
  PROVE  NothingLost'
<1>i. /\ TypeOK /\ HasTop /\ HandlersOK /\ TypeOK'
      /\ \A d \in Device : Mark(d) \in Nat
  BY MarkIsTop DEF IInv
<1>k. ASSUME \A row \in packets : \E new \in packets' :
               /\ new.origin = row.origin /\ new.counter = row.counter
               /\ new.payload = row.payload /\ (row.snap => new.snap)
      PROVE  \A d \in Device : \A n \in 1 .. Mark(d) : Readable(d, n)'
  BY <1>k, ReadableStays DEF HonestInv, NothingLost
<1>t. ASSUME TopsKept, \A d \in Device : \A n \in 1 .. Mark(d) : Readable(d, n)'
      PROVE  NothingLost'
  BY <1>t DEF TopsKept, NothingLost
<1>1. CASE packets' = packets /\ TopsKept
  BY <1>1, <1>k, <1>t
<1>2. ASSUME NEW r \in Request, InsertsNext(r)
      PROVE  NothingLost'
  <2> DEFINE u == req[r].up
             row == [origin |-> u.origin, counter |-> u.counter,
                     payload |-> u.payload, snap |-> u.snapshot]
  <2>1. req[r].pc = "insert" /\ Mark(u.origin) = u.counter - 1
        /\ packets' = packets \cup {row}
    BY <1>2 DEF InsertsNext, InsertPacket, Step
  <2>2. u.origin \in Device /\ u.counter \in Nat
    BY <1>i, <2>1, ServedType DEF UploadStages
  <2>3. row.origin = u.origin /\ row.counter = u.counter
    OBVIOUS
  <2> HIDE DEF row
  <2>4. \A d \in Device : Mark(d)' = IF d = u.origin THEN u.counter ELSE Mark(d)
    BY <1>2, <1>i, <2>1, <2>2 DEF InsertsNext
  <2>5. \A d \in Device : \A n \in 1 .. Mark(d)' :
          n \in 1 .. Mark(d) \/ (d = u.origin /\ n = u.counter)
    <3> SUFFICES ASSUME NEW d \in Device, NEW n \in 1 .. Mark(d)',
                        n \notin 1 .. Mark(d)
                 PROVE  d = u.origin /\ n = u.counter
      OBVIOUS
    <3>1. d = u.origin
      BY <2>4
    <3>2. n \in 1 .. u.counter /\ n \notin 1 .. Mark(u.origin)
      BY <2>4, <3>1
    <3>3. Mark(u.origin) \in Nat
      BY <1>i, <2>2
    <3> QED BY <2>1, <2>2, <3>1, <3>2, <3>3
  <2>6. \A d \in Device : \A n \in 1 .. Mark(d) : Readable(d, n)'
    BY <1>k, <2>1
  <2>7. \A d, n : d = u.origin /\ n = u.counter => Readable(d, n)'
    BY <2>1, <2>3 DEF Readable, Counters, Held
  <2> QED BY <2>5, <2>6, <2>7 DEF NothingLost
<1>3. ASSUME NEW r \in Request, TopsKept, DeletePackets(r)
      PROVE  NothingLost'
  <2>1. \A d \in Device : \A n \in 1 .. Mark(d) :
          n \in Nat \ {0} /\ Readable(d, n)
    BY <1>i DEF HonestInv, NothingLost
  <2> QED BY <1>3, <1>i, <1>t, <2>1, DeleteLosesNothing
<1>4. ASSUME NEW r \in Request, TopsKept, FlagSnapshot(r)
      PROVE  NothingLost'
  <2>1. \A row \in packets : \E new \in packets' :
          /\ new.origin = row.origin /\ new.counter = row.counter
          /\ new.payload = row.payload /\ (row.snap => new.snap)
    BY <1>4, <1>i, FlagKeepsRows
  <2> QED BY <1>4, <1>k, <1>t, <2>1
<1>5. ASSUME NEW r \in Request, InsertPacket(r)
      PROVE  NothingLost'
  BY <1>2, <1>5, <1>i, InsertMoves
<1> QED BY <1>1, <1>2, <1>3, <1>4, <1>5, <1>i, TopStep, PacketsMove

LEMMA HonestInvariance == Honest(Uploads) => (Spec => []HonestInv)
<1> SUFFICES ASSUME Honest(Uploads) PROVE Spec => []HonestInv
  OBVIOUS
<1>1. Init => HonestInv
  <2> SUFFICES ASSUME Init PROVE HonestInv
    OBVIOUS
  <2>1. \A d \in Device : Tops(d) = {0}
    BY DEF Init, Tops, Counters, Held
  <2>2. \A d \in Device : Mark(d) = 0
    BY <2>1, InitIInv, MarkIsTop DEF IInv
  <2> QED BY <2>2 DEF HonestInv, RowsFromUploads, FlagsSnapshots, Blank,
                      NothingLost, Init
<1>2. IInv /\ AckInv /\ HonestInv /\ [Next]_vars /\ IInv' => HonestInv'
  BY RowsStep, FlagsStep, LostStep DEF Honest, HonestInv, IInv
<1> QED BY <1>1, <1>2, Invariance, AckInvariance, PTL DEF Spec

(* If clients are honest, whatever was accepted stays readable, however      *)
(* prunes of different snapshots interleave and wherever they are cut off.   *)
THEOREM HonestClientsLoseNothing == Honest(Uploads) => (Spec => []NothingLost)
<1>1. HonestInv => NothingLost
  BY DEF HonestInv
<1> QED BY <1>1, HonestInvariance, PTL

-----------------------------------------------------------------------------
(* Pages.                                                                   *)

(* The rows of the account are finitely many, at most one in a slot. *)
TableInv == IsFiniteSet(packets) /\ OneRow

LEMMA TableInvariance == Spec => []TableInv
<1>1. Init => TableInv
  BY FS_EmptySet DEF Init, TableInv, OneRow
<1>2. IInv /\ TableInv /\ [Next]_vars => IsFiniteSet(packets')
  <2> SUFFICES ASSUME IInv, IsFiniteSet(packets), [Next]_vars
               PROVE  IsFiniteSet(packets')
    BY DEF TableInv
  <2>1. CASE packets' = packets
    BY <2>1
  <2>2. ASSUME NEW r \in Request, InsertPacket(r)
        PROVE  IsFiniteSet(packets')
    BY <2>2, FS_AddElement DEF InsertPacket
  <2>3. ASSUME NEW r \in Request, FlagSnapshot(r)
        PROVE  IsFiniteSet(packets')
    <3> DEFINE u == req[r].up
               slot == {row \in Held(u.origin) : row.counter = u.counter}
               flag(row) == [row EXCEPT !.snap = TRUE]
    <3>1. packets' = (packets \ slot) \cup {flag(row) : row \in slot}
      BY <2>3 DEF FlagSnapshot
    <3>2. slot \in SUBSET packets
      BY DEF Held
    <3> HIDE DEF slot, flag
    <3>3. IsFiniteSet(slot) /\ IsFiniteSet(packets \ slot)
      BY <3>2, FS_Subset, FS_Difference
    <3>4. IsFiniteSet({flag(row) : row \in slot})
      <4> DEFINE f == [row \in slot |-> flag(row)]
      <4>1. f \in Surjection(slot, {flag(row) : row \in slot})
        BY DEF Surjection
      <4> QED BY <3>3, <4>1, FS_Surjection
    <3> QED BY <3>1, <3>3, <3>4, FS_Union
  <2>4. ASSUME NEW r \in Request, DeletePackets(r)
        PROVE  IsFiniteSet(packets')
    BY <2>4, FS_Difference DEF DeletePackets
  <2> QED BY <2>1, <2>2, <2>3, <2>4, PacketsMove
<1>3. IInv /\ TableInv /\ [Next]_vars => TableInv'
  BY <1>2, OneRowStep DEF TableInv
<1> QED BY <1>1, <1>3, Invariance, PTL DEF Spec

(* Rows of which none share a slot. *)
Slotted(rows) ==
  /\ rows \subseteq PacketRow /\ IsFiniteSet(rows)
  /\ \A x, y \in rows : x.origin = y.origin /\ x.counter = y.counter => x = y

(* The ORDER BY is a strict total order of them. *)
LEMMA BeforeOrders ==
  ASSUME NEW rows, Slotted(rows)
  PROVE  /\ \A x \in rows : ~Before(rows, x, x)
         /\ \A x, y \in rows : x = y \/ Before(rows, x, y) \/ Before(rows, y, x)
         /\ \A x, y, z \in rows :
              Before(rows, x, y) /\ Before(rows, y, z) => Before(rows, x, z)
<1>1. \A x \in rows : /\ x.origin \in Device /\ x.counter \in Nat
                      /\ Rank[x.origin] \in Nat
  BY RankAssumption DEF Slotted, PacketRow
<1>2. \A x, y \in rows :
        Rank[x.origin] = Rank[y.origin] => x.origin = y.origin
  BY <1>1, RankAssumption
<1>3. \A x, y \in rows : x.origin = y.origin /\ x.counter = y.counter => x = y
  BY DEF Slotted
<1> DEFINE h(x) == Hoisted(rows, x.origin)
<1>4. \A x, y \in rows : x.origin = y.origin => (h(x) <=> h(y))
  OBVIOUS
<1>5. \A x, y \in rows :
        Before(rows, x, y) <=>
          \/ h(x) /\ ~h(y)
          \/ (h(x) <=> h(y)) /\ Rank[x.origin] < Rank[y.origin]
          \/ x.origin = y.origin /\ x.counter < y.counter
  BY DEF Before, Hoisted
<1> HIDE DEF h
<1>6. \A x \in rows : ~Before(rows, x, x)
  BY <1>1, <1>5
<1>7. \A x, y \in rows : x = y \/ Before(rows, x, y) \/ Before(rows, y, x)
  BY <1>1, <1>2, <1>3, <1>5
<1>8. \A x, y, z \in rows :
        Before(rows, x, y) /\ Before(rows, y, z) => Before(rows, x, z)
  BY <1>1, <1>4, <1>5
<1> QED BY <1>6, <1>7, <1>8

(* How many rows come before x. *)
Place(rows, x) == Cardinality({y \in rows : Before(rows, y, x)})

(* The places of n rows are 0 .. n - 1, each taken once. *)
LEMMA PlacesFacts ==
  ASSUME NEW rows, Slotted(rows)
  PROVE  /\ Cardinality(rows) \in Nat
         /\ \A x \in rows : Place(rows, x) \in 0 .. Cardinality(rows) - 1
         /\ \A x, y \in rows :
              Before(rows, x, y) => Place(rows, x) < Place(rows, y)
         /\ \A i \in 0 .. Cardinality(rows) - 1 :
              \E x \in rows : Place(rows, x) = i
<1> DEFINE n == Cardinality(rows)
           pred(x) == {y \in rows : Before(rows, y, x)}
<1>1. n \in Nat /\ IsFiniteSet(rows)
  BY FS_CardinalityType DEF Slotted
<1>2. \A x \in rows : pred(x) \in SUBSET rows /\ IsFiniteSet(pred(x))
  BY <1>1, FS_Subset
<1>3. \A x \in rows : Place(rows, x) \in Nat
  BY <1>2, FS_CardinalityType DEF Place
<1>4. ASSUME NEW x \in rows, NEW T \in SUBSET rows, IsFiniteSet(T),
             pred(x) \subseteq T, x \in T
      PROVE  Place(rows, x) + 1 <= Cardinality(T)
  <2>1. x \notin pred(x)
    BY BeforeOrders
  <2> HIDE DEF pred
  <2>2. Cardinality(pred(x) \cup {x}) = Cardinality(pred(x)) + 1
    BY <1>2, <2>1, FS_AddElement
  <2>3. pred(x) \cup {x} \in SUBSET T
    BY <1>4
  <2>4. Cardinality(pred(x) \cup {x}) <= Cardinality(T)
    BY <1>4, <2>3, FS_Subset
  <2>5. Place(rows, x) = Cardinality(pred(x))
    BY DEF Place, pred
  <2> QED BY <1>3, <1>4, <2>2, <2>4, <2>5
<1>5. \A x \in rows : Place(rows, x) \in 0 .. n - 1
  <2>1. ASSUME NEW x \in rows
        PROVE  Place(rows, x) + 1 <= n
    BY <1>1, <1>2, <1>4
  <2>2. \A x \in rows : Place(rows, x) + 1 <= n
    BY <2>1
  <2> HIDE DEF n, pred
  <2> QED BY <1>1, <1>3, <2>2
<1>6. ASSUME NEW x \in rows, NEW y \in rows, Before(rows, x, y)
      PROVE  Place(rows, x) < Place(rows, y)
  <2>1. pred(x) \subseteq pred(y) /\ x \in pred(y)
    BY <1>6, BeforeOrders
  <2>2. Place(rows, x) + 1 <= Cardinality(pred(y))
    BY <1>2, <1>4, <2>1
  <2>3. Place(rows, y) = Cardinality(pred(y))
    BY DEF Place
  <2> QED BY <1>3, <2>2, <2>3
<1>7. \A i \in 0 .. n - 1 : \E x \in rows : Place(rows, x) = i
  <2> DEFINE f == [x \in rows |-> Place(rows, x)]
  <2>1. f \in [rows -> 0 .. n - 1]
    BY <1>5
  <2>2. \A x, y \in rows : f[x] = f[y] => x = y
    <3>1. \A x, y \in rows : Before(rows, x, y) => Place(rows, x) < Place(rows, y)
      BY <1>6
    <3>2. \A x, y \in rows : Place(rows, x) = Place(rows, y) => x = y
      BY <1>3, <3>1, BeforeOrders
    <3> QED BY <3>2
  <2>3. f \in Injection(rows, 0 .. n - 1)
    BY <2>1, <2>2 DEF Injection, IsInjective
  <2>4. IsFiniteSet(0 .. n - 1) /\ Cardinality(0 .. n - 1) = n
    BY <1>1, FS_Interval
  <2> HIDE DEF f
  <2>5. f \in Surjection(rows, 0 .. n - 1)
    BY <2>3, <2>4, FS_Injection
  <2>6. \A i \in 0 .. n - 1 : \E x \in rows : f[x] = i
    BY <2>5 DEF Surjection
  <2> QED BY <2>6 DEF f
<1> QED BY <1>1, <1>5, <1>6, <1>7

(* The result of the SELECT: each row once, in the order asked for. *)
LEMMA InOrderFacts ==
  ASSUME NEW rows, Slotted(rows)
  PROVE  LET s == InOrder(rows) IN
         /\ s \in Seq(rows) /\ Len(s) = Cardinality(rows) /\ Len(s) \in Nat
         /\ \A i, j \in 1 .. Len(s) : i < j => Before(rows, s[i], s[j])
         /\ \A x \in rows : \E i \in 1 .. Len(s) : s[i] = x
<1> DEFINE n == Cardinality(rows)
           s == InOrder(rows)
<1>1. n \in Nat
  BY PlacesFacts
<1>2. ASSUME NEW i \in 1 .. n
      PROVE  s[i] \in rows /\ Place(rows, s[i]) = i - 1
  <2>1. s[i] = CHOOSE x \in rows : Place(rows, x) = i - 1
    BY DEF InOrder, Place
  <2>2. i - 1 \in 0 .. n - 1
    BY <1>1
  <2>3. \E x \in rows : Place(rows, x) = i - 1
    BY <2>2, PlacesFacts
  <2> QED BY <2>1, <2>3
<1>3. s \in [1 .. n -> rows]
  BY <1>2 DEF InOrder
<1> HIDE DEF s
<1>4. s \in Seq(rows) /\ Len(s) = n
  BY <1>1, <1>3
<1>5. ASSUME NEW i \in 1 .. n, NEW j \in 1 .. n, i < j
      PROVE  Before(rows, s[i], s[j])
  <2>1. s[i] \in rows /\ s[j] \in rows
        /\ Place(rows, s[i]) = i - 1 /\ Place(rows, s[j]) = j - 1
    BY <1>2
  <2>2. s[i] # s[j] /\ ~Before(rows, s[j], s[i])
    BY <1>1, <1>5, <2>1, PlacesFacts
  <2> QED BY <2>1, <2>2, BeforeOrders
<1>6. ASSUME NEW x \in rows
      PROVE  \E i \in 1 .. n : s[i] = x
  <2>1. Place(rows, x) \in 0 .. n - 1
    BY PlacesFacts
  <2> DEFINE i == Place(rows, x) + 1
  <2>2. i \in 1 .. n /\ i - 1 = Place(rows, x)
    BY <1>1, <2>1
  <2> HIDE DEF i
  <2>3. s[i] \in rows /\ Place(rows, s[i]) = Place(rows, x)
    BY <1>2, <2>2
  <2>4. s[i] = x
    BY <2>1, <2>3, BeforeOrders, PlacesFacts
  <2> QED BY <2>2, <2>4
<1> QED BY <1>1, <1>4, <1>5, <1>6 DEF s

LEMMA LeastNat ==
  ASSUME NEW S \in SUBSET Nat, S # {}
  PROVE  Min(S) \in S /\ \A n \in S : Min(S) <= n
<1>1. PICK x \in S : \A y \in S : ~(<<y, x>> \in OpToRel(<, Nat))
  BY NatLessThanWellFounded, WFMin
<1>2. \A y \in S : ~(y < x)
  BY <1>1 DEF OpToRel
<1>3. \A y \in S : x <= y
  BY <1>2
<1> QED BY <1>3 DEF Min

LEMMA GreatestNat ==
  ASSUME NEW S, IsFiniteSet(S), S # {}, \A n \in S : n \in Nat
  PROVE  Max(S) \in S /\ \A n \in S : Max(S) >= n
<1> DEFINE above(x) == {z \in S : z >= x}
           Bad == {above(x) : x \in S}
<1>1. Bad \in SUBSET (SUBSET S)
  OBVIOUS
<1>2. Bad # {}
  OBVIOUS
<1>3. \A x, y \in S : (y \in above(x) <=> y >= x) /\ above(x) \subseteq S
  OBVIOUS
<1> HIDE DEF Bad, above
<1>4. PICK T \in Bad : \A U \in Bad : U \subseteq T => U = T
  BY <1>1, <1>2, LeastSubset
<1>5. PICK x \in S : T = above(x)
  BY <1>4 DEF Bad
<1>6. ASSUME NEW y \in S, y > x
      PROVE  FALSE
  <2>1. above(y) \subseteq T /\ x \in T /\ x \notin above(y)
    <3>1. \A z \in S : z >= y => z >= x
      BY <1>6
    <3>2. x >= x /\ ~(x >= y)
      BY <1>6
    <3> QED BY <1>3, <1>5, <3>1, <3>2
  <2>2. above(y) \in Bad
    BY DEF Bad
  <2> QED BY <1>4, <2>1, <2>2
<1>7. \A y \in S : x >= y
  BY <1>6
<1> QED BY <1>7 DEF Max

(* A page is a prefix of the result. *)
LEMMA PageLengthFacts ==
  ASSUME NEW S, NEW result \in Seq(S)
  PROVE  /\ PageLength(result) \in 0 .. Len(result)
         /\ PageLength(result) <= PageLimit
<1> DEFINE full == {n \in 1 .. Len(result) :
                      Bytes({result[i] : i \in 1 .. n}) >= PageBytes}
           lengths == {Len(result), PageLimit} \cup full
<1>1. /\ Len(result) \in Nat /\ PageLimit \in Nat
      /\ full \subseteq 1 .. Len(result)
  BY PageAssumption
<1>2. PageLength(result) = Min(lengths)
  BY DEF PageLength
<1> HIDE DEF full
<1>3. /\ lengths \in SUBSET Nat /\ lengths # {}
      /\ Len(result) \in lengths /\ PageLimit \in lengths
  <2>1. \A n \in 1 .. Len(result) : n \in Nat
    BY <1>1
  <2> QED BY <1>1, <2>1
<1> HIDE DEF lengths
<1>4. /\ Min(lengths) \in Nat
      /\ Min(lengths) <= Len(result) /\ Min(lengths) <= PageLimit
  BY <1>1, <1>3, LeastNat
<1> QED BY <1>1, <1>2, <1>4

-----------------------------------------------------------------------------
(* Steps of the pull beside those of the relay.                             *)

LEMMA PullIsNext == [PullNext]_syncVars => [Next]_vars
BY DEF PullNext, Beside, Reader, PullVector, PullSelect, TakePacket, EndPage,
       LosePull, syncVars

LEMMA PullSpecIsSpec == PullSpec => Spec
BY PullIsNext, PTL DEF PullSpec, Spec

StoredRows == {Row(row) : row \in packets}

(* The device and its pull stand still. *)
StandsStill ==
  /\ [Next]_vars
  /\ have' = have /\ pull' = pull
  /\ session' \in SessionType
  /\ session'.state = session.state /\ session'.since = session.since
  /\ session'.calm => session.calm /\ StoredRows \subseteq StoredRows'

LEMMA PullCases ==
  ASSUME SyncTypeOK, [PullNext]_syncVars
  PROVE  \/ StandsStill
         \/ PullVector \/ PullSelect \/ TakePacket \/ EndPage \/ LosePull
<1>1. CASE Next /\ Beside
  BY <1>1 DEF Beside, StandsStill, SyncTypeOK, SessionType, StoredRows
<1>2. CASE UNCHANGED syncVars
  BY <1>2 DEF syncVars, vars, tables, StandsStill, SyncTypeOK, StoredRows, Row
<1> QED BY <1>1, <1>2 DEF PullNext, Reader

LEMMA EmptyPage ==
  ASSUME PullVector \/ EndPage \/ LosePull
  PROVE  pull'.page = <<>>
<1>1. CASE PullVector
  <2>1. PICK pc, want : pull' = [NoPull EXCEPT !.pc = pc, !.want = want]
    BY <1>1 DEF PullVector
  <2> QED BY <2>1 DEF NoPull
<1>2. CASE EndPage \/ LosePull
  BY <1>2 DEF EndPage, LosePull, NoPull
<1> QED BY <1>1, <1>2

LEMMA SnapshotsInFacts ==
  ASSUME NEW row, NEW u \in SnapshotsIn(row)
  PROVE  /\ u \in Uploads /\ u.snapshot /\ u.covers \in [Device -> Nat]
         /\ u.origin = row.origin /\ u.counter = row.counter
         /\ u.payload = row.payload
BY UploadFacts DEF SnapshotsIn

(* What the device has of each stream after a packet. *)
LEMMA TakenFacts ==
  ASSUME IsFiniteSet(Uploads), NEW h \in [Device -> Nat], NEW row \in PacketRow
  PROVE  LET h2 == Taken(h, row) IN
         /\ h2 \in [Device -> Nat]
         /\ \A d \in Device : h2[d] >= h[d]
         /\ \A u \in SnapshotsIn(row) : \A d \in Device : h2[d] >= u.covers[d]
         /\ SnapshotsIn(row) # {} =>
              \A d \in Device :
                h2[d] = h[d] \/ \E u \in SnapshotsIn(row) : h2[d] = u.covers[d]
         /\ SnapshotsIn(row) = {} =>
              \A d \in Device :
                h2[d] = IF d = row.origin /\ row.counter = h[d] + 1
                        THEN row.counter ELSE h[d]
<1>1. row.origin \in Device /\ row.counter \in Nat
  BY DEF PacketRow
<1>2. CASE SnapshotsIn(row) # {}
  <2> DEFINE known(d) == {h[d]} \cup {u.covers[d] : u \in SnapshotsIn(row)}
  <2>1. Taken(h, row) = [d \in Device |-> Max(known(d))]
    BY <1>2 DEF Taken
  <2>2. ASSUME NEW d \in Device
        PROVE  /\ Max(known(d)) \in known(d)
               /\ \A n \in known(d) : Max(known(d)) >= n
               /\ known(d) \in SUBSET Nat
    <3> DEFINE f == [u \in SnapshotsIn(row) |-> u.covers[d]]
               covers == {u.covers[d] : u \in SnapshotsIn(row)}
    <3>1. IsFiniteSet(SnapshotsIn(row))
      BY FS_Subset DEF SnapshotsIn
    <3>2. f \in Surjection(SnapshotsIn(row), covers)
      BY DEF Surjection
    <3>3. covers \in SUBSET Nat
      BY SnapshotsInFacts
    <3> HIDE DEF covers
    <3>4. IsFiniteSet(covers)
      BY <3>1, <3>2, FS_Surjection
    <3>5. IsFiniteSet(covers \cup {h[d]})
      BY <3>4, FS_AddElement
    <3>6. known(d) = covers \cup {h[d]}
      BY DEF covers
    <3> HIDE DEF known
    <3>7. known(d) \in SUBSET Nat /\ known(d) # {}
      BY <3>3, <3>6
    <3> QED BY <3>5, <3>6, <3>7, GreatestNat
  <2>3. Taken(h, row) \in [Device -> Nat]
    BY <2>1, <2>2
  <2>4. \A d \in Device : \A n \in known(d) : Taken(h, row)[d] >= n
    BY <2>1, <2>2
  <2>5. \A d \in Device : Taken(h, row)[d] \in known(d)
    BY <2>1, <2>2
  <2> QED BY <1>2, <2>3, <2>4, <2>5
<1>3. CASE SnapshotsIn(row) = {} /\ row.counter = h[row.origin] + 1
  <2>1. Taken(h, row) = [h EXCEPT ![row.origin] = row.counter]
    BY <1>3 DEF Taken
  <2>2. /\ Taken(h, row) \in [Device -> Nat]
        /\ \A d \in Device : Taken(h, row)[d] =
             IF d = row.origin THEN row.counter ELSE h[d]
    BY <1>1, <2>1
  <2>3. \A d \in Device : h[d] \in Nat
    OBVIOUS
  <2> QED BY <1>1, <1>3, <2>2, <2>3
<1>4. CASE SnapshotsIn(row) = {} /\ row.counter # h[row.origin] + 1
  <2>1. Taken(h, row) = h
    BY <1>4 DEF Taken
  <2> QED BY <1>4, <2>1
<1> QED BY <1>2, <1>3, <1>4

LEMMA WantedFacts ==
  ASSUME IInv, TableInv, NEW want
  PROVE  Slotted(Wanted(want)) /\ Wanted(want) \subseteq packets
<1>1. Wanted(want) \in SUBSET packets
  BY DEF Wanted
<1> QED BY <1>1, FS_Subset DEF Slotted, TableInv, OneRow, IInv, TypeOK

(* The page is the first so many rows of the ordered result. *)
LEMMA SelectFacts ==
  ASSUME IInv, TableInv, SyncTypeOK, PullSelect
  PROVE  LET rows == Wanted(pull.want)
             s == InOrder(rows)
             page2 == pull'.page
         IN /\ pull.pc = "select" /\ pull'.pc = "answer"
            /\ pull'.want = pull.want /\ pull'.more \in BOOLEAN
            /\ page2 \in Seq(rows) /\ Len(page2) \in Nat
            /\ Len(page2) <= Len(s) /\ Len(page2) <= PageLimit
            /\ \A i \in 1 .. Len(page2) : page2[i] = s[i]
            /\ ~pull'.more => Len(page2) = Len(s)
            /\ pull' \in PullType
            /\ UNCHANGED <<vars, have, session>>
<1> DEFINE rows == Wanted(pull.want)
           s == InOrder(rows)
           n == PageLength(s)
<1>1. /\ pull.pc = "select" /\ pull \in PullType
      /\ pull' = [pull EXCEPT !.pc = "answer", !.page = SubSeq(s, 1, n),
                              !.more = n < Len(s)]
      /\ UNCHANGED <<vars, have, session>>
  BY DEF PullSelect, SyncTypeOK
<1>2. /\ pull'.pc = "answer" /\ pull'.want = pull.want
      /\ pull'.page = SubSeq(s, 1, n) /\ pull'.more = (n < Len(s))
  <2> HIDE DEF s, n
  <2> QED BY <1>1 DEF PullType
<1>3. s \in Seq(rows) /\ Len(s) \in Nat
  BY WantedFacts, InOrderFacts
<1> HIDE DEF rows, s
<1>4. n \in 0 .. Len(s) /\ n <= PageLimit
  BY <1>3, PageLengthFacts
<1>5. \A i \in 1 .. n : s[i] \in rows
  BY <1>3, <1>4
<1> HIDE DEF n
<1>6. /\ SubSeq(s, 1, n) \in Seq(rows) /\ Len(SubSeq(s, 1, n)) = n
      /\ \A i \in 1 .. n : SubSeq(s, 1, n)[i] = s[i]
  <2>1. n \in Int
    BY <1>4
  <2>2. /\ SubSeq(s, 1, n) \in Seq(rows)
        /\ Len(SubSeq(s, 1, n)) = IF 1 <= n THEN n - 1 + 1 ELSE 0
    BY <1>5, <2>1, SubSeqProperties
  <2>3. \A i \in 1 .. n : SubSeq(s, 1, n)[i] = s[i]
    BY <1>5, <2>1, SubSeqProperties
  <2> QED BY <1>3, <1>4, <2>2, <2>3
<1>7. pull' \in PullType
  <2>1. rows \subseteq PacketRow
    BY WantedFacts DEF Slotted, rows
  <2>2. SubSeq(s, 1, n) \in Seq(PacketRow)
    BY <1>6, <2>1, SeqMonotonic
  <2>3. SubSeq(s, 1, n) \in {p \in Seq(PacketRow) : Len(p) <= PageLimit}
    BY <1>4, <1>6, <2>2
  <2>4. (n < Len(s)) \in BOOLEAN
    OBVIOUS
  <2> HIDE DEF n, s
  <2> QED BY <1>1, <2>3, <2>4 DEF PullType
<1>8. /\ pull'.page \in Seq(rows) /\ Len(pull'.page) = n /\ n \in Nat
      /\ \A i \in 1 .. n : pull'.page[i] = s[i]
      /\ pull'.more \in BOOLEAN /\ (~pull'.more => n = Len(s))
  <2>1. n \in Nat /\ (~(n < Len(s)) => n = Len(s))
    BY <1>3, <1>4
  <2>2. pull'.more \in BOOLEAN /\ (~pull'.more => n = Len(s))
    <3> DEFINE b == n < Len(s)
    <3>1. b \in BOOLEAN /\ pull'.more = b
      BY <1>2
    <3>2. ~b => n = Len(s)
      BY <2>1
    <3> HIDE DEF b, n, s
    <3> QED BY <3>1, <3>2
  <2>3. pull'.page \in Seq(rows) /\ Len(pull'.page) = n
        /\ \A i \in 1 .. n : pull'.page[i] = s[i]
    BY <1>2, <1>6
  <2> QED BY <2>1, <2>2, <2>3
<1> QED BY <1>1, <1>2, <1>4, <1>7, <1>8 DEF s, rows

(* What is left of a page of which one packet was taken. *)
LEMMA PageTail ==
  ASSUME NEW S, NEW page \in Seq(S), page # <<>>
  PROVE  /\ Head(page) = page[1] /\ page[1] \in S
         /\ Tail(page) \in Seq(S) /\ Len(Tail(page)) = Len(page) - 1
         /\ Len(page) \in Nat \ {0}
         /\ \A i \in 1 .. Len(Tail(page)) : Tail(page)[i] = page[i + 1]
OBVIOUS

LEMMA TopType ==
  ASSUME IInv
  PROVE  top \in [Device -> Nat] /\ \A d \in Device : top[d] = Mark(d)
BY MarkIsTop DEF IInv, top

LEMMA PullTypeStep ==
  ASSUME IsFiniteSet(Uploads), IInv, TableInv, SyncTypeOK, [PullNext]_syncVars
  PROVE  SyncTypeOK'
<1>1. CASE StandsStill
  BY <1>1 DEF StandsStill, SyncTypeOK
<1>2. CASE PullVector
  <2>1. pull' \in PullType
    <3>1. /\ NoPull \in PullType
          /\ {d \in Device : Mark(d) > have[d]} \in SUBSET Device
      BY PageAssumption DEF NoPull, PullType
    <3> QED BY <1>2, <3>1 DEF PullVector, PullType
  <2>2. session' \in SessionType /\ have' = have
    BY <1>2, TopType DEF PullVector, SyncTypeOK, SessionType
  <2> QED BY <2>1, <2>2 DEF SyncTypeOK
<1>3. CASE PullSelect
  BY <1>3, SelectFacts DEF SyncTypeOK
<1>4. CASE TakePacket
  <2>1. pull.page \in Seq(PacketRow) /\ pull.page # <<>>
        /\ Len(pull.page) <= PageLimit /\ have \in [Device -> Nat]
        /\ session' = session
        /\ pull' = [pull EXCEPT !.page = Tail(pull.page)]
        /\ have' = Taken(have, Head(pull.page))
    BY <1>4 DEF TakePacket, SyncTypeOK, PullType
  <2>2. /\ Head(pull.page) \in PacketRow /\ Tail(pull.page) \in Seq(PacketRow)
        /\ Len(Tail(pull.page)) <= PageLimit
    BY <2>1, PageTail, PageAssumption
  <2>3. pull' \in PullType
    BY <2>1, <2>2 DEF SyncTypeOK, PullType
  <2>4. have' \in [Device -> Nat]
    BY <2>1, <2>2, TakenFacts
  <2> QED BY <2>1, <2>3, <2>4 DEF SyncTypeOK
<1>5. CASE EndPage \/ LosePull
  <2>1. NoPull \in PullType
    BY PageAssumption DEF NoPull, PullType
  <2> QED BY <1>5, <2>1 DEF EndPage, LosePull, SyncTypeOK, SessionType
<1> QED BY <1>1, <1>2, <1>3, <1>4, <1>5, PullCases

(* The device's vector, its pull and its page are what they are said to be   *)
(* when clients send finitely many uploads: PullSelect's page is a sequence  *)
(* of stored rows within the limit, whatever is stored when it runs.         *)
THEOREM PullTypeCorrect ==
  IsFiniteSet(Uploads) => (PullSpec => []SyncTypeOK)
<1> SUFFICES ASSUME IsFiniteSet(Uploads) PROVE PullSpec => []SyncTypeOK
  OBVIOUS
<1>1. SyncInit => SyncTypeOK
  BY PageAssumption DEF SyncInit, SyncTypeOK, NoPull, PullType, SessionType
<1>2. IInv /\ TableInv /\ SyncTypeOK /\ [PullNext]_syncVars => SyncTypeOK'
  BY PullTypeStep
<1> QED BY <1>1, <1>2, PullSpecIsSpec, Invariance, TableInvariance, PTL DEF PullSpec

-----------------------------------------------------------------------------
(* What a device has taken, and what it can still get.                      *)

(* A snapshot within the device's vector has been adopted whole, with all   *)
(* it covers.                                                               *)
HaveClosed ==
  \A u \in Uploads : u.snapshot /\ u.counter <= have[u.origin] =>
    \A d \in Device : u.covers[d] <= have[d]

FromUpload(row) ==
  \E u \in Uploads : /\ SameSlot(row, u) /\ row.payload = u.payload
                     /\ row.snap => u.snapshot

PageFromUploads == \A i \in 1 .. Len(pull.page) : FromUpload(pull.page[i])

ReachInv == HaveClosed /\ PageFromUploads

LEMMA PageStep ==
  ASSUME IInv, TableInv, SyncTypeOK, RowsFromUploads, PageFromUploads,
         [PullNext]_syncVars
  PROVE  PageFromUploads'
<1>1. CASE StandsStill
  BY <1>1 DEF StandsStill, PageFromUploads
<1>2. CASE PullVector \/ EndPage \/ LosePull
  <2>1. pull'.page = <<>>
    BY <1>2, EmptyPage
  <2> QED BY <2>1 DEF PageFromUploads
<1>3. CASE PullSelect
  <2>1. pull'.page \in Seq(packets)
    BY <1>3, SelectFacts, WantedFacts, SeqMonotonic
  <2>2. \A row \in packets : FromUpload(row)
    BY DEF RowsFromUploads, FromUpload
  <2> QED BY <2>1, <2>2 DEF PageFromUploads
<1>4. CASE TakePacket
  <2>1. pull.page \in Seq(PacketRow) /\ pull.page # <<>>
        /\ pull'.page = Tail(pull.page)
    BY <1>4 DEF TakePacket, SyncTypeOK, PullType
  <2>2. \A i \in 1 .. Len(pull'.page) :
          i + 1 \in 1 .. Len(pull.page) /\ pull'.page[i] = pull.page[i + 1]
    BY <2>1, PageTail
  <2> QED BY <2>2 DEF PageFromUploads
<1> QED BY <1>1, <1>2, <1>3, <1>4, PullCases

(* Taking a packet keeps the vector closed. *)
LEMMA TakenCloses ==
  ASSUME Honest(Uploads), IsFiniteSet(Uploads), NEW h \in [Device -> Nat],
         NEW row \in PacketRow, FromUpload(row),
         \A u \in Uploads : u.snapshot /\ u.counter <= h[u.origin] =>
           \A d \in Device : u.covers[d] <= h[d],
         NEW u \in Uploads, u.snapshot, u.counter <= Taken(h, row)[u.origin],
         NEW d \in Device
  PROVE  u.covers[d] <= Taken(h, row)[d]
<1> DEFINE h2 == Taken(h, row)
<1>1. /\ u.origin \in Device /\ u.counter \in Nat /\ u.covers[d] \in Nat
      /\ h2 \in [Device -> Nat] /\ h2[d] \in Nat /\ h2[d] >= h[d] /\ h[d] \in Nat
      /\ h[u.origin] \in Nat /\ u.counter <= h2[u.origin]
  BY UploadFacts, TakenFacts
<1> HIDE DEF h2
<1>2. CASE u.counter <= h[u.origin]
  <2>1. u.covers[d] <= h[d]
    BY <1>2
  <2> QED BY <1>1, <2>1 DEF h2
<1>3. CASE u \in SnapshotsIn(row)
  BY <1>1, <1>3, TakenFacts DEF h2
<1>4. CASE u.counter > h[u.origin] /\ SnapshotsIn(row) # {}
  <2>1. PICK v \in SnapshotsIn(row) : h2[u.origin] = v.covers[u.origin]
    BY <1>1, <1>4, TakenFacts DEF h2
  <2>2. /\ v \in Uploads /\ v.snapshot
        /\ v.origin = row.origin /\ v.counter = row.counter
        /\ v.payload = row.payload /\ v.covers[d] \in Nat
    BY SnapshotsInFacts
  <2>3. CASE SameSlot(u, v)
    <3>1. u.payload = v.payload
      BY <2>2, <2>3 DEF Honest, OneBodyPerSlot
    <3>2. u \in SnapshotsIn(row)
      BY <2>2, <2>3, <3>1 DEF SnapshotsIn, SameSlot
    <3> QED BY <1>3, <3>2
  <2>4. CASE ~SameSlot(u, v)
    <3>1. ~SameSlot(v, u)
      BY <2>4 DEF SameSlot
    <3>2. v.covers[u.origin] >= u.counter
      BY <1>1, <2>1
    <3>3. u.covers[d] <= v.covers[d]
      BY <2>2, <3>1, <3>2 DEF Honest, CoversNest
    <3>4. v.covers[d] <= h2[d]
      BY <1>1, <2>2, TakenFacts DEF h2
    <3> QED BY <1>1, <2>2, <3>3, <3>4 DEF h2
  <2> QED BY <2>3, <2>4
<1>5. CASE u.counter > h[u.origin] /\ SnapshotsIn(row) = {}
  <2>1. u.origin = row.origin /\ u.counter = row.counter
    <3>1. h2[u.origin] = IF u.origin = row.origin
                             /\ row.counter = h[u.origin] + 1
                         THEN row.counter ELSE h[u.origin]
      BY <1>1, <1>5, TakenFacts DEF h2
    <3> QED BY <1>1, <1>5, <3>1
  <2>2. PICK v \in Uploads : SameSlot(row, v) /\ row.payload = v.payload
    BY DEF FromUpload
  <2>3. SameSlot(u, v)
    BY <2>1, <2>2 DEF SameSlot
  <2>4. u.payload = row.payload
    BY <2>2, <2>3 DEF Honest, OneBodyPerSlot
  <2>5. u \in SnapshotsIn(row)
    BY <2>1, <2>4 DEF SnapshotsIn
  <2> QED BY <1>3, <2>5
<1> QED BY <1>1, <1>2, <1>4, <1>5

LEMMA ClosedStep ==
  ASSUME Honest(Uploads), IsFiniteSet(Uploads), SyncTypeOK, HaveClosed,
         PageFromUploads, [PullNext]_syncVars
  PROVE  HaveClosed'
<1>1. CASE have' = have
  BY <1>1 DEF HaveClosed
<1>2. CASE TakePacket
  <2>1. /\ pull.page \in Seq(PacketRow) /\ pull.page # <<>>
        /\ have' = Taken(have, pull.page[1])
        /\ have \in [Device -> Nat]
    BY <1>2 DEF TakePacket, SyncTypeOK, PullType
  <2>2. 1 \in 1 .. Len(pull.page) /\ pull.page[1] \in PacketRow
    BY <2>1, PageTail
  <2>3. FromUpload(pull.page[1])
    BY <2>2 DEF PageFromUploads
  <2>4. ASSUME NEW u \in Uploads, u.snapshot, u.counter <= have'[u.origin],
               NEW d \in Device
        PROVE  u.covers[d] <= have'[d]
    BY <2>1, <2>2, <2>3, <2>4, TakenCloses DEF HaveClosed
  <2> QED BY <2>4 DEF HaveClosed
<1> QED BY <1>1, <1>2, PullCases
        DEF StandsStill, PullVector, PullSelect, EndPage, LosePull

(* Every accepted packet the device lacks is given by a stored row above its *)
(* vector: by itself, or by a snapshot that is flagged.                      *)
LEMMA InReach ==
  ASSUME IInv, SyncTypeOK, NothingLost, HaveClosed,
         NEW d \in Device, NEW n \in have[d] + 1 .. Mark(d)
  PROVE  \E row \in packets :
           /\ row.counter > have[row.origin]
           /\ \/ row.origin = d /\ row.counter = n
              \/ row.snap /\ \E u \in SnapshotsIn(row) : u.covers[d] >= n
<1>1. /\ have \in [Device -> Nat] /\ have[d] \in Nat /\ Mark(d) \in Nat
      /\ n \in Nat /\ n > have[d] /\ n \in 1 .. Mark(d)
  BY MarkIsTop DEF SyncTypeOK, IInv
<1>2. Readable(d, n)
  BY <1>1 DEF NothingLost
<1>3. CASE n \in Counters(d)
  <2>1. PICK row \in packets : row.origin = d /\ row.counter = n
    BY <1>3 DEF Counters, Held
  <2> QED BY <1>1, <2>1
<1>4. CASE n \notin Counters(d)
  <2>1. PICK u \in Uploads :
          /\ d \in Covered(u) /\ Clip(u, d) >= n
          /\ \E row \in Held(u.origin) :
               row.counter = u.counter /\ row.payload = u.payload /\ row.snap
    BY <1>2, <1>4 DEF Readable
  <2>2. PICK row \in packets :
          /\ row.origin = u.origin /\ row.counter = u.counter
          /\ row.payload = u.payload /\ row.snap
    BY <2>1 DEF Held
  <2>3. /\ u.snapshot /\ u.covers[d] \in Nat /\ u.covers[d] >= n
        /\ u.counter \in Nat /\ u.origin \in Device /\ have[u.origin] \in Nat
    <3>1. /\ Clip(u, d) \in Nat /\ u.covers[d] \in Nat
          /\ Clip(u, d) <= u.covers[d]
      BY ClipFacts
    <3>2. u.snapshot /\ Clip(u, d) >= n
      BY <2>1 DEF Covered
    <3> QED BY <1>1, <3>1, <3>2, UploadFacts
  <2>4. u \in SnapshotsIn(row)
    BY <2>2, <2>3 DEF SnapshotsIn
  <2>5. ~(u.counter <= have[u.origin])
    BY <1>1, <2>3 DEF HaveClosed
  <2>6. row.counter > have[row.origin]
    BY <2>2, <2>3, <2>5
  <2> QED BY <2>2, <2>3, <2>4, <2>6
<1> QED BY <1>3, <1>4

LEMMA ReachInvariance ==
  Honest(Uploads) /\ IsFiniteSet(Uploads) => (PullSpec => []ReachInv)
<1> SUFFICES ASSUME Honest(Uploads), IsFiniteSet(Uploads)
             PROVE  PullSpec => []ReachInv
  OBVIOUS
<1>1. SyncInit => ReachInv
  <2> SUFFICES ASSUME SyncInit PROVE ReachInv
    OBVIOUS
  <2>1. pull.page = <<>> /\ \A d \in Device : have[d] = 0
    BY DEF SyncInit, NoPull
  <2>2. \A u \in Uploads : u.origin \in Device /\ ~(u.counter <= 0)
    BY UploadFacts
  <2> QED BY <2>1, <2>2 DEF ReachInv, HaveClosed, PageFromUploads
<1>2. IInv /\ TableInv /\ SyncTypeOK /\ HonestInv /\ ReachInv
        /\ [PullNext]_syncVars => ReachInv'
  BY PageStep, ClosedStep DEF ReachInv, HonestInv
<1> QED BY <1>1, <1>2, PullSpecIsSpec, Invariance, TableInvariance,
           HonestInvariance, PullTypeCorrect, PTL DEF PullSpec

(* Under honest clients nothing a device lacks is ever out of its reach,     *)
(* wherever PruneCovered is cut off and however the device's vector moves    *)
(* past the prunes.                                                          *)
THEOREM InReachAlways ==
  Honest(Uploads) /\ IsFiniteSet(Uploads) => (PullSpec => []NothingOutOfReach)
<1> SUFFICES ASSUME Honest(Uploads), IsFiniteSet(Uploads)
             PROVE  PullSpec => []NothingOutOfReach
  OBVIOUS
<1>1. IInv /\ SyncTypeOK /\ HonestInv /\ ReachInv => NothingOutOfReach
  <2> SUFFICES ASSUME IInv, SyncTypeOK, HonestInv, ReachInv,
                      NEW d \in Device, NEW n \in have[d] + 1 .. Mark(d)
               PROVE  \E row \in Wanted(Device) : Gives(row, d, n)
    BY DEF NothingOutOfReach
  <2>1. PICK row \in packets :
           /\ row.counter > have[row.origin]
           /\ \/ row.origin = d /\ row.counter = n
              \/ row.snap /\ \E u \in SnapshotsIn(row) : u.covers[d] >= n
    BY InReach DEF HonestInv, ReachInv
  <2>2. row.origin \in Device
    BY DEF IInv, TypeOK, PacketRow
  <2> QED BY <2>1, <2>2 DEF Wanted, Gives
<1> QED BY <1>1, PullSpecIsSpec, Invariance, HonestInvariance, ReachInvariance,
           PullTypeCorrect, PTL

-----------------------------------------------------------------------------
(* Pages ascend.                                                            *)

(* Rows i and j of one stream are in order, and every counter between is in *)
(* between.                                                                 *)
Rises(page, i, j) ==
  page[i].origin = page[j].origin =>
    /\ page[i].counter < page[j].counter
    /\ \A c \in page[i].counter + 1 .. page[j].counter :
         \E k \in i + 1 .. j :
           page[k].origin = page[i].origin /\ page[k].counter = c

PageRises ==
  \A i, j \in 1 .. Len(pull.page) : i < j => Rises(pull.page, i, j)

(* The rows above a stored one are stored. *)
LEMMA TailHas ==
  ASSUME TailUnbroken, NEW row \in packets,
         NEW c \in row.counter .. top[row.origin]
  PROVE  \E x \in packets : x.origin = row.origin /\ x.counter = c
<1>1. /\ Row(row) \in {Row(x) : x \in packets}
      /\ Row(row).origin = row.origin /\ Row(row).counter = row.counter
  BY DEF Row
<1>2. PICK x \in {Row(x) : x \in packets} : x.origin = row.origin /\ x.counter = c
  BY <1>1 DEF TailUnbroken, Box!NoHoles
<1> QED BY <1>2 DEF Row

(* A row stored between two counters of a stream that the device wants is   *)
(* in the result, and the order puts it between.                            *)
LEMMA ResultRises ==
  ASSUME IInv, TableInv, SyncTypeOK, TailUnbroken, NEW want \in SUBSET Device,
         NEW i \in 1 .. Len(InOrder(Wanted(want))),
         NEW j \in 1 .. Len(InOrder(Wanted(want))), i < j
  PROVE  Rises(InOrder(Wanted(want)), i, j)
<1> DEFINE rows == Wanted(want)
           s == InOrder(rows)
<1>1. /\ s \in Seq(rows) /\ Len(s) \in Nat
      /\ \A k, l \in 1 .. Len(s) : k < l => Before(rows, s[k], s[l])
      /\ \A x \in rows : \E k \in 1 .. Len(s) : s[k] = x
      /\ Slotted(rows) /\ rows \subseteq packets
  BY WantedFacts, InOrderFacts
<1>2. i \in Nat /\ j \in Nat /\ s[i] \in rows /\ s[j] \in rows /\ i < j
      /\ i \in 1 .. Len(s) /\ j \in 1 .. Len(s)
  <2>1. i \in 1 .. Len(s) /\ j \in 1 .. Len(s)
    OBVIOUS
  <2>2. s \in Seq(rows) /\ Len(s) \in Nat
    BY <1>1
  <2> HIDE DEF s, rows
  <2>3. s[i] \in rows /\ s[j] \in rows
    BY <2>1, <2>2
  <2> QED BY <2>1, <2>2, <2>3
<1> HIDE DEF s
<1>3. \A x \in rows : /\ x.origin \in want /\ x.origin \in Device
                      /\ x.counter \in Nat /\ x.counter > have[x.origin]
                      /\ x \in packets
  BY <1>1 DEF Slotted, Wanted, PacketRow, rows
<1>4. \A x, y \in rows :
        x.origin = y.origin /\ Before(rows, x, y) => x.counter < y.counter
  <2>1. \A x \in rows : Rank[x.origin] \in Nat
    BY <1>3, RankAssumption
  <2> HIDE DEF rows
  <2>2. ASSUME NEW x \in rows, NEW y \in rows, x.origin = y.origin,
               Before(rows, x, y)
        PROVE  x.counter < y.counter
    BY <2>1, <2>2 DEF Before
  <2> QED BY <2>2
<1> HIDE DEF rows
<1>5. SUFFICES ASSUME s[i].origin = s[j].origin
               PROVE  /\ s[i].counter < s[j].counter
                      /\ \A c \in s[i].counter + 1 .. s[j].counter :
                           \E k \in i + 1 .. j :
                             s[k].origin = s[i].origin /\ s[k].counter = c
  BY DEF Rises, s, rows
<1>6. s[i].counter < s[j].counter
  BY <1>1, <1>2, <1>4, <1>5
<1>7. ASSUME NEW c \in s[i].counter + 1 .. s[j].counter
      PROVE  \E k \in i + 1 .. j : s[k].origin = s[i].origin /\ s[k].counter = c
  <2> DEFINE d == s[i].origin
  <2>1. /\ s[i].counter \in Nat /\ s[j].counter \in Nat /\ c \in Nat
        /\ c > s[i].counter /\ c <= s[j].counter
        /\ d \in Device /\ d \in want /\ have[d] \in Nat /\ s[i].counter > have[d]
    BY <1>2, <1>3 DEF SyncTypeOK
  <2>2. top[d] \in Nat /\ s[j].counter <= top[d]
    <3>1. s[j].counter \in Counters(d)
      BY <1>2, <1>3, <1>5 DEF Counters, Held
    <3>2. Mark(d) \in Nat /\ Mark(d) >= s[j].counter
      BY <2>1, <3>1, MarkIsTop DEF IInv, Tops
    <3>3. top[d] = Mark(d)
      BY <2>1 DEF top
    <3> QED BY <2>1, <3>2, <3>3
  <2>3. c \in s[i].counter .. top[d]
    BY <2>1, <2>2
  <2>4. \E x \in packets : x.origin = d /\ x.counter = c
    <3>1. s[i] \in packets
      BY <1>2, <1>3
    <3> QED BY <2>3, <3>1, TailHas
  <2>5. PICK x \in rows : x.origin = d /\ x.counter = c
    BY <2>1, <2>4 DEF rows, Wanted
  <2>6. PICK k \in 1 .. Len(s) : s[k] = x
    BY <1>1
  <2>7. k \in Nat /\ i < k
    <3>1. k \in Nat
      BY <1>1
    <3>2. k # i
      BY <2>1, <2>5, <2>6
    <3>3. ~(k < i)
      <4> SUFFICES ASSUME k < i PROVE FALSE
        OBVIOUS
      <4>1. Before(rows, s[k], s[i])
        BY <1>1, <1>2
      <4>2. x.counter < s[i].counter
        BY <1>2, <1>4, <2>5, <2>6, <4>1
      <4> QED BY <2>1, <2>5, <4>2
    <3> QED BY <1>2, <3>1, <3>2, <3>3
  <2>8. k <= j
    <3>1. ~(j < k)
      <4> SUFFICES ASSUME j < k PROVE FALSE
        OBVIOUS
      <4>1. Before(rows, s[j], s[k])
        BY <1>1, <1>2
      <4>2. s[j].counter < x.counter
        BY <1>2, <1>4, <1>5, <2>5, <2>6, <4>1
      <4> QED BY <2>1, <2>5, <4>2
    <3> QED BY <1>2, <2>7, <3>1
  <2> QED BY <1>2, <2>5, <2>6, <2>7, <2>8
<1> QED BY <1>6, <1>7

LEMMA RiseStep ==
  ASSUME IInv, TableInv, SyncTypeOK, TailUnbroken, PageRises,
         [PullNext]_syncVars
  PROVE  PageRises'
<1>1. CASE StandsStill
  BY <1>1 DEF StandsStill, PageRises
<1>2. CASE PullVector \/ EndPage \/ LosePull
  <2>1. pull'.page = <<>>
    BY <1>2, EmptyPage
  <2> QED BY <2>1 DEF PageRises
<1>3. CASE PullSelect
  <2> DEFINE s == InOrder(Wanted(pull.want))
  <2>1. PICK page2 : page2 = pull'.page
    OBVIOUS
  <2>2. /\ Len(page2) \in Nat /\ Len(page2) <= Len(s) /\ Len(s) \in Nat
        /\ \A k \in 1 .. Len(page2) : page2[k] = s[k]
    BY <1>3, <2>1, SelectFacts, WantedFacts, InOrderFacts
  <2>3. pull.want \in SUBSET Device
    BY DEF SyncTypeOK, PullType
  <2>4. \A i, j \in 1 .. Len(s) : i < j => Rises(s, i, j)
    BY <2>3, ResultRises
  <2> HIDE DEF s
  <2>5. ASSUME NEW i \in 1 .. Len(page2), NEW j \in 1 .. Len(page2), i < j
        PROVE  Rises(page2, i, j)
    <3>1. i \in 1 .. Len(s) /\ j \in 1 .. Len(s) /\ i \in Nat /\ j \in Nat
      BY <2>2
    <3>2. \A k \in i + 1 .. j : k \in 1 .. Len(page2)
      BY <2>2, <3>1
    <3>3. Rises(s, i, j)
      BY <2>4, <2>5, <3>1
    <3>4. \A k \in i .. j : page2[k] = s[k]
      BY <2>2, <3>1, <3>2
    <3> QED BY <2>2, <3>2, <3>3, <3>4 DEF Rises
  <2> QED BY <2>1, <2>5 DEF PageRises
<1>4. CASE TakePacket
  <2> DEFINE page == pull.page
  <2>1. PICK rest : rest = pull'.page
    OBVIOUS
  <2>2. /\ page \in Seq(PacketRow) /\ page # <<>> /\ rest = Tail(page)
    BY <1>4, <2>1 DEF TakePacket, SyncTypeOK, PullType
  <2>3. /\ Len(rest) \in Nat /\ Len(page) \in Nat /\ Len(rest) = Len(page) - 1
        /\ \A i \in 1 .. Len(rest) : rest[i] = page[i + 1]
    BY <2>2, PageTail
  <2>4. ASSUME NEW i \in 1 .. Len(rest), NEW j \in 1 .. Len(rest), i < j
        PROVE  Rises(rest, i, j)
    <3>1. /\ i \in Nat /\ j \in Nat
          /\ i + 1 \in 1 .. Len(page) /\ j + 1 \in 1 .. Len(page)
          /\ i + 1 < j + 1
      BY <2>3, <2>4
    <3>2. Rises(page, i + 1, j + 1)
      BY <3>1 DEF PageRises
    <3>3. rest[i] = page[i + 1] /\ rest[j] = page[j + 1]
      BY <2>3
    <3>4. SUFFICES ASSUME rest[i].origin = rest[j].origin,
                          NEW c \in rest[i].counter + 1 .. rest[j].counter
                   PROVE  \E k \in i + 1 .. j :
                            rest[k].origin = rest[i].origin /\ rest[k].counter = c
      BY <3>2, <3>3 DEF Rises
    <3>5. PICK l \in i + 2 .. j + 1 :
            page[l].origin = page[i + 1].origin /\ page[l].counter = c
      <4>1. \A n \in i + 1 + 1 .. j + 1 : n \in i + 2 .. j + 1
        BY <3>1
      <4> QED BY <3>2, <3>3, <3>4, <4>1 DEF Rises
    <3>6. l - 1 \in i + 1 .. j /\ l - 1 \in 1 .. Len(rest) /\ (l - 1) + 1 = l
      BY <2>3, <3>1
    <3>7. rest[l - 1] = page[l]
      BY <2>3, <3>6
    <3> QED BY <3>3, <3>5, <3>6, <3>7
  <2> QED BY <2>1, <2>4 DEF PageRises
<1> QED BY <1>1, <1>2, <1>3, <1>4, PullCases

(* The counters of a stream on a page are consecutive.                       *)
LEMMA RisesCounts ==
  ASSUME NEW page \in Seq(PacketRow),
         \A i, j \in 1 .. Len(page) : i < j => Rises(page, i, j),
         NEW i \in 1 .. Len(page), NEW j \in 1 .. Len(page), i < j,
         page[i].origin = page[j].origin
  PROVE  page[j].counter - page[i].counter =
           Cardinality({k \in i + 1 .. j : page[k].origin = page[i].origin})
<1> DEFINE ks == {k \in i + 1 .. j : page[k].origin = page[i].origin}
           from == page[i].counter
           to == page[j].counter
           f == [k \in ks |-> page[k].counter]
<1>1. i \in Nat /\ j \in Nat /\ Len(page) \in Nat
  OBVIOUS
<1>2. \A k \in 1 .. Len(page) : page[k].counter \in Nat
  <2>1. \A k \in 1 .. Len(page) : page[k] \in PacketRow
    BY ElementOfSeq
  <2> QED BY <2>1 DEF PacketRow
<1>3. \A k \in ks : /\ k \in 1 .. Len(page) /\ k \in Nat /\ i < k /\ k <= j
                    /\ page[k].origin = page[i].origin
  BY <1>1
<1>4. from \in Nat /\ to \in Nat /\ from < to
  BY <1>2 DEF Rises
<1>5. \A k \in ks : f[k] \in from + 1 .. to
  <2>1. ASSUME NEW k \in ks
        PROVE  page[k].counter > from /\ page[k].counter <= to
    <3>1. page[k].counter > from
      BY <1>2, <1>3 DEF Rises
    <3>2. CASE k = j
      BY <1>2, <3>1, <3>2
    <3>3. CASE k < j
      BY <1>2, <1>3, <3>1, <3>3 DEF Rises
    <3> QED BY <1>1, <1>3, <3>1, <3>2, <3>3
  <2> QED BY <1>2, <1>3, <1>4, <2>1
<1>6. \A k, l \in ks : f[k] = f[l] => k = l
  <2>1. \A k, l \in ks : k < l => page[k].counter < page[l].counter
    BY <1>3 DEF Rises
  <2>2. \A k, l \in ks : page[k].counter = page[l].counter => k = l
    BY <1>2, <1>3, <2>1
  <2> QED BY <2>2
<1>7. \A c \in from + 1 .. to : \E k \in ks : f[k] = c
  BY DEF Rises
<1>8. f \in Surjection(ks, from + 1 .. to) /\ f \in Injection(ks, from + 1 .. to)
  <2>1. f \in [ks -> from + 1 .. to]
    BY <1>5
  <2> HIDE DEF ks, f, from, to
  <2> QED BY <1>6, <1>7, <2>1 DEF Surjection, Injection, IsInjective
<1>9. IsFiniteSet(ks)
  <2>1. IsFiniteSet(i + 1 .. j)
    BY <1>1, FS_Interval
  <2> QED BY <2>1, FS_Subset
<1>10. Cardinality(from + 1 .. to) = to - from
  <2>1. from + 1 \in Int /\ to \in Int /\ ~(from + 1 > to)
        /\ to - (from + 1) + 1 = to - from
    BY <1>4
  <2> HIDE DEF from, to
  <2> QED BY <2>1, FS_Interval
<1> HIDE DEF ks, f, from, to
<1>11. Cardinality(ks) = Cardinality(from + 1 .. to)
  BY <1>8, <1>9, FS_Surjection
<1> QED BY <1>10, <1>11 DEF ks, from, to

LEMMA RiseInvariance == IsFiniteSet(Uploads) => (PullSpec => []PageRises)
<1> SUFFICES ASSUME IsFiniteSet(Uploads) PROVE PullSpec => []PageRises
  OBVIOUS
<1>1. SyncInit => PageRises
  BY DEF SyncInit, NoPull, PageRises
<1>2. IInv /\ TableInv /\ SyncTypeOK /\ TailUnbroken /\ PageRises
        /\ [PullNext]_syncVars => PageRises'
  BY RiseStep
<1> QED BY <1>1, <1>2, PullSpecIsSpec, Invariance, TableInvariance,
           TailsUnbroken, PullTypeCorrect, PTL DEF PullSpec

(* The packets of a stream come consecutively and in order on a page,        *)
(* however prunes and snapshots have cut and moved the streams.              *)
THEOREM PagesAscend == IsFiniteSet(Uploads) => (PullSpec => []PageAscends)
<1> SUFFICES ASSUME IsFiniteSet(Uploads) PROVE PullSpec => []PageAscends
  OBVIOUS
<1>1. SyncTypeOK /\ PageRises => PageAscends
  <2> SUFFICES ASSUME SyncTypeOK, PageRises PROVE PageAscends
    OBVIOUS
  <2>1. pull.page \in Seq(PacketRow) /\ DOMAIN pull.page = 1 .. Len(pull.page)
    BY DEF SyncTypeOK, PullType
  <2> QED BY <2>1, RisesCounts DEF PageAscends, PageRises
<1> QED BY <1>1, RiseInvariance, PullTypeCorrect, PTL

-----------------------------------------------------------------------------
(* A sync is complete.                                                      *)

(* A row that gives packet n of d's stream and that the page puts before    *)
(* the streams it covers.                                                   *)
GivesFirst(row, d, n) ==
  \/ row.origin = d /\ row.counter = n
  \/ row.snap /\ \E u \in SnapshotsIn(row) : u.covers[d] >= n

(* The device is owed d's stream up to n, and the result of the SELECT for   *)
(* the devices in want will have it.                                        *)
Owed(want, d, n) ==
  have[d] < n =>
    /\ d \in want
    /\ \A m \in have[d] + 1 .. n :
         \E row \in Wanted(want) : GivesFirst(row, d, m)

(* From vector h the rest of a page leads to counter n of d's stream: from  *)
(* some point of it on, reached at counter m, every counter is there.       *)
Reaches(h, page, d, n) ==
  \E i \in 0 .. Len(page) : \E m \in Nat :
    /\ i = 0 => m <= h[d]
    /\ i # 0 => \E u \in SnapshotsIn(page[i]) : m <= u.covers[d]
    /\ \A c \in m + 1 .. n :
         \E k \in i + 1 .. Len(page) : page[k].origin = d /\ page[k].counter = c

Delivers == \A d \in Device : Reaches(have, pull.page, d, session.since[d])

SessionInv ==
  /\ pull.pc # "idle" => session.state = "open"
  /\ \A d \in Device : session.since[d] <= Mark(d)
  /\ pull.pc = "select" /\ session.calm =>
       \A d \in Device : Owed(pull.want, d, session.since[d])
  /\ pull.pc = "answer" /\ session.calm /\ ~pull.more => Delivers
  /\ SyncComplete

(* While no packet is deleted every row stays, and its flag. *)
LEMMA CalmKeepsRows ==
  ASSUME IInv, OneRow, [Next]_vars, StoredRows \subseteq StoredRows',
         NEW row \in packets
  PROVE  \E new \in packets' :
           /\ new.origin = row.origin /\ new.counter = row.counter
           /\ new.payload = row.payload /\ (row.snap => new.snap)
<1>1. CASE packets \subseteq packets'
  BY <1>1
<1>2. ASSUME NEW r \in Request, FlagSnapshot(r)
      PROVE  \E new \in packets' :
               /\ new.origin = row.origin /\ new.counter = row.counter
               /\ new.payload = row.payload /\ (row.snap => new.snap)
  BY <1>2, FlagKeepsRows DEF IInv
<1>3. ASSUME NEW r \in Request, DeletePackets(r)
      PROVE  row \in packets'
  <2>1. packets' \subseteq packets
    BY <1>3 DEF DeletePackets
  <2>2. Row(row) \in StoredRows'
    BY DEF StoredRows
  <2>3. PICK new \in packets' : Row(new) = Row(row)
    BY <2>2 DEF StoredRows, Row
  <2>4. new.origin = row.origin /\ new.counter = row.counter
    BY <2>3 DEF Row
  <2> QED BY <2>1, <2>4 DEF OneRow
<1>4. ASSUME NEW r \in Request, InsertPacket(r)
      PROVE  packets \subseteq packets'
  BY <1>4 DEF InsertPacket
<1> QED BY <1>1, <1>2, <1>3, <1>4, PacketsMove

(* A sync asks for all that is accepted and lacking. *)
LEMMA VectorOwes ==
  ASSUME IInv, SyncTypeOK, HonestInv, ReachInv,
         NEW want, want = {d \in Device : Mark(d) > have[d]},
         NEW d \in Device, NEW n \in Nat, n <= Mark(d)
  PROVE  Owed(want, d, n)
<1>1. have[d] \in Nat /\ Mark(d) \in Nat
  BY MarkIsTop DEF IInv, SyncTypeOK
<1>2. have[d] < n => d \in want
  BY <1>1
<1>3. ASSUME NEW m \in have[d] + 1 .. n
      PROVE  \E row \in Wanted(want) : GivesFirst(row, d, m)
  <2>1. m \in have[d] + 1 .. Mark(d)
    BY <1>1
  <2>2. PICK row \in packets :
          row.counter > have[row.origin] /\ GivesFirst(row, d, m)
    BY <2>1, InReach DEF HonestInv, ReachInv, GivesFirst
  <2>3. /\ row.origin \in Device /\ row.counter \in Nat
        /\ row.counter \in Counters(row.origin)
    BY DEF IInv, TypeOK, PacketRow, Counters, Held
  <2>4. /\ Mark(row.origin) >= row.counter /\ Mark(row.origin) \in Nat
        /\ have[row.origin] \in Nat
    BY <2>3, MarkIsTop DEF IInv, Tops, SyncTypeOK
  <2>5. row.origin \in want
    BY <2>2, <2>3, <2>4
  <2> QED BY <2>2, <2>5 DEF Wanted
<1> QED BY <1>2, <1>3 DEF Owed

(* The rows in the order of Before, each once. *)
Sorted(page, rows) ==
  /\ page \in Seq(rows)
  /\ \A i, j \in 1 .. Len(page) : i < j => Before(rows, page[i], page[j])
  /\ \A x \in rows : \E i \in 1 .. Len(page) : page[i] = x

(* In the order of Before the rows of one stream ascend, and those of a     *)
(* stream with a flagged row come before those of a stream without.         *)
LEMMA SortedFacts ==
  ASSUME NEW rows, Slotted(rows), NEW page, Sorted(page, rows),
         NEW i \in 1 .. Len(page), NEW k \in 1 .. Len(page)
  PROVE  /\ page[i] \in rows /\ Len(page) \in Nat /\ i \in Nat /\ k \in Nat
         /\ page[i].origin = page[k].origin /\ page[i].counter < page[k].counter
              => i < k
         /\ Hoisted(rows, page[i].origin) /\ ~Hoisted(rows, page[k].origin)
              => i < k
<1>1. /\ page \in Seq(rows) /\ Len(page) \in Nat /\ i \in Nat /\ k \in Nat
      /\ page[i] \in rows /\ page[k] \in rows
      /\ k < i => Before(rows, page[k], page[i])
  BY DEF Sorted
<1>2. /\ page[i].counter \in Nat /\ page[k].counter \in Nat
      /\ Rank[page[i].origin] \in Nat /\ Rank[page[k].origin] \in Nat
  BY <1>1, RankAssumption DEF Slotted, PacketRow
<1>3. page[i].origin = page[k].origin /\ page[i].counter < page[k].counter
        => i < k
  <2> SUFFICES ASSUME page[i].origin = page[k].origin,
                      page[i].counter < page[k].counter, ~(i < k)
               PROVE  FALSE
    OBVIOUS
  <2>1. k # i
    BY <1>2
  <2>2. Before(rows, page[k], page[i])
    BY <1>1, <2>1
  <2> QED BY <1>2, <2>2 DEF Before
<1>4. Hoisted(rows, page[i].origin) /\ ~Hoisted(rows, page[k].origin) => i < k
  <2> SUFFICES ASSUME Hoisted(rows, page[i].origin),
                      ~Hoisted(rows, page[k].origin), ~(i < k)
               PROVE  FALSE
    OBVIOUS
  <2>1. k # i /\ page[k].origin # page[i].origin
    OBVIOUS
  <2>2. Before(rows, page[k], page[i])
    BY <1>1, <2>1
  <2> QED BY <2>1, <2>2 DEF Before
<1> QED BY <1>1, <1>3, <1>4

LEMMA WantedHas ==
  ASSUME IInv, SyncTypeOK, TailUnbroken, NEW want \in SUBSET Device,
         NEW x \in Wanted(want), NEW c \in Nat, x.counter <= c, c <= Mark(x.origin)
  PROVE  \E y \in Wanted(want) : y.origin = x.origin /\ y.counter = c
<1>1. /\ x.origin \in want /\ x.origin \in Device /\ x \in packets
      /\ x.counter \in Nat /\ x.counter > have[x.origin]
      /\ have[x.origin] \in Nat
  BY DEF Wanted, IInv, TypeOK, PacketRow, SyncTypeOK
<1>2. c \in x.counter .. top[x.origin]
  BY <1>1, TopType
<1>3. PICK y \in packets : y.origin = x.origin /\ y.counter = c
  BY <1>1, <1>2, TailHas
<1> QED BY <1>1, <1>3 DEF Wanted

(* A result that is one page delivers what was asked for: a flagged row of   *)
(* d's stream puts the stream in the device's reach from that row on; if     *)
(* there is none, the last missing counter is given by a snapshot, whose     *)
(* stream comes before d's.                                                  *)
LEMMA WholeResultReaches ==
  ASSUME IInv, TableInv, SyncTypeOK, TailUnbroken, RowsFromUploads,
         CoversItself(Uploads), NEW want \in SUBSET Device, NEW page,
         Sorted(page, Wanted(want)),
         NEW d \in Device, NEW n \in Nat, n <= Mark(d), Owed(want, d, n)
  PROVE  Reaches(have, page, d, n)
<1>1. PICK rows : rows = Wanted(want)
  OBVIOUS
<1>2. /\ have[d] \in Nat /\ Mark(d) \in Nat
      /\ Len(page) \in Nat /\ \A i \in 1 .. Len(page) : i \in Nat
      /\ \A x \in rows : \E i \in 1 .. Len(page) : page[i] = x
      /\ \A i \in 1 .. Len(page) : page[i] \in rows
  BY <1>1, MarkIsTop DEF IInv, SyncTypeOK, Sorted
<1>3. \A i, k \in 1 .. Len(page) :
        /\ page[i].origin = page[k].origin /\ page[i].counter < page[k].counter
             => i < k
        /\ Hoisted(rows, page[i].origin) /\ ~Hoisted(rows, page[k].origin)
             => i < k
  BY <1>1, WantedFacts, SortedFacts
<1>4. CASE n <= have[d]
  <2>1. \A c \in have[d] + 1 .. n : FALSE
    BY <1>2, <1>4
  <2>2. 0 \in 0 .. Len(page)
    BY <1>2
  <2> QED BY <1>2, <2>1, <2>2 DEF Reaches
<1>5. CASE have[d] < n /\ Hoisted(rows, d)
  <2>1. PICK x \in rows : x.origin = d /\ x.snap
    BY <1>5 DEF Hoisted
  <2>2. PICK i \in 1 .. Len(page) : page[i] = x
    BY <1>2
  <2>3. x \in packets /\ x.counter \in Nat
    BY <1>1 DEF Wanted, IInv, TypeOK, PacketRow
  <2>4. PICK u \in Uploads :
          /\ SameSlot(x, u) /\ x.payload = u.payload
          /\ x.snap => u.snapshot
    BY <2>3 DEF RowsFromUploads
  <2>5. u \in SnapshotsIn(x) /\ x.counter <= u.covers[d]
    <3>1. u \in SnapshotsIn(x)
      BY <2>1, <2>4 DEF SnapshotsIn, SameSlot
    <3>2. u.covers[u.origin] >= u.counter
      BY <2>1, <2>4 DEF CoversItself
    <3>3. u.counter = x.counter /\ u.origin = d /\ u.covers[d] \in Nat
      BY <2>1, <2>4, UploadFacts DEF SameSlot
    <3> QED BY <2>3, <3>1, <3>2, <3>3
  <2>6. ASSUME NEW c \in x.counter + 1 .. n
        PROVE  \E k \in i + 1 .. Len(page) :
                 page[k].origin = d /\ page[k].counter = c
    <3>1. c \in Nat /\ x.counter < c /\ x.counter <= c /\ c <= Mark(d)
      BY <1>2, <2>3
    <3>2. PICK y \in rows : y.origin = d /\ y.counter = c
      BY <1>1, <2>1, <3>1, WantedHas
    <3>3. PICK k \in 1 .. Len(page) : page[k] = y
      BY <1>2
    <3>4. i < k
      BY <1>3, <2>1, <2>2, <3>1, <3>2, <3>3
    <3>5. k \in i + 1 .. Len(page)
      BY <1>2, <3>4
    <3> QED BY <3>2, <3>3, <3>5
  <2>7. i \in 0 .. Len(page) /\ i # 0
    BY <1>2
  <2> QED BY <2>2, <2>3, <2>5, <2>6, <2>7 DEF Reaches
<1>6. CASE have[d] < n /\ ~Hoisted(rows, d)
  <2>1. \A m \in have[d] + 1 .. n : \E row \in rows : GivesFirst(row, d, m)
    BY <1>1, <1>6 DEF Owed
  <2> DEFINE own(m) == \E k \in 1 .. Len(page) :
                         page[k].origin = d /\ page[k].counter = m
             gaps == {m \in have[d] + 1 .. n : ~own(m)}
  <2>2. \A m \in Nat : m \in gaps <=> m > have[d] /\ m <= n /\ ~own(m)
    BY <1>2
  <2>3. IsFiniteSet(gaps) /\ \A m \in gaps : m \in Nat
    <3>1. gaps \in SUBSET (have[d] + 1 .. n)
      OBVIOUS
    <3>2. IsFiniteSet(have[d] + 1 .. n)
      <4>1. have[d] + 1 \in Int /\ n \in Int
        BY <1>2
      <4> QED BY <4>1, FS_Interval
    <3>3. \A m \in have[d] + 1 .. n : m \in Nat
      BY <1>2
    <3> HIDE DEF gaps
    <3> QED BY <3>1, <3>2, <3>3, FS_Subset
  <2> HIDE DEF gaps
  <2>4. CASE gaps = {}
    <3>1. \A c \in have[d] + 1 .. n : own(c)
      BY <1>2, <2>2, <2>4
    <3>2. 0 \in 0 .. Len(page) /\ 0 + 1 = 1
      BY <1>2
    <3>3. \A c \in have[d] + 1 .. n : \E k \in 0 + 1 .. Len(page) :
            page[k].origin = d /\ page[k].counter = c
      BY <3>1, <3>2
    <3>4. have[d] \in Nat /\ have[d] <= have[d]
      BY <1>2
    <3> HIDE DEF own
    <3> QED BY <3>2, <3>3, <3>4 DEF Reaches
  <2>5. CASE gaps # {}
    <3> DEFINE g == Max(gaps)
    <3>1. g \in gaps /\ \A m \in gaps : g >= m
      BY <2>3, <2>5, GreatestNat
    <3> HIDE DEF g
    <3>2. g \in Nat /\ g > have[d] /\ g <= n /\ ~own(g)
      BY <2>2, <2>3, <3>1
    <3>3. g \in have[d] + 1 .. n
      BY <1>2, <3>2
    <3>4. PICK y \in rows : GivesFirst(y, d, g)
      BY <2>1, <3>3
    <3>5. PICK i \in 1 .. Len(page) : page[i] = y
      BY <1>2
    <3>6. y.snap /\ \E u \in SnapshotsIn(y) : u.covers[d] >= g
      BY <3>2, <3>4, <3>5 DEF GivesFirst
    <3>7. Hoisted(rows, y.origin)
      BY <3>6 DEF Hoisted
    <3>8. ASSUME NEW c \in g + 1 .. n
          PROVE  \E k \in i + 1 .. Len(page) :
                   page[k].origin = d /\ page[k].counter = c
      <4>1. c \in Nat /\ c > have[d] /\ c <= n /\ ~(g >= c)
        BY <1>2, <3>2
      <4>2. own(c)
        BY <2>2, <3>1, <4>1
      <4>3. PICK k \in 1 .. Len(page) : page[k].origin = d /\ page[k].counter = c
        BY <4>2
      <4>4. i < k
        BY <1>3, <1>6, <3>5, <3>7, <4>3
      <4>5. k \in i + 1 .. Len(page)
        BY <1>2, <4>4
      <4> QED BY <4>3, <4>5
    <3>9. \E u \in SnapshotsIn(page[i]) : g <= u.covers[d]
      <4>1. PICK u \in SnapshotsIn(y) : u.covers[d] >= g
        BY <3>6
      <4>2. u.covers[d] \in Nat
        BY SnapshotsInFacts
      <4> QED BY <3>2, <3>5, <4>1, <4>2
    <3>10. i \in 0 .. Len(page) /\ i # 0
      BY <1>2
    <3> HIDE DEF own
    <3> QED BY <3>2, <3>8, <3>9, <3>10 DEF Reaches
  <2> QED BY <2>4, <2>5
<1> QED BY <1>2, <1>4, <1>5, <1>6

(* Taking a packet keeps the rest of the page leading there. *)
LEMMA TakingReaches ==
  ASSUME Honest(Uploads), CoversItself(Uploads), IsFiniteSet(Uploads),
         NEW h \in [Device -> Nat], NEW page \in Seq(PacketRow), page # <<>>,
         FromUpload(page[1]),
         \A i, j \in 1 .. Len(page) : i < j => Rises(page, i, j),
         NEW d \in Device, NEW n \in Nat, Reaches(h, page, d, n)
  PROVE  Reaches(Taken(h, page[1]), Tail(page), d, n)
<1>1. PICK h2, rest : h2 = Taken(h, page[1]) /\ rest = Tail(page)
  OBVIOUS
<1>2. /\ page[1] \in PacketRow /\ page[1].counter \in Nat
      /\ Len(page) \in Nat /\ 1 \in 1 .. Len(page)
      /\ Len(rest) \in Nat /\ Len(rest) = Len(page) - 1
      /\ \A i \in 1 .. Len(rest) : rest[i] = page[i + 1]
  <2>1. /\ page[1] \in PacketRow /\ Len(page) \in Nat \ {0}
        /\ Len(rest) = Len(page) - 1
        /\ \A i \in 1 .. Len(rest) : rest[i] = page[i + 1]
    BY <1>1, PageTail
  <2>2. page[1].counter \in Nat
    BY <2>1 DEF PacketRow
  <2> QED BY <2>1, <2>2
<1>3. /\ h[d] \in Nat /\ h2[d] \in Nat /\ h2[d] >= h[d]
      /\ \A u \in SnapshotsIn(page[1]) : h2[d] >= u.covers[d]
  BY <1>1, <1>2, TakenFacts
<1>4. ASSUME NEW k \in 2 .. Len(page)
      PROVE  /\ k - 1 \in 1 .. Len(rest) /\ k - 1 \in Nat /\ (k - 1) + 1 = k
             /\ rest[k - 1] = page[k]
  <2>1. k - 1 \in 1 .. Len(rest) /\ k - 1 \in Nat /\ (k - 1) + 1 = k
    BY <1>2
  <2> QED BY <1>2, <2>1
<1>5. PICK i \in 0 .. Len(page), m \in Nat :
        /\ i = 0 => m <= h[d]
        /\ i # 0 => \E u \in SnapshotsIn(page[i]) : m <= u.covers[d]
        /\ \A c \in m + 1 .. n :
             \E k \in i + 1 .. Len(page) :
               page[k].origin = d /\ page[k].counter = c
  BY DEF Reaches
<1>6. i \in Nat
  BY <1>2
<1>7. CASE i = 0
  <2>1. ASSUME NEW c \in h2[d] + 1 .. n
        PROVE  \E k \in 1 .. Len(rest) :
                 rest[k].origin = d /\ rest[k].counter = c
    <3>1. c \in Nat /\ c > h2[d] /\ c <= n /\ c \in m + 1 .. n /\ c > h[d]
          /\ m <= h[d]
      BY <1>3, <1>5, <1>7
    <3>2. PICK k \in 1 .. Len(page) : page[k].origin = d /\ page[k].counter = c
      BY <1>5, <1>7, <3>1
    <3>3. CASE k # 1
      <4>1. k \in 2 .. Len(page)
        BY <1>2, <3>3
      <4> QED BY <1>4, <3>2, <4>1
    <3>4. CASE k = 1
      <4>1. page[1].counter = c /\ page[1].origin = d
        BY <3>2, <3>4
      <4>2. c = h[d] + 1
        <5> SUFFICES ASSUME c # h[d] + 1 PROVE FALSE
          OBVIOUS
        <5>1. h[d] + 1 \in m + 1 .. n /\ h[d] + 1 \in Nat /\ h[d] + 1 < c
          BY <1>3, <3>1
        <5>2. PICK l \in 1 .. Len(page) :
                page[l].origin = d /\ page[l].counter = h[d] + 1
          BY <1>5, <1>7, <5>1
        <5>3. l # 1
          BY <4>1, <5>2
        <5>4. 1 < l
          BY <1>2, <5>3
        <5>5. page[1].counter < page[l].counter
          BY <1>2, <4>1, <5>2, <5>4 DEF Rises
        <5> QED BY <3>1, <4>1, <5>1, <5>2, <5>5
      <4>3. CASE SnapshotsIn(page[1]) = {}
        <5>1. h2[d] = IF d = page[1].origin /\ page[1].counter = h[d] + 1
                      THEN page[1].counter ELSE h[d]
          BY <1>1, <1>2, <4>3, TakenFacts
        <5> QED BY <3>1, <4>1, <4>2, <5>1
      <4>4. CASE SnapshotsIn(page[1]) # {}
        <5>1. PICK u \in SnapshotsIn(page[1]) : TRUE
          BY <4>4
        <5>2. u \in Uploads /\ u.snapshot /\ u.origin = d /\ u.counter = c
              /\ u.covers[d] \in Nat
          BY <4>1, SnapshotsInFacts
        <5>3. u.covers[d] >= c
          BY <5>2 DEF CoversItself
        <5>4. h2[d] >= u.covers[d]
          BY <1>3
        <5> QED BY <1>3, <3>1, <5>2, <5>3, <5>4
      <4> QED BY <4>3, <4>4
    <3> QED BY <3>3, <3>4
  <2>2. 0 \in 0 .. Len(rest) /\ 0 + 1 = 1 /\ h2[d] <= h2[d]
    BY <1>2, <1>3
  <2>3. \A c \in h2[d] + 1 .. n : \E k \in 0 + 1 .. Len(rest) :
          rest[k].origin = d /\ rest[k].counter = c
    BY <2>1, <2>2
  <2>4. Reaches(h2, rest, d, n)
    BY <1>3, <2>2, <2>3 DEF Reaches
  <2> QED BY <1>1, <2>4
<1>8. CASE i # 0
  <2>1. \A k \in i + 1 .. Len(page) : /\ k \in 2 .. Len(page)
                                      /\ k - 1 \in (i - 1) + 1 .. Len(rest)
    BY <1>2, <1>6, <1>8
  <2>2. \A c \in m + 1 .. n : \E k \in (i - 1) + 1 .. Len(rest) :
          rest[k].origin = d /\ rest[k].counter = c
    <3> SUFFICES ASSUME NEW c \in m + 1 .. n
                 PROVE  \E k \in (i - 1) + 1 .. Len(rest) :
                          rest[k].origin = d /\ rest[k].counter = c
      OBVIOUS
    <3>1. PICK k \in i + 1 .. Len(page) :
            page[k].origin = d /\ page[k].counter = c
      BY <1>5
    <3>2. rest[k - 1] = page[k] /\ k - 1 \in (i - 1) + 1 .. Len(rest)
      BY <1>4, <2>1
    <3> QED BY <3>1, <3>2
  <2>3. PICK u \in SnapshotsIn(page[i]) : m <= u.covers[d]
    BY <1>5, <1>8
  <2>4. i - 1 \in 0 .. Len(rest)
    BY <1>2, <1>6, <1>8
  <2>5. i - 1 = 0 => m <= h2[d]
    <3> SUFFICES ASSUME i - 1 = 0 PROVE m <= h2[d]
      OBVIOUS
    <3>1. i = 1
      BY <1>6
    <3>2. h2[d] >= u.covers[d] /\ u.covers[d] \in Nat
      BY <1>3, <2>3, <3>1, SnapshotsInFacts
    <3> QED BY <1>3, <2>3, <3>2
  <2>6. i - 1 # 0 => rest[i - 1] = page[i]
    <3> SUFFICES ASSUME i - 1 # 0 PROVE rest[i - 1] = page[i]
      OBVIOUS
    <3>1. i \in 2 .. Len(page)
      BY <1>2, <1>6, <1>8
    <3> QED BY <1>4, <3>1
  <2>7. Reaches(h2, rest, d, n)
    BY <2>2, <2>3, <2>4, <2>5, <2>6 DEF Reaches
  <2> QED BY <1>1, <2>7
<1> QED BY <1>7, <1>8

-----------------------------------------------------------------------------
(* The session.                                                             *)

(* The relay's steps take nothing from a calm session. *)
LEMMA SessionBeside ==
  ASSUME IInv, OneRow, SyncTypeOK, SessionInv, IInv', StandsStill
  PROVE  SessionInv'
<1>1. /\ [Next]_vars /\ have' = have /\ pull' = pull
      /\ session'.state = session.state /\ session'.since = session.since
      /\ session'.calm => session.calm /\ StoredRows \subseteq StoredRows'
  BY DEF StandsStill
<1>2. pull'.pc # "idle" => session'.state = "open"
  BY <1>1 DEF SessionInv
<1>3. \A d \in Device : session'.since[d] <= Mark(d)'
  <2>1. Growth
    BY <1>1, StepGrows DEF IInv
  <2>2. \A d \in Device : Mark(d)' \in Nat /\ Mark(d)' >= Mark(d)
    BY <2>1 DEF Growth, top
  <2>3. \A d \in Device : session.since[d] \in Nat /\ Mark(d) \in Nat
                          /\ session.since[d] <= Mark(d)
    BY MarkIsTop DEF IInv, SyncTypeOK, SessionType, SessionInv
  <2> QED BY <1>1, <2>2, <2>3
<1>4. ASSUME pull'.pc = "select", session'.calm, NEW d \in Device
      PROVE  Owed(pull.want, d, session.since[d])'
  <2>1. Owed(pull.want, d, session.since[d])
    BY <1>1, <1>4 DEF SessionInv
  <2>2. ASSUME NEW row \in Wanted(pull.want), NEW n, GivesFirst(row, d, n)
        PROVE  \E new \in Wanted(pull.want)' : GivesFirst(new, d, n)'
    <3>1. PICK new \in packets' :
            /\ new.origin = row.origin /\ new.counter = row.counter
            /\ new.payload = row.payload /\ (row.snap => new.snap)
      BY <1>1, <1>4, CalmKeepsRows DEF Wanted
    <3>2. new \in Wanted(pull.want)'
      BY <1>1, <3>1 DEF Wanted
    <3>3. SnapshotsIn(new)' = SnapshotsIn(row)
      BY <3>1 DEF SnapshotsIn
    <3>4. GivesFirst(new, d, n)'
      BY <2>2, <3>1, <3>3 DEF GivesFirst
    <3> QED BY <3>2, <3>4
  <2> QED BY <1>1, <2>1, <2>2 DEF Owed
<1>5. ASSUME pull'.pc = "answer", session'.calm, ~pull'.more
      PROVE  Delivers'
  BY <1>1, <1>5 DEF SessionInv, Delivers
<1>6. SyncComplete'
  BY <1>1 DEF SessionInv, SyncComplete
<1> QED BY <1>2, <1>3, <1>4, <1>5, <1>6 DEF SessionInv

LEMMA SessionVector ==
  ASSUME IInv, SyncTypeOK, HonestInv, ReachInv, SessionInv, PullVector
  PROVE  SessionInv'
<1> DEFINE want == {d \in Device : Mark(d) > have[d]}
<1>1. /\ pull.pc = "idle" /\ UNCHANGED <<vars, have>>
      /\ pull' = [NoPull EXCEPT !.pc = IF want = {} THEN "answer" ELSE "select",
                                !.want = want]
      /\ session' = IF session.state = "open" THEN session
                    ELSE [state |-> "open", since |-> top, calm |-> TRUE]
  BY DEF PullVector
<1>2. \A d \in Device : Mark(d)' = Mark(d) /\ Mark(d) \in Nat
                        /\ top[d] = Mark(d)
  BY <1>1, MarkIsTop, TopType DEF vars, tables, Mark, Counters, Held, IInv
<1>3. /\ pull'.pc = IF want = {} THEN "answer" ELSE "select"
      /\ pull'.want = want /\ pull'.page = <<>>
  <2> HIDE DEF want
  <2> QED BY <1>1 DEF NoPull
<1>4. session'.state = "open"
      /\ \A d \in Device : session'.since[d] \in Nat
                           /\ session'.since[d] <= Mark(d)
  BY <1>1, <1>2 DEF SessionInv, SyncTypeOK, SessionType
<1>5. \A d \in Device : Owed(want, d, session'.since[d])
  BY <1>4, VectorOwes
<1>6. pull'.pc = "select" =>
        \A d \in Device : Owed(pull.want, d, session.since[d])'
  <2>1. PICK w : w = want
    OBVIOUS
  <2>2. Wanted(w)' = Wanted(w) /\ have' = have /\ pull'.want = w
    BY <1>1, <1>3, <2>1 DEF Wanted, vars, tables
  <2>3. \A d \in Device : Owed(w, d, session'.since[d])
    BY <1>5, <2>1
  <2> HIDE DEF want
  <2> QED BY <2>2, <2>3 DEF Owed, GivesFirst, SnapshotsIn
<1>7. pull'.pc = "answer" => Delivers'
  <2> SUFFICES ASSUME pull'.pc = "answer", NEW d \in Device
               PROVE  Reaches(have', pull'.page, d, session'.since[d])
    BY DEF Delivers
  <2>1. want = {}
    BY <1>3
  <2>2. have[d] \in Nat /\ have' = have /\ session'.since[d] <= have[d]
    BY <1>1, <1>2, <1>4, <2>1 DEF SyncTypeOK
  <2>3. \A c \in have[d] + 1 .. session'.since[d] : FALSE
    BY <1>4, <2>2
  <2>4. 0 \in 0 .. Len(<<>>) /\ have[d] <= have[d]
    BY <2>2
  <2> QED BY <1>3, <2>2, <2>3, <2>4 DEF Reaches
<1>8. SyncComplete'
  BY <1>4 DEF SyncComplete
<1> QED BY <1>2, <1>4, <1>6, <1>7, <1>8 DEF SessionInv

LEMMA SessionSelect ==
  ASSUME IInv, TableInv, SyncTypeOK, TailUnbroken, HonestInv, SessionInv,
         CoversItself(Uploads), PullSelect
  PROVE  SessionInv'
<1> DEFINE rows == Wanted(pull.want)
           s == InOrder(rows)
<1>1. /\ pull.pc = "select" /\ pull'.pc = "answer"
      /\ pull'.page \in Seq(rows) /\ Len(pull'.page) \in Nat
      /\ \A i \in 1 .. Len(pull'.page) : pull'.page[i] = s[i]
      /\ ~pull'.more => Len(pull'.page) = Len(s)
      /\ UNCHANGED <<vars, have, session>>
  BY SelectFacts
<1>2. \A d \in Device : Mark(d)' = Mark(d) /\ Mark(d) \in Nat
  BY <1>1, MarkIsTop DEF vars, tables, Mark, Counters, Held, IInv
<1>3. ASSUME ~pull'.more, session'.calm
      PROVE  Delivers'
  <2>1. PICK page : page = pull'.page
    OBVIOUS
  <2>2. Sorted(page, rows)
    <3>1. Sorted(s, rows)
      BY WantedFacts, InOrderFacts DEF Sorted
    <3>2. page \in Seq(rows) /\ Len(page) = Len(s)
          /\ \A i \in 1 .. Len(page) : page[i] = s[i]
      BY <1>1, <1>3, <2>1
    <3> HIDE DEF s, rows
    <3> QED BY <3>1, <3>2 DEF Sorted
  <2>3. ASSUME NEW d \in Device
        PROVE  Reaches(have, page, d, session.since[d])
    <3>1. /\ session.since[d] \in Nat /\ session.since[d] <= Mark(d)
          /\ Owed(pull.want, d, session.since[d])
      BY <1>1, <1>3 DEF SyncTypeOK, SessionType, SessionInv
    <3>2. pull.want \in SUBSET Device
      BY DEF SyncTypeOK, PullType
    <3> QED BY <2>2, <3>1, <3>2, WholeResultReaches DEF HonestInv
  <2> QED BY <1>1, <2>1, <2>3 DEF Delivers
<1>4. SyncComplete'
  BY <1>1 DEF SessionInv, SyncComplete
<1> QED BY <1>1, <1>2, <1>3, <1>4 DEF SessionInv

LEMMA SessionTake ==
  ASSUME IInv, SyncTypeOK, ReachInv, PageRises, SessionInv, Honest(Uploads),
         CoversItself(Uploads), IsFiniteSet(Uploads), TakePacket
  PROVE  SessionInv'
<1>1. /\ pull.pc = "answer" /\ pull.page \in Seq(PacketRow) /\ pull.page # <<>>
      /\ have \in [Device -> Nat] /\ have' = Taken(have, pull.page[1])
      /\ pull'.pc = "answer" /\ pull'.more = pull.more
      /\ pull'.page = Tail(pull.page)
      /\ UNCHANGED <<vars, session>>
  BY DEF TakePacket, SyncTypeOK, PullType
<1>2. \A d \in Device : Mark(d)' = Mark(d)
  BY <1>1 DEF vars, tables, Mark, Counters, Held
<1>3. ASSUME ~pull'.more, session'.calm
      PROVE  Delivers'
  <2>1. FromUpload(pull.page[1])
    BY <1>1, PageTail DEF ReachInv, PageFromUploads
  <2>2. ASSUME NEW d \in Device
        PROVE  Reaches(Taken(have, pull.page[1]), Tail(pull.page), d,
                       session.since[d])
    <3>1. Reaches(have, pull.page, d, session.since[d])
      BY <1>1, <1>3 DEF SessionInv, Delivers
    <3>2. session.since[d] \in Nat
      BY DEF SyncTypeOK, SessionType
    <3> QED BY <1>1, <2>1, <3>1, <3>2, TakingReaches DEF PageRises
  <2> QED BY <1>1, <2>2 DEF Delivers
<1>4. SyncComplete'
  BY <1>1 DEF SessionInv, SyncComplete
<1> QED BY <1>1, <1>2, <1>3, <1>4 DEF SessionInv

LEMMA SessionEnd ==
  ASSUME IInv, SyncTypeOK, SessionInv, EndPage \/ LosePull
  PROVE  SessionInv'
<1>1. /\ pull'.pc = "idle" /\ UNCHANGED <<vars, have>>
      /\ session'.since = session.since /\ session'.calm = session.calm
  BY DEF EndPage, LosePull, NoPull, SyncTypeOK, SessionType
<1>2. \A d \in Device : Mark(d)' = Mark(d)
  BY <1>1 DEF vars, tables, Mark, Counters, Held
<1>3. ASSUME session'.state = "done", session'.calm, NEW d \in Device
      PROVE  have'[d] >= session'.since[d]
  <2>1. EndPage /\ ~pull.more
    BY <1>3 DEF EndPage, LosePull, SyncTypeOK, SessionType
  <2>2. pull.pc = "answer" /\ pull.page = <<>>
    BY <2>1 DEF EndPage
  <2>3. Reaches(have, <<>>, d, session.since[d])
    BY <1>1, <1>3, <2>1, <2>2 DEF SessionInv, Delivers
  <2>4. PICK m \in Nat : /\ m <= have[d]
                         /\ \A c \in m + 1 .. session.since[d] : FALSE
    BY <2>3 DEF Reaches
  <2>5. session.since[d] \in Nat /\ have[d] \in Nat
    BY DEF SyncTypeOK, SessionType
  <2>6. ~(m + 1 <= session.since[d])
    BY <2>4, <2>5
  <2> QED BY <1>1, <2>4, <2>5, <2>6
<1> QED BY <1>1, <1>2, <1>3 DEF SessionInv, SyncComplete

LEMMA SessionStep ==
  ASSUME Honest(Uploads), CoversItself(Uploads), IsFiniteSet(Uploads),
         IInv, TableInv, SyncTypeOK, TailUnbroken, HonestInv, ReachInv,
         PageRises, SessionInv, [PullNext]_syncVars, IInv'
  PROVE  SessionInv'
BY PullCases, SessionBeside, SessionVector, SessionSelect, SessionTake,
   SessionEnd DEF TableInv

(* If snapshots cover themselves too, a sync that ends with has_more false   *)
(* has all that was accepted when it began, unless a prune ran meanwhile:    *)
(* the hoisting of streams with snapshots, the cuts of pages and the packets *)
(* and flags that come between pages lose nothing.                           *)
THEOREM SyncsComplete ==
  Honest(Uploads) /\ CoversItself(Uploads) /\ IsFiniteSet(Uploads) =>
    (PullSpec => []SyncComplete)
<1> SUFFICES ASSUME Honest(Uploads), CoversItself(Uploads),
                    IsFiniteSet(Uploads)
             PROVE  PullSpec => []SyncComplete
  OBVIOUS
<1>1. Init /\ SyncInit => SessionInv
  <2> SUFFICES ASSUME Init, SyncInit PROVE SessionInv
    OBVIOUS
  <2>1. /\ pull.pc = "idle" /\ session.state = "none"
        /\ \A d \in Device : session.since[d] = 0
    BY DEF SyncInit, NoPull
  <2>2. \A d \in Device : Mark(d) \in Nat
    BY InitIInv, MarkIsTop DEF IInv
  <2> QED BY <2>1, <2>2 DEF SessionInv, SyncComplete
<1>2. IInv /\ TableInv /\ SyncTypeOK /\ TailUnbroken /\ HonestInv /\ ReachInv
        /\ PageRises /\ SessionInv /\ [PullNext]_syncVars /\ IInv' => SessionInv'
  BY SessionStep
<1>3. SessionInv => SyncComplete
  BY DEF SessionInv
<1> QED BY <1>1, <1>2, <1>3, PullSpecIsSpec, Invariance, TableInvariance,
           TailsUnbroken, HonestInvariance, ReachInvariance, RiseInvariance,
           PullTypeCorrect, PTL DEF PullSpec
=============================================================================

---------------------------- MODULE UploadProofs ----------------------------
(***************************************************************************)
(* Theorems of Upload, for every set of devices, blobs, payloads, requests *)
(* and uploads and every setting of the limits.                            *)
(***************************************************************************)
EXTENDS UploadInvariant, TLAPS

-----------------------------------------------------------------------------
(* Tops and bounds.                                                         *)

(* StreamMark's answer exists, is a natural number and bounds the stream. *)
LEMMA MarkIsTop ==
  ASSUME TypeOK, HasTop, NEW d \in Device
  PROVE  /\ Mark(d) \in Nat
         /\ Mark(d) \in Tops(d)
         /\ \A n \in Tops(d) : Mark(d) >= n
<1>1. PICK n \in Tops(d) : \A m \in Tops(d) : n >= m
  BY DEF HasTop
<1>2. Mark(d) = Max(Tops(d))
  BY DEF Mark, Tops
<1>3. Mark(d) \in Tops(d) /\ \A m \in Tops(d) : Mark(d) >= m
  BY <1>1, <1>2 DEF Max
<1>4. Tops(d) \subseteq Nat
  BY DEF TypeOK, Tops, Counters, Held, PacketRow
<1> QED BY <1>3, <1>4

(* Min of a pair of naturals. *)
LEMMA MinOfTwo ==
  ASSUME NEW x \in Nat, NEW y \in Nat
  PROVE  Min({x, y}) \in Nat /\ Min({x, y}) <= x /\ Min({x, y}) <= y
<1>1. \E z \in {x, y} : \A w \in {x, y} : z <= w
  BY x <= y \/ y <= x
<1> QED BY <1>1 DEF Min

(* A clipped declaration is a natural number. *)
LEMMA ClipType ==
  ASSUME NEW u \in Uploads, NEW d \in Device
  PROVE  Clip(u, d) \in Nat
BY UploadsAssumption DEF UploadType, Clip

(* PruneCovered's bound never exceeds the declaration or the mark it read. *)
LEMMA UpToBound ==
  ASSUME NEW h \in Handler, h.up \in Uploads, h.at \in Device
  PROVE  /\ UpTo(h) \in Nat
         /\ UpTo(h) <= Clip(h.up, h.at)
         /\ UpTo(h) <= h.mark
<1>1. Clip(h.up, h.at) \in Nat /\ h.mark \in Nat
  BY ClipType DEF Handler
<1> QED BY <1>1, MinOfTwo DEF UpTo

-----------------------------------------------------------------------------
(* Type correctness.                                                        *)

(* The records a step may leave in a handler are handlers. *)
LEMMA StepType ==
  ASSUME TypeOK, NEW r \in Request, NEW from, NEW h \in Handler, Step(r, from, h)
  PROVE  req' \in [Request -> Handler]
BY DEF TypeOK, Step

LEMMA GotoType ==
  ASSUME TypeOK, NEW r \in Request, NEW from, NEW to \in Stages,
         Goto(r, from, to)
  PROVE  req' \in [Request -> Handler]
<1>1. [req[r] EXCEPT !.pc = to] \in Handler
  BY DEF TypeOK, Handler
<1> QED BY <1>1, StepType DEF Goto

LEMMA BlankType == Blank \in Handler
BY DEF Blank, Handler, Stages

LEMMA NextStageType ==
  ASSUME NEW u, NEW inserted
  PROVE  /\ ToQuota(u) \in Stages
         /\ ToStreams(u) \in Stages
         /\ ToPrune(u) \in Stages
         /\ ToFlag(u, inserted) \in Stages
         /\ ToRecord(u, inserted) \in Stages
BY DEF ToQuota, ToStreams, ToPrune, ToFlag, ToRecord, Stages, Answers

(* What a handler at a stage of uploads serves has the type of an upload. *)
LEMMA ServedType ==
  ASSUME TypeOK, HandlersOK, NEW r \in Request, req[r].pc \in UploadStages
  PROVE  /\ req[r].up \in Uploads
         /\ req[r].up.origin \in Device
         /\ req[r].up.counter \in Nat \ {0}
         /\ req[r].up.payload \in Payload
         /\ req[r].up.snapshot \in BOOLEAN
         /\ req[r].up.blobs \in SUBSET Blob
BY UploadsAssumption DEF HandlersOK, HandlerOK, ServesUpload, UploadType

(* NextDevice leaves a handler, whatever the device it is done with. *)
LEMMA NextDeviceType ==
  ASSUME TypeOK, NEW r \in Request, NEW from, NEW d, NEW p \in BOOLEAN,
         NextDevice(r, from, d, p)
  PROVE  req' \in [Request -> Handler]
<1> DEFINE left == req[r].devs \ {d}
           to == IF left # {} THEN "prune" ELSE IF p THEN "garbage" ELSE "ack"
           h == [req[r] EXCEPT !.pc = to, !.devs = left, !.at = None,
                               !.mark = 0, !.pruned = p]
<1>1. to \in Stages /\ left \in SUBSET Device /\ req[r] \in Handler
  BY DEF TypeOK, Handler, Stages, Answers
<1>2. Step(r, from, h)
  BY DEF NextDevice
<1>3. h \in Handler
  <2> HIDE DEF left, to
  <2> QED BY <1>1 DEF Handler
<1> QED BY <1>2, <1>3, StepType

LEMMA RaisedType ==
  ASSUME TypeOK, NEW d, NEW n \in Nat
  PROVE  Raised(d, n) \in [Device -> Nat]
BY DEF TypeOK, Raised

(* The steps that leave the tables alone or touch them only within their    *)
(* types: what a handler becomes.                                           *)
LEMMA CheckType ==
  ASSUME TypeOK, HasTop, HandlersOK, NEW r \in Request, Check(r)
  PROVE  TypeOK'
<1> USE DEF Stages, Answers
<1>h. req[r] \in Handler
  BY DEF TypeOK
<1>1. CASE HasBlob(r)
  <2>1. PICK id \in req[r].todo \cap blobs :
          Step(r, "hasblob",
               [req[r] EXCEPT !.todo = @ \ {id},
                  !.pc = IF req[r].todo = {id} THEN "checkmark" ELSE "hasblob"])
    BY <1>1 DEF HasBlob
  <2>2. [req[r] EXCEPT !.todo = @ \ {id},
           !.pc = IF req[r].todo = {id} THEN "checkmark" ELSE "hasblob"]
        \in Handler
    BY <1>h DEF Handler
  <2>3. req' \in [Request -> Handler]
    BY <2>1, <2>2, StepType
  <2> QED BY <1>1, <2>3 DEF HasBlob, TypeOK, tables
<1>2. ASSUME NEW to \in Stages, ReadMark(r, to)
      PROVE  TypeOK'
  <2>1. req[r].pc \in UploadStages
    BY <1>2 DEF ReadMark, Step, UploadStages
  <2>2. Mark(req[r].up.origin) \in Nat
    BY <2>1, ServedType, MarkIsTop
  <2>3. [req[r] EXCEPT !.pc = to, !.mark = Mark(req[r].up.origin)] \in Handler
    BY <2>2, <1>h DEF Handler
  <2>4. req' \in [Request -> Handler]
    BY <1>2, <2>3, StepType DEF ReadMark
  <2> QED BY <1>2, <2>4 DEF ReadMark, TypeOK, tables
<1>3. CASE PassOldOrGap(r) \/ CheckNew(r) \/ RefuseDisk(r)
  BY <1>2, <1>3, NextStageType DEF PassOldOrGap, CheckNew, RefuseDisk
<1>4. ASSUME NEW from, NEW to \in Stages, Goto(r, from, to), UNCHANGED tables
      PROVE  TypeOK'
  BY <1>4, GotoType DEF TypeOK, tables
<1>5. CASE MissingBlob(r) \/ CheckStreams(r) \/ RefuseStream(r) \/ CheckQuota(r)
  <2>1. ToQuota(req[r].up) \in Stages
    BY NextStageType
  <2> QED BY <1>4, <1>5, <2>1
         DEF MissingBlob, CheckStreams, RefuseStream, CheckQuota
<1>6. CASE CoveredBytes(r)
  <2> DEFINE rows(d) ==
               req[r].freed \cup Below(packets, d, Clip(req[r].up, d))
             to(d) == IF req[r].devs = {d} THEN ToCredited(req[r].up, rows(d))
                                           ELSE "covered"
             left(d) == IF req[r].devs = {d} THEN Covered(req[r].up)
                                             ELSE req[r].devs \ {d}
             h(d) == [req[r] EXCEPT !.pc = to(d), !.freed = rows(d),
                                    !.devs = left(d)]
  <2>1. PICK d \in req[r].devs : Step(r, "covered", h(d))
    BY <1>6 DEF CoveredBytes
  <2>2. /\ to(d) \in Stages
        /\ rows(d) \in SUBSET PacketRow
        /\ left(d) \in SUBSET Device
    BY <1>h DEF ToCredited, Covered, Below, TypeOK, Handler
  <2>3. h(d) \in Handler
    <3> HIDE DEF to, rows, left
    <3> QED BY <2>2, <1>h DEF Handler
  <2>4. req' \in [Request -> Handler]
    BY <2>1, <2>3, StepType
  <2> QED BY <1>6, <2>4 DEF CoveredBytes, TypeOK, tables
<1> QED BY <1>1, <1>3, <1>5, <1>6 DEF Check

LEMMA InsertType ==
  ASSUME TypeOK, HasTop, HandlersOK, NEW r \in Request, Insert(r)
  PROVE  TypeOK'
<1> USE DEF Stages, Answers
<1>h. req[r] \in Handler
  BY DEF TypeOK
<1>r. ASSUME NEW from \in UploadStages, NEW inserted, Record(r, from, inserted)
      PROVE  req' \in [Request -> Handler]
  <2>1. req[r].up.blobs \in SUBSET Blob
    BY <1>r, ServedType DEF Record, Step
  <2>2. ToRecord(req[r].up, inserted) \in Stages
    BY NextStageType
  <2>3. [req[r] EXCEPT !.pc = ToRecord(req[r].up, inserted),
                       !.todo = req[r].up.blobs, !.mark = 0] \in Handler
    BY <1>h, <2>1, <2>2 DEF Handler
  <2> QED BY <1>r, <2>3, StepType DEF Record
<1>1. CASE InsertPacket(r)
  <2>1. [req[r] EXCEPT !.pc = "raise", !.stored = TRUE] \in Handler
    BY <1>h DEF Handler
  <2>2. req' \in [Request -> Handler]
    BY <1>1, <2>1, StepType DEF InsertPacket
  <2>3. req[r].pc \in UploadStages
    BY <1>1 DEF InsertPacket, Step, UploadStages
  <2>4. packets' \subseteq PacketRow
    BY <1>1, <2>3, ServedType DEF InsertPacket, PacketRow, TypeOK
  <2> QED BY <1>1, <2>2, <2>4 DEF InsertPacket, TypeOK
<1>2. CASE InsertNothing(r)
  BY <1>2, GotoType DEF InsertNothing, TypeOK, tables
<1>3. CASE RaiseMark(r)
  <2>1. req' \in [Request -> Handler]
    BY <1>3, <1>r DEF RaiseMark, UploadStages
  <2>2. req[r].pc \in UploadStages
    BY <1>3 DEF RaiseMark, Record, Step, UploadStages
  <2>3. marks' \in [Device -> Nat]
    BY <1>3, <2>2, ServedType, RaisedType DEF RaiseMark
  <2> QED BY <1>3, <2>1, <2>3 DEF RaiseMark, TypeOK
<1>4. CASE ReadHeld(r)
  <2>1. req' \in [Request -> Handler]
    BY <1>4, <1>r DEF ReadHeld, UploadStages
  <2> QED BY <1>4, <2>1 DEF ReadHeld, TypeOK, tables
<1>5. CASE ReadGap(r)
  <2>1. req[r].pc \in UploadStages
    BY <1>5 DEF ReadGap, Step, UploadStages
  <2>2. Mark(req[r].up.origin) \in Nat
    BY <2>1, ServedType, MarkIsTop
  <2>3. [req[r] EXCEPT !.pc = "gap", !.mark = Mark(req[r].up.origin)] \in Handler
    BY <1>h, <2>2 DEF Handler
  <2>4. req' \in [Request -> Handler]
    BY <1>5, <2>3, StepType DEF ReadGap
  <2> QED BY <1>5, <2>4 DEF ReadGap, TypeOK, tables
<1>6. CASE RecordBlob(r)
  <2> DEFINE to(id) == IF req[r].todo = {id}
                       THEN ToFlag(req[r].up, req[r].stored) ELSE "record"
             h(id) == [req[r] EXCEPT !.todo = @ \ {id}, !.pc = to(id)]
  <2>1. PICK id \in req[r].todo :
          /\ Step(r, "record", h(id))
          /\ refs' = refs \cup {[origin |-> req[r].up.origin,
                                 counter |-> req[r].up.counter, blob |-> id]}
    BY <1>6 DEF RecordBlob
  <2>2. to(id) \in Stages
    BY NextStageType
  <2>3. h(id) \in Handler
    <3> HIDE DEF to
    <3> QED BY <1>h, <2>2 DEF Handler
  <2>4. req' \in [Request -> Handler]
    BY <2>1, <2>3, StepType
  <2>5. req[r].pc \in UploadStages /\ id \in Blob
    BY <1>h, <2>1 DEF Step, UploadStages, Handler
  <2>6. refs' \subseteq RefRow
    BY <2>1, <2>5, ServedType DEF RefRow, TypeOK
  <2> QED BY <1>6, <2>4, <2>6 DEF RecordBlob, TypeOK
<1>7. CASE FlagSnapshot(r)
  <2>1. req' \in [Request -> Handler]
    BY <1>7, NextStageType, GotoType DEF FlagSnapshot
  <2>2. packets' \subseteq PacketRow
    BY <1>7 DEF FlagSnapshot, Held, PacketRow, TypeOK
  <2> QED BY <1>7, <2>1, <2>2 DEF FlagSnapshot, TypeOK
<1> QED BY <1>1, <1>2, <1>3, <1>4, <1>5, <1>6, <1>7 DEF Insert

LEMMA PruneType ==
  ASSUME TypeOK, HasTop, HandlersOK, NEW r \in Request, Prune(r)
  PROVE  TypeOK'
<1> USE DEF Stages, Answers
<1>h. req[r] \in Handler
  BY DEF TypeOK
<1>1. CASE ReadCoveredMark(r)
  <2>1. PICK d \in req[r].devs :
          Step(r, "prune",
               [req[r] EXCEPT !.pc = "reassert", !.at = d, !.mark = Mark(d)])
    BY <1>1 DEF ReadCoveredMark
  <2>2. d \in Device /\ Mark(d) \in Nat
    BY <1>h, MarkIsTop DEF Handler
  <2>3. [req[r] EXCEPT !.pc = "reassert", !.at = d, !.mark = Mark(d)] \in Handler
    BY <1>h, <2>2 DEF Handler
  <2>4. req' \in [Request -> Handler]
    BY <2>1, <2>3, StepType
  <2> QED BY <1>1, <2>4 DEF ReadCoveredMark, TypeOK, tables
<1>2. CASE SkipUnknown(r)
  <2>1. req' \in [Request -> Handler]
    BY <1>h, <1>2, NextDeviceType DEF SkipUnknown, Handler
  <2> QED BY <1>2, <2>1 DEF SkipUnknown, TypeOK, tables
<1>3. CASE Reassert(r)
  <2>1. req' \in [Request -> Handler]
    BY <1>3, GotoType DEF Reassert
  <2>2. marks' \in [Device -> Nat]
    BY <1>h, <1>3, RaisedType DEF Reassert, Handler
  <2> QED BY <1>3, <2>1, <2>2 DEF Reassert, TypeOK
<1>4. CASE CountSome(r)
  BY <1>4, GotoType DEF CountSome, TypeOK, tables
<1>5. CASE CountNone(r)
  <2>1. req' \in [Request -> Handler]
    BY <1>h, <1>5, NextDeviceType DEF CountNone, Handler
  <2> QED BY <1>5, <2>1 DEF CountNone, TypeOK, tables
<1>6. CASE DeletePackets(r)
  BY <1>6, GotoType DEF DeletePackets, TypeOK
<1>7. CASE DeleteRefs(r)
  <2>1. req' \in [Request -> Handler]
    BY <1>7, NextDeviceType DEF DeleteRefs
  <2> QED BY <1>7, <2>1 DEF DeleteRefs, TypeOK
<1>8. CASE CountGarbage(r)
  BY <1>8, GotoType DEF CountGarbage, TypeOK, tables
<1>9. CASE CollectBlobs(r)
  BY <1>9, GotoType DEF CollectBlobs, TypeOK
<1> QED
  BY <1>1, <1>2, <1>3, <1>4, <1>5, <1>6, <1>7, <1>8, <1>9 DEF Prune

LEMMA PutType ==
  ASSUME TypeOK, NEW r \in Request, Put(r)
  PROVE  TypeOK'
<1> USE DEF Stages, Answers
<1>1. CASE PutHas(r) \/ RefusePutDisk(r) \/ PutQuota(r)
  BY <1>1, GotoType DEF PutHas, RefusePutDisk, PutQuota, TypeOK, tables
<1>2. CASE PutBlob(r)
  <2>1. req' \in [Request -> Handler] /\ req[r].todo \subseteq Blob
    BY <1>2, GotoType DEF PutBlob, TypeOK, Handler
  <2> QED BY <1>2, <2>1 DEF PutBlob, TypeOK
<1> QED BY <1>1, <1>2 DEF Put

LEMMA ReceiveType ==
  ASSUME TypeOK, HasTop, NEW r \in Request, NEW u \in Uploads, Receive(r, u)
  PROVE  TypeOK'
<1> USE DEF Stages, Answers
<1> DEFINE h == [Blank EXCEPT
                   !.pc = IF u.blobs # {} THEN "hasblob" ELSE "checkmark",
                   !.up = u, !.todo = u.blobs, !.devs = Covered(u),
                   !.arrived = Mark(u.origin)]
<1>1. u.blobs \subseteq Blob /\ u.origin \in Device
  BY UploadsAssumption DEF UploadType
<1>2. Mark(u.origin) \in Nat /\ Covered(u) \subseteq Device
  BY <1>1, MarkIsTop DEF Covered
<1>3. h \in Handler
  BY <1>1, <1>2, BlankType DEF Handler
<1>4. req' \in [Request -> Handler]
  BY <1>3, StepType DEF Receive
<1> QED BY <1>4 DEF Receive, TypeOK, tables

LEMMA ReceiveBlobType ==
  ASSUME TypeOK, NEW r \in Request, NEW id \in Blob, ReceiveBlob(r, id)
  PROVE  TypeOK'
<1> USE DEF Stages, Answers
<1>1. [Blank EXCEPT !.pc = IF MinFreeDiskBytes = 0 /\ UserQuotaBytes = 0
                           THEN "put" ELSE "puthas",
                    !.todo = {id}] \in Handler
  BY BlankType DEF Handler
<1>2. req' \in [Request -> Handler]
  BY <1>1, StepType DEF ReceiveBlob
<1> QED BY <1>2 DEF ReceiveBlob, TypeOK, tables

(* Every step of the relay keeps the types. *)
LEMMA TypeStep ==
  ASSUME TypeOK, HasTop, HandlersOK, [Next]_vars
  PROVE  TypeOK'
<1>1. CASE UNCHANGED vars
  BY <1>1 DEF TypeOK, vars, tables
<1>2. CASE Restart
  <2>1. marks' \in [Device -> Nat]
    BY <1>2, MarkIsTop DEF Restart
  <2> QED BY <1>2, <2>1, BlankType DEF Restart, TypeOK
<1>3. ASSUME NEW r \in Request, Respond(r) \/ Cancel(r)
      PROVE  TypeOK'
  BY <1>3, BlankType DEF Respond, Cancel, TypeOK, tables
<1> QED
  BY <1>1, <1>2, <1>3, CheckType, InsertType, PruneType, PutType, ReceiveType,
     ReceiveBlobType DEF Next, Serve

-----------------------------------------------------------------------------
(* What each statement does to the tops.                                    *)

LEMMA MaxOf ==
  ASSUME NEW S \in SUBSET Nat, NEW n \in S, \A m \in S : n >= m
  PROVE  Max(S) = n
<1>1. \A x \in S : (\A m \in S : x >= m) => x = n
  OBVIOUS
<1> QED BY <1>1 DEF Max

(* A number that bounds the new tops of a stream and is one of them is its  *)
(* new mark.                                                                *)
LEMMA NewTop ==
  ASSUME TypeOK', NEW d \in Device, NEW n \in Tops(d)', \A m \in Tops(d)' : n >= m
  PROVE  Mark(d)' = n
<1>1. Tops(d)' \subseteq Nat
  BY DEF TypeOK, Tops, Counters, Held, PacketRow
<1>2. Mark(d)' = Max(Tops(d)')
  BY DEF Mark, Tops
<1> QED BY <1>1, <1>2, MaxOf

(* The tables moved without moving a top or lowering a persisted mark. *)
TopsKept ==
  /\ HasTop'
  /\ \A d \in Device : Mark(d)' = Mark(d) /\ marks'[d] >= marks[d]

LEMMA KeepTops ==
  ASSUME TypeOK, HasTop, TypeOK',
         \A d \in Device :
           /\ marks'[d] >= marks[d]
           /\ Mark(d) \in Tops(d)'
           /\ \A m \in Tops(d)' : Mark(d) >= m
  PROVE  TopsKept
<1>1. \A d \in Device : Mark(d)' = Mark(d)
  BY NewTop
<1> QED BY <1>1 DEF TopsKept, HasTop

LEMMA TablesKept ==
  ASSUME TypeOK, HasTop, packets' = packets, marks' = marks
  PROVE  TopsKept
<1>1. \A d \in Device : marks'[d] >= marks[d]
  BY DEF TypeOK
<1> QED BY <1>1 DEF TopsKept, HasTop, Tops, Mark, Counters, Held

(* raiseMark with a counter the stream has reached. *)
LEMMA RaiseKeepsTops ==
  ASSUME TypeOK, HasTop, TypeOK', NEW d \in Device, NEW n \in Nat, n <= Mark(d),
         marks' = Raised(d, n), packets' = packets
  PROVE  TopsKept /\ marks'[d] >= n
<1>1. /\ marks'[d] = IF marks[d] < n THEN n ELSE marks[d]
      /\ \A e \in Device \ {d} : marks'[e] = marks[e]
      /\ \A e \in Device : marks[e] \in Nat
  BY DEF TypeOK, Raised
<1>2. ASSUME NEW e \in Device
      PROVE  /\ marks'[e] >= marks[e]
             /\ Mark(e) \in Tops(e)'
             /\ \A m \in Tops(e)' : Mark(e) >= m
  <2>1. Counters(e)' = Counters(e)
    BY DEF Counters, Held
  <2>2. /\ Mark(e) \in Nat /\ Mark(e) \in Tops(e)
        /\ \A m \in Tops(e) : Mark(e) >= m
    BY MarkIsTop
  <2> QED BY <1>1, <2>1, <2>2 DEF Tops
<1> QED BY <1>1, <1>2, KeepTops

(* The insert of the next counter raises one top by one. *)
LEMMA InsertRaisesTop ==
  ASSUME TypeOK, HasTop, TypeOK', NEW row, row.origin \in Device,
         row.counter = Mark(row.origin) + 1,
         packets' = packets \cup {row}, marks' = marks
  PROVE  /\ HasTop'
         /\ \A d \in Device :
              Mark(d)' = IF d = row.origin THEN Mark(d) + 1 ELSE Mark(d)
<1>1. ASSUME NEW d \in Device
      PROVE  LET n == IF d = row.origin THEN Mark(d) + 1 ELSE Mark(d)
             IN n \in Tops(d)' /\ \A m \in Tops(d)' : n >= m
  <2>1. Counters(d)' = Counters(d) \cup
                         (IF d = row.origin THEN {row.counter} ELSE {})
    BY DEF Counters, Held
  <2>2. /\ Mark(d) \in Nat /\ Mark(d) \in Tops(d)
        /\ \A m \in Tops(d) : Mark(d) >= m
    BY MarkIsTop
  <2>3. \A m \in Tops(d) : m \in Nat
    BY DEF TypeOK, Tops, Counters, Held, PacketRow
  <2> QED BY <2>1, <2>2, <2>3 DEF Tops
<1> QED BY <1>1, NewTop DEF HasTop

(* Packets deleted at or below a persisted mark take no top with them. *)
LEMMA DeleteKeepsTops ==
  ASSUME TypeOK, HasTop, TypeOK', NEW d \in Device, NEW n \in Nat,
         n <= marks[d], packets' = packets \ Below(packets, d, n),
         marks' = marks
  PROVE  TopsKept
<1>1. ASSUME NEW e \in Device
      PROVE  /\ marks'[e] >= marks[e]
             /\ Mark(e) \in Tops(e)'
             /\ \A m \in Tops(e)' : Mark(e) >= m
  <2>1. /\ Mark(e) \in Nat /\ Mark(e) \in Tops(e)
        /\ \A m \in Tops(e) : Mark(e) >= m
        /\ marks[e] \in Nat
    BY MarkIsTop DEF TypeOK
  <2>2. Counters(e)' \subseteq Counters(e)
    BY DEF Counters, Held
  <2>3. \A m \in Counters(e) : m \in Counters(e)' \/ m <= marks[e]
    <3>1. \A row \in Held(e) :
            row \in Held(e)' \/ (e = d /\ row.counter <= n)
      BY DEF Held, Below
    <3>2. \A row \in Held(e) : row.counter \in Nat
      BY DEF Held, TypeOK, PacketRow
    <3> QED BY <2>1, <3>1, <3>2 DEF Counters
  <2>4. marks[e] \in Tops(e)
    BY DEF Tops
  <2>5. Mark(e) \in Tops(e)'
    <3>1. CASE Mark(e) \in Counters(e)
      <4>1. CASE Mark(e) \in Counters(e)'
        BY <4>1 DEF Tops
      <4>2. CASE Mark(e) <= marks[e]
        BY <2>1, <2>4, <4>2 DEF Tops
      <4> QED BY <2>3, <3>1, <4>1, <4>2
    <3>2. CASE Mark(e) \in {0, marks[e]}
      BY <3>2 DEF Tops
    <3> QED BY <2>1, <3>1, <3>2 DEF Tops
  <2> QED BY <2>1, <2>2, <2>5 DEF Tops
<1> QED BY <1>1, KeepTops

(* What the invariant says of one handler, with its types. *)
LEMMA HandlerFacts ==
  ASSUME TypeOK, HandlersOK, NEW r \in Request
  PROVE  req[r] \in Handler /\ HandlerOK(req[r], top, marks)
BY DEF TypeOK, HandlersOK

(* A stored row and a row with its flag raised have the same counter. *)
LEMMA FlagKeepsTops ==
  ASSUME TypeOK, HasTop, NEW r \in Request, FlagSnapshot(r)
  PROVE  TopsKept /\ \A d \in Device : Counters(d)' = Counters(d)
<1> DEFINE u == req[r].up
           slot == {row \in Held(u.origin) : row.counter = u.counter}
           flag(row) == [row EXCEPT !.snap = TRUE]
<1>1. packets' = (packets \ slot) \cup {flag(row) : row \in slot} /\ marks' = marks
  BY DEF FlagSnapshot
<1>2. \A row \in packets :
        flag(row).origin = row.origin /\ flag(row).counter = row.counter
  BY DEF TypeOK, PacketRow
<1>3. slot \subseteq packets
  BY DEF Held
<1>4. \A d \in Device : Counters(d)' = Counters(d)
  <2> HIDE DEF slot, flag
  <2> QED BY <1>1, <1>2, <1>3 DEF Counters, Held
<1>5. \A d \in Device : marks'[d] >= marks[d]
  BY <1>1 DEF TypeOK
<1>6. \A d \in Device : Tops(d)' = Tops(d) /\ Mark(d)' = Mark(d)
  BY <1>1, <1>4 DEF Tops, Mark
<1> QED BY <1>4, <1>5, <1>6 DEF TopsKept, HasTop

(* The one statement that moves a top is the guarded insert. *)
InsertsNext(r) ==
  /\ InsertPacket(r)
  /\ HasTop'
  /\ \A d \in Device :
       Mark(d)' = IF d = req[r].up.origin THEN Mark(d) + 1 ELSE Mark(d)

LEMMA InsertMoves ==
  ASSUME TypeOK, HasTop, HandlersOK, TypeOK', NEW r \in Request, InsertPacket(r)
  PROVE  InsertsNext(r)
<1> DEFINE u == req[r].up
           row == [origin |-> u.origin, counter |-> u.counter,
                   payload |-> u.payload, snap |-> u.snapshot]
<1>1. req[r].pc \in UploadStages
  BY DEF InsertPacket, Step, UploadStages
<1>2. u.origin \in Device /\ u.counter \in Nat \ {0}
  BY <1>1, ServedType
<1>3. Mark(u.origin) \in Nat /\ Mark(u.origin) = u.counter - 1
  BY <1>2, MarkIsTop DEF InsertPacket
<1>4. row.origin = u.origin /\ row.counter = Mark(row.origin) + 1
  BY <1>2, <1>3
<1>5. packets' = packets \cup {row} /\ marks' = marks
  BY DEF InsertPacket
<1> HIDE DEF row
<1>6. /\ HasTop'
      /\ \A d \in Device :
           Mark(d)' = IF d = row.origin THEN Mark(d) + 1 ELSE Mark(d)
  BY <1>2, <1>4, <1>5, InsertRaisesTop
<1> QED BY <1>4, <1>6 DEF InsertsNext

(* A step moves no top, or it is the insert. *)
LEMMA TopStep ==
  ASSUME TypeOK, HasTop, HandlersOK, [Next]_vars, TypeOK'
  PROVE  TopsKept \/ \E r \in Request : InsertsNext(r)
<1>1. CASE packets' = packets /\ marks' = marks
  BY <1>1, TablesKept
<1>2. CASE Restart
  <2>1. \A d \in Device : marks'[d] = Mark(d)
    BY <1>2 DEF Restart
  <2>2. \A d \in Device : Counters(d)' = Counters(d)
    BY <1>2 DEF Restart, Counters, Held
  <2>3. \A d \in Device :
          /\ Mark(d) \in Nat /\ Mark(d) \in Tops(d)
          /\ \A m \in Tops(d) : Mark(d) >= m
    BY MarkIsTop
  <2> QED BY <2>1, <2>2, <2>3, KeepTops DEF Tops
<1>3. ASSUME NEW r \in Request, InsertPacket(r)
      PROVE  InsertsNext(r)
  BY <1>3, InsertMoves
<1>4. ASSUME NEW r \in Request, RaiseMark(r)
      PROVE  TopsKept
  <2>1. req[r].pc = "raise"
    BY <1>4 DEF RaiseMark, Record, Step
  <2>2. req[r].up \in Uploads /\ req[r].up.origin \in Device
        /\ req[r].up.counter \in Nat
    BY <2>1, ServedType DEF UploadStages
  <2>3. req[r].up.counter <= Mark(req[r].up.origin)
    BY <2>1, <2>2, HandlerFacts
       DEF HandlerOK, ReadsOwnStream, AcceptedStages, top
  <2> QED BY <1>4, <2>2, <2>3, RaiseKeepsTops DEF RaiseMark
<1>5. ASSUME NEW r \in Request, Reassert(r)
      PROVE  TopsKept
  <2>1. req[r].pc = "reassert"
    BY <1>5 DEF Reassert, Goto, Step
  <2>2. req[r].at \in Device /\ req[r].mark <= Mark(req[r].at)
    BY <2>1, HandlerFacts
       DEF HandlerOK, ReadsPrunedStream, DeviceStages, Covered, top
  <2>3. req[r].mark \in Nat
    BY HandlerFacts DEF Handler
  <2> QED BY <1>5, <2>2, <2>3, RaiseKeepsTops DEF Reassert
<1>6. ASSUME NEW r \in Request, DeletePackets(r)
      PROVE  TopsKept
  <2>1. req[r].pc = "delpackets"
    BY <1>6 DEF DeletePackets, Goto, Step
  <2>2. req[r].at \in Device /\ req[r].mark <= marks[req[r].at]
    BY <2>1, HandlerFacts
       DEF HandlerOK, ReadsPrunedStream, DeviceStages, MarkedStages, Covered
  <2>3. req[r].up \in Uploads
    BY <2>1, ServedType DEF UploadStages
  <2>4. UpTo(req[r]) \in Nat /\ UpTo(req[r]) <= req[r].mark
    BY <2>2, <2>3, UpToBound, HandlerFacts
  <2>5. UpTo(req[r]) <= marks[req[r].at]
    BY <2>2, <2>4, HandlerFacts DEF Handler, TypeOK
  <2> QED BY <1>6, <2>2, <2>4, <2>5, DeleteKeepsTops DEF DeletePackets
<1>7. ASSUME NEW r \in Request, FlagSnapshot(r)
      PROVE  TopsKept
  BY <1>7, FlagKeepsTops
<1>8. ASSUME NEW r \in Request, Check(r) \/ Put(r) \/ Respond(r) \/ Cancel(r)
      PROVE  packets' = packets /\ marks' = marks
  BY <1>8
     DEF Check, HasBlob, MissingBlob, PassOldOrGap, CheckNew, RefuseDisk, ReadMark,
         CheckStreams, RefuseStream, CoveredBytes, CheckQuota,
         Put, PutHas, RefusePutDisk, PutQuota, PutBlob, Respond, Cancel, tables
<1>9. ASSUME NEW r \in Request, Insert(r)
      PROVE  \/ packets' = packets /\ marks' = marks
             \/ InsertPacket(r) \/ RaiseMark(r) \/ FlagSnapshot(r)
  BY <1>9 DEF Insert, InsertNothing, ReadHeld, ReadGap, RecordBlob, tables
<1>10. ASSUME NEW r \in Request, Prune(r)
       PROVE  \/ packets' = packets /\ marks' = marks
              \/ Reassert(r) \/ DeletePackets(r)
  BY <1>10 DEF Prune, ReadCoveredMark, SkipUnknown, CountSome, CountNone,
               DeleteRefs, CountGarbage, CollectBlobs, tables
<1>11. ASSUME NEW r \in Request,
              \/ \E u \in Uploads : Receive(r, u)
              \/ \E id \in Blob : ReceiveBlob(r, id)
       PROVE  packets' = packets /\ marks' = marks
  BY <1>11 DEF Receive, ReceiveBlob, tables
<1>12. CASE UNCHANGED vars
  BY <1>12, <1>1 DEF vars, tables
<1> QED
  BY <1>1, <1>2, <1>3, <1>4, <1>5, <1>6, <1>7, <1>8, <1>9, <1>10, <1>11, <1>12
     DEF Next, Serve

-----------------------------------------------------------------------------
(* What handlers rely on.                                                   *)

(* Tops and marks only grow, so what a handler read of them stays a bound. *)
LEMMA GrowthKeepsHandler ==
  ASSUME NEW h \in Handler,
         NEW t \in [Device -> Nat], NEW t2 \in [Device -> Nat],
         NEW m \in [Device -> Nat], NEW m2 \in [Device -> Nat],
         \A d \in Device : t2[d] >= t[d] /\ m2[d] >= m[d],
         HandlerOK(h, t, m)
  PROVE  HandlerOK(h, t2, m2)
<1>1. ReadsOwnStream(h, t2)
  <2>1. CASE h.up \in Uploads
    <3>1. h.up.origin \in Device /\ h.up.counter \in Nat /\ h.arrived \in Nat
      BY <2>1, UploadsAssumption DEF UploadType, Handler
    <3>2. /\ t[h.up.origin] \in Nat /\ t2[h.up.origin] \in Nat
          /\ t2[h.up.origin] >= t[h.up.origin]
      BY <3>1
    <3> QED BY <3>1, <3>2 DEF HandlerOK, ReadsOwnStream
  <2> QED BY <2>1 DEF ReadsOwnStream
<1>2. ReadsPrunedStream(h, t2, m2)
  <2>1. h.mark \in Nat
    BY DEF Handler
  <2>2. h.pc \in DeviceStages => h.at \in Device
    BY DEF HandlerOK, ReadsPrunedStream, Covered
  <2>3. MarkedStages \subseteq DeviceStages
    BY DEF MarkedStages, DeviceStages
  <2> QED BY <2>1, <2>2, <2>3 DEF HandlerOK, ReadsPrunedStream
<1> QED BY <1>1, <1>2 DEF HandlerOK

(* A handler that is back at rest relies on nothing. *)
LEMMA BlankOK ==
  ASSUME NEW t, NEW m
  PROVE  HandlerOK(Blank, t, m)
BY NoneAssumption
   DEF Blank, HandlerOK, ServesUpload, ReadsOwnStream, ReadsPrunedStream,
       UploadStages, PutStages, DeviceStages, MarkedStages

(* Tops and marks after a step bound those before it. *)
Growth ==
  /\ top' \in [Device -> Nat]
  /\ \A d \in Device : Mark(d)' >= Mark(d) /\ marks'[d] >= marks[d]

LEMMA StepGrows ==
  ASSUME TypeOK, HasTop, HandlersOK, [Next]_vars, TypeOK'
  PROVE  HasTop' /\ Growth
<1>1. \A d \in Device : Mark(d) \in Nat
  BY MarkIsTop
<1>2. CASE TopsKept
  BY <1>1, <1>2 DEF TopsKept, Growth, top
<1>3. ASSUME NEW r \in Request, InsertsNext(r)
      PROVE  HasTop' /\ Growth
  <2>1. \A d \in Device : marks'[d] >= marks[d]
    BY <1>3 DEF InsertsNext, InsertPacket, TypeOK
  <2> QED BY <1>1, <1>3, <2>1 DEF InsertsNext, Growth, top
<1> QED BY <1>2, <1>3, TopStep

LEMMA OldHandlers ==
  ASSUME TypeOK, HasTop, HandlersOK, TypeOK', Growth, NEW r \in Request
  PROVE  HandlerOK(req[r], top', marks')
<1>1. top \in [Device -> Nat] /\ \A d \in Device : top[d] = Mark(d)
  BY MarkIsTop DEF top
<1>2. \A d \in Device : top'[d] >= top[d] /\ marks'[d] >= marks[d]
  BY <1>1 DEF Growth, top
<1>3. /\ top' \in [Device -> Nat]
      /\ marks \in [Device -> Nat] /\ marks' \in [Device -> Nat]
  BY DEF Growth, TypeOK
<1> QED BY <1>1, <1>2, <1>3, HandlerFacts, GrowthKeepsHandler

(* One handler moves: it is enough to look at that one. *)
LEMMA OneMoves ==
  ASSUME TypeOK, HasTop, HandlersOK, TypeOK', Growth, NEW r \in Request,
         \A s \in Request \ {r} : req'[s] = req[s],
         HandlerOK(req'[r], top', marks')
  PROVE  HandlersOK'
<1>1. \A s \in Request : HandlerOK(req'[s], top', marks')
  BY OldHandlers
<1> QED BY <1>1 DEF HandlersOK

LEMMA StepMoves ==
  ASSUME TypeOK, NEW r \in Request, NEW from, NEW h, Step(r, from, h)
  PROVE  /\ req[r].pc = from
         /\ req'[r] = h
         /\ \A s \in Request \ {r} : req'[s] = req[s]
BY DEF TypeOK, Step

LEMMA GotoMoves ==
  ASSUME TypeOK, NEW r \in Request, NEW from, NEW to, Goto(r, from, to)
  PROVE  /\ req[r].pc = from
         /\ req'[r].pc = to
         /\ req'[r].up = req[r].up /\ req'[r].devs = req[r].devs
         /\ req'[r].at = req[r].at /\ req'[r].mark = req[r].mark
         /\ req'[r].arrived = req[r].arrived
         /\ \A s \in Request \ {r} : req'[s] = req[s]
<1>1. /\ req[r].pc = from
      /\ req'[r] = [req[r] EXCEPT !.pc = to]
      /\ \A s \in Request \ {r} : req'[s] = req[s]
  BY StepMoves DEF Goto
<1>2. req[r] \in Handler
  BY DEF TypeOK
<1> QED BY <1>1, <1>2 DEF Handler

(* A move between stages of an upload that asks for no new knowledge, except *)
(* what is given here: of the mark when the upload turns out to be new or    *)
(* held, of the stream being pruned when the loop of PruneCovered is left.   *)
LEMMA PlainMove ==
  ASSUME NEW h, NEW h2, NEW t, NEW m, HandlerOK(h, t, m),
         h.pc \in UploadStages,
         h2.up = h.up, h2.arrived = h.arrived, h2.devs \subseteq Covered(h.up),
         h2.pc \in (UploadStages \cup {"full", "ack"}) \ DeviceStages,
         h2.pc \notin {"held", "gap"},
         h2.pc \in NewStages => h.pc \in NewStages \/ h.up.counter > h.arrived,
         h2.pc \in AcceptedStages =>
           h.pc \in AcceptedStages \/ h.up.counter <= t[h.up.origin]
  PROVE  HandlerOK(h2, t, m)
<1>1. h.up \in Uploads
  BY DEF HandlerOK, ServesUpload
<1>2. ServesUpload(h2)
  BY <1>1 DEF ServesUpload, UploadStages, PutStages
<1>3. ReadsOwnStream(h2, t)
  BY <1>1 DEF HandlerOK, ReadsOwnStream
<1>4. ReadsPrunedStream(h2, t, m)
  BY DEF ReadsPrunedStream, DeviceStages, MarkedStages
<1> QED BY <1>2, <1>3, <1>4 DEF HandlerOK

(* One handler makes such a move; the others stay as they are. *)
LEMMA PlainStep ==
  ASSUME TypeOK, HasTop, HandlersOK, TypeOK', Growth, NEW r \in Request,
         NEW from \in UploadStages, NEW h2, Step(r, from, h2),
         h2.up = req[r].up, h2.arrived = req[r].arrived,
         h2.devs \subseteq Covered(req[r].up),
         h2.pc \in (UploadStages \cup {"full", "ack"}) \ DeviceStages,
         h2.pc \notin {"held", "gap"},
         h2.pc \in NewStages =>
           from \in NewStages \/ req[r].up.counter > req[r].arrived,
         h2.pc \in AcceptedStages =>
           \/ from \in AcceptedStages
           \/ req[r].up.counter <= top'[req[r].up.origin]
  PROVE  HandlersOK'
<1>1. /\ req[r].pc = from /\ req'[r] = h2
      /\ \A s \in Request \ {r} : req'[s] = req[s]
  BY StepMoves
<1>2. HandlerOK(req[r], top', marks')
  BY OldHandlers
<1>3. HandlerOK(h2, top', marks')
  BY <1>1, <1>2, PlainMove
<1> QED BY <1>1, <1>3, OneMoves

LEMMA PlainGoto ==
  ASSUME TypeOK, HasTop, HandlersOK, TypeOK', Growth, NEW r \in Request,
         NEW from \in UploadStages,
         NEW to \in (UploadStages \cup {"full", "ack"}) \ DeviceStages,
         Goto(r, from, to), to \notin {"held", "gap"},
         to \in NewStages => from \in NewStages,
         to \in AcceptedStages => from \in AcceptedStages
  PROVE  HandlersOK'
<1> DEFINE h2 == [req[r] EXCEPT !.pc = to]
<1>1. /\ h2.pc = to /\ h2.up = req[r].up /\ h2.arrived = req[r].arrived
      /\ h2.devs = req[r].devs
  BY HandlerFacts DEF Handler
<1>2. Step(r, from, h2)
  BY DEF Goto
<1>3. h2.devs \subseteq Covered(req[r].up)
  BY <1>1, <1>2, HandlerFacts DEF Step, HandlerOK, ServesUpload
<1> HIDE DEF h2
<1> QED BY <1>1, <1>2, <1>3, PlainStep

(* The checks before the insert: an upload meets the limits only once it    *)
(* was found to be past every counter accepted when it arrived.             *)
LEMMA CheckHandlers ==
  ASSUME TypeOK, HasTop, HandlersOK, TypeOK', Growth, NEW r \in Request, Check(r)
  PROVE  HandlersOK'
<1>h. req[r] \in Handler /\ HandlerOK(req[r], top, marks)
  BY HandlerFacts
<1>u. ASSUME req[r].pc \in UploadStages
      PROVE  req[r].devs \subseteq Covered(req[r].up)
  BY <1>u, <1>h DEF HandlerOK, ServesUpload
<1>s. \A from : from \in {"hasblob", "checkmark", "streams", "covered", "quota"}
        => from \in UploadStages
  BY DEF UploadStages
<1>1. CASE HasBlob(r)
  <2> DEFINE to(id) == IF req[r].todo = {id} THEN "checkmark" ELSE "hasblob"
             left(id) == req[r].todo \ {id}
             h(id) == [req[r] EXCEPT !.todo = left(id), !.pc = to(id)]
  <2>1. PICK id \in req[r].todo \cap blobs : Step(r, "hasblob", h(id))
    BY <1>1 DEF HasBlob
  <2>2. /\ h(id).pc = to(id) /\ h(id).up = req[r].up
        /\ h(id).arrived = req[r].arrived /\ h(id).devs = req[r].devs
    <3> HIDE DEF to, left
    <3> QED BY <1>h DEF Handler
  <2>3. to(id) \in {"checkmark", "hasblob"} /\ req[r].pc = "hasblob"
    BY <2>1 DEF Step
  <2> HIDE DEF h, to
  <2> QED BY <1>s, <1>u, <2>1, <2>2, <2>3, PlainStep
          DEF UploadStages, DeviceStages, NewStages, AcceptedStages
<1>2. ASSUME NEW to, ReadMark(r, to),
             to \in {"insert", "streams", "covered", "quota", "full"},
             to # "insert" => req[r].up.counter = Mark(req[r].up.origin) + 1
      PROVE  HandlersOK'
  <2> DEFINE h == [req[r] EXCEPT !.pc = to, !.mark = Mark(req[r].up.origin)]
  <2>1. /\ h.pc = to /\ h.up = req[r].up
        /\ h.arrived = req[r].arrived /\ h.devs = req[r].devs
    BY <1>h DEF Handler
  <2>2. Step(r, "checkmark", h) /\ req[r].pc = "checkmark"
    BY <1>2 DEF ReadMark, Step
  <2> HIDE DEF h
  <2>3. req[r].up \in Uploads /\ req[r].up.origin \in Device
    BY <1>s, <2>2, ServedType
  <2>4. req[r].arrived <= Mark(req[r].up.origin)
    BY <1>h, <2>3 DEF HandlerOK, ReadsOwnStream, top
  <2>5. Mark(req[r].up.origin) \in Nat /\ req[r].arrived \in Nat
    BY <1>h, <2>3, MarkIsTop DEF Handler
  <2>6. to # "insert" => req[r].up.counter > req[r].arrived
    BY <1>2, <2>4, <2>5
  <2> QED BY <1>2, <1>s, <1>u, <2>1, <2>2, <2>6, PlainStep
          DEF UploadStages, DeviceStages, NewStages, AcceptedStages
<1>3. ToStreams(req[r].up) \in {"insert", "streams", "covered", "quota"}
      /\ ToQuota(req[r].up) \in {"insert", "covered", "quota"}
  BY DEF ToStreams, ToQuota
<1>4. CASE PassOldOrGap(r) \/ CheckNew(r) \/ RefuseDisk(r)
  BY <1>2, <1>3, <1>4 DEF PassOldOrGap, CheckNew, RefuseDisk
<1>5. CASE MissingBlob(r)
  BY <1>5, <1>s, PlainGoto
     DEF MissingBlob, UploadStages, DeviceStages, NewStages, AcceptedStages
<1>6. CASE CheckStreams(r) \/ RefuseStream(r) \/ CheckQuota(r)
  <2>1. PICK from \in {"streams", "quota"},
             to \in {"insert", "covered", "quota", "full"} : Goto(r, from, to)
    BY <1>3, <1>6 DEF CheckStreams, RefuseStream, CheckQuota
  <2> QED BY <1>s, <2>1, PlainGoto
          DEF UploadStages, DeviceStages, NewStages, AcceptedStages
<1>7. CASE CoveredBytes(r)
  <2> DEFINE rows(d) ==
               req[r].freed \cup Below(packets, d, Clip(req[r].up, d))
             to(d) == IF req[r].devs = {d} THEN ToCredited(req[r].up, rows(d))
                                           ELSE "covered"
             left(d) == IF req[r].devs = {d} THEN Covered(req[r].up)
                                             ELSE req[r].devs \ {d}
             h(d) == [req[r] EXCEPT !.pc = to(d), !.freed = rows(d),
                                    !.devs = left(d)]
  <2>1. PICK d \in req[r].devs : Step(r, "covered", h(d))
    BY <1>7 DEF CoveredBytes
  <2>2. /\ h(d).pc = to(d) /\ h(d).up = req[r].up
        /\ h(d).arrived = req[r].arrived /\ h(d).devs = left(d)
    <3> HIDE DEF to, left, rows
    <3> QED BY <1>h DEF Handler
  <2>3. to(d) \in {"covered", "quota", "insert"} /\ req[r].pc = "covered"
    BY <2>1 DEF Step, ToCredited
  <2>4. left(d) \subseteq Covered(req[r].up)
    BY <1>s, <1>u, <2>3
  <2> HIDE DEF h, to, left
  <2> QED BY <1>s, <2>1, <2>2, <2>3, <2>4, PlainStep
          DEF UploadStages, DeviceStages, NewStages, AcceptedStages
<1> QED BY <1>1, <1>4, <1>5, <1>6, <1>7 DEF Check

(* A stored counter is bounded by the mark of its stream, after a step. *)
LEMMA StoredBelowMark ==
  ASSUME TypeOK', HasTop', NEW d \in Device, NEW n \in Counters(d)'
  PROVE  Mark(d)' >= n
<1>1. PICK top1 \in Tops(d)' : \A m \in Tops(d)' : top1 >= m
  BY DEF HasTop
<1>2. Mark(d)' = top1
  BY <1>1, NewTop
<1> QED BY <1>1, <1>2 DEF Tops

(* InsertPacket and what follows up to the prune: past the verdict that the *)
(* slot is filled, its counter is below the mark for good.                  *)
LEMMA InsertHandlers ==
  ASSUME TypeOK, HasTop, HandlersOK, TypeOK', HasTop', Growth,
         NEW r \in Request, Insert(r)
  PROVE  HandlersOK'
<1> DEFINE u == req[r].up
<1>h. req[r] \in Handler /\ HandlerOK(req[r], top, marks)
  BY HandlerFacts
<1>s. \A from : from \in {"insert", "raise", "held", "record", "flag"}
        => from \in UploadStages
  BY DEF UploadStages
<1>u. ASSUME req[r].pc \in UploadStages
      PROVE  /\ u \in Uploads /\ u.origin \in Device /\ u.counter \in Nat
             /\ req[r].devs \subseteq Covered(u)
             /\ Mark(u.origin) \in Nat /\ req[r].arrived \in Nat
             /\ req[r].arrived <= Mark(u.origin)
             /\ top'[u.origin] >= Mark(u.origin) /\ top'[u.origin] \in Nat
  <2>1. u \in Uploads /\ u.origin \in Device /\ u.counter \in Nat
    BY <1>u, ServedType
  <2>2. Mark(u.origin) \in Nat /\ req[r].arrived \in Nat
    BY <1>h, <2>1, MarkIsTop DEF Handler
  <2>3. \A d \in Device : top[d] = Mark(d) /\ top'[d] = Mark(d)'
    BY DEF top
  <2>4. top'[u.origin] >= Mark(u.origin) /\ top'[u.origin] \in Nat
    BY <2>1, <2>3 DEF Growth
  <2>5. req[r].devs \subseteq Covered(u) /\ req[r].arrived <= top[u.origin]
    BY <1>h, <2>1 DEF HandlerOK, ServesUpload, ReadsOwnStream
  <2> QED BY <2>1, <2>2, <2>3, <2>4, <2>5
<1>p. ToPrune(u) \in {"ack", "prune"}
      /\ \A i : ToFlag(u, i) \in {"flag", "ack", "prune"}
      /\ \A j : ToRecord(u, j) \in {"record", "flag", "ack", "prune"}
  BY DEF ToPrune, ToFlag, ToRecord
<1>r. ASSUME NEW from \in {"raise", "held"}, NEW inserted,
             Record(r, from, inserted),
             from = "held" => u.counter <= Mark(u.origin)
      PROVE  HandlersOK'
  <2> DEFINE to == ToRecord(u, inserted)
             h == [req[r] EXCEPT !.pc = to, !.todo = u.blobs, !.mark = 0]
  <2>1. Step(r, from, h) /\ req[r].pc = from
    BY <1>r DEF Record, Step
  <2>2. /\ h.pc = to /\ h.up = u /\ h.arrived = req[r].arrived
        /\ h.devs = req[r].devs
    <3> HIDE DEF to
    <3> QED BY <1>h DEF Handler
  <2>3. from \in AcceptedStages \/ u.counter <= top'[u.origin]
    BY <1>r, <1>s, <1>u, <2>1 DEF AcceptedStages
  <2>4. to \in {"record", "flag", "ack", "prune"}
    BY <1>p
  <2> HIDE DEF h, to
  <2> QED BY <1>s, <1>u, <2>1, <2>2, <2>3, <2>4, PlainStep
          DEF UploadStages, DeviceStages, NewStages
<1>1. CASE InsertPacket(r)
  <2> DEFINE h == [req[r] EXCEPT !.pc = "raise", !.stored = TRUE]
             row == [origin |-> u.origin, counter |-> u.counter,
                     payload |-> u.payload, snap |-> u.snapshot]
  <2>1. Step(r, "insert", h) /\ req[r].pc = "insert"
        /\ packets' = packets \cup {row}
    BY <1>1 DEF InsertPacket, Step
  <2>2. /\ h.pc = "raise" /\ h.up = u /\ h.arrived = req[r].arrived
        /\ h.devs = req[r].devs
    BY <1>h DEF Handler
  <2>3. row.origin = u.origin /\ row.counter = u.counter
    OBVIOUS
  <2> HIDE DEF h, row
  <2>4. \A d \in Device : d = u.origin => u.counter \in Counters(d)'
    BY <2>1, <2>3 DEF Counters, Held
  <2>5. \A d \in Device : d = u.origin => top'[d] >= u.counter
    BY <2>4, StoredBelowMark DEF top
  <2>6. u.counter <= top'[u.origin]
    BY <1>s, <1>u, <2>1, <2>5
  <2> QED BY <1>s, <1>u, <2>1, <2>2, <2>6, PlainStep
          DEF UploadStages, DeviceStages, NewStages
<1>2. CASE InsertNothing(r)
  <2>0. Goto(r, "insert", "held")
    BY <1>2 DEF InsertNothing
  <2>1. /\ req[r].pc = "insert" /\ req'[r].pc = "held"
        /\ req'[r].up = u /\ req'[r].devs = req[r].devs
        /\ req'[r].arrived = req[r].arrived
        /\ \A s \in Request \ {r} : req'[s] = req[s]
    BY <2>0, GotoMoves
  <2>2. u.counter <= top'[u.origin] \/ u.counter > req[r].arrived + 1
    BY <1>2, <1>s, <1>u, <2>1 DEF InsertNothing
  <2>3. req[r].arrived <= top'[u.origin]
    BY <1>s, <1>u, <2>1
  <2>4. HandlerOK(req'[r], top', marks')
    BY <1>s, <1>u, <2>1, <2>2, <2>3
       DEF HandlerOK, ServesUpload, ReadsOwnStream, ReadsPrunedStream,
           PutStages, NewStages, AcceptedStages, DeviceStages, MarkedStages
  <2> QED BY <2>1, <2>4, OneMoves
<1>3. CASE RaiseMark(r)
  BY <1>3, <1>r DEF RaiseMark
<1>4. CASE ReadHeld(r)
  BY <1>4, <1>r DEF ReadHeld
<1>5. CASE ReadGap(r)
  <2> DEFINE h == [req[r] EXCEPT !.pc = "gap", !.mark = Mark(u.origin)]
  <2>1. Step(r, "held", h) /\ req[r].pc = "held" /\ u.counter > Mark(u.origin)
    BY <1>5 DEF ReadGap, Step
  <2>2. /\ h.pc = "gap" /\ h.up = u /\ h.arrived = req[r].arrived
        /\ h.devs = req[r].devs
    BY <1>h DEF Handler
  <2> HIDE DEF h
  <2>3. top[u.origin] = Mark(u.origin)
    BY <1>s, <1>u, <2>1 DEF top
  <2>4. u.counter > req[r].arrived + 1
    BY <1>h, <1>s, <1>u, <2>1, <2>3 DEF HandlerOK, ReadsOwnStream
  <2>5. req[r].arrived <= top'[u.origin]
    BY <1>s, <1>u, <2>1
  <2>6. HandlerOK(h, top', marks')
    BY <1>s, <1>u, <2>1, <2>2, <2>4, <2>5
       DEF HandlerOK, ServesUpload, ReadsOwnStream, ReadsPrunedStream,
           PutStages, NewStages, AcceptedStages, DeviceStages, MarkedStages
  <2> QED BY <2>1, <2>6, StepMoves, OneMoves
<1>6. CASE RecordBlob(r)
  <2> DEFINE to(id) == IF req[r].todo = {id} THEN ToFlag(u, req[r].stored)
                                             ELSE "record"
             left(id) == req[r].todo \ {id}
             h(id) == [req[r] EXCEPT !.todo = left(id), !.pc = to(id)]
  <2>1. PICK id \in req[r].todo : Step(r, "record", h(id))
    BY <1>6 DEF RecordBlob
  <2>2. /\ h(id).pc = to(id) /\ h(id).up = u
        /\ h(id).arrived = req[r].arrived /\ h(id).devs = req[r].devs
    <3> HIDE DEF to, left
    <3> QED BY <1>h DEF Handler
  <2>3. to(id) \in {"record", "flag", "ack", "prune"} /\ req[r].pc = "record"
    BY <1>p, <2>1 DEF Step
  <2> HIDE DEF h, to
  <2> QED BY <1>s, <1>u, <2>1, <2>2, <2>3, PlainStep
          DEF UploadStages, DeviceStages, NewStages, AcceptedStages
<1>7. CASE FlagSnapshot(r)
  BY <1>7, <1>p, <1>s, PlainGoto
     DEF FlagSnapshot, UploadStages, DeviceStages, NewStages, AcceptedStages
<1> QED BY <1>1, <1>2, <1>3, <1>4, <1>5, <1>6, <1>7 DEF Insert

(* The loop of PruneCovered is done with one device. *)
LEMMA NextDeviceHandlers ==
  ASSUME TypeOK, HasTop, HandlersOK, TypeOK', Growth, NEW r \in Request,
         NEW from \in AcceptedStages \cap UploadStages, NEW d, NEW p,
         NextDevice(r, from, d, p)
  PROVE  HandlersOK'
<1> DEFINE left == req[r].devs \ {d}
           to == IF left # {} THEN "prune" ELSE IF p THEN "garbage" ELSE "ack"
           h == [req[r] EXCEPT !.pc = to, !.devs = left, !.at = None,
                               !.mark = 0, !.pruned = p]
<1>1. Step(r, from, h) /\ req[r].pc = from
  BY DEF NextDevice, Step
<1>2. /\ h.pc = to /\ h.up = req[r].up /\ h.arrived = req[r].arrived
      /\ h.devs = left
  <2> HIDE DEF to, left
  <2> QED BY HandlerFacts DEF Handler
<1>3. left \subseteq Covered(req[r].up)
  BY <1>1, HandlerFacts DEF HandlerOK, ServesUpload
<1>4. to \in {"prune", "garbage", "ack"}
  OBVIOUS
<1> HIDE DEF h, to, left
<1> QED BY <1>1, <1>2, <1>3, <1>4, PlainStep
        DEF UploadStages, DeviceStages, NewStages

(* Inside one turn of the loop the device and the mark read of it stand. *)
LEMMA DeviceGoto ==
  ASSUME TypeOK, HasTop, HandlersOK, TypeOK', Growth, NEW r \in Request,
         NEW from \in DeviceStages, NEW to \in MarkedStages, Goto(r, from, to),
         from \in MarkedStages \/ req[r].mark <= marks'[req[r].at]
  PROVE  HandlersOK'
<1>1. HandlerOK(req[r], top', marks')
  BY OldHandlers
<1>2. /\ req[r].pc = from /\ req'[r].pc = to /\ req'[r].up = req[r].up
      /\ req'[r].devs = req[r].devs /\ req'[r].at = req[r].at
      /\ req'[r].mark = req[r].mark /\ req'[r].arrived = req[r].arrived
      /\ \A s \in Request \ {r} : req'[s] = req[s]
  BY GotoMoves
<1>3. from \in UploadStages /\ from \in AcceptedStages
      /\ to \in UploadStages /\ to \in DeviceStages /\ to \notin PutStages
      /\ to \notin NewStages /\ to \notin {"held", "gap"}
  BY DEF DeviceStages, MarkedStages, UploadStages, AcceptedStages, PutStages, NewStages
<1>4. HandlerOK(req'[r], top', marks')
  BY <1>1, <1>2, <1>3
     DEF HandlerOK, ServesUpload, ReadsOwnStream, ReadsPrunedStream
<1> QED BY <1>2, <1>4, OneMoves

(* PruneCovered: the mark that stands in for what it deletes is persisted   *)
(* before the DELETE.                                                       *)
LEMMA PruneHandlers ==
  ASSUME TypeOK, HasTop, HandlersOK, TypeOK', Growth, NEW r \in Request, Prune(r)
  PROVE  HandlersOK'
<1>h. req[r] \in Handler /\ HandlerOK(req[r], top', marks')
  BY HandlerFacts, OldHandlers
<1>1. CASE ReadCoveredMark(r)
  <2> DEFINE h(d) == [req[r] EXCEPT !.pc = "reassert", !.at = d, !.mark = Mark(d)]
  <2>1. PICK d \in req[r].devs : Step(r, "prune", h(d))
    BY <1>1 DEF ReadCoveredMark
  <2>2. /\ h(d).pc = "reassert" /\ h(d).up = req[r].up
        /\ h(d).arrived = req[r].arrived /\ h(d).devs = req[r].devs
        /\ h(d).at = d /\ h(d).mark = Mark(d)
    BY <1>h DEF Handler
  <2>3. req[r].pc = "prune" /\ d \in Device
    BY <1>h, <2>1 DEF Step, Handler
  <2> HIDE DEF h
  <2>4. \A e \in Device : top'[e] >= Mark(e) /\ Mark(e) \in Nat /\ top'[e] \in Nat
    BY MarkIsTop DEF Growth, top
  <2>5. Mark(d) <= top'[d]
    BY <2>3, <2>4
  <2>6. req[r].up \in Uploads
    BY <2>3, ServedType DEF UploadStages
  <2>7. HandlerOK(h(d), top', marks')
    BY <1>h, <2>1, <2>2, <2>3, <2>5, <2>6
       DEF HandlerOK, ServesUpload, ReadsOwnStream, ReadsPrunedStream, UploadStages,
           PutStages, NewStages, AcceptedStages, DeviceStages, MarkedStages
  <2> QED BY <2>1, <2>7, StepMoves, OneMoves
<1>2. CASE SkipUnknown(r)
  BY <1>2, NextDeviceHandlers DEF SkipUnknown, AcceptedStages, UploadStages
<1>3. CASE Reassert(r)
  <2>1. Goto(r, "reassert", "count") /\ req[r].pc = "reassert"
    BY <1>3 DEF Reassert, Goto, Step
  <2>2. req[r].at \in Device /\ req[r].mark <= Mark(req[r].at)
    BY <2>1, HandlerFacts
       DEF HandlerOK, ReadsPrunedStream, DeviceStages, Covered, top
  <2>3. marks'[req[r].at] >= req[r].mark
    BY <1>3, <2>2, RaiseKeepsTops, HandlerFacts DEF Reassert, Handler
  <2>4. marks'[req[r].at] \in Nat /\ req[r].mark \in Nat
    BY <1>h, <2>2 DEF TypeOK, Handler
  <2>5. req[r].mark <= marks'[req[r].at]
    BY <2>3, <2>4
  <2> QED BY <2>1, <2>5, DeviceGoto DEF DeviceStages, MarkedStages
<1>4. CASE CountSome(r)
  BY <1>4, DeviceGoto DEF CountSome, DeviceStages, MarkedStages
<1>5. CASE CountNone(r)
  BY <1>5, NextDeviceHandlers DEF CountNone, AcceptedStages, UploadStages
<1>6. CASE DeletePackets(r)
  BY <1>6, DeviceGoto DEF DeletePackets, DeviceStages, MarkedStages
<1>7. CASE DeleteRefs(r)
  BY <1>7, NextDeviceHandlers DEF DeleteRefs, AcceptedStages, UploadStages
<1>8. CASE CountGarbage(r) \/ CollectBlobs(r)
  <2>1. PICK from \in {"garbage", "collect"}, to \in {"ack", "collect"} :
          Goto(r, from, to)
    BY <1>8 DEF CountGarbage, CollectBlobs
  <2> QED BY <2>1, PlainGoto
          DEF UploadStages, DeviceStages, NewStages, AcceptedStages
<1> QED BY <1>1, <1>2, <1>3, <1>4, <1>5, <1>6, <1>7, <1>8 DEF Prune

(* A blob PUT relies on nothing. *)
LEMMA PutHandlers ==
  ASSUME TypeOK, HasTop, HandlersOK, TypeOK', Growth, NEW r \in Request, Put(r)
  PROVE  HandlersOK'
<1>1. PICK from \in PutStages, to \in {"put", "putquota", "full", "ack"} :
        Goto(r, from, to)
  BY DEF Put, PutHas, RefusePutDisk, PutQuota, PutBlob, PutStages
<1>2. /\ req[r].pc = from /\ req'[r].pc = to /\ req'[r].up = req[r].up
      /\ \A s \in Request \ {r} : req'[s] = req[s]
  BY <1>1, GotoMoves
<1>3. req[r].up = None
  BY <1>1, <1>2, HandlerFacts DEF HandlerOK, ServesUpload
<1>4. HandlerOK(req'[r], top', marks')
  BY <1>2, <1>3, NoneAssumption
     DEF HandlerOK, ServesUpload, ReadsOwnStream, ReadsPrunedStream,
         UploadStages, DeviceStages, MarkedStages
<1> QED BY <1>2, <1>4, OneMoves

(* A request comes in. *)
LEMMA ReceiveHandlers ==
  ASSUME TypeOK, HasTop, HandlersOK, TypeOK', Growth, NEW r \in Request,
         NEW u \in Uploads, Receive(r, u)
  PROVE  HandlersOK'
<1> DEFINE to == IF u.blobs # {} THEN "hasblob" ELSE "checkmark"
           devs == Covered(u)
           arrived == Mark(u.origin)
           h == [Blank EXCEPT !.pc = to, !.up = u, !.todo = u.blobs,
                              !.devs = devs, !.arrived = arrived]
<1>1. Step(r, "idle", h)
  BY DEF Receive
<1>2. h.pc = to /\ h.up = u /\ h.arrived = arrived /\ h.devs = devs
  <2> HIDE DEF to, devs, arrived
  <2> QED BY DEF Blank
<1> HIDE DEF h
<1>3. u.origin \in Device
  BY UploadsAssumption DEF UploadType
<1>4. \A d \in Device : top'[d] >= Mark(d) /\ Mark(d) \in Nat /\ top'[d] \in Nat
  BY MarkIsTop DEF Growth, top
<1>5. arrived <= top'[u.origin]
  BY <1>3, <1>4
<1>6. to \in {"hasblob", "checkmark"}
  OBVIOUS
<1>7. HandlerOK(h, top', marks')
  <2> HIDE DEF to, arrived
  <2> QED BY <1>2, <1>5, <1>6
     DEF HandlerOK, ServesUpload, ReadsOwnStream, ReadsPrunedStream,
         UploadStages, PutStages, NewStages, AcceptedStages, DeviceStages,
         MarkedStages
<1> QED BY <1>1, <1>7, StepMoves, OneMoves

LEMMA ReceiveBlobHandlers ==
  ASSUME TypeOK, HasTop, HandlersOK, TypeOK', Growth, NEW r \in Request,
         NEW id \in Blob, ReceiveBlob(r, id)
  PROVE  HandlersOK'
<1> DEFINE to == IF MinFreeDiskBytes = 0 /\ UserQuotaBytes = 0
                 THEN "put" ELSE "puthas"
           h == [Blank EXCEPT !.pc = to, !.todo = {id}]
<1>1. Step(r, "idle", h)
  BY DEF ReceiveBlob
<1>2. h.pc = to /\ h.up = None /\ to \in {"put", "puthas"}
  BY DEF Blank
<1> HIDE DEF h, to
<1>3. HandlerOK(h, top', marks')
  BY <1>2, NoneAssumption
     DEF HandlerOK, ServesUpload, ReadsOwnStream, ReadsPrunedStream,
         UploadStages, PutStages, DeviceStages, MarkedStages
<1> QED BY <1>1, <1>3, StepMoves, OneMoves

(* Every step of the relay keeps what every handler relies on. *)
LEMMA HandlersStep ==
  ASSUME TypeOK, HasTop, HandlersOK, [Next]_vars, TypeOK', HasTop', Growth
  PROVE  HandlersOK'
<1>1. CASE UNCHANGED vars
  <2>1. \A r \in Request : HandlerOK(req'[r], top', marks')
    BY <1>1, OldHandlers DEF vars
  <2> QED BY <2>1 DEF HandlersOK
<1>2. CASE Restart
  <2>1. \A r \in Request : req'[r] = Blank
    BY <1>2 DEF Restart
  <2> QED BY <2>1, BlankOK DEF HandlersOK
<1>3. ASSUME NEW r \in Request, Respond(r) \/ Cancel(r)
      PROVE  HandlersOK'
  <2>1. /\ req'[r] = Blank
        /\ \A s \in Request \ {r} : req'[s] = req[s]
    BY <1>3 DEF Respond, Cancel, TypeOK
  <2> QED BY <2>1, BlankOK, OneMoves
<1> QED
  BY <1>1, <1>2, <1>3, CheckHandlers, InsertHandlers, PruneHandlers, PutHandlers,
     ReceiveHandlers, ReceiveBlobHandlers DEF Next, Serve

-----------------------------------------------------------------------------
(* What PruneCovered deletes.                                               *)

(* The statements that touch packets. *)
LEMMA PacketsMove ==
  ASSUME [Next]_vars
  PROVE  \/ packets' = packets
         \/ \E r \in Request :
              InsertPacket(r) \/ FlagSnapshot(r) \/ DeletePackets(r)
<1>1. ASSUME NEW r \in Request,
             Check(r) \/ Put(r) \/ Respond(r) \/ Cancel(r) \/ Restart
      PROVE  packets' = packets
  BY <1>1
     DEF Check, HasBlob, MissingBlob, PassOldOrGap, CheckNew, RefuseDisk, ReadMark,
         CheckStreams, RefuseStream, CoveredBytes, CheckQuota, Restart,
         Put, PutHas, RefusePutDisk, PutQuota, PutBlob, Respond, Cancel, tables
<1>2. ASSUME NEW r \in Request, Insert(r)
      PROVE  packets' = packets \/ InsertPacket(r) \/ FlagSnapshot(r)
  BY <1>2
     DEF Insert, InsertNothing, RaiseMark, ReadHeld, ReadGap, RecordBlob, tables
<1>3. ASSUME NEW r \in Request, Prune(r)
      PROVE  packets' = packets \/ DeletePackets(r)
  BY <1>3 DEF Prune, ReadCoveredMark, SkipUnknown, Reassert, CountSome, CountNone,
              DeleteRefs, CountGarbage, CollectBlobs, tables
<1>4. ASSUME NEW r \in Request,
             \/ \E u \in Uploads : Receive(r, u)
             \/ \E id \in Blob : ReceiveBlob(r, id)
      PROVE  packets' = packets
  BY <1>4 DEF Receive, ReceiveBlob, tables
<1>5. CASE UNCHANGED vars
  BY <1>5 DEF vars, tables
<1>6. CASE Restart
  BY <1>6 DEF Restart
<1> QED BY <1>1, <1>2, <1>3, <1>4, <1>5, <1>6 DEF Next, Serve

(* What DeletePackets may rely on, and what it leaves. *)
LEMMA DeletesCovered ==
  ASSUME TypeOK, HandlersOK, NEW r \in Request, DeletePackets(r)
  PROVE  LET h == req[r] IN
         /\ h.up \in Uploads /\ h.at \in Covered(h.up) /\ h.at \in Device
         /\ h.up.counter <= Mark(h.up.origin)
         /\ UpTo(h) \in Nat /\ Clip(h.up, h.at) \in Nat
         /\ UpTo(h) <= Clip(h.up, h.at) /\ UpTo(h) <= h.mark
         /\ h.mark \in Nat /\ h.mark <= top[h.at]
         /\ packets' = packets \ Below(packets, h.at, UpTo(h))
<1>1. req[r].pc = "delpackets"
      /\ packets' = packets \ Below(packets, req[r].at, UpTo(req[r]))
  BY DEF DeletePackets, Goto, Step
<1>2. req[r].up \in Uploads /\ req[r].up.origin \in Device
  BY <1>1, ServedType DEF UploadStages
<1>3. /\ req[r].at \in Covered(req[r].up) /\ req[r].at \in Device
      /\ req[r].mark <= top[req[r].at]
      /\ req[r].up.counter <= Mark(req[r].up.origin)
  BY <1>1, <1>2, HandlerFacts
     DEF HandlerOK, ReadsOwnStream, ReadsPrunedStream, AcceptedStages,
         DeviceStages, Covered, top
<1>4. UpTo(req[r]) \in Nat /\ UpTo(req[r]) <= Clip(req[r].up, req[r].at)
      /\ UpTo(req[r]) <= req[r].mark
  BY <1>2, <1>3, UpToBound, HandlerFacts
<1>5. Clip(req[r].up, req[r].at) \in Nat /\ req[r].mark \in Nat
  BY <1>2, <1>3, ClipType, HandlerFacts DEF Handler
<1> QED BY <1>1, <1>2, <1>3, <1>4, <1>5

(* Counter c of stream d is declared covered by an accepted snapshot. *)
CoverAccepted(d, c) ==
  \E u \in Uploads :
    d \in Covered(u) /\ Clip(u, d) >= c /\ u.counter <= Mark(u.origin)

LEMMA CoverStays ==
  ASSUME TypeOK, HasTop, Growth, NEW d, NEW c, CoverAccepted(d, c)
  PROVE  CoverAccepted(d, c)'
<1>1. PICK u \in Uploads :
        d \in Covered(u) /\ Clip(u, d) >= c /\ u.counter <= Mark(u.origin)
  BY DEF CoverAccepted
<1>2. u.origin \in Device /\ u.counter \in Nat
  BY UploadsAssumption DEF UploadType
<1>3. Mark(u.origin) \in Nat /\ Mark(u.origin)' \in Nat
      /\ Mark(u.origin)' >= Mark(u.origin)
  BY <1>2, MarkIsTop DEF Growth, top
<1>4. u.counter <= Mark(u.origin)'
  BY <1>1, <1>2, <1>3
<1> QED BY <1>1, <1>4 DEF CoverAccepted, Covered, Clip

(* Every step of the relay keeps the blast radius. *)
LEMMA PrunedStep ==
  ASSUME TypeOK, HasTop, HandlersOK, PrunedWasCovered, [Next]_vars,
         TypeOK', HasTop', Growth
  PROVE  PrunedWasCovered'
<1>d. PrunedWasCovered <=>
        \A d \in Device : \A c \in 1 .. Mark(d) :
          c \in Counters(d) \/ CoverAccepted(d, c)
  BY DEF PrunedWasCovered, CoverAccepted
<1>e. ASSUME \A d \in Device : \A c \in 1 .. Mark(d)' :
               c \in Counters(d)' \/ CoverAccepted(d, c)
      PROVE  PrunedWasCovered'
  <2>1. \A d \in Device : \A c \in 1 .. Mark(d)' :
          c \in Counters(d)' \/ CoverAccepted(d, c)'
    BY <1>e, CoverStays
  <2> QED BY <2>1 DEF PrunedWasCovered, CoverAccepted
<1>1. CASE TopsKept /\ \A d \in Device : Counters(d) \subseteq Counters(d)'
  BY <1>1, <1>d, <1>e DEF TopsKept
<1>2. ASSUME NEW r \in Request, InsertsNext(r)
      PROVE  PrunedWasCovered'
  <2> DEFINE u == req[r].up
             row == [origin |-> u.origin, counter |-> u.counter,
                     payload |-> u.payload, snap |-> u.snapshot]
  <2>1. req[r].pc = "insert" /\ Mark(u.origin) = u.counter - 1
        /\ packets' = packets \cup {row}
    BY <1>2 DEF InsertsNext, InsertPacket, Step
  <2>2. u.origin \in Device /\ u.counter \in Nat
    BY <2>1, ServedType DEF UploadStages
  <2>3. row.origin = u.origin /\ row.counter = u.counter
    OBVIOUS
  <2> HIDE DEF row
  <2>4. \A d \in Device :
          /\ Counters(d) \subseteq Counters(d)'
          /\ d = u.origin => u.counter \in Counters(d)'
    BY <2>1, <2>3 DEF Counters, Held
  <2>5. \A d \in Device : Mark(d)' = IF d = u.origin THEN u.counter ELSE Mark(d)
    BY <1>2, <2>1, <2>2 DEF InsertsNext
  <2>6. \A d \in Device : \A c \in 1 .. Mark(d)' :
          c \in 1 .. Mark(d) \/ c \in Counters(d)'
    BY <2>1, <2>2, <2>4, <2>5, MarkIsTop
  <2>7. \A d \in Device : \A c \in 1 .. Mark(d)' :
          c \in Counters(d)' \/ CoverAccepted(d, c)
    BY <1>d, <2>4, <2>6
  <2> QED BY <1>e, <2>7
<1>3. ASSUME NEW r \in Request, TopsKept, DeletePackets(r)
      PROVE  PrunedWasCovered'
  <2>1. /\ req[r].up \in Uploads /\ req[r].at \in Covered(req[r].up)
        /\ req[r].up.counter <= Mark(req[r].up.origin)
        /\ UpTo(req[r]) \in Nat /\ Clip(req[r].up, req[r].at) \in Nat
        /\ UpTo(req[r]) <= Clip(req[r].up, req[r].at)
        /\ packets' = packets \ Below(packets, req[r].at, UpTo(req[r]))
    BY <1>3, DeletesCovered
  <2>2. ASSUME NEW d \in Device, NEW c \in Counters(d), c \notin Counters(d)'
        PROVE  CoverAccepted(d, c)
    <3>1. PICK row \in Held(d) : row.counter = c
      BY <2>2 DEF Counters
    <3>2. row \in packets /\ row.origin = d /\ c \in Nat
      BY <3>1 DEF Held, TypeOK, PacketRow
    <3>3. row \notin packets'
      BY <2>2, <3>1, <3>2 DEF Counters, Held
    <3>4. d = req[r].at /\ c <= UpTo(req[r])
      BY <2>1, <3>1, <3>2, <3>3 DEF Below
    <3>5. c <= Clip(req[r].up, req[r].at)
      BY <2>1, <3>2, <3>4
    <3> QED BY <2>1, <3>2, <3>4, <3>5 DEF CoverAccepted
  <2> QED BY <1>3, <1>d, <1>e, <2>2 DEF TopsKept
<1>4. CASE packets' = packets /\ TopsKept
  BY <1>1, <1>4 DEF Counters, Held
<1>5. ASSUME NEW r \in Request, FlagSnapshot(r)
      PROVE  PrunedWasCovered'
  BY <1>1, <1>5, FlagKeepsTops
<1>6. ASSUME NEW r \in Request, InsertPacket(r), TopsKept
      PROVE  PrunedWasCovered'
  <2>1. packets \subseteq packets'
    BY <1>6 DEF InsertPacket
  <2> QED BY <1>1, <1>6, <2>1 DEF Counters, Held
<1> QED BY <1>2, <1>3, <1>4, <1>5, <1>6, TopStep, PacketsMove

-----------------------------------------------------------------------------
(* Theorems.                                                                *)

LEMMA InitIInv == Init => IInv
<1> SUFFICES ASSUME Init PROVE IInv
  OBVIOUS
<1>1. \A d \in Device : Counters(d) = {} /\ Tops(d) = {0} /\ marks[d] = 0
  BY DEF Init, Counters, Held, Tops
<1>2. HasTop
  BY <1>1 DEF HasTop
<1>3. TypeOK
  BY BlankType DEF Init, TypeOK
<1>4. \A d \in Device : Mark(d) = 0
  BY <1>1, <1>2, <1>3, MarkIsTop
<1>5. HandlersOK
  BY BlankOK DEF Init, HandlersOK
<1>6. PrunedWasCovered
  BY <1>4 DEF PrunedWasCovered
<1> QED BY <1>2, <1>3, <1>5, <1>6 DEF IInv

LEMMA IInvStep == IInv /\ [Next]_vars => IInv'
<1> SUFFICES ASSUME IInv, [Next]_vars PROVE IInv'
  OBVIOUS
<1>1. TypeOK'
  BY TypeStep DEF IInv
<1>2. HasTop' /\ Growth
  BY <1>1, StepGrows DEF IInv
<1>3. HandlersOK'
  BY <1>1, <1>2, HandlersStep DEF IInv
<1>4. PrunedWasCovered'
  BY <1>1, <1>2, PrunedStep DEF IInv
<1> QED BY <1>1, <1>2, <1>3, <1>4 DEF IInv

(* What every handler relies on holds whatever the others do: the inductive *)
(* invariant that the theorems below rest on.                               *)
THEOREM Invariance == Spec => []IInv
BY InitIInv, IInvStep, PTL DEF Spec

(* Rows, marks and the locals of handlers have their types: StreamMark is   *)
(* defined at every statement that asks for it, and no counter is negative. *)
THEOREM TypeCorrect == Spec => []TypeOK
<1>1. IInv => TypeOK
  BY DEF IInv
<1> QED BY <1>1, Invariance, PTL

(* What each handler knows at each of its statements, InsertPacket's verdict *)
(* and PruneCovered's persisted mark among it, stays true while others run.  *)
THEOREM HandlersCorrect == Spec => []HandlersOK
<1>1. IInv => HandlersOK
  BY DEF IInv
<1> QED BY <1>1, Invariance, PTL

(* PruneCovered deletes nothing but what an accepted snapshot declared       *)
(* covered, for any number of devices, requests, failures and restarts.      *)
THEOREM BlastRadius == Spec => []PrunedWasCovered
<1>1. IInv => PrunedWasCovered
  BY DEF IInv
<1> QED BY <1>1, Invariance, PTL

(* uploadPacket answers "Non-contiguous counter" only to an upload that was  *)
(* past the next counter when it arrived, although the INSERT and the        *)
(* StreamMark that tells a held slot from a gap are two statements.          *)
THEOREM GapsAreReal == Spec => []GapWasReal
<1>1. IInv => GapWasReal
  <2> SUFFICES ASSUME IInv, NEW r \in Request, req[r].pc = "gap"
               PROVE  req[r].up.counter > req[r].arrived + 1
    BY DEF GapWasReal
  <2>1. HandlerOK(req[r], top, marks)
    BY DEF IInv, HandlersOK
  <2> QED BY <2>1 DEF HandlerOK, ServesUpload, ReadsOwnStream, UploadStages
<1> QED BY <1>1, Invariance, PTL

(* checkPacketStorage refuses no upload of a slot that was held when the     *)
(* upload arrived, under any quota, stream limit and disk guard.             *)
THEOREM ResendsAreAdmitted == Spec => []ResendNeverRefused
<1>1. IInv => ResendNeverRefused
  <2> SUFFICES ASSUME IInv, NEW r \in Request, req[r].pc = "full",
                      req[r].up # None
               PROVE  req[r].up.counter > req[r].arrived
    BY DEF ResendNeverRefused
  <2>1. HandlerOK(req[r], top, marks) /\ req[r].up \in Uploads
    BY DEF IInv, HandlersOK, TypeOK, Handler
  <2> QED BY <2>1 DEF HandlerOK, ReadsOwnStream, NewStages
<1> QED BY <1>1, Invariance, PTL

(* An inserted packet is the mailbox's Append. *)
LEMMA InsertAppends ==
  ASSUME IInv, TypeOK', NEW r \in Request, InsertsNext(r)
  PROVE  Box!Next
<1> DEFINE u == req[r].up
           row == [origin |-> u.origin, counter |-> u.counter,
                   payload |-> u.payload, snap |-> u.snapshot]
<1>1. req[r].pc = "insert" /\ Mark(u.origin) = u.counter - 1
      /\ packets' = packets \cup {row}
  BY DEF InsertsNext, InsertPacket, Step
<1>2. u.origin \in Device /\ u.counter \in Nat /\ u.payload \in Payload
  BY <1>1, ServedType DEF UploadStages, IInv
<1>3. top[u.origin] + 1 = u.counter
  BY <1>1, <1>2, MarkIsTop DEF top, IInv
<1>4. top' = [top EXCEPT ![u.origin] = @ + 1]
  BY <1>2 DEF top, InsertsNext
<1>5. Row(row) = [origin |-> u.origin, counter |-> top[u.origin] + 1,
                  payload |-> u.payload]
  BY <1>3 DEF Row
<1> HIDE DEF row
<1>6. {Row(z) : z \in packets}' = {Row(z) : z \in packets} \cup {Row(row)}
  BY <1>1
<1>7. Box!Append(u.origin, u.payload)
  BY <1>4, <1>5, <1>6 DEF Box!Append
<1> QED BY <1>2, <1>7 DEF Box!Next

(* DeletePackets is the mailbox's Compact, or nothing if there is nothing    *)
(* below its bound.                                                          *)
LEMMA DeleteCompacts ==
  ASSUME IInv, NEW r \in Request, DeletePackets(r), TopsKept
  PROVE  [Box!Next]_(Box!mailbox)
<1> DEFINE d == req[r].at
           n == UpTo(req[r])
<1>1. /\ d \in Device /\ n \in Nat /\ n <= req[r].mark
      /\ req[r].mark \in Nat /\ req[r].mark <= top[d]
      /\ packets' = packets \ Below(packets, d, n)
  BY DeletesCovered DEF IInv
<1>2. top' = top
  BY DEF TopsKept, top
<1>3. top[d] \in Nat
  BY <1>1, MarkIsTop DEF top, IInv
<1>4. \A row \in packets : Row(row).origin = row.origin
                           /\ Row(row).counter = row.counter
                           /\ row.counter \in Nat \ {0}
  BY DEF Row, IInv, TypeOK, PacketRow
<1> HIDE DEF d, n
<1>5. {Row(row) : row \in packets}' =
        {row \in {Row(z) : z \in packets} : row.origin = d => row.counter > n}
  <2>1. \A row \in packets :
          row \in packets' <=> (row.origin = d => row.counter > n)
    BY <1>1, <1>4 DEF Below
  <2>2. packets' \subseteq packets
    BY <1>1
  <2> QED BY <1>4, <2>1, <2>2
<1>6. CASE n = 0
  <2>1. packets' = packets
    BY <1>1, <1>4, <1>6 DEF Below
  <2> QED BY <1>2, <2>1 DEF Box!mailbox
<1>7. CASE n # 0
  <2>1. n \in 1 .. top[d]
    BY <1>1, <1>3, <1>7
  <2>2. Box!Compact(d, n)
    BY <1>2, <1>5 DEF Box!Compact
  <2> QED BY <1>1, <2>1, <2>2 DEF Box!Next
<1> QED BY <1>6, <1>7

(* Raising a flag changes nothing the mailbox knows of. *)
LEMMA FlagStutters ==
  ASSUME IInv, NEW r \in Request, FlagSnapshot(r), TopsKept
  PROVE  UNCHANGED Box!mailbox
<1> DEFINE slot == {row \in Held(req[r].up.origin) :
                      row.counter = req[r].up.counter}
           flag(row) == [row EXCEPT !.snap = TRUE]
<1>1. packets' = (packets \ slot) \cup {flag(row) : row \in slot}
  BY DEF FlagSnapshot
<1>2. \A row \in packets : Row(flag(row)) = Row(row)
  BY DEF Row, IInv, TypeOK, PacketRow
<1>3. slot \subseteq packets
  BY DEF Held
<1> HIDE DEF slot, flag
<1>4. {Row(row) : row \in packets}' = {Row(row) : row \in packets}
  BY <1>1, <1>2, <1>3
<1>5. top' = top
  BY DEF TopsKept, top
<1> QED BY <1>4, <1>5 DEF Box!mailbox

(* Every step of the relay is a step of the mailbox or changes nothing of it. *)
LEMMA StepRefines == IInv /\ [Next]_vars /\ IInv' => [Box!Next]_(Box!mailbox)
<1> SUFFICES ASSUME IInv, [Next]_vars, IInv' PROVE [Box!Next]_(Box!mailbox)
  OBVIOUS
<1>1. TopsKept \/ \E r \in Request : InsertsNext(r)
  BY TopStep DEF IInv
<1>2. CASE \E r \in Request : InsertsNext(r)
  BY <1>2, InsertAppends DEF IInv
<1>3. CASE TopsKept
  <2>1. top' = top
    BY <1>3 DEF TopsKept, top
  <2>2. CASE packets' = packets
    BY <2>1, <2>2 DEF Box!mailbox
  <2>3. ASSUME NEW r \in Request, InsertPacket(r)
        PROVE  [Box!Next]_(Box!mailbox)
    BY <1>2, <2>3, InsertMoves DEF IInv
  <2> QED BY <1>3, <2>2, <2>3, PacketsMove, DeleteCompacts, FlagStutters
<1> QED BY <1>1, <1>2, <1>3

(* The store implements the mailbox.  So a slot is filled once, in order, by *)
(* one packet whose bytes never change; only prefixes of streams go, and     *)
(* their counters are never issued again.                                    *)
THEOREM Refinement == Spec => MailboxSpec
<1>1. Init => Box!Init
  <2> SUFFICES ASSUME Init PROVE Box!Init
    OBVIOUS
  <2>1. \A d \in Device : Tops(d) = {0}
    BY DEF Init, Tops, Counters, Held
  <2>2. \A d \in Device : Mark(d) = 0
    BY <2>1, InitIInv, MarkIsTop DEF IInv
  <2>3. {Row(row) : row \in packets} = {}
    BY DEF Init
  <2> QED BY <2>2, <2>3 DEF Box!Init, top
<1>2. IInv /\ [Next]_vars /\ IInv' => [Box!Next]_(Box!mailbox)
  BY StepRefines
<1> QED BY <1>1, <1>2, Invariance, PTL DEF Spec, MailboxSpec, Box!Spec

(* So the mailbox's own theorem holds of the store: a slot identifies one    *)
(* packet of the packets table, and what is held of a stream is its unbroken *)
(* tail, which is what a pull by vector relies on.                           *)
Safe == INSTANCE MailboxProofs WITH
  top <- top, rows <- {Row(row) : row \in packets}

THEOREM SlotsAndTails == Spec => [](OnePacketPerSlot /\ TailUnbroken)
<1>1. Box!Init => Safe!Init
  BY DEF Box!Init, Safe!Init
<1>2. [Box!Next]_(Box!mailbox) => [Safe!Next]_(Safe!mailbox)
  BY DEF Box!Next, Safe!Next, Box!Append, Safe!Append, Box!Compact, Safe!Compact,
         Box!mailbox, Safe!mailbox
<1>3. Safe!Spec => []Safe!MailboxInv
  BY Safe!MailboxSafe
<1>4. Safe!MailboxInv => OnePacketPerSlot /\ TailUnbroken
  BY DEF Safe!MailboxInv, Safe!OnePacketPerSlot, Safe!NoHoles,
         OnePacketPerSlot, TailUnbroken, Box!OnePacketPerSlot, Box!NoHoles
<1> QED
  BY <1>1, <1>2, <1>3, <1>4, Refinement, PTL DEF MailboxSpec, Box!Spec, Safe!Spec

(* What a prune leaves of a stream has no hole, wherever it was cut off.     *)
THEOREM TailsUnbroken == Spec => []TailUnbroken
BY SlotsAndTails, PTL

-----------------------------------------------------------------------------
(* What an acknowledged packet is owed: its references and its flag.        *)
(*                                                                          *)
(* A slot that was filled is never filled again, so what a handler has seen *)
(* done to the row in it, the references recorded and the flag set, stays   *)
(* done for as long as the row is there.                                    *)

(* Stages before InsertPacket has inserted anything. *)
Unstored ==
  {"hasblob", "checkmark", "streams", "covered", "quota", "insert", "held"}

(* Stages past recordPacketBlobs, and those past flagSnapshot as well. *)
Recorded ==
  {"flag", "prune", "reassert", "count", "delpackets", "delrefs", "garbage",
   "collect", "ack"}
Flagged == Recorded \ {"flag"}

(* The parts below speak of a handler h, the rows of packets and the rows   *)
(* of packet_blobs, its links.                                              *)

SlotRows(u, rows) ==
  {row \in rows : row.origin = u.origin /\ row.counter = u.counter}

Link(u, id) == [origin |-> u.origin, counter |-> u.counter, blob |-> id]

(* inserted, InsertPacket's local, tells which branch it is in. *)
StoredOK(h) ==
  /\ h.pc \in Unstored => ~h.stored
  /\ h.pc = "raise" => h.stored

(* The row of the upload's slot, if it is there, has the references that    *)
(* the loop of recordPacketBlobs is past.                                   *)
LinksOK(h, rows, links) ==
  SlotRows(h.up, rows) # {} =>
    \A id \in h.up.blobs :
      /\ h.pc \in Recorded => Link(h.up, id) \in links
      /\ h.pc = "record" => id \in h.todo \/ Link(h.up, id) \in links

(* The row of a snapshot's slot has the flag, from the insert on or from    *)
(* flagSnapshot on.                                                         *)
FlagOK(h, rows) ==
  (/\ h.up.snapshot
   /\ h.pc \in Flagged \/ (h.pc \in {"raise", "record"} /\ h.stored)) =>
    \A row \in SlotRows(h.up, rows) : row.snap

(* Between the two DELETEs of PruneCovered no packet is left below. *)
CleanOK(h, rows) ==
  h.pc = "delrefs" =>
    \A row \in rows : row.origin = h.at => row.counter > UpTo(h)

AckOK(h, rows, links) ==
  /\ StoredOK(h)
  /\ h.up \in Uploads => LinksOK(h, rows, links) /\ FlagOK(h, rows)
  /\ CleanOK(h, rows)

AckInv == \A r \in Request : AckOK(req[r], packets, refs)

-----------------------------------------------------------------------------
(* What stays done.                                                         *)

(* A row that is there of a slot filled before was there before, with its   *)
(* flag; and a link goes only when its row is gone.                         *)
RowsStay(rows, rows2, t) ==
  \A new \in rows2 : new.counter <= t[new.origin] =>
    \E row \in rows : /\ row.origin = new.origin /\ row.counter = new.counter
                      /\ row.snap => new.snap

LinksStay(links, links2, rows2) ==
  \A link \in links \ links2 : \A row \in rows2 :
    ~(row.origin = link.origin /\ row.counter = link.counter)

LEMMA OtherStays ==
  ASSUME NEW h \in Handler, NEW t, NEW m, HandlerOK(h, t, m),
         t \in [Device -> Nat],
         NEW rows, NEW rows2, rows2 \subseteq PacketRow, NEW links, NEW links2,
         RowsStay(rows, rows2, t), LinksStay(links, links2, rows2),
         AckOK(h, rows, links)
  PROVE  AckOK(h, rows2, links2)
<1>1. ASSUME h.up \in Uploads, h.pc \in AcceptedStages,
             NEW new \in SlotRows(h.up, rows2)
      PROVE  \E row \in SlotRows(h.up, rows) : row.snap => new.snap
  <2>1. h.up.counter <= t[h.up.origin]
    BY <1>1 DEF HandlerOK, ReadsOwnStream
  <2>2. new.counter <= t[new.origin]
    BY <2>1, <1>1 DEF SlotRows
  <2> QED
    BY <1>1, <2>2 DEF RowsStay, SlotRows
<1>2. ASSUME h.up \in Uploads
      PROVE  FlagOK(h, rows2)
  <2> SUFFICES ASSUME h.up.snapshot,
                      h.pc \in Flagged \/ (h.pc \in {"raise", "record"} /\ h.stored),
                      NEW new \in SlotRows(h.up, rows2)
               PROVE  new.snap
    BY DEF FlagOK
  <2>1. h.pc \in AcceptedStages
    BY DEF Flagged, Recorded, AcceptedStages
  <2>2. PICK row \in SlotRows(h.up, rows) : row.snap => new.snap
    BY <1>1, <1>2, <2>1
  <2> QED
    BY <1>2, <2>2 DEF AckOK, FlagOK
<1>3. ASSUME h.up \in Uploads
      PROVE  LinksOK(h, rows2, links2)
  <2> SUFFICES ASSUME NEW new \in SlotRows(h.up, rows2), NEW id \in h.up.blobs,
                      h.pc \in Recorded \cup {"record"}
               PROVE  /\ h.pc \in Recorded => Link(h.up, id) \in links2
                      /\ h.pc = "record" =>
                           id \in h.todo \/ Link(h.up, id) \in links2
    BY DEF LinksOK
  <2>1. h.pc \in AcceptedStages
    BY DEF Recorded, AcceptedStages
  <2>2. SlotRows(h.up, rows) # {}
    BY <1>1, <1>3, <2>1
  <2>3. /\ h.pc \in Recorded => Link(h.up, id) \in links
        /\ h.pc = "record" => id \in h.todo \/ Link(h.up, id) \in links
    BY <1>3, <2>2 DEF AckOK, LinksOK
  <2>4. Link(h.up, id) \in links => Link(h.up, id) \in links2
    BY DEF LinksStay, SlotRows, Link
  <2> QED
    BY <2>3, <2>4
<1>4. CleanOK(h, rows2)
  <2> SUFFICES ASSUME h.pc = "delrefs", NEW new \in rows2, new.origin = h.at
               PROVE  new.counter > UpTo(h)
    BY DEF CleanOK
  <2>1. h.up \in Uploads /\ h.at \in Device /\ h.mark <= t[h.at]
    BY DEF HandlerOK, ServesUpload, ReadsPrunedStream, UploadStages, DeviceStages,
           Covered
  <2>2. UpTo(h) \in Nat /\ UpTo(h) <= h.mark /\ h.mark \in Nat
    BY <2>1, UpToBound DEF Handler
  <2>3. t[h.at] \in Nat /\ new.counter \in Nat
    BY <2>1 DEF PacketRow
  <2>4. ASSUME new.counter <= UpTo(h)
        PROVE  FALSE
    <3>1. new.counter <= t[new.origin]
      BY <2>1, <2>2, <2>3, <2>4
    <3>2. PICK row \in rows : row.origin = h.at /\ row.counter = new.counter
      BY <3>1 DEF RowsStay
    <3>3. row.counter > UpTo(h)
      BY <3>2 DEF AckOK, CleanOK
    <3> QED
      BY <2>2, <2>3, <2>4, <3>2, <3>3
  <2> QED
    BY <2>2, <2>3, <2>4
<1> QED
  BY <1>2, <1>3, <1>4 DEF AckOK

(* The statements that touch packet_blobs. *)
LEMMA RefsMove ==
  ASSUME [Next]_vars
  PROVE  \/ refs' = refs
         \/ \E r \in Request : RecordBlob(r)
         \/ \E r \in Request : DeleteRefs(r)
<1>1. ASSUME NEW r \in Request, Check(r) \/ Put(r) \/ Respond(r) \/ Cancel(r)
      PROVE  refs' = refs
  BY <1>1
     DEF Check, HasBlob, MissingBlob, PassOldOrGap, CheckNew, RefuseDisk, ReadMark,
         CheckStreams, RefuseStream, CoveredBytes, CheckQuota,
         Put, PutHas, RefusePutDisk, PutQuota, PutBlob, Respond, Cancel, tables
<1>2. ASSUME NEW r \in Request, Insert(r)
      PROVE  refs' = refs \/ RecordBlob(r)
  BY <1>2
     DEF Insert, InsertPacket, InsertNothing, RaiseMark, ReadHeld, ReadGap,
         FlagSnapshot, tables
<1>3. ASSUME NEW r \in Request, Prune(r)
      PROVE  refs' = refs \/ DeleteRefs(r)
  BY <1>3 DEF Prune, ReadCoveredMark, SkipUnknown, Reassert, CountSome, CountNone,
              DeletePackets, CountGarbage, CollectBlobs, tables
<1>4. ASSUME NEW r \in Request,
             \/ \E u \in Uploads : Receive(r, u)
             \/ \E id \in Blob : ReceiveBlob(r, id)
      PROVE  refs' = refs
  BY <1>4 DEF Receive, ReceiveBlob, tables
<1>5. CASE UNCHANGED vars
  BY <1>5 DEF vars, tables
<1>6. CASE Restart
  BY <1>6 DEF Restart
<1> QED
  BY <1>1, <1>2, <1>3, <1>4, <1>5, <1>6 DEF Next, Serve

(* The row an insert adds is above the top of its stream, so no slot that   *)
(* was filled gets another row.                                             *)
LEMMA RowsMove ==
  ASSUME IInv, [Next]_vars
  PROVE  RowsStay(packets, packets', top)
<1>1. CASE packets' \subseteq packets
  BY <1>1 DEF RowsStay
<1>2. ASSUME NEW r \in Request, InsertPacket(r)
      PROVE  RowsStay(packets, packets', top)
  <2> DEFINE u == req[r].up
             row == [origin |-> u.origin, counter |-> u.counter,
                     payload |-> u.payload, snap |-> u.snapshot]
  <2>1. /\ req[r].pc = "insert" /\ Mark(u.origin) = u.counter - 1
        /\ packets' = packets \cup {row}
    BY <1>2 DEF InsertPacket, Step
  <2>2. u.origin \in Device /\ u.counter \in Nat
    BY <2>1, ServedType DEF UploadStages, IInv
  <2>3. row.origin = u.origin /\ row.counter = u.counter
    OBVIOUS
  <2>4. ~(row.counter <= top[row.origin])
    BY <2>1, <2>2, <2>3, MarkIsTop DEF top, IInv
  <2> HIDE DEF row
  <2> QED BY <2>1, <2>4 DEF RowsStay
<1>3. ASSUME NEW r \in Request, FlagSnapshot(r)
      PROVE  RowsStay(packets, packets', top)
  <2> DEFINE u == req[r].up
             slot == {row \in Held(u.origin) : row.counter = u.counter}
             flag(row) == [row EXCEPT !.snap = TRUE]
  <2>1. packets' = (packets \ slot) \cup {flag(row) : row \in slot}
    BY <1>3 DEF FlagSnapshot
  <2>2. \A row \in packets : /\ flag(row).origin = row.origin
                             /\ flag(row).counter = row.counter
                             /\ flag(row).snap
    BY DEF IInv, TypeOK, PacketRow
  <2>3. slot \subseteq packets
    BY DEF Held
  <2> HIDE DEF slot, flag
  <2> QED BY <2>1, <2>2, <2>3 DEF RowsStay
<1>4. ASSUME NEW r \in Request, DeletePackets(r)
      PROVE  packets' \subseteq packets
  BY <1>4 DEF DeletePackets
<1> QED BY <1>1, <1>2, <1>3, <1>4, PacketsMove

(* What a handler at the second DELETE of PruneCovered knows. *)
LEMMA CleanBelow ==
  ASSUME IInv, AckInv, NEW r \in Request, req[r].pc = "delrefs"
  PROVE  \A row \in packets :
           row.origin = req[r].at => ~(row.counter <= UpTo(req[r]))
<1>1. req[r].up \in Uploads /\ req[r].at \in Device /\ req[r] \in Handler
  BY HandlerFacts
     DEF IInv, HandlerOK, ServesUpload, ReadsPrunedStream, UploadStages,
         DeviceStages, Covered
<1>2. UpTo(req[r]) \in Nat
  BY <1>1, UpToBound
<1>3. \A row \in packets : row.counter \in Nat
  BY DEF IInv, TypeOK, PacketRow
<1> QED BY <1>2, <1>3 DEF AckInv, AckOK, CleanOK

(* The second DELETE takes only links whose packet is gone. *)
LEMMA LinksMove ==
  ASSUME IInv, AckInv, [Next]_vars
  PROVE  LinksStay(refs, refs', packets')
<1>1. CASE refs \subseteq refs'
  BY <1>1 DEF LinksStay
<1>2. ASSUME NEW r \in Request, DeleteRefs(r)
      PROVE  LinksStay(refs, refs', packets')
  <2>1. /\ req[r].pc = "delrefs" /\ packets' = packets
        /\ refs' = refs \ Below(refs, req[r].at, UpTo(req[r]))
    BY <1>2 DEF DeleteRefs, NextDevice, Step
  <2> QED BY <2>1, CleanBelow DEF LinksStay, Below
<1>3. ASSUME NEW r \in Request, RecordBlob(r)
      PROVE  refs \subseteq refs'
  BY <1>3 DEF RecordBlob
<1> QED BY <1>1, <1>2, <1>3, RefsMove

-----------------------------------------------------------------------------
(* The handler that moves.                                                  *)

(* The tables a step leaves, seen by a handler that did not take it. *)
LEMMA OldAck ==
  ASSUME IInv, AckInv, [Next]_vars, IInv', NEW r \in Request
  PROVE  AckOK(req[r], packets', refs')
<1>1. req[r] \in Handler /\ HandlerOK(req[r], top, marks)
  BY HandlerFacts DEF IInv
<1>2. top \in [Device -> Nat]
  BY MarkIsTop DEF top, IInv
<1>3. packets' \subseteq PacketRow
  BY DEF IInv, TypeOK
<1>4. AckOK(req[r], packets, refs)
  BY DEF AckInv
<1> QED BY <1>1, <1>2, <1>3, <1>4, RowsMove, LinksMove, OtherStays

(* One handler moves: it is enough to look at that one. *)
LEMMA OneAckMoves ==
  ASSUME IInv, AckInv, [Next]_vars, IInv', NEW r \in Request,
         \A s \in Request \ {r} : req'[s] = req[s],
         AckOK(req'[r], packets', refs')
  PROVE  AckInv'
<1>1. \A s \in Request : AckOK(req'[s], packets', refs')
  BY OldAck
<1> QED BY <1>1 DEF AckInv

(* A move that claims nothing new. *)
LEMMA PlainAck ==
  ASSUME NEW h, NEW h2, NEW rows, NEW links, AckOK(h, rows, links),
         h2.up = h.up, h2.stored = h.stored,
         h2.pc \notin {"raise", "record", "delrefs"},
         h2.pc \in Unstored => h.pc \in Unstored,
         h2.pc \in Recorded => h.pc \in Recorded,
         h2.pc \in Flagged => h.pc \in Flagged
  PROVE  AckOK(h2, rows, links)
<1>1. StoredOK(h2) /\ CleanOK(h2, rows)
  BY DEF AckOK, StoredOK, CleanOK
<1>2. ASSUME h2.up \in Uploads
      PROVE  LinksOK(h2, rows, links) /\ FlagOK(h2, rows)
  BY <1>2 DEF AckOK, LinksOK, FlagOK
<1> QED BY <1>1, <1>2 DEF AckOK

(* A handler that serves no upload claims nothing. *)
LEMMA NoUploadAck ==
  ASSUME NEW h, NEW rows, NEW links, h.up = None,
         h.pc \notin Unstored \cup {"raise", "delrefs"}
  PROVE  AckOK(h, rows, links)
BY NoneAssumption DEF AckOK, StoredOK, CleanOK

LEMMA BlankAck ==
  ASSUME NEW rows, NEW links
  PROVE  AckOK(Blank, rows, links)
<1>1. Blank.up = None /\ Blank.pc = "idle"
  BY DEF Blank
<1> QED BY <1>1, NoUploadAck DEF Unstored

(* One handler makes such a move; the others stay as they are. *)
LEMMA PlainAckStep ==
  ASSUME IInv, AckInv, [Next]_vars, IInv', NEW r \in Request, NEW from, NEW h2,
         Step(r, from, h2), h2.up = req[r].up, h2.stored = req[r].stored,
         h2.pc \notin {"raise", "record", "delrefs"},
         h2.pc \in Unstored => from \in Unstored,
         h2.pc \in Recorded => from \in Recorded,
         h2.pc \in Flagged => from \in Flagged
  PROVE  AckInv'
<1>1. /\ req[r].pc = from /\ req'[r] = h2
      /\ \A s \in Request \ {r} : req'[s] = req[s]
  BY StepMoves DEF IInv
<1>2. AckOK(h2, packets', refs')
  BY <1>1, OldAck, PlainAck
<1> QED BY <1>1, <1>2, OneAckMoves

LEMMA GotoKeeps ==
  ASSUME IInv, NEW r \in Request, NEW from, NEW to, Goto(r, from, to)
  PROVE  /\ req[r].pc = from
         /\ req'[r].pc = to /\ req'[r].up = req[r].up
         /\ req'[r].todo = req[r].todo /\ req'[r].stored = req[r].stored
         /\ req'[r].at = req[r].at /\ req'[r].mark = req[r].mark
         /\ \A s \in Request \ {r} : req'[s] = req[s]
<1>1. /\ req[r].pc = from /\ req'[r] = [req[r] EXCEPT !.pc = to]
      /\ \A s \in Request \ {r} : req'[s] = req[s]
  BY StepMoves DEF Goto, IInv
<1> QED BY <1>1, HandlerFacts DEF Handler, IInv

LEMMA PlainAckGoto ==
  ASSUME IInv, AckInv, [Next]_vars, IInv', NEW r \in Request, NEW from, NEW to,
         Goto(r, from, to), to \notin {"raise", "record", "delrefs"},
         to \in Unstored => from \in Unstored,
         to \in Recorded => from \in Recorded,
         to \in Flagged => from \in Flagged
  PROVE  AckInv'
<1>1. /\ req[r].pc = from /\ req'[r].pc = to /\ req'[r].up = req[r].up
      /\ req'[r].stored = req[r].stored
      /\ \A s \in Request \ {r} : req'[s] = req[s]
  BY GotoKeeps
<1>2. AckOK(req'[r], packets', refs')
  BY <1>1, OldAck, PlainAck
<1> QED BY <1>1, <1>2, OneAckMoves

(* The checks before the insert end in the insert or in a refusal. *)
LEMMA CheckAck ==
  ASSUME IInv, AckInv, [Next]_vars, IInv', NEW r \in Request, Check(r)
  PROVE  AckInv'
<1> DEFINE u == req[r].up
<1>h. req[r] \in Handler
  BY HandlerFacts DEF IInv
<1>t. ToQuota(u) \in {"insert", "covered", "quota"}
      /\ ToStreams(u) \in {"streams", "insert", "covered", "quota"}
      /\ \A rows : ToCredited(u, rows) \in {"quota", "insert"}
  BY DEF ToQuota, ToStreams, ToCredited
<1>m. ASSUME NEW to \in {"streams", "insert", "covered", "quota", "full"},
             ReadMark(r, to)
      PROVE  AckInv'
  <2> DEFINE h2 == [req[r] EXCEPT !.pc = to, !.mark = Mark(u.origin)]
  <2>1. Step(r, "checkmark", h2)
    BY <1>m DEF ReadMark
  <2>2. h2.pc = to /\ h2.up = u /\ h2.stored = req[r].stored
    BY <1>h DEF Handler
  <2> HIDE DEF h2
  <2> QED BY <2>1, <2>2, PlainAckStep DEF Unstored, Recorded, Flagged
<1>1. CASE HasBlob(r)
  <2> DEFINE to(id) == IF req[r].todo = {id} THEN "checkmark" ELSE "hasblob"
             left(id) == req[r].todo \ {id}
             h2(id) == [req[r] EXCEPT !.todo = left(id), !.pc = to(id)]
  <2>1. PICK id \in req[r].todo : Step(r, "hasblob", h2(id))
    BY <1>1 DEF HasBlob
  <2>2. h2(id).pc = to(id) /\ h2(id).up = u /\ h2(id).stored = req[r].stored
    <3> HIDE DEF to, left
    <3> QED BY <1>h DEF Handler
  <2>3. to(id) \in {"checkmark", "hasblob"}
    OBVIOUS
  <2> HIDE DEF h2, to
  <2> QED BY <2>1, <2>2, <2>3, PlainAckStep DEF Unstored, Recorded, Flagged
<1>2. CASE MissingBlob(r)
  BY <1>2, PlainAckGoto DEF MissingBlob, Unstored, Recorded, Flagged
<1>3. CASE PassOldOrGap(r) \/ CheckNew(r) \/ RefuseDisk(r)
  BY <1>3, <1>m, <1>t DEF PassOldOrGap, CheckNew, RefuseDisk
<1>4. CASE CheckStreams(r) \/ RefuseStream(r) \/ CheckQuota(r)
  <2>1. PICK from \in {"streams", "quota"},
             to \in {"insert", "covered", "quota", "full"} : Goto(r, from, to)
    BY <1>4, <1>t DEF CheckStreams, RefuseStream, CheckQuota
  <2> QED BY <2>1, PlainAckGoto DEF Unstored, Recorded, Flagged
<1>5. CASE CoveredBytes(r)
  <2> DEFINE rows(d) == req[r].freed \cup Below(packets, d, Clip(u, d))
             to(d) == IF req[r].devs = {d} THEN ToCredited(u, rows(d))
                                           ELSE "covered"
             left(d) == IF req[r].devs = {d} THEN Covered(u)
                                             ELSE req[r].devs \ {d}
             h2(d) == [req[r] EXCEPT !.pc = to(d), !.freed = rows(d),
                                     !.devs = left(d)]
  <2>1. PICK d \in req[r].devs : Step(r, "covered", h2(d))
    BY <1>5 DEF CoveredBytes
  <2>2. h2(d).pc = to(d) /\ h2(d).up = u /\ h2(d).stored = req[r].stored
    <3> HIDE DEF to, left, rows
    <3> QED BY <1>h DEF Handler
  <2>3. to(d) \in {"quota", "insert", "covered"}
    BY <1>t
  <2> HIDE DEF h2, to
  <2> QED BY <2>1, <2>2, <2>3, PlainAckStep DEF Unstored, Recorded, Flagged
<1> QED BY <1>1, <1>2, <1>3, <1>4, <1>5 DEF Check

(* A new request has claimed nothing, and a blob PUT never does. *)
LEMMA ReceiveAck ==
  ASSUME IInv, AckInv, [Next]_vars, IInv', NEW r \in Request,
         \/ \E u \in Uploads : Receive(r, u)
         \/ \E id \in Blob : ReceiveBlob(r, id)
  PROVE  AckInv'
<1>1. ASSUME NEW u \in Uploads, Receive(r, u)
      PROVE  AckInv'
  <2> DEFINE to == IF u.blobs # {} THEN "hasblob" ELSE "checkmark"
             h2 == [Blank EXCEPT !.pc = to, !.up = u, !.todo = u.blobs,
                      !.devs = Covered(u), !.arrived = Mark(u.origin)]
  <2>1. Step(r, "idle", h2)
    BY <1>1 DEF Receive
  <2>2. h2.pc = to /\ h2.stored = FALSE
    <3> HIDE DEF to
    <3> QED BY DEF Blank
  <2>3. to \in {"hasblob", "checkmark"}
    OBVIOUS
  <2> HIDE DEF h2, to
  <2>4. AckOK(h2, packets', refs')
    BY <2>2, <2>3 DEF AckOK, StoredOK, LinksOK, FlagOK, CleanOK, Recorded, Flagged
  <2> QED BY <2>1, <2>4, StepMoves, OneAckMoves DEF IInv
<1>2. ASSUME NEW id \in Blob, ReceiveBlob(r, id)
      PROVE  AckInv'
  <2> DEFINE to == IF MinFreeDiskBytes = 0 /\ UserQuotaBytes = 0
                   THEN "put" ELSE "puthas"
             h2 == [Blank EXCEPT !.pc = to, !.todo = {id}]
  <2>1. Step(r, "idle", h2)
    BY <1>2 DEF ReceiveBlob
  <2>2. h2.pc = to /\ h2.up = None
    <3> HIDE DEF to
    <3> QED BY DEF Blank
  <2>3. to \in {"put", "puthas"}
    OBVIOUS
  <2> HIDE DEF h2, to
  <2>4. AckOK(h2, packets', refs')
    BY <2>2, <2>3, NoUploadAck DEF Unstored
  <2> QED BY <2>1, <2>4, StepMoves, OneAckMoves DEF IInv
<1> QED BY <1>1, <1>2

LEMMA PutAck ==
  ASSUME IInv, AckInv, [Next]_vars, IInv', NEW r \in Request, Put(r)
  PROVE  AckInv'
<1>1. PICK from \in PutStages, to \in {"put", "putquota", "full", "ack"} :
        Goto(r, from, to)
  BY DEF Put, PutHas, RefusePutDisk, PutQuota, PutBlob, PutStages
<1>2. /\ req[r].pc = from /\ req'[r].pc = to /\ req'[r].up = req[r].up
      /\ \A s \in Request \ {r} : req'[s] = req[s]
  BY <1>1, GotoKeeps
<1>3. req[r].up = None
  BY <1>2, HandlerFacts DEF IInv, HandlerOK, ServesUpload
<1>4. AckOK(req'[r], packets', refs')
  BY <1>2, <1>3, NoUploadAck DEF Unstored
<1> QED BY <1>2, <1>4, OneAckMoves

(* PruneCovered leaves what was recorded before it alone, and between its   *)
(* two DELETEs nothing is left below its bound.                             *)
LEMMA PruneAck ==
  ASSUME IInv, AckInv, [Next]_vars, IInv', NEW r \in Request, Prune(r)
  PROVE  AckInv'
<1>h. req[r] \in Handler
  BY HandlerFacts DEF IInv
<1>n. ASSUME NEW from \in {"prune", "count", "delrefs"}, NEW d, NEW p,
             NextDevice(r, from, d, p)
      PROVE  AckInv'
  <2> DEFINE left == req[r].devs \ {d}
             to == IF left # {} THEN "prune" ELSE IF p THEN "garbage" ELSE "ack"
             h2 == [req[r] EXCEPT !.pc = to, !.devs = left, !.at = None,
                                  !.mark = 0, !.pruned = p]
  <2>1. Step(r, from, h2)
    BY <1>n DEF NextDevice
  <2>2. h2.pc = to /\ h2.up = req[r].up /\ h2.stored = req[r].stored
    <3> HIDE DEF to, left
    <3> QED BY <1>h DEF Handler
  <2>3. to \in {"prune", "garbage", "ack"}
    OBVIOUS
  <2> HIDE DEF h2, to
  <2> QED BY <2>1, <2>2, <2>3, PlainAckStep DEF Unstored, Recorded, Flagged
<1>1. CASE ReadCoveredMark(r)
  <2> DEFINE h2(d) == [req[r] EXCEPT !.pc = "reassert", !.at = d,
                                     !.mark = Mark(d)]
  <2>1. PICK d \in req[r].devs : Step(r, "prune", h2(d))
    BY <1>1 DEF ReadCoveredMark
  <2>2. /\ h2(d).pc = "reassert" /\ h2(d).up = req[r].up
        /\ h2(d).stored = req[r].stored
    BY <1>h DEF Handler
  <2> HIDE DEF h2
  <2> QED BY <2>1, <2>2, PlainAckStep DEF Unstored, Recorded, Flagged
<1>2. CASE SkipUnknown(r) \/ CountNone(r) \/ DeleteRefs(r)
  BY <1>2, <1>n DEF SkipUnknown, CountNone, DeleteRefs
<1>3. CASE Reassert(r) \/ CountSome(r) \/ CountGarbage(r) \/ CollectBlobs(r)
  <2>1. PICK from \in {"reassert", "count", "garbage", "collect"},
             to \in {"count", "delpackets", "ack", "collect"} : Goto(r, from, to)
    BY <1>3 DEF Reassert, CountSome, CountGarbage, CollectBlobs
  <2> QED BY <2>1, PlainAckGoto DEF Unstored, Recorded, Flagged
<1>4. CASE DeletePackets(r)
  <2> DEFINE h == req[r]
             h2 == req'[r]
  <2>1. /\ h.pc = "delpackets" /\ h2.pc = "delrefs" /\ h2.up = h.up
        /\ h2.at = h.at /\ h2.mark = h.mark /\ h2.stored = h.stored
        /\ \A s \in Request \ {r} : req'[s] = req[s]
    BY <1>4, GotoKeeps DEF DeletePackets
  <2>2. /\ UpTo(h) \in Nat
        /\ packets' = packets \ Below(packets, h.at, UpTo(h))
    BY <1>4, DeletesCovered DEF IInv
  <2>3. UpTo(h2) = UpTo(h)
    BY <2>1 DEF UpTo
  <2>4. \A row \in packets' : row.counter \in Nat
    BY DEF IInv, TypeOK, PacketRow
  <2>5. AckOK(h, packets', refs')
    BY OldAck
  <2> HIDE DEF h, h2
  <2>6. CleanOK(h2, packets')
    BY <2>1, <2>2, <2>3, <2>4 DEF CleanOK, Below
  <2>7. StoredOK(h2)
    BY <2>1 DEF StoredOK, Unstored
  <2>8. ASSUME h2.up \in Uploads
        PROVE  LinksOK(h2, packets', refs') /\ FlagOK(h2, packets')
    BY <2>1, <2>5, <2>8 DEF AckOK, LinksOK, FlagOK, Recorded, Flagged
  <2>9. AckOK(h2, packets', refs')
    BY <2>6, <2>7, <2>8 DEF AckOK
  <2> QED BY <2>1, <2>9, OneAckMoves DEF h, h2
<1> QED BY <1>1, <1>2, <1>3, <1>4 DEF Prune

(* What follows recordPacketBlobs: an upload that inserted no row goes on   *)
(* past flagSnapshot only if it is not a snapshot.                          *)
LEMMA AfterRecord ==
  ASSUME NEW u, NEW inserted
  PROVE  /\ ToFlag(u, inserted) \in {"flag", "prune", "ack"}
         /\ ToFlag(u, inserted) \in Flagged /\ u.snapshot => inserted
         /\ u.blobs # {} => ToRecord(u, inserted) = "record"
         /\ u.blobs = {} => ToRecord(u, inserted) = ToFlag(u, inserted)
BY DEF ToPrune, ToFlag, ToRecord, Flagged, Recorded

(* The insert fills a slot that had no row, and from then on nothing takes  *)
(* back what is recorded for it.                                            *)
LEMMA InsertAck ==
  ASSUME IInv, AckInv, [Next]_vars, IInv', NEW r \in Request, Insert(r)
  PROVE  AckInv'
<1> DEFINE u == req[r].up
<1>h. req[r] \in Handler /\ AckOK(req[r], packets', refs')
  BY HandlerFacts, OldAck DEF IInv
<1>r. ASSUME NEW from \in {"raise", "held"}, NEW inserted \in BOOLEAN,
             Record(r, from, inserted), inserted <=> from = "raise"
      PROVE  AckInv'
  <2> DEFINE to == ToRecord(u, inserted)
             h2 == [req[r] EXCEPT !.pc = to, !.todo = u.blobs, !.mark = 0]
  <2>1. Step(r, from, h2) /\ req[r].pc = from
    BY <1>r DEF Record, Step
  <2>2. /\ h2.pc = to /\ h2.up = u /\ h2.todo = u.blobs
        /\ h2.stored = req[r].stored
    <3> HIDE DEF to
    <3> QED BY <1>h DEF Handler
  <2>3. req[r].stored <=> inserted
    BY <1>h, <1>r, <2>1 DEF AckOK, StoredOK, Unstored
  <2>4. /\ to \in {"record", "flag", "prune", "ack"}
        /\ u.blobs # {} => to = "record"
        /\ to \in Flagged /\ u.snapshot => inserted
    BY AfterRecord DEF Flagged, Recorded
  <2> HIDE DEF h2, to
  <2>5. StoredOK(h2) /\ CleanOK(h2, packets')
    BY <2>2, <2>4 DEF StoredOK, CleanOK, Unstored
  <2>6. LinksOK(h2, packets', refs')
    BY <2>2, <2>4 DEF LinksOK, Recorded
  <2>7. ASSUME u \in Uploads
        PROVE  FlagOK(h2, packets')
    BY <1>h, <1>r, <2>1, <2>2, <2>3, <2>4, <2>7 DEF AckOK, FlagOK
  <2>8. AckOK(h2, packets', refs')
    BY <2>2, <2>5, <2>6, <2>7 DEF AckOK
  <2> QED BY <2>1, <2>8, StepMoves, OneAckMoves DEF IInv
<1>1. CASE InsertPacket(r)
  <2> DEFINE h2 == [req[r] EXCEPT !.pc = "raise", !.stored = TRUE]
             row == [origin |-> u.origin, counter |-> u.counter,
                     payload |-> u.payload, snap |-> u.snapshot]
  <2>1. /\ Step(r, "insert", h2) /\ req[r].pc = "insert"
        /\ Mark(u.origin) = u.counter - 1 /\ packets' = packets \cup {row}
    BY <1>1 DEF InsertPacket, Step
  <2>2. h2.pc = "raise" /\ h2.up = u /\ h2.stored = TRUE
    BY <1>h DEF Handler
  <2>3. row.snap = u.snapshot
    OBVIOUS
  <2>4. u.origin \in Device /\ u.counter \in Nat
    BY <2>1, ServedType DEF UploadStages, IInv
  <2>5. SlotRows(u, packets) = {}
    <3>1. \A n \in Counters(u.origin) : Mark(u.origin) >= n
      BY <2>4, MarkIsTop DEF Tops, IInv
    <3>2. u.counter \notin Counters(u.origin)
      BY <2>1, <2>4, <3>1
    <3> QED BY <3>2 DEF SlotRows, Counters, Held
  <2> HIDE DEF h2, row
  <2>6. \A z \in SlotRows(u, packets') : z = row
    BY <2>1, <2>5 DEF SlotRows
  <2>7. AckOK(h2, packets', refs')
    BY <2>2, <2>3, <2>6
       DEF AckOK, StoredOK, LinksOK, FlagOK, CleanOK, Unstored, Recorded
  <2> QED BY <2>1, <2>7, StepMoves, OneAckMoves DEF IInv
<1>2. CASE InsertNothing(r)
  BY <1>2, PlainAckGoto DEF InsertNothing, Unstored, Recorded, Flagged
<1>3. CASE RaiseMark(r)
  BY <1>3, <1>r DEF RaiseMark
<1>4. CASE ReadHeld(r)
  BY <1>4, <1>r DEF ReadHeld
<1>5. CASE ReadGap(r)
  <2> DEFINE h2 == [req[r] EXCEPT !.pc = "gap", !.mark = Mark(u.origin)]
  <2>1. Step(r, "held", h2)
    BY <1>5 DEF ReadGap
  <2>2. h2.pc = "gap" /\ h2.up = u /\ h2.stored = req[r].stored
    BY <1>h DEF Handler
  <2> HIDE DEF h2
  <2> QED BY <2>1, <2>2, PlainAckStep DEF Unstored, Recorded, Flagged
<1>6. CASE RecordBlob(r)
  <2> DEFINE to(id) == IF req[r].todo = {id} THEN ToFlag(u, req[r].stored)
                                             ELSE "record"
             left(id) == req[r].todo \ {id}
             h(id) == [req[r] EXCEPT !.todo = left(id), !.pc = to(id)]
  <2>1. PICK id \in req[r].todo : /\ Step(r, "record", h(id))
                                  /\ refs' = refs \cup {Link(u, id)}
    BY <1>6 DEF RecordBlob, Link
  <2> DEFINE h2 == h(id)
  <2>2. /\ h2.pc = to(id) /\ h2.up = u /\ h2.todo = left(id)
        /\ h2.stored = req[r].stored /\ req[r].pc = "record"
    <3>1. h2.pc = to(id) /\ h2.up = u /\ h2.todo = left(id)
          /\ h2.stored = req[r].stored
      <4> HIDE DEF to, left
      <4> QED BY <1>h DEF Handler
    <3> QED BY <2>1, <3>1 DEF Step
  <2>3. /\ to(id) \in {"record", "flag", "prune", "ack"}
        /\ to(id) # "record" => left(id) = {}
        /\ to(id) \in Flagged /\ u.snapshot => req[r].stored
    BY AfterRecord DEF Flagged, Recorded
  <2>4. req[r].todo = left(id) \cup {id} /\ Link(u, id) \in refs'
    BY <2>1
  <2>5. req[r].stored \in BOOLEAN
    BY <1>h DEF Handler
  <2> HIDE DEF h, to, left
  <2>6. StoredOK(h2) /\ CleanOK(h2, packets')
    BY <2>2, <2>3 DEF StoredOK, CleanOK, Unstored
  <2>7. ASSUME u \in Uploads
        PROVE  LinksOK(h2, packets', refs')
    BY <1>h, <2>2, <2>3, <2>4, <2>7 DEF AckOK, LinksOK, Recorded
  <2>8. ASSUME u \in Uploads
        PROVE  FlagOK(h2, packets')
    BY <1>h, <2>2, <2>3, <2>5, <2>8 DEF AckOK, FlagOK
  <2>9. AckOK(h2, packets', refs')
    BY <2>2, <2>6, <2>7, <2>8 DEF AckOK
  <2> QED BY <2>1, <2>9, StepMoves, OneAckMoves DEF IInv
<1>7. CASE FlagSnapshot(r)
  <2> DEFINE slot == {row \in Held(u.origin) : row.counter = u.counter}
             flag(row) == [row EXCEPT !.snap = TRUE]
             h2 == req'[r]
  <2>1. /\ Goto(r, "flag", ToPrune(u))
        /\ packets' = (packets \ slot) \cup {flag(row) : row \in slot}
    BY <1>7 DEF FlagSnapshot
  <2>2. /\ req[r].pc = "flag" /\ h2.pc = ToPrune(u) /\ h2.up = u
        /\ \A s \in Request \ {r} : req'[s] = req[s]
    BY <2>1, GotoKeeps
  <2>3. ToPrune(u) \in {"ack", "prune"}
    BY DEF ToPrune
  <2>4. \A row \in packets : flag(row).snap
    BY DEF IInv, TypeOK, PacketRow
  <2>5. slot = SlotRows(u, packets) /\ slot \subseteq packets
    BY DEF SlotRows, Held
  <2> HIDE DEF slot, flag, h2
  <2>6. \A row \in SlotRows(u, packets') : row.snap
    BY <2>1, <2>4, <2>5 DEF SlotRows
  <2>7. StoredOK(h2) /\ CleanOK(h2, packets') /\ FlagOK(h2, packets')
    BY <2>2, <2>3, <2>6 DEF StoredOK, CleanOK, FlagOK, Unstored
  <2>8. ASSUME u \in Uploads
        PROVE  LinksOK(h2, packets', refs')
    BY <1>h, <2>2, <2>3, <2>8 DEF AckOK, LinksOK, Recorded
  <2>9. AckOK(h2, packets', refs')
    BY <2>2, <2>7, <2>8 DEF AckOK
  <2> QED BY <2>2, <2>9, OneAckMoves DEF h2
<1> QED BY <1>1, <1>2, <1>3, <1>4, <1>5, <1>6, <1>7 DEF Insert

-----------------------------------------------------------------------------
(* Theorems.                                                                *)

LEMMA InitAck == Init => AckInv
BY BlankAck DEF Init, AckInv

LEMMA AckStep == IInv /\ AckInv /\ [Next]_vars /\ IInv' => AckInv'
<1> SUFFICES ASSUME IInv, AckInv, [Next]_vars, IInv' PROVE AckInv'
  OBVIOUS
<1>1. CASE UNCHANGED vars
  BY <1>1 DEF vars, tables, AckInv
<1>2. CASE Restart
  <2>1. \A r \in Request : req'[r] = Blank
    BY <1>2 DEF Restart
  <2> QED BY <2>1, BlankAck DEF AckInv
<1>3. ASSUME NEW r \in Request, Respond(r) \/ Cancel(r)
      PROVE  AckInv'
  <2>1. /\ req'[r] = Blank
        /\ \A s \in Request \ {r} : req'[s] = req[s]
    BY <1>3 DEF Respond, Cancel, TypeOK, IInv
  <2> QED BY <2>1, BlankAck, OneAckMoves
<1> QED
  BY <1>1, <1>2, <1>3, CheckAck, InsertAck, PruneAck, PutAck, ReceiveAck
     DEF Next, Serve

LEMMA AckInvariance == Spec => [](IInv /\ AckInv)
BY InitIInv, InitAck, IInvStep, AckStep, PTL DEF Spec

(* A 200 or 201 of uploadPacket tells the truth: the slot counts as          *)
(* accepted, and its row, if it is still there, has every declared           *)
(* reference and a snapshot's flag, whichever request inserted it.           *)
THEOREM AcksTellTheTruth == Spec => []AckTellsTruth
<1>1. IInv /\ AckInv => AckTellsTruth
  <2> SUFFICES ASSUME IInv, AckInv, NEW r \in Request, req[r].pc = "ack",
                      req[r].up # None
               PROVE  LET u == req[r].up IN
                      /\ u.counter <= Mark(u.origin)
                      /\ \A row \in Held(u.origin) : row.counter = u.counter =>
                           /\ u.snapshot => row.snap
                           /\ \A b \in u.blobs : Link(u, b) \in refs
    BY DEF AckTellsTruth, Link
  <2>1. /\ req[r].up \in Uploads /\ HandlerOK(req[r], top, marks)
        /\ AckOK(req[r], packets, refs)
    BY HandlerFacts DEF IInv, AckInv, Handler
  <2>2. req[r].up.origin \in Device
    BY <2>1, UploadsAssumption DEF UploadType
  <2>3. req[r].up.counter <= Mark(req[r].up.origin)
    BY <2>1, <2>2 DEF HandlerOK, ReadsOwnStream, AcceptedStages, top
  <2>4. ASSUME NEW row \in Held(req[r].up.origin),
               row.counter = req[r].up.counter
        PROVE  row \in SlotRows(req[r].up, packets)
    BY <2>4 DEF Held, SlotRows
  <2> QED BY <2>1, <2>3, <2>4
          DEF AckOK, LinksOK, FlagOK, Recorded, Flagged
<1> QED BY <1>1, AckInvariance, PTL

(* PruneCovered deletes the references of a packet only when the packet is   *)
(* gone, and it stays gone: no crash between the two DELETEs and no request  *)
(* that runs between them leaves a packet without its references.            *)
THEOREM ReferencesOutlive == Spec => RefsOutlivePackets
<1>1. IInv /\ AckInv /\ [Next]_vars =>
        [\A ref \in refs \ refs' : \A row \in packets' :
           ~(row.origin = ref.origin /\ row.counter = ref.counter)]_vars
  BY LinksMove DEF LinksStay
<1> QED BY <1>1, AckInvariance, PTL DEF Spec, RefsOutlivePackets
=============================================================================

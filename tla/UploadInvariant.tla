-------------------------- MODULE UploadInvariant --------------------------
(***************************************************************************)
(* The inductive invariant of Upload: what each handler may rely on at     *)
(* each of its statements, although every other request and a restart can  *)
(* come between any two of them.  All of it rests on two facts.  Marks and *)
(* the tops of streams only grow, so what a handler once read of them      *)
(* stays a lower bound.  And no packet is deleted above a persisted mark.  *)
(***************************************************************************)
EXTENDS Upload

(* Stages only an upload reaches. *)
UploadStages ==
  {"hasblob", "checkmark", "streams", "covered", "quota", "insert", "raise",
   "held", "record", "flag", "prune", "reassert", "count", "delpackets",
   "delrefs", "garbage", "collect", "missing", "gap"}

(* Stages of a blob PUT alone. *)
PutStages == {"puthas", "putquota", "put"}

(* Stages of an upload found to be new data, and its refusal. *)
NewStages == {"streams", "covered", "quota", "full"}

(* Stages past InsertPacket's verdict that the slot is filled. *)
AcceptedStages ==
  {"raise", "record", "flag", "prune", "reassert", "count", "delpackets",
   "delrefs", "garbage", "collect", "ack"}

(* Stages inside one turn of the loop of PruneCovered, and those of them    *)
(* that follow the re-asserted mark.                                        *)
DeviceStages == {"reassert", "count", "delpackets", "delrefs"}
MarkedStages == {"count", "delpackets", "delrefs"}

Tops(d) == {0, marks[d]} \cup Counters(d)

(* Mark(d) is well defined: there is a greatest counter. *)
HasTop ==
  \A d \in Device : \E n \in Tops(d) : \A m \in Tops(d) : n >= m

(* The three parts below speak of one handler h, the tops t of the streams  *)
(* and the persisted marks m.                                               *)

(* A handler serves an upload exactly at the stages of uploads, and loops   *)
(* over devices the upload covers.                                          *)
ServesUpload(h) ==
  /\ h.pc \in UploadStages => h.up \in Uploads
  /\ h.pc \in PutStages => h.up = None
  /\ h.up \in Uploads => h.devs \subseteq Covered(h.up)

(* What was read of the upload's own stream. *)
ReadsOwnStream(h, t) ==
  h.up \in Uploads =>
    /\ h.arrived <= t[h.up.origin]
    /\ h.pc \in NewStages => h.up.counter > h.arrived
    /\ h.pc = "held" =>
         h.up.counter <= t[h.up.origin] \/ h.up.counter > h.arrived + 1
    /\ h.pc = "gap" => h.up.counter > h.arrived + 1
    /\ h.pc \in AcceptedStages => h.up.counter <= t[h.up.origin]

(* What was read of the stream being pruned.  The last part is why nothing  *)
(* is lost with the rows: the mark that stands in for them is persisted.    *)
ReadsPrunedStream(h, t, m) ==
  /\ h.pc \in DeviceStages => h.at \in Covered(h.up) /\ h.mark <= t[h.at]
  /\ h.pc \in MarkedStages => h.mark <= m[h.at]

HandlerOK(h, t, m) ==
  ServesUpload(h) /\ ReadsOwnStream(h, t) /\ ReadsPrunedStream(h, t, m)

HandlersOK == \A r \in Request : HandlerOK(req[r], top, marks)

IInv == TypeOK /\ HasTop /\ HandlersOK /\ PrunedWasCovered
=============================================================================

-------------------------------- MODULE Sync --------------------------------
(***************************************************************************)
(* The read path, GET /api/v2/changes/ (pullPackets and store.Pull),       *)
(* composed with the write path of Upload and with one device that syncs:  *)
(* it pulls page after page, each time above the vector it then has, until *)
(* an answer says has_more is false.                                       *)
(*                                                                         *)
(* Pull is two statements, UserVector and the SELECT of the page, and      *)
(* uploads and prunes of the account run between them and between pages.   *)
(*                                                                         *)
(* The device is not part of the relay.  What the protocol asks of it is   *)
(* in the comments of Pull: it holds a contiguous prefix of each stream,   *)
(* takes a packet only as the next of its stream, and adopts what a        *)
(* snapshot covers.                                                        *)
(***************************************************************************)
EXTENDS Upload, Sequences

CONSTANTS
  Rank,        \* position of each device id in ORDER BY origin_device_id
  PageLimit,   \* the limit parameter of a pull
  PageBytes    \* pullPageBytes

ASSUME RankAssumption ==
  /\ Rank \in [Device -> Nat]
  /\ \A d, e \in Device : Rank[d] = Rank[e] => d = e
ASSUME PageAssumption == {PageLimit, PageBytes} \subseteq Nat \ {0}

VARIABLES
  have,      \* the device's vector: the prefix it holds of each stream
  pull,      \* its pull in flight
  session    \* history: one sync, from its first pull to has_more = FALSE

syncVars == <<vars, have, pull, session>>

NoPull == [pc |-> "idle", want |-> {}, page |-> <<>>, more |-> FALSE]

PullType ==
  [pc : {"idle", "select", "answer"},
   want : SUBSET Device,          \* devices with a condition in the SELECT
   page : {s \in Seq(PacketRow) : Len(s) <= PageLimit},
   more : BOOLEAN]                \* has_more

SessionType ==
  [state : {"none", "open", "done"},
   since : [Device -> Nat],       \* the tops when the session began
   calm : BOOLEAN]                \* no packet was deleted while it was open

SyncTypeOK ==
  /\ have \in [Device -> Nat]
  /\ pull \in PullType
  /\ session \in SessionType

SyncInit ==
  /\ have = [d \in Device |-> 0]
  /\ pull = NoPull
  /\ session = [state |-> "none", since |-> have, calm |-> TRUE]

-----------------------------------------------------------------------------
(* The page.                                                                *)

(* The rows that satisfy the WHERE clause for the devices wanted. *)
Wanted(want) ==
  {row \in packets : row.origin \in want /\ row.counter > have[row.origin]}

(* MAX(is_snapshot) OVER (PARTITION BY origin_device_id). *)
Hoisted(rows, d) == \E row \in rows : row.origin = d /\ row.snap

(* Mutant of Before: ordered by device and counter alone. *)
BeforePlain(rows, x, y) ==
  \/ Rank[x.origin] < Rank[y.origin]
  \/ x.origin = y.origin /\ x.counter < y.counter

(* Mutant of Before: the hoist is per row, not per stream. *)
BeforeByRow(rows, x, y) ==
  \/ x.snap /\ ~y.snap
  \/ x.snap = y.snap /\ BeforePlain(rows, x, y)

(* The ORDER BY of the page: streams that bear a snapshot first, then by    *)
(* device, then ascending.                                                  *)
Before(rows, x, y) ==
  LET hx == Hoisted(rows, x.origin)
      hy == Hoisted(rows, y.origin)
  IN \/ hx /\ ~hy
     \/ hx = hy /\ Rank[x.origin] < Rank[y.origin]
     \/ x.origin = y.origin /\ x.counter < y.counter

InOrder(rows) ==
  [i \in 1 .. Cardinality(rows) |->
     CHOOSE x \in rows : Cardinality({y \in rows : Before(rows, y, x)}) = i - 1]

(* How many rows of an ordered result fit the page: it ends at the limit or *)
(* once its payloads reach the byte budget, and holds one packet at least.  *)
PageLength(result) ==
  LET full == {n \in 1 .. Len(result) :
                 Bytes({result[i] : i \in 1 .. n}) >= PageBytes}
  IN Min({Len(result), PageLimit} \cup full)

-----------------------------------------------------------------------------
(* pullPackets.                                                             *)

(* UserVector: a device is asked for when its top, stored or remembered,    *)
(* is above the caller's.  None asked for is an empty page at once.         *)
PullVector ==
  LET want == {d \in Device : Mark(d) > have[d]} IN
  /\ pull.pc = "idle"
  /\ pull' = [NoPull EXCEPT !.pc = IF want = {} THEN "answer" ELSE "select",
                            !.want = want]
  /\ session' = IF session.state = "open" THEN session
                ELSE [state |-> "open", since |-> top, calm |-> TRUE]
  /\ UNCHANGED <<vars, have>>

(* Mutant of PullSelect: has_more is said of a full page only. *)
PullSelectFullPage ==
  LET result == InOrder(Wanted(pull.want))
      n == PageLength(result)
  IN /\ pull.pc = "select"
     /\ pull' = [pull EXCEPT !.pc = "answer", !.page = SubSeq(result, 1, n),
                             !.more = n < Len(result) /\ n = PageLimit]
     /\ UNCHANGED <<vars, have, session>>

PullSelect ==
  LET result == InOrder(Wanted(pull.want))
      n == PageLength(result)
  IN /\ pull.pc = "select"
     /\ pull' = [pull EXCEPT !.pc = "answer", !.page = SubSeq(result, 1, n),
                             !.more = n < Len(result)]
     /\ UNCHANGED <<vars, have, session>>

-----------------------------------------------------------------------------
(* The device.                                                              *)

(* The snapshots a row may be, by its content. *)
SnapshotsIn(row) ==
  {u \in Uploads : u.snapshot /\ u.origin = row.origin
                   /\ u.counter = row.counter /\ u.payload = row.payload}

(* The vector after one packet: a snapshot's coverage is adopted, any other *)
(* packet counts as the next of its stream only.                            *)
Taken(h, row) ==
  CASE SnapshotsIn(row) # {} ->
         [d \in Device |-> Max({h[d]} \cup {u.covers[d] : u \in SnapshotsIn(row)})]
    [] SnapshotsIn(row) = {} /\ row.counter = h[row.origin] + 1 ->
         [h EXCEPT ![row.origin] = row.counter]
    [] OTHER -> h

(* The device takes the first packet of the page that it has not looked at. *)
TakePacket ==
  /\ pull.pc = "answer" /\ pull.page # <<>>
  /\ have' = Taken(have, Head(pull.page))
  /\ pull' = [pull EXCEPT !.page = Tail(@)]
  /\ UNCHANGED <<vars, session>>

EndPage ==
  /\ pull.pc = "answer" /\ pull.page = <<>>
  /\ pull' = NoPull
  /\ session' = [session EXCEPT !.state = IF pull.more THEN "open" ELSE "done"]
  /\ UNCHANGED <<vars, have>>

(* The pull is cut off, its answer is lost, or the device stops within a    *)
(* page; it keeps what it has taken and starts again.                       *)
LosePull ==
  /\ pull.pc # "idle"
  /\ pull' = NoPull
  /\ session' = [session EXCEPT !.state = "none"]
  /\ UNCHANGED <<vars, have>>

Reader == PullVector \/ PullSelect \/ TakePacket \/ EndPage

(* A step of the write path, as the history variable sees it. *)
Beside ==
  /\ session' = [session EXCEPT
                   !.calm = @ /\ {Row(row) : row \in packets} \subseteq
                                 {Row(row) : row \in packets'}]
  /\ UNCHANGED <<have, pull>>

PullNext ==
  \/ Next /\ Beside
  \/ Reader
  \/ LosePull

PullSpec == Init /\ SyncInit /\ [][PullNext]_syncVars

-----------------------------------------------------------------------------
(* Properties.                                                              *)

(* A row gives the device packet n of d's stream: it is that packet, or a   *)
(* snapshot whose coverage has it.                                          *)
Gives(row, d, n) ==
  \/ row.origin = d /\ row.counter = n
  \/ \E u \in SnapshotsIn(row) : u.covers[d] >= n

(* Nothing is out of reach: whatever of an accepted stream the device does  *)
(* not have, a stored packet above its vector still gives it, at any point  *)
(* of any prune and however its vector and the prunes moved past each       *)
(* other.                                                                   *)
NothingOutOfReach ==
  \A d \in Device : \A n \in have[d] + 1 .. Mark(d) :
    \E row \in Wanted(Device) : Gives(row, d, n)

(* A page takes consecutive packets of each stream, in ascending order,     *)
(* however prunes have cut the streams and snapshots have moved them.       *)
PageAscends ==
  \A i, j \in DOMAIN pull.page :
    i < j /\ pull.page[i].origin = pull.page[j].origin =>
      pull.page[j].counter - pull.page[i].counter =
        Cardinality({k \in i + 1 .. j : pull.page[k].origin = pull.page[i].origin})

(* When a sync ends, has_more being false, and no packet was deleted since  *)
(* it began, the device has everything that was accepted when it began:     *)
(* page cuts lose nothing, in whatever order inserts, page boundaries and   *)
(* snapshot flags of other streams came.                                    *)
SyncComplete ==
  session.state = "done" /\ session.calm =>
    \A d \in Device : have[d] >= session.since[d]

(* A device that keeps syncing ends up with everything: the uploads being   *)
(* finitely many, from some time on it has every accepted packet, although  *)
(* pages are cut, pulls are lost, and it may find itself between a pruned   *)
(* range and the snapshot that gives it.                                    *)
Converges == <>[](\A d \in Device : have[d] >= Mark(d))
=============================================================================

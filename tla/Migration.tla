----------------------------- MODULE Migration -----------------------------
(***************************************************************************)
(* Opening the database: Store.Open runs init and migrate on every start,  *)
(* over a file an older build may have written, one autocommitted          *)
(* statement after the other, and can be killed between any two.  Only     *)
(* then does the relay serve; InsertPacket and PruneCovered are here one   *)
(* at a time, statement by statement (Upload interleaves them).  While the *)
(* relay is down, a rollback may have run an older build on the same file. *)
(***************************************************************************)
EXTENDS Integers, FiniteSets

CONSTANTS
  Device,        \* origin devices of the account
  Payload,       \* packet bodies
  Batch,         \* rows hashed per SELECT of backfillHashes
  MaxHashRange,  \* maxHashRange
  MaxCounter,    \* bound: the highest counter of a stream
  MaxCrashes     \* bound: how often the relay is killed or fails

ASSUME BatchAssumption == Batch \in Nat \ {0}
ASSUME RangeAssumption == MaxHashRange \in Nat
ASSUME BoundsAssumption == MaxCounter \in Nat /\ MaxCrashes \in Nat

VARIABLES
  tables,   \* the tables of the file, as far as they matter here
  columns,  \* of the columns added to packets later, those it has
  packets,  \* rows of packets; an empty hash where there is no column
  marks,    \* stream_marks: high_water, 0 where there is no row
  at,       \* the statement the process is at
  pending,  \* local of backfillHashes: rows read and not yet updated
  slot,     \* locals of the running InsertPacket or PruneCovered
  crashes   \* bound: crashes so far

file == <<tables, columns, packets, marks>>
vars == <<file, at, pending, slot, crashes>>

V1Tables == {"changes", "device_cursors"}
V2Tables == {"packets", "stream_marks"}
Columns == {"is_snapshot", "payload_hash"}

Slot == [origin : Device, counter : 1 .. MaxCounter]
NoSlot == [counter |-> 0]

NoHash == <<>>
PayloadHash(payload) == <<"sha256", payload>>

Row == [origin : Device, counter : 1 .. MaxCounter, payload : Payload,
        hash : {NoHash} \cup {PayloadHash(p) : p \in Payload}]

Opening ==
  {"changes", "device_cursors", "packets", "stream_marks", "is_snapshot",
   "payload_hash", "select", "update", "seed"}
Serving == {"serving", "inserted", "asserted"}

(* The types; and a relay that serves has the whole schema and nothing of   *)
(* the v1 one.                                                              *)
TypeOK ==
  /\ tables \subseteq V1Tables \cup V2Tables
  /\ columns \subseteq Columns
  /\ packets \subseteq Row
  /\ marks \in [Device -> 0 .. MaxCounter]
  /\ at \in {"down"} \cup Opening \cup Serving
  /\ pending \subseteq packets
  /\ slot \in Slot \cup {NoSlot}
  /\ crashes \in 0 .. MaxCrashes
  /\ at \in Serving => tables = V2Tables /\ columns = Columns

-----------------------------------------------------------------------------
(* What a database can hold when this build first opens it.                 *)

(* Streams of counters after low[d], up to top[d]. *)
Streams(low, top, body, hashed) ==
  {row \in Row :
     /\ row.counter \in low[row.origin] + 1 .. top[row.origin]
     /\ row.payload = body[row.origin]
     /\ row.hash = IF hashed THEN PayloadHash(row.payload) ELSE NoHash}

Height == [Device -> 0 .. MaxCounter]

NoPackets == packets = {} /\ marks = [d \in Device |-> 0]

InitNew == tables = {} /\ columns = {} /\ NoPackets

InitV1 == tables = V1Tables /\ columns = {} /\ NoPackets

(* v2, before compaction: streams start at 1, and there are no marks. *)
InitBeforeMarks ==
  /\ tables = {"packets"}
  /\ columns = {}
  /\ marks = [d \in Device |-> 0]
  /\ \E top \in Height, body \in [Device -> Payload] :
       packets = Streams([d \in Device |-> 0], top, body, FALSE)

(* v2 with compaction, before and with hashes: streams may be pruned, to    *)
(* nothing too, and an insert may have been cut off before it raised a mark.*)
InitAfterMarks(hashed) ==
  /\ tables = V2Tables
  /\ columns = IF hashed THEN Columns ELSE {"is_snapshot"}
  /\ \E low, top \in Height, body \in [Device -> Payload] :
       /\ \A d \in Device : low[d] <= top[d]
       /\ packets = Streams(low, top, body, hashed)
       /\ marks \in {[d \in Device |-> top[d]],
                     [d \in Device |-> IF low[d] < top[d] THEN top[d] - 1
                                                          ELSE top[d]]}

Init ==
  /\ InitNew \/ InitV1 \/ InitBeforeMarks
     \/ \E hashed \in BOOLEAN : InitAfterMarks(hashed)
  /\ at = "down"
  /\ pending = {}
  /\ slot = NoSlot
  /\ crashes = 0

-----------------------------------------------------------------------------
(* Queries.                                                                 *)

Stored(d) == {row \in packets : row.origin = d}

Higher(a, b) == IF a > b THEN a ELSE b

(* MAX(counter) of a stream, 0 when it is empty. *)
IsHighest(n, rows) ==
  /\ \A row \in rows : row.counter <= n
  /\ n = 0 \/ \E row \in rows : row.counter = n

Highest(d) == CHOOSE n \in 0 .. MaxCounter : IsHighest(n, Stored(d))

(* StreamMark: the next counter of a stream is one more. *)
StreamMark(d) == Higher(Highest(d), marks[d])

(* raiseMark. *)
Raised(d, n) == [marks EXCEPT ![d] = Higher(@, n)]

Unhashed == {row \in packets : row.hash = NoHash}

(* getStreamHashes and StreamHashes for counters from to to, 1 <= from <= to.*)
StreamHashes(d, from, to) ==
  LET last == IF to - from > MaxHashRange THEN from + MaxHashRange ELSE to IN
  {[counter |-> row.counter, hash |-> row.hash] :
     row \in {r \in Stored(d) \ Unhashed : r.counter \in from .. last}}

-----------------------------------------------------------------------------
(* Open: init and migrate.                                                  *)

Goto(from, to) == at = from /\ at' = to

Start ==
  /\ Goto("down", "changes")
  /\ UNCHANGED <<file, pending, slot, crashes>>

(* dropV1SQL: DROP TABLE IF EXISTS. *)
Drop(table, next) ==
  /\ Goto(table, next)
  /\ tables' = tables \ {table}
  /\ UNCHANGED <<columns, packets, marks, pending, slot, crashes>>

(* schemaSQL: CREATE TABLE IF NOT EXISTS, which has payload_hash in packets.*)
Create(table, next) ==
  /\ Goto(table, next)
  /\ tables' = tables \cup {table}
  /\ columns' = IF table \in tables \/ table # "packets" THEN columns
                                                         ELSE {"payload_hash"}
  /\ UNCHANGED <<packets, marks, pending, slot, crashes>>

(* Mutant of AddColumn: the column is left to CREATE TABLE. *)
AddColumnByCreate(column, next) ==
  Goto(column, next) /\ UNCHANGED <<file, pending, slot, crashes>>

(* ALTER TABLE, if pragma_table_info has no such column. *)
AddColumn(column, next) ==
  /\ Goto(column, next)
  /\ columns' = columns \cup {column}
  /\ UNCHANGED <<tables, packets, marks, pending, slot, crashes>>

(* backfillHashes: a SELECT ... LIMIT, and one UPDATE per row it returned. *)
SelectBatch ==
  /\ Goto("select", "update")
  /\ Unhashed # {}
  /\ \E rows \in SUBSET Unhashed :
       /\ Cardinality(rows) = Batch \/ rows = Unhashed
       /\ Cardinality(rows) <= Batch
       /\ pending' = rows
  /\ UNCHANGED <<file, slot, crashes>>

SelectNone ==
  /\ Goto("select", "seed")
  /\ Unhashed = {}
  /\ UNCHANGED <<file, pending, slot, crashes>>

(* Mutant of Update: only one batch is hashed. *)
UpdateOneBatch ==
  \E row \in pending :
    /\ pending' = pending \ {row}
    /\ Goto("update", IF pending' = {} THEN "seed" ELSE "update")
    /\ packets' = (packets \ {row})
                    \cup {[row EXCEPT !.hash = PayloadHash(row.payload)]}
    /\ UNCHANGED <<tables, columns, marks, slot, crashes>>

(* Mutant of Update: the UPDATE finds no row. *)
UpdateOther ==
  \E row \in pending :
    /\ pending' = pending \ {row}
    /\ Goto("update", IF pending' = {} THEN "select" ELSE "update")
    /\ UNCHANGED <<file, slot, crashes>>

Update ==
  \E row \in pending :
    /\ pending' = pending \ {row}
    /\ Goto("update", IF pending' = {} THEN "select" ELSE "update")
    /\ packets' = (packets \ {row})
                    \cup {[row EXCEPT !.hash = PayloadHash(row.payload)]}
    /\ UNCHANGED <<tables, columns, marks, slot, crashes>>

(* Seed the marks of the streams that have rows, never lowering one. *)
Seed ==
  /\ Goto("seed", "serving")
  /\ marks' = [d \in Device |-> StreamMark(d)]
  /\ UNCHANGED <<tables, columns, packets, pending, slot, crashes>>

Open ==
  \/ Drop("changes", "device_cursors")
  \/ Drop("device_cursors", "packets")
  \/ Create("packets", "stream_marks")
  \/ Create("stream_marks", "is_snapshot")
  \/ AddColumn("is_snapshot", "payload_hash")
  \/ AddColumn("payload_hash", "select")
  \/ SelectBatch \/ SelectNone \/ Update
  \/ Seed

-----------------------------------------------------------------------------
(* Serving.                                                                 *)

NextCounter(d) == StreamMark(d) + 1

Filled(d, payload, hash) ==
  packets \cup {[origin |-> d, counter |-> NextCounter(d), payload |-> payload,
                 hash |-> hash]}

(* InsertPacket: the guarded INSERT. *)
Insert(d, payload) ==
  /\ Goto("serving", "inserted")
  /\ NextCounter(d) <= MaxCounter
  /\ packets' = Filled(d, payload, PayloadHash(payload))
  /\ slot' = [origin |-> d, counter |-> NextCounter(d)]
  /\ UNCHANGED <<tables, columns, marks, pending, crashes>>

RaiseMark ==
  /\ Goto("inserted", "serving")
  /\ marks' = Raised(slot.origin, slot.counter)
  /\ slot' = NoSlot
  /\ UNCHANGED <<tables, columns, packets, pending, crashes>>

(* Mutant of Assert: the mark is left to the inserts. *)
AssertNot(d, upTo) ==
  /\ Goto("serving", "asserted")
  /\ upTo <= StreamMark(d)
  /\ slot' = [origin |-> d, counter |-> upTo]
  /\ UNCHANGED <<file, pending, crashes>>

(* PruneCovered, for one device: the mark is re-asserted before the DELETE. *)
Assert(d, upTo) ==
  /\ Goto("serving", "asserted")
  /\ upTo <= StreamMark(d)
  /\ marks' = Raised(d, StreamMark(d))
  /\ slot' = [origin |-> d, counter |-> upTo]
  /\ UNCHANGED <<tables, columns, packets, pending, crashes>>

Delete ==
  /\ Goto("asserted", "serving")
  /\ packets' = {row \in packets : row.origin = slot.origin
                                     => row.counter > slot.counter}
  /\ slot' = NoSlot
  /\ UNCHANGED <<tables, columns, marks, pending, crashes>>

(* The request is cut off between its statements. *)
Cut ==
  /\ at \in {"inserted", "asserted"}
  /\ at' = "serving"
  /\ slot' = NoSlot
  /\ UNCHANGED <<file, pending, crashes>>

Serve ==
  \/ \E d \in Device :
       \/ \E payload \in Payload : Insert(d, payload)
       \/ \E upTo \in 1 .. MaxCounter : Assert(d, upTo)
  \/ RaiseMark \/ Delete \/ Cut

(* The process is killed, or a statement of Open fails. *)
Crash ==
  /\ at # "down"
  /\ crashes < MaxCrashes
  /\ at' = "down"
  /\ pending' = {}
  /\ slot' = NoSlot
  /\ crashes' = crashes + 1
  /\ UNCHANGED file

(* After a rollback, a build with marks and without hashes stores a packet; *)
(* it may be cut off before it raises the mark.                             *)
OlderBuild(d, payload) ==
  /\ at = "down"
  /\ V2Tables \subseteq tables /\ "is_snapshot" \in columns
  /\ NextCounter(d) <= MaxCounter
  /\ packets' = Filled(d, payload, NoHash)
  /\ marks' \in {marks, Raised(d, NextCounter(d))}
  /\ UNCHANGED <<tables, columns, at, pending, slot, crashes>>

Next ==
  \/ Start \/ Open \/ Serve \/ Crash
  \/ \E d \in Device, payload \in Payload : OlderBuild(d, payload)

(* systemd starts the service, and restarts it when it failed; a statement  *)
(* that can run, runs.                                                      *)
Fairness == WF_vars(Start) /\ WF_vars(Open)

Spec == Init /\ [][Next]_vars /\ Fairness

-----------------------------------------------------------------------------
(* Properties.                                                              *)

(* A client asks for hashes to learn whether the relay's stream is its own: *)
(* a served answer has every packet held of the first MaxHashRange + 1      *)
(* counters asked for, under the hash of the bytes held, though the row was *)
(* stored by a build without hashes and the backfill was killed in between. *)
HashesSpeakForStream ==
  at \in Serving =>
    \A d \in Device, from, to \in 1 .. MaxCounter :
      from <= to =>
        StreamHashes(d, from, to) =
          {[counter |-> row.counter, hash |-> PayloadHash(row.payload)] :
             row \in {r \in Stored(d) : /\ r.counter \in from .. to
                                        /\ r.counter - from <= MaxHashRange}}

(* Through upgrades, rollbacks and crashes the file is one mailbox: opening *)
(* it loses no packet, changes none and moves no top, and a stream pruned   *)
(* to nothing goes on where it was, so no counter is issued twice.          *)
Box == INSTANCE Mailbox WITH
  top <- [d \in Device |-> StreamMark(d)],
  rows <- {[origin |-> row.origin, counter |-> row.counter,
            payload |-> row.payload] : row \in packets}

OneMailbox == [][Box!Next]_(Box!mailbox)

(* Open comes to an end, however often it was killed in the middle: when    *)
(* the crashes stop, the relay serves.                                      *)
Serves == <>[](at \in Serving)
=============================================================================

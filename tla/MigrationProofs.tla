-------------------------- MODULE MigrationProofs --------------------------
(***************************************************************************)
(* Theorems of Migration, for every set of devices and payloads and every  *)
(* batch, range and bound.                                                 *)
(***************************************************************************)
EXTENDS Migration, TLAPS

(* The set whose maximum Highest takes has one. *)
HasHighest ==
  \A d \in Device : \E n \in 0 .. MaxCounter : IsHighest(n, Stored(d))

(* How far Open has come is what it has done already. *)
Beyond(steps) == at \notin {"down"} \cup steps

SchemaOK ==
  /\ Beyond({"changes"}) => "changes" \notin tables
  /\ Beyond({"changes", "device_cursors"}) => "device_cursors" \notin tables
  /\ Beyond({"changes", "device_cursors", "packets"}) => "packets" \in tables
  /\ Beyond({"changes", "device_cursors", "packets", "stream_marks"})
       => "stream_marks" \in tables
  /\ Beyond({"changes", "device_cursors", "packets", "stream_marks",
             "is_snapshot"}) => "is_snapshot" \in columns
  /\ Beyond({"changes", "device_cursors", "packets", "stream_marks",
             "is_snapshot", "payload_hash"}) => columns = Columns

(* A hash that is there is that of the payload, and the backfill ends only  *)
(* when all are there.                                                      *)
HashesOK ==
  /\ \A row \in packets : row.hash \in {NoHash, PayloadHash(row.payload)}
  /\ at \in {"seed"} \cup Serving => Unhashed = {}

(* A request between its statements is about a slot its stream has reached, *)
(* and a prune about to delete has the top of its stream in the mark.       *)
SlotOK ==
  /\ at \in {"inserted", "asserted"} =>
       slot \in Slot /\ slot.counter <= StreamMark(slot.origin)
  /\ at = "asserted" => marks[slot.origin] = StreamMark(slot.origin)

(* The types alone; what a serving relay has follows from SchemaOK. *)
Typed ==
  /\ tables \subseteq V1Tables \cup V2Tables
  /\ columns \subseteq Columns
  /\ packets \subseteq Row
  /\ marks \in [Device -> 0 .. MaxCounter]
  /\ at \in {"down"} \cup Opening \cup Serving
  /\ pending \subseteq packets
  /\ at # "update" => pending = {}
  /\ slot \in Slot \cup {NoSlot}
  /\ crashes \in 0 .. MaxCrashes

MigrationInv ==
  Typed /\ HasHighest /\ SchemaOK /\ HashesOK /\ SlotOK

-----------------------------------------------------------------------------
(* The schema.                                                              *)

LEMMA TypesFromInv == MigrationInv => TypeOK
BY DEF MigrationInv, Typed, SchemaOK, Beyond, TypeOK, Serving, Opening,
       V1Tables, V2Tables, Columns

LEMMA HashesFromInv == MigrationInv => HashesSpeakForStream
<1> SUFFICES ASSUME MigrationInv, at \in Serving,
                    NEW d \in Device, NEW from \in 1 .. MaxCounter,
                    NEW to \in 1 .. MaxCounter, from <= to
             PROVE  StreamHashes(d, from, to) =
                      {[counter |-> row.counter,
                        hash |-> PayloadHash(row.payload)] :
                         row \in {r \in Stored(d) :
                                    /\ r.counter \in from .. to
                                    /\ r.counter - from <= MaxHashRange}}
  BY DEF HashesSpeakForStream
<1> DEFINE last == IF to - from > MaxHashRange THEN from + MaxHashRange ELSE to
           Asked == {r \in Stored(d) \ Unhashed : r.counter \in from .. last}
           Owed == {r \in Stored(d) : /\ r.counter \in from .. to
                                      /\ r.counter - from <= MaxHashRange}
<1>1. Unhashed = {} /\ \A row \in packets : row.hash = PayloadHash(row.payload)
  BY DEF MigrationInv, HashesOK, Unhashed
<1>2. \A row \in packets : row.counter \in Int
  BY DEF MigrationInv, Typed, Row
<1>3. MaxHashRange \in Nat /\ from \in Int /\ to \in Int /\ MaxCounter \in Nat
  BY RangeAssumption, BoundsAssumption
<1>4. \A row \in packets : row.counter \in from .. last
                             <=> /\ row.counter \in from .. to
                                 /\ row.counter - from <= MaxHashRange
  BY <1>2, <1>3
<1>5. Asked = Owed
  BY <1>1, <1>4 DEF Stored
<1>6. StreamHashes(d, from, to)
        = {[counter |-> row.counter, hash |-> row.hash] : row \in Asked}
  BY DEF StreamHashes
<1>7. \A row \in Owed : row.hash = PayloadHash(row.payload)
  BY <1>1 DEF Stored
<1> QED
  BY <1>5, <1>6, <1>7

-----------------------------------------------------------------------------
(* Tops.                                                                    *)

HighestOf(rows) == CHOOSE n \in 0 .. MaxCounter : IsHighest(n, rows)

LEMMA HighestIs ==
  ASSUME NEW rows, \A row \in rows : row.counter \in 1 .. MaxCounter,
         NEW n \in 0 .. MaxCounter, IsHighest(n, rows)
  PROVE  HighestOf(rows) = n
<1>1. MaxCounter \in Nat
  BY BoundsAssumption
<1>2. \A m \in 0 .. MaxCounter : IsHighest(m, rows) => m = n
  BY <1>1 DEF IsHighest
<1> QED
  BY <1>2 DEF HighestOf

LEMMA TopIs ==
  ASSUME MigrationInv, NEW d \in Device
  PROVE  /\ Highest(d) \in 0 .. MaxCounter
         /\ IsHighest(Highest(d), Stored(d))
         /\ StreamMark(d) \in 0 .. MaxCounter
         /\ StreamMark(d) >= marks[d]
         /\ StreamMark(d) >= Highest(d)
<1>1. PICK n \in 0 .. MaxCounter : IsHighest(n, Stored(d))
  BY DEF MigrationInv, HasHighest
<1>2. \A row \in Stored(d) : row.counter \in 1 .. MaxCounter
  BY DEF MigrationInv, Typed, Row, Stored
<1>3. HighestOf(Stored(d)) = n
  BY <1>1, <1>2, HighestIs
<1>4. Highest(d) = n
  BY <1>3 DEF Highest, HighestOf
<1>5. marks[d] \in 0 .. MaxCounter /\ MaxCounter \in Nat
  BY BoundsAssumption DEF MigrationInv, Typed
<1> QED
  BY <1>1, <1>4, <1>5 DEF StreamMark, Higher

(* What a step does to the top of a stream is given by a witness. *)
LEMMA TopBecomes ==
  ASSUME NEW d \in Device, NEW n \in 0 .. MaxCounter, packets' \subseteq Row,
         IsHighest(n, Stored(d)')
  PROVE  Highest(d)' = n
<1>1. \A row \in Stored(d)' : row.counter \in 1 .. MaxCounter
  BY DEF Row, Stored
<1>2. HighestOf(Stored(d)') = n
  BY <1>1, HighestIs
<1> QED
  BY <1>2 DEF Highest, HighestOf

(* The tops of the next state. *)
Tops(f) ==
  \A d \in Device :
    f[d] \in 0 .. MaxCounter /\ IsHighest(f[d], Stored(d)')

LEMMA TopsBecome ==
  ASSUME NEW f, Tops(f), packets' \subseteq Row
  PROVE  HasHighest' /\ \A d \in Device : Highest(d)' = f[d]
<1>1. \A d \in Device : Highest(d)' = f[d]
  BY TopBecomes DEF Tops
<1>2. \A d \in Device : \E n \in 0 .. MaxCounter : IsHighest(n, Stored(d)')
  BY DEF Tops
<1> QED
  BY <1>1, <1>2 DEF HasHighest, IsHighest, Stored

(* Raising a mark to what the rows say anyway changes no top. *)
LEMMA SameTops ==
  ASSUME MigrationInv, Typed',
         \A d \in Device : IsHighest(Highest(d), Stored(d)'),
         \A d \in Device : marks[d] <= marks'[d] /\ marks'[d] <= StreamMark(d)
  PROVE  HasHighest' /\ \A d \in Device : StreamMark(d)' = StreamMark(d)
<1> DEFINE f == [d \in Device |-> Highest(d)]
<1>1. Tops(f)
  BY TopIs DEF Tops
<1>2. packets' \subseteq Row
  BY DEF Typed
<1>3. HasHighest' /\ \A d \in Device : Highest(d)' = f[d]
  BY <1>1, <1>2, TopsBecome
<1>4. ASSUME NEW d \in Device
      PROVE  StreamMark(d)' = StreamMark(d)
  <2>1. Highest(d)' = Highest(d) /\ Highest(d) \in 0 .. MaxCounter
    BY <1>3, TopIs
  <2>2. marks[d] \in 0 .. MaxCounter /\ marks'[d] \in 0 .. MaxCounter
    BY DEF MigrationInv, Typed
  <2>3. MaxCounter \in Nat
    BY BoundsAssumption
  <2>4. StreamMark(d)' = Higher(Highest(d)', marks'[d])
    BY DEF StreamMark, Higher
  <2> QED
    BY <2>1, <2>2, <2>3, <2>4 DEF StreamMark, Higher
<1> QED
  BY <1>3, <1>4

Held == {[origin |-> row.origin, counter |-> row.counter,
          payload |-> row.payload] : row \in packets}

Tall == [d \in Device |-> StreamMark(d)]

Stutter == Held' = Held /\ Tall' = Tall

BoxStep == Box!Next \/ UNCHANGED Box!mailbox

LEMMA StutterIsBoxStep == Stutter => BoxStep
BY DEF Stutter, BoxStep, Held, Tall, Box!mailbox

(* A step that touches no packet and at most raises marks to their tops. *)
LEMMA PacketsKept ==
  ASSUME MigrationInv, Typed', packets' = packets,
         \A d \in Device : marks[d] <= marks'[d] /\ marks'[d] <= StreamMark(d),
         SchemaOK', SlotOK',
         at' \in {"seed"} \cup Serving => Unhashed = {}
  PROVE  MigrationInv' /\ Stutter
<1>1. \A d \in Device : IsHighest(Highest(d), Stored(d)')
  BY TopIs DEF Stored
<1>2. HasHighest' /\ \A d \in Device : StreamMark(d)' = StreamMark(d)
  BY <1>1, SameTops
<1>3. HashesOK'
  BY DEF MigrationInv, HashesOK, Unhashed
<1>4. Tall' = Tall /\ Held' = Held
  BY <1>2 DEF Tall, Held
<1> QED
  BY <1>2, <1>3, <1>4 DEF MigrationInv, Stutter

(* A step between statements about no slot, which only moves on. *)
LEMMA MovesOn ==
  ASSUME MigrationInv, Typed', packets' = packets, marks' = marks,
         at' \notin {"inserted", "asserted"}, SchemaOK',
         at' \in {"seed"} \cup Serving => Unhashed = {}
  PROVE  MigrationInv' /\ Stutter
<1>1. \A d \in Device : marks[d] <= marks'[d] /\ marks'[d] <= StreamMark(d)
  <2> SUFFICES ASSUME NEW d \in Device
               PROVE  marks[d] <= marks'[d] /\ marks'[d] <= StreamMark(d)
    OBVIOUS
  <2>1. marks[d] \in 0 .. MaxCounter /\ MaxCounter \in Nat
    BY BoundsAssumption DEF MigrationInv, Typed
  <2> QED
    BY <2>1, TopIs
<1>2. SlotOK'
  BY DEF SlotOK
<1> QED
  BY <1>1, <1>2, PacketsKept

-----------------------------------------------------------------------------
(* Open, Crash and Cut.                                                     *)

LEMMA StartOK ==
  ASSUME MigrationInv, Start
  PROVE  MigrationInv' /\ Stutter
<1>1. Typed' /\ packets' = packets /\ marks' = marks /\ at' = "changes"
  BY DEF Start, Goto, file, MigrationInv, Typed, Opening
<1>2. SchemaOK'
  BY <1>1 DEF SchemaOK, Beyond
<1> QED
  BY <1>1, <1>2, MovesOn DEF Serving

LEMMA DropOK ==
  ASSUME MigrationInv, Drop("changes", "device_cursors")
                         \/ Drop("device_cursors", "packets")
  PROVE  MigrationInv' /\ Stutter
<1>1. Typed' /\ packets' = packets /\ marks' = marks
      /\ at' \in {"device_cursors", "packets"}
  BY DEF Drop, Goto, MigrationInv, Typed, Opening
<1>2. SchemaOK'
  BY DEF Drop, Goto, MigrationInv, SchemaOK, Beyond
<1> QED
  BY <1>1, <1>2, MovesOn DEF Serving

LEMMA CreateOK ==
  ASSUME MigrationInv, Create("packets", "stream_marks")
                         \/ Create("stream_marks", "is_snapshot")
  PROVE  MigrationInv' /\ Stutter
<1>1. Typed' /\ packets' = packets /\ marks' = marks
      /\ at' \in {"stream_marks", "is_snapshot"}
  BY DEF Create, Goto, MigrationInv, Typed, Opening, V2Tables, Columns
<1>2. SchemaOK'
  BY DEF Create, Goto, MigrationInv, SchemaOK, Beyond
<1> QED
  BY <1>1, <1>2, MovesOn DEF Serving

LEMMA AddColumnOK ==
  ASSUME MigrationInv, AddColumn("is_snapshot", "payload_hash")
                         \/ AddColumn("payload_hash", "select")
  PROVE  MigrationInv' /\ Stutter
<1>1. Typed' /\ packets' = packets /\ marks' = marks
      /\ at' \in {"payload_hash", "select"}
  BY DEF AddColumn, Goto, MigrationInv, Typed, Opening, Columns
<1>2. SchemaOK'
  BY DEF AddColumn, Goto, MigrationInv, Typed, SchemaOK, Beyond, Columns
<1> QED
  BY <1>1, <1>2, MovesOn DEF Serving

LEMMA SelectOK ==
  ASSUME MigrationInv, SelectBatch \/ SelectNone
  PROVE  MigrationInv' /\ Stutter
<1>1. Typed' /\ packets' = packets /\ marks' = marks
  BY DEF SelectBatch, SelectNone, Goto, file, MigrationInv, Typed, Opening,
         Unhashed
<1>2. SchemaOK'
  BY DEF SelectBatch, SelectNone, Goto, file, MigrationInv, SchemaOK, Beyond
<1>3. /\ at' \in {"update", "seed"}
      /\ at' = "seed" => Unhashed = {}
  BY DEF SelectBatch, SelectNone, Goto
<1> QED
  BY <1>1, <1>2, <1>3, MovesOn DEF Serving

LEMMA StopOK ==
  ASSUME MigrationInv, Crash \/ Cut
  PROVE  MigrationInv' /\ Stutter
<1>1. Typed' /\ packets' = packets /\ marks' = marks
  BY BoundsAssumption
     DEF Crash, Cut, file, MigrationInv, Typed, Opening, Serving
<1>2. SchemaOK'
  BY DEF Crash, Cut, file, MigrationInv, SchemaOK, Beyond
<1>3. /\ at' \in {"down", "serving"}
      /\ at' = "serving" => Unhashed = {}
  BY DEF Crash, Cut, MigrationInv, HashesOK, Serving
<1> QED
  BY <1>1, <1>2, <1>3, MovesOn DEF Serving

-----------------------------------------------------------------------------
(* The steps of Open that write packets or marks.                           *)

LEMMA UpdateOK ==
  ASSUME MigrationInv, Update
  PROVE  MigrationInv' /\ Stutter
<1>1. PICK row \in pending :
        /\ pending' = pending \ {row}
        /\ at = "update"
        /\ at' = IF pending' = {} THEN "select" ELSE "update"
        /\ packets' = (packets \ {row})
                        \cup {[row EXCEPT !.hash = PayloadHash(row.payload)]}
        /\ UNCHANGED <<tables, columns, marks, slot, crashes>>
  BY DEF Update, Goto
<1> DEFINE new == [row EXCEPT !.hash = PayloadHash(row.payload)]
<1>2. row \in packets /\ row \in Row
  BY <1>1 DEF MigrationInv, Typed
<1>3. /\ new \in Row
      /\ new.origin = row.origin /\ new.counter = row.counter
      /\ new.payload = row.payload /\ new.hash = PayloadHash(row.payload)
  BY <1>2 DEF Row
<1>4. packets' = (packets \ {row}) \cup {new}
  BY <1>1
<1> HIDE DEF new
<1>5. Typed'
  BY <1>1, <1>2, <1>3, <1>4 DEF MigrationInv, Typed, Opening
<1>6. SchemaOK'
  BY <1>1 DEF MigrationInv, SchemaOK, Beyond
<1>7. HashesOK' /\ SlotOK'
  BY <1>1, <1>3, <1>4 DEF MigrationInv, HashesOK, SlotOK, Serving
<1>8. \A d \in Device : IsHighest(Highest(d), Stored(d)')
  <2> SUFFICES ASSUME NEW d \in Device
               PROVE  IsHighest(Highest(d), Stored(d)')
    OBVIOUS
  <2>1. IsHighest(Highest(d), Stored(d))
    BY TopIs
  <2>2. \A x \in Stored(d)' : \E y \in Stored(d) : y.counter = x.counter
    BY <1>2, <1>3, <1>4 DEF Stored
  <2>3. \A x \in Stored(d) : \E y \in Stored(d)' : y.counter = x.counter
    BY <1>2, <1>3, <1>4 DEF Stored
  <2> QED
    BY <2>1, <2>2, <2>3 DEF IsHighest
<1>9. \A d \in Device : marks[d] <= marks'[d] /\ marks'[d] <= StreamMark(d)
  <2> SUFFICES ASSUME NEW d \in Device
               PROVE  marks[d] <= marks'[d] /\ marks'[d] <= StreamMark(d)
    OBVIOUS
  <2>1. marks[d] \in 0 .. MaxCounter /\ MaxCounter \in Nat
    BY BoundsAssumption DEF MigrationInv, Typed
  <2> QED
    BY <1>1, <2>1, TopIs
<1>10. HasHighest' /\ \A d \in Device : StreamMark(d)' = StreamMark(d)
  BY <1>5, <1>8, <1>9, SameTops
<1>11. Held' = Held
  BY <1>2, <1>3, <1>4 DEF Held
<1> QED
  BY <1>5, <1>6, <1>7, <1>10, <1>11 DEF MigrationInv, Stutter, Tall

LEMMA SeedOK ==
  ASSUME MigrationInv, Seed
  PROVE  MigrationInv' /\ Stutter
<1>1. /\ at = "seed" /\ at' = "serving"
      /\ marks' = [d \in Device |-> StreamMark(d)]
      /\ UNCHANGED <<tables, columns, packets, pending, slot, crashes>>
  BY DEF Seed, Goto
<1>2. \A d \in Device : /\ marks[d] <= marks'[d] /\ marks'[d] <= StreamMark(d)
                        /\ marks'[d] \in 0 .. MaxCounter
  <2> SUFFICES ASSUME NEW d \in Device
               PROVE  /\ marks[d] <= marks'[d] /\ marks'[d] <= StreamMark(d)
                      /\ marks'[d] \in 0 .. MaxCounter
    OBVIOUS
  <2>1. marks[d] \in 0 .. MaxCounter /\ MaxCounter \in Nat
    BY BoundsAssumption DEF MigrationInv, Typed
  <2>2. marks'[d] = StreamMark(d)
    BY <1>1
  <2> QED
    BY <2>1, <2>2, TopIs
<1>3. Typed'
  BY <1>1, <1>2 DEF MigrationInv, Typed, Serving
<1>4. SchemaOK' /\ SlotOK'
  BY <1>1 DEF MigrationInv, SchemaOK, Beyond, SlotOK
<1>5. Unhashed = {}
  BY <1>1 DEF MigrationInv, HashesOK
<1> QED
  BY <1>1, <1>2, <1>3, <1>4, <1>5, PacketsKept

-----------------------------------------------------------------------------
(* Serving, and the older build.                                            *)

(* Raising one mark within its stream. *)
LEMMA RaisedWithin ==
  ASSUME MigrationInv, NEW d \in Device, NEW n \in 0 .. MaxCounter,
         n <= StreamMark(d)
  PROVE  /\ Raised(d, n) \in [Device -> 0 .. MaxCounter]
         /\ \A x \in Device : /\ marks[x] <= Raised(d, n)[x]
                              /\ Raised(d, n)[x] <= StreamMark(x)
         /\ n <= Raised(d, n)[d]
<1>1. MaxCounter \in Nat /\ marks \in [Device -> 0 .. MaxCounter]
  BY BoundsAssumption DEF MigrationInv, Typed
<1>2. \A x \in Device : /\ StreamMark(x) \in 0 .. MaxCounter
                        /\ marks[x] <= StreamMark(x)
  BY TopIs
<1> QED
  BY <1>1, <1>2 DEF Raised, Higher

LEMMA RaiseMarkOK ==
  ASSUME MigrationInv, RaiseMark
  PROVE  MigrationInv' /\ Stutter
<1>1. /\ at = "inserted" /\ at' = "serving" /\ slot' = NoSlot
      /\ marks' = Raised(slot.origin, slot.counter)
      /\ UNCHANGED <<tables, columns, packets, pending, crashes>>
  BY DEF RaiseMark, Goto
<1>2. /\ slot.origin \in Device /\ slot.counter \in 0 .. MaxCounter
      /\ slot.counter <= StreamMark(slot.origin)
  BY <1>1, BoundsAssumption DEF MigrationInv, SlotOK, Slot
<1>3. /\ marks' \in [Device -> 0 .. MaxCounter]
      /\ \A x \in Device : marks[x] <= marks'[x] /\ marks'[x] <= StreamMark(x)
  BY <1>1, <1>2, RaisedWithin
<1>4. Typed'
  BY <1>1, <1>3 DEF MigrationInv, Typed, Serving
<1>5. SchemaOK' /\ SlotOK'
  BY <1>1 DEF MigrationInv, SchemaOK, Beyond, SlotOK
<1>6. Unhashed = {}
  BY <1>1 DEF MigrationInv, HashesOK, Serving
<1> QED
  BY <1>1, <1>3, <1>4, <1>5, <1>6, PacketsKept

LEMMA AssertOK ==
  ASSUME MigrationInv, NEW d \in Device, NEW upTo \in 1 .. MaxCounter,
         Assert(d, upTo)
  PROVE  MigrationInv' /\ Stutter
<1>1. /\ at = "serving" /\ at' = "asserted" /\ upTo <= StreamMark(d)
      /\ slot' = [origin |-> d, counter |-> upTo]
      /\ marks' = Raised(d, StreamMark(d))
      /\ UNCHANGED <<tables, columns, packets, pending, crashes>>
  BY DEF Assert, Goto
<1>2. StreamMark(d) \in 0 .. MaxCounter /\ MaxCounter \in Nat
  BY TopIs, BoundsAssumption
<1>3. /\ marks' \in [Device -> 0 .. MaxCounter]
      /\ \A x \in Device : marks[x] <= marks'[x] /\ marks'[x] <= StreamMark(x)
      /\ StreamMark(d) <= marks'[d]
  BY <1>1, <1>2, RaisedWithin
<1>4. slot' \in Slot
  BY <1>1 DEF Slot
<1>5. Typed'
  BY <1>1, <1>3, <1>4 DEF MigrationInv, Typed, Serving
<1>6. SchemaOK'
  BY <1>1 DEF MigrationInv, SchemaOK, Beyond
<1>7. \A x \in Device : IsHighest(Highest(x), Stored(x)')
  BY <1>1, TopIs DEF Stored
<1>8. StreamMark(d)' = StreamMark(d)
  BY <1>3, <1>5, <1>7, SameTops
<1>9. marks'[d] \in 0 .. MaxCounter /\ marks'[d] <= StreamMark(d)
  BY <1>3
<1>10. marks'[d] = StreamMark(d)
  BY <1>2, <1>3, <1>9
<1>11. SlotOK'
  BY <1>1, <1>4, <1>8, <1>10 DEF SlotOK
<1>12. Unhashed = {}
  BY <1>1 DEF MigrationInv, HashesOK, Serving
<1> QED
  BY <1>1, <1>3, <1>5, <1>6, <1>11, <1>12, PacketsKept

(* The packet is the next of its stream, which is now one higher, whatever  *)
(* of it the mark has seen.                                                 *)
LEMMA FillAppends ==
  ASSUME MigrationInv, Typed', NEW d \in Device, NEW payload \in Payload,
         NEW hash, NextCounter(d) <= MaxCounter,
         packets' = Filled(d, payload, hash),
         marks' = marks \/ marks' = Raised(d, NextCounter(d))
  PROVE  /\ HasHighest'
         /\ StreamMark(d)' = NextCounter(d)
         /\ Box!Append(d, payload)
<1> DEFINE n == NextCounter(d)
           new == [origin |-> d, counter |-> n, payload |-> payload,
                   hash |-> hash]
           f == [x \in Device |-> IF x = d THEN n ELSE Highest(x)]
<1>1. /\ n = StreamMark(d) + 1
      /\ n \in 1 .. MaxCounter
      /\ MaxCounter \in Nat
      /\ Highest(d) <= n /\ Highest(d) \in Nat
      /\ marks[d] < n /\ marks[d] \in Nat
  BY TopIs, BoundsAssumption DEF NextCounter, MigrationInv, Typed
<1>2. packets' = packets \cup {new}
  BY DEF Filled
<1>3. new.origin = d /\ new.counter = n /\ new.payload = payload
  OBVIOUS
<1> HIDE DEF new, n
<1>4. ASSUME NEW x \in Device
      PROVE  f[x] \in 0 .. MaxCounter /\ IsHighest(f[x], Stored(x)')
  <2>1. Highest(x) \in 0 .. MaxCounter /\ IsHighest(Highest(x), Stored(x))
    BY TopIs
  <2>2. CASE x = d
    <3>1. Stored(d)' = Stored(d) \cup {new}
      BY <1>2, <1>3 DEF Stored
    <3>2. \A row \in Stored(d) : row.counter <= Highest(d) /\ row.counter \in Nat
      BY <2>1, <2>2, <1>1 DEF IsHighest, Stored, MigrationInv, Typed, Row
    <3>3. \A row \in Stored(d)' : row.counter <= n
      BY <1>1, <1>3, <3>1, <3>2
    <3> QED
      BY <1>1, <1>3, <2>2, <3>1, <3>3 DEF IsHighest
  <2>3. CASE x # d
    <3>1. Stored(x)' = Stored(x)
      BY <1>2, <1>3, <2>3 DEF Stored
    <3> QED
      BY <2>1, <2>3, <3>1
  <2> QED
    BY <2>2, <2>3
<1>5. HasHighest' /\ \A x \in Device : Highest(x)' = f[x]
  <2>1. Tops(f)
    BY <1>4 DEF Tops
  <2>2. packets' \subseteq Row
    BY DEF Typed
  <2> QED
    BY <2>1, <2>2, TopsBecome
<1>6. \A x \in Device : marks'[x] = IF x = d /\ marks' # marks THEN n ELSE marks[x]
  <2>1. marks \in [Device -> 0 .. MaxCounter]
    BY DEF MigrationInv, Typed
  <2> QED
    BY <1>1, <2>1 DEF Raised, Higher, n
<1>7. \A x \in Device : StreamMark(x)' = IF x = d THEN n ELSE StreamMark(x)
  <2> SUFFICES ASSUME NEW x \in Device
               PROVE  StreamMark(x)' = IF x = d THEN n ELSE StreamMark(x)
    OBVIOUS
  <2>1. Highest(x)' = IF x = d THEN n ELSE Highest(x)
    BY <1>5
  <2>2. marks'[x] = IF x = d /\ marks' # marks THEN n ELSE marks[x]
    BY <1>6
  <2>3. StreamMark(x)' = Higher(Highest(x)', marks'[x])
    BY DEF StreamMark, Higher
  <2> QED
    BY <1>1, <2>1, <2>2, <2>3 DEF StreamMark, Higher
<1>8. Tall' = [Tall EXCEPT ![d] = @ + 1]
  BY <1>1, <1>7 DEF Tall
<1>9. Held' = Held \cup {[origin |-> d, counter |-> Tall[d] + 1,
                          payload |-> payload]}
  BY <1>1, <1>2, <1>3 DEF Held, Tall
<1>10. Box!Append(d, payload)
  BY <1>8, <1>9 DEF Box!Append, Held, Tall
<1> QED
  BY <1>5, <1>7, <1>10 DEF n

LEMMA InsertOK ==
  ASSUME MigrationInv, NEW d \in Device, NEW payload \in Payload,
         Insert(d, payload)
  PROVE  MigrationInv' /\ Box!Append(d, payload)
<1> DEFINE hash == PayloadHash(payload)
           n == NextCounter(d)
<1>1. /\ at = "serving" /\ at' = "inserted" /\ n <= MaxCounter
      /\ packets' = Filled(d, payload, hash)
      /\ slot' = [origin |-> d, counter |-> n]
      /\ UNCHANGED <<tables, columns, marks, pending, crashes>>
  BY DEF Insert, Goto
<1>2. n \in 1 .. MaxCounter
  BY <1>1, TopIs, BoundsAssumption DEF NextCounter
<1>3. slot' \in Slot /\ slot'.origin = d /\ slot'.counter = n
  BY <1>1, <1>2 DEF Slot
<1>4. packets' \subseteq Row /\ packets \subseteq packets'
  BY <1>1, <1>2 DEF Filled, Row, MigrationInv, Typed
<1>5. Typed'
  BY <1>1, <1>3, <1>4 DEF MigrationInv, Typed, Serving
<1>6. HasHighest' /\ StreamMark(d)' = n /\ Box!Append(d, payload)
  BY <1>1, <1>5, FillAppends
<1>7. SchemaOK'
  BY <1>1 DEF MigrationInv, SchemaOK, Beyond
<1>8. SlotOK'
  BY <1>1, <1>2, <1>3, <1>6 DEF SlotOK
<1>9. hash # NoHash
  BY DEF PayloadHash, NoHash
<1>10. HashesOK'
  <2>1. Unhashed = {} /\ \A row \in packets : row.hash \in {NoHash, PayloadHash(row.payload)}
    BY <1>1 DEF MigrationInv, HashesOK, Serving
  <2>2. \A row \in packets' : row.hash = PayloadHash(row.payload)
                              /\ row.hash # NoHash
    BY <1>1, <1>9, <2>1 DEF Filled, Unhashed
  <2> QED
    BY <2>2 DEF HashesOK, Unhashed
<1> QED
  BY <1>5, <1>6, <1>7, <1>8, <1>10 DEF MigrationInv

LEMMA OlderBuildOK ==
  ASSUME MigrationInv, NEW d \in Device, NEW payload \in Payload,
         OlderBuild(d, payload)
  PROVE  MigrationInv' /\ Box!Append(d, payload)
<1> DEFINE n == NextCounter(d)
<1>1. /\ at = "down" /\ n <= MaxCounter
      /\ packets' = Filled(d, payload, NoHash)
      /\ marks' = marks \/ marks' = Raised(d, n)
      /\ UNCHANGED <<tables, columns, at, pending, slot, crashes>>
  BY DEF OlderBuild
<1>2. n \in 1 .. MaxCounter /\ MaxCounter \in Nat
  BY <1>1, TopIs, BoundsAssumption DEF NextCounter
<1>3. packets' \subseteq Row /\ packets \subseteq packets'
  BY <1>1, <1>2 DEF Filled, Row, MigrationInv, Typed
<1>4. marks' \in [Device -> 0 .. MaxCounter]
  BY <1>1, <1>2 DEF MigrationInv, Typed, Raised, Higher
<1>5. Typed'
  BY <1>1, <1>3, <1>4 DEF MigrationInv, Typed
<1>6. HasHighest' /\ Box!Append(d, payload)
  BY <1>1, <1>5, FillAppends
<1>7. SchemaOK' /\ SlotOK'
  BY <1>1 DEF MigrationInv, SchemaOK, Beyond, SlotOK
<1>8. HashesOK'
  BY <1>1 DEF MigrationInv, HashesOK, Filled, Serving
<1> QED
  BY <1>5, <1>6, <1>7, <1>8 DEF MigrationInv

LEMMA DeleteOK ==
  ASSUME MigrationInv, Delete
  PROVE  MigrationInv' /\ BoxStep
<1> DEFINE d == slot.origin
           n == slot.counter
<1>1. /\ at = "asserted" /\ at' = "serving" /\ slot' = NoSlot
      /\ packets' = {row \in packets : row.origin = d => row.counter > n}
      /\ UNCHANGED <<tables, columns, marks, pending, crashes>>
  BY DEF Delete, Goto
<1>2. /\ d \in Device /\ n \in 1 .. MaxCounter /\ n <= StreamMark(d)
      /\ marks[d] = StreamMark(d)
  BY <1>1 DEF MigrationInv, SlotOK, Slot
<1> HIDE DEF d, n
<1>3. packets' \subseteq packets /\ packets \subseteq Row /\ MaxCounter \in Nat
  BY <1>1, BoundsAssumption DEF MigrationInv, Typed
<1>4. Typed'
  BY <1>1, <1>3 DEF MigrationInv, Typed, Serving
<1>5. SchemaOK' /\ SlotOK' /\ HashesOK'
  BY <1>1, <1>3
     DEF MigrationInv, SchemaOK, Beyond, SlotOK, HashesOK, Unhashed, Serving
<1> DEFINE f == [x \in Device |->
                   IF x = d /\ Highest(d) <= n THEN 0 ELSE Highest(x)]
<1>6. ASSUME NEW x \in Device
      PROVE  f[x] \in 0 .. MaxCounter /\ IsHighest(f[x], Stored(x)')
  <2>1. Highest(x) \in 0 .. MaxCounter /\ IsHighest(Highest(x), Stored(x))
    BY TopIs
  <2>2. \A row \in Stored(x) : row.counter \in Nat /\ row.counter <= Highest(x)
    BY <1>3, <2>1 DEF IsHighest, Stored, Row
  <2>3. CASE x = d
    <3>1. Stored(x)' = {row \in Stored(x) : row.counter > n}
      BY <1>1, <2>3 DEF Stored
    <3>2. CASE Highest(d) <= n
      BY <1>2, <1>3, <2>1, <2>2, <2>3, <3>1, <3>2 DEF IsHighest
    <3>3. CASE ~(Highest(d) <= n)
      BY <1>2, <1>3, <2>1, <2>2, <2>3, <3>1, <3>3 DEF IsHighest
    <3> QED
      BY <3>2, <3>3
  <2>4. CASE x # d
    <3>1. Stored(x)' = Stored(x)
      BY <1>1, <2>4 DEF Stored
    <3> QED
      BY <2>1, <2>4, <3>1
  <2> QED
    BY <2>3, <2>4
<1>7. HasHighest' /\ \A x \in Device : Highest(x)' = f[x]
  <2>1. Tops(f)
    BY <1>6 DEF Tops
  <2> QED
    BY <1>3, <2>1, TopsBecome
<1>8. ASSUME NEW x \in Device
      PROVE  StreamMark(x)' = StreamMark(x)
  <2>1. /\ StreamMark(x) \in 0 .. MaxCounter /\ StreamMark(x) >= marks[x]
        /\ Highest(x) \in 0 .. MaxCounter /\ StreamMark(x) >= Highest(x)
        /\ marks[x] \in 0 .. MaxCounter
    BY TopIs DEF MigrationInv, Typed
  <2>2. Highest(x)' = IF x = d /\ Highest(d) <= n THEN 0 ELSE Highest(x)
    BY <1>7
  <2>3. StreamMark(x)' = Higher(Highest(x)', marks[x])
    BY <1>1 DEF StreamMark, Higher
  <2> QED
    BY <1>2, <1>3, <2>1, <2>2, <2>3 DEF StreamMark, Higher
<1>9. Tall' = Tall
  BY <1>8 DEF Tall
<1>10. Held' = {row \in Held : row.origin = d => row.counter > n}
  BY <1>1 DEF Held
<1>11. n \in 1 .. Tall[d]
  BY <1>2, <1>3, TopIs DEF Tall
<1>12. \E x \in Device : \E m \in 1 .. Tall[x] :
         Held' = {row \in Held : row.origin = x => row.counter > m} /\ Tall' = Tall
  BY <1>2, <1>9, <1>10, <1>11
<1>13. Box!Next
  BY <1>12 DEF Box!Next, Box!Compact, Held, Tall
<1> QED
  BY <1>4, <1>5, <1>7, <1>13 DEF MigrationInv, BoxStep

-----------------------------------------------------------------------------
(* Theorems.                                                                *)

LEMMA StreamsHaveHighest ==
  ASSUME NEW low \in Height, NEW top \in Height,
         NEW body \in [Device -> Payload], NEW hashed \in BOOLEAN,
         packets = Streams(low, top, body, hashed)
  PROVE  HasHighest /\ packets \subseteq Row
<1>1. MaxCounter \in Nat
  BY BoundsAssumption
<1>2. SUFFICES ASSUME NEW d \in Device
               PROVE  \E n \in 0 .. MaxCounter : IsHighest(n, Stored(d))
  BY DEF HasHighest, Streams
<1>3. low[d] \in 0 .. MaxCounter /\ top[d] \in 0 .. MaxCounter
  BY DEF Height
<1>4. \A row \in Stored(d) : row.counter \in low[d] + 1 .. top[d]
  BY DEF Stored, Streams
<1>5. CASE low[d] < top[d]
  <2> DEFINE last == [origin |-> d, counter |-> top[d], payload |-> body[d],
                      hash |-> IF hashed THEN PayloadHash(body[d]) ELSE NoHash]
  <2>1. top[d] \in 1 .. MaxCounter /\ top[d] \in low[d] + 1 .. top[d]
    BY <1>1, <1>3, <1>5
  <2>2. last \in Row
    BY <2>1 DEF Row
  <2>3. last \in Stored(d)
    BY <2>1, <2>2 DEF Streams, Stored
  <2>4. \E row \in Stored(d) : row.counter = top[d]
    BY <2>3
  <2>5. \A row \in Stored(d) : row.counter <= top[d]
    BY <1>3, <1>4
  <2> QED
    BY <1>3, <2>4, <2>5 DEF IsHighest
<1>6. CASE ~(low[d] < top[d])
  <2>1. Stored(d) = {}
    BY <1>3, <1>4, <1>6
  <2> QED
    BY <1>1, <2>1 DEF IsHighest
<1> QED
  BY <1>5, <1>6

LEMMA InitOK == Init => MigrationInv
<1> SUFFICES ASSUME Init PROVE MigrationInv
  OBVIOUS
<1>1. MaxCounter \in Nat /\ 0 \in 0 .. MaxCounter
  BY BoundsAssumption
<1>2. SchemaOK /\ SlotOK
  BY DEF Init, SchemaOK, Beyond, SlotOK
<1>3. HashesOK
  BY DEF Init, InitNew, InitV1, InitBeforeMarks, InitAfterMarks, NoPackets,
         Streams, HashesOK, Serving
<1>4. HasHighest /\ packets \subseteq Row
  <2>1. CASE NoPackets
    BY <1>1, <2>1 DEF NoPackets, HasHighest, IsHighest, Stored
  <2>2. CASE InitBeforeMarks
    <3>1. PICK top \in Height, body \in [Device -> Payload] :
            packets = Streams([d \in Device |-> 0], top, body, FALSE)
      BY <2>2 DEF InitBeforeMarks
    <3>2. [d \in Device |-> 0] \in Height
      BY <1>1 DEF Height
    <3> QED
      BY <3>1, <3>2, StreamsHaveHighest
  <2>3. CASE \E hashed \in BOOLEAN : InitAfterMarks(hashed)
    BY <2>3, StreamsHaveHighest DEF InitAfterMarks
  <2> QED
    BY <2>1, <2>2, <2>3 DEF Init, InitNew, InitV1
<1>5. marks \in [Device -> 0 .. MaxCounter]
  <2>1. CASE NoPackets \/ InitBeforeMarks
    BY <1>1, <2>1 DEF NoPackets, InitBeforeMarks
  <2>2. CASE \E hashed \in BOOLEAN : InitAfterMarks(hashed)
    <3>1. PICK low \in Height, top \in Height :
            marks \in {[d \in Device |-> top[d]],
                      [d \in Device |-> IF low[d] < top[d] THEN top[d] - 1
                                                           ELSE top[d]]}
      BY <2>2 DEF InitAfterMarks
    <3>2. \A d \in Device : /\ low[d] \in 0 .. MaxCounter
                            /\ top[d] \in 0 .. MaxCounter
      BY DEF Height
    <3> QED
      BY <1>1, <3>1, <3>2
  <2> QED
    BY <2>1, <2>2 DEF Init, InitNew, InitV1
<1>6. /\ tables \subseteq V1Tables \cup V2Tables
      /\ columns \subseteq Columns
  BY DEF Init, InitNew, InitV1, InitBeforeMarks, InitAfterMarks, V1Tables,
         V2Tables, Columns
<1>7. Typed
  BY <1>1, <1>4, <1>5, <1>6, BoundsAssumption DEF Init, Typed
<1> QED
  BY <1>2, <1>3, <1>4, <1>7 DEF MigrationInv

LEMMA UnchangedOK ==
  ASSUME MigrationInv, UNCHANGED vars
  PROVE  MigrationInv' /\ Stutter
<1> USE DEF vars, file
<1>1. Typed' /\ SchemaOK' /\ HashesOK'
  BY DEF MigrationInv, Typed, SchemaOK, Beyond, HashesOK, Unhashed
<1>2. \A d \in Device : Stored(d)' = Stored(d)
  BY DEF Stored
<1>3. HasHighest'
  BY <1>2 DEF MigrationInv, HasHighest, IsHighest, Stored
<1>4. \A d \in Device : StreamMark(d)' = StreamMark(d)
  BY DEF StreamMark, Highest, IsHighest, Stored, Higher
<1>5. SlotOK'
  BY DEF MigrationInv, SlotOK, StreamMark, Highest, IsHighest, Stored, Higher
<1> QED
  BY <1>1, <1>3, <1>4, <1>5 DEF MigrationInv, Stutter, Held, Tall

(* Every step keeps the invariant and is a step of the mailbox or none. *)
LEMMA StepOK ==
  ASSUME MigrationInv, [Next]_vars
  PROVE  MigrationInv' /\ BoxStep
<1>1. ASSUME NEW d \in Device, NEW payload \in Payload, Box!Append(d, payload)
      PROVE  BoxStep
  BY <1>1 DEF BoxStep, Box!Next
<1>2. CASE Start
  BY <1>2, StartOK, StutterIsBoxStep
<1>3. CASE Open
  <2>1. CASE Drop("changes", "device_cursors")
               \/ Drop("device_cursors", "packets")
    BY <2>1, DropOK, StutterIsBoxStep
  <2>2. CASE Create("packets", "stream_marks")
               \/ Create("stream_marks", "is_snapshot")
    BY <2>2, CreateOK, StutterIsBoxStep
  <2>3. CASE AddColumn("is_snapshot", "payload_hash")
               \/ AddColumn("payload_hash", "select")
    BY <2>3, AddColumnOK, StutterIsBoxStep
  <2>4. CASE SelectBatch \/ SelectNone
    BY <2>4, SelectOK, StutterIsBoxStep
  <2>5. CASE Update
    BY <2>5, UpdateOK, StutterIsBoxStep
  <2>6. CASE Seed
    BY <2>6, SeedOK, StutterIsBoxStep
  <2> QED
    BY <1>3, <2>1, <2>2, <2>3, <2>4, <2>5, <2>6 DEF Open
<1>4. CASE Serve
  <2>1. ASSUME NEW d \in Device, NEW payload \in Payload, Insert(d, payload)
        PROVE  MigrationInv' /\ BoxStep
    BY <1>1, <2>1, InsertOK
  <2>2. ASSUME NEW d \in Device, NEW upTo \in 1 .. MaxCounter, Assert(d, upTo)
        PROVE  MigrationInv' /\ BoxStep
    BY <2>2, AssertOK, StutterIsBoxStep
  <2>3. CASE RaiseMark
    BY <2>3, RaiseMarkOK, StutterIsBoxStep
  <2>4. CASE Delete
    BY <2>4, DeleteOK
  <2>5. CASE Cut
    BY <2>5, StopOK, StutterIsBoxStep
  <2> QED
    BY <1>4, <2>1, <2>2, <2>3, <2>4, <2>5 DEF Serve
<1>5. CASE Crash
  BY <1>5, StopOK, StutterIsBoxStep
<1>6. ASSUME NEW d \in Device, NEW payload \in Payload, OlderBuild(d, payload)
      PROVE  MigrationInv' /\ BoxStep
  BY <1>1, <1>6, OlderBuildOK
<1>7. CASE UNCHANGED vars
  BY <1>7, UnchangedOK, StutterIsBoxStep
<1> QED
  BY <1>2, <1>3, <1>4, <1>5, <1>6, <1>7 DEF Next

LEMMA MigrationIsSafe == Spec => []MigrationInv
<1>1. MigrationInv /\ [Next]_vars => MigrationInv'
  BY StepOK
<1> QED
  BY InitOK, <1>1, PTL DEF Spec

(* Every variable has its type, and the relay serves only with the schema   *)
(* of this build and nothing of the v1 one (init and migrate before Open    *)
(* returns).                                                                *)
THEOREM SchemaComplete == Spec => []TypeOK
BY MigrationIsSafe, TypesFromInv, PTL

(* StreamHashes answers for every packet it holds of the range asked for,   *)
(* whatever build stored it and wherever the backfill was killed.           *)
THEOREM HashesAnswerForStream == Spec => []HashesSpeakForStream
BY MigrationIsSafe, HashesFromInv, PTL

(* Upgrading, rolling back and crashing, the file is one mailbox throughout.*)
THEOREM FileIsOneMailbox == Spec => OneMailbox
<1>1. MigrationInv /\ [Next]_vars => [Box!Next]_(Box!mailbox)
  BY StepOK DEF BoxStep
<1> QED
  BY MigrationIsSafe, <1>1, PTL DEF Spec, OneMailbox
=============================================================================

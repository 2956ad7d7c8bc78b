---------------------------- MODULE LoginProofs ----------------------------
(***************************************************************************)
(* Theorems of Login, for every set of names, every number of requests and *)
(* slots, every table size and every setting of the backoff.               *)
(***************************************************************************)
EXTENDS Login, FiniteSetTheorems, WellFoundedInduction, TLAPS

(* The fields of an entry are numbers, which is all the proofs need of them.*)
Timely(f) == f \in [count : Nat, quiet : Int, left : Int]

Timed(table) == \A n \in DOMAIN table : Timely(table[n])

HandlersTyped ==
  /\ req \in [Request -> Handler]
  /\ late \in [Name -> Nat]
  /\ Timed(entries)

(* The logins for a name that are past Wait, and not yet told the backoff. *)
Races(h, name) ==
  h.pc \in {"lookup", "queue", "hash", "fail"} /\ h.name = name

Racing(name) == {r \in Request : Races(req[r], name)}

(* A blocked name has used up some of its race, and the rest of the race is *)
(* still on its way: together not more than the other handlers.             *)
GuessesInv ==
  \A name \in Name :
    /\ late[name] <= Cardinality(Request) - 1
    /\ Blocked(entries, name, 0) =>
         late[name] + Cardinality(Racing(name)) <= Cardinality(Request) - 1

LoginInv == HandlersTyped /\ SlotsAccounted /\ GuessesInv

-----------------------------------------------------------------------------
(* Counting handlers.                                                       *)

LEMMA RequestsCounted ==
  /\ IsFiniteSet(Request)
  /\ Cardinality(Request) \in Nat /\ Cardinality(Request) >= 1
<1>1. IsFiniteSet(Request) /\ Request # {}
  BY RequestAssumption
<1>2. Cardinality(Request) \in Nat /\ Cardinality(Request) # 0
  BY <1>1, FS_CardinalityType, FS_EmptySet
<1> QED
  BY <1>1, <1>2

LEMMA SomeRequests ==
  ASSUME NEW S, S \subseteq Request
  PROVE  /\ IsFiniteSet(S) /\ Cardinality(S) \in Nat
         /\ Cardinality(S) <= Cardinality(Request)
BY RequestsCounted, FS_Subset, FS_CardinalityType

LEMMA OneMore ==
  ASSUME NEW S, S \subseteq Request, NEW r \in Request, r \notin S
  PROVE  Cardinality(S \cup {r}) = Cardinality(S) + 1
BY SomeRequests, FS_AddElement

LEMMA OneLess ==
  ASSUME NEW S, S \subseteq Request, NEW r \in S
  PROVE  Cardinality(S \ {r}) = Cardinality(S) - 1
BY SomeRequests, FS_RemoveElement

LEMMA NotAll ==
  ASSUME NEW S, S \subseteq Request, NEW r \in Request, r \notin S
  PROVE  Cardinality(S) <= Cardinality(Request) - 1
<1>1. S \subseteq Request \ {r}
  OBVIOUS
<1>2. Cardinality(Request \ {r}) = Cardinality(Request) - 1
  BY OneLess
<1>3. IsFiniteSet(Request \ {r})
  BY SomeRequests
<1>4. Cardinality(S) <= Cardinality(Request \ {r})
  BY <1>1, <1>3, FS_Subset
<1> QED
  BY <1>2, <1>4

LEMMA NoMore ==
  ASSUME NEW S, NEW T, S \subseteq T, T \subseteq Request
  PROVE  Cardinality(S) <= Cardinality(T)
BY SomeRequests, FS_Subset

-----------------------------------------------------------------------------
(* Powers of two.  A table of them up to any number exists and is unique,   *)
(* and Pow2 is what the tables agree on.                                    *)

LEMMA LeastNatural ==
  ASSUME NEW Bad \in SUBSET Nat, Bad # {}
  PROVE  \E n \in Bad : \A m \in Bad : n <= m
<1>1. PICK n \in Bad : \A m \in Bad : ~(<<m, n>> \in OpToRel(<, Nat))
  BY NatLessThanWellFounded, WFMin
<1>2. \A m \in Bad : ~(m < n)
  BY <1>1 DEF OpToRel
<1> QED
  BY <1>2

Doubles(g, m) ==
  /\ g \in [0 .. m -> Nat \ {0}]
  /\ g[0] = 1
  /\ \A n \in 1 .. m : g[n] = 2 * g[n - 1]

LEMMA TablesExist == \A m \in Nat : \E g : Doubles(g, m)
<1> DEFINE Bad == {m \in Nat : ~\E g : Doubles(g, m)}
<1> SUFFICES ASSUME Bad # {} PROVE FALSE
  OBVIOUS
<1>1. PICK m \in Bad : \A k \in Bad : m <= k
  BY LeastNatural
<1>2. m # 0
  <2>1. Doubles([n \in 0 .. 0 |-> 1], 0)
    BY DEF Doubles
  <2> QED
    BY <1>1, <2>1
<1>3. m - 1 \in Nat /\ m - 1 \notin Bad
  BY <1>1, <1>2
<1>4. PICK g : Doubles(g, m - 1)
  BY <1>3
<1> DEFINE h == [n \in 0 .. m |-> IF n = m THEN 2 * g[m - 1] ELSE g[n]]
<1>5. g \in [0 .. m - 1 -> Nat \ {0}] /\ g[0] = 1 /\ 0 \in 0 .. m - 1
  BY <1>3, <1>4 DEF Doubles
<1>6. \A n \in 0 .. m - 1 : h[n] = g[n]
  BY <1>1, <1>3
<1>7. h[m] = 2 * g[m - 1] /\ g[m - 1] \in Nat \ {0}
  BY <1>1, <1>3, <1>5
<1>8. \A n \in 0 .. m : h[n] \in Nat \ {0}
  BY <1>1, <1>3, <1>5, <1>6, <1>7
<1>9. h \in [0 .. m -> Nat \ {0}]
  BY <1>8
<1>10. \A n \in 1 .. m : h[n] = 2 * h[n - 1]
  <2>1. ASSUME NEW n \in 1 .. m
        PROVE  h[n] = 2 * h[n - 1]
    <3>1. CASE n = m
      BY <1>3, <1>6, <1>7, <3>1
    <3>2. CASE n # m
      <4>1. n \in 1 .. m - 1 /\ n - 1 \in 0 .. m - 1 /\ n \in 0 .. m - 1
        BY <1>1, <3>2
      <4> QED
        BY <1>4, <1>6, <4>1 DEF Doubles
    <3> QED
      BY <3>1, <3>2
  <2> QED
    BY <2>1
<1> HIDE DEF h
<1>11. Doubles(h, m)
  BY <1>5, <1>6, <1>9, <1>10 DEF Doubles
<1> QED
  BY <1>1, <1>11

LEMMA TablesAgree ==
  ASSUME NEW k \in Nat, NEW m \in Nat, NEW g, NEW h, Doubles(g, k), Doubles(h, m),
         NEW n \in Nat, n <= k, n <= m
  PROVE  g[n] = h[n]
<1> DEFINE Bad == {i \in 0 .. n : g[i] # h[i]}
<1> SUFFICES ASSUME Bad # {} PROVE FALSE
  OBVIOUS
<1>0. Bad \in SUBSET Nat
  OBVIOUS
<1>1. PICK i \in Bad : \A j \in Bad : i <= j
  <2> HIDE DEF Bad
  <2> QED
    BY <1>0, LeastNatural
<1>2. i # 0
  <2>1. g[0] = h[0]
    BY DEF Doubles
  <2> QED
    BY <1>1, <2>1
<1>3. i - 1 \in 0 .. n /\ i - 1 \notin Bad /\ i \in 1 .. k /\ i \in 1 .. m
  BY <1>1, <1>2
<1> QED
  BY <1>1, <1>3 DEF Doubles

(* Pow2's recurrence, which its definition only says of a function if one   *)
(* has it.                                                                  *)
LEMMA PowersDouble ==
  /\ Pow2[0] = 1
  /\ \A n \in Nat : Pow2[n] \in Nat \ {0} /\ Pow2[n + 1] = 2 * Pow2[n]
<1> DEFINE Upto(n) == CHOOSE g : Doubles(g, n)
           f == [n \in Nat |-> Upto(n)[n]]
<1>1. \A n \in Nat : Doubles(Upto(n), n)
  BY TablesExist
<1> HIDE DEF Upto
<1>2. f[0] = 1 /\ \A n \in Nat : f[n] \in Nat \ {0}
  BY <1>1 DEF Doubles
<1>3. ASSUME NEW n \in Nat, n # 0
      PROVE  f[n] = 2 * f[n - 1]
  <2>1. n - 1 \in Nat /\ n - 1 <= n /\ n \in 1 .. n
    BY <1>3
  <2>2. Upto(n)[n] = 2 * Upto(n)[n - 1]
    BY <1>1, <2>1 DEF Doubles
  <2>3. Upto(n)[n - 1] = Upto(n - 1)[n - 1]
    BY <1>1, <2>1, TablesAgree
  <2> QED
    BY <2>1, <2>2, <2>3
<1>4. f = [n \in Nat |-> IF n = 0 THEN 1 ELSE 2 * f[n - 1]]
  BY <1>2, <1>3
<1> HIDE DEF f
<1>5. Pow2 = [n \in Nat |-> IF n = 0 THEN 1 ELSE 2 * Pow2[n - 1]]
  BY <1>4 DEF Pow2
<1>6. Pow2[0] = 1 /\ \A n \in Nat : Pow2[n + 1] = 2 * Pow2[n]
  BY <1>5
<1> DEFINE Bad == {n \in Nat : Pow2[n] \notin Nat \ {0}}
<1>7. Bad = {}
  <2> SUFFICES ASSUME Bad # {} PROVE FALSE
    OBVIOUS
  <2>1. PICK n \in Bad : \A m \in Bad : n <= m
    BY LeastNatural
  <2>2. n # 0
    BY <1>6, <2>1
  <2>3. n - 1 \in Nat /\ n - 1 \notin Bad
    BY <2>1, <2>2
  <2>4. Pow2[n] = 2 * Pow2[n - 1]
    BY <1>6, <2>3
  <2> QED
    BY <2>1, <2>3, <2>4
<1> QED
  BY <1>6, <1>7

LEMMA PowersGrow ==
  ASSUME NEW m \in Nat, NEW n \in Nat, m <= n
  PROVE  Pow2[m] <= Pow2[n]
<1> DEFINE Bad == {k \in Nat : m <= k /\ ~(Pow2[m] <= Pow2[k])}
<1> SUFFICES ASSUME Bad # {} PROVE FALSE
  OBVIOUS
<1>1. PICK k \in Bad : \A j \in Bad : k <= j
  BY LeastNatural
<1>2. k # m
  BY <1>1, PowersDouble
<1>3. k - 1 \in Nat /\ m <= k - 1 /\ k - 1 \notin Bad
  BY <1>1, <1>2
<1>4. Pow2[k] = 2 * Pow2[k - 1] /\ Pow2[k - 1] \in Nat /\ Pow2[m] \in Nat
  BY <1>3, PowersDouble
<1> QED
  BY <1>1, <1>3, <1>4

-----------------------------------------------------------------------------
(* Times.                                                                   *)

LEMMA SmallestOf ==
  ASSUME NEW a \in Int, NEW b \in Int
  PROVE  Min({a, b}) \in {a, b} /\ Min({a, b}) <= a /\ Min({a, b}) <= b
BY DEF Min

LEMMA LargestOf ==
  ASSUME NEW a \in Int, NEW b \in Int
  PROVE  Max({a, b}) \in {a, b} /\ Max({a, b}) >= a /\ Max({a, b}) >= b
BY DEF Max

LEMMA LimitsAreNumbers ==
  /\ Free \in Nat /\ MaxLag \in Nat /\ Base \in Nat /\ Cap \in Nat
  /\ Forget \in Nat /\ Width \in Nat /\ HashWait \in Nat
  /\ Half \in Int /\ Half > 0
  /\ MaxCount \in Nat /\ MaxQuiet \in Nat /\ MaxQuiet > Forget
<1>1. Width - 1 \in Nat
  BY BackoffAssumption
<1>2. Half \in Int /\ Half > 0
  BY <1>1, PowersDouble DEF Half
<1> QED
  BY <1>2, BackoffAssumption, WaitAssumption DEF MaxCount, MaxQuiet

LEMMA DelaysAreNumbers ==
  ASSUME NEW over \in Nat \ {0}
  PROVE  Delay(over) \in Int
<1>1. over - 1 \in Nat /\ Base * Pow2[over - 1] \in Int
  BY LimitsAreNumbers, PowersDouble
<1>2. Shifted(Base, over - 1) \in Int
  BY <1>1, LimitsAreNumbers DEF Shifted
<1>3. Cap \in Int
  BY LimitsAreNumbers
<1>4. Min({Cap, Shifted(Base, over - 1)}) \in {Cap, Shifted(Base, over - 1)}
  BY <1>2, <1>3, SmallestOf, Zenon
<1> QED
  BY <1>2, <1>4, LimitsAreNumbers DEF Delay

LEMMA CountedIsTimely ==
  ASSUME NEW f, Timely(f), NEW lag \in Nat
  PROVE  Timely(Counted(f, lag))
<1> DEFINE count == Min({MaxCount, f.count + 1})
<1>1. count \in Nat
  <2>1. MaxCount \in Nat /\ f.count + 1 \in Nat
    BY LimitsAreNumbers DEF Timely
  <2>2. MaxCount \in Int /\ f.count + 1 \in Int
    BY <2>1
  <2>3. count \in {MaxCount, f.count + 1}
    BY <2>2, SmallestOf, Zenon
  <2> QED
    BY <2>1, <2>3
<1>2. count - Free > 0 => Delay(count - Free) \in Int
  BY <1>1, LimitsAreNumbers, DelaysAreNumbers
<1> QED
  BY <1>1, <1>2, LimitsAreNumbers DEF Counted, Timely

LEMMA FreshIsTimely == Timely(Fresh)
BY LimitsAreNumbers DEF Fresh, Timely

LEMMA FewerTimed ==
  ASSUME NEW table, Timed(table), NEW names
  PROVE  Timed(Without(table, names))
BY DEF Timed, Without

LEMMA WaitedTimed ==
  ASSUME NEW table, Timed(table), NEW name, NEW lag
  PROVE  Timed(Waited(table, name, lag))
BY FewerTimed DEF Waited

LEMMA FailedTimed ==
  ASSUME NEW table, Timed(table), NEW name, NEW lag \in Nat
  PROVE  Timed(Failed(table, name, lag))
<1> DEFINE known == name \in DOMAIN table
           room == IF ~known /\ Cardinality(DOMAIN table) >= MaxKeys
                   THEN Swept(table, lag) ELSE table
           f == IF known /\ ~Forgotten(table[name], lag) THEN table[name]
                ELSE Fresh
           filled == [n \in DOMAIN room \cup {name} |->
                        IF n = name THEN Counted(f, lag) ELSE room[n]]
<1>1. Timed(room)
  BY FewerTimed DEF Swept
<1>2. Timely(f)
  BY FreshIsTimely DEF Timed
<1>3. Timely(Counted(f, lag))
  BY <1>2, CountedIsTimely
<1> HIDE DEF room, f
<1>4. Timed(filled)
  BY <1>1, <1>3 DEF Timed
<1> QED
  BY <1>1, <1>4 DEF Failed, room, f

LEMMA AgedTimely ==
  ASSUME NEW f, Timely(f)
  PROVE  LET old == [f EXCEPT !.quiet = Min({MaxQuiet, @ + 1}),
                              !.left = Max({-MaxLag, @ - 1})]
         IN /\ Timely(old)
            /\ old.left > 0 => f.left > 0
            /\ old.quiet <= Forget => f.quiet <= Forget
<1> DEFINE quiet == Min({MaxQuiet, f.quiet + 1})
           left == Max({-MaxLag, f.left - 1})
           old == [f EXCEPT !.quiet = quiet, !.left = left]
<1>1. /\ f.quiet \in Int /\ f.left \in Int
      /\ f.quiet + 1 \in Int /\ f.left - 1 \in Int
      /\ MaxQuiet \in Int /\ -MaxLag \in Int
  BY LimitsAreNumbers DEF Timely
<1>2. quiet \in {MaxQuiet, f.quiet + 1} /\ quiet <= f.quiet + 1
  BY <1>1, SmallestOf, Zenon
<1>3. left \in {-MaxLag, f.left - 1}
  BY <1>1, LargestOf, Zenon
<1> HIDE DEF quiet, left
<1>4. old.quiet = quiet /\ old.left = left /\ Timely(old)
  BY <1>1, <1>2, <1>3 DEF Timely
<1>5. left > 0 => f.left > 0
  BY <1>1, <1>3, LimitsAreNumbers
<1>6. quiet <= Forget => f.quiet <= Forget
  BY <1>1, <1>2, LimitsAreNumbers
<1> QED
  BY <1>4, <1>5, <1>6 DEF quiet, left

LEMMA OlderTimed ==
  ASSUME NEW table, Timed(table)
  PROVE  /\ Timed(Older(table))
         /\ \A name : Blocked(Older(table), name, 0) => Blocked(table, name, 0)
<1>1. \A n \in DOMAIN table :
        /\ Timely(Older(table)[n])
        /\ Older(table)[n].left > 0 => table[n].left > 0
        /\ Older(table)[n].quiet <= Forget => table[n].quiet <= Forget
  BY AgedTimely DEF Older, Timed
<1>2. DOMAIN Older(table) = DOMAIN table
  BY DEF Older
<1>3. Timed(Older(table))
  BY <1>1, <1>2 DEF Timed
<1>4. ASSUME NEW name, Blocked(Older(table), name, 0)
      PROVE  Blocked(table, name, 0)
  <2>1. name \in DOMAIN table
    BY <1>2, <1>4 DEF Blocked
  <2>2. Timely(table[name]) /\ Timely(Older(table)[name])
    BY <1>1, <2>1 DEF Timed
  <2> QED
    BY <1>1, <1>4, <2>1, <2>2, LimitsAreNumbers DEF Blocked, Forgotten, Timely
<1> QED
  BY <1>3, <1>4

-----------------------------------------------------------------------------
(* What the backoff's operators do to a block in force.                     *)

(* A table with fewer names, or with one more failure of another. *)
LEMMA OthersBlocked ==
  ASSUME NEW table, NEW name, NEW other, other # name, NEW lag,
         Blocked(Failed(table, name, lag), other, 0)
  PROVE  Blocked(table, other, 0)
BY DEF Failed, Swept, Without, Blocked

LEMMA FewerBlocked ==
  ASSUME NEW table, NEW names, NEW other, Blocked(Without(table, names), other, 0)
  PROVE  Blocked(table, other, 0) /\ other \notin names
BY DEF Without, Blocked

LEMMA WaitedBlocked ==
  ASSUME NEW table, Timed(table), NEW name, NEW lag \in Nat, NEW other,
         Blocked(Waited(table, name, lag), other, 0)
  PROVE  /\ Blocked(table, other, 0)
         /\ other = name => Blocked(table, name, lag)
<1>1. Blocked(table, other, 0)
  BY FewerBlocked DEF Waited
<1>2. ASSUME other = name
      PROVE  Blocked(table, name, lag)
  <2>1. name \in DOMAIN table /\ ~Forgotten(table[name], lag)
    BY <1>1, <1>2, FewerBlocked DEF Blocked, Waited
  <2>2. table[name].left \in Int
    BY <2>1 DEF Timed, Timely
  <2> QED
    BY <1>1, <1>2, <2>1, <2>2 DEF Blocked
<1> QED
  BY <1>1, <1>2

-----------------------------------------------------------------------------
(* What one handler's step does to the sets that are counted.               *)

Becomes(r, h) == h \in Handler /\ req' = [req EXCEPT ![r] = h]

Holds(h) == h.pc \in {"hash", "insert"}

LEMMA OthersStay ==
  ASSUME HandlersTyped, NEW r \in Request, NEW h, Becomes(r, h)
  PROVE  /\ req' \in [Request -> Handler]
         /\ req'[r] = h
         /\ \A q \in Request : q # r => req'[q] = req[q]
BY DEF HandlersTyped, Becomes

Moved(h, to) == [h EXCEPT !.pc = to, !.lag = 0, !.queued = 0]

LEMMA GotoBecomes ==
  ASSUME HandlersTyped, NEW r \in Request, NEW from,
         NEW to \in {"lookup", "queue", "hash", "insert", "fail", "succeed"},
         Goto(r, from, to)
  PROVE  /\ Becomes(r, Moved(req[r], to))
         /\ Moved(req[r], to).pc = to
         /\ Moved(req[r], to).name = req[r].name
<1> DEFINE h == Moved(req[r], to)
<1>1. 0 \in 0 .. MaxLag /\ 0 \in 0 .. HashWait
  BY LimitsAreNumbers
<1>2. req[r] \in Handler
  BY DEF HandlersTyped
<1>3. h \in Handler /\ h.pc = to /\ h.name = req[r].name
  BY <1>1, <1>2 DEF Handler, Moved
<1>4. req' = [req EXCEPT ![r] = h]
  BY DEF Goto, HandlersTyped, Moved
<1> QED
  BY <1>3, <1>4 DEF Becomes

LEMMA BlankIsHandler ==
  /\ Blank \in Handler /\ Blank.pc = "idle"
  /\ ~Holds(Blank) /\ \A name : ~Races(Blank, name)
BY LimitsAreNumbers DEF Blank, Handler, Kinds, Holds, Races

(* A slot more, or less, exactly when a handler begins, or ends, to hold one.*)
LEMMA SlotStep ==
  ASSUME HandlersTyped, SlotsAccounted, NEW r \in Request, NEW h, Becomes(r, h),
         \/ Holds(h) /\ Holds(req[r]) /\ hashSlots' = hashSlots
         \/ ~Holds(h) /\ ~Holds(req[r]) /\ hashSlots' = hashSlots
         \/ Holds(h) /\ ~Holds(req[r]) /\ hashSlots' = hashSlots + 1
         \/ ~Holds(h) /\ Holds(req[r]) /\ hashSlots' = hashSlots - 1
  PROVE  SlotsAccounted'
<1>1. Holding = {q \in Request : Holds(req[q])}
      /\ Holding' = {q \in Request : Holds(req'[q])}
  BY DEF Holding, Holds
<1>2. Holding \subseteq Request /\ (r \in Holding <=> Holds(req[r]))
  BY <1>1
<1>3. CASE Holds(h) /\ ~Holds(req[r])
  <2>1. Holding' = Holding \cup {r}
    BY <1>1, <1>3, OthersStay
  <2> QED
    BY <1>2, <1>3, <2>1, OneMore DEF SlotsAccounted
<1>4. CASE ~Holds(h) /\ Holds(req[r])
  <2>1. Holding' = Holding \ {r}
    BY <1>1, <1>4, OthersStay
  <2> QED
    BY <1>2, <1>4, <2>1, OneLess DEF SlotsAccounted
<1>5. CASE Holds(h) <=> Holds(req[r])
  <2>1. Holding' = Holding
    BY <1>1, <1>5, OthersStay
  <2>2. hashSlots' = hashSlots
    BY <1>5
  <2> QED
    BY <2>1, <2>2 DEF SlotsAccounted
<1> QED
  BY <1>3, <1>4, <1>5

(* Where no name is newly blocked and no race newly joined. *)
LEMMA GuessesKept ==
  ASSUME LoginInv, late' \in [Name -> Nat],
         \A name \in Name : late'[name] <= late[name],
         \A name \in Name : Blocked(entries', name, 0) =>
           Blocked(entries, name, 0) /\ Racing(name)' \subseteq Racing(name)
  PROVE  GuessesInv'
<1>1. SUFFICES ASSUME NEW name \in Name
      PROVE  /\ late'[name] <= Cardinality(Request) - 1
             /\ Blocked(entries', name, 0) =>
                  late'[name] + Cardinality(Racing(name)') <= Cardinality(Request) - 1
  BY DEF GuessesInv
<1>2. late'[name] \in Nat /\ late[name] \in Nat /\ late'[name] <= late[name]
  BY DEF LoginInv, HandlersTyped
<1>3. late'[name] <= Cardinality(Request) - 1
  BY <1>2, RequestsCounted DEF LoginInv, GuessesInv
<1>4. ASSUME Blocked(entries', name, 0)
      PROVE  late'[name] + Cardinality(Racing(name)') <= Cardinality(Request) - 1
  <2>1. Racing(name) \subseteq Request /\ Racing(name)' \subseteq Request
    BY DEF Racing
  <2>2. Cardinality(Racing(name)') <= Cardinality(Racing(name))
        /\ Cardinality(Racing(name)') \in Nat /\ Cardinality(Racing(name)) \in Nat
    BY <1>4, <2>1, NoMore, SomeRequests
  <2>3. late[name] + Cardinality(Racing(name)) <= Cardinality(Request) - 1
    BY <1>4 DEF LoginInv, GuessesInv
  <2> QED
    BY <1>2, <2>2, <2>3, RequestsCounted
<1> QED
  BY <1>3, <1>4

(* The same for the step of one handler. *)
LEMMA GuessStep ==
  ASSUME LoginInv, late' \in [Name -> Nat], NEW r \in Request, NEW h,
         Becomes(r, h),
         \A name \in Name : late'[name] <= late[name],
         \A name \in Name : Blocked(entries', name, 0) =>
           /\ Blocked(entries, name, 0)
           /\ Races(h, name) => Races(req[r], name)
  PROVE  GuessesInv'
<1>1. HandlersTyped
  BY DEF LoginInv
<1>2. \A name \in Name : Blocked(entries', name, 0) =>
        Racing(name)' \subseteq Racing(name)
  BY <1>1, OthersStay DEF Racing, Races
<1> QED
  BY <1>2, GuessesKept

(* A step that leaves the backoff alone, and joins no race. *)
LEMMA PlainStep ==
  ASSUME LoginInv, NEW r \in Request, NEW h, Becomes(r, h),
         UNCHANGED <<entries, late>>,
         \A name \in Name : Races(h, name) => Races(req[r], name),
         \/ Holds(h) /\ Holds(req[r]) /\ hashSlots' = hashSlots
         \/ ~Holds(h) /\ ~Holds(req[r]) /\ hashSlots' = hashSlots
         \/ Holds(h) /\ ~Holds(req[r]) /\ hashSlots' = hashSlots + 1
         \/ ~Holds(h) /\ Holds(req[r]) /\ hashSlots' = hashSlots - 1
  PROVE  LoginInv'
<1>1. HandlersTyped /\ SlotsAccounted
  BY DEF LoginInv
<1>2. HandlersTyped'
  BY <1>1, OthersStay DEF HandlersTyped
<1>3. SlotsAccounted'
  BY <1>1, SlotStep
<1>4. \A name \in Name : late'[name] <= late[name]
  BY <1>1 DEF HandlersTyped
<1>5. late' \in [Name -> Nat]
  BY <1>2 DEF HandlersTyped
<1>6. GuessesInv'
  BY <1>4, <1>5, GuessStep
<1> QED
  BY <1>2, <1>3, <1>6 DEF LoginInv

-----------------------------------------------------------------------------
(* The steps that leave the backoff alone.                                  *)

LEMMA ArriveKeeps ==
  ASSUME LoginInv, NEW r \in Request,
         (\E name \in Name : \E right \in BOOLEAN : Login(r, name, right))
           \/ Create(r)
  PROVE  LoginInv'
<1>1. PICK h \in Handler :
        /\ req[r].pc = "idle" /\ req' = [req EXCEPT ![r] = h]
        /\ ~Holds(h)
        /\ \A name \in Name : ~Races(h, name)
        /\ UNCHANGED <<entries, hashSlots, late>>
  <2>1. ASSUME NEW name \in Name, NEW right \in BOOLEAN, Login(r, name, right)
        PROVE  \E h \in Handler :
                 /\ req[r].pc = "idle" /\ req' = [req EXCEPT ![r] = h]
                 /\ ~Holds(h)
                 /\ \A n \in Name : ~Races(h, n)
                 /\ UNCHANGED <<entries, hashSlots, late>>
    <3> DEFINE h == [Blank EXCEPT !.pc = "wait", !.name = name, !.right = right]
    <3>1. h \in Handler /\ h.pc = "wait"
      BY BlankIsHandler DEF Handler
    <3> QED
      BY <2>1, <3>1 DEF Login, Holds, Races
  <2>2. ASSUME Create(r)
        PROVE  \E h \in Handler :
                 /\ req[r].pc = "idle" /\ req' = [req EXCEPT ![r] = h]
                 /\ ~Holds(h)
                 /\ \A n \in Name : ~Races(h, n)
                 /\ UNCHANGED <<entries, hashSlots, late>>
    <3> DEFINE h == [Blank EXCEPT !.pc = "queue", !.kind = "create"]
    <3>1. h \in Handler /\ h.pc = "queue" /\ h.name = None
      <4>1. Blank \in Handler /\ Blank.name = None
        BY BlankIsHandler DEF Blank
      <4> QED
        BY <4>1 DEF Handler, Kinds
    <3>2. /\ req[r].pc = "idle" /\ req' = [req EXCEPT ![r] = h]
          /\ UNCHANGED <<entries, hashSlots, late>>
      BY <2>2 DEF Create
    <3> HIDE DEF h
    <3>3. ~Holds(h) /\ \A n \in Name : ~Races(h, n)
      BY <3>1, NoneAssumption DEF Holds, Races
    <3> QED
      BY <3>1, <3>2, <3>3
  <2> QED
    BY <2>1, <2>2
<1>2. Becomes(r, h) /\ ~Holds(req[r])
  BY <1>1 DEF Becomes, Holds
<1> QED
  BY <1>1, <1>2, PlainStep

(* An answer given without a slot, and without word to the backoff. *)
LEMMA AnswerKeeps ==
  ASSUME LoginInv, NEW r \in Request, req' = [req EXCEPT ![r] = Blank],
         UNCHANGED <<entries, late>>,
         \/ ~Holds(req[r]) /\ hashSlots' = hashSlots
         \/ Holds(req[r]) /\ hashSlots' = hashSlots - 1
  PROVE  LoginInv'
<1>1. Becomes(r, Blank)
  BY BlankIsHandler DEF Becomes
<1> QED
  BY <1>1, BlankIsHandler, PlainStep

(* From one stage to the next. *)
LEMMA GotoKeeps ==
  ASSUME LoginInv, NEW r \in Request, UNCHANGED <<entries, late>>,
         \/ Goto(r, "lookup", "queue") /\ hashSlots' = hashSlots
         \/ Goto(r, "queue", "hash") /\ hashSlots' = hashSlots + 1
         \/ Goto(r, "hash", "fail") /\ hashSlots' = hashSlots - 1
         \/ Goto(r, "hash", "succeed") /\ hashSlots' = hashSlots - 1
         \/ req[r].kind = "create" /\ Goto(r, "hash", "insert")
              /\ hashSlots' = hashSlots
  PROVE  LoginInv'
<1>1. HandlersTyped
  BY DEF LoginInv
<1>2. ASSUME NEW from \in {"lookup", "queue", "hash"},
             NEW to \in {"queue", "hash", "insert", "fail", "succeed"},
             Goto(r, from, to),
             \/ hashSlots' = hashSlots /\ (from = "hash" <=> to \in {"hash", "insert"})
             \/ hashSlots' = hashSlots + 1 /\ from # "hash" /\ to = "hash"
             \/ hashSlots' = hashSlots - 1 /\ from = "hash"
                  /\ to \notin {"hash", "insert"}
      PROVE  LoginInv'
  <2> DEFINE h == Moved(req[r], to)
  <2>1. Becomes(r, h) /\ h.pc = to /\ h.name = req[r].name
    BY <1>1, <1>2, GotoBecomes
  <2>2. req[r].pc = from
    BY <1>2 DEF Goto
  <2> HIDE DEF h
  <2>3. \A name \in Name : Races(h, name) => Races(req[r], name)
    BY <2>1, <2>2 DEF Races
  <2>4. (Holds(h) <=> to \in {"hash", "insert"}) /\ (Holds(req[r]) <=> from = "hash")
    BY <2>1, <2>2 DEF Holds
  <2> QED
    BY <1>2, <2>1, <2>3, <2>4, PlainStep
<1> QED
  BY <1>2

-----------------------------------------------------------------------------
(* The steps that ask the backoff, or tell it.                              *)

LEMMA WaitPassKeeps ==
  ASSUME LoginInv, NEW r \in Request, WaitPass(r)
  PROVE  LoginInv'
<1> DEFINE q == req[r]
           h == Moved(q, "lookup")
<1>1. /\ HandlersTyped /\ SlotsAccounted
      /\ Goto(r, "wait", "lookup") /\ q.pc = "wait"
      /\ ~Blocked(entries, q.name, q.lag)
      /\ entries' = Waited(entries, q.name, q.lag)
      /\ UNCHANGED <<hashSlots, late>>
  BY DEF WaitPass, LoginInv, Goto
<1>2. Becomes(r, h) /\ h.pc = "lookup" /\ h.name = q.name
  BY <1>1, GotoBecomes
<1>3. Timed(entries) /\ q.lag \in Nat
  BY <1>1, LimitsAreNumbers DEF HandlersTyped, Handler
<1> HIDE DEF h
<1>4. HandlersTyped'
  BY <1>1, <1>2, <1>3, OthersStay, WaitedTimed DEF HandlersTyped
<1>5. SlotsAccounted'
  BY <1>1, <1>2, SlotStep DEF Holds
<1>6. \A name \in Name : Blocked(entries', name, 0) =>
        Blocked(entries, name, 0) /\ (Races(h, name) => Races(req[r], name))
  <2> SUFFICES ASSUME NEW name \in Name, Blocked(entries', name, 0)
               PROVE  Blocked(entries, name, 0) /\ name # q.name
    BY <1>2 DEF Races
  <2>1. /\ Blocked(entries, name, 0)
        /\ name = q.name => Blocked(entries, q.name, q.lag)
    BY <1>1, <1>3, WaitedBlocked
  <2> QED
    BY <1>1, <2>1
<1>7. late' \in [Name -> Nat] /\ \A name \in Name : late'[name] <= late[name]
  BY <1>1 DEF HandlersTyped
<1>8. GuessesInv'
  BY <1>2, <1>6, <1>7, GuessStep
<1> QED
  BY <1>4, <1>5, <1>8 DEF LoginInv

LEMMA LateBecomes ==
  ASSUME late \in [Name -> Nat], NEW n, NEW k, n \in Name => k \in Nat,
         late' = [late EXCEPT ![n] = k]
  PROVE  /\ late' \in [Name -> Nat]
         /\ \A name \in Name : late'[name] = IF name = n THEN k ELSE late[name]
<1>1. CASE n \in Name
  BY <1>1
<1>2. CASE n \notin Name
  <2>1. late' = late
    BY <1>2
  <2> QED
    BY <1>2, <2>1
<1> QED
  BY <1>1, <1>2

LEMMA SucceedKeeps ==
  ASSUME LoginInv, NEW r \in Request, Succeed(r)
  PROVE  LoginInv'
<1> DEFINE n == req[r].name
<1>1. /\ HandlersTyped /\ SlotsAccounted
      /\ req[r].pc = "succeed" /\ req' = [req EXCEPT ![r] = Blank]
      /\ entries' = Without(entries, {n})
      /\ late' = [late EXCEPT ![n] = 0]
      /\ UNCHANGED hashSlots
  BY DEF Succeed, LoginInv, Answer
<1>2. Becomes(r, Blank)
  BY <1>1, BlankIsHandler DEF Becomes
<1>3. late' \in [Name -> Nat] /\ \A name \in Name : late'[name] <= late[name]
  <2>1. late \in [Name -> Nat]
    BY <1>1 DEF HandlersTyped
  <2>2. /\ late' \in [Name -> Nat]
        /\ \A name \in Name : late'[name] = IF name = n THEN 0 ELSE late[name]
    BY <1>1, <2>1, LateBecomes
  <2> QED
    BY <2>1, <2>2
<1>4. HandlersTyped'
  BY <1>1, <1>2, <1>3, OthersStay, FewerTimed DEF HandlersTyped
<1>5. SlotsAccounted'
  BY <1>1, <1>2, BlankIsHandler, SlotStep DEF Holds
<1>6. \A name \in Name : Blocked(entries', name, 0) => Blocked(entries, name, 0)
  BY <1>1, FewerBlocked
<1>7. GuessesInv'
  BY <1>2, <1>3, <1>6, BlankIsHandler, GuessStep
<1> QED
  BY <1>4, <1>5, <1>7 DEF LoginInv

LEMMA FailKeeps ==
  ASSUME LoginInv, NEW r \in Request, Fail(r)
  PROVE  LoginInv'
<1> DEFINE q == req[r]
           n == q.name
           count == IF Blocked(entries, n, 0) THEN late[n] + 1 ELSE 0
<1>1. /\ HandlersTyped /\ SlotsAccounted
      /\ q.pc = "fail" /\ req' = [req EXCEPT ![r] = Blank]
      /\ entries' = Failed(entries, n, q.lag)
      /\ late' = [late EXCEPT ![n] = count]
      /\ UNCHANGED hashSlots
  BY DEF Fail, LoginInv, Answer
<1>2. Becomes(r, Blank)
  BY <1>1, BlankIsHandler DEF Becomes
<1>3. q.lag \in Nat /\ Timed(entries) /\ late \in [Name -> Nat]
  BY <1>1, LimitsAreNumbers DEF HandlersTyped, Handler
<1>4. late' \in [Name -> Nat]
  <2>1. n \in Name => count \in Nat
    BY <1>3
  <2> QED
    BY <1>1, <1>3, <2>1, LateBecomes
<1>5. HandlersTyped'
  BY <1>1, <1>2, <1>3, <1>4, OthersStay, FailedTimed DEF HandlersTyped
<1>6. SlotsAccounted'
  BY <1>1, <1>2, BlankIsHandler, SlotStep DEF Holds
<1>7. ASSUME NEW name \in Name
      PROVE  /\ late'[name] <= Cardinality(Request) - 1
             /\ Blocked(entries', name, 0) =>
                  late'[name] + Cardinality(Racing(name)') <= Cardinality(Request) - 1
  <2>1. /\ Racing(name) \subseteq Request
        /\ Racing(name)' = Racing(name) \ {r}
    BY <1>1, <1>2, OthersStay, BlankIsHandler DEF Racing
  <2>2. /\ late[name] \in Nat /\ late[name] <= Cardinality(Request) - 1
        /\ Blocked(entries, name, 0) =>
             late[name] + Cardinality(Racing(name)) <= Cardinality(Request) - 1
    BY <1>3 DEF LoginInv, GuessesInv
  <2>3. /\ Cardinality(Racing(name)) \in Nat
        /\ Cardinality(Racing(name) \ {r}) \in Nat
        /\ Cardinality(Racing(name) \ {r}) <= Cardinality(Racing(name))
        /\ Cardinality(Racing(name) \ {r}) <= Cardinality(Request) - 1
    BY <2>1, SomeRequests, NoMore, NotAll
  <2>4. CASE name # n
    <3>1. late'[name] = late[name]
      BY <1>1, <1>3, <2>4
    <3>2. Blocked(entries', name, 0) => Blocked(entries, name, 0)
      BY <1>1, <2>4, OthersBlocked
    <3> QED
      BY <2>1, <2>2, <2>3, <3>1, <3>2, RequestsCounted
  <2>5. CASE name = n /\ Blocked(entries, n, 0)
    <3>1. late'[name] = late[name] + 1
      BY <1>1, <1>3, <2>5
    <3>2. r \in Racing(name)
      BY <1>1, <2>5 DEF Racing, Races
    <3>3. Cardinality(Racing(name) \ {r}) = Cardinality(Racing(name)) - 1
      BY <2>1, <3>2, OneLess
    <3> QED
      BY <2>1, <2>2, <2>3, <2>5, <3>1, <3>3, RequestsCounted
  <2>6. CASE name = n /\ ~Blocked(entries, n, 0)
    <3>1. late'[name] = 0
      BY <1>1, <1>3, <2>6
    <3> QED
      BY <2>1, <2>3, <3>1, RequestsCounted
  <2> QED
    BY <2>4, <2>5, <2>6
<1>8. GuessesInv'
  BY <1>7 DEF GuessesInv
<1> QED
  BY <1>5, <1>6, <1>8 DEF LoginInv

-----------------------------------------------------------------------------
(* Time, and restarts.                                                      *)

LEMMA TickKeeps ==
  ASSUME LoginInv, Tick
  PROVE  LoginInv'
<1> DEFINE older(h) ==
             [h EXCEPT
                !.lag = IF h.pc \in {"wait", "fail"} THEN @ + 1 ELSE 0,
                !.queued = IF h.pc = "queue" THEN Min({HashWait, @ + 1}) ELSE 0]
           count(name) == IF Blocked(Older(entries), name, 0) THEN late[name] ELSE 0
<1>1. /\ HandlersTyped /\ SlotsAccounted /\ GuessesInv
      /\ \A r \in Request : req[r].pc \in {"wait", "fail"} => req[r].lag < MaxLag
      /\ entries' = Older(entries)
      /\ req' = [r \in Request |-> older(req[r])]
      /\ late' = [name \in Name |-> count(name)]
      /\ hashSlots' = hashSlots
  BY DEF Tick, LoginInv
<1>2. ASSUME NEW r \in Request
      PROVE  req'[r] \in Handler /\ req'[r].pc = req[r].pc
             /\ req'[r].name = req[r].name
  <2> DEFINE h == req[r]
             lag == IF h.pc \in {"wait", "fail"} THEN h.lag + 1 ELSE 0
             queued == IF h.pc = "queue" THEN Min({HashWait, h.queued + 1}) ELSE 0
  <2>1. h \in Handler
    BY <1>1 DEF HandlersTyped
  <2>2. h.lag \in 0 .. MaxLag /\ h.queued \in 0 .. HashWait
    BY <2>1 DEF Handler
  <2>3. lag \in 0 .. MaxLag
    <3>1. h.pc \in {"wait", "fail"} => h.lag < MaxLag
      BY <1>1
    <3> HIDE DEF h
    <3> QED
      BY <2>2, <3>1, LimitsAreNumbers
  <2>4. queued \in 0 .. HashWait
    <3>1. HashWait \in Int /\ h.queued + 1 \in Int
      BY <2>2, LimitsAreNumbers
    <3>2. /\ Min({HashWait, h.queued + 1}) \in {HashWait, h.queued + 1}
          /\ Min({HashWait, h.queued + 1}) <= HashWait
      BY <3>1, SmallestOf, Zenon
    <3> QED
      BY <2>2, <3>2, LimitsAreNumbers
  <2>5. req'[r] = [h EXCEPT !.lag = lag, !.queued = queued]
    BY <1>1
  <2> HIDE DEF h, lag, queued
  <2>6. req'[r] \in Handler /\ req'[r].pc = h.pc /\ req'[r].name = h.name
    BY <2>1, <2>3, <2>4, <2>5 DEF Handler
  <2> QED
    BY <2>6 DEF h
<1>3. req' \in [Request -> Handler]
  BY <1>1, <1>2
<1>4. late' \in [Name -> Nat] /\ \A name \in Name : late'[name] <= late[name]
  <2>1. late \in [Name -> Nat]
    BY <1>1 DEF HandlersTyped
  <2>2. \A name \in Name : count(name) \in Nat /\ count(name) <= late[name]
    BY <2>1
  <2> HIDE DEF count
  <2> QED
    BY <1>1, <2>2
<1>5. HandlersTyped'
  BY <1>1, <1>3, <1>4, OlderTimed DEF HandlersTyped
<1>6. SlotsAccounted'
  <2>1. Holding' = Holding
    BY <1>2 DEF Holding
  <2> QED
    BY <1>1, <2>1 DEF SlotsAccounted
<1>7. \A name \in Name : Blocked(entries', name, 0) =>
        Blocked(entries, name, 0) /\ Racing(name)' \subseteq Racing(name)
  <2>1. \A name \in Name : Racing(name)' \subseteq Racing(name)
    BY <1>2 DEF Racing, Races
  <2>2. \A name : Blocked(entries', name, 0) => Blocked(entries, name, 0)
    BY <1>1, OlderTimed DEF HandlersTyped
  <2> QED
    BY <2>1, <2>2
<1>8. GuessesInv'
  BY <1>4, <1>7, GuessesKept
<1> QED
  BY <1>5, <1>6, <1>8 DEF LoginInv

(* The state a process starts in. *)
Started ==
  /\ entries = [name \in {} |-> 0]
  /\ hashSlots = 0
  /\ req = [r \in Request |-> Blank]
  /\ late = [name \in Name |-> 0]

LEMMA StartedIsGood == Started => LoginInv
<1> SUFFICES ASSUME Started PROVE LoginInv
  OBVIOUS
<1>1. HandlersTyped
  BY BlankIsHandler DEF Started, HandlersTyped, Timed
<1>2. SlotsAccounted
  <2>1. Holding = {}
    BY BlankIsHandler DEF Started, Holding
  <2> QED
    BY <2>1, FS_EmptySet DEF Started, SlotsAccounted
<1>3. GuessesInv
  BY RequestsCounted DEF Started, GuessesInv, Blocked
<1> QED
  BY <1>1, <1>2, <1>3 DEF LoginInv

LEMMA RestartKeeps ==
  ASSUME Restart
  PROVE  LoginInv'
<1>1. Started'
  BY DEF Restart, Started
<1>2. Started' => LoginInv'
  BY StartedIsGood, PTL
<1> QED
  BY <1>1, <1>2

-----------------------------------------------------------------------------
(* Theorems.                                                                *)

LEMMA NextKeeps == LoginInv /\ [Next]_vars => LoginInv'
<1> SUFFICES ASSUME LoginInv, [Next]_vars PROVE LoginInv'
  OBVIOUS
<1>1. ASSUME NEW r \in Request, Serve(r)
      PROVE  LoginInv'
  <2>1. CASE WaitRefuse(r) \/ GiveUp(r)
    BY <2>1, AnswerKeeps DEF WaitRefuse, GiveUp, Answer, Holds
  <2>2. CASE Created(r)
    BY <2>2, AnswerKeeps DEF Created, Answer, Holds
  <2>3. CASE Lookup(r) \/ Acquire(r) \/ Verify(r) \/ Hashed(r)
    BY <2>3, GotoKeeps DEF Lookup, Acquire, Verify, Hashed
  <2> QED
    BY <1>1, <2>1, <2>2, <2>3, WaitPassKeeps, FailKeeps, SucceedKeeps DEF Serve
<1>2. ASSUME NEW r \in Request, Leave(r)
      PROVE  LoginInv'
  BY <1>2, AnswerKeeps DEF Leave, Holds
<1>3. CASE UNCHANGED vars
  BY <1>3 DEF vars, LoginInv, HandlersTyped, SlotsAccounted, Holding, GuessesInv,
              Racing
<1> QED
  BY <1>1, <1>2, <1>3, ArriveKeeps, TickKeeps, RestartKeeps DEF Next

(* The invariant the theorems below follow from. *)
LEMMA LoginIsSafe == Spec => []LoginInv
<1>1. Init => LoginInv
  BY StartedIsGood DEF Init, Started
<1> QED
  BY <1>1, NextKeeps, PTL DEF Spec

(* acquireHash and its release are paired on every way out of login,        *)
(* register and adminCreateUser.                                            *)
THEOREM SlotsAreGivenBack == Spec => []SlotsAccounted
<1>1. LoginInv => SlotsAccounted
  BY DEF LoginInv
<1> QED
  BY <1>1, LoginIsSafe, PTL

(* However many handlers are between Wait and Fail, a blocked name lets  *)
(* no more guesses through than there are other handlers.                   *)
THEOREM GuessesAreBounded == Spec => []GuessesBounded
<1>1. LoginInv => GuessesBounded
  BY DEF LoginInv, GuessesInv, GuessesBounded
<1> QED
  BY <1>1, LoginIsSafe, PTL

-----------------------------------------------------------------------------
(* The table of names.                                                      *)

(* Entries of the table, and their number. *)
TableFits(table) ==
  /\ DOMAIN table \subseteq Name /\ IsFiniteSet(DOMAIN table)
  /\ Cardinality(DOMAIN table) <= MaxKeys
  /\ \A n \in DOMAIN table : table[n] \in Failures

LEMMA Scaled ==
  ASSUME NEW a \in Nat, NEW b \in Nat, NEW c \in Nat, a <= b
  PROVE  c * a <= c * b
OBVIOUS

(* No shift the code makes leaves the word. *)
LEMMA ShiftFits ==
  ASSUME NEW over \in Nat \ {0}, over < ShiftLimit
  PROVE  /\ Shifted(Base, over - 1) = Base * Pow2[over - 1]
         /\ Shifted(Base, over - 1) \in Nat
<1> DEFINE delay == Base * Pow2[over - 1]
           last == Base * Pow2[ShiftLimit - 2]
<1>1. /\ over - 1 \in Nat /\ ShiftLimit - 2 \in Nat /\ over - 1 <= ShiftLimit - 2
      /\ Base \in Nat /\ Half \in Int
  BY BackoffAssumption, LimitsAreNumbers
<1>2. Pow2[over - 1] \in Nat /\ Pow2[ShiftLimit - 2] \in Nat
  BY <1>1, PowersDouble
<1>3. delay \in Nat /\ last \in Nat
  BY <1>1, <1>2
<1>4. delay <= last
  BY <1>1, <1>2, PowersGrow, Scaled
<1>5. last < Half
  BY BackoffAssumption
<1> HIDE DEF delay, last
<1>6. delay % (2 * Half) = delay /\ delay < Half
  BY <1>1, <1>3, <1>4, <1>5
<1>7. Shifted(Base, over - 1) = delay
  BY <1>6 DEF Shifted, delay
<1> QED
  BY <1>3, <1>7 DEF delay

(* So a delay is never negative. *)
LEMMA DelayFits ==
  ASSUME NEW over \in Nat \ {0}
  PROVE  Delay(over) \in 0 .. Cap
<1>1. Cap \in Nat
  BY LimitsAreNumbers
<1>2. over < ShiftLimit => Shifted(Base, over - 1) \in Nat
  BY ShiftFits
<1>3. ASSUME over < ShiftLimit
      PROVE  Min({Cap, Shifted(Base, over - 1)}) \in 0 .. Cap
  <2>1. Cap \in Int /\ Shifted(Base, over - 1) \in Int
    BY <1>1, <1>2, <1>3
  <2>2. /\ Min({Cap, Shifted(Base, over - 1)}) \in {Cap, Shifted(Base, over - 1)}
        /\ Min({Cap, Shifted(Base, over - 1)}) <= Cap
    BY <2>1, SmallestOf, Zenon
  <2> QED
    BY <1>1, <1>2, <1>3, <2>2
<1> QED
  BY <1>1, <1>3 DEF Delay

LEMMA CountedFits ==
  ASSUME NEW f, f.count \in Nat, f.left \in -MaxLag .. Cap, NEW lag \in 0 .. MaxLag
  PROVE  Counted(f, lag) \in Failures
<1> DEFINE count == Min({MaxCount, f.count + 1})
           left == IF count - Free > 0 THEN Delay(count - Free) - lag ELSE f.left
<1>0. /\ MaxCount \in Nat \ {0} /\ Free \in Nat /\ MaxLag \in Nat /\ Cap \in Nat
      /\ MaxQuiet \in Nat /\ MaxLag <= MaxQuiet
  BY LimitsAreNumbers, BackoffAssumption DEF MaxCount, MaxQuiet
<1>1. count \in 1 .. MaxCount
  <2>1. MaxCount \in Int /\ f.count + 1 \in Int
    BY <1>0
  <2>2. count \in {MaxCount, f.count + 1} /\ count <= MaxCount
    BY <2>1, SmallestOf, Zenon
  <2> QED
    BY <1>0, <2>2
<1>2. left \in -MaxLag .. Cap
  <2>1. CASE count - Free > 0
    <3>1. count - Free \in Nat \ {0}
      BY <1>0, <1>1, <2>1
    <3>2. Delay(count - Free) \in 0 .. Cap
      BY <3>1, DelayFits
    <3> QED
      BY <1>0, <2>1, <3>2
  <2> QED
    BY <2>1
<1>3. Counted(f, lag) = [count |-> count, quiet |-> lag, left |-> left]
  BY DEF Counted
<1> HIDE DEF count, left
<1> QED
  BY <1>0, <1>1, <1>2, <1>3 DEF Failures

LEMMA FewerFits ==
  ASSUME NEW table, TableFits(table), NEW names
  PROVE  TableFits(Without(table, names))
<1>1. /\ DOMAIN Without(table, names) = DOMAIN table \ names
      /\ \A n \in DOMAIN table \ names : Without(table, names)[n] = table[n]
  BY DEF Without
<1>2. /\ IsFiniteSet(DOMAIN table \ names)
      /\ Cardinality(DOMAIN table \ names) <= Cardinality(DOMAIN table)
      /\ Cardinality(DOMAIN table) \in Nat
      /\ Cardinality(DOMAIN table \ names) \in Nat
  BY FS_Subset, FS_CardinalityType DEF TableFits
<1> QED
  BY <1>1, <1>2, BackoffAssumption DEF TableFits

(* A new name takes a place only when there is one. *)
LEMMA FailedFits ==
  ASSUME NEW table, TableFits(table), NEW name \in Name, NEW lag \in 0 .. MaxLag
  PROVE  TableFits(Failed(table, name, lag))
<1> DEFINE known == name \in DOMAIN table
           room == IF ~known /\ Cardinality(DOMAIN table) >= MaxKeys
                   THEN Swept(table, lag) ELSE table
           f == IF known /\ ~Forgotten(table[name], lag) THEN table[name]
                ELSE Fresh
           filled == [n \in DOMAIN room \cup {name} |->
                        IF n = name THEN Counted(f, lag) ELSE room[n]]
<1>1. TableFits(room)
  BY FewerFits DEF Swept
<1>2. f.count \in Nat /\ f.left \in -MaxLag .. Cap
  <2>1. CASE known /\ ~Forgotten(table[name], lag)
    <3>1. table[name] \in Failures
      BY <2>1 DEF TableFits
    <3> QED
      BY <2>1, <3>1 DEF Failures
  <2>2. CASE ~(known /\ ~Forgotten(table[name], lag))
    <3>1. Fresh.count \in Nat /\ Fresh.left \in -MaxLag .. Cap
      BY LimitsAreNumbers DEF Fresh
    <3> QED
      BY <2>2, <3>1
  <2> QED
    BY <2>1, <2>2
<1>3. Counted(f, lag) \in Failures
  <2> HIDE DEF f
  <2> QED
    BY <1>2, CountedFits
<1>4. known => name \in DOMAIN room
  OBVIOUS
<1> HIDE DEF room, f
<1>5. ASSUME known \/ Cardinality(DOMAIN room) < MaxKeys
      PROVE  TableFits(filled)
  <2>1. IsFiniteSet(DOMAIN room) /\ Cardinality(DOMAIN room) \in Nat
        /\ Cardinality(DOMAIN room) <= MaxKeys /\ MaxKeys \in Nat
    BY <1>1, FS_CardinalityType, BackoffAssumption DEF TableFits
  <2>2. /\ IsFiniteSet(DOMAIN room \cup {name})
        /\ Cardinality(DOMAIN room \cup {name}) <= MaxKeys
    <3>1. CASE name \in DOMAIN room
      <4>1. DOMAIN room \cup {name} = DOMAIN room
        BY <3>1
      <4> QED
        BY <2>1, <4>1
    <3>2. CASE name \notin DOMAIN room
      <4>1. Cardinality(DOMAIN room) < MaxKeys
        BY <1>4, <1>5, <3>2
      <4>2. /\ IsFiniteSet(DOMAIN room \cup {name})
            /\ Cardinality(DOMAIN room \cup {name}) = Cardinality(DOMAIN room) + 1
        BY <2>1, <3>2, FS_AddElement
      <4> QED
        BY <2>1, <4>1, <4>2
    <3> QED
      BY <3>1, <3>2
  <2>3. DOMAIN filled = DOMAIN room \cup {name}
    OBVIOUS
  <2>4. \A n \in DOMAIN filled : filled[n] \in Failures
    BY <1>1, <1>3 DEF TableFits
  <2>5. DOMAIN filled \subseteq Name
    BY <1>1, <2>3 DEF TableFits
  <2> HIDE DEF filled
  <2> QED
    BY <2>2, <2>3, <2>4, <2>5 DEF TableFits
<1>6. \/ Failed(table, name, lag) = filled /\ (known \/ Cardinality(DOMAIN room) < MaxKeys)
      \/ Failed(table, name, lag) = room
  <2>1. Cardinality(DOMAIN room) \in Nat /\ MaxKeys \in Nat
    BY <1>1, FS_CardinalityType, BackoffAssumption DEF TableFits
  <2> QED
    BY <2>1 DEF Failed, room, f
<1> QED
  BY <1>1, <1>5, <1>6

LEMMA OlderFits ==
  ASSUME NEW table, TableFits(table)
  PROVE  TableFits(Older(table))
<1>1. ASSUME NEW f \in Failures
      PROVE  [f EXCEPT !.quiet = Min({MaxQuiet, @ + 1}),
                       !.left = Max({-MaxLag, @ - 1})] \in Failures
  <2> DEFINE quiet == Min({MaxQuiet, f.quiet + 1})
             left == Max({-MaxLag, f.left - 1})
  <2>1. /\ f.quiet \in 0 .. MaxQuiet /\ f.left \in -MaxLag .. Cap
        /\ f.quiet + 1 \in Int /\ f.left - 1 \in Int
        /\ MaxQuiet \in Nat /\ MaxQuiet \in Int /\ -MaxLag \in Int
        /\ MaxLag \in Nat /\ Cap \in Nat
    BY LimitsAreNumbers DEF Failures
  <2>2. quiet \in {MaxQuiet, f.quiet + 1} /\ quiet <= MaxQuiet
    BY <2>1, SmallestOf, Zenon
  <2>3. left \in {-MaxLag, f.left - 1} /\ left >= -MaxLag
    BY <2>1, LargestOf, Zenon
  <2> HIDE DEF quiet, left
  <2>4. quiet \in 0 .. MaxQuiet /\ left \in -MaxLag .. Cap
    BY <2>1, <2>2, <2>3
  <2>5. [f EXCEPT !.quiet = quiet, !.left = left] \in Failures
    BY <2>4 DEF Failures
  <2> QED
    BY <2>5 DEF quiet, left
<1>2. DOMAIN Older(table) = DOMAIN table
      /\ \A n \in DOMAIN table : Older(table)[n] \in Failures
  BY <1>1 DEF Older, TableFits
<1> QED
  BY <1>2 DEF TableFits

(* A login has a name; a handler that only hashes never meets the backoff.  *)
Named(h) ==
  h.pc # "idle" => \/ h.kind = "login" /\ h.name \in Name
                   \/ h.kind = "create" /\ h.pc \in {"queue", "hash", "insert"}

TableInv ==
  /\ TableFits(entries) /\ hashSlots \in 0 .. Slots
  /\ \A r \in Request : Named(req[r])

LEMMA NamedStep ==
  ASSUME LoginInv, TableInv, [Next]_vars
  PROVE  \A r \in Request : Named(req'[r])
<1>0. /\ req \in [Request -> Handler]
      /\ \A r \in Request : req[r] \in Handler /\ Named(req[r])
  BY DEF LoginInv, HandlersTyped, TableInv
<1>1. ASSUME NEW r \in Request, NEW h, req' = [req EXCEPT ![r] = h], Named(h)
      PROVE  \A q \in Request : Named(req'[q])
  BY <1>0, <1>1
<1>2. ASSUME NEW r \in Request, NEW from, Answer(r, from) \/ Leave(r)
      PROVE  \A q \in Request : Named(req'[q])
  <2>1. Named(Blank)
    BY DEF Blank, Named
  <2> QED
    BY <1>1, <1>2, <2>1 DEF Answer, Leave
<1>3. ASSUME NEW r \in Request, NEW from \in {"wait", "lookup", "queue", "hash"},
             NEW to, Goto(r, from, to),
             to \in {"queue", "hash", "insert"} \/ req[r].kind = "login" \/ from = "wait"
      PROVE  \A q \in Request : Named(req'[q])
  <2> DEFINE h == Moved(req[r], to)
  <2>1. req' = [req EXCEPT ![r] = h]
    BY <1>0, <1>3 DEF Goto, Moved
  <2>2. req[r].pc = from /\ h.pc = to /\ h.kind = req[r].kind /\ h.name = req[r].name
    BY <1>0, <1>3 DEF Goto, Moved, Handler
  <2> HIDE DEF h
  <2>3. Named(h)
    BY <1>0, <1>3, <2>2 DEF Named
  <2> QED
    BY <1>1, <2>1, <2>3
<1>4. ASSUME NEW r \in Request, Create(r) \/ \E name \in Name, right \in BOOLEAN :
                                               Login(r, name, right)
      PROVE  \A q \in Request : Named(req'[q])
  <2>1. CASE Create(r)
    <3>1. req' = [req EXCEPT ![r] = [Blank EXCEPT !.pc = "queue", !.kind = "create"]]
      BY <2>1 DEF Create
    <3>2. Named([Blank EXCEPT !.pc = "queue", !.kind = "create"])
      BY DEF Blank, Named
    <3> QED
      BY <1>1, <3>1, <3>2
  <2>2. ASSUME NEW name \in Name, NEW right \in BOOLEAN, Login(r, name, right)
        PROVE  \A q \in Request : Named(req'[q])
    <3>1. req' = [req EXCEPT ![r] = [Blank EXCEPT !.pc = "wait", !.name = name,
                                                  !.right = right]]
      BY <2>2 DEF Login
    <3>2. Named([Blank EXCEPT !.pc = "wait", !.name = name, !.right = right])
      BY DEF Blank, Named
    <3> QED
      BY <1>1, <3>1, <3>2
  <2> QED
    BY <1>4, <2>1, <2>2
<1>5. CASE Tick
  <2>1. \A r \in Request : /\ req'[r].pc = req[r].pc /\ req'[r].kind = req[r].kind
                           /\ req'[r].name = req[r].name
    BY <1>0, <1>5 DEF Tick, Handler
  <2> QED
    BY <1>0, <2>1 DEF Named
<1>6. CASE Restart
  BY <1>6 DEF Restart, Blank, Named
<1>7. CASE UNCHANGED vars
  BY <1>0, <1>7 DEF vars
<1>8. ASSUME NEW r \in Request, Serve(r)
      PROVE  \A q \in Request : Named(req'[q])
  <2>1. CASE WaitPass(r) \/ Lookup(r) \/ Acquire(r) \/ Verify(r) \/ Hashed(r)
    <3>1. ASSUME Lookup(r) \/ Acquire(r) \/ Hashed(r)
          PROVE  \E from \in {"wait", "lookup", "queue", "hash"},
                    to \in {"queue", "hash", "insert"} : Goto(r, from, to)
      BY <3>1 DEF Lookup, Acquire, Hashed
    <3> QED
      BY <1>3, <2>1, <3>1 DEF WaitPass, Verify
  <2> QED
    BY <1>2, <1>8, <2>1 DEF Serve, WaitRefuse, GiveUp, Created, Fail, Succeed
<1> QED
  BY <1>2, <1>4, <1>5, <1>6, <1>7, <1>8 DEF Next

LEMMA TableStep ==
  ASSUME LoginInv, TableInv, [Next]_vars, LoginInv'
  PROVE  TableInv'
<1>1. \A r \in Request : req[r] \in Handler
  BY DEF LoginInv, HandlersTyped
<1>2. hashSlots \in Nat /\ Slots \in Nat /\ hashSlots <= Slots
  BY SlotsAssumption DEF TableInv
<1>3. hashSlots' \in 0 .. Slots
  <2>1. hashSlots' \in Nat
    <3>1. Cardinality(Holding') \in Nat
      BY SomeRequests DEF Holding
    <3> QED
      BY <3>1 DEF LoginInv, SlotsAccounted
  <2>2. \/ hashSlots' \in {hashSlots, hashSlots - 1, 0}
        \/ hashSlots < Slots /\ hashSlots' = hashSlots + 1
    BY DEF Next, vars, Login, Create, Serve, WaitPass, WaitRefuse, Lookup, Acquire,
       GiveUp, Verify, Hashed, Created, Fail, Succeed, Leave, Tick, Restart
  <2> QED
    BY <1>2, <2>1, <2>2
<1>4. TableFits(entries')
  <2>1. CASE entries' = entries
    BY <2>1 DEF TableInv
  <2>2. CASE \E names : entries' = Without(entries, names)
    BY <2>2, FewerFits DEF TableInv
  <2>3. ASSUME NEW r \in Request, Fail(r)
        PROVE  TableFits(entries')
    <3>1. req[r].name \in Name
      BY <2>3 DEF Fail, Answer, TableInv, Named
    <3>2. req[r].lag \in 0 .. MaxLag
      BY <1>1 DEF Handler
    <3> QED
      BY <2>3, <3>1, <3>2, FailedFits DEF Fail, TableInv
  <2>4. CASE Tick
    BY <2>4, OlderFits DEF Tick, TableInv
  <2>5. CASE Restart
    <3>1. entries' = [name \in {} |-> 0] /\ DOMAIN entries' = {}
      BY <2>5 DEF Restart
    <3> QED
      BY <3>1, FS_EmptySet, BackoffAssumption DEF TableFits
  <2>6. ASSUME NEW r \in Request, WaitPass(r) \/ Succeed(r)
        PROVE  entries' = entries \/ \E names : entries' = Without(entries, names)
    BY <2>6 DEF WaitPass, Waited, Succeed
  <2> QED
    BY <2>1, <2>2, <2>3, <2>4, <2>5, <2>6
       DEF Next, vars, Login, Create, Serve, WaitRefuse, Lookup, Acquire, GiveUp,
           Verify, Hashed, Created, Leave
<1> QED
  BY <1>3, <1>4, NamedStep DEF TableInv

LEMMA TableIsSafe == Spec => []TableInv
<1>1. Init => TableInv
  BY FS_EmptySet, BackoffAssumption, SlotsAssumption
     DEF Init, Blank, TableInv, TableFits, Named
<1>2. LoginInv /\ TableInv /\ [Next]_vars /\ LoginInv' => TableInv'
  BY TableStep
<1> QED
  BY <1>1, <1>2, LoginIsSafe, PTL DEF Spec

(* The table of failures stays within maxKeys, and no number of failures,   *)
(* however the shift of the delay is reached, makes a block longer than the *)
(* cap or, by overflow, negative.                                           *)
THEOREM TypesCorrect == Spec => []TypeOK
<1>1. LoginInv /\ TableInv => TypeOK
  BY DEF LoginInv, HandlersTyped, TableInv, TableFits, TypeOK
<1> QED
  BY <1>1, LoginIsSafe, TableIsSafe, PTL

-----------------------------------------------------------------------------
(* How long a block lasts.                                                  *)

(* More failures block longer: the delay doubles until it reaches the cap,  *)
(* which it has done by the time the shift stops.                           *)
LEMMA DelayGrows ==
  ASSUME NEW few \in Nat \ {0}, NEW many \in Nat, few <= many
  PROVE  Delay(few) <= Delay(many)
<1>1. Delay(few) \in 0 .. Cap /\ Delay(many) \in 0 .. Cap /\ Cap \in Nat
  BY DelayFits, LimitsAreNumbers
<1>2. CASE many < ShiftLimit
  <2>1. few < ShiftLimit
    BY <1>2, BackoffAssumption
  <2>2. Delay(few) <= Base * Pow2[few - 1]
    <3>1. /\ Shifted(Base, few - 1) = Base * Pow2[few - 1]
          /\ Shifted(Base, few - 1) \in Int /\ Cap \in Int
      BY <1>1, <2>1, ShiftFits
    <3> QED
      BY <2>1, <3>1, SmallestOf, Zenon DEF Delay
  <2>3. Delay(many) \in {Cap, Base * Pow2[many - 1]}
    <3>1. /\ Shifted(Base, many - 1) = Base * Pow2[many - 1]
          /\ Shifted(Base, many - 1) \in Int /\ Cap \in Int
      BY <1>1, <1>2, ShiftFits
    <3> QED
      BY <1>2, <3>1, SmallestOf, Zenon DEF Delay
  <2>4. Base * Pow2[few - 1] <= Base * Pow2[many - 1]
    <3>1. /\ few - 1 \in Nat /\ many - 1 \in Nat /\ few - 1 <= many - 1
      OBVIOUS
    <3> QED
      BY <3>1, PowersGrow, PowersDouble, Scaled, LimitsAreNumbers
  <2>5. Base * Pow2[few - 1] \in Int /\ Base * Pow2[many - 1] \in Int
    BY PowersDouble, LimitsAreNumbers
  <2> QED
    BY <1>1, <2>2, <2>3, <2>4, <2>5
<1>3. CASE ~(many < ShiftLimit)
  BY <1>1, <1>3 DEF Delay
<1> QED
  BY <1>2, <1>3

(* What an entry tells of its last failure: a name that is not yet past the *)
(* free failures has no block, a block is no longer than the delay of its   *)
(* count, and what is left of it and how long ago it began make up no more  *)
(* than the cap.                                                            *)
BlockFits(f) ==
  /\ f.count <= Free => f.left = -MaxLag
  /\ f.count > Free => f.left <= Delay(f.count - Free)
  /\ f.left > -MaxLag => f.quiet + f.left <= Cap

BlocksFit(table) == \A n \in DOMAIN table : BlockFits(table[n])

(* What is forgotten blocks no more, whatever the lag of who forgets it.    *)
LEMMA ForgottenIsOver ==
  ASSUME NEW f \in Failures, BlockFits(f), NEW lag \in 0 .. MaxLag,
         Forgotten(f, lag)
  PROVE  f.left = -MaxLag
BY LimitsAreNumbers, BackoffAssumption DEF Failures, BlockFits, Forgotten

LEMMA FreshFits == BlockFits(Fresh)
BY LimitsAreNumbers DEF BlockFits, Fresh

(* One more failure.  What it finds is the entry, or nothing. *)
LEMMA CountedBlocks ==
  ASSUME NEW f, f.count \in 0 .. MaxCount, f.left \in -MaxLag .. Cap,
         BlockFits(f), NEW lag \in 0 .. MaxLag
  PROVE  /\ BlockFits(Counted(f, lag))
         /\ Counted(f, lag).left >= f.left - MaxLag
<1> DEFINE count == Min({MaxCount, f.count + 1})
           left == IF count - Free > 0 THEN Delay(count - Free) - lag ELSE f.left
<1>0. /\ MaxCount \in Nat /\ Free \in Nat /\ MaxLag \in Nat /\ Cap \in Nat
      /\ Free < MaxCount
  BY LimitsAreNumbers, BackoffAssumption DEF MaxCount
<1>1. count \in {MaxCount, f.count + 1} /\ count \in Nat /\ f.count <= count
  <2>1. MaxCount \in Int /\ f.count + 1 \in Int
    BY <1>0
  <2>2. count \in {MaxCount, f.count + 1}
    BY <2>1, SmallestOf, Zenon
  <2> QED
    BY <1>0, <2>2
<1>2. Counted(f, lag) = [count |-> count, quiet |-> lag, left |-> left]
  BY DEF Counted
<1> HIDE DEF count
<1>3. CASE count - Free > 0
  <2>1. left = Delay(count - Free) - lag /\ Delay(count - Free) \in 0 .. Cap
    <3>1. count - Free \in Nat \ {0}
      BY <1>0, <1>1, <1>3
    <3> QED
      BY <1>3, <3>1, DelayFits
  <2>2. f.left <= Delay(count - Free)
    <3>1. CASE f.count <= Free
      BY <1>0, <2>1, <3>1 DEF BlockFits
    <3>2. CASE f.count > Free
      <4>1. /\ f.count - Free \in Nat \ {0} /\ count - Free \in Nat
            /\ f.count - Free <= count - Free
        BY <1>0, <1>1, <3>2
      <4>2. /\ Delay(f.count - Free) <= Delay(count - Free)
            /\ Delay(f.count - Free) \in 0 .. Cap
        BY <4>1, DelayGrows, DelayFits
      <4>3. f.left <= Delay(f.count - Free)
        BY <3>2 DEF BlockFits
      <4> QED
        BY <1>0, <2>1, <4>2, <4>3
    <3> QED
      BY <1>0, <3>1, <3>2
  <2> HIDE DEF left
  <2> QED
    BY <1>0, <1>1, <1>2, <1>3, <2>1, <2>2 DEF BlockFits
<1>4. CASE ~(count - Free > 0)
  <2>1. f.count <= Free /\ left = f.left /\ count <= Free
    BY <1>0, <1>1, <1>4
  <2> HIDE DEF left
  <2> QED
    BY <1>0, <1>1, <1>2, <2>1 DEF BlockFits
<1> QED
  BY <1>3, <1>4

(* How long a table blocks a name. *)
Left(table, name) == IF name \in DOMAIN table THEN table[name].left ELSE 0

Slack == Max({1, MaxLag})

(* A step from one table to another leaves a name's block in force. *)
Outlasts(table, new, name) == Left(new, name) >= Left(table, name) - Slack

LEMMA SlackFacts == Slack \in Nat /\ Slack >= 1 /\ Slack >= MaxLag
<1>1. 1 \in Int /\ MaxLag \in Int /\ MaxLag \in Nat
  BY LimitsAreNumbers
<1>2. Slack \in {1, MaxLag} /\ Slack >= 1 /\ Slack >= MaxLag
  BY <1>1, LargestOf, Zenon DEF Slack
<1> QED
  BY <1>1, <1>2

LEMMA LeftIs ==
  ASSUME NEW table, TableFits(table), NEW name
  PROVE  Left(table, name) \in -MaxLag .. Cap
BY LimitsAreNumbers DEF TableFits, Left, Failures

(* Names that are forgotten at some lag are dropped. *)
LEMMA DroppedBlocks ==
  ASSUME NEW table, TableFits(table), BlocksFit(table), NEW lag \in 0 .. MaxLag,
         NEW names, \A n \in DOMAIN table \cap names : Forgotten(table[n], lag)
  PROVE  /\ BlocksFit(Without(table, names))
         /\ \A name : Outlasts(table, Without(table, names), name)
<1>1. /\ DOMAIN Without(table, names) = DOMAIN table \ names
      /\ \A n \in DOMAIN table \ names : Without(table, names)[n] = table[n]
  BY DEF Without
<1>2. BlocksFit(Without(table, names))
  BY <1>1 DEF BlocksFit
<1>3. ASSUME NEW name
      PROVE  Outlasts(table, Without(table, names), name)
  <2>1. CASE name \in DOMAIN table \cap names
    <3>1. table[name].left = -MaxLag
      BY <2>1, ForgottenIsOver DEF TableFits, BlocksFit
    <3>2. Left(Without(table, names), name) = 0 /\ Left(table, name) = -MaxLag
      BY <1>1, <2>1, <3>1 DEF Left
    <3> QED
      BY <3>2, SlackFacts, LimitsAreNumbers DEF Outlasts
  <2>2. CASE name \notin DOMAIN table \cap names
    <3>1. Left(Without(table, names), name) = Left(table, name)
      BY <1>1, <2>2 DEF Left
    <3> QED
      BY <3>1, LeftIs, SlackFacts, LimitsAreNumbers DEF Outlasts
  <2> QED
    BY <2>1, <2>2
<1> QED
  BY <1>2, <1>3

LEMMA FailedBlocks ==
  ASSUME NEW table, TableFits(table), BlocksFit(table), NEW name,
         NEW lag \in 0 .. MaxLag
  PROVE  /\ BlocksFit(Failed(table, name, lag))
         /\ \A n : Outlasts(table, Failed(table, name, lag), n)
<1> DEFINE known == name \in DOMAIN table
           room == IF ~known /\ Cardinality(DOMAIN table) >= MaxKeys
                   THEN Swept(table, lag) ELSE table
           f == IF known /\ ~Forgotten(table[name], lag) THEN table[name]
                ELSE Fresh
           filled == [n \in DOMAIN room \cup {name} |->
                        IF n = name THEN Counted(f, lag) ELSE room[n]]
<1>0. MaxLag \in Nat /\ Cap \in Nat /\ MaxCount \in Nat
  BY LimitsAreNumbers
<1>1. BlocksFit(room) /\ \A n : Outlasts(table, room, n)
  <2>1. BlocksFit(Swept(table, lag)) /\ \A n : Outlasts(table, Swept(table, lag), n)
    BY DroppedBlocks DEF Swept
  <2>2. \A n : Outlasts(table, table, n)
    BY LeftIs, SlackFacts, LimitsAreNumbers DEF Outlasts
  <2> QED
    BY <2>1, <2>2
<1>2. /\ f.count \in 0 .. MaxCount /\ f.left \in -MaxLag .. Cap /\ BlockFits(f)
      /\ known => f.left = table[name].left
      /\ ~known => f.left = -MaxLag
  <2>1. CASE known /\ ~Forgotten(table[name], lag)
    BY <1>0, <2>1 DEF TableFits, BlocksFit, Failures
  <2>2. CASE ~(known /\ ~Forgotten(table[name], lag))
    <3>1. f = Fresh /\ Fresh.count = 0 /\ Fresh.left = -MaxLag
      BY <2>2 DEF Fresh
    <3>2. known => table[name].left = -MaxLag
      BY <2>2, ForgottenIsOver DEF TableFits, BlocksFit
    <3> QED
      BY <1>0, <3>1, <3>2, FreshFits
  <2> QED
    BY <2>1, <2>2
<1>3. known => room = table
  OBVIOUS
<1> HIDE DEF f
<1>4. BlockFits(Counted(f, lag)) /\ Counted(f, lag).left >= f.left - MaxLag
  BY <1>2, CountedBlocks
<1>5. Counted(f, lag) \in Failures
  BY <1>2, CountedFits
<1>6. BlocksFit(filled)
  BY <1>1, <1>4 DEF BlocksFit
<1>7. ASSUME NEW n
      PROVE  Outlasts(table, filled, n)
  <2>1. CASE n # name
    <3>1. Left(filled, n) = Left(room, n)
      BY <2>1 DEF Left
    <3> QED
      BY <1>1, <3>1 DEF Outlasts
  <2>2. CASE n = name
    <3>1. /\ Left(filled, n) = Counted(f, lag).left
          /\ Counted(f, lag).left \in -MaxLag .. Cap
      BY <1>5, <2>2 DEF Left, Failures
    <3>2. known => Left(table, n) = f.left
      BY <1>2, <2>2 DEF Left
    <3>3. ~known => Left(table, n) = 0
      BY <2>2 DEF Left
    <3> QED
      BY <1>0, <1>2, <1>4, <3>1, <3>2, <3>3, SlackFacts DEF Outlasts
  <2> QED
    BY <2>1, <2>2
<1>8. Failed(table, name, lag) = filled \/ Failed(table, name, lag) = room
  BY DEF Failed, f
<1> HIDE DEF filled, room
<1> QED
  BY <1>1, <1>6, <1>7, <1>8

LEMMA OlderBlocks ==
  ASSUME NEW table, TableFits(table), BlocksFit(table)
  PROVE  /\ BlocksFit(Older(table))
         /\ \A name : Outlasts(table, Older(table), name)
<1>0. DOMAIN Older(table) = DOMAIN table
  BY DEF Older
<1>1. ASSUME NEW n \in DOMAIN table
      PROVE  /\ BlockFits(Older(table)[n])
             /\ Older(table)[n].left >= table[n].left - 1
             /\ Older(table)[n].left \in Int
  <2> DEFINE f == table[n]
             quiet == Min({MaxQuiet, f.quiet + 1})
             left == Max({-MaxLag, f.left - 1})
  <2>1. /\ f \in Failures /\ BlockFits(f)
        /\ f.quiet \in 0 .. MaxQuiet /\ f.left \in -MaxLag .. Cap
        /\ f.quiet + 1 \in Int /\ f.left - 1 \in Int /\ f.count \in Nat
        /\ MaxQuiet \in Int /\ -MaxLag \in Int
        /\ MaxLag \in Nat /\ Cap \in Nat /\ Free \in Nat
    BY LimitsAreNumbers DEF TableFits, BlocksFit, Failures
  <2>2. quiet \in {MaxQuiet, f.quiet + 1} /\ quiet <= f.quiet + 1
    BY <2>1, SmallestOf, Zenon
  <2>3. left \in {-MaxLag, f.left - 1} /\ left >= -MaxLag /\ left >= f.left - 1
    BY <2>1, LargestOf, Zenon
  <2>4. Older(table)[n] = [f EXCEPT !.quiet = quiet, !.left = left]
    BY DEF Older
  <2> HIDE DEF f, quiet, left
  <2>5. /\ Older(table)[n].count = f.count /\ Older(table)[n].quiet = quiet
        /\ Older(table)[n].left = left
    BY <2>1, <2>4 DEF Failures
  <2>6. BlockFits(Older(table)[n])
    <3>1. f.count > Free => Delay(f.count - Free) \in 0 .. Cap
      BY <2>1, DelayFits
    <3>2. left <= f.left
      BY <2>1, <2>3
    <3> QED
      BY <2>1, <2>2, <2>3, <2>5, <3>1, <3>2 DEF BlockFits
  <2> QED
    BY <2>1, <2>3, <2>5, <2>6 DEF f
<1>2. BlocksFit(Older(table))
  BY <1>0, <1>1 DEF BlocksFit
<1>3. ASSUME NEW name
      PROVE  Outlasts(table, Older(table), name)
  <2>1. CASE name \in DOMAIN table
    BY <1>0, <1>1, <2>1, LeftIs, SlackFacts, LimitsAreNumbers DEF Outlasts, Left
  <2>2. CASE name \notin DOMAIN table
    BY <1>0, <2>2, SlackFacts DEF Outlasts, Left
  <2> QED
    BY <2>1, <2>2
<1> QED
  BY <1>2, <1>3

BlocksInv == BlocksFit(entries)

(* Each step, for the table and for each name. *)
LEMMA BlockStep ==
  ASSUME LoginInv, TableInv, BlocksFit(entries), [Next]_vars
  PROVE  /\ BlocksFit(entries')
         /\ \A name \in Name :
              \/ Outlasts(entries, entries', name)
              \/ \E r \in Request : Succeed(r) /\ req[r].name = name
              \/ Restart
<1>0. /\ \A r \in Request : req[r] \in Handler
      /\ TableFits(entries)
  BY DEF LoginInv, HandlersTyped, TableInv
<1>1. \A r \in Request : req[r].lag \in 0 .. MaxLag
  BY <1>0 DEF Handler
<1>2. CASE entries' = entries
  BY <1>0, <1>2, LeftIs, SlackFacts, LimitsAreNumbers DEF Outlasts
<1>3. ASSUME NEW r \in Request, WaitPass(r)
      PROVE  BlocksFit(entries') /\ \A name : Outlasts(entries, entries', name)
  <2> DEFINE name == req[r].name
             lag == req[r].lag
  <2>1. CASE name \in DOMAIN entries /\ Forgotten(entries[name], lag)
    <3>1. entries' = Without(entries, {name})
      BY <1>3, <2>1 DEF WaitPass, Waited
    <3> QED
      BY <1>0, <1>1, <2>1, <3>1, DroppedBlocks
  <2>2. CASE ~(name \in DOMAIN entries /\ Forgotten(entries[name], lag))
    <3>1. entries' = entries
      BY <1>3, <2>2 DEF WaitPass, Waited
    <3> QED
      BY <1>0, <3>1, LeftIs, SlackFacts, LimitsAreNumbers DEF Outlasts
  <2> QED
    BY <2>1, <2>2
<1>4. ASSUME NEW r \in Request, Fail(r)
      PROVE  BlocksFit(entries') /\ \A name : Outlasts(entries, entries', name)
  BY <1>0, <1>1, <1>4, FailedBlocks DEF Fail
<1>5. ASSUME NEW r \in Request, Succeed(r)
      PROVE  /\ BlocksFit(entries')
             /\ \A name : Outlasts(entries, entries', name) \/ req[r].name = name
  <2>1. entries' = Without(entries, {req[r].name})
    BY <1>5 DEF Succeed
  <2>2. /\ DOMAIN entries' = DOMAIN entries \ {req[r].name}
        /\ \A n \in DOMAIN entries' : entries'[n] = entries[n]
    BY <2>1 DEF Without
  <2>3. BlocksFit(entries')
    BY <2>2 DEF BlocksFit
  <2>4. \A name : name # req[r].name => Left(entries', name) = Left(entries, name)
    BY <2>2 DEF Left
  <2> QED
    BY <1>0, <2>3, <2>4, LeftIs, SlackFacts, LimitsAreNumbers DEF Outlasts
<1>6. CASE Tick
  BY <1>0, <1>6, OlderBlocks DEF Tick
<1>7. CASE Restart
  BY <1>7 DEF Restart, BlocksFit
<1> QED
  BY <1>2, <1>3, <1>4, <1>5, <1>6, <1>7
     DEF Next, vars, Login, Create, Serve, WaitRefuse, Lookup, Acquire, GiveUp,
         Verify, Hashed, Created, Leave

(* A block that is in force stays in force: no sweep of a full table, no    *)
(* failure that is recorded late or out of turn, no forgetting by a caller  *)
(* with an old clock and no overflow of the delay ends it or makes it       *)
(* shorter by more than the lag.                                            *)
THEOREM BlocksAreKept == Spec => BlocksLast
<1>1. Init => BlocksInv
  BY DEF Init, BlocksInv, BlocksFit
<1>2. LoginInv /\ TableInv /\ BlocksInv /\ [Next]_vars => BlocksInv'
  BY BlockStep DEF BlocksInv
<1>3. LoginInv /\ TableInv /\ BlocksInv /\ [Next]_vars =>
        [\A name \in Name :
           \/ Remaining(name)' >= Remaining(name) - Max({1, MaxLag})
           \/ \E r \in Request : Succeed(r) /\ req[r].name = name
           \/ Restart]_vars
  BY BlockStep DEF BlocksInv, Outlasts, Left, Slack, Remaining
<1> QED
  BY <1>1, <1>2, <1>3, LoginIsSafe, TableIsSafe, PTL DEF Spec, BlocksLast
=============================================================================

-------------------------- MODULE RateLimitProofs --------------------------
(***************************************************************************)
(* The limiter, for every set of clients, proxies, headers and handlers,   *)
(* every rate and every lag: the key a client is metered under is its own, *)
(* whatever header it sends along; the table of buckets keeps to its       *)
(* limit; and a client gets its allowance, no more and no less.            *)
(*                                                                         *)
(* The last is an argument about levels.  The level of a bucket is what it *)
(* would have held at time 0: refilling leaves it alone, whatever the      *)
(* order of the stamps, but for the cut at the burst.  BoundInv relates    *)
(* the level to all that was granted since any s, SpentInv to what was     *)
(* granted since the bucket was last full, DueInv to the wait announced.   *)
(***************************************************************************)
EXTENDS RateLimit, SumProofs, SequenceTheorems

(* The record of a handler has the fields of Handler. *)
Shaped(h) ==
  \E P, F, K, A, D : h \in [pc : P, from : F, key : K, at : A, due : D]

OwnKey(h) == h.pc # "idle" => h.key = h.from

HandlersInv ==
  /\ req = [r \in Request |-> req[r]]
  /\ \A r \in Request : Shaped(req[r]) /\ OwnKey(req[r])

TableInv ==
  IsFiniteSet(DOMAIN buckets) /\ Cardinality(DOMAIN buckets) <= MaxKeys

-----------------------------------------------------------------------------
(* clientIP.                                                                *)

LEMMA MaxIs ==
  ASSUME NEW S \in SUBSET Int, NEW n \in S, \A m \in S : m <= n
  PROVE  Max(S) = n
<1>1. \A y \in S : n >= y
  OBVIOUS
<1>2. \A x \in S : (\A y \in S : x >= y) => x = n
  OBVIOUS
<1> QED BY <1>1, <1>2 DEF Max

(* Each proxy appends the address it was called from: what the first one    *)
(* appended is the client's address, and all behind it are trusted.         *)
LEMMA ProxiesVouch ==
  ASSUME NEW client \in Client, NEW path \in Paths, NEW header \in Headers,
         path # <<>>
  PROVE  LET seen == Seen(client, path, header)
             n == Len(header) + 1
         IN /\ seen.peer \in Trusted
            /\ DOMAIN seen.hops = 1 .. Len(seen.hops) /\ Len(seen.hops) \in Nat
            /\ n \in DOMAIN seen.hops /\ seen.hops[n] = client
            /\ \A i \in DOMAIN seen.hops : i > n => seen.hops[i] \in Trusted
<1> DEFINE Hop == Client \cup Trusted \cup {Garbage}
           proxies == SubSeq(path, 1, Len(path) - 1)
           front == header \o <<client>>
           hops == front \o proxies
           n == Len(header) + 1
<1>1. path \in Seq(Trusted) /\ header \in Seq(Hop)
  BY AddressAssumption
<1>2. Len(path) \in Nat \ {0} /\ \A i \in 1 .. Len(path) : path[i] \in Trusted
  BY <1>1, EmptySeq, ElementOfSeq
<1>3. /\ proxies \in Seq(Trusted) /\ Len(proxies) \in Nat
      /\ \A i \in 1 .. Len(proxies) : proxies[i] \in Trusted
  <2>1. \A i \in 1 .. Len(path) - 1 : path[i] \in Trusted
    BY <1>2
  <2>2. proxies \in Seq(Trusted)
    BY <1>2, <2>1, SubSeqProperties
  <2> QED BY <2>2, LenProperties, ElementOfSeq
<1>4. <<client>> \in Seq(Hop) /\ Len(<<client>>) = 1 /\ <<client>>[1] = client
  OBVIOUS
<1>5. Len(header) \in Nat
  BY <1>1, LenProperties
<1> HIDE DEF proxies, Hop
<1>6. /\ front \in Seq(Hop) /\ Len(front) = n /\ front[n] = client
  <2>1. /\ front \in Seq(Hop) /\ Len(front) = Len(header) + 1
        /\ \A i \in 1 .. Len(header) + 1 :
             front[i] = IF i <= Len(header) THEN header[i]
                        ELSE <<client>>[i - Len(header)]
    BY <1>1, <1>4, ConcatProperties
  <2>2. n \in 1 .. Len(header) + 1 /\ ~(n <= Len(header)) /\ n - Len(header) = 1
    BY <1>5
  <2> QED BY <1>4, <2>1, <2>2
<1>7. proxies \in Seq(Hop)
  BY <1>3, SeqMonotonic DEF Hop
<1> HIDE DEF front
<1>8. /\ hops \in Seq(Hop) /\ Len(hops) = n + Len(proxies)
      /\ \A i \in 1 .. n + Len(proxies) :
           hops[i] = IF i <= n THEN front[i] ELSE proxies[i - n]
  <2>1. /\ front \o proxies \in Seq(Hop)
        /\ Len(front \o proxies) = Len(front) + Len(proxies)
        /\ \A i \in 1 .. Len(front) + Len(proxies) :
             (front \o proxies)[i] = IF i <= Len(front) THEN front[i]
                                     ELSE proxies[i - Len(front)]
    BY <1>6, <1>7, ConcatProperties
  <2> QED BY <1>6, <2>1
<1>9. DOMAIN hops = 1 .. Len(hops) /\ Len(hops) \in Nat
  BY <1>8, LenProperties
<1> HIDE DEF hops
<1>10. n \in DOMAIN hops /\ hops[n] = client
  BY <1>3, <1>5, <1>6, <1>8, <1>9
<1>11. ASSUME NEW i \in DOMAIN hops, i > n
       PROVE  hops[i] \in Trusted
  <2>1. i \in 1 .. n + Len(proxies) /\ i - n \in 1 .. Len(proxies)
    BY <1>3, <1>5, <1>8, <1>9, <1>11
  <2> QED BY <1>3, <1>5, <1>8, <1>11, <2>1
<1>12. /\ Seen(client, path, header).peer = path[Len(path)]
       /\ Seen(client, path, header).hops = hops
  BY DEF Seen, hops, front, proxies
<1>13. path[Len(path)] \in Trusted
  BY <1>2
<1> QED BY <1>9, <1>10, <1>11, <1>12, <1>13

(* So the walk from the right ends at the client. *)
LEMMA OwnAddress ==
  ASSUME NEW client \in Client, NEW path \in Paths, NEW header \in Headers
  PROVE  LET seen == Seen(client, path, header)
         IN ClientIP(seen.peer, seen.hops) = Group[client]
<1>1. client \notin Trusted /\ client # Garbage
  BY AddressAssumption
<1>2. CASE path = <<>>
  <2>1. Seen(client, path, header).peer = client
    BY <1>2 DEF Seen
  <2> QED BY <1>1, <2>1 DEF ClientIP
<1>3. CASE path # <<>>
  <2> DEFINE seen == Seen(client, path, header)
             peer == seen.peer
             hops == seen.hops
             n == Len(header) + 1
             ends == {0} \cup {i \in DOMAIN hops : hops[i] \notin Trusted}
  <2>1. /\ peer \in Trusted
        /\ DOMAIN hops = 1 .. Len(hops) /\ Len(hops) \in Nat
        /\ n \in DOMAIN hops /\ hops[n] = client
        /\ \A i \in DOMAIN hops : i > n => hops[i] \in Trusted
    BY <1>3, ProxiesVouch
  <2> HIDE DEF seen, n
  <2>2. n \in Int /\ n > 0
    BY <2>1
  <2>3. ends \in SUBSET Int /\ n \in ends
    BY <1>1, <2>1
  <2>4. ASSUME NEW m \in ends
        PROVE  m <= n
    BY <2>1, <2>2, <2>4
  <2>5. Max(ends) = n
    <3> HIDE DEF ends
    <3> QED BY <2>3, <2>4, MaxIs
  <2>6. ClientIP(peer, hops) = Group[hops[n]]
    <3> HIDE DEF hops, peer
    <3> QED BY <1>1, <2>1, <2>2, <2>5 DEF ClientIP
  <2> QED BY <2>1, <2>6 DEF seen
<1> QED BY <1>2, <1>3

-----------------------------------------------------------------------------
(* The handlers.                                                            *)

LEMMA BlankShaped == Shaped(Blank) /\ OwnKey(Blank)
BY DEF Shaped, OwnKey, Blank

LEMMA OneMoves ==
  ASSUME HandlersInv, NEW r \in Request, NEW h, req' = [req EXCEPT ![r] = h],
         Shaped(h), OwnKey(h)
  PROVE  HandlersInv'
<1>1. /\ req' = [s \in Request |-> req'[s]]
      /\ \A s \in Request : req'[s] = IF s = r THEN h ELSE req[s]
  BY DEF HandlersInv
<1> QED BY <1>1 DEF HandlersInv

(* What a refusal changes of a handler's record. *)
LEMMA RefusedRecord ==
  ASSUME NEW h, Shaped(h), NEW is
  PROVE  LET h2 == [[h EXCEPT !.pc = "refused"] EXCEPT !.due = is] IN
         Shaped(h2) /\ h2.key = h.key /\ h2.from = h.from
<1>1. PICK P, F, K, A, D : h \in [pc : P, from : F, key : K, at : A, due : D]
  BY DEF Shaped
<1> DEFINE h2 == [[h EXCEPT !.pc = "refused"] EXCEPT !.due = is]
           P2 == P \cup {"refused"}
           D2 == D \cup {is}
<1>2. h2 \in [pc : P2, from : F, key : K, at : A, due : D2]
  BY <1>1
<1>3. h2.key = h.key /\ h2.from = h.from
  BY <1>1
<1> HIDE DEF h2, P2, D2
<1>4. Shaped(h2)
  BY <1>2 DEF Shaped
<1> QED BY <1>3, <1>4 DEF h2

LEMMA HandlersStep == HandlersInv /\ [Next]_vars => HandlersInv'
<1> SUFFICES ASSUME HandlersInv, [Next]_vars PROVE HandlersInv'
  OBVIOUS
<1>1. ASSUME NEW r \in Request, Arrive(r)
      PROVE  HandlersInv'
  <2>1. PICK client \in Client, path \in Paths, header \in Headers :
          LET seen == Seen(client, path, header) IN
          req' = [req EXCEPT ![r] =
                    [pc |-> "lock", from |-> Group[client],
                     key |-> ClientIP(seen.peer, seen.hops), at |-> now, due |-> 0]]
    BY <1>1 DEF Arrive
  <2> DEFINE h == [pc |-> "lock", from |-> Group[client], key |-> Group[client],
                   at |-> now, due |-> 0]
  <2>2. req' = [req EXCEPT ![r] = h]
    BY <2>1, OwnAddress
  <2>3. Shaped(h) /\ OwnKey(h)
    BY DEF Shaped, OwnKey
  <2> HIDE DEF h
  <2> QED BY <2>2, <2>3, OneMoves
<1>2. ASSUME NEW r \in Request, Spend(r) \/ FailOpen(r) \/ Respond(r)
      PROVE  HandlersInv'
  <2>1. req' = [req EXCEPT ![r] = Blank]
    BY <1>2 DEF Spend, FailOpen, Respond
  <2> QED BY <2>1, BlankShaped, OneMoves
<1>3. ASSUME NEW r \in Request, Refuse(r)
      PROVE  HandlersInv'
  <2>1. /\ req[r].pc = "lock"
        /\ req' = [req EXCEPT ![r].pc = "refused", ![r].due = due]
    BY <1>3 DEF Refuse
  <2>2. Shaped(req[r]) /\ OwnKey(req[r])
    BY DEF HandlersInv
  <2> DEFINE h == [[req[r] EXCEPT !.pc = "refused"] EXCEPT !.due = due]
  <2>3. Shaped(h) /\ h.key = req[r].key /\ h.from = req[r].from
    BY <2>2, RefusedRecord
  <2>4. req' = [req EXCEPT ![r] = h]
    BY <2>1 DEF HandlersInv
  <2> HIDE DEF h
  <2>5. OwnKey(h)
    BY <2>1, <2>2, <2>3 DEF OwnKey
  <2> QED BY <2>3, <2>4, <2>5, OneMoves
<1>4. CASE UNCHANGED req
  BY <1>4 DEF HandlersInv
<1> QED BY <1>1, <1>2, <1>3, <1>4 DEF Next, Tick, vars

-----------------------------------------------------------------------------
(* The table.                                                               *)

LEMMA RoomFits ==
  ASSUME TableInv, NEW key, NEW t
  PROVE  /\ IsFiniteSet(DOMAIN Room(key, t))
         /\ Cardinality(DOMAIN Room(key, t)) <= MaxKeys
         /\ key \in DOMAIN buckets => Room(key, t) = buckets
<1>1. DOMAIN Swept(t) \subseteq DOMAIN buckets
  BY DEF Swept
<1>2. /\ IsFiniteSet(DOMAIN Swept(t)) /\ Cardinality(DOMAIN buckets) \in Nat
      /\ Cardinality(DOMAIN Swept(t)) \in Nat
      /\ Cardinality(DOMAIN Swept(t)) <= Cardinality(DOMAIN buckets)
  BY <1>1, FS_Subset, FS_CardinalityType DEF TableInv
<1>3. MaxKeys \in Nat
  BY RateAssumption
<1> QED BY <1>2, <1>3 DEF TableInv, Room

(* A bucket is added only where there is room for it. *)
LEMMA LeftFits ==
  ASSUME TableInv, NEW key, NEW t, NEW n, ~Full(key, t), Left(key, t, n)
  PROVE  TableInv'
<1> DEFINE room == DOMAIN Room(key, t)
<1>1. DOMAIN buckets' = room \cup {key}
  BY DEF Left
<1>2. IsFiniteSet(room) /\ Cardinality(room) <= MaxKeys
      /\ Cardinality(room) \in Nat /\ MaxKeys \in Nat
  BY RoomFits, FS_CardinalityType, RateAssumption
<1>3. CASE key \in room
  <2>1. room \cup {key} = room
    BY <1>3
  <2> QED BY <1>1, <1>2, <2>1 DEF TableInv
<1>4. CASE key \notin room
  <2>1. Cardinality(room) < MaxKeys
    BY <1>2, <1>4, RoomFits DEF Full
  <2> HIDE DEF room
  <2>2. /\ IsFiniteSet(room \cup {key})
        /\ Cardinality(room \cup {key}) = Cardinality(room) + 1
    BY <1>2, <1>4, FS_AddElement
  <2> QED BY <1>1, <1>2, <2>1, <2>2 DEF TableInv
<1> QED BY <1>3, <1>4

(* A new key finds the table full after the sweep only if every bucket in    *)
(* it is in use, and there are MaxKeys of them.                              *)
LEMMA FullIsCrowded ==
  ASSUME TableInv, NEW key, NEW t, Full(key, t)
  PROVE  Crowded(key, t)
<1>1. key \notin DOMAIN buckets
  BY DEF Full
<1>2. Cardinality(DOMAIN buckets) \in Nat /\ MaxKeys \in Nat
  BY FS_CardinalityType, RateAssumption DEF TableInv
<1>3. Room(key, t) = Swept(t)
  BY <1>1, <1>2 DEF Full, Room
<1>4. DOMAIN Swept(t) =
        {k \in DOMAIN buckets \ {key} : Refilled(buckets[k], t) < Burst}
  BY <1>1 DEF Swept
<1> QED BY <1>3, <1>4 DEF Full, Crowded

LEMMA OpenIsUncounted ==
  ASSUME TableInv, NEW r \in Request, FailOpen(r)
  PROVE  grants' = grants
BY FullIsCrowded DEF FailOpen

LEMMA TableStep == TableInv /\ [Next]_vars => TableInv'
<1> SUFFICES ASSUME TableInv, [Next]_vars PROVE TableInv'
  OBVIOUS
<1>1. ASSUME NEW r \in Request, Spend(r) \/ Refuse(r)
      PROVE  TableInv'
  BY <1>1, LeftFits DEF Spend, Refuse
<1>2. ASSUME NEW r \in Request, FailOpen(r)
      PROVE  TableInv'
  BY <1>2, RoomFits DEF FailOpen, TableInv
<1>3. CASE UNCHANGED buckets
  BY <1>3 DEF TableInv
<1> QED BY <1>1, <1>2, <1>3 DEF Next, Arrive, Respond, Tick, vars

-----------------------------------------------------------------------------
(* Numbers.                                                                 *)

LEMMA RatesAreNumbers ==
  /\ PerMinute \in Nat \ {0} /\ Minute \in Nat \ {0} /\ MaxKeys \in Nat \ {0}
  /\ MaxTime \in Nat /\ MaxLag \in Nat
  /\ Burst \in Nat /\ Burst >= Minute
  /\ Time = 0 .. MaxTime
<1>1. /\ PerMinute \in Nat \ {0} /\ Minute \in Nat \ {0} /\ MaxKeys \in Nat \ {0}
      /\ MaxTime \in Nat /\ MaxLag \in Nat
  BY RateAssumption
<1>2. \A p, m \in Nat \ {0} : p * m \in Nat /\ p * m >= m
  OBVIOUS
<1> QED BY <1>1, <1>2 DEF Burst, Time

(* What is refilled in a stretch of time. *)
LEMMA RefillGrows ==
  ASSUME NEW i \in Int, NEW j \in Int, i <= j
  PROVE  i * PerMinute \in Int /\ j * PerMinute \in Int
         /\ i * PerMinute <= j * PerMinute
<1>1. \A p \in Nat : \A k \in Nat : p * k \in Nat /\ k * p = p * k
  OBVIOUS
<1>2. PerMinute \in Nat /\ j - i \in Nat
  BY RatesAreNumbers
<1>3. (j - i) * PerMinute \in Nat /\ j * PerMinute = i * PerMinute + (j - i) * PerMinute
  BY <1>1, <1>2
<1> QED BY <1>2, <1>3

LEMMA MinTwo ==
  ASSUME NEW m \in Int, NEW n \in Int
  PROVE  Min({m, n}) = IF m <= n THEN m ELSE n
<1>1. CASE m <= n
  BY <1>1 DEF Min
<1>2. CASE ~(m <= n)
  BY <1>2 DEF Min
<1> QED BY <1>1, <1>2

-----------------------------------------------------------------------------
(* A bucket seen without its clock: what it would have held at time 0, had  *)
(* it been refilled since then at the steady rate.  Refilling leaves this   *)
(* level alone, but for cutting it at the burst.                            *)

Level(b) == b.tokens - b.last * PerMinute

Bucket == [tokens : -MaxLag * PerMinute .. Burst, last : Time]

Groups == {Group[n] : n \in DOMAIN Group}

(* Of a request that waits for the lock the stamp is recent. *)
Waiting(h) ==
  h.pc = "lock" => h.key \in Groups /\ h.at <= now /\ now <= h.at + MaxLag

StampsInv == \A r \in Request : Waiting(req[r])

(* No bucket was ever drawn below nothing, by the clock of any request yet  *)
(* to come.                                                                 *)
LevelsInv ==
  \A key \in DOMAIN buckets :
    /\ buckets[key] \in Bucket
    /\ 0 <= Level(buckets[key]) + now * PerMinute

Typed == TypeOK /\ StampsInv /\ LevelsInv

TypeInv == Typed /\ HandlersInv /\ TableInv

(* What a bucket holds at time t is its level then, or a burst. *)
LEMMA RefilledIs ==
  ASSUME NEW b \in Bucket, NEW t \in Time
  PROVE  /\ Level(b) \in Int /\ t * PerMinute \in Int
         /\ Refilled(b, t) \in Int
         /\ Refilled(b, t) <= Burst
         /\ Refilled(b, t) <= Level(b) + t * PerMinute
         /\ \/ Refilled(b, t) = Burst
            \/ Refilled(b, t) = Level(b) + t * PerMinute
<1>1. /\ b.tokens \in Int /\ b.last \in Int /\ t \in Int /\ PerMinute \in Int
      /\ Burst \in Int
  BY RatesAreNumbers DEF Bucket
<1>2. /\ b.tokens + (t - b.last) * PerMinute = Level(b) + t * PerMinute
      /\ Level(b) \in Int /\ t * PerMinute \in Int
  BY <1>1 DEF Level
<1>3. Level(b) + t * PerMinute \in Int
  BY <1>2
<1> QED BY <1>1, <1>2, <1>3, MinTwo DEF Refilled

(* What a request finds in its bucket: Level and Burst are the two bounds.  *)
LEMMA TokensAre ==
  ASSUME LevelsInv, NEW key, NEW t \in Time, NEW n, n = Tokens(key, t)
  PROVE  /\ n \in Int /\ t * PerMinute \in Int /\ Burst \in Int
         /\ n <= Burst
         /\ key \notin DOMAIN buckets => n = Burst
         /\ key \in DOMAIN buckets =>
              LET level == Level(buckets[key]) IN
              /\ level \in Int
              /\ n <= level + t * PerMinute
              /\ n = Burst \/ n = level + t * PerMinute
<1>1. t * PerMinute \in Int /\ Burst \in Int
  BY RatesAreNumbers
<1>2. CASE key \in DOMAIN buckets
  BY <1>1, <1>2, RefilledIs DEF LevelsInv, Tokens
<1>3. CASE key \notin DOMAIN buckets
  BY <1>1, <1>3 DEF Tokens
<1> QED BY <1>2, <1>3

(* The buckets a step does not update are as before, or swept; and what is  *)
(* swept is full.                                                           *)
LEMMA RoomIs ==
  ASSUME LevelsInv, NEW key, NEW t \in Time
  PROVE  LET room == Room(key, t) IN
         /\ DOMAIN room \subseteq DOMAIN buckets
         /\ \A k \in DOMAIN room : room[k] = buckets[k]
         /\ \A k \in DOMAIN buckets \ DOMAIN room :
              /\ k # key
              /\ Level(buckets[k]) \in Int /\ t * PerMinute \in Int
              /\ Level(buckets[k]) + t * PerMinute >= Burst
<1>1. ASSUME NEW k \in DOMAIN buckets \ DOMAIN Swept(t)
      PROVE  /\ Level(buckets[k]) \in Int /\ t * PerMinute \in Int
             /\ Level(buckets[k]) + t * PerMinute >= Burst
  <2>1. buckets[k] \in Bucket
    BY DEF LevelsInv
  <2>2. ~(Refilled(buckets[k], t) < Burst)
    BY DEF Swept
  <2> QED BY <2>1, <2>2, RefilledIs, RatesAreNumbers
<1>2. DOMAIN Swept(t) \subseteq DOMAIN buckets
      /\ \A k \in DOMAIN Swept(t) : Swept(t)[k] = buckets[k]
  BY DEF Swept
<1>3. CASE Room(key, t) = buckets
  BY <1>3
<1>4. CASE Room(key, t) = Swept(t) /\ key \notin DOMAIN buckets
  BY <1>1, <1>2, <1>4
<1> QED BY <1>3, <1>4 DEF Room

-----------------------------------------------------------------------------
(* The type invariant.                                                      *)

(* A request that has the lock. *)
LEMMA Served ==
  ASSUME TypeInv, NEW r \in Request, req[r].pc = "lock",
         NEW n, n = Tokens(req[r].key, req[r].at)
  PROVE  LET t == req[r].at IN
         /\ t \in Time /\ t \in Int /\ now \in Time /\ now \in Int
         /\ t <= now /\ now <= t + MaxLag
         /\ req[r].key \in Groups /\ req[r].key = req[r].from
         /\ n \in -MaxLag * PerMinute .. Burst
         /\ 0 <= n + (now - t) * PerMinute
<1> DEFINE t == req[r].at
<1>1. t \in Time /\ now \in Time
  BY DEF TypeInv, Typed, TypeOK, Handler
<1>2. t <= now /\ now <= t + MaxLag /\ req[r].key \in Groups
  BY DEF TypeInv, Typed, StampsInv, Waiting
<1>3. req[r].key = req[r].from
  BY DEF TypeInv, Typed, HandlersInv, OwnKey
<1>4. t \in Int /\ now \in Int /\ MaxLag \in Int /\ PerMinute \in Int /\ Burst \in Nat
  BY <1>1, RatesAreNumbers
<1> HIDE DEF t
<1>5. /\ -MaxLag * PerMinute \in Int /\ (t - now) * PerMinute \in Int
      /\ -MaxLag * PerMinute <= (t - now) * PerMinute
      /\ (t - now) * PerMinute <= 0
  <2>1. -MaxLag \in Int /\ t - now \in Int /\ -MaxLag <= t - now /\ t - now <= 0
    BY <1>2, <1>4
  <2>2. 0 * PerMinute = 0
    BY <1>4
  <2>3. -MaxLag * PerMinute = (-MaxLag) * PerMinute
    BY <1>4
  <2> QED BY <2>1, <2>2, <2>3, RefillGrows
<1>6. n \in Int /\ n <= Burst /\ (t - now) * PerMinute <= n
  <2>1. CASE n = Burst
    BY <1>4, <1>5, <2>1
  <2>2. CASE n # Burst
    <3> DEFINE level == Level(buckets[req[r].key])
    <3>1. level \in Int /\ n = level + t * PerMinute /\ n <= Burst
      BY <1>1, <2>2, TokensAre DEF TypeInv, Typed, t
    <3>2. 0 <= level + now * PerMinute
      BY <1>1, <2>2, TokensAre DEF TypeInv, Typed, LevelsInv, t
    <3> HIDE DEF level
    <3> QED BY <1>4, <1>5, <3>1, <3>2
  <2> QED BY <2>1, <2>2
<1>7. -MaxLag * PerMinute <= n
  BY <1>5, <1>6
<1>8. (now - t) * PerMinute = -((t - now) * PerMinute)
  BY <1>4
<1> QED BY <1>1, <1>2, <1>3, <1>4, <1>5, <1>6, <1>7, <1>8 DEF t

(* A bucket keeps its level, or is left by a request as it should be. *)
LEMMA LeftLevels ==
  ASSUME TypeInv, NEW key \in Groups, NEW t \in Time, NEW n,
         n \in -MaxLag * PerMinute .. Burst, 0 <= n + (now - t) * PerMinute,
         Left(key, t, n), now' = now
  PROVE  LevelsInv' /\ DOMAIN buckets' \subseteq Groups
<1>1. now \in Int /\ t \in Int /\ PerMinute \in Int /\ n \in Int
  BY RatesAreNumbers DEF TypeInv, Typed, TypeOK
<1>2. DOMAIN buckets' \subseteq DOMAIN buckets \cup {key}
  BY RoomIs DEF TypeInv, Typed, Left
<1>3. DOMAIN buckets' \subseteq Groups
  BY <1>2 DEF TypeInv, Typed, TypeOK, Groups
<1>4. buckets'[key] \in Bucket /\ 0 <= Level(buckets'[key]) + now * PerMinute
  <2>1. buckets'[key] = [tokens |-> n, last |-> t]
    BY DEF Left
  <2>2. buckets'[key] \in Bucket
    BY <2>1 DEF Bucket
  <2>3. Level(buckets'[key]) = n - t * PerMinute
    BY <2>1 DEF Level
  <2>4. n + (now - t) * PerMinute = n - t * PerMinute + now * PerMinute
    BY <1>1
  <2> QED BY <2>2, <2>3, <2>4
<1>5. ASSUME NEW k \in DOMAIN buckets', k # key
      PROVE  buckets'[k] \in Bucket /\ 0 <= Level(buckets'[k]) + now * PerMinute
  <2>1. k \in DOMAIN Room(key, t) /\ buckets'[k] = Room(key, t)[k]
    BY <1>5 DEF Left
  <2>2. k \in DOMAIN buckets /\ buckets'[k] = buckets[k]
    BY <2>1, RoomIs DEF TypeInv, Typed
  <2> QED BY <2>2 DEF TypeInv, Typed, LevelsInv
<1>6. \A k \in DOMAIN buckets' :
        buckets'[k] \in Bucket /\ 0 <= Level(buckets'[k]) + now * PerMinute
  BY <1>4, <1>5
<1>7. LevelsInv'
  BY <1>6 DEF LevelsInv, Level, Bucket
<1> QED BY <1>3, <1>7

LEMMA SweptLevels ==
  ASSUME TypeInv, NEW key, NEW t \in Time, buckets' = Room(key, t), now' = now
  PROVE  LevelsInv' /\ DOMAIN buckets' \subseteq Groups
<1>1. /\ DOMAIN buckets' \subseteq DOMAIN buckets
      /\ \A k \in DOMAIN buckets' : buckets'[k] = buckets[k]
  BY RoomIs DEF TypeInv, Typed
<1>2. \A k \in DOMAIN buckets' :
        buckets'[k] \in Bucket /\ 0 <= Level(buckets'[k]) + now * PerMinute
  BY <1>1 DEF TypeInv, Typed, LevelsInv
<1>3. LevelsInv'
  BY <1>2 DEF LevelsInv, Level, Bucket
<1> QED BY <1>1, <1>3 DEF TypeInv, Typed, TypeOK, Groups

(* One handler moves while the clock stands. *)
LEMMA OneTyped ==
  ASSUME TypeInv, NEW r \in Request, NEW h, req' = [req EXCEPT ![r] = h],
         h \in Handler, Waiting(h), now' = now
  PROVE  req' \in [Request -> Handler] /\ StampsInv'
<1>1. req' \in [Request -> Handler]
  BY DEF TypeInv, Typed, TypeOK
<1>2. \A s \in Request : req'[s] = IF s = r THEN h ELSE req[s]
  BY DEF TypeInv, Typed, TypeOK
<1>3. \A s \in Request : Waiting(req'[s])
  BY <1>2 DEF TypeInv, Typed, StampsInv
<1> QED BY <1>1, <1>3 DEF StampsInv, Waiting

LEMMA BlankTyped == Blank \in Handler /\ Waiting(Blank)
BY RatesAreNumbers DEF Blank, Handler, Waiting

(* The wait a refusal announces is long enough for a token to be refilled.  *)
LEMMA WaitIs ==
  ASSUME NEW n \in Int
  PROVE  LET wait == Max({1, RetryAfter(n)}) IN
         wait \in Nat /\ Minute - n <= wait * PerMinute
<1> DEFINE a == Minute - n + PerMinute - 1
           c == RetryAfter(n)
           wait == Max({1, c})
<1>1. a \in Int /\ PerMinute \in Nat \ {0} /\ PerMinute \in Int /\ Minute \in Int
  BY RatesAreNumbers
<1>2. c \in Int /\ a < (c + 1) * PerMinute
  <2>1. \A p \in Nat \ {0} : \A x \in Int : x \div p \in Int /\ x < ((x \div p) + 1) * p
    OBVIOUS
  <2>2. c = a \div PerMinute
    BY DEF RetryAfter
  <2> HIDE DEF a, c
  <2> QED BY <1>1, <2>1, <2>2
<1>3. Minute - n <= c * PerMinute
  <2> HIDE DEF c
  <2>1. (c + 1) * PerMinute = c * PerMinute + PerMinute /\ c * PerMinute \in Int
    BY <1>1, <1>2
  <2> QED BY <1>1, <1>2, <2>1
<1> HIDE DEF c
<1>4. CASE c >= 1
  <2>1. wait = c
    BY <1>2, <1>4, MaxIs
  <2> QED BY <1>2, <1>3, <1>4, <2>1 DEF c
<1>5. CASE ~(c >= 1)
  <2>1. wait = 1
    <3>1. {1, c} \in SUBSET Int /\ 1 \in {1, c} /\ \A m \in {1, c} : m <= 1
      BY <1>2, <1>5
    <3> QED BY <3>1, MaxIs
  <2>2. c <= 1
    BY <1>2, <1>5
  <2>3. c * PerMinute <= 1 * PerMinute /\ c * PerMinute \in Int /\ 1 * PerMinute \in Int
    BY <1>2, <2>2, RefillGrows
  <2>4. Minute - n <= 1 * PerMinute
    BY <1>1, <1>3, <2>3
  <2> QED BY <2>1, <2>4 DEF c
<1> QED BY <1>4, <1>5

(* A request that comes in, or is refused, or is done. *)
LEMMA TypesKept ==
  ASSUME TypeInv, NEW r \in Request, NEW h, req' = [req EXCEPT ![r] = h],
         h \in Handler, Waiting(h), now' = now,
         LevelsInv', DOMAIN buckets' \subseteq Groups, TableInv',
         grants' \in [Time -> Nat], {due', forgotten'} \subseteq Nat
  PROVE  Typed'
<1>1. req' \in [Request -> Handler] /\ StampsInv'
  BY OneTyped
<1>2. now' \in Time
  BY DEF TypeInv, Typed, TypeOK
<1>3. \A key \in DOMAIN buckets' : buckets'[key] \in Bucket
  BY DEF LevelsInv, Bucket, Level
<1> QED BY <1>1, <1>2, <1>3 DEF TypeOK, Groups, Bucket, TableInv, Typed

LEMMA ArriveTypes ==
  ASSUME TypeInv, TableInv', NEW r \in Request, Arrive(r)
  PROVE  Typed'
<1>1. PICK client \in Client, path \in Paths, header \in Headers :
        LET seen == Seen(client, path, header) IN
        req' = [req EXCEPT ![r] =
                  [pc |-> "lock", from |-> Group[client],
                   key |-> ClientIP(seen.peer, seen.hops), at |-> now, due |-> 0]]
  BY DEF Arrive
<1> DEFINE h == [pc |-> "lock", from |-> Group[client], key |-> Group[client],
                 at |-> now, due |-> 0]
<1>2. req' = [req EXCEPT ![r] = h]
  BY <1>1, OwnAddress
<1>3. UNCHANGED <<now, buckets, grants, due, forgotten>>
  BY DEF Arrive
<1>4. now \in Time /\ now \in Int /\ MaxLag \in Nat
  BY RatesAreNumbers DEF TypeInv, Typed, TypeOK
<1>5. client \in DOMAIN Group
  BY AddressAssumption
<1>6. h \in Handler /\ Waiting(h)
  BY <1>4, <1>5 DEF Handler, Key, Waiting, Groups
<1>7. LevelsInv'
  BY <1>3 DEF TypeInv, Typed, LevelsInv, Level, Bucket
<1>8. /\ DOMAIN buckets' \subseteq Groups /\ grants' \in [Time -> Nat]
      /\ {due', forgotten'} \subseteq Nat
  BY <1>3 DEF TypeInv, Typed, TypeOK, Groups
<1> HIDE DEF h
<1> QED BY <1>2, <1>3, <1>6, <1>7, <1>8, TypesKept

LEMMA SpendTypes ==
  ASSUME TypeInv, TableInv', NEW r \in Request, Spend(r)
  PROVE  Typed'
<1> DEFINE t == req[r].at
           key == req[r].key
           n == Tokens(key, t)
<1>1. /\ req[r].pc = "lock" /\ n >= Minute /\ Left(key, t, n - Minute)
      /\ req' = [req EXCEPT ![r] = Blank]
      /\ grants' = IF req[r].from = Watched THEN [grants EXCEPT ![t] = @ + 1]
                                            ELSE grants
      /\ due' = IF req[r].from = Watched THEN 0 ELSE due
      /\ now' = now
  BY DEF Spend
<1>2. /\ t \in Time /\ t \in Int /\ now \in Int /\ t <= now
      /\ key \in Groups
      /\ n \in -MaxLag * PerMinute .. Burst
  BY <1>1, Served
<1> HIDE DEF key, t, n
<1>3. /\ n - Minute \in -MaxLag * PerMinute .. Burst
      /\ 0 <= n - Minute + (now - t) * PerMinute
  <2>1. \A i, j \in Nat : i * j \in Nat
    OBVIOUS
  <2>2. now - t \in Nat /\ PerMinute \in Nat /\ Minute \in Nat /\ MaxLag \in Nat
        /\ Burst \in Nat
    BY <1>2, RatesAreNumbers
  <2>3. (now - t) * PerMinute \in Nat /\ MaxLag * PerMinute \in Nat
    BY <2>1, <2>2
  <2> QED BY <1>1, <1>2, <2>2, <2>3
<1>4. LevelsInv' /\ DOMAIN buckets' \subseteq Groups
  BY <1>1, <1>2, <1>3, LeftLevels
<1>5. grants' \in [Time -> Nat] /\ {due', forgotten'} \subseteq Nat
  BY <1>1, <1>2 DEF TypeInv, Typed, TypeOK, Left, Forget
<1> QED BY <1>1, <1>4, <1>5, BlankTyped, TypesKept

LEMMA RefuseTypes ==
  ASSUME TypeInv, TableInv', NEW r \in Request, Refuse(r)
  PROVE  Typed'
<1> DEFINE t == req[r].at
           key == req[r].key
           n == Tokens(key, t)
           h == [[req[r] EXCEPT !.pc = "refused"] EXCEPT !.due = due]
<1>1. /\ req[r].pc = "lock" /\ n < Minute /\ Left(key, t, n)
      /\ req' = [req EXCEPT ![r].pc = "refused", ![r].due = due]
      /\ due' = IF req[r].from = Watched THEN t + Max({1, RetryAfter(n)}) ELSE due
      /\ now' = now /\ grants' = grants
  BY DEF Refuse
<1>2. /\ t \in Time /\ t \in Nat /\ now \in Int /\ key \in Groups
      /\ n \in -MaxLag * PerMinute .. Burst
      /\ 0 <= n + (now - t) * PerMinute
  BY <1>1, Served, RatesAreNumbers
<1>3. req' = [req EXCEPT ![r] = h] /\ h \in Handler /\ Waiting(h)
  BY <1>1 DEF TypeInv, Typed, TypeOK, Handler, Waiting
<1> HIDE DEF key, t, n, h
<1>4. LevelsInv' /\ DOMAIN buckets' \subseteq Groups
  BY <1>1, <1>2, LeftLevels
<1>5. due' \in Nat
  <2>1. n \in Int
    BY <1>2, RatesAreNumbers
  <2>2. Max({1, RetryAfter(n)}) \in Nat
    BY <2>1, WaitIs
  <2>3. due \in Nat
    BY DEF TypeInv, Typed, TypeOK
  <2> QED BY <1>1, <1>2, <2>2, <2>3
<1>6. grants' \in [Time -> Nat] /\ {due', forgotten'} \subseteq Nat
  BY <1>1, <1>5 DEF TypeInv, Typed, TypeOK, Left, Forget
<1> QED BY <1>1, <1>3, <1>4, <1>6, TypesKept

LEMMA TypeStep == TypeInv /\ [Next]_vars => TypeInv'
<1> SUFFICES ASSUME TypeInv, [Next]_vars PROVE TypeInv'
  OBVIOUS
<1>1. HandlersInv' /\ TableInv'
  BY HandlersStep, TableStep DEF TypeInv, Typed
<1>2. ASSUME NEW r \in Request, Arrive(r) \/ Spend(r) \/ Refuse(r)
      PROVE  Typed'
  BY <1>1, <1>2, ArriveTypes, SpendTypes, RefuseTypes
<1>3. ASSUME NEW r \in Request, FailOpen(r)
      PROVE  Typed'
  <2>1. /\ buckets' = Room(req[r].key, req[r].at) /\ Forget(Room(req[r].key, req[r].at))
        /\ req' = [req EXCEPT ![r] = Blank] /\ UNCHANGED <<now, grants, due>>
    BY <1>3, OpenIsUncounted DEF FailOpen, TypeInv, Typed
  <2>2. req[r].at \in Time
    BY DEF TypeInv, Typed, TypeOK, Handler
  <2>3. LevelsInv' /\ DOMAIN buckets' \subseteq Groups
    BY <2>1, <2>2, SweptLevels
  <2>4. grants' \in [Time -> Nat] /\ {due', forgotten'} \subseteq Nat
    BY <2>1 DEF TypeInv, Typed, TypeOK, Forget
  <2> QED BY <1>1, <2>1, <2>3, <2>4, BlankTyped, TypesKept
<1>4. ASSUME NEW r \in Request, Respond(r)
      PROVE  Typed'
  <2>1. req' = [req EXCEPT ![r] = Blank]
        /\ UNCHANGED <<now, buckets, grants, due, forgotten>>
    BY <1>4 DEF Respond
  <2>2. LevelsInv'
    BY <2>1 DEF TypeInv, Typed, LevelsInv, Level, Bucket
  <2>3. /\ DOMAIN buckets' \subseteq Groups /\ grants' \in [Time -> Nat]
        /\ {due', forgotten'} \subseteq Nat
    BY <2>1 DEF TypeInv, Typed, TypeOK, Groups
  <2> QED BY <1>1, <2>1, <2>2, <2>3, BlankTyped, TypesKept
<1>5. CASE Tick
  <2>1. /\ now < MaxTime /\ now' = now + 1
        /\ \A r \in Request : req[r].pc = "lock" => now < req[r].at + MaxLag
        /\ UNCHANGED <<buckets, req, grants, due, forgotten>>
    BY <1>5 DEF Tick
  <2>2. now \in Nat /\ PerMinute \in Nat /\ MaxLag \in Nat /\ now' \in Time
    BY <2>1, RatesAreNumbers DEF TypeInv, Typed, TypeOK
  <2>3. TypeOK'
    BY <2>1, <2>2 DEF TypeInv, Typed, TypeOK
  <2>4. ASSUME NEW r \in Request
        PROVE  Waiting(req[r])'
    <3>1. Waiting(req[r]) /\ req[r].at \in Int
      BY RatesAreNumbers DEF TypeInv, Typed, StampsInv, TypeOK, Handler
    <3> QED BY <2>1, <2>2, <3>1 DEF Waiting
  <2>5. ASSUME NEW key \in DOMAIN buckets
        PROVE  0 <= Level(buckets[key]) + (now + 1) * PerMinute
    <3>1. Level(buckets[key]) \in Int /\ 0 <= Level(buckets[key]) + now * PerMinute
      BY <2>2, RatesAreNumbers DEF TypeInv, Typed, LevelsInv, Bucket, Level
    <3>2. (now + 1) * PerMinute = now * PerMinute + PerMinute /\ now * PerMinute \in Int
      BY <2>2
    <3> QED BY <2>2, <3>1, <3>2
  <2>6. LevelsInv'
    BY <2>1, <2>5 DEF TypeInv, Typed, LevelsInv, Level, Bucket
  <2>7. StampsInv'
    BY <2>1, <2>4 DEF StampsInv, Waiting
  <2> QED BY <1>1, <2>3, <2>6, <2>7 DEF TypeInv, Typed
<1>6. CASE UNCHANGED vars
  <2> USE DEF TypeInv, Typed
  <2>1. UNCHANGED <<now, buckets, req, grants, due, forgotten>>
    BY <1>6 DEF vars
  <2>2. TypeOK'
    BY <2>1 DEF TypeOK
  <2>3. StampsInv'
    BY <2>1 DEF StampsInv, Waiting
  <2>4. LevelsInv'
    BY <2>1 DEF LevelsInv, Level, Bucket
  <2> QED BY <1>1, <2>2, <2>3, <2>4
<1> QED BY <1>1, <1>2, <1>3, <1>4, <1>5, <1>6 DEF Next, TypeInv

LEMMA TypeInit == Init => TypeInv
<1> SUFFICES ASSUME Init PROVE TypeInv
  OBVIOUS
<1>1. /\ now = 0 /\ DOMAIN buckets = {} /\ req = [r \in Request |-> Blank]
      /\ grants = [t \in Time |-> 0] /\ due = 0 /\ forgotten = 0
  BY DEF Init
<1>2. IsFiniteSet({}) /\ Cardinality({}) = 0 /\ MaxKeys \in Nat
  BY FS_EmptySet, RatesAreNumbers
<1>3. TypeOK
  BY <1>1, <1>2, BlankTyped, RatesAreNumbers DEF TypeOK
<1>4. StampsInv /\ HandlersInv
  BY <1>1, BlankTyped, BlankShaped DEF StampsInv, HandlersInv
<1>5. LevelsInv /\ TableInv
  BY <1>1, <1>2 DEF LevelsInv, TableInv
<1> QED BY <1>3, <1>4, <1>5 DEF TypeInv, Typed

-----------------------------------------------------------------------------
(* What the steps of all handlers are to the bucket of Watched: most leave  *)
(* it alone, the sweep forgets it, and its own requests are served from it. *)

Metered == Watched \in DOMAIN buckets

WatchedLevel == Level(buckets[Watched])

SameRefusals ==
  \A r \in Request : RefusedWatched(r)' => RefusedWatched(r) /\ req'[r] = req[r]

WatchedStays ==
  /\ Metered' <=> Metered
  /\ Metered => WatchedLevel' = WatchedLevel
  /\ UNCHANGED <<grants, due, forgotten>> /\ now' \in {now, now + 1}
  /\ SameRefusals

WatchedSwept ==
  /\ Metered /\ ~Metered'
  /\ forgotten' = forgotten + 1 /\ UNCHANGED <<grants, due, now>>
  /\ \E t \in Time : t <= now /\ Burst <= WatchedLevel + t * PerMinute
  /\ SameRefusals

(* A request with stamp t finds n in the bucket. *)
WatchedFinds(t, n) ==
  /\ t <= now /\ now <= t + MaxLag /\ n <= Burst
  /\ IF Metered THEN /\ n <= WatchedLevel + t * PerMinute
                     /\ n = Burst \/ n = WatchedLevel + t * PerMinute
                ELSE n = Burst

WatchedSpends ==
  \E t \in Time, n \in Int :
    /\ WatchedFinds(t, n)
    /\ Metered' /\ UNCHANGED <<now, forgotten>>
    /\ n >= Minute /\ WatchedLevel' = n - Minute - t * PerMinute
    /\ grants' = [grants EXCEPT ![t] = @ + 1] /\ due' = 0
    /\ SameRefusals

WatchedRefused ==
  \E t \in Time, n \in Int :
    /\ WatchedFinds(t, n)
    /\ Metered' /\ UNCHANGED <<now, forgotten, grants>>
    /\ n < Minute /\ WatchedLevel' = n - t * PerMinute
    /\ due' = t + Max({1, RetryAfter(n)})
    /\ \A r \in Request : RefusedWatched(r)' =>
         \/ RefusedWatched(r) /\ req'[r] = req[r]
         \/ req'[r].at = t /\ req'[r].due = due

WatchedStep == WatchedStays \/ WatchedSwept \/ WatchedSpends \/ WatchedRefused

(* A sweep, for a request of another key or one that is let through. *)
LEMMA RoomStep ==
  ASSUME TypeInv, NEW key, NEW t \in Time, t <= now,
         Metered' <=> Watched \in DOMAIN Room(key, t),
         Metered' => buckets'[Watched] = Room(key, t)[Watched],
         Forget(Room(key, t)), UNCHANGED <<now, grants, due>>, SameRefusals
  PROVE  WatchedStep
<1>1. /\ DOMAIN Room(key, t) \subseteq DOMAIN buckets
      /\ \A k \in DOMAIN Room(key, t) : Room(key, t)[k] = buckets[k]
      /\ \A k \in DOMAIN buckets \ DOMAIN Room(key, t) :
           /\ Level(buckets[k]) \in Int /\ t * PerMinute \in Int
           /\ Level(buckets[k]) + t * PerMinute >= Burst
  BY RoomIs DEF TypeInv, Typed
<1>2. CASE Metered /\ ~Metered'
  <2>1. Watched \in DOMAIN buckets \ DOMAIN Room(key, t)
    BY <1>2 DEF Metered
  <2>2. Burst <= WatchedLevel + t * PerMinute
    BY <1>1, <2>1, RatesAreNumbers DEF WatchedLevel
  <2>3. forgotten' = forgotten + 1
    BY <2>1 DEF Forget
  <2>4. WatchedSwept
    BY <1>2, <2>2, <2>3 DEF WatchedSwept
  <2> QED BY <2>4 DEF WatchedStep
<1>3. CASE ~(Metered /\ ~Metered')
  <2>1. Metered' => Metered
    BY <1>1 DEF Metered
  <2>2. Metered => WatchedLevel' = WatchedLevel
    BY <1>1, <1>3 DEF Metered, WatchedLevel, Level
  <2>3. forgotten' = forgotten
    BY <1>3 DEF Forget, Metered
  <2>4. WatchedStays
    BY <1>3, <2>1, <2>2, <2>3 DEF WatchedStays
  <2> QED BY <2>4 DEF WatchedStep
<1> QED BY <1>2, <1>3

(* A request of Watched, or of another key, is served. *)
LEMMA ServedStep ==
  ASSUME TypeInv, NEW r \in Request, req[r].pc = "lock",
         NEW n, n = Tokens(req[r].key, req[r].at)
  PROVE  /\ req[r].key = Watched =>
              n \in Int /\ req[r].at \in Time /\ WatchedFinds(req[r].at, n)
         /\ req[r].key = req[r].from
<1> DEFINE t == req[r].at
<1>1. /\ t \in Time /\ t <= now /\ now <= t + MaxLag /\ req[r].key = req[r].from
  BY Served
<1>2. ASSUME req[r].key = Watched
      PROVE  n \in Int /\ WatchedFinds(t, n)
  <2>1. /\ n \in Int /\ n <= Burst
        /\ Watched \notin DOMAIN buckets => n = Burst
        /\ Watched \in DOMAIN buckets =>
             LET level == Level(buckets[Watched]) IN
             /\ n <= level + t * PerMinute
             /\ n = Burst \/ n = level + t * PerMinute
    BY <1>1, <1>2, TokensAre DEF TypeInv, Typed
  <2> QED BY <1>1, <2>1 DEF WatchedFinds, Metered, WatchedLevel
<1> QED BY <1>1, <1>2

LEMMA WatchedSteps == TypeInv /\ [Next]_vars => WatchedStep
<1> SUFFICES ASSUME TypeInv, [Next]_vars PROVE WatchedStep
  OBVIOUS
<1>0. req \in [Request -> Handler]
  BY DEF TypeInv, Typed, TypeOK
<1>1. ASSUME NEW r \in Request, Arrive(r) \/ Respond(r)
      PROVE  WatchedStep
  <2>1. UNCHANGED <<now, buckets, grants, due, forgotten>>
    BY <1>1 DEF Arrive, Respond
  <2>2. req'[r].pc # "refused" /\ \A s \in Request \ {r} : req'[s] = req[s]
    BY <1>0, <1>1 DEF Arrive, Respond, Blank
  <2>3. SameRefusals
    BY <2>2 DEF SameRefusals, RefusedWatched
  <2> QED BY <2>1, <2>3 DEF WatchedStep, WatchedStays, Metered, WatchedLevel, Level
<1>2. ASSUME NEW r \in Request, FailOpen(r)
      PROVE  WatchedStep
  <2> DEFINE t == req[r].at
             key == req[r].key
  <2>1. /\ req[r].pc = "lock" /\ buckets' = Room(key, t) /\ Forget(Room(key, t))
        /\ req' = [req EXCEPT ![r] = Blank] /\ UNCHANGED <<now, grants, due>>
    BY <1>2, OpenIsUncounted DEF FailOpen, TypeInv, Typed
  <2>2. SameRefusals
    BY <1>0, <2>1 DEF SameRefusals, RefusedWatched, Blank
  <2>3. t \in Time /\ t <= now
    BY <2>1, Served
  <2>4. /\ Metered' <=> Watched \in DOMAIN Room(key, t)
        /\ buckets'[Watched] = Room(key, t)[Watched]
    BY <2>1 DEF Metered
  <2> HIDE DEF t, key
  <2> QED BY <2>1, <2>2, <2>3, <2>4, RoomStep
<1>3. ASSUME NEW r \in Request, Spend(r)
      PROVE  WatchedStep
  <2> DEFINE t == req[r].at
             key == req[r].key
             n == Tokens(key, t)
  <2>1. /\ req[r].pc = "lock" /\ n >= Minute /\ Left(key, t, n - Minute)
        /\ req' = [req EXCEPT ![r] = Blank]
        /\ grants' = IF req[r].from = Watched THEN [grants EXCEPT ![t] = @ + 1]
                                              ELSE grants
        /\ due' = IF req[r].from = Watched THEN 0 ELSE due
        /\ now' = now
    BY <1>3 DEF Spend
  <2>2. SameRefusals
    BY <1>0, <2>1 DEF SameRefusals, RefusedWatched, Blank
  <2>3. /\ t \in Time /\ t <= now /\ key = req[r].from
        /\ key = Watched => n \in Int /\ WatchedFinds(t, n)
    BY <2>1, Served, ServedStep
  <2>4. /\ DOMAIN buckets' = DOMAIN Room(key, t) \cup {key}
        /\ buckets'[key] = [tokens |-> n - Minute, last |-> t]
        /\ \A k \in DOMAIN Room(key, t) : k # key => buckets'[k] = Room(key, t)[k]
        /\ Forget(Room(key, t))
    BY <2>1 DEF Left
  <2> HIDE DEF t, key, n
  <2>5. CASE key = Watched
    <3>1. Metered' /\ WatchedLevel' = n - Minute - t * PerMinute
      BY <2>4, <2>5 DEF Metered, WatchedLevel, Level
    <3>2. forgotten' = forgotten
      BY <2>1, <2>4, <2>5, RoomFits DEF Forget, TypeInv
    <3>3. WatchedSpends
      BY <2>1, <2>2, <2>3, <2>5, <3>1, <3>2 DEF WatchedSpends
    <3> QED BY <3>3 DEF WatchedStep
  <2>6. CASE key # Watched
    <3>1. /\ Metered' <=> Watched \in DOMAIN Room(key, t)
          /\ Metered' => buckets'[Watched] = Room(key, t)[Watched]
      BY <2>4, <2>6 DEF Metered
    <3> QED BY <2>1, <2>2, <2>3, <2>4, <2>6, <3>1, RoomStep
  <2> QED BY <2>5, <2>6
<1>4. ASSUME NEW r \in Request, Refuse(r)
      PROVE  WatchedStep
  <2> DEFINE t == req[r].at
             key == req[r].key
             n == Tokens(key, t)
  <2>1. /\ req[r].pc = "lock" /\ n < Minute /\ Left(key, t, n)
        /\ req' = [req EXCEPT ![r].pc = "refused", ![r].due = due]
        /\ due' = IF req[r].from = Watched THEN t + Max({1, RetryAfter(n)}) ELSE due
        /\ now' = now /\ grants' = grants
    BY <1>4 DEF Refuse
  <2>2. /\ \A s \in Request \ {r} : req'[s] = req[s]
        /\ req'[r].at = t /\ req'[r].due = due /\ req'[r].from = req[r].from
    BY <1>0, <2>1 DEF Handler
  <2>3. /\ t \in Time /\ t <= now /\ key = req[r].from
        /\ key = Watched => n \in Int /\ WatchedFinds(t, n)
    BY <2>1, Served, ServedStep
  <2>4. /\ DOMAIN buckets' = DOMAIN Room(key, t) \cup {key}
        /\ buckets'[key] = [tokens |-> n, last |-> t]
        /\ \A k \in DOMAIN Room(key, t) : k # key => buckets'[k] = Room(key, t)[k]
        /\ Forget(Room(key, t))
    BY <2>1 DEF Left
  <2> HIDE DEF t, key, n
  <2>5. CASE key = Watched
    <3>1. Metered' /\ WatchedLevel' = n - t * PerMinute
      BY <2>4, <2>5 DEF Metered, WatchedLevel, Level
    <3>2. forgotten' = forgotten
      BY <2>1, <2>4, <2>5, RoomFits DEF Forget, TypeInv
    <3>3. \A s \in Request : RefusedWatched(s)' =>
            \/ RefusedWatched(s) /\ req'[s] = req[s]
            \/ req'[s].at = t /\ req'[s].due = due
      BY <2>2 DEF RefusedWatched
    <3>4. WatchedRefused
      BY <2>1, <2>3, <2>5, <3>1, <3>2, <3>3 DEF WatchedRefused
    <3> QED BY <3>4 DEF WatchedStep
  <2>6. CASE key # Watched
    <3>1. /\ Metered' <=> Watched \in DOMAIN Room(key, t)
          /\ Metered' => buckets'[Watched] = Room(key, t)[Watched]
      BY <2>4, <2>6 DEF Metered
    <3>2. SameRefusals
      BY <2>2, <2>3, <2>6 DEF SameRefusals, RefusedWatched
    <3> QED BY <2>1, <2>3, <2>4, <2>6, <3>1, <3>2, RoomStep
  <2> QED BY <2>5, <2>6
<1>5. CASE Tick \/ UNCHANGED vars
  <2>1. UNCHANGED <<buckets, req, grants, due, forgotten>> /\ now' \in {now, now + 1}
    BY <1>5 DEF Tick, vars
  <2>2. SameRefusals
    BY <2>1 DEF SameRefusals, RefusedWatched
  <2> QED BY <2>1, <2>2 DEF WatchedStep, WatchedStays, Metered, WatchedLevel, Level
<1> QED BY <1>1, <1>2, <1>3, <1>4, <1>5 DEF Next

-----------------------------------------------------------------------------
(* How many requests were granted.                                          *)

LEMMA TimesAreFinite == IsFiniteSet(Time)
BY RatesAreNumbers, FS_Interval

LEMMA TimesAre ==
  ASSUME NEW s \in Time, NEW t \in Int, t <= MaxTime
  PROVE  /\ IsFiniteSet(Time) /\ s .. t \in SUBSET Time /\ IsFiniteSet(s .. t)
         /\ s \in Int /\ s * PerMinute \in Int /\ 0 <= s * PerMinute
<1>1. MaxTime \in Int /\ Time = 0 .. MaxTime /\ PerMinute \in Nat
  BY RatesAreNumbers
<1>2. IsFiniteSet(Time) /\ s .. t \in SUBSET Time
  BY <1>1, FS_Interval
<1>3. \A i, j \in Nat : i * j \in Nat
  OBVIOUS
<1> QED BY <1>1, <1>2, <1>3, FS_Subset

LEMMA GrantedGrows ==
  ASSUME NEW f \in [Time -> Nat], NEW s \in Time, NEW t \in Int, NEW u \in Int,
         t <= u, u <= MaxTime
  PROVE  /\ SumFunctionOnSet(f, s .. t) \in Nat /\ SumFunctionOnSet(f, s .. u) \in Nat
         /\ SumFunctionOnSet(f, s .. t) <= SumFunctionOnSet(f, s .. u)
<1>1. IsFiniteSet(s .. u) /\ s .. u \in SUBSET Time
  BY TimesAre
<1>2. NatsOn(f, s .. u)
  BY <1>1 DEF NatsOn
<1>3. s .. t \in SUBSET (s .. u) /\ s .. u \in SUBSET (s .. u)
  <2>1. s \in Int
    BY TimesAre
  <2> QED BY <2>1
<1> QED BY <1>1, <1>2, <1>3, SumGrows

LEMMA OneGrantMore ==
  ASSUME NEW f \in [Time -> Nat], NEW a \in Time, NEW f2, f2[a] = f[a] + 1,
         \A b \in Time \ {a} : f2[b] = f[b],
         NEW S \in SUBSET Time
  PROVE  SumFunctionOnSet(f2, S) = SumFunctionOnSet(f, S) + (IF a \in S THEN 1 ELSE 0)
<1>1. IsFiniteSet(S)
  BY TimesAreFinite, FS_Subset
<1>2. IntsOn(f, S)
  BY DEF IntsOn
<1>3. f[a] \in Nat /\ f2[a] \in Int
  OBVIOUS
<1>4. CASE a \in S
  <2>1. \A b \in S \ {a} : f2[b] = f[b]
    OBVIOUS
  <2>2. SumFunctionOnSet(f2, S) = SumFunctionOnSet(f, S) + (f2[a] - f[a])
    BY <1>1, <1>2, <1>3, <1>4, <2>1, SumChange
  <2>3. f2[a] - f[a] = 1
    BY <1>3
  <2> QED BY <1>4, <2>2, <2>3
<1>5. CASE a \notin S
  <2>1. \A b \in S : f2[b] = f[b]
    BY <1>5
  <2>2. SumFunctionOnSet(f2, S) = SumFunctionOnSet(f, S)
    BY <1>1, <1>2, <2>1, SumSame
  <2>3. SumFunctionOnSet(f, S) \in Int
    BY <1>1, <1>2, SumInt
  <2> QED BY <1>5, <2>2, <2>3
<1> QED BY <1>4, <1>5

-----------------------------------------------------------------------------
(* The upper bound: what was granted since s, and what the bucket still     *)
(* holds, came out of one burst and the refill since s.                     *)

Since(s) == Granted(s, MaxTime)

BoundInv ==
  \A s \in Time : Since(s) > 0 =>
    IF Metered
    THEN WatchedLevel + Since(s) * Minute
           <= Burst + (MaxLag * forgotten - s) * PerMinute
    ELSE Since(s) * Minute <= (now - s + MaxLag * (forgotten - 1)) * PerMinute

LEMMA MeteredLevel ==
  ASSUME TypeInv, Metered
  PROVE  WatchedLevel \in Int /\ 0 <= WatchedLevel + now * PerMinute
<1>1. buckets[Watched] \in Bucket /\ 0 <= WatchedLevel + now * PerMinute
  BY DEF TypeInv, Typed, LevelsInv, Metered, WatchedLevel
<1> QED BY <1>1, RatesAreNumbers DEF WatchedLevel, Level, Bucket

LEMMA BoundStep ==
  ASSUME TypeInv, BoundInv, WatchedStep
  PROVE  BoundInv'
<1> SUFFICES ASSUME NEW s \in Time, (Since(s) > 0)'
             PROVE  IF Metered'
                    THEN WatchedLevel' + Since(s)' * Minute
                           <= Burst + (MaxLag * forgotten' - s) * PerMinute
                    ELSE Since(s)' * Minute
                           <= (now' - s + MaxLag * (forgotten' - 1)) * PerMinute
  BY DEF BoundInv
<1> DEFINE G == Since(s)
           sp == s * PerMinute
           np == now * PerMinute
           lp == MaxLag * PerMinute
           fp == MaxLag * forgotten * PerMinute
<1>1. now \in Nat /\ forgotten \in Nat /\ grants \in [Time -> Nat] /\ MaxTime \in Int
  BY RatesAreNumbers DEF TypeInv, Typed, TypeOK
<1>2. G \in Nat
  BY <1>1, GrantedGrows DEF Since, Granted
<1>3. /\ PerMinute \in Nat /\ Minute \in Nat /\ Burst \in Nat
      /\ sp \in Nat /\ np \in Nat /\ lp \in Nat /\ fp \in Nat
      /\ (MaxLag * forgotten - s) * PerMinute = fp - sp
      /\ (now - s + MaxLag * (forgotten - 1)) * PerMinute = np - sp + fp - lp
  <2>1. PerMinute \in Nat /\ Minute \in Nat /\ Burst \in Nat /\ s \in Nat /\ MaxLag \in Nat
    BY RatesAreNumbers
  <2>2. \A i, j \in Nat : i * j \in Nat
    OBVIOUS
  <2>3. sp \in Nat /\ np \in Nat /\ lp \in Nat /\ fp \in Nat
    BY <1>1, <2>1, <2>2
  <2>4. /\ (MaxLag * forgotten - s) * PerMinute = fp - sp
        /\ (now - s + MaxLag * (forgotten - 1)) * PerMinute = np - sp + fp - lp
    BY <1>1, <2>1
  <2> QED BY <2>1, <2>3, <2>4
<1>4. G * Minute \in Nat /\ (G + 1) * Minute = G * Minute + Minute
  <2>1. \A i, j \in Nat : i * j \in Nat /\ (i + 1) * j = i * j + j
    OBVIOUS
  <2> HIDE DEF G
  <2> QED BY <1>2, <1>3, <2>1
<1>5. Metered => WatchedLevel \in Int
  BY MeteredLevel
<1>6. G > 0 => IF Metered THEN WatchedLevel + G * Minute <= Burst + fp - sp
                          ELSE G * Minute <= np - sp + fp - lp
  <2>1. G > 0 => IF Metered THEN WatchedLevel + G * Minute
                                  <= Burst + (MaxLag * forgotten - s) * PerMinute
                            ELSE G * Minute
                                  <= (now - s + MaxLag * (forgotten - 1)) * PerMinute
    BY DEF BoundInv
  <2> HIDE DEF G, sp, np, lp, fp
  <2> QED BY <1>2, <1>3, <1>4, <1>5, <2>1
<1>7. CASE WatchedStays
  <2>1. /\ Metered' <=> Metered
        /\ Metered => WatchedLevel' = WatchedLevel
        /\ grants' = grants /\ forgotten' = forgotten /\ now' \in {now, now + 1}
    BY <1>7 DEF WatchedStays
  <2>2. Since(s)' = G
    BY <2>1 DEF Since, Granted
  <2>3. G > 0
    BY <2>2
  <2>4. now' \in Nat
    BY <1>1, <2>1
  <2>5. /\ (now' - s + MaxLag * (forgotten' - 1)) * PerMinute
              = now' * PerMinute - sp + fp - lp
        /\ (MaxLag * forgotten' - s) * PerMinute = fp - sp
        /\ now' * PerMinute \in Int
    BY <1>1, <1>3, <2>1, <2>4, RatesAreNumbers
  <2>6. np <= now' * PerMinute
    BY <1>1, <2>1, RefillGrows
  <2> DEFINE GM == G * Minute
             np2 == now' * PerMinute
  <2>7. /\ GM \in Nat
        /\ IF Metered THEN WatchedLevel + GM <= Burst + fp - sp
                      ELSE GM <= np - sp + fp - lp
    BY <1>4, <1>6, <2>3
  <2>8. IF Metered THEN WatchedLevel + GM <= Burst + (fp - sp)
                   ELSE GM <= np2 - sp + fp - lp
    <3>1. np2 \in Int /\ np <= np2
      BY <2>5, <2>6
    <3> HIDE DEF GM, sp, np, lp, fp, np2
    <3> QED BY <1>3, <1>5, <2>7, <3>1
  <2> HIDE DEF sp, lp, fp, G
  <2> QED BY <2>1, <2>2, <2>5, <2>8
<1>8. CASE WatchedSwept
  <2>1. /\ Metered /\ ~Metered'
        /\ forgotten' = forgotten + 1 /\ grants' = grants /\ now' = now
    BY <1>8 DEF WatchedSwept
  <2>2. Since(s)' = G /\ G > 0
    BY <2>1 DEF Since, Granted
  <2>3. Burst <= WatchedLevel + np
    <3>1. PICK t \in Time : t <= now /\ Burst <= WatchedLevel + t * PerMinute
      BY <1>8 DEF WatchedSwept
    <3>2. t * PerMinute \in Int /\ t * PerMinute <= np
      BY <1>1, <3>1, RatesAreNumbers, RefillGrows
    <3> HIDE DEF np
    <3> QED BY <1>3, <1>5, <2>1, <3>1, <3>2
  <2>4. (now' - s + MaxLag * (forgotten' - 1)) * PerMinute = np - sp + fp
    <3>1. forgotten' - 1 = forgotten /\ forgotten' \in Nat
      BY <1>1, <2>1
    <3>2. (now - s + MaxLag * forgotten) * PerMinute = np - sp + fp
      BY <1>1, RatesAreNumbers
    <3> QED BY <2>1, <3>1, <3>2
  <2> HIDE DEF G, sp, np, lp, fp
  <2> QED BY <1>2, <1>3, <1>4, <1>5, <1>6, <2>1, <2>2, <2>3, <2>4
<1>9. CASE WatchedRefused
  <2>1. PICK t \in Time, n \in Int :
          /\ WatchedFinds(t, n) /\ Metered' /\ UNCHANGED <<now, forgotten, grants>>
          /\ n < Minute /\ WatchedLevel' = n - t * PerMinute
    BY <1>9 DEF WatchedRefused
  <2>2. Metered /\ n <= WatchedLevel + t * PerMinute
    BY <2>1, RatesAreNumbers DEF WatchedFinds
  <2>3. Since(s)' = G /\ G > 0
    BY <2>1 DEF Since, Granted
  <2>4. t * PerMinute \in Int
    BY RatesAreNumbers, RefillGrows
  <2>5. (MaxLag * forgotten' - s) * PerMinute = fp - sp
    BY <1>3, <2>1
  <2> HIDE DEF G, sp, np, lp, fp
  <2> QED BY <1>2, <1>3, <1>4, <1>5, <1>6, <2>1, <2>2, <2>3, <2>4, <2>5
<1>10. CASE WatchedSpends
  <2>1. PICK t \in Time, n \in Int :
          /\ WatchedFinds(t, n) /\ Metered' /\ UNCHANGED <<now, forgotten>>
          /\ n >= Minute /\ WatchedLevel' = n - Minute - t * PerMinute
          /\ grants' = [grants EXCEPT ![t] = @ + 1]
    BY <1>10 DEF WatchedSpends
  <2> DEFINE tp == t * PerMinute
  <2>2. /\ t <= now /\ now <= t + MaxLag /\ n <= Burst
        /\ Metered => n <= WatchedLevel + tp
    BY <2>1 DEF WatchedFinds
  <2>3. Since(s)' = G + (IF s <= t THEN 1 ELSE 0)
    <3>1. t \in s .. MaxTime <=> s <= t
      BY RatesAreNumbers
    <3>2. Since(s)' = G + (IF t \in s .. MaxTime THEN 1 ELSE 0)
      <4> DEFINE S == s .. MaxTime
      <4>1. S \in SUBSET Time
        BY <1>1, TimesAre
      <4> HIDE DEF S
      <4>2. grants'[t] = grants[t] + 1 /\ \A b \in Time \ {t} : grants'[b] = grants[b]
        BY <1>1, <2>1
      <4>3. SumFunctionOnSet(grants', S) =
              SumFunctionOnSet(grants, S) + (IF t \in S THEN 1 ELSE 0)
        BY <1>1, <4>1, <4>2, OneGrantMore
      <4> QED BY <4>3 DEF Since, Granted, S
    <3> HIDE DEF G
    <3> QED BY <3>1, <3>2
  <2>4. /\ tp \in Nat /\ t \in Nat /\ s \in Nat /\ tp <= np /\ np <= tp + lp
        /\ s <= t => sp <= tp
    <3>1. t \in Nat /\ s \in Nat /\ MaxLag \in Nat
      BY RatesAreNumbers
    <3>2. tp \in Nat /\ (t + MaxLag) * PerMinute = tp + lp
      <4>1. \A i, j \in Nat : i * j \in Nat
        OBVIOUS
      <4> QED BY <1>3, <3>1, <4>1
    <3>3. /\ tp <= np /\ np <= (t + MaxLag) * PerMinute /\ (s <= t => sp <= tp)
      BY <1>1, <2>2, <3>1, RefillGrows
    <3>4. np <= tp + lp
      BY <1>1, <1>3, <3>1, <3>2, <3>3
    <3> QED BY <3>1, <3>2, <3>3, <3>4
  <2>5. (MaxLag * forgotten' - s) * PerMinute = fp - sp
    BY <1>3, <2>1
  <2> DEFINE G2 == Since(s)'
  <2>6. /\ G2 * Minute = G * Minute + (IF s <= t THEN Minute ELSE 0)
        /\ s <= t \/ G > 0
    <3>1. G2 > 0
      OBVIOUS
    <3> HIDE DEF G, G2
    <3> QED BY <1>2, <1>3, <1>4, <2>3, <2>4, <3>1 DEF G2
  <2>7. WatchedLevel' + G2 * Minute <= Burst + fp - sp
    <3>1. WatchedLevel' = n - Minute - tp
      BY <2>1
    <3> DEFINE GM == G * Minute
               GM2 == G2 * Minute
    <3>2. GM \in Nat /\ G \in Nat /\ (G = 0 => GM = 0)
      <4> HIDE DEF G
      <4> QED BY <1>2, <1>3, <1>4
    <3>3. GM2 = GM + (IF s <= t THEN Minute ELSE 0)
      BY <2>6
    <3>4. G > 0 => IF Metered THEN WatchedLevel + GM <= Burst + fp - sp
                              ELSE GM <= np - sp + fp - lp
      BY <1>6
    <3>5. n \in Int /\ n <= Burst /\ (Metered => n <= WatchedLevel + tp)
      BY <2>1, <2>2
    <3>6. WatchedLevel' + GM2 <= Burst + fp - sp
      <4> HIDE DEF G, G2, GM, GM2, sp, np, lp, fp, tp
      <4>1. CASE G > 0 /\ Metered
        BY <1>3, <1>5, <2>4, <3>1, <3>2, <3>3, <3>4, <3>5, <4>1
      <4>2. CASE G > 0 /\ ~Metered
        BY <1>3, <2>4, <3>1, <3>2, <3>3, <3>4, <3>5, <4>2
      <4>3. CASE ~(G > 0)
        BY <1>3, <2>4, <2>6, <3>1, <3>2, <3>3, <3>5, <4>3
      <4> QED BY <3>2, <4>1, <4>2, <4>3
    <3> QED BY <3>6
  <2> HIDE DEF fp, sp
  <2>8. Burst + (fp - sp) = Burst + fp - sp
    BY <1>3
  <2> QED BY <2>1, <2>5, <2>7, <2>8
<1> QED BY <1>7, <1>8, <1>9, <1>10 DEF WatchedStep

LEMMA RateBoundStep ==
  ASSUME TypeInv, TypeInv', RateBound, BoundInv', WatchedStep
  PROVE  RateBound'
<1> SUFFICES ASSUME NEW s \in Time, NEW t \in s .. MaxTime
             PROVE  Granted(s, t)' * Minute
                      <= Burst + (t - s + MaxLag * forgotten') * PerMinute
  BY DEF RateBound
<1> DEFINE G == Granted(s, t)
           more == t - s + MaxLag * forgotten
           sp == s * PerMinute
           tp == t * PerMinute
           fp == MaxLag * forgotten' * PerMinute
<1>1. /\ PerMinute \in Nat /\ Minute \in Nat /\ Burst \in Nat /\ MaxLag \in Nat
      /\ MaxTime \in Nat /\ forgotten \in Nat /\ forgotten' \in Nat
      /\ grants \in [Time -> Nat] /\ grants' \in [Time -> Nat]
      /\ s \in Nat /\ t \in Nat /\ s <= t /\ t <= MaxTime
  BY RatesAreNumbers DEF TypeInv, Typed, TypeOK
<1>2. G * Minute <= Burst + more * PerMinute
  BY DEF RateBound
<1>3. CASE Granted(s, t)' = G
  <2>1. forgotten <= forgotten'
    <3>1. CASE WatchedStays \/ WatchedSwept
      BY <1>1, <3>1 DEF WatchedStays, WatchedSwept
    <3>2. CASE WatchedSpends
      BY <1>1, <3>2 DEF WatchedSpends
    <3>3. CASE WatchedRefused
      BY <1>1, <3>3 DEF WatchedRefused
    <3> QED BY <3>1, <3>2, <3>3 DEF WatchedStep
  <2>2. /\ MaxLag * forgotten \in Nat /\ MaxLag * forgotten' \in Nat
        /\ MaxLag * forgotten <= MaxLag * forgotten'
    <3>1. \A i, j, k \in Nat : i * j \in Nat /\ (j <= k => i * j <= i * k)
      <4>1. ASSUME NEW i \in Nat, NEW j \in Nat, NEW k \in Nat, j <= k
            PROVE  i * j <= i * k
        <5>1. k - j \in Nat /\ i * k = i * j + i * (k - j)
          BY <4>1
        <5>2. \A a, b \in Nat : a * b \in Nat
          OBVIOUS
        <5>3. i * (k - j) \in Nat /\ i * j \in Nat
          BY <5>1, <5>2
        <5> HIDE <4>1
        <5> QED BY <5>1, <5>3
      <4>2. \A a, b \in Nat : a * b \in Nat
        OBVIOUS
      <4> QED BY <4>1, <4>2
    <3> QED BY <1>1, <2>1, <3>1
  <2> DEFINE more2 == t - s + MaxLag * forgotten'
  <2>3. more \in Int /\ more2 \in Int /\ more <= more2
    <3> DEFINE lag == MaxLag * forgotten
               lag2 == MaxLag * forgotten'
    <3>1. lag \in Nat /\ lag2 \in Nat /\ lag <= lag2
      BY <2>2
    <3>2. more = t - s + lag /\ more2 = t - s + lag2
      OBVIOUS
    <3> HIDE DEF lag, lag2, more, more2
    <3> QED BY <1>1, <3>1, <3>2
  <2> HIDE DEF more, more2
  <2>4. more * PerMinute \in Int /\ more2 * PerMinute \in Int
        /\ more * PerMinute <= more2 * PerMinute
    BY <2>3, RefillGrows
  <2>5. G \in Nat
    BY <1>1, GrantedGrows DEF Granted
  <2>6. G * Minute \in Int
    BY <1>1, <2>5
  <2>7. G * Minute <= Burst + more2 * PerMinute
    <3> HIDE DEF G
    <3> QED BY <1>1, <1>2, <2>4, <2>6
  <2> QED BY <1>3, <2>7 DEF more2
<1>4. CASE Granted(s, t)' # G
  <2>1. WatchedSpends
    BY <1>4 DEF WatchedStep, WatchedStays, WatchedSwept, WatchedRefused, Granted
  <2>2. PICK a \in Time, n \in Int :
          /\ Metered' /\ n >= Minute /\ WatchedLevel' = n - Minute - a * PerMinute
          /\ grants' = [grants EXCEPT ![a] = @ + 1]
    BY <2>1 DEF WatchedSpends
  <2> DEFINE S == s .. t
  <2>3. S \in SUBSET Time
    BY <1>1, TimesAre
  <2>4. a \in S /\ Granted(s, t)' = G + 1
    <3>1. grants'[a] = grants[a] + 1 /\ \A b \in Time \ {a} : grants'[b] = grants[b]
      BY <1>1, <2>2
    <3> HIDE DEF S
    <3>2. SumFunctionOnSet(grants', S) =
            SumFunctionOnSet(grants, S) + (IF a \in S THEN 1 ELSE 0)
      BY <1>1, <2>3, <3>1, OneGrantMore
    <3>3. Granted(s, t)' = SumFunctionOnSet(grants', S) /\ G = SumFunctionOnSet(grants, S)
      BY DEF Granted, S
    <3>4. G \in Nat
      BY <1>1, GrantedGrows DEF Granted
    <3> QED BY <1>4, <3>2, <3>3, <3>4
  <2> DEFINE G2 == Granted(s, t)'
             all == Since(s)'
  <2>5. G2 \in Nat /\ all \in Nat /\ G2 <= all
    BY <1>1, GrantedGrows DEF Granted, Since
  <2>6. G \in Nat
    BY <1>1, GrantedGrows DEF Granted
  <2>7. WatchedLevel' + all * Minute <= Burst + (MaxLag * forgotten' - s) * PerMinute
    <3>1. all > 0
      <4> HIDE DEF G, all
      <4> QED BY <2>4, <2>5, <2>6
    <3> QED BY <2>2, <3>1 DEF BoundInv
  <2>8. /\ G2 * Minute \in Nat /\ all * Minute \in Nat /\ G2 * Minute <= all * Minute
    <3>1. ASSUME NEW i \in Nat, NEW j \in Nat, i <= j
          PROVE  i * Minute \in Nat /\ j * Minute \in Nat /\ i * Minute <= j * Minute
      <4>1. \A x, y \in Nat : x * y \in Nat
        OBVIOUS
      <4>2. j - i \in Nat
        BY <3>1
      <4>3. (j - i) * Minute \in Nat /\ i * Minute \in Nat /\ j * Minute \in Nat
        BY <1>1, <4>1, <4>2
      <4>4. j * Minute = i * Minute + (j - i) * Minute
        BY <1>1
      <4> QED BY <4>3, <4>4
    <3> HIDE DEF G2, all
    <3> QED BY <2>5, <3>1
  <2>9. /\ sp \in Nat /\ tp \in Nat /\ fp \in Nat
        /\ (MaxLag * forgotten' - s) * PerMinute = fp - sp
        /\ (t - s + MaxLag * forgotten') * PerMinute = tp - sp + fp
    <3>1. \A x, y \in Nat : x * y \in Nat
      OBVIOUS
    <3>2. sp \in Nat /\ tp \in Nat /\ fp \in Nat
      BY <1>1, <3>1
    <3>3. /\ (MaxLag * forgotten' - s) * PerMinute = fp - sp
          /\ (t - s + MaxLag * forgotten') * PerMinute = tp - sp + fp
      BY <1>1
    <3> QED BY <3>2, <3>3
  <2> DEFINE ap == a * PerMinute
  <2>10. ap \in Int /\ ap <= tp
    <3>1. a \in Int /\ a <= t
      BY <1>1, <2>4, RatesAreNumbers
    <3> QED BY <1>1, <3>1, RefillGrows
  <2> DEFINE GM == G2 * Minute
             allM == all * Minute
  <2>11. GM <= Burst + (tp - sp + fp)
    <3>1. WatchedLevel' = n - Minute - ap /\ WatchedLevel' + allM <= Burst + (fp - sp)
      BY <2>2, <2>7, <2>9
    <3>2. GM \in Nat /\ allM \in Nat /\ GM <= allM
      BY <2>8
    <3>3. n \in Int /\ n >= Minute
      BY <2>2
    <3> HIDE DEF G2, all, GM, allM, sp, tp, fp, ap
    <3> QED BY <1>1, <2>9, <2>10, <3>1, <3>2, <3>3
  <2> HIDE DEF sp, tp, fp
  <2> QED BY <2>9, <2>11
<1> QED BY <1>3, <1>4

LEMMA BoundInit == Init => BoundInv /\ RateBound
<1> SUFFICES ASSUME Init PROVE BoundInv /\ RateBound
  OBVIOUS
<1>1. /\ grants = [t \in Time |-> 0] /\ forgotten = 0
      /\ MaxTime \in Int /\ MaxLag \in Nat /\ PerMinute \in Nat /\ Burst \in Nat
      /\ Minute \in Nat
  BY RatesAreNumbers DEF Init
<1>2. ASSUME NEW s \in Time, NEW t \in Int, t <= MaxTime
      PROVE  Granted(s, t) = 0
  <2> DEFINE S == s .. t
  <2>1. IsFiniteSet(S) /\ S \in SUBSET Time
    BY <1>2, TimesAre
  <2>2. \A a \in S : grants[a] = 0
    BY <1>1, <2>1
  <2> HIDE DEF S
  <2>3. SumFunctionOnSet(grants, S) = 0
    BY <2>1, <2>2, SumZero
  <2> QED BY <2>3 DEF Granted, S
<1>3. BoundInv
  BY <1>1, <1>2 DEF BoundInv, Since
<1>4. ASSUME NEW s \in Time, NEW t \in s .. MaxTime
      PROVE  Granted(s, t) * Minute <= Burst + (t - s + MaxLag * forgotten) * PerMinute
  <2>1. s \in Nat /\ t \in Nat /\ t - s \in Nat /\ t <= MaxTime
    BY <1>1, RatesAreNumbers
  <2>2. t - s + MaxLag * forgotten = t - s
    BY <1>1, <2>1
  <2>3. \A x, y \in Nat : x * y \in Nat
    OBVIOUS
  <2>4. (t - s) * PerMinute \in Nat
    BY <1>1, <2>1, <2>3
  <2>5. Granted(s, t) * Minute = 0
    BY <1>1, <1>2, <2>1
  <2> QED BY <1>1, <2>2, <2>4, <2>5
<1> QED BY <1>3, <1>4 DEF RateBound

-----------------------------------------------------------------------------
(* The converse: what the bucket lacks was granted, counted from the moment *)
(* s it was last full.                                                      *)

SpentInv ==
  Metered =>
    \E s \in 0 .. now :
      /\ s = 0 \/ s + MaxLag <= now
      /\ Burst <= WatchedLevel + Granted(s, now) * Minute + (s + MaxLag) * PerMinute

LEMMA SpentStep ==
  ASSUME TypeInv, TypeInv', SpentInv, WatchedStep
  PROVE  SpentInv'
<1> SUFFICES ASSUME Metered'
             PROVE  \E s \in 0 .. now' :
                      /\ s = 0 \/ s + MaxLag <= now'
                      /\ Burst <= WatchedLevel' + Granted(s, now)' * Minute
                                    + (s + MaxLag) * PerMinute
  BY DEF SpentInv
<1>1. /\ PerMinute \in Nat /\ Minute \in Nat /\ Burst \in Nat /\ MaxLag \in Nat
      /\ MaxTime \in Nat /\ now \in Nat /\ now' \in Nat
      /\ now <= MaxTime /\ now' <= MaxTime
      /\ grants \in [Time -> Nat] /\ grants' \in [Time -> Nat]
  BY RatesAreNumbers DEF TypeInv, Typed, TypeOK
<1>2. \A x, y \in Nat : x * y \in Nat
  OBVIOUS
<1>3. ASSUME NEW s \in 0 .. now, NEW f \in [Time -> Nat]
      PROVE  /\ s \in Time /\ s \in Nat /\ (s + MaxLag) * PerMinute \in Nat
             /\ SumFunctionOnSet(f, s .. now) \in Nat
             /\ SumFunctionOnSet(f, s .. now) * Minute \in Nat
  <2>1. s \in Time /\ s \in Nat /\ s + MaxLag \in Nat
    BY <1>1, RatesAreNumbers
  <2>2. SumFunctionOnSet(f, s .. now) \in Nat
    BY <1>1, <2>1, GrantedGrows
  <2> QED BY <1>1, <1>2, <2>1, <2>2
<1>4. Metered => WatchedLevel \in Int
  BY MeteredLevel
<1>5. CASE WatchedStays
  <2>1. /\ Metered /\ WatchedLevel' = WatchedLevel /\ grants' = grants
        /\ now' \in {now, now + 1}
    BY <1>5 DEF WatchedStays
  <2>2. PICK s \in 0 .. now :
          /\ s = 0 \/ s + MaxLag <= now
          /\ Burst <= WatchedLevel + Granted(s, now) * Minute + (s + MaxLag) * PerMinute
    BY <2>1 DEF SpentInv
  <2> DEFINE G == Granted(s, now)
             G2 == Granted(s, now)'
  <2>3. G2 = SumFunctionOnSet(grants, s .. now')
    BY <2>1 DEF Granted
  <2>4. G \in Nat /\ G2 \in Nat /\ G <= G2
    BY <1>1, <1>3, <2>1, <2>3, GrantedGrows DEF Granted
  <2>5. G * Minute \in Nat /\ G2 * Minute \in Nat /\ G * Minute <= G2 * Minute
    <3> HIDE DEF G, G2
    <3>1. G2 - G \in Nat
      BY <2>4
    <3>2. (G2 - G) * Minute \in Nat /\ G * Minute \in Nat /\ G2 * Minute \in Nat
      BY <1>1, <1>2, <2>4, <3>1
    <3>3. G2 * Minute = G * Minute + (G2 - G) * Minute
      BY <1>1, <2>4
    <3> QED BY <3>2, <3>3
  <2>6. Burst <= WatchedLevel' + G2 * Minute + (s + MaxLag) * PerMinute
    <3> DEFINE GM == G * Minute
               GM2 == G2 * Minute
               late == (s + MaxLag) * PerMinute
    <3>1. Burst <= WatchedLevel + GM + late /\ late \in Nat
      BY <1>1, <1>3, <2>2
    <3>2. GM \in Nat /\ GM2 \in Nat /\ GM <= GM2
      BY <2>5
    <3>3. Burst <= WatchedLevel' + GM2 + late
      <4> HIDE DEF G, G2, GM, GM2, late
      <4> QED BY <1>1, <1>4, <2>1, <3>1, <3>2
    <3> QED BY <3>3
  <2>7. s \in 0 .. now' /\ (s = 0 \/ s + MaxLag <= now')
    BY <1>1, <2>1, <2>2
  <2> QED BY <2>6, <2>7
<1>6. CASE WatchedSwept
  BY <1>6 DEF WatchedSwept
<1>7. CASE WatchedSpends \/ WatchedRefused
  <2>1. PICK t \in Time, n \in Int, paid \in {0, 1} :
          /\ WatchedFinds(t, n) /\ now' = now
          /\ WatchedLevel' = n - paid * Minute - t * PerMinute
          /\ grants' = IF paid = 1 THEN [grants EXCEPT ![t] = @ + 1] ELSE grants
    <3>1. CASE WatchedSpends
      <4>1. PICK t \in Time, n \in Int :
              /\ WatchedFinds(t, n) /\ now' = now
              /\ WatchedLevel' = n - Minute - t * PerMinute
              /\ grants' = [grants EXCEPT ![t] = @ + 1]
        BY <3>1 DEF WatchedSpends
      <4>2. n - 1 * Minute - t * PerMinute = n - Minute - t * PerMinute
        BY <1>1
      <4> QED BY <4>1, <4>2
    <3>2. CASE WatchedRefused
      <4>1. PICK t \in Time, n \in Int :
              /\ WatchedFinds(t, n) /\ now' = now
              /\ WatchedLevel' = n - t * PerMinute /\ grants' = grants
        BY <3>2 DEF WatchedRefused
      <4>2. n - 0 * Minute - t * PerMinute = n - t * PerMinute
        BY <1>1
      <4> QED BY <4>1, <4>2
    <3> QED BY <1>7, <3>1, <3>2
  <2>2. /\ t \in Nat /\ t <= now /\ now <= t + MaxLag
        /\ n = Burst \/ (Metered /\ n = WatchedLevel + t * PerMinute)
    BY <2>1, RatesAreNumbers DEF WatchedFinds
  <2>3. t * PerMinute \in Nat /\ paid * Minute \in Nat
    BY <1>1, <1>2, <2>2
  <2>4. ASSUME NEW s \in 0 .. now, s <= t
        PROVE  Granted(s, now)' * Minute = Granted(s, now) * Minute + paid * Minute
    <3> DEFINE S == s .. now
    <3>1. S \in SUBSET Time /\ t \in S /\ s \in Time
      <4>1. s \in Time /\ s \in Nat
        BY <1>1, <1>3
      <4>2. S \in SUBSET Time
        BY <1>1, <4>1, TimesAre
      <4>3. t \in S
        BY <1>1, <2>2, <2>4, <4>1
      <4> QED BY <4>1, <4>2, <4>3
    <3>2. SumFunctionOnSet(grants', S) = SumFunctionOnSet(grants, S) + paid
      <4>1. CASE paid = 1
        <5>1. grants'[t] = grants[t] + 1
              /\ \A b \in Time \ {t} : grants'[b] = grants[b]
          BY <1>1, <2>1, <4>1
        <5> HIDE DEF S
        <5>2. SumFunctionOnSet(grants', S) =
                SumFunctionOnSet(grants, S) + (IF t \in S THEN 1 ELSE 0)
          BY <1>1, <3>1, <5>1, OneGrantMore
        <5> QED BY <3>1, <4>1, <5>2
      <4>2. CASE paid = 0
        <5>1. SumFunctionOnSet(grants, S) \in Nat
          BY <1>1, <1>3
        <5> QED BY <2>1, <4>2, <5>1
      <4> QED BY <4>1, <4>2
    <3>3. Granted(s, now)' = Granted(s, now) + paid /\ Granted(s, now) \in Nat
      BY <1>1, <1>3, <2>1, <3>2 DEF Granted
    <3> QED BY <1>1, <3>3
  <2>5. CASE n = Burst
    <3> DEFINE s == IF t <= MaxLag THEN 0 ELSE t - MaxLag
               G == Granted(s, now)
    <3>1. /\ s \in 0 .. now /\ s <= t /\ t <= s + MaxLag
          /\ s = 0 \/ s + MaxLag <= now
      BY <1>1, <2>2
    <3> HIDE DEF s
    <3>2. Granted(s, now)' * Minute = G * Minute + paid * Minute
      BY <2>4, <3>1
    <3>3. G * Minute \in Nat /\ (s + MaxLag) * PerMinute \in Nat /\ s \in Nat
      BY <1>1, <1>3, <3>1 DEF Granted
    <3>4. t * PerMinute <= (s + MaxLag) * PerMinute
      BY <1>1, <2>2, <3>1, <3>3, RefillGrows
    <3>5. Burst <= WatchedLevel' + Granted(s, now)' * Minute + (s + MaxLag) * PerMinute
      <4> DEFINE GM == G * Minute
                 GM2 == Granted(s, now)' * Minute
                 late == (s + MaxLag) * PerMinute
                 tp == t * PerMinute
                 cost == paid * Minute
      <4>1. /\ WatchedLevel' = n - cost - tp /\ GM2 = GM + cost
            /\ GM \in Nat /\ late \in Nat /\ tp \in Nat /\ cost \in Nat /\ tp <= late
        BY <2>1, <2>3, <3>2, <3>3, <3>4
      <4>2. Burst <= WatchedLevel' + GM2 + late
        <5> HIDE DEF GM, GM2, late, tp, cost
        <5> QED BY <1>1, <2>5, <4>1
      <4> QED BY <4>2
    <3> QED BY <2>1, <3>1, <3>5
  <2>6. CASE Metered /\ n = WatchedLevel + t * PerMinute
    <3>1. PICK s \in 0 .. now :
            /\ s = 0 \/ s + MaxLag <= now
            /\ Burst <= WatchedLevel + Granted(s, now) * Minute
                          + (s + MaxLag) * PerMinute
      BY <2>6 DEF SpentInv
    <3> DEFINE G == Granted(s, now)
    <3>2. s <= t
      BY <1>1, <2>2, <3>1
    <3>3. Granted(s, now)' * Minute = G * Minute + paid * Minute
      BY <2>4, <3>2
    <3>4. G * Minute \in Nat /\ (s + MaxLag) * PerMinute \in Nat
      BY <1>1, <1>3 DEF Granted
    <3>5. Burst <= WatchedLevel' + Granted(s, now)' * Minute + (s + MaxLag) * PerMinute
      <4> DEFINE GM == G * Minute
                 GM2 == Granted(s, now)' * Minute
                 late == (s + MaxLag) * PerMinute
                 tp == t * PerMinute
                 cost == paid * Minute
      <4>1. /\ WatchedLevel' = n - cost - tp /\ GM2 = GM + cost
            /\ n = WatchedLevel + tp /\ Burst <= WatchedLevel + GM + late
            /\ GM \in Nat /\ late \in Nat /\ tp \in Nat /\ cost \in Nat
        BY <2>1, <2>3, <2>6, <3>1, <3>3, <3>4
      <4>2. Burst <= WatchedLevel' + GM2 + late
        <5> HIDE DEF GM, GM2, late, tp, cost
        <5> QED BY <1>1, <1>4, <2>6, <4>1
      <4> QED BY <4>2
    <3> QED BY <2>1, <3>1, <3>5
  <2> QED BY <2>2, <2>5, <2>6
<1> QED BY <1>5, <1>6, <1>7 DEF WatchedStep

(* The handlers Watched was refused by are those of before, and one that    *)
(* was refused just now.                                                    *)
LEMMA SpentHolds ==
  ASSUME TypeInv, TypeInv', SpentInv, SpentInv', RefusedOnlyWhenSpent, WatchedStep
  PROVE  RefusedOnlyWhenSpent'
<1> DEFINE Latest(h) == Min({MaxTime, h.at + MaxLag})
<1> SUFFICES ASSUME NEW r \in Request, RefusedWatched(r)', NEW h, h = req'[r]
             PROVE  \E s \in 0 .. Latest(h) :
                      Burst + (h.at - s - MaxLag) * PerMinute
                        < (Granted(s, Latest(h))' + 1) * Minute
  BY DEF RefusedOnlyWhenSpent
<1> DEFINE a == h.at
           u == Latest(h)
<1>1. /\ PerMinute \in Nat /\ Minute \in Nat \ {0} /\ Burst \in Nat /\ MaxLag \in Nat
      /\ MaxTime \in Nat /\ now \in Nat /\ now <= MaxTime
      /\ grants \in [Time -> Nat] /\ grants' \in [Time -> Nat]
      /\ a \in Nat
  <2>1. h.at \in Time
    BY DEF TypeInv, Typed, TypeOK, Handler
  <2>2. /\ now \in Time
        /\ grants \in [Time -> Nat] /\ grants' \in [Time -> Nat]
    BY DEF TypeInv, Typed, TypeOK
  <2> QED BY <2>1, <2>2, RatesAreNumbers DEF Time
<1>2. \A x, y \in Nat : x * y \in Nat
  OBVIOUS
<1>3. u \in Nat /\ u <= MaxTime /\ (now <= a + MaxLag => now <= u)
  BY <1>1, MinTwo
<1> HIDE DEF Latest
<1>4. CASE RefusedWatched(r) /\ h = req[r]
  <2>1. PICK s \in 0 .. u :
          Burst + (a - s - MaxLag) * PerMinute < (Granted(s, u) + 1) * Minute
    BY <1>4 DEF RefusedOnlyWhenSpent, Latest
  <2> DEFINE G == Granted(s, u)
             G2 == Granted(s, u)'
  <2>2. s \in Time /\ s \in Nat
    BY <1>1, <1>3, RatesAreNumbers
  <2>3. G \in Nat /\ G2 \in Nat
    BY <1>1, <1>3, <2>2, GrantedGrows DEF Granted
  <2>4. G <= G2
    <3>1. CASE grants' = grants
      BY <2>3, <3>1 DEF Granted
    <3>2. CASE WatchedSpends
      <4>1. PICK t \in Time : grants' = [grants EXCEPT ![t] = @ + 1]
        BY <3>2 DEF WatchedSpends
      <4> DEFINE S == s .. u
      <4>2. S \in SUBSET Time
        BY <1>3, <2>2, TimesAre
      <4>3. grants'[t] = grants[t] + 1 /\ \A b \in Time \ {t} : grants'[b] = grants[b]
        BY <1>1, <4>1
      <4> HIDE DEF S
      <4>4. SumFunctionOnSet(grants', S) =
              SumFunctionOnSet(grants, S) + (IF t \in S THEN 1 ELSE 0)
        BY <1>1, <4>2, <4>3, OneGrantMore
      <4>5. G2 = SumFunctionOnSet(grants', S) /\ G = SumFunctionOnSet(grants, S)
        BY DEF Granted, S
      <4> HIDE DEF G, G2
      <4> QED BY <2>3, <4>4, <4>5
    <3> QED BY <3>1, <3>2 DEF WatchedStep, WatchedStays, WatchedSwept, WatchedRefused
  <2>5. (G + 1) * Minute \in Nat /\ (G + 1) * Minute <= (G2 + 1) * Minute
    <3> HIDE DEF G, G2
    <3>1. G2 - G \in Nat /\ G + 1 \in Nat
      BY <2>3, <2>4
    <3>2. (G2 - G) * Minute \in Nat /\ (G + 1) * Minute \in Nat
      BY <1>1, <1>2, <3>1
    <3>3. (G2 + 1) * Minute = (G + 1) * Minute + (G2 - G) * Minute
      BY <1>1, <2>3
    <3> QED BY <3>2, <3>3
  <2>6. Burst + (a - s - MaxLag) * PerMinute \in Int
    BY <1>1, <2>2
  <2>7. (G2 + 1) * Minute \in Int
    <3> HIDE DEF G2
    <3> QED BY <1>1, <2>3
  <2>8. Burst + (a - s - MaxLag) * PerMinute < (G2 + 1) * Minute
    <3> DEFINE left == Burst + (a - s - MaxLag) * PerMinute
               GM == (G + 1) * Minute
               GM2 == (G2 + 1) * Minute
    <3>1. left < GM /\ GM <= GM2 /\ left \in Int /\ GM \in Int /\ GM2 \in Int
      BY <2>1, <2>5, <2>6, <2>7
    <3>2. left < GM2
      <4> HIDE DEF left, GM, GM2
      <4> QED BY <3>1
    <3> QED BY <3>2
  <2> QED BY <2>8
<1>5. CASE ~(RefusedWatched(r) /\ h = req[r])
  <2>1. WatchedRefused
    BY <1>5 DEF WatchedStep, WatchedStays, WatchedSwept, WatchedSpends, SameRefusals
  <2>2. PICK n \in Int :
          /\ WatchedFinds(a, n) /\ Metered' /\ now' = now
          /\ n < Minute /\ WatchedLevel' = n - a * PerMinute
    BY <1>5, <2>1 DEF WatchedRefused
  <2>3. now <= u
    BY <1>3, <2>2 DEF WatchedFinds
  <2>4. PICK s \in 0 .. now :
          Burst <= WatchedLevel' + Granted(s, now)' * Minute + (s + MaxLag) * PerMinute
    BY <2>2 DEF SpentInv
  <2> DEFINE G == SumFunctionOnSet(grants', s .. now)
             G2 == Granted(s, u)'
  <2>5. s \in Time /\ s \in Nat /\ s \in 0 .. u
    BY <1>1, <1>3, <2>3, RatesAreNumbers
  <2>6. G \in Nat /\ G2 \in Nat /\ G <= G2
    BY <1>1, <1>3, <2>3, <2>5, GrantedGrows DEF Granted
  <2>7. Granted(s, now)' = G
    BY <2>2 DEF Granted
  <2>8. /\ G * Minute \in Nat
        /\ G * Minute + Minute <= (G2 + 1) * Minute /\ (G2 + 1) * Minute \in Int
    <3> HIDE DEF G, G2
    <3>1. G2 - G \in Nat
      BY <2>6
    <3>2. (G2 - G) * Minute \in Nat /\ G * Minute \in Nat
      BY <1>1, <1>2, <2>6, <3>1
    <3>3. (G2 + 1) * Minute = G * Minute + Minute + (G2 - G) * Minute
      BY <1>1, <2>6
    <3> QED BY <1>1, <3>2, <3>3
  <2>9. /\ a * PerMinute \in Nat /\ (s + MaxLag) * PerMinute \in Int
        /\ (a - s - MaxLag) * PerMinute = a * PerMinute - (s + MaxLag) * PerMinute
    BY <1>1, <1>2, <2>5
  <2>10. Burst + (a - s - MaxLag) * PerMinute < (G2 + 1) * Minute
    <3> DEFINE ap == a * PerMinute
               late == (s + MaxLag) * PerMinute
               GM == G * Minute
               GM2 == (G2 + 1) * Minute
    <3>1. /\ Burst <= n - ap + GM + late /\ n < Minute
          /\ GM \in Nat /\ GM + Minute <= GM2 /\ GM2 \in Int
          /\ ap \in Nat /\ late \in Int
      BY <2>2, <2>4, <2>7, <2>8, <2>9
    <3>2. Burst + (ap - late) < GM2
      <4> HIDE DEF ap, late, GM, GM2
      <4> QED BY <1>1, <2>2, <3>1
    <3> QED BY <2>9, <3>2
  <2> QED BY <2>5, <2>10
<1> QED BY <1>4, <1>5

-----------------------------------------------------------------------------
(* Retry-After: at the time announced a token is there.                     *)

DueInv ==
  due > 0 /\ Metered => Minute <= WatchedLevel + due * PerMinute

LEMMA DueStep ==
  ASSUME TypeInv, TypeInv', DueInv, RetryAfterHolds, WatchedStep
  PROVE  DueInv' /\ RetryAfterHolds'
<1>1. /\ PerMinute \in Nat \ {0} /\ Minute \in Nat /\ Burst \in Nat /\ Burst >= Minute
      /\ due \in Nat
  BY RatesAreNumbers DEF TypeInv, Typed, TypeOK
<1>2. CASE WatchedStays \/ WatchedSwept \/ WatchedSpends
  <2>1. SameRefusals
    BY <1>2 DEF WatchedStays, WatchedSwept, WatchedSpends
  <2>2. RetryAfterHolds'
    BY <2>1 DEF SameRefusals, RetryAfterHolds, RefusedWatched
  <2>3. CASE WatchedStays
    BY <2>2, <2>3 DEF WatchedStays, DueInv
  <2>4. CASE WatchedSwept
    BY <2>2, <2>4 DEF WatchedSwept, DueInv
  <2>5. CASE WatchedSpends
    BY <2>2, <2>5 DEF WatchedSpends, DueInv
  <2> QED BY <1>2, <2>2, <2>3, <2>4, <2>5
<1>3. CASE WatchedRefused
  <2>1. PICK t \in Time, n \in Int :
          /\ WatchedFinds(t, n) /\ Metered'
          /\ n < Minute /\ WatchedLevel' = n - t * PerMinute
          /\ due' = t + Max({1, RetryAfter(n)})
          /\ \A r \in Request : RefusedWatched(r)' =>
               \/ RefusedWatched(r) /\ req'[r] = req[r]
               \/ req'[r].at = t /\ req'[r].due = due
    BY <1>3 DEF WatchedRefused
  <2> DEFINE wait == Max({1, RetryAfter(n)})
             tp == t * PerMinute
  <2>2. wait \in Nat /\ Minute - n <= wait * PerMinute /\ t \in Nat
    BY WaitIs, RatesAreNumbers
  <2>3. tp \in Int /\ wait * PerMinute \in Int
        /\ due' * PerMinute = tp + wait * PerMinute
    <3>1. due' = t + wait
      BY <2>1
    <3> HIDE DEF wait
    <3> QED BY <1>1, <2>2, <3>1
  <2>4. Minute <= WatchedLevel' + due' * PerMinute
    <3> DEFINE waited == wait * PerMinute
               later == due' * PerMinute
    <3>1. /\ WatchedLevel' = n - tp /\ later = tp + waited /\ Minute - n <= waited
          /\ tp \in Int /\ waited \in Int
      BY <2>1, <2>2, <2>3
    <3>2. Minute <= WatchedLevel' + later
      <4> HIDE DEF tp, waited, later
      <4> QED BY <1>1, <2>1, <3>1
    <3> QED BY <3>2
  <2>5. ASSUME NEW r \in Request, RefusedWatched(r)', req'[r].due > 0
        PROVE  req'[r].at < req'[r].due
    <3>1. CASE RefusedWatched(r) /\ req'[r] = req[r]
      BY <2>5, <3>1 DEF RetryAfterHolds
    <3>2. CASE req'[r].at = t /\ req'[r].due = due
      <4>1. Metered /\ n = WatchedLevel + tp /\ WatchedLevel \in Int
        BY <1>1, <2>1, MeteredLevel DEF WatchedFinds
      <4>2. Minute <= WatchedLevel + due * PerMinute
        BY <2>5, <3>2, <4>1 DEF DueInv
      <4>3. due * PerMinute \in Int /\ (due <= t => due * PerMinute <= tp)
        BY <1>1, <2>2, RefillGrows
      <4>4. ~(due <= t)
        <5> HIDE DEF tp
        <5> QED BY <1>1, <2>1, <2>3, <4>1, <4>2, <4>3
      <4> QED BY <1>1, <2>2, <3>2, <4>4
    <3> QED BY <2>1, <2>5, <3>1, <3>2
  <2>6. RetryAfterHolds'
    BY <2>5 DEF RetryAfterHolds
  <2>7. DueInv'
    BY <2>4 DEF DueInv
  <2> QED BY <2>6, <2>7
<1> QED BY <1>2, <1>3 DEF WatchedStep

(* All of it at once: the invariant of the limiter. *)
LimitInv ==
  /\ TypeInv
  /\ BoundInv /\ RateBound
  /\ SpentInv /\ RefusedOnlyWhenSpent
  /\ DueInv /\ RetryAfterHolds

LEMMA LimitInit == Init => LimitInv
<1> SUFFICES ASSUME Init PROVE LimitInv
  OBVIOUS
<1>1. TypeInv /\ BoundInv /\ RateBound
  BY TypeInit, BoundInit
<1>2. ~Metered /\ \A r \in Request : req[r].pc = "idle"
  BY DEF Init, Metered, Blank
<1>3. SpentInv /\ DueInv
  BY <1>2 DEF SpentInv, DueInv
<1>4. RefusedOnlyWhenSpent /\ RetryAfterHolds
  BY <1>2 DEF RefusedOnlyWhenSpent, RetryAfterHolds, RefusedWatched
<1> QED BY <1>1, <1>3, <1>4 DEF LimitInv

LEMMA LimitStep == LimitInv /\ [Next]_vars => LimitInv'
<1> SUFFICES ASSUME LimitInv, [Next]_vars PROVE LimitInv'
  OBVIOUS
<1>1. TypeInv /\ TypeInv' /\ WatchedStep
  BY TypeStep, WatchedSteps DEF LimitInv
<1>2. BoundInv' /\ RateBound'
  BY <1>1, BoundStep, RateBoundStep DEF LimitInv
<1>3. SpentInv' /\ RefusedOnlyWhenSpent'
  BY <1>1, SpentStep, SpentHolds DEF LimitInv
<1>4. DueInv' /\ RetryAfterHolds'
  BY <1>1, DueStep DEF LimitInv
<1> QED BY <1>1, <1>2, <1>3, <1>4 DEF LimitInv

-----------------------------------------------------------------------------
(* Theorems.                                                                *)

(* The state is of the right type: tokens are never overdrawn beyond what   *)
(* the lag between clock and lock refills, and no key but a group is kept.  *)
THEOREM TypesCorrect == Spec => []TypeOK
<1>1. LimitInv => TypeOK
  BY DEF LimitInv, TypeInv, Typed
<1> QED BY <1>1, LimitInit, LimitStep, PTL DEF Spec

(* The limit Rate.Allow is there for: over any stretch of time a client is  *)
(* let through for at most a burst and the refill, with the allowance the   *)
(* lag and the sweep add to it, for any number of handlers, clients and     *)
(* proxies.  What the full table lets through counts, unless MaxKeys other  *)
(* buckets were in use: that case is unbounded, and the only one that is.   *)
THEOREM LimitKept == Spec => []RateBound
<1>1. LimitInv => RateBound
  BY DEF LimitInv
<1> QED BY <1>1, LimitInit, LimitStep, PTL DEF Spec

(* A 429 is answered only to a client whose allowance is really spent.      *)
THEOREM RefusalsDeserved == Spec => []RefusedOnlyWhenSpent
<1>1. LimitInv => RefusedOnlyWhenSpent
  BY DEF LimitInv
<1> QED BY <1>1, LimitInit, LimitStep, PTL DEF Spec

(* The Retry-After of a 429 is long enough.                                 *)
THEOREM RetryAfterKept == Spec => []RetryAfterHolds
<1>1. LimitInv => RetryAfterHolds
  BY DEF LimitInv
<1> QED BY <1>1, LimitInit, LimitStep, PTL DEF Spec

(* clientIP keys a client by its own address, or its /64, however many      *)
(* trusted proxies are between and whatever X-Forwarded-For it forges.      *)
THEOREM ForgeriesAreIgnored == Spec => []MeteredByOwnAddress
<1>1. Init => HandlersInv
  BY BlankShaped DEF Init, HandlersInv
<1>2. HandlersInv => MeteredByOwnAddress
  BY DEF HandlersInv, OwnKey, MeteredByOwnAddress
<1> QED BY <1>1, <1>2, HandlersStep, PTL DEF Spec

(* Allow never lets the table grow past maxKeys, so what a flood of         *)
(* addresses can make the relay remember is bounded.                        *)
THEOREM TableBounded == Spec => []TableInv
<1>1. Init => TableInv
  <2> SUFFICES ASSUME Init PROVE TableInv
    OBVIOUS
  <2>1. DOMAIN buckets = {}
    BY DEF Init
  <2> QED BY <2>1, FS_EmptySet, RateAssumption DEF TableInv
<1> QED BY <1>1, TableStep, PTL DEF Spec
=============================================================================

------------------------------ MODULE RateLimit ------------------------------
(***************************************************************************)
(* The token bucket that meters login and register attempts per client     *)
(* address: allowAuth, clientIP, and Rate.Allow with its sweep.            *)
(*                                                                         *)
(* A request works out its key and reads the clock, then queues for the    *)
(* mutex of Rate, so calls of Allow take effect in an order that need not  *)
(* be that of their time stamps: a stamp may be older than the bucket's.   *)
(*                                                                         *)
(* Time is counted in seconds and tokens in fractions of 1/Minute, so that *)
(* PerMinute of these are refilled each second and Minute of them are one  *)
(* token.  The code's float64 arithmetic is taken to be exact.             *)
(***************************************************************************)
EXTENDS Naturals, Integers, FiniteSets, FiniteSetsExt, Functions, Sequences

CONSTANTS
  Client,      \* addresses requests really come from
  Trusted,     \* NOO_TRUSTED_PROXIES, the addresses in them
  Garbage,     \* an X-Forwarded-For entry that is no address
  Group,       \* the address an address is metered under: /64 for IPv6
  Paths,       \* the trusted proxies a request may pass, client side first
  Headers,     \* X-Forwarded-For headers a client may send itself
  Request,     \* handlers that may run at the same time
  PerMinute,   \* NOO_AUTH_RATE_PER_MINUTE; 0 would switch the limiter off
  Minute,      \* seconds in a minute
  MaxKeys,     \* limit.maxKeys
  Watched,     \* the client group whose traffic the history records
  MaxTime,     \* bound: when the clock of the model stops
  MaxLag       \* bound: seconds between reading the clock and the lock

ASSUME AddressAssumption ==
  /\ Client \cap Trusted = {} /\ Garbage \notin Client \cup Trusted
  /\ Client \cup Trusted \subseteq DOMAIN Group
  /\ Paths \subseteq Seq(Trusted)
  /\ Headers \subseteq Seq(Client \cup Trusted \cup {Garbage})
ASSUME RateAssumption ==
  /\ {PerMinute, Minute, MaxKeys} \subseteq Nat \ {0}
  /\ {MaxTime, MaxLag} \subseteq Nat
ASSUME WatchedAssumption == \E client \in Client : Watched = Group[client]

VARIABLES
  now,       \* time.Now, in seconds
  buckets,   \* Rate.buckets: a function on the keys present
  req,       \* the locals of each handler
  grants,    \* history: how many requests of Watched were let through, by
             \* stamp, those let through a Crowded table not counted
  due,       \* history: when Watched was last told a token would be there
  forgotten  \* history: how often the sweep forgot the bucket of Watched

vars == <<now, buckets, req, grants, due, forgotten>>

Time == 0 .. MaxTime
Key == {Group[client] : client \in Client}
Burst == PerMinute * Minute

Blank == [pc |-> "idle", from |-> Garbage, key |-> Garbage, at |-> 0, due |-> 0]

Handler ==
  [pc : {"idle", "lock", "refused"},
   from : Key \cup {Garbage},               \* history: the client's own group
   key : {Group[n] : n \in DOMAIN Group} \cup {Garbage},
   at : Time,                               \* the time stamp
   due : Nat]                               \* history: due, when refused

TypeOK ==
  /\ now \in Time
  /\ DOMAIN buckets \subseteq {Group[n] : n \in DOMAIN Group}
  /\ \A key \in DOMAIN buckets :
       buckets[key] \in [tokens : -MaxLag * PerMinute .. Burst, last : Time]
  /\ Cardinality(DOMAIN buckets) <= MaxKeys
  /\ req \in [Request -> Handler]
  /\ grants \in [Time -> Nat]
  /\ {due, forgotten} \subseteq Nat

Init ==
  /\ now = 0
  /\ buckets = [key \in {} |-> 0]
  /\ req = [r \in Request |-> Blank]
  /\ grants = [t \in Time |-> 0]
  /\ due = 0
  /\ forgotten = 0

-----------------------------------------------------------------------------
(* clientIP.                                                                *)

(* Mutant of ClientIP: the walk starts at the left, the client's end. *)
ClientIPFromLeft(peer, hops) ==
  IF peer \notin Trusted \/ hops = <<>> THEN Group[peer]
  ELSE IF hops[1] \in Client THEN Group[hops[1]] ELSE Group[peer]

(* The TCP peer, unless it is a trusted proxy: then the header from the     *)
(* right, up to the first address that is not itself trusted.  Garbage ends *)
(* the walk at the last address a proxy vouched for.                        *)
ClientIP(peer, hops) ==
  LET stop == Max({0} \cup {i \in DOMAIN hops : hops[i] \notin Trusted})
      vouched == IF stop = Len(hops) THEN peer ELSE hops[stop + 1]
  IN IF peer \notin Trusted THEN Group[peer]
     ELSE IF stop > 0 /\ hops[stop] # Garbage THEN Group[hops[stop]]
     ELSE Group[vouched]

(* The peer and the header of a request that passed these proxies: each     *)
(* appends to the header the address it was called from.                    *)
Seen(client, path, header) ==
  IF path = <<>> THEN [peer |-> client, hops |-> header]
  ELSE [peer |-> path[Len(path)],
        hops |-> header \o <<client>> \o SubSeq(path, 1, Len(path) - 1)]

-----------------------------------------------------------------------------
(* The bucket.                                                              *)

(* Mutant of Refilled: only whole tokens are refilled. *)
RefilledWhole(b, t) ==
  Min({Burst, b.tokens + (((t - b.last) * PerMinute) \div Minute) * Minute})

(* What is in a bucket at time t. *)
Refilled(b, t) == Min({Burst, b.tokens + (t - b.last) * PerMinute})

(* sweep: the buckets that have not refilled completely stay. *)
Swept(t) ==
  [key \in {k \in DOMAIN buckets : Refilled(buckets[k], t) < Burst} |->
     buckets[key]]

(* Mutant of Room: the table is not swept. *)
RoomUnswept(key, t) == buckets

(* The buckets in which key is looked up, swept first when it is new and    *)
(* there is no room for it.                                                 *)
Room(key, t) ==
  IF key \notin DOMAIN buckets /\ Cardinality(DOMAIN buckets) >= MaxKeys
  THEN Swept(t) ELSE buckets

(* Mutant of Full: the table may grow by one more. *)
FullOneMore(key, t) ==
  key \notin DOMAIN buckets /\ Cardinality(DOMAIN Room(key, t)) > MaxKeys

(* A new key that even the sweep makes no room for passes unmetered. *)
Full(key, t) ==
  key \notin DOMAIN buckets /\ Cardinality(DOMAIN Room(key, t)) >= MaxKeys

(* MaxKeys others have spent of their tokens and not got them back: then    *)
(* the limiter may give up metering key, and only then.                     *)
Crowded(key, t) ==
  Cardinality({k \in DOMAIN buckets \ {key} : Refilled(buckets[k], t) < Burst})
    >= MaxKeys

(* The bucket of key at time t, before this request spends from it. *)
Tokens(key, t) ==
  IF key \in DOMAIN buckets THEN Refilled(buckets[key], t) ELSE Burst

(* History: whether the sweep forgets the bucket of Watched is counted. *)
Forget(room) ==
  forgotten' = IF Watched \in DOMAIN buckets \ DOMAIN room THEN forgotten + 1
                                                           ELSE forgotten

(* Key's bucket is left with n tokens at time t. *)
Left(key, t, n) ==
  LET room == Room(key, t) IN
  /\ buckets' = [k \in DOMAIN room \cup {key} |->
                   IF k = key THEN [tokens |-> n, last |-> t] ELSE room[k]]
  /\ Forget(room)

(* Mutant of RetryAfter: the seconds are rounded down. *)
RetryAfterDown(n) == (Minute - n) \div PerMinute

(* Retry-After: the wait for one token, rounded up to a second. *)
RetryAfter(n) == (Minute - n + PerMinute - 1) \div PerMinute

-----------------------------------------------------------------------------

(* A request comes in: its key is worked out and the clock read. *)
Arrive(r) ==
  \E client \in Client, path \in Paths, header \in Headers :
    LET seen == Seen(client, path, header) IN
    /\ req[r].pc = "idle"
    /\ req' = [req EXCEPT ![r] =
                 [pc |-> "lock", from |-> Group[client],
                  key |-> ClientIP(seen.peer, seen.hops), at |-> now, due |-> 0]]
    /\ UNCHANGED <<now, buckets, grants, due, forgotten>>

(* Allow: a token is spent, and the limiter has seen the last of the        *)
(* request.                                                                 *)
Spend(r) ==
  LET q == req[r]
      n == Tokens(q.key, q.at)
  IN /\ q.pc = "lock"
     /\ ~Full(q.key, q.at) /\ n >= Minute
     /\ Left(q.key, q.at, n - Minute)
     /\ req' = [req EXCEPT ![r] = Blank]
     /\ grants' = IF q.from = Watched THEN [grants EXCEPT ![q.at] = @ + 1]
                                      ELSE grants
     /\ due' = IF q.from = Watched THEN 0 ELSE due
     /\ UNCHANGED now

(* Allow: none is left, and the 429 says when one will be. *)
Refuse(r) ==
  LET q == req[r]
      n == Tokens(q.key, q.at)
  IN /\ q.pc = "lock"
     /\ ~Full(q.key, q.at) /\ n < Minute
     /\ Left(q.key, q.at, n)
     /\ req' = [req EXCEPT ![r].pc = "refused", ![r].due = due]
     /\ due' = IF q.from = Watched THEN q.at + Max({1, RetryAfter(n)}) ELSE due
     /\ UNCHANGED <<now, grants>>

(* Allow: the table is full even after the sweep, and the request passes    *)
(* unmetered.  It counts as granted unless the table is Crowded.            *)
FailOpen(r) ==
  LET q == req[r] IN
  /\ q.pc = "lock"
  /\ Full(q.key, q.at)
  /\ buckets' = Room(q.key, q.at)
  /\ Forget(Room(q.key, q.at))
  /\ req' = [req EXCEPT ![r] = Blank]
  /\ grants' = IF q.from = Watched /\ ~Crowded(q.key, q.at)
               THEN [grants EXCEPT ![q.at] = @ + 1] ELSE grants
  /\ UNCHANGED <<now, due>>

(* writeTooMany answers. *)
Respond(r) ==
  /\ req[r].pc = "refused"
  /\ req' = [req EXCEPT ![r] = Blank]
  /\ UNCHANGED <<now, buckets, grants, due, forgotten>>

(* A second passes, unless a request has waited too long for the lock. *)
Tick ==
  /\ now < MaxTime
  /\ \A r \in Request : req[r].pc = "lock" => now < req[r].at + MaxLag
  /\ now' = now + 1
  /\ UNCHANGED <<buckets, req, grants, due, forgotten>>

Next ==
  \/ \E r \in Request :
       Arrive(r) \/ Spend(r) \/ Refuse(r) \/ FailOpen(r) \/ Respond(r)
  \/ Tick

Spec == Init /\ [][Next]_vars

-----------------------------------------------------------------------------
(* Properties.                                                              *)

(* The counted requests of Watched let through, with stamps from s to t. *)
Granted(s, t) == SumFunctionOnSet(grants, s .. t)

(* Watched was just refused. *)
RefusedWatched(r) == req[r].pc = "refused" /\ req[r].from = Watched

(* The limit: in every stretch of time a client is let through for a burst  *)
(* and what was refilled, whatever addresses it claims and however its      *)
(* requests race.  Every request let through counts, also one the full      *)
(* table let through unmetered, unless MaxKeys other clients' buckets were  *)
(* in use at that moment: the limiter fails open, without any bound on the  *)
(* client, then and only then.  Each time the sweep forgets its bucket it   *)
(* may gain the refill of the lag: what is full by one request's clock      *)
(* starts full by an older one.                                             *)
RateBound ==
  \A s \in Time : \A t \in s .. MaxTime :
    Granted(s, t) * Minute <= Burst + (t - s + MaxLag * forgotten) * PerMinute

(* The converse: a client that is refused has really spent its allowance,   *)
(* counted from some moment on and up to the refill of the lag, by the      *)
(* stamp of the request refused.                                            *)
RefusedOnlyWhenSpent ==
  \A r \in Request : RefusedWatched(r) =>
    LET latest == Min({MaxTime, req[r].at + MaxLag}) IN
    \E s \in 0 .. latest :
      Burst + (req[r].at - s - MaxLag) * PerMinute
        < (Granted(s, latest) + 1) * Minute

(* Retry-After is kept: a client that waits as long as it was told, and     *)
(* that nobody of its group overtakes, is not refused again.                *)
RetryAfterHolds ==
  \A r \in Request :
    RefusedWatched(r) /\ req[r].due > 0 => req[r].at < req[r].due

(* A client behind trusted proxies, or none, is metered under its own       *)
(* address, whatever X-Forwarded-For it sends along.                        *)
MeteredByOwnAddress ==
  \A r \in Request : req[r].pc # "idle" => req[r].key = req[r].from
=============================================================================

-------------------------------- MODULE Login --------------------------------
(***************************************************************************)
(* The password handlers: login, and register and adminCreateUser, which   *)
(* hash as well.  A login asks the backoff of its name (Wait), looks the   *)
(* user up, queues for one of the bcrypt slots, verifies, gives the slot   *)
(* back, and only then tells the backoff what came of it (Fail, Succeed).  *)
(* Requests run concurrently, so many may be past Wait before the first    *)
(* failure is recorded.                                                    *)
(*                                                                         *)
(* Backoff and the slots are all there is of the process's memory here.    *)
(* The token bucket before it is RateLimit, and what the handlers do to    *)
(* users and devices is Accounts.  Each access to the backoff is under its *)
(* mutex and takes effect at once, lag after the caller read the clock.    *)
(***************************************************************************)
EXTENDS Backoff

CONSTANTS
  Request,     \* handlers that may run at the same time
  Name,        \* user names as sent
  None,        \* no name
  Slots,       \* NOO_MAX_CONCURRENT_HASHES
  HashWait     \* hashWait

ASSUME SlotsAssumption == Slots \in Nat \ {0}
ASSUME WaitAssumption == HashWait \in Nat
ASSUME NoneAssumption == None \notin Name
ASSUME RequestAssumption == IsFiniteSet(Request) /\ Request # {}

VARIABLES
  entries,     \* Backoff.entries: a function on the names present
  hashSlots,   \* how many of the channel's places are taken
  req,         \* the locals of each handler
  late         \* history: failures recorded for a name since it is blocked

vars == <<entries, hashSlots, req, late>>

Kinds == {"login", "create"}

(* right: the name exists and the password is its password. *)
Handler ==
  [pc : {"idle", "wait", "lookup", "queue", "hash", "insert", "fail", "succeed"},
   kind : Kinds, name : Name \cup {None}, right : BOOLEAN,
   lag : 0 .. MaxLag,        \* since time.Now was read, until the lock
   queued : 0 .. HashWait]   \* since acquireHash began

Blank == [pc |-> "idle", kind |-> "login", name |-> None, right |-> FALSE,
          lag |-> 0, queued |-> 0]

TypeOK ==
  /\ DOMAIN entries \subseteq Name
  /\ \A name \in DOMAIN entries : entries[name] \in Failures
  /\ Cardinality(DOMAIN entries) <= MaxKeys
  /\ hashSlots \in 0 .. Slots
  /\ req \in [Request -> Handler]
  /\ late \in [Name -> Nat]

Init ==
  /\ entries = [name \in {} |-> 0]
  /\ hashSlots = 0
  /\ req = [r \in Request |-> Blank]
  /\ late = [name \in Name |-> 0]

-----------------------------------------------------------------------------

(* Request r is at one stage, and goes on to another. *)
Goto(r, from, to) ==
  /\ req[r].pc = from
  /\ req' = [req EXCEPT ![r].pc = to, ![r].lag = 0, ![r].queued = 0]

Answer(r, from) ==
  /\ req[r].pc = from
  /\ req' = [req EXCEPT ![r] = Blank]

(* A login that allowAuth let through, its body valid. *)
Login(r, name, right) ==
  /\ req[r].pc = "idle"
  /\ req' = [req EXCEPT ![r] = [Blank EXCEPT !.pc = "wait", !.name = name,
                                             !.right = right]]
  /\ UNCHANGED <<entries, hashSlots, late>>

(* A register or adminCreateUser, likewise: it only hashes. *)
Create(r) ==
  /\ req[r].pc = "idle"
  /\ req' = [req EXCEPT ![r] = [Blank EXCEPT !.pc = "queue", !.kind = "create"]]
  /\ UNCHANGED <<entries, hashSlots, late>>

(* Mutant of WaitPass: it asks how many failures there were. *)
WaitPassByCount(r) ==
  LET q == req[r] IN
  /\ Goto(r, "wait", "lookup")
  /\ q.name \in DOMAIN entries => entries[q.name].count <= Free + 1
  /\ entries' = Waited(entries, q.name, q.lag)
  /\ UNCHANGED <<hashSlots, late>>

WaitPass(r) ==
  LET q == req[r] IN
  /\ Goto(r, "wait", "lookup")
  /\ ~Blocked(entries, q.name, q.lag)
  /\ entries' = Waited(entries, q.name, q.lag)
  /\ UNCHANGED <<hashSlots, late>>

WaitRefuse(r) ==
  /\ Answer(r, "wait")
  /\ Blocked(entries, req[r].name, req[r].lag)
  /\ UNCHANGED <<entries, hashSlots, late>>

(* UserByUsername. *)
Lookup(r) == Goto(r, "lookup", "queue") /\ UNCHANGED <<entries, hashSlots, late>>

(* acquireHash: a place in the channel. *)
Acquire(r) ==
  /\ Goto(r, "queue", "hash")
  /\ hashSlots < Slots
  /\ hashSlots' = hashSlots + 1
  /\ UNCHANGED <<entries, late>>

(* Mutant of GiveUp: the wait for a slot has no time limit. *)
GiveUpNever(r) == FALSE /\ Answer(r, "queue")

(* acquireHash: its context has timed out. *)
GiveUp(r) ==
  /\ req[r].queued = HashWait
  /\ Answer(r, "queue")
  /\ UNCHANGED <<entries, hashSlots, late>>

(* A login's bcrypt is done: the slot is free again, the clock is read.     *)
(* For a missing user it ran on the dummy hash and never succeeds.          *)
Verify(r) ==
  /\ req[r].kind = "login"
  /\ Goto(r, "hash", IF req[r].right THEN "succeed" ELSE "fail")
  /\ hashSlots' = hashSlots - 1
  /\ UNCHANGED <<entries, late>>

(* createUser's hash is done; it goes on to the store with the slot held. *)
Hashed(r) ==
  /\ req[r].kind = "create"
  /\ Goto(r, "hash", "insert")
  /\ UNCHANGED <<entries, hashSlots, late>>

(* Mutant of Created: the slot is given back when there was no error. *)
CreatedKeepsSlot(r) ==
  /\ Answer(r, "insert")
  /\ hashSlots' \in {hashSlots, hashSlots - 1}
  /\ UNCHANGED <<entries, late>>

(* CreateUser has answered, with an account or an error; either way the     *)
(* slot is given back before the error is looked at.                        *)
Created(r) ==
  /\ Answer(r, "insert")
  /\ hashSlots' = hashSlots - 1
  /\ UNCHANGED <<entries, late>>

Fail(r) ==
  LET q == req[r] IN
  /\ Answer(r, "fail")
  /\ entries' = Failed(entries, q.name, q.lag)
  /\ late' = [late EXCEPT ![q.name] =
                IF Blocked(entries, q.name, 0) THEN @ + 1 ELSE 0]
  /\ UNCHANGED hashSlots

Succeed(r) ==
  LET q == req[r] IN
  /\ Answer(r, "succeed")
  /\ entries' = Without(entries, {q.name})
  /\ late' = [late EXCEPT ![q.name] = 0]
  /\ UNCHANGED hashSlots

(* The client goes away.  Only a query or the wait for a slot notices; a    *)
(* bcrypt that runs is finished.                                            *)
Leave(r) ==
  /\ req[r].pc \in {"lookup", "queue"}
  /\ req' = [req EXCEPT ![r] = Blank]
  /\ UNCHANGED <<entries, hashSlots, late>>

(* The process restarts: the limits are forgotten. *)
Restart ==
  /\ entries' = [name \in {} |-> 0]
  /\ hashSlots' = 0
  /\ req' = [r \in Request |-> Blank]
  /\ late' = [name \in Name |-> 0]

(* Time passes, unless a request has waited too long for the lock. *)
Tick ==
  /\ \A r \in Request :
       req[r].pc \in {"wait", "fail"} => req[r].lag < MaxLag
  /\ entries' = Older(entries)
  /\ req' = [r \in Request |->
       [req[r] EXCEPT
          !.lag = IF req[r].pc \in {"wait", "fail"} THEN @ + 1 ELSE 0,
          !.queued = IF req[r].pc = "queue" THEN Min({HashWait, @ + 1}) ELSE 0]]
  /\ late' = [name \in Name |->
                IF Blocked(Older(entries), name, 0) THEN late[name] ELSE 0]
  /\ UNCHANGED hashSlots

Serve(r) ==
  \/ WaitPass(r) \/ WaitRefuse(r) \/ Lookup(r)
  \/ Acquire(r) \/ GiveUp(r)
  \/ Verify(r) \/ Hashed(r) \/ Created(r)
  \/ Fail(r) \/ Succeed(r)

Next ==
  \/ \E r \in Request :
       \/ \E name \in Name : \E right \in BOOLEAN : Login(r, name, right)
       \/ Create(r)
       \/ Serve(r)
       \/ Leave(r)
  \/ Tick
  \/ Restart

(* A handler that can go on does (Go runs it), and time passes. *)
Fairness == WF_vars(Tick) /\ \A r \in Request : WF_vars(Serve(r))

Spec == Init /\ [][Next]_vars /\ Fairness

-----------------------------------------------------------------------------
(* Properties.                                                              *)

Holding == {r \in Request : req[r].pc \in {"hash", "insert"}}

(* A bcrypt slot is taken exactly while a handler hashes: no way out of     *)
(* login, register or adminCreateUser keeps one or gives it back twice.     *)
SlotsAccounted == hashSlots = Cardinality(Holding)

(* Guessing a name is bounded whatever the number of addresses: while the   *)
(* name is blocked, only the attempts that raced with the one that blocked  *)
(* it are still verified, one for each other handler.                       *)
GuessesBounded == \A name \in Name : late[name] <= Cardinality(Request) - 1

Remaining(name) == IF name \in DOMAIN entries THEN entries[name].left ELSE 0

(* A block in force is only lifted by time or by the right password: no     *)
(* sweep, no forgetting, no late failure and no overflow of the delay makes *)
(* it shorter, but for the lag of a failure's clock.                        *)
BlocksLast ==
  [][\A name \in Name :
       \/ Remaining(name)' >= Remaining(name) - Max({1, MaxLag})
       \/ \E r \in Request : Succeed(r) /\ req[r].name = name
       \/ Restart]_vars

(* Every request is answered, however long the queue for the slots. *)
EveryoneAnswered == \A r \in Request : req[r].pc # "idle" ~> req[r].pc = "idle"
=============================================================================

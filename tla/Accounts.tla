------------------------------ MODULE Accounts ------------------------------
(***************************************************************************)
(* Who owns what: users, their devices, the tokens that name both, and the *)
(* rows an account owns in the other tables.  The handlers are register    *)
(* and adminCreateUser, login after its backoff (see Login), refresh, the  *)
(* requests behind requireUser, and adminDeleteUser.                       *)
(*                                                                         *)
(* The grain is the SQL statement; DeleteUser alone runs its statements in *)
(* a transaction.  It is a deferred one: it reads a snapshot first, and    *)
(* SQLite refuses its first DELETE if anything was committed since.        *)
(* Between two statements other requests run, and a request can be cut off.*)
(*                                                                         *)
(* A token is known by what it claims.  Expiry only makes a client stop    *)
(* using one, and access and refresh tokens are issued in pairs, so both   *)
(* are one token here.                                                     *)
(***************************************************************************)
EXTENDS Naturals, FiniteSets

CONSTANTS
  Name, Password,   \* what users are created and log in with
  Device,           \* device ids
  Table,            \* the other tables whose rows belong to a user: packets,
                    \* stream_marks, packet_blobs, blobs
  Request,          \* handlers that may run at the same time
  None,             \* no name, password or device
  MaxAccounts       \* bound: how many accounts are ever created

ASSUME NoneAssumption == None \notin Name \cup Password \cup Device
ASSUME MaxAccountsAssumption == MaxAccounts \in Nat

VARIABLES
  users,     \* rows of users; born numbers the accounts in the order created
  devices,   \* rows of devices
  owned,     \* the tables that have rows of a user: [table, user]
  created,   \* how many accounts were created, and sqlite_sequence for users
  tokens,    \* the token pairs issued
  req        \* the locals of each handler

tables == <<users, devices, owned, created>>
vars == <<tables, tokens, req>>

Id == 1 .. MaxAccounts
NoId == 0

UserRow == [id : Id, name : Name, password : Password, born : Id]
DeviceRow == [user : Id, device : Device]
OwnedRow == [table : Table, user : Id]
Token == [user : Id, device : Device, born : Id]

Stages ==
  {"idle", "select", "insert", "lookup", "upsert", "check", "mint",
   "authorize", "touch", "serve", "snapshot", "delete"}

Handler ==
  [pc : Stages,
   name : Name \cup {None}, password : Password \cup {None},
   user : Id \cup {NoId},       \* the user id the handler acts on
   device : Device \cup {None}, \* and the device
   fresh : BOOLEAN,             \* nothing committed since DeleteUser's SELECT
   born : Id \cup {NoId},       \* history: the account the id meant at first
   revoked : BOOLEAN]           \* history: no such device, from arrival on

Blank == [pc |-> "idle", name |-> None, password |-> None, user |-> NoId,
          device |-> None, fresh |-> FALSE, born |-> NoId, revoked |-> FALSE]

(* Past the lookup or the token, a handler knows whom it acts for. *)
Knows(h) ==
  /\ h.pc \in {"select", "insert"} => h.name # None /\ h.password # None
  /\ h.pc = "lookup" => h.device # None
  /\ h.pc \in {"upsert", "check", "mint", "authorize", "touch", "serve"} =>
       h.user # NoId /\ h.device # None /\ h.born # NoId
  /\ h.pc \in {"snapshot", "delete"} => h.user # NoId

(* The type of the tables and of the handlers' locals; no handler goes on   *)
(* to a statement without the user and device it is about.                  *)
TypeOK ==
  /\ users \subseteq UserRow
  /\ devices \subseteq DeviceRow
  /\ owned \subseteq OwnedRow
  /\ created \in Id \cup {0}
  /\ tokens \subseteq Token
  /\ req \in [Request -> Handler]
  /\ \A r \in Request : Knows(req[r])

Init ==
  /\ users = {}
  /\ devices = {}
  /\ owned = {}
  /\ created = 0
  /\ tokens = {}
  /\ req = [r \in Request |-> Blank]

-----------------------------------------------------------------------------
(* Queries and constraints.                                                 *)

Exists(user) == \E row \in users : row.id = user

(* Mutant of References: the foreign_keys pragma is off. *)
ReferencesAnything(user) == TRUE

(* user_id REFERENCES users(id), under foreign_keys(1). *)
References(user) == Exists(user)

(* UNIQUE of users.username. *)
Taken(name) == \E row \in users : row.name = name

(* Mutant of NextId: INTEGER PRIMARY KEY without AUTOINCREMENT. *)
NextIdReused ==
  CHOOSE n \in 1 .. created + 1 :
    /\ \A row \in users : row.id < n
    /\ n = 1 \/ Exists(n - 1)

(* AUTOINCREMENT: one more than any id ever given. *)
NextId == created + 1

HasDevice(user, device) == [user |-> user, device |-> device] \in devices

(* Mutant of Known: the device is not joined. *)
KnownUser(user, device) == Exists(user)

(* DeviceBelongsToUser. *)
Known(user, device) == Exists(user) /\ HasDevice(user, device)

-----------------------------------------------------------------------------
(* Control.                                                                 *)

Become(r, from, h) == req[r].pc = from /\ req' = [req EXCEPT ![r] = h]

Goto(r, from, to) == Become(r, from, [req[r] EXCEPT !.pc = to])

Answer(r, from) == Become(r, from, Blank)

(* After a statement that wrote: a snapshot read before it is stale, and,   *)
(* if it inserted a device, that device's tokens are good again.            *)
Written(reqs, row) ==
  [r \in Request |->
     [reqs[r] EXCEPT
        !.fresh = FALSE,
        !.revoked = @ /\ row # [user |-> reqs[r].user, device |-> reqs[r].device]]]

NoDevice == [user |-> NoId, device |-> None]

(* A write by r that ends at stage to, or with an answer. *)
Wrote(r, from, h, row) ==
  req[r].pc = from /\ req' = Written([req EXCEPT ![r] = h], row)

-----------------------------------------------------------------------------
(* register and adminCreateUser: CreateUser.                                *)

Create(r, name, password) ==
  /\ Become(r, "idle", [Blank EXCEPT !.pc = "select", !.name = name,
                                     !.password = password])
  /\ UNCHANGED <<tables, tokens>>

SelectFree(r) ==
  /\ Goto(r, "select", "insert")
  /\ ~Taken(req[r].name)
  /\ UNCHANGED <<tables, tokens>>

SelectTaken(r) ==
  /\ Answer(r, "select")
  /\ Taken(req[r].name)
  /\ UNCHANGED <<tables, tokens>>

(* Mutant of InsertUser: no UNIQUE index on the name. *)
InsertUserAnyway(r) ==
  /\ created < MaxAccounts
  /\ Wrote(r, "insert", Blank, NoDevice)
  /\ users' = users \cup
       {[id |-> NextId, name |-> req[r].name, password |-> req[r].password,
         born |-> created + 1]}
  /\ created' = created + 1
  /\ UNCHANGED <<devices, owned, tokens>>

InsertUser(r) ==
  /\ created < MaxAccounts
  /\ ~Taken(req[r].name)
  /\ Wrote(r, "insert", Blank, NoDevice)
  /\ users' = users \cup
       {[id |-> NextId, name |-> req[r].name, password |-> req[r].password,
         born |-> created + 1]}
  /\ created' = created + 1
  /\ UNCHANGED <<devices, owned, tokens>>

(* UNIQUE constraint failed: ErrUsernameTaken. *)
InsertTaken(r) ==
  /\ Answer(r, "insert")
  /\ Taken(req[r].name)
  /\ UNCHANGED <<tables, tokens>>

-----------------------------------------------------------------------------
(* login: UserByUsername, the verification, UpsertDevice, issueTokens.      *)

LogIn(r, name, password, device) ==
  /\ Become(r, "idle", [Blank EXCEPT !.pc = "lookup", !.name = name,
                          !.password = password, !.device = device])
  /\ UNCHANGED <<tables, tokens>>

LookupRight(r) ==
  \E row \in users :
    /\ row.name = req[r].name /\ row.password = req[r].password
    /\ Become(r, "lookup",
              [req[r] EXCEPT !.pc = "upsert", !.user = row.id, !.born = row.born])
    /\ UNCHANGED <<tables, tokens>>

(* 401, for a missing user as for a wrong password. *)
LookupWrong(r) ==
  /\ Answer(r, "lookup")
  /\ ~\E row \in users : row.name = req[r].name /\ row.password = req[r].password
  /\ UNCHANGED <<tables, tokens>>

UpsertDevice(r) ==
  LET row == [user |-> req[r].user, device |-> req[r].device] IN
  /\ References(row.user)
  /\ Wrote(r, "upsert", [req[r] EXCEPT !.pc = "mint"], row)
  /\ devices' = devices \cup {row}
  /\ UNCHANGED <<users, owned, created, tokens>>

(* issueTokens. *)
IssueTokens(r) ==
  LET q == req[r] IN
  /\ Answer(r, "mint")
  /\ tokens' = tokens \cup
                 {[user |-> q.user, device |-> q.device, born |-> q.born]}
  /\ UNCHANGED tables

-----------------------------------------------------------------------------
(* Requests that show a token: refresh, and those behind requireUser.       *)

Show(r, token, to) ==
  /\ Become(r, "idle",
       [Blank EXCEPT !.pc = to, !.user = token.user, !.device = token.device,
                     !.born = token.born,
                     !.revoked = ~HasDevice(token.user, token.device)])
  /\ UNCHANGED <<tables, tokens>>

Refresh(r, token) == Show(r, token, "check")

Call(r, token) == Show(r, token, "authorize")

(* DeviceBelongsToUser, in refresh and in requireUser. *)
Accept(r, from, to) ==
  /\ Goto(r, from, to)
  /\ Known(req[r].user, req[r].device)
  /\ UNCHANGED <<tables, tokens>>

Reject(r, from) ==
  /\ Answer(r, from)
  /\ ~Known(req[r].user, req[r].device)
  /\ UNCHANGED <<tables, tokens>>

(* TouchDevice: an UPDATE of last_seen, which nothing depends on. *)
TouchDevice(r) ==
  /\ HasDevice(req[r].user, req[r].device)
  /\ Wrote(r, "touch", [req[r] EXCEPT !.pc = "serve"], NoDevice)
  /\ UNCHANGED <<tables, tokens>>

(* It finds no row, so it writes nothing and no snapshot becomes stale. *)
TouchNothing(r) ==
  /\ ~HasDevice(req[r].user, req[r].device)
  /\ Goto(r, "touch", "serve")
  /\ UNCHANGED <<tables, tokens>>

(* An upload inserts or upserts a row of its account; every such table      *)
(* references users.                                                        *)
InsertRow(r) ==
  \E table \in Table :
    /\ References(req[r].user)
    /\ Wrote(r, "serve", req[r], NoDevice)
    /\ owned' = owned \cup {[table |-> table, user |-> req[r].user]}
    /\ UNCHANGED <<users, devices, created, tokens>>

(* registerDevice: INSERT OR IGNORE, which ignores a duplicate and nothing  *)
(* else.                                                                    *)
InsertDevice(r) ==
  \E device \in Device :
    LET row == [user |-> req[r].user, device |-> device] IN
    /\ References(row.user) /\ row \notin devices
    /\ Wrote(r, "serve", Blank, row)
    /\ devices' = devices \cup {row}
    /\ UNCHANGED <<users, owned, created, tokens>>

(* deleteDevice, of any device but the caller's own. *)
DeleteDevice(r) ==
  \E device \in Device \ {req[r].device} :
    /\ HasDevice(req[r].user, device)
    /\ Wrote(r, "serve", Blank, NoDevice)
    /\ devices' = devices \ {[user |-> req[r].user, device |-> device]}
    /\ UNCHANGED <<users, owned, created, tokens>>

(* Every other way a handler ends: a violated foreign key, a device that    *)
(* was registered before or that there is none of to delete included.       *)
Done(r) == Answer(r, "serve") /\ UNCHANGED <<tables, tokens>>

-----------------------------------------------------------------------------
(* adminDeleteUser: DeleteUser.                                             *)

AdminDelete(r, user) ==
  /\ Become(r, "idle", [Blank EXCEPT !.pc = "snapshot", !.user = user])
  /\ UNCHANGED <<tables, tokens>>

SelectUser(r) ==
  /\ Become(r, "snapshot", [req[r] EXCEPT !.pc = "delete", !.fresh = TRUE])
  /\ Exists(req[r].user)
  /\ UNCHANGED <<tables, tokens>>

SelectNoUser(r) ==
  /\ Answer(r, "snapshot")
  /\ ~Exists(req[r].user)
  /\ UNCHANGED <<tables, tokens>>

(* The DELETEs and the commit.  Blobs and packet_blobs go by ON DELETE      *)
(* CASCADE.                                                                 *)
DeleteUser(r) ==
  LET user == req[r].user IN
  /\ req[r].fresh
  /\ Wrote(r, "delete", Blank, NoDevice)
  /\ users' = {row \in users : row.id # user}
  /\ devices' = {row \in devices : row.user # user}
  /\ owned' = {row \in owned : row.user # user}
  /\ UNCHANGED <<created, tokens>>

(* SQLITE_BUSY_SNAPSHOT: rolled back, and a 500. *)
DeleteBusy(r) ==
  /\ Answer(r, "delete")
  /\ ~req[r].fresh
  /\ UNCHANGED <<tables, tokens>>

-----------------------------------------------------------------------------

(* The request is cut off between two statements, or the next one fails. *)
Cancel(r) ==
  /\ req[r].pc \notin {"idle", "mint"}
  /\ req' = [req EXCEPT ![r] = Blank]
  /\ UNCHANGED <<tables, tokens>>

Restart ==
  /\ req' = [r \in Request |-> Blank]
  /\ UNCHANGED <<tables, tokens>>

Arrive(r) ==
  \/ \E name \in Name, password \in Password :
       \/ Create(r, name, password)
       \/ \E device \in Device : LogIn(r, name, password, device)
  \/ \E token \in tokens : Refresh(r, token) \/ Call(r, token)
  \/ \E user \in Id : AdminDelete(r, user)

Serve(r) ==
  \/ SelectFree(r) \/ SelectTaken(r) \/ InsertUser(r) \/ InsertTaken(r)
  \/ LookupRight(r) \/ LookupWrong(r) \/ UpsertDevice(r) \/ IssueTokens(r)
  \/ Accept(r, "check", "mint") \/ Reject(r, "check")
  \/ Accept(r, "authorize", "touch") \/ Reject(r, "authorize")
  \/ TouchDevice(r) \/ TouchNothing(r)
  \/ InsertRow(r) \/ InsertDevice(r) \/ DeleteDevice(r) \/ Done(r)
  \/ SelectUser(r) \/ SelectNoUser(r) \/ DeleteUser(r) \/ DeleteBusy(r)

Next ==
  \/ \E r \in Request : Arrive(r) \/ Serve(r) \/ Cancel(r)
  \/ Restart

Spec == Init /\ [][Next]_vars

-----------------------------------------------------------------------------
(* Properties.                                                              *)

(* Nothing of an account outlives it: no device, packet, mark, reference or *)
(* blob of a deleted user, whatever its requests in flight were about to    *)
(* insert.                                                                  *)
NoOrphans ==
  /\ \A row \in devices : Exists(row.user)
  /\ \A row \in owned : Exists(row.user)

(* One account per name, however registrations race. *)
OneAccountPerName ==
  \A x, y \in users : x.name = y.name \/ x.id = y.id => x = y

(* A login, refresh or call acts on the account its password or token was   *)
(* for, never on one created later, also when the first was deleted in the  *)
(* meantime.                                                                *)
AccountsNotConfused ==
  \A r \in Request : req[r].born # NoId =>
    \A row \in users : row.id = req[r].user => row.born = req[r].born

(* Deleting a device revokes its tokens: a token shown when its device was  *)
(* gone, and not registered again since, is neither refreshed nor let in.   *)
RevokedTokensRefused ==
  \A r \in Request : req[r].pc \in {"mint", "touch", "serve"} => ~req[r].revoked
=============================================================================

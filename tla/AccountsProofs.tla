--------------------------- MODULE AccountsProofs ---------------------------
(***************************************************************************)
(* Theorems of Accounts, for every set of names, devices, tables and       *)
(* requests and any number of accounts.                                    *)
(***************************************************************************)
EXTENDS Accounts, TLAPS

(* An id is the number of the account it was given to, and no account has a *)
(* number that was not given yet: this is what AUTOINCREMENT adds.          *)
IdsNeverReused ==
  \A row \in users : row.id = row.born /\ row.id <= created

(* A token, and a handler, means by an id the account it first meant. *)
TokensTrue == \A token \in tokens : token.user = token.born

HandlerTrue(h) == h.born # NoId => h.user = h.born

(* Only a handler that is yet to look its device up is revoked, and it will *)
(* find none.                                                               *)
HandlerBarred(h) ==
  /\ h.pc \notin {"check", "authorize"} => ~h.revoked
  /\ h.revoked => ~HasDevice(h.user, h.device)

HandlersInv ==
  \A r \in Request : HandlerTrue(req[r]) /\ HandlerBarred(req[r])

AccountsInv ==
  /\ TypeOK
  /\ IdsNeverReused
  /\ OneAccountPerName
  /\ TokensTrue
  /\ HandlersInv
  /\ NoOrphans

-----------------------------------------------------------------------------
(* Handlers.                                                                *)

GoodHandler(h) == h \in Handler /\ Knows(h) /\ HandlerTrue(h) /\ HandlerBarred(h)

LEMMA GoodHandlers ==
  ASSUME AccountsInv, NEW r \in Request
  PROVE  GoodHandler(req[r])
BY DEF AccountsInv, TypeOK, HandlersInv, GoodHandler

LEMMA BlankIsGood == GoodHandler(Blank)
BY DEF GoodHandler, Blank, Handler, Stages, Knows, HandlerTrue, HandlerBarred

(* A step that only reads: it leaves one good handler. *)
LEMMA ReadOnly ==
  ASSUME AccountsInv, NEW r \in Request, NEW from, NEW h, GoodHandler(h),
         Become(r, from, h), UNCHANGED <<tables, tokens>>
  PROVE  AccountsInv'
<1>1. /\ users' = users /\ devices' = devices /\ owned' = owned
      /\ created' = created /\ tokens' = tokens
      /\ req' = [req EXCEPT ![r] = h]
  BY DEF Become, tables
<1>2. req \in [Request -> Handler]
  BY DEF AccountsInv, TypeOK
<1>3. req' \in [Request -> Handler] /\ \A q \in Request : GoodHandler(req'[q])
  BY <1>1, <1>2, GoodHandlers DEF GoodHandler
<1>4. TypeOK'
  BY <1>1, <1>3 DEF AccountsInv, TypeOK, GoodHandler
<1>5. HandlersInv'
  BY <1>1, <1>3 DEF HandlersInv, GoodHandler, HandlerBarred, HasDevice
<1>6. IdsNeverReused' /\ OneAccountPerName' /\ TokensTrue' /\ NoOrphans'
  BY <1>1 DEF AccountsInv, IdsNeverReused, OneAccountPerName, TokensTrue,
              NoOrphans, Exists
<1> QED BY <1>4, <1>5, <1>6 DEF AccountsInv

(* A step that wrote: the handlers are as good as before, if the device     *)
(* rows that are new are the one the step names.                            *)
LEMMA WriteHandlers ==
  ASSUME AccountsInv, NEW r \in Request, NEW from, NEW h, GoodHandler(h),
         NEW row, Wrote(r, from, h, row), devices' \subseteq devices \cup {row}
  PROVE  /\ req' \in [Request -> Handler]
         /\ \A q \in Request : Knows(req'[q])
         /\ HandlersInv'
<1> DEFINE reqs == [req EXCEPT ![r] = h]
<1>1. /\ reqs \in [Request -> Handler]
      /\ \A q \in Request : GoodHandler(reqs[q])
  BY GoodHandlers DEF GoodHandler, AccountsInv, TypeOK
<1>2. req' = Written(reqs, row)
  BY DEF Wrote
<1> HIDE DEF reqs
<1>3. ASSUME NEW q \in Request
      PROVE  /\ req'[q] \in Handler /\ Knows(req'[q])
             /\ HandlerTrue(req[q])' /\ HandlerBarred(req[q])'
  <2>1. /\ req'[q] = [reqs[q] EXCEPT !.fresh = FALSE,
               !.revoked = @ /\ row # [user |-> reqs[q].user,
                                       device |-> reqs[q].device]]
        /\ reqs[q] \in Handler /\ GoodHandler(reqs[q])
    BY <1>1, <1>2 DEF Written
  <2>2. /\ req'[q].pc = reqs[q].pc /\ req'[q].user = reqs[q].user
        /\ req'[q].device = reqs[q].device /\ req'[q].born = reqs[q].born
        /\ req'[q].name = reqs[q].name /\ req'[q].password = reqs[q].password
        /\ req'[q].revoked = (reqs[q].revoked /\
             row # [user |-> reqs[q].user, device |-> reqs[q].device])
        /\ req'[q] \in Handler
    BY <2>1 DEF Handler
  <2>3. Knows(req'[q]) /\ HandlerTrue(req[q])'
    BY <2>1, <2>2 DEF GoodHandler, Knows, HandlerTrue
  <2>4. HandlerBarred(req[q])'
    BY <2>1, <2>2 DEF GoodHandler, HandlerBarred, HasDevice
  <2> QED BY <2>2, <2>3, <2>4
<1>4. req' \in [Request -> Handler]
  BY <1>2, <1>3 DEF Written
<1> QED BY <1>3, <1>4 DEF HandlersInv

(* A step that wrote something other than users. *)
LEMMA WriteRows ==
  ASSUME AccountsInv, NEW r \in Request, NEW from, NEW h, GoodHandler(h),
         NEW row, Wrote(r, from, h, row),
         devices' \subseteq devices \cup {row},
         devices' \subseteq DeviceRow, owned' \subseteq OwnedRow,
         \A d \in devices' : Exists(d.user),
         \A d \in owned' : Exists(d.user),
         UNCHANGED <<users, created, tokens>>
  PROVE  AccountsInv'
<1>1. users' = users /\ created' = created /\ tokens' = tokens
  OBVIOUS
<1>2. TypeOK' /\ HandlersInv'
  BY <1>1, WriteHandlers DEF AccountsInv, TypeOK
<1>3. IdsNeverReused' /\ OneAccountPerName' /\ TokensTrue' /\ NoOrphans'
  BY <1>1 DEF AccountsInv, IdsNeverReused, OneAccountPerName, TokensTrue,
              NoOrphans, Exists
<1> QED BY <1>2, <1>3 DEF AccountsInv

-----------------------------------------------------------------------------
(* Requests come in.                                                        *)

LEMMA ArriveKeeps ==
  ASSUME AccountsInv, NEW r \in Request, Arrive(r)
  PROVE  AccountsInv'
<1>1. ASSUME NEW name \in Name, NEW password \in Password, Create(r, name, password)
      PROVE  AccountsInv'
  <2>1. GoodHandler([Blank EXCEPT !.pc = "select", !.name = name,
                                  !.password = password])
    BY NoneAssumption DEF GoodHandler, Blank, Handler, Stages, Knows,
          HandlerTrue, HandlerBarred
  <2> QED BY <1>1, <2>1, ReadOnly DEF Create
<1>2. ASSUME NEW name \in Name, NEW password \in Password, NEW device \in Device,
             LogIn(r, name, password, device)
      PROVE  AccountsInv'
  <2>1. GoodHandler([Blank EXCEPT !.pc = "lookup", !.name = name,
                       !.password = password, !.device = device])
    BY NoneAssumption DEF GoodHandler, Blank, Handler, Stages, Knows,
          HandlerTrue, HandlerBarred
  <2> QED BY <1>2, <2>1, ReadOnly DEF LogIn
<1>3. ASSUME NEW token \in tokens, NEW to \in {"check", "authorize"},
             Show(r, token, to)
      PROVE  AccountsInv'
  <2> DEFINE h == [Blank EXCEPT !.pc = to, !.user = token.user,
                     !.device = token.device, !.born = token.born,
                     !.revoked = ~HasDevice(token.user, token.device)]
  <2>1. token \in Token /\ token.user = token.born
    BY DEF AccountsInv, TypeOK, TokensTrue
  <2>2. /\ token.user \in Id /\ token.user # NoId /\ token.born \in Id
        /\ token.device \in Device /\ token.device # None
    BY <2>1, NoneAssumption DEF Token, Id, NoId
  <2>3. /\ h.pc = to /\ h.user = token.user /\ h.device = token.device
        /\ h.born = token.born /\ h.name = None /\ h.password = None
        /\ h.revoked = ~HasDevice(token.user, token.device)
    BY DEF Blank
  <2>4. h \in Handler
    BY <2>2 DEF Blank, Handler, Stages, HasDevice
  <2>5. Knows(h) /\ HandlerTrue(h) /\ HandlerBarred(h)
    BY <2>1, <2>2, <2>3, MaxAccountsAssumption
       DEF Knows, HandlerTrue, HandlerBarred, NoId, Id
  <2>6. GoodHandler(h)
    BY <2>4, <2>5 DEF GoodHandler
  <2> QED BY <1>3, <2>6, ReadOnly DEF Show
<1>4. ASSUME NEW user \in Id, AdminDelete(r, user)
      PROVE  AccountsInv'
  <2>1. user # NoId
    BY MaxAccountsAssumption DEF Id, NoId
  <2>2. GoodHandler([Blank EXCEPT !.pc = "snapshot", !.user = user])
    BY <2>1 DEF GoodHandler, Blank, Handler, Stages, Knows, HandlerTrue,
                HandlerBarred
  <2> QED BY <1>4, <2>2, ReadOnly DEF AdminDelete
<1> QED BY <1>1, <1>2, <1>3, <1>4 DEF Arrive, Refresh, Call

-----------------------------------------------------------------------------
(* Statements that read.                                                    *)

(* A handler that gives up or answers. *)
LEMMA AnswerKeeps ==
  ASSUME AccountsInv, NEW r \in Request, NEW from, Answer(r, from),
         UNCHANGED <<tables, tokens>>
  PROVE  AccountsInv'
BY BlankIsGood, ReadOnly DEF Answer

LEMMA ReadsKeep ==
  ASSUME AccountsInv, NEW r \in Request,
         \/ SelectFree(r) \/ SelectTaken(r) \/ InsertTaken(r)
         \/ LookupRight(r) \/ LookupWrong(r)
         \/ Accept(r, "check", "mint") \/ Reject(r, "check")
         \/ Accept(r, "authorize", "touch") \/ Reject(r, "authorize")
         \/ TouchNothing(r)
         \/ Done(r) \/ SelectUser(r) \/ SelectNoUser(r) \/ DeleteBusy(r)
  PROVE  AccountsInv'
<1> DEFINE q == req[r]
<1>1. GoodHandler(q)
  BY GoodHandlers
<1>2. CASE SelectFree(r)
  <2>1. q.pc = "select"
    BY <1>2 DEF SelectFree, Goto, Become
  <2>2. GoodHandler([q EXCEPT !.pc = "insert"])
    BY <1>1, <2>1 DEF GoodHandler, Handler, Stages, Knows, HandlerTrue,
                      HandlerBarred
  <2> QED BY <1>2, <2>2, ReadOnly DEF SelectFree, Goto
<1>3. CASE LookupRight(r)
  <2>1. PICK row \in users :
          /\ Become(r, "lookup", [q EXCEPT !.pc = "upsert", !.user = row.id,
                                           !.born = row.born])
          /\ UNCHANGED <<tables, tokens>>
    BY <1>3 DEF LookupRight
  <2>2. row.id = row.born /\ row.id \in Id /\ row.id # NoId
    BY MaxAccountsAssumption
       DEF AccountsInv, TypeOK, IdsNeverReused, UserRow, Id, NoId
  <2> DEFINE h == [q EXCEPT !.pc = "upsert", !.user = row.id, !.born = row.born]
  <2>3. q.pc = "lookup" /\ q.device # None /\ ~q.revoked
    BY <1>1, <2>1 DEF Become, GoodHandler, Knows, HandlerBarred
  <2>4. h \in Handler
    BY <1>1, <2>2 DEF GoodHandler, Handler, Stages
  <2>5. /\ h.pc = "upsert" /\ h.user = row.id /\ h.born = row.born
        /\ h.device # None /\ ~h.revoked
    BY <1>1, <2>3 DEF GoodHandler, Handler
  <2>6. GoodHandler(h)
    BY <2>2, <2>4, <2>5 DEF GoodHandler, Knows, HandlerTrue, HandlerBarred
  <2> QED BY <2>1, <2>6, ReadOnly
<1>4. CASE Accept(r, "check", "mint") \/ Accept(r, "authorize", "touch")
  <2>1. PICK to \in {"mint", "touch"} :
          /\ q.pc \in {"check", "authorize"}
          /\ Become(r, q.pc, [q EXCEPT !.pc = to])
          /\ Known(q.user, q.device)
          /\ UNCHANGED <<tables, tokens>>
    BY <1>4 DEF Accept, Goto, Become
  <2>2. ~q.revoked
    BY <1>1, <2>1 DEF GoodHandler, HandlerBarred, Known
  <2>3. GoodHandler([q EXCEPT !.pc = to])
    BY <1>1, <2>1, <2>2 DEF GoodHandler, Handler, Stages, Knows, HandlerTrue,
                            HandlerBarred
  <2> QED BY <2>1, <2>3, ReadOnly
<1>5. CASE TouchNothing(r)
  <2>1. q.pc = "touch"
    BY <1>5 DEF TouchNothing, Goto, Become
  <2>2. GoodHandler([q EXCEPT !.pc = "serve"])
    BY <1>1, <2>1 DEF GoodHandler, Handler, Stages, Knows, HandlerTrue,
                      HandlerBarred
  <2> QED BY <1>5, <2>2, ReadOnly DEF TouchNothing, Goto
<1>6. CASE SelectUser(r)
  <2>1. q.pc = "snapshot"
    BY <1>6 DEF SelectUser, Become
  <2>2. GoodHandler([q EXCEPT !.pc = "delete", !.fresh = TRUE])
    BY <1>1, <2>1 DEF GoodHandler, Handler, Stages, Knows, HandlerTrue,
                      HandlerBarred
  <2> QED BY <1>6, <2>2, ReadOnly DEF SelectUser
<1>7. CASE \/ SelectTaken(r) \/ InsertTaken(r) \/ LookupWrong(r)
           \/ Reject(r, "check") \/ Reject(r, "authorize") \/ Done(r)
           \/ SelectNoUser(r) \/ DeleteBusy(r)
  BY <1>7, AnswerKeeps DEF SelectTaken, InsertTaken, LookupWrong, Reject, Done,
                           SelectNoUser, DeleteBusy
<1> QED BY <1>2, <1>3, <1>4, <1>5, <1>6, <1>7

-----------------------------------------------------------------------------
(* Statements that write.                                                   *)

(* The new account has an id and a number nobody had. *)
LEMMA InsertUserKeeps ==
  ASSUME AccountsInv, NEW r \in Request, InsertUser(r)
  PROVE  AccountsInv'
<1> DEFINE new == [id |-> NextId, name |-> req[r].name,
                   password |-> req[r].password, born |-> created + 1]
<1>1. /\ users' = users \cup {new} /\ created' = created + 1
      /\ devices' = devices /\ owned' = owned /\ tokens' = tokens
      /\ ~Taken(req[r].name) /\ created < MaxAccounts /\ created \in Nat
      /\ req[r].pc = "insert" /\ Wrote(r, "insert", Blank, NoDevice)
  BY MaxAccountsAssumption
     DEF InsertUser, Wrote, AccountsInv, TypeOK, Id
<1>2. req[r].name \in Name /\ req[r].password \in Password
  BY <1>1, GoodHandlers DEF GoodHandler, Handler, Knows
<1>3. /\ new \in UserRow /\ new.id = created + 1 /\ new.born = created + 1
      /\ new.name = req[r].name
  BY <1>1, <1>2, MaxAccountsAssumption DEF UserRow, Id, NextId
<1> HIDE DEF new
<1>4. TypeOK' /\ HandlersInv'
  <2>1. created' \in Id
    BY <1>1, MaxAccountsAssumption DEF Id
  <2>2. users' \subseteq UserRow
    BY <1>1, <1>3 DEF AccountsInv, TypeOK
  <2>3. /\ req' \in [Request -> Handler]
        /\ \A q \in Request : Knows(req'[q])
        /\ HandlersInv'
    BY <1>1, BlankIsGood, WriteHandlers
  <2> QED BY <1>1, <2>1, <2>2, <2>3 DEF AccountsInv, TypeOK
<1>5. \A row \in users : row.id = row.born /\ row.id <= created /\ row.id \in Nat
  BY DEF AccountsInv, IdsNeverReused, TypeOK, UserRow, Id
<1>6. IdsNeverReused'
  BY <1>1, <1>3, <1>5 DEF IdsNeverReused
<1>7. OneAccountPerName'
  <2>1. \A row \in users : row.name # new.name /\ row.id # new.id
    BY <1>1, <1>3, <1>5 DEF Taken
  <2> QED BY <1>1, <2>1 DEF AccountsInv, OneAccountPerName
<1>8. TokensTrue' /\ NoOrphans'
  BY <1>1 DEF AccountsInv, TokensTrue, NoOrphans, Exists
<1> QED BY <1>4, <1>6, <1>7, <1>8 DEF AccountsInv

LEMMA DeleteUserKeeps ==
  ASSUME AccountsInv, NEW r \in Request, DeleteUser(r)
  PROVE  AccountsInv'
<1> DEFINE user == req[r].user
<1>1. /\ users' = {row \in users : row.id # user}
      /\ devices' = {row \in devices : row.user # user}
      /\ owned' = {row \in owned : row.user # user}
      /\ created' = created /\ tokens' = tokens
      /\ Wrote(r, "delete", Blank, NoDevice)
  BY DEF DeleteUser
<1>2. /\ req' \in [Request -> Handler]
      /\ \A q \in Request : Knows(req'[q])
      /\ HandlersInv'
  BY <1>1, BlankIsGood, WriteHandlers
<1>3. TypeOK'
  BY <1>1, <1>2 DEF AccountsInv, TypeOK
<1>4. IdsNeverReused' /\ OneAccountPerName' /\ TokensTrue'
  BY <1>1 DEF AccountsInv, IdsNeverReused, OneAccountPerName, TokensTrue
<1>5. NoOrphans'
  BY <1>1 DEF AccountsInv, NoOrphans, Exists
<1> QED BY <1>2, <1>3, <1>4, <1>5 DEF AccountsInv

LEMMA IssueTokensKeeps ==
  ASSUME AccountsInv, NEW r \in Request, IssueTokens(r)
  PROVE  AccountsInv'
<1> DEFINE q == req[r]
           new == [user |-> q.user, device |-> q.device, born |-> q.born]
<1>1. /\ users' = users /\ devices' = devices /\ owned' = owned
      /\ created' = created /\ tokens' = tokens \cup {new}
      /\ q.pc = "mint" /\ req' = [req EXCEPT ![r] = Blank]
  BY DEF IssueTokens, Answer, Become, tables
<1>2. /\ q \in Handler /\ q.user # NoId /\ q.born # NoId /\ q.device # None
      /\ q.user = q.born
  BY <1>1, GoodHandlers DEF GoodHandler, Knows, HandlerTrue
<1>3. new \in Token /\ new.user = new.born
  BY <1>2 DEF Handler, Token
<1> HIDE DEF new
<1>4. req' \in [Request -> Handler] /\ \A p \in Request : GoodHandler(req'[p])
  BY <1>1, BlankIsGood, GoodHandlers DEF GoodHandler, AccountsInv, TypeOK
<1>5. TypeOK' /\ TokensTrue'
  BY <1>1, <1>3, <1>4 DEF AccountsInv, TypeOK, TokensTrue, GoodHandler
<1>6. HandlersInv'
  BY <1>1, <1>4 DEF HandlersInv, GoodHandler, HandlerBarred, HasDevice
<1>7. IdsNeverReused' /\ OneAccountPerName' /\ NoOrphans'
  BY <1>1 DEF AccountsInv, IdsNeverReused, OneAccountPerName, NoOrphans, Exists
<1> QED BY <1>5, <1>6, <1>7 DEF AccountsInv

LEMMA WritesKeep ==
  ASSUME AccountsInv, NEW r \in Request,
         \/ UpsertDevice(r) \/ TouchDevice(r) \/ InsertRow(r)
         \/ InsertDevice(r) \/ DeleteDevice(r)
  PROVE  AccountsInv'
<1> DEFINE q == req[r]
<1>1. GoodHandler(q) /\ q \in Handler
  BY GoodHandlers DEF GoodHandler
<1>2. /\ devices \subseteq DeviceRow /\ owned \subseteq OwnedRow
      /\ \A row \in devices : Exists(row.user)
      /\ \A row \in owned : Exists(row.user)
  BY DEF AccountsInv, TypeOK, NoOrphans
<1>3. q.pc \in {"upsert", "touch", "serve"} =>
        q.user \in Id /\ q.device \in Device /\ ~q.revoked
  BY <1>1 DEF GoodHandler, Knows, Handler, HandlerBarred
<1>4. CASE UpsertDevice(r)
  <2> DEFINE row == [user |-> q.user, device |-> q.device]
  <2>1. /\ References(row.user) /\ q.pc = "upsert"
        /\ Wrote(r, "upsert", [q EXCEPT !.pc = "mint"], row)
        /\ devices' = devices \cup {row} /\ owned' = owned
        /\ UNCHANGED <<users, created, tokens>>
    BY <1>4 DEF UpsertDevice, Wrote
  <2>2. GoodHandler([q EXCEPT !.pc = "mint"])
    BY <1>1, <2>1 DEF GoodHandler, Handler, Stages, Knows, HandlerTrue,
                      HandlerBarred
  <2>3. row \in DeviceRow /\ Exists(row.user)
    BY <1>3, <2>1 DEF DeviceRow, References
  <2> HIDE DEF row
  <2>4. \A d \in devices' : Exists(d.user)
    BY <1>2, <2>1, <2>3
  <2> QED BY <1>2, <2>1, <2>2, <2>3, <2>4, WriteRows
<1>5. CASE TouchDevice(r)
  <2>1. /\ q.pc = "touch" /\ Wrote(r, "touch", [q EXCEPT !.pc = "serve"], NoDevice)
        /\ devices' = devices /\ owned' = owned
        /\ UNCHANGED <<users, created, tokens>>
    BY <1>5 DEF TouchDevice, Wrote, tables
  <2>2. GoodHandler([q EXCEPT !.pc = "serve"])
    BY <1>1, <2>1 DEF GoodHandler, Handler, Stages, Knows, HandlerTrue,
                      HandlerBarred
  <2> QED BY <1>2, <2>1, <2>2, WriteRows
<1>6. CASE InsertRow(r)
  <2>1. PICK table \in Table :
          /\ References(q.user) /\ q.pc = "serve"
          /\ Wrote(r, "serve", q, NoDevice)
          /\ owned' = owned \cup {[table |-> table, user |-> q.user]}
          /\ devices' = devices
          /\ UNCHANGED <<users, created, tokens>>
    BY <1>6 DEF InsertRow, Wrote
  <2> DEFINE new == [table |-> table, user |-> q.user]
  <2>2. new \in OwnedRow /\ Exists(new.user)
    BY <1>3, <2>1 DEF OwnedRow, References
  <2>3. owned' = owned \cup {new}
    BY <2>1
  <2> HIDE DEF new
  <2>4. owned' \subseteq OwnedRow /\ \A row \in owned' : Exists(row.user)
    BY <1>2, <2>2, <2>3
  <2> QED BY <1>1, <1>2, <2>1, <2>4, WriteRows
<1>7. CASE InsertDevice(r)
  <2>1. PICK device \in Device :
          LET row == [user |-> q.user, device |-> device] IN
          /\ References(row.user) /\ q.pc = "serve"
          /\ Wrote(r, "serve", Blank, row)
          /\ devices' = devices \cup {row} /\ owned' = owned
          /\ UNCHANGED <<users, created, tokens>>
    BY <1>7 DEF InsertDevice, Wrote
  <2> DEFINE row == [user |-> q.user, device |-> device]
  <2>2. row \in DeviceRow /\ Exists(row.user)
    BY <1>3, <2>1 DEF DeviceRow, References
  <2>3. /\ Wrote(r, "serve", Blank, row) /\ devices' = devices \cup {row}
        /\ owned' = owned /\ UNCHANGED <<users, created, tokens>>
    BY <2>1
  <2> HIDE DEF row
  <2>4. \A d \in devices' : Exists(d.user)
    BY <1>2, <2>2, <2>3
  <2> QED BY <1>2, <2>2, <2>3, <2>4, BlankIsGood, WriteRows
<1>8. CASE DeleteDevice(r)
  <2>1. /\ Wrote(r, "serve", Blank, NoDevice) /\ devices' \subseteq devices
        /\ owned' = owned /\ UNCHANGED <<users, created, tokens>>
    BY <1>8 DEF DeleteDevice
  <2> QED BY <1>2, <2>1, BlankIsGood, WriteRows
<1> QED BY <1>4, <1>5, <1>6, <1>7, <1>8

-----------------------------------------------------------------------------
(* The theorem.                                                             *)

LEMMA InitKeeps == Init => AccountsInv
<1> SUFFICES ASSUME Init PROVE AccountsInv
  OBVIOUS
<1>1. \A r \in Request : req[r] = Blank /\ GoodHandler(req[r])
  BY BlankIsGood DEF Init
<1> QED BY <1>1 DEF Init, AccountsInv, TypeOK, IdsNeverReused,
             OneAccountPerName, TokensTrue, HandlersInv, NoOrphans, GoodHandler

LEMMA RestartKeeps ==
  ASSUME AccountsInv, Restart
  PROVE  AccountsInv'
<1>1. /\ users' = users /\ devices' = devices /\ owned' = owned
      /\ created' = created /\ tokens' = tokens
      /\ req' = [r \in Request |-> Blank]
  BY DEF Restart, tables
<1>2. req' \in [Request -> Handler] /\ \A r \in Request : GoodHandler(req'[r])
  BY <1>1, BlankIsGood DEF GoodHandler
<1>3. TypeOK' /\ HandlersInv'
  BY <1>1, <1>2 DEF AccountsInv, TypeOK, HandlersInv, GoodHandler,
                    HandlerBarred, HasDevice
<1>4. IdsNeverReused' /\ OneAccountPerName' /\ TokensTrue' /\ NoOrphans'
  BY <1>1 DEF AccountsInv, IdsNeverReused, OneAccountPerName, TokensTrue,
              NoOrphans, Exists
<1> QED BY <1>3, <1>4 DEF AccountsInv

LEMMA NextKeeps == AccountsInv /\ [Next]_vars => AccountsInv'
<1> SUFFICES ASSUME AccountsInv, [Next]_vars PROVE AccountsInv'
  OBVIOUS
<1>1. CASE \E r \in Request : Arrive(r)
  BY <1>1, ArriveKeeps
<1>2. CASE \E r \in Request : Serve(r)
  BY <1>2, ReadsKeep, InsertUserKeeps, DeleteUserKeeps, IssueTokensKeeps,
     WritesKeep DEF Serve
<1>3. CASE \E r \in Request : Cancel(r)
  <2>1. PICK r \in Request : Cancel(r)
    BY <1>3
  <2> QED BY <2>1, AnswerKeeps DEF Cancel, Answer, Become
<1>4. CASE Restart
  BY <1>4, RestartKeeps
<1>5. CASE UNCHANGED vars
  BY <1>5 DEF vars, tables, AccountsInv, TypeOK, IdsNeverReused,
     OneAccountPerName, TokensTrue, HandlersInv, HandlerBarred, HasDevice,
     NoOrphans, Exists
<1> QED BY <1>1, <1>2, <1>3, <1>4, <1>5 DEF Next

(* The invariant the theorems below follow from. *)
LEMMA AccountsAreSafe == Spec => []AccountsInv
BY InitKeeps, NextKeeps, PTL DEF Spec

(* No handler and no order of statements leaves a malformed table, or goes  *)
(* on to a statement without the user and device it is about.               *)
THEOREM TypesCorrect == Spec => []TypeOK
<1>1. AccountsInv => TypeOK
  BY DEF AccountsInv
<1> QED BY <1>1, AccountsAreSafe, PTL

(* DeleteUser leaves nothing behind, whatever the account's requests insert.*)
THEOREM NothingOutlivesItsAccount == Spec => []NoOrphans
<1>1. AccountsInv => NoOrphans
  BY DEF AccountsInv
<1> QED BY <1>1, AccountsAreSafe, PTL

(* CreateUser gives a name to one account. *)
THEOREM NamesAreUnique == Spec => []OneAccountPerName
<1>1. AccountsInv => OneAccountPerName
  BY DEF AccountsInv
<1> QED BY <1>1, AccountsAreSafe, PTL

(* An id read before a deletion never means an account created after it. *)
THEOREM IdsKeepTheirMeaning == Spec => []AccountsNotConfused
<1>1. AccountsInv => AccountsNotConfused
  BY DEF AccountsInv, IdsNeverReused, HandlersInv, HandlerTrue,
         AccountsNotConfused
<1> QED BY <1>1, AccountsAreSafe, PTL

(* DeviceBelongsToUser makes the deletion of a device a revocation. *)
THEOREM DeletionRevokes == Spec => []RevokedTokensRefused
<1>1. AccountsInv => RevokedTokensRefused
  BY DEF AccountsInv, HandlersInv, HandlerBarred, RevokedTokensRefused
<1> QED BY <1>1, AccountsAreSafe, PTL
=============================================================================

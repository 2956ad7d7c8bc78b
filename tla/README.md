# Verification of noo-relay

noo-relay stores, for each account, end-to-end encrypted *packets* in one
append-only stream per device, plus the encrypted attachment *blobs* packets
refer to, and hands both to the account's other devices. It is a Go HTTP server
over one SQLite database. This directory holds TLA+ models of it, TLC instances
that check them, and TLAPS proofs about them. Paths and line numbers below are
those of `src/`; Go files are under `src/go/internal/` unless a path says
otherwise.

## 1. The system

| Component | State it keeps | Operations | Correct when | Modelled in |
|---|---|---|---|---|
| Packet streams and upload (`api/changes_handlers.go`, `store/store.go`) | `packets`, `stream_marks` | `uploadPacket`: `MissingBlobs`, `checkPacketStorage`, `InsertPacket` | a slot is filled once and only as the next of its stream; no counter is re-issued; answers tell the truth | Upload, Mailbox |
| Compaction and blob collection (`store/store.go`) | `packets`, `packet_blobs`, `blobs`, `stream_marks` | `PruneCovered`, `collectBlobs` | only what an accepted snapshot declares is deleted; the top of a stream survives its rows; space is reclaimed in the end | Upload |
| Attachment blobs (`api/blobs_handlers.go`) | `blobs` | `putBlob`, `getBlob` | a stored packet's references resolve; undeclared blobs go | Upload |
| Storage limits (`api/limits.go`, `store/limits.go`) | none: it reads the tables | `checkPacketStorage`, `checkBlobStorage`, `CoveredBytes` | an account passes a limit by no more than documented; re-sends are never refused | Upload |
| Pull, vector, hashes, usage reads (`api/changes_handlers.go`, `store/store.go`) | none | `Pull`, `UserVector`, `StreamHashes`, `UserUsage` | whatever a device lacks stays in its reach; one that keeps pulling ends up with everything | Sync, Migration |
| Login, registration, token refresh (`api/auth_handlers.go`, `auth/auth.go`) | `users`, `devices`, the bcrypt slots | `login`, `register`, `refreshToken` | every slot is given back; nobody waits for ever; a revoked device gets no token | Login, Accounts |
| Rate limit and backoff (`limit/limit.go`, `api/limits.go`) | token buckets; failure counts per name | `Allow`, `Wait`, `Fail`, `Succeed`, `clientIP` | nobody exceeds burst + rate while there is room to meter, or is refused without having spent it; a block lasts; memory is bounded | RateLimit, Backoff, Login |
| Accounts and administration (`api/admin_handlers.go`, `store/admin.go`) | `users` and all that is owned | `CreateUser`, `DeleteUser`, listings | one account per name; nothing of an account outlives it; ids keep their meaning | Accounts |
| Devices and token revocation (`api/devices_handlers.go`, `api/middleware.go`) | `devices` | list, register, delete, `requireUser` | a deleted device's token is refused | Accounts |
| Schema and migration (`store/store.go`) | schema, columns, hashes, marks | `Open`: `init`, `migrate`, `backfillHashes` | restartable at any statement, over any older file; no packet or top is lost | Migration |
| Process lifecycle (`src/go/cmd/relay/main.go`) | none | start, shutdown | a stop at any statement leaves a usable database | `Restart`, `Crash` of the others |
| HTTP routing, responses, middleware | none | routing, status codes, logging | (I/O) | - |
| Configuration (`config/config.go`) | read once | `Load` | (I/O) | constants |
| Install and deploy scripts | files on the host | install, upgrade, rollback | (shell) | `OlderBuild` of Migration |
| Dashboard (`src/static/index.html`) | none | a page over the admin API | (I/O) | - |

Components interact through the database and through three structures in memory
(the buckets, the failure table, the bcrypt slots). An upload of a snapshot
prunes other streams; a prune collects blobs; a quota check reads what uploads,
blob PUTs and prunes of other requests are changing; a pull runs beside all of
them; deleting an account or a device races with its requests; and opening the
database decides what all of them find.

**What is hard.** SQLite makes each *statement* atomic, and only `DeleteUser`
opens a transaction: `uploadPacket` for one snapshot is a dozen or more
statements. Between any two, statements of other requests run, the client can go
away (which cancels `r.Context()`, passed to every statement), a statement can
fail with `SQLITE_BUSY`, or the process can stop. Clients retry, forward each
other's packets (possibly without the snapshot declaration), may restore a
backup and re-issue a counter with another body, and may declare coverage of
anything. The limiters read the clock before they take their mutex. A start may
find the file of any older build, and a rollback may run one on it in between.
`PROJECT.json` lists the hazards line by line, with the property that would catch
each.

## 2. The modules

```
Mailbox                 what the store promises (abstract)
  ^ refined by Upload and by Migration

Upload                  the write path, one action per SQL statement
  ^ UploadInvariant     its invariant, step by step of a handler
      ^ UploadProofs    for any clients           (MailboxProofs: of Mailbox)
      ^ UploadClients   assumptions on clients, and what they get for them
          ^ MCUpload <- MCUploadRetry             retrying clients, fairness
          ^ UploadFailures    failures counted     (MCUploadRetry extends it too)
  ^ Sync                the read path and a syncing device, beside Upload
      ^ MCSync          (extends MCUploadRetry as well)
ClientProofs            (extends UploadProofs, UploadFailures, Sync, SumProofs)

Backoff                 the failure table, as operators
  ^ Login <- LoginProofs
RateLimit <- RateLimitProofs (with SumProofs), MCRateLimit
SumProofs               sums over finite sets: no state, facts only
Accounts  <- AccountsProofs,  MCAccounts
Migration <- MigrationProofs, MCMigration
```

**Mailbox** has two variables, the `top` of each stream and the `rows` held, and
two actions: `Append` fills the slot one past the top, `Compact` drops a prefix.
Its promise is in what no step can do: refill a slot, change bytes, lower a top,
leave a hole.

### Upload

One account. Accounts share no row, so others matter only as load.

| Variable | Code |
|---|---|
| `packets` | rows of `packets`: origin, counter, payload, is_snapshot (store.go:47-57) |
| `marks` | `stream_marks.high_water`, 0 for no row |
| `blobs` | ids in `blobs` |
| `refs` | rows of `packet_blobs` |
| `req` | one record per handler goroutine: the next statement (`pc`), the upload it serves, loop state and the locals still live (`mark` is the last `StreamMark` read, `freed` what `CoveredBytes` counted, `stored` is `inserted`, `pruned` is `result.Packets > 0`) |

`req[r].arrived` is a history variable: the top of the stream when the upload
arrived. Nothing reads it but properties. `freed` holds the rows counted rather
than their bytes; the code adds up lengths per device, and devices are disjoint,
so the sum is the same.

Each action is one SQL statement with the Go code up to the next one:

| Actions | Statement |
|---|---|
| `Receive`, `ReceiveBlob` | parsing and reading the body; no statement |
| `HasBlob`, `MissingBlob` | one `HasBlob` of the loop in `MissingBlobs` |
| `PassOldOrGap`, `CheckNew`, `RefuseDisk` | `StreamMark` in `checkPacketStorage`, then the disk check |
| `CheckStreams`, `RefuseStream` | `StreamCount` |
| `CoveredBytes` | one device of `CoveredBytes` |
| `CheckQuota`, `PutQuota` | `UserStorageBytes` |
| `InsertPacket`, `InsertNothing` | the guarded `INSERT ... SELECT` and its rows-affected |
| `RaiseMark` | `raiseMark` after an insert |
| `ReadHeld`, `ReadGap` | `StreamMark` after a refused insert |
| `RecordBlob` | one `INSERT OR IGNORE` of `recordPacketBlobs` |
| `FlagSnapshot` | `flagSnapshot` |
| `ReadCoveredMark`, `SkipUnknown` | `StreamMark` in `PruneCovered`, for a device of the map in Go's random order |
| `Reassert` | `raiseMark` in `PruneCovered` |
| `CountSome`, `CountNone` | the `SELECT COUNT` of `PruneCovered` |
| `DeletePackets`, `DeleteRefs` | its two `DELETE`s |
| `CountGarbage`, `CollectBlobs` | the `SELECT` and `DELETE` of `collectBlobs` |
| `PutHas`, `RefusePutDisk`, `PutQuota`, `PutBlob` | `putBlob` |
| `Respond` | the answer; the goroutine is free again |
| `Cancel` | any cut between two statements |
| `Restart` | the process stops and starts; `migrate` seeds the marks from `packets` |

Abstracted: ids, names and bodies are model values; a body has a length
(`Size`); free disk is unknown, so `RefuseDisk` may or may not happen while the
guard is on; parsing errors (which touch no table) are left out. `StreamMark` is
one SQL query over both tables, hence atomic here as well.

**UploadClients** keeps what is said of clients apart from what is said of the
relay, which checks none of it. `Honest(uploads)`: a slot has one body, and a
snapshot that covers another one covers all that one covers. `CoversItself`: a
snapshot holds its own stream up to itself. `SpecInOrder`: nobody sends a counter
past the next one. `NextSteady`: no request is cut off. The instances say with an
`ASSUME` that their uploads are of the kind (`HonestUploadsAssumption`,
`RetryUploadsAssumption`, `SyncUploadsAssumption`), so TLC confirms that the kind is inhabited.

**UploadFailures** counts the requests that are cut off and the restarts
(`failures`, at most `MaxFailures`), so that a property can say what each of them
may cost. In `SpecKept` clients add no reference to a packet that is gone
(`Kept`): an upload is new, or its packet is still stored, or it declares no blob.

### Sync

Adds to Upload one pull in flight (`pull`), the vector of the device that pulls
(`have`) and a history of one sync (`session`). `PullVector` is the statement of
`UserVector`, `PullSelect` the `SELECT` of the page with its `ORDER BY`
(`Before`: streams that bear a snapshot first, then device, then counter), its
`LIMIT` of one more than the page, and the byte budget of the loop over its rows.
`InOrder` puts each row at the place that as many rows are before it, and
`PageLength` says where the page ends. The device (`Taken`, `TakePacket`,
`EndPage`, `LosePull`) is not part of the repository and is marked external: it
does what the comments of `Pull` ask of a client, namely to take a packet only as
the next of its stream and to adopt a snapshot's coverage. It looks at the page
packet by packet and may stop between two. `PullNext` is a step of the write path
with its record in `session`, or a step of the pull.

### RateLimit

`buckets` is `Rate.buckets`, `now` the clock, and `req` a handler's key and time
stamp while it waits for the mutex. `Spend`, `Refuse` and `FailOpen` are the
three outcomes of `Allow`, its refill and its sweep included; `ClientIP` is
`clientIP`, the walk over `X-Forwarded-For` from the right. The proxies that
append to the header (`Seen`) are external. Tokens are counted in fractions of
`1/Minute`, so no fraction of a token is lost; the code's `float64` is taken to
be exact. The clock goes on while a handler waits, for at most `MaxLag` seconds.
`grants`, `due` and `forgotten` are history variables about one client: its
requests that were let through, the moment a `Retry-After` told it, and how often
the sweep forgot its bucket. A request that the full table let through unmetered
is counted like any other, unless the table was `Crowded`: at least `MaxKeys`
buckets of other clients short of full.

### Backoff and Login

`Backoff` has `Wait`, `Fail`, `Succeed` and the sweep as operators over the
failure table. An entry keeps how long ago its last failure was and how long it
still blocks, not absolute times, so that time need not be bounded; both
saturate. `Shifted` is the shift of a 64-bit `Duration` at a width of one's
choice, wrapping around; `Pow2` is the power of two it multiplies by. `Login` is the handler: ask the backoff, look the user
up, queue for a slot (up to `hashWait`), hash, give the slot back, read the
clock, record. `register` and `adminCreateUser` (`kind = "create"`) only hash and
keep the slot over `CreateUser`. Between reading the clock and taking the mutex
up to `MaxLag` passes.

### Accounts

The rows of `users` and `devices`, which other tables have rows of a user
(`owned`), `sqlite_sequence` (`created`), the token pairs issued, and the
handlers at their statements: `register`, `login`, `refreshToken`, what
`requireUser` guards (an upload's insert, `registerDevice`, `deleteDevice`), and
`adminDeleteUser`. Foreign keys, the `UNIQUE` index and `AUTOINCREMENT` are
`References`, `Taken` and `NextId`. `DeleteUser` is the one transaction: it reads
first, so it fails with `SQLITE_BUSY_SNAPSHOT` when anything was committed
between its `SELECT` and its first `DELETE` (`fresh`). An `UPDATE` or `DELETE` that
finds no row and an ignored `INSERT` commit nothing. That its `DELETE`s happen
together or not at all is SQLite's promise, not something the model could refute. `born` and `revoked` are
history variables.

### Migration

The file (`tables`, `columns`, `packets` with their hashes, `marks`) and the
statement the process is at. `Init` is every file this build can be started on:
none, v1, v2 before marks, v2 before hashes, current, with pruned streams and
with an insert that was cut off before `raiseMark`. `Open` runs one statement at
a time and `Crash` can come between any two. While the relay serves, one
`InsertPacket` or `PruneCovered` at a time runs statement by statement. While it
is down, `OlderBuild` stores packets without hashes, as the build does that a
rollback by `deploy.sh` puts back.

## 3. What the runs check

| Run | States | Shows |
|---|---|---|
| Streams | 624,614 | `MailboxSpec`, `OnePacketPerSlot`, `TailUnbroken`, `PrunedWasCovered`, `GapWasReal`, `TypeOK`, `HandlersOK` |
| Blobs | 1,207,571 | `AckTellsTruth`, `RefsOutlivePackets` |
| Honest | 2,790,869 | `NothingLost` |
| Limits | 32,211 | `QuotaOvershoot`, `StreamOvershoot`, `ResendNeverRefused` |
| RetryReclaim | 12,518 | `RestWithinQuota`, `StoredPacketHasItsBlobs`, `RefsOfStoredPackets`, `ResendOfStoredServed`, `RetryReclaimsPackets` |
| Sync | 102,590 | `NothingOutOfReach`, `PageAscends`, `SyncComplete`, `Converges` |
| RateLimit | 1,188,415 | `RateBound`, `RefusedOnlyWhenSpent`, `RetryAfterHolds`, `MeteredByOwnAddress`, `TypeOK` |
| Login | 158,802 | `SlotsAccounted`, `GuessesBounded`, `BlocksLast`, `EveryoneAnswered`, `TypeOK` |
| Accounts | 2,300,525 | `NoOrphans`, `OneAccountPerName`, `AccountsNotConfused`, `RevokedTokensRefused` |
| Migration | 139,986 | `HashesSpeakForStream`, `OneMailbox`, `Serves`, `TypeOK` |
| BlobRace, BlobCut | - | a violation each, below |

Deadlock is checked in every run: a handler can always be entered or left, and
time passes or a start happens. `Request` is a symmetry set only where no
liveness is checked.

**Streams.** Two requests, cut off and restarted anywhere, with a forked slot
(two bodies for one identity), a snapshot that covers itself and its own future,
and two snapshots that cover each other. The store implements `Mailbox`; a
missing packet was declared covered by an upload whose own slot was accepted; a
409 for a gap goes only to an upload past the next counter when it arrived.

**Blobs.** Packets with declarations, and a carrier's copy of a snapshot that has
neither coverage nor blobs. After a 200 or 201 the slot counts as accepted, and a
row that is still there has the declared references and flag, whoever inserted
it; a reference goes only when its packet is gone.

**Honest.** Clients that send one body per slot and whose snapshots' coverage
contains that of the snapshots they cover: every accepted packet is readable,
itself or inside a stored and flagged snapshot that covers it.

**Limits.** A quota of two, a stream limit of one, the disk guard on, and clients
that send each stream in order (`SpecInOrder`). One is a first packet that is a
snapshot of a device unknown to the relay: `CoveredBytes` credits it nothing (the
credit itself is the subject of RetryReclaim). Only the requests that raced carry
the account past a limit, by one body or stream each; a slot held on arrival is
never answered 507.

**RetryReclaim.** One request at a time at the quota, at most two failures at any
statement. What `CoveredBytes` credits, `PruneCovered` frees, but for one body for
each failure (`RestWithinQuota`). A stored packet has every blob its upload
declared, whether it is recorded yet or not (`StoredPacketHasItsBlobs`); the
exception is a blob whose reference a failure kept from being recorded, and the
instance has such packets (see BlobCut). As long as nothing has failed, `packet_blobs` has no reference of a
packet that is gone (`RefsOfStoredPackets`) and no re-send of a stored packet is
answered 409 "Missing blobs" (`ResendOfStoredServed`). And a client that keeps
re-sending an accepted snapshot gets all it covers deleted for good. The snapshots
declare no blobs, so that they can be re-sent for ever under `Kept`.

**Sync.** One device pulls pages of two packets or two bytes beside the retrying
clients, with one failure or lost pull. The uploads are those a pull can get stuck
on, few because liveness is dear to check: a snapshot of b stands for the head of
a's stream, whose second packet fills a page alone, and a's own snapshot covers b's
in turn. Whatever of an accepted stream the device lacks, a stored packet above its
vector gives it (`NothingOutOfReach`), at every point of a prune; a page is
contiguous in each stream; a sync during which no packet was deleted ends with
everything that was accepted when it began; and a device that keeps syncing ends up
with everything.

**RateLimit.** Three client groups (two IPv6 addresses share a /64), directly or
behind two trusted proxies, with no, a plain and a broken forged header; a table
of two buckets, so that sweeping, failing open and metering all happen; a token
every one and a half seconds; a lag of one second. `RateBound` bounds what a client
is let through for while there is room to meter it. Once `MaxKeys` other clients'
buckets are in use, a client without a bucket passes, as often as it likes
(limit.go:6-9: "evicts idle entries first, and once full, fails open"): such passes
are left out of the bound, and the property says that no others exceed it. A
limiter that failed open without evicting idle entries first would break it; that
is its mutant. `RateBound` allows the refill of the lag on top of burst and rate, once for each time the sweep forgot the
client's bucket: it can forget a bucket that is full by one request's clock and
let it start full by an older one.

**Login.** Two handlers, two names, a table of one, one slot, one free failure,
delays 1, 2, 4, a word of four bits. Slots and hashing handlers agree; while a
name is blocked only attempts that raced with the one that blocked it are still
verified; no sweep, late failure or overflow shortens a block by more than the
lag; everyone is answered.

**Accounts.** Two requests at any statement, three accounts of two names, two
devices: see the properties' comments.

**Migration.** Two streams of up to two packets, batches of two, a hash range of
one counter, two crashes, any number of packets stored by the older build.

**Why the bounds are enough.** Two requests race at any pair of statements; the
properties that need a third party (a client whose answer was lost, a carrier)
have it in an earlier request, since what a request leaves is in the tables. Two
streams allow mutual coverage; three are used where a limit of one is passed
twice. Counters go to the highest an upload of the run has (4 at most), enough
for a snapshot that covers a snapshot that covers a packet. Each table of a
limiter is small enough to be full. The proofs remove the bounds for what they
cover.

**Fairness.** `WF` of a handler's next step (`Work`, `Serve`), of the pulling
device (`Read`) and of `Open`: the Go scheduler runs what can run, and
`busy_timeout` queues a writer for the lock. `WF(Tick)`: time passes. `WF(Start)`:
systemd starts the service and restarts it (`Restart=on-failure` in
`src/install.sh`). `SF` of a re-send: a client that has not seen the answer to an
accepted snapshot retries, and gets through if it can again and again; strong,
because other requests occupy the one handler in between. No client has to upload
anything new. Failures, lost pulls and crashes are not fair, only finitely many
(`MaxFailures`, `MaxCrashes`).

### What does not hold

**BlobRace** (`StoredPacketHasItsBlobs` with two requests and no failure,
changes_handlers.go:133): a blob `MissingBlobs` found is collected by another
request's prune before the packet that declares it is recorded. The packet is
stored, its blob is gone.

**BlobCut** (`DeclaredBlobsStored`, the same promise without the exception, one
request at a time and one failure, store.go:541): an upload is cut off between its
`INSERT` and `recordPacketBlobs`. The packet is stored and nothing says what it
declared, so a prune of another stream collects the blob. A re-send before that
prune records the reference and mends it; after it, the re-send is answered 409
until the blob is uploaded again.

Further disagreements between the code and what it says, each reproduced with TLC
on these models or a variant of them, without a run that is kept:

- store.go:552: the insert is refused, another request fills the slot before, and
  the mark read next makes the 409 say "Non-contiguous counter n; next expected
  n". A correct retry succeeds.
- limits.go:183, store/limits.go:25: the credit for coverage is spent at the
  insert and earned at the prune; a cut between leaves the account over its
  quota, without a race. The same rows can be credited to the next snapshot
  before a prune gets through, so each failure may add a body: the bound of
  `RestWithinQuota` is reached.
- limits.go:146 ("a client must always be able to re-send what the relay holds,
  however full the account"): true of the limits, but after what BlobCut shows the
  re-send is answered 409 "Missing blobs". Hence `failures = 0` in
  `ResendOfStoredServed`.
- limits.go:160: an upload past the next counter skips every limit, on the ground
  that it will be a 409. If the missing packet arrives between the check and the
  insert, it is stored unchecked. A client with two requests in flight can repeat
  this, so the overshoot is not "one packet each" but unbounded; hence the clients
  that upload in order in Limits.
- store.go:82 ("which blobs each stored packet declared"): `InsertPacket` records
  the references of every upload at or below the mark (store.go:557), also of a
  packet that a snapshot has pruned and that a client uploads again, not having
  seen its 201. They name no stored packet and keep their blobs, until a later
  prune of the same stream, up to that counter or further, deletes at least one
  packet (store.go:740, 750). `RefsOfStoredPackets` is false without `Kept`, with
  one request at a time and no failure.
- store.go:740: a prune cut after `DELETE FROM packets` and before `DELETE FROM
  packet_blobs` leaves references that its retry does not delete: it counts no
  packets and skips both the second `DELETE` and `collectBlobs`. They stay until
  another packet of that stream is pruned.
- store.go:846 ("returns every packet"): a sync that a prune runs through can end
  with has_more = false and lack packets; the next sync brings them. Hence
  `calm` in `SyncComplete`.
- limit.go:73 ("forgetting them changes nothing"): true of a bucket that is full
  by the clock of all who wait; with lag a client can gain the refill of the lag,
  and again each time.
- admin.go:157-159 ("The deletes are explicit rather than left to ON DELETE CASCADE
  so the behaviour does not depend on the foreign_keys pragma being on"): the loop
  deletes `packets`, `stream_marks`, `devices` and `users`; `blobs` and
  `packet_blobs` go by the cascade alone, so the behaviour does depend on it. (Read
  off the code: the models take the pragma as on.)
- store.go:195-197 (the seeding is "a no-op" once the marks are there): it raises
  a mark after a cut between the insert and `raiseMark`, which store.go:534-537
  relies on.

Observations without a claim against them: a re-send of a held slot whose blob was
collected with its packet is answered 409 "Missing blobs"
(changes_handlers.go:142); a re-issued slot whose body is dropped as a duplicate
still has its coverage obeyed (store.go:695); `DeleteUser` answers 500 when
anything commits between its `SELECT` and its first `DELETE`; two devices can delete each other at once; and
a device id that is registered again makes its unexpired old tokens good again.

## 4. What is proved

Each theorem holds for every value of the constants, that is for any number of
devices, names, blobs, requests and uploads and any limits, with cuts, crashes and
restarts. The named `ASSUME`s of the modules say that inputs are well typed, and:
`Backoff`'s delays fit a `Duration` as far as the shift goes, the cap is reached
before the shift stops, and a name is not forgotten while it is blocked (all true
of the constants in `api/limits.go`); `Login`'s `Request` is finite and not empty;
`RateLimit`'s clients are not trusted proxies.

What a theorem asks beyond that is in its statement:

| Hypothesis | Why it is there |
|---|---|
| `Honest(Uploads)`, `CoversItself(Uploads)` | The relay takes a client's word for what a snapshot covers; no promise about content survives a client that lies. |
| `OneAtATime` | A handler at a time. With two the property fails: BlobRace, and the overshoot of Limits. |
| `SpecKept` | A pruned packet that is uploaded again leaves references behind (above). |
| `OneDeclaration(Uploads)` | An upload may add a blob that the stored packet never declared, and that was never uploaded; that one is rightly missing. |
| `SpecInOrder` | An upload past the next counter skips every limit (above). |
| `NothingCovers` | The credit of an upload is spent before it is earned (above), so racing requests can spend the same credit; RestsWithinQuota is about credit. |
| `SpecFail`, and `failures` in the properties | It only adds the count of failures to `Spec`. A cut between insert and prune keeps a credit unpaid, one between the two `DELETE`s keeps references, one between insert and `recordPacketBlobs` loses them (BlobCut). |
| `IsFiniteSet(Request)`, `SizesBounded` | The bound is made from the number of requests and from the largest body, so there must be one: requests at any moment are finite, and a body beyond its limit is not read. |
| `IsFiniteSet(Uploads)` | `Taken` is a maximum over the uploads a row may be. |
| `UserQuotaBytes > 0`, `MaxStreamsPerUser > 0` | 0 means no limit. |

| Module | Theorem | States |
|---|---|---|
| UploadProofs | `Refinement` | `Spec => MailboxSpec` |
| | `SlotsAndTails`, `TailsUnbroken` | `[](OnePacketPerSlot /\ TailUnbroken)`, from `Refinement` and `MailboxSafe` |
| | `BlastRadius` | `[]PrunedWasCovered` |
| | `HandlersCorrect` | `[]HandlersOK` |
| | `GapsAreReal` | `[]GapWasReal` |
| | `ResendsAreAdmitted` | `[]ResendNeverRefused` |
| | `TypeCorrect` | `[]TypeOK` |
| | `AcksTellTheTruth` | `[]AckTellsTruth` |
| | `ReferencesOutlive` | `Spec => RefsOutlivePackets` |
| MailboxProofs | `MailboxSafe` | one packet per slot and no holes, of the mailbox alone |
| ClientProofs | `BlobsStayOneAtATime` | `SpecFail => []StoredPacketHasItsBlobs` |
| | `StreamLimitKept` | `[]StreamOvershoot`, whatever order clients upload in |
| | `QuotaKept` | `[]QuotaOvershoot` |
| | `RestsWithinQuota` | `SpecFail => []RestWithinQuota` |
| | `ReferencesHavePackets` | `SpecKept => []RefsOfStoredPackets` |
| | `ResendsAreServed` | `SpecFail => []ResendOfStoredServed` |
| | `HonestClientsLoseNothing` | `[]NothingLost` |
| | `InReachAlways` | `[]NothingOutOfReach` |
| | `PagesAscend` | `[]PageAscends` |
| | `SyncsComplete` | `[]SyncComplete` |
| | `PullTypeCorrect` | `[]SyncTypeOK` |
| AccountsProofs | `NothingOutlivesItsAccount`, `NamesAreUnique`, `IdsKeepTheirMeaning`, `DeletionRevokes` | the four invariants of the run Accounts |
| | `TypesCorrect` | `[]TypeOK` |
| LoginProofs | `SlotsAreGivenBack`, `GuessesAreBounded` | `[]SlotsAccounted`, `[]GuessesBounded` |
| | `BlocksAreKept` | `Spec => BlocksLast` |
| | `TypesCorrect` | `[]TypeOK` |
| RateLimitProofs | `LimitKept`, `RefusalsDeserved`, `RetryAfterKept` | `[]RateBound`, `[]RefusedOnlyWhenSpent`, `[]RetryAfterHolds` |
| | `ForgeriesAreIgnored` | `[]MeteredByOwnAddress` |
| | `TypesCorrect`, `TableBounded` | `[]TypeOK`; the table never holds more than `MaxKeys` buckets |
| MigrationProofs | `FileIsOneMailbox`, `HashesAnswerForStream`, `SchemaComplete` | `OneMailbox`, `[]HashesSpeakForStream`, `[]TypeOK` |

So every invariant and every action property of the runs is stated by a theorem.
The type invariants of the pull and of the accounts (`PullTypeCorrect`, and
`TypesCorrect` of AccountsProofs) are proved and not checked by a run.

**Upload.** `IInv == TypeOK /\ HasTop /\ HandlersOK /\ PrunedWasCovered` is
inductive. `PrunedWasCovered` is not by itself: that a prune deletes only what was
declared by an accepted upload, and that deleting does not lower a top, depend on
what the handler read several statements earlier still being true, which is what
`HandlersOK` records. Two facts carry it.

1. *Marks and tops only grow* (`TopStep`). So "the slot is filled", "the upload
   was past the next counter" and "the mark is at least m", once read, stay true
   whatever runs in between (`GrowthKeepsHandler`), and a step by one handler
   only has to re-establish its own part (`StepMoves`, `PlainMove`).
2. *No packet is deleted above a persisted mark* (`DeleteKeepsTops`). `Reassert`
   runs before the `DELETE`, and `HandlerOK` remembers that the mark it read is
   persisted from then on. This is why the mark must be re-asserted at all: the
   request that inserted the top packet may have been cut before `raiseMark`.

`HasTop` says that the set whose maximum `StreamMark` takes has one, which lets
the sets be infinite and the proofs speak of `Mark` without induction.
`StepRefines` maps `InsertPacket` to `Append`, `DeletePackets` to `Compact`, or a
stutter when the bound is 0, and everything else to a stutter, `Restart` and
`FlagSnapshot` included.

**What an answer promises.** `AckInv` adds, for each handler, what it has done to
the row of its slot: the references its loop is past, the flag from the insert or
from `flagSnapshot` on, and between the two `DELETE`s of a prune that nothing is
left below its bound. It is kept because a filled slot is never filled again
(`RowsStay`: a row of a slot filled before was there before, with its flag) and a
reference goes only with its row (`LinksStay`), which in turn follows from the
last part of `AckInv`.

**Blobs.** `BlobInv`: no reference dangles, and what `MissingBlobs` looked up is
still there until `recordPacketBlobs` is done. The one step that could break it is
another request's `CollectBlobs`, and there is none. That is about references; for
`StoredPacketHasItsBlobs`, which is about declarations, it takes `ResendInv` too
(below): as long as nothing has failed, what a stored packet declared is recorded
or its handler still holds it.

**Sums.** `UserStorageBytes` and `Granted` are folds over sets. `SumProofs` shows
that the order of a fold does not matter without an induction scheme: a table with
one sum for each subset, in which taking an element out takes its value out, exists
for every finite set, as a least set without one would get it from the set less
one element. From there on `SumChange`, `SumSplit` and their like are cited.

**Limits.** Counting streams: those there are, plus the handlers past the check
whose stream is still to be opened (`Openers`), are at most the limit plus all
handlers but one (`StreamInv`). The handler admitted last found a stream free,
and all others may have been admitted by then; an insert moves one from the second
count to the first. The quota is the same argument in bytes (`QuotaInv`), where
what a handler is about to store (`Due`) shrinks to nothing when another request
fills its slot first.

**An account at rest.** `RestInv`: a row that `CoveredBytes` credited is declared
covered and is still stored at the insert; from the insert to the end of the prune
the account is over what it is allowed by at most what is still stored of the
credit, and by no more than one body; each such row belongs to a device the loop
has ahead, at or below the mark read when the loop is at that device. When the loop
is over nothing is owed. A failure turns what is owed into one body more that is
allowed (`FailRests`), whatever was credited, as the account was within its
allowance before that insert. With one request at a time no row can appear above
the mark in between, which is the step that fails with two.

**References.** While nothing has failed, `BackInv`: a reference has its packet, or
the handler is between the two `DELETE`s of a prune and the second one takes it
(`Backed`); and a handler that has references to add has a packet to add them to
(`HasSlot`): before the insert because its upload is kept, from then on because its
own prune comes after. Conversely `ResendInv`: what a stored packet declared is
recorded, or its handler is on the way to the end of `recordPacketBlobs`
(`Recording`). With `BlobInv` a recorded blob is there, so `MissingBlobs` does not
miss a blob of a stored packet; that a link goes only with its packet is `LinksMove`
again.

**Honest clients.** `HonestInv` is `NothingLost` with two facts that make it
inductive: a stored row comes from an upload, and is flagged only if that is a
snapshot's. The step is a prune. What it deletes is inside the snapshot it runs
for; what was inside a snapshot that it deletes is inside its own, as coverage
nests; and its own row is either there and flagged, or inside a snapshot that
nests around it in turn.

**Sync.** Steps of `PullSpec` are steps of `Spec` or stutter for Upload, so all
invariants above carry over (`PullSpecIsSpec`). `TableInv`: rows are finitely many
and a slot has one. Then

- *the page is a permutation*: `Before` is a total order, so the number of rows
  before a row is different for each, and `InOrder` names each row once
  (`PullTypeCorrect`, and what the next two need);
- *reach*: the device's vector is closed under the coverage of the snapshots it
  has taken (`HaveClosed`). With `NothingLost`, a packet it lacks is a stored row
  above its vector, or inside a stored snapshot it cannot have;
- *ascent*: a stream's rows above the vector are its unbroken tail
  (`TailsUnbroken`), and the page cuts them in order, at any later state of the
  stream, as the page is what was read (`PageRises`);
- *completeness*: `SessionInv` says what is still owed to the session's tops. At
  the `SELECT` each missing counter is a row or inside a flagged snapshot
  (`Owed`); at the answer of the last page every stream is reached from some point
  of the page on by consecutive rows (`Delivers`). The hoisting of streams that
  bear a snapshot matters here: a packet that follows a pruned range can only be
  taken after the snapshot that covers the range.

**Accounts.** `AccountsInv` adds to the properties that ids lie at or below the
sequence, tokens name an id that was given to the account they were issued for,
and a handler's `born` is right if its id still exists; `AUTOINCREMENT` is what
keeps it so when an account is deleted in between. A handler whose device was gone
on arrival can only be before its device lookup.

**Login.** `SlotsAccounted` needs only the types. `GuessesInv` counts: while a name
is blocked, failures recorded late plus handlers still racing towards one are at
most all handlers but one. Each late failure moves one handler from the second
count to the first, and nobody joins, as `Wait` refuses. `TableInv`: a new name
takes a free place only, and a handler that comes to the backoff has a name.

**Backoff.** `BlocksInv` says of each entry that a block is no longer than the
delay of its count, that there is none up to the free failures, and that what is
left of it and how long ago it began make up no more than the cap. So what a sweep
or a late caller may forget blocks no more (`ForgottenIsOver`, from
`Cap + MaxLag <= Forget`), and one more failure never shortens a block, as delays
grow with the count (`DelayGrows`): they double below the cap, and the cap is
reached before the shift stops. `Pow2`'s recurrence, which the library does not
have, is proved like the sums, by tables and a least counterexample
(`PowersDouble`, `PowersGrow`).

**RateLimit.** A bucket is described by its `Level`: its tokens less the refill up
to its stamp, which time does not change. `LevelsInv` says that no level was ever
overdrawn by the clock of any request yet to come. `FullIsCrowded`: what the sweep
leaves is in use, so a table that is full after it is crowded. `BoundInv`: what was granted
since s and what the bucket still holds came out of one burst, the refill since s
and a lag for each forgetting. `SpentInv` is the converse, counted from the moment
the bucket was last full. `DueInv`: the level has a token at the time announced.
`ProxiesVouch`: in a request that came through trusted proxies, the entry the
first one appended is the client, and all behind it are trusted, for headers and
chains of any length; the walk from the right stops there.

**Migration.** `MigrationInv` says what has been done at each stage of `Open`: which
tables and columns there are, that a hash is empty or the payload's own, none
missing from `SelectNone` on, a prune's mark at the top before its `DELETE`. That
the maximum of a stream exists is part of it.

The invariants that are not obvious (`SessionInv`, `RestInv` and `BlocksInv` among
them) were checked by TLC on the instances of the runs before they were proved.

**Only model-checked.** Liveness (`RetryReclaimsPackets`, `Converges`,
`EveryoneAnswered`, `Serves`): the prover does not do fairness. And that the
violations of BlobRace and BlobCut exist, and that the bound of
`RestWithinQuota` is reached.

## 5. What is not modelled

- HTTP parsing, routing, status codes, logging, TLS, the dashboard: I/O.
- Configuration: read once; its values are constants, and what `Load` refuses is
  in the assumptions.
- bcrypt, JWT signing and SHA-256: library code. A token is what it claims, a hash
  is injective. Token expiry is left out: it only makes a client stop.
- Install and deploy scripts, but for what a rollback does to the database.
- Reads of one statement that nothing depends on: `getVector` (it is
  `UserVector`), `getUsage`, listings and statistics of the admin API.
- How SQLite serialises statements is taken as given: one writer at a time, each
  statement atomic and durable, foreign keys on (the pragma is in the DSN).
- Floating point in `Rate`: taken to be exact.
- The 15 seconds of grace at shutdown: `Restart` cuts every request at once, which
  allows all that a grace period does and more.

## 6. Plan

Done: the write path, its refinement and proofs; the read path with a syncing
device; both limiters and the password handlers; accounts and devices; migration
and its refinement of the same mailbox; theorems for every invariant and action
property of the runs.

Left, in this order:

1. Compose Accounts with Upload: the rows an account owns as packets, so that the
   re-creation of a name meets the streams of its predecessor.
2. Bound the quota for snapshots that are credited, under concurrency: by the
   credit of the requests in flight besides their bodies.
3. Say how much a prune that was cut off can leave in `packet_blobs`: with
   failures, `RefsOfStoredPackets` only claims that there were some.

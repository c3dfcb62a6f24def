# Cement Desk backend: specification

TLA+ models of the Cement Desk backend (a Fastify server over one SQLite file),
the TLC configurations that check them on small instances, and TLAPS proofs of
what holds for every instance. The repository's code is under `src/src`;
`auth/service.ts` is short for `src/src/modules/auth/service.ts`, and
`db/pool.ts`, `plugins/…`, `lib/…`, `jobs/…` are under `src/src` as well.

Contents: [the system](#the-system), [inventory](#inventory-of-components),
[modules](#the-modules), [runs](#the-runs), [bounds](#bounds),
[fairness](#fairness), [proofs](#proofs), [where code and documents
disagree](#where-the-code-and-what-is-written-about-it-disagree), [gaps the
properties leave](#gaps-the-properties-leave), [what is not
modelled](#what-is-not-modelled-and-why), [plan](#plan).

## The system

One Node process serves all requests and runs the daily jobs. Three facts about
it shape every model.

1. **Requests interleave at their awaits.** JavaScript runs one continuation at
   a time. Between two awaits nothing else happens; across an await any other
   request may run. What a handler read before an await may be stale after it.
2. **The database is one synchronous connection behind a FIFO lock**
   (`db/pool.ts`). A `q`, `qOne` or `exec` takes the lock for one statement; a
   `tx` takes it for `BEGIN .. COMMIT`, with nested calls joining. `DbLock`
   shows, and `DbLockProofs` proves, that each such call is atomic and isolated.
   All other modules rely on that: *one acquisition of the lock is one step*.
3. **Memory is not the database.** Sessions, firms, memberships, entitlements
   and watermarks are cached in process (`lib/cache.ts`, `lib/caches.ts`,
   `plans/service.ts`). Entries are filled after a read and dropped after a
   write; a restart empties them.

The driver is synchronous, so a statement's result reaches its handler through
microtasks only. Where the order of two continuations matters (a cache fill
against an invalidation), the statement, the fill and the invalidation are steps
of their own and come in either order (`AuthRead`/`AuthFill` and `EvictOne`,
`LoadRow`/`LoadPlan`/`Keep` and `Forgets`). That is what the code does: a fill
runs several continuations after its statement, an invalidation fewer after its
own, so a write that queues right behind a read can drop the entry before the
reader fills it. The comments on these steps say which continuations are meant.

## Inventory of components

For each: its state, its operations, what is hard about it, what makes it correct.

**Database access** (`db/pool.ts`). State: `locked`, `waiters`, the open
transaction, `txDepth`. Operations: `lock`/`release`, `q`, `qOne`, `exec`, `tx`.
Hard: a hand-over of the lock that a newcomer must not overtake; a statement of
one request inside another's transaction; an exception at each point of `tx`.
Correct: mutual exclusion, atomic isolated calls, first come first served,
every call answered. *Modelled.*

**Sessions and tokens** (`auth/service.ts`, `plugins/guards.ts`,
`lib/caches.ts`). State: `sessions` rows (`revoked_at`, `replaced_by`,
`expires_at`), the session cache, password hashes. Operations: `login`,
`authenticate`, `refresh` with rotation, grace window and reuse detection,
`logout`, `logoutAll`, `revokeSession`, `changePassword`, `resetPassword`,
purge. Hard: `refresh` works on a copy of a row across several awaits; the
cache may be filled with what a revocation has just overtaken; `login` verifies
a hash on the thread pool and inserts the session later; a retry after a lost
answer must be told from theft. Correct: a revoked session is refused at once,
but for windows that can be named; chains lead to the same login's later sessions; a
retry within the grace window is forgiven; no session outlives its password;
every refresh ends. *Modelled, without signing, hashing and `last_used_at`.*

**One-time codes and profile** (`auth/service.ts`, `lib/otp.ts`). State:
`auth_tokens` rows of the two code purposes, the user's `email_verified` and
password. Operations: `signup`, `resendVerification`, `forgotPassword`,
`issueOtp`, `consumeOtp`, `verifyEmail`, `resetPassword`. Hard: sign-up and
resends overlap; a code is consumed in one transaction and acted on in a later
statement, with a crash in between. Correct: a code works once, and only the
newest. *Modelled, without the number of guesses, mails and `patchMe`.*

**Firms, members, invites** (`firms/service.ts`, `plugins/guards.ts`). State:
`firms`, `firm_members`, `auth_tokens` of purpose invite, two caches.
Operations: create, rename, delete a firm; invite and accept; change a role,
remove a member; `firmAccess` and `requireRole`. Hard: requests act on a role
they were told earlier; two owners demote each other; a firm is deleted while
invites are out. Correct: a live firm has an owner; only owners make owners;
invites die with their firm; caches do not outlive a change. *Modelled.*

**Freight vouchers** (`freight/service.ts`, and the freight part of
`sync/push.ts`). State: `freight_entries` (serial, rev, tombstone),
`firm_counters`. Operations: create, patch with `If-Match`, delete with
compaction of the serials above, offline create and edit, purge. Hard: the
serials must stay 1..N through any sequence; compaction shifts row by row under
a unique index; every renumbered voucher must look changed to devices.
*Modelled, without amounts and listing.*

**Idempotent POST** (`withIdempotency`, `freight/service.ts`). State:
`idempotency_keys`. Hard: the key is stored after the work: concurrent retries,
and a crash between the two. Correct: a retried POST makes one record and is
told of that one. *Modelled.*

**Backup import and export** (`backup/*`, `depot/backup.ts`). State: the rows of
every table of a firm, the counter. Operations: export, import by `merge` or
`replace`. Hard: an import is a series of transactions with anything in
between, and may stop half way; rows meet tombstones of themselves. Correct:
success means that every row is there; a merge renumbers nothing; the counter
stays ahead; a restored diary is whole. *The vouchers with the counter and the
depot diary are modelled; of the rest, what a restore writes of claims,
purchases, sheets and the baseline, in their modules.*

**Masters** (`masters/*`): grades, parties, companies, scheme folders, places
and the rest. Operations: create (which revives), update, delete with its
cascades and refusals, routes. Hard: many tables name a master;
deleting it takes some along, clears others and is refused by the rest; what a
delete changes elsewhere must travel to devices; a reference is checked in one
statement and used in a later one. Correct: nothing is filed under what is
gone; a refusal changes nothing; every visible change is stamped. *Modelled,
without reordering.*

**Stock sheets** (`stock/*`). State: the baseline, days, cells, receipts.
Operations: `putBaseline`, `createStockDay`, a line written or deleted,
`deleteStockDay`, and the same by push. Hard: the baseline must stay before the
first day while both change; a write lands on a sheet deleted meanwhile.
Correct: no live day on or before the baseline; every visible change bumps the
day. *Modelled.*

**Landing cost** (`landing/*`). Purchases with payments, schemes, claims with
credit notes and a status computed from them. Hard: payments and notes are
written without the parent's revision gate, by two ways in; the status is
computed by every writer anew, once from notes read earlier. Correct: the gate
lets nobody overwrite what it has not seen; the status is the one the notes
make. *Modelled, without slabs, windows and premiums.*

**Depot diary** (`depot/*`). Trucks, deliveries, adjustments, items, moves, day
notes, brands, estimates, settings; written by push, from apps of two ages, and
by restoring a backup. Hard: an old app sends back what it cannot read; deletes
take along or are refused; a file may lack what its rows name. Correct: a live
delivery has its truck and a live move its items; an old app loses nothing of
what a newer one wrote; the gate compares what the device saw. *Modelled.*

**Sync push** (`sync/push.ts`). Mutations are grouped by entity and direction,
the groups ordered, each a transaction; a mutation that throws is reported and
its group goes on. Hard: partial effects of a rejected mutation, order among
dependent records, lost answers. *Modelled: the groups in `Masters`, and each
entity's mutations in the module of the entity.*

**Sync pull and watermark** (`sync/pull.ts`, `lib/caches.ts`). State:
`updated_at` of every row, the firm's data watermark and its cache, the
device's cursor. Hard: a page cut off by its limit, equal timestamps, a
watermark bumped without waiting, tombstones purged before a device came back.
Correct: a device that keeps pulling misses no change and keeps nothing that is
gone. *Modelled, without the parts of a row that have none of their own.*

**Plans, entitlements, billing** (`plans/*`, `billing/*`, the forms of
`console/routes.ts`). State: `plans`, `entitlements`, the entitlement cache;
Google Play's record of each purchase is external. Operations: verify (look up,
fetch, acknowledge, pick a plan, grant), the plan editor, grants and
revocations by hand, `entitlementOf`. Hard: two calls to Google between the
look-up of a token's holder and the grant; a load that puts back what a write
has just dropped from the cache; a crash between acknowledgement and grant.
Correct: acknowledged before granted; one holder per purchase; the cache is the
row. *Modelled.*

**Referrals** (`referral/*`). State: `referral_codes`, `referrals` (a status
from pending to paid). Operations: apply a code, note a purchase in a verify,
the recheck job, claim, pay, reject. Hard: the job reads a list and then asks
Google for minutes while the desk and verifications move the same rows.
Correct: paid once, for money, and a trial that converts is noticed. *Modelled.*

**Purge job** (`jobs/purge.ts`). Deletes old sessions, tombstones, tokens and
keys while everything else runs. *Part of each module whose rows it deletes.*

**Console sign-in, page, media and pushes; account pages, site, web app, ads,
releases, sponsor, push tokens; configuration, migrations, file backup;
validators.** Pure input/output, single-row settings or checks of formats. *Not
modelled, but for what the console writes in other components' tables.*

Interactions: guards call the session and firm caches before every handler;
`resetPassword` and `changePassword` revoke sessions; sync push calls the same
serial, cascade and status functions as the REST routes; an import writes under
the same unique index; a verify ends in the referral's `noteReferralPurchase`
and in `entitlementOf`; deleting a master reaches into landing, stock and the
diary; the purge removes rows that chains, tombstones and invites still name;
all of them meet in the lock of `db/pool.ts`.

## The modules

| module | stands for |
|---|---|
| `DbAtomic` | the abstract database: calls that take effect at once or not at all |
| `DbLock` | `db/pool.ts`: the lock, statements, transactions; implements `DbAtomic` |
| `AuthSessions` | session rows, rotation, revocation and the session cache |
| `AuthOtp` | sign-up and one-time codes of one address |
| `FirmMembership` | firms, roles, invites, `firmAccess` and its caches |
| `FreightSerials` | vouchers of one firm, their serials and revisions, the counter |
| `BackupImport` | extends `FreightSerials` with export and import |
| `SyncPull` | one device pulling one firm: pages, cursor, watermark, purge |
| `Masters` | masters and the records that name them; the groups of a push |
| `Purchases` | one purchase and its payments, and a device's copy of them |
| `Claims` | the claims of one scheme and period, their notes and status |
| `StockDays` | the sheets of a firm and its baseline |
| `Depot` | the depot diary under apps of two ages, its export and restore |
| `Billing` | plans, entitlements, their cache, purchases at Google Play |
| `Referrals` | extends `Billing` with codes, referrals, the recheck and the desk |
| `IdempotentPost` | `withIdempotency` around any POST |
| `*Proofs` | theorems about the modules they extend |
| `MC*` | small instances for TLC; `MCRecords` and `MCAccounts` hold several modules |

Definitions whose comment begins with "Mutant" are wrong variants of the
definition below them. No action uses them; putting one in the place of the
original breaks the property it is listed with in `PROJECT.json`, which shows
that the property can fail.

**DbLock.** `Lock` is `lock()`: it takes the free flag or queues. `Release` is
the closure it returns: it hands the lock to the head of the queue and clears
the flag only when nobody waits. `Statement` is `q`, `qOne`, `exec`; `Begin`,
`BodyStatement`, `Commit`, `Rollback` are `tx`; `BeginThrows` is a `BEGIN
IMMEDIATE` that throws, which happens before the `try`. `Execute` sends a
statement to the connection, where it lands in whatever transaction is open:
isolation is a consequence of the lock, not an assumption. Under the mapping
"pending are the callers not idle", `DbLock` implements `DbAtomic`.

**AuthSessions.** `sess` is the sequence of all sessions ever inserted (a
refresh token is unique to its row, so the id stands for the token) and `rows`
those still in the table. Two fields the table does not have, `pwv` and
`login`, are history for the properties. `req` holds the requests in flight
and, for a refresh, the copy of the row it works on: `RefreshRead`, `ChaseHop`,
`ChaseEnd`, `Rotate`, `Nuke` are the stretches of `refresh` between awaits.
`AuthLookup`, `AuthRead`, `AuthFill` are those of `authenticate`. `ClearCache`
and `EvictOne` follow the transaction they belong to in a step of their own.
`RevokedSoonRefused` says when a revoked session may still be let through, and
that is in three cases only: the request that revoked it has yet to drop the
entry (`Dropping`); the request at hand has read the row before it was revoked;
or the entry was filled in the instant of the revocation, after the drop, by a
look-up that had read the row before it. In the last case the entry lives for
its TTL, which is [not what the code's comments
say](#where-the-code-and-what-is-written-about-it-disagree).
`Tick` moves the clock, and never between a statement and the continuation
that only touches memory.

**AuthOtp.** `codes` are the account's rows of `auth_tokens`, oldest first; a
code is its place. `SignupLook`/`SignupWrite` and `ResendLook`/`ResendIssue`
are the two halves of the requests that issue codes. `ConsumeOtp` is the
transaction of `consumeOtp`: everything it does before it throws is rolled
back with it, so a refusal is a stutter. `VerifyEmail` and `ResetPassword` are
the statements after it, which `OtpCrash` may forestall. `spent` is history.

**FirmMembership.** `role` and `state` are the tables, `cache` the two caches
under one key space (`Row` and the users). A request goes through `Lookup`
twice (firm row, member row), is admitted with the role it was *told*, and
then acts. `DeleteLook`, `DeleteCount`, `DeleteCommit`, `Evict` are
`deleteFirm` between its awaits. `AcceptInvite` is one transaction including
the invalidation. Cache entries and invites may expire at any time.

**FreightSerials.** `rows` maps an id to its state, serial and revision.
Actions are the transactions of the handlers; `PATCH` is `PatchRead` and
`PatchWrite`, because its `If-Match` is checked against a row read before the
transaction, which then updates by id: the write can land on another revision,
on a tombstone or on nothing. `ShiftLoop` is compaction as the code does it, row by row in
serial order against the unique index, a recursive function along an order of
the rows chosen by serial; `Compacted` is its result as one simultaneous shift,
which `DeleteEntry` uses. `LoopIsShift` says that in every reachable state the
two agree.

**BackupImport.** The file is a function from ids to serials, one the code
exported or an older one. `ImportStart` is the wipe of `replace`, `ImportChunk`
one transaction of rows with `ON CONFLICT`, `ImportEnsure` the rise of the
counter. All of `FreightNext` can run between them; `ImportAbort` ends an
import anywhere. `quiet` is history: nothing else ran since the import began;
so is `restored`: an import has begun at all.

**SyncPull.** `rows` are the firm's rows, `updated_at` included, in the tables
that `Home` gives; a write stamps the present millisecond. `Parent` is the row a
cascading foreign key names (a route's party, a scheme's company): `Delete` is
`deleteWithCascade`, which tombstones the live children too (`Brood`), and
`Purge` takes along what children there are, live ones included. `late` is
history: rows written last when their parent was a tombstone. `pull` is a request
between its awaits: `Ask` (the cursor's age, the cached marker), `ReadMarker`
(`firmWatermark` on a miss), `ReadUpper`, one `ReadPage` per table, `Deliver`
(the answer, and the device applying it). `due` and `queued` are bumps before
and after `bumpFirmData` dropped the cache entry: the `UPDATE` waits in the
queue of the lock, nobody waits for it, and a `ReadMarker` ahead of it caches
what is about to be out of date. `missed` is history: a bump was lost. The
device's loop is that of `FRONTEND_INTEGRATION.md` and is external.

**Masters.** `st` is the state of every record, `Names` (a constant) what each
names, `folder` where a scheme is filed, `sheet` the lines of the stock tables.
`Bury` is `softDeleteRow` with `deleteWithCascade`: the routes of a party, the
claims of a scheme, all that hangs on a company go too; a folder's schemes are
unfiled; a party's or grade's lines are cleared and their day touched. `rest`
is the one REST request between its statements: `RowRead`/`RowWrite` for
masters and routes, `WriteBegin`, `CheckCompany`, `CheckSecond`,
`CheckedWrite` for schemes and purchases, whose references are checked before
the transaction and not in it. `pushed` is a push: `Rank` is the place of a
mutation's group, `PushOne` one call of `applyOne` while the group's
transaction is open (`open`), `PushGroupFails` a transaction that fails as a
whole. `SelfContained` is what a device may count on, and `promise` says that
nobody ran in between; the rows a step touched and its answer are `last`.

**Purchases.** `bill` is the row with its payments, `copy` the device's,
`clerk` a REST request between its read and its write. A push of a purchase
writes its payments one by one, so that `Written` may stop half way and is
committed all the same. `PushPayment` answers with the revision after the
*device's*, not the server's, as the code does; `GateSeesContent` shows that
this is harmless, and why. `RestorePurchase` is a purchase of a backup file, whose
payments join those there are.

**Claims.** `Settled` is `applyAutoStatus`, which every writer calls but two.
`PatchClaimRead`, `PatchClaimNotes`, `PatchClaimWrite` are the three statements
of a PATCH, which computes the status itself. `RestoreClaim` is a claim of a
backup file: the file's status as it is, the file's notes beside those there
are, and nothing computed. `loose` is history: the claims whose notes moved
under a PATCH, whose push threw half way, or whose restore brought a file that
is not true to itself or lacks a note there is.

**StockDays.** `CountDays`/`PutBaseline`, `CheckBaseline`/`CheckAbsent`/
`CreateDay`, `FindDay`/`WriteLine` and `FindToDelete`/`DeleteDay` are REST
requests between statements; a push mutation is one step. `ClearSheets` (the
wipe of a replace), `RestoreBaseline` and `RestoreDay` are the import, which
looks neither at the days nor at the baseline that are there. `slipped` is
history.

**Depot.** A row has a `kind` (special: tied to something, or newer than the
old app), an `extra` that old apps do not send, a `body`, and a revision.
`Carried` is what `carry` and the missing keys of a mutation make of it; `View`
is what an app of either age makes of a row. `ExportDiary`, `RestoreStart`
(`planDepot`, and the wipe of a replace), `RestoreRow` and `RestoreStops` are
the backup. `late` is history: rows pushed while what they name was not live.

**Billing and Referrals.** A request holds a slot and goes through the states
between its awaits: `VerifyLook`, `VerifyFetch`, `VerifyAck`, `VerifyPlans`,
`VerifyUpsert`, `Forgets`, then `NoteLook`, `NoteRemember`, `NoteQualify`, then
`LoadLook`, `LoadRow`, `LoadPlan`, `Keep`, `Answer`. A write of a row and the
`invalidateEntitlement` of its caller are two steps (`Upsert` or `Revoke`, then
`Forgets`; `UpdatePlan`, then `ForgetsAll`), and so are the last statement of a
load and `cache.set` (`Keep`). `Buy` and `Moves` are Google Play's side; a call to it
may fail, also after it took effect. `raced` is history: tokens two accounts
had in verification together, and accounts whose entry was dropped while a load
was under way that had read the row before it was written. The recheck job is a request in a slot of `Timers`:
`RecheckList` reads the list, `RecheckAsk` asks for its head, `RecheckPromote`
qualifies it if it is still pending.

**IdempotentPost.** `PostLook`, `PostWork`, `PostStore`; `PurgeKey` and
`PostCrash` between any two. `torn` is history: two runs of a key overlapped,
or the key of a run was lost.

The history variables `loose`, `slipped`, `late`, `overtaken`, `raced` and
`torn` do not weaken the properties silently: each is set by exactly the
interleavings its comment names, is cleared when they are repaired, and marks
a window that the code leaves open. They are listed under
[gaps](#gaps-the-properties-leave).

## The runs

| run | shows |
|---|---|
| `db_lock` | Three callers, `BEGIN` allowed to throw: order of service, refinement of `DbAtomic` (atomic, isolated calls), and every call is answered unless a `BEGIN` threw. |
| `session_overlap` | Requests in flight together, in two scopes (cache, chain): a revoked session is refused, but for the turn of the revocation, a read taken before it, and an entry filled in its very instant; the rotation chain stays sound, every walk along it ends. |
| `session_serial` | All operations one request at a time, and two requests that overlap as `RefreshesApart` and `PasswordsApart` allow: one live session per login; retries forgiven; no session of an old password. |
| `vouchers` | Vouchers and imports together. Serials 1..N and counter N until a backup is restored, compaction by loop equals the shift, every visible change raises the revision; success of an import means every row of the file is alive; a merge neither kills nor renumbers a live voucher. |
| `backup_counter` | *Violation of* `CounterAhead`: after a successful import the counter can be behind. |
| `firms` | Two requests on one firm with possibly stale roles, one at a time on two firms, or two on two firms as `DeletesApart` allows: a live firm keeps an owner, ownership comes from owners, caches are true outside the invalidation window, a deleted firm has no member and an old invite does not make one, and a user keeps a firm. |
| `sync_pull` | As long as no write meets another row of its table or a pull in its millisecond (`WritesApart`): the cursor passes nothing the device has not seen; the device keeps no row that is gone, be it by the purge or by a cascade, but one written under a dead parent; and it catches up whatever answers and cache entries are lost, unless the last bump was lost or its cursor is refused for ever. |
| `sync_resync` | *Violation of* `ResyncRecovers`: a full resync is answered with a cursor that is refused. |
| `records` | Masters over REST and push; purchases, claims, sheets and the diary over REST, push and restore: see below. |
| `push_folder` | *Violation of* `FolderPushApplies`: a push that deletes a scheme folder is refused. |
| `accounts` | Verifies, grants, plan edits, referrals, codes and retried POSTs, two requests at a time: see below. |
| `recheck` | Two referred trials wait for the recheck job, which may be interrupted at any point and whose calls to Google may fail: a conversion is noticed. |

`records` checks ten properties:

- `OrderSuffices`: the order of the groups is enough for a push that brings
  along what its records name; no mutation of it is refused (folder deletes
  apart, which `push_folder` is about).
- `FiledAlive`: no scheme is filed in a deleted folder, but through a REST
  write that checked the folder before.
- `ChangesSeen`: what a pull would send of a record or sheet does not change
  without its row being updated, also the schemes a folder's delete unfiles and
  the day whose cells go with a party or grade.
- `RefusalKeeps`: a refusal or conflict changes nothing, but for the two
  writes the catch inside a push group commits.
- `GateSeesContent`, `DiaryGate`: when the revision a device sends is the
  server's, the device's copy is the server's content. The purchase's does not
  hold across a purge, nor across a delete and a restore.
- `StatusTrue`: a claim reads received exactly when its notes make up what was
  accrued, but for `loose`.
- `DaysAfterBaseline`: no live day on or before the baseline, but for `slipped`.
- `DiaryWhole`: no live delivery without its truck, no live move without its
  items.
- `OldAppKeeps`: an old app neither turns a return into a correction, nor moves
  an item off its tab, nor wipes what it does not know.

`accounts` checks seven: `AckedFirst`, `OneHolder`, `CachedIsCurrent` (the
entitlement cache was worked out from the row as it is, once the writer has
dropped the entry, but for `raced`), `Earned` (a referral
moves on only after Google said that money was paid), `OnePayout`,
`OneRecord`, `CodeSpentOnce`.

`session_serial` and `KeepsAFirm` except some overlaps, because with them the
properties are false: two refreshes of one token under way at once fork the
login (`OneLivePerLogin`) and a third may take the fork for a theft
(`RetryForgiven`); a login that verified the old password inserts its session
after the reset (`PasswordFence`); of two deletes of a user's two firms each
counts the other (`KeepsAFirm`, as `deleteFirm` counts outside its transaction).
Three definitions say exactly which: `RefreshesApart` (no two refreshes of one
login from first read to last write), `PasswordsApart` (no change of a password
under a sign-in or refresh of its account that is on its way to a new session)
and `DeletesApart` (nobody takes a firm of the caller's between a delete's count
and its transaction). Everything else may overlap. Each run has a scope with
one request at a time, and a scope with two requests and the operations that
bear on the property; the proofs have any number of requests,
sessions and firms, and all operations.

## Bounds

Every bound is a constant or a named definition. Where a run has several
scopes, a variable `part` that never changes says which one a behaviour is in.

- `db_lock`: 3 callers, 2 calls each, 2 statements per transaction. Two callers
  queue behind one, which is where order and hand-over can go wrong; a second
  call lets a newcomer race the queue.
- `session_*`: `MaxSessions` 3 (a chain of three has a middle; two in the cache
  scope), `MaxTime` 4 in units in which the grace window is 1 or 2, the cache
  TTL 2 and a refresh token's life 3: each can expire before and after each of
  the others. The first scope of `session_serial` stops the clock at 3 (`Early`),
  where no token has expired yet; the second goes on to 4 and has logins, refreshes,
  logouts, resets and the purge. `MaxPassword` 1. `Room` keeps `MaxSessions` from stopping a
  request half way. `MaxHops` is 5 as in the code, or 1 where the limit itself
  must be reached.
- `vouchers`, `backup_counter`: 3 vouchers (a deleted one and two that shift),
  1 client that patches, chunks of 2 (a file of three takes two), `MaxRev` 3 or
  4, `MaxSerial` 3 or 4; no export is taken while an import runs.
- `sync_*`: 3 rows in 2 tables, pages of 1: a table that is cut next to one
  that is not. `MaxTime` 5 and `Retention` 1 leave time to write, pull, delete,
  purge and pull again. `MaxBumps` 1 or 2 bumps under way, `MaxBreaks` 1 loss,
  after which the clock stops at 4 (`Broken`).
  Of the three, one is the child of another (`OneChild`). The purge does not
  overtake a pull that runs for half a year; the statements of a delete that
  takes children along are a millisecond apart at most. `WritesApart`
  holds (see the gaps): in the first scope because each write takes the next
  millisecond; in the second, with `Latest` 3, `Versions` 2 and no losses, a
  write may take the present one where it meets nothing there.
- `firms`: 1 firm, 2 users and 2 requests, both invites or both patches and
  removals (an invite is accepted at any moment of either); or 2 firms and 1
  request that may delete one; or 2 firms with a delete beside another delete or
  a removal. Restarts, lapsed invites and lapsed firm rows of the cache are the
  second scope's; the first has lapsed member entries, the third restarts. One
  open invite per user and firm, which offers the least role. The role `viewer` ranks as `member`.
- `records`: one module moves per behaviour, which loses nothing because they
  share no variable. Masters: four scopes of three or four records chosen so
  that each cascade and refusal has its parties (a company with a scheme, its
  claim and a grade; a purchase; a folder; a party with a route, diary and
  sheet lines), eleven pushes (`SomePushes`) of one or two mutations, upserts and deletes
  that depend on each other; where the folder takes part, a grade is deleted
  over REST only. `Purchases`: 2 payments, 2 contents, `MaxRev` 5: a
  device can fall behind by more than its pending edits. `Claims`: 2 ids that
  compete for one period, notes of 1 and 2 against an accrual of 2, so that one
  note does and one does not suffice. `StockDays`: 2 dates, 2 lines. `Depot`:
  a row and the one it names with one device (`Revised` 2 revisions of the one
  named), or one row with an old and a
  new device and two bodies, 3 revisions.
- `accounts`: 2 accounts, 1 token, 2 plans, 2 requests and a timer, in scopes
  that say what requests ask for: accounts that share a token; an account that
  verifies while it asks for its entitlement, or while the console edits its
  plan and row; a referral with verify and recheck. `MaxStamp` 2: a row and one
  that replaces it. Codes: 4 codes, 2 resets, 2 callers. POSTs: 2 keys, 2
  requests, 3 records. `recheck` starts where two referrals wait, a state that
  `AccountsSpec` reaches, with a list of two.

`CHECK_DEADLOCK FALSE` is set for `DbLock` only: after `MaxCalls` calls its
callers are done.

## Fairness

`DbLock` and `AuthSessions` have weak fairness of `Continue(c)` for each caller
or request. The event loop runs every continuation that is ready, in the order
it became ready, and a transaction's callback ends (`MaxStmts`). Nothing is
assumed of arrivals, of the clock, of the purge, of expiry, or of clients coming
back. In `SyncPull` the device goes on pulling and the server answers
(`PullStep`), responses are sent and bumps reach the head of the lock's queue
(`BumpDrop`, `BumpLands`; a lost one goes by `BumpFails`), and a cached marker
runs out (`MARKER_TTL`). Writers, the clock, the purge and losses are free.

`FairTimers` (`Referrals`) is strong fairness of the recheck job's steps, per
timer: `setInterval` fires again and again, and if a pass can start, be asked
or promote infinitely often, it sometimes does. It is strong because a restart
or a failing call may come in between any number of times; per referral for
`RecheckAsk`, because Google answers for each token now and then, not only for
the first of the list. Nothing is assumed of requests, of the desk, or of what
Google says. The other modules check safety only and state no fairness.

## Proofs

| module | about | theorems |
|---|---|---|
| `DbLockProofs` | `DbLock` | `Serialized`, `TransactionsIsolated`, `WaitersKept`, `FirstComeFirstServed`, `LockImplementsAtomic` |
| `AuthSessionsProofs` | `AuthSessions` | `TypeCorrect`, `ChainsSound`, `StalenessBounded`, `RevokedRefused`; where certain requests do not overlap: `LoginsIndependent`, `AccountsIndependent`, `OneInForce`, `OldPasswordOut`, `LostAnswersForgiven` |
| `VouchersProofs` | `FreightSerials`, `BackupImport` | `VouchersTyped`, `VouchersContiguous`, `RevisionsGrow`, `CompactionIsShift`; `ImportsTyped`, `NumberedUntilRestore`, `RestoresAll`, `MergeRenumbersNothing` |
| `FirmMembershipProofs` | `FirmMembership` | `MembershipTyped`, `FirmsOwned`, `DeletedFirmsEmpty`, `CachesTrue`, `OwnersGrant`; under `DeletesApart`: `LastFirmKept` |
| `LandingProofs` | `Claims`, `Purchases`, `Masters` | `ClaimsTyped`, `StatusFollowsNotes`; `PurchasesTyped`, `GateComparesContent`; `MastersTyped`, `GroupOrder`, `FoldersFiledAlive`, `NothingHalfRefused`, `ChangesTravel` |
| `StockProofs` | `StockDays`, `Depot`, `MCRecords` | `BaselineFirst`, `SheetsSeen`; `DiaryHangsTogether`, `SeenBeforeWritten`, `OldAppsHarmless`; `ChangesAreSeen` |
| `AccountsProofs` | `IdempotentPost`, `AuthOtp`, `Billing`, `Referrals` | `RetriesMakeOne`; `CodesOpenOnce`; `AccountsTypes`, `AcknowledgedFirst`, `OneAccountEach`, `CacheKeepsUp`, `TokensServeOne`, `CacheIsTheRow`, `RealMoneyFirst`, `PaidOnce` |
| `SyncPullProofs` | `SyncPull` | `PullTyped`; where no write meets another row or a pull in its millisecond: `CursorPassesNothing`, `PurgedIsNoticed` |

None assumes fairness. They hold for any sets of callers, users, firms, slots,
records, tables and devices, and for any values of the bounds, under the named
`ASSUME` of each module. Most of these only say that a set that is counted is
finite, a bound a natural number, and a `NULL`-like constant no member of the
set it stands beside. The others say what the code or its schema fixes:

- `DepotConstants`: trucks, deliveries, adjustments, moves and day notes are
  among the rows with a revision gate, items and settings are not; a delivery
  names one truck and a move one item (`NOT NULL` columns). A row has some
  content (`Bodies # {}`; `Vers # {}` in `PurchaseConstants`).
- `DepotTables`, `MasterTables`: a record is in one table; what a record names
  stands earlier in `GROUP_ORDER`. The theorem about the order of the groups
  stands on the second, which is a fact about that list and the foreign keys,
  and TLC evaluates it for the list as it is in the code.
- `BillingAssumption`: a purchase token is of one base plan; slots of timers are
  slots.

Ten theorems have hypotheses of their own, which are about behaviours and not
about constants. Each is false without its hypothesis (see [runs](#the-runs) and
[gaps](#gaps-the-properties-leave)). The properties the runs check are checked in
a scope that has the hypothesis, `RefreshesApart` and `PasswordsApart` together.

- `OneInForce` and `LostAnswersForgiven` have `[]RefreshesApart`.
  `LoginsIndependent` is the sharper form of the first: for any set of logins
  whose own refreshes do not overlap, those logins have one session in force,
  whatever the clients of other logins do.
- `OldPasswordOut` has `[][PasswordsApart]_vars`, and `AccountsIndependent` says
  the same of any set of accounts.
- `LostAnswersForgiven` further has `Grace < Life` and `Grace <= PurgeAge`: the
  code has 60 seconds, 60 days and 30 days (`auth/service.ts`, `config.ts`,
  `jobs/purge.ts`).
- `LastFirmKept` has `[][DeletesApart]_vars`.
- `CursorPassesNothing` and `PurgedIsNoticed` have `[][WritesApart]_vars`: a
  write bears the millisecond of no other row of its table, of no bound up to
  which a pull under way reads, and of no cursor handed out.
- `TokensServeOne` and `CacheIsTheRow` are `OneHolder` and `CachedIsCurrent`
  without `raced`, for one token that no two accounts have in flight at once
  (`Unshared`), and for one account whose row is not written from the statement
  of a load that reads it until that load has filled the cache
  (`LoadsUndisturbed`), whatever happens to other tokens and accounts.

- **DbLock.** `TypeOK /\ OneOwner /\ Isolated /\ NoLostWaiter` is inductive: the
  queue without repetition is what makes the hand-over name exactly one new
  owner. The refinement maps each of `Begin`, `BodyStatement`, `Release` without
  effect to a stutter, and `Commit` and `Statement` to `Succeed`, for which
  isolation is needed: what is committed is the owner's own journal. The order
  of service follows from the same invariant: a caller that becomes the owner
  was the head of the queue, or the flag was free and, by `OneOwner` and
  `NoLostWaiter`, nobody was waiting.
- **AuthSessions.** `ChainWellFormed` needs that a request about to rotate, or
  on a chain, holds an id that was issued and whose row belongs to its user and
  was born before now. `StaleBounded` follows an entry from its fill: one that says
  of a revoked session that it is alive was there when the session was revoked,
  and then the request that revoked it is about to drop it (`Dropping`), or was
  filled later from a copy taken at this instant, which is why `Tick` may not
  come between. A step that stamps a session is a step to such a drop
  (`StampDrops`), and what ends a drop has removed the entry (`DropsLast`).
- **AuthSessions, what must not overlap.** Three facts hold however requests
  interleave. `Grown`: ids are given out in the order of birth. `Gone`: a row
  that the purge took was old, so that a chain that breaks off was not forgivable
  any more. `Belongs`: the copy a request holds is of a row that was issued, of
  its user and login. The rest is argued for one login, or one account, at a
  time. A refresh that is about to rotate a row holds the only row of its login
  in force (`Sole`), and one that walks has come to the row that replaced its own
  or a later one, of which it has a true copy (`Walked`). Others can disturb that
  only by writing the links of that login, and the only writers of links are
  refreshes of it (`Untouched`): here the hypothesis is used, and nowhere else.
  For passwords, `Knows`: whoever is on the way to a new session of the account
  rests on its password as it is. A rotation leaves one session in force; a
  reset or a change of the password, which revokes in its own statements, leaves
  none of the old one behind for a request to bring back.
- **Vouchers.** `Contiguous` is inductive with the type invariant. The step is
  `DeleteEntry`: the serials above the deleted one shift by one, so the image is
  `1..counter-1` and the shift is injective. `CompactionIsShift` needs only
  `Distinct`, that no two live vouchers share a serial, which imports keep as
  well: the rows to move have an order by serial, each single update of the
  loop finds its target free, and the equation of the loop has one solution. A
  place where two solutions differ has a least one before it, which takes the
  place of an induction. Until an import begins its steps
  are steps of `FreightSerials` and keep its invariant; after that the types are
  kept without contiguity (`TypesKept`). What an undisturbed import has written
  is alive: a chunk removes from `todo` what it brought to life, and no chunk
  kills.
- **FirmMembership.** The invariant adds that a firm nobody has made is unknown
  to caches and requests, and that a request in its eviction step covers the
  difference between cache and table. `AlwaysOwned` does not depend on the roles
  requests were told, because the count of owners is taken in the transaction
  that changes a role. `LastFirmKept` adds `Counted`: another firm than the one
  to be deleted is the caller's still when `deleteFirm` deletes. What may happen
  in between (new firms, invites, patched roles, removals of others, deletes of
  firms the caller is not in, a restart) takes neither that role nor that firm
  (`FirmsLeft`), and what would is what `DeletesApart` excludes.
- **Claims.** `StatusTrue` needs two more parts. `GoneBare`: a claim that is not
  in the table has left no notes, since the foreign key takes them along, so
  that an id that is used again starts from none. `PendingRight`: the status
  that a PATCH has computed and not yet written is that of the notes, unless
  they changed meanwhile, which is what `loose` marks. A restore is judged by the
  file and the notes there are: it marks the claim, or clears the mark.
- **Purchases.** `GateSeesContent` needs `NotAhead`: a copy of a live row
  that is not from before a purge or a restore has a revision no higher than the row's. Two handlers answer
  with a revision that was not read from the row (`paymentUpsert`,
  `paymentDelete`): one more than what the device sent. The row was raised in
  the same step, so the answer may meet it only from the same revision, where
  the contents were equal.
- **Masters.** Each handler is proved `Sound` on its own: it keeps the types, no
  scheme is filed in a dead folder behind its back, what it changed it touched,
  and what it refused it did not do. `OrderSuffices` needs `Pledge`: as long as
  nobody ran in between, the mutations still to come are self-contained in the
  store as it is now, and none was refused. A step keeps the pledge because what
  the mutation at hand names was either in the store or upserted by a group of
  lower `Rank` (`MasterTables`), and nothing the earlier deletes took is named
  by what is left.
- **StockDays, Depot.** `DaysAfterBaseline` needs that a request's date is one
  of a sheet (`Seated`), and no more: what breaks it, interleavings and
  restores, is in `slipped`. The diary needs four parts. `Special` and `Fresh`: what makes a row
  special is a matter of which row it is, and a row that never was is plain.
  `NotAhead`: no device holds a revision the server has not reached. `Backed`: a
  restore under way either has brought what its rows name, or they are still in
  its file. `DiaryWhole` and `DiaryGate` follow row by row, a cascade being one
  step for the rows it takes.
- **IdempotentPost.** `OneRun`: a key that is not `torn` has at most one run
  under way, which found neither an answer nor a record.
- **AuthOtp.** `CodesFresh`: a code that works is the newest of its purpose and
  was not spent. `AllPaid`: the resets done and those of callers whose code was
  just accepted are together no more than the codes of that purpose spent; a
  crash between the two makes them fewer.
- **Billing, Referrals.** Four facts hold each for itself. `Acked`: a request
  past Google's answer, and every row, names a token that is acknowledged there,
  which nothing undoes. `Held`: the row and the requests that hold a token that
  is not raced are of one account. `Cached`: a cache entry of an account that is not
  raced, and a load that has its row in hand, have the row as it is, unless the
  row's writer has yet to drop the entry; whether the account is raced is decided
  at that drop, by whether a load has an older row in hand. `Bonuses`: an account a
  request has heard a payment of has paid (`earned`), also when what it heard is
  acted on several steps later. `Spared` says what a step that is about
  something else may do to a request, so that each fact is only argued where it
  can break.
- **SyncPull.** Six parts follow a request through its pages. `Stamped`: no row
  is newer than now, and no two of a table are of the same time. `Family`: a
  child of a tombstone is a tombstone itself, a millisecond younger at most,
  unless it is `late`; so that when the parent is purged, a device which holds
  the child live has a cursor that will be refused. `Asked`: the cursor of the
  request is the device's, and nothing the device held when it was let in had
  been purged. `Paged`: cursor, first cut (`floor`) and `upper` are in order.
  `Got`: what was read is what is there, unless it was written or purged since.
  `Seen`: of the tables read so far, nothing up to the first cut was left out. A
  row written after its table was read bears a later time than `upper`, and the
  newest row of a page that was cut has nothing beside it: that is where
  `WritesApart` is used. `PullTyped` does without it.

`ChangesSeen` joins `Masters` and `StockDays`. `ChangesTravel` and `SheetsSeen`
are its parts, and `ChangesAreSeen` is the whole formula about `RecordsSpec`,
the specification that the run `records` checks.

Only model-checked is liveness under fairness (`AnsweredUnlessLeaked`,
`Answered`, `CatchesUp`, `ConversionNoticed`), which is out of the provers'
reach.

## Where the code and what is written about it disagree

Three have a run with the shortest counterexample.

- **The counter after an import** (`backup_counter`; `backupImport.ts:264`). A
  tombstone that an import brings back keeps the serial it died with, which may
  be above every serial of the file, and the counter is raised only to those.
  The next create collides with the unique index.
- **A folder deleted on a device** (`push_folder`; `sync/push.ts:163`).
  `masterDelete` hands the entity's name to `deleteWithCascade` as the name of
  the table. For a scheme folder they differ (`schemeFolders`,
  `scheme_folders`): the statement fails and the mutation is rejected, always.
  `FRONTEND_INTEGRATION.md:1110` promises that a push of a folder always
  applies.
- **A resync of old rows** (`sync_resync`; `sync/pull.ts:222`). The cursor handed
  out is the newest `updated_at` returned. In a firm idle for longer than the
  retention, or on the first page of an old firm with more rows than a page, it
  is too old itself: the device drops everything, starts again and is handed the
  same cursor.

The others are in the models as the code has them; a property excepts exactly
what the text denies.

- **A dead session kept alive** (`plugins/guards.ts:60`). The comment at
  `guards.ts:35-37` says that every revocation path clears the entry the moment
  it revokes, "so this never keeps a dead session alive", and `lib/cache.ts:19`
  that the TTL only bounds revocations from outside the process. But the entry
  is filled some continuations after the SELECT, and dropped fewer after the
  UPDATE: in the order SELECT, `logout`'s UPDATE, `invalidateSession`,
  `cacheSession`, which a lock queue of the two statements gives, the entry comes
  after the drop and says for 20 seconds (`SESSION_TTL`) that the session is
  alive. It is the last disjunct of `RevokedSoonRefused`. Nothing
  else keeps a session alive: no earlier entry survives the drop
  (`StalenessBounded`).
- **A child outlives its row** (`jobs/purge.ts:27`). "FK-safe: children are
  cleaned up by ON DELETE CASCADE on parent purge", and `BACKEND_SPEC.md:615`:
  "Do not hard-delete tenant rows." The cascade takes live rows too: a route
  pushed under a party that was already a tombstone, a purchase or scheme under
  such a company. They leave no tombstone, so a device that holds one keeps it.
  `NoGhosts` and `CatchesUp` except the rows in `late`, which are these.
- **Rows of one millisecond** (`sync/pull.ts:43`): "rows committed mid-request
  can never be skipped." One committed in the millisecond of the upper bound,
  after its table was read, is: see the gaps, and `WritesApart`.
- **A group that does not roll back** (`sync/push.ts:88`). `BACKEND_SPEC.md:1283`
  says: "If any mutation in a group fails validation, that group rolls back".
  `applyOne` catches what a mutation throws inside the group's transaction, so
  the others of the group, and what the failing one had written, commit.
- **A status that is not the notes'** (`backupImport.ts:238`). A claim comes with
  its file's status, and the file's notes are added to those there are, without
  `applyAutoStatus`: a merge can leave a claim claimable whose notes cover it.
  `StatusTrue` excepts a claim so restored (`loose`), until its notes change.
- **A baseline among the days** (`backupImport.ts:130` and `155`). REST and push
  refuse a baseline on or after a live day and a day on or before the baseline;
  an import looks only at the days and the baseline of its own file.
  `DaysAfterBaseline` excepts the days it so leaves behind (`slipped`).

## Gaps the properties leave

The models have these as the code has them, without a run of their own: what is
checked holds in spite of them, or excepts exactly them.

- **A throwing `BEGIN` keeps the lock** (`db/pool.ts:312`). `BEGIN IMMEDIATE`
  stands between `lock()` and `try`. When it throws, for example because an
  outside process holds the file beyond the busy timeout, `release()` is not
  called and the server answers nothing more. `AnsweredUnlessLeaked` excepts it.
- **`If-Match` is checked before the transaction** (`freight/service.ts:196` and
  `243`): two PATCHes with the same revision both succeed. `PatchWrite` has no
  guard on the revision.
- **Logout-all does not stop a refresh under way** (`auth/service.ts:251`):
  `rotateSession` updates by id and does not look at `revoked_at` again.
  `Rotate` has no such guard either.
- **Rows of a table that share a millisecond** (`sync/pull.ts:106`). The window is
  `updated_at > cursor AND <= upper`: a row written after the pages were read
  but in the millisecond of `upper` is passed by a cursor that equals `upper`,
  and so are rows beyond the limit that carry the `updated_at` of the last row
  kept. The second also hides a tombstone, until it is purged. `WritesApart`
  further takes the tombstones one cascade writes into one table as written
  apart; the code stamps them in one statement. Without
  `WritesApart`, `NothingSkipped` and `NoGhosts` are false.
- **References are checked outside the write** (`landing/schemes.ts`,
  `landing/purchases.ts`): a folder, company or grade may be deleted in
  between; `overtaken` marks the scheme.
- **The purge takes live rows along** (`jobs/purge.ts:25`; above). A record
  revived, or pushed by an old device, under a dead company or party is deleted
  with it by `ON DELETE CASCADE`, without a tombstone. `ChangesSeen` excepts
  steps of the purge, `NoGhosts` and `CatchesUp` the rows in `late`.
- **Rejected, and written** (`sync/push.ts:88`). What a mutation wrote before it
  threw commits with its group: a grade still named is tombstoned, a scheme
  that names a purged grade is stored, some payments, notes, receipts
  (`push.ts:348`, without a bump of the day) or the baseline's date stay.
- **A PATCH of a claim** computes the status from notes read a statement
  earlier (`landing/claims.ts:143`); `loose` marks the claim until a note
  changes again. A restore computes nothing.
- **The baseline is counted before its transaction** (`stock/service.ts:79`), and
  a day is created after the baseline was read; a restore does not look.
  `slipped` marks the days.
- **Revisions start again at 1 after a purge**, so a device that was away may
  hold a copy whose number fits another purchase; and a device that went on
  deleting payments of a deleted purchase has counted past the row's revision,
  which a restore then meets (`earlier` in `Purchases`).
- **A delivery or move pushed after its truck or item was deleted** stays: no
  handler looks (`late` in `Depot`).
- **Two accounts that verify one token at once** both get it
  (`billing/routes.ts:59`): the holder is looked up before two calls to Google
  (`raced`). A load that has read the old row puts it back into the cache after
  the grant or the revocation dropped it (`plans/service.ts:50`), for the TTL,
  also a load of one statement; the answer of a verify goes through the same
  cache.
- **A plan that the console edits** while a load has read it is put back into the
  cache by that load; entries are compared by their row only.
- **The plan of a purchase is a guess when its period has none**
  (`billing/play.ts:261`): `pickPlan` falls back on any plan of the product, so a
  monthly purchase can land on the yearly plan and earn its referrer the bonus.
  `Earned` is about money paid, not about the period.
- **A plan is counted and then deleted** in two statements: a grant in between
  leaves an entitlement without its plan, which reads as free.
- **The recheck reads the 500 oldest pending rows** (`referral/service.ts:317`).
  If 500 purchases never convert, younger ones are not asked for.
  `ConversionNoticed` is checked with a list that is long enough (`JobLimit` 2
  of two).
- **Two copies of a POST in flight**, or a crash before the key is stored, make
  two records (`freight/service.ts:416`; `torn`). The INSERT of the key may
  also fail for another reason, which is swallowed (`freight/service.ts:432`) and
  is to a retry what the crash is.
- **A crash after a code was burnt** loses the code (`auth/service.ts:411`); a
  wrong guess is counted in a transaction that its own error rolls back
  (`auth/service.ts:148`), so the count does not grow. The model has the
  roll-back and therefore no count.

## What is not modelled, and why

Signing, hashing and random identifiers are identities. Amounts, names, dates
and other payload that no property tells apart are left out, and with them
listing, search, reports, `counts`, and PDF or page rendering. Rate limits, mail
and push delivery, media and file backups are input/output; migrations and
configuration run before the first request. The static site, the web app, the
console's page, ads, releases and the sponsor keep single rows without rules.
Of a backup, masters, routes, folders and schemes are not modelled: they are
upserted by id with last write wins, under the chunking that `BackupImport`
models for vouchers. So `ChangesSeen`, `FiledAlive` and `RefusalKeeps` say of
masters and schemes what REST and push do, and of sheets what a restore does as
well. Reordering of masters and `setActive` of schemes are
single updates of a column nothing else reads.

## Plan

What is modelled covers the parts with a discipline to check, and every safety
property the passing runs check is proved. What is left, in order of importance:

1. For `loose`, `slipped`, `late` and `overtaken` what `Unshared` and
   `LoadsUndisturbed` do for `raced`: each of them names a window by what
   happened in it; a hypothesis about what must not happen there, for one claim,
   one day or one row, says more.
2. The number of guesses at a one-time code, once the code counts them outside
   the transaction that its error rolls back.

# nest-starter in TLA+

A verification project for the NestJS starter in `src/`: accounts, sessions,
refresh tokens, the login lock, password reset, file uploads, the job queue and
the audit log, as modules that TLC checks on small instances and as theorems that
TLAPS proves for every value of the constants. Line numbers below refer to
the files under `src/src/`; `PROJECT.json` maps every definition to its lines.

## The system

One or more API processes and queue workers share one PostgreSQL database
(Prisma, READ COMMITTED, interactive transactions) and one S3-compatible store.
No process keeps state of its own that matters beyond a request, except the
number of images it has in work. What makes the program hard is therefore not
memory but time: every handler reads rows, does something slow (argon2, an image,
a mail, an S3 call) and then writes, while other handlers do the same.

| Component | State | Operations | What makes it correct |
| --- | --- | --- | --- |
| accounts, sign-in (`auth.service`, `user.service`) | `User` row | register, login, soft delete, undo by login | the later of a login and a deletion wins, with its sessions |
| sessions (`session.service`) | `Session` rows | issue, limit of 10, revoke one / all / others, reuse, clean-up | no session of a closed account, never more than the limit |
| refresh rotation (`session.service.rotate`) | `RefreshToken` rows | refresh with a grace window of 30 s, siblings, reuse detection, logout | tabs that refresh at once never lock each other out; a token is claimed once |
| login lock (`auth.service`) | three columns of `User` | count a failure, progressive lock, decay | no failure is lost, no login during a lock |
| password change, reset (`password.service`, `one-time-token`) | `OneTimeToken` row, queue | forgot, mail job with retries, reset | one reset per token, a mail is not lost to the cooldown |
| anonymization (`user-anonymization.service`) | `User` row | daily job | final, and it happens |
| files (`file.service`, `file-cleanup.service`) | `StoredFile` row, objects, queue | upload ticket, complete (image or document), sweep, object-delete job | a ready file has its objects, a removed one leaves none |
| avatar (`user.service`) | `User.avatarFileId` | attach, detach | never refers to a file that was removed |
| queue (`core/queue`) | pg-boss tables, the processes of a deployment | boot, schedule and unschedule, send inside a transaction, work, retry, stop | a sent job is handled at least once and at most `retryLimit + 1` times; the schedules are those of the version that is up |
| audit (`core/audit`, `audit-log.service`) | `AuditLog` rows | record, two paged lists, retention | a change and its record stand or fall together; a reader who turns the pages misses nothing |

They interact through rows of the same database: a login, a deletion, a password
change and the anonymization job meet on the `User` row; a rotation, an eviction
and a revocation on `Session` and `RefreshToken`; a complete, the sweep, an
attachment and the object-delete job on `StoredFile` and on the objects. Jobs are
sent inside the transaction that needs them and may run more than once.
The retention job deletes audit records while other requests write and read them.

## Modules

| Module | Stands for | With |
| --- | --- | --- |
| `AccountLifecycle` | what accounts and sessions promise, every operation one step | |
| `AccountSessions` | the same operations statement by statement | `MCAccountSessions`, `AccountSessionsProofs` |
| `TokenExchange` | what a refresh promises, every refresh one step | |
| `RefreshRotation` | the refresh tokens of one user's sessions | `MCRefreshRotation`, `RefreshRotationProofs` |
| `FileLifecycle` | uploads of images and documents, avatars, sweep, object-delete job | `MCFileLifecycle`, `FileLifecycleProofs` |
| `PasswordReset` | forgot, mail job, reset | `MCPasswordReset`, `PasswordResetProofs` |
| `LoginBackoff` | failure counter and lock in numbers | `MCLoginBackoff`, `LoginBackoffProofs` |
| `JobContract` | what the queue promises to the code that sends a job | |
| `JobQueue` | processes that boot, schedule, work, die and stop, and the rows of pg-boss | `MCJobQueue`, `JobQueueProofs` |
| `AuditTrail` | audit records and the two ways of reading them | `MCAuditTrail`, `AuditTrailProofs` |

`AccountSessions` implements `AccountLifecycle`, `RefreshRotation` implements
`TokenExchange`, and `JobQueue` implements `JobContract`, and so does the queue that `PasswordReset` assumes for its mail
jobs: the assumption is checked against the promise (`MailJobsKeepTheContract`),
and the promise against the code (`KeepsTheContract`). The object-delete job of
`FileLifecycle` makes the same use of the queue, with a set for its rows.

All have the same shape. `txn[r]` is what request (or job) `r` is doing: a program
counter and what the handler has read so far. One action is one database, storage
or mail call together with the code up to the next one; its guard is what the
WHERE clause or the early return asks, and reads that are used later are recorded
in `txn`. Writes of a transaction are visible from its commit; the last write and
the commit are one step. `Abort`, `Crash`, `JobFails` and `StoreFails` end a
request anywhere, undo what was not committed, and keep what was.

* **AccountSessions.** `password`, `deletedAt`, `anonymized`, `locked` are the
  columns of `User`; `state`, `owner` those of `Session` (`newer` orders them by
  `lastUsedAt`, `openedWith` is history: the password a session rests on). Each
  transaction first writes the user's row, so `holder[u]` is its lock. `Rotate` is
  a refresh seen from outside. `audited` holds the audit records of the last step.
  Bound: `IdLeft`, a login starts while a session id is left for it.
* **RefreshRotation.** `token` is `unused`, `used` (within the grace window),
  `stale` or `deleted`; `lock` holds the row locks of the open transactions. The
  `deleteMany` of the siblings is a scan and then one step per row, as two of them
  may meet on the rows: `Deadlock` and `DeadlockVictim` are PostgreSQL's. Bound:
  `TokenLeft`, a rotation starts while a token is left for it. `Fresh` takes the
  first of the absent tokens, since nothing depends on which one is drawn.
* **FileLifecycle.** `row` is the status (`gone` once deleted), `incoming` and
  `final` the objects with their contents, `jobs` the queue. Several queued jobs
  for the same file and scope are one element: the handler is idempotent, so a
  second run adds no outcome that a retry does not. An image is fetched, rendered
  and written object by object (`Load`, `PutObject`); of a document the first bytes
  are looked at and the store copies it (`Sniff`, `Copy`), both under the etag that
  `Head` saw. Empty and oversized uploads are among the unacceptable contents, which
  `Head`, `Load` or `Sniff` rejects. A transaction that only writes is one step.
  `lost` marks files some failure may have left objects of.
* **PasswordReset.** `row` is the one `OneTimeToken` row of the account (its id
  is named after the first token it held), `age` what the cooldown and the expiry
  compare. `resets` and `orphaned` are history; `resets[p][h]` counts the resets that
  presented token `p` and used up token `h`, which the claim by id may tell apart.
  Bounds: `MaxToken`, `Job`.
* **LoginBackoff.** Times are numbers. `Begin` reads the row; `TakeTime` (or
  `TooEarly`, the answer 429) compares the lock that was read with the time it is
  after the password was verified, which the handler keeps as `now` before it waits
  for the row: both can be stale by then. `streak` is history, the times of the
  failures since the counter was cleared, and `due` of an attempt what they allowed
  when it read the row, by the delay the README promises (`Promised`) and not by the
  one the code computes (`Backoff`). Bounds: `Horizon`, `MaxStreak`.
* **JobQueue.** `inst[i]` is a process: its version, how far its boot is, whether
  `QUEUE_WORKERS_ENABLED` is set, and what the loop it is in has still to do.
  `schedule` is the table of schedules, whose entry of a queue is the version that
  wrote it (versions may differ in the cron). `job[n]` is a row of pg-boss and `run`
  the calls of `process()` that are under way: a call outlives the row's interest in
  it when the job expires or `boss.stop()` times out, and its report may then be
  dropped or meet the next run (`Report`). `logged` is what `process()` logged as
  having no retries left; `cut` and `alone` are history. Rows, fetches, failures and
  expiries are pg-boss's and external; the registration, the envelope, what is
  logged and rethrown, and the order in which a process ends are the program's.
  Bounds: `Job`, `MaxBoots`.
* **AuditTrail.** A record goes from `open` (inserted, with its time) to `stored`
  (committed), so rows appear in another order than that of their times. `log` is a
  walk along the security log by `nextCursor`, `list` one along the administrators'
  list by page number, whose rows and total are two queries. `purge` is the time the
  retention job has read. The `base` of a walk is history. Bounds: `MaxTime`,
  `Record`, and `Alone`: there is one walk, which loses nothing, since a walk changes
  no row.

The actions on which a module depends without modelling their code are marked
external in the map: row locks, rollback, deadlock detection, the rows and the
maintenance of pg-boss, the bucket's lifecycle rule, the clock.

## What TLC checks

| Run | Instance | Shows |
| --- | --- | --- |
| `accounts` | 1 user, 3 sessions, 2 requests, 2 passwords, limit 2 | `ClosedAccountHasNoOpenSession`, `SessionCap`, `AnonymizationIsFinal` |
| `accounts_fair` | 1 user, 2 sessions, 2 requests, limit 1 | `ActsAtomically` (refinement of `AccountLifecycle`), `EveryRequestEnds`, `DueAccountIsSettled` |
| `refresh` | 1 session, 6 tokens, 2 requests | `OpenSessionCanRefresh`, `ClaimedOnce`, `UseKillsSiblings`, `RotationsActAtomically` (refinement of `TokenExchange`), `StandstillIsDeadlock`, `RefreshEnds` |
| `files` | 2 users, 1 file (an image of 2 objects or a document), 3 contents (one unacceptable), 2 requests | `ReadyFileHasItsObjects`, `AvatarIsUsable`, `ErasureIsOwed`, `DeletedFileIsErased` |
| `reset` | 4 tokens, 2 jobs with 1 retry, 2 resets | `OneResetPerIssue`, `NoMailIsSwallowed`, `MailJobsKeepTheContract` (refinement of `JobContract`) |
| `backoff` | 2 attempts, threshold 1, base 1, cap 3, decay 3, 7 ticks | `FailuresAreCounted`, `LockedLoginIsRejected`, `GuessesAreSpaced` |
| `queue` | 2 processes, 2 versions with one scheduled job each, 1 job with 1 retry, 3 boots | `SchedulesAreKept`, `GivenUpJobsAreLogged`, `KeepsTheContract` (refinement of `JobContract`), `EveryJobEnds` |
| `trail` | 3 records of one user, pages of 1, retention of 1 in 3 ticks | `ShownOnce`, `SecurityLogIsComplete`, `ListIsComplete`, `ExpiredRecordsGo` |

Each passing run also checks `TypeOK` (in `accounts_fair` it is left to
`accounts`). Every property has a mutant, a plausible bug in one definition that
makes TLC find it violated.

The bounds are small but reach the cases in question. One user suffices because no
action reads the rows of two accounts (the proofs do not need the restriction).
Two requests are what the races take: all of them are between one slow and one
fast party. Three sessions exceed the limit of two by one; six tokens allow the
exchange of a token by two tabs, of both siblings, and of what these yield. The
files run has two acceptable contents, so that an object may be replaced, and two
parts, so that one may be missing; of its two users one may try to attach the
other's file. The new version of the queue run adds a scheduled job and no longer
schedules the old version's, so a boot of either has something to write and to
withdraw, and three boots allow a process to die and a replica to come up beside
the other. Three records with pages of one give a walk a first, a middle and a last
page, room for two of the same millisecond, and a cursor row that retention deletes
while a newer one stays. With a threshold of 1, a cap of 3 and a decay of
3 the lock is formed, doubled, capped, waited out and forgotten within seven
ticks. In `accounts_fair` there is one
password, and a wrong one is the guess `None`. Symmetry is used in safety runs only,
over sets whose members no action tells apart (in `reset` the requests and the jobs).

`CHECK_DEADLOCK FALSE` is set where the system may stop: all sessions closed
(`Refresh*.cfg`), all files gone (`Files.cfg`), all jobs ended (`Reset*.cfg`), every boot
used up (`Queue.cfg`), every record deleted and every walk over (`Trail.cfg`), the
last four because the instance has only so many of them.

### Fairness

* `accounts_fair`: a handler runs on (`WF Proceed`); PostgreSQL grants a row lock
  in the order of arrival, so a request that can take it again and again gets it
  (`SF TakeLock`); the daily job comes round for every due account (`SF AnonPick`)
  and from some time on does not fail (`<>[] ~JobFails`), which is what "unless
  every run of it fails" means. Clients, expiry and failures are never forced.
* `refresh`: the same, and PostgreSQL breaks deadlocks (`WF DeadlockVictim`).
* `files`: workers run on, a queued job is fetched (`SF JobStart`), and a job is
  put back only finitely often, because `retryLimit` bounds it.
* `queue`: a boot runs on, handlers and transactions come to an end, what expires
  is expired (`WF`), and the workers of a queue that is polled again and again fetch
  its job (`SF Fetch`). That some process comes up to poll the queue is a premise of
  `EveryJobEnds`, since nobody is forced to start one.
* `trail`: the retention job is scheduled daily (`WF TakeThreshold`) and does not
  fail for ever (`SF RemoveExpired`). The clock is never forced.

`DueAccountIsSettled` takes a batch as big as the backlog for granted; the query
has no ORDER BY, and which accounts a smaller batch leaves out is not modelled.

### Disagreements between the code and its documentation

Four runs expect a violation; each states a sentence of `src/README.md`.

| Run | The code | The sentence |
| --- | --- | --- |
| `accounts_reactivation_audited` | `login` decides on a row read earlier whether it reopens the account (`auth.service.ts:129`) | a change and its audit record are written in one transaction (326-327) |
| `accounts_sessions_carry_current_password` | the UPDATE that signs in does not look at the password hash again (`auth.service.ts:133`) | a change or reset closes the (other) sessions (252, 260-261) |
| `refresh_deleted_token_yields_nothing` | a claim that finds no row is taken for a use within the grace window (`session.service.ts:104`) | whoever holds a deleted sibling gets 401 (239-240) |
| `reset_uses_current_token` | `consume` finds the row by hash and claims it by id (`one-time-token.service.ts:68`) | a new request invalidates the old one (259) |

`reset_uses_current_token` has a second consequence: two resets look up the token of
one mail, the first claims it, a new request puts another token into the same row, and
the second claims that one. The mail has reset twice, although a token is single-use
(258); `OneResetPerIssue` therefore counts by the token that was used up, of which
there is one reset at most.

Four more are behaviours of the model that have no run of their own.

* `DELETE /auth/sessions` calls `revokeAll` without a transaction
  (`session.service.ts:192`), so its record may be lost (326-327);
  `RevokeAllUpdate` and `RevokeAllAudit` are two steps.
* The sweep compares `readyAt`, not the time of the last reference
  (`file-cleanup.service.ts:195`), so a file that was an avatar until a moment ago
  is removed by the next sweep, although the README speaks of files that no record
  has shown for 24 hours (453-454): `Detach`, then `SweepPick` of an aged file.
* A complete that read the row while it was pending stores under the same keys
  after another complete has made the file ready (`file.service.ts:373`, `428`), and
  what it stores may be another content: once the object-delete job has removed
  `incoming/<id>`, the upload URL, which should be good for one write (394-395),
  takes one more `PUT` (`MarkReady`, `JobDeleteIncoming`, `ClientPut`, and `Head` to
  `Copy` of the other request). The objects of public files are served as
  `immutable` (`file.constants.ts:8`).
* The time of a failed login is read before its transaction waits for the row
  (`auth.service.ts:212`). A failure recorded late moves `lockedUntil` back to its own
  time, and attempts that have all read the account before any of them is recorded
  each learn their answer, although every new failure is to delay the next login
  (341-345): `CountFailure` and `RecordFailure` with an older `now`, and several
  `Begin` in a row. `GuessesAreSpaced` speaks of what an attempt could read.

One is seen in the code and lies outside the modules: a request that found its account
before it was anonymized writes its address into the audit log after the UPDATE of
`anonymize` (`audit-log.service.ts:70`), and nothing looks for it again, although the
address is to be deleted from the audit records (296-297).

## What is proved

TLAPS proves, for every value of the constants that meets the named assumptions
(`ConstantsAssumption`, `NoneAssumption`, `FileAssumption`, `ResetAssumption`,
`BackoffAssumption`, `QueueAssumption`, `TrailAssumption`: null values are not ids,
session ids and records are finitely many, limits are numbers, a version schedules
only jobs it has a handler for), every safety property that the runs check:

* **AccountSessionsProofs**: `TypeCorrect`, `ClosedAccountsStayClosed`,
  `SessionsAreCapped`, `AnonymizationStays`, and `OperationsActAtomically`, the refinement of `AccountLifecycle`. The invariant `IInv` adds to the properties who
  holds which lock (`LockInv`), that what a transaction's first UPDATE found holds
  while the lock is held (`ReadyInv`), that uncommitted sessions have ids of their
  own (`ReservedInv`), and who owns them (`OwnerInv`). Without `ReadyInv` a commit
  could follow a deletion it never saw. `CapInv` carries the number of sessions
  over from the read of the list to the commit: in between, live sessions only
  become fewer, because every login of the user needs the lock.
* **RefreshRotationProofs**: `TypeCorrect`, `OpenSessionsCanRefresh`,
  `ClaimsAreSingle`, `UsesKillSiblings`, `StandstillsAreDeadlocks`, and
  `RotationsAreAtomic`, the refinement of `TokenExchange`. A rotation locks what it claims or deletes
  and creates its token in the same commit (`LockInv`), so two rotations never
  remove each other's result; `KillInv` says which of the siblings a deletion has
  still to reach. For the refinement a rotation takes place at its commit: what it
  has claimed or deleted is locked and, to everybody else, still unused until then.
  `GoneInv` is what is left to show, that a token found used or deleted by a claim
  which came too late is so for good. In a standstill whoever holds a row has
  claimed a token and waits for a sibling's row (`HolderDeletes`), which another such
  request holds (`WaitsForOthers`): together they are the cycle.
* **FileLifecycleProofs**: `TypeCorrect`, `ReadyFilesHaveTheirObjects`,
  `AvatarsAreUsable`, `ErasureStaysOwed`. Each request remembers a file, and `Sound` says what of that
  memory stays true; it does because rows only advance and an object of a row that
  is not gone is only ever replaced by an acceptable one (`Advances`). A copy is
  acceptable because the store compares the etag again. For the last theorem
  `OweInv` says of every object of a deleted row who has it still to delete: a job
  that is queued, has not listed the prefix or has listed it with this object, or a
  complete that has yet to find the row gone and then queues such a job (`HandsOver`).
* **PasswordResetProofs**: `TypeCorrect`, `TokensResetOnce`, `MailsAreNotSwallowed`,
  and `MailJobsHonourTheContract`, the refinement of `JobContract`. `UnspentInv` says
  that the token of an unused row has not been used up, `FoundInv` that the token a
  reset has looked up is not younger than the row's, so that a token is used up by its
  own mail or an older one, `TokenInv` that the row's token is mailed, in a job's
  hands, or orphaned.
* **LoginBackoffProofs**: `TypeCorrect`, `FailuresCounted`, `LockedRejected`,
  `GuessesSpaced`. `HolderInv` says that an attempt between its two UPDATEs has the
  row, and counted from what the row holds; `StreakInv` that the columns are those of
  the failures recorded; `DueInv` that what is promised for the failures is in the lock
  or over; that the code's delay is the promised one, and within the cap, are lemmas
  (`AsPromised`, `Capped`). The two action properties
  follow from the invariant and one step.
* **JobQueueProofs**: `TypeCorrect`, `SchedulesStay`, `GivenUpLogged`, and
  `ContractKept`, the refinement of `JobContract`. The invariant has two halves that
  most actions leave to each other. `SyncInv` is about the boots: what a process that
  has no other version beside it has written is there, and what it has not listed is
  its own. `CallInv` is about the jobs: a call is the one its row waits for or the job
  was cut off, no two calls are of one fetch, and what a call came to was noted before
  it is reported. Without the last part a job could be completed unhandled.
* **AuditTrailProofs**: `TypeCorrect`, `LogShowsOnce`, `LogMissesNothing`,
  `ListMissesNothing`. Every step keeps the trail orderly
  (`Orderly`): the times of written rows stay, and no row stays that is older than
  one that goes. So what a cursor has still to show lies behind it, and when its own
  row is gone, so is all behind it (`LogInv`). For the list `ListInv` counts: a row
  that has not been shown has at least as many rows before it as the pages read so
  far hold, because a deletion takes rows from the end and a commit only adds.

Only model-checked: the liveness properties (`EveryRequestEnds`,
`DueAccountIsSettled`, `RefreshEnds`, `DeletedFileIsErased`, `EveryJobEnds`,
`ExpiredRecordsGo`), since fairness and ENABLED are out of the prover's reach. Of
two of them the safety core is proved: that a standstill is one PostgreSQL ends
(`StandstillsAreDeadlocks`), and that an object which should go has somebody to delete it (`ErasureStaysOwed`).
That these then take their turn is what fairness adds.

## What is left out

Inside the modelled components: in `AccountSessions` a login lock that is in force
when the row is read and lapses while the password is verified (`LoginRead` takes
the lock as it was read; `LoginBackoff` does not), and the row locks of `Session`: the UPDATEs that close
sessions (`session.service.ts:196`, `217`, `282`) may wait for those of `rotate`,
`revokeById` and `rejectReuse`, and a cycle of such waits ends in a rolled back
transaction, a case of `Abort`; what access tokens contain beyond
the user and session, throttling, columns that are only shown (device, ip, user
agent, file names) and their anonymization, in the audit log too; in
`RefreshRotation` the clean-up of old sessions with their tokens; in `FileLifecycle`
the roles of shared purposes, the cursor and time limit of the sweep, that an
attachment fails when its account was deleted (to the state this is a `Crash`); the
address a mail goes to; in `JobQueue` what an envelope contains (one that cannot be
parsed is a run that throws), retry delays, the deletion of old rows, and that `updateQueue` gives a queue the
options of the version that booted last (`queue.explorer.ts:42`; a row keeps the
retry limit it was sent with); in
`AuditTrail` the events and what a filter asks (`Matching` is what it lets through).
A reset is one step in `PasswordReset` and its effect on sessions is in
`AccountSessions`. Hazards that no property covers are listed in `PROJECT.json`
with the reason.

## Not modelled

* **Guards, roles and rate limits.** The bearer guard is part of `AccountSessions`
  (`Bearer`). The other guards decide once per request, on what the request carries
  and a read of one row; the counters of the throttler live in a library.
* **Mail.** Rendering and one call of a transport; `PasswordReset` has the call
  succeed, fail, or fail although the mail arrives.
* **File purposes and download URLs.** A registry that is filled at start-up, and
  reads that sign a URL: nothing later decides on what they saw.
* **Configuration and bootstrap.** Parsing of the environment and wiring, run once
  and in sequence; what a boot does to the database is in `JobQueue`.
* **Errors, logging, request context, health, OpenAPI.** Formats of answers and
  logs, and reads without effect. The request context matters to one column of an
  audit record, the actor, which no list is ordered by.

A next step would be the composition of components: that the steps of
`TokenExchange` are steps of `AccountLifecycle` (where a refresh only touches its
session), an abstract specification of a password reset (issue, use) beside it, and
what the senders of a job may conclude from `JobContract`.

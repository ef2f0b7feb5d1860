# Qalam: a TLA+ model of the writing platform's backend

Qalam is a NestJS modular monolith (`src/backend`) over PostgreSQL (TypeORM),
Redis and BullMQ, with a web client, an admin client and a shared package. The
state that matters lives in PostgreSQL rows, in Redis keys and in BullMQ jobs;
API processes and worker processes run the same service classes side by side.
This directory models the parts of the backend in which several of these
actors work on the same state, checks their specifications with TLC and proves
every safety property of the runs with TLAPS.

All source paths below are under `src/backend/src/`.

## 1. Inventory

| Component | State it keeps | Operations | Interacts with |
| --- | --- | --- | --- |
| AI credit wallets (`modules/monetization/credit.service.ts`) | `credit_wallets`, `credit_transactions` | `getOrCreateWallet`, `grant`, `debit` | subscriptions and purchases grant, the AI usage meter debits |
| Piece lifecycle (`modules/pieces`) | `pieces`, `profiles.pieces_count` | create, update, publish, schedule, archive, unarchive, delete, moderation entry points | author and moderator requests, the scheduled-publish worker, the event bus |
| Scheduled publishing (`infrastructure/worker`, `infrastructure/queue`) | BullMQ jobs `publish:<id>`, the repeatable sweep | enqueue delayed job, run job, run sweep, retry | calls `PiecesService` |
| Payment webhook inbox (`billing.service.ts`) | `payment_webhook_events`, invoices, payments | `ingestWebhook`, `processWebhookEvent` | the provider (redelivery), BullMQ, subscriptions |
| Subscriptions and trials (`subscription.service.ts`, `trial.service.ts`) | `subscriptions`, `subscription_events` | checkout, plan change, cancel, reactivate, pause, resume, renew, grace, expire, sweep | webhooks, credit wallets, entitlement cache |
| Read-through cache (`infrastructure/cache`) | Redis keys and stampede locks | `get`, `set`, `del`, `wrap` | entitlements, discovery, settings |
| Policy and trust (`modules/policy`, `modules/trust`) | per-process decision cache, restriction rows | `evaluate`, `invalidateUser`, `applyRestriction`, `liftRestriction` | every authorised write |
| Collaboration (`modules/collaboration`) | suggestions, invitations, memberships, presence | accept, reject, withdraw, invite, revoke, add, change role, remove | pieces, snapshots, policy |
| Publishing (`modules/publishing`) | review sessions, snapshots, publication events | request, approve, request changes, publish, schedule, capture, revert | pieces, policy |
| Moderation (`modules/moderation`) | reports, appeals, account status | report, resolve, reopen, appeal, approve, reject, suspend | pieces, sessions, trust |
| Engagement (`modules/engagement`, `modules/users/follow.service.ts`) | reactions, bookmarks, follows, `piece_stats`, profile counters | like, clap, bookmark, follow and their removal | event bus, notifications |
| Coupons, purchases, quotas | coupons, redemptions, purchases, usage rows | redeem, record, fulfil, meter | wallets, providers |
| Event bridge, queues | BullMQ jobs, dead letters | enqueue, coalesce, retry, park | all of the above |
| Auth sessions (`modules/auth`) | Redis token families, reset tokens, the password | login, rotate, log out, change and reset the password | moderation logs users out |
| Search, feed, retrieval, analytics, AI, admin, settings, ... | projections and single rows | queries, CRUD | |

What is hard here is the same throughout: a service method awaits between
reading an entity and saving it; a request, a job and a sweep may run the same
method at once; a job is delivered at least once; a transaction and a call
beside it commit separately; a process may die between any two statements.
The hazards, each at its line, are listed in `PROJECT.json`.

What makes each component correct, in a sentence: the ledger explains the
balance; a piece is announced once and not early, and a scheduled piece is not
forgotten; a billing event takes effect once and is not lost; access follows
from a subscription's history and ends when it should; a cold key is computed
once and a stale one is not served for ever; a decision follows from the
user's present standing; a counter is the size of what it counts; a changed
password ends the sessions it opened; a moderator's decision is carried out
before it is recorded and undone before an appeal against it is approved; a
roster keeps its limit and an old removal does not end a new membership; an
accepted suggestion
is in the text and what it replaced is in a snapshot. Several of these hold
only up to an interleaving the code does not exclude. The properties say up to
which, and section 3 lists the instances that show it.

## 2. Modules

| Module | Models | Used by |
| --- | --- | --- |
| `CreditAccount` | abstract: one account per user, each mutation posted at once | refined by `CreditLedger` |
| `CreditLedger` | the wallet and ledger tables, statement by statement | `MCCreditLedger`, `CreditLedgerProofs` |
| `PieceLifecycle` | pieces, jobs, sweep, counter and connection pool | `MCPieceLifecycle`, `PieceLifecycleProofs` |
| `WebhookEffects` | abstract: an event is recorded, then applied or found to have no effect, then processed, never back | refined by `WebhookInbox` |
| `WebhookInbox` | ingest, queue, worker, effect | `MCWebhookInbox`, `BillingProofs` |
| `SubscriptionLifecycle` | one user's subscription row and its history | `MCSubscriptionLifecycle`, `BillingProofs` |
| `ReadThroughCache` | `CacheService.wrap` on one key | `MCReadThroughCache`, `ReadThroughCacheProofs` |
| `PolicyCache` | `PolicyEngine.evaluate` and its cache | itself |
| `EngagementCounters` | reaction and follow rows, the counters they move, row locks and deadlocks | `MCEngagementCounters`, `EngagementCountersProofs` |
| `TokenSessions` | refresh-token families in Redis, password and reset tokens of one user | `MCTokenSessions`, `TokenSessionsProofs` |
| `Moderation` | reports on one piece, appeals, the author's account and the ways to a session | `MCModeration`, `ModerationProofs` |
| `StoryRoster` | memberships of one story and the invitations to it | `MCStoryRoster`, `StoryProofs` |
| `StoryText` | the text of one story, suggestions and snapshots | `MCStoryText`, `StoryProofs` |

The `MC...` modules name the model values and sets the `.cfg` files use. A
definition commented as a mutant is a plausible wrong version of the one that
follows it; nothing uses it unless it is put in the other's place, and then
the property it belongs to fails.

### How the modules correspond to the code

In every module a process variable `pc` says which statement, command or await
comes next, so that calls interleave between any two of them; a `Fail`, `Abort`
or `Crash` action leaves a call where it is. `BillingProofs` extends
`WebhookInbox` and `SubscriptionLifecycle`, `StoryProofs` extends `StoryRoster`
and `StoryText`, so the second of each pair has names of its own: `at` for
`pc`, `SubscriptionSpec` or `TextSpec` for `Spec`, and so on. Variables commented as history are
read by no action: properties use them to say what has happened.

* **CreditLedger.** A call goes through the statements of `apply`
  (`credit.service.ts:96-138`): `SelectForUpdate` takes the row lock,
  `InsertWallet` is the `??=` of a missing wallet with its unique index
  (`UniqueViolation`), `Apply` computes the clamped balance, `Commit` makes
  wallet and ledger row visible together and releases the lock. `Overflow` is
  PostgreSQL refusing a value beyond the `int` columns; `Abort` is any failure
  inside the transaction; `AnswerLost` is a caller that never hears of its
  commit. `getOrCreateWallet` runs outside a transaction
  (`FindWallet`, `InsertAndReturn`).
* **PieceLifecycle.** `Load` is `loadOwned` with the guards of each method,
  `BeginTx`, `Write`, `AdjustPublishedCount`, `Commit` and `Emit` are the
  statements of the transaction methods, `WriteSchedule` and `Enqueue` those of
  `schedule`. `adjustPublishedCount` passes no entity manager, so it takes a
  second connection of the pool and commits by itself. `Check` is the read that
  `publishScheduledById` and the moderation entry points make before handing
  over to an author's method. `StartSweep`/`NextDue` are `publishDueScheduled`,
  `StartJob`/`AfterAttempt` the BullMQ worker with its attempts; an `add` with
  a jobId BullMQ still knows is ignored, and `ForgetJob` is the removal of old
  finished jobs. A piece's content is reduced to whether it is `complete`
  enough for `assertPublishable`.
* **WebhookInbox.** `FindDuplicate`, `FindNothing`, `Insert`, `Enqueue` are
  `ingestWebhook`; `Take`, `ReadHandled`, `ReadPending`, `ChangeSubscription`,
  `WriteInvoice`, `WritePayment`, `Mark`, `Complete` are the worker in
  `processWebhookEvent` and `applyWebhookEffect`. `ApplyNothing` is the three
  branches of `applyWebhookEffect` that return without doing anything: the user
  cannot be found, the user whose subscription is canceled has none, the event is
  of another type; the record is marked processed all the same. Which of these a
  row of the subscriptions table decides may differ from one attempt to the
  next, so an event of which half was applied may be processed by a retry that
  finds nothing. A renewal or a failed payment of a user without a
  subscription throws instead (`EffectThrows`). Only a renewal or a failed
  payment that names its user (`Named`) is `Due` in any case. The `catch` of
  `processWebhookEvent` leads to the mark `failed` and a completed job. The
  variable `env` is chosen once: which processes may crash, which steps may
  fail. A property names the environments for which it is claimed.
* **SubscriptionLifecycle.** Each method is `Load` (read and guards), the save,
  `RecordTrial` and `Record` (history). A save is two statements: TypeORM reads
  the row again without a lock (`Reread`) and updates the columns in which the
  entity differs from what it has just read (`Update`), so what a call did not
  change it may still take back, and two saves may leave columns of both.
  `mixed` records an update worked out against a row that had changed by then.
  A checkout that found no row inserts one (`InsertRow`), and the unique
  index rejects the second (`InsertRejected`). `disturbances` counts calls that
  began while another was in flight or failed between two statements.
* **ReadThroughCache.** `Get`, `AcquireLock`/`LockTaken`, `PollFills`/
  `PollGivesUp`, `Recheck`, `Compute`, `Set`, `ReleaseLock` are the awaits of
  `wrap`. `Write`/`Invalidate` are the services that change rows and then call
  `del`. With Redis away a read is a miss, a lock is granted and a write is
  dropped, as the `catch` clauses have it.
* **PolicyCache.** `Hit`, `Miss`, `ReadStanding`/`TrustPortFails`,
  `SetDecision` are `evaluate`; `ChangeStanding` and `InvalidateUser` are
  `applyRestriction`/`liftRestriction` and the call that follows them.
* **EngagementCounters.** Each call is one READ COMMITTED transaction: `Read`
  is what it looks at without a lock, `Write` the statement on the reaction or
  follow row, which locks the row until the commit, `Count` the update of
  `piece_stats` or of a profile, `Commit` the end. An insert that meets its
  unique index and a delete that affects nothing (`WriteMisses`) end the call;
  the follow methods do not look at the number of affected rows
  (`WriteMissesUnnoticed`). `AbortDeadlock` is PostgreSQL breaking a cycle of
  waiters. `drifted` records a write on a row that was no longer as read.
* **TokenSessions.** `Verify`, `OpenFamily`, `IndexFamily` (SADD),
  `ExtendIndex` (EXPIRE), `Mint` are a login;
  `ReadToken`, `ReadFamily`, `Consume`, `Mint` a rotation, with `DelFamily` and
  `Srem` when the token was used before; `Smembers`, `DelFamilies`, `DelIndex`
  the revocation of all; `UpdatePassword` a change; `ClearResets` and
  `InsertReset` the issue of a reset token, `FindReset` and `ApplyReset` its
  use. `ExpireFamily` and `ExpireIndex` are Redis's. All TTLs are equal, so the
  set's key may go once every family that was alive at its last EXPIRE
  (`covered`) is gone, which may be between a SADD and the EXPIRE that was to
  follow it. The session version, which nothing reads back, and the TTLs of
  tokens, which outlive their family, are left out.
* **Moderation.** `Load` reads the report and makes the method's test,
  `ContentAction`, `FindUser`, `CheckStatus`, `SetStatus`, `LogoutAll` carry out
  the decision, `Reread` and `WriteReport` save the entity as it was loaded with
  its changes, by the columns that differ from the second read. An appeal is
  filed by `FindAppeal`, `FileAppeal` and a save; a review goes from `Review`
  through the same steps to `FinishReview`. An admin's `PATCH` of the status ends
  at `SetStatus`, without a logout. A login tests the status (`Admit`) before it
  issues a session (`Issue`); a sign-in with Google goes straight to `Issue`, a
  password change through `RevokeAll` to it. The action on the piece
  (statement by statement in `PieceLifecycle`) and the logout and the issue of
  a session (in `TokenSessions`) are one step each. `raced` records reports saved
  over a row that had changed, `cut` the kinds of calls that were cut off,
  `unended` that a suspended author has escaped a logout or got a session since
  the last one.
* **StoryRoster.** `Load`, `FindMembership`, `CountMembers` are the queries
  before a transaction that looks at nothing again (`CreateInvitation`,
  `Accept`, `Respond`, `AddMember`, `SaveMembership`, `DeleteMembership`).
  `SaveMembership` inserts the row anew when it has been deleted, as `save` of
  a loaded entity does. `outdated` records calls whose user has been let in anew
  since they found a row.
* **StoryText.** An acceptance reads the suggestion (`LoadForResolve`) and the
  text (`ResolveAnchor`), takes a snapshot (`Preview`, `NextSnapshotVersion`,
  `CreateSnapshot`, `CountSnapshots`, `SelectPrunable`, `DeleteSnapshots`) and
  writes the text it computed at first (`Apply`). Publication snapshots are
  pinned, reverts go through `Revert`, `Edit` is the author's save. A text is a
  wording for each passage.

TypeORM's `save` of a loaded entity is two statements wherever the code calls
it: a read of the row and an update of the columns that differ. They are two
steps where the model keeps several columns of a row that unlocked saves
change (subscriptions, reports). Elsewhere a save is one step: wallets are saved
under a row lock, pieces and accounts by updates that name their columns, and of
a webhook record, an appeal, an invitation, a membership, a suggestion and a reset
token saves change one modelled column, so that a save has the effect it would
have in one step, at its read or at its update.

## 3. Runs

| Run | Question | Bounds |
| --- | --- | --- |
| `credit_ledger` | Does the ledger explain the balance, whatever interleaves, aborts or overflows; is it an account? | one user, three calls, amounts 2 and 3 against a maximum of 5: enough for a clamped debit, an overflow, and two waiters behind one lock holder |
| `piece_serial` | Are count, announcements and times exact when calls do not overlap? | two pieces, three times (so a schedule can be moved while a job for the earlier time is pending), two attempts |
| `piece_concurrent` | What still holds when they overlap and a request may crash; is a scheduled piece ever forgotten; does every call end? | one piece, one request process, the worker; pools of two connections (fewer than the calls may want) and of three |
| `webhook_inbox` | Which promise holds in which environment? | one event whose user must be looked up, three requests, two worker slots, three attempts; nothing fails, everything may, everything but the marks, requests and enqueues only |
| `subscription` | Do history and trial agree when calls do not overlap; what survives a stale save or a failure? | two tiers, three times, trial and grace of one; two processes, one of which also runs webhooks and sweeps and may fail; one disturbance |
| `cache_stampede` | Single flight, lock, termination, freshness | two callers, one each of invalidation, rejection, crash and outage; lock and entry of two ticks |
| `policy_cache` | Does a cached decision become right? | two processes, three evaluations, two changes, one failing lookup |
| `engagement` | Which counters stay exact, which drift and when; does every call end? | two users, two processes, one like and one clap row, mutual follows, claps of 2 against a maximum of 3 |
| `sessions` | What ends a session, and is each found? | two families, three refresh tokens (so a fork can leave an extra live one), three reset tokens, two processes, one new password, five requests |
| `moderation` | Are decisions enforced, recorded and lifted in order; who ends a suspended author's sessions? | one report, one reporter, two processes, seven requests; dismissal, removal of the piece, suspension: no effect, one on the piece, one on the account |
| `roster` | Who is on the roster, and by which call? | three users, one invitation, a limit of one, two processes |
| `text` | Is an accepted suggestion in the text, and what it replaced in a snapshot? | one passage of two wordings, one suggestion, a limit of two snapshots, three taken, two processes |

What they show:

* `LedgerExplainsBalance`, `AcknowledgedOnce`: no interleaving, clamped debit,
  overflow or rollback loses or repeats a mutation. `ImplementsAccount`: seen
  through its committed rows the service is the atomic account.
* `CountExact`, `AnnouncedOnce`: archiving, restoring, removing and
  rescheduling keep the counter and the announcements exact.
  `PublicationIsPermanent`: the original publication time survives all of it.
  `NeverEarly`: a delayed job for a moved schedule does nothing.
  `NeverStuckScheduled`: with its job ignored, lost in a crash or forgotten, a
  piece is still published by the sweep. `ChecksNeverFire`: stale writes never
  make a row the CHECK constraints of `pieces` refuse. `EveryCallEnds`: nested
  connections cannot block the pool beyond its timeout.
* `AppliedAtMostOnce`, `AckedIsRecorded`, `AckedIsProcessed` hold in the
  environments they name. `ProcessedIsComplete` and `ImplementsEffects` hold in
  all: a processed record has its whole effect behind it, or an attempt found
  nothing to apply, which a renewal or failed payment that names its user never
  does (`WebhookTwoEvents` has such an event).
* `HistoryExplainsRow`, `OneTrial` hold call by call; `TemporaryAccessEnds`
  holds under overlaps and failures, as long as no save comes between the two
  statements of another.
* `LockExclusive`, `SingleFlight` are what `wrap` does for prompt callers,
  `EveryCallEnds` and `EventuallyFresh` for all.
* `EventuallyCurrent`: failing lookups, races and the other process's cache all
  wear off with the TTL.
* `DriftConfined`: like and bookmark counters are exact whatever interleaves,
  fails or deadlocks, and followers balance followed. `DriftNeedsRace`: clap
  and follow counters are exact until a call acts on a row that is no longer as
  it read it. `EveryCallEnds`: two users who follow each other may deadlock,
  and PostgreSQL lets one of them through.
* `ChangeEndsSessions`: a change or reset of the password ends every session
  of an earlier one, but those that entered the set after the revocation had
  read it or lost their place in it. `SessionsReachable`: a crash at any
  command leaves no session that a logout from everywhere cannot find; a place
  in the set is lost only between the two ends of a revocation or to an EXPIRE that
  comes too late. `LiveTokensAccounted`: a session has an extra live token only by two
  rotations of one token that overlapped. `ResetTokensBounded`: overlapping
  requests leave no more valid reset tokens than there are processes.
* `EnforcedBeforeRecorded`, `SuspensionLogsOut`: no report says "suspended"
  before the author was logged out for it, no retry skips the logout, and a
  suspended author with a session has it in one of the ways named: a suspension
  cut off or by `PATCH`, or a session issued since.
  `AppealedAwaitsReview`: an appealed report is not left without a review.
  `VerdictsHold`: a verdict changes only when two reviews overlap or a save
  crosses another, and an appeal is approved only after what its reviewer read
  has been undone.
* `RosterBounded`: overlapping calls pass the limit by one for each process but
  one. `AcceptedMeansJoined`: an invitation that says accepted brought its
  invitee in, once unless answers crossed. `LateRemovalHarmless`: a
  removal that found a former membership does not end the one its user was given
  since, because it deletes by the id it has found.
* `AcceptedWasApplied`: a suggestion that says accepted has been written to the
  text, once unless answers crossed. `PreEditKept`: the text it replaced is in
  a snapshot unless another call wrote in between or pinned snapshots fill the
  limit. `WithinCap`: overlapping captures prune enough.

Left out of the runs, but true in the same instances when added to their cfg:
`TypeOK` of every module, `LifetimeAccounts` and `EveryCallEnds` of
`CreditLedger`, `DoneIsProcessed`, `TierChangesWhenDue`, `NoRefill`,
`StatusMatchesResolution`. Except for `EveryCallEnds` and the types of
`PolicyCache` they are proved.

### Where a promise stops holding

Each of these properties says more than a run's, usually what a comment or a
name in the code suggests. TLC finds it violated in the configuration named,
with that property in place of the configuration's own where it is one of a
run's.

| Property | Configuration | What happens |
| --- | --- | --- |
| `ConcurrentCallsSerialize` | `CreditLedger` | two first calls of a user both miss the wallet; one is rejected by the unique index |
| `NeverAnnouncedTwice` | `PieceConcurrent` | `publish` tests the status it read before its transaction, so an author and the sweep publish a due piece together, against the comment at `pieces.service.ts:307-309` |
| `NeverEarly` | `PieceEarly` | rescheduled between the worker's due test and `publish` |
| `JobMatchesSchedule` | `PieceSerial` | the add of a known jobId is ignored, so the pending job keeps the earlier time |
| `PublicationIsPermanent` | `PieceConcurrent` | `schedule` saves over a publication that came between its read and its save |
| `CountExact` | `PieceCrash` | a crash between the counter's commit and the transaction's |
| `NeverStuckScheduled` | `PieceStarved` | as many incomplete due pieces as the sweep takes fill every batch |
| `EveryAckProcessed` | `WebhookInbox` | a crash between the record and its job; the redelivery is a duplicate |
| `EveryEffectOnce` | `WebhookInbox` | a crash between the effect and the mark; the job runs again |
| `EveryAckRecorded` | `WebhookInbox` | any failing insert is answered as a duplicate |
| `EveryDoneProcessed` | `WebhookInbox` | `processWebhookEvent` catches the error of a failing effect: the job completes, and the backoff its handler's comment promises never happens |
| `TierAlwaysDue` | `Subscription` | a stale save takes an upgrade back |
| `SweepExpiresLapsed` | `Subscription` | a payment between the sweep's query and its save is undone |
| `ExpiredIsTerminal` | `Subscription` | a late `payment.failed` opens a grace period after expiry |
| `NeverTwoTrials` | `Subscription` | two overlapping checkouts both find no trial |
| `AccessEnds` | `Subscription` | the columns of a renewal, which clears the end, and of a failed payment mix: a grace period without an end |
| `LapseIsNoticed` | `SubscriptionUnswept` | the scheduler registers no lifecycle sweep |
| `CancelTakesEffect` | `SubscriptionCancel` | nothing acts on `cancelAtPeriodEnd` |
| `OnlyIfSlow` | `CacheStampede`, `CacheSlow` | a waiter never retries the lock; a late release deletes another's lock |
| `NoStaleAllow` | `PolicyCache` | a decision read before a restriction is stored after `invalidateUser` |
| `NeverDrifts` | `EngagementCounters` | two claps of one reader compute their delta from the same count |
| `NeverDeadlocked` | `EngagementCounters` | mutual follows update the two profiles in opposite order |
| `OneLiveToken` | `SessionsForked` | two rotations of one token both read it as unused |
| `NoSessionMissed` | `Sessions` | a login that had verified the old password opens its family after the revocation; or a family loses its place in the set before the revocation reads it |
| `NoSessionOrphaned` | `Sessions` | a family added between `smembers` and the deletion of the set, or to a set that expires before the EXPIRE that follows |
| `ResetUsedOnce` | `SessionsResetTwice` | two resets read one token row before either marks it |
| `NoSuspendedSession` | `Moderation` | `PATCH /admin/users/:id` suspends without a logout; a login admitted before, a sign-in with Google or a password change issues a session after; a suspension is cut off before its logout |
| `RejectedStands` | `Moderation` | one reviewer undoes the effect, another rejects |
| `NoDuplicateReports` | `ModerationDuplicate` | two reports of one user pass the duplicate test together |
| `OtherVerdictsStand` | `ModerationLifted` | an approved appeal lifts the suspension another report imposed |
| `ApprovalCoversReport` | `ModerationOvertaken` | the report is reopened and resolved anew before the review finishes |
| `CapHolds` | `Roster` | two calls count before either inserts |
| `AnswerFinal`, `InvitationUsedOnce` | `Roster` | an answer is saved over another; an invitee who has left is brought in again by a second acceptance |
| `RemovedStaysOut` | `Roster` | a late `changeRole` inserts the removed row again |
| `OnlyThePassage` | `TextLostEdit` | an edit of another passage during the capture is overwritten |
| `PreEditKeptSerially` | `Text` | pinned snapshots fill the limit and the pre-edit snapshot is pruned at once |
| `VersionsDistinct` | `Text` | two captures read the same highest version |
| `NeverBelowCap` | `Text` | two captures prune for one excess snapshot each |

Larger instances of three runs' questions pass and are kept beside them, as they
take longer or add little: `EngagementReactions` (four reaction rows, claps of
one and two), `RosterInvitations` (two invitations), `WebhookTwoEvents`.

### Bounds

Each bound is a constant with a comment in its module. Clocks run from 1 to
`MaxTime` where absolute times are compared (pieces, subscriptions) and are
counted down where only a remaining time matters (cache, policy), so that
there time itself is unbounded. `CountCap` stops requests that could move the
published counter further once it is out of its range. Budgets
(`MaxCrashes`, `MaxOutages`, `MaxThrows`, `MaxChanges`, `MaxFailures`,
`MaxDisturbances`, `MaxPasswords`) allow one or two of each disturbance, in any
order and at any point. `MaxRequests` bounds the requests of `sessions` and
`moderation`, enough for a login, two rotations and a revocation beside a login,
and for a report, its decision, an appeal, two reviews and two calls on the
account. `PoolSizes` and `Environments` are sets: a run checks
every pool size and every environment in them. `MaxRows` bounds how often a
user's membership is inserted (a removal and a return need two), `MaxSnapshots`
the snapshots taken (one more than `Cap`, so that one is pruned), `Adds` and
`MaxClaps` let two claps of two meet the limit. Three times let a
schedule be moved to a later future time; two attempts let a retry happen and
be exhausted; two worker slots let a redelivered job meet the one it repeats.
Two processes are enough for every race listed as a hazard: each is between two
calls. `RosterBounded` and `ResetTokensBounded`, which speak of the number of
processes, are proved for any.

`sessions`, `moderation`, `roster` and `text` name ids as calls use them up and
stop when none are left, so these runs do not check deadlock. They use symmetry
of ids and processes; no run that checks a liveness property does.

### Subscription sweep

`SweepScheduled` says whether `runLifecycleSweep` runs. Today the scheduler
registers no job for it (`infrastructure/scheduler/scheduler.service.ts`), but
its handler exists and its job can be queued, so the safety runs let it run:
they have every behaviour of the system without it and more.

## 4. Fairness

* Steps of a call that has begun are weakly fair: promises settle.
  Where steps compete for a pool or a row lock (`PieceLifecycle`,
  `EngagementCounters`) they are strongly fair, PostgreSQL and the pool serving
  their queues in order.
* BullMQ gives waiting jobs and repeatable jobs their turn: strong fairness of
  `StartJob`, `StartSweep` and `Take`. The provider redelivers what was not
  acknowledged: strong fairness of `Redeliver`.
* Clocks run, and Redis comes back after an outage: weak fairness.
* Nothing makes a user call, a process crash or a step fail, except that in
  `PolicyCache` requests keep coming, which only makes its property harder.
* In `ReadThroughCache` the liveness properties are stated for unrestricted
  time. The prompt regime restricts when a tick may happen and would let
  callers that keep calling hold time still; its behaviours are among the
  unrestricted ones.

## 5. Proofs

`CreditLedgerProofs` proves, for any sets of users and calls, any amounts and
any width of the integer columns (assumption `CreditConstants`):

* `TypeCorrect`: `Spec => []TypeOK`.
* `Inductive`: `Spec => []IInv`.
* `LedgerAlwaysExplains`, `LifetimeAlwaysAccounts`, `AlwaysAcknowledgedOnce`:
  the safety properties.
* `LedgerImplementsAccount`: `Spec` implements `CreditAccount`.

The balance properties are not inductive: nothing in them says that what a
transaction is about to commit was computed from the row it replaces. `IInv`
adds that. `Locking`: exactly the transactions between their first statement
and their end hold a row, and it is their user's. `Absent`: a user without a
wallet has no ledger. `Current`: the entity a transaction computes from is the
committed row. `Prepared`: what it is about to commit follows from the
committed row. `Locking` keeps `Current` and `Prepared`: while a call is between
its read and its commit no other can commit to that row. The lemmas
`PostedType` and `PostedAccounts` say what one posting does to a row;
`LedgerStep` and `OtherStep` split the steps into the commit, which appends one
row to one ledger, and the rest, which leave the committed tables alone.
`AcknowledgedOnce` needs in addition that a posted row's call has ended its
transaction (`RowsSettled`). The refinement maps a commit to the account's
posting and every other step to a stutter.

`BillingProofs` proves of `WebhookInbox`, for any sets of events, requests and
workers and any number of attempts (assumption `InboxConstants`):

* `InboxTypeCorrect`: `Spec => []TypeOK`, which bounds the effects of an event
  by its attempts.
* `ProcessedAlwaysComplete`, `InboxImplementsEffects`: whatever
  crashes and fails, and whatever the effect finds to apply.
* `AckedAlwaysRecorded`, `AlwaysAppliedOnce`, `DoneAlwaysProcessed`: each for
  the environments that meet a condition on failures. `AckedIsRecorded` needs inserts that fail only on the
  unique index; `AppliedAtMostOnce` needs workers that do not die and marks
  that are saved; `DoneIsProcessed` needs, besides, effects that do not throw.
  Requests may crash and Redis may be away in all three. `EveryAckRecorded`,
  `EveryEffectOnce` and `EveryDoneProcessed` drop the conditions, and TLC finds
  each violated.

The properties say nothing of a job between its steps, so `IInv` follows it.
`Owned`: a busy worker has an active job to itself. `Enqueueing`: only the
request whose insert won enqueues, and there is no job before. `Untouched`: no
job without a record, no effect without a job. With these, no other process
marks the record a worker has read (`StillPending`), so `Progress`, what the
worker has done of the effect at each step, still holds when it saves
"processed". `Attempted` counts transitions and invoices against attempts.
`LettingGo` serves both ways of losing a job, a thrown mark and a crash. The
conditional theorems add to `IInv` that nothing is tried again
(`NeverRetried`) and that nothing is marked failed (`StraightThrough`). In the
refinement, `Insert` records, the first `ChangeSubscription` applies, the first
`ApplyNothing` ignores, `Mark` processes, and every other step stutters.

`PieceLifecycleProofs` proves `TypeCorrect` and `ChecksHold` (`ChecksNeverFire`)
for any pieces, processes, pool sizes and times (`LifecycleConstants`). A write
takes its columns from an entity that may be stale by then, so `RowsSound` needs
to know what the stale entity can be. `Placed`: each statement belongs to the
methods that execute it. `OncePublished`: a piece seen published keeps a
publication time or is purged, so archiving writes over a row that has one.
`Locked`: a row a transaction holds is there, and what is about to replace it
satisfies the constraints.

It also proves what the run `piece_serial` checks, under the hypotheses of that
run: one process (`Procs = {w}`) that serves requests, jobs and sweeps in turn,
any number of pieces. `PublicationStays` (`PublicationIsPermanent`) and
`WorkerNeverEarly` (`NeverEarly`) allow that process to crash;
`CountStaysExact` and `AlwaysAnnouncedOnce` do not, and need finitely many
pieces. With crashes or a second process the table in section 3 shows how they
fail, so the hypotheses are what the code needs and not what the proof wants.
The invariant `Serial` says of the one process that what it has loaded is still
the row (`LoadedAt`), that the held row and its replacement differ in
publication as `delta` says (`HeldAt`), and that a job or sweep publishes
only what is due (`DutyAt`); `Exact` adds the count and the events, with what
the call in hand still owes them.

Of `SubscriptionLifecycle` it proves, for any tiers and durations
(`SubscriptionConstants`), `SubscriptionTypeCorrect`,
`TemporaryAccessAlwaysEnds` under any
overlap and failure short of `mixed`, and `HistoryAlwaysExplains`, `AtMostOneTrial`,
`TierChangesAlwaysDue` while calls neither overlap nor fail. `SavesEnd` says of
every entity about to be saved what `AccessEnds` says of the row: an update
worked out against the row as it is makes that row the entity.
`OneAtATime` turns "undisturbed" into mutual exclusion of calls; from it follow
`HistoryFollows` (a saved row is what the call is about to record),
`TrialFirst` and `TierDue`.

`ReadThroughCacheProofs` proves `TypeCorrect`, `LockAlwaysExclusive`,
`AlwaysSingleFlight`, `NeverRefilled` for any finite set of callers and any TTLs
(`CacheAssumption`). The lock is a key that expires, so exclusion is an argument
about time: `Held` says that the holder's clock and the key's remaining time add
up to the TTL, `Flight` that whoever polls has waited no longer than the holder
has held the lock, hence that no waiter gives up while the holder computes.

`TokenSessionsProofs` proves `TypeCorrect`, `SessionsAlwaysReachable`,
`ChangeAlwaysEndsSessions`, `LiveTokensAlwaysAccounted` and
`ResetTokensAlwaysBounded` for any families, tokens and processes
(`SessionConstants`). `Busy` and `Known` say that what a call has read was there
to be read, `DeletedFirst` that a revocation deletes a family before it takes
its place in the set. A family without a token yet (`Blank`) may be outside the
set; `Reachable` says that no other is, but those that are `orphaned`. `Lasting`
says that a set cannot expire under a living family, but for one whose EXPIRE is
still to come. `Listing` and `Ended` follow a revocation: what an earlier
password opened was in the set when the revocation read it, or is `late` or
`orphaned`. The
two bounds rest on counting: an extra live token needs a rotation counted in
`forks`, and a valid reset token a process that has passed its deletion.

`ModerationProofs` proves `TypeCorrect`, `AppealedAlwaysAwaitsReview`,
`StatusAlwaysMatches`, `AlwaysEnforcedFirst`, `SuspensionAlwaysLogsOut` and
`VerdictsAlwaysHold` for any reports, reporters and processes
(`ModerationConstants`). `Calling` says which methods reach which step,
`Effective` which effects a call has had by then, `Appealing` that the appeal it
is about has not been decided, `Apart` that two calls on one appeal have raced
or are not both past their test, `AppealMarked` that a pending appeal's report
says so or is about to. `OthersLogOut` is what a step of one call must respect
for the logout that another still owes.

`EngagementCountersProofs` proves `CountersTypeCorrect`, `HolderOwes`,
`DriftStaysConfined` and `DriftAlwaysNeedsRace` for any finite sets of users and
reactions, any follows, processes and limit of claps (`EngagementConstants`).
A counter is exact only between transactions, so the invariant is about whoever
is in one. `Held`: a call past its write of a row holds that row. `Owed`: what
it is about to add to the counter is the difference its write makes to the row.
After something has `drifted`, less is claimed: a follow method that affected no
row goes on to its counter without a lock (`Held` excepts it), and a clap or a
follow whose row is no longer what the call read adds what it computed before
(`Owed` then speaks of likes and bookmarks only). From them each commit moves row and
counter by the same amount (`CountInv`), at most one transaction being past the
write of any row. The counters are compared with sums, which the community
modules define as folds, by recursion over the subsets of a set; no theorem of
the library says that such a fold exists. The first part proves it without
induction over data: a smallest subset at which two sums differ, or at which
none exists, would be refuted by the subset one element smaller. `SumChange`
says what the change of one element does to a sum, `SumIsSumOf` that the sums
are those of the model.

`StoryProofs` proves of `StoryRoster` `TypeCorrect`, `RosterAlwaysBounded`,
`AcceptedAlwaysJoined` and `LateRemovalsHarmless` for any users, invitations
and finite set of processes (`RosterConstants`). The bound counts, beside the
members, the users whose calls are past their count (`Claimed`): a call that
finds room is one of at most as many as there are processes. `Addressed` and
`Numbered` say whom a call is about and that it has loaded a row that existed.
`Superseded` says that a call that is `outdated` has found another row than its
user has now.

Of `StoryText` it proves `TextTypeCorrect`, `AcceptedAlwaysApplied`
(`AcceptedWasApplied`), `PreEditAlwaysKept` (`PreEditKept`) and `AlwaysWithinCap`
(`WithinCap`) for any passages, suggestions, processes and limit
(`TextConstants`). That no more snapshots are left than the limit allows is not
inductive: between an insertion and the deletion there are more.
`ExcessOwed` says whose they are: while there are too many and no call was cut
off, some capture has not come to its deletion and has selected enough,
overlapping captures included. `Undisturbed` follows one acceptance through its
capture: as long as no other call wrote, what it inserted has the highest
version, hence is not among the oldest it prunes. That a finite set of
snapshots has a highest version is `HasGreatest`, again by well-foundedness.

Only model-checked:

* liveness everywhere (`EveryCallEnds`, `NeverStuckScheduled`,
  `AckedIsProcessed`, `EventuallyFresh`, `EventuallyCurrent`), which needs
  fairness and `ENABLED`, of which the proof system has no rules;
* `PolicyCache`, whose one property is a liveness property.

No safety property of a run is left to TLC alone. Beyond the instances of the
runs the theorems rest on the named assumptions on the constants, and those of
`piece_serial` on the one process of that run.

## 6. Not modelled

Content, slugs, tags, formatting, paging and wording; authentication and role
rules, except the one decision in `PolicyCache`; the outside providers, which
appear as the events and failures they can cause; listing and reporting
queries. `duplicate` and `preview` of a piece neither change it nor announce
anything. `SubscriptionService.activate` has no caller. A job
that BullMQ takes for stalled while its worker is still at it, which would give
the job two workers, is not modelled: a job stalls only by a crash. Components marked
`not_modelled` in `PROJECT.json` are either named in section 7 or have little
state of their own whose steps interleave (search, feed, analytics, AI
providers, settings, audit): most of the repository by lines is controllers,
queries, clients and configuration of this kind.

Of the modelled components these parts are left out. Engagement: comments,
responses, shares and collections, whose counters move as the modelled ones do.
Moderation: notes, warnings and priorities beyond the save that carries them,
and actions on comments and on reports without a stored piece. Collaboration:
editorial comments, the activity log and presence, and roles, which no guard of
the modelled methods reads. Publishing: review sessions and publication events.
Sessions: access tokens, email verification and external identities: a sign-in
with Google is in `TokenSessions` a login, in `Moderation` one without a look at the
status.

## 7. Plan

Done, in this order: money, publication, billing, access and caches; then the
interleavings of collaboration, engagement, moderation and sessions; then the
safety proofs, from the modules whose invariants stood alone to those that
needed most strengthening, the counters with their sums last. Each module was written for TLC first and proved once
its invariants had been checked as such.

Not begun:

1. `CouponRedemption` and `Purchases` over `CreditLedger`: redemption limits
   under the coupon row lock, a purchase fulfilled once, quotas around a
   generation.
2. `EventBridge`: coalesced invalidation jobs over `ReadThroughCache`.
3. `PublishingReview`: review sessions and the gate of `publish`, which
   scheduled publication does not pass.
4. Composition of `Moderation` with `PieceLifecycle` and `TokenSessions`, of
   which it takes a whole call as one step.

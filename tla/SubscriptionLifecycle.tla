------------------------- MODULE SubscriptionLifecycle -------------------------
(***************************************************************************)
(* One user's subscription row, as subscription.service.ts moves it.  A    *)
(* call reads the row, checks it, changes the entity in memory and saves   *)
(* it.  To save it TypeORM reads the row again, without a lock, and then   *)
(* updates the columns in which the entity differs from what it has just   *)
(* read; an entity without an id is inserted instead.  Plan credits        *)
(* (CreditLedger) and the history row follow as statements of their own.   *)
(* User requests, billing webhooks and the lifecycle sweep interleave at   *)
(* each of these steps.                                                    *)
(*                                                                         *)
(* Where WebhookInbox has a definition of the same purpose the name here   *)
(* differs from it, so that BillingProofs can extend both modules.         *)
(***************************************************************************)
EXTENDS Integers

CONSTANTS Users,           \* processes that serve the user's requests
          Background,      \* processes that apply webhooks and run the sweep
          Fallible,        \* processes that may fail between two statements
          Tiers,           \* ranks of the paid plans
          MaxTime,         \* the clock runs from 1 to MaxTime
          TrialDays,       \* length of a trial
          GraceDays,       \* length of the grace period after a failed payment
          MaxDisturbances, \* bound: calls that overlap another, or fail
          SweepScheduled   \* is the lifecycle sweep registered with the scheduler?

ASSUME SubscriptionConstants ==
  /\ Tiers \subseteq Nat \ {0}
  /\ {MaxTime, TrialDays, GraceDays} \subseteq Nat \ {0}
  /\ MaxDisturbances \in Nat
  /\ Fallible \subseteq Users \cup Background
  /\ SweepScheduled \in BOOLEAN

VARIABLES row,      \* the committed subscriptions row of the user
          history,  \* status and tier in the newest subscription_events row
          trials,   \* number of trial_started rows in the history
          now,      \* the clock
          at,       \* at[c]: what process c does next
          call,     \* call[c]: the method c executes and its arguments
          entity,   \* entity[c]: the subscription entity in c's memory
          base,     \* base[c]: the row as c's save has read it again
          mixed,    \* history: an update was worked out against a row that
                    \* another save had changed by then
          disturbances  \* history: calls that began while another was in
                        \* flight, or failed between two statements

subscriptionVars == <<row, history, trials, now, at, call, entity, base, mixed, disturbances>>

Callers == Users \cup Background
Null == 0
NullTime == 0..(MaxTime + TrialDays + GraceDays)
Statuses == {"none", "pending_activation", "trialing", "active", "grace_period",
             "paused", "canceled", "expired"}
AccessGranting == {"trialing", "active", "grace_period"}
Methods == {"open", "changePlan", "cancel", "reactivate", "pause", "resume",
            "renew", "enterGracePeriod", "expire", "sweep"}

Subscription ==
  [status : Statuses, tier : Tiers \cup {Null}, scheduledTier : Tiers \cup {Null},
   cancelAtPeriodEnd : BOOLEAN, trialEnd : NullTime, gracePeriodEnd : NullTime]
Call == [method : Methods \cup {"none"}, tier : Tiers \cup {Null}, flag : BOOLEAN,
         coupon : BOOLEAN, inserts : BOOLEAN]

SubscriptionTypeOK ==
  /\ row \in Subscription
  /\ history \in [status : Statuses, tier : Tiers \cup {Null}]
  /\ trials \in Nat
  /\ now \in 1..MaxTime
  /\ at \in [Callers -> {"idle", "load", "save", "update", "recordTrial", "record"}]
  /\ call \in [Callers -> Call]
  /\ entity \in [Callers -> Subscription]
  /\ base \in [Callers -> Subscription]
  /\ mixed \in BOOLEAN
  /\ disturbances \in 0..MaxDisturbances

NoRow == [status |-> "none", tier |-> Null, scheduledTier |-> Null,
          cancelAtPeriodEnd |-> FALSE, trialEnd |-> Null, gracePeriodEnd |-> Null]
NoCall == [method |-> "none", tier |-> Null, flag |-> FALSE, coupon |-> FALSE,
           inserts |-> FALSE]

SubscriptionInit ==
  /\ row = NoRow
  /\ history = [status |-> "none", tier |-> Null]
  /\ trials = 0
  /\ now = 1
  /\ at = [c \in Callers |-> "idle"]
  /\ call = [c \in Callers |-> NoCall]
  /\ entity = [c \in Callers |-> NoRow]
  /\ base = [c \in Callers |-> NoRow]
  /\ mixed = FALSE
  /\ disturbances = 0
-----------------------------------------------------------------------------
Quiet == \A c \in Callers : at[c] = "idle"

Disturb ==
  /\ disturbances < MaxDisturbances
  /\ disturbances' = disturbances + 1

\* A call begins, alone or while another one is in flight.
Overlap == IF Quiet THEN UNCHANGED disturbances ELSE Disturb

Begin(c, m) ==
  /\ at[c] = "idle" /\ Overlap
  /\ at' = [at EXCEPT ![c] = "load"]
  /\ call' = [call EXCEPT ![c] = m]
  /\ UNCHANGED <<row, history, trials, now, entity, base, mixed>>

End(c) ==
  /\ at' = [at EXCEPT ![c] = "idle"]
  /\ call' = [call EXCEPT ![c] = NoCall]
  /\ entity' = [entity EXCEPT ![c] = NoRow]
  /\ base' = [base EXCEPT ![c] = NoRow]

\* A checkout (flag: already paid), a plan change (flag: at period end; the
\* same tier is a switch of interval), a cancellation (flag: immediate), and
\* the requests without arguments.
Request(c) ==
  \E m \in {"open", "changePlan", "cancel", "reactivate", "pause", "resume"} :
    \E tier \in (IF m \in {"open", "changePlan"} THEN Tiers ELSE {Null}),
       flag \in (IF m \in {"open", "changePlan", "cancel"} THEN BOOLEAN ELSE {FALSE}),
       coupon \in (IF m = "open" THEN BOOLEAN ELSE {FALSE}) :
      Begin(c, [method |-> m, tier |-> tier, flag |-> flag, coupon |-> coupon,
                inserts |-> FALSE])

\* subscription.renewed, payment.failed and subscription.canceled.
Webhook(c) ==
  \E m \in {"renew", "enterGracePeriod", "expire"} : Begin(c, [NoCall EXCEPT !.method = m])

\* What the two queries of the sweep select for expiry.
Lapsed(s) ==
  \/ s.status = "grace_period" /\ s.gracePeriodEnd # Null /\ s.gracePeriodEnd < now
  \/ s.status = "trialing" /\ s.trialEnd # Null /\ s.trialEnd < now

\* The sweep loads the entity; a sweep that finds nothing does nothing.
Sweep(c) ==
  /\ SweepScheduled
  /\ at[c] = "idle" /\ Lapsed(row) /\ Overlap
  /\ at' = [at EXCEPT ![c] = "save"]
  /\ call' = [call EXCEPT ![c] = [NoCall EXCEPT !.method = "sweep"]]
  /\ entity' = [entity EXCEPT ![c] = [row EXCEPT !.status = "expired"]]
  /\ UNCHANGED <<row, history, trials, now, base, mixed>>
-----------------------------------------------------------------------------
\* Mutant of TrialAllowed: eligibility is not looked up in the history.
TrialOnRequest(m) == ~m.coupon
TrialAllowed(m) == ~m.coupon /\ trials = 0

Immediate(s, m) == m.tier > s.tier /\ ~m.flag

\* The errors a method throws on the entity s it read.
Refused(s, m) ==
  \/ m.method # "open" /\ s.status = "none"
  \/ m.method = "open" /\ s.status \in AccessGranting
  \/ m.method = "reactivate" /\ ~s.cancelAtPeriodEnd /\ s.status # "canceled"
  \/ m.method = "pause" /\ s.status # "active"
  \/ m.method = "resume" /\ s.status # "paused"

Opened(s, m) ==
  LET trial == TrialAllowed(m) IN
  [status |-> IF trial THEN "trialing" ELSE IF m.flag THEN "active" ELSE "pending_activation",
   tier |-> m.tier, scheduledTier |-> Null, cancelAtPeriodEnd |-> FALSE,
   trialEnd |-> IF trial THEN now + TrialDays ELSE Null, gracePeriodEnd |-> Null]

Renewed(s) ==
  [s EXCEPT !.status = "active", !.gracePeriodEnd = Null, !.scheduledTier = Null,
            !.tier = IF s.scheduledTier # Null THEN s.scheduledTier ELSE @]

\* Mutant of InGrace: the grace period gets no end.
InGraceForever(s) == [s EXCEPT !.status = "grace_period"]
InGrace(s) == [s EXCEPT !.status = "grace_period", !.gracePeriodEnd = now + GraceDays]

\* The entity after the method's assignments.
Changed(s, m) ==
  CASE m.method = "open" -> Opened(s, m)
    [] m.method = "changePlan" ->
         IF Immediate(s, m) THEN [s EXCEPT !.tier = m.tier, !.scheduledTier = Null]
                            ELSE [s EXCEPT !.scheduledTier = m.tier]
    [] m.method = "cancel" ->
         IF m.flag THEN [s EXCEPT !.status = "canceled", !.cancelAtPeriodEnd = FALSE]
                   ELSE [s EXCEPT !.cancelAtPeriodEnd = TRUE]
    [] m.method = "reactivate" ->
         [s EXCEPT !.cancelAtPeriodEnd = FALSE,
                   !.status = IF @ = "canceled" THEN "active" ELSE @]
    [] m.method = "pause" -> [s EXCEPT !.status = "paused"]
    [] m.method = "resume" -> [s EXCEPT !.status = "active"]
    [] m.method = "renew" -> Renewed(s)
    [] m.method = "enterGracePeriod" -> InGrace(s)
    [] m.method = "expire" -> [s EXCEPT !.status = "expired"]

\* Read the row, check it, change the entity.  The arguments have done their
\* duty then.
Load(c) ==
  /\ at[c] = "load" /\ ~Refused(row, call[c])
  /\ entity' = [entity EXCEPT ![c] = Changed(row, call[c])]
  /\ call' = [call EXCEPT ![c] = [NoCall EXCEPT !.method = call[c].method,
                                               !.inserts = (row.status = "none")]]
  /\ at' = [at EXCEPT ![c] = "save"]
  /\ UNCHANGED <<row, history, trials, now, base, mixed, disturbances>>

LoadRefused(c) ==
  /\ at[c] = "load" /\ Refused(row, call[c])
  /\ End(c)
  /\ UNCHANGED <<row, history, trials, now, mixed, disturbances>>
-----------------------------------------------------------------------------
\* What is left of the entity once it is saved.
Saved(c) ==
  /\ entity' = [entity EXCEPT ![c] = [NoRow EXCEPT !.status = entity[c].status,
                                                    !.tier = entity[c].tier]]
  /\ base' = [base EXCEPT ![c] = NoRow]
  /\ at' = [at EXCEPT ![c] = IF call[c].method = "open" /\ entity[c].status = "trialing"
                               THEN "recordTrial" ELSE "record"]

\* A first row is inserted, which fails when the user has one by now
\* (uq_subscription_user).
InsertRow(c) ==
  /\ at[c] = "save" /\ call[c].inserts /\ row.status = "none"
  /\ row' = entity[c]
  /\ Saved(c)
  /\ UNCHANGED <<history, trials, now, call, mixed, disturbances>>

\* The first statement of save() reads the row again.
Reread(c) ==
  /\ at[c] = "save" /\ ~call[c].inserts
  /\ base' = [base EXCEPT ![c] = row]
  /\ at' = [at EXCEPT ![c] = "update"]
  /\ UNCHANGED <<row, history, trials, now, call, entity, mixed, disturbances>>

\* Row r after an update of the columns in which e differs from b.
Patched(r, b, e) == [k \in DOMAIN r |-> IF e[k] # b[k] THEN e[k] ELSE r[k]]

\* The second one updates those columns; when there is none, there is no second.
Update(c) ==
  /\ at[c] = "update"
  /\ row' = Patched(row, base[c], entity[c])
  /\ mixed' = (mixed \/ row # base[c])
  /\ Saved(c)
  /\ UNCHANGED <<history, trials, now, call, disturbances>>

InsertRejected(c) ==
  /\ at[c] = "save" /\ call[c].inserts /\ row.status # "none"
  /\ End(c)
  /\ UNCHANGED <<row, history, trials, now, mixed, disturbances>>

\* The trial_started history row.
RecordTrial(c) ==
  /\ at[c] = "recordTrial"
  /\ trials' = trials + 1
  /\ at' = [at EXCEPT ![c] = "record"]
  /\ UNCHANGED <<row, history, now, call, entity, base, mixed, disturbances>>

\* Mutant of Recorded: the history keeps the tier it had.
StatusRecorded(s) == [history EXCEPT !.status = s.status]
\* The history row of entity s.
Recorded(s) == [status |-> s.status, tier |-> s.tier]

\* Plan credits are granted, then the history row is written, the cached
\* entitlements are dropped and SubscriptionChanged is emitted.
Record(c) ==
  /\ at[c] = "record"
  /\ history' = Recorded(entity[c])
  /\ End(c)
  /\ UNCHANGED <<row, trials, now, mixed, disturbances>>

\* The statement c is at throws, or its process dies.
Fail(c) ==
  /\ at[c] # "idle"
  /\ End(c)
  /\ Disturb
  /\ UNCHANGED <<row, history, trials, now, mixed>>

Tick ==
  /\ now < MaxTime
  /\ now' = now + 1
  /\ UNCHANGED <<row, history, trials, at, call, entity, base, mixed, disturbances>>

Step(c) ==
  \/ Load(c) \/ LoadRefused(c) \/ InsertRow(c) \/ InsertRejected(c) \/ Reread(c)
  \/ Update(c) \/ RecordTrial(c) \/ Record(c)

SubscriptionNext ==
  \/ \E c \in Users : Request(c)
  \/ \E c \in Background : Webhook(c) \/ Sweep(c)
  \/ \E c \in Callers : Step(c)
  \/ \E c \in Fallible : Fail(c)
  \/ Tick

SubscriptionSpec == SubscriptionInit /\ [][SubscriptionNext]_subscriptionVars

\* Time passes, a call in progress goes on, and a scheduled sweep gets its
\* turn among the jobs of the worker.
SubscriptionFairness ==
  /\ WF_subscriptionVars(Tick)
  /\ \A c \in Callers : WF_subscriptionVars(Step(c))
  /\ \A c \in Background : SF_subscriptionVars(Sweep(c))
SubscriptionLiveSpec == SubscriptionSpec /\ SubscriptionFairness
-----------------------------------------------------------------------------
Undisturbed == disturbances = 0

\* While no call is in flight, the newest history row tells the state of the
\* subscription: no transition escapes the history, unless calls have
\* overlapped or failed half-way.
HistoryExplainsRow ==
  Quiet /\ Undisturbed => history = [status |-> row.status, tier |-> row.tier]

\* What two trials of one user would look like.
NeverTwoTrials == trials <= 1

\* A user starts at most one trial, across cancellations and new checkouts, as
\* long as no two of them overlap.
OneTrial == Undisturbed => NeverTwoTrials

Saving(c) == at[c] \in {"save", "update"} /\ at'[c] \in {"recordTrial", "record"}
DueTierChange ==
  row'.tier # row.tier => \E c \in Callers : Saving(c) /\
    \/ call[c].method = "open"
    \/ call[c].method = "changePlan" /\ row'.tier > row.tier
    \/ call[c].method = "renew" /\ row'.tier = row.scheduledTier

\* The tier changes only by a checkout, by an upgrade, or by a renewal to the
\* tier that was scheduled; a downgrade keeps current access.  (Calls do not
\* overlap and do not fail.)
TierChangesWhenDue == [][Undisturbed => DueTierChange]_subscriptionVars

\* The same, whatever overlaps.
TierAlwaysDue == [][DueTierChange]_subscriptionVars

\* What every row should have: a trial and a grace period have an end.
AccessEnds ==
  /\ row.status = "trialing" => row.trialEnd # Null
  /\ row.status = "grace_period" => row.gracePeriodEnd # Null

\* However calls overlap or fail, and however old the row a call has changed,
\* a trial and a grace period have an end, unless a save changed the row
\* between the two statements of another save.
TemporaryAccessEnds == ~mixed => AccessEnds

\* The sweep expires only a subscription that is still lapsed when it saves.
SweepExpiresLapsed ==
  [][\A c \in Callers : Saving(c) /\ call[c].method = "sweep" /\ row' # row => Lapsed(row)]_subscriptionVars

\* An expired subscription comes back only by a checkout or a payment.
ExpiredIsTerminal ==
  [][row.status = "expired" /\ row'.status # "expired" =>
       \E c \in Callers : Saving(c) /\ call[c].method \in {"open", "renew"}]_subscriptionVars

\* A trial or grace period that is over does not last forever.
LapseIsNoticed ==
  /\ ~ <>[](row.status = "trialing" /\ row.trialEnd < now)
  /\ ~ <>[](row.status = "grace_period" /\ row.gracePeriodEnd < now)

\* A subscription canceled at its period's end does not stay active forever.
CancelTakesEffect == ~ <>[](row.status = "active" /\ row.cancelAtPeriodEnd)
=============================================================================

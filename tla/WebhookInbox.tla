----------------------------- MODULE WebhookInbox -----------------------------
(***************************************************************************)
(* Payment-provider webhooks in billing.service.ts.  ingestWebhook records *)
(* an event, then enqueues a job; processWebhookEvent applies the event's  *)
(* effect, then marks the record.  The provider delivers an event until it *)
(* is acknowledged and may deliver it again.  Requests and workers         *)
(* interleave at every await; the environment says which steps may fail    *)
(* and which processes may crash.                                          *)
(***************************************************************************)
EXTENDS Integers

CONSTANTS Events,     \* provider events, by their provider event id
          Named,      \* events whose payload names the user; of the others the
                      \* user is looked up, and may not be found
          Requests,   \* processes that serve webhook deliveries
          Workers,    \* slots of the monetization worker
          Environments, \* the faults considered, one environment at a time
          Attempts,   \* how often a job is run before BullMQ gives up
          None

Kinds == {"renewed", "failed", "canceled", "other"}

ASSUME InboxConstants ==
  /\ Attempts \in Nat \ {0}
  /\ Environments \subseteq [fallible : SUBSET (Requests \cup Workers),
                              faulty : SUBSET {"insert", "enqueue", "effect", "mark"}]
  /\ Requests \cap Workers = {}
  /\ None \notin Events
  /\ Named \subseteq Events

VARIABLES env,       \* the processes that may crash, the steps that may fail
          kind,      \* kind[e]: the type of event e
          record,    \* record[e]: status of its payment_webhook_events row
          acked,     \* events the provider has been answered with success
          job,       \* job[e]: state of its monetization-webhook job
          tries,     \* tries[e]: attempts of that job so far
          changed,   \* changed[e]: subscription transitions made for e
          invoiced,  \* invoiced[e]: invoices written for e
          paid,      \* paid[e]: payment rows written for e
          ignored,   \* history: events applyWebhookEffect returned from without
                     \* doing anything
          pc,        \* pc[x]: what process x does next
          event      \* event[x]: the event x is handling

vars == <<env, kind, record, acked, job, tries, changed, invoiced, paid, ignored, pc,
          event>>
given == <<env, kind>>
effects == <<changed, invoiced, paid, ignored>>
Procs == Requests \cup Workers

TypeOK ==
  /\ env \in Environments
  /\ kind \in [Events -> Kinds]
  /\ record \in [Events -> {"none", "received", "processed", "failed"}]
  /\ acked \in SUBSET Events
  /\ job \in [Events -> {"none", "waiting", "active", "done", "dead"}]
  /\ tries \in [Events -> 0..Attempts]
  /\ changed \in [Events -> 0..Attempts]
  /\ invoiced \in [Events -> 0..Attempts]
  /\ paid \in [Events -> {0, 1}]
  /\ ignored \subseteq Events
  /\ pc \in [Procs -> {"idle", "find", "insert", "enqueue", "read", "change",
                       "invoice", "pay", "markProcessed", "markFailed",
                       "complete"}]
  /\ event \in [Procs -> Events \cup {None}]

Init ==
  /\ env \in Environments
  /\ kind \in [Events -> Kinds]
  /\ record = [e \in Events |-> "none"]
  /\ acked = {}
  /\ job = [e \in Events |-> "none"]
  /\ tries = [e \in Events |-> 0]
  /\ changed = [e \in Events |-> 0]
  /\ invoiced = [e \in Events |-> 0]
  /\ paid = [e \in Events |-> 0]
  /\ ignored = {}
  /\ pc = [x \in Procs |-> "idle"]
  /\ event = [x \in Procs |-> None]
-----------------------------------------------------------------------------
Goto(x, p) == pc' = [pc EXCEPT ![x] = p]
Idle(x) == Goto(x, "idle") /\ event' = [event EXCEPT ![x] = None]

\* The provider delivers an event: for the first time, again for want of an
\* answer, or once more after one.
Deliver(r, e) ==
  /\ pc[r] = "idle"
  /\ Goto(r, "find")
  /\ event' = [event EXCEPT ![r] = e]
  /\ UNCHANGED <<given, record, acked, job, tries, effects>>

\* Every answer below is a success; the provider stops redelivering.
Answer(r) == acked' = acked \cup {event[r]} /\ Idle(r)

FindDuplicate(r) ==
  /\ pc[r] = "find" /\ record[event[r]] # "none"
  /\ Answer(r)
  /\ UNCHANGED <<given, record, job, tries, effects>>

FindNothing(r) ==
  /\ pc[r] = "find" /\ record[event[r]] = "none"
  /\ Goto(r, "insert")
  /\ UNCHANGED <<given, record, acked, job, tries, effects, event>>

\* Mutant of InsertAllowed: there is no unique (provider, event id) index.
NoUniqueIndex(e) == TRUE
\* Another mutant: a delivery gives up while another one is inserting.
InsertIfAlone(e) ==
  /\ record[e] = "none"
  /\ \A q, r \in Requests : pc[q] = "insert" /\ pc[r] = "insert" => q = r
InsertAllowed(e) == record[e] = "none"

Insert(r) ==
  /\ pc[r] = "insert" /\ InsertAllowed(event[r])
  /\ record' = [record EXCEPT ![event[r]] = "received"]
  /\ Goto(r, "enqueue")
  /\ UNCHANGED <<given, acked, job, tries, effects, event>>

\* Whatever the insert throws is taken for a lost unique-index race.
InsertThrows(r) ==
  /\ pc[r] = "insert"
  /\ ~InsertAllowed(event[r]) \/ "insert" \in env.faulty
  /\ Answer(r)
  /\ UNCHANGED <<given, record, job, tries, effects>>

\* A new BullMQ job of its own for the record.
Enqueue(r) ==
  /\ pc[r] = "enqueue"
  /\ job' = [job EXCEPT ![event[r]] = "waiting"]
  /\ tries' = [tries EXCEPT ![event[r]] = 0]
  /\ Answer(r)
  /\ UNCHANGED <<given, record, effects>>

\* Redis is away: the request fails, the provider will deliver again.
EnqueueThrows(r) ==
  /\ pc[r] = "enqueue" /\ "enqueue" \in env.faulty
  /\ Idle(r)
  /\ UNCHANGED <<given, record, acked, job, tries, effects>>
-----------------------------------------------------------------------------
\* A worker slot takes a waiting job.
Take(w, e) ==
  /\ pc[w] = "idle" /\ job[e] = "waiting"
  /\ job' = [job EXCEPT ![e] = "active"]
  /\ tries' = [tries EXCEPT ![e] = @ + 1]
  /\ Goto(w, "read")
  /\ event' = [event EXCEPT ![w] = e]
  /\ UNCHANGED <<given, record, acked, effects>>

\* Mutant of Handled: a freshly received event is taken for handled.
HandledUnlessFailed(e) == record[e] # "failed"
\* A missing or processed record is left alone.
Handled(e) == record[e] \in {"none", "processed"}

ReadHandled(w) ==
  /\ pc[w] = "read" /\ Handled(event[w])
  /\ Goto(w, "complete")
  /\ UNCHANGED <<given, record, acked, job, tries, effects, event>>

ReadPending(w) ==
  /\ pc[w] = "read" /\ ~Handled(event[w])
  /\ Goto(w, "change")
  /\ UNCHANGED <<given, record, acked, job, tries, effects, event>>

\* Mutant of AfterChange: the charge of a renewal is not recorded.
AfterChangeNothing(k) == "markProcessed"
\* renewed: renew, then invoice, then payment.  failed: enterGracePeriod,
\* then a failed payment.  canceled: expire alone.  Other types change nothing.
AfterChange(k) ==
  CASE k = "renewed" -> "invoice" [] k = "failed" -> "pay" [] OTHER -> "markProcessed"

ChangeSubscription(w) ==
  /\ pc[w] = "change" /\ kind[event[w]] # "other"
  /\ changed' = [changed EXCEPT ![event[w]] = @ + 1]
  /\ Goto(w, AfterChange(kind[event[w]]))
  /\ UNCHANGED <<given, record, acked, job, tries, invoiced, paid, ignored, event>>

\* A renewal or a failed payment of a user the event names.
Due(e) == e \in Named /\ kind[e] \in {"renewed", "failed"}

\* applyWebhookEffect returns without doing anything: it cannot find the user,
\* the user whose subscription is canceled has none, or the event is of another
\* type.  That depends on the subscriptions table as it is now, so another
\* attempt may find otherwise.  The record is marked processed all the same.
ApplyNothing(w) ==
  /\ pc[w] = "change" /\ ~Due(event[w])
  /\ ignored' = ignored \cup {event[w]}
  /\ Goto(w, "markProcessed")
  /\ UNCHANGED <<given, record, acked, job, tries, changed, invoiced, paid, event>>

WriteInvoice(w) ==
  /\ pc[w] = "invoice"
  /\ invoiced' = [invoiced EXCEPT ![event[w]] = @ + 1]
  /\ Goto(w, "pay")
  /\ UNCHANGED <<given, record, acked, job, tries, changed, paid, ignored, event>>

\* The payment row carries the event id, unique per provider: a second one
\* throws.
WritePayment(w) ==
  /\ pc[w] = "pay" /\ paid[event[w]] = 0
  /\ paid' = [paid EXCEPT ![event[w]] = 1]
  /\ Goto(w, "markProcessed")
  /\ UNCHANGED <<given, record, acked, job, tries, changed, invoiced, ignored, event>>

\* An error anywhere in the effect is caught.  One is to be renewed or to be
\* late without a subscription: renew and enterGracePeriod throw then.
EffectThrows(w) ==
  /\ \/ pc[w] \in {"change", "invoice", "pay"} /\ "effect" \in env.faulty
     \/ pc[w] = "pay" /\ paid[event[w]] = 1
  /\ Goto(w, "markFailed")
  /\ UNCHANGED <<given, record, acked, job, tries, effects, event>>

\* Either way the record is saved.
Mark(w) ==
  /\ pc[w] \in {"markProcessed", "markFailed"}
  /\ record' = [record EXCEPT ![event[w]] =
                  IF pc[w] = "markProcessed" THEN "processed" ELSE "failed"]
  /\ Goto(w, "complete")
  /\ UNCHANGED <<given, acked, job, tries, effects, event>>

\* The handler has returned: the job completes.
Complete(w) ==
  /\ pc[w] = "complete"
  /\ job' = [job EXCEPT ![event[w]] = "done"]
  /\ Idle(w)
  /\ UNCHANGED <<given, record, acked, tries, effects>>

\* A job that throws or loses its worker waits again, or is dead-lettered.
Requeue(e) == job' = [job EXCEPT ![e] = IF tries[e] < Attempts THEN "waiting" ELSE "dead"]

MarkThrows(w) ==
  /\ pc[w] \in {"markProcessed", "markFailed"} /\ "mark" \in env.faulty
  /\ Requeue(event[w])
  /\ Idle(w)
  /\ UNCHANGED <<given, record, acked, tries, effects>>

Crash(x) ==
  /\ pc[x] # "idle"
  /\ IF x \in Workers THEN Requeue(event[x]) ELSE UNCHANGED job
  /\ Idle(x)
  /\ UNCHANGED <<given, record, acked, tries, effects>>
-----------------------------------------------------------------------------
Serve(r) ==
  \/ FindDuplicate(r) \/ FindNothing(r) \/ Insert(r) \/ InsertThrows(r)
  \/ Enqueue(r) \/ EnqueueThrows(r)

Work(w) ==
  \/ ReadHandled(w) \/ ReadPending(w) \/ ChangeSubscription(w) \/ ApplyNothing(w)
  \/ WriteInvoice(w) \/ WritePayment(w) \/ EffectThrows(w) \/ Mark(w) \/ MarkThrows(w)
  \/ Complete(w)

Next ==
  \/ \E r \in Requests : Serve(r) \/ \E e \in Events : Deliver(r, e)
  \/ \E w \in Workers : Work(w) \/ \E e \in Events : Take(w, e)
  \/ \E x \in env.fallible : Crash(x)

Spec == Init /\ [][Next]_vars

\* The provider redelivers what was not acknowledged, requests and jobs run
\* to their end, and no waiting job is passed over forever.
Redeliver(e) == e \notin acked /\ \E r \in Requests : Deliver(r, e)
Fairness ==
  /\ \A e \in Events : SF_vars(Redeliver(e)) /\ SF_vars(\E w \in Workers : Take(w, e))
  /\ \A r \in Requests : WF_vars(Serve(r))
  /\ \A w \in Workers : WF_vars(Work(w))
LiveSpec == Spec /\ Fairness
-----------------------------------------------------------------------------
\* What a reader of the comments may expect whatever fails.
EveryEffectOnce == \A e \in Events : changed[e] <= 1 /\ invoiced[e] <= 1
EveryAckRecorded == \A e \in acked : record[e] # "none"
EveryDoneProcessed == \A e \in Events : job[e] = "done" => record[e] = "processed"
EveryAckProcessed == \A e \in Events : e \in acked ~> record[e] = "processed"

\* Nobody dies between an effect and its mark, and the mark is saved.
MarksKept == env.fallible \cap Workers = {} /\ "mark" \notin env.faulty

\* However often an event is delivered, its subscription transition and its
\* invoice happen at most once (processWebhookEvent is idempotent), as long as
\* marks are kept: crashed requests and failing effects do no harm.
AppliedAtMostOnce == MarksKept => EveryEffectOnce

Whole(e) ==
  /\ changed[e] >= 1
  /\ kind[e] = "renewed" => invoiced[e] >= 1
  /\ kind[e] # "canceled" => paid[e] = 1

\* A record that says processed has its whole effect behind it, in spite of
\* crashes, retries and failed steps, unless an attempt found that there was
\* nothing to apply; no renewal and no failed payment whose event names the
\* user is processed in that way.
ProcessedIsComplete ==
  \A e \in Events : record[e] = "processed" => Whole(e) \/ (e \in ignored /\ ~Due(e))

\* What the provider takes as delivered is recorded here, whatever else fails,
\* unless an insert fails for another reason than the unique index.
AckedIsRecorded == "insert" \notin env.faulty => EveryAckRecorded

\* A job completes only when its event is processed, as long as marks are kept
\* and no effect throws.
DoneIsProcessed == MarksKept /\ "effect" \notin env.faulty => EveryDoneProcessed

\* An acknowledged event is eventually processed, when nothing fails: however
\* its deliveries overlap, one of them has it processed.
FaultFree == env.fallible = {} /\ env.faulty = {}
AckedIsProcessed ==
  \A e \in Events : FaultFree /\ e \in acked ~> record[e] = "processed"

\* The inbox keeps the promise of WebhookEffects, crashes and failing steps
\* included: no effect before the record, none forgotten but where there was
\* none to apply, no way back.
Effects == INSTANCE WebhookEffects WITH
             due <- {e \in Events : Due(e)},
             recorded <- {e \in Events : record[e] # "none"},
             applied <- {e \in Events : changed[e] > 0},
             processed <- {e \in Events : record[e] = "processed"}
ImplementsEffects == Effects!Spec
=============================================================================

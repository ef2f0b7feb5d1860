------------------------------ MODULE BillingProofs -----------------------------
(***************************************************************************)
(* Proofs about WebhookInbox and SubscriptionLifecycle, the two ends of    *)
(* billing, for any sets of events, processes and tiers, any durations and *)
(* number of attempts, any crashes, overlapping calls and failing steps.   *)
(***************************************************************************)
EXTENDS WebhookInbox, SubscriptionLifecycle, TLAPS

USE InboxConstants, SubscriptionConstants

-----------------------------------------------------------------------------
(* WebhookInbox.                                                           *)

ServeSteps == {"idle", "find", "insert", "enqueue"}
Effecting == {"change", "invoice", "pay"}
Pending == Effecting \cup {"markProcessed", "markFailed"}
WorkSteps == {"idle", "read", "complete"} \cup Pending

\* Requests run ingestWebhook, workers processWebhookEvent; whoever is busy
\* has an event.
Roles ==
  /\ \A r \in Requests : pc[r] \in ServeSteps
  /\ \A w \in Workers : pc[w] \in WorkSteps
  /\ \A x \in Procs : pc[x] # "idle" => event[x] \in Events

\* A busy worker has an active job, and has it alone.
Owned ==
  /\ \A w \in Workers : pc[w] # "idle" => job[event[w]] = "active"
  /\ \A v, w \in Workers :
       pc[v] # "idle" /\ pc[w] # "idle" /\ event[v] = event[w] => v = w

\* The request that inserted the record is alone in enqueueing its job, which
\* does not exist before.
Enqueueing ==
  /\ \A r \in Requests : pc[r] = "enqueue" =>
       record[event[r]] = "received" /\ job[event[r]] = "none"
  /\ \A q, r \in Requests :
       pc[q] = "enqueue" /\ pc[r] = "enqueue" /\ event[q] = event[r] => q = r

\* No job without a record, no effect without a job.
Untouched == \A e \in Events :
  /\ record[e] = "none" => job[e] = "none"
  /\ job[e] = "none" => changed[e] = 0 /\ invoiced[e] = 0

\* Between reading the record and marking it, it is neither missing nor
\* processed.
StillPending ==
  \A w \in Workers : pc[w] \in Pending => record[event[w]] \in {"received", "failed"}

\* How far the effect is at each step of processWebhookEvent.
Progress == \A w \in Workers :
  /\ pc[w] = "invoice" => kind[event[w]] = "renewed" /\ changed[event[w]] >= 1
  /\ pc[w] = "pay" =>
       /\ kind[event[w]] \in {"renewed", "failed"} /\ changed[event[w]] >= 1
       /\ kind[event[w]] = "renewed" => invoiced[event[w]] >= 1
  /\ pc[w] = "markProcessed" =>
       Whole(event[w]) \/ (event[w] \in ignored /\ ~Due(event[w]))

\* One transition and one invoice per attempt at most; a waiting job has an
\* attempt left.
Attempted ==
  /\ \A e \in Events : job[e] = "waiting" =>
       tries[e] < Attempts /\ changed[e] <= tries[e] /\ invoiced[e] <= tries[e]
  /\ \A w \in Workers :
       /\ pc[w] # "idle" => changed[event[w]] <= tries[event[w]]
                              /\ invoiced[event[w]] <= tries[event[w]]
       /\ pc[w] \in {"read", "change"} => changed[event[w]] < tries[event[w]]
       /\ pc[w] \in {"read", "change", "invoice"} => invoiced[event[w]] < tries[event[w]]

IInv ==
  /\ TypeOK /\ Roles /\ Owned /\ Enqueueing /\ Untouched
  /\ StillPending /\ Progress /\ Attempted /\ ProcessedIsComplete

\* A job that throws or loses its worker: the worker lets go of it, and it
\* waits for another attempt or is dead-lettered.
LEMMA LettingGo ==
  ASSUME IInv, NEW w \in Workers, pc[w] # "idle", Requeue(event[w]), Idle(w),
         UNCHANGED <<record, acked, tries, effects, given>>
  PROVE  IInv'
<1> USE DEF Requeue, Idle, Goto, effects, given, IInv, TypeOK, Roles, Procs
<1>1. TypeOK' /\ Roles'
  BY DEF ServeSteps, WorkSteps
<1>2. Owned'
  BY DEF Owned
<1>3. Enqueueing' /\ Untouched'
  BY DEF Owned, Enqueueing, Untouched, ServeSteps
<1>4. StillPending' /\ Progress'
  BY DEF StillPending, Progress, Whole, Due, Pending, Effecting
<1>5. Attempted'
  BY DEF Attempted, Owned
<1>6. QED
  BY <1>1, <1>2, <1>3, <1>4, <1>5 DEF ProcessedIsComplete, Whole, Due

\* No step of a request touches the effects, given or a running job.
LEMMA ServeKeeps ==
  ASSUME IInv, NEW r \in Requests,
         Serve(r) \/ \E e \in Events : Deliver(r, e)
  PROVE  IInv'
<1> USE DEF IInv, TypeOK, Roles, Procs, ServeSteps, effects, given, Goto
<1>1. CASE FindDuplicate(r) \/ InsertThrows(r) \/ EnqueueThrows(r)
  BY <1>1 DEF FindDuplicate, InsertThrows, EnqueueThrows, Answer, Idle, Owned,
              Enqueueing, Untouched, StillPending, Progress, Whole, Due, Attempted,
              ProcessedIsComplete
<1>2. CASE FindNothing(r) \/ \E e \in Events : Deliver(r, e)
  BY <1>2 DEF FindNothing, Deliver, Owned, Enqueueing, Untouched, StillPending,
              Progress, Whole, Due, Attempted, ProcessedIsComplete
<1>3. CASE Insert(r)
  <2> USE <1>3 DEF Insert, InsertAllowed
  <2>1. TypeOK' /\ Roles'
    OBVIOUS
  <2>2. Owned' /\ Progress' /\ Attempted'
    BY DEF Owned, Progress, Whole, Due, Attempted
  <2>3. Enqueueing' /\ Untouched'
    BY DEF Enqueueing, Untouched
  <2>4. StillPending'
    BY DEF StillPending
  <2>5. ProcessedIsComplete'
    BY DEF ProcessedIsComplete, Whole, Due
  <2>6. QED
    BY <2>1, <2>2, <2>3, <2>4, <2>5
<1>4. CASE Enqueue(r)
  <2> USE <1>4 DEF Enqueue, Answer, Idle
  <2>1. TypeOK' /\ Roles'
    OBVIOUS
  <2>2. Owned'
    BY DEF Owned, Enqueueing
  <2>3. Enqueueing' /\ Untouched'
    BY DEF Enqueueing, Untouched
  <2>4. StillPending' /\ Progress' /\ ProcessedIsComplete'
    BY DEF StillPending, Progress, Whole, Due, ProcessedIsComplete
  <2>5. Attempted'
    BY DEF Attempted, Enqueueing, Untouched, Owned
  <2>6. QED
    BY <2>1, <2>2, <2>3, <2>4, <2>5
<1>5. QED
  BY <1>1, <1>2, <1>3, <1>4 DEF Serve

\* No step of a worker overtakes its own effect.
LEMMA WorkKeeps ==
  ASSUME IInv, NEW w \in Workers,
         Work(w) \/ \E e \in Events : Take(w, e)
  PROVE  IInv'
<1> USE DEF IInv, TypeOK, Roles, Procs, WorkSteps, Pending, Effecting, effects, given, Goto
<1>1. CASE ReadHandled(w) \/ ReadPending(w) \/ EffectThrows(w)
  BY <1>1 DEF ReadHandled, ReadPending, EffectThrows, Handled, Owned, Enqueueing,
              Untouched, StillPending, Progress, Whole, Due, Attempted,
              ProcessedIsComplete, ServeSteps
<1>2. CASE ChangeSubscription(w)
  <2> USE <1>2 DEF ChangeSubscription, AfterChange, Kinds
  <2>1. TypeOK' /\ Roles' /\ Attempted'
    BY DEF Attempted, Owned, ServeSteps
  <2>2. Owned' /\ Enqueueing' /\ Untouched'
    BY DEF Owned, Enqueueing, Untouched, ServeSteps
  <2>3. Progress'
    BY DEF Progress, Whole, Due, Owned
  <2>4. StillPending' /\ ProcessedIsComplete'
    BY DEF StillPending, ProcessedIsComplete, Whole, Due
  <2>5. QED
    BY <2>1, <2>2, <2>3, <2>4
<1>3. CASE WriteInvoice(w) \/ WritePayment(w)
  <2> USE <1>3 DEF WriteInvoice, WritePayment
  <2>1. TypeOK' /\ Roles' /\ Attempted'
    BY DEF Attempted, Owned, ServeSteps
  <2>2. Owned' /\ Enqueueing' /\ Untouched'
    BY DEF Owned, Enqueueing, Untouched, ServeSteps
  <2>3. Progress'
    BY DEF Progress, Whole, Due, Owned
  <2>4. StillPending' /\ ProcessedIsComplete'
    BY DEF StillPending, ProcessedIsComplete, Whole, Due
  <2>5. QED
    BY <2>1, <2>2, <2>3, <2>4
<1>4. CASE Mark(w)
  <2> USE <1>4 DEF Mark
  <2>1. TypeOK' /\ Roles'
    BY DEF ServeSteps
  <2>2. Owned' /\ Progress' /\ Attempted'
    BY DEF Owned, Progress, Whole, Due, Attempted
  <2>3. Enqueueing' /\ Untouched'
    BY DEF Owned, Enqueueing, Untouched, StillPending, ServeSteps
  <2>4. StillPending'
    BY DEF Owned, StillPending
  <2>5. ProcessedIsComplete'
    BY DEF Progress, Whole, Due, ProcessedIsComplete
  <2>6. QED
    BY <2>1, <2>2, <2>3, <2>4, <2>5
<1>5. CASE Complete(w)
  BY <1>5 DEF Complete, Idle, Owned, Enqueueing, Untouched, StillPending,
              Progress, Whole, Due, Attempted, ProcessedIsComplete, ServeSteps
<1>6. CASE \E e \in Events : Take(w, e)
  <2> PICK e \in Events : Take(w, e)
    BY <1>6
  <2> USE DEF Take
  <2>1. TypeOK' /\ Roles'
    BY DEF Attempted, ServeSteps
  <2>2. Owned' /\ Enqueueing' /\ Untouched'
    BY DEF Owned, Enqueueing, Untouched, ServeSteps
  <2>3. StillPending' /\ Progress' /\ ProcessedIsComplete'
    BY DEF StillPending, Progress, Whole, Due, ProcessedIsComplete
  <2>4. Attempted'
    BY DEF Attempted, Owned
  <2>5. QED
    BY <2>1, <2>2, <2>3, <2>4
<1>7. CASE MarkThrows(w)
  BY <1>7, LettingGo DEF MarkThrows
<1>8. CASE ApplyNothing(w)
  <2> USE <1>8 DEF ApplyNothing
  <2>1. TypeOK' /\ Roles' /\ Attempted'
    BY DEF Attempted, Owned, ServeSteps
  <2>2. Owned' /\ Enqueueing' /\ Untouched'
    BY DEF Owned, Enqueueing, Untouched, ServeSteps
  <2>3. Progress'
    BY DEF Progress, Whole, Due, Owned
  <2>4. StillPending' /\ ProcessedIsComplete'
    BY DEF StillPending, ProcessedIsComplete, Whole, Due
  <2>5. QED
    BY <2>1, <2>2, <2>3, <2>4
<1>9. QED
  BY <1>1, <1>2, <1>3, <1>4, <1>5, <1>6, <1>7, <1>8 DEF Work

\* A crashed request leaves at most a record without a job.
LEMMA CrashKeeps ==
  ASSUME IInv, NEW x \in env.fallible, Crash(x)
  PROVE  IInv'
<1>1. CASE x \in Workers
  BY <1>1, LettingGo DEF Crash
<1>2. CASE x \in Requests
  BY <1>2 DEF Crash, Idle, Goto, effects, given, IInv, TypeOK, Roles, Procs, ServeSteps,
              Owned, Enqueueing, Untouched, StillPending, Progress, Whole, Due,
              Attempted, ProcessedIsComplete
<1>3. QED
  BY <1>1, <1>2 DEF IInv, TypeOK

\* The invariant holds in every reachable state.
LEMMA Inductive == Spec => []IInv
<1>1. Init => IInv
  BY DEF Init, IInv, TypeOK, Roles, Procs, ServeSteps, WorkSteps, Pending,
         Effecting, Owned, Enqueueing, Untouched, StillPending, Progress,
         Attempted, ProcessedIsComplete
<1>2. IInv /\ [Next]_vars => IInv'
  <2> SUFFICES ASSUME IInv, [Next]_vars PROVE IInv'
    OBVIOUS
  <2>1. CASE UNCHANGED vars
    BY <2>1 DEF vars, effects, given, IInv, TypeOK, Roles, Owned, Enqueueing, Untouched,
                StillPending, Progress, Whole, Due, Attempted, ProcessedIsComplete
  <2>2. CASE Next
    BY <2>2, ServeKeeps, WorkKeeps, CrashKeeps DEF Next
  <2>3. QED
    BY <2>1, <2>2
<1>3. QED
  BY <1>1, <1>2, PTL DEF Spec

\* Every reachable state has the declared types; in particular no job is
\* tried, and no event is applied, more often than Attempts.
THEOREM InboxTypeCorrect == Spec => []TypeOK
BY Inductive, PTL DEF IInv

\* Whatever crashes, fails or is delivered again: a record that says processed
\* has its whole effect behind it, unless applyWebhookEffect found nothing to
\* apply, which a renewal or failed payment that names its user never meets.
THEOREM ProcessedAlwaysComplete == Spec => []ProcessedIsComplete
BY Inductive, PTL DEF IInv

\* The request that inserts the record is the step that records the event.
LEMMA InsertImplements ==
  ASSUME IInv, NEW r \in Requests, Insert(r)
  PROVE  Effects!Next
<1>1. PICK e \in Events : e = event[r]
  BY DEF Insert, IInv, Roles, Procs
<1>2. record[e] = "none" /\ record' = [record EXCEPT ![e] = "received"]
  BY <1>1 DEF Insert, InsertAllowed
<1>3. Effects!Record(e)
  BY <1>2 DEF Effects!Record, Insert, Due, effects, given, IInv, TypeOK
<1>4. QED
  BY <1>3 DEF Effects!Next

\* The first transition made for an event applies it; another one does not
\* show.
LEMMA ChangeImplements ==
  ASSUME IInv, NEW w \in Workers, ChangeSubscription(w)
  PROVE  Effects!Next \/ UNCHANGED Effects!vars
<1>1. PICK e \in Events : e = event[w]
  BY DEF ChangeSubscription, IInv, Roles, Procs
<1>2. record[e] # "none" /\ UNCHANGED <<record, ignored, kind>>
  BY <1>1 DEF ChangeSubscription, IInv, StillPending, Pending, Effecting, given
<1>3. /\ changed \in [Events -> Nat]
      /\ changed' = [changed EXCEPT ![e] = @ + 1]
  BY <1>1 DEF ChangeSubscription, IInv, TypeOK
<1>4. CASE changed[e] = 0
  <2>1. Effects!Apply(e)
    BY <1>2, <1>3, <1>4 DEF Effects!Apply, Due
  <2>2. QED
    BY <2>1 DEF Effects!Next
<1>5. CASE changed[e] > 0
  BY <1>2, <1>3, <1>5 DEF Effects!vars, Due
<1>6. QED
  BY <1>3, <1>4, <1>5

\* An event with nothing to apply is ignored, or has been before.
LEMMA NothingImplements ==
  ASSUME IInv, NEW w \in Workers, ApplyNothing(w)
  PROVE  Effects!Next \/ UNCHANGED Effects!vars
<1>1. PICK e \in Events : e = event[w]
  BY DEF ApplyNothing, IInv, Roles, Procs
<1>2. record[e] # "none" /\ ~Due(e) /\ ignored' = ignored \cup {e}
      /\ UNCHANGED <<record, changed, kind>>
  BY <1>1 DEF ApplyNothing, IInv, StillPending, Pending, Effecting, given
<1>3. UNCHANGED {d \in Events : Due(d)}
  BY <1>2 DEF Due
<1>4. CASE e \in ignored
  BY <1>2, <1>3, <1>4 DEF Effects!vars
<1>5. CASE e \notin ignored
  <2>1. Effects!Ignore(e)
    BY <1>2, <1>3, <1>5 DEF Effects!Ignore
  <2>2. QED
    BY <2>1 DEF Effects!Next
<1>6. QED
  BY <1>4, <1>5

\* Marking a record processed processes its event; marking it failed does
\* not show, for it is never processed before.
LEMMA MarkImplements ==
  ASSUME IInv, NEW w \in Workers, Mark(w)
  PROVE  Effects!Next \/ UNCHANGED Effects!vars
<1>1. PICK e \in Events : e = event[w]
  BY DEF Mark, IInv, Roles, Procs
<1>2. record[e] \in {"received", "failed"} /\ UNCHANGED <<changed, ignored, kind>>
  BY <1>1 DEF Mark, effects, given, IInv, StillPending, Pending, Effecting
<1>3. record \in [Events -> {"none", "received", "processed", "failed"}]
  BY DEF IInv, TypeOK
<1>4. CASE pc[w] = "markProcessed"
  <2>1. record' = [record EXCEPT ![e] = "processed"]
    BY <1>1, <1>4 DEF Mark
  <2>2. changed[e] > 0 \/ e \in ignored
    BY <1>1, <1>4 DEF IInv, TypeOK, Progress, Whole, Due
  <2>3. Effects!Process(e)
    BY <1>2, <1>3, <2>1, <2>2 DEF Effects!Process, Due
  <2>4. QED
    BY <2>3 DEF Effects!Next
<1>5. CASE pc[w] = "markFailed"
  <2>1. record' = [record EXCEPT ![e] = "failed"]
    BY <1>1, <1>5 DEF Mark
  <2>2. QED
    BY <1>2, <1>3, <2>1 DEF Effects!vars, Due
<1>6. QED
  BY <1>4, <1>5 DEF Mark

\* The inbox implements WebhookEffects: no effect without a record, nothing
\* processed before it is applied, or ignored for want of an effect, and no
\* step back.
THEOREM InboxImplementsEffects == Spec => ImplementsEffects
<1>1. Init => Effects!Init
  BY DEF Init, Effects!Init
<1>2. IInv /\ [Next]_vars => [Effects!Next]_(Effects!vars)
  <2> SUFFICES ASSUME IInv, [Next]_vars
               PROVE  Effects!Next \/ UNCHANGED Effects!vars
    OBVIOUS
  <2>1. ASSUME UNCHANGED <<kind, record, changed, ignored>> PROVE UNCHANGED Effects!vars
    BY <2>1 DEF Effects!vars, Due
  <2>2. CASE UNCHANGED vars
    BY <2>1, <2>2 DEF vars, effects, given
  <2>3. ASSUME NEW r \in Requests, Serve(r) \/ \E e \in Events : Deliver(r, e)
        PROVE  Effects!Next \/ UNCHANGED Effects!vars
    <3>1. CASE Insert(r)
      BY <3>1, InsertImplements
    <3>2. CASE ~ Insert(r)
      BY <2>1, <2>3, <3>2
      DEF Serve, Deliver, FindDuplicate, FindNothing, InsertThrows, Enqueue,
          EnqueueThrows, effects, given
    <3>3. QED
      BY <3>1, <3>2
  <2>4. ASSUME NEW w \in Workers, Work(w) \/ \E e \in Events : Take(w, e)
        PROVE  Effects!Next \/ UNCHANGED Effects!vars
    <3>1. CASE ChangeSubscription(w)
      BY <3>1, ChangeImplements
    <3>2. CASE Mark(w)
      BY <3>2, MarkImplements
    <3>3. CASE ApplyNothing(w)
      BY <3>3, NothingImplements
    <3>4. CASE ~ ChangeSubscription(w) /\ ~ ApplyNothing(w) /\ ~ Mark(w)
      BY <2>1, <2>4, <3>4
      DEF Work, Take, ReadHandled, ReadPending, WriteInvoice, WritePayment,
          EffectThrows, MarkThrows, Complete, effects, given
    <3>5. QED
      BY <3>1, <3>2, <3>3, <3>4
  <2>5. ASSUME NEW x \in env.fallible, Crash(x) PROVE UNCHANGED Effects!vars
    BY <2>1, <2>5 DEF Crash, effects, given
  <2>6. QED
    BY <2>2, <2>3, <2>4, <2>5 DEF Next
<1>3. QED
  BY <1>1, <1>2, Inductive, PTL DEF Spec, ImplementsEffects, Effects!Spec
-----------------------------------------------------------------------------
\* What an acknowledged delivery is worth depends on the insert: unless it
\* fails for another reason than the unique index, the provider's success
\* answers are all for events on record.
THEOREM AckedAlwaysRecorded == Spec => []AckedIsRecorded
<1>1. Init => AckedIsRecorded
  BY DEF Init, AckedIsRecorded, EveryAckRecorded
<1>2. IInv /\ AckedIsRecorded /\ [Next]_vars => AckedIsRecorded'
  <2> SUFFICES ASSUME IInv, AckedIsRecorded, [Next]_vars PROVE AckedIsRecorded'
    OBVIOUS
  <2> USE DEF AckedIsRecorded, EveryAckRecorded, IInv, TypeOK, given
  <2>1. CASE UNCHANGED vars
    BY <2>1 DEF vars
  <2>2. ASSUME NEW r \in Requests, Serve(r) \/ \E e \in Events : Deliver(r, e)
        PROVE  AckedIsRecorded'
    BY <2>2 DEF Serve, Deliver, FindDuplicate, FindNothing, Insert, InsertThrows,
                InsertAllowed, Enqueue, EnqueueThrows, Answer, Enqueueing
  <2>3. ASSUME NEW w \in Workers, Work(w) \/ \E e \in Events : Take(w, e)
        PROVE  AckedIsRecorded'
    BY <2>3 DEF Work, Take, ReadHandled, ReadPending, ChangeSubscription,
                ApplyNothing, WriteInvoice, WritePayment, EffectThrows, Mark, MarkThrows, Complete
  <2>4. ASSUME NEW x \in env.fallible, Crash(x) PROVE AckedIsRecorded'
    BY <2>4 DEF Crash
  <2>5. QED
    BY <2>1, <2>2, <2>3, <2>4 DEF Next
<1>3. QED
  BY <1>1, <1>2, Inductive, PTL DEF Spec

\* The environment is the same at every step.
LEMMA EnvFixed == [Next]_vars => env' = env
BY DEF Next, vars, given, Deliver, Serve, FindDuplicate, FindNothing, Insert, InsertThrows,
       Enqueue, EnqueueThrows, Take, Work, ReadHandled, ReadPending, ChangeSubscription,
       ApplyNothing, WriteInvoice, WritePayment, EffectThrows, Mark, MarkThrows, Complete, Crash

\* When no worker dies and every mark is saved, no job is tried again.
NeverRetried == \A e \in Events :
  /\ tries[e] <= 1 /\ changed[e] <= tries[e] /\ invoiced[e] <= tries[e]
  /\ job[e] = "waiting" => tries[e] = 0

\* processWebhookEvent is idempotent exactly as far as its marks go: if no
\* worker crashes and no mark fails, duplicate deliveries, crashed requests and
\* failing effects, given never make a second transition or a second invoice.
THEOREM AlwaysAppliedOnce == Spec => []AppliedAtMostOnce
<1>1. Init => (MarksKept => NeverRetried)
  <2> SUFFICES ASSUME Init, NEW e \in Events
               PROVE  /\ tries[e] <= 1 /\ changed[e] <= tries[e] /\ invoiced[e] <= tries[e]
                      /\ job[e] = "waiting" => tries[e] = 0
    BY DEF NeverRetried
  <2>1. tries[e] = 0 /\ changed[e] = 0 /\ invoiced[e] = 0
    BY DEF Init
  <2>2. QED
    BY <2>1
<1>2. IInv /\ (MarksKept => NeverRetried) /\ [Next]_vars => (MarksKept => NeverRetried)'
  <2> SUFFICES ASSUME IInv, MarksKept, NeverRetried, [Next]_vars PROVE NeverRetried'
    BY EnvFixed DEF MarksKept
  <2> USE DEF MarksKept, NeverRetried, IInv, TypeOK, Roles, Procs, effects, given
  <2>1. CASE UNCHANGED vars
    BY <2>1 DEF vars
  <2>2. ASSUME NEW r \in Requests, Serve(r) \/ \E e \in Events : Deliver(r, e)
        PROVE  NeverRetried'
    BY <2>2 DEF Serve, Deliver, FindDuplicate, FindNothing, Insert, InsertThrows,
                Enqueue, EnqueueThrows, Enqueueing, Untouched
  <2>3. ASSUME NEW w \in Workers, Work(w) \/ \E e \in Events : Take(w, e)
        PROVE  NeverRetried'
    <3>1. CASE ChangeSubscription(w) \/ WriteInvoice(w)
      BY <3>1 DEF ChangeSubscription, WriteInvoice, Attempted, Owned
    <3>2. CASE \E e \in Events : Take(w, e)
      BY <3>2 DEF Take
    <3>3. CASE ReadHandled(w) \/ ReadPending(w) \/ ApplyNothing(w) \/ WritePayment(w)
                 \/ EffectThrows(w) \/ Mark(w) \/ Complete(w)
      BY <3>3 DEF ReadHandled, ReadPending, ApplyNothing, WritePayment, EffectThrows, Mark,
                  Complete
    <3>4. CASE MarkThrows(w)
      BY <3>4 DEF MarkThrows
    <3>5. QED
      BY <2>3, <3>1, <3>2, <3>3, <3>4 DEF Work
  <2>4. ASSUME NEW x \in env.fallible, Crash(x) PROVE NeverRetried'
    BY <2>4 DEF Crash
  <2>5. QED
    BY <2>1, <2>2, <2>3, <2>4 DEF Next
<1>3. IInv /\ (MarksKept => NeverRetried) => AppliedAtMostOnce
  <2> SUFFICES ASSUME IInv, NeverRetried, NEW e \in Events
               PROVE  changed[e] <= 1 /\ invoiced[e] <= 1
    BY DEF AppliedAtMostOnce, EveryEffectOnce
  <2>1. tries[e] \in Nat /\ changed[e] \in Nat /\ invoiced[e] \in Nat
    BY DEF IInv, TypeOK
  <2>2. tries[e] <= 1 /\ changed[e] <= tries[e] /\ invoiced[e] <= tries[e]
    BY DEF NeverRetried
  <2>3. QED
    BY <2>1, <2>2
<1>4. QED
  BY <1>1, <1>2, <1>3, Inductive, PTL DEF Spec

\* When moreover no effect throws, whoever is past its effect has processed
\* the event, and a job has not been paid for before it pays.
StraightThrough ==
  /\ \A e \in Events :
       /\ job[e] \in {"none", "waiting"} => paid[e] = 0
       /\ job[e] = "done" => record[e] = "processed"
  /\ \A w \in Workers :
       /\ pc[w] # "markFailed"
       /\ pc[w] \in {"read"} \cup Effecting => paid[event[w]] = 0
       /\ pc[w] = "complete" => record[event[w]] = "processed"

\* A job is completed only for an event that was processed, as long as nothing
\* makes an effect throw: no transient error, and no second attempt to meet
\* the payment of the first.
THEOREM DoneAlwaysProcessed == Spec => []DoneIsProcessed
<1> DEFINE EffectsHold == MarksKept /\ "effect" \notin env.faulty
<1>1. Init => (EffectsHold => StraightThrough)
  BY DEF Init, StraightThrough, Effecting, Procs
<1>2. IInv /\ (EffectsHold => StraightThrough) /\ [Next]_vars
        => (EffectsHold => StraightThrough)'
  <2> SUFFICES ASSUME IInv, EffectsHold, StraightThrough, [Next]_vars PROVE StraightThrough'
    BY EnvFixed DEF MarksKept
  <2> USE DEF MarksKept, StraightThrough, Effecting, IInv, TypeOK, Roles, Procs, effects, given,
              Goto, Idle
  <2>1. CASE UNCHANGED vars
    BY <2>1 DEF vars
  <2>2. ASSUME NEW r \in Requests, Serve(r) \/ \E e \in Events : Deliver(r, e)
        PROVE  StraightThrough'
    <3>1. CASE Insert(r)
      BY <3>1 DEF Insert, InsertAllowed
    <3>2. CASE Enqueue(r)
      BY <3>2 DEF Enqueue, Answer, Enqueueing
    <3>3. CASE ~ Insert(r) /\ ~ Enqueue(r)
      BY <2>2, <3>3 DEF Serve, Deliver, FindDuplicate, FindNothing, InsertThrows,
                        EnqueueThrows, Answer, ServeSteps
    <3>4. QED
      BY <3>1, <3>2, <3>3
  <2>3. ASSUME NEW w \in Workers, Work(w) \/ \E e \in Events : Take(w, e)
        PROVE  StraightThrough'
    <3> USE DEF Owned
    <3>1. CASE ReadHandled(w) \/ ReadPending(w)
      BY <3>1 DEF ReadHandled, ReadPending, Handled, Untouched
    <3>2. CASE ChangeSubscription(w) \/ ApplyNothing(w) \/ WriteInvoice(w)
      BY <3>2 DEF ChangeSubscription, ApplyNothing, AfterChange, Kinds, WriteInvoice
    <3>3. CASE WritePayment(w)
      BY <3>3 DEF WritePayment
    <3>4. CASE Mark(w)
      BY <3>4 DEF Mark
    <3>5. CASE Complete(w)
      BY <3>5 DEF Complete
    <3>6. CASE \E e \in Events : Take(w, e)
      BY <3>6 DEF Take
    <3>7. ~ EffectThrows(w) /\ ~ MarkThrows(w)
      BY DEF EffectThrows, MarkThrows
    <3>8. QED
      BY <2>3, <3>1, <3>2, <3>3, <3>4, <3>5, <3>6, <3>7 DEF Work
  <2>4. ASSUME NEW x \in env.fallible, Crash(x) PROVE StraightThrough'
    BY <2>4 DEF Crash, ServeSteps
  <2>5. QED
    BY <2>1, <2>2, <2>3, <2>4 DEF Next
<1>3. (EffectsHold => StraightThrough) => DoneIsProcessed
  BY DEF StraightThrough, DoneIsProcessed, EveryDoneProcessed
<1>4. QED
  BY <1>1, <1>2, <1>3, Inductive, PTL DEF Spec

-----------------------------------------------------------------------------
(* SubscriptionLifecycle.                                                  *)

\* Trials and grace periods of subscription s have an end.
Ends(s) ==
  /\ s.status = "trialing" => s.trialEnd # Null
  /\ s.status = "grace_period" => s.gracePeriodEnd # Null

Unsaved == {"save", "update"}

\* What a call is about to save has one too.
SavesEnd == ~mixed => \A c \in Callers : at[c] \in Unsaved => Ends(entity[c])

\* Calls that load run one of the methods of a request or a webhook.
Loading == \A c \in Callers :
  at[c] = "load" => call[c].method \in {"open", "changePlan", "cancel", "reactivate", "pause",
                                        "resume", "renew", "enterGracePeriod", "expire"}

\* Undisturbed calls come one at a time.
OneAtATime == Undisturbed => \A c, d \in Callers : at[c] # "idle" /\ at[d] # "idle" => c = d

\* An undisturbed save updates the row it has read again.
RereadIsRow == Undisturbed => \A c \in Callers : at[c] = "update" => base[c] = row

Writing == {"recordTrial", "record"}

\* A saved row is what the call is about to write to the history; before and
\* after that, the history has it.
HistoryFollows ==
  Undisturbed =>
    /\ (\A c \in Callers : at[c] \notin Writing) => history = Recorded(row)
    /\ \A c \in Callers : at[c] \in Writing =>
         entity[c].status = row.status /\ entity[c].tier = row.tier

\* Whoever starts a trial is the first.
TrialFirst ==
  Undisturbed => \A c \in Callers :
    /\ at[c] = "recordTrial" => trials = 0
    /\ at[c] \in Unsaved /\ call[c].method = "open" /\ entity[c].status = "trialing" => trials = 0

\* The tier a call is about to save.
TierDue ==
  Undisturbed => \A c \in Callers : at[c] \in Unsaved /\ entity[c].tier # row.tier =>
    \/ call[c].method = "open"
    \/ call[c].method = "changePlan" /\ entity[c].tier > row.tier
    \/ call[c].method = "renew" /\ entity[c].tier = row.scheduledTier

RowInv == /\ SubscriptionTypeOK /\ TemporaryAccessEnds /\ SavesEnd /\ Loading /\ OneAtATime
          /\ RereadIsRow /\ HistoryFollows /\ TrialFirst /\ OneTrial /\ TierDue

\* The initial state satisfies the invariant.
LEMMA InitRowInv == SubscriptionInit => RowInv
<1> SUFFICES ASSUME SubscriptionInit PROVE RowInv
  OBVIOUS
<1> USE DEF SubscriptionInit, NoCall, NoRow, Null
<1>1. SubscriptionTypeOK
  <2>1. NoRow \in Subscription /\ NoCall \in Call
    BY DEF Subscription, Statuses, Call, NullTime
  <2>2. history \in [status : Statuses, tier : Tiers \cup {Null}]
    BY DEF Statuses
  <2>3. mixed \in BOOLEAN
    BY Zenon
  <2> HIDE DEF NoRow, NoCall
  <2>4. QED
    BY <2>1, <2>2, <2>3 DEF SubscriptionTypeOK
<1>2. TemporaryAccessEnds /\ SavesEnd /\ Loading /\ OneAtATime /\ RereadIsRow
  BY DEF RereadIsRow, TemporaryAccessEnds, AccessEnds, SavesEnd, Unsaved, Loading, OneAtATime
<1>3. HistoryFollows /\ TrialFirst /\ OneTrial /\ TierDue
  BY DEF HistoryFollows, TrialFirst, Unsaved, OneTrial, NeverTwoTrials, TierDue, Recorded,
         Writing
<1>4. QED
  BY <1>1, <1>2, <1>3 DEF RowInv

\* What process c does leaves the other processes alone.
Alone(c) ==
  \A d \in Callers \ {c} : at'[d] = at[d] /\ call'[d] = call[d] /\ entity'[d] = entity[d]
                          /\ base'[d] = base[d]

Steps == {"idle", "load", "save", "update", "recordTrial", "record"}

\* The call of c ends.
LEMMA EndKeeps ==
  ASSUME SubscriptionTypeOK, NEW c \in Callers, End(c)
  PROVE  /\ at' \in [Callers -> Steps] /\ call' \in [Callers -> Call]
         /\ entity' \in [Callers -> Subscription] /\ base' \in [Callers -> Subscription]
      /\ at'[c] = "idle" /\ Alone(c)
<1>1. NoCall \in Call /\ NoRow \in Subscription
  BY DEF NoCall, NoRow, Call, Subscription, Null, NullTime, Statuses
<1>2. QED
  BY <1>1 DEF SubscriptionTypeOK, End, Steps, Alone

\* The methods keep a subscription a subscription, with its ends.
LEMMA ChangedKeeps ==
  ASSUME NEW s \in Subscription, NEW m \in Call, now \in 1..MaxTime, trials \in Nat,
         m.method \in {"open", "changePlan", "cancel", "reactivate", "pause",
                       "resume", "renew", "enterGracePeriod", "expire"}
  PROVE  /\ Changed(s, m) \in Subscription
         /\ Ends(s) => Ends(Changed(s, m))
         /\ m.method = "open" /\ Changed(s, m).status = "trialing" => trials = 0
         /\ Changed(s, m).tier # s.tier =>
              \/ m.method = "open"
              \/ m.method = "changePlan" /\ Changed(s, m).tier > s.tier
              \/ m.method = "renew" /\ Changed(s, m).tier = s.scheduledTier
<1> USE DEF Subscription, Call, NullTime, Null, Ends, Changed
<1>1. CASE m.method = "open"
  BY <1>1 DEF Opened, TrialAllowed, Statuses
<1>2. CASE m.method = "changePlan"
  BY <1>2 DEF Immediate
<1>3. CASE m.method = "cancel"
  BY <1>3 DEF Statuses
<1>4. CASE m.method = "reactivate"
  BY <1>4 DEF Statuses
<1>5. CASE m.method \in {"pause", "resume", "expire"}
  BY <1>5 DEF Statuses
<1>6. CASE m.method = "renew"
  <2>1. Changed(s, m) = [status |-> "active",
                         tier |-> IF s.scheduledTier # Null THEN s.scheduledTier ELSE s.tier,
                         scheduledTier |-> Null, cancelAtPeriodEnd |-> s.cancelAtPeriodEnd,
                         trialEnd |-> s.trialEnd, gracePeriodEnd |-> Null]
    BY <1>6 DEF Renewed
  <2> HIDE DEF Changed
  <2>2. QED
    BY <1>6, <2>1 DEF Statuses
<1>7. CASE m.method = "enterGracePeriod"
  <2>1. Changed(s, m) = [status |-> "grace_period", tier |-> s.tier,
                         scheduledTier |-> s.scheduledTier,
                         cancelAtPeriodEnd |-> s.cancelAtPeriodEnd,
                         trialEnd |-> s.trialEnd, gracePeriodEnd |-> now + GraceDays]
    BY <1>7 DEF InGrace
  <2>2. now + GraceDays \in NullTime /\ now + GraceDays # Null
    OBVIOUS
  <2> HIDE DEF Changed
  <2>3. QED
    BY <1>7, <2>1, <2>2 DEF Statuses
<1>8. QED
  BY <1>1, <1>2, <1>3, <1>4, <1>5, <1>6, <1>7

\* A request or a webhook that begins keeps the invariant.
LEMMA BeginKeeps ==
  ASSUME RowInv, NEW c \in Callers, NEW m \in Call, Begin(c, m),
         m.method \in {"open", "changePlan", "cancel", "reactivate", "pause",
                       "resume", "renew", "enterGracePeriod", "expire"}
  PROVE  RowInv'
<1> USE DEF RowInv
<1>1. /\ at' = [at EXCEPT ![c] = "load"] /\ call' = [call EXCEPT ![c] = m]
      /\ UNCHANGED <<row, history, trials, now, entity, base, mixed>> /\ at[c] = "idle"
  BY DEF Begin
<1>2. disturbances' \in 0..MaxDisturbances /\ (Undisturbed' => Undisturbed /\ Quiet)
  BY DEF Begin, Overlap, Disturb, Undisturbed, SubscriptionTypeOK
<1>3. at'[c] = "load" /\ call'[c] = m /\ Alone(c)
  BY <1>1 DEF SubscriptionTypeOK, Alone
<1>4. SubscriptionTypeOK'
  BY <1>1, <1>2 DEF SubscriptionTypeOK
<1>5. TemporaryAccessEnds' /\ SavesEnd' /\ Loading'
  BY <1>1, <1>3 DEF TemporaryAccessEnds, AccessEnds, SavesEnd, Unsaved, Loading, Alone
<1>6. OneAtATime' /\ RereadIsRow'
  BY <1>2, <1>3 DEF OneAtATime, RereadIsRow, Quiet, Alone
<1>7. HistoryFollows'
  BY <1>1, <1>2, <1>3 DEF HistoryFollows, Recorded, Quiet, Alone, Writing
<1>8. TrialFirst' /\ OneTrial' /\ TierDue'
  BY <1>1, <1>2, <1>3 DEF TrialFirst, Unsaved, OneTrial, NeverTwoTrials, TierDue, Quiet, Alone
<1>9. QED
  BY <1>4, <1>5, <1>6, <1>7, <1>8

\* A request keeps the invariant.
LEMMA RequestKeeps ==
  ASSUME RowInv, NEW c \in Callers, Request(c)
  PROVE  RowInv'
<1>1. PICK m \in {"open", "changePlan", "cancel", "reactivate", "pause", "resume"} :
        \E tier \in (IF m \in {"open", "changePlan"} THEN Tiers ELSE {Null}),
           flag \in (IF m \in {"open", "changePlan", "cancel"} THEN BOOLEAN ELSE {FALSE}),
           coupon \in (IF m = "open" THEN BOOLEAN ELSE {FALSE}) :
          Begin(c, [method |-> m, tier |-> tier, flag |-> flag, coupon |-> coupon,
                    inserts |-> FALSE])
  BY DEF Request
<1>2. PICK tier \in Tiers \cup {Null}, flag \in BOOLEAN, coupon \in BOOLEAN :
        Begin(c, [method |-> m, tier |-> tier, flag |-> flag, coupon |-> coupon,
                  inserts |-> FALSE])
  BY <1>1
<1> DEFINE n == [method |-> m, tier |-> tier, flag |-> flag, coupon |-> coupon,
                 inserts |-> FALSE]
<1>3. n \in Call /\ n.method = m
  BY DEF Call, Methods
<1>4. Begin(c, n)
  BY <1>2
<1> HIDE DEF n
<1>5. QED
  BY <1>3, <1>4, BeginKeeps

\* A webhook keeps the invariant.
LEMMA WebhookKeeps ==
  ASSUME RowInv, NEW c \in Callers, Webhook(c)
  PROVE  RowInv'
<1>1. PICK m \in {"renew", "enterGracePeriod", "expire"} :
        Begin(c, [NoCall EXCEPT !.method = m])
  BY DEF Webhook
<1> DEFINE n == [NoCall EXCEPT !.method = m]
<1>2. n \in Call /\ n.method = m
  BY DEF Call, NoCall, Methods, Null
<1>3. Begin(c, n)
  BY <1>1
<1> HIDE DEF n
<1>4. QED
  BY <1>2, <1>3, BeginKeeps

\* A sweep that selects the row keeps the invariant.
LEMMA SweepKeeps ==
  ASSUME RowInv, NEW c \in Callers, Sweep(c)
  PROVE  RowInv'
<1> USE DEF RowInv
<1> DEFINE e == [row EXCEPT !.status = "expired"]
           n == [NoCall EXCEPT !.method = "sweep"]
<1>1. /\ at' = [at EXCEPT ![c] = "save"] /\ call' = [call EXCEPT ![c] = n]
      /\ entity' = [entity EXCEPT ![c] = e]
      /\ UNCHANGED <<row, history, trials, now, base, mixed>> /\ at[c] = "idle"
  BY DEF Sweep
<1>2. disturbances' \in 0..MaxDisturbances /\ (Undisturbed' => Undisturbed /\ Quiet)
  BY DEF Sweep, Overlap, Disturb, Undisturbed, SubscriptionTypeOK
<1>3. n \in Call /\ n.method = "sweep"
  BY DEF Call, NoCall, Methods, Null
<1>4. e \in Subscription /\ e.status = "expired" /\ e.tier = row.tier
  BY DEF SubscriptionTypeOK, Subscription, Statuses
<1> HIDE DEF e, n
<1>5. at'[c] = "save" /\ call'[c] = n /\ entity'[c] = e /\ Alone(c)
  BY <1>1 DEF SubscriptionTypeOK, Alone
<1>6. SubscriptionTypeOK'
  BY <1>1, <1>2, <1>3, <1>4 DEF SubscriptionTypeOK
<1>7. TemporaryAccessEnds' /\ SavesEnd' /\ Loading'
  BY <1>1, <1>4, <1>5 DEF TemporaryAccessEnds, AccessEnds, SavesEnd, Unsaved, Ends, Loading, Alone
<1>8. OneAtATime' /\ RereadIsRow'
  BY <1>2, <1>5 DEF OneAtATime, RereadIsRow, Quiet, Alone
<1>9. HistoryFollows'
  BY <1>1, <1>2, <1>5 DEF HistoryFollows, Recorded, Quiet, Alone, Writing
<1>10. TrialFirst' /\ OneTrial' /\ TierDue'
  BY <1>1, <1>2, <1>3, <1>4, <1>5
  DEF TrialFirst, Unsaved, OneTrial, NeverTwoTrials, TierDue, Quiet, Alone
<1>11. QED
  BY <1>6, <1>7, <1>8, <1>9, <1>10

\* So does a call that reads the row and changes it in memory.
LEMMA LoadKeeps ==
  ASSUME RowInv, NEW c \in Callers, Load(c)
  PROVE  RowInv'
<1> USE DEF RowInv
<1> DEFINE e == Changed(row, call[c])
           n == [NoCall EXCEPT !.method = call[c].method, !.inserts = (row.status = "none")]
<1>1. /\ at' = [at EXCEPT ![c] = "save"] /\ call' = [call EXCEPT ![c] = n]
      /\ entity' = [entity EXCEPT ![c] = e]
      /\ UNCHANGED <<row, history, trials, now, base, mixed, disturbances>> /\ at[c] = "load"
  BY DEF Load
<1>2. call[c] \in Call /\ row \in Subscription /\ now \in 1..MaxTime /\ trials \in Nat
  BY DEF SubscriptionTypeOK
<1>3. ~mixed => Ends(row)
  BY DEF TemporaryAccessEnds, AccessEnds, Ends
<1>4. call[c].method \in {"open", "changePlan", "cancel", "reactivate", "pause", "resume",
                          "renew", "enterGracePeriod", "expire"}
  BY <1>1 DEF Loading
<1>5. n \in Call /\ n.method = call[c].method
  BY <1>2 DEF Call, NoCall, Null
<1>6. /\ e \in Subscription /\ (~mixed => Ends(e))
      /\ call[c].method = "open" /\ e.status = "trialing" => trials = 0
      /\ e.tier # row.tier =>
           \/ call[c].method = "open"
           \/ call[c].method = "changePlan" /\ e.tier > row.tier
           \/ call[c].method = "renew" /\ e.tier = row.scheduledTier
  BY <1>2, <1>3, <1>4, ChangedKeeps
<1> HIDE DEF e, n
<1>7. at'[c] = "save" /\ call'[c] = n /\ entity'[c] = e /\ Alone(c)
  BY <1>1 DEF SubscriptionTypeOK, Alone
<1>8. SubscriptionTypeOK'
  BY <1>1, <1>5, <1>6 DEF SubscriptionTypeOK
<1>9. TemporaryAccessEnds' /\ Loading'
  BY <1>1, <1>7 DEF TemporaryAccessEnds, AccessEnds, Loading, Alone
<1>10. SavesEnd'
  BY <1>1, <1>3, <1>6, <1>7 DEF SavesEnd, Unsaved, Ends, Alone
<1>11. OneAtATime' /\ RereadIsRow'
  BY <1>1, <1>7 DEF OneAtATime, RereadIsRow, Undisturbed, Alone
<1>12. HistoryFollows'
  BY <1>1, <1>7 DEF HistoryFollows, Undisturbed, Recorded, Alone, Writing
<1>13. TrialFirst' /\ OneTrial'
  BY <1>1, <1>5, <1>6, <1>7 DEF TrialFirst, Unsaved, OneTrial, NeverTwoTrials, Undisturbed, Alone
<1>14. TierDue'
  BY <1>1, <1>5, <1>6, <1>7 DEF TierDue, Unsaved, Undisturbed, Alone
<1>15. QED
  BY <1>8, <1>9, <1>10, <1>11, <1>12, <1>13, <1>14

\* A call that ends before its row is saved, or fails wherever it is, keeps
\* the invariant: the history is behind only if it fails after the save.
LEMMA GiveUpKeeps ==
  ASSUME RowInv, NEW c \in Callers, End(c), UNCHANGED <<row, history, trials, now, mixed>>,
         \/ at[c] \notin Writing /\ UNCHANGED disturbances
         \/ Disturb
  PROVE  RowInv'
<1> USE DEF RowInv
<1>1. disturbances' \in 0..MaxDisturbances /\ (Undisturbed' => Undisturbed /\ at[c] \notin Writing)
  BY DEF SubscriptionTypeOK, Undisturbed, Disturb
<1>2. /\ at' \in [Callers -> Steps] /\ call' \in [Callers -> Call]
      /\ entity' \in [Callers -> Subscription] /\ base' \in [Callers -> Subscription]
      /\ at'[c] = "idle" /\ Alone(c)
  BY EndKeeps
<1>3. SubscriptionTypeOK'
  BY <1>1, <1>2 DEF SubscriptionTypeOK, Steps
<1>4. TemporaryAccessEnds' /\ SavesEnd' /\ Loading'
  BY <1>2 DEF TemporaryAccessEnds, AccessEnds, SavesEnd, Unsaved, Loading, Alone
<1>5. OneAtATime' /\ RereadIsRow'
  BY <1>1, <1>2 DEF OneAtATime, RereadIsRow, Alone
<1>6. HistoryFollows'
  BY <1>1, <1>2 DEF HistoryFollows, Recorded, Alone, Writing
<1>7. TrialFirst' /\ OneTrial' /\ TierDue'
  BY <1>1, <1>2 DEF TrialFirst, Unsaved, OneTrial, NeverTwoTrials, TierDue, Alone
<1>8. QED
  BY <1>3, <1>4, <1>5, <1>6, <1>7

\* An update against the row as it is makes it the entity.
LEMMA PatchedIsEntity ==
  ASSUME NEW r \in Subscription, NEW e \in Subscription
  PROVE  Patched(r, r, e) = e
<1>1. DOMAIN r = DOMAIN e
  BY DEF Subscription
<1>2. e = [k \in DOMAIN e |-> e[k]]
  BY DEF Subscription
<1>3. Patched(r, r, e) = [k \in DOMAIN e |-> e[k]]
  BY <1>1 DEF Patched
<1>4. QED
  BY <1>2, <1>3

\* In any case the update leaves a subscription.
LEMMA PatchedKeeps ==
  ASSUME NEW r \in Subscription, NEW b \in Subscription, NEW e \in Subscription
  PROVE  Patched(r, b, e) \in Subscription
BY DEF Patched, Subscription

\* The first statement of a save keeps the invariant.
LEMMA RereadKeeps ==
  ASSUME RowInv, NEW c \in Callers, Reread(c)
  PROVE  RowInv'
<1> USE DEF RowInv
<1>1. /\ at' = [at EXCEPT ![c] = "update"] /\ base' = [base EXCEPT ![c] = row]
      /\ UNCHANGED <<row, history, trials, now, call, entity, mixed, disturbances>>
      /\ at[c] = "save"
  BY DEF Reread
<1>2. at'[c] = "update" /\ base'[c] = row /\ Alone(c)
  BY <1>1 DEF SubscriptionTypeOK, Alone
<1>3. SubscriptionTypeOK'
  BY <1>1 DEF SubscriptionTypeOK
<1>4. TemporaryAccessEnds' /\ SavesEnd' /\ Loading'
  BY <1>1, <1>2 DEF TemporaryAccessEnds, AccessEnds, SavesEnd, Unsaved, Ends, Loading, Alone
<1>5. OneAtATime' /\ RereadIsRow'
  BY <1>1, <1>2 DEF OneAtATime, RereadIsRow, Undisturbed, Alone
<1>6. HistoryFollows'
  BY <1>1, <1>2 DEF HistoryFollows, Undisturbed, Recorded, Alone, Writing
<1>7. TrialFirst' /\ OneTrial' /\ TierDue'
  BY <1>1, <1>2 DEF TrialFirst, Unsaved, OneTrial, NeverTwoTrials, TierDue, Undisturbed, Alone
<1>8. QED
  BY <1>3, <1>4, <1>5, <1>6, <1>7

\* What the last statement of a save writes.
LEMMA WrittenRow ==
  ASSUME RowInv, NEW c \in Callers, InsertRow(c) \/ Update(c)
  PROVE  /\ row' \in Subscription /\ mixed' \in BOOLEAN
         /\ at[c] \in Unsaved /\ Saved(c)
         /\ UNCHANGED <<history, trials, now, call, disturbances>>
         /\ ~mixed' => ~mixed /\ row' = entity[c]
         /\ Undisturbed => row' = entity[c]
<1> USE DEF RowInv, SubscriptionTypeOK, Unsaved
<1>1. CASE InsertRow(c)
  BY <1>1 DEF InsertRow
<1>2. CASE Update(c)
  <2>1. Patched(row, base[c], entity[c]) \in Subscription
    BY PatchedKeeps
  <2>2. row = base[c] => Patched(row, base[c], entity[c]) = entity[c]
    BY PatchedIsEntity
  <2>3. Undisturbed => row = base[c]
    BY <1>2 DEF Update, RereadIsRow
  <2>4. /\ row' = Patched(row, base[c], entity[c]) /\ mixed' = (mixed \/ row # base[c])
        /\ at[c] = "update" /\ Saved(c)
        /\ UNCHANGED <<history, trials, now, call, disturbances>>
    BY <1>2 DEF Update
  <2>5. mixed' \in BOOLEAN
    BY <2>4
  <2>6. ~mixed' => ~mixed /\ row = base[c]
    BY <2>4
  <2>7. QED
    BY <2>1, <2>2, <2>3, <2>4, <2>5, <2>6
<1>3. QED
  BY <1>1, <1>2

\* The last statement of a save keeps the invariant.
LEMMA SaveKeeps ==
  ASSUME RowInv, NEW c \in Callers, InsertRow(c) \/ Update(c)
  PROVE  RowInv'
<1> USE DEF RowInv
<1> DEFINE e == [NoRow EXCEPT !.status = entity[c].status, !.tier = entity[c].tier]
           next == IF call[c].method = "open" /\ entity[c].status = "trialing"
                     THEN "recordTrial" ELSE "record"
<1>1. /\ at' = [at EXCEPT ![c] = next] /\ entity' = [entity EXCEPT ![c] = e]
      /\ base' = [base EXCEPT ![c] = NoRow]
      /\ UNCHANGED <<history, trials, now, call, disturbances>> /\ at[c] \in Unsaved
      /\ row' \in Subscription /\ mixed' \in BOOLEAN
      /\ ~mixed' => ~mixed /\ row' = entity[c]
      /\ Undisturbed => row' = entity[c]
  BY WrittenRow DEF Saved
<1>2. entity[c] \in Subscription
  BY DEF SubscriptionTypeOK
<1>3. /\ e \in Subscription /\ e.status = entity[c].status /\ e.tier = entity[c].tier
      /\ NoRow \in Subscription
  <2>1. entity[c].status \in Statuses /\ entity[c].tier \in Tiers \cup {Null}
    BY <1>2 DEF Subscription
  <2>2. NoRow \in Subscription
    BY DEF NoRow, Null, NullTime, Subscription, Statuses
  <2>3. QED
    BY <2>1, <2>2 DEF Subscription
<1>4. next \in Writing
  BY DEF Writing
<1>5. next = "recordTrial" => call[c].method = "open" /\ entity[c].status = "trialing"
  OBVIOUS
<1> HIDE DEF e, next
<1>6. at'[c] = next /\ entity'[c] = e /\ Alone(c)
  BY <1>1 DEF SubscriptionTypeOK, Alone
<1>7. SubscriptionTypeOK'
  BY <1>1, <1>2, <1>3, <1>4 DEF SubscriptionTypeOK, Writing
<1>8. TemporaryAccessEnds'
  BY <1>1 DEF TemporaryAccessEnds, AccessEnds, SavesEnd, Ends
<1>9. SavesEnd' /\ Loading'
  BY <1>1, <1>4, <1>6 DEF SavesEnd, Unsaved, Ends, Loading, Writing, Alone
<1>10. OneAtATime'
  BY <1>1, <1>6 DEF OneAtATime, Undisturbed, Alone, Unsaved
<1>11. Undisturbed' => Undisturbed /\ \A d \in Callers \ {c} : at'[d] = "idle"
  BY <1>1, <1>6 DEF OneAtATime, Undisturbed, Alone, Unsaved
<1>12. RereadIsRow' /\ HistoryFollows'
  BY <1>1, <1>3, <1>4, <1>6, <1>11 DEF RereadIsRow, HistoryFollows, Writing
<1>13. TrialFirst' /\ OneTrial'
  BY <1>1, <1>4, <1>5, <1>6, <1>11 DEF TrialFirst, Unsaved, OneTrial, NeverTwoTrials, Writing
<1>14. TierDue'
  BY <1>4, <1>6, <1>11 DEF TierDue, Unsaved, Writing
<1>15. QED
  BY <1>7, <1>8, <1>9, <1>10, <1>12, <1>13, <1>14

\* Recording the start of a trial keeps the invariant.
LEMMA RecordTrialKeeps ==
  ASSUME RowInv, NEW c \in Callers, RecordTrial(c)
  PROVE  RowInv'
<1> USE DEF RowInv
<1>1. /\ at' = [at EXCEPT ![c] = "record"] /\ trials' = trials + 1
      /\ UNCHANGED <<row, history, now, call, entity, base, mixed, disturbances>>
      /\ at[c] = "recordTrial"
  BY DEF RecordTrial
<1>2. at'[c] = "record" /\ Alone(c)
  BY <1>1 DEF SubscriptionTypeOK, Alone
<1>3. SubscriptionTypeOK'
  BY <1>1 DEF SubscriptionTypeOK
<1>4. TemporaryAccessEnds' /\ SavesEnd' /\ Loading'
  BY <1>1, <1>2 DEF TemporaryAccessEnds, AccessEnds, SavesEnd, Unsaved, Loading, Alone
<1>5. OneAtATime' /\ RereadIsRow'
  BY <1>1, <1>2 DEF OneAtATime, RereadIsRow, Undisturbed, Alone
<1>6. Undisturbed' => Undisturbed /\ \A d \in Callers \ {c} : at'[d] = "idle"
  BY <1>1, <1>2 DEF OneAtATime, RereadIsRow, Undisturbed, Alone
<1>7. HistoryFollows'
  BY <1>1, <1>2, <1>6 DEF HistoryFollows, Writing
<1>8. TrialFirst' /\ OneTrial' /\ TierDue'
  BY <1>1, <1>2, <1>6 DEF TrialFirst, Unsaved, OneTrial, NeverTwoTrials, TierDue, SubscriptionTypeOK
<1>9. QED
  BY <1>3, <1>4, <1>5, <1>7, <1>8

\* Writing the history keeps the invariant.
LEMMA RecordKeeps ==
  ASSUME RowInv, NEW c \in Callers, Record(c)
  PROVE  RowInv'
<1> USE DEF RowInv
<1>1. /\ history' = Recorded(entity[c]) /\ UNCHANGED <<row, trials, now, mixed, disturbances>>
      /\ End(c) /\ at[c] = "record"
  BY DEF Record
<1>2. /\ at' \in [Callers -> Steps] /\ call' \in [Callers -> Call]
      /\ entity' \in [Callers -> Subscription] /\ base' \in [Callers -> Subscription]
      /\ at'[c] = "idle" /\ Alone(c)
  BY <1>1, EndKeeps
<1>3. SubscriptionTypeOK'
  BY <1>1, <1>2 DEF SubscriptionTypeOK, Steps, Recorded, Subscription
<1>4. TemporaryAccessEnds' /\ SavesEnd' /\ Loading'
  BY <1>1, <1>2 DEF TemporaryAccessEnds, AccessEnds, SavesEnd, Unsaved, Loading, Alone
<1>5. OneAtATime' /\ RereadIsRow'
  BY <1>1, <1>2 DEF OneAtATime, RereadIsRow, Undisturbed, Alone
<1>6. Undisturbed' => Undisturbed /\ \A d \in Callers : at'[d] = "idle"
  BY <1>1, <1>2 DEF OneAtATime, RereadIsRow, Undisturbed, Alone
<1>7. HistoryFollows'
  BY <1>1, <1>6 DEF HistoryFollows, Recorded, Writing
<1>8. TrialFirst' /\ OneTrial' /\ TierDue'
  BY <1>1, <1>6 DEF TrialFirst, Unsaved, OneTrial, NeverTwoTrials, Undisturbed, TierDue
<1>9. QED
  BY <1>3, <1>4, <1>5, <1>7, <1>8

\* The passing of time and stuttering keep the invariant.
LEMMA TickKeeps ==
  ASSUME RowInv, Tick \/ UNCHANGED subscriptionVars
  PROVE  RowInv'
<1> USE DEF RowInv, Tick, subscriptionVars
<1>1. /\ UNCHANGED <<row, history, trials, at, call, entity, base, mixed, disturbances>>
      /\ now' \in 1..MaxTime
  BY DEF SubscriptionTypeOK
<1>2. SubscriptionTypeOK'
  BY <1>1 DEF SubscriptionTypeOK
<1>3. TemporaryAccessEnds' /\ SavesEnd' /\ Loading' /\ OneAtATime' /\ RereadIsRow'
  BY <1>1 DEF TemporaryAccessEnds, AccessEnds, SavesEnd, Unsaved, Ends,
              Loading, OneAtATime, RereadIsRow, Undisturbed
<1>4. HistoryFollows' /\ TrialFirst' /\ OneTrial' /\ TierDue'
  BY <1>1 DEF HistoryFollows, Recorded, TrialFirst, Unsaved, OneTrial,
              NeverTwoTrials, TierDue, Undisturbed
<1>5. QED
  BY <1>2, <1>3, <1>4

\* Every step keeps the invariant.
LEMMA NextRowInv == RowInv /\ [SubscriptionNext]_subscriptionVars => RowInv'
<1> SUFFICES ASSUME RowInv, [SubscriptionNext]_subscriptionVars PROVE RowInv'
  OBVIOUS
<1>1. ASSUME NEW c \in Users, Request(c) PROVE RowInv'
  BY <1>1, RequestKeeps DEF Callers
<1>2. ASSUME NEW c \in Background, Webhook(c) \/ Sweep(c) PROVE RowInv'
  BY <1>2, WebhookKeeps, SweepKeeps DEF Callers
<1>3. ASSUME NEW c \in Callers, Step(c) PROVE RowInv'
  <2>1. CASE Load(c)
    BY <2>1, LoadKeeps
  <2>2. CASE LoadRefused(c) \/ InsertRejected(c)
    BY <2>2, GiveUpKeeps DEF LoadRefused, InsertRejected, Writing
  <2>3. CASE InsertRow(c) \/ Update(c)
    BY <2>3, SaveKeeps
  <2>4. CASE RecordTrial(c)
    BY <2>4, RecordTrialKeeps
  <2>5. CASE Record(c)
    BY <2>5, RecordKeeps
  <2>6. CASE Reread(c)
    BY <2>6, RereadKeeps
  <2>7. QED
    BY <1>3, <2>1, <2>2, <2>3, <2>4, <2>5, <2>6 DEF Step
<1>4. ASSUME NEW c \in Fallible, Fail(c) PROVE RowInv'
  BY <1>4, GiveUpKeeps DEF Fail, Callers
<1>5. CASE Tick \/ UNCHANGED subscriptionVars
  BY <1>5, TickKeeps
<1>6. QED
  BY <1>1, <1>2, <1>3, <1>4, <1>5 DEF SubscriptionNext

\* The invariant holds in every reachable state.
LEMMA RowInvariance == SubscriptionSpec => []RowInv
BY InitRowInv, NextRowInv, PTL DEF SubscriptionSpec
-----------------------------------------------------------------------------
\* Every variable keeps its type, whichever methods of SubscriptionService and
\* TrialService overlap or fail.
THEOREM SubscriptionTypeCorrect == SubscriptionSpec => []SubscriptionTypeOK
<1>1. RowInv => SubscriptionTypeOK
  BY DEF RowInv
<1>2. QED
  BY <1>1, RowInvariance, PTL

\* As long as calls neither overlap nor fail half-way, the newest history row
\* tells the state of the subscription whenever no call is in flight:
\* SubscriptionService.recordEvent misses no transition.
THEOREM HistoryAlwaysExplains == SubscriptionSpec => []HistoryExplainsRow
<1>1. RowInv => HistoryExplainsRow
  BY DEF RowInv, HistoryExplainsRow, HistoryFollows, Quiet, Recorded, Writing
<1>2. QED
  BY <1>1, RowInvariance, PTL

\* Of checkouts that do not overlap, at most one starts a trial, however many
\* subscriptions the user cancels and opens anew: SubscriptionService.open.
THEOREM AtMostOneTrial == SubscriptionSpec => []OneTrial
<1>1. RowInv => OneTrial
  BY DEF RowInv
<1>2. QED
  BY <1>1, RowInvariance, PTL

\* A trial and a grace period have an end, however calls overlap or fail: open
\* and enterGracePeriod set one, and no save of an entity read long ago loses
\* it.  Only a save that comes between the two statements of another can.
THEOREM TemporaryAccessAlwaysEnds == SubscriptionSpec => []TemporaryAccessEnds
<1>1. RowInv => TemporaryAccessEnds
  BY DEF RowInv
<1>2. QED
  BY <1>1, RowInvariance, PTL

\* Only saves change the row.
LEMMA OnlySavesWrite ==
  ASSUME [SubscriptionNext]_subscriptionVars, row' # row
  PROVE  \E c \in Callers : InsertRow(c) \/ Update(c)
BY DEF SubscriptionNext, Request, Webhook, Begin, Sweep, Step, Load, LoadRefused, InsertRejected,
       Reread, RecordTrial, Record, Fail, Tick, subscriptionVars

\* As long as calls neither overlap nor fail, the tier changes only by a
\* checkout, by an upgrade, or by a renewal to the tier that was scheduled:
\* SubscriptionService.changePlan and renew.
THEOREM TierChangesAlwaysDue == SubscriptionSpec => TierChangesWhenDue
<1>1. ASSUME RowInv, [SubscriptionNext]_subscriptionVars PROVE [Undisturbed => DueTierChange]_subscriptionVars
  <2> SUFFICES ASSUME Undisturbed, row'.tier # row.tier
               PROVE  \E c \in Callers : Saving(c) /\
                        \/ call[c].method = "open"
                        \/ call[c].method = "changePlan" /\ row'.tier > row.tier
                        \/ call[c].method = "renew" /\ row'.tier = row.scheduledTier
    BY DEF DueTierChange
  <2>1. PICK c \in Callers : InsertRow(c) \/ Update(c)
    BY <1>1, OnlySavesWrite
  <2>2. row' = entity[c] /\ at[c] \in Unsaved /\ Saved(c)
    BY <1>1, <2>1, WrittenRow
  <2>3. Saving(c)
    BY <1>1, <2>2 DEF Saved, Saving, Unsaved, RowInv, SubscriptionTypeOK
  <2>4. QED
    BY <1>1, <2>2, <2>3 DEF RowInv, TierDue
<1>2. QED
  BY <1>1, RowInvariance, PTL DEF SubscriptionSpec, TierChangesWhenDue
=============================================================================

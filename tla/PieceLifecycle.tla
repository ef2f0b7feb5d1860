---------------------------- MODULE PieceLifecycle ----------------------------
(***************************************************************************)
(* The life of a piece: the status transitions of pieces.service.ts, the   *)
(* scheduled-publish worker that drives them from a clock, and the         *)
(* author's denormalized pieces_count.                                     *)
(*                                                                         *)
(* A service call reads the row, checks it, then opens a transaction whose *)
(* UPDATE writes fixed columns whatever the row has become meanwhile.      *)
(* adjustPublishedCount is called inside that transaction but runs on a    *)
(* connection of its own, so it commits by itself.  Each of these          *)
(* statements is a step; steps of author requests, moderator requests and  *)
(* worker jobs interleave.  Transactions and statements take connections   *)
(* from one pool.                                                          *)
(***************************************************************************)
EXTENDS Integers, FiniteSets

CONSTANTS Pieces,      \* pieces of one author
          Clients,     \* processes that serve author and moderator requests
          Workers,     \* processes that run scheduled-publish and purge jobs
          Fallible,    \* processes that may crash
          MaxTime,     \* the clock runs from 1 to MaxTime; 0 is SQL NULL
          SweepLimit,  \* LIMIT of the due query (100)
          Attempts,    \* attempts of a publish-one job (5)
          PoolSizes,   \* connections of the database pool: the sizes considered
          CountCap,    \* bound: beyond it no request that could move the count
          None         \* nobody holds the row

ASSUME LifecycleConstants ==
  /\ Pieces # {}
  /\ {MaxTime, SweepLimit, Attempts} \cup PoolSizes \subseteq Nat \ {0}
  /\ CountCap \in Nat
  /\ Fallible \subseteq Clients \cup Workers
  /\ None \notin Clients \cup Workers

VARIABLES row,      \* row[p]: the committed pieces row
          count,    \* the author's profiles.pieces_count
          emitted,  \* emitted[p]: PiecePublished events emitted for p
          job,      \* job[p]: the BullMQ job with jobId publish:p
          now,      \* the clock
          holder,   \* holder[p]: the process whose transaction locks row p
          pc,       \* pc[c]: the statement process c executes next
          task,     \* task[c]: the call c is executing
          seen,     \* seen[c]: the entity c has loaded, then the row it writes
          due,      \* due[c]: pieces the sweep of c has still to publish
          pool      \* the configured size of the connection pool

vars == <<row, count, emitted, job, now, holder, pc, task, seen, due, pool>>

Procs == Clients \cup Workers
Null == 0
Times == 1..MaxTime

Statuses == {"none", "draft", "scheduled", "published", "archived", "purged"}
Row == [status : Statuses, scheduledAt : {Null} \cup Times,
        publishedAt : {Null} \cup Times, complete : BOOLEAN, deleted : BOOLEAN]

\* The owner-scoped service methods, and the entry points that delegate to one.
OwnerOps == {"publish", "schedule", "update", "delete", "archive", "unarchive"}
Delegates == {"hide", "restore", "remove", "publishOne"}
Task == [op : OwnerOps \cup Delegates \cup {"none"}, piece : Pieces,
         at : {Null} \cup Times, complete : BOOLEAN,
         source : {"request", "job", "sweep"}, delta : {-1, 0, 1}]
Job == [state : {"none", "waiting", "active", "kept"}, at : {Null} \cup Times,
        tries : 0..(Attempts - 1)]
Phases == {"idle", "check", "checkDeleted", "load", "begin", "write", "count",
           "commit", "emit", "enqueue", "next"}

TypeOK ==
  /\ row \in [Pieces -> Row]
  /\ count \in Int
  /\ emitted \in [Pieces -> Nat]
  /\ job \in [Pieces -> Job]
  /\ now \in Times
  /\ holder \in [Pieces -> Procs \cup {None}]
  /\ pc \in [Procs -> Phases]
  /\ task \in [Procs -> Task]
  /\ seen \in [Procs -> Row]
  /\ due \in [Procs -> SUBSET Pieces]
  /\ pool \in PoolSizes

NoRow == [status |-> "none", scheduledAt |-> Null, publishedAt |-> Null,
          complete |-> FALSE, deleted |-> FALSE]
NoJob == [state |-> "none", at |-> Null, tries |-> 0]
NoTask == [op |-> "none", piece |-> CHOOSE p \in Pieces : TRUE, at |-> Null,
           complete |-> FALSE, source |-> "request", delta |-> 0]

Init ==
  /\ row = [p \in Pieces |-> NoRow]
  /\ count = 0
  /\ emitted = [p \in Pieces |-> 0]
  /\ job = [p \in Pieces |-> NoJob]
  /\ now = 1
  /\ holder = [p \in Pieces |-> None]
  /\ pc = [c \in Procs |-> "idle"]
  /\ task = [c \in Procs |-> NoTask]
  /\ seen = [c \in Procs |-> NoRow]
  /\ due = [c \in Procs |-> {}]
  /\ pool \in PoolSizes
-----------------------------------------------------------------------------
Exists(p) == row[p].status \notin {"none", "purged"}
Live(p) == Exists(p) /\ ~row[p].deleted

\* A transaction holds its connection from BEGIN to COMMIT.
Connected == {c \in Procs : pc[c] \in {"write", "count", "commit"}}
FreeConnection == Cardinality(Connected) < pool
NeedsConnection(c) ==
  \/ pc[c] \in {"check", "checkDeleted", "load", "begin", "count"}
  \/ pc[c] = "write" /\ task[c].op = "schedule"

Goto(c, p) == pc' = [pc EXCEPT ![c] = p]

\* The job record after an attempt: BullMQ keeps finished jobs for a while,
\* retries a failed one until its attempts are used up.
AfterAttempt(j, ok) ==
  IF ~ok /\ j.tries + 1 < Attempts
    THEN [j EXCEPT !.state = "waiting", !.tries = @ + 1]
    ELSE [j EXCEPT !.state = "kept"]

\* A sweep goes on with its other pieces when one of them fails.
AfterFailure(c) == due[c]

\* A call returns or throws; its sweep, if any, goes on.
EndOfCall(c, ok) ==
  LET rest == IF ok THEN due[c] ELSE AfterFailure(c) IN
  /\ due' = [due EXCEPT ![c] = rest]
  /\ pc' = [pc EXCEPT ![c] = IF rest # {} THEN "next" ELSE "idle"]
  /\ task' = [task EXCEPT ![c] = NoTask]
  /\ seen' = [seen EXCEPT ![c] = NoRow]
  /\ job' = IF task[c].source = "job"
              THEN [job EXCEPT ![task[c].piece] = AfterAttempt(@, ok)]
              ELSE job

\* Throwing out of a transaction rolls it back and unlocks the row.
Rollback(c) == holder' = [p \in Pieces |-> IF holder[p] = c THEN None ELSE holder[p]]
-----------------------------------------------------------------------------
\* createDraft, and duplicate, insert a fresh row.
CreateDraft(p) ==
  /\ row[p].status = "none"
  /\ \E complete \in BOOLEAN :
       row' = [row EXCEPT ![p] = [NoRow EXCEPT !.status = "draft", !.complete = complete]]
  /\ UNCHANGED <<count, emitted, job, now, holder, pc, task, seen, due, pool>>

\* A request arrives at an idle process; beyond CountCap only edits do.
Receive(c) ==
  /\ pc[c] = "idle"
  /\ \E p \in Pieces, op \in (OwnerOps \cup Delegates) \ {"publishOne"} :
       \E at \in (IF op = "schedule" THEN Times ELSE {Null}),
          complete \in (IF op = "update" THEN BOOLEAN ELSE {FALSE}) :
         /\ op = "update" \/ count \in -CountCap..CountCap
         /\ task' = [task EXCEPT ![c] = [NoTask EXCEPT !.op = op, !.piece = p, !.at = at,
                                                       !.complete = complete]]
         /\ Goto(c, IF op \in Delegates THEN "check" ELSE "load")
  /\ UNCHANGED <<row, count, emitted, job, now, holder, seen, due, pool>>

\* The due query: the SweepLimit oldest of the scheduled pieces whose time
\* has come.  Mutant: strictly before now.
DueBefore == {p \in Pieces : Live(p) /\ row[p].status = "scheduled" /\ row[p].scheduledAt < now}
DuePieces == {p \in Pieces : Live(p) /\ row[p].status = "scheduled" /\ row[p].scheduledAt <= now}
IsBatch(batch) ==
  /\ batch \subseteq DuePieces
  /\ Cardinality(batch) <= SweepLimit
  /\ \A p \in DuePieces \ batch :
       /\ Cardinality(batch) = SweepLimit
       /\ \A q \in batch : row[q].scheduledAt <= row[p].scheduledAt

\* The repeatable publish-due job.  An empty batch ends it at once.
StartSweep(c) ==
  /\ pc[c] = "idle" /\ FreeConnection
  /\ \E batch \in SUBSET Pieces \ {{}} :
       /\ IsBatch(batch)
       /\ due' = [due EXCEPT ![c] = batch]
  /\ Goto(c, "next")
  /\ UNCHANGED <<row, count, emitted, job, now, holder, task, seen, pool>>

\* The sweep publishes its pieces one after the other; each publish stands
\* alone, so the order within the batch is left open.
NextDue(c) ==
  /\ pc[c] = "next"
  /\ \E p \in due[c] :
       /\ due' = [due EXCEPT ![c] = @ \ {p}]
       /\ task' = [task EXCEPT ![c] = [NoTask EXCEPT !.op = "publish", !.piece = p,
                                                     !.source = "sweep"]]
  /\ Goto(c, "load")
  /\ UNCHANGED <<row, count, emitted, job, now, holder, seen, pool>>

\* A delayed publish-one job whose delay has passed.
StartJob(c, p) ==
  /\ pc[c] = "idle"
  /\ job[p].state = "waiting" /\ job[p].at <= now
  /\ job' = [job EXCEPT ![p].state = "active"]
  /\ task' = [task EXCEPT ![c] = [NoTask EXCEPT !.op = "publishOne", !.piece = p,
                                                !.source = "job"]]
  /\ Goto(c, "check")
  /\ UNCHANGED <<row, count, emitted, now, holder, seen, due, pool>>
-----------------------------------------------------------------------------
\* publishScheduledById's test.  Mutant: it does not look at the time.
DueIgnoringTime(p) == row[p].status = "scheduled"
IsDue(p) == row[p].status = "scheduled" /\ row[p].scheduledAt <= now

\* The method a delegating entry point calls after its own read of row p.
Delegated(op, p) ==
  CASE op = "hide" /\ row[p].status = "published"   -> "archive"
    [] op = "restore" /\ row[p].status = "archived" -> "unarchive"
    [] op = "remove"                                -> "delete"
    [] op = "publishOne" /\ IsDue(p)                -> "publish"
    [] OTHER                                        -> "none"

\* moderateHide, moderateRestore, moderateRemove and publishScheduledById
\* read the row and either hand over to the owner's path or do nothing.
Check(c) ==
  LET p == task[c].piece
      op == Delegated(task[c].op, p) IN
  /\ pc[c] = "check" /\ FreeConnection
  /\ Live(p) /\ op # "none"
  /\ task' = [task EXCEPT ![c].op = op]
  /\ Goto(c, "load")
  /\ UNCHANGED <<row, count, emitted, job, now, holder, seen, due, pool>>

CheckNothingToDo(c) ==
  LET p == task[c].piece IN
  /\ pc[c] = "check" /\ FreeConnection
  /\ IF Live(p) THEN Delegated(task[c].op, p) = "none" ELSE task[c].op # "restore"
  /\ EndOfCall(c, TRUE)
  /\ UNCHANGED <<row, count, emitted, now, holder, pool>>

\* moderateRestore found no live row and reads again, deleted rows included.
CheckMissing(c) ==
  /\ pc[c] = "check" /\ FreeConnection
  /\ ~Live(task[c].piece) /\ task[c].op = "restore"
  /\ Goto(c, "checkDeleted")
  /\ UNCHANGED <<row, count, emitted, job, now, holder, task, seen, due, pool>>

FindDeleted(c) ==
  /\ pc[c] = "checkDeleted" /\ FreeConnection
  /\ IF Exists(task[c].piece)
       THEN /\ seen' = [seen EXCEPT ![c] = row[task[c].piece]]
            /\ Goto(c, "begin")
            /\ UNCHANGED <<job, task, due>>
       ELSE EndOfCall(c, TRUE)
  /\ UNCHANGED <<row, count, emitted, now, holder, pool>>

\* Mutant of NotPublishable: a published piece may be published again.
NotComplete(s) == s.status = "archived" \/ ~s.complete

\* publish and schedule refuse a piece that is public already, archived or
\* incomplete (assertPublishable).
NotPublishable(s) == s.status \in {"published", "archived"} \/ ~s.complete

\* The errors method t.op throws on the entity s it loaded.
Refused(s, t) ==
  \/ t.op \in {"publish", "schedule"} /\ NotPublishable(s)
  \/ t.op = "schedule" /\ t.at <= now
  \/ t.op = "update" /\ s.status = "archived"
  \/ t.op = "archive" /\ s.status # "published"
  \/ t.op = "unarchive" /\ s.status # "archived"

\* loadOwned and the guards.
Load(c) ==
  LET t == task[c] IN
  /\ pc[c] = "load" /\ FreeConnection
  /\ Live(t.piece) /\ ~Refused(row[t.piece], t)
  /\ seen' = [seen EXCEPT ![c] = row[t.piece]]
  /\ Goto(c, IF t.op = "schedule" THEN "write" ELSE "begin")
  /\ UNCHANGED <<row, count, emitted, job, now, holder, task, due, pool>>

LoadRefused(c) ==
  LET t == task[c] IN
  /\ pc[c] = "load" /\ FreeConnection
  /\ ~Live(t.piece) \/ Refused(row[t.piece], t)
  /\ EndOfCall(c, FALSE)
  /\ UNCHANGED <<row, count, emitted, now, holder, pool>>
-----------------------------------------------------------------------------
\* Mutant of FirstPublished: publish does not fall back to the clock.
PublishedBefore(s) == s.publishedAt
\* A first publication time is kept.
FirstPublished(s) == IF s.publishedAt = Null THEN now ELSE s.publishedAt

\* Mutant of Unarchived: unarchiving counts as a new publication.
Republished(r) == [r EXCEPT !.status = "published", !.publishedAt = now]
Unarchived(r) == [r EXCEPT !.status = "published"]

\* The columns an UPDATE sets on row r, from the entity s loaded earlier.
Patch(r, s, t) ==
  CASE t.op = "publish"   -> [r EXCEPT !.status = "published", !.scheduledAt = Null,
                                       !.publishedAt = FirstPublished(s)]
    [] t.op = "schedule"  -> [r EXCEPT !.status = "scheduled", !.scheduledAt = t.at]
    [] t.op = "update"    -> [r EXCEPT !.complete = t.complete]
    [] t.op = "delete"    -> [r EXCEPT !.deleted = TRUE]
    [] t.op = "restore"   -> [r EXCEPT !.deleted = FALSE]
    [] t.op = "archive"   -> [r EXCEPT !.status = "archived"]
    [] t.op = "unarchive" -> Unarchived(r)

\* Mutant of Counted: a removed or restored draft counts as well.
AlwaysCounted(s) == 1
\* What the loaded piece contributes to the count.
Counted(s) == IF s.status = "published" THEN 1 ELSE 0

\* What the call adds to the count.
CountDelta(s, t) ==
  CASE t.op \in {"publish", "unarchive"} -> 1
    [] t.op = "archive"                  -> -1
    [] t.op = "delete"                   -> -Counted(s)
    [] t.op = "restore"                  -> Counted(s)
    [] OTHER                             -> 0

BeginTx(c) ==
  /\ pc[c] = "begin" /\ FreeConnection
  /\ Goto(c, "write")
  /\ UNCHANGED <<row, count, emitted, job, now, holder, task, seen, due, pool>>

\* The UPDATE of an open transaction waits for the row, then locks it.  A
\* purged row matches nothing and locks nothing.
Write(c) ==
  LET t == task[c]
      p == t.piece
      delta == CountDelta(seen[c], t) IN
  /\ pc[c] = "write" /\ t.op # "schedule"
  /\ holder[p] = None
  /\ IF Exists(p)
       THEN /\ seen' = [seen EXCEPT ![c] = Patch(row[p], seen[c], t)]
            /\ holder' = [holder EXCEPT ![p] = c]
       ELSE UNCHANGED <<seen, holder>>
  /\ task' = [task EXCEPT ![c].delta = delta]
  /\ Goto(c, IF delta = 0 THEN "commit" ELSE "count")
  /\ UNCHANGED <<row, count, emitted, job, now, due, pool>>

\* adjustPublishedCount: another connection, committed at once.
AdjustPublishedCount(c) ==
  /\ pc[c] = "count" /\ FreeConnection
  /\ count' = count + task[c].delta
  /\ Goto(c, "commit")
  /\ UNCHANGED <<row, emitted, job, now, holder, task, seen, due, pool>>

\* The write becomes visible; publish has an event left to emit.
Commit(c) ==
  LET p == task[c].piece IN
  /\ pc[c] = "commit"
  /\ row' = IF holder[p] = c THEN [row EXCEPT ![p] = seen[c]] ELSE row
  /\ Rollback(c)
  /\ IF task[c].op = "publish"
       THEN Goto(c, "emit") /\ UNCHANGED <<job, task, seen, due>>
       ELSE EndOfCall(c, TRUE)
  /\ UNCHANGED <<count, emitted, now, pool>>

Emit(c) ==
  /\ pc[c] = "emit"
  /\ emitted' = [emitted EXCEPT ![task[c].piece] = @ + 1]
  /\ EndOfCall(c, TRUE)
  /\ UNCHANGED <<row, count, now, holder, pool>>

\* schedule's UPDATE is a statement of its own, committed at once.
WriteSchedule(c) ==
  LET t == task[c]
      p == t.piece IN
  /\ pc[c] = "write" /\ t.op = "schedule" /\ FreeConnection
  /\ holder[p] = None
  /\ row' = IF Exists(p) THEN [row EXCEPT ![p] = Patch(row[p], seen[c], t)] ELSE row
  /\ Goto(c, "enqueue")
  /\ UNCHANGED <<count, emitted, job, now, holder, task, seen, due, pool>>

\* BullMQ ignores an add whose jobId it still knows.
AddJob(p, at) ==
  IF job[p].state = "none"
    THEN [job EXCEPT ![p] = [state |-> "waiting", at |-> at, tries |-> 0]]
    ELSE job

\* The delayed job of schedule; a failing enqueue is swallowed.
Enqueue(c) ==
  /\ pc[c] = "enqueue"
  /\ job' \in {AddJob(task[c].piece, task[c].at), job}
  /\ Goto(c, "idle")
  /\ task' = [task EXCEPT ![c] = NoTask]
  /\ seen' = [seen EXCEPT ![c] = NoRow]
  /\ UNCHANGED <<row, count, emitted, now, holder, due, pool>>
-----------------------------------------------------------------------------
\* Mutant of GiveUp: the statement is tried again within the transaction.
RetryStatement(c) == UNCHANGED <<holder, pc, task, seen, job, due>>
\* The statement throws: an open transaction rolls back, the call ends.
GiveUp(c) == Rollback(c) /\ EndOfCall(c, FALSE)

\* The pool hands out no connection within connectionTimeoutMillis.
ConnectionTimeout(c) ==
  /\ NeedsConnection(c) /\ ~FreeConnection
  /\ GiveUp(c)
  /\ UNCHANGED <<row, count, emitted, now, pool>>

\* The process dies: its transaction rolls back, an active job is picked up
\* again, the rest of a sweep is left to the next one.
Crash(c) ==
  /\ pc[c] # "idle"
  /\ Rollback(c)
  /\ pc' = [pc EXCEPT ![c] = "idle"]
  /\ task' = [task EXCEPT ![c] = NoTask]
  /\ seen' = [seen EXCEPT ![c] = NoRow]
  /\ due' = [due EXCEPT ![c] = {}]
  /\ job' = IF task[c].source = "job"
              THEN [job EXCEPT ![task[c].piece] = AfterAttempt(@, FALSE)]
              ELSE job
  /\ UNCHANGED <<row, count, emitted, now, pool>>

\* A maintenance job purges old tombstones, in one DELETE.
Purge(c, p) ==
  /\ pc[c] = "idle" /\ FreeConnection
  /\ row[p].deleted /\ Exists(p)
  /\ holder[p] = None
  /\ row' = [row EXCEPT ![p] = [NoRow EXCEPT !.status = "purged"]]
  /\ UNCHANGED <<count, emitted, job, now, holder, pc, task, seen, due, pool>>

\* BullMQ forgets a finished job once enough others finished after it.
ForgetJob(p) ==
  /\ job[p].state = "kept"
  /\ job' = [job EXCEPT ![p] = NoJob]
  /\ UNCHANGED <<row, count, emitted, now, holder, pc, task, seen, due, pool>>

Tick ==
  /\ now < MaxTime
  /\ now' = now + 1
  /\ UNCHANGED <<row, count, emitted, job, holder, pc, task, seen, due, pool>>

\* The next statement of a call that has begun.
Step(c) ==
  \/ Check(c) \/ CheckNothingToDo(c) \/ CheckMissing(c) \/ FindDeleted(c)
  \/ Load(c) \/ LoadRefused(c) \/ BeginTx(c) \/ Write(c)
  \/ AdjustPublishedCount(c) \/ Commit(c) \/ Emit(c)
  \/ WriteSchedule(c) \/ Enqueue(c) \/ NextDue(c) \/ ConnectionTimeout(c)

Next ==
  \/ \E p \in Pieces : CreateDraft(p) \/ ForgetJob(p)
  \/ \E c \in Clients : Receive(c)
  \/ \E c \in Workers : StartSweep(c) \/ \E p \in Pieces : StartJob(c, p) \/ Purge(c, p)
  \/ \E c \in Procs : Step(c)
  \/ \E c \in Fallible : Crash(c)
  \/ Tick

Spec == Init /\ [][Next]_vars

\* Time passes; BullMQ gives the repeatable sweep and every delayed job their
\* turn on the worker; a call in progress goes on, PostgreSQL and the pool
\* serving their waiters in turn.  Taking turns is strong fairness.
Fairness ==
  /\ WF_vars(Tick)
  /\ \A c \in Workers : SF_vars(StartSweep(c)) /\ \A p \in Pieces : SF_vars(StartJob(c, p))
  /\ \A c \in Procs : SF_vars(Step(c))
LiveSpec == Spec /\ Fairness
-----------------------------------------------------------------------------
Quiet == \A c \in Procs : pc[c] = "idle"
PublishedPieces == {p \in Pieces : Live(p) /\ row[p].status = "published"}

\* While nothing is in flight, profiles.pieces_count is the number of the
\* author's published pieces (calls do not overlap and nothing crashes).
CountExact == Quiet => count = Cardinality(PublishedPieces)

\* While nothing is in flight, PiecePublished has been emitted exactly once
\* for a piece that was ever published, and never for another: archiving,
\* restoring, rescheduling and repeated sweeps neither repeat nor lose it.
AnnouncedOnce ==
  Quiet => \A p \in Pieces : Exists(p) =>
             emitted[p] = (IF row[p].publishedAt = Null THEN 0 ELSE 1)

\* The pieces CHECK constraints never reject one of the UPDATEs, however the
\* calls interleave: a scheduled row has its time, a published (or archived,
\* hence restorable) row its publication time.
ChecksNeverFire ==
  \A p \in Pieces :
    /\ row[p].status = "scheduled" => row[p].scheduledAt # Null
    /\ row[p].status \in {"published", "archived"} => row[p].publishedAt # Null

\* Archiving, unarchiving, removing and restoring a piece keep its original
\* publication time, and it never becomes a draft or scheduled piece again.
PublicationIsPermanent ==
  [][\A p \in Pieces : row[p].publishedAt # Null /\ Exists(p)' =>
       /\ row'[p].publishedAt = row[p].publishedAt
       /\ row'[p].status \in {"published", "archived"}]_vars

\* The worker publishes a piece only when its schedule time has come.
NeverEarly ==
  [][\A c \in Procs : task[c].source # "request" /\ pc[c] = "commit" /\ pc'[c] = "emit" =>
       row[task[c].piece].scheduledAt <= now]_vars

\* What publishing a piece twice would look like.
NeverAnnouncedTwice == \A p \in Pieces : emitted[p] <= 1

\* The pending delayed job of a scheduled piece is set for the time the piece
\* is scheduled for: rescheduling has replaced an earlier one.
JobMatchesSchedule ==
  Quiet => \A p \in Pieces :
    Live(p) /\ row[p].status = "scheduled" /\ job[p].state = "waiting"
      => job[p].at = row[p].scheduledAt

\* publish takes a second connection for the count while its transaction holds
\* the first: one connection more than there are processes is enough for all.
AmplePool == pool > Cardinality(Procs)

\* A piece that stays scheduled, complete and undeleted is not stuck there, as
\* long as the pool is not too small for the calls that may be in flight.
NeverStuckScheduled ==
  \A p \in Pieces :
    ~ <>[](AmplePool /\ Live(p) /\ row[p].status = "scheduled" /\ row[p].complete)

\* Every call ends, whatever the others do and however small the pool.
EveryCallEnds == \A c \in Procs : pc[c] # "idle" ~> pc[c] = "idle"
=============================================================================

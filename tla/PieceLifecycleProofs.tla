------------------------- MODULE PieceLifecycleProofs -------------------------
(***************************************************************************)
(* Proofs about PieceLifecycle, for any sets of pieces and processes, any  *)
(* pool, and any interleaving of calls, jobs, sweeps, timeouts and crashes.*)
(* The exactness of the count and of the announcements is proved for one   *)
(* process and any number of pieces: with two it does not hold.            *)
(***************************************************************************)
EXTENDS PieceLifecycle, FiniteSetTheorems, TLAPS

USE LifecycleConstants

\* The CHECK constraints on a row, and: a row that was never inserted has no
\* publication time.
Sound(r) ==
  /\ r.status = "scheduled" => r.scheduledAt # Null
  /\ r.status \in {"published", "archived"} => r.publishedAt # Null

RowsSound == \A p \in Pieces :
  /\ Sound(row[p])
  /\ row[p].status = "none" => row[p].publishedAt = Null

\* Each statement belongs to the methods that execute it.
PlacedAt(c) ==
  /\ pc[c] = "check" => task[c].op \in Delegates
  /\ pc[c] = "checkDeleted" => task[c].op = "restore"
  /\ pc[c] = "load" => task[c].op \in OwnerOps
  /\ pc[c] \in {"begin", "write"} => task[c].op \in OwnerOps \cup {"restore"}
  /\ pc[c] = "enqueue" => task[c].op = "schedule"
  /\ task[c].op = "schedule" => task[c].at \in Times
Placed == \A c \in Procs : PlacedAt(c)

\* A piece that was seen published keeps a publication time, or is purged.
OnceAt(c) ==
  pc[c] \in {"begin", "write"} /\ task[c].op \in {"archive", "unarchive"} =>
    \/ row[task[c].piece].publishedAt # Null
    \/ row[task[c].piece].status = "purged"
OncePublished == \A c \in Procs : OnceAt(c)

\* The locked row and what its transaction is about to make of it.
Locked == \A p \in Pieces, c \in Procs :
  holder[p] = c =>
    /\ pc[c] \in {"count", "commit"} /\ task[c].piece = p
    /\ Exists(p)
    /\ Sound(seen[c]) /\ seen[c].status \notin {"none", "purged"}
    /\ row[p].publishedAt # Null => seen[c].publishedAt # Null

IInv == TypeOK /\ RowsSound /\ Placed /\ OncePublished /\ Locked

\* The values that stand for nothing have their types.
LEMMA Blanks == NoRow \in Row /\ NoJob \in Job /\ NoTask \in Task
<1>1. (CHOOSE p \in Pieces : TRUE) \in Pieces
  <2>1. \E p \in Pieces : TRUE
    BY SMT
  <2>2. QED
    BY <2>1, Zenon
<1>2. NoRow \in Row /\ NoJob \in Job
  BY DEF NoRow, Row, NoJob, Job, Null, Statuses
<1>3. NoTask \in Task
  BY <1>1 DEF NoTask, Task, Null
<1>4. QED
  BY <1>2, <1>3

\* The initial state satisfies the invariant.
LEMMA InitIInv == Init => IInv
<1> SUFFICES ASSUME Init PROVE IInv
  OBVIOUS
<1>1. NoRow.status = "none" /\ NoRow.publishedAt = Null /\ NoTask.op = "none"
  BY DEF NoRow, NoTask
<1>2. TypeOK
  BY Blanks DEF Init, TypeOK, Times, Phases, Procs
<1>3. RowsSound
  BY <1>1 DEF Init, RowsSound, Sound
<1>4. Placed /\ OncePublished
  BY <1>1 DEF Init, Placed, PlacedAt, OncePublished, OnceAt
<1>5. Locked
  BY DEF Init, Locked, Procs
<1>6. QED
  BY <1>2, <1>3, <1>4, <1>5 DEF IInv

\* What process c does leaves the other processes alone.
Alone(c) ==
  \A d \in Procs \ {c} : pc'[d] = pc[d] /\ task'[d] = task[d] /\ seen'[d] = seen[d]

LocalsOK ==
  /\ pc \in [Procs -> Phases] /\ task \in [Procs -> Task]
  /\ seen \in [Procs -> Row] /\ due \in [Procs -> SUBSET Pieces]

\* A job record remains one.
LEMMA AttemptKeeps ==
  ASSUME NEW j \in Job, NEW ok \in BOOLEAN
  PROVE  AfterAttempt(j, ok) \in Job
<1>1. j.tries \in 0..(Attempts - 1) /\ Attempts \in Nat
  BY DEF Job
<1>2. CASE ~ok /\ j.tries + 1 < Attempts
  <2>1. j.tries + 1 \in 0..(Attempts - 1)
    BY <1>1, <1>2
  <2>2. AfterAttempt(j, ok) = [j EXCEPT !.state = "waiting", !.tries = j.tries + 1]
    BY <1>2 DEF AfterAttempt
  <2>3. QED
    BY <2>1, <2>2 DEF Job
<1>3. CASE ok \/ ~(j.tries + 1 < Attempts)
  BY <1>3 DEF AfterAttempt, Job
<1>4. QED
  BY <1>2, <1>3

\* The call of c ends.
LEMMA EndKeeps ==
  ASSUME TypeOK, NEW c \in Procs, NEW ok \in BOOLEAN, EndOfCall(c, ok)
  PROVE  /\ LocalsOK' /\ job' \in [Pieces -> Job] /\ Alone(c)
         /\ pc'[c] \in {"idle", "next"} /\ task'[c] = NoTask
<1> DEFINE rest == IF ok THEN due[c] ELSE AfterFailure(c)
           place == IF rest # {} THEN "next" ELSE "idle"
<1>1. /\ due' = [due EXCEPT ![c] = rest] /\ pc' = [pc EXCEPT ![c] = place]
      /\ task' = [task EXCEPT ![c] = NoTask] /\ seen' = [seen EXCEPT ![c] = NoRow]
      /\ job' = IF task[c].source = "job"
                  THEN [job EXCEPT ![task[c].piece] = AfterAttempt(job[task[c].piece], ok)]
                  ELSE job
  BY DEF EndOfCall
<1>2. rest \in SUBSET Pieces /\ place \in {"idle", "next"}
  BY DEF TypeOK, AfterFailure
<1>3. task[c].piece \in Pieces
  BY DEF TypeOK, Task
<1>4. AfterAttempt(job[task[c].piece], ok) \in Job
  BY <1>3, AttemptKeeps DEF TypeOK
<1> HIDE DEF rest, place
<1>5. job' \in [Pieces -> Job]
  BY <1>1, <1>3, <1>4 DEF TypeOK
<1>6. QED
  BY <1>1, <1>2, <1>5, Blanks DEF TypeOK, LocalsOK, Phases, Alone

\* A step of c that writes no row, and unlocks its row or keeps it.
LEMMA WritelessKeeps ==
  ASSUME IInv, NEW c \in Procs, LocalsOK', Alone(c), UNCHANGED <<row, pool>>,
         job' \in [Pieces -> Job], count' \in Int, emitted' \in [Pieces -> Nat], now' \in Times,
         PlacedAt(c)', OnceAt(c)',
         \/ Rollback(c)
         \/ UNCHANGED holder /\ pc[c] \notin {"count", "commit"}
         \/ /\ UNCHANGED holder /\ pc[c] = "count" /\ pc'[c] = "commit"
            /\ task'[c] = task[c] /\ seen'[c] = seen[c]
  PROVE  IInv'
<1> USE DEF IInv
<1>1. holder' \in [Pieces -> Procs \cup {None}]
  BY DEF TypeOK, Rollback
<1>2. TypeOK'
  BY <1>1 DEF TypeOK, LocalsOK
<1>3. RowsSound'
  BY DEF RowsSound
<1>4. Placed'
  BY DEF Placed, PlacedAt, Alone
<1>5. OncePublished'
  BY DEF OncePublished, OnceAt, Alone
<1>6. ASSUME NEW p \in Pieces, NEW d \in Procs, holder'[p] = d
      PROVE  /\ holder[p] = d /\ (d = c => pc[c] = "count" /\ pc'[c] = "commit"
                                           /\ task'[c] = task[c] /\ seen'[c] = seen[c])
  BY <1>6 DEF Rollback, Locked, TypeOK, Procs
<1>7. Locked'
  BY <1>6 DEF Locked, Alone, Exists
<1>8. QED
  BY <1>2, <1>3, <1>4, <1>5, <1>7

\* A step that ends the call of c.
LEMMA EndingKeeps ==
  ASSUME IInv, NEW c \in Procs, NEW ok \in BOOLEAN, EndOfCall(c, ok),
         UNCHANGED <<row, count, now, pool>>, emitted' \in [Pieces -> Nat],
         \/ Rollback(c)
         \/ UNCHANGED holder /\ pc[c] \notin {"count", "commit"}
  PROVE  IInv'
<1>1. /\ LocalsOK' /\ job' \in [Pieces -> Job] /\ Alone(c)
      /\ pc'[c] \in {"idle", "next"} /\ task'[c] = NoTask
  BY EndKeeps DEF IInv
<1>2. count' \in Int /\ now' \in Times
  BY DEF IInv, TypeOK
<1>3. NoTask.op = "none"
  BY DEF NoTask
<1>4. PlacedAt(c)' /\ OnceAt(c)'
  BY <1>1, <1>3 DEF PlacedAt, OnceAt
<1>5. QED
  BY <1>1, <1>2, <1>4, WritelessKeeps

\* A step of c that goes on to statement l with task t and entity s.
LEMMA AdvancingKeeps ==
  ASSUME IInv, NEW c \in Procs, NEW l \in Phases, NEW t \in Task, NEW s \in Row,
         Goto(c, l), task' = [task EXCEPT ![c] = t], seen' = [seen EXCEPT ![c] = s],
         UNCHANGED <<row, count, emitted, now, holder, pool>>,
         due' \in [Procs -> SUBSET Pieces], job' \in [Pieces -> Job],
         pc[c] \notin {"count", "commit"},
         l = "check" => t.op \in Delegates,
         l = "checkDeleted" => t.op = "restore",
         l = "load" => t.op \in OwnerOps,
         l \in {"begin", "write"} => t.op \in OwnerOps \cup {"restore"},
         l = "enqueue" => t.op = "schedule",
         t.op = "schedule" => t.at \in Times,
         l \in {"begin", "write"} /\ t.op \in {"archive", "unarchive"} =>
           \/ row[t.piece].publishedAt # Null
           \/ row[t.piece].status = "purged"
  PROVE  IInv'
<1>1. /\ pc' = [pc EXCEPT ![c] = l] /\ pc \in [Procs -> Phases] /\ task \in [Procs -> Task]
      /\ seen \in [Procs -> Row]
  BY DEF Goto, IInv, TypeOK
<1>2. LocalsOK' /\ Alone(c) /\ pc'[c] = l /\ task'[c] = t
  BY <1>1 DEF LocalsOK, Alone
<1>3. PlacedAt(c)' /\ OnceAt(c)'
  BY <1>2 DEF PlacedAt, OnceAt
<1>4. count' \in Int /\ now' \in Times /\ emitted' \in [Pieces -> Nat]
  BY DEF IInv, TypeOK
<1>5. QED
  BY <1>2, <1>3, <1>4, WritelessKeeps

\* A request that arrives.
LEMMA ReceiveKeeps ==
  ASSUME IInv, NEW c \in Procs, Receive(c)
  PROVE  IInv'
<1>1. PICK p \in Pieces, op \in (OwnerOps \cup Delegates) \ {"publishOne"} :
        \E at \in (IF op = "schedule" THEN Times ELSE {Null}),
           complete \in (IF op = "update" THEN BOOLEAN ELSE {FALSE}) :
          /\ op = "update" \/ count \in -CountCap..CountCap
          /\ task' = [task EXCEPT ![c] = [NoTask EXCEPT !.op = op, !.piece = p, !.at = at,
                                                        !.complete = complete]]
          /\ Goto(c, IF op \in Delegates THEN "check" ELSE "load")
  BY DEF Receive
<1>2. PICK at \in {Null} \cup Times, complete \in BOOLEAN :
        /\ op = "schedule" => at \in Times
        /\ task' = [task EXCEPT ![c] = [NoTask EXCEPT !.op = op, !.piece = p, !.at = at,
                                                      !.complete = complete]]
        /\ Goto(c, IF op \in Delegates THEN "check" ELSE "load")
  BY <1>1
<1> DEFINE t == [NoTask EXCEPT !.op = op, !.piece = p, !.at = at, !.complete = complete]
           l == IF op \in Delegates THEN "check" ELSE "load"
<1>3. t \in Task /\ t.op = op /\ t.at = at /\ t.piece = p
  BY Blanks DEF Task
<1>4. l \in Phases /\ l \in {"check", "load"} /\ (l = "check" => op \in Delegates)
      /\ (l = "load" => op \in OwnerOps)
  BY DEF Phases
<1>5. task' = [task EXCEPT ![c] = t] /\ Goto(c, l)
  BY <1>2
<1> HIDE DEF t, l
<1>6. /\ UNCHANGED <<row, count, emitted, job, now, holder, seen, due, pool>> /\ pc[c] = "idle"
      /\ seen[c] \in Row /\ seen' = [seen EXCEPT ![c] = seen[c]]
      /\ due' \in [Procs -> SUBSET Pieces] /\ job' \in [Pieces -> Job]
  BY DEF Receive, IInv, TypeOK
<1>7. QED
  BY <1>2, <1>3, <1>4, <1>5, <1>6, AdvancingKeeps

\* The worker takes up a sweep, the next piece of one, or a delayed job.
LEMMA WorkerKeeps ==
  ASSUME IInv, NEW c \in Procs,
         StartSweep(c) \/ NextDue(c) \/ \E p \in Pieces : StartJob(c, p)
  PROVE  IInv'
<1>0. /\ pc \in [Procs -> Phases] /\ task \in [Procs -> Task] /\ seen \in [Procs -> Row]
      /\ due \in [Procs -> SUBSET Pieces] /\ job \in [Pieces -> Job] /\ now \in Times
  BY DEF IInv, TypeOK
<1>1. seen[c] \in Row /\ seen' = [seen EXCEPT ![c] = seen[c]]
  BY <1>0 DEF StartSweep, NextDue, StartJob
<1>2. CASE StartSweep(c)
  <2>1. /\ task' = [task EXCEPT ![c] = task[c]] /\ task[c] \in Task
        /\ UNCHANGED <<row, count, emitted, now, holder, pool, job>>
        /\ Goto(c, "next") /\ pc[c] = "idle" /\ PlacedAt(c)
    BY <1>0, <1>2 DEF StartSweep, IInv, Placed
  <2>2. due' \in [Procs -> SUBSET Pieces]
    BY <1>0, <1>2 DEF StartSweep
  <2>3. "next" \in Phases /\ (task[c].op = "schedule" => task[c].at \in Times)
    BY <2>1 DEF Phases, PlacedAt
  <2>4. QED
    BY <1>0, <1>1, <2>1, <2>2, <2>3, AdvancingKeeps
<1>3. CASE NextDue(c)
  <2>1. PICK p \in Pieces :
          /\ due' = [due EXCEPT ![c] = due[c] \ {p}]
          /\ task' = [task EXCEPT ![c] = [NoTask EXCEPT !.op = "publish", !.piece = p,
                                                        !.source = "sweep"]]
    BY <1>0, <1>3 DEF NextDue
  <2> DEFINE t == [NoTask EXCEPT !.op = "publish", !.piece = p, !.source = "sweep"]
  <2>2. t \in Task /\ t.op = "publish"
    BY Blanks DEF Task, OwnerOps
  <2>3. task' = [task EXCEPT ![c] = t]
    BY <2>1
  <2> HIDE DEF t
  <2>4. /\ UNCHANGED <<row, count, emitted, now, holder, pool, job>>
        /\ Goto(c, "load") /\ pc[c] = "next" /\ "load" \in Phases /\ "publish" \in OwnerOps
    BY <1>3 DEF NextDue, Phases, OwnerOps
  <2>5. due' \in [Procs -> SUBSET Pieces]
    BY <1>0, <2>1
  <2>6. QED
    BY <1>0, <1>1, <2>2, <2>3, <2>4, <2>5, AdvancingKeeps
<1>4. ASSUME NEW p \in Pieces, StartJob(c, p) PROVE IInv'
  <2> DEFINE t == [NoTask EXCEPT !.op = "publishOne", !.piece = p, !.source = "job"]
  <2>1. t \in Task /\ t.op = "publishOne"
    BY Blanks DEF Task, Delegates
  <2>2. task' = [task EXCEPT ![c] = t]
    BY <1>4 DEF StartJob
  <2> HIDE DEF t
  <2>3. /\ UNCHANGED <<row, count, emitted, now, holder, pool, due>>
        /\ Goto(c, "check") /\ pc[c] = "idle" /\ "check" \in Phases /\ "publishOne" \in Delegates
    BY <1>4 DEF StartJob, Phases, Delegates
  <2>4. job' \in [Pieces -> Job]
    <3>1. [job[p] EXCEPT !.state = "active"] \in Job
      BY <1>0 DEF Job
    <3>2. job' = [job EXCEPT ![p] = [job[p] EXCEPT !.state = "active"]]
      BY <1>4 DEF StartJob
    <3>3. QED
      BY <1>0, <3>1, <3>2
  <2>5. QED
    BY <1>0, <1>1, <2>1, <2>2, <2>3, <2>4, AdvancingKeeps
<1>5. QED
  BY <1>2, <1>3, <1>4

\* Reading the row: the entry points that delegate, and the methods themselves.
LEMMA ReadingKeeps ==
  ASSUME IInv, NEW c \in Procs,
         \/ Check(c) \/ CheckNothingToDo(c) \/ CheckMissing(c) \/ FindDeleted(c)
         \/ Load(c) \/ LoadRefused(c)
  PROVE  IInv'
<1>0. /\ pc \in [Procs -> Phases] /\ task \in [Procs -> Task] /\ seen \in [Procs -> Row]
      /\ due \in [Procs -> SUBSET Pieces] /\ job \in [Pieces -> Job] /\ now \in Times
      /\ row \in [Pieces -> Row] /\ emitted \in [Pieces -> Nat] /\ PlacedAt(c)
  BY DEF IInv, TypeOK, Placed
<1>1. /\ task[c] \in Task /\ task[c].piece \in Pieces /\ row[task[c].piece] \in Row
      /\ seen[c] \in Row
  BY <1>0 DEF Task
<1>2. CASE Check(c)
  <2> DEFINE op == Delegated(task[c].op, task[c].piece)
             t == [task[c] EXCEPT !.op = op]
  <2>1. /\ UNCHANGED <<row, count, emitted, job, now, holder, seen, due, pool>>
        /\ Goto(c, "load") /\ pc[c] = "check" /\ op # "none"
        /\ task' = [task EXCEPT ![c] = t]
    BY <1>2 DEF Check
  <2>2. op \in OwnerOps \ {"schedule"}
    BY <2>1 DEF Delegated, OwnerOps
  <2>3. t \in Task /\ t.op = op
    BY <1>1, <2>2 DEF Task
  <2> HIDE DEF op, t
  <2>4. seen' = [seen EXCEPT ![c] = seen[c]] /\ "load" \in Phases
    BY <1>0, <2>1 DEF Phases
  <2>5. QED
    BY <1>0, <1>1, <2>1, <2>2, <2>3, <2>4, AdvancingKeeps
<1>3. CASE CheckMissing(c)
  <2>1. /\ UNCHANGED <<row, count, emitted, job, now, holder, due, pool>>
        /\ Goto(c, "checkDeleted") /\ pc[c] = "check" /\ task[c].op = "restore"
        /\ task' = [task EXCEPT ![c] = task[c]] /\ seen' = [seen EXCEPT ![c] = seen[c]]
        /\ "checkDeleted" \in Phases
    BY <1>0, <1>3 DEF CheckMissing, Phases
  <2>2. QED
    BY <1>0, <1>1, <2>1, AdvancingKeeps
<1>4. CASE FindDeleted(c)
  <2>1. CASE EndOfCall(c, TRUE)
    BY <1>0, <1>4, <2>1, EndingKeeps DEF FindDeleted
  <2>2. CASE /\ seen' = [seen EXCEPT ![c] = row[task[c].piece]]
             /\ Goto(c, "begin")
             /\ UNCHANGED <<job, task, due>>
    <3>1. /\ UNCHANGED <<row, count, emitted, job, now, holder, due, pool>>
          /\ pc[c] = "checkDeleted"
          /\ task' = [task EXCEPT ![c] = task[c]] /\ "begin" \in Phases
      BY <1>0, <1>4, <2>2 DEF FindDeleted, Phases
    <3>2. task[c].op = "restore"
      BY <1>0, <3>1 DEF PlacedAt
    <3>3. QED
      BY <1>0, <1>1, <2>2, <3>1, <3>2, AdvancingKeeps
  <2>3. QED
    BY <1>4, <2>1, <2>2 DEF FindDeleted
<1>5. CASE Load(c)
  <2> DEFINE l == IF task[c].op = "schedule" THEN "write" ELSE "begin"
  <2>1. /\ UNCHANGED <<row, count, emitted, job, now, holder, due, pool>>
        /\ Goto(c, l) /\ pc[c] = "load"
        /\ task' = [task EXCEPT ![c] = task[c]]
        /\ seen' = [seen EXCEPT ![c] = row[task[c].piece]]
    BY <1>0, <1>5 DEF Load
  <2>2. task[c].op \in OwnerOps /\ (task[c].op = "schedule" => task[c].at \in Times)
    BY <1>0, <2>1 DEF PlacedAt
  <2>3. task[c].op \in {"archive", "unarchive"} => row[task[c].piece].publishedAt # Null
    BY <1>1, <1>5 DEF Load, Refused, IInv, RowsSound, Sound
  <2>4. l \in {"begin", "write"} /\ l \in Phases
    BY DEF Phases
  <2> HIDE DEF l
  <2>5. QED
    BY <1>0, <1>1, <2>1, <2>2, <2>3, <2>4, AdvancingKeeps
<1>6. CASE CheckNothingToDo(c) \/ LoadRefused(c)
  BY <1>0, <1>6, EndingKeeps DEF CheckNothingToDo, LoadRefused
<1>7. QED
  BY <1>2, <1>3, <1>4, <1>5, <1>6

\* The statements that write no row.
LEMMA StatementKeeps ==
  ASSUME IInv, NEW c \in Procs,
         \/ BeginTx(c) \/ AdjustPublishedCount(c) \/ Emit(c) \/ Enqueue(c)
         \/ ConnectionTimeout(c) \/ Crash(c)
  PROVE  IInv'
<1>0. /\ pc \in [Procs -> Phases] /\ task \in [Procs -> Task] /\ seen \in [Procs -> Row]
      /\ due \in [Procs -> SUBSET Pieces] /\ job \in [Pieces -> Job] /\ now \in Times
      /\ count \in Int /\ emitted \in [Pieces -> Nat] /\ PlacedAt(c) /\ OnceAt(c)
  BY DEF IInv, TypeOK, Placed, OncePublished
<1>1. task[c] \in Task /\ task[c].piece \in Pieces /\ task[c].delta \in Int /\ seen[c] \in Row
  BY <1>0 DEF Task
<1>2. CASE BeginTx(c)
  <2>1. /\ UNCHANGED <<row, count, emitted, job, now, holder, due, pool>>
        /\ Goto(c, "write") /\ pc[c] = "begin" /\ "write" \in Phases
        /\ task' = [task EXCEPT ![c] = task[c]] /\ seen' = [seen EXCEPT ![c] = seen[c]]
    BY <1>0, <1>2 DEF BeginTx, Phases
  <2>2. /\ task[c].op \in OwnerOps \cup {"restore"}
        /\ task[c].op = "schedule" => task[c].at \in Times
        /\ task[c].op \in {"archive", "unarchive"} =>
             \/ row[task[c].piece].publishedAt # Null
             \/ row[task[c].piece].status = "purged"
    BY <1>0, <2>1 DEF PlacedAt, OnceAt
  <2>3. QED
    BY <1>0, <1>1, <2>1, <2>2, AdvancingKeeps
<1>3. CASE AdjustPublishedCount(c)
  <2>1. /\ UNCHANGED <<row, emitted, job, now, holder, task, seen, due, pool>>
        /\ pc' = [pc EXCEPT ![c] = "commit"] /\ pc[c] = "count" /\ count' \in Int
    BY <1>0, <1>1, <1>3 DEF AdjustPublishedCount, Goto
  <2>2. LocalsOK' /\ Alone(c) /\ pc'[c] = "commit"
    BY <1>0, <2>1 DEF LocalsOK, Alone, Phases
  <2>3. PlacedAt(c)' /\ OnceAt(c)'
    BY <1>0, <2>1, <2>2 DEF PlacedAt, OnceAt
  <2>4. QED
    BY <1>0, <2>1, <2>2, <2>3, WritelessKeeps
<1>4. CASE Emit(c)
  <2>1. emitted' \in [Pieces -> Nat]
    BY <1>0, <1>1, <1>4 DEF Emit
  <2>2. QED
    BY <1>4, <2>1, EndingKeeps DEF Emit
<1>5. CASE Enqueue(c)
  <2>1. /\ UNCHANGED <<row, count, emitted, now, holder, due, pool>>
        /\ Goto(c, "idle") /\ pc[c] = "enqueue" /\ "idle" \in Phases
        /\ task' = [task EXCEPT ![c] = NoTask] /\ seen' = [seen EXCEPT ![c] = NoRow]
        /\ NoTask.op = "none"
    BY <1>5 DEF Enqueue, Phases, NoTask
  <2>2. task[c].at \in Times
    BY <1>0, <2>1 DEF PlacedAt
  <2>3. [state |-> "waiting", at |-> task[c].at, tries |-> 0] \in Job
    BY <2>2 DEF Job
  <2>4. job' \in [Pieces -> Job]
    BY <1>0, <1>1, <1>5, <2>3 DEF Enqueue, AddJob
  <2>5. QED
    BY <1>0, <2>1, <2>4, Blanks, AdvancingKeeps
<1>6. CASE ConnectionTimeout(c)
  BY <1>0, <1>6, EndingKeeps DEF ConnectionTimeout, GiveUp
<1>7. CASE Crash(c)
  <2>1. /\ UNCHANGED <<row, count, emitted, now, pool>> /\ Rollback(c)
        /\ pc' = [pc EXCEPT ![c] = "idle"] /\ task' = [task EXCEPT ![c] = NoTask]
        /\ seen' = [seen EXCEPT ![c] = NoRow] /\ due' = [due EXCEPT ![c] = {}]
        /\ job' = IF task[c].source = "job"
                    THEN [job EXCEPT ![task[c].piece] = AfterAttempt(job[task[c].piece], FALSE)]
                    ELSE job
    BY <1>7 DEF Crash
  <2>2. AfterAttempt(job[task[c].piece], FALSE) \in Job
    BY <1>0, <1>1, AttemptKeeps
  <2>3. job' \in [Pieces -> Job]
    BY <1>0, <1>1, <2>1, <2>2
  <2>4. LocalsOK' /\ Alone(c) /\ pc'[c] = "idle" /\ task'[c] = NoTask /\ NoTask.op = "none"
    BY <1>0, <2>1, Blanks DEF LocalsOK, Alone, Phases, NoTask
  <2>5. PlacedAt(c)' /\ OnceAt(c)'
    BY <2>4 DEF PlacedAt, OnceAt
  <2>6. QED
    BY <1>0, <2>1, <2>3, <2>4, <2>5, WritelessKeeps
<1>8. QED
  BY <1>2, <1>3, <1>4, <1>5, <1>6, <1>7

\* What an UPDATE makes of a row that exists.
LEMMA PatchKeeps ==
  ASSUME NEW r \in Row, NEW s \in Row, NEW t \in Task, now \in Times, Sound(r),
         r.status \notin {"none", "purged"},
         t.op \in OwnerOps \cup {"restore"},
         t.op = "schedule" => t.at \in Times,
         t.op \in {"archive", "unarchive"} => r.publishedAt # Null
  PROVE  /\ Patch(r, s, t) \in Row /\ Sound(Patch(r, s, t))
         /\ Patch(r, s, t).status \notin {"none", "purged"}
         /\ r.publishedAt # Null => Patch(r, s, t).publishedAt # Null
<1>0. Null \notin Times
  BY DEF Null, Times
<1>1. CASE t.op = "publish"
  <2>1. FirstPublished(s) \in Times
    BY DEF FirstPublished, Row
  <2> DEFINE q == [r EXCEPT !.status = "published", !.scheduledAt = Null,
                            !.publishedAt = FirstPublished(s)]
  <2>2. Patch(r, s, t) = q
    BY <1>1 DEF Patch
  <2>3. q \in Row /\ q.status = "published" /\ q.publishedAt = FirstPublished(s)
    BY <2>1 DEF Row, Statuses
  <2> HIDE DEF q
  <2>4. QED
    BY <1>0, <2>1, <2>2, <2>3 DEF Sound
<1>2. CASE t.op = "schedule"
  <2> DEFINE q == [r EXCEPT !.status = "scheduled", !.scheduledAt = t.at]
  <2>1. Patch(r, s, t) = q
    BY <1>2 DEF Patch
  <2>2. q \in Row /\ q.status = "scheduled" /\ q.scheduledAt = t.at
        /\ q.publishedAt = r.publishedAt
    BY <1>2 DEF Row, Statuses
  <2> HIDE DEF q
  <2>3. QED
    BY <1>0, <1>2, <2>1, <2>2 DEF Sound
<1>3. CASE t.op \in {"update", "delete", "restore", "archive"}
  BY <1>3 DEF Row, Task, Statuses, Sound, Patch
<1>4. CASE t.op = "unarchive"
  BY <1>4 DEF Row, Statuses, Sound, Patch, Unarchived
<1>5. QED
  BY <1>1, <1>2, <1>3, <1>4 DEF OwnerOps

\* An UPDATE of an open transaction locks the row.
LEMMA WriteKeeps ==
  ASSUME IInv, NEW c \in Procs, Write(c)
  PROVE  IInv'
<1> USE DEF IInv
<1> DEFINE p == task[c].piece
           delta == CountDelta(seen[c], task[c])
           l == IF delta = 0 THEN "commit" ELSE "count"
           s == Patch(row[p], seen[c], task[c])
<1>1. /\ pc[c] = "write" /\ task[c].op # "schedule" /\ holder[p] = None
      /\ pc' = [pc EXCEPT ![c] = l]
      /\ task' = [task EXCEPT ![c] = [task[c] EXCEPT !.delta = delta]]
      /\ UNCHANGED <<row, count, emitted, job, now, due, pool>>
      /\ IF Exists(p)
           THEN seen' = [seen EXCEPT ![c] = s] /\ holder' = [holder EXCEPT ![p] = c]
           ELSE UNCHANGED <<seen, holder>>
  BY DEF Write, Goto
<1>2. /\ task[c] \in Task /\ p \in Pieces /\ row[p] \in Row /\ seen[c] \in Row /\ now \in Times
      /\ PlacedAt(c) /\ OnceAt(c) /\ Sound(row[p])
  BY DEF TypeOK, Task, Placed, OncePublished, RowsSound
<1>3. delta \in {-1, 0, 1}
  <2>1. Counted(seen[c]) \in {0, 1}
    BY DEF Counted
  <2>2. -Counted(seen[c]) \in {-1, 0, 1}
    BY <2>1
  <2>3. QED
    BY <2>1, <2>2 DEF CountDelta
<1>4. l \in {"commit", "count"} /\ l \in Phases
  BY DEF Phases
<1>5. [task[c] EXCEPT !.delta = delta] \in Task
  BY <1>2, <1>3 DEF Task
<1>6. task[c].op \in OwnerOps \cup {"restore"}
  BY <1>1, <1>2 DEF PlacedAt
<1>7. Exists(p) => /\ s \in Row /\ Sound(s) /\ s.status \notin {"none", "purged"}
                   /\ row[p].publishedAt # Null => s.publishedAt # Null
  BY <1>1, <1>2, <1>6, PatchKeeps DEF Exists, OnceAt
<1>8. [task[c] EXCEPT !.delta = delta].piece = p /\ [task[c] EXCEPT !.delta = delta].op = task[c].op
      /\ [task[c] EXCEPT !.delta = delta].at = task[c].at
  BY <1>2 DEF Task
<1> DEFINE t == [task[c] EXCEPT !.delta = delta]
<1> HIDE DEF s, l, delta, t
<1>9. /\ pc'[c] = l /\ task'[c] = t /\ Alone(c)
      /\ t.piece = p /\ t.op = task[c].op /\ t.at = task[c].at
  BY <1>1, <1>2, <1>8 DEF TypeOK, Alone, t
<1>10. TypeOK'
  BY <1>1, <1>2, <1>4, <1>5, <1>7 DEF TypeOK
<1>11. RowsSound'
  BY <1>1 DEF RowsSound
<1>12. PlacedAt(c)' /\ OnceAt(c)'
  BY <1>1, <1>2, <1>4, <1>9 DEF PlacedAt, OnceAt
<1>13. Placed' /\ OncePublished'
  BY <1>1, <1>9, <1>12 DEF Placed, PlacedAt, OncePublished, OnceAt, Alone
<1>14. ASSUME NEW q \in Pieces, NEW d \in Procs, holder'[q] = d
       PROVE  \/ holder[q] = d /\ d # c
              \/ q = p /\ d = c /\ Exists(p) /\ seen'[c] = s
  BY <1>1, <1>2, <1>14 DEF Locked, TypeOK
<1>15. Locked'
  BY <1>1, <1>4, <1>7, <1>9, <1>14 DEF Locked, Alone, Exists
<1>16. QED
  BY <1>10, <1>11, <1>13, <1>15

\* One row changes and no process does: of schedule, create, and purge.
LEMMA RowKeeps ==
  ASSUME IInv, NEW p \in Pieces, NEW r \in Row, holder[p] = None,
         row' = [row EXCEPT ![p] = r], holder' = holder,
         Sound(r), r.status = "none" => r.publishedAt = Null,
         row[p].publishedAt # Null \/ row[p].status = "purged" =>
           r.publishedAt # Null \/ r.status = "purged"
  PROVE  /\ row' \in [Pieces -> Row] /\ RowsSound'
         /\ \A q \in Pieces : row[q].publishedAt # Null \/ row[q].status = "purged" =>
              row'[q].publishedAt # Null \/ row'[q].status = "purged"
         /\ \A q \in Pieces : holder[q] # None => row'[q] = row[q]
BY DEF IInv, TypeOK, RowsSound

\* The UPDATE of schedule.
LEMMA WriteScheduleKeeps ==
  ASSUME IInv, NEW c \in Procs, WriteSchedule(c)
  PROVE  IInv'
<1> USE DEF IInv
<1> DEFINE p == task[c].piece
           s == IF Exists(p) THEN Patch(row[p], seen[c], task[c]) ELSE row[p]
<1>1. /\ pc[c] = "write" /\ task[c].op = "schedule" /\ holder[p] = None
      /\ row' = IF Exists(p) THEN [row EXCEPT ![p] = Patch(row[p], seen[c], task[c])] ELSE row
      /\ pc' = [pc EXCEPT ![c] = "enqueue"]
      /\ UNCHANGED <<count, emitted, job, now, holder, task, seen, due, pool>>
  BY DEF WriteSchedule, Goto
<1>2. /\ task[c] \in Task /\ p \in Pieces /\ row[p] \in Row /\ seen[c] \in Row /\ now \in Times
      /\ PlacedAt(c) /\ Sound(row[p]) /\ (row[p].status = "none" => row[p].publishedAt = Null)
  BY DEF TypeOK, Task, Placed, RowsSound
<1>3. row' = [row EXCEPT ![p] = s]
  BY <1>1, <1>2 DEF TypeOK
<1>4. /\ s \in Row /\ Sound(s) /\ (s.status = "none" => s.publishedAt = Null)
      /\ row[p].publishedAt # Null \/ row[p].status = "purged" =>
           s.publishedAt # Null \/ s.status = "purged"
  <2>1. CASE Exists(p)
    BY <1>1, <1>2, <2>1, PatchKeeps DEF Exists, PlacedAt, OwnerOps
  <2>2. CASE ~Exists(p)
    BY <1>2, <2>2
  <2>3. QED
    BY <2>1, <2>2
<1> HIDE DEF s
<1>5. /\ row' \in [Pieces -> Row] /\ RowsSound'
      /\ \A q \in Pieces : row[q].publishedAt # Null \/ row[q].status = "purged" =>
           row'[q].publishedAt # Null \/ row'[q].status = "purged"
      /\ \A q \in Pieces : holder[q] # None => row'[q] = row[q]
  BY <1>1, <1>2, <1>3, <1>4, RowKeeps
<1>6. pc'[c] = "enqueue" /\ Alone(c)
  BY <1>1 DEF TypeOK, Alone
<1>7. TypeOK'
  BY <1>1, <1>5 DEF TypeOK, Phases
<1>8. Placed'
  BY <1>1, <1>2, <1>6 DEF Placed, PlacedAt, Alone
<1>9. OncePublished'
  BY <1>1, <1>5, <1>6 DEF OncePublished, OnceAt, Alone, TypeOK, Task
<1>10. Locked'
  BY <1>1, <1>5, <1>6 DEF Locked, Alone, Exists, Procs
<1>11. QED
  BY <1>5, <1>7, <1>8, <1>9, <1>10

\* createDraft, duplicate and the purge job.
LEMMA RowJobsKeep ==
  ASSUME IInv, NEW p \in Pieces, CreateDraft(p) \/ \E c \in Procs : Purge(c, p)
  PROVE  IInv'
<1> USE DEF IInv
<1>1. UNCHANGED <<count, emitted, job, now, holder, pc, task, seen, due, pool>>
  BY DEF CreateDraft, Purge
<1>2. PICK r \in Row : /\ holder[p] = None /\ row' = [row EXCEPT ![p] = r]
                       /\ Sound(r) /\ r.status # "none"
                       /\ row[p].status = "none" \/ r.status = "purged"
  <2>1. CASE CreateDraft(p)
    <3>1. PICK complete \in BOOLEAN :
            row' = [row EXCEPT ![p] = [NoRow EXCEPT !.status = "draft", !.complete = complete]]
      BY <2>1 DEF CreateDraft
    <3> DEFINE r == [NoRow EXCEPT !.status = "draft", !.complete = complete]
    <3>2. r \in Row /\ r.status = "draft"
      BY Blanks DEF Row, Statuses
    <3>3. holder[p] = None /\ row[p].status = "none"
      <4>1. row[p].status = "none" /\ ~Exists(p) /\ holder[p] \in Procs \cup {None}
        BY <2>1 DEF CreateDraft, Exists, TypeOK
      <4>2. QED
        BY <4>1 DEF Locked
    <3>4. row' = [row EXCEPT ![p] = r]
      BY <3>1
    <3> HIDE DEF r
    <3>5. QED
      BY <3>2, <3>3, <3>4 DEF Sound
  <2>2. CASE \E c \in Procs : Purge(c, p)
    <3> DEFINE r == [NoRow EXCEPT !.status = "purged"]
    <3>1. r \in Row /\ r.status = "purged"
      BY Blanks DEF Row, Statuses
    <3>2. holder[p] = None /\ row' = [row EXCEPT ![p] = r]
      BY <2>2 DEF Purge
    <3> HIDE DEF r
    <3>3. QED
      BY <3>1, <3>2 DEF Sound
  <2>3. QED
    BY <2>1, <2>2
<1>3. /\ row' \in [Pieces -> Row] /\ RowsSound'
      /\ \A q \in Pieces : row[q].publishedAt # Null \/ row[q].status = "purged" =>
           row'[q].publishedAt # Null \/ row'[q].status = "purged"
      /\ \A q \in Pieces : holder[q] # None => row'[q] = row[q]
  BY <1>1, <1>2, RowKeeps DEF RowsSound
<1>4. TypeOK'
  BY <1>1, <1>3 DEF TypeOK
<1>5. Placed'
  BY <1>1 DEF Placed, PlacedAt
<1>6. OncePublished'
  BY <1>1, <1>3 DEF OncePublished, OnceAt, TypeOK, Task
<1>7. Locked'
  BY <1>1, <1>3 DEF Locked, Exists, Procs
<1>8. QED
  BY <1>3, <1>4, <1>5, <1>6, <1>7

\* A commit makes the locked row visible.
LEMMA CommitKeeps ==
  ASSUME IInv, NEW c \in Procs, Commit(c)
  PROVE  IInv'
<1> USE DEF IInv
<1> DEFINE p == task[c].piece
<1>1. /\ pc[c] = "commit" /\ Rollback(c) /\ UNCHANGED <<count, emitted, now, pool>>
      /\ row' = IF holder[p] = c THEN [row EXCEPT ![p] = seen[c]] ELSE row
      /\ \/ Goto(c, "emit") /\ UNCHANGED <<job, task, seen, due>>
         \/ EndOfCall(c, TRUE)
  BY DEF Commit
<1>2. /\ pc \in [Procs -> Phases] /\ task \in [Procs -> Task] /\ seen \in [Procs -> Row]
      /\ due \in [Procs -> SUBSET Pieces] /\ job \in [Pieces -> Job] /\ now \in Times
      /\ count \in Int /\ emitted \in [Pieces -> Nat] /\ PlacedAt(c) /\ p \in Pieces
  BY DEF TypeOK, Placed, Task
<1>3. /\ LocalsOK' /\ job' \in [Pieces -> Job] /\ Alone(c)
      /\ pc'[c] \in {"emit", "idle", "next"} /\ task'[c] \in {task[c], NoTask}
  <2>1. CASE Goto(c, "emit") /\ UNCHANGED <<job, task, seen, due>>
    BY <1>2, <2>1 DEF Goto, LocalsOK, Alone, Phases
  <2>2. CASE EndOfCall(c, TRUE)
    BY <2>2, EndKeeps
  <2>3. QED
    BY <1>1, <2>1, <2>2
<1>4. NoTask.op = "none"
  BY DEF NoTask
<1>5. PlacedAt(c)' /\ OnceAt(c)'
  BY <1>2, <1>3, <1>4 DEF PlacedAt, OnceAt
<1>6. CASE holder[p] # c
  <2>1. row' = row
    BY <1>1, <1>6
  <2>2. count' \in Int /\ emitted' \in [Pieces -> Nat] /\ now' \in Times /\ pool' = pool
    BY <1>1, <1>2
  <2>3. QED
    BY <1>1, <1>3, <1>5, <2>1, <2>2, WritelessKeeps
<1>7. CASE holder[p] = c
  <2>1. /\ Exists(p) /\ Sound(seen[c]) /\ seen[c].status \notin {"none", "purged"}
        /\ row[p].publishedAt # Null => seen[c].publishedAt # Null
        /\ seen[c] \in Row
    BY <1>2, <1>7 DEF Locked
  <2>2. row' = [row EXCEPT ![p] = seen[c]] /\ row \in [Pieces -> Row]
    BY <1>1, <1>7 DEF TypeOK
  <2>3. RowsSound' /\ row' \in [Pieces -> Row]
    BY <2>1, <2>2 DEF RowsSound
  <2>4. \A q \in Pieces : row[q].publishedAt # Null \/ row[q].status = "purged" =>
          row'[q].publishedAt # Null \/ row'[q].status = "purged"
    BY <2>1, <2>2 DEF Exists
  <2>5. holder' = [q \in Pieces |-> IF holder[q] = c THEN None ELSE holder[q]]
    BY <1>1 DEF Rollback
  <2>6. TypeOK'
    BY <1>1, <1>3, <2>3, <2>5 DEF TypeOK, LocalsOK
  <2>7. Placed'
    BY <1>3, <1>5 DEF Placed, PlacedAt, Alone
  <2>8. OncePublished'
    BY <1>2, <1>3, <1>5, <2>4 DEF OncePublished, OnceAt, Alone, Task
  <2>9. ASSUME NEW q \in Pieces, NEW d \in Procs, holder'[q] = d
        PROVE  holder[q] = d /\ d # c /\ q # p
    BY <1>7, <2>5, <2>9 DEF Procs
  <2>10. Locked'
    BY <1>3, <2>2, <2>9 DEF Locked, Alone, Exists
  <2>11. QED
    BY <2>3, <2>6, <2>7, <2>8, <2>10
<1>8. QED
  BY <1>6, <1>7

\* Time, BullMQ's forgetting, and stuttering.
LEMMA SurroundingsKeep ==
  ASSUME IInv, Tick \/ UNCHANGED vars \/ \E p \in Pieces : ForgetJob(p)
  PROVE  IInv'
<1> USE DEF IInv
<1>1. /\ UNCHANGED <<row, count, emitted, holder, pc, task, seen, due, pool>>
      /\ job' \in [Pieces -> Job] /\ now' \in Times
  <2>1. CASE Tick
    BY <2>1 DEF Tick, TypeOK, Times
  <2>2. CASE UNCHANGED vars
    BY <2>2 DEF vars, TypeOK
  <2>3. CASE \E p \in Pieces : ForgetJob(p)
    BY <2>3, Blanks DEF ForgetJob, TypeOK
  <2>4. QED
    BY <2>1, <2>2, <2>3
<1>2. TypeOK'
  BY <1>1 DEF TypeOK
<1>3. RowsSound' /\ Placed' /\ OncePublished' /\ Locked'
  BY <1>1 DEF RowsSound, Placed, PlacedAt, OncePublished, OnceAt, Locked, Exists
<1>4. QED
  BY <1>2, <1>3

\* Every step keeps the invariant.
LEMMA NextIInv == IInv /\ [Next]_vars => IInv'
<1> SUFFICES ASSUME IInv, [Next]_vars PROVE IInv'
  OBVIOUS
<1>1. ASSUME NEW p \in Pieces, CreateDraft(p) PROVE IInv'
  BY <1>1, RowJobsKeep
<1>2. ASSUME NEW c \in Clients, Receive(c) PROVE IInv'
  BY <1>2, ReceiveKeeps DEF Procs
<1>3. ASSUME NEW c \in Workers,
             StartSweep(c) \/ \E p \in Pieces : StartJob(c, p) \/ Purge(c, p)
      PROVE  IInv'
  BY <1>3, WorkerKeeps, RowJobsKeep DEF Procs
<1>4. ASSUME NEW c \in Procs, Step(c) PROVE IInv'
  BY <1>4, ReadingKeeps, StatementKeeps, WorkerKeeps, WriteKeeps, WriteScheduleKeeps,
     CommitKeeps
  DEF Step
<1>5. ASSUME NEW c \in Fallible, Crash(c) PROVE IInv'
  BY <1>5, StatementKeeps DEF Procs
<1>6. QED
  BY <1>1, <1>2, <1>3, <1>4, <1>5, SurroundingsKeep DEF Next

\* The invariant holds in every reachable state.
LEMMA Invariance == Spec => []IInv
BY InitIInv, NextIInv, PTL DEF Spec
-----------------------------------------------------------------------------
\* Every variable keeps its type, whichever statements of PiecesService and of
\* the worker interleave.
THEOREM TypeCorrect == Spec => []TypeOK
<1>1. IInv => TypeOK
  BY DEF IInv
<1>2. QED
  BY <1>1, Invariance, PTL

\* However requests, jobs, sweeps, timeouts and crashes interleave, no UPDATE
\* leaves a scheduled row without its time or a published or archived one
\* without its publication time: the CHECK constraints of pieces never fire.
THEOREM ChecksHold == Spec => []ChecksNeverFire
<1>1. IInv => ChecksNeverFire
  BY DEF IInv, RowsSound, Sound, ChecksNeverFire
<1>2. QED
  BY <1>1, Invariance, PTL
-----------------------------------------------------------------------------
(* One process that serves one call after the other.                       *)

\* What a row contributes to the number of published pieces.
Public(r) == r.status = "published" /\ ~r.deleted
Worth(r) == IF Public(r) THEN 1 ELSE 0

\* The worker works on what is due, and on nothing else.
DutyAt(c) ==
  /\ pc[c] \in {"idle", "next"} => task[c] = NoTask
  /\ pc[c] = "idle" => due[c] = {}
  /\ due[c] # {} => pc[c] = "next" \/ task[c].source = "sweep"
  /\ task[c].source = "sweep" => task[c].op = "publish"
  /\ task[c].source = "job" => task[c].op \in {"publishOne", "publish"}
  /\ \A p \in due[c] : row[p].scheduledAt <= now
  /\ task[c].source # "request" /\ task[c].op = "publish" =>
       row[task[c].piece].scheduledAt <= now

\* moderateRestore looks for a deleted row where it found no live one.
MissingAt(c) ==
  pc[c] = "checkDeleted" =>
    \/ row[task[c].piece].deleted
    \/ row[task[c].piece].status \in {"none", "draft", "purged"}

\* What was loaded is still the row, and has passed the guards of the method.
LoadedAt(c) ==
  pc[c] \in {"begin", "write"} =>
    /\ seen[c] = row[task[c].piece] /\ Exists(task[c].piece)
    /\ task[c].op = "restore" => seen[c].deleted \/ seen[c].status = "draft"
    /\ task[c].op # "restore" => ~seen[c].deleted
    /\ task[c].op \in {"publish", "schedule"} => seen[c].status \notin {"published", "archived"}
    /\ task[c].op = "archive" => seen[c].status = "published"
    /\ task[c].op = "unarchive" => seen[c].status = "archived"

\* A publication time stays with a row, and the row with its publication.
LastsAs(r, s) ==
  /\ r.publishedAt # Null => s.publishedAt = r.publishedAt
  /\ s.publishedAt # Null => s.status \in {"published", "archived"}

\* The locked row, what it will become, and what that adds to the count.
HeldAt(c) ==
  pc[c] \in {"count", "commit"} =>
    /\ holder[task[c].piece] = c /\ task[c].op \in OwnerOps \cup {"restore"}
    /\ LastsAs(row[task[c].piece], seen[c])
    /\ IF task[c].op = "publish"
         THEN row[task[c].piece].publishedAt = Null /\ seen[c].publishedAt # Null
         ELSE seen[c].publishedAt = row[task[c].piece].publishedAt
    /\ task[c].op = "publish" => seen[c].scheduledAt = Null
    /\ Worth(seen[c]) = Worth(row[task[c].piece]) + task[c].delta

\* An event is due for a piece that has just been published.
EmittingAt(c) ==
  pc[c] = "emit" => task[c].op = "publish" /\ row[task[c].piece].publishedAt # Null

\* Only published and archived pieces have been published.
PublishedStays == \A p \in Pieces :
  Exists(p) /\ row[p].publishedAt # Null => row[p].status \in {"published", "archived"}

Serial(c) ==
  /\ DutyAt(c) /\ MissingAt(c) /\ LoadedAt(c) /\ HeldAt(c) /\ EmittingAt(c)
  /\ PublishedStays

\* One process, which has served no call yet.
LEMMA InitSerial ==
  ASSUME NEW c, Procs = {c}
  PROVE  Init => Serial(c)
<1> SUFFICES ASSUME Init PROVE Serial(c)
  OBVIOUS
<1>1. pc[c] = "idle" /\ task[c] = NoTask /\ due[c] = {} /\ NoTask.source = "request"
  BY DEF Init, NoTask
<1>2. PublishedStays
  BY DEF Init, PublishedStays, Exists, NoRow
<1>3. QED
  BY <1>1, <1>2 DEF Serial, DutyAt, MissingAt, LoadedAt, HeldAt, EmittingAt

\* What a process can see of the types.
LEMMA SerialTypes ==
  ASSUME IInv, NEW c, Procs = {c}
  PROVE  /\ c \in Procs /\ c # None
         /\ pc \in [Procs -> Phases] /\ task \in [Procs -> Task] /\ seen \in [Procs -> Row]
         /\ due \in [Procs -> SUBSET Pieces] /\ row \in [Pieces -> Row]
         /\ holder \in [Pieces -> Procs \cup {None}]
         /\ now \in Times /\ count \in Int /\ emitted \in [Pieces -> Nat]
         /\ task[c] \in Task /\ task[c].piece \in Pieces /\ seen[c] \in Row
         /\ row[task[c].piece] \in Row /\ \A p \in Pieces : row[p].scheduledAt \in Nat
         /\ NoTask.source = "request" /\ NoTask.op = "none" /\ Null = 0 /\ now > 0
<1>1. /\ c \in Procs /\ c # None
      /\ pc \in [Procs -> Phases] /\ task \in [Procs -> Task] /\ seen \in [Procs -> Row]
      /\ due \in [Procs -> SUBSET Pieces] /\ row \in [Pieces -> Row]
      /\ holder \in [Pieces -> Procs \cup {None}]
      /\ now \in Times /\ count \in Int /\ emitted \in [Pieces -> Nat]
  BY DEF IInv, TypeOK, Procs
<1>2. task[c] \in Task /\ task[c].piece \in Pieces /\ seen[c] \in Row
  BY <1>1 DEF Task
<1>3. \A p \in Pieces : row[p].scheduledAt \in Nat
  BY <1>1 DEF Row, Times, Null
<1>4. NoTask.source = "request" /\ NoTask.op = "none" /\ Null = 0 /\ now > 0
  BY <1>1 DEF NoTask, Null, Times
<1>5. QED
  BY <1>1, <1>2, <1>3, <1>4

\* A call that ends leaves a process that has nothing in hand.
LEMMA EndSerial ==
  ASSUME IInv, NEW c, Procs = {c}, Serial(c), NEW ok \in BOOLEAN, EndOfCall(c, ok),
         PublishedStays', \A p \in due[c] : row'[p].scheduledAt <= now'
  PROVE  /\ Serial(c)' /\ task'[c] = NoTask /\ pc'[c] \in {"idle", "next"}
<1>1. /\ due' = [due EXCEPT ![c] = due[c]]
      /\ pc' = [pc EXCEPT ![c] = IF due[c] # {} THEN "next" ELSE "idle"]
      /\ task' = [task EXCEPT ![c] = NoTask]
  BY DEF EndOfCall, AfterFailure
<1>2. /\ task'[c] = NoTask /\ due'[c] = due[c]
      /\ pc'[c] = IF due[c] # {} THEN "next" ELSE "idle"
  BY <1>1, SerialTypes
<1>3. DutyAt(c)'
  BY <1>2, SerialTypes DEF DutyAt
<1>4. QED
  BY <1>2, <1>3 DEF Serial, MissingAt, LoadedAt, HeldAt, EmittingAt

\* Where no row changes, nothing published does, and what is due stays so.
LEMMA RowsKeepSerial ==
  ASSUME IInv, NEW c, Procs = {c}, Serial(c), UNCHANGED row, now' = now \/ now' = now + 1
  PROVE  PublishedStays' /\ \A p \in due[c] : row'[p].scheduledAt <= now'
<1>1. PublishedStays'
  BY DEF Serial, PublishedStays, Exists
<1>2. ASSUME NEW p \in due[c] PROVE row'[p].scheduledAt <= now'
  <2>1. row[p].scheduledAt <= now /\ row[p].scheduledAt \in Nat /\ now \in Int
    BY SerialTypes DEF Serial, DutyAt, Times
  <2>2. QED
    BY <2>1
<1>3. QED
  BY <1>1, <1>2

\* Time, BullMQ's forgetting, and stuttering.
LEMMA SurroundingsSerial ==
  ASSUME IInv, NEW c, Procs = {c}, Serial(c),
         Tick \/ UNCHANGED vars \/ \E p \in Pieces : ForgetJob(p)
  PROVE  Serial(c)'
<1>1. /\ UNCHANGED <<row, holder, pc, task, seen, due>>
      /\ now' = now \/ now' = now + 1
  BY DEF Tick, vars, ForgetJob
<1>2. PublishedStays' /\ \A p \in due[c] : row'[p].scheduledAt <= now'
  BY <1>1, RowsKeepSerial
<1>3. task[c].source # "request" /\ task[c].op = "publish" =>
        row[task[c].piece].scheduledAt <= now'
  <2>1. now <= now' /\ now \in Int /\ now' \in Int /\ row[task[c].piece].scheduledAt \in Nat
    BY <1>1, SerialTypes DEF Times
  <2>2. QED
    BY <2>1 DEF Serial, DutyAt
<1>4. DutyAt(c)'
  BY <1>1, <1>2, <1>3 DEF Serial, DutyAt
<1>5. QED
  BY <1>1, <1>2, <1>4 DEF Serial, MissingAt, LoadedAt, HeldAt, EmittingAt, Exists

\* A request, a sweep or a job begins, and a sweep goes on.
LEMMA BeginningSerial ==
  ASSUME IInv, NEW c, Procs = {c}, Serial(c),
         Receive(c) \/ StartSweep(c) \/ NextDue(c) \/ \E p \in Pieces : StartJob(c, p)
  PROVE  Serial(c)'
<1>1. UNCHANGED <<row, now>>
  BY DEF Receive, StartSweep, NextDue, StartJob
<1>2. PublishedStays' /\ \A p \in due[c] : row'[p].scheduledAt <= now'
  BY <1>1, RowsKeepSerial
<1>3. SUFFICES DutyAt(c)' /\ pc'[c] \in {"check", "load", "next"}
  BY <1>2 DEF Serial, MissingAt, LoadedAt, HeldAt, EmittingAt
<1>4. CASE Receive(c)
  <2>1. PICK p \in Pieces, op \in (OwnerOps \cup Delegates) \ {"publishOne"} :
          \E at \in (IF op = "schedule" THEN Times ELSE {Null}),
             complete \in (IF op = "update" THEN BOOLEAN ELSE {FALSE}) :
            /\ task' = [task EXCEPT ![c] = [NoTask EXCEPT !.op = op, !.piece = p, !.at = at,
                                                          !.complete = complete]]
            /\ Goto(c, IF op \in Delegates THEN "check" ELSE "load")
    BY <1>4 DEF Receive
  <2>2. pc'[c] \in {"check", "load"} /\ task'[c].source = "request" /\ UNCHANGED due
    <3>1. PICK at \in {Null} \cup Times, complete \in BOOLEAN :
            task' = [task EXCEPT ![c] = [NoTask EXCEPT !.op = op, !.piece = p, !.at = at,
                                                       !.complete = complete]]
      BY <2>1
    <3>2. task'[c].source = "request"
      BY <3>1, SerialTypes DEF NoTask
    <3>3. pc'[c] \in {"check", "load"} /\ UNCHANGED due
      BY <1>4, <2>1, SerialTypes DEF Goto, Receive
    <3>4. QED
      BY <3>2, <3>3
  <2>3. due[c] = {}
    BY <1>4 DEF Receive, Serial, DutyAt
  <2>4. QED
    BY <2>2, <2>3 DEF DutyAt
<1>5. CASE StartSweep(c)
  <2>1. PICK batch \in SUBSET Pieces \ {{}} :
          IsBatch(batch) /\ due' = [due EXCEPT ![c] = batch]
    BY <1>5 DEF StartSweep
  <2>2. /\ due'[c] = batch /\ pc[c] = "idle" /\ pc'[c] = "next" /\ task' = task
    BY <1>5, <2>1, SerialTypes DEF StartSweep, Goto
  <2>3. \A p \in batch : row[p].scheduledAt <= now
    BY <2>1 DEF IsBatch, DuePieces
  <2>4. QED
    BY <1>1, <2>2, <2>3, SerialTypes DEF Serial, DutyAt
<1>6. CASE NextDue(c)
  <2>1. PICK p \in due[c] :
          /\ due' = [due EXCEPT ![c] = due[c] \ {p}]
          /\ task' = [task EXCEPT ![c] = [NoTask EXCEPT !.op = "publish", !.piece = p,
                                                        !.source = "sweep"]]
    BY <1>6, SerialTypes DEF NextDue
  <2>2. /\ due'[c] \subseteq due[c] /\ pc'[c] = "load"
        /\ task'[c].op = "publish" /\ task'[c].piece = p /\ task'[c].source = "sweep"
    BY <1>6, <2>1, SerialTypes DEF NextDue, Goto, NoTask
  <2>3. QED
    BY <1>2, <2>2 DEF DutyAt
<1>7. ASSUME NEW p \in Pieces, StartJob(c, p)
      PROVE  DutyAt(c)' /\ pc'[c] \in {"check", "load", "next"}
  <2>1. /\ due' = due /\ pc[c] = "idle" /\ pc'[c] = "check"
        /\ task'[c].op = "publishOne" /\ task'[c].source = "job"
    BY <1>7, SerialTypes DEF StartJob, Goto, NoTask
  <2>2. QED
    BY <2>1 DEF Serial, DutyAt
<1>8. QED
  BY <1>4, <1>5, <1>6, <1>7

\* Reading the row: what is loaded is the row, and passes the guards.
LEMMA ReadingSerial ==
  ASSUME IInv, NEW c, Procs = {c}, Serial(c),
         \/ Check(c) \/ CheckNothingToDo(c) \/ CheckMissing(c) \/ FindDeleted(c)
         \/ Load(c) \/ LoadRefused(c)
  PROVE  Serial(c)'
<1> DEFINE p == task[c].piece
<1>1. UNCHANGED <<row, now>>
  BY DEF Check, CheckNothingToDo, CheckMissing, FindDeleted, Load, LoadRefused
<1>2. PublishedStays' /\ \A q \in due[c] : row'[q].scheduledAt <= now'
  BY <1>1, RowsKeepSerial
<1>3. CASE Check(c)
  <2> DEFINE op == Delegated(task[c].op, p)
  <2>1. /\ task' = [task EXCEPT ![c].op = op] /\ pc[c] = "check"
        /\ pc'[c] = "load" /\ UNCHANGED due
    BY <1>3, SerialTypes DEF Check, Goto
  <2>2. /\ task'[c].op = op /\ task'[c].source = task[c].source /\ task'[c].piece = p
    BY <2>1, SerialTypes DEF Task
  <2>3. task[c].op \in Delegates
    BY <2>1, SerialTypes DEF IInv, Placed, PlacedAt
  <2>4. task[c].source # "request" =>
          task[c].source = "job" /\ op = "publish" /\ row[p].scheduledAt <= now
    <3>1. task[c].source # "request" => task[c].source = "job" /\ task[c].op = "publishOne"
      BY <2>3, SerialTypes DEF Serial, DutyAt, Delegates, Task
    <3>2. op # "none"
      BY <1>3 DEF Check
    <3>3. QED
      BY <3>1, <3>2 DEF Delegated, IsDue
  <2> HIDE DEF op, p
  <2>5. DutyAt(c)'
    BY <1>1, <1>2, <2>1, <2>2, <2>4 DEF Serial, DutyAt
  <2>6. QED
    BY <1>2, <2>1, <2>5 DEF Serial, MissingAt, LoadedAt, HeldAt, EmittingAt
<1>4. CASE CheckNothingToDo(c) \/ LoadRefused(c)
  BY <1>2, <1>4, EndSerial DEF CheckNothingToDo, LoadRefused
<1>5. CASE CheckMissing(c)
  <2>1. pc[c] = "check" /\ pc'[c] = "checkDeleted" /\ UNCHANGED <<task, due>> /\ ~Live(p)
    BY <1>5, SerialTypes DEF CheckMissing, Goto
  <2>2. MissingAt(c)'
    BY <1>1, <2>1 DEF MissingAt, Live, Exists
  <2>3. DutyAt(c)'
    BY <1>1, <2>1 DEF Serial, DutyAt
  <2>4. QED
    BY <1>2, <2>1, <2>2, <2>3 DEF Serial, LoadedAt, HeldAt, EmittingAt
<1>6. CASE FindDeleted(c)
  <2>1. CASE EndOfCall(c, TRUE)
    BY <1>2, <2>1, EndSerial
  <2>2. CASE /\ Exists(p) /\ seen' = [seen EXCEPT ![c] = row[p]]
             /\ Goto(c, "begin") /\ UNCHANGED <<job, task, due>>
    <3>1. pc[c] = "checkDeleted" /\ task[c].op = "restore"
      BY <1>6, SerialTypes DEF FindDeleted, IInv, Placed, PlacedAt
    <3>2. seen'[c] = row[p] /\ pc'[c] = "begin"
      BY <2>2, SerialTypes DEF Goto
    <3>3. LoadedAt(c)'
      BY <1>1, <2>2, <3>1, <3>2 DEF Serial, LoadedAt, MissingAt, Exists
    <3>4. DutyAt(c)'
      BY <1>1, <2>2, <3>1, <3>2 DEF Serial, DutyAt
    <3>5. QED
      BY <1>2, <3>2, <3>3, <3>4 DEF Serial, MissingAt, HeldAt, EmittingAt
  <2>3. QED
    BY <1>6, <2>1, <2>2 DEF FindDeleted
<1>7. CASE Load(c)
  <2>1. /\ pc[c] = "load" /\ pc'[c] \in {"write", "begin"} /\ UNCHANGED <<task, due>>
        /\ seen'[c] = row[p] /\ Live(p) /\ ~Refused(row[p], task[c])
    BY <1>7, SerialTypes DEF Load, Goto
  <2>2. task[c].op \in OwnerOps
    BY <2>1, SerialTypes DEF IInv, Placed, PlacedAt
  <2>3. LoadedAt(c)'
    BY <1>1, <2>1, <2>2 DEF LoadedAt, Live, Exists, Refused, NotPublishable, OwnerOps
  <2>4. DutyAt(c)'
    BY <1>1, <2>1 DEF Serial, DutyAt
  <2>5. QED
    BY <1>2, <2>1, <2>3, <2>4 DEF Serial, MissingAt, HeldAt, EmittingAt
<1>8. QED
  BY <1>3, <1>4, <1>5, <1>6, <1>7

\* What an UPDATE makes of a row that was loaded, is still there, and has
\* passed the guards: what is added to the count, and that publication lasts.
LEMMA PatchOfLoaded ==
  ASSUME NEW r \in Row, NEW t \in Task, now \in Times,
         t.op \in (OwnerOps \cup {"restore"}) \ {"schedule"},
         r.publishedAt # Null => r.status \in {"published", "archived"},
         r.status \in {"published", "archived"} => r.publishedAt # Null,
         t.op = "restore" => r.deleted \/ r.status = "draft",
         t.op # "restore" => ~r.deleted,
         t.op = "publish" => r.status \notin {"published", "archived"},
         t.op = "archive" => r.status = "published",
         t.op = "unarchive" => r.status = "archived"
  PROVE  LET s == Patch(r, r, t) IN
         /\ LastsAs(r, s)
         /\ IF t.op = "publish" THEN r.publishedAt = Null /\ s.publishedAt # Null
                                ELSE s.publishedAt = r.publishedAt
         /\ t.op = "publish" => s.scheduledAt = Null
         /\ Worth(s) = Worth(r) + CountDelta(r, t)
<1>1. CASE t.op = "publish"
  <2>1. r.publishedAt = Null /\ FirstPublished(r) = now /\ now # Null
    BY <1>1 DEF FirstPublished, Times, Null
  <2> DEFINE s == [r EXCEPT !.status = "published", !.scheduledAt = Null, !.publishedAt = now]
  <2>2. Patch(r, r, t) = s /\ CountDelta(r, t) = 1
    BY <1>1, <2>1 DEF Patch, CountDelta
  <2>3. s.status = "published" /\ s.publishedAt = now /\ s.deleted = FALSE /\ s.scheduledAt = Null
    BY <1>1 DEF Row
  <2> HIDE DEF s
  <2>4. Worth(s) = 1 /\ Worth(r) = 0
    BY <1>1, <2>3 DEF Worth, Public
  <2>5. QED
    BY <1>1, <2>1, <2>2, <2>3, <2>4 DEF LastsAs
<1>2. CASE t.op \in {"update", "delete", "restore"}
  <2> DEFINE s == Patch(r, r, t)
  <2>0. s = Patch(r, r, t)
    OBVIOUS
  <2>1. /\ s.status = r.status /\ s.publishedAt = r.publishedAt
        /\ t.op = "update" => s.deleted = r.deleted
        /\ t.op = "delete" => s.deleted
        /\ t.op = "restore" => ~s.deleted
    BY <1>2 DEF Patch, Row
  <2>2. /\ t.op = "update" => CountDelta(r, t) = 0
        /\ t.op = "delete" => CountDelta(r, t) = -Counted(r)
        /\ t.op = "restore" => CountDelta(r, t) = Counted(r)
    BY DEF CountDelta
  <2> HIDE DEF s
  <2>3. Worth(s) = Worth(r) + CountDelta(r, t)
    BY <1>2, <2>1, <2>2 DEF Worth, Public, Counted
  <2>4. QED
    BY <1>2, <2>0, <2>1, <2>3 DEF LastsAs
<1>3. CASE t.op \in {"archive", "unarchive"}
  <2> DEFINE s == Patch(r, r, t)
  <2>0. s = Patch(r, r, t)
    OBVIOUS
  <2>1. /\ s.publishedAt = r.publishedAt /\ s.deleted = r.deleted
        /\ s.status = IF t.op = "archive" THEN "archived" ELSE "published"
    BY <1>3 DEF Patch, Unarchived, Row
  <2>2. CountDelta(r, t) = IF t.op = "archive" THEN -1 ELSE 1
    BY <1>3 DEF CountDelta
  <2> HIDE DEF s
  <2>3. Worth(s) = Worth(r) + CountDelta(r, t)
    BY <1>3, <2>1, <2>2 DEF Worth, Public
  <2>4. QED
    BY <1>3, <2>0, <2>1, <2>3 DEF LastsAs
<1>4. QED
  BY <1>1, <1>2, <1>3 DEF OwnerOps

\* The UPDATE is worked out from the very row it locks.
LEMMA WriteSerial ==
  ASSUME IInv, NEW c, Procs = {c}, Serial(c), Write(c)
  PROVE  Serial(c)'
<1> DEFINE p == task[c].piece
           delta == CountDelta(seen[c], task[c])
           s == Patch(row[p], seen[c], task[c])
           t == [task[c] EXCEPT !.delta = delta]
<1>1. /\ pc[c] = "write" /\ task[c].op # "schedule"
      /\ Exists(p) /\ seen[c] = row[p] /\ UNCHANGED <<row, now, due>>
  BY DEF Write, Serial, LoadedAt
<1>2. /\ task' = [task EXCEPT ![c] = t] /\ seen' = [seen EXCEPT ![c] = s]
      /\ holder' = [holder EXCEPT ![p] = c]
      /\ pc' = [pc EXCEPT ![c] = IF delta = 0 THEN "commit" ELSE "count"]
  BY <1>1 DEF Write, Goto
<1>3. t.op = task[c].op /\ t.piece = p /\ t.source = task[c].source /\ t.delta = delta
  BY SerialTypes DEF Task
<1>4. /\ LastsAs(row[p], s) /\ t.op \in OwnerOps \cup {"restore"}
      /\ IF t.op = "publish" THEN row[p].publishedAt = Null /\ s.publishedAt # Null
                             ELSE s.publishedAt = row[p].publishedAt
      /\ t.op = "publish" => s.scheduledAt = Null
      /\ Worth(s) = Worth(row[p]) + delta
  <2>1. task[c].op \in (OwnerOps \cup {"restore"}) \ {"schedule"}
    BY <1>1, SerialTypes DEF IInv, Placed, PlacedAt
  <2>2. /\ row[p].publishedAt # Null => row[p].status \in {"published", "archived"}
        /\ row[p].status \in {"published", "archived"} => row[p].publishedAt # Null
    BY <1>1, SerialTypes DEF Serial, PublishedStays, IInv, RowsSound, Sound
  <2>3. /\ task[c].op = "restore" => row[p].deleted \/ row[p].status = "draft"
        /\ task[c].op # "restore" => ~row[p].deleted
        /\ task[c].op = "publish" => row[p].status \notin {"published", "archived"}
        /\ task[c].op = "archive" => row[p].status = "published"
        /\ task[c].op = "unarchive" => row[p].status = "archived"
    BY <1>1 DEF Serial, LoadedAt
  <2>4. row[p] \in Row /\ task[c] \in Task /\ now \in Times
    BY SerialTypes
  <2>5. s = Patch(row[p], row[p], task[c]) /\ delta = CountDelta(row[p], task[c])
    BY <1>1
  <2> HIDE DEF s, delta
  <2>6. QED
    BY <1>3, <2>1, <2>2, <2>3, <2>4, <2>5, PatchOfLoaded
<1> HIDE DEF s, delta, t
<1>5. /\ task'[c] = t /\ seen'[c] = s /\ holder'[p] = c /\ pc'[c] \in {"commit", "count"}
  BY <1>2, SerialTypes
<1>6. PublishedStays' /\ \A q \in due[c] : row'[q].scheduledAt <= now'
  BY <1>1, RowsKeepSerial
<1>7. HeldAt(c)'
  BY <1>1, <1>3, <1>4, <1>5 DEF HeldAt
<1>8. DutyAt(c)'
  BY <1>1, <1>3, <1>5, <1>6 DEF Serial, DutyAt
<1>9. QED
  BY <1>5, <1>6, <1>7, <1>8 DEF Serial, MissingAt, LoadedAt, EmittingAt

\* The statements of a call that write no row.
LEMMA StatementSerial ==
  ASSUME IInv, NEW c, Procs = {c}, Serial(c),
         \/ BeginTx(c) \/ AdjustPublishedCount(c) \/ Emit(c) \/ Enqueue(c)
         \/ ConnectionTimeout(c) \/ Crash(c)
  PROVE  Serial(c)'
<1>1. UNCHANGED <<row, now>>
  BY DEF BeginTx, AdjustPublishedCount, Emit, Enqueue, ConnectionTimeout, Crash
<1>2. PublishedStays' /\ \A p \in due[c] : row'[p].scheduledAt <= now'
  BY <1>1, RowsKeepSerial
<1>3. CASE BeginTx(c)
  <2>1. /\ pc[c] = "begin" /\ pc'[c] = "write" /\ UNCHANGED <<task, seen, due>>
    BY <1>3, SerialTypes DEF BeginTx, Goto
  <2>2. DutyAt(c)' /\ LoadedAt(c)'
    BY <1>1, <2>1 DEF Serial, DutyAt, LoadedAt, Exists
  <2>3. QED
    BY <1>2, <2>1, <2>2 DEF Serial, MissingAt, HeldAt, EmittingAt
<1>4. CASE AdjustPublishedCount(c)
  <2>1. /\ pc[c] = "count" /\ pc'[c] = "commit" /\ UNCHANGED <<task, seen, due, holder>>
    BY <1>4, SerialTypes DEF AdjustPublishedCount, Goto
  <2>2. DutyAt(c)' /\ HeldAt(c)'
    BY <1>1, <2>1 DEF Serial, DutyAt, HeldAt
  <2>3. QED
    BY <1>2, <2>1, <2>2 DEF Serial, MissingAt, LoadedAt, EmittingAt
<1>5. CASE Emit(c) \/ ConnectionTimeout(c)
  BY <1>2, <1>5, EndSerial DEF Emit, ConnectionTimeout, GiveUp
<1>6. CASE Enqueue(c) \/ Crash(c)
  <2>1. pc'[c] = "idle" /\ task'[c] = NoTask
    BY <1>6, SerialTypes DEF Enqueue, Crash, Goto
  <2>2. due'[c] = {}
    <3>1. CASE Enqueue(c)
      <4>1. task[c].op = "schedule" /\ pc[c] = "enqueue"
        BY <3>1, SerialTypes DEF Enqueue, IInv, Placed, PlacedAt
      <4>2. QED
        BY <3>1, <4>1 DEF Enqueue, Serial, DutyAt
    <3>2. CASE Crash(c)
      BY <3>2, SerialTypes DEF Crash
    <3>3. QED
      BY <1>6, <3>1, <3>2
  <2>3. DutyAt(c)'
    BY <2>1, <2>2, SerialTypes DEF DutyAt
  <2>4. QED
    BY <1>2, <2>1, <2>3 DEF Serial, MissingAt, LoadedAt, HeldAt, EmittingAt
<1>7. QED
  BY <1>3, <1>4, <1>5, <1>6

\* A commit leaves the row as it was prepared.
LEMMA CommitSerial ==
  ASSUME IInv, NEW c, Procs = {c}, Serial(c), Commit(c)
  PROVE  Serial(c)'
<1> DEFINE p == task[c].piece
<1>1. /\ row' = [row EXCEPT ![p] = seen[c]] /\ now' = now /\ pc[c] = "commit"
      /\ IF task[c].op = "publish"
           THEN Goto(c, "emit") /\ UNCHANGED <<task, seen, due>>
           ELSE EndOfCall(c, TRUE)
  BY DEF Commit, Serial, HeldAt
<1>2. /\ LastsAs(row[p], seen[c])
      /\ task[c].op = "publish" => seen[c].publishedAt # Null /\ seen[c].scheduledAt = Null
  BY DEF Commit, Serial, HeldAt
<1>3. row'[p] = seen[c] /\ \A q \in Pieces \ {p} : row'[q] = row[q]
  BY <1>1, SerialTypes
<1>4. PublishedStays'
  BY <1>2, <1>3 DEF Serial, PublishedStays, LastsAs, Exists
<1>5. \A q \in due[c] : row'[q].scheduledAt <= now'
  <2>1. due[c] # {} => task[c].op = "publish"
    BY DEF Serial, DutyAt, Commit
  <2>2. due[c] \subseteq Pieces
    BY SerialTypes
  <2>3. task[c].op = "publish" => row'[p].scheduledAt <= now'
    <3>1. Null <= now
      BY SerialTypes DEF Times
    <3>2. QED
      BY <1>1, <1>2, <1>3, <3>1
  <2>4. \A q \in due[c] : q # p => row'[q].scheduledAt <= now'
    BY <1>1, <1>3, <2>2 DEF Serial, DutyAt
  <2>5. QED
    BY <2>1, <2>3, <2>4
<1>6. CASE task[c].op = "publish"
  <2>1. pc'[c] = "emit" /\ UNCHANGED <<task, due>>
    BY <1>1, <1>6, SerialTypes DEF Goto
  <2>2. row'[p].publishedAt # Null /\ row'[p].scheduledAt <= now'
    <3>1. Null <= now
      BY SerialTypes DEF Times
    <3>2. QED
      BY <1>1, <1>2, <1>3, <1>6, <3>1
  <2>3. DutyAt(c)'
    BY <1>1, <1>5, <2>1, <2>2 DEF Serial, DutyAt
  <2>4. EmittingAt(c)'
    BY <1>6, <2>1, <2>2 DEF EmittingAt
  <2>5. QED
    BY <1>4, <2>1, <2>3, <2>4 DEF Serial, MissingAt, LoadedAt, HeldAt
<1>7. CASE task[c].op # "publish"
  BY <1>1, <1>4, <1>5, <1>7, EndSerial
<1>8. QED
  BY <1>6, <1>7

\* The UPDATE of schedule meets a row that is not published.
LEMMA WriteScheduleSerial ==
  ASSUME IInv, NEW c, Procs = {c}, Serial(c), WriteSchedule(c)
  PROVE  /\ Serial(c)'
         /\ row'[task[c].piece].status = "scheduled" /\ row[task[c].piece].publishedAt = Null
         /\ ~Public(row[task[c].piece]) /\ row'[task[c].piece].publishedAt = Null
         /\ \A q \in Pieces \ {task[c].piece} : row'[q] = row[q]
<1> DEFINE p == task[c].piece
<1>1. /\ pc[c] = "write" /\ task[c].op = "schedule" /\ Exists(p) /\ seen[c] = row[p]
      /\ row[p].status \notin {"published", "archived"}
      /\ row' = [row EXCEPT ![p] = Patch(row[p], seen[c], task[c])]
      /\ pc' = [pc EXCEPT ![c] = "enqueue"] /\ UNCHANGED <<now, task, due>>
  BY DEF WriteSchedule, Goto, Serial, LoadedAt
<1>2. row[p].publishedAt = Null
  BY <1>1, SerialTypes DEF Serial, PublishedStays
<1>3. Patch(row[p], seen[c], task[c]) = [row[p] EXCEPT !.status = "scheduled", !.scheduledAt = task[c].at]
  BY <1>1 DEF Patch
<1>4. /\ row'[p].status = "scheduled" /\ row'[p].publishedAt = Null
      /\ \A q \in Pieces \ {p} : row'[q] = row[q]
  BY <1>1, <1>2, <1>3, SerialTypes DEF Row
<1>5. PublishedStays'
  BY <1>4 DEF Serial, PublishedStays, Exists
<1>6. pc'[c] = "enqueue" /\ due[c] = {} /\ task[c].source = "request"
  BY <1>1, SerialTypes DEF Serial, DutyAt, Task
<1>7. DutyAt(c)'
  BY <1>1, <1>6 DEF DutyAt
<1>8. Serial(c)'
  BY <1>5, <1>6, <1>7 DEF Serial, MissingAt, LoadedAt, HeldAt, EmittingAt
<1>9. QED
  BY <1>1, <1>2, <1>4, <1>8 DEF Public

\* createDraft, duplicate and the purge job meet a row that no call has loaded.
LEMMA RowJobSerial ==
  ASSUME IInv, NEW c, Procs = {c}, Serial(c), NEW p \in Pieces,
         CreateDraft(p) \/ Purge(c, p)
  PROVE  /\ Serial(c)'
         /\ ~Public(row[p]) /\ ~Public(row'[p]) /\ row'[p].publishedAt = Null
         /\ row[p].status = "none" \/ row'[p].status = "purged"
         /\ \A q \in Pieces \ {p} : row'[q] = row[q]
         /\ UNCHANGED <<count, emitted, now, holder, pc, task, seen, due>>
<1>1. UNCHANGED <<count, emitted, now, holder, pc, task, seen, due>>
  BY DEF CreateDraft, Purge
<1>2. PICK r \in Row : /\ row' = [row EXCEPT ![p] = r]
                       /\ r.publishedAt = Null /\ r.scheduledAt = Null /\ r.status \in {"draft", "purged"}
                       /\ \/ row[p].status = "none" /\ r.status = "draft"
                          \/ row[p].deleted /\ r.status = "purged" /\ pc[c] = "idle"
  <2>1. CASE CreateDraft(p)
    <3>1. PICK complete \in BOOLEAN :
            row' = [row EXCEPT ![p] = [NoRow EXCEPT !.status = "draft", !.complete = complete]]
      BY <2>1 DEF CreateDraft
    <3> DEFINE r == [NoRow EXCEPT !.status = "draft", !.complete = complete]
    <3>2. r \in Row /\ r.status = "draft" /\ r.publishedAt = Null /\ r.scheduledAt = Null
      BY DEF NoRow, Row, Statuses
    <3>3. row[p].status = "none" /\ row' = [row EXCEPT ![p] = r]
      BY <2>1, <3>1 DEF CreateDraft
    <3> HIDE DEF r
    <3>4. QED
      BY <3>2, <3>3
  <2>2. CASE Purge(c, p)
    <3> DEFINE r == [NoRow EXCEPT !.status = "purged"]
    <3>1. r \in Row /\ r.status = "purged" /\ r.publishedAt = Null /\ r.scheduledAt = Null
      BY DEF NoRow, Row, Statuses
    <3>2. row[p].deleted /\ pc[c] = "idle" /\ row' = [row EXCEPT ![p] = r]
      BY <2>2 DEF Purge
    <3> HIDE DEF r
    <3>3. QED
      BY <3>1, <3>2
  <2>3. QED
    BY <2>1, <2>2
<1>3. row'[p] = r /\ \A q \in Pieces \ {p} : row'[q] = row[q]
  BY <1>2, SerialTypes
<1>4. PublishedStays'
  BY <1>2, <1>3 DEF Serial, PublishedStays, Exists
<1>5. DutyAt(c)'
  <2>1. \A q \in Pieces : row[q].scheduledAt <= now => row'[q].scheduledAt <= now'
    BY <1>1, <1>2, <1>3, SerialTypes DEF Times
  <2>2. due[c] \subseteq Pieces
    BY SerialTypes
  <2>3. QED
    BY <1>1, <2>1, <2>2, SerialTypes DEF Serial, DutyAt
<1>6. MissingAt(c)'
  BY <1>1, <1>2, <1>3, SerialTypes DEF Serial, MissingAt
<1>7. pc[c] \in {"begin", "write", "count", "commit", "emit"} =>
        row'[task[c].piece] = row[task[c].piece]
  <2>1. pc[c] \in {"begin", "write", "count", "commit"} => Exists(task[c].piece)
    <3>1. pc[c] \in {"count", "commit"} => Exists(task[c].piece)
      BY SerialTypes DEF Serial, HeldAt, IInv, Locked
    <3>2. QED
      BY <3>1 DEF Serial, LoadedAt
  <2>2. pc[c] = "emit" => row[task[c].piece].status # "none"
    BY SerialTypes DEF Serial, EmittingAt, IInv, RowsSound
  <2>3. QED
    BY <1>2, <1>3, <2>1, <2>2, SerialTypes DEF Exists
<1>8. LoadedAt(c)' /\ HeldAt(c)' /\ EmittingAt(c)'
  BY <1>1, <1>7 DEF Serial, LoadedAt, HeldAt, EmittingAt, Exists
<1>9. QED
  BY <1>1, <1>2, <1>3, <1>4, <1>5, <1>6, <1>8 DEF Serial, Public

\* The statements that write a row.
LEMMA RowStatements ==
  ASSUME NEW c, Procs = {c}, [Next]_vars
  PROVE  \/ Commit(c) \/ WriteSchedule(c) \/ \E p \in Pieces : CreateDraft(p) \/ Purge(c, p)
         \/ UNCHANGED row
<1>1. /\ \A d \in Clients : d = c
      /\ \A d \in Workers : d = c
      /\ \A d \in Fallible : d = c
  BY DEF Procs
<1>2. Step(c) => Commit(c) \/ WriteSchedule(c) \/ UNCHANGED row
  BY DEF Step, Check, CheckNothingToDo, CheckMissing, FindDeleted, Load, LoadRefused, BeginTx,
         Write, AdjustPublishedCount, Emit, Enqueue, NextDue, ConnectionTimeout
<1>3. /\ \A p \in Pieces : ForgetJob(p) => UNCHANGED row
      /\ \A d \in Clients : Receive(d) => UNCHANGED row
      /\ \A d \in Workers : StartSweep(d) => UNCHANGED row
      /\ \A d \in Workers, p \in Pieces : StartJob(d, p) => UNCHANGED row
      /\ \A d \in Fallible : Crash(d) => UNCHANGED row
      /\ Tick \/ UNCHANGED vars => UNCHANGED row
  BY DEF ForgetJob, Receive, StartSweep, StartJob, Crash, Tick, vars
<1>4. QED
  BY <1>1, <1>2, <1>3 DEF Next

\* Every step of one process keeps the invariant.
LEMMA NextSerial ==
  ASSUME NEW c, Procs = {c}
  PROVE  IInv /\ Serial(c) /\ [Next]_vars => Serial(c)'
<1> SUFFICES ASSUME IInv, Serial(c), [Next]_vars PROVE Serial(c)'
  OBVIOUS
<1>1. ASSUME NEW p \in Pieces, CreateDraft(p) PROVE Serial(c)'
  BY <1>1, RowJobSerial
<1>2. ASSUME NEW d \in Clients, Receive(d) PROVE Serial(c)'
  <2>1. d = c
    BY DEF Procs
  <2>2. QED
    BY <1>2, <2>1, BeginningSerial
<1>3. ASSUME NEW d \in Workers,
             StartSweep(d) \/ \E p \in Pieces : StartJob(d, p) \/ Purge(d, p)
      PROVE  Serial(c)'
  <2>1. d = c
    BY DEF Procs
  <2>2. QED
    BY <1>3, <2>1, BeginningSerial, RowJobSerial
<1>4. ASSUME NEW d \in Procs, Step(d) PROVE Serial(c)'
  <2>1. d = c
    OBVIOUS
  <2>2. QED
    BY <1>4, <2>1, ReadingSerial, BeginningSerial, WriteSerial, StatementSerial, CommitSerial,
       WriteScheduleSerial
    DEF Step
<1>5. ASSUME NEW d \in Fallible, Crash(d) PROVE Serial(c)'
  <2>1. d = c
    BY DEF Procs
  <2>2. QED
    BY <1>5, <2>1, StatementSerial
<1>6. QED
  BY <1>1, <1>2, <1>3, <1>4, <1>5, SurroundingsSerial DEF Next

\* The invariant of one process is inductive, crashes included.
LEMMA SerialInductive ==
  ASSUME NEW w, Procs = {w}
  PROVE  /\ Init => IInv /\ Serial(w)
         /\ IInv /\ Serial(w) /\ [Next]_vars => IInv' /\ Serial(w)'
BY InitIInv, NextIInv, InitSerial, NextSerial
-----------------------------------------------------------------------------
(* One process that does not crash: the count and the events.              *)

\* The count is that of the published pieces; it is one step ahead of a commit.
CountAt(c) ==
  IF pc[c] = "commit" THEN count = Cardinality(PublishedPieces) + task[c].delta
                      ELSE count = Cardinality(PublishedPieces)

\* Whatever was published has been announced, but for the piece just committed.
AnnouncedAt(c) == \A p \in Pieces :
  row[p].status # "purged" =>
    emitted[p] = IF row[p].publishedAt = Null \/ (pc[c] = "emit" /\ task[c].piece = p)
                   THEN 0 ELSE 1

Exact(c) == CountAt(c) /\ AnnouncedAt(c)

\* A published piece is a row that is public, before and after a step.
LEMMA PublicRows ==
  /\ PublishedPieces = {p \in Pieces : Public(row[p])}
  /\ PublishedPieces' = {p \in Pieces : Public(row'[p])}
BY DEF PublishedPieces, Live, Exists, Public

\* They are finitely many.
LEMMA PublishedFinite ==
  ASSUME IsFiniteSet(Pieces)
  PROVE  IsFiniteSet(PublishedPieces) /\ Cardinality(PublishedPieces) \in Nat
<1>1. IsFiniteSet(PublishedPieces)
  BY FS_Subset, PublicRows
<1>2. QED
  BY <1>1, FS_CardinalityType

\* One row changes: the number of published pieces moves by what it is worth.
LEMMA CountOneRow ==
  ASSUME IsFiniteSet(Pieces), NEW p \in Pieces, \A q \in Pieces \ {p} : row'[q] = row[q]
  PROVE  /\ Cardinality(PublishedPieces) \in Nat /\ Cardinality(PublishedPieces') \in Nat
         /\ Cardinality(PublishedPieces') =
              Cardinality(PublishedPieces) + Worth(row'[p]) - Worth(row[p])
<1>1. IsFiniteSet(PublishedPieces) /\ IsFiniteSet(PublishedPieces')
  BY FS_Subset, PublicRows DEF PublishedPieces
<1>2. Cardinality(PublishedPieces) \in Nat /\ Cardinality(PublishedPieces') \in Nat
  BY <1>1, FS_CardinalityType
<1>3. CASE Public(row[p]) <=> Public(row'[p])
  <2>1. PublishedPieces' = PublishedPieces
    BY <1>3, PublicRows
  <2>2. QED
    BY <1>2, <1>3, <2>1 DEF Worth
<1>4. CASE ~Public(row[p]) /\ Public(row'[p])
  <2>1. PublishedPieces' = PublishedPieces \cup {p} /\ p \notin PublishedPieces
    BY <1>4, PublicRows
  <2>2. Cardinality(PublishedPieces') = Cardinality(PublishedPieces) + 1
    BY <1>1, <2>1, FS_AddElement
  <2>3. QED
    BY <1>2, <1>4, <2>2 DEF Worth
<1>5. CASE Public(row[p]) /\ ~Public(row'[p])
  <2>1. PublishedPieces' = PublishedPieces \ {p} /\ p \in PublishedPieces
    BY <1>5, PublicRows
  <2>2. Cardinality(PublishedPieces') = Cardinality(PublishedPieces) - 1
    BY <1>1, <2>1, FS_RemoveElement
  <2>3. QED
    BY <1>2, <1>5, <2>2 DEF Worth
<1>6. QED
  BY <1>3, <1>4, <1>5

\* Nothing is published, counted or announced at first.
LEMMA InitExact ==
  ASSUME NEW c, Procs = {c}
  PROVE  Init => Exact(c)
<1> SUFFICES ASSUME Init PROVE Exact(c)
  OBVIOUS
<1>1. PublishedPieces = {}
  BY DEF Init, PublishedPieces, NoRow
<1>2. Cardinality(PublishedPieces) = 0 /\ count = 0 /\ pc[c] = "idle"
  BY <1>1, FS_EmptySet DEF Init
<1>3. \A p \in Pieces : emitted[p] = 0 /\ row[p].publishedAt = Null
  BY DEF Init, NoRow
<1>4. QED
  BY <1>2, <1>3 DEF Exact, CountAt, AnnouncedAt

\* A step that touches neither rows nor count nor events, and neither begins
\* nor ends a commit or an emission.
LEMMA ApartKeepsExact ==
  ASSUME IInv, NEW c, Procs = {c}, Exact(c), UNCHANGED <<row, count, emitted>>,
         (pc'[c] # "emit" /\ pc[c] # "emit") \/ UNCHANGED <<pc, task>>,
         (pc'[c] # "commit" /\ pc[c] # "commit") \/ UNCHANGED <<pc, task>>
  PROVE  Exact(c)'
<1>1. PublishedPieces' = PublishedPieces
  BY PublicRows
<1>2. QED
  BY <1>1 DEF Exact, CountAt, AnnouncedAt

\* Every step but those that count, commit, emit or write a row.
LEMMA ApartExact ==
  ASSUME IInv, NEW c, Procs = {c}, Serial(c), Exact(c),
         \/ Tick \/ UNCHANGED vars \/ \E p \in Pieces : ForgetJob(p) \/ StartJob(c, p)
         \/ Receive(c) \/ StartSweep(c) \/ NextDue(c)
         \/ Check(c) \/ CheckNothingToDo(c) \/ CheckMissing(c) \/ FindDeleted(c)
         \/ Load(c) \/ LoadRefused(c) \/ BeginTx(c) \/ Enqueue(c) \/ ConnectionTimeout(c)
  PROVE  Exact(c)'
<1>1. UNCHANGED <<row, count, emitted>>
  BY DEF Tick, vars, ForgetJob, StartJob, Receive, StartSweep, NextDue, Check, CheckNothingToDo,
         CheckMissing, FindDeleted, Load, LoadRefused, BeginTx, Enqueue, ConnectionTimeout
<1>2. CASE Tick \/ UNCHANGED vars \/ \E p \in Pieces : ForgetJob(p)
  <2>1. UNCHANGED <<pc, task>>
    BY <1>2 DEF Tick, vars, ForgetJob
  <2>2. QED
    BY <1>1, <2>1, ApartKeepsExact
<1>3. CASE \/ Check(c) \/ CheckMissing(c) \/ Load(c) \/ BeginTx(c) \/ Enqueue(c)
           \/ StartSweep(c) \/ NextDue(c) \/ \E p \in Pieces : StartJob(c, p)
  <2>1. pc[c] \notin {"commit", "emit"} /\ pc'[c] \notin {"commit", "emit"}
    BY <1>3, SerialTypes DEF Check, CheckMissing, Load, BeginTx, Enqueue, StartSweep, NextDue,
                             StartJob, Goto
  <2>2. QED
    BY <1>1, <2>1, ApartKeepsExact
<1>4. CASE Receive(c)
  <2>1. pc[c] = "idle" /\ pc'[c] \in {"check", "load"}
    BY <1>4, SerialTypes DEF Receive, Goto
  <2>2. QED
    BY <1>1, <2>1, ApartKeepsExact
<1>5. CASE CheckNothingToDo(c) \/ LoadRefused(c) \/ ConnectionTimeout(c) \/ FindDeleted(c)
  <2>1. pc[c] \notin {"commit", "emit"}
    BY <1>5 DEF CheckNothingToDo, LoadRefused, ConnectionTimeout, NeedsConnection, FindDeleted
  <2>2. pc'[c] \in {"idle", "next", "begin"}
    <3>1. \/ EndOfCall(c, TRUE) \/ EndOfCall(c, FALSE)
          \/ Goto(c, "begin")
      BY <1>5 DEF CheckNothingToDo, LoadRefused, ConnectionTimeout, GiveUp, FindDeleted
    <3>2. QED
      BY <3>1, SerialTypes DEF EndOfCall, Goto
  <2>3. QED
    BY <1>1, <2>1, <2>2, ApartKeepsExact
<1>6. QED
  BY <1>2, <1>3, <1>4, <1>5

\* The UPDATE and the statement that counts it.
LEMMA CountingExact ==
  ASSUME IInv, NEW c, Procs = {c}, Serial(c), Exact(c), IsFiniteSet(Pieces),
         Write(c) \/ AdjustPublishedCount(c)
  PROVE  Exact(c)'
<1>1. UNCHANGED <<row, emitted>>
  BY DEF Write, AdjustPublishedCount
<1>2. PublishedPieces' = PublishedPieces
  BY <1>1, PublicRows
<1>3. CASE Write(c)
  <2> DEFINE delta == CountDelta(seen[c], task[c])
             t == [task[c] EXCEPT !.delta = delta]
  <2>1. /\ task' = [task EXCEPT ![c] = t] /\ pc[c] = "write" /\ count' = count
        /\ pc' = [pc EXCEPT ![c] = IF delta = 0 THEN "commit" ELSE "count"]
    BY <1>3 DEF Write, Goto
  <2>2. t.delta = delta
    BY SerialTypes DEF Task
  <2> HIDE DEF t, delta
  <2>3. pc'[c] = (IF delta = 0 THEN "commit" ELSE "count") /\ task'[c].delta = delta
    BY <2>1, <2>2, SerialTypes
  <2>4. CountAt(c)'
    BY <1>2, <2>1, <2>3, PublishedFinite DEF Exact, CountAt
  <2>5. AnnouncedAt(c)'
    BY <1>1, <2>1, <2>3 DEF Exact, AnnouncedAt
  <2>6. QED
    BY <2>4, <2>5 DEF Exact
<1>4. CASE AdjustPublishedCount(c)
  <2>1. /\ pc[c] = "count" /\ pc'[c] = "commit" /\ task' = task
        /\ count' = count + task[c].delta
    BY <1>4, SerialTypes DEF AdjustPublishedCount, Goto
  <2>2. CountAt(c)'
    BY <1>2, <2>1 DEF Exact, CountAt
  <2>3. AnnouncedAt(c)'
    BY <1>1, <2>1 DEF Exact, AnnouncedAt
  <2>4. QED
    BY <2>2, <2>3 DEF Exact
<1>5. QED
  BY <1>3, <1>4

\* The commit makes the rows catch up with the count.
LEMMA CommitExact ==
  ASSUME IInv, NEW c, Procs = {c}, Serial(c), Exact(c), Commit(c), IsFiniteSet(Pieces)
  PROVE  Exact(c)'
<1> DEFINE p == task[c].piece
<1>1. /\ pc[c] = "commit" /\ holder[p] = c /\ row' = [row EXCEPT ![p] = seen[c]]
      /\ UNCHANGED <<count, emitted>>
      /\ IF task[c].op = "publish"
           THEN Goto(c, "emit") /\ UNCHANGED <<task, seen, due>>
           ELSE EndOfCall(c, TRUE)
  BY DEF Commit, Serial, HeldAt
<1>2. /\ IF task[c].op = "publish"
           THEN row[p].publishedAt = Null /\ seen[c].publishedAt # Null
           ELSE seen[c].publishedAt = row[p].publishedAt
      /\ Worth(seen[c]) = Worth(row[p]) + task[c].delta
  BY <1>1 DEF Serial, HeldAt
<1>3. row'[p] = seen[c] /\ \A q \in Pieces \ {p} : row'[q] = row[q]
  BY <1>1, SerialTypes
<1>4. pc'[c] = IF task[c].op = "publish" THEN "emit" ELSE IF due[c] # {} THEN "next" ELSE "idle"
  BY <1>1, SerialTypes DEF EndOfCall, AfterFailure, Goto
<1>5. CountAt(c)'
  <2>1. /\ Cardinality(PublishedPieces) \in Nat
        /\ Cardinality(PublishedPieces') = Cardinality(PublishedPieces) + Worth(row'[p]) - Worth(row[p])
    BY <1>3, SerialTypes, CountOneRow
  <2>2. Worth(row[p]) \in Int /\ task[c].delta \in Int
    BY SerialTypes DEF Worth, Task
  <2>3. count = Cardinality(PublishedPieces) + task[c].delta
    BY <1>1 DEF Exact, CountAt
  <2>4. Cardinality(PublishedPieces') = count /\ count \in Int
    BY <1>2, <1>3, <2>1, <2>2, <2>3
  <2>5. pc'[c] # "commit" /\ count' = count
    BY <1>1, <1>4
  <2>6. QED
    BY <2>4, <2>5 DEF CountAt
<1>6. AnnouncedAt(c)'
  <2>1. Exists(p) /\ row[p].status # "purged"
    BY <1>1, SerialTypes DEF IInv, Locked, Exists
  <2>2. ASSUME NEW q \in Pieces, row'[q].status # "purged"
        PROVE  emitted'[q] = IF row'[q].publishedAt = Null \/ (pc'[c] = "emit" /\ task'[c].piece = q)
                               THEN 0 ELSE 1
    <3>1. emitted[q] = IF row[q].publishedAt = Null THEN 0 ELSE 1
      BY <1>1, <1>3, <2>1, <2>2 DEF Exact, AnnouncedAt
    <3>2. CASE task[c].op = "publish"
      BY <1>1, <1>2, <1>3, <1>4, <3>1, <3>2
    <3>3. CASE task[c].op # "publish"
      BY <1>1, <1>2, <1>3, <1>4, <3>1, <3>3
    <3>4. QED
      BY <3>2, <3>3
  <2>3. QED
    BY <2>2 DEF AnnouncedAt
<1>7. QED
  BY <1>5, <1>6 DEF Exact

\* The event is emitted once for the piece just published.
LEMMA EmitExact ==
  ASSUME IInv, NEW c, Procs = {c}, Serial(c), Exact(c), Emit(c)
  PROVE  Exact(c)'
<1> DEFINE p == task[c].piece
<1>1. /\ pc[c] = "emit" /\ emitted' = [emitted EXCEPT ![p] = emitted[p] + 1]
      /\ UNCHANGED <<row, count>> /\ EndOfCall(c, TRUE)
  BY DEF Emit
<1>2. pc'[c] \in {"idle", "next"}
  BY <1>1, SerialTypes DEF EndOfCall
<1>3. PublishedPieces' = PublishedPieces
  BY <1>1, PublicRows
<1>4. CountAt(c)'
  BY <1>1, <1>2, <1>3 DEF Exact, CountAt
<1>5. row[p].publishedAt # Null
  BY <1>1 DEF Serial, EmittingAt
<1>6. ASSUME NEW q \in Pieces, row'[q].status # "purged"
      PROVE  emitted'[q] = IF row'[q].publishedAt = Null THEN 0 ELSE 1
  <2>1. CASE q = p
    <3>1. emitted[p] = 0
      BY <1>1, <1>6, <2>1 DEF Exact, AnnouncedAt
    <3>2. emitted'[p] = 1
      BY <1>1, <3>1, SerialTypes
    <3>3. QED
      BY <1>1, <1>5, <2>1, <3>2
  <2>2. CASE q # p
    <3>1. emitted'[q] = emitted[q]
      BY <1>1, <2>2, SerialTypes
    <3>2. emitted[q] = IF row[q].publishedAt = Null THEN 0 ELSE 1
      BY <1>1, <1>6, <2>2 DEF Exact, AnnouncedAt
    <3>3. QED
      BY <1>1, <3>1, <3>2
  <2>3. QED
    BY <2>1, <2>2
<1>7. AnnouncedAt(c)'
  BY <1>2, <1>6 DEF AnnouncedAt
<1>8. QED
  BY <1>4, <1>7 DEF Exact

\* A row that is written, inserted or purged by a statement of its own is not
\* a published one, before or after.
LEMMA RowWriteExact ==
  ASSUME IInv, NEW c, Procs = {c}, Serial(c), Exact(c), IsFiniteSet(Pieces),
         WriteSchedule(c) \/ \E p \in Pieces : CreateDraft(p) \/ Purge(c, p)
  PROVE  Exact(c)'
<1>1. PICK p \in Pieces :
        /\ \A q \in Pieces \ {p} : row'[q] = row[q]
        /\ ~Public(row[p]) /\ ~Public(row'[p])
        /\ row'[p].status # "purged" =>
             row[p].status # "purged" /\ row[p].publishedAt = Null /\ row'[p].publishedAt = Null
  <2>1. CASE WriteSchedule(c)
    <3>1. Exists(task[c].piece)
      BY <2>1 DEF WriteSchedule, Serial, LoadedAt
    <3>2. row[task[c].piece].status # "purged"
      BY <3>1 DEF Exists
    <3>3. QED
      BY <2>1, <3>2, WriteScheduleSerial, SerialTypes DEF Public
  <2>2. CASE \E p \in Pieces : CreateDraft(p) \/ Purge(c, p)
    BY <2>2, RowJobSerial DEF IInv, RowsSound
  <2>3. QED
    BY <2>1, <2>2
<1>2. /\ UNCHANGED <<count, emitted>>
      /\ UNCHANGED <<pc, task>>
         \/ (pc[c] = "write" /\ pc'[c] = "enqueue")
  BY SerialTypes DEF WriteSchedule, CreateDraft, Purge, Goto
<1>3. Cardinality(PublishedPieces') = Cardinality(PublishedPieces)
  BY <1>1, CountOneRow DEF Worth
<1>4. CountAt(c)'
  BY <1>2, <1>3 DEF Exact, CountAt
<1>5. ASSUME NEW q \in Pieces, row'[q].status # "purged"
      PROVE  /\ row[q].status # "purged"
             /\ row'[q].publishedAt = Null <=> row[q].publishedAt = Null
  BY <1>1, <1>5
<1>6. AnnouncedAt(c)'
  BY <1>2, <1>5 DEF Exact, AnnouncedAt
<1>7. QED
  BY <1>4, <1>6 DEF Exact

\* Every step of one process that does not crash.
LEMMA NextExact ==
  ASSUME NEW c, Procs = {c}, Fallible = {}, IsFiniteSet(Pieces)
  PROVE  IInv /\ Serial(c) /\ Exact(c) /\ [Next]_vars => Exact(c)'
<1> SUFFICES ASSUME IInv, Serial(c), Exact(c), [Next]_vars PROVE Exact(c)'
  OBVIOUS
<1>1. ASSUME NEW p \in Pieces, CreateDraft(p) \/ ForgetJob(p) PROVE Exact(c)'
  BY <1>1, RowWriteExact, ApartExact
<1>2. ASSUME NEW d \in Clients, Receive(d) PROVE Exact(c)'
  <2>1. d = c
    BY DEF Procs
  <2>2. QED
    BY <1>2, <2>1, ApartExact
<1>3. ASSUME NEW d \in Workers,
             StartSweep(d) \/ \E p \in Pieces : StartJob(d, p) \/ Purge(d, p)
      PROVE  Exact(c)'
  <2>1. d = c
    BY DEF Procs
  <2>2. QED
    BY <1>3, <2>1, ApartExact, RowWriteExact
<1>4. ASSUME NEW d \in Procs, Step(d) PROVE Exact(c)'
  <2>1. d = c
    OBVIOUS
  <2>2. QED
    BY <1>4, <2>1, ApartExact, CountingExact, CommitExact, EmitExact, RowWriteExact DEF Step
<1>5. QED
  BY <1>1, <1>2, <1>3, <1>4, ApartExact DEF Next

\* The invariant with the count and the events is inductive.
LEMMA ExactInductive ==
  ASSUME NEW w, Procs = {w}, Fallible = {}, IsFiniteSet(Pieces)
  PROVE  /\ Init => IInv /\ Serial(w) /\ Exact(w)
         /\ IInv /\ Serial(w) /\ Exact(w) /\ [Next]_vars =>
              IInv' /\ Serial(w)' /\ Exact(w)'
BY SerialInductive, InitExact, NextExact
-----------------------------------------------------------------------------
\* For one process that serves requests, jobs and sweeps in turn and does not
\* crash, adjustPublishedCount keeps profiles.pieces_count at the number of
\* published pieces, whatever calls are refused or time out waiting for the pool.
THEOREM CountStaysExact ==
  ASSUME NEW w, Procs = {w}, Fallible = {}, IsFiniteSet(Pieces)
  PROVE  Spec => []CountExact
<1>1. Init => IInv /\ Serial(w) /\ Exact(w)
  BY ExactInductive
<1>2. IInv /\ Serial(w) /\ Exact(w) /\ [Next]_vars => (IInv /\ Serial(w) /\ Exact(w))'
  BY ExactInductive
<1>3. IInv /\ Serial(w) /\ Exact(w) => CountExact
  BY DEF Exact, CountAt, CountExact, Quiet
<1>4. QED
  BY <1>1, <1>2, <1>3, PTL DEF Spec

\* For one process that does not crash, PiecePublished is emitted exactly once
\* for every piece that was ever published, whatever archives, restores,
\* reschedules and repeated sweeps follow.
THEOREM AlwaysAnnouncedOnce ==
  ASSUME NEW w, Procs = {w}, Fallible = {}, IsFiniteSet(Pieces)
  PROVE  Spec => []AnnouncedOnce
<1>1. Init => IInv /\ Serial(w) /\ Exact(w)
  BY ExactInductive
<1>2. IInv /\ Serial(w) /\ Exact(w) /\ [Next]_vars => (IInv /\ Serial(w) /\ Exact(w))'
  BY ExactInductive
<1>3. IInv /\ Serial(w) /\ Exact(w) => AnnouncedOnce
  BY DEF Exact, AnnouncedAt, AnnouncedOnce, Quiet, Exists
<1>4. QED
  BY <1>1, <1>2, <1>3, PTL DEF Spec

\* For one process, crashes included, no call of PiecesService moves the
\* publication time of a piece or makes a published piece a draft or a
\* scheduled one again.
THEOREM PublicationStays ==
  ASSUME NEW w, Procs = {w}
  PROVE  Spec => PublicationIsPermanent
<1> DEFINE Permanent == \A p \in Pieces : row[p].publishedAt # Null /\ Exists(p)' =>
                          /\ row'[p].publishedAt = row[p].publishedAt
                          /\ row'[p].status \in {"published", "archived"}
<1>1. ASSUME IInv, Serial(w), [Next]_vars PROVE Permanent
  <2>1. Serial(w)'
    BY <1>1, NextSerial
  <2>2. SUFFICES \A p \in Pieces : row[p].publishedAt # Null /\ Exists(p)' =>
                   row'[p].publishedAt = row[p].publishedAt
    BY <2>1 DEF Serial, PublishedStays
  <2>3. CASE Commit(w)
    <3>1. /\ row' = [row EXCEPT ![task[w].piece] = seen[w]]
          /\ LastsAs(row[task[w].piece], seen[w])
      BY <1>1, <2>3 DEF Commit, Serial, HeldAt
    <3>2. QED
      BY <1>1, <3>1, SerialTypes DEF LastsAs
  <2>4. CASE WriteSchedule(w)
    BY <1>1, <2>4, WriteScheduleSerial
  <2>5. CASE \E p \in Pieces : CreateDraft(p) \/ Purge(w, p)
    <3>1. PICK p \in Pieces : CreateDraft(p) \/ Purge(w, p)
      BY <2>5
    <3>2. /\ row[p].status = "none" \/ row'[p].status = "purged"
          /\ \A q \in Pieces \ {p} : row'[q] = row[q]
      BY <1>1, <3>1, RowJobSerial
    <3>3. QED
      BY <1>1, <3>2 DEF Exists, IInv, RowsSound
  <2>6. CASE UNCHANGED row
    BY <2>6
  <2>7. \/ Commit(w) \/ WriteSchedule(w) \/ UNCHANGED row
        \/ \E p \in Pieces : CreateDraft(p) \/ Purge(w, p)
    BY <1>1, RowStatements
  <2>8. QED
    BY <2>3, <2>4, <2>5, <2>6, <2>7
<1>2. IInv /\ Serial(w) /\ [Next]_vars => [Permanent]_vars
  BY <1>1
<1>3. Init => IInv /\ Serial(w)
  BY SerialInductive
<1>4. IInv /\ Serial(w) /\ [Next]_vars => (IInv /\ Serial(w))'
  BY SerialInductive
<1>5. QED
  BY <1>2, <1>3, <1>4, PTL DEF Spec, PublicationIsPermanent

\* For one process, crashes included, neither the sweep nor the delayed job
\* publishes a piece before the time it is scheduled for.
THEOREM WorkerNeverEarly ==
  ASSUME NEW w, Procs = {w}
  PROVE  Spec => NeverEarly
<1> DEFINE OnTime == \A c \in Procs :
             task[c].source # "request" /\ pc[c] = "commit" /\ pc'[c] = "emit" =>
               row[task[c].piece].scheduledAt <= now
<1>1. ASSUME IInv, Serial(w), [Next]_vars,
             task[w].source # "request", pc[w] = "commit", pc'[w] = "emit"
      PROVE  row[task[w].piece].scheduledAt <= now
  <2>1. task[w].op = "publish"
    <3>1. task[w].source \in {"job", "sweep"}
      BY <1>1, SerialTypes DEF Task
    <3>2. task[w].op # "publishOne"
      BY <1>1 DEF Serial, HeldAt, OwnerOps
    <3>3. QED
      BY <1>1, <3>1, <3>2 DEF Serial, DutyAt
  <2>2. QED
    BY <1>1, <2>1 DEF Serial, DutyAt
<1>2. IInv /\ Serial(w) /\ [Next]_vars => [OnTime]_vars
  BY <1>1
<1>3. Init => IInv /\ Serial(w)
  BY SerialInductive
<1>4. IInv /\ Serial(w) /\ [Next]_vars => (IInv /\ Serial(w))'
  BY SerialInductive
<1>5. QED
  BY <1>2, <1>3, <1>4, PTL DEF Spec, NeverEarly
=============================================================================

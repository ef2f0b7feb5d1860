----------------------- MODULE ReadThroughCacheProofs -----------------------
(***************************************************************************)
(* Proofs about ReadThroughCache, for any finite set of callers, any TTLs, *)
(* and any number of writes, outages, crashes and rejected computes.       *)
(***************************************************************************)
EXTENDS ReadThroughCache, FiniteSetTheorems, TLAPS

USE CacheAssumption

\* The steps of a call in which it may have the lock, and those before.
Inside == {"recheck", "compute", "set", "release"}
Before == {"idle", "get", "lock"}

\* A caller's locals say where it is.
Tidy == \A c \in Callers :
  /\ pc[c] \in Before => clock[c] = 0
  /\ pc[c] \in Before \cup {"poll"} => ~acquired[c]
  /\ pc[c] = "release" => acquired[c]

\* Among prompt callers and without an outage, the caller inside the lock is
\* alone there, and the lock key outlives it: they count the same ticks.
Held ==
  prompt /\ budget.outages = MaxOutages =>
    /\ up
    /\ \A c \in Callers : Holding(c) =>
         /\ lock = LockTtl - clock[c] /\ clock[c] < LockTtl
         /\ \A d \in Callers : Holding(d) => d = c

\* Every writer on its way to the del has made a version.
WritersCounted == pending < version

\* Undisturbed, the lock has an owner, everyone inside is the owner, who fills
\* an empty key and leaves a full one, and who has been there for as long as
\* anyone has been polling for its value.
Flight ==
  Undisturbed =>
    /\ lock > 0 => \E h \in Callers : Holding(h)
    /\ \A c \in Callers : pc[c] = "poll" =>
         Hit \/ \E h \in Callers : Holding(h) /\ clock[c] <= clock[h]
    /\ \A c \in Callers : pc[c] \in Inside => acquired[c]
    /\ \A c \in Callers : pc[c] \in {"compute", "set"} => entry = None
    /\ \A c \in Callers : pc[c] = "release" => Hit

IInv == TypeOK /\ Tidy /\ Held /\ WritersCounted /\ Flight

\* The initial state satisfies the invariant.
LEMMA InitIInv == Init => IInv
<1> SUFFICES ASSUME Init PROVE IInv
  OBVIOUS
<1>1. TypeOK
  BY DEF Init, TypeOK, Versions
<1>2. Tidy /\ Held /\ WritersCounted /\ Flight
  BY DEF Init, Tidy, Before, Held, Holding, WritersCounted, Flight, Inside
<1>3. QED
  BY <1>1, <1>2 DEF IInv

\* The callers other than c keep their place and their locals.
Alone(c) ==
  \A d \in Callers \ {c} :
    /\ pc'[d] = pc[d] /\ acquired'[d] = acquired[d]
    /\ fresh'[d] = fresh[d] /\ clock'[d] = clock[d]

Labels == {"idle", "get", "lock", "poll", "recheck", "compute", "set", "release"}

LocalsOK ==
  /\ pc \in [Callers -> Labels] /\ acquired \in [Callers -> BOOLEAN]
  /\ fresh \in [Callers -> Versions] /\ clock \in [Callers -> 0 .. LockTtl]

\* Caller c goes on with its locals as they are.
LEMMA GotoKeeps ==
  ASSUME TypeOK, NEW c \in Callers, NEW l \in Labels, Goto(c, l),
         UNCHANGED <<acquired, fresh, clock>>
  PROVE  LocalsOK' /\ pc'[c] = l /\ Alone(c)
BY DEF TypeOK, Goto, LocalsOK, Labels, Alone

\* Caller c settles.
LEMMA LeaveKeeps ==
  ASSUME TypeOK, NEW c \in Callers, Leave(c)
  PROVE  LocalsOK' /\ pc'[c] = "idle" /\ ~acquired'[c] /\ clock'[c] = 0 /\ Alone(c)
BY DEF TypeOK, Leave, Goto, LocalsOK, Labels, Alone, Versions

\* Steps of c that settle it, inside or outside of the lock, without deleting
\* or storing anything: the owner of the lock does so only by dying.
LEMMA SettleKeeps ==
  ASSUME IInv, NEW c \in Callers, Leave(c),
         UNCHANGED <<version, pending, redis, up, prompt>>,
         budget' \in [outages : 0 .. MaxOutages, crashes : 0 .. MaxCrashes,
                      throws : 0 .. MaxThrows],
         budget'.outages = budget.outages,
         Undisturbed' => Undisturbed /\ ~Holding(c)
  PROVE  IInv'
<1> USE DEF IInv
<1>1. LocalsOK' /\ pc'[c] = "idle" /\ ~acquired'[c] /\ clock'[c] = 0 /\ Alone(c)
  BY LeaveKeeps
<1>2. TypeOK'
  BY <1>1 DEF TypeOK, LocalsOK, Labels, redis
<1>3. Tidy'
  BY <1>1 DEF Tidy, Before, Alone
<1>4. ~Holding(c)' /\ \A d \in Callers \ {c} : Holding(d)' <=> Holding(d)
  BY <1>1 DEF Holding, Alone
<1>5. Held'
  BY <1>1, <1>4 DEF Held, Alone, redis
<1>6. WritersCounted'
  BY DEF WritersCounted
<1>7. Flight'
  <2> SUFFICES ASSUME Undisturbed' PROVE Flight'
    BY DEF Flight
  <2>1. Undisturbed /\ ~Holding(c) /\ (Hit' <=> Hit)
    BY DEF Hit, redis
  <2>2. QED
    BY <1>1, <1>4, <2>1 DEF Flight, Inside, Alone, redis, None
<1>8. QED
  BY <1>2, <1>3, <1>5, <1>6, <1>7

\* Steps of c that only take it on to label l.
LEMMA AdvanceKeeps ==
  ASSUME IInv, NEW c \in Callers, NEW l \in Labels, Goto(c, l),
         UNCHANGED <<prompt, version, pending, redis, up, acquired, fresh, clock, budget>>,
         \/ pc[c] = "idle" /\ l = "get"
         \/ pc[c] = "get" /\ l = "lock"
         \/ pc[c] = "lock" /\ l = "poll" /\ up /\ lock > 0
         \/ pc[c] = "poll" /\ l = "recheck" /\ ~Hit /\ clock[c] = LockTtl
         \/ pc[c] = "recheck" /\ l = "compute" /\ ~Hit
         \/ pc[c] = "recheck" /\ l = "release" /\ Hit /\ acquired[c]
  PROVE  IInv'
<1> USE DEF IInv
<1>1. LocalsOK' /\ pc'[c] = l /\ Alone(c)
  BY GotoKeeps
<1>2. TypeOK'
  BY <1>1 DEF TypeOK, LocalsOK, Labels, redis
<1>3. Tidy'
  BY <1>1 DEF Tidy, Before, Alone
<1>4. \A d \in Callers : Holding(d)' <=> Holding(d)
  BY <1>1 DEF Holding, Alone, Tidy, Before
<1>5. Held' /\ WritersCounted'
  BY <1>4 DEF Held, WritersCounted, redis
<1>6. Flight'
  <2> SUFFICES ASSUME Undisturbed' PROVE Flight'
    BY DEF Flight
  <2>1. Undisturbed /\ (Hit' <=> Hit) /\ up
    BY DEF Undisturbed, Hit, redis, Held
  <2>2. clock[c] \in 0 .. LockTtl /\ lock \in 0 .. LockTtl /\ \A d \in Callers : clock[d] \in 0 .. LockTtl
    BY DEF TypeOK
  <2>3. (lock > 0 => \E h \in Callers : Holding(h))'
    BY <1>4, <2>1 DEF Flight, redis
  <2>4. \A d \in Callers : pc'[d] = "poll" =>
          Hit' \/ \E h \in Callers : Holding(h)' /\ clock'[d] <= clock'[h]
    <3>1. CASE l = "poll"
      <4>1. PICK h \in Callers : Holding(h)
        BY <3>1, <2>1 DEF Flight
      <4>2. clock[c] = 0
        BY <3>1 DEF Tidy, Before
      <4>3. QED
        BY <1>1, <1>4, <2>1, <2>2, <4>1, <4>2 DEF Flight, Alone
    <3>2. CASE l # "poll"
      BY <1>1, <1>4, <2>1, <3>2 DEF Flight, Alone
    <3>3. QED
      BY <3>1, <3>2
  <2>5. ~(pc[c] = "poll" /\ l = "recheck")
    BY <2>1, <2>2 DEF Flight, Held, Undisturbed
  <2>6. \A d \in Callers : pc'[d] \in Inside => acquired'[d]
    BY <1>1, <2>1, <2>5 DEF Flight, Inside, Alone
  <2>7. \A d \in Callers : /\ pc'[d] \in {"compute", "set"} => entry' = None
                           /\ pc'[d] = "release" => Hit'
    BY <1>1, <2>1 DEF Flight, Alone, redis, Hit
  <2>8. QED
    BY <2>3, <2>4, <2>6, <2>7 DEF Flight
<1>7. QED
  BY <1>2, <1>3, <1>5, <1>6

\* Taking the lock.
LEMMA AcquireLockKeeps ==
  ASSUME IInv, NEW c \in Callers, AcquireLock(c)
  PROVE  IInv'
<1> USE DEF IInv
<1>1. /\ pc' = [pc EXCEPT ![c] = "recheck"] /\ acquired' = [acquired EXCEPT ![c] = TRUE]
      /\ UNCHANGED <<prompt, version, pending, entry, up, fresh, clock, budget>>
      /\ pc[c] = "lock" /\ (~up \/ ~(lock > 0)) /\ lock' = IF up THEN LockTtl ELSE lock
  BY DEF AcquireLock, Goto, SetNxFails
<1>2. LocalsOK' /\ pc'[c] = "recheck" /\ acquired'[c] /\ Alone(c)
  BY <1>1 DEF TypeOK, LocalsOK, Labels, Alone
<1>3. TypeOK'
  BY <1>1, <1>2 DEF TypeOK, LocalsOK, Labels
<1>4. Tidy'
  BY <1>1, <1>2 DEF Tidy, Before, Alone
<1>5. Holding(c)' /\ \A d \in Callers \ {c} : Holding(d)' <=> Holding(d)
  BY <1>2 DEF Holding, Alone
<1>6. clock[c] = 0 /\ \A d \in Callers : clock[d] \in 0 .. LockTtl
  BY <1>1 DEF Tidy, Before, TypeOK
<1>7. prompt /\ budget.outages = MaxOutages =>
        up /\ lock' = LockTtl /\ \A d \in Callers : ~Holding(d)
  BY <1>1, <1>6 DEF Held, TypeOK
<1>8. Held' /\ WritersCounted'
  BY <1>1, <1>5, <1>6, <1>7 DEF Held, WritersCounted
<1>9. Flight'
  <2> SUFFICES ASSUME Undisturbed' PROVE Flight'
    BY DEF Flight
  <2>1. Undisturbed /\ (Hit' <=> Hit) /\ \A d \in Callers : ~Holding(d)
    BY <1>1, <1>7 DEF Undisturbed, Hit
  <2>2. QED
    BY <1>1, <1>2, <1>5, <2>1 DEF Flight, Inside, Alone
<1>10. QED
  BY <1>3, <1>4, <1>8, <1>9

\* The rows are read.
LEMMA ComputeKeeps ==
  ASSUME IInv, NEW c \in Callers, Compute(c)
  PROVE  IInv'
<1> USE DEF IInv
<1>1. /\ pc' = [pc EXCEPT ![c] = "set"] /\ fresh' = [fresh EXCEPT ![c] = version]
      /\ UNCHANGED <<prompt, version, pending, entry, lock, up, acquired, clock, budget>>
      /\ pc[c] = "compute"
  BY DEF Compute, Goto, redis
<1>2. LocalsOK' /\ pc'[c] = "set" /\ Alone(c)
  BY <1>1 DEF TypeOK, LocalsOK, Labels, Alone
<1>3. TypeOK' /\ Tidy'
  BY <1>1, <1>2 DEF TypeOK, LocalsOK, Labels, Tidy, Before, Alone
<1>4. \A d \in Callers : Holding(d)' <=> Holding(d)
  BY <1>1, <1>2 DEF Holding, Alone
<1>5. Held' /\ WritersCounted'
  BY <1>1, <1>4 DEF Held, WritersCounted
<1>6. Flight'
  BY <1>1, <1>2, <1>4 DEF Flight, Undisturbed, Hit, Inside, Alone
<1>7. QED
  BY <1>3, <1>5, <1>6

\* A compute that rejects.
LEMMA ComputeThrowsKeeps ==
  ASSUME IInv, NEW c \in Callers, ComputeThrows(c)
  PROVE  IInv'
<1> USE DEF IInv
<1>1. /\ UNCHANGED <<prompt, version, pending, redis, up>> /\ pc[c] = "compute" /\ Finally(c)
      /\ budget.throws > 0 /\ budget' = [budget EXCEPT !.throws = @ - 1]
  BY DEF ComputeThrows
<1>2. /\ budget' \in [outages : 0 .. MaxOutages, crashes : 0 .. MaxCrashes,
                      throws : 0 .. MaxThrows]
      /\ budget'.outages = budget.outages /\ ~Undisturbed'
  BY <1>1 DEF TypeOK, Undisturbed
<1>3. CASE Leave(c)
  BY <1>1, <1>2, <1>3, SettleKeeps
<1>4. CASE acquired[c] /\ Goto(c, "release") /\ UNCHANGED <<acquired, fresh, clock>>
  <2>1. LocalsOK' /\ pc'[c] = "release" /\ Alone(c)
    BY <1>4, GotoKeeps DEF Labels
  <2>2. TypeOK'
    BY <1>1, <1>2, <2>1 DEF TypeOK, LocalsOK, Labels, redis
  <2>3. Tidy'
    BY <1>4, <2>1 DEF Tidy, Before, Alone
  <2>4. \A d \in Callers : Holding(d)' <=> Holding(d)
    BY <1>1, <1>4, <2>1 DEF Holding, Alone
  <2>5. Held' /\ WritersCounted' /\ Flight'
    BY <1>1, <1>2, <1>4, <2>4 DEF Held, WritersCounted, redis, Flight
  <2>6. QED
    BY <2>2, <2>3, <2>5
<1>5. QED
  BY <1>1, <1>3, <1>4 DEF Finally

\* Storing the value.
LEMMA SetKeeps ==
  ASSUME IInv, NEW c \in Callers, Set(c)
  PROVE  IInv'
<1> USE DEF IInv
<1>1. /\ UNCHANGED <<prompt, version, pending, lock, up, budget>> /\ pc[c] = "set"
      /\ Finally(c)
      /\ entry' = IF up THEN [value |-> fresh[c], left |-> EntryTtl] ELSE entry
  BY DEF Set
<1>2. entry' \in {None} \cup [value : Versions, left : 1 .. EntryTtl]
  BY <1>1 DEF TypeOK
<1>3. Undisturbed' => Undisturbed /\ acquired[c] /\ entry' # None /\ up
  <2>1. [value |-> fresh[c], left |-> EntryTtl] # None
    BY DEF None
  <2>2. QED
    BY <1>1, <2>1 DEF Undisturbed, Flight, Inside, Held
<1>4. CASE acquired[c] /\ Goto(c, "release") /\ UNCHANGED <<acquired, fresh, clock>>
  <2>1. LocalsOK' /\ pc'[c] = "release" /\ Alone(c)
    BY <1>4, GotoKeeps DEF Labels
  <2>2. TypeOK'
    BY <1>1, <1>2, <2>1 DEF TypeOK, LocalsOK, Labels
  <2>3. Tidy'
    BY <1>4, <2>1 DEF Tidy, Before, Alone
  <2>4. \A d \in Callers : Holding(d)' <=> Holding(d)
    BY <1>1, <1>4, <2>1 DEF Holding, Alone
  <2>5. Held' /\ WritersCounted'
    BY <1>1, <1>4, <2>4 DEF Held, WritersCounted
  <2>6. ASSUME Undisturbed' PROVE Flight'
    <3>1. Hit' /\ Undisturbed /\ Holding(c)
      BY <1>1, <1>3, <2>6, <1>4 DEF Hit, Holding
    <3>2. \A d \in Callers \ {c} : pc[d] \notin Inside
      BY <1>1, <3>1 DEF Flight, Held, Holding, Undisturbed, Inside
    <3>3. QED
      BY <1>1, <1>4, <2>1, <2>4, <3>1, <3>2 DEF Flight, Inside, Alone
  <2>7. QED
    BY <2>2, <2>3, <2>5, <2>6 DEF Flight
<1>5. CASE ~acquired[c] /\ Leave(c)
  <2>1. LocalsOK' /\ pc'[c] = "idle" /\ ~acquired'[c] /\ clock'[c] = 0 /\ Alone(c)
    BY <1>5, LeaveKeeps
  <2>2. TypeOK'
    BY <1>1, <1>2, <2>1 DEF TypeOK, LocalsOK, Labels
  <2>3. Tidy'
    BY <2>1 DEF Tidy, Before, Alone
  <2>4. ~Holding(c)' /\ \A d \in Callers \ {c} : Holding(d)' <=> Holding(d)
    BY <2>1 DEF Holding, Alone
  <2>5. Held' /\ WritersCounted' /\ Flight'
    BY <1>1, <1>3, <1>5, <2>1, <2>4 DEF Held, WritersCounted, Flight, Alone
  <2>6. QED
    BY <2>2, <2>3, <2>5
<1>6. QED
  BY <1>1, <1>4, <1>5 DEF Finally

\* Deleting the lock key: the caller that does so is the one inside.
LEMMA ReleaseLockKeeps ==
  ASSUME IInv, NEW c \in Callers, ReleaseLock(c)
  PROVE  IInv'
<1> USE DEF IInv
<1>1. /\ UNCHANGED <<prompt, version, pending, entry, up, budget>> /\ pc[c] = "release"
      /\ Leave(c) /\ lock' = IF up THEN 0 ELSE lock
  BY DEF ReleaseLock
<1>2. LocalsOK' /\ pc'[c] = "idle" /\ ~acquired'[c] /\ clock'[c] = 0 /\ Alone(c)
  BY <1>1, LeaveKeeps
<1>3. TypeOK'
  BY <1>1, <1>2 DEF TypeOK, LocalsOK, Labels
<1>4. Tidy'
  BY <1>2 DEF Tidy, Before, Alone
<1>5. Holding(c)
  BY <1>1 DEF Tidy, Holding
<1>6. ~Holding(c)' /\ \A d \in Callers \ {c} : Holding(d)' <=> Holding(d)
  BY <1>2 DEF Holding, Alone
<1>7. Held' /\ WritersCounted'
  BY <1>1, <1>5, <1>6 DEF Held, WritersCounted
<1>8. Flight'
  <2> SUFFICES ASSUME Undisturbed' PROVE Flight'
    BY DEF Flight
  <2>1. Undisturbed /\ up /\ Hit /\ Hit'
    BY <1>1 DEF Undisturbed, Held, Flight, Hit
  <2>2. QED
    BY <1>1, <1>2, <2>1 DEF Flight, Inside, Alone
<1>9. QED
  BY <1>3, <1>4, <1>7, <1>8

\* The writers and Redis itself.
LEMMA SurroundingsKeep ==
  ASSUME IInv, Write \/ Invalidate \/ RedisDown \/ RedisUp
  PROVE  IInv'
<1> USE DEF IInv
<1>1. UNCHANGED <<prompt, lock, pc, acquired, fresh, clock>>
  BY DEF Write, Invalidate, RedisDown, RedisUp, redis, locals
<1>2. TypeOK'
  <2>1. CASE Write
    BY <2>1, <1>1 DEF TypeOK, Write, Versions, redis, WritersCounted
  <2>2. CASE Invalidate
    BY <2>2, <1>1 DEF TypeOK, Invalidate
  <2>3. CASE RedisDown \/ RedisUp
    <3>1. UNCHANGED <<version, pending, entry>> /\ up' \in BOOLEAN
      BY <2>3 DEF RedisDown, RedisUp, redis
    <3>2. budget' \in [outages : 0 .. MaxOutages, crashes : 0 .. MaxCrashes,
                       throws : 0 .. MaxThrows]
      BY <2>3 DEF RedisDown, RedisUp, TypeOK
    <3>3. QED
      BY <1>1, <3>1, <3>2 DEF TypeOK
  <2>4. QED
    BY <2>1, <2>2, <2>3
<1>3. Tidy'
  BY <1>1 DEF Tidy
<1>4. \A d \in Callers : Holding(d)' <=> Holding(d)
  BY <1>1 DEF Holding
<1>5. Held'
  BY <1>1, <1>4 DEF Held, Write, Invalidate, RedisDown, RedisUp, TypeOK
<1>6. WritersCounted'
  BY DEF WritersCounted, Write, Invalidate, RedisDown, RedisUp, TypeOK, Versions
<1>7. ~Undisturbed'
  BY DEF Undisturbed, Write, Invalidate, RedisDown, RedisUp, TypeOK, Versions, WritersCounted, Held
<1>8. QED
  BY <1>2, <1>3, <1>5, <1>6, <1>7 DEF Flight

\* A tick: prompt callers let time pass only while the one inside computes.
LEMMA TickKeeps ==
  ASSUME IInv, Tick
  PROVE  IInv'
<1> USE DEF IInv
<1>1. /\ UNCHANGED <<prompt, version, pending, up, pc, acquired, fresh, budget>>
      /\ entry' = Aged(entry) /\ lock' = IF lock > 0 THEN lock - 1 ELSE 0
      /\ clock' = [d \in Callers |-> IF Timed(d) THEN clock[d] + 1 ELSE clock[d]]
      /\ prompt => \A d \in Callers :
            \/ pc[d] = "idle"
            \/ pc[d] = "poll" /\ ~Hit
            \/ pc[d] = "compute" /\ clock[d] < LockTtl - 1
  BY DEF Tick
<1>2. entry' \in {None} \cup [value : Versions, left : 1 .. EntryTtl]
  <2>1. entry = None => entry' = None
    BY <1>1 DEF Aged, None
  <2>2. CASE entry \in [value : Versions, left : 1 .. EntryTtl]
    BY <1>1, <2>2 DEF Aged
  <2>3. QED
    BY <2>1, <2>2 DEF TypeOK
<1>3. clock' \in [Callers -> 0 .. LockTtl] /\ lock' \in 0 .. LockTtl
  BY <1>1 DEF TypeOK, Timed
<1>4. TypeOK'
  BY <1>1, <1>2, <1>3 DEF TypeOK
<1>5. Tidy'
  BY <1>1 DEF Tidy, Before, Timed, Holding
<1>6. \A d \in Callers : /\ Holding(d)' <=> Holding(d)
                         /\ clock'[d] = IF Timed(d) THEN clock[d] + 1 ELSE clock[d]
  BY <1>1 DEF Holding
<1>7. Held'
  <2> SUFFICES ASSUME prompt', budget'.outages = MaxOutages PROVE Held'
    BY DEF Held
  <2>1. up' /\ prompt
    BY <1>1 DEF Held
  <2>2. ASSUME NEW c \in Callers, Holding(c)'
        PROVE  /\ lock' = LockTtl - clock'[c] /\ clock'[c] < LockTtl
               /\ \A d \in Callers : Holding(d)' => d = c
    <3>1. Holding(c) /\ lock = LockTtl - clock[c] /\ clock[c] < LockTtl
      BY <1>1, <1>6, <2>2 DEF Held
    <3>2. clock[c] < LockTtl - 1 /\ clock[c] \in 0 .. LockTtl
      BY <1>1, <2>1, <3>1 DEF Holding, TypeOK
    <3>3. clock'[c] = clock[c] + 1
      BY <1>6, <3>1 DEF Timed
    <3>4. QED
      BY <1>1, <1>6, <2>2, <3>1, <3>2, <3>3 DEF Held
  <2>3. QED
    BY <2>1, <2>2 DEF Held
<1>8. WritersCounted'
  BY <1>1 DEF WritersCounted
<1>9. Flight'
  <2> SUFFICES ASSUME Undisturbed' PROVE Flight'
    BY DEF Flight
  <2>1. Undisturbed /\ prompt /\ budget.outages = MaxOutages
    BY <1>1 DEF Undisturbed
  <2>2. (lock > 0 => \E h \in Callers : Holding(h))'
    BY <1>1, <1>6, <2>1 DEF Flight, TypeOK
  <2>3. ASSUME NEW c \in Callers, pc'[c] = "poll"
        PROVE  \E h \in Callers : Holding(h)' /\ clock'[c] <= clock'[h]
    <3>1. PICK h \in Callers : Holding(h) /\ clock[c] <= clock[h]
      BY <1>1, <2>1, <2>3 DEF Flight
    <3>2. clock[h] < LockTtl /\ clock[h] \in 0 .. LockTtl /\ clock[c] \in 0 .. LockTtl
      BY <2>1, <3>1 DEF Held, TypeOK
    <3>3. clock'[h] = clock[h] + 1 /\ clock'[c] = clock[c] + 1
      BY <1>1, <1>6, <2>3, <3>1, <3>2 DEF Timed
    <3>4. QED
      BY <1>6, <3>1, <3>2, <3>3
  <2>4. \A c \in Callers : /\ pc'[c] \in Inside => acquired'[c]
                           /\ pc'[c] # "release"
    BY <1>1, <2>1 DEF Flight, Inside
  <2>5. \A c \in Callers : pc'[c] \in {"compute", "set"} => entry' = None
    BY <1>1, <2>1 DEF Flight, Aged, None
  <2>6. QED
    BY <2>2, <2>3, <2>4, <2>5 DEF Flight
<1>10. QED
  BY <1>4, <1>5, <1>7, <1>8, <1>9

\* A caller's process dies.
LEMMA CrashKeeps ==
  ASSUME IInv, NEW c \in Callers, Crash(c)
  PROVE  IInv'
<1>1. /\ UNCHANGED <<prompt, version, pending, redis, up>> /\ Leave(c)
      /\ budget.crashes > 0 /\ budget' = [budget EXCEPT !.crashes = @ - 1]
  BY DEF Crash
<1>2. /\ budget' \in [outages : 0 .. MaxOutages, crashes : 0 .. MaxCrashes,
                      throws : 0 .. MaxThrows]
      /\ budget'.outages = budget.outages /\ ~Undisturbed'
  BY <1>1 DEF IInv, TypeOK, Undisturbed
<1>3. QED
  BY <1>1, <1>2, SettleKeeps

\* Every statement of wrap keeps the invariant.
LEMMA WrapKeeps ==
  ASSUME IInv, NEW c \in Callers, Call(c) \/ WrapStep(c)
  PROVE  IInv'
<1> USE DEF Labels
<1>0. budget \in [outages : 0 .. MaxOutages, crashes : 0 .. MaxCrashes,
                  throws : 0 .. MaxThrows]
  BY DEF IInv, TypeOK
<1>1. CASE Call(c) \/ LockTaken(c) \/ PollGivesUp(c)
  BY <1>1, AdvanceKeeps DEF Call, LockTaken, PollGivesUp, SetNxFails, PastDeadline
<1>2. CASE Get(c)
  <2>1. CASE Hit /\ Leave(c)
    BY <1>0, <1>2, <2>1, SettleKeeps DEF Get, Undisturbed, Holding
  <2>2. CASE ~Hit /\ Goto(c, "lock") /\ UNCHANGED <<acquired, fresh, clock>>
    BY <1>2, <2>2, AdvanceKeeps DEF Get
  <2>3. QED
    BY <1>2, <2>1, <2>2 DEF Get
<1>3. CASE PollFills(c)
  BY <1>0, <1>3, SettleKeeps DEF PollFills, Undisturbed, Holding
<1>4. CASE Recheck(c)
  <2>1. CASE Hit /\ acquired[c] /\ Goto(c, "release") /\ UNCHANGED <<acquired, fresh, clock>>
    BY <1>4, <2>1, AdvanceKeeps DEF Recheck
  <2>2. CASE ~acquired[c] /\ Leave(c)
    BY <1>0, <1>4, <2>2, SettleKeeps DEF Recheck, Undisturbed, Holding
  <2>3. CASE ~Hit /\ Goto(c, "compute") /\ UNCHANGED <<acquired, fresh, clock>>
    BY <1>4, <2>3, AdvanceKeeps DEF Recheck
  <2>4. QED
    BY <1>4, <2>1, <2>2, <2>3 DEF Recheck, FoundOnRecheck, Finally
<1>5. QED
  BY <1>1, <1>2, <1>3, <1>4, AcquireLockKeeps, ComputeKeeps, SetKeeps, ReleaseLockKeeps
  DEF WrapStep

\* Every step keeps the invariant.
LEMMA NextIInv == IInv /\ [Next]_vars => IInv'
<1> SUFFICES ASSUME IInv, [Next]_vars PROVE IInv'
  OBVIOUS
<1>1. CASE UNCHANGED vars
  BY <1>1 DEF vars, redis, locals, IInv, TypeOK, Tidy, Held, Holding, WritersCounted, Flight,
              Undisturbed, Hit
<1>2. ASSUME NEW c \in Callers, Call(c) \/ WrapStep(c) \/ ComputeThrows(c) \/ Crash(c)
      PROVE  IInv'
  BY <1>2, WrapKeeps, ComputeThrowsKeeps, CrashKeeps
<1>3. QED
  BY <1>1, <1>2, SurroundingsKeep, TickKeeps DEF Next

\* The invariant holds in every reachable state.
LEMMA Invariance == Spec => []IInv
BY InitIInv, NextIInv, PTL DEF Spec

\* A finite set whose elements are all equal has at most one.
LEMMA AtMostOne ==
  ASSUME NEW S, IsFiniteSet(S), \A x, y \in S : x = y
  PROVE  Cardinality(S) <= 1
<1>1. CASE S = {}
  BY <1>1, FS_EmptySet
<1>2. CASE S # {}
  <2>1. PICK x : S = {x}
    BY <1>2
  <2>2. QED
    BY <2>1, FS_Singleton
<1>3. QED
  BY <1>1, <1>2
-----------------------------------------------------------------------------
\* Every variable keeps its type, whatever happens around CacheService.wrap.
THEOREM TypeCorrect == Spec => []TypeOK
<1>1. IInv => TypeOK
  BY DEF IInv
<1>2. QED
  BY <1>1, Invariance, PTL

\* Without an outage, prompt callers hold the lock one at a time, whatever is
\* deleted, rejects or dies meanwhile: acquireLock and releaseLock.
THEOREM LockAlwaysExclusive == Spec => []LockExclusive
<1>1. ASSUME IInv PROVE LockExclusive
  <2> SUFFICES ASSUME prompt, budget.outages = MaxOutages
               PROVE  Cardinality({c \in Callers : Holding(c)}) <= 1
    BY DEF LockExclusive
  <2> DEFINE S == {c \in Callers : Holding(c)}
  <2>1. IsFiniteSet(S)
    BY FS_Subset
  <2>2. \A x, y \in S : x = y
    BY <1>1 DEF IInv, Held
  <2> HIDE DEF S
  <2>3. Cardinality(S) <= 1
    BY <2>1, <2>2, AtMostOne
  <2>4. QED
    BY <2>3 DEF S
<1>2. QED
  BY <1>1, Invariance, PTL

\* Until something rejects, dies or is deleted, prompt callers compute a cold
\* or expired key one at a time: the stampede protection of CacheService.wrap.
THEOREM AlwaysSingleFlight == Spec => []SingleFlight
<1>1. ASSUME IInv PROVE SingleFlight
  <2> SUFFICES ASSUME Undisturbed PROVE Cardinality(Computing) <= 1
    BY DEF SingleFlight
  <2>1. IsFiniteSet(Computing)
    BY FS_Subset DEF Computing
  <2>2. \A x, y \in Computing : x = y
    BY <1>1 DEF IInv, Held, Flight, Computing, Holding, Undisturbed, Inside
  <2>3. QED
    BY <2>1, <2>2, AtMostOne
<1>2. QED
  BY <1>1, Invariance, PTL

\* Under the same conditions no fill overwrites a fill: the second get of wrap,
\* under the lock, finds what another caller has stored.
THEOREM NeverRefilled == Spec => NoRefill
<1>1. IInv => (Undisturbed => \A c \in Callers : Set(c) => entry = None)
  BY DEF IInv, Flight, Set
<1>2. QED
  BY <1>1, Invariance, PTL DEF NoRefill
=============================================================================

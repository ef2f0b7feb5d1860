-------------------------- MODULE ReadThroughCache --------------------------
(***************************************************************************)
(* infrastructure/cache/cache.service.ts: CacheService.wrap on one key,    *)
(* with the writers that change what the key is computed from and then     *)
(* delete it (EntitlementService.grantOverride / revokeOverride,           *)
(* SubscriptionService.recordEvent).                                       *)
(*                                                                         *)
(* Redis commands are atomic; everything between two of them interleaves.  *)
(* A value is the version of the source rows it was computed from.  Time   *)
(* passes in ticks: what Redis and the polling loop count down is kept as  *)
(* the number of ticks left, so that time itself needs no bound.           *)
(***************************************************************************)
EXTENDS Integers, FiniteSets

CONSTANTS
    Callers,      \* requests that may call wrap
    LockTtl,      \* cacheTtl.stampedeLock, in ticks
    EntryTtl,     \* ttlSeconds of the call, in ticks
    MaxVersion,   \* bound: changes of the source rows
    MaxOutages,   \* bound: times Redis goes away
    MaxCrashes,   \* bound: callers whose process dies inside wrap
    MaxThrows,    \* bound: computes that reject
    Regimes       \* of time: FALSE unrestricted, TRUE prompt (see Tick)

ASSUME CacheAssumption ==
    /\ IsFiniteSet(Callers)
    /\ LockTtl \in Nat \ {0} /\ EntryTtl \in Nat \ {0}
    /\ {MaxVersion, MaxOutages, MaxCrashes, MaxThrows} \subseteq Nat
    /\ Regimes \subseteq BOOLEAN

VARIABLES
    version,   \* of the source rows
    pending,   \* writers that have changed the rows and not yet called del
    entry,     \* the key: the version it holds and the ticks it has left
    lock,      \* ticks the lock key has left; 0: no such key
    up,        \* Redis answers
    pc,        \* where in wrap each caller is
    acquired,  \* wrap's local of that name
    fresh,     \* the version compute returned
    clock,     \* ticks since the caller began to poll, or took the lock
    budget,    \* outages, crashes and throws left
    prompt     \* the regime of this behaviour

redis == <<entry, lock>>
locals == <<pc, acquired, fresh, clock>>
vars == <<version, pending, redis, up, locals, budget, prompt>>

None == [value |-> 0, left |-> 0]
Versions == 1 .. MaxVersion + 1

TypeOK ==
    /\ version \in Versions
    /\ pending \in 0 .. MaxVersion
    /\ entry \in {None} \cup [value : Versions, left : 1 .. EntryTtl]
    /\ lock \in 0 .. LockTtl
    /\ up \in BOOLEAN
    /\ pc \in [Callers -> {"idle", "get", "lock", "poll", "recheck", "compute", "set", "release"}]
    /\ acquired \in [Callers -> BOOLEAN]
    /\ fresh \in [Callers -> Versions]
    /\ clock \in [Callers -> 0 .. LockTtl]
    /\ prompt \in Regimes
    /\ budget \in [outages : 0 .. MaxOutages, crashes : 0 .. MaxCrashes, throws : 0 .. MaxThrows]

Init ==
    /\ version = 1
    /\ pending = 0
    /\ entry = None
    /\ lock = 0
    /\ up = TRUE
    /\ pc = [c \in Callers |-> "idle"]
    /\ acquired = [c \in Callers |-> FALSE]
    /\ fresh = [c \in Callers |-> 1]
    /\ clock = [c \in Callers |-> 0]
    /\ prompt \in Regimes
    /\ budget = [outages |-> MaxOutages, crashes |-> MaxCrashes, throws |-> MaxThrows]

(***************************************************************************)
(* What a get finds.  A get that rejects is caught and reads as a miss.    *)
(***************************************************************************)
Hit == up /\ entry # None

Goto(c, label) == pc' = [pc EXCEPT ![c] = label]

(***************************************************************************)
(* wrap settles: its locals are gone.                                      *)
(***************************************************************************)
Leave(c) ==
    /\ Goto(c, "idle")
    /\ acquired' = [acquired EXCEPT ![c] = FALSE]
    /\ fresh' = [fresh EXCEPT ![c] = 1]
    /\ clock' = [clock EXCEPT ![c] = 0]

(***************************************************************************)
(* The try block is left: finally calls releaseLock if acquired; the       *)
(* mutant releases whoever has the lock.                                   *)
(***************************************************************************)
FinallyAlways(c) == Goto(c, "release") /\ UNCHANGED <<acquired, fresh, clock>>
Finally(c) ==
    \/ acquired[c] /\ Goto(c, "release") /\ UNCHANGED <<acquired, fresh, clock>>
    \/ ~acquired[c] /\ Leave(c)

Holding(c) == acquired[c] /\ pc[c] \in {"recheck", "compute", "set", "release"}
Slow(c) == Holding(c) /\ clock[c] = LockTtl

-----------------------------------------------------------------------------
(* CacheService.wrap. *)

Call(c) ==
    /\ pc[c] = "idle"
    /\ Goto(c, "get")
    /\ UNCHANGED <<prompt, version, pending, redis, up, acquired, fresh, clock, budget>>

Get(c) ==
    /\ pc[c] = "get"
    /\ \/ Hit /\ Leave(c)
       \/ ~Hit /\ Goto(c, "lock") /\ UNCHANGED <<acquired, fresh, clock>>
    /\ UNCHANGED <<prompt, version, pending, redis, up, budget>>

(***************************************************************************)
(* SET lock NX EX.  When Redis is away the command rejects and acquireLock *)
(* answers true without there being a lock.  The mutant drops NX.          *)
(***************************************************************************)
SetNeverFails == lock < 0
SetNxFails == lock > 0

AcquireLock(c) ==
    /\ pc[c] = "lock"
    /\ ~up \/ ~SetNxFails
    /\ Goto(c, "recheck")
    /\ acquired' = [acquired EXCEPT ![c] = TRUE]
    /\ lock' = IF up THEN LockTtl ELSE lock
    /\ UNCHANGED <<prompt, version, pending, entry, up, fresh, clock, budget>>

LockTaken(c) ==
    /\ pc[c] = "lock"
    /\ up /\ SetNxFails
    /\ Goto(c, "poll")
    /\ UNCHANGED <<prompt, version, pending, redis, up, acquired, fresh, clock, budget>>

PollFills(c) ==
    /\ pc[c] = "poll" /\ Hit
    /\ Leave(c)
    /\ UNCHANGED <<prompt, version, pending, redis, up, budget>>

(***************************************************************************)
(* awaitFill's deadline is LockTtl after it began; its mutant has none.    *)
(***************************************************************************)
NoDeadline(c) == clock[c] > LockTtl
PastDeadline(c) == clock[c] = LockTtl

PollGivesUp(c) ==
    /\ pc[c] = "poll" /\ ~Hit
    /\ PastDeadline(c)
    /\ Goto(c, "recheck")
    /\ UNCHANGED <<prompt, version, pending, redis, up, acquired, fresh, clock, budget>>

(***************************************************************************)
(* The get under the lock.                                                 *)
(***************************************************************************)
FoundOnRecheck == Hit

Recheck(c) ==
    /\ pc[c] = "recheck"
    /\ \/ FoundOnRecheck /\ Finally(c)
       \/ ~FoundOnRecheck /\ Goto(c, "compute") /\ UNCHANGED <<acquired, fresh, clock>>
    /\ UNCHANGED <<prompt, version, pending, redis, up, budget>>

(***************************************************************************)
(* compute() reads the source rows here; the value it returns is stored by *)
(* a later command.                                                        *)
(***************************************************************************)
Compute(c) ==
    /\ pc[c] = "compute"
    /\ Goto(c, "set")
    /\ fresh' = [fresh EXCEPT ![c] = version]
    /\ UNCHANGED <<prompt, version, pending, redis, up, acquired, clock, budget>>

ComputeThrows(c) ==
    /\ pc[c] = "compute"
    /\ budget.throws > 0
    /\ budget' = [budget EXCEPT !.throws = @ - 1]
    /\ Finally(c)
    /\ UNCHANGED <<prompt, version, pending, redis, up>>

Set(c) ==
    /\ pc[c] = "set"
    /\ entry' = IF up THEN [value |-> fresh[c], left |-> EntryTtl] ELSE entry
    /\ Finally(c)
    /\ UNCHANGED <<prompt, version, pending, lock, up, budget>>

(***************************************************************************)
(* releaseLock deletes the key whoever set it.                             *)
(***************************************************************************)
ReleaseLock(c) ==
    /\ pc[c] = "release"
    /\ Leave(c)
    /\ lock' = IF up THEN 0 ELSE lock
    /\ UNCHANGED <<prompt, version, pending, entry, up, budget>>

-----------------------------------------------------------------------------
(* The writers: the rows are saved first, del follows. *)

Write ==
    /\ version <= MaxVersion
    /\ version' = version + 1
    /\ pending' = pending + 1
    /\ UNCHANGED <<prompt, redis, up, locals, budget>>

Invalidate ==
    /\ pending > 0
    /\ pending' = pending - 1
    /\ entry' = IF up THEN None ELSE entry
    /\ UNCHANGED <<prompt, version, lock, up, locals, budget>>

-----------------------------------------------------------------------------
(* The surroundings. *)

RedisDown ==
    /\ up /\ budget.outages > 0
    /\ up' = FALSE
    /\ budget' = [budget EXCEPT !.outages = @ - 1]
    /\ UNCHANGED <<prompt, version, pending, redis, locals>>

RedisUp ==
    /\ ~up
    /\ up' = TRUE
    /\ UNCHANGED <<prompt, version, pending, redis, locals, budget>>

(***************************************************************************)
(* The caller's process dies: its finally block does not run.              *)
(***************************************************************************)
Crash(c) ==
    /\ pc[c] # "idle" /\ budget.crashes > 0
    /\ budget' = [budget EXCEPT !.crashes = @ - 1]
    /\ Leave(c)
    /\ UNCHANGED <<prompt, version, pending, redis, up>>

(***************************************************************************)
(* A stored value expires after EntryTtl ticks; in the mutant, never.      *)
(***************************************************************************)
Ageless(e) == e
Aged(e) == IF e.left <= 1 THEN None ELSE [e EXCEPT !.left = @ - 1]

(***************************************************************************)
(* Time passes.  Prompt is the regime wrap is written for: a tick is a     *)
(* good part of stampedeLock's seconds, Redis commands and the polls every *)
(* 50 ms take no time beside it, and compute is done before the lock it    *)
(* runs under expires.                                                     *)
(***************************************************************************)
Timed(c) == clock[c] < LockTtl /\ (Holding(c) \/ pc[c] = "poll")

Tick ==
    /\ prompt => \A c \in Callers :
          \/ pc[c] = "idle"
          \/ pc[c] = "poll" /\ ~Hit
          \/ pc[c] = "compute" /\ clock[c] < LockTtl - 1
    /\ entry' = Aged(entry)
    /\ lock' = IF lock > 0 THEN lock - 1 ELSE 0
    /\ clock' = [c \in Callers |-> IF Timed(c) THEN clock[c] + 1 ELSE clock[c]]
    /\ UNCHANGED <<prompt, version, pending, up, pc, acquired, fresh, budget>>

WrapStep(c) ==
    \/ Get(c) \/ AcquireLock(c) \/ LockTaken(c) \/ PollFills(c) \/ PollGivesUp(c)
    \/ Recheck(c) \/ Compute(c) \/ Set(c) \/ ReleaseLock(c)

Next ==
    \/ \E c \in Callers : Call(c) \/ WrapStep(c) \/ ComputeThrows(c) \/ Crash(c)
    \/ Write \/ Invalidate
    \/ RedisDown \/ RedisUp
    \/ Tick

Spec == Init /\ [][Next]_vars

(***************************************************************************)
(* A call that was made goes on (its promises settle), a writer reaches    *)
(* its del, Redis comes back and clocks run.  Nothing makes anyone call.   *)
(***************************************************************************)
Fairness ==
    /\ \A c \in Callers : WF_vars(WrapStep(c))
    /\ WF_vars(Invalidate)
    /\ WF_vars(RedisUp)
    /\ WF_vars(Tick)

FairSpec == Spec /\ Fairness

-----------------------------------------------------------------------------
Computing == {c \in Callers : pc[c] \in {"compute", "set"}}

\* Nothing has rejected, died or been deleted so far.
Undisturbed ==
    /\ prompt /\ version = 1 /\ budget.outages = MaxOutages
    /\ budget.crashes = MaxCrashes /\ budget.throws = MaxThrows

(***************************************************************************)
(* "A cold/expired key is recomputed by exactly one caller": with prompt   *)
(* callers, until a compute rejects, a process dies or somebody deletes    *)
(* the key, two callers are never computing it at once.                    *)
(***************************************************************************)
SingleFlight == Undisturbed => Cardinality(Computing) <= 1

(***************************************************************************)
(* Under the same conditions no fill overwrites a fill: a caller that      *)
(* missed before another's fill, and got the lock after it, finds the      *)
(* value on the recheck.                                                   *)
(***************************************************************************)
NoRefill == [][Undisturbed => \A c \in Callers : Set(c) => entry = None]_vars

(***************************************************************************)
(* Prompt callers hold the lock one at a time, whatever is deleted,        *)
(* rejects or dies meanwhile, until Redis goes away: no release removes    *)
(* another caller's lock.                                                  *)
(***************************************************************************)
LockExclusive ==
    prompt /\ budget.outages = MaxOutages
      => Cardinality({c \in Callers : Holding(c)}) <= 1

(***************************************************************************)
(* wrap's comment: the callers that wait "only compute themselves if the   *)
(* lock-holder is slow".  Two callers compute at once only when one of     *)
(* them has been inside the lock for its whole TTL.                        *)
(***************************************************************************)
OnlyIfSlow == \A c, d \in Computing : c # d => \E s \in Callers : Slow(s)

(***************************************************************************)
(* "Never deadlock": every call of wrap ends, though the lock's holder may *)
(* have died with it, computes reject and Redis comes and goes.            *)
(***************************************************************************)
EveryCallEnds == \A c \in Callers : (pc[c] # "idle" /\ ~prompt) ~> pc[c] = "idle"

(***************************************************************************)
(* A value computed before a change of the rows and stored after the       *)
(* change's del is not served for ever: once the rows stop changing, what  *)
(* is served is in the end of their last version.  (Both are said of       *)
(* unrestricted time, which has every prompt behaviour too.)               *)
(***************************************************************************)
EventuallyFresh == <>[](prompt \/ entry = None \/ entry.value = version)

=============================================================================

----------------------------- MODULE PolicyCache ----------------------------
(***************************************************************************)
(* The authorization path: PolicyEngine.evaluate (modules/policy) with the *)
(* in-memory PolicyCacheService, for one user and one action, and the      *)
(* changes of the user's standing that TrustService makes                  *)
(* (applyRestriction, liftRestriction) and then calls invalidateUser for.  *)
(*                                                                         *)
(* evaluate awaits the ports between its get and its set, so evaluations   *)
(* and changes interleave there.  Each process has a store of its own; a   *)
(* change is made, and invalidated, in one of them.  Of the rules the      *)
(* model keeps the one question whether the user is restricted.  Time is   *)
(* the number of ticks a cached decision has left.                         *)
(***************************************************************************)
EXTENDS Integers

CONSTANTS
    Processes,    \* API processes, each with its store
    Requests,     \* evaluations that may be in flight
    Ttl,          \* POLICY_DECISION_CACHE_TTL_SECONDS, in ticks
    MaxChanges,   \* bound: changes of standing
    MaxFailures   \* bound: reads of the trust port that reject

ASSUME PolicyAssumption ==
    /\ Ttl \in Nat \ {0}
    /\ MaxChanges \in Nat /\ MaxFailures \in Nat

VARIABLES
    restricted,   \* an active restriction row exists
    changing,     \* process -> changes saved there, invalidateUser not yet called
    store,        \* process -> the cached decision
    pc,           \* request -> where evaluate is
    at,           \* request -> the process that serves it
    decision,     \* request -> its decision so far
    budget        \* changes and failures left

vars == <<restricted, changing, store, pc, at, decision, budget>>

Decisions == {"allow", "deny"}
Nothing == [decision |-> "none", left |-> 0]

TypeOK ==
    /\ restricted \in BOOLEAN
    /\ changing \in [Processes -> 0 .. MaxChanges]
    /\ store \in [Processes -> {Nothing} \cup [decision : Decisions, left : 1 .. Ttl]]
    /\ pc \in [Requests -> {"idle", "read", "set"}]
    /\ at \in [Requests -> Processes]
    /\ decision \in [Requests -> Decisions]
    /\ budget \in [changes : 0 .. MaxChanges, failures : 0 .. MaxFailures]

Init ==
    /\ restricted = FALSE
    /\ changing = [p \in Processes |-> 0]
    /\ store = [p \in Processes |-> Nothing]
    /\ pc = [r \in Requests |-> "idle"]
    /\ at \in [Requests -> Processes]
    /\ decision = [r \in Requests |-> "deny"]
    /\ budget = [changes |-> MaxChanges, failures |-> MaxFailures]

Verdict(isRestricted) == IF isRestricted THEN "deny" ELSE "allow"

(***************************************************************************)
(* PolicyCacheService.get: an entry past its expiresAt is dropped; the     *)
(* mutant does not compare.                                                *)
(***************************************************************************)
NeverExpires(e) == e
Expiring(e) == IF e.left <= 1 THEN Nothing ELSE [e EXCEPT !.left = @ - 1]

(***************************************************************************)
(* evaluate up to its first await: a hit is returned at once.              *)
(***************************************************************************)
Hit(r) ==
    /\ pc[r] = "idle" /\ store[at[r]] # Nothing
    /\ decision' = [decision EXCEPT ![r] = store[at[r]].decision]
    /\ UNCHANGED <<restricted, changing, store, pc, at, budget>>

Miss(r) ==
    /\ pc[r] = "idle" /\ store[at[r]] = Nothing
    /\ pc' = [pc EXCEPT ![r] = "read"]
    /\ UNCHANGED <<restricted, changing, store, at, decision, budget>>

(***************************************************************************)
(* buildContext: resolveTrust reads the rows, or falls back to             *)
(* DEFAULT_TRUST_CONTEXT, which carries no restriction.                    *)
(***************************************************************************)
ReadStanding(r) ==
    /\ pc[r] = "read"
    /\ pc' = [pc EXCEPT ![r] = "set"]
    /\ decision' = [decision EXCEPT ![r] = Verdict(restricted)]
    /\ UNCHANGED <<restricted, changing, store, at, budget>>

TrustPortFails(r) ==
    /\ pc[r] = "read"
    /\ budget.failures > 0
    /\ budget' = [budget EXCEPT !.failures = @ - 1]
    /\ pc' = [pc EXCEPT ![r] = "set"]
    /\ decision' = [decision EXCEPT ![r] = Verdict(FALSE)]
    /\ UNCHANGED <<restricted, changing, store, at>>

SetDecision(r) ==
    /\ pc[r] = "set"
    /\ pc' = [pc EXCEPT ![r] = "idle"]
    /\ store' = [store EXCEPT ![at[r]] = [decision |-> decision[r], left |-> Ttl]]
    /\ UNCHANGED <<restricted, changing, at, decision, budget>>

(***************************************************************************)
(* applyRestriction / liftRestriction: the row is written, the audit entry *)
(* awaited, then the process's own store is cleared.                       *)
(***************************************************************************)
ChangeStanding(p) ==
    /\ budget.changes > 0
    /\ budget' = [budget EXCEPT !.changes = @ - 1]
    /\ restricted' = ~restricted
    /\ changing' = [changing EXCEPT ![p] = @ + 1]
    /\ UNCHANGED <<store, pc, at, decision>>

InvalidateUser(p) ==
    /\ changing[p] > 0
    /\ changing' = [changing EXCEPT ![p] = @ - 1]
    /\ store' = [store EXCEPT ![p] = Nothing]
    /\ UNCHANGED <<restricted, pc, at, decision, budget>>

Tick ==
    /\ store' = [p \in Processes |-> Expiring(store[p])]
    /\ UNCHANGED <<restricted, changing, pc, at, decision, budget>>

Evaluate(r) == Hit(r) \/ Miss(r) \/ ReadStanding(r) \/ SetDecision(r)

Next ==
    \/ \E r \in Requests : Evaluate(r) \/ TrustPortFails(r)
    \/ \E p \in Processes : ChangeStanding(p) \/ InvalidateUser(p)
    \/ Tick

Spec == Init /\ [][Next]_vars

(***************************************************************************)
(* Requests keep coming to every process, an evaluation and a change that  *)
(* began go on, and clocks run.                                            *)
(***************************************************************************)
Fairness ==
    /\ \A r \in Requests : WF_vars(Evaluate(r))
    /\ \A p \in Processes : WF_vars(InvalidateUser(p))
    /\ WF_vars(Tick)

FairSpec == Spec /\ Fairness

-----------------------------------------------------------------------------
Current(p) == store[p] # Nothing => store[p].decision = Verdict(restricted)

(***************************************************************************)
(* Whatever interleaved, whichever process was told and whatever the trust *)
(* port answered: once the standing stays as it is, every process's cached *)
(* decision is in the end the one the standing calls for, and stays it.    *)
(***************************************************************************)
EventuallyCurrent == <>[](\A p \in Processes : Current(p))

(***************************************************************************)
(* policy-cache.service.ts: any change of standing calls invalidateUser    *)
(* "so a stale allow can never outlive the change".  When the calls have   *)
(* been made, no process holds an allow the standing denies.               *)
(***************************************************************************)
NoStaleAllow ==
    (\A p \in Processes : changing[p] = 0) =>
        \A p \in Processes : store[p].decision = "allow" => ~restricted

=============================================================================

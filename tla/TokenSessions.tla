----------------------------- MODULE TokenSessions -----------------------------
(***************************************************************************)
(* The sessions of one user: the refresh-token families that TokenService  *)
(* keeps in Redis, rotated with reuse detection, and the password that     *)
(* opens them, changed by its owner or through a reset token of            *)
(* PasswordResetService.  Every Redis command and every statement is a     *)
(* step; calls interleave, fail and are cut short by a crash anywhere.     *)
(*                                                                         *)
(* The session version (auth:user:{id}:sv) goes into access tokens and     *)
(* nothing reads it back, so it is left out.  Refresh tokens and families  *)
(* are kept as long as each other, from the moment they are written: a     *)
(* token outlives its family, so its TTL expires nothing that matters.     *)
(* The set of a user's families is kept as long from its last EXPIRE; it   *)
(* may expire once every family that was alive then is gone.               *)
(***************************************************************************)
EXTENDS Integers, FiniteSets

CONSTANTS Families,      \* family ids (UUIDs)
          Tokens,        \* refresh tokens by jti
          ResetTokens,   \* password reset tokens
          Procs,         \* processes that serve requests
          MaxPasswords,  \* bound: password changes
          MaxRequests,   \* bound: requests received
          None           \* no family, no token

ASSUME SessionConstants ==
  /\ IsFiniteSet(Tokens) /\ IsFiniteSet(ResetTokens) /\ IsFiniteSet(Procs)
  /\ MaxPasswords \in Nat /\ MaxRequests \in Nat
  /\ None \notin Families \cup Tokens \cup ResetTokens

VARIABLES families,  \* the families whose key auth:family:{id} is there
          index,     \* the set auth:user:{id}:families; an empty set has no key
          volatile,  \* has the key of that set a TTL?
          covered,   \* the families alive when the TTL was set: they end first
          token,     \* token[t]: status of the record auth:rt:{t}
          of,        \* of[t]: the family of token t
          resets,    \* the reset tokens with an unused, unexpired row
          password,  \* which password hash the user has, numbered as they come
          pc,        \* pc[c]: the command process c executes next
          call,      \* call[c]: the method c executes and its token
          got,       \* got[c]: what c has read
          requests,  \* bound: the requests received so far
          opened,    \* history: opened[f] is the password family f was opened with
          closed,    \* history: the sessions of passwords before this are ended
          listed,    \* history: a revocation for a change to this password, and
                     \* for none after it, has read the set
          late,      \* history: families that entered the set when a revocation
                     \* for a newer password had read it
          orphaned,  \* history: families of the set that lost their place in it,
                     \* alive or about to be used
          forks      \* history: forks[f], times a used token of f was used again

vars == <<families, index, volatile, covered, token, of, resets, password, pc, call,
          got, requests, opened, closed, listed, late, orphaned, forks>>

Methods == {"login", "rotate", "logout", "logoutAll", "change", "forgot", "reset"}
NoCall == [method |-> "none", token |-> None]
NoRead == [status |-> "unused", families |-> {}, family |-> None, password |-> 0]
Steps == {"idle", "verify", "readToken", "readFamily", "consume", "del", "srem",
          "smembers", "delFamilies", "delIndex", "update", "open", "sadd", "expire",
          "mint", "clear", "insert", "find", "apply"}

TypeOK ==
  /\ families \subseteq Families /\ index \subseteq Families
  /\ volatile \in BOOLEAN /\ covered \subseteq Families
  /\ token \in [Tokens -> {"unused", "live", "used"}]
  /\ of \in [Tokens -> Families \cup {None}]
  /\ resets \subseteq ResetTokens
  /\ password \in Nat
  /\ pc \in [Procs -> Steps]
  /\ call \in [Procs -> [method : Methods \cup {"none"},
                         token : Tokens \cup ResetTokens \cup {None}]]
  /\ got \in [Procs -> [status : {"unused", "live", "used"},
                        families : SUBSET Families,
                        family : Families \cup {None},
                        password : Nat]]
  /\ requests \in Nat
  /\ opened \in [Families -> Nat \cup {-1}]
  /\ closed \in Nat /\ listed \in Nat
  /\ late \subseteq Families /\ orphaned \subseteq Families
  /\ forks \in [Families -> Nat]

Init ==
  /\ families = {} /\ index = {} /\ resets = {}
  /\ volatile = FALSE /\ covered = {}
  /\ token = [t \in Tokens |-> "unused"]
  /\ of = [t \in Tokens |-> None]
  /\ password = 0
  /\ pc = [c \in Procs |-> "idle"]
  /\ call = [c \in Procs |-> NoCall]
  /\ got = [c \in Procs |-> NoRead]
  /\ requests = 0
  /\ opened = [f \in Families |-> -1]
  /\ closed = 0 /\ listed = 0 /\ late = {} /\ orphaned = {}
  /\ forks = [f \in Families |-> 0]
-----------------------------------------------------------------------------
ttl == <<volatile, covered>>
redisKeys == <<families, index, ttl, token, of>>
history == <<opened, closed, listed, late, orphaned, forks>>

Goto(c, p) == pc' = [pc EXCEPT ![c] = p]
End(c) ==
  /\ Goto(c, "idle")
  /\ call' = [call EXCEPT ![c] = NoCall]
  /\ got' = [got EXCEPT ![c] = NoRead]

First == [login |-> "verify", change |-> "verify", rotate |-> "readToken",
          logout |-> "del", logoutAll |-> "smembers", forgot |-> "clear",
          reset |-> "find"]

Request(c, m, t) ==
  /\ pc[c] = "idle" /\ requests < MaxRequests
  /\ requests' = requests + 1
  /\ Goto(c, First[m])
  /\ call' = [call EXCEPT ![c] = [method |-> m, token |-> t]]
  /\ got' = [got EXCEPT ![c].family = IF m \in {"rotate", "logout"} THEN of[t] ELSE None]
  /\ UNCHANGED <<redisKeys, resets, password, history>>

\* A request arrives, with the right password where one is asked.  A client, or
\* whoever has copied its tokens, may present any token that was ever issued.
Receive(c) ==
  \/ \E m \in {"login", "logoutAll", "change", "forgot"} : Request(c, m, None)
  \/ \E m \in {"rotate", "logout"}, t \in Tokens :
       token[t] # "unused" /\ Request(c, m, t)
  \/ \E r \in ResetTokens : Request(c, "reset", r)

\* login and changePassword compare the password with the hash they read; a
\* sign-in with Google counts as a login with the password of that moment.
Verify(c) ==
  /\ pc[c] = "verify"
  /\ got' = [got EXCEPT ![c].password = password]
  /\ Goto(c, IF call[c].method = "login" THEN "open" ELSE "update")
  /\ UNCHANGED <<redisKeys, resets, password, call, history>>
-----------------------------------------------------------------------------
(* issuePair: a new family, its place in the user's set, the set's TTL,    *)
(* then tokens.                                                            *)

OpenFamily(c) ==
  /\ pc[c] = "open"
  /\ \E f \in Families :
       /\ opened[f] = -1
       /\ families' = families \cup {f}
       /\ opened' = [opened EXCEPT ![f] = got[c].password]
       /\ got' = [got EXCEPT ![c].family = f]
  /\ Goto(c, "sadd")
  /\ UNCHANGED <<index, ttl, token, of, resets, password, call, closed, listed, late,
                 orphaned, forks>>

\* SADD leaves the TTL of a set as it is and gives a new one none.
IndexFamily(c) ==
  LET f == got[c].family IN
  /\ pc[c] = "sadd"
  /\ index' = index \cup {f}
  /\ late' = IF opened[f] < listed THEN late \cup {f} ELSE late
  /\ Goto(c, "expire")
  /\ UNCHANGED <<families, ttl, token, of, resets, password, call, got, opened, closed,
                 listed, orphaned, forks>>

\* EXPIRE sets the TTL of the set, if it is still there.
ExtendIndex(c) ==
  /\ pc[c] = "expire"
  /\ IF index # {} THEN volatile' = TRUE /\ covered' = families ELSE UNCHANGED ttl
  /\ Goto(c, "mint")
  /\ UNCHANGED <<families, index, token, of, resets, password, call, got, history>>

\* mintPair writes the record of the new token without a look at its family.
Mint(c) ==
  /\ pc[c] = "mint"
  /\ \E t \in Tokens :
       /\ token[t] = "unused"
       /\ token' = [token EXCEPT ![t] = "live"]
       /\ of' = [of EXCEPT ![t] = got[c].family]
  /\ End(c)
  /\ UNCHANGED <<families, index, ttl, resets, password, history>>
-----------------------------------------------------------------------------
(* rotate: two reads, then the used mark and the successor, or the end of  *)
(* the family when the token read was used already.                        *)

ReadToken(c) ==
  /\ pc[c] = "readToken"
  /\ got' = [got EXCEPT ![c].status = token[call[c].token]]
  /\ Goto(c, "readFamily")
  /\ UNCHANGED <<redisKeys, resets, password, call, history>>

ReadFamily(c) ==
  /\ pc[c] = "readFamily" /\ got[c].family \in families
  /\ Goto(c, IF got[c].status = "used" THEN "del" ELSE "consume")
  /\ UNCHANGED <<redisKeys, resets, password, call, got, history>>

ReadFamilyRevoked(c) ==
  /\ pc[c] = "readFamily" /\ got[c].family \notin families
  /\ End(c)
  /\ UNCHANGED <<redisKeys, resets, password, history>>

\* Mutant of Consumed: the old token stays live.
Unconsumed(t) == token
\* The token is used from now on.
Consumed(t) == [token EXCEPT ![t] = "used"]

Consume(c) ==
  LET t == call[c].token IN
  /\ pc[c] = "consume"
  /\ token' = Consumed(t)
  /\ forks' = [forks EXCEPT ![got[c].family] = IF token[t] = "used" THEN @ + 1 ELSE @]
  /\ Goto(c, "mint")
  /\ UNCHANGED <<families, index, ttl, of, resets, password, call, got, opened, closed,
                 listed, late, orphaned>>
-----------------------------------------------------------------------------
(* revokeFamily (logout and detected reuse), then revokeAllForUser.        *)

\* The set becomes S; an empty set takes its key and TTL with it.
IndexBecomes(S) ==
  /\ index' = S
  /\ IF S = {} THEN volatile' = FALSE /\ covered' = {} ELSE UNCHANGED ttl

\* Mutant of DelFamily: the place in the set goes first, the family last.
DelFamilyLast(c) ==
  /\ pc[c] = "del"
  /\ IndexBecomes(index \ {got[c].family})
  /\ Goto(c, "srem")
  /\ UNCHANGED <<families, token, of, resets, password, call, got, history>>
DelFamily(c) ==
  /\ pc[c] = "del"
  /\ families' = families \ {got[c].family}
  /\ Goto(c, "srem")
  /\ UNCHANGED <<index, ttl, token, of, resets, password, call, got, history>>

Srem(c) ==
  /\ pc[c] = "srem"
  /\ IndexBecomes(index \ {got[c].family})
  /\ End(c)
  /\ UNCHANGED <<families, token, of, resets, password, history>>

Smembers(c) ==
  /\ pc[c] = "smembers"
  /\ got' = [got EXCEPT ![c].families = index]
  /\ listed' = IF call[c].method \in {"change", "reset"} /\ got[c].password > listed
                 THEN got[c].password ELSE listed
  /\ Goto(c, "delFamilies")
  /\ UNCHANGED <<redisKeys, resets, password, call, opened, closed, late, orphaned, forks>>

\* Mutant of Revoked: the families of the set are left for later.
NoneRevoked(S) == families
\* The families that are left when those of S are deleted.
Revoked(S) == families \ S

DelFamilies(c) ==
  /\ pc[c] = "delFamilies"
  /\ families' = Revoked(got[c].families)
  /\ Goto(c, "delIndex")
  /\ UNCHANGED <<index, ttl, token, of, resets, password, call, got, history>>

\* A family that entered the set since it was read leaves it alive.  A password
\* change goes on to open the caller's new session, with the new password.
DelIndex(c) ==
  /\ pc[c] = "delIndex"
  /\ IndexBecomes({})
  /\ orphaned' = orphaned \cup (index \ got[c].families)
  /\ closed' = IF call[c].method \in {"change", "reset"} /\ got[c].password > closed
                 THEN got[c].password ELSE closed
  /\ IF call[c].method = "change"
       THEN Goto(c, "open") /\ UNCHANGED <<call, got>>
       ELSE End(c)
  /\ UNCHANGED <<families, token, of, resets, password, opened, listed, late, forks>>

\* The family's key reaches the end of its TTL (30 days from the login).
ExpireFamily ==
  /\ \E f \in families : families' = families \ {f}
  /\ UNCHANGED <<index, ttl, token, of, resets, password, pc, call, got, history>>

\* The set's key reaches the end of its TTL.  A family that has just got its
\* place in the set, and whose EXPIRE comes too late, goes with it.
ExpireIndex ==
  /\ volatile /\ covered \cap families = {}
  /\ IndexBecomes({})
  /\ orphaned' = orphaned \cup
       {f \in index : \E c \in Procs : pc[c] = "expire" /\ got[c].family = f}
  /\ UNCHANGED <<families, token, of, resets, password, pc, call, got, opened, closed,
                 listed, late, forks>>
-----------------------------------------------------------------------------
(* Password changes.                                                       *)

UpdatePassword(c) ==
  /\ pc[c] = "update" /\ password < MaxPasswords
  /\ password' = password + 1
  /\ got' = [got EXCEPT ![c].password = password + 1]
  /\ Goto(c, "smembers")
  /\ UNCHANGED <<redisKeys, resets, call, history>>

\* Mutant of Cleared: issuing leaves the earlier reset tokens alone.
Uncleared == resets
\* What is left of the user's reset tokens when a new one is issued.
Cleared == {}

ClearResets(c) ==
  /\ pc[c] = "clear"
  /\ resets' = Cleared
  /\ Goto(c, "insert")
  /\ UNCHANGED <<redisKeys, password, call, got, history>>

InsertReset(c) ==
  /\ pc[c] = "insert"
  /\ \E r \in ResetTokens \ resets :
       /\ \A d \in Procs : call[d].token # r     \* a fresh one
       /\ resets' = resets \cup {r}
  /\ End(c)
  /\ UNCHANGED <<redisKeys, password, history>>

\* consume finds an unused, unexpired row, in a transaction that locks nothing...
FindReset(c) ==
  /\ pc[c] = "find" /\ call[c].token \in resets
  /\ Goto(c, "apply")
  /\ UNCHANGED <<redisKeys, resets, password, call, got, history>>

FindResetInvalid(c) ==
  /\ pc[c] = "find" /\ call[c].token \notin resets
  /\ End(c)
  /\ UNCHANGED <<redisKeys, resets, password, history>>

\* ...and marks it used and sets the password, whatever became of the row.
ApplyReset(c) ==
  /\ pc[c] = "apply" /\ password < MaxPasswords
  /\ resets' = resets \ {call[c].token}
  /\ password' = password + 1
  /\ got' = [got EXCEPT ![c].password = password + 1]
  /\ Goto(c, "smembers")
  /\ UNCHANGED <<redisKeys, call, history>>

\* An hour passes.
ExpireReset ==
  /\ \E r \in resets : resets' = resets \ {r}
  /\ UNCHANGED <<redisKeys, password, pc, call, got, history>>

\* A command throws or the process dies; what was written stays.
Fail(c) ==
  /\ pc[c] # "idle"
  /\ End(c)
  /\ UNCHANGED <<redisKeys, resets, password, history>>

Step(c) ==
  \/ Verify(c) \/ OpenFamily(c) \/ IndexFamily(c) \/ ExtendIndex(c) \/ Mint(c)
  \/ ReadToken(c) \/ ReadFamily(c) \/ ReadFamilyRevoked(c) \/ Consume(c)
  \/ DelFamily(c) \/ Srem(c) \/ Smembers(c) \/ DelFamilies(c) \/ DelIndex(c)
  \/ UpdatePassword(c) \/ ClearResets(c) \/ InsertReset(c)
  \/ FindReset(c) \/ FindResetInvalid(c) \/ ApplyReset(c)

Next ==
  \/ \E c \in Procs : Receive(c)
  \/ /\ \/ \E c \in Procs : Step(c) \/ Fail(c)
        \/ ExpireFamily \/ ExpireIndex \/ ExpireReset
     /\ UNCHANGED requests

Spec == Init /\ [][Next]_vars
-----------------------------------------------------------------------------
LiveTokens(f) == {t \in Tokens : of[t] = f /\ token[t] = "live"}
Sessions == {f \in families : \E t \in Tokens : of[t] = f}

\* Logging out everywhere can reach every session: whatever failed or crashed
\* half-way, a live family that has tokens is in the user's set, unless it lost
\* its place there: it entered between the two ends of a revocation of all, or
\* the set expired between its SADD and its EXPIRE.
SessionsReachable == Sessions \subseteq index \cup orphaned

\* "A reset ends every existing session": once a password change has revoked
\* all, no session of an earlier password lives, unless it entered the set after
\* a revocation for a newer password had read it, or lost its place in the set.
ChangeEndsSessions == \A f \in Sessions : opened[f] < closed => f \in late \cup orphaned

\* Rotation never multiplies a session, but for rotations of one token that
\* overlap: each extra live token of a family goes back to one of those.
LiveTokensAccounted ==
  \A f \in families : Cardinality(LiveTokens(f)) <= 1 + forks[f]

\* However calls overlap, there are never more valid reset tokens than
\* processes that can be between the deletion of old ones and the insertion.
ResetTokensBounded ==
  Cardinality(resets) <= Cardinality(Procs)

\* "Presenting a used token = theft": two live tokens never share a family.
OneLiveToken == \A f \in families : Cardinality(LiveTokens(f)) <= 1

\* Every session of a password is over once it has been changed.
NoSessionMissed == \A f \in Sessions : opened[f] >= closed

\* Every session can be logged out from everywhere.
NoSessionOrphaned == Sessions \subseteq index

\* "single-use": two calls never both set the password by one reset token.
ResetUsedOnce ==
  \A c, d \in Procs :
    c # d /\ call[c].method = "reset" /\ call[c].token = call[d].token =>
      ~({pc[c], pc[d]} \subseteq {"smembers", "delFamilies", "delIndex"})
=============================================================================

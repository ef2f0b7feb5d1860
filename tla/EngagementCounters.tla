-------------------------- MODULE EngagementCounters --------------------------
(***************************************************************************)
(* The rows readers leave behind - likes, bookmarks, claps (one row per    *)
(* reader of the piece) and follows - and the counters denormalized from   *)
(* them: the piece's piece_stats row, the followers_count and              *)
(* following_count of each profile.                                        *)
(*                                                                         *)
(* Every call writes its row and the counters in one transaction at READ   *)
(* COMMITTED: a statement that writes a row locks it until the commit, a   *)
(* statement that reads does not, and PostgreSQL aborts a transaction of a *)
(* cycle of waiters.  Each statement is a step; calls interleave.          *)
(***************************************************************************)
EXTENDS Integers, FiniteSets, FiniteSetsExt

CONSTANTS Users,
          Reactions,  \* keys <<kind, reader>> of the piece's reaction rows
          Follows,    \* keys <<"follow", follower, followee>> of follow rows
          Procs,      \* processes that serve requests
          MaxClaps,   \* MAX_CLAPS_PER_USER_PER_PIECE (50)
          Adds,       \* claps one request adds
          None        \* nobody holds the row

ToggleKinds == {"like", "bookmark"}
ReactionKinds == ToggleKinds \cup {"clap"}

ASSUME EngagementConstants ==
  /\ IsFiniteSet(Users) /\ IsFiniteSet(Reactions)
  /\ Reactions \subseteq ReactionKinds \X Users
  /\ Follows \subseteq {"follow"} \X Users \X Users
  /\ \A f \in Follows : f[2] # f[3]
  /\ MaxClaps \in Nat \ {0, 1}
  /\ Adds \subseteq Nat \ {0}
  /\ None \notin Procs

VARIABLES row,        \* row[r]: committed value of row r, 0 when there is none
          stats,      \* the piece_stats row, by kind of reaction
          followers,  \* profiles.followers_count
          following,  \* profiles.following_count
          lock,       \* lock[x]: the process whose transaction wrote row x
          pc,         \* pc[c]: the statement process c executes next
          call,       \* call[c]: the method c executes and its arguments
          seen,       \* seen[c]: the value of the row as c read it, and
                      \* whether the row of that id is still there
          write,      \* write[c]: what c's transaction has written
          drifted     \* history: a write met a row other than the one read

vars == <<row, stats, followers, following, lock, pc, call, seen, write, drifted>>

Sources == Reactions \cup Follows
Stats == <<"stats">>
Profile(u) == <<"profile", u>>
Rows == Sources \cup {Stats} \cup {Profile(u) : u \in Users}

Pending == 1    \* the values of a follow row
Accepted == 2
Values == 0 .. MaxClaps
Methods == {"add", "delete", "clap", "removeClaps",
            "follow", "unfollow", "accept", "reject"}
NoCall == [method |-> "none", key |-> Stats, add |-> 0]
NoSight == [value |-> 0, there |-> FALSE]
NoWrite == [value |-> 0, delta |-> 0]

TypeOK ==
  /\ row \in [Sources -> Values]
  /\ stats \in [ReactionKinds -> Int]
  /\ followers \in [Users -> Int] /\ following \in [Users -> Int]
  /\ lock \in [Rows -> Procs \cup {None}]
  /\ pc \in [Procs -> {"idle", "read", "write", "count", "countToo", "commit"}]
  /\ call \in [Procs -> [method : Methods, key : Sources, add : Nat] \cup {NoCall}]
  /\ seen \in [Procs -> [value : Values, there : BOOLEAN]]
  /\ write \in [Procs -> [value : Values, delta : Int]]
  /\ drifted \in BOOLEAN

Init ==
  /\ row = [r \in Sources |-> 0]
  /\ stats = [k \in ReactionKinds |-> 0]
  /\ followers = [u \in Users |-> 0] /\ following = [u \in Users |-> 0]
  /\ lock = [x \in Rows |-> None]
  /\ pc = [c \in Procs |-> "idle"]
  /\ call = [c \in Procs |-> NoCall]
  /\ seen = [c \in Procs |-> NoSight]
  /\ write = [c \in Procs |-> NoWrite]
  /\ drifted = FALSE
-----------------------------------------------------------------------------
Goto(c, p) == pc' = [pc EXCEPT ![c] = p]

\* A call returns or throws; COMMIT and ROLLBACK both release its rows.
End(c) ==
  /\ Goto(c, "idle")
  /\ call' = [call EXCEPT ![c] = NoCall]
  /\ seen' = [seen EXCEPT ![c] = NoSight]
  /\ write' = [write EXCEPT ![c] = NoWrite]
  /\ lock' = [x \in Rows |-> IF lock[x] = c THEN None ELSE lock[x]]

\* The methods that read the row first; unlike and removeBookmark do not.
Request(c, m, r, n) ==
  /\ pc[c] = "idle"
  /\ call' = [call EXCEPT ![c] = [method |-> m, key |-> r, add |-> n]]
  /\ Goto(c, IF m = "delete" THEN "write" ELSE "read")
  /\ UNCHANGED <<row, stats, followers, following, lock, seen, write, drifted>>

\* A request arrives.  follow has read the target's privacy by then: what it
\* adds is the status of the new edge.  Bound: once a counter may have drifted,
\* no further call can make it drift more.
Receive(c) ==
  \/ \E r \in {r \in Reactions : r[1] \in ToggleKinds} :
       Request(c, "add", r, 1) \/ Request(c, "delete", r, 0)
  \/ \E r \in {r \in Reactions : r[1] = "clap" /\ ~drifted} :
       Request(c, "removeClaps", r, 0) \/ \E n \in Adds : Request(c, "clap", r, n)
  \/ \E r \in {r \in Follows : ~drifted} :
       \/ \E m \in {"unfollow", "accept", "reject"} : Request(c, m, r, 0)
       \/ \E status \in {Pending, Accepted} : Request(c, "follow", r, status)

\* The early returns and errors of a method that read v.
Refused(m, v) ==
  \/ m \in {"add", "follow"} /\ v # 0
  \/ m = "clap" /\ v >= MaxClaps
  \/ m \in {"removeClaps", "unfollow"} /\ v = 0
  \/ m \in {"accept", "reject"} /\ v # Pending

Read(c) ==
  LET r == call[c].key IN
  /\ pc[c] = "read" /\ ~Refused(call[c].method, row[r])
  /\ seen' = [seen EXCEPT ![c] = [value |-> row[r], there |-> TRUE]]
  /\ Goto(c, "write")
  /\ UNCHANGED <<row, stats, followers, following, lock, call, write, drifted>>

ReadRefused(c) ==
  /\ pc[c] = "read" /\ Refused(call[c].method, row[call[c].key])
  /\ End(c)
  /\ UNCHANGED <<row, stats, followers, following, drifted>>
-----------------------------------------------------------------------------
\* Mutant of Misses: an insert never meets its unique index.
NeverMisses(c) ==
  LET m == call[c].method IN
  \/ m \in {"delete", "removeClaps"} /\ row[call[c].key] = 0
  \/ m \in {"unfollow", "accept", "reject"} /\ ~seen[c].there

\* The statement writes no row: an insert meets its unique index, a delete by
\* key finds nothing, the row a follow method has read by now is gone.
Misses(c) ==
  LET m == call[c].method IN
  \/ m \in {"add", "follow"} /\ row[call[c].key] # 0
  \/ m \in {"delete", "removeClaps"} /\ row[call[c].key] = 0
  \/ m \in {"unfollow", "accept", "reject"} /\ ~seen[c].there

\* The methods that count whatever their statement on the row has done.
Unchecked == {"unfollow", "accept", "reject"}

\* The upsert's LEAST.
Capped(n) == IF n <= MaxClaps THEN n ELSE MaxClaps

\* The value the statement gives the row.
Written(m, v, n) ==
  CASE m \in {"add", "follow"} -> n
    [] m = "clap"              -> Capped(v + n)
    [] m = "accept"            -> Accepted
    [] OTHER                   -> 0

\* Mutant of Delta: a claps request counts what was asked for.
DeltaAsked(c, v) ==
  LET m == call[c].method  s == seen[c].value  n == call[c].add IN
  CASE m = "add"         -> 1
    [] m = "delete"      -> -1
    [] m = "clap"        -> n
    [] m = "removeClaps" -> -s
    [] m = "follow"      -> IF n = Accepted THEN 1 ELSE 0
    [] m = "unfollow"    -> IF s = Accepted THEN -1 ELSE 0
    [] m = "accept"      -> 1
    [] OTHER             -> 0

\* What the method then adds to the counters: claps and unfollow work it out
\* from the value they have read, not from the row they have written.
Delta(c, v) ==
  LET m == call[c].method  s == seen[c].value  n == call[c].add IN
  CASE m = "add"         -> 1
    [] m = "delete"      -> -1
    [] m = "clap"        -> IF Written(m, v, n) > s THEN Written(m, v, n) - s ELSE 0
    [] m = "removeClaps" -> -s
    [] m = "follow"      -> IF n = Accepted THEN 1 ELSE 0
    [] m = "unfollow"    -> IF s = Accepted THEN -1 ELSE 0
    [] m = "accept"      -> 1
    [] OTHER             -> 0

\* The row changed since a method that relies on its reading read it.
Outdated(c) ==
  /\ call[c].method \in Unchecked \cup {"clap", "removeClaps"}
  /\ ~seen[c].there \/ row[call[c].key] # seen[c].value

\* A statement waits for a row only when it writes that row.
Write(c) ==
  LET r == call[c].key
      d == Delta(c, row[r]) IN
  /\ pc[c] = "write" /\ ~Misses(c)
  /\ lock[r] = None
  /\ lock' = [lock EXCEPT ![r] = c]
  /\ write' = [write EXCEPT ![c] =
                 [value |-> Written(call[c].method, row[r], call[c].add), delta |-> d]]
  /\ drifted' = (drifted \/ Outdated(c))
  /\ Goto(c, IF d = 0 THEN "commit" ELSE "count")
  /\ UNCHANGED <<row, stats, followers, following, call, seen>>

\* A miss waits as well for a transaction that may still undo it.
WriteMisses(c) ==
  /\ pc[c] = "write" /\ Misses(c) /\ call[c].method \notin Unchecked
  /\ lock[call[c].key] = None
  /\ End(c)
  /\ UNCHANGED <<row, stats, followers, following, drifted>>

WriteMissesUnnoticed(c) ==
  LET d == Delta(c, 0) IN
  /\ pc[c] = "write" /\ Misses(c) /\ call[c].method \in Unchecked
  /\ write' = [write EXCEPT ![c] = [value |-> 0, delta |-> d]]
  /\ drifted' = TRUE
  /\ Goto(c, IF d = 0 THEN "commit" ELSE "count")
  /\ UNCHANGED <<row, stats, followers, following, lock, call, seen>>
-----------------------------------------------------------------------------
IsFollow(c) == call[c].key[1] = "follow"

\* The counter rows in the order they are updated: the target's profile, then
\* the follower's.
Counter(c) ==
  IF ~IsFollow(c) THEN Stats
  ELSE Profile(call[c].key[IF pc[c] = "count" THEN 3 ELSE 2])

\* increment and incrementCounts add to the committed value of a row that no
\* one else can write before this commit.
Count(c) ==
  /\ pc[c] \in {"count", "countToo"}
  /\ lock[Counter(c)] = None
  /\ lock' = [lock EXCEPT ![Counter(c)] = c]
  /\ Goto(c, IF pc[c] = "count" /\ IsFollow(c) THEN "countToo" ELSE "commit")
  /\ UNCHANGED <<row, stats, followers, following, call, seen, write, drifted>>

\* Mutant of Mirrored: unfollowing leaves the follower's own count alone.
OneSided(f, k, d) == IF d < 0 THEN f ELSE [f EXCEPT ![k[2]] = @ + d]
\* The follower's count moves with the target's.
Mirrored(f, k, d) == [f EXCEPT ![k[2]] = @ + d]

Owns(c) == lock[call[c].key] = c

\* Everything the transaction wrote becomes visible; a row that is deleted is
\* no longer there for those who read it.
Commit(c) ==
  LET k == call[c].key  d == write[c].delta IN
  /\ pc[c] = "commit"
  /\ row' = IF Owns(c) THEN [row EXCEPT ![k] = write[c].value] ELSE row
  /\ IF IsFollow(c)
       THEN /\ followers' = [followers EXCEPT ![k[3]] = @ + d]
            /\ following' = Mirrored(following, k, d)
            /\ UNCHANGED stats
       ELSE /\ stats' = [stats EXCEPT ![k[1]] = @ + d]
            /\ UNCHANGED <<followers, following>>
  /\ seen' = [p \in Procs |->
                IF p = c THEN NoSight
                ELSE IF Owns(c) /\ write[c].value = 0 /\ call[p].key = k
                  THEN [seen[p] EXCEPT !.there = FALSE] ELSE seen[p]]
  /\ Goto(c, "idle")
  /\ call' = [call EXCEPT ![c] = NoCall]
  /\ write' = [write EXCEPT ![c] = NoWrite]
  /\ lock' = [x \in Rows |-> IF lock[x] = c THEN None ELSE lock[x]]
  /\ UNCHANGED drifted

\* The row c waits for.
Wanted(c) == IF pc[c] = "write" THEN call[c].key ELSE Counter(c)
Waits(c) ==
  /\ pc[c] \in {"write", "count", "countToo"}
  /\ lock[Wanted(c)] # None
  /\ pc[c] = "write" => ~(Misses(c) /\ call[c].method \in Unchecked)

\* Mutant of Deadlocked: nothing breaks a cycle of waiters.
Undetected(c) == FALSE
\* c waits in a cycle.
Deadlocked(c) ==
  \E S \in SUBSET Procs : c \in S /\ \A p \in S : Waits(p) /\ lock[Wanted(p)] \in S

\* PostgreSQL aborts a deadlocked transaction: the call throws.
AbortDeadlock(c) ==
  /\ Deadlocked(c)
  /\ End(c)
  /\ UNCHANGED <<row, stats, followers, following, drifted>>

\* The statement throws or the process dies: the transaction rolls back.
Fail(c) ==
  /\ pc[c] # "idle"
  /\ End(c)
  /\ UNCHANGED <<row, stats, followers, following, drifted>>

Step(c) ==
  \/ Read(c) \/ ReadRefused(c) \/ Write(c) \/ WriteMisses(c)
  \/ WriteMissesUnnoticed(c) \/ Count(c) \/ Commit(c) \/ AbortDeadlock(c)

Next == \E c \in Procs : Receive(c) \/ Step(c) \/ Fail(c)

Spec == Init /\ [][Next]_vars

\* A call in progress goes on; a row that is released goes to its waiters in
\* turn, which is strong fairness.
LiveSpec == Spec /\ \A c \in Procs : SF_vars(Step(c))
-----------------------------------------------------------------------------
RowsOf(k) == {r \in Reactions : r[1] = k}
FollowersOf(u) == {f \in Follows : f[3] = u /\ row[f] = Accepted}
FollowedBy(u) == {f \in Follows : f[2] = u /\ row[f] = Accepted}

\* piece_stats counts the likes and bookmarks there are, whatever interleaves
\* and fails: the unique index and the affected-row check keep the two in step.
TogglesExact ==
  \A k \in ToggleKinds : stats[k] = Cardinality({r \in RowsOf(k) : row[r] = 1})

\* Claps and follows are counted exactly until a call acts on a row that is
\* no longer what the call has read: nothing else makes a counter drift, no
\* repeated, refused, failing or deadlocked call.
DriftNeedsRace ==
  ~drifted =>
    /\ stats["clap"] = MapThenSumSet(LAMBDA r : row[r], RowsOf("clap"))
    /\ \A u \in Users : /\ followers[u] = Cardinality(FollowersOf(u))
                        /\ following[u] = Cardinality(FollowedBy(u))

\* All followers together are as many as all followed.
FollowsBalance ==
  MapThenSumSet(LAMBDA u : followers[u], Users) = MapThenSumSet(LAMBDA u : following[u], Users)

\* However far claps and follows have drifted from their rows, likes and
\* bookmarks have not, and the two sides of follows have drifted alike.
DriftConfined == TogglesExact /\ FollowsBalance

\* Every call ends: a lock is waited for, a deadlock is broken.
EveryCallEnds == \A c \in Procs : pc[c] # "idle" ~> pc[c] = "idle"

\* No counter ever drifts from its rows ("can never drift from its source row").
NeverDrifts == stats["clap"] = MapThenSumSet(LAMBDA r : row[r], RowsOf("clap"))

\* Two calls never wait for one another.
NeverDeadlocked == \A c \in Procs : ~Deadlocked(c)
=============================================================================

---------------------- MODULE EngagementCountersProofs ----------------------
(***************************************************************************)
(* Proofs about EngagementCounters, for any finite sets of readers, rows   *)
(* and follows, any processes, any cap and any interleaving of statements, *)
(* failures and deadlocks.                                                 *)
(*                                                                         *)
(* The counters are compared with sums over sets, which the model takes    *)
(* from the community modules as folds.  A fold is a function defined by   *)
(* recursion over the subsets of a finite set: the first part proves that  *)
(* it exists, and by smallest counterexamples what the invariants need.    *)
(***************************************************************************)
EXTENDS EngagementCounters, FiniteSetTheorems, WellFoundedInduction, TLAPS

-----------------------------------------------------------------------------
(* Sums over finite sets.                                                  *)

\* g is the function MapThenFoldSet recurses with: the sums of f over the
\* subsets of S, one chosen element after the other.
IsSum(g, f, S) ==
  g = [s \in SUBSET S |-> IF s = {} THEN 0
                          ELSE LET x == CHOOSE y \in s : TRUE IN f[x] + g[s \ {x}]]
SumFn(f, S) == CHOOSE g : IsSum(g, f, S)
SumOf(f, S) == SumFn(f, S)[S]

\* The sum of the community module is this one.
LEMMA SumIsSumOf ==
  ASSUME NEW f, NEW S
  PROVE  MapThenSumSet(LAMBDA r : f[r], S) = SumOf(f, S)
BY DEF MapThenSumSet, MapThenFoldSet, SumOf, SumFn, IsSum

\* A nonempty collection of subsets of a finite set has a minimal one.
LEMMA HasSmallest ==
  ASSUME NEW S, IsFiniteSet(S), NEW B, B \subseteq SUBSET S, B # {}
  PROVE  \E T \in B : \A U \in B : U \subseteq T => U = T
<1>1. IsWellFoundedOn(StrictSubsetOrdering(S), SUBSET S)
  BY FS_StrictSubsetOrderingWellFounded, FS_FiniteSubsetsOfFinite
<1>2. PICK T \in B : \A U \in B : ~(<<U, T>> \in StrictSubsetOrdering(S))
  BY <1>1, WFMin
<1>3. ASSUME NEW U \in B, U \subseteq T, U # T PROVE FALSE
  <2>1. <<U, T>> \in StrictSubsetOrdering(S)
    BY <1>3 DEF StrictSubsetOrdering
  <2>2. QED BY <2>1, <1>2
<1>4. QED BY <1>3

\* What the recursion says of a subset.
LEMMA SumUnfolds ==
  ASSUME NEW g, NEW f, NEW S, IsSum(g, f, S), NEW T \in SUBSET S
  PROVE  g[T] = IF T = {} THEN 0
                ELSE LET x == CHOOSE y \in T : TRUE IN f[x] + g[T \ {x}]
BY DEF IsSum

\* Two such functions agree where both are defined.
LEMMA SumUnique ==
  ASSUME NEW f, NEW A, NEW B, NEW g, NEW h, IsSum(g, f, A), IsSum(h, f, B),
         NEW S, IsFiniteSet(S), S \subseteq A, S \subseteq B
  PROVE  g[S] = h[S]
<1> DEFINE Differ == {T \in SUBSET S : g[T] # h[T]}
<1> SUFFICES ASSUME Differ # {} PROVE FALSE
  OBVIOUS
<1>0. Differ \subseteq SUBSET S
  OBVIOUS
<1>1. PICK T \in Differ : \A U \in Differ : U \subseteq T => U = T
  <2> HIDE DEF Differ
  <2> QED
    BY <1>0, HasSmallest
<1> DEFINE x == CHOOSE y \in T : TRUE
<1>2. g[T] = (IF T = {} THEN 0 ELSE f[x] + g[T \ {x}])
  BY SumUnfolds
<1>3. h[T] = (IF T = {} THEN 0 ELSE f[x] + h[T \ {x}])
  BY SumUnfolds
<1>4. CASE T # {}
  <2>1. x \in T
    BY <1>4
  <2>2. g[T \ {x}] = h[T \ {x}]
    BY <1>1, <2>1
  <2>3. QED
    BY <1>2, <1>3, <2>2
<1>5. QED
  BY <1>2, <1>3, <1>4

\* There is such a function: from the sums over all smaller subsets.
LEMMA SumExists ==
  ASSUME NEW f, NEW S, IsFiniteSet(S)
  PROVE  IsSum(SumFn(f, S), f, S)
<1> DEFINE Bad == {T \in SUBSET S : ~ \E g : IsSum(g, f, T)}
<1>1. Bad = {}
  <2> SUFFICES ASSUME Bad # {} PROVE FALSE
    OBVIOUS
  <2>0. Bad \subseteq SUBSET S
    OBVIOUS
  <2>1. PICK T \in Bad : \A U \in Bad : U \subseteq T => U = T
    <3> HIDE DEF Bad
    <3> QED
      BY <2>0, HasSmallest
  <2> DEFINE el(s) == CHOOSE y \in s : TRUE
             Total(U) == SumFn(f, U)[U]
             g == [s \in SUBSET T |-> IF s = {} THEN 0 ELSE f[el(s)] + Total(s \ {el(s)})]
  <2> HIDE DEF g
  <2>2. ASSUME NEW U \in SUBSET T, U # T PROVE IsSum(SumFn(f, U), f, U)
    <3>1. \E h : IsSum(h, f, U)
      BY <2>1, <2>2
    <3>2. QED
      BY <3>1 DEF SumFn
  <2>3. ASSUME NEW s \in SUBSET T, s # {}
        PROVE  Total(s \ {el(s)}) = g[s \ {el(s)}]
    <3> DEFINE U == s \ {el(s)}
    <3>1. U \in SUBSET T /\ U # T /\ IsFiniteSet(U)
      BY <2>3, FS_Subset
    <3>2. SumFn(f, U)[U] = (IF U = {} THEN 0 ELSE f[el(U)] + SumFn(f, U)[U \ {el(U)}])
      BY <2>2, <3>1, SumUnfolds
    <3>3. g[U] = (IF U = {} THEN 0 ELSE f[el(U)] + Total(U \ {el(U)}))
      BY <3>1 DEF g
    <3>4. ASSUME U # {} PROVE SumFn(f, U)[U \ {el(U)}] = Total(U \ {el(U)})
      <4> DEFINE V == U \ {el(U)}
      <4>1. V \in SUBSET T /\ V # T /\ IsFiniteSet(V) /\ V \subseteq U
        BY <3>1, <3>4, FS_Subset
      <4>2. IsSum(SumFn(f, V), f, V) /\ IsSum(SumFn(f, U), f, U)
        BY <4>1, <3>1, <2>2
      <4>3. QED
        BY <4>1, <4>2, SumUnique
    <3>5. QED
      BY <3>2, <3>3, <3>4
  <2>4. ASSUME NEW s \in SUBSET T
        PROVE  g[s] = IF s = {} THEN 0 ELSE f[el(s)] + g[s \ {el(s)}]
    <3>1. g[s] = IF s = {} THEN 0 ELSE f[el(s)] + Total(s \ {el(s)})
      BY DEF g
    <3> HIDE DEF Total
    <3> QED
      BY <2>3, <3>1
  <2>5. g = [s \in SUBSET T |-> IF s = {} THEN 0 ELSE f[el(s)] + g[s \ {el(s)}]]
    <3>1. g = [s \in SUBSET T |-> g[s]]
      BY DEF g
    <3> QED
      BY <2>4, <3>1
  <2>6. IsSum(g, f, T)
    BY <2>5 DEF IsSum
  <2>7. QED
    BY <2>6, <2>1
<1>2. \E g : IsSum(g, f, S)
  BY <1>1
<1>3. QED
  BY <1>2 DEF SumFn

\* The empty sum.
LEMMA SumOfEmpty == ASSUME NEW f PROVE SumOf(f, {}) = 0
BY SumExists, SumUnfolds, FS_EmptySet DEF SumOf

\* A sum is its first element's term and the sum of the rest.
LEMMA SumStep ==
  ASSUME NEW f, NEW S, IsFiniteSet(S), S # {}
  PROVE  LET x == CHOOSE y \in S : TRUE IN SumOf(f, S) = f[x] + SumOf(f, S \ {x})
<1> DEFINE x == CHOOSE y \in S : TRUE
<1>1. IsFiniteSet(S \ {x})
  BY FS_Subset
<1>2. SumFn(f, S)[S] = f[x] + SumFn(f, S)[S \ {x}]
  BY SumExists, SumUnfolds
<1>3. SumFn(f, S)[S \ {x}] = SumFn(f, S \ {x})[S \ {x}]
  BY <1>1, SumExists, SumUnique
<1>4. QED
  BY <1>2, <1>3 DEF SumOf

\* A sum of integers is an integer.
LEMMA SumType ==
  ASSUME NEW f, NEW S, IsFiniteSet(S), \A s \in S : f[s] \in Int
  PROVE  SumOf(f, S) \in Int
<1> DEFINE Bad == {T \in SUBSET S : SumOf(f, T) \notin Int}
<1> SUFFICES ASSUME Bad # {} PROVE FALSE
  OBVIOUS
<1>0. Bad \subseteq SUBSET S
  OBVIOUS
<1>1. PICK T \in Bad : \A U \in Bad : U \subseteq T => U = T
  <2> HIDE DEF Bad
  <2> QED
    BY <1>0, HasSmallest
<1> DEFINE x == CHOOSE y \in T : TRUE
<1>2. CASE T # {}
  <2>1. x \in T /\ IsFiniteSet(T)
    BY <1>2, FS_Subset
  <2>2. SumOf(f, T) = f[x] + SumOf(f, T \ {x})
    BY <1>2, <2>1, SumStep
  <2>3. SumOf(f, T \ {x}) \in Int /\ f[x] \in Int
    BY <2>1, <1>1
  <2>4. QED
    BY <2>2, <2>3
<1>3. QED
  BY <1>2, SumOfEmpty

\* Zeros have the sum 0.
LEMMA SumOfZeros ==
  ASSUME NEW f, NEW S, IsFiniteSet(S), \A s \in S : f[s] = 0
  PROVE  SumOf(f, S) = 0
<1> DEFINE Bad == {T \in SUBSET S : SumOf(f, T) # 0}
<1> SUFFICES ASSUME Bad # {} PROVE FALSE
  OBVIOUS
<1>0. Bad \subseteq SUBSET S
  OBVIOUS
<1>1. PICK T \in Bad : \A U \in Bad : U \subseteq T => U = T
  <2> HIDE DEF Bad
  <2> QED
    BY <1>0, HasSmallest
<1> DEFINE x == CHOOSE y \in T : TRUE
<1>2. CASE T # {}
  <2>1. x \in T /\ IsFiniteSet(T)
    BY <1>2, FS_Subset
  <2>2. SumOf(f, T) = f[x] + SumOf(f, T \ {x})
    BY <1>2, <2>1, SumStep
  <2>3. SumOf(f, T \ {x}) = 0 /\ f[x] = 0
    BY <2>1, <1>1
  <2>4. QED
    BY <2>2, <2>3
<1>3. QED
  BY <1>2, SumOfEmpty

\* Functions that agree on a set have the same sum over it.
LEMMA SumSame ==
  ASSUME NEW f, NEW g, NEW S, IsFiniteSet(S), \A s \in S : g[s] = f[s]
  PROVE  SumOf(g, S) = SumOf(f, S)
<1> DEFINE Bad == {T \in SUBSET S : SumOf(g, T) # SumOf(f, T)}
<1> SUFFICES ASSUME Bad # {} PROVE FALSE
  OBVIOUS
<1>0. Bad \subseteq SUBSET S
  OBVIOUS
<1>1. PICK T \in Bad : \A U \in Bad : U \subseteq T => U = T
  <2> HIDE DEF Bad
  <2> QED
    BY <1>0, HasSmallest
<1> DEFINE x == CHOOSE y \in T : TRUE
<1>2. CASE T # {}
  <2>1. x \in T /\ IsFiniteSet(T)
    BY <1>2, FS_Subset
  <2>2. SumOf(f, T) = f[x] + SumOf(f, T \ {x}) /\ SumOf(g, T) = g[x] + SumOf(g, T \ {x})
    BY <1>2, <2>1, SumStep
  <2>3. SumOf(f, T \ {x}) = SumOf(g, T \ {x}) /\ f[x] = g[x]
    BY <2>1, <1>1
  <2>4. QED
    BY <2>2, <2>3
<1>3. QED
  BY <1>2, SumOfEmpty

\* One term that changes changes the sum by as much.
LEMMA SumChange ==
  ASSUME NEW f, NEW g, NEW S, IsFiniteSet(S), NEW k \in S,
         \A s \in S : f[s] \in Int, g[k] \in Int, \A s \in S \ {k} : g[s] = f[s]
  PROVE  SumOf(g, S) = SumOf(f, S) + (g[k] - f[k])
<1> DEFINE Bad == {T \in SUBSET S : k \in T /\ SumOf(g, T) # SumOf(f, T) + (g[k] - f[k])}
<1> SUFFICES ASSUME Bad # {} PROVE FALSE
  OBVIOUS
<1>0. Bad \subseteq SUBSET S
  OBVIOUS
<1>1. PICK T \in Bad : \A U \in Bad : U \subseteq T => U = T
  <2> HIDE DEF Bad
  <2> QED
    BY <1>0, HasSmallest
<1> DEFINE x == CHOOSE y \in T : TRUE
<1>2. x \in T /\ IsFiniteSet(T) /\ T # {} /\ IsFiniteSet(T \ {x})
  BY FS_Subset
<1>3. SumOf(f, T) = f[x] + SumOf(f, T \ {x}) /\ SumOf(g, T) = g[x] + SumOf(g, T \ {x})
  BY <1>2, SumStep
<1>4. SumOf(f, T \ {x}) \in Int /\ f[x] \in Int
  BY <1>2, SumType
<1>5. CASE x = k
  <2>1. SumOf(g, T \ {x}) = SumOf(f, T \ {x})
    BY <1>2, <1>5, SumSame
  <2> HIDE DEF x
  <2>2. QED
    BY <2>1, <1>3, <1>4, <1>5
<1>6. CASE x # k
  <2>1. SumOf(g, T \ {x}) = SumOf(f, T \ {x}) + (g[k] - f[k]) /\ g[x] = f[x]
    BY <1>1, <1>2, <1>6
  <2>2. QED
    BY <2>1, <1>3, <1>4
<1>7. QED
  BY <1>5, <1>6

-----------------------------------------------------------------------------
(* Who holds a row owes its counter what the row changes.                  *)

USE EngagementConstants

\* Where a transaction has passed the write of its row.
Counting == {"count", "countToo", "commit"}
FollowMethods == {"follow", "unfollow", "accept", "reject"}

\* The values a row takes: a like or bookmark is there or not, a follow is
\* pending or accepted.
ValuesOf(k) ==
  IF k \in Follows THEN {0, Pending, Accepted}
  ELSE IF k[1] \in ToggleKinds THEN {0, 1} ELSE Values

\* What a row of value v adds to its counter.
Worth(k, v) ==
  IF k \in Follows THEN (IF v = Accepted THEN 1 ELSE 0) ELSE v

\* A call is a method on a row of its kind.
Fits(a) ==
  /\ a \in [method : Methods, key : Sources, add : Nat]
  /\ a.method \in {"add", "delete"} => a.key \in Reactions /\ a.key[1] \in ToggleKinds
  /\ a.method \in {"clap", "removeClaps"} => a.key \in Reactions /\ a.key[1] = "clap"
  /\ a.method \in FollowMethods => a.key \in Follows
  /\ a.method = "add" => a.add = 1
  /\ a.method = "follow" => a.add \in {Pending, Accepted}

CallsFit == \A c \in Procs : pc[c] # "idle" => Fits(call[c])
RowsFit == \A r \in Sources : row[r] \in ValuesOf(r)
WritesFit == \A c \in Procs :
  pc[c] \in Counting => write[c].value \in ValuesOf(call[c].key)

\* accept and reject go on only from a pending request.
Answered == \A c \in Procs :
  pc[c] = "write" /\ call[c].method \in {"accept", "reject"} => seen[c].value = Pending

\* A transaction that has passed its write holds the row it wrote, unless it
\* is one of those that do not look whether there was a row: and then a
\* counter may have drifted.
Held == \A c \in Procs :
  pc[c] \in Counting /\ (call[c].method \in Unchecked => ~drifted) => Owns(c)

\* What it will add to the counter is what its write changes: for likes and
\* bookmarks always, for the others as long as nothing drifted.
Owed == \A c \in Procs :
  pc[c] \in Counting /\ (drifted => call[c].method \in {"add", "delete"})
    => LET k == call[c].key IN
       write[c].delta = Worth(k, write[c].value) - Worth(k, row[k])

\* Types and shapes; then the locks and what they are held for.
FormInv == TypeOK /\ CallsFit /\ RowsFit /\ WritesFit
HoldInv == FormInv /\ Answered /\ Held /\ Owed

-----------------------------------------------------------------------------
\* A key says of which kind its row is, and whose.
LEMMA Keys ==
  /\ \A k \in Follows : /\ k[1] = "follow" /\ k[2] \in Users /\ k[3] \in Users
                        /\ k \notin Reactions /\ k \in Sources
  /\ \A k \in Reactions : /\ k[1] \in ReactionKinds /\ k[1] # "follow"
                          /\ k \notin Follows /\ k \in Sources
BY DEF ReactionKinds, ToggleKinds, Sources

\* The values of any row are among Values, 0 among those of each.
LEMMA ValuesFit ==
  /\ Values \subseteq Int /\ 0 \in Values /\ 1 \in Values /\ 2 \in Values
  /\ \A k \in Sources : ValuesOf(k) \subseteq Values
  /\ \A k \in Sources : 0 \in ValuesOf(k)
  /\ \A k \in Sources, v \in Values : Worth(k, v) \in Int
<1>1. Values \subseteq Int /\ 0 \in Values /\ 1 \in Values /\ 2 \in Values
  BY DEF Values
<1>2. QED
  BY <1>1 DEF ValuesOf, Worth, Pending, Accepted

\* Nobody has called yet.
LEMMA InitHold == Init => HoldInv
<1> SUFFICES ASSUME Init PROVE HoldInv
  OBVIOUS
<1>1. TypeOK
  BY ValuesFit DEF Init, TypeOK, NoSight, NoWrite
<1>2. RowsFit
  BY ValuesFit DEF Init, RowsFit
<1>3. QED
  BY <1>1, <1>2 DEF Init, HoldInv, FormInv, CallsFit, WritesFit, Answered, Held, Owed, Counting

\* Stuttering.
LEMMA KeepHold ==
  ASSUME HoldInv, UNCHANGED vars
  PROVE  HoldInv'
<1>1. TypeOK' /\ CallsFit' /\ RowsFit'
  BY DEF HoldInv, FormInv, vars, TypeOK, CallsFit, RowsFit
<1>2. WritesFit' /\ Answered' /\ Held' /\ Owed'
  BY DEF HoldInv, FormInv, vars, WritesFit, Answered, Held, Owed, Owns
<1>3. QED
  BY <1>1, <1>2 DEF HoldInv, FormInv

\* A call that ends takes nothing from the others.
LEMMA EndHold ==
  ASSUME HoldInv, NEW c \in Procs, End(c),
         UNCHANGED <<row, stats, followers, following, drifted>>
  PROVE  HoldInv'
<1> USE DEF HoldInv, FormInv
<1>1. TypeOK'
  <2>1. lock' \in [Rows -> Procs \cup {None}]
    BY DEF TypeOK, End
  <2>2. QED
    BY <2>1, ValuesFit DEF TypeOK, End, Goto, NoSight, NoWrite
<1>2. /\ pc'[c] = "idle"
      /\ \A p \in Procs \ {c} : /\ pc'[p] = pc[p] /\ call'[p] = call[p]
                                /\ seen'[p] = seen[p] /\ write'[p] = write[p]
  BY DEF TypeOK, End, Goto
<1>3. CallsFit' /\ RowsFit' /\ WritesFit' /\ Answered'
  BY <1>2 DEF CallsFit, RowsFit, WritesFit, Answered, Counting
<1>4. Held'
  <2> SUFFICES ASSUME NEW p \in Procs, pc'[p] \in Counting,
                      call'[p].method \in Unchecked => ~drifted'
               PROVE  Owns(p)'
    BY DEF Held
  <2>1. p # c
    BY <1>2 DEF Counting
  <2>2. Owns(p) /\ call[p].key \in Rows
    BY <1>2, <2>1 DEF Held, CallsFit, Fits, Counting, Rows
  <2>3. QED
    BY <1>2, <2>1, <2>2 DEF End, Owns
<1>5. Owed'
  BY <1>2 DEF Owed, Counting
<1>6. QED
  BY <1>1, <1>3, <1>4, <1>5

\* A request is a method on a row of its kind.
LEMMA ReceiveHold ==
  ASSUME HoldInv, NEW c \in Procs, Receive(c)
  PROVE  HoldInv'
<1> USE DEF HoldInv, FormInv
<1>1. PICK m \in Methods, r \in Sources, n \in Nat :
        Request(c, m, r, n) /\ Fits([method |-> m, key |-> r, add |-> n])
  <2>1. CASE \E r \in {r \in Reactions : r[1] \in ToggleKinds} :
               Request(c, "add", r, 1) \/ Request(c, "delete", r, 0)
    BY <2>1, Keys DEF Fits, Methods, FollowMethods
  <2>2. CASE \E r \in {r \in Reactions : r[1] = "clap" /\ ~drifted} :
               Request(c, "removeClaps", r, 0) \/ \E n \in Adds : Request(c, "clap", r, n)
    BY <2>2, Keys DEF Fits, Methods, FollowMethods
  <2>3. CASE \E r \in {r \in Follows : ~drifted} :
               \/ \E m \in {"unfollow", "accept", "reject"} : Request(c, m, r, 0)
               \/ \E status \in {Pending, Accepted} : Request(c, "follow", r, status)
    BY <2>3, Keys DEF Fits, Methods, FollowMethods, Pending, Accepted
  <2>4. QED
    BY <2>1, <2>2, <2>3 DEF Receive
<1>2. /\ pc'[c] \in {"read", "write"} /\ call'[c] = [method |-> m, key |-> r, add |-> n]
      /\ pc'[c] = "write" => m = "delete"
      /\ \A p \in Procs \ {c} : pc'[p] = pc[p] /\ call'[p] = call[p]
      /\ UNCHANGED <<row, stats, followers, following, lock, seen, write, drifted>>
  BY <1>1 DEF Request, Goto, TypeOK
<1>3. TypeOK'
  BY <1>1 DEF Request, Goto, TypeOK
<1>4. CallsFit' /\ RowsFit' /\ WritesFit' /\ Answered'
  BY <1>1, <1>2 DEF CallsFit, RowsFit, WritesFit, Answered, Counting, Fits
<1>5. Held' /\ Owed'
  BY <1>2 DEF Held, Owed, Counting, Owns
<1>6. QED
  BY <1>3, <1>4, <1>5

\* accept and reject go on only from a pending request.
LEMMA ReadHold ==
  ASSUME HoldInv, NEW c \in Procs, Read(c)
  PROVE  HoldInv'
<1> USE DEF HoldInv, FormInv
<1> DEFINE r == call[c].key
<1>1. Fits(call[c]) /\ r \in Sources /\ row[r] \in Values
  BY DEF Read, CallsFit, Fits, TypeOK
<1>2. /\ pc[c] = "read" /\ pc'[c] = "write" /\ seen'[c] = [value |-> row[r], there |-> TRUE]
      /\ ~Refused(call[c].method, row[r])
      /\ \A p \in Procs \ {c} : pc'[p] = pc[p] /\ seen'[p] = seen[p]
      /\ UNCHANGED <<row, stats, followers, following, lock, call, write, drifted>>
  BY DEF Read, Goto, TypeOK
<1>3. TypeOK'
  BY <1>1 DEF Read, Goto, TypeOK
<1>4. CallsFit' /\ RowsFit' /\ WritesFit' /\ Answered'
  BY <1>1, <1>2 DEF CallsFit, RowsFit, WritesFit, Answered, Counting, Refused
<1>5. Held' /\ Owed'
  BY <1>2 DEF Held, Owed, Counting, Owns
<1>6. QED
  BY <1>3, <1>4, <1>5

\* What a statement writes fits the row, and its Delta is what it changes of
\* the row's worth, unless the row is no longer as it was read.
LEMMA WriteFits ==
  ASSUME HoldInv, NEW c \in Procs, pc[c] = "write", ~Misses(c)
  PROVE  LET a == call[c]  v == row[a.key]  w == Written(a.method, v, a.add) IN
         /\ w \in ValuesOf(a.key) /\ Delta(c, v) \in Int
         /\ a.method \in {"add", "delete"} \/ ~Outdated(c) =>
              Delta(c, v) = Worth(a.key, w) - Worth(a.key, v)
<1> USE DEF HoldInv, FormInv
<1> DEFINE a == call[c]  k == a.key  v == row[k]  w == Written(a.method, v, a.add)
<1> SUFFICES /\ w \in ValuesOf(k) /\ Delta(c, v) \in Int
             /\ a.method \in {"add", "delete"} \/ ~Outdated(c) =>
                  Delta(c, v) = Worth(k, w) - Worth(k, v)
  OBVIOUS
<1>1. Fits(a) /\ k \in Sources /\ a.add \in Nat /\ a.method \in Methods
  BY DEF CallsFit, Fits
<1>2. v \in ValuesOf(k) /\ v \in Values /\ seen[c].value \in Values
  BY <1>1 DEF RowsFit, TypeOK
<1>3. CASE a.method \in {"add", "delete"}
  <2>1. k \in Reactions /\ k[1] \in ToggleKinds /\ ValuesOf(k) = {0, 1}
    BY <1>1, <1>3, Keys DEF Fits, ValuesOf
  <2>2. k \notin Follows
    BY <2>1, Keys
  <2>3. CASE a.method = "add"
    BY <2>1, <2>2, <2>3, <1>1 DEF Misses, Written, Delta, Worth, Fits
  <2>4. CASE a.method = "delete"
    BY <2>1, <2>2, <2>4, <1>1, <1>2 DEF Misses, Written, Delta, Worth
  <2>5. QED
    BY <1>3, <2>3, <2>4
<1>4. CASE a.method \in {"clap", "removeClaps"}
  <2>1. ValuesOf(k) = Values /\ k \notin Follows
    BY <1>1, <1>4, Keys DEF Fits, ValuesOf, ToggleKinds
  <2>2. ~Outdated(c) => v = seen[c].value
    BY <1>4 DEF Outdated
  <2>3. CASE a.method = "clap"
    <3>1. w = Capped(v + a.add) /\ Capped(v + a.add) \in Values
      BY <2>3, <1>1, <1>2 DEF Written, Capped, Values
    <3>2. Capped(v + a.add) >= v
      BY <1>1, <1>2 DEF Capped, Values
    <3>3. Delta(c, v) = (IF w > seen[c].value THEN w - seen[c].value ELSE 0)
      BY <2>3 DEF Delta
    <3> HIDE DEF w
    <3>4. w \in Int /\ v \in Int /\ seen[c].value \in Int /\ w >= v
      BY <3>1, <3>2, <1>2, ValuesFit
    <3>5. Worth(k, w) = w /\ Worth(k, v) = v
      BY <2>1 DEF Worth
    <3>6. QED
      BY <3>1, <3>3, <3>4, <3>5, <2>1, <2>2, <2>3
  <2>4. CASE a.method = "removeClaps"
    <3>1. w = 0 /\ Delta(c, v) = -seen[c].value
      BY <2>4 DEF Written, Delta
    <3> HIDE DEF w
    <3>2. v \in Int /\ seen[c].value \in Int
      BY <1>2, ValuesFit
    <3>3. Worth(k, w) = w /\ Worth(k, v) = v
      BY <2>1 DEF Worth
    <3>4. w \in ValuesOf(k)
      BY <3>1, <2>1, ValuesFit
    <3>5. QED
      BY <3>1, <3>2, <3>3, <3>4, <2>2, <2>4
  <2>5. QED
    BY <1>4, <2>3, <2>4
<1>5. CASE a.method \in FollowMethods
  <2>1. k \in Follows /\ ValuesOf(k) = {0, Pending, Accepted}
    BY <1>1, <1>5 DEF Fits, ValuesOf
  <2>2. CASE a.method = "follow"
    BY <2>1, <2>2, <1>1 DEF Fits, Misses, Written, Delta, Worth, Pending, Accepted
  <2>3. CASE a.method = "unfollow"
    BY <2>1, <2>3, <1>2 DEF Misses, Written, Delta, Worth, Pending, Accepted, Outdated, Unchecked
  <2>4. CASE a.method \in {"accept", "reject"}
    <3>1. seen[c].value = Pending
      BY <2>4 DEF Answered
    <3>2. ~Outdated(c) => v = Pending
      BY <3>1, <2>4 DEF Outdated, Unchecked
    <3>3. QED
      BY <2>1, <2>4, <3>2 DEF Written, Delta, Worth, Pending, Accepted
  <2>5. QED
    BY <1>5, <2>2, <2>3, <2>4 DEF FollowMethods
<1>6. QED
  BY <1>1, <1>3, <1>4, <1>5 DEF Methods, FollowMethods

\* The row is free, so nobody else holds it: the writer does from now on.
LEMMA WriteHold ==
  ASSUME HoldInv, NEW c \in Procs, Write(c)
  PROVE  HoldInv'
<1> USE DEF HoldInv, FormInv
<1> DEFINE a == call[c]  k == a.key  v == row[k]  w == Written(a.method, v, a.add)
           d == Delta(c, v)
<1>1. Fits(a) /\ k \in Sources /\ k \in Rows
  BY DEF Write, CallsFit, Fits, Rows
<1>2. /\ w \in ValuesOf(k) /\ d \in Int
      /\ a.method \in {"add", "delete"} \/ ~Outdated(c) => d = Worth(k, w) - Worth(k, v)
  BY WriteFits DEF Write
<1> HIDE DEF d, w
<1>3. /\ pc[c] = "write" /\ lock[k] = None
      /\ pc'[c] \in {"commit", "count"}
      /\ lock' = [lock EXCEPT ![k] = c]
      /\ write'[c] = [value |-> w, delta |-> d]
      /\ drifted' = (drifted \/ Outdated(c))
      /\ \A p \in Procs \ {c} : pc'[p] = pc[p] /\ write'[p] = write[p]
      /\ UNCHANGED <<row, stats, followers, following, call, seen>>
  BY DEF Write, Goto, TypeOK, d, w
<1>4. TypeOK'
  <2>1. w \in Values
    BY <1>1, <1>2, ValuesFit
  <2>2. write' \in [Procs -> [value : Values, delta : Int]]
    BY <2>1, <1>2 DEF Write, TypeOK, d, w
  <2>3. pc' \in [Procs -> {"idle", "read", "write", "count", "countToo", "commit"}]
    BY DEF Write, Goto, TypeOK
  <2>4. drifted' \in BOOLEAN
    BY <1>3 DEF TypeOK, Outdated
  <2>5. QED
    BY <1>1, <1>3, <2>2, <2>3, <2>4 DEF TypeOK
<1>5. CallsFit' /\ RowsFit' /\ WritesFit' /\ Answered'
  BY <1>2, <1>3 DEF CallsFit, RowsFit, WritesFit, Answered, Counting
<1>6. Held'
  <2> SUFFICES ASSUME NEW p \in Procs, pc'[p] \in Counting,
                      call'[p].method \in Unchecked => ~drifted'
               PROVE  Owns(p)'
    BY DEF Held
  <2>1. CASE p = c
    BY <2>1, <1>1, <1>3 DEF Owns, TypeOK
  <2>2. CASE p # c
    <3>1. Owns(p)
      BY <2>2, <1>3 DEF Held
    <3>2. call[p].key # k
      BY <3>1, <1>3 DEF Owns
    <3>3. QED
      BY <3>1, <3>2, <1>3 DEF Owns, TypeOK
  <2>3. QED
    BY <2>1, <2>2
<1>7. Owed'
  <2> SUFFICES ASSUME NEW p \in Procs, pc'[p] \in Counting,
                      drifted' => call'[p].method \in {"add", "delete"}
               PROVE  write'[p].delta = Worth(call[p].key, write'[p].value)
                                          - Worth(call[p].key, row[call[p].key])
    BY <1>3 DEF Owed
  <2>1. CASE p = c
    <3>1. a.method \in {"add", "delete"} \/ ~Outdated(c)
      BY <2>1, <1>3
    <3>2. write'[c].delta = d /\ write'[c].value = w
      BY <1>3
    <3>3. QED
      BY <2>1, <3>1, <3>2, <1>2
  <2>2. CASE p # c
    BY <2>2, <1>3 DEF Owed
  <2>3. QED
    BY <2>1, <2>2
<1>8. QED
  BY <1>4, <1>5, <1>6, <1>7

\* Who writes without looking whether there was a row may make a counter drift.
LEMMA WriteMissesUnnoticedHold ==
  ASSUME HoldInv, NEW c \in Procs, WriteMissesUnnoticed(c)
  PROVE  HoldInv'
<1> USE DEF HoldInv, FormInv
<1>1. Fits(call[c]) /\ call[c].key \in Sources /\ call[c].method \in Unchecked
  BY DEF WriteMissesUnnoticed, CallsFit, Fits
<1>2. Delta(c, 0) \in Int
  BY <1>1 DEF Delta, Unchecked
<1>3. /\ pc[c] = "write" /\ pc'[c] \in {"commit", "count"}
      /\ write'[c] = [value |-> 0, delta |-> Delta(c, 0)]
      /\ drifted' = TRUE
      /\ \A p \in Procs \ {c} : pc'[p] = pc[p] /\ write'[p] = write[p]
      /\ UNCHANGED <<row, stats, followers, following, lock, call, seen>>
  BY DEF WriteMissesUnnoticed, Goto, TypeOK
<1>4. TypeOK'
  BY <1>2, ValuesFit DEF WriteMissesUnnoticed, Goto, TypeOK
<1>5. CallsFit' /\ RowsFit' /\ WritesFit' /\ Answered'
  BY <1>1, <1>3, ValuesFit DEF CallsFit, RowsFit, WritesFit, Answered, Counting
<1>6. Held' /\ Owed'
  BY <1>1, <1>3 DEF Held, Owed, Owns, Unchecked
<1>7. QED
  BY <1>4, <1>5, <1>6

\* A counter row that is free is no row that somebody holds.
LEMMA CountHold ==
  ASSUME HoldInv, NEW c \in Procs, Count(c)
  PROVE  HoldInv'
<1> USE DEF HoldInv, FormInv
<1>1. Counter(c) \in Rows
  <2>1. Fits(call[c]) /\ call[c].key \in Sources
    BY DEF Count, CallsFit, Fits
  <2>2. IsFollow(c) => call[c].key[2] \in Users /\ call[c].key[3] \in Users
    BY <2>1, Keys DEF IsFollow, Sources
  <2>3. QED
    BY <2>2 DEF Counter, Rows
<1>2. /\ pc[c] \in Counting /\ pc'[c] \in Counting /\ pc[c] # "write" /\ pc'[c] # "write"
      /\ pc[c] # "idle"
      /\ lock[Counter(c)] = None /\ lock' = [lock EXCEPT ![Counter(c)] = c]
      /\ \A p \in Procs \ {c} : pc'[p] = pc[p]
      /\ UNCHANGED <<row, stats, followers, following, call, seen, write, drifted>>
  BY DEF Count, Goto, TypeOK, Counting
<1>3. TypeOK'
  BY <1>1 DEF Count, Goto, TypeOK
<1>4. CallsFit' /\ RowsFit' /\ WritesFit' /\ Answered' /\ Owed'
  BY <1>2 DEF CallsFit, RowsFit, WritesFit, Answered, Owed
<1>5. Held'
  <2> SUFFICES ASSUME NEW p \in Procs, pc'[p] \in Counting,
                      call'[p].method \in Unchecked => ~drifted'
               PROVE  Owns(p)'
    BY DEF Held
  <2>1. Owns(p)
    BY <1>2 DEF Held
  <2>2. call[p].key # Counter(c)
    BY <2>1, <1>2 DEF Owns
  <2>3. QED
    BY <2>1, <2>2, <1>1, <1>2 DEF Owns, TypeOK
<1>6. QED
  BY <1>3, <1>4, <1>5

\* A commit changes the row it holds, which nobody else holds.
LEMMA CommitHold ==
  ASSUME HoldInv, NEW c \in Procs, Commit(c)
  PROVE  HoldInv'
<1> USE DEF HoldInv, FormInv
<1> DEFINE k == call[c].key  d == write[c].delta
<1>1. /\ Fits(call[c]) /\ k \in Sources
      /\ k \in Follows => IsFollow(c) /\ k[2] \in Users /\ k[3] \in Users
      /\ k \notin Follows => ~IsFollow(c) /\ k[1] \in ReactionKinds
  <2>1. Fits(call[c]) /\ k \in Sources
    BY DEF Commit, CallsFit, Fits
  <2>2. QED
    BY <2>1, Keys DEF IsFollow, Sources
<1>2. /\ pc[c] = "commit" /\ pc'[c] = "idle"
      /\ row' = (IF Owns(c) THEN [row EXCEPT ![k] = write[c].value] ELSE row)
      /\ drifted' = drifted
      /\ lock' = [x \in Rows |-> IF lock[x] = c THEN None ELSE lock[x]]
      /\ \A p \in Procs \ {c} : /\ pc'[p] = pc[p] /\ call'[p] = call[p]
                                /\ write'[p] = write[p]
                                /\ seen'[p].value = seen[p].value
  BY DEF Commit, Goto, TypeOK
<1>3. write[c].value \in ValuesOf(k) /\ write[c].value \in Values /\ d \in Int
  BY <1>1, <1>2, ValuesFit DEF WritesFit, Counting, TypeOK
<1>4. TypeOK'
  <2>1. row' \in [Sources -> Values]
    BY <1>2, <1>3 DEF TypeOK
  <2>2. /\ stats' \in [ReactionKinds -> Int]
        /\ followers' \in [Users -> Int] /\ following' \in [Users -> Int]
    <3>1. CASE k \in Follows
      BY <3>1, <1>1, <1>3 DEF Commit, TypeOK, Mirrored
    <3>2. CASE k \notin Follows
      BY <3>2, <1>1, <1>3 DEF Commit, TypeOK
    <3>3. QED
      BY <3>1, <3>2
  <2>3. lock' \in [Rows -> Procs \cup {None}]
    BY <1>2 DEF TypeOK
  <2>4. seen' \in [Procs -> [value : Values, there : BOOLEAN]]
    BY ValuesFit DEF Commit, TypeOK, NoSight
  <2>5. /\ pc' \in [Procs -> {"idle", "read", "write", "count", "countToo", "commit"}]
        /\ call' \in [Procs -> [method : Methods, key : Sources, add : Nat] \cup {NoCall}]
        /\ write' \in [Procs -> [value : Values, delta : Int]]
    BY ValuesFit DEF Commit, Goto, TypeOK, NoWrite
  <2>6. QED
    BY <2>1, <2>2, <2>3, <2>4, <2>5, <1>2 DEF TypeOK
<1>5. CallsFit' /\ WritesFit' /\ Answered'
  BY <1>2 DEF CallsFit, WritesFit, Answered, Counting
<1>6. RowsFit'
  BY <1>2, <1>3 DEF RowsFit, TypeOK
<1>7. Held'
  <2> SUFFICES ASSUME NEW p \in Procs, pc'[p] \in Counting,
                      call'[p].method \in Unchecked => ~drifted'
               PROVE  Owns(p)'
    BY DEF Held
  <2>1. p # c
    BY <1>2 DEF Counting
  <2>2. Owns(p) /\ call[p].key \in Rows
    BY <1>2, <2>1 DEF Held, CallsFit, Fits, Counting, Rows
  <2>3. QED
    BY <1>2, <2>1, <2>2 DEF Owns
<1>8. Owed'
  <2> SUFFICES ASSUME NEW p \in Procs, pc'[p] \in Counting,
                      drifted' => call'[p].method \in {"add", "delete"}
               PROVE  LET r == call[p].key IN
                      write[p].delta = Worth(r, write[p].value) - Worth(r, row'[r])
    <3>1. ASSUME NEW p \in Procs, pc'[p] \in Counting
          PROVE  call'[p] = call[p] /\ write'[p] = write[p]
      BY <3>1, <1>2 DEF Counting
    <3>2. QED
      BY <3>1 DEF Owed
  <2>1. p # c /\ pc[p] \in Counting /\ call'[p] = call[p]
    BY <1>2 DEF Counting
  <2>2. Owns(p)
    BY <2>1, <1>2 DEF Held, Unchecked
  <2>3. Owns(c) => call[p].key # k
    BY <2>1, <2>2 DEF Owns
  <2>4. row'[call[p].key] = row[call[p].key]
    BY <1>2, <2>3 DEF TypeOK
  <2>5. QED
    BY <2>1, <2>4, <1>2 DEF Owed
<1>9. QED
  BY <1>4, <1>5, <1>6, <1>7, <1>8

\* Every step keeps the invariant.
LEMMA NextHold ==
  ASSUME HoldInv, [Next]_vars
  PROVE  HoldInv'
<1>1. ASSUME NEW c \in Procs, Receive(c) \/ Step(c) \/ Fail(c)
      PROVE  HoldInv'
  <2>1. CASE Receive(c)
    BY <2>1, ReceiveHold
  <2>2. CASE Read(c)
    BY <2>2, ReadHold
  <2>3. CASE ReadRefused(c) \/ WriteMisses(c) \/ AbortDeadlock(c) \/ Fail(c)
    BY <2>3, EndHold DEF ReadRefused, WriteMisses, AbortDeadlock, Fail
  <2>4. CASE Write(c)
    BY <2>4, WriteHold
  <2>5. CASE WriteMissesUnnoticed(c)
    BY <2>5, WriteMissesUnnoticedHold
  <2>6. CASE Count(c)
    BY <2>6, CountHold
  <2>7. CASE Commit(c)
    BY <2>7, CommitHold
  <2>8. QED
    BY <1>1, <2>1, <2>2, <2>3, <2>4, <2>5, <2>6, <2>7 DEF Step
<1>2. QED
  BY <1>1, KeepHold DEF Next

\* The first invariant: who holds which row, and what is owed to the counters.
LEMMA HoldInvariant == Spec => []HoldInv
BY InitHold, NextHold, PTL DEF Spec

-----------------------------------------------------------------------------
(* The counters are what the rows make them.                               *)

\* How many rows of R have the value v, and whether one value is v.
Holding(f, R, v) == Cardinality({r \in R : f[r] = v})
Hit(x, v) == IF x = v THEN 1 ELSE 0

\* A row outside R leaves the number as it is.
LEMMA HoldingStays ==
  ASSUME NEW R, NEW f, NEW g, NEW v, \A r \in R : g[r] = f[r]
  PROVE  Holding(g, R, v) = Holding(f, R, v)
<1>1. {r \in R : g[r] = v} = {r \in R : f[r] = v}
  OBVIOUS
<1>2. QED
  BY <1>1 DEF Holding

\* A row of R that changes moves the number by that row alone.
LEMMA HoldingChange ==
  ASSUME NEW R, IsFiniteSet(R), NEW f, NEW g, NEW v, NEW k \in R,
         \A r \in R \ {k} : g[r] = f[r]
  PROVE  Holding(g, R, v) = Holding(f, R, v) + (Hit(g[k], v) - Hit(f[k], v))
<1> DEFINE O == {r \in R \ {k} : f[r] = v}
           F == {r \in R : f[r] = v}
           G == {r \in R : g[r] = v}
<1>1. IsFiniteSet(O) /\ Cardinality(O) \in Nat /\ k \notin O
  BY FS_Subset, FS_CardinalityType
<1>2. Cardinality(O \cup {k}) = Cardinality(O) + 1
  BY <1>1, FS_AddElement
<1>3. F = IF f[k] = v THEN O \cup {k} ELSE O
  OBVIOUS
<1>4. G = IF g[k] = v THEN O \cup {k} ELSE O
  OBVIOUS
<1>5. Holding(f, R, v) = Cardinality(F) /\ Holding(g, R, v) = Cardinality(G)
  BY DEF Holding
<1> HIDE DEF O, F, G
<1>6. Cardinality(F) = Cardinality(O) + Hit(f[k], v)
  BY <1>1, <1>2, <1>3 DEF Hit
<1>7. Cardinality(G) = Cardinality(O) + Hit(g[k], v)
  BY <1>1, <1>2, <1>4 DEF Hit
<1>8. Hit(f[k], v) \in Int /\ Hit(g[k], v) \in Int
  BY DEF Hit
<1>9. QED
  BY <1>1, <1>5, <1>6, <1>7, <1>8

\* The rows of a kind, and the follows, are finitely many.
LEMMA FiniteParts ==
  /\ \A k : IsFiniteSet(RowsOf(k)) /\ RowsOf(k) \subseteq Sources
  /\ IsFiniteSet(Follows)
<1> DEFINE pair == [f \in Follows |-> <<f[2], f[3]>>]
<1>1. pair \in Injection(Follows, Users \X Users)
  <2>1. pair \in [Follows -> Users \X Users]
    OBVIOUS
  <2>2. ASSUME NEW f \in Follows, NEW h \in Follows, pair[f] = pair[h]
        PROVE  f = h
    <3>1. f = <<"follow", f[2], f[3]>> /\ h = <<"follow", h[2], h[3]>>
      OBVIOUS
    <3>2. f[2] = h[2] /\ f[3] = h[3]
      BY <2>2
    <3>3. QED
      BY <3>1, <3>2
  <2> HIDE DEF pair
  <2>3. QED
    BY <2>1, <2>2 DEF Injection, IsInjective
<1>2. IsFiniteSet(Users \X Users)
  BY FS_Product
<1>3. IsFiniteSet(Follows)
  BY <1>1, <1>2, FS_Injection
<1>4. \A k : RowsOf(k) \subseteq Reactions
  BY DEF RowsOf
<1>5. ASSUME NEW k PROVE IsFiniteSet(RowsOf(k))
  BY <1>4, FS_Subset
<1>6. QED
  BY <1>3, <1>4, <1>5 DEF Sources

\* The counters, with the sums of the invariants as sums of a function.
ClapsExact == ~drifted => stats["clap"] = SumOf(row, RowsOf("clap"))
FollowsExact == ~drifted => \A u \in Users :
  followers[u] = Cardinality(FollowersOf(u)) /\ following[u] = Cardinality(FollowedBy(u))
Balanced == SumOf(followers, Users) = SumOf(following, Users)
CountInv == HoldInv /\ TogglesExact /\ ClapsExact /\ FollowsExact /\ Balanced

\* They are what the invariants of the model say.
LEMMA CountGives == CountInv => DriftConfined /\ DriftNeedsRace
<1> SUFFICES ASSUME CountInv PROVE DriftConfined /\ DriftNeedsRace
  OBVIOUS
<1>1. FollowsBalance
  <2>1. /\ MapThenSumSet(LAMBDA u : followers[u], Users) = SumOf(followers, Users)
        /\ MapThenSumSet(LAMBDA u : following[u], Users) = SumOf(following, Users)
    BY SumIsSumOf
  <2>2. QED
    BY <2>1 DEF CountInv, Balanced, FollowsBalance
<1>2. DriftNeedsRace
  <2>1. MapThenSumSet(LAMBDA r : row[r], RowsOf("clap")) = SumOf(row, RowsOf("clap"))
    BY SumIsSumOf
  <2>2. QED
    BY <2>1 DEF CountInv, ClapsExact, FollowsExact, DriftNeedsRace
<1>3. QED
  BY <1>1, <1>2 DEF CountInv, DriftConfined

\* No rows, and zeros.
LEMMA InitCount == Init => CountInv
<1> SUFFICES ASSUME Init PROVE CountInv
  OBVIOUS
<1>1. TogglesExact
  <2> SUFFICES ASSUME NEW k \in ToggleKinds
               PROVE  stats[k] = Cardinality({r \in RowsOf(k) : row[r] = 1})
    BY DEF TogglesExact
  <2>1. {r \in RowsOf(k) : row[r] = 1} = {} /\ stats[k] = 0
    BY FiniteParts DEF Init, ReactionKinds
  <2>2. QED
    BY <2>1, FS_EmptySet
<1>2. ClapsExact
  <2>1. SumOf(row, RowsOf("clap")) = 0
    BY FiniteParts, SumOfZeros DEF Init
  <2>2. QED
    BY <2>1 DEF Init, ClapsExact, ReactionKinds
<1>3. FollowsExact
  <2> SUFFICES ASSUME NEW u \in Users
               PROVE  /\ followers[u] = Cardinality(FollowersOf(u))
                      /\ following[u] = Cardinality(FollowedBy(u))
    BY DEF FollowsExact
  <2>1. FollowersOf(u) = {} /\ FollowedBy(u) = {}
    BY DEF Init, FollowersOf, FollowedBy, Accepted, Sources
  <2>2. QED
    BY <2>1, FS_EmptySet DEF Init
<1>4. Balanced
  <2>1. SumOf(followers, Users) = 0 /\ SumOf(following, Users) = 0
    BY SumOfZeros DEF Init
  <2>2. QED
    BY <2>1 DEF Balanced
<1>5. QED
  BY <1>1, <1>2, <1>3, <1>4, InitHold DEF CountInv

\* Only a commit changes a row or a counter.
LEMMA ApartKeepsCount ==
  ASSUME CountInv, HoldInv', UNCHANGED <<row, stats, followers, following>>, drifted => drifted'
  PROVE  CountInv'
<1>1. TogglesExact' /\ FollowsExact'
  BY DEF CountInv, TogglesExact, FollowsExact, FollowersOf, FollowedBy, RowsOf
<1>2. ClapsExact' /\ Balanced'
  BY DEF CountInv, ClapsExact, Balanced, RowsOf
<1>3. QED
  BY <1>1, <1>2 DEF CountInv

\* A commit that holds its row moves the counters by what the row changes; one
\* that does not is possible only for follows, after a drift, and moves both
\* sides alike.
LEMMA CommitCount ==
  ASSUME CountInv, NEW c \in Procs, Commit(c)
  PROVE  CountInv'
<1> USE DEF CountInv, HoldInv, FormInv
<1> DEFINE k == call[c].key  d == write[c].delta  w == write[c].value
           m == call[c].method
<1>1. /\ Fits(call[c]) /\ k \in Sources /\ m \in Methods
      /\ k \in Follows => IsFollow(c) /\ k[2] \in Users /\ k[3] \in Users /\ k \notin Reactions
      /\ k \notin Follows => ~IsFollow(c) /\ k[1] \in ReactionKinds /\ k \in Reactions
  <2>1. Fits(call[c]) /\ k \in Sources /\ m \in Methods
    BY DEF Commit, CallsFit, Fits
  <2>2. QED
    BY <2>1, Keys DEF IsFollow, Sources
<1>2. /\ pc[c] = "commit" /\ drifted' = drifted
      /\ row' = (IF Owns(c) THEN [row EXCEPT ![k] = w] ELSE row)
      /\ \A r \in Sources \ {k} : row'[r] = row[r]
      /\ row[k] \in ValuesOf(k) /\ w \in ValuesOf(k) /\ d \in Int
  <2>1. pc[c] = "commit" /\ drifted' = drifted
        /\ row' = (IF Owns(c) THEN [row EXCEPT ![k] = w] ELSE row)
    BY DEF Commit
  <2>2. QED
    BY <2>1, <1>1 DEF WritesFit, RowsFit, Counting, TypeOK
\* What the call counts is what it changes of its row.
<1>3. ASSUME drifted => m \in {"add", "delete"}
      PROVE  row'[k] = w /\ d = Worth(k, w) - Worth(k, row[k])
  <2>1. Owns(c)
    BY <1>2, <1>3 DEF Held, Counting, Unchecked
  <2>2. row'[k] = w
    BY <2>1, <1>1, <1>2 DEF TypeOK
  <2>3. d = Worth(k, w) - Worth(k, row[k])
    BY <1>2, <1>3 DEF Owed, Counting
  <2>4. QED
    BY <2>2, <2>3
<1>4. CASE k \in Follows
  <2>1. /\ followers' = [followers EXCEPT ![k[3]] = @ + d]
        /\ following' = [following EXCEPT ![k[2]] = @ + d]
        /\ stats' = stats
    BY <1>1, <1>4 DEF Commit, Mirrored
  <2>2. \A t : \A r \in RowsOf(t) : r \in Sources /\ row'[r] = row[r]
    BY <1>1, <1>2, <1>4, FiniteParts DEF RowsOf
  <2>3. TogglesExact'
    <3> SUFFICES ASSUME NEW t \in ToggleKinds
                 PROVE  stats'[t] = Cardinality({r \in RowsOf(t) : row'[r] = 1})
      BY DEF TogglesExact, RowsOf
    <3>1. {r \in RowsOf(t) : row'[r] = 1} = {r \in RowsOf(t) : row[r] = 1}
      BY <2>2
    <3>2. QED
      BY <3>1, <2>1 DEF TogglesExact
  <2>4. ClapsExact'
    <3>1. SumOf(row', RowsOf("clap")) = SumOf(row, RowsOf("clap"))
      BY <2>2, FiniteParts, SumSame
    <3>2. QED
      BY <3>1, <2>1, <1>2 DEF ClapsExact, RowsOf
  <2>5. FollowsExact'
    <3> SUFFICES ASSUME ~drifted, NEW u \in Users
                 PROVE  /\ followers'[u]
                             = Cardinality({f \in Follows : f[3] = u /\ row'[f] = Accepted})
                        /\ following'[u]
                             = Cardinality({f \in Follows : f[2] = u /\ row'[f] = Accepted})
      BY <1>2 DEF FollowsExact, FollowersOf, FollowedBy
    <3>1. /\ row'[k] = w
          /\ d = Hit(w, Accepted) - Hit(row[k], Accepted)
      BY <1>3, <1>4 DEF Worth, Hit
    <3>2. ASSUME NEW n \in {2, 3}
          PROVE  Cardinality({f \in Follows : f[n] = u /\ row'[f] = Accepted})
                   = Cardinality({f \in Follows : f[n] = u /\ row[f] = Accepted})
                       + (IF k[n] = u THEN d ELSE 0)
      <4> DEFINE R == {f \in Follows : f[n] = u}
      <4>1. IsFiniteSet(R) /\ (k \in R <=> k[n] = u)
        BY <1>4, FiniteParts, FS_Subset
      <4>2. \A r \in R \ {k} : row'[r] = row[r]
        BY <1>2 DEF Sources
      <4>3. /\ Cardinality({f \in Follows : f[n] = u /\ row[f] = Accepted})
                 = Holding(row, R, Accepted)
            /\ Cardinality({f \in Follows : f[n] = u /\ row'[f] = Accepted})
                 = Holding(row', R, Accepted)
        <5>1. /\ {f \in Follows : f[n] = u /\ row[f] = Accepted} = {r \in R : row[r] = Accepted}
              /\ {f \in Follows : f[n] = u /\ row'[f] = Accepted} = {r \in R : row'[r] = Accepted}
          OBVIOUS
        <5>2. QED
          BY <5>1 DEF Holding
      <4>4. Holding(row, R, Accepted) \in Nat
        <5>1. IsFiniteSet({r \in R : row[r] = Accepted})
          BY <4>1, FS_Subset
        <5>2. QED
          BY <5>1, FS_CardinalityType DEF Holding
      <4> HIDE DEF R
      <4>5. CASE k \in R
        <5>1. IsFiniteSet(R)
          BY <4>1
        <5>2. Holding(row', R, Accepted)
                = Holding(row, R, Accepted) + (Hit(row'[k], Accepted) - Hit(row[k], Accepted))
          BY ONLY <5>1, <4>2, <4>5, HoldingChange
        <5>3. QED
          BY ONLY <5>2, <4>1, <4>3, <4>5, <3>1
      <4>6. CASE k \notin R
        <5>1. Holding(row', R, Accepted) = Holding(row, R, Accepted)
          BY ONLY <4>2, <4>6, HoldingStays
        <5>2. QED
          BY ONLY <5>1, <4>1, <4>3, <4>4, <4>6
      <4>7. QED
        BY <4>5, <4>6
    <3>3. /\ followers[u] = Cardinality({f \in Follows : f[3] = u /\ row[f] = Accepted})
          /\ following[u] = Cardinality({f \in Follows : f[2] = u /\ row[f] = Accepted})
      BY DEF FollowsExact, FollowersOf, FollowedBy
    <3>4. /\ followers'[u] = followers[u] + (IF k[3] = u THEN d ELSE 0)
          /\ following'[u] = following[u] + (IF k[2] = u THEN d ELSE 0)
      BY <2>1, <1>2 DEF TypeOK
    <3>5. QED
      BY <3>2, <3>3, <3>4
  <2>6. Balanced'
    <3> DEFINE i == k[3]  j == k[2]
    <3>1. /\ i \in Users /\ j \in Users
          /\ \A u \in Users : followers[u] \in Int /\ following[u] \in Int
          /\ followers'[i] = followers[i] + d /\ following'[j] = following[j] + d
          /\ \A u \in Users \ {i} : followers'[u] = followers[u]
          /\ \A u \in Users \ {j} : following'[u] = following[u]
      BY <2>1, <1>1, <1>2, <1>4 DEF TypeOK
    <3> HIDE DEF i, j, d
    <3>2. followers'[i] \in Int /\ following'[j] \in Int /\ d \in Int
      BY <3>1, <1>2 DEF d
    <3>3. SumOf(followers', Users) = SumOf(followers, Users) + (followers'[i] - followers[i])
      BY ONLY <3>1, <3>2, SumChange, EngagementConstants
    <3>4. SumOf(following', Users) = SumOf(following, Users) + (following'[j] - following[j])
      BY ONLY <3>1, <3>2, SumChange, EngagementConstants
    <3>5. SumOf(followers, Users) = SumOf(following, Users) /\ SumOf(followers, Users) \in Int
      BY <3>1, SumType DEF Balanced
    <3>6. SumOf(followers', Users) = SumOf(following', Users)
      BY <3>1, <3>2, <3>3, <3>4, <3>5
    <3>7. QED
      BY <3>6 DEF Balanced
  <2>7. QED
    BY <2>3, <2>4, <2>5, <2>6, CommitHold
<1>5. CASE k \notin Follows
  <2>1. /\ followers' = followers /\ following' = following
        /\ stats' = [stats EXCEPT ![k[1]] = @ + d]
    BY <1>1, <1>5 DEF Commit
  <2>2. \A f \in Follows : row'[f] = row[f]
    BY <1>2, <1>5 DEF Sources
  <2>3. TogglesExact'
    <3> SUFFICES ASSUME NEW t \in ToggleKinds
                 PROVE  stats'[t] = Cardinality({r \in RowsOf(t) : row'[r] = 1})
      BY DEF TogglesExact, RowsOf
    <3> DEFINE R == RowsOf(t)
    <3>1. IsFiniteSet(R) /\ (k \in R <=> k[1] = t) /\ t \in ReactionKinds
      BY <1>1, <1>5, FiniteParts DEF RowsOf, ReactionKinds
    <3>2. \A r \in R \ {k} : row'[r] = row[r]
      BY <1>2, FiniteParts
    <3>3. stats[t] = Holding(row, R, 1)
      BY DEF TogglesExact, Holding
    <3>4. stats'[t] = stats[t] + (IF k[1] = t THEN d ELSE 0)
      BY <2>1, <3>1, <1>2 DEF TypeOK
    <3>5. ASSUME k[1] = t
          PROVE  d = Hit(row'[k], 1) - Hit(row[k], 1)
      <4>1. m \in {"add", "delete"}
        BY <1>1, <1>5, <3>5 DEF Fits, Methods, FollowMethods, ToggleKinds
      <4>2. ValuesOf(k) = {0, 1}
        BY <1>5, <3>5 DEF ValuesOf
      <4>3. QED
        BY <4>1, <4>2, <1>2, <1>3, <1>5 DEF Worth, Hit
    <3> HIDE DEF R
    <3>6. CASE k \in R
      <4>1. Holding(row', R, 1) = Holding(row, R, 1) + (Hit(row'[k], 1) - Hit(row[k], 1))
        BY ONLY <3>1, <3>2, <3>6, HoldingChange
      <4>2. QED
        BY <4>1, <3>1, <3>3, <3>4, <3>5, <3>6 DEF R, Holding
    <3>7. CASE k \notin R
      <4>1. Holding(row', R, 1) = Holding(row, R, 1)
        BY ONLY <3>2, <3>7, HoldingStays
      <4>2. stats[t] \in Int
        BY <3>1 DEF TypeOK
      <4>3. QED
        BY <4>1, <4>2, <3>1, <3>3, <3>4, <3>7 DEF R, Holding
    <3>8. QED
      BY <3>6, <3>7
  <2>4. ClapsExact'
    <3> SUFFICES ASSUME ~drifted
                 PROVE  stats'["clap"] = SumOf(row', RowsOf("clap"))
      BY <1>2 DEF ClapsExact, RowsOf
    <3> DEFINE R == RowsOf("clap")
    <3>1. /\ IsFiniteSet(R) /\ (k \in R <=> k[1] = "clap") /\ "clap" \in ReactionKinds
          /\ \A r \in R : r \in Sources /\ row[r] \in Int
      BY <1>1, <1>5, FiniteParts, ValuesFit DEF RowsOf, ReactionKinds, TypeOK
    <3>2. stats["clap"] = SumOf(row, R) /\ stats["clap"] \in Int
      BY <3>1 DEF ClapsExact, TypeOK
    <3>3. stats'["clap"] = stats["clap"] + (IF k[1] = "clap" THEN d ELSE 0)
      BY <2>1, <3>1, <1>2 DEF TypeOK
    <3>4. row'[k] = w /\ d = w - row[k] /\ w \in Int /\ row[k] \in Int
      BY <1>1, <1>2, <1>3, <1>5, ValuesFit DEF Worth
    <3> HIDE DEF R
    <3>5. CASE k \in R
      <4>0. row'[k] \in Int /\ \A r \in R \ {k} : row'[r] = row[r]
        BY <3>1, <3>4, <1>2
      <4>1. SumOf(row', R) = SumOf(row, R) + (row'[k] - row[k])
        BY ONLY <4>0, <3>1, <3>5, SumChange
      <4>2. QED
        BY <4>1, <3>1, <3>2, <3>3, <3>4, <3>5 DEF R
    <3>6. CASE k \notin R
      <4>0. \A r \in R : row'[r] = row[r]
        BY <3>1, <3>6, <1>2
      <4>1. SumOf(row', R) = SumOf(row, R)
        BY ONLY <4>0, <3>1, SumSame
      <4>2. QED
        BY <4>1, <3>1, <3>2, <3>3, <3>6 DEF R
    <3>7. QED
      BY <3>5, <3>6
  <2>5. FollowsExact'
    <3> SUFFICES ASSUME ~drifted, NEW u \in Users
                 PROVE  /\ followers'[u]
                             = Cardinality({f \in Follows : f[3] = u /\ row'[f] = Accepted})
                        /\ following'[u]
                             = Cardinality({f \in Follows : f[2] = u /\ row'[f] = Accepted})
      BY <1>2 DEF FollowsExact, FollowersOf, FollowedBy
    <3>1. /\ {f \in Follows : f[3] = u /\ row'[f] = Accepted} = FollowersOf(u)
          /\ {f \in Follows : f[2] = u /\ row'[f] = Accepted} = FollowedBy(u)
      BY <2>2 DEF FollowersOf, FollowedBy
    <3>2. QED
      BY <3>1, <2>1 DEF FollowsExact
  <2>6. Balanced'
    BY <2>1 DEF Balanced
  <2>7. QED
    BY <2>3, <2>4, <2>5, <2>6, CommitHold
<1>6. QED
  BY <1>4, <1>5

\* Every step keeps the counters exact.
LEMMA NextCount ==
  ASSUME CountInv, [Next]_vars
  PROVE  CountInv'
<1>1. HoldInv'
  BY NextHold DEF CountInv
<1>2. ASSUME NEW c \in Procs, Receive(c) \/ Step(c) \/ Fail(c)
      PROVE  CountInv'
  <2>1. CASE Commit(c)
    BY <2>1, CommitCount
  <2>2. CASE ~Commit(c)
    <3>1. UNCHANGED <<row, stats, followers, following>> /\ (drifted => drifted')
      <4>1. CASE Receive(c)
        BY <4>1 DEF Receive, Request
      <4>2. CASE Read(c) \/ ReadRefused(c) \/ WriteMisses(c) \/ AbortDeadlock(c) \/ Fail(c)
        BY <4>2 DEF Read, ReadRefused, WriteMisses, AbortDeadlock, Fail
      <4>3. CASE Write(c) \/ WriteMissesUnnoticed(c) \/ Count(c)
        <5>1. CASE Write(c)
          BY <5>1 DEF Write
        <5>2. CASE WriteMissesUnnoticed(c) \/ Count(c)
          BY <5>2 DEF WriteMissesUnnoticed, Count
        <5>3. QED
          BY <4>3, <5>1, <5>2
      <4>4. QED
        BY <1>2, <2>2, <4>1, <4>2, <4>3 DEF Step
    <3>2. QED
      BY <1>1, <3>1, ApartKeepsCount
  <2>3. QED
    BY <2>1, <2>2
<1>3. CASE UNCHANGED vars
  BY <1>1, <1>3, ApartKeepsCount DEF vars
<1>4. QED
  BY <1>2, <1>3 DEF Next

\* The second invariant: with the first, the counters follow the rows.
LEMMA CountInvariant == Spec => []CountInv
BY InitCount, NextCount, PTL DEF Spec

\* Rows, counters, locks and calls keep to their types: no likes row holds a
\* number of claps, no claps row exceeds the cap.
THEOREM CountersTypeCorrect == Spec => []TypeOK
<1>1. HoldInv => TypeOK
  BY DEF HoldInv, FormInv
<1>2. QED
  BY <1>1, HoldInvariant, PTL

\* A transaction past its write holds the row it wrote until it ends, and is
\* about to add to the counter what the row changes: always for likes and
\* bookmarks, for the others until a call acts on an outdated reading.
THEOREM HolderOwes == Spec => [](Held /\ Owed)
<1>1. HoldInv => Held /\ Owed
  BY DEF HoldInv
<1>2. QED
  BY <1>1, HoldInvariant, PTL

\* However calls interleave, fail and deadlock: the counters of likes and
\* bookmarks are their rows, and followers and following counts have the same
\* total, whatever claps and follows have drifted.
THEOREM DriftStaysConfined == Spec => []DriftConfined
BY CountInvariant, CountGives, PTL

\* Until a call acts on a row that is no longer what it read, the counters of
\* claps and follows are exact as well.
THEOREM DriftAlwaysNeedsRace == Spec => []DriftNeedsRace
BY CountInvariant, CountGives, PTL
=============================================================================

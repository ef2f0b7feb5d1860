--------------------------- MODULE TokenSessionsProofs ---------------------------
(***************************************************************************)
(* Proofs about TokenSessions, for any sets of families, tokens and        *)
(* processes, any number of password changes, any interleaving and any     *)
(* failing commands.                                                       *)
(***************************************************************************)
EXTENDS TokenSessions, FiniteSetTheorems, TLAPS

USE SessionConstants

Statuses == {"unused", "live", "used"}
Calls == [method : Methods \cup {"none"}, token : Tokens \cup ResetTokens \cup {None}]
Reads == [status : Statuses, families : SUBSET Families, family : Families \cup {None},
          password : Nat]

\* What a process has read was there to be read.
Busy == \A c \in Procs :
  /\ pc[c] \in {"readToken", "readFamily", "consume"} =>
       /\ call[c].token \in Tokens /\ token[call[c].token] # "unused"
       /\ of[call[c].token] = got[c].family
  /\ pc[c] \in {"readToken", "readFamily", "consume", "sadd", "expire", "mint"} =>
       got[c].family \in Families
  /\ got[c].family # None => opened[got[c].family] # -1
  /\ \A f \in got[c].families : opened[f] # -1
  /\ got[c].password <= password

\* Only families that were opened have a key, a place in the set or a token.
Known ==
  /\ \A t \in Tokens : of[t] = None <=> token[t] = "unused"
  /\ \A t \in Tokens : of[t] # None => opened[of[t]] # -1
  /\ \A f \in families \cup index : opened[f] # -1

\* A revocation deletes a family before it takes its place in the set away.
DeletedFirst == \A c \in Procs :
  /\ pc[c] = "srem" => got[c].family \notin families
  /\ pc[c] = "delIndex" => got[c].families \cap families = {}

\* Nobody has a token of f, and nobody is about to get one.
Blank(f) ==
  /\ \A t \in Tokens : of[t] # f
  /\ \A c \in Procs : pc[c] \in {"expire", "mint"} => got[c].family # f

Reachable == \A f \in families : Blank(f) \/ f \in index \cup orphaned

\* f has tokens, or the EXPIRE that comes before them was sent.
Extended(f) ==
  \/ \E t \in Tokens : of[t] = f
  \/ \E c \in Procs : pc[c] = "mint" /\ got[c].family = f

\* The TTL of the set covers the families it lists, but for their first steps.
Lasting ==
  \A f \in families \cap index :
    f \notin orphaned /\ Extended(f) => volatile /\ f \in covered

\* A password change that revokes all has listed every family it has to end.
Listing == \A c \in Procs :
  call[c].method \in {"change", "reset"} /\ pc[c] \in {"delFamilies", "delIndex"} =>
    /\ got[c].password <= listed
    /\ \A f \in families : opened[f] < got[c].password =>
         Blank(f) \/ f \in got[c].families \cup late \cup orphaned

Ended ==
  /\ closed <= listed
  /\ \A f \in families : opened[f] < closed => Blank(f) \/ f \in late \cup orphaned

IInv ==
  TypeOK /\ Busy /\ Known /\ DeletedFirst /\ Reachable /\ Lasting /\ Listing /\ Ended

\* The initial state satisfies the invariant.
LEMMA InitIInv == Init => IInv
<1> SUFFICES ASSUME Init PROVE IInv
  OBVIOUS
<1> USE DEF Init, NoCall, NoRead
<1>1. TypeOK
  BY DEF TypeOK, Steps
<1>2. Busy /\ Known /\ DeletedFirst /\ Reachable /\ Lasting /\ Listing /\ Ended
  BY DEF Busy, Known, DeletedFirst, Reachable, Lasting, Listing, Ended
<1>3. QED
  BY <1>1, <1>2 DEF IInv

\* What process c does leaves the other processes alone.
Alone(c) ==
  \A d \in Procs \ {c} : pc'[d] = pc[d] /\ call'[d] = call[d] /\ got'[d] = got[d]

\* The call of c ends.
LEMMA EndKeeps ==
  ASSUME TypeOK, NEW c \in Procs, End(c)
  PROVE  /\ pc' \in [Procs -> Steps] /\ call' \in [Procs -> Calls] /\ got' \in [Procs -> Reads]
         /\ pc'[c] = "idle" /\ got'[c] = NoRead /\ Alone(c)
BY DEF TypeOK, End, Goto, NoCall, NoRead, Calls, Reads, Statuses, Steps, Alone

\* c goes on with the values it has.
LEMMA GotoKeeps ==
  ASSUME TypeOK, NEW c \in Procs, NEW p \in Steps, Goto(c, p), UNCHANGED <<call, got>>
  PROVE  /\ pc' \in [Procs -> Steps] /\ call' \in [Procs -> Calls] /\ got' \in [Procs -> Reads]
         /\ pc'[c] = p /\ Alone(c)
BY DEF TypeOK, Goto, Calls, Reads, Statuses, Alone

\* c goes on after a read.
LEMMA ReadKeeps ==
  ASSUME TypeOK, NEW c \in Procs, NEW p \in Steps, Goto(c, p), UNCHANGED call,
         NEW r \in Reads, got' = [got EXCEPT ![c] = r]
  PROVE  /\ pc' \in [Procs -> Steps] /\ call' \in [Procs -> Calls] /\ got' \in [Procs -> Reads]
         /\ pc'[c] = p /\ got'[c] = r /\ Alone(c)
BY DEF TypeOK, Goto, Calls, Reads, Statuses, Alone

\* What c may know and do next, the rest being as it was.
MayDo(c) ==
  /\ pc[c] \in {"readToken", "readFamily", "consume"} =>
       /\ call[c].token \in Tokens /\ token[call[c].token] # "unused"
       /\ of[call[c].token] = got[c].family
  /\ pc[c] \in {"readToken", "readFamily", "consume", "sadd", "expire", "mint"} =>
       got[c].family \in Families
  /\ got[c].family # None => opened[got[c].family] # -1
  /\ \A f \in got[c].families : opened[f] # -1
  /\ got[c].password <= password
  /\ pc[c] = "srem" => got[c].family \notin families
  /\ pc[c] = "delIndex" => got[c].families \cap families = {}

\* A step that writes nothing a session depends on.
LEMMA ReadingKeeps ==
  ASSUME IInv, TypeOK', NEW c \in Procs, Alone(c), MayDo(c)',
         pc'[c] \notin {"expire", "mint", "delFamilies", "delIndex"},
         UNCHANGED <<redisKeys, password, history>>
  PROVE  IInv'
<1> USE DEF IInv, Alone, redisKeys, ttl, history
<1>1. Busy'
  BY DEF Busy, MayDo
<1>2. Known' /\ DeletedFirst'
  BY DEF Known, DeletedFirst, MayDo
<1>3. \A f : (Blank(f) => Blank(f)') /\ (Extended(f)' => Extended(f))
  BY DEF Blank, Extended
<1>4. Reachable' /\ Lasting' /\ Ended'
  BY <1>3 DEF Reachable, Lasting, Ended
<1>5. Listing'
  BY <1>3 DEF Listing
<1>6. QED
  BY <1>1, <1>2, <1>4, <1>5

\* A call ends without having written anything of its own.
LEMMA EndingKeeps ==
  ASSUME IInv, NEW c \in Procs, End(c), resets' \subseteq ResetTokens,
         UNCHANGED <<redisKeys, password, requests, history>>
  PROVE  IInv'
<1>1. TypeOK'
  BY EndKeeps DEF IInv, TypeOK, redisKeys, ttl, history, Calls, Reads, Statuses
<1>2. MayDo(c)'
  BY EndKeeps DEF MayDo, NoRead, IInv, TypeOK
<1>3. QED
  BY <1>1, <1>2, EndKeeps, ReadingKeeps DEF IInv

\* A request that arrives keeps the invariant.
LEMMA ReceiveKeeps ==
  ASSUME IInv, NEW c \in Procs, Receive(c)
  PROVE  IInv'
<1>1. PICK m \in Methods, t \in Tokens \cup ResetTokens \cup {None} :
        /\ Request(c, m, t)
        /\ m \in {"rotate", "logout"} => t \in Tokens /\ token[t] # "unused"
  BY DEF Receive, Methods
<1> DEFINE r == [got[c] EXCEPT !.family = IF m \in {"rotate", "logout"} THEN of[t] ELSE None]
<1>2. r \in Reads /\ First[m] \in Steps
  <2>1. got[c] \in Reads
    BY DEF Reads, Statuses, IInv, TypeOK
  <2>2. m \in {"rotate", "logout"} => of[t] \in Families \cup {None}
    BY <1>1 DEF IInv, TypeOK
  <2>3. r \in Reads
    BY <2>1, <2>2 DEF Reads
  <2>4. QED
    BY <2>3 DEF First, Steps, Methods
<1>3. /\ pc' \in [Procs -> Steps] /\ call' \in [Procs -> Calls] /\ got' \in [Procs -> Reads]
      /\ pc'[c] = First[m] /\ got'[c] = r /\ call'[c].token = t /\ call'[c].method = m /\ Alone(c)
  BY <1>1, <1>2 DEF Request, IInv, TypeOK, Goto, Calls, Reads, Statuses, Alone
<1>4. TypeOK'
  BY <1>1, <1>3 DEF Request, IInv, TypeOK, Calls, Reads, Statuses, redisKeys, ttl, history
<1>5. MayDo(c)'
  BY <1>1, <1>3 DEF Request, MayDo, First, Methods, redisKeys, history, IInv, TypeOK, Busy, Known
<1>6. QED
  BY <1>1, <1>3, <1>4, <1>5, ReadingKeeps DEF Request, First, Methods, redisKeys, history

\* The reads, and the reset tokens.
LEMMA AskingKeeps ==
  ASSUME IInv, UNCHANGED requests, NEW c \in Procs,
         \/ Verify(c) \/ ReadToken(c) \/ ReadFamily(c) \/ ReadFamilyRevoked(c)
         \/ ClearResets(c) \/ InsertReset(c) \/ FindReset(c)
         \/ FindResetInvalid(c) \/ Fail(c)
  PROVE  IInv'
<1> USE DEF redisKeys, ttl, history
<1>1. CASE ReadFamilyRevoked(c) \/ InsertReset(c) \/ FindResetInvalid(c) \/ Fail(c)
  BY <1>1, EndingKeeps DEF ReadFamilyRevoked, InsertReset, FindResetInvalid, Fail, IInv, TypeOK
<1>2. CASE ReadFamily(c) \/ ClearResets(c) \/ FindReset(c)
  <2>1. PICK p \in {"del", "consume", "insert", "apply"} :
          /\ Goto(c, p) /\ UNCHANGED <<call, got>>
          /\ p = "consume" => pc[c] = "readFamily"
    BY <1>2 DEF ReadFamily, ClearResets, FindReset
  <2>2. /\ pc' \in [Procs -> Steps] /\ call' \in [Procs -> Calls] /\ got' \in [Procs -> Reads]
        /\ pc'[c] = p /\ Alone(c)
    BY <2>1, GotoKeeps DEF IInv, Steps
  <2>3. UNCHANGED <<redisKeys, password, history>> /\ resets' \subseteq ResetTokens
    BY <1>2 DEF ReadFamily, ClearResets, FindReset, Cleared, IInv, TypeOK
  <2>4. TypeOK'
    BY <2>2, <2>3 DEF IInv, TypeOK, Calls, Reads, Statuses
  <2>5. MayDo(c)'
    BY <2>1, <2>2, <2>3 DEF MayDo, IInv, Busy
  <2>6. QED
    BY <2>1, <2>2, <2>3, <2>4, <2>5, ReadingKeeps
<1>3. CASE Verify(c) \/ ReadToken(c)
  <2> DEFINE r == IF pc[c] = "verify" THEN [got[c] EXCEPT !.password = password]
                  ELSE [got[c] EXCEPT !.status = token[call[c].token]]
  <2>1. PICK p \in {"open", "update", "readFamily"} :
          /\ Goto(c, p) /\ UNCHANGED call /\ got' = [got EXCEPT ![c] = r]
          /\ p = "readFamily" => pc[c] = "readToken"
    BY <1>3 DEF Verify, ReadToken
  <2>2. r \in Reads
    BY <1>3 DEF IInv, TypeOK, Reads, Statuses, Busy, Verify, ReadToken
  <2>3. /\ pc' \in [Procs -> Steps] /\ call' \in [Procs -> Calls] /\ got' \in [Procs -> Reads]
        /\ pc'[c] = p /\ got'[c] = r /\ Alone(c)
    <3> HIDE DEF r
    <3>1. got \in [Procs -> Reads]
      BY DEF IInv, TypeOK, Reads, Statuses
    <3>2. QED
      BY <2>1, <2>2, <3>1 DEF IInv, TypeOK, Goto, Steps, Calls, Alone
  <2>4. UNCHANGED <<redisKeys, password, history, resets>>
    BY <1>3 DEF Verify, ReadToken
  <2>5. TypeOK'
    BY <2>3, <2>4 DEF IInv, TypeOK, Calls, Reads, Statuses
  <2>6. /\ r.family = got[c].family
        /\ r.families = got[c].families /\ r.password \in {got[c].password, password}
    BY DEF IInv, TypeOK
  <2>7. MayDo(c)'
    <3> HIDE DEF r
    <3>1. QED
      BY <2>1, <2>3, <2>4, <2>6 DEF MayDo, IInv, Busy, Known, TypeOK
  <2>8. QED
    BY <2>1, <2>3, <2>4, <2>5, <2>7, ReadingKeeps
<1>4. QED
  BY <1>1, <1>2, <1>3

\* A password change reads the set: every session is in it, or has lost its
\* place.
LEMMA ListingKeeps ==
  ASSUME IInv, UNCHANGED requests, NEW c \in Procs, Smembers(c)
  PROVE  IInv'
<1> USE DEF IInv, Smembers, redisKeys, ttl
<1>1. /\ pc'[c] = "delFamilies" /\ pc' \in [Procs -> Steps] /\ call' \in [Procs -> Calls]
      /\ got' \in [Procs -> Reads] /\ Alone(c)
      /\ got'[c].families = index /\ got'[c].family = got[c].family
      /\ got'[c].password = got[c].password
  <2>1. got \in [Procs -> Reads] /\ index \in SUBSET Families
    BY DEF TypeOK, Reads, Statuses
  <2>2. [got[c] EXCEPT !.families = index] \in Reads
    BY <2>1 DEF Reads
  <2>3. /\ got' \in [Procs -> Reads] /\ got'[c] = [got[c] EXCEPT !.families = index]
        /\ \A d \in Procs \ {c} : got'[d] = got[d]
    BY <2>1, <2>2
  <2>4. QED
    BY <2>1, <2>3 DEF TypeOK, Goto, Steps, Calls, Reads, Alone
<1>2. listed' \in Nat /\ listed' >= listed
      /\ (call[c].method \in {"change", "reset"} => got[c].password <= listed')
  BY DEF TypeOK
<1>3. TypeOK'
  BY <1>1, <1>2 DEF TypeOK, Calls, Reads, Statuses
<1>4. Busy' /\ Known' /\ DeletedFirst'
  BY <1>1 DEF Busy, Known, DeletedFirst, Alone
<1>5. \A f : (Blank(f) => Blank(f)') /\ (Extended(f)' => Extended(f))
  BY <1>1 DEF Blank, Extended, Alone
<1>6. Reachable' /\ Lasting'
  BY <1>5 DEF Reachable, Lasting
<1>7. Listing'
  <2> SUFFICES ASSUME NEW d \in Procs, call'[d].method \in {"change", "reset"},
                      pc'[d] \in {"delFamilies", "delIndex"}
               PROVE  /\ got'[d].password <= listed'
                      /\ \A f \in families' : opened'[f] < got'[d].password =>
                           Blank(f)' \/ f \in got'[d].families \cup late' \cup orphaned'
    BY DEF Listing
  <2>1. CASE d = c
    BY <1>1, <1>2, <1>5, <2>1 DEF Reachable
  <2>2. CASE d # c
    <3>1. pc'[d] = pc[d] /\ call'[d] = call[d] /\ got'[d] = got[d]
      BY <1>1, <2>2 DEF Alone
    <3>2. got[d].password <= listed'
      BY <1>2, <3>1 DEF Listing, TypeOK
    <3>3. QED
      BY <1>5, <3>1, <3>2 DEF Listing
  <2>3. QED
    BY <2>1, <2>2
<1>8. Ended'
  BY <1>2, <1>5 DEF Ended, TypeOK
<1>9. QED
  BY <1>3, <1>4, <1>6, <1>7, <1>8

\* issuePair: a family is opened blank, enters the set, whose TTL is renewed,
\* then gets its tokens.
LEMMA IssuingKeeps ==
  ASSUME IInv, UNCHANGED requests, NEW c \in Procs,
         OpenFamily(c) \/ IndexFamily(c) \/ ExtendIndex(c) \/ Mint(c)
  PROVE  IInv'
<1> USE DEF IInv, ttl
<1>1. CASE OpenFamily(c)
  <2>1. PICK f \in Families :
          /\ opened[f] = -1
          /\ families' = families \cup {f}
          /\ opened' = [opened EXCEPT ![f] = got[c].password]
          /\ got' = [got EXCEPT ![c].family = f]
    BY <1>1 DEF OpenFamily
  <2>2. /\ pc' \in [Procs -> Steps] /\ got' \in [Procs -> Reads]
        /\ pc'[c] = "sadd" /\ got'[c].family = f /\ got'[c].families = got[c].families
        /\ got'[c].password = got[c].password /\ Alone(c)
    <3>1. got \in [Procs -> Reads]
      BY DEF TypeOK, Reads, Statuses
    <3>2. [got[c] EXCEPT !.family = f] \in Reads
      BY <3>1 DEF Reads
    <3>3. /\ got' \in [Procs -> Reads] /\ got'[c] = [got[c] EXCEPT !.family = f]
          /\ \A d \in Procs \ {c} : got'[d] = got[d]
      BY <2>1, <3>1, <3>2
    <3>4. QED
      BY <1>1, <3>1, <3>3 DEF OpenFamily, TypeOK, Goto, Reads, Steps, Alone
  <2>3. /\ got[c].password \in Nat /\ opened' \in [Families -> Nat \cup {-1}]
        /\ opened'[f] # -1 /\ \A g \in Families \ {f} : opened'[g] = opened[g]
    BY <2>1 DEF TypeOK
  <2>4. f \notin index /\ \A d \in Procs : got[d].family # f /\ f \notin got[d].families
    BY <2>1 DEF Busy, Known, TypeOK
  <2>5. TypeOK'
    BY <1>1, <2>1, <2>2, <2>3 DEF OpenFamily, TypeOK, Reads, Statuses
  <2>6. Busy'
    BY <1>1, <2>1, <2>2, <2>3 DEF OpenFamily, Busy, Alone, TypeOK
  <2>7. Known'
    BY <1>1, <2>1, <2>3 DEF OpenFamily, Known, TypeOK
  <2>8. DeletedFirst'
    BY <1>1, <2>1, <2>2, <2>4 DEF OpenFamily, DeletedFirst, Alone
  <2>9. Blank(f)' /\ \A g : (Blank(g) => Blank(g)') /\ (Extended(g)' => Extended(g))
    BY <1>1, <2>1, <2>2, <2>4 DEF OpenFamily, Blank, Extended, Alone, Known
  <2>10. Reachable' /\ Ended'
    BY <1>1, <2>1, <2>3, <2>9 DEF OpenFamily, Reachable, Ended, TypeOK
  <2>11. Lasting'
    BY <1>1, <2>1, <2>4, <2>9 DEF OpenFamily, Lasting
  <2>12. Listing'
    <3> SUFFICES ASSUME NEW d \in Procs, call'[d].method \in {"change", "reset"},
                        pc'[d] \in {"delFamilies", "delIndex"}
                 PROVE  /\ got'[d].password <= listed'
                        /\ \A g \in families' : opened'[g] < got'[d].password =>
                             Blank(g)' \/ g \in got'[d].families \cup late' \cup orphaned'
      BY DEF Listing
    <3>1. d # c /\ pc'[d] = pc[d] /\ call'[d] = call[d] /\ got'[d] = got[d]
      BY <1>1, <2>2 DEF OpenFamily, Alone
    <3>2. families \subseteq Families /\ UNCHANGED <<late, orphaned, listed>>
      BY <1>1 DEF OpenFamily, TypeOK
    <3>3. QED
      BY <2>1, <2>3, <2>9, <3>1, <3>2 DEF Listing
  <2>13. QED
    BY <2>5, <2>6, <2>7, <2>8, <2>10, <2>11, <2>12
<1>2. CASE IndexFamily(c)
  <2> DEFINE f == got[c].family
  <2>1. /\ pc' \in [Procs -> Steps] /\ pc'[c] = "expire" /\ Alone(c) /\ got' = got
    BY <1>2 DEF IndexFamily, TypeOK, Goto, Steps, Alone
  <2>2. f \in Families /\ opened[f] # -1
    BY <1>2 DEF IndexFamily, Busy
  <2> HIDE DEF f
  <2>3. index' = index \cup {f} /\ late \subseteq late' /\ late' \subseteq Families
        /\ (opened[f] < listed => f \in late')
    BY <1>2, <2>2 DEF IndexFamily, TypeOK, f
  <2>4. TypeOK'
    BY <1>2, <2>1, <2>2, <2>3 DEF IndexFamily, TypeOK
  <2>5. Busy' /\ Known' /\ DeletedFirst'
    BY <1>2, <2>1, <2>2, <2>3 DEF IndexFamily, Busy, Known, DeletedFirst, Alone, f
  <2>6. /\ \A g \in families : g # f => (Blank(g) => Blank(g)')
        /\ \A g : Extended(g)' => Extended(g)
    BY <1>2, <2>1 DEF IndexFamily, Blank, Extended, Alone, f
  <2>7. Reachable'
    BY <1>2, <2>3, <2>6 DEF IndexFamily, Reachable
  <2>8. Extended(f) => ~Blank(f)
    BY DEF Extended, Blank
  <2>9. Lasting'
    BY <1>2, <2>3, <2>6, <2>8 DEF IndexFamily, Lasting, Reachable
  <2>10. Listing'
    <3> SUFFICES ASSUME NEW d \in Procs, call'[d].method \in {"change", "reset"},
                        pc'[d] \in {"delFamilies", "delIndex"}
                 PROVE  /\ got'[d].password <= listed'
                        /\ \A g \in families' : opened'[g] < got'[d].password =>
                             Blank(g)' \/ g \in got'[d].families \cup late' \cup orphaned'
      BY DEF Listing
    <3>1. pc'[d] = pc[d] /\ UNCHANGED <<call, got, families, opened, listed, orphaned>>
      BY <1>2, <2>1 DEF IndexFamily, Alone
    <3>2. /\ got[d].password <= listed
          /\ \A g \in families : opened[g] < got[d].password =>
               Blank(g) \/ g \in got[d].families \cup late \cup orphaned
      BY <3>1 DEF Listing
    <3>3. opened[f] < got[d].password => f \in late'
      BY <2>2, <2>3, <3>2 DEF TypeOK
    <3>4. QED
      BY <2>3, <2>6, <3>1, <3>2, <3>3
  <2>11. Ended'
    <3>1. opened[f] < closed => f \in late'
      BY <2>2, <2>3 DEF Ended, TypeOK
    <3>2. QED
      BY <1>2, <2>3, <2>6, <3>1 DEF IndexFamily, Ended
  <2>12. QED
    BY <2>4, <2>5, <2>7, <2>9, <2>10, <2>11
<1>3. CASE ExtendIndex(c)
  <2> USE <1>3 DEF ExtendIndex, history
  <2>1. /\ pc' \in [Procs -> Steps] /\ pc'[c] = "mint" /\ Alone(c)
    BY DEF TypeOK, Goto, Steps, Alone
  <2>2. got[c].family \in Families
    BY DEF Busy
  <2>3. TypeOK'
    BY <2>1 DEF TypeOK
  <2>4. Busy' /\ Known' /\ DeletedFirst'
    BY <2>1, <2>2 DEF Busy, Known, DeletedFirst, Alone
  <2>5. \A f : Blank(f) => Blank(f)'
    BY <2>1 DEF Blank, Alone
  <2>6. Reachable' /\ Ended'
    BY <2>5 DEF Reachable, Ended
  <2>7. Lasting'
    BY DEF Lasting
  <2>8. Listing'
    BY <2>1, <2>5 DEF Listing, Alone
  <2>9. QED
    BY <2>3, <2>4, <2>6, <2>7, <2>8
<1>4. CASE Mint(c)
  <2>1. PICK t \in Tokens : /\ token[t] = "unused"
                            /\ token' = [token EXCEPT ![t] = "live"]
                            /\ of' = [of EXCEPT ![t] = got[c].family]
    BY <1>4 DEF Mint
  <2>2. End(c) /\ got[c].family \in Families /\ opened[got[c].family] # -1
    BY <1>4 DEF Mint, Busy
  <2>3. TypeOK'
    BY <1>4, <2>1, <2>2, EndKeeps DEF Mint, TypeOK, Calls, Reads, Statuses, history
  <2>4. Busy'
    <3>1. /\ UNCHANGED <<opened, password>> /\ pc'[c] = "idle" /\ got'[c] = NoRead /\ Alone(c)
      BY <1>4, <2>2, EndKeeps DEF Mint, history
    <3>2. \A u \in Tokens : token[u] # "unused" => token'[u] = token[u] /\ of'[u] = of[u]
      BY <2>1 DEF TypeOK
    <3>3. \A u \in Tokens : token[u] # "unused" => token'[u] # "unused" /\ of'[u] = of[u]
      BY <3>2
    <3>4. QED
      BY <3>1, <3>3 DEF Busy, NoRead, Alone, TypeOK
  <2>5. Known' /\ DeletedFirst'
    <3>1. /\ token'[t] = "live" /\ of'[t] = got[c].family /\ None \notin Families
          /\ \A u \in Tokens \ {t} : token'[u] = token[u] /\ of'[u] = of[u]
      BY <2>1 DEF TypeOK
    <3>2. UNCHANGED <<families, index, opened>>
      BY <1>4 DEF Mint, history
    <3>3. Known'
      BY <2>2, <3>1, <3>2 DEF Known
    <3>4. pc'[c] = "idle" /\ Alone(c)
      BY <2>2, EndKeeps
    <3>5. DeletedFirst'
      BY <3>2, <3>4 DEF DeletedFirst, Alone
    <3>6. QED
      BY <3>3, <3>5
  <2>6. /\ ~Blank(got[c].family) /\ Extended(got[c].family)
        /\ \A f \in families : f # got[c].family =>
             (Blank(f) => Blank(f)') /\ (Extended(f)' => Extended(f))
    BY <1>4, <2>1, <2>2, EndKeeps DEF Mint, TypeOK, Blank, Extended, Alone
  <2>7. Reachable' /\ Ended' /\ Lasting'
    BY <1>4, <2>6 DEF Mint, Reachable, Ended, Lasting, history
  <2>8. Listing'
    BY <1>4, <2>2, <2>6, EndKeeps DEF Mint, Listing, Alone, history
  <2>9. QED
    BY <2>3, <2>4, <2>5, <2>7, <2>8
<1>5. QED
  BY <1>1, <1>2, <1>3, <1>4

\* rotate marks the token it has read and goes on to its successor.
LEMMA ConsumingKeeps ==
  ASSUME IInv, UNCHANGED requests, NEW c \in Procs, Consume(c)
  PROVE  IInv'
<1> USE DEF IInv, Consume, Consumed, ttl
<1>1. /\ pc' \in [Procs -> Steps] /\ pc'[c] = "mint" /\ Alone(c)
  BY DEF TypeOK, Goto, Steps, Alone
<1>2. call[c].token \in Tokens /\ token[call[c].token] # "unused"
      /\ of[call[c].token] = got[c].family /\ got[c].family \in Families
  BY DEF Busy
<1>3. TypeOK'
  BY <1>1, <1>2 DEF TypeOK
<1>4. Busy' /\ Known' /\ DeletedFirst'
  BY <1>1, <1>2 DEF TypeOK, Busy, Known, DeletedFirst, Alone
<1>5. /\ ~Blank(got[c].family) /\ Extended(got[c].family)
      /\ \A f \in families : f # got[c].family =>
           (Blank(f) => Blank(f)') /\ (Extended(f)' => Extended(f))
  BY <1>1, <1>2 DEF Blank, Extended, Alone
<1>6. Reachable' /\ Ended' /\ Lasting'
  BY <1>5 DEF Reachable, Ended, Lasting
<1>7. Listing'
  BY <1>1, <1>5 DEF Listing, Alone
<1>8. QED
  BY <1>3, <1>4, <1>6, <1>7

\* Revocations, of one family or of all.
LEMMA RevokingKeeps ==
  ASSUME IInv, UNCHANGED requests, NEW c \in Procs,
         DelFamily(c) \/ Srem(c) \/ DelFamilies(c) \/ DelIndex(c)
  PROVE  IInv'
<1> USE DEF IInv, history, ttl, IndexBecomes
<1>1. CASE DelFamily(c) \/ DelFamilies(c)
  <2> USE <1>1 DEF DelFamily, DelFamilies, Revoked
  <2>1. PICK p \in {"srem", "delIndex"} :
          /\ Goto(c, p) /\ UNCHANGED <<call, got>>
          /\ p = "srem" => families' = families \ {got[c].family}
          /\ p = "delIndex" => pc[c] = "delFamilies" /\ families' = families \ got[c].families
    OBVIOUS
  <2>2. pc' \in [Procs -> Steps] /\ pc'[c] = p /\ Alone(c)
    BY <2>1 DEF TypeOK, Goto, Steps, Alone
  <2>3. TypeOK' /\ Busy' /\ Known' /\ DeletedFirst'
    BY <2>1, <2>2 DEF TypeOK, Busy, Known, DeletedFirst, Alone
  <2>4. \A f : (Blank(f) => Blank(f)') /\ (Extended(f)' => Extended(f))
    BY <2>2 DEF Blank, Extended, Alone
  <2>5. Reachable' /\ Lasting' /\ Ended'
    BY <2>4 DEF Reachable, Lasting, Ended
  <2>6. Listing'
    BY <2>1, <2>2, <2>4 DEF Listing, Alone
  <2>7. QED
    BY <2>3, <2>5, <2>6
<1>2. CASE Srem(c)
  <2> USE <1>2 DEF Srem
  <2>1. TypeOK'
    BY EndKeeps DEF TypeOK, Calls, Reads, Statuses
  <2>2. Busy'
    <3>1. /\ UNCHANGED <<token, of, opened, password>>
          /\ pc'[c] = "idle" /\ got'[c] = NoRead /\ Alone(c)
      BY EndKeeps
    <3>2. QED
      BY <3>1 DEF TypeOK, NoRead, Busy, Alone
  <2>3. Known' /\ DeletedFirst'
    BY EndKeeps DEF TypeOK, Known, DeletedFirst, Alone
  <2>4. \A f : (Blank(f) => Blank(f)') /\ (Extended(f)' => Extended(f))
    BY EndKeeps DEF Blank, Extended, Alone
  <2>5. \A f \in families : f # got[c].family
    BY DEF DeletedFirst
  <2>6. Reachable' /\ Lasting' /\ Ended'
    BY <2>4, <2>5 DEF Reachable, Lasting, Ended
  <2>7. Listing'
    BY <2>4, EndKeeps DEF Listing, Alone
  <2>8. QED
    BY <2>1, <2>2, <2>3, <2>6, <2>7
<1>3. CASE DelIndex(c)
  <2> USE <1>3 DEF DelIndex
  <2>1. /\ pc' \in [Procs -> Steps] /\ call' \in [Procs -> Calls] /\ got' \in [Procs -> Reads]
        /\ pc'[c] \in {"idle", "open"} /\ got'[c] \in {got[c], NoRead} /\ Alone(c)
    <3>1. CASE call[c].method = "change"
      BY <3>1, GotoKeeps DEF Steps
    <3>2. CASE call[c].method # "change"
      BY <3>2, EndKeeps
    <3>3. QED
      BY <3>1, <3>2
  <2>2. TypeOK'
    BY <2>1 DEF TypeOK, Calls, Reads, Statuses
  <2>3. Busy'
    BY <2>1 DEF TypeOK, NoRead, Busy, Alone
  <2>4. Known' /\ DeletedFirst'
    BY <2>1 DEF TypeOK, Busy, Known, DeletedFirst, Alone
  <2>5. \A f : Blank(f) => Blank(f)'
    BY <2>1 DEF Blank, Alone
  <2>6. \A f \in families : f \notin got[c].families
    BY DEF DeletedFirst
  <2>7. Reachable' /\ Lasting'
    BY <2>5, <2>6 DEF Reachable, Lasting
  <2>8. Listing'
    BY <2>1, <2>5 DEF Listing, Alone
  <2>9. Ended'
    <3>1. CASE call[c].method \in {"change", "reset"}
      <4>1. /\ got[c].password <= listed
            /\ \A f \in families : opened[f] < got[c].password =>
                 Blank(f) \/ f \in late \cup orphaned
        BY <2>6, <3>1 DEF Listing
      <4>2. QED
        BY <2>5, <4>1 DEF Ended
    <3>2. CASE call[c].method \notin {"change", "reset"}
      BY <2>5, <3>2 DEF Ended
    <3>3. QED
      BY <3>1, <3>2
  <2>10. QED
    BY <2>2, <2>3, <2>4, <2>7, <2>8, <2>9
<1>4. QED
  BY <1>1, <1>2, <1>3

\* A new password is newer than what every process knows.
LEMMA ChangingKeeps ==
  ASSUME IInv, UNCHANGED requests, NEW c \in Procs, UpdatePassword(c) \/ ApplyReset(c)
  PROVE  IInv'
<1> USE DEF IInv, UpdatePassword, ApplyReset, redisKeys, ttl, history
<1> DEFINE r == [got[c] EXCEPT !.password = password + 1]
<1>1. /\ Goto(c, "smembers") /\ UNCHANGED call /\ got' = [got EXCEPT ![c] = r]
      /\ password' = password + 1
  OBVIOUS
<1>2. r \in Reads /\ r.family = got[c].family /\ r.families = got[c].families
      /\ r.password = password + 1
  <2>1. got[c] \in Reads /\ password + 1 \in Nat
    BY DEF TypeOK, Reads, Statuses
  <2>2. QED
    BY <2>1 DEF Reads, Statuses
<1> HIDE DEF r
<1>3. /\ pc' \in [Procs -> Steps] /\ call' \in [Procs -> Calls] /\ got' \in [Procs -> Reads]
      /\ pc'[c] = "smembers" /\ got'[c] = r /\ Alone(c)
  <2>1. got \in [Procs -> Reads]
    BY DEF TypeOK, Reads, Statuses
  <2>2. QED
    BY <1>1, <1>2, <2>1 DEF TypeOK, Goto, Steps, Calls, Alone
<1>4. TypeOK'
  BY <1>1, <1>3 DEF TypeOK, Calls, Reads, Statuses
<1>5. Busy'
  BY <1>1, <1>2, <1>3 DEF TypeOK, Busy, Alone
<1>6. Known' /\ DeletedFirst'
  BY <1>1, <1>3 DEF TypeOK, Known, DeletedFirst, Alone
<1>7. \A f : (Blank(f) => Blank(f)') /\ (Extended(f)' => Extended(f))
  BY <1>3 DEF Blank, Extended, Alone
<1>8. Reachable' /\ Lasting' /\ Ended'
  BY <1>7 DEF Reachable, Lasting, Ended
<1>9. Listing'
  BY <1>3, <1>7 DEF Listing, Alone
<1>10. QED
  BY <1>4, <1>5, <1>6, <1>8, <1>9

\* Keys and rows that expire.
LEMMA ExpiringKeeps ==
  ASSUME IInv, UNCHANGED requests,
         ExpireFamily \/ ExpireIndex \/ ExpireReset \/ UNCHANGED vars
  PROVE  IInv'
<1> USE DEF IInv, redisKeys, ttl, history
<1>1. CASE ExpireFamily \/ ExpireReset \/ UNCHANGED vars
  BY <1>1 DEF ExpireFamily, ExpireReset, vars, TypeOK, Busy, Known, DeletedFirst,
              Reachable, Lasting, Listing, Ended, Blank, Extended
<1>2. CASE ExpireIndex
  <2> USE <1>2 DEF ExpireIndex, IndexBecomes
  <2>1. TypeOK' /\ Busy' /\ Known' /\ DeletedFirst' /\ Lasting'
    BY DEF TypeOK, Busy, Known, DeletedFirst, Lasting
  <2>2. \A f : Blank(f) <=> Blank(f)'
    BY DEF Blank
  <2>3. Reachable'
    <3> SUFFICES ASSUME NEW f \in families, f \in index, f \notin orphaned, ~Blank(f)
                 PROVE  f \in orphaned'
      BY <2>2 DEF Reachable
    <3>1. ~Extended(f)
      BY DEF Lasting
    <3>2. PICK c \in Procs : pc[c] = "expire" /\ got[c].family = f
      BY <3>1 DEF Blank, Extended
    <3>3. QED
      BY <3>2
  <2>4. Listing' /\ Ended'
    BY <2>2 DEF Listing, Ended
  <2>5. QED
    BY <2>1, <2>3, <2>4
<1>3. QED
  BY <1>1, <1>2

\* Every step keeps the invariant.
LEMMA NextIInv == IInv /\ [Next]_vars => IInv'
<1> SUFFICES ASSUME IInv, [Next]_vars PROVE IInv'
  OBVIOUS
<1>1. ASSUME NEW c \in Procs, Receive(c) \/ ((Step(c) \/ Fail(c)) /\ UNCHANGED requests)
      PROVE  IInv'
  BY <1>1, ReceiveKeeps, AskingKeeps, ListingKeeps, IssuingKeeps, ConsumingKeeps,
     RevokingKeeps, ChangingKeeps DEF Step
<1>2. UNCHANGED vars => UNCHANGED requests
  BY DEF vars
<1>3. QED
  BY <1>1, <1>2, ExpiringKeeps DEF Next

\* IInv is an invariant.
LEMMA Invariance == Spec => []IInv
BY InitIInv, NextIInv, PTL DEF Spec

\* Every variable keeps its type: TokenService and PasswordResetService.
THEOREM TypeCorrect == Spec => []TypeOK
BY Invariance, PTL DEF IInv

\* Logging out everywhere can reach every session but those that entered the set
\* between the two ends of a revocation of all, or just before it expired:
\* TokenService.issuePair, revokeAllForUser.
THEOREM SessionsAlwaysReachable == Spec => []SessionsReachable
<1>1. IInv => SessionsReachable
  BY DEF IInv, Reachable, Blank, SessionsReachable, Sessions
<1>2. QED
  BY <1>1, Invariance, PTL

\* Once a password change has revoked all sessions, none of an earlier password
\* lives but those that entered the set after it was read, or lost their place
\* there: AuthService.changePassword, resetPassword.
THEOREM ChangeAlwaysEndsSessions == Spec => []ChangeEndsSessions
<1>1. IInv => ChangeEndsSessions
  BY DEF IInv, Ended, Blank, ChangeEndsSessions, Sessions
<1>2. QED
  BY <1>1, Invariance, PTL
-----------------------------------------------------------------------------
(* How many live tokens a family has.  A call that has marked a token used *)
(* and has not yet written its successor still counts.                     *)

Issuing(f) ==
  {c \in Procs : pc[c] \in {"sadd", "expire", "mint"} /\ got[c].family = f}
Due(f) == Cardinality(LiveTokens(f)) + Cardinality(Issuing(f))
Accounted == \A f \in Families : Due(f) <= 1 + forks[f]

\* Tokens and calls can be counted.
LEMMA TokensFinite ==
  \A f : /\ IsFiniteSet(LiveTokens(f)) /\ Cardinality(LiveTokens(f)) \in Nat
         /\ IsFiniteSet(Issuing(f)) /\ Cardinality(Issuing(f)) \in Nat
<1> SUFFICES ASSUME NEW f
             PROVE  /\ IsFiniteSet(LiveTokens(f)) /\ Cardinality(LiveTokens(f)) \in Nat
                    /\ IsFiniteSet(Issuing(f)) /\ Cardinality(Issuing(f)) \in Nat
  OBVIOUS
<1>1. LiveTokens(f) \in SUBSET Tokens /\ Issuing(f) \in SUBSET Procs
  BY DEF LiveTokens, Issuing
<1>2. QED
  BY <1>1, FS_Subset, FS_CardinalityType

\* Fewer tokens and fewer calls, fewer are due.
LEMMA FewerDue ==
  ASSUME NEW f \in Families, TypeOK, TypeOK', Due(f) <= 1 + forks[f], forks'[f] >= forks[f],
         LiveTokens(f)' \subseteq LiveTokens(f), Issuing(f)' \subseteq Issuing(f)
  PROVE  Due(f)' <= 1 + forks'[f]
<1>1. /\ Cardinality(LiveTokens(f)') <= Cardinality(LiveTokens(f))
      /\ Cardinality(Issuing(f)') <= Cardinality(Issuing(f))
      /\ Cardinality(LiveTokens(f)') \in Nat /\ Cardinality(Issuing(f)') \in Nat
  BY TokensFinite, FS_Subset, FS_CardinalityType
<1>2. QED
  BY <1>1, TokensFinite DEF Due, TypeOK

\* Opening a family makes one token due; rotation replaces the token it uses.
LEMMA NextAccounted ==
  ASSUME IInv, IInv', Accounted, [Next]_vars
  PROVE  Accounted'
<1> SUFFICES ASSUME NEW f \in Families PROVE Due(f)' <= 1 + forks'[f]
  BY DEF Accounted
<1> USE DEF IInv, history, redisKeys, ttl
<1>1. Due(f) <= 1 + forks[f] /\ forks[f] \in Nat
  BY DEF Accounted, TypeOK
<1>2. ASSUME NEW c \in Procs, OpenFamily(c), got'[c].family = f
      PROVE  Due(f)' <= 1 + forks'[f]
  <2>1. PICK g \in Families : opened[g] = -1 /\ got' = [got EXCEPT ![c].family = g]
    BY <1>2 DEF OpenFamily
  <2>2. /\ opened[f] = -1 /\ Alone(c) /\ UNCHANGED <<token, of, forks>>
    BY <1>2, <2>1 DEF OpenFamily, TypeOK, Goto, Alone
  <2>3. LiveTokens(f)' = {} /\ Issuing(f)' \subseteq {c}
    BY <2>2 DEF LiveTokens, Issuing, Known, Busy, Alone, TypeOK
  <2>4. Cardinality(LiveTokens(f)') = 0 /\ Cardinality(Issuing(f)') \in {0, 1}
    <3>1. Issuing(f)' = {} \/ Issuing(f)' = {c}
      BY <2>3
    <3>2. QED
      BY <2>3, <3>1, FS_EmptySet, FS_Singleton
  <2>5. QED
    BY <1>1, <2>2, <2>4 DEF Due
<1>3. ASSUME NEW c \in Procs, Mint(c), got[c].family = f
      PROVE  Due(f)' <= 1 + forks'[f]
  <2>1. PICK t \in Tokens : /\ token[t] = "unused"
                            /\ token' = [token EXCEPT ![t] = "live"]
                            /\ of' = [of EXCEPT ![t] = got[c].family]
    BY <1>3 DEF Mint
  <2>2. t \notin LiveTokens(f) /\ LiveTokens(f)' = LiveTokens(f) \cup {t}
    BY <1>3, <2>1 DEF LiveTokens, TypeOK
  <2>3. c \in Issuing(f) /\ Issuing(f)' = Issuing(f) \ {c}
    BY <1>3, EndKeeps DEF Mint, Issuing, Alone
  <2>4. /\ Cardinality(LiveTokens(f)') = Cardinality(LiveTokens(f)) + 1
        /\ Cardinality(Issuing(f)') = Cardinality(Issuing(f)) - 1
    BY <2>2, <2>3, TokensFinite, FS_AddElement, FS_RemoveElement
  <2>5. QED
    BY <1>1, <1>3, <2>4, TokensFinite DEF Due, Mint
<1>4. ASSUME NEW c \in Procs, Consume(c), got[c].family = f
      PROVE  Due(f)' <= 1 + forks'[f]
  <2> DEFINE t == call[c].token
  <2>1. t \in Tokens /\ token[t] \in {"live", "used"} /\ of[t] = f
    BY <1>4 DEF Consume, Busy, TypeOK
  <2>2. c \notin Issuing(f) /\ Issuing(f)' = Issuing(f) \cup {c}
    BY <1>4 DEF Consume, Issuing, Goto, TypeOK
  <2>3. LiveTokens(f)' = LiveTokens(f) \ {t} /\ (t \in LiveTokens(f) <=> token[t] = "live")
    BY <1>4, <2>1 DEF Consume, Consumed, LiveTokens, TypeOK
  <2>4. /\ Cardinality(Issuing(f)') = Cardinality(Issuing(f)) + 1
        /\ Cardinality(LiveTokens(f)') = Cardinality(LiveTokens(f)) - (IF token[t] = "live" THEN 1 ELSE 0)
    <3> HIDE DEF t
    <3>1. Cardinality(Issuing(f)') = Cardinality(Issuing(f)) + 1
      BY <2>2, TokensFinite, FS_AddElement
    <3>2. Cardinality(LiveTokens(f)') =
            IF t \in LiveTokens(f) THEN Cardinality(LiveTokens(f)) - 1 ELSE Cardinality(LiveTokens(f))
      BY <2>3, TokensFinite, FS_RemoveElement
    <3>3. QED
      BY <2>3, <3>1, <3>2, TokensFinite
  <2>5. forks'[f] = forks[f] + (IF token[t] = "live" THEN 0 ELSE 1)
    BY <1>4, <2>1 DEF Consume, TypeOK
  <2>6. QED
    BY <1>1, <2>4, <2>5, TokensFinite DEF Due
<1>5. ASSUME NEW c \in Procs, Consume(c) \/ Mint(c) \/ OpenFamily(c),
             got[c].family # f \/ OpenFamily(c), got'[c].family # f
      PROVE  Due(f)' <= 1 + forks'[f]
  <2>1. LiveTokens(f)' \subseteq LiveTokens(f)
    BY <1>5 DEF Consume, Consumed, Mint, OpenFamily, LiveTokens, TypeOK
  <2>2. Issuing(f)' \subseteq Issuing(f)
    BY <1>5, EndKeeps DEF Consume, Mint, OpenFamily, Issuing, Alone, TypeOK, Goto
  <2>3. forks'[f] >= forks[f]
    BY <1>1, <1>5 DEF Consume, Mint, OpenFamily, TypeOK
  <2>4. QED
    BY <1>1, <2>1, <2>2, <2>3, FewerDue
<1>6. ASSUME UNCHANGED <<token, of, forks>>, Issuing(f)' \subseteq Issuing(f)
      PROVE  Due(f)' <= 1 + forks'[f]
  BY <1>1, <1>6, FewerDue DEF LiveTokens
<1>7. ASSUME NEW c \in Procs, Receive(c) \/ Step(c) \/ Fail(c),
             ~Consume(c), ~Mint(c), ~OpenFamily(c)
      PROVE  UNCHANGED <<token, of, forks>> /\ Issuing(f)' \subseteq Issuing(f)
  <2>1. CASE End(c) /\ UNCHANGED <<token, of, forks>>
    BY <2>1, EndKeeps DEF Issuing, Alone
  <2>2. CASE Receive(c)
    <3>1. pc'[c] \notin {"sadd", "expire", "mint"} /\ \A d \in Procs \ {c} : pc'[d] = pc[d] /\ got'[d] = got[d]
      BY <2>2 DEF Receive, Request, Goto, First, TypeOK
    <3>2. QED
      BY <2>2, <3>1 DEF Receive, Request, Issuing
  <2>3. CASE Verify(c) \/ ReadToken(c) \/ ReadFamily(c) \/ IndexFamily(c)
             \/ ExtendIndex(c) \/ DelFamily(c) \/ Smembers(c) \/ DelFamilies(c) \/ UpdatePassword(c) \/ ClearResets(c)
             \/ FindReset(c) \/ ApplyReset(c) \/ (DelIndex(c) /\ call[c].method = "change")
    <3>1. UNCHANGED <<token, of, forks>>
      BY <2>3 DEF Verify, ReadToken, ReadFamily, IndexFamily, ExtendIndex, DelFamily, Smembers, DelFamilies,
                  UpdatePassword, ClearResets, FindReset, ApplyReset, DelIndex
    <3>2. \A d \in Procs \ {c} : pc'[d] = pc[d] /\ got'[d] = got[d]
      BY <2>3 DEF Verify, ReadToken, ReadFamily, IndexFamily, ExtendIndex, DelFamily, Smembers, DelFamilies,
                  UpdatePassword, ClearResets, FindReset, ApplyReset, DelIndex, Goto, TypeOK
    <3>3. pc'[c] \in {"sadd", "expire", "mint"} =>
            pc[c] \in {"sadd", "expire"} /\ got'[c] = got[c]
      BY <2>3 DEF Verify, ReadToken, ReadFamily, IndexFamily, ExtendIndex, DelFamily, Smembers, DelFamilies,
                  UpdatePassword, ClearResets, FindReset, ApplyReset, DelIndex, Goto, TypeOK
    <3>4. QED
      BY <3>1, <3>2, <3>3 DEF Issuing
  <2>4. QED
    BY <1>7, <2>1, <2>2, <2>3
       DEF Step, ReadFamilyRevoked, Srem, DelIndex, InsertReset, FindResetInvalid, Fail
<1>8. CASE ExpireFamily \/ ExpireIndex \/ ExpireReset \/ UNCHANGED vars
  BY <1>6, <1>8 DEF ExpireFamily, ExpireIndex, ExpireReset, vars, Issuing
<1>9. ASSUME NEW c \in Procs, OpenFamily(c) PROVE got'[c].family # None
  BY <1>9 DEF OpenFamily, TypeOK
<1>10. QED
  <2>1. ASSUME NEW c \in Procs, Receive(c) \/ Step(c) \/ Fail(c)
        PROVE  Due(f)' <= 1 + forks'[f]
    <3>1. CASE Consume(c) \/ Mint(c)
      <4>1. Mint(c) => got'[c].family = None
        BY EndKeeps DEF Mint, NoRead
      <4>2. Consume(c) => got'[c].family = got[c].family
        BY DEF Consume
      <4>3. QED
        BY <3>1, <4>1, <4>2, <1>3, <1>4, <1>5
    <3>2. CASE OpenFamily(c)
      BY <3>2, <1>2, <1>5
    <3>3. CASE ~Consume(c) /\ ~Mint(c) /\ ~OpenFamily(c)
      BY <2>1, <3>3, <1>6, <1>7
    <3>4. QED
      BY <3>1, <3>2, <3>3
  <2>2. QED
    BY <2>1, <1>8 DEF Next

\* Rotation never multiplies a session but when rotations of one token overlap:
\* TokenService.rotate.
THEOREM LiveTokensAlwaysAccounted == Spec => []LiveTokensAccounted
<1>1. Init => Accounted
  <2> SUFFICES ASSUME Init, NEW f \in Families PROVE Due(f) <= 1 + forks[f]
    BY DEF Accounted
  <2>1. LiveTokens(f) = {} /\ Issuing(f) = {} /\ forks[f] = 0
    BY DEF Init, LiveTokens, Issuing
  <2>2. QED
    BY <2>1, FS_EmptySet DEF Due
<1>2. IInv /\ Accounted => LiveTokensAccounted
  BY TokensFinite DEF IInv, TypeOK, Accounted, LiveTokensAccounted, Due
<1>3. QED
  BY <1>1, <1>2, NextAccounted, Invariance, PTL DEF Spec
-----------------------------------------------------------------------------
(* How many reset tokens are valid, those about to be inserted included.   *)

Inserting == {c \in Procs : pc[c] = "insert"}
FewResets == Cardinality(resets) + Cardinality(Inserting) <= Cardinality(Procs)

\* Reset tokens and the processes about to insert one can be counted.
LEMMA ResetsFinite ==
  TypeOK => /\ IsFiniteSet(resets) /\ Cardinality(resets) \in Nat
            /\ IsFiniteSet(Inserting) /\ Cardinality(Inserting) \in Nat
            /\ Cardinality(Inserting) <= Cardinality(Procs)
<1> SUFFICES ASSUME TypeOK
             PROVE  /\ IsFiniteSet(resets) /\ Cardinality(resets) \in Nat
                    /\ IsFiniteSet(Inserting) /\ Cardinality(Inserting) \in Nat
                    /\ Cardinality(Inserting) <= Cardinality(Procs)
  OBVIOUS
<1>1. resets \in SUBSET ResetTokens /\ Inserting \in SUBSET Procs
  BY DEF TypeOK, Inserting
<1>2. QED
  BY <1>1, FS_Subset, FS_CardinalityType

\* Issuing deletes the earlier tokens before it inserts its own, so each call
\* can leave one more.
LEMMA NextFewResets ==
  ASSUME IInv, TypeOK', FewResets, [Next]_vars
  PROVE  FewResets'
<1> USE DEF IInv, history, redisKeys, ttl
<1>1. /\ IsFiniteSet(resets) /\ Cardinality(resets) \in Nat
      /\ IsFiniteSet(Inserting) /\ Cardinality(Inserting) \in Nat
      /\ Cardinality(Inserting) <= Cardinality(Procs)
      /\ Cardinality(Procs) \in Nat
  BY ResetsFinite, FS_CardinalityType
<1>2. ASSUME resets' \subseteq resets, Inserting' \subseteq Inserting
      PROVE  FewResets'
  <2>1. Cardinality(resets') <= Cardinality(resets) /\ Cardinality(resets') \in Nat
    BY <1>1, <1>2, FS_Subset, FS_CardinalityType
  <2>2. Cardinality(Inserting') <= Cardinality(Inserting) /\ Cardinality(Inserting') \in Nat
    BY <1>1, <1>2, FS_Subset, FS_CardinalityType
  <2>3. QED
    BY <1>1, <2>1, <2>2 DEF FewResets
<1>3. ASSUME NEW c \in Procs, ClearResets(c)
      PROVE  FewResets'
  <2>1. resets' = {} /\ Inserting' \in SUBSET Procs
    BY <1>3 DEF ClearResets, Cleared, Inserting
  <2>2. Cardinality(resets') = 0 /\ Cardinality(Inserting') <= Cardinality(Procs)
    BY <2>1, FS_EmptySet, FS_Subset
  <2>3. Cardinality(Inserting') \in Nat
    BY <2>1, FS_Subset, FS_CardinalityType
  <2>4. QED
    BY <1>1, <2>2, <2>3 DEF FewResets
<1>4. ASSUME NEW c \in Procs, InsertReset(c)
      PROVE  FewResets'
  <2>1. PICK r \in ResetTokens \ resets : resets' = resets \cup {r}
    BY <1>4 DEF InsertReset
  <2>2. c \in Inserting /\ Inserting' = Inserting \ {c}
    BY <1>4, EndKeeps DEF InsertReset, Inserting, Alone
  <2>3. Cardinality(resets') = Cardinality(resets) + 1
    BY <1>1, <2>1, FS_AddElement
  <2>4. Cardinality(Inserting') = Cardinality(Inserting) - 1
    BY <1>1, <2>2, FS_RemoveElement
  <2>5. QED
    BY <1>1, <2>3, <2>4 DEF FewResets
<1>5. ASSUME NEW c \in Procs, Receive(c) \/ Step(c) \/ Fail(c), ~ClearResets(c), ~InsertReset(c)
      PROVE  resets' \subseteq resets /\ Inserting' \subseteq Inserting
  <2>1. CASE End(c) /\ UNCHANGED resets
    BY <2>1, EndKeeps DEF Inserting, Alone
  <2>2. CASE Receive(c)
    <3>1. pc'[c] # "insert" /\ \A d \in Procs \ {c} : pc'[d] = pc[d]
      BY <2>2 DEF Receive, Request, Goto, First, TypeOK
    <3>2. QED
      BY <2>2, <3>1 DEF Receive, Request, Inserting
  <2>3. PICK p \in Steps \ {"insert"} :
          (~(End(c) /\ UNCHANGED resets) /\ ~Receive(c)) => Goto(c, p) /\ resets' \subseteq resets
    BY <1>5 DEF Step, Verify, OpenFamily, IndexFamily, ExtendIndex, ReadToken, ReadFamily, Consume, DelFamily,
                Smembers, DelFamilies, DelIndex, UpdatePassword, FindReset, ApplyReset,
                ReadFamilyRevoked, Srem, Mint, FindResetInvalid, Fail, Steps
  <2>4. CASE ~(End(c) /\ UNCHANGED resets) /\ ~Receive(c)
    BY <2>3, <2>4 DEF Goto, Inserting, TypeOK
  <2>5. QED
    BY <2>1, <2>2, <2>4
<1>6. CASE ExpireFamily \/ ExpireIndex \/ ExpireReset \/ UNCHANGED vars
  BY <1>2, <1>6 DEF ExpireFamily, ExpireIndex, ExpireReset, vars, Inserting
<1>7. QED
  BY <1>2, <1>3, <1>4, <1>5, <1>6 DEF Next

\* There are never more valid reset tokens than processes to issue them:
\* PasswordResetService.issue.
THEOREM ResetTokensAlwaysBounded == Spec => []ResetTokensBounded
<1>1. Init => FewResets
  <2> SUFFICES ASSUME Init PROVE FewResets
    OBVIOUS
  <2>1. resets = {} /\ Inserting = {}
    BY DEF Init, Inserting
  <2>2. Cardinality(resets) = 0 /\ Cardinality(Inserting) = 0 /\ Cardinality(Procs) \in Nat
    BY <2>1, FS_EmptySet, FS_CardinalityType
  <2>3. QED
    BY <2>1, <2>2 DEF FewResets
<1>2. IInv => TypeOK
  BY DEF IInv
<1>3. TypeOK /\ FewResets => ResetTokensBounded
  BY ResetsFinite, FS_CardinalityType DEF FewResets, ResetTokensBounded
<1>4. QED
  BY <1>1, <1>2, <1>3, NextFewResets, Invariance, PTL DEF Spec
=============================================================================

---------------------------- MODULE ModerationProofs ----------------------------
(***************************************************************************)
(* Proofs about Moderation, for any sets of reports, reporters, processes  *)
(* and resolutions, any interleaving and any failing calls.                *)
(***************************************************************************)
EXTENDS Moderation, TLAPS

USE ModerationConstants

Calls == [method : Methods \cup {"none"}, report : Reports \cup {None},
          arg : Reporters \cup Resolutions \cup {"none"}]

\* The methods that pass through each step.
Does(p) ==
  CASE p = "idle"               -> {"none"}
    [] p \in {"dedup", "insert"} -> {"create"}
    [] p \in {"review", "finish"} -> Reviews
    [] p \in {"load", "save", "write"} ->
         {"triage", "priority", "resolve", "reopen", "appeal"} \cup Reviews
    [] p \in {"find", "file"}   -> {"appeal"}
    [] p = "content"            -> {"resolve", "approve", "restore"}
    [] p = "user"               -> {"resolve", "approve"}
    [] p \in {"check", "status"} -> {"resolve", "approve", "suspend", "unsuspend", "patch"}
    [] p = "admit"              -> {"login"}
    [] p = "revoke"             -> {"changePassword"}
    [] p = "issue"              -> {"login", "google", "changePassword"}
    [] OTHER                    -> {"resolve", "suspend"}

Early == {"idle", "dedup", "insert", "review", "load"}

\* The appeal has been found pending; the appeal has been filed, its report is
\* yet to be marked.
Reviewing(c) == Method(c) \in Reviews /\ pc[c] # "review"
Filing(c) == pc[c] \in {"save", "write"} /\ Method(c) = "appeal"

\* A call is where its method leads, on a report if it needs one...
Calling(c) ==
  /\ Method(c) \in Does(pc[c])
  /\ Method(c) \notin {"none", "create"} \cup AccountMethods => R(c) \in Reports
  /\ Method(c) = "create" => call[c].arg \in Reporters
  /\ Method(c) = "resolve" => call[c].arg \in Resolutions
  /\ pc[c] \in Early => got[c] = NoReport
  /\ pc[c] \notin Early /\ Method(c) \in {"resolve", "reopen", "appeal"} =>
       ~Refuses(Method(c), got[c])

\* ...it has had the effects that come before its step...
Effective(c) ==
  /\ pc[c] = "content" /\ Method(c) = "resolve" => call[c].arg \in Content
  /\ pc[c] \in {"save", "write"} /\ Method(c) = "resolve" /\ call[c].arg \in Account =>
       R(c) \in enforced
  /\ got[c].resolution \in Account => R(c) \in enforced
  /\ pc[c] \in {"save", "write", "finish"} /\ Method(c) = "approve"
     /\ got[c].resolution \in Content \cup Account => R(c) \in lifted

\* ...and an appeal it is about has not been decided meanwhile.
Appealing(c) ==
  /\ Reviewing(c) => appeal[R(c)] # "none" /\ (R(c) \notin raced => appeal[R(c)] = "pending")
  /\ Filing(c) /\ R(c) \notin raced => appeal[R(c)] = "pending"
  /\ pc[c] = "finish" /\ R(c) \notin raced => report[R(c)].status # "appealed"

\* One review of an appeal at a time, none before the filing has ended.
Apart(c, d) ==
  c # d /\ R(c) = R(d) /\ R(c) \notin raced =>
    ~(Reviewing(c) /\ Reviewing(d)) /\ ~(Filing(c) /\ pc[d] = "finish")

Finishing(r) == \E c \in Procs : pc[c] = "finish" /\ R(c) = r

\* An appeal that waits has its report marked, or about to be.
AppealMarked ==
  cut = {} =>
    \A r \in Reports \ raced : appeal[r] = "pending" =>
      report[r].status = "appealed" \/ BeingFiled(r) \/ Finishing(r)

Typed == TypeOK /\ call \in [Procs -> Calls]
Processes ==
  /\ \A c \in Procs : Calling(c) /\ Effective(c) /\ Appealing(c)
  /\ \A c, d \in Procs : Apart(c, d)
Rows == EnforcedBeforeRecorded /\ SuspensionLogsOut /\ AppealedAwaitsReview
          /\ AppealMarked /\ StatusMatchesResolution

IInv == Typed /\ Processes /\ Rows

\* The initial state satisfies the invariant.
LEMMA InitIInv == Init => IInv
<1> SUFFICES ASSUME Init PROVE IInv
  OBVIOUS
<1> USE DEF Init, NoCall, NoReport
<1>1. Typed
  BY DEF Typed, TypeOK, Steps, Row, Calls, Open
<1>2. Processes
  BY DEF Processes, Calling, Effective, Appealing, Apart, Does, Early, Reviewing, Filing,
         Method, R, Reviews, Account, Content, AccountMethods
<1>3. Rows
  BY DEF Rows, EnforcedBeforeRecorded, SuspensionLogsOut, AppealedAwaitsReview,
         AppealMarked, StatusMatchesResolution, Account, Open
<1>4. QED
  BY <1>1, <1>2, <1>3 DEF IInv

\* What process c does leaves the other processes alone.
Alone(c) ==
  \A d \in Procs \ {c} : pc'[d] = pc[d] /\ call'[d] = call[d] /\ got'[d] = got[d]

\* The call of c ends.
LEMMA EndKeeps ==
  ASSUME Typed, NEW c \in Procs, End(c)
  PROVE  /\ pc' \in [Procs -> Steps] /\ call' \in [Procs -> Calls] /\ got' \in [Procs -> Row]
         /\ base' \in [Procs -> Row]
         /\ pc'[c] = "idle" /\ call'[c] = NoCall /\ got'[c] = NoReport /\ Alone(c)
BY DEF Typed, TypeOK, End, Goto, NoCall, NoReport, Calls, Row, Steps, Alone

\* The call of c goes on.
LEMMA GotoKeeps ==
  ASSUME Typed, NEW c \in Procs, NEW p \in Steps, Goto(c, p), Keep
  PROVE  /\ pc' \in [Procs -> Steps] /\ call' \in [Procs -> Calls] /\ got' \in [Procs -> Row]
         /\ base' \in [Procs -> Row]
         /\ pc'[c] = p /\ call'[c] = call[c] /\ got'[c] = got[c] /\ Alone(c)
BY DEF Typed, TypeOK, Goto, Keep, Alone

\* If the author needs a logout to come, that of another process came before.
OthersLogOut(c) ==
  author' = "suspended" /\ loggedIn' /\ ~unended' =>
    author = "suspended" /\ loggedIn /\ ~unended /\ pc[c] # "logout"

\* A step of c that writes to none of the tables.
LEMMA ReadingKeeps ==
  ASSUME IInv, Typed', NEW c \in Procs, Alone(c), UNCHANGED rows, OthersLogOut(c),
         enforced \subseteq enforced', lifted \subseteq lifted', raced \subseteq raced',
         cut \subseteq cut', Calling(c)', Effective(c)', Appealing(c)',
         Filing(c) => "filing" \in cut' \/ (Filing(c)' /\ R(c)' = R(c)),
         Filing(c)' => Filing(c) /\ R(c)' = R(c),
         pc[c] = "finish" => "review" \in cut', pc'[c] # "finish",
         Reviewing(c)' => \/ Reviewing(c) /\ R(c)' = R(c)
                          \/ \A d \in Procs \ {c} : Reviewing(d) /\ R(d) = R(c)' => R(d) \in raced'
  PROVE  IInv'
<1> USE DEF IInv, rows
<1>1. Processes'
  <2>1. ASSUME NEW d \in Procs PROVE Calling(d)' /\ Effective(d)' /\ Appealing(d)'
    <3>1. CASE d # c
      BY <3>1 DEF Processes, Calling, Effective, Appealing, Alone, Method, R, Reviewing, Filing
    <3>2. QED
      BY <3>1
  <2>2. ASSUME NEW d \in Procs, NEW e \in Procs PROVE Apart(d, e)'
    BY DEF Processes, Apart, Alone, Method, R, Reviewing, Filing
  <2>3. QED
    BY <2>1, <2>2 DEF Processes
<1>2. EnforcedBeforeRecorded' /\ StatusMatchesResolution'
  BY DEF Rows, EnforcedBeforeRecorded, StatusMatchesResolution
<1>3. SuspensionLogsOut'
  BY DEF Rows, SuspensionLogsOut, OthersLogOut, Alone
<1>4. AppealedAwaitsReview'
  <2>1. pc[c] = "finish" /\ R(c) \notin raced => report[R(c)].status # "appealed"
    BY DEF Processes, Appealing
  <2>2. QED
    BY <2>1 DEF Rows, AppealedAwaitsReview, Alone, R
<1>5. AppealMarked'
  BY DEF Rows, AppealMarked, Alone, R, BeingFiled, Finishing, Filing, Method
<1>6. QED
  BY <1>1, <1>2, <1>3, <1>4, <1>5 DEF Rows

\* The call of c ends without a write, cut off or not.
LEMMA EndingKeeps ==
  ASSUME IInv, requests' \in Nat, NEW c \in Procs, End(c), UNCHANGED <<rows, piece, author>>,
         loggedIn' \in BOOLEAN, unended' \in BOOLEAN, OthersLogOut(c),
         UNCHANGED <<enforced, lifted>>, raced \subseteq raced', raced' \subseteq Reports,
         cut \subseteq cut', cut' \subseteq {"filing", "review"},
         Filing(c) => "filing" \in cut', pc[c] = "finish" => "review" \in cut'
  PROVE  IInv'
<1>1. Typed'
  BY EndKeeps DEF IInv, Typed, TypeOK, Calls, rows
<1>2. Calling(c)' /\ Effective(c)' /\ Appealing(c)'
  BY EndKeeps DEF IInv, Calling, Effective, Appealing, Does, Early, NoCall, NoReport, Method, R,
                  Reviewing, Filing, Reviews, Account, Content
<1>3. pc'[c] # "finish" /\ ~Filing(c)' /\ ~Reviewing(c)'
  BY EndKeeps DEF IInv, Filing, Reviewing, NoCall, Method, Reviews
<1>4. Alone(c)
  BY EndKeeps DEF IInv
<1>5. UNCHANGED rows /\ enforced \subseteq enforced' /\ lifted \subseteq lifted'
  BY DEF rows
<1>6. /\ Filing(c) => "filing" \in cut' \/ (Filing(c)' /\ R(c)' = R(c))
      /\ Filing(c)' => Filing(c) /\ R(c)' = R(c)
      /\ Reviewing(c)' => \/ Reviewing(c) /\ R(c)' = R(c)
                          \/ \A d \in Procs \ {c} : Reviewing(d) /\ R(d) = R(c)' => R(d) \in raced'
  BY <1>3
<1>7. QED
  BY <1>1, <1>2, <1>3, <1>4, <1>5, <1>6, ReadingKeeps

\* A request arrives.
LEMMA ReceiveKeeps == ASSUME IInv, NEW c \in Procs, Receive(c) PROVE IInv'
<1> USE DEF rows, subject, history
<1>1. PICK m \in Methods, r \in Reports \cup {None},
           a \in Reporters \cup Resolutions \cup {"none"} :
        /\ Request(c, m, r, a)
        /\ m \notin {"create"} \cup AccountMethods => r \in Reports
        /\ m = "create" => a \in Reporters
        /\ m = "resolve" => a \in Resolutions
  BY DEF Receive, Methods, Reviews, AccountMethods
<1>2. First(m) \in Steps \ {"finish", "save", "write"}
  BY DEF First, Steps, Reviews, Methods
<1>3. /\ pc' \in [Procs -> Steps] /\ call' \in [Procs -> Calls] /\ UNCHANGED got
      /\ pc'[c] = First(m) /\ call'[c] = [method |-> m, report |-> r, arg |-> a]
      /\ Alone(c)
  BY <1>1, <1>2 DEF Request, IInv, Typed, TypeOK, Goto, Calls, Alone
<1>4. Typed'
  BY <1>1, <1>3 DEF Request, IInv, Typed, TypeOK, Calls
<1>5. pc[c] = "idle" /\ got[c] = NoReport
  BY <1>1 DEF Request, IInv, Processes, Calling, Early
<1>6. m \in Does(First(m))
      /\ First(m) \in Early \cup {"content", "check", "admit", "revoke", "issue"}
      /\ (First(m) \notin Early => m \in {"restore"} \cup AccountMethods)
      /\ (m \in Reviews => First(m) = "review")
  BY DEF Does, First, Methods, Reviews, Early, AccountMethods
<1>7. Calling(c)' /\ Effective(c)' /\ Appealing(c)'
  BY <1>1, <1>2, <1>3, <1>5, <1>6
     DEF Calling, Effective, Appealing, NoReport, Method, R, Reviewing, Filing, Account, Content,
         Early, AccountMethods
<1>8. pc'[c] # "finish" /\ ~Filing(c)' /\ ~Reviewing(c)' /\ ~Filing(c)
  BY <1>2, <1>3, <1>5, <1>6 DEF Filing, Reviewing, Method
<1>9. OthersLogOut(c)
  BY <1>1, <1>5 DEF Request, OthersLogOut
<1>10. QED
  BY <1>1, <1>3, <1>4, <1>5, <1>7, <1>8, <1>9, ReadingKeeps DEF Request

\* The reads and checks of a call.
LEMMA AskingKeeps ==
  ASSUME IInv, requests' \in Nat, NEW c \in Procs,
         \/ Dedup(c) \/ Review(c) \/ Load(c) \/ FindAppeal(c) \/ CheckStatus(c)
         \/ Admit(c) \/ Reread(c) \/ Fail(c)
  PROVE  IInv'
<1> USE DEF subject, history
<1>1. CASE Fail(c)
  <2>1. raced \subseteq Reports /\ cut \subseteq {"filing", "review"}
    BY DEF IInv, Typed, TypeOK
  <2>2. pc[c] = "finish" => Method(c) \in Reviews
    BY DEF IInv, Processes, Calling, Does
  <2>3. OthersLogOut(c) /\ loggedIn' \in BOOLEAN /\ unended' \in BOOLEAN
    BY <1>1 DEF Fail, OthersLogOut, IInv, Typed, TypeOK
  <2>4. QED
    BY <1>1, <2>1, <2>2, <2>3, EndingKeeps DEF Fail, Filing
<1>2. CASE End(c) /\ (Dedup(c) \/ Load(c) \/ FindAppeal(c) \/ CheckStatus(c) \/ Admit(c))
  <2>1. pc[c] \notin {"logout", "finish"} /\ ~Filing(c) /\ OthersLogOut(c)
        /\ loggedIn' \in BOOLEAN /\ unended' \in BOOLEAN
    BY <1>2 DEF Dedup, Load, FindAppeal, CheckStatus, Admit, Filing, OthersLogOut, IInv, Typed, TypeOK
  <2>2. raced \subseteq Reports /\ cut \subseteq {"filing", "review"}
    BY DEF IInv, Typed, TypeOK
  <2>3. QED
    BY <1>2, <2>1, <2>2, EndingKeeps DEF Dedup, Load, FindAppeal, CheckStatus, Admit
<1>3. CASE Review(c)
  <2>1. R(c) \in Reports /\ Method(c) \in Reviews
    BY <1>3 DEF Review, IInv, Processes, Calling, Does, Reviews, AccountMethods
  <2>2. raced \subseteq raced' /\ raced' \subseteq Reports /\ cut \subseteq {"filing", "review"}
    BY <1>3, <2>1 DEF Review, IInv, Typed, TypeOK
  <2>3. CASE End(c)
    BY <1>3, <2>2, <2>3, EndingKeeps DEF Review, Filing, OthersLogOut, IInv, Typed, TypeOK
  <2>4. CASE Reviewable(R(c)) /\ Goto(c, "load") /\ Keep
    <3>1. /\ pc' \in [Procs -> Steps] /\ call' \in [Procs -> Calls] /\ got' \in [Procs -> Row]
          /\ base' \in [Procs -> Row]
          /\ pc'[c] = "load" /\ call'[c] = call[c] /\ got'[c] = got[c] /\ Alone(c)
      BY <2>4, GotoKeeps DEF IInv, Steps
    <3>2. Typed'
      BY <1>3, <2>2, <3>1 DEF Review, IInv, Typed, TypeOK, Calls, rows
    <3>3. Calling(c)' /\ Effective(c)' /\ Appealing(c)'
      BY <1>3, <2>1, <2>4, <3>1
         DEF Review, Reviewable, IInv, Processes, Calling, Effective, Appealing, Does, Early,
             Method, R, Reviewing, Filing, rows, Reviews
    <3>4. \A d \in Procs \ {c} : Reviewing(d) /\ R(d) = R(c)' => R(d) \in raced'
      BY <1>3, <3>1 DEF Review, UnderReview, Reviewing, R, Method
    <3>5. pc'[c] # "finish" /\ ~Filing(c)' /\ pc[c] = "review"
      BY <1>3, <3>1 DEF Review, Filing
    <3>6. QED
      BY <1>3, <2>2, <3>1, <3>2, <3>3, <3>4, <3>5, ReadingKeeps DEF Review, Filing, OthersLogOut
  <2>5. QED
    BY <1>3, <2>3, <2>4 DEF Review
<1>4. CASE ~End(c) /\ (Dedup(c) \/ FindAppeal(c) \/ CheckStatus(c) \/ Admit(c))
  <2>1. PICK p \in {"insert", "file", "status", "issue"} :
          /\ Goto(c, p) /\ Keep
          /\ p = "insert" => pc[c] = "dedup"
          /\ p = "file" => pc[c] = "find"
          /\ p = "status" => pc[c] = "check"
          /\ p = "issue" => pc[c] = "admit"
    BY <1>4 DEF Dedup, FindAppeal, CheckStatus, Admit
  <2>2. /\ pc' \in [Procs -> Steps] /\ call' \in [Procs -> Calls] /\ got' \in [Procs -> Row]
        /\ base' \in [Procs -> Row]
        /\ pc'[c] = p /\ call'[c] = call[c] /\ got'[c] = got[c] /\ Alone(c)
    BY <2>1, GotoKeeps DEF IInv, Steps
  <2>3. UNCHANGED <<rows, piece, author, loggedIn, enforced, lifted, raced, cut, unended>>
    BY <1>4 DEF Dedup, FindAppeal, CheckStatus, Admit
  <2>4. Typed'
    BY <2>2, <2>3 DEF IInv, Typed, TypeOK, Calls, rows
  <2>5. Calling(c)' /\ Effective(c)' /\ Appealing(c)'
    BY <2>1, <2>2, <2>3
       DEF IInv, Processes, Calling, Effective, Appealing, Does, Early, Method, R, Reviewing,
           Filing, rows, Reviews
  <2>6. pc'[c] # "finish" /\ ~Filing(c)' /\ pc[c] \notin {"logout", "finish", "save", "write", "review"}
    BY <1>4, <2>1, <2>2 DEF Filing, Dedup, FindAppeal, CheckStatus, Admit
  <2>7. Reviewing(c)' => Reviewing(c) /\ R(c)' = R(c)
    BY <2>2, <2>6 DEF Reviewing, Method, R
  <2>8. OthersLogOut(c)
    BY <2>3, <2>6 DEF OthersLogOut
  <2>9. QED
    BY <2>2, <2>3, <2>4, <2>5, <2>6, <2>7, <2>8, ReadingKeeps DEF Filing
<1>5. CASE ~End(c) /\ Load(c)
  <2> DEFINE p == AfterLoad(Method(c), report[R(c)], call[c].arg)
  <2>1. /\ pc[c] = "load" /\ Goto(c, p) /\ UNCHANGED <<call, base>>
        /\ got' = [got EXCEPT ![c] = report[R(c)]] /\ ~Refuses(Method(c), report[R(c)])
    BY <1>5 DEF Load
  <2>2. R(c) \in Reports /\ report[R(c)] \in Row /\ Method(c) \in Does("load")
    BY <2>1 DEF IInv, Processes, Calling, Typed, TypeOK, Does, Reviews, AccountMethods
  <2>3. /\ p \in {"content", "user", "save", "find"}
        /\ p = "content" => \/ Method(c) = "resolve" /\ call[c].arg \in Content
                            \/ Method(c) = "approve"
        /\ p = "user" => Method(c) \in {"resolve", "approve"}
        /\ p = "find" => Method(c) = "appeal"
        /\ p = "save" => /\ Method(c) # "appeal"
                         /\ Method(c) = "resolve" => call[c].arg \notin Account
                         /\ Method(c) = "approve" => report[R(c)].resolution \notin Content \cup Account
    BY <2>2 DEF AfterLoad, Effect, Does, Reviews
  <2> HIDE DEF p
  <2>4. /\ pc' \in [Procs -> Steps] /\ call' \in [Procs -> Calls] /\ got' \in [Procs -> Row]
        /\ base' \in [Procs -> Row]
        /\ pc'[c] = p /\ call'[c] = call[c] /\ got'[c] = report[R(c)] /\ Alone(c)
    BY <2>1, <2>2, <2>3 DEF IInv, Typed, TypeOK, Goto, Steps, Alone
  <2>5. UNCHANGED <<rows, piece, author, loggedIn, enforced, lifted, raced, cut, unended>>
    BY <1>5 DEF Load
  <2>6. Typed'
    BY <2>4, <2>5 DEF IInv, Typed, TypeOK, Calls, rows
  <2>7. Calling(c)'
    BY <2>1, <2>2, <2>3, <2>4 DEF IInv, Processes, Calling, Does, Early, Method, R, Reviews
  <2>8. report[R(c)].resolution \in Account => R(c) \in enforced
    BY <2>2 DEF IInv, Rows, EnforcedBeforeRecorded
  <2>9. Effective(c)'
    BY <2>3, <2>4, <2>5, <2>8 DEF Effective, Method, R
  <2>10. Appealing(c)'
    BY <2>1, <2>3, <2>4, <2>5 DEF IInv, Processes, Appealing, Reviewing, Filing, Method, R, rows
  <2>11. pc'[c] # "finish" /\ ~Filing(c)' /\ (Reviewing(c)' => Reviewing(c) /\ R(c)' = R(c))
    BY <2>1, <2>3, <2>4 DEF Filing, Reviewing, Method, R
  <2>12. OthersLogOut(c)
    BY <2>1, <2>5 DEF OthersLogOut
  <2>13. QED
    BY <2>1, <2>4, <2>5, <2>6, <2>7, <2>9, <2>10, <2>11, <2>12, ReadingKeeps DEF Filing
<1>6. CASE Reread(c)
  <2>1. /\ pc[c] = "save" /\ Goto(c, "write") /\ UNCHANGED <<call, got>>
        /\ base' = [base EXCEPT ![c] = report[R(c)]]
        /\ UNCHANGED <<rows, piece, author, loggedIn, enforced, lifted, raced, cut, unended>>
    BY <1>6 DEF Reread
  <2>2. R(c) \in Reports /\ Method(c) \in Does("write")
    BY <2>1 DEF IInv, Processes, Calling, Does, Reviews, AccountMethods
  <2>3. /\ pc' \in [Procs -> Steps] /\ call' \in [Procs -> Calls] /\ got' \in [Procs -> Row]
        /\ base' \in [Procs -> Row]
        /\ pc'[c] = "write" /\ call'[c] = call[c] /\ got'[c] = got[c] /\ Alone(c)
    BY <2>1, <2>2 DEF IInv, Typed, TypeOK, Goto, Steps, Alone
  <2>4. Typed'
    BY <2>1, <2>3 DEF IInv, Typed, TypeOK, rows
  <2>5. Calling(c)' /\ Effective(c)' /\ Appealing(c)'
    BY <2>1, <2>2, <2>3
       DEF IInv, Processes, Calling, Effective, Appealing, Does, Early, Method, R, Reviewing,
           Filing, rows, Reviews
  <2>6. /\ pc'[c] # "finish" /\ R(c)' = R(c)
        /\ Filing(c)' <=> Filing(c)
        /\ Reviewing(c)' <=> Reviewing(c)
    BY <2>1, <2>3 DEF Filing, Reviewing, Method, R
  <2>7. OthersLogOut(c)
    BY <2>1 DEF OthersLogOut
  <2>8. QED
    BY <2>1, <2>3, <2>4, <2>5, <2>6, <2>7, ReadingKeeps
<1>7. QED
  BY <1>1, <1>2, <1>3, <1>4, <1>5, <1>6

\* The effects that leave the account alone.
LEMMA ActingKeeps ==
  ASSUME IInv, requests' \in Nat, NEW c \in Procs, ContentAction(c) \/ FindUser(c)
  PROVE  IInv'
<1> USE DEF history, rows
<1>1. Method(c) \in {"resolve", "approve", "restore"} /\ R(c) \in Reports
  BY DEF IInv, Processes, Calling, ContentAction, FindUser, Does, AccountMethods
<1>1a. piece' \in [status : {"published", "archived"}, deleted : BOOLEAN]
  BY DEF ContentAction, FindUser, IInv, Typed, TypeOK, subject, Taken, Restored
<1>2. /\ UNCHANGED <<rows, author, loggedIn, enforced, raced, cut, unended>>
      /\ OthersLogOut(c)
      /\ lifted \subseteq lifted' /\ lifted' \subseteq Reports
      /\ raced \subseteq Reports /\ cut \subseteq {"filing", "review"}
      /\ piece' \in [status : {"published", "archived"}, deleted : BOOLEAN]
  BY <1>1, <1>1a DEF ContentAction, FindUser, OthersLogOut, IInv, Typed, TypeOK, subject
<1>3. CASE Method(c) = "restore"
  <2>1. End(c) /\ pc[c] = "content" /\ UNCHANGED lifted
    BY <1>3 DEF ContentAction, FindUser, IInv, Processes, Calling, Does
  <2>2. Typed'
    BY <1>2, <2>1, EndKeeps DEF IInv, Typed, TypeOK, Calls
  <2>3. Calling(c)' /\ Effective(c)' /\ Appealing(c)'
    BY <1>2, <2>1, EndKeeps
       DEF IInv, Calling, Effective, Appealing, Does, Early, NoCall, NoReport, Method, R,
           Reviewing, Filing, Reviews, Account, Content
  <2>4. pc'[c] # "finish" /\ ~Filing(c)' /\ ~Reviewing(c)' /\ ~Filing(c)
    BY <2>1, EndKeeps DEF IInv, Filing, Reviewing, NoCall, Method, Reviews
  <2>5. QED
    BY <1>2, <2>1, <2>2, <2>3, <2>4, EndKeeps, ReadingKeeps DEF IInv
<1>4. CASE Method(c) # "restore"
  <2>1. PICK p \in {"save", "logout", "check"} :
          /\ Goto(c, p) /\ Keep
          /\ p = "save" => /\ Method(c) = "resolve" => pc[c] = "content"
                           /\ Method(c) = "approve" => R(c) \in lifted'
          /\ p = "logout" => Method(c) = "resolve"
    BY <1>1, <1>4 DEF ContentAction, FindUser, AfterEffect, AfterUser, IInv, Typed, TypeOK, Processes, Calling, Does
  <2>2. /\ pc' \in [Procs -> Steps] /\ call' \in [Procs -> Calls] /\ got' \in [Procs -> Row]
        /\ base' \in [Procs -> Row]
        /\ pc'[c] = p /\ call'[c] = call[c] /\ got'[c] = got[c] /\ Alone(c)
    BY <2>1, GotoKeeps DEF IInv, Steps
  <2>3. Typed'
    BY <1>2, <2>2 DEF IInv, Typed, TypeOK, Calls
  <2>4. pc[c] \in {"content", "user"}
    BY DEF ContentAction, FindUser
  <2>5. Calling(c)'
    BY <1>1, <1>4, <2>1, <2>2, <2>4 DEF IInv, Processes, Calling, Does, Early, Method, R, Reviews
  <2>6. Effective(c)'
    <3>1. Method(c) = "resolve" /\ p = "save" => call[c].arg \notin Account
      BY <2>1 DEF IInv, Processes, Effective, Content, Account
    <3>2. QED
      BY <1>2, <2>1, <2>2, <3>1 DEF IInv, Processes, Effective, Method, R
  <2>7. Appealing(c)'
    BY <1>1, <1>2, <1>4, <2>1, <2>2, <2>4
       DEF IInv, Processes, Appealing, Reviewing, Filing, Method, R
  <2>8. pc'[c] # "finish" /\ ~Filing(c)' /\ (Reviewing(c)' => Reviewing(c) /\ R(c)' = R(c)) /\ ~Filing(c)
    BY <1>1, <2>1, <2>2, <2>4 DEF Filing, Reviewing, Method, R
  <2>9. QED
    BY <1>2, <2>2, <2>3, <2>4, <2>5, <2>6, <2>7, <2>8, ReadingKeeps
<1>5. QED
  BY <1>3, <1>4

\* A call changes the account.
LEMMA AccountKeeps ==
  ASSUME IInv, requests' \in Nat, NEW c \in Procs, SetStatus(c) \/ LogoutAll(c)
  PROVE  IInv'
<1> USE DEF rows
<1>1. /\ Method(c) \in {"resolve", "approve", "suspend", "unsuspend", "patch"}
      /\ Method(c) \in {"resolve", "approve"} => R(c) \in Reports
      /\ pc[c] = "logout" => Method(c) \in {"resolve", "suspend"}
      /\ pc[c] \in {"status", "logout"}
  BY DEF IInv, Processes, Calling, SetStatus, LogoutAll, Does, AccountMethods
<1>2. /\ UNCHANGED <<report, reporter, appeal, piece, raced, cut>>
      /\ enforced \subseteq enforced' /\ lifted \subseteq lifted'
      /\ enforced' \subseteq Reports /\ lifted' \subseteq Reports
      /\ author' \in {"active", "suspended"} /\ loggedIn' \in BOOLEAN /\ unended' \in BOOLEAN
  BY <1>1 DEF SetStatus, LogoutAll, IInv, Typed, TypeOK, Target, Suspends
<1>3. /\ pc' \in [Procs -> Steps] /\ call' \in [Procs -> Calls] /\ got' \in [Procs -> Row]
      /\ base' \in [Procs -> Row]
      /\ Alone(c)
      /\ \/ pc'[c] = "idle" /\ call'[c] = NoCall /\ got'[c] = NoReport
         \/ /\ pc'[c] \in {"save", "logout"} /\ call'[c] = call[c] /\ got'[c] = got[c]
            /\ pc'[c] = "logout" => Method(c) \in {"resolve", "suspend"}
            /\ pc'[c] = "save" => \/ Method(c) = "resolve" /\ R(c) \in enforced'
                                  \/ Method(c) = "approve" /\ R(c) \in lifted'
  <2>1. CASE End(c)
    BY <2>1, EndKeeps DEF IInv
  <2>2. CASE ~End(c)
    <3>1. PICK p \in {"save", "logout"} :
            /\ Goto(c, p) /\ Keep
            /\ p = "logout" => Method(c) \in {"resolve", "suspend"}
            /\ p = "save" => \/ Method(c) = "resolve" /\ R(c) \in enforced'
                             \/ Method(c) = "approve" /\ R(c) \in lifted'
      BY <1>1, <2>2 DEF SetStatus, LogoutAll, AfterStatus, AfterEffect, Suspends
    <3>2. QED
      BY <3>1, GotoKeeps DEF IInv, Steps
  <2>3. QED
    BY <2>1, <2>2
<1>4. Typed'
  BY <1>2, <1>3 DEF IInv, Typed, TypeOK, Calls
<1>5. Calling(c)' /\ Effective(c)' /\ Appealing(c)'
  <2>1. CASE pc'[c] = "idle"
    BY <1>3, <2>1
       DEF IInv, Calling, Effective, Appealing, Does, Early, NoCall, NoReport, Method, R,
           Reviewing, Filing, Reviews, Account, Content
  <2>2. CASE pc'[c] # "idle"
    BY <1>1, <1>2, <1>3, <2>2
       DEF IInv, Processes, Calling, Effective, Appealing, Does, Early, Method, R, Reviewing,
           Filing, Reviews
  <2>3. QED
    BY <2>1, <2>2
<1>6. Processes'
  <2>1. ASSUME NEW d \in Procs, d # c PROVE Calling(d)' /\ Effective(d)' /\ Appealing(d)'
    BY <1>2, <1>3, <2>1
       DEF IInv, Processes, Calling, Effective, Appealing, Alone, Method, R, Reviewing, Filing
  <2>2. /\ ~Filing(c)' /\ pc'[c] # "finish" /\ (Reviewing(c)' => Reviewing(c) /\ R(c)' = R(c))
    BY <1>1, <1>3 DEF Filing, Reviewing, Method, R, NoCall, Reviews
  <2>3. ASSUME NEW d \in Procs, NEW e \in Procs PROVE Apart(d, e)'
    BY <1>2, <1>3, <2>2 DEF IInv, Processes, Apart, Alone, Method, R, Reviewing, Filing
  <2>4. QED
    BY <1>5, <2>1, <2>3 DEF Processes
<1>7. EnforcedBeforeRecorded' /\ StatusMatchesResolution' /\ AppealedAwaitsReview'
  BY <1>1, <1>2, <1>3
     DEF IInv, Rows, EnforcedBeforeRecorded, StatusMatchesResolution, AppealedAwaitsReview, Alone, R
<1>8. SuspensionLogsOut'
  <2>1. CASE SetStatus(c)
    BY <1>3, <2>1 DEF SetStatus, Target, Suspends, AfterStatus, SuspensionLogsOut, Goto, IInv,
                      Typed, TypeOK
  <2>2. CASE LogoutAll(c)
    BY <2>2 DEF LogoutAll, SuspensionLogsOut
  <2>3. QED
    BY <2>1, <2>2
<1>9. AppealMarked'
  BY <1>1, <1>2, <1>3 DEF IInv, Rows, AppealMarked, Alone, R, BeingFiled, Finishing, Filing, Method
<1>10. QED
  BY <1>4, <1>6, <1>7, <1>8, <1>9 DEF IInv, Rows

\* A session ends or begins.
LEMMA SessionKeeps ==
  ASSUME IInv, requests' \in Nat, NEW c \in Procs, RevokeAll(c) \/ Issue(c)
  PROVE  IInv'
<1>1. /\ UNCHANGED <<rows, piece, author, enforced, lifted, raced, cut>>
      /\ loggedIn' \in BOOLEAN /\ unended' \in BOOLEAN /\ OthersLogOut(c)
      /\ raced \subseteq Reports /\ cut \subseteq {"filing", "review"}
      /\ pc[c] \in {"revoke", "issue"}
  BY DEF RevokeAll, Issue, OthersLogOut, IInv, Typed, TypeOK
<1>2. CASE Issue(c)
  BY <1>1, <1>2, EndingKeeps DEF Issue, Filing
<1>3. CASE RevokeAll(c)
  <2>1. /\ pc' \in [Procs -> Steps] /\ call' \in [Procs -> Calls] /\ got' \in [Procs -> Row]
        /\ base' \in [Procs -> Row]
        /\ pc'[c] = "issue" /\ call'[c] = call[c] /\ got'[c] = got[c] /\ Alone(c)
    BY <1>3, GotoKeeps DEF RevokeAll, IInv, Steps
  <2>2. Typed'
    BY <1>1, <2>1 DEF IInv, Typed, TypeOK, rows, Calls
  <2>3. Method(c) = "changePassword" /\ pc[c] = "revoke"
    BY <1>3 DEF RevokeAll, IInv, Processes, Calling, Does
  <2>4. Calling(c)' /\ Effective(c)' /\ Appealing(c)'
    BY <1>1, <2>1, <2>3
       DEF IInv, Processes, Calling, Effective, Appealing, Does, Early, Method, R, Reviewing,
           Filing, rows, Reviews, AccountMethods
  <2>5. pc'[c] # "finish" /\ ~Filing(c)' /\ ~Reviewing(c)' /\ ~Filing(c)
    BY <2>1, <2>3 DEF Filing, Reviewing, Method, Reviews
  <2>6. QED
    BY <1>1, <2>1, <2>2, <2>3, <2>4, <2>5, ReadingKeeps
<1>4. QED
  BY <1>2, <1>3

\* A new report: nobody works on it yet but those who work on none.
LEMMA InsertKeeps == ASSUME IInv, requests' \in Nat, NEW c \in Procs, Insert(c) PROVE IInv'
<1> USE DEF subject, history
<1>1. PICK r \in Reports :
        /\ report[r].status = "none"
        /\ report' = [report EXCEPT ![r] = [NoReport EXCEPT !.status = "pending"]]
        /\ reporter' = [reporter EXCEPT ![r] = call[c].arg]
  BY DEF Insert
<1>2. End(c) /\ pc[c] = "insert" /\ call[c].arg \in Reporters
      /\ UNCHANGED <<appeal, piece, author, loggedIn, enforced, lifted, raced, cut, unended>>
  BY DEF Insert, IInv, Processes, Calling, Does
<1>3. [NoReport EXCEPT !.status = "pending"] = [status |-> "pending", resolution |-> "null"]
  BY DEF NoReport
<1>4. report'[r] = [status |-> "pending", resolution |-> "null"] /\ report' \in [Reports -> Row]
      /\ \A q \in Reports \ {r} : report'[q] = report[q]
  BY <1>1, <1>3 DEF IInv, Typed, TypeOK, Row, Open
<1>5. Typed'
  BY <1>1, <1>2, <1>4, EndKeeps DEF IInv, Typed, TypeOK, Calls
<1>6. Processes'
  <2>1. Calling(c)' /\ Effective(c)' /\ Appealing(c)'
    BY <1>2, EndKeeps
       DEF IInv, Calling, Effective, Appealing, Does, Early, NoCall, NoReport, Method, R,
           Reviewing, Filing, Reviews, Account, Content
  <2>2. ASSUME NEW d \in Procs, d # c PROVE Calling(d)' /\ Effective(d)' /\ Appealing(d)'
    <3>1. pc[d] = "finish" => R(d) \in Reports
      BY DEF IInv, Processes, Calling, Does, Reviews, AccountMethods
    <3>2. QED
      BY <1>2, <1>4, <2>2, <3>1, EndKeeps
         DEF IInv, Processes, Calling, Effective, Appealing, Alone, Method, R, Reviewing, Filing
  <2>3. ~Filing(c)' /\ pc'[c] # "finish" /\ ~Reviewing(c)'
    BY <1>2, EndKeeps DEF IInv, Filing, Reviewing, Method, NoCall, Reviews
  <2>4. ASSUME NEW d \in Procs, NEW e \in Procs PROVE Apart(d, e)'
    BY <1>2, <2>3, EndKeeps DEF IInv, Processes, Apart, Alone, Method, R, Reviewing, Filing
  <2>5. QED
    BY <2>1, <2>2, <2>4 DEF Processes
<1>7. EnforcedBeforeRecorded' /\ StatusMatchesResolution'
  BY <1>2, <1>4 DEF IInv, Rows, EnforcedBeforeRecorded, StatusMatchesResolution, Account, Open
<1>8. SuspensionLogsOut'
  BY <1>2, EndKeeps DEF IInv, Rows, SuspensionLogsOut, Alone
<1>9. /\ \A d \in Procs : pc[d] \in {"save", "write", "finish"} => pc'[d] = pc[d] /\ call'[d] = call[d]
      /\ \A q \in Reports : report[q].status = "appealed" <=> report'[q].status = "appealed"
  BY <1>1, <1>2, <1>4, EndKeeps DEF IInv, Alone
<1>10. AppealedAwaitsReview'
  BY <1>2, <1>9 DEF IInv, Rows, AppealedAwaitsReview, R
<1>11. AppealMarked'
  BY <1>2, <1>9 DEF IInv, Rows, AppealMarked, R, BeingFiled, Finishing, Method
<1>12. QED
  BY <1>5, <1>6, <1>7, <1>8, <1>10, <1>11 DEF IInv, Rows

\* An appeal is filed: it is the first, so nobody reviews it.
LEMMA FileKeeps == ASSUME IInv, requests' \in Nat, NEW c \in Procs, FileAppeal(c) PROVE IInv'
<1> USE DEF subject, history
<1>1. R(c) \in Reports /\ Method(c) = "appeal" /\ pc[c] = "file"
  BY DEF FileAppeal, IInv, Processes, Calling, Does, Reviews, AccountMethods
<1>2. CASE appeal[R(c)] # "none"
  <2>1. raced \subseteq Reports /\ cut \subseteq {"filing", "review"}
    BY DEF IInv, Typed, TypeOK
  <2>2. QED
    BY <1>1, <1>2, <2>1, EndingKeeps DEF FileAppeal, rows, Filing, OthersLogOut, IInv, Typed, TypeOK
<1>3. CASE appeal[R(c)] = "none"
  <2>1. /\ appeal' = [appeal EXCEPT ![R(c)] = "pending"] /\ Goto(c, "save") /\ Keep
        /\ UNCHANGED <<report, reporter, piece, author, loggedIn, enforced, lifted, raced, cut, unended>>
    BY <1>3 DEF FileAppeal
  <2>2. /\ pc' \in [Procs -> Steps] /\ call' \in [Procs -> Calls] /\ got' \in [Procs -> Row]
        /\ base' \in [Procs -> Row]
        /\ pc'[c] = "save" /\ call'[c] = call[c] /\ got'[c] = got[c] /\ Alone(c)
    BY <2>1, GotoKeeps DEF IInv, Steps
  <2>3. appeal'[R(c)] = "pending" /\ \A r \in Reports \ {R(c)} : appeal'[r] = appeal[r]
    BY <1>1, <2>1 DEF IInv, Typed, TypeOK
  <2>4. Typed'
    BY <1>1, <2>1, <2>2 DEF IInv, Typed, TypeOK, Calls
  <2>5. \A d \in Procs : Reviewing(d) => R(d) # R(c)
    BY <1>3 DEF IInv, Processes, Appealing
  <2>6. Calling(c)' /\ Effective(c)' /\ Appealing(c)'
    BY <1>1, <2>1, <2>2, <2>3
       DEF IInv, Processes, Calling, Effective, Appealing, Does, Early, Method, R, Reviewing,
           Filing, Reviews
  <2>7. ASSUME NEW d \in Procs, d # c PROVE Calling(d)' /\ Effective(d)' /\ Appealing(d)'
    <3>1. Reviewing(d) \/ Filing(d) => R(d) \in Reports
      BY DEF IInv, Processes, Calling, Reviewing, Filing, Reviews, AccountMethods
    <3>2. QED
      BY <2>1, <2>2, <2>3, <2>5, <2>7, <3>1
         DEF IInv, Processes, Calling, Effective, Appealing, Alone, Method, R, Reviewing, Filing
  <2>8. ASSUME NEW d \in Procs, NEW e \in Procs PROVE Apart(d, e)'
    <3>1. pc[e] = "finish" => Reviewing(e)
      BY DEF IInv, Processes, Calling, Does, Reviewing
    <3>2. ~Reviewing(c)' /\ R(c)' = R(c)
      BY <1>1, <2>2 DEF Reviewing, Method, R, Reviews
    <3>3. QED
      BY <2>1, <2>2, <2>5, <3>1, <3>2 DEF IInv, Processes, Apart, Alone, Method, R, Reviewing, Filing
  <2>9. Processes'
    BY <2>6, <2>7, <2>8 DEF Processes
  <2>10. EnforcedBeforeRecorded' /\ StatusMatchesResolution'
    BY <2>1 DEF IInv, Rows, EnforcedBeforeRecorded, StatusMatchesResolution
  <2>11. SuspensionLogsOut'
    BY <1>1, <2>1, <2>2 DEF IInv, Rows, SuspensionLogsOut, Alone
  <2>12. AppealedAwaitsReview'
    BY <1>1, <2>1, <2>2, <2>3 DEF IInv, Rows, AppealedAwaitsReview, Alone, R
  <2>13. AppealMarked'
    <3>1. \A d \in Procs : pc[d] \in {"save", "write", "finish"} => pc'[d] = pc[d] /\ call'[d] = call[d]
      BY <1>1, <2>2 DEF Alone
    <3>2. QED
      BY <1>1, <2>1, <2>2, <2>3, <3>1 DEF IInv, Rows, AppealMarked, BeingFiled, Finishing, Method, R
  <2>14. QED
    BY <2>4, <2>9, <2>10, <2>11, <2>12, <2>13 DEF IInv, Rows
<1>4. QED
  BY <1>2, <1>3

Consistent(row) == row.resolution = "null" <=> row.status \in Open \cup {"none"}

\* What each method makes of the row it has loaded.
LEMMA DecidedRow ==
  ASSUME Typed, NEW c \in Procs, Calling(c), Effective(c), pc[c] = "write",
         NEW row, row = Decided(Method(c), got[c], call[c].arg)
  PROVE  /\ row \in Row /\ Method(c) \in Does("write") /\ R(c) \in Reports
         /\ row.resolution \in Account => R(c) \in enforced
         /\ row.status = "appealed" =>
              Method(c) \notin Reviews /\ (Filing(c) \/ got[c].status = "appealed")
         /\ Method(c) \in Reviews => row.status = "resolved" /\ row.resolution = got[c].resolution
         /\ got[c].status = "appealed" /\ Method(c) \notin Reviews => row.status = "appealed"
         /\ Filing(c) => row.status = "appealed"
         /\ Method(c) \notin Reviews /\ Consistent(got[c]) => Consistent(row)
<1> DEFINE m == Method(c)
           g == got[c]
<1>1. /\ m \in {"triage", "priority", "resolve", "reopen", "appeal", "approve", "reject"}
      /\ m \in Does("write") /\ R(c) \in Reports
  BY DEF Calling, Does, Reviews, AccountMethods
<1>2. g \in Row /\ g = [status |-> g.status, resolution |-> g.resolution]
  BY DEF Typed, TypeOK, Row
<1>3. CASE m = "triage"
  <2>1. row = [status |-> IF g.status = "pending" THEN "reviewing" ELSE g.status,
               resolution |-> g.resolution]
    BY <1>2, <1>3 DEF Decided, Row, Reviews
  <2>2. QED
    BY <1>1, <1>2, <1>3, <2>1 DEF Row, Reviews, Consistent, Filing, Open, Effective
<1>4. CASE m = "resolve"
  <2>1. row = [status |-> IF call[c].arg = "dismissed" THEN "dismissed" ELSE "resolved",
               resolution |-> call[c].arg]
    BY <1>4 DEF Decided, Reviews
  <2>2. call[c].arg \in Resolutions /\ call[c].arg # "null" /\ g.status # "appealed"
    BY <1>4 DEF Calling, Early, Refuses, PUNITIVE, Content, Account
  <2>3. QED
    BY <1>1, <1>2, <1>4, <2>1, <2>2 DEF Row, Reviews, Consistent, Filing, Open, Settled, Effective
<1>5. CASE m = "reopen"
  <2>1. row = [status |-> "reviewing", resolution |-> "null"] /\ g.status # "appealed"
    BY <1>5 DEF Decided, Calling, Early, Refuses, Settled, Reviews
  <2>2. QED
    BY <1>1, <1>5, <2>1 DEF Row, Reviews, Consistent, Filing, Open, Account
<1>6. CASE m = "appeal"
  <2>1. row = [status |-> "appealed", resolution |-> g.resolution]
    BY <1>2, <1>6 DEF Decided, Row, Reviews
  <2>2. g.resolution # "null"
    BY <1>6 DEF Calling, Early, Refuses, PUNITIVE, Content, Account
  <2>3. QED
    BY <1>1, <1>2, <1>6, <2>1, <2>2 DEF Row, Reviews, Consistent, Filing, Open, Effective
<1>7. CASE m \in Reviews
  <2>1. row = [status |-> "resolved", resolution |-> g.resolution]
    BY <1>2, <1>7 DEF Decided, Row, Reviews
  <2>2. QED
    BY <1>1, <1>2, <1>7, <2>1 DEF Row, Reviews, Filing, Settled, Effective
<1>8. CASE m = "priority"
  <2>1. row = g
    BY <1>8 DEF Decided, Reviews
  <2>2. QED
    BY <1>1, <1>2, <1>8, <2>1 DEF Reviews, Filing, Effective
<1>9. QED
  BY <1>1, <1>3, <1>4, <1>5, <1>6, <1>7, <1>8 DEF Reviews

\* What the update makes of a row.
LEMMA PatchedRow ==
  ASSUME NEW row \in Row, NEW b \in Row, NEW entity \in Row
  PROVE  /\ Patched(row, b, entity) \in Row
         /\ Patched(row, b, entity).resolution \in {row.resolution, entity.resolution}
         /\ row = b => Patched(row, b, entity) = entity
<1>1. DOMAIN row = {"status", "resolution"}
  BY DEF Row
<1>2. Patched(row, b, entity)
        = [status |-> IF entity.status = b.status THEN row.status ELSE entity.status,
           resolution |-> IF entity.resolution = b.resolution THEN row.resolution
                          ELSE entity.resolution]
  BY <1>1 DEF Patched
<1>3. entity = [status |-> entity.status, resolution |-> entity.resolution]
  BY DEF Row
<1> HIDE DEF Patched
<1>4. QED
  BY <1>2, <1>3 DEF Row

\* A save keeps what is said of its report, or is over a row that has changed.
LEMMA WriteKeeps == ASSUME IInv, requests' \in Nat, NEW c \in Procs, WriteReport(c) PROVE IInv'
<1> USE DEF subject
<1> DEFINE r == R(c)
           own == Decided(Method(c), got[c], call[c].arg)
           row == Patched(report[r], base[c], own)
<1>1. /\ own \in Row /\ Method(c) \in Does("write") /\ r \in Reports
      /\ own.resolution \in Account => r \in enforced
      /\ own.status = "appealed" =>
           Method(c) \notin Reviews /\ (Filing(c) \/ got[c].status = "appealed")
      /\ Method(c) \in Reviews => own.status = "resolved" /\ own.resolution = got[c].resolution
      /\ got[c].status = "appealed" /\ Method(c) \notin Reviews => own.status = "appealed"
      /\ Filing(c) => own.status = "appealed"
      /\ Method(c) \notin Reviews /\ Consistent(got[c]) => Consistent(own)
  BY DecidedRow DEF IInv, Processes, WriteReport
<1>2. /\ report' = [report EXCEPT ![r] = row]
      /\ pc[c] = "write"
      /\ UNCHANGED <<reporter, appeal, piece, author, loggedIn, enforced, lifted, cut, unended>>
  BY DEF WriteReport
<1>2a. raced' = IF {report[r], base[c]} # {got[c]} \/ (Method(c) \in Reviews /\ BeingFiled(r))
                  THEN raced \cup {r} ELSE raced
  BY DEF WriteReport
<1> HIDE DEF row, own
<1>2b. /\ row \in Row
       /\ row.resolution \in Account => r \in enforced
       /\ report[r] = base[c] => row = own
  <2>1. report[r] \in Row /\ base[c] \in Row
    BY <1>1 DEF IInv, Typed, TypeOK
  <2>2. /\ row \in Row /\ row.resolution \in {report[r].resolution, own.resolution}
        /\ report[r] = base[c] => row = own
    BY <1>1, <2>1, PatchedRow DEF row
  <2>3. report[r].resolution \in Account => r \in enforced
    BY <1>1 DEF IInv, Rows, EnforcedBeforeRecorded
  <2>4. QED
    BY <1>1, <2>2, <2>3
<1>3. /\ report'[r] = row /\ \A q \in Reports \ {r} : report'[q] = report[q]
      /\ report' \in [Reports -> Row]
      /\ raced \subseteq raced' /\ raced' \subseteq Reports
      /\ r \notin raced' => /\ report[r] = got[c] /\ row = own
                           /\ ~(Method(c) \in Reviews /\ BeingFiled(r))
      /\ \A q \in Reports \ {r} : q \in raced' => q \in raced
  BY <1>1, <1>2, <1>2a, <1>2b DEF IInv, Typed, TypeOK
<1>4. /\ pc' \in [Procs -> Steps] /\ call' \in [Procs -> Calls] /\ got' \in [Procs -> Row]
      /\ base' \in [Procs -> Row]
      /\ Alone(c)
      /\ \/ /\ Method(c) \notin Reviews
            /\ pc'[c] = "idle" /\ call'[c] = NoCall /\ got'[c] = NoReport
         \/ /\ Method(c) \in Reviews
            /\ pc'[c] = "finish" /\ call'[c] = call[c] /\ got'[c] = got[c]
  <2>1. CASE Method(c) \in Reviews
    BY <2>1, GotoKeeps DEF WriteReport, IInv, Steps
  <2>2. CASE Method(c) \notin Reviews
    BY <2>2, EndKeeps DEF WriteReport, IInv
  <2>3. QED
    BY <2>1, <2>2
<1>5. Typed'
  BY <1>2, <1>3, <1>4 DEF IInv, Typed, TypeOK, Calls
<1>6. Calling(c)' /\ Effective(c)' /\ Appealing(c)'
  <2>1. CASE Method(c) \notin Reviews
    BY <1>4, <2>1
       DEF IInv, Calling, Effective, Appealing, Does, Early, NoCall, NoReport, Method, R,
           Reviewing, Filing, Reviews, Account, Content
  <2>2. CASE Method(c) \in Reviews
    BY <1>1, <1>2, <1>3, <1>4, <2>2
       DEF IInv, Processes, Calling, Effective, Appealing, Does, Early, Method, R, Reviewing,
           Filing, Reviews
  <2>3. QED
    BY <2>1, <2>2
<1>7. ASSUME NEW d \in Procs, d # c PROVE Calling(d)' /\ Effective(d)' /\ Appealing(d)'
  <2>1. pc'[d] = pc[d] /\ call'[d] = call[d] /\ got'[d] = got[d]
    BY <1>4, <1>7 DEF Alone
  <2>2. Calling(d)' /\ Effective(d)'
    BY <1>2, <2>1 DEF IInv, Processes, Calling, Effective, Method, R
  <2>3. pc[d] = "finish" => R(d) \in Reports
    BY DEF IInv, Processes, Calling, Does, Reviews, AccountMethods
  <2>4. pc[d] = "finish" /\ R(d) = r /\ r \notin raced' => row.status # "appealed"
    BY <1>1, <1>3, <1>7 DEF IInv, Processes, Appealing, Apart
  <2>5. Appealing(d)'
    BY <1>2, <1>3, <2>1, <2>3, <2>4 DEF IInv, Processes, Appealing, Reviewing, Filing, Method, R
  <2>6. QED
    BY <2>2, <2>5
<1>8. ASSUME NEW d \in Procs, NEW e \in Procs PROVE Apart(d, e)'
  <2>1. ~Filing(c)' /\ (Reviewing(c)' => Reviewing(c) /\ R(c)' = r)
    BY <1>2, <1>4 DEF Filing, Reviewing, Method, R, NoCall, Reviews
  <2>2. ASSUME pc'[c] = "finish", Filing(d), d # c, R(d) = r PROVE r \in raced'
    BY <1>3, <1>4, <2>2 DEF BeingFiled, Filing
  <2>3. pc'[c] = "finish" => R(c)' = r
    BY <1>4 DEF R
  <2>4. QED
    BY <1>3, <1>4, <2>1, <2>2, <2>3 DEF IInv, Processes, Apart, Alone, Method, R, Reviewing, Filing
<1>9. Processes'
  BY <1>6, <1>7, <1>8 DEF Processes
<1>10. EnforcedBeforeRecorded' /\ SuspensionLogsOut'
  BY <1>1, <1>2, <1>2b, <1>3, <1>4 DEF IInv, Rows, EnforcedBeforeRecorded, SuspensionLogsOut, Alone
<1>11. AppealedAwaitsReview'
  <2>1. ASSUME r \notin raced', row.status = "appealed"
        PROVE  appeal[r] = "pending" \/ Finishing(r)
    BY <1>1, <1>3, <2>1 DEF IInv, Processes, Appealing, Rows, AppealedAwaitsReview, Finishing
  <2>2. \A d \in Procs : pc[d] = "finish" => pc'[d] = "finish" /\ call'[d] = call[d]
    BY <1>2, <1>4 DEF Alone
  <2>3. QED
    BY <1>2, <1>3, <2>1, <2>2 DEF IInv, Rows, AppealedAwaitsReview, Finishing, R
<1>12. AppealMarked'
  <2>1. /\ \A d \in Procs : pc[d] = "finish" => pc'[d] = "finish" /\ call'[d] = call[d]
        /\ \A d \in Procs \ {c} : pc'[d] = pc[d] /\ call'[d] = call[d]
    BY <1>2, <1>4 DEF Alone
  <2>2. Method(c) \in Reviews => pc'[c] = "finish" /\ call'[c] = call[c]
    BY <1>4
  <2>3. ASSUME r \notin raced', Method(c) \notin Reviews
        PROVE  Filing(c) \/ report[r].status = "appealed" => row.status = "appealed"
    BY <1>1, <1>3, <2>3
  <2>4. QED
    BY <1>2, <1>3, <2>1, <2>2, <2>3
       DEF IInv, Rows, AppealMarked, BeingFiled, Finishing, Method, R, Filing
<1>13. StatusMatchesResolution'
  <2>1. ASSUME cut = {}, r \notin raced'
        PROVE  Consistent(row)
    <3>1. report[r] = got[c] /\ r \notin raced /\ Consistent(got[c])
      BY <1>1, <1>3, <2>1 DEF IInv, Rows, StatusMatchesResolution, Consistent
    <3>2. CASE Method(c) \notin Reviews
      BY <1>1, <1>3, <2>1, <3>1, <3>2
    <3>3. CASE Method(c) \in Reviews
      <4>1. appeal[r] = "pending"
        BY <1>2, <3>1, <3>3 DEF IInv, Processes, Appealing, Reviewing
      <4>2. ~Finishing(r)
        <5>1. ASSUME NEW d \in Procs, pc[d] = "finish", R(d) = r PROVE FALSE
          <6>1. Reviewing(d) /\ Reviewing(c) /\ c # d
            BY <1>2, <3>3, <5>1 DEF IInv, Processes, Calling, Does, Reviewing
          <6>2. QED
            BY <3>1, <5>1, <6>1 DEF IInv, Processes, Apart
        <5>2. QED
          BY <5>1 DEF Finishing
      <4>3. ~BeingFiled(r)
        BY <1>3, <2>1, <3>3
      <4>4. report[r].status = "appealed"
        BY <1>1, <2>1, <3>1, <4>1, <4>2, <4>3 DEF IInv, Rows, AppealMarked
      <4>5. got[c].resolution # "null"
        BY <3>1, <4>4 DEF Consistent, Open
      <4>6. QED
        BY <1>1, <1>3, <2>1, <3>3, <4>5 DEF Consistent, Open
    <3>4. QED
      BY <3>2, <3>3
  <2>2. QED
    BY <1>2, <1>3, <2>1 DEF IInv, Rows, StatusMatchesResolution, Consistent
<1>14. QED
  BY <1>5, <1>9, <1>10, <1>11, <1>12, <1>13 DEF IInv, Rows

\* The verdict: nobody else reviews or files the appeal.
LEMMA FinishKeeps == ASSUME IInv, requests' \in Nat, NEW c \in Procs, FinishReview(c) PROVE IInv'
<1> USE DEF subject, history
<1> DEFINE r == R(c)
<1>1. /\ pc[c] = "finish" /\ Method(c) \in Reviews /\ r \in Reports /\ Reviewing(c)
      /\ UNCHANGED <<report, reporter, piece, author, loggedIn, enforced, lifted, raced, cut,
                     unended>>
  BY DEF FinishReview, IInv, Processes, Calling, Does, Reviews, Reviewing, AccountMethods
<1>2. /\ appeal'[r] \in {"approved", "rejected"} /\ \A q \in Reports \ {r} : appeal'[q] = appeal[q]
      /\ appeal' \in [Reports -> {"none", "pending", "approved", "rejected"}]
  BY <1>1 DEF FinishReview, IInv, Typed, TypeOK
<1>3. /\ pc' \in [Procs -> Steps] /\ call' \in [Procs -> Calls] /\ got' \in [Procs -> Row]
      /\ base' \in [Procs -> Row]
      /\ pc'[c] = "idle" /\ call'[c] = NoCall /\ got'[c] = NoReport /\ Alone(c)
  BY EndKeeps DEF FinishReview, IInv
<1>4. Typed'
  BY <1>1, <1>2, <1>3 DEF IInv, Typed, TypeOK, Calls
<1>5. Calling(c)' /\ Effective(c)' /\ Appealing(c)'
  BY <1>3 DEF Calling, Effective, Appealing, Does, Early, NoCall, NoReport, Method, R,
              Reviewing, Filing, Reviews, Account, Content
<1>6. ASSUME NEW d \in Procs, d # c PROVE Calling(d)' /\ Effective(d)' /\ Appealing(d)'
  <2>1. pc'[d] = pc[d] /\ call'[d] = call[d] /\ got'[d] = got[d]
    BY <1>3, <1>6 DEF Alone
  <2>2. Calling(d)' /\ Effective(d)'
    BY <1>1, <2>1 DEF IInv, Processes, Calling, Effective, Method, R
  <2>3. Reviewing(d) \/ Filing(d) => R(d) \in Reports
    BY DEF IInv, Processes, Calling, Reviewing, Filing, Reviews, AccountMethods
  <2>4. (Reviewing(d) \/ Filing(d)) /\ R(d) \notin raced => R(d) # r
    BY <1>1, <1>6 DEF IInv, Processes, Apart
  <2>5. Appealing(d)'
    BY <1>1, <1>2, <2>1, <2>3, <2>4 DEF IInv, Processes, Appealing, Reviewing, Filing, Method, R
  <2>6. QED
    BY <2>2, <2>5
<1>7. ASSUME NEW d \in Procs, NEW e \in Procs PROVE Apart(d, e)'
  <2>1. ~Filing(c)' /\ pc'[c] # "finish" /\ ~Reviewing(c)'
    BY <1>3 DEF Filing, Reviewing, Method, NoCall, Reviews
  <2>2. QED
    BY <1>1, <1>3, <2>1 DEF IInv, Processes, Apart, Alone, Method, R, Reviewing, Filing
<1>8. Processes'
  BY <1>5, <1>6, <1>7 DEF Processes
<1>9. EnforcedBeforeRecorded' /\ StatusMatchesResolution'
  BY <1>1 DEF IInv, Rows, EnforcedBeforeRecorded, StatusMatchesResolution
<1>10. SuspensionLogsOut'
  BY <1>1, <1>3 DEF IInv, Rows, SuspensionLogsOut, Alone
<1>11. r \notin raced => report[r].status # "appealed"
  BY <1>1 DEF IInv, Processes, Appealing
<1>12. \A d \in Procs \ {c} : pc'[d] = pc[d] /\ call'[d] = call[d]
  BY <1>3 DEF Alone
<1>13. AppealedAwaitsReview'
  BY <1>1, <1>2, <1>11, <1>12 DEF IInv, Rows, AppealedAwaitsReview, R
<1>14. AppealMarked'
  BY <1>1, <1>2, <1>12 DEF IInv, Rows, AppealMarked, BeingFiled, Finishing, Method, R
<1>15. QED
  BY <1>4, <1>8, <1>9, <1>10, <1>13, <1>14 DEF IInv, Rows

\* What the author does, and nothing at all.
LEMMA AuthorKeeps ==
  ASSUME IInv, requests' \in Nat, Unarchive \/ UNCHANGED vars
  PROVE  IInv'
<1>1. /\ UNCHANGED <<report, reporter, appeal, author, loggedIn, pc, call, got, base, enforced,
                     lifted, raced, cut, unended>>
      /\ piece' \in [status : {"published", "archived"}, deleted : BOOLEAN]
  BY DEF Unarchive, vars, rows, history, IInv, Typed, TypeOK
<1>2. Typed'
  BY <1>1 DEF IInv, Typed, TypeOK
<1>3. Processes'
  BY <1>1 DEF IInv, Processes, Calling, Effective, Appealing, Apart, Method, R, Reviewing, Filing
<1>4. Rows'
  BY <1>1 DEF IInv, Rows, EnforcedBeforeRecorded, SuspensionLogsOut, AppealedAwaitsReview,
              AppealMarked, StatusMatchesResolution, BeingFiled, Finishing, Method, R
<1>5. QED
  BY <1>2, <1>3, <1>4 DEF IInv

\* Every step keeps the invariant.
LEMMA NextIInv == IInv /\ [Next]_vars => IInv'
<1> SUFFICES ASSUME IInv, [Next]_vars PROVE IInv'
  OBVIOUS
<1>1. requests \in Nat
  BY DEF IInv, Typed, TypeOK
<1>2. ASSUME NEW c \in Procs, Receive(c) PROVE IInv'
  BY <1>2, ReceiveKeeps
<1>3. ASSUME UNCHANGED requests, NEW c \in Procs, Step(c) PROVE IInv'
  BY <1>1, <1>3, AskingKeeps, ActingKeeps, AccountKeeps, SessionKeeps, InsertKeeps, FileKeeps,
     WriteKeeps, FinishKeeps DEF Step
<1>4. CASE UNCHANGED requests /\ Unarchive
  BY <1>1, <1>4, AuthorKeeps
<1>5. CASE UNCHANGED vars
  BY <1>1, <1>5, AuthorKeeps DEF vars
<1>6. QED
  BY <1>2, <1>3, <1>4, <1>5 DEF Next

\* IInv is an invariant.
LEMMA Invariance == Spec => []IInv
BY InitIInv, NextIInv, PTL DEF Spec
-----------------------------------------------------------------------------
\* Every variable keeps its type, whatever ReportService, ModerationService and
\* AppealsService do at a time.
THEOREM TypeCorrect == Spec => []TypeOK
BY Invariance, PTL DEF IInv, Typed

\* An appealed report has a review to wait for: AppealsService.createAppeal,
\* approve and reject.
THEOREM AppealedAlwaysAwaitsReview == Spec => []AppealedAwaitsReview
BY Invariance, PTL DEF IInv, Rows

\* Status and resolution of a report agree, unless calls raced for it or an
\* appeal was cut off half-way.
THEOREM StatusAlwaysMatches == Spec => []StatusMatchesResolution
BY Invariance, PTL DEF IInv, Rows

\* No report says that its author is suspended before ModerationService has
\* logged the author out.
THEOREM AlwaysEnforcedFirst == Spec => []EnforcedBeforeRecorded
BY Invariance, PTL DEF IInv, Rows

\* A suspended author is logged out, or about to be, but for a suspension cut off
\* before its logout or made by PATCH, and for a session issued after it:
\* suspendUser, setStatus, login, googleCallback and changePassword.
THEOREM SuspensionAlwaysLogsOut == Spec => []SuspensionLogsOut
BY Invariance, PTL DEF IInv, Rows

\* A verdict on an appeal stands unless two reviews overlap or a save crosses
\* another, and an approval undoes what it has read first: AppealsService.approve.
THEOREM VerdictsAlwaysHold == Spec => VerdictsHold
<1> DEFINE Held ==
      \A r \in Reports : appeal'[r] # appeal[r] =>
        /\ r \notin raced => appeal[r] \notin {"approved", "rejected"}
        /\ appeal'[r] = "approved" =>
             \E c \in Procs :
               /\ pc[c] = "finish" /\ R(c) = r
               /\ got[c].resolution \in Content \cup Account => r \in lifted
<1>1. IInv /\ [Next]_vars => [Held]_vars
  <2> SUFFICES ASSUME IInv, Next PROVE Held
    BY DEF vars
  <2>1. ASSUME NEW c \in Procs, FinishReview(c) PROVE Held
    <3>1. /\ pc[c] = "finish" /\ Method(c) \in Reviews /\ Reviewing(c)
          /\ appeal' = [appeal EXCEPT ![R(c)] = IF Method(c) = "approve" THEN "approved" ELSE "rejected"]
      BY <2>1 DEF FinishReview, IInv, Processes, Calling, Does, Reviewing
    <3>2. R(c) \notin raced => appeal[R(c)] = "pending"
      BY <3>1 DEF IInv, Processes, Appealing
    <3>3. Method(c) = "approve" /\ got[c].resolution \in Content \cup Account => R(c) \in lifted
      BY <3>1 DEF IInv, Processes, Effective
    <3>4. QED
      BY <3>1, <3>2, <3>3 DEF IInv, Typed, TypeOK
  <2>2. ASSUME NEW c \in Procs, FileAppeal(c) PROVE Held
    BY <2>2 DEF FileAppeal, IInv, Typed, TypeOK
  <2>3. CASE UNCHANGED appeal
    BY <2>3
  <2>4. QED
    BY <2>1, <2>2, <2>3
       DEF Next, Step, Receive, Request, Dedup, Insert, Review, Load, FindAppeal, ContentAction, FindUser,
           CheckStatus, SetStatus, LogoutAll, Admit, RevokeAll, Issue, Reread, WriteReport, Fail, Unarchive, rows
<1>2. QED
  BY <1>1, Invariance, PTL DEF Spec, VerdictsHold
=============================================================================

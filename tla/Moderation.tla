------------------------------- MODULE Moderation -------------------------------
(***************************************************************************)
(* Reports against one piece and its author, the moderators who resolve    *)
(* them, the appeals of the author, and the account actions of an admin.   *)
(*                                                                         *)
(* No method uses a transaction or a lock: it loads a report, checks it,   *)
(* applies the effect of its decision, then saves the report as it was     *)
(* loaded with its changes, whatever the row has become meanwhile: save    *)
(* reads the row again and updates the columns that differ from it.  Each  *)
(* statement on reports, appeals and users is a step; calls interleave and *)
(* may fail after each of them.  A whole content action on the piece is    *)
(* one step here (PieceLifecycle has its statements), as are logoutAll and *)
(* the issue of a session (TokenSessions).                                 *)
(***************************************************************************)
EXTENDS FiniteSets, Integers

CONSTANTS Reports,      \* report ids
          Reporters,    \* users who report the piece
          Procs,        \* processes that serve requests
          Resolutions,  \* the ReportResolutions considered
          MaxRequests,  \* bound: requests received
          None          \* no reporter, no report

Content == {"content_hidden", "content_removed"}
Account == {"user_suspended", "user_banned"}
\* Resolutions that impose something worth appealing.
PUNITIVE == Content \cup Account \cup {"user_warned"}

ASSUME ModerationConstants ==
  /\ Resolutions \subseteq PUNITIVE \cup {"no_action", "dismissed"}
  /\ MaxRequests \in Nat
  /\ None \notin Reports \cup Reporters

VARIABLES report,    \* report[r]: status and resolution of its row
          reporter,  \* reporter[r]: who filed report r
          appeal,    \* appeal[r]: status of the appeal against report r
          piece,     \* the piece row: its status, and whether it is soft-deleted
          author,    \* status of the author's account
          loggedIn,  \* the author has a session
          pc,        \* pc[c]: the statement process c executes next
          call,      \* call[c]: the method c executes and its arguments
          got,       \* got[c]: the report entity c has loaded
          base,      \* base[c]: the row its save has compared the entity with
          requests,  \* bound: the requests received so far
          enforced,  \* history: reports whose author was logged out for them
          lifted,    \* history: reports whose effect an appeal has undone
          raced,     \* history: reports saved over a row that had changed, or
                     \* whose appeal was reviewed twice at a time, or before
                     \* its filing had ended
          cut,       \* history: calls cut off after a first effect, by kind
          unended    \* history: since the author was last logged out or active, a
                     \* suspension was cut off before its logout or came by
                     \* PATCH, or a session was issued to the suspended author

vars == <<report, reporter, appeal, piece, author, loggedIn, pc, call, got, base,
          requests, enforced, lifted, raced, cut, unended>>
history == <<enforced, lifted, raced, cut, unended>>
rows == <<report, reporter, appeal>>
subject == <<piece, author, loggedIn>>

Open == {"pending", "reviewing"}
Settled == {"resolved", "dismissed"}
NoReport == [status |-> "none", resolution |-> "null"]
Row == [status : {"none", "appealed"} \cup Open \cup Settled,
        resolution : Resolutions \cup {"null"}]
\* On the author's account, without a report.
AccountMethods == {"suspend", "unsuspend", "patch", "login", "google", "changePassword"}
Methods == {"create", "triage", "priority", "resolve", "reopen", "restore",
            "appeal", "approve", "reject"} \cup AccountMethods
Reviews == {"approve", "reject"}
NoCall == [method |-> "none", report |-> None, arg |-> "none"]
Steps == {"idle", "dedup", "insert", "review", "load", "find", "file", "content",
          "user", "check", "status", "logout", "save", "write", "finish",
          "admit", "revoke", "issue"}

TypeOK ==
  /\ report \in [Reports -> Row]
  /\ reporter \in [Reports -> Reporters \cup {None}]
  /\ appeal \in [Reports -> {"none", "pending", "approved", "rejected"}]
  /\ piece \in [status : {"published", "archived"}, deleted : BOOLEAN]
  /\ author \in {"active", "suspended"}
  /\ loggedIn \in BOOLEAN
  /\ pc \in [Procs -> Steps]
  /\ \A c \in Procs : call[c].method \in Methods \cup {"none"}
  /\ got \in [Procs -> Row] /\ base \in [Procs -> Row]
  /\ requests \in Nat
  /\ enforced \subseteq Reports /\ lifted \subseteq Reports
  /\ raced \subseteq Reports
  /\ cut \subseteq {"filing", "review"} /\ unended \in BOOLEAN

Init ==
  /\ report = [r \in Reports |-> NoReport]
  /\ reporter = [r \in Reports |-> None]
  /\ appeal = [r \in Reports |-> "none"]
  /\ piece = [status |-> "published", deleted |-> FALSE]
  /\ author = "active" /\ loggedIn = TRUE
  /\ pc = [c \in Procs |-> "idle"]
  /\ call = [c \in Procs |-> NoCall]
  /\ got = [c \in Procs |-> NoReport] /\ base = [c \in Procs |-> NoReport]
  /\ requests = 0
  /\ enforced = {} /\ lifted = {} /\ raced = {} /\ cut = {} /\ unended = FALSE
-----------------------------------------------------------------------------
Goto(c, p) == pc' = [pc EXCEPT ![c] = p]
End(c) ==
  /\ Goto(c, "idle")
  /\ call' = [call EXCEPT ![c] = NoCall]
  /\ got' = [got EXCEPT ![c] = NoReport]
  /\ base' = [base EXCEPT ![c] = NoReport]
Keep == UNCHANGED <<call, got, base>>

Method(c) == call[c].method
R(c) == call[c].report

First(m) ==
  CASE m = "create"         -> "dedup"
    [] m \in Reviews        -> "review"
    [] m = "restore"        -> "content"
    [] m \in {"suspend", "unsuspend", "patch"} -> "check"
    [] m = "login"          -> "admit"
    [] m = "google"         -> "issue"
    [] m = "changePassword" -> "revoke"
    [] OTHER                -> "load"

\* A request arrives: a reporter's, a moderator's on a report there is, the
\* author's, an admin's.  bulk runs the same methods one report at a time;
\* "restore" is its content action.  Only admins may suspend; "patch" is an
\* update of the account that suspends (one that lifts does what "unsuspend"
\* does).  A password change is asked with an access token, which outlives the
\* session by minutes.
Request(c, m, r, a) ==
  /\ pc[c] = "idle" /\ requests < MaxRequests
  /\ requests' = requests + 1
  /\ Goto(c, First(m))
  /\ call' = [call EXCEPT ![c] = [method |-> m, report |-> r, arg |-> a]]
  /\ UNCHANGED <<rows, subject, got, base, history>>

Receive(c) ==
  \/ \E u \in Reporters : ~piece.deleted /\ Request(c, "create", None, u)
  \/ \E m \in AccountMethods : Request(c, m, None, "none")
  \/ \E r \in {r \in Reports : report[r].status # "none"} :
       \/ \E m \in {"triage", "priority", "reopen", "restore", "appeal"} :
            Request(c, m, r, "none")
       \/ \E m \in Reviews : appeal[r] # "none" /\ Request(c, m, r, "none")
       \/ \E a \in Resolutions : Request(c, "resolve", r, a)
-----------------------------------------------------------------------------
(* createReport: the duplicate check, then the insert.                     *)

OpenReports(u) == {r \in Reports : reporter[r] = u /\ report[r].status \in Open}

Dedup(c) ==
  /\ pc[c] = "dedup"
  /\ IF OpenReports(call[c].arg) = {}
       THEN Goto(c, "insert") /\ Keep
       ELSE End(c)
  /\ UNCHANGED <<rows, subject, history>>

Insert(c) ==
  /\ pc[c] = "insert"
  /\ \E r \in Reports :
       /\ report[r].status = "none"
       /\ report' = [report EXCEPT ![r] = [NoReport EXCEPT !.status = "pending"]]
       /\ reporter' = [reporter EXCEPT ![r] = call[c].arg]
  /\ End(c)
  /\ UNCHANGED <<appeal, subject, history>>
-----------------------------------------------------------------------------
\* Mutant of Reviewable: a review may be repeated.
AnyAppeal(r) == TRUE
\* approve and reject act on an appeal nobody has reviewed yet.
Reviewable(r) == appeal[r] = "pending"

\* A review of the appeal against r has begun.
UnderReview(r) ==
  \E c \in Procs : Method(c) \in Reviews /\ R(c) = r /\ pc[c] # "review"

Review(c) ==
  /\ pc[c] = "review"
  /\ IF Reviewable(R(c)) THEN Goto(c, "load") /\ Keep ELSE End(c)
  /\ raced' = IF UnderReview(R(c)) THEN raced \cup {R(c)} ELSE raced
  /\ UNCHANGED <<rows, subject, enforced, lifted, cut, unended>>

\* The guards of a method on the report it has loaded.
Refuses(m, row) ==
  \/ m = "resolve" /\ row.status \in Settled \cup {"appealed"}
  \/ m = "reopen" /\ row.status \notin Settled
  \/ m = "appeal" /\ row.resolution \notin PUNITIVE

\* The first statement of the effect of a decision.
Effect(resolution) ==
  CASE resolution \in Content -> "content"
    [] resolution \in Account -> "user"
    [] OTHER                  -> "save"

AfterLoad(m, row, a) ==
  CASE m = "resolve" -> Effect(a)
    [] m = "approve" -> Effect(row.resolution)
    [] m = "appeal"  -> "find"
    [] OTHER         -> "save"

Load(c) ==
  LET row == report[R(c)] IN
  /\ pc[c] = "load"
  /\ IF Refuses(Method(c), row)
       THEN End(c)
       ELSE /\ got' = [got EXCEPT ![c] = row]
            /\ Goto(c, AfterLoad(Method(c), row, call[c].arg))
            /\ UNCHANGED <<call, base>>
  /\ UNCHANGED <<rows, subject, history>>
-----------------------------------------------------------------------------
(* createAppeal: one appeal per report, by a read and by a unique index.   *)

FindAppeal(c) ==
  /\ pc[c] = "find"
  /\ IF appeal[R(c)] = "none" THEN Goto(c, "file") /\ Keep ELSE End(c)
  /\ UNCHANGED <<rows, subject, history>>

FileAppeal(c) ==
  /\ pc[c] = "file"
  /\ IF appeal[R(c)] = "none"
       THEN /\ appeal' = [appeal EXCEPT ![R(c)] = "pending"]
            /\ Goto(c, "save")
            /\ Keep
       ELSE End(c) /\ UNCHANGED appeal
  /\ UNCHANGED <<report, reporter, subject, history>>
-----------------------------------------------------------------------------
(* The effects.                                                            *)

\* moderateRemove deletes; moderateHide archives a piece that is there.
Taken(p, resolution) ==
  IF resolution = "content_removed" THEN [p EXCEPT !.deleted = TRUE]
  ELSE IF p.deleted THEN p ELSE [p EXCEPT !.status = "archived"]
\* moderateRestore brings an archived piece back, or undeletes a deleted one.
Restored(p) ==
  IF p.deleted THEN [p EXCEPT !.deleted = FALSE] ELSE [p EXCEPT !.status = "published"]

\* Mutant of AfterEffect: an approval forgets the report.
Unsaved(c) == IF Method(c) = "approve" THEN "finish" ELSE "save"
\* Where a call goes on once its effect is complete.
AfterEffect(c) == "save"

ContentAction(c) ==
  /\ pc[c] = "content"
  /\ piece' = IF Method(c) = "resolve" THEN Taken(piece, call[c].arg) ELSE Restored(piece)
  /\ lifted' = IF Method(c) = "approve" THEN lifted \cup {R(c)} ELSE lifted
  /\ IF Method(c) = "restore"
       THEN End(c)
       ELSE Goto(c, AfterEffect(c)) /\ Keep
  /\ UNCHANGED <<rows, author, loggedIn, enforced, raced, cut, unended>>

\* Mutant of AfterUser: whoever is suspended already is logged out already.
SkipsSuspended(m) ==
  IF m = "resolve" THEN (IF author = "suspended" THEN "save" ELSE "check")
  ELSE (IF author = "suspended" THEN "check" ELSE "save")
\* suspendUser sets the status unless it is set, and logs out in any case;
\* restoreForReport lifts a suspension that is there.
AfterUser(m) ==
  IF m = "resolve" THEN (IF author = "suspended" THEN "logout" ELSE "check")
  ELSE (IF author = "suspended" THEN "check" ELSE "save")

FindUser(c) ==
  /\ pc[c] = "user"
  /\ Goto(c, AfterUser(Method(c)))
  /\ lifted' = IF Method(c) = "approve" /\ author = "active"
                 THEN lifted \cup {R(c)} ELSE lifted
  /\ Keep
  /\ UNCHANGED <<rows, subject, enforced, raced, cut, unended>>

Suspends(c) == Method(c) \in {"resolve", "suspend", "patch"}
Target(c) == IF Suspends(c) THEN "suspended" ELSE "active"

\* Mutant of AfterStatus: a report's suspension leaves the sessions alone.
NoLogout(c) == IF Method(c) = "suspend" THEN "logout" ELSE AfterEffect(c)
AfterStatus(c) == IF Suspends(c) THEN "logout" ELSE AfterEffect(c)

\* setStatus reads the account again and refuses a change that is none.
CheckStatus(c) ==
  /\ pc[c] = "check"
  /\ IF author = Target(c) THEN End(c) ELSE Goto(c, "status") /\ Keep
  /\ UNCHANGED <<rows, subject, history>>

\* A PATCH of the account ends here: its sessions live on.
SetStatus(c) ==
  /\ pc[c] = "status"
  /\ author' = Target(c)
  /\ lifted' = IF Method(c) = "approve" THEN lifted \cup {R(c)} ELSE lifted
  /\ unended' = (Suspends(c) /\ (unended \/ Method(c) = "patch"))
  /\ IF Method(c) \in {"unsuspend", "patch"}
       THEN End(c)
       ELSE Goto(c, AfterStatus(c)) /\ Keep
  /\ UNCHANGED <<rows, piece, loggedIn, enforced, raced, cut>>

LogoutAll(c) ==
  /\ pc[c] = "logout"
  /\ loggedIn' = FALSE /\ unended' = FALSE
  /\ enforced' = IF Method(c) = "resolve" THEN enforced \cup {R(c)} ELSE enforced
  /\ IF Method(c) = "suspend" THEN End(c) ELSE Goto(c, AfterEffect(c)) /\ Keep
  /\ UNCHANGED <<rows, piece, author, lifted, raced, cut>>
-----------------------------------------------------------------------------
(* The author's sessions: login tests the status some awaits before it     *)
(* issues one, a sign-in with Google and a password change never do.       *)

Admit(c) ==
  /\ pc[c] = "admit"
  /\ IF author = "active" THEN Goto(c, "issue") /\ Keep ELSE End(c)
  /\ UNCHANGED <<rows, subject, history>>

\* changePassword logs out everywhere before it issues a session.
RevokeAll(c) ==
  /\ pc[c] = "revoke"
  /\ loggedIn' = FALSE /\ unended' = FALSE
  /\ Goto(c, "issue") /\ Keep
  /\ UNCHANGED <<rows, piece, author, enforced, lifted, raced, cut>>

Issue(c) ==
  /\ pc[c] = "issue"
  /\ loggedIn' = TRUE
  /\ unended' = (unended \/ author = "suspended")
  /\ End(c)
  /\ UNCHANGED <<rows, piece, author, enforced, lifted, raced, cut>>
-----------------------------------------------------------------------------
\* The row as the method leaves the entity it has loaded.
Decided(m, row, a) ==
  CASE m = "triage"  -> [row EXCEPT !.status = IF @ = "pending" THEN "reviewing" ELSE @]
    [] m = "resolve" -> [status |-> IF a = "dismissed" THEN "dismissed" ELSE "resolved",
                         resolution |-> a]
    [] m = "reopen"  -> [status |-> "reviewing", resolution |-> "null"]
    [] m = "appeal"  -> [row EXCEPT !.status = "appealed"]
    [] m \in Reviews -> [row EXCEPT !.status = "resolved"]
    [] OTHER         -> row      \* a priority

\* The appeal against r is there, its report is not marked appealed yet.
BeingFiled(r) ==
  \E c \in Procs : pc[c] \in {"save", "write"} /\ Method(c) = "appeal" /\ R(c) = r

\* save reads the row of the entity again...
Reread(c) ==
  /\ pc[c] = "save"
  /\ base' = [base EXCEPT ![c] = report[R(c)]]
  /\ Goto(c, "write")
  /\ UNCHANGED <<rows, subject, call, got, history>>

\* ...and updates the columns in which the entity differs from it.
Patched(row, b, entity) ==
  [k \in DOMAIN row |-> IF entity[k] = b[k] THEN row[k] ELSE entity[k]]

WriteReport(c) ==
  LET r == R(c) IN
  /\ pc[c] = "write"
  /\ report' = [report EXCEPT ![r] =
                  Patched(@, base[c], Decided(Method(c), got[c], call[c].arg))]
  /\ raced' = IF {report[r], base[c]} # {got[c]} \/ (Method(c) \in Reviews /\ BeingFiled(r))
                THEN raced \cup {r} ELSE raced
  /\ IF Method(c) \in Reviews THEN Goto(c, "finish") /\ Keep ELSE End(c)
  /\ UNCHANGED <<reporter, appeal, subject, enforced, lifted, cut, unended>>

FinishReview(c) ==
  /\ pc[c] = "finish"
  /\ appeal' = [appeal EXCEPT ![R(c)] = IF Method(c) = "approve" THEN "approved" ELSE "rejected"]
  /\ End(c)
  /\ UNCHANGED <<report, reporter, subject, history>>

\* A statement throws or the process dies; what was written stays.
Fail(c) ==
  /\ pc[c] # "idle"
  /\ cut' = cut \cup (IF pc[c] \in {"save", "write"} /\ Method(c) = "appeal"
                        THEN {"filing"} ELSE {})
                \cup (IF pc[c] \in {"save", "write", "finish"} /\ Method(c) \in Reviews
                        THEN {"review"} ELSE {})
  /\ unended' = (unended \/ (pc[c] = "logout" /\ author = "suspended"))
  /\ End(c)
  /\ UNCHANGED <<rows, subject, enforced, lifted, raced>>

\* The author brings an archived piece back, as authors may.
Unarchive ==
  /\ loggedIn /\ ~piece.deleted
  /\ piece' = [piece EXCEPT !.status = "published"]
  /\ UNCHANGED <<rows, author, loggedIn, pc, call, got, base, history>>

Step(c) ==
  \/ Dedup(c) \/ Insert(c) \/ Review(c) \/ Load(c) \/ FindAppeal(c) \/ FileAppeal(c)
  \/ ContentAction(c) \/ FindUser(c) \/ CheckStatus(c) \/ SetStatus(c) \/ LogoutAll(c)
  \/ Admit(c) \/ RevokeAll(c) \/ Issue(c) \/ Reread(c) \/ WriteReport(c)
  \/ FinishReview(c) \/ Fail(c)

Next ==
  \/ \E c \in Procs : Receive(c)
  \/ ((\E c \in Procs : Step(c)) \/ Unarchive) /\ UNCHANGED requests

Spec == Init /\ [][Next]_vars
-----------------------------------------------------------------------------
\* "An appealed report moves only via the appeal approve/reject flow": there is
\* a review for it to wait for, whatever fails, unless a stale save put the
\* status back or the appeal was reviewed before its filing had ended.
AppealedAwaitsReview ==
  \A r \in Reports \ raced :
    report[r].status = "appealed" =>
      \/ appeal[r] = "pending"
      \/ \E c \in Procs : pc[c] = "finish" /\ R(c) = r

\* A report says that it is settled exactly when it says how, unless a stale
\* save mixed two decisions, or the filing or the review of an appeal was cut off.
StatusMatchesResolution ==
  cut = {} =>
    \A r \in Reports \ raced :
      report[r].resolution = "null" <=> report[r].status \in Open \cup {"none"}

\* No report ever records that its author is suspended before the author has
\* been logged out for it.
EnforcedBeforeRecorded ==
  \A r \in Reports : report[r].resolution \in Account => r \in enforced

\* A suspended author is logged out, or a call is about to log the author out,
\* whatever was suspended or lifted before or meanwhile: unless, since the last
\* logout, a suspension was cut off before its own or came by PATCH, or a session
\* was issued to the suspended author, by a login admitted before or without a
\* look at the status.
SuspensionLogsOut ==
  author = "suspended" /\ loggedIn =>
    unended \/ \E c \in Procs : pc[c] = "logout"

\* A verdict changes only when its report was raced for: by two reviews of the
\* appeal at a time, or by a save over a row that had changed.  And whatever raced
\* or was cut off before, an appeal is approved only once the effect of the
\* decision that its reviewer had read has been undone.
VerdictsHold ==
  [][\A r \in Reports : appeal'[r] # appeal[r] =>
       /\ r \notin raced => appeal[r] \notin {"approved", "rejected"}
       /\ appeal'[r] = "approved" =>
            \E c \in Procs :
              /\ pc[c] = "finish" /\ R(c) = r
              /\ got[c].resolution \in Content \cup Account => r \in lifted]_vars

\* "Suspend the account and revoke all its sessions": nobody suspended has one.
NoSuspendedSession ==
  author = "suspended" /\ loggedIn => \E c \in Procs : pc[c] = "logout"

\* No reporter has two open reports on the same piece.
NoDuplicateReports == \A u \in Reporters : Cardinality(OpenReports(u)) <= 1

\* Approving one appeal never lifts what another report has decided.
OtherVerdictsStand ==
  \A c \in Procs : pc[c] = "status" /\ Method(c) = "approve" =>
    \A r \in Reports \ {R(c)} : report[r].resolution \in Account => appeal[r] = "approved"

\* An approved appeal has lifted what its report says.
ApprovalCoversReport ==
  [][\A r \in Reports \ raced :
       appeal[r] = "pending" /\ appeal'[r] = "approved" /\ cut = {}
       /\ report[r].resolution \in Content \cup Account => r \in lifted]_vars

\* What a rejected appeal contests has not been undone.
RejectedStands == \A r \in Reports : appeal[r] = "rejected" => r \notin lifted
=============================================================================

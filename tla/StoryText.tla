------------------------------- MODULE StoryText -------------------------------
(***************************************************************************)
(* The text of one story as three services write it: SuggestionService     *)
(* accepts a suggested passage, SnapshotService versions the text and      *)
(* reverts to a version, and the author saves edits.                       *)
(*                                                                         *)
(* accept reads the suggestion, then the text, then has a snapshot taken   *)
(* (which reads the text again), and writes the whole text it computed     *)
(* from its first reading together with the suggestion, in one transaction *)
(* that looks at nothing again.  Taking a snapshot is five statements: the *)
(* text, the highest version, the insert, the number of snapshots, and the *)
(* deletion of the oldest ones selected.                                   *)
(*                                                                         *)
(* A text is a passage to each anchor; replaceTextRange and anchorText,    *)
(* which find the passage by offsets, are taken to address it exactly.     *)
(*                                                                         *)
(* Where StoryRoster has a definition of the same purpose the name here    *)
(* differs from it, so that StoryProofs can extend both modules.           *)
(***************************************************************************)
EXTENDS Integers, FiniteSets, FiniteSetsExt

CONSTANTS Passages,      \* the passages of the story
          Wordings,      \* what may be written in a passage
          Suggestions,   \* suggestion ids
          Servers,       \* processes that serve requests
          Cap,           \* MAX_SNAPSHOTS_PER_STORY (100)
          MaxSnapshots,  \* bound: snapshots ever taken
          Nothing        \* no suggestion, passage or wording

ASSUME TextConstants ==
  /\ Cap \in Nat \ {0} /\ MaxSnapshots \in Nat
  /\ Nothing \notin Suggestions \cup Passages \cup Wordings

Texts == [Passages -> Wordings]

VARIABLES text,        \* the content column of the piece
          proposal,    \* proposal[s]: its passage, originalText and suggestedText
          answer,      \* answer[s]: the status column of suggestion s
          snapshots,   \* the rows of story_snapshots
          taken,       \* snapshots taken so far: the id of the latest
          at,          \* at[c]: the statement process c executes next
          request,     \* request[c]: the method c executes and its suggestion
          found,       \* found[c]: what c has read or computed
          applied,     \* history: applied[s], how often s was written to the text
          overlapped,  \* history: suggestions saved over a row that had changed
          disturbed,   \* history: processes during whose capture another one
                       \* wrote the text or the snapshots
          unpruned     \* history: a capture was cut off before its deletion

textVars == <<text, proposal, answer, snapshots, taken, at, request, found, applied,
              overlapped, disturbed, unpruned>>

Settled == {"accepted", "rejected", "withdrawn"}
Snapshot == [id : 1..MaxSnapshots, version : 1..MaxSnapshots, content : Texts,
             pinned : BOOLEAN]
Proposal == {r \in [passage : Passages, original : Wordings, suggested : Wordings] :
               r.original # r.suggested}
NoProposal == [passage |-> Nothing, original |-> Nothing, suggested |-> Nothing]
TextMethods == {"accept", "reject", "withdraw", "snapshot", "publish", "revert"}
NoRequest == [method |-> "none", suggestion |-> Nothing]
NoText == [p \in Passages |-> Nothing]
NoRead == [resolved |-> NoText, content |-> NoText, version |-> 0, excess |-> 0, oldest |-> {}]
Steps == {"idle", "resolve", "settle", "preview", "version", "insert",
          "count", "select", "delete", "apply", "update"}

TextTypeOK ==
  /\ text \in Texts
  /\ proposal \in [Suggestions -> Proposal \cup {NoProposal}]
  /\ answer \in [Suggestions -> {"none", "pending"} \cup Settled]
  /\ snapshots \subseteq Snapshot
  /\ \A n, m \in snapshots : n.id = m.id => n = m
  /\ taken \in 0..MaxSnapshots
  /\ at \in [Servers -> Steps]
  /\ request \in [Servers -> [method : TextMethods \cup {"none"},
                             suggestion : Suggestions \cup {Nothing}]]
  /\ found \in [Servers -> [resolved : Texts \cup {NoText}, content : Texts \cup {NoText},
                           version : 0..(MaxSnapshots + 1), excess : 0..MaxSnapshots,
                           oldest : SUBSET (1..MaxSnapshots)]]
  /\ applied \in [Suggestions -> Nat] /\ overlapped \subseteq Suggestions
  /\ disturbed \subseteq Servers /\ unpruned \in BOOLEAN

TextInit ==
  /\ text \in Texts
  /\ proposal = [s \in Suggestions |-> NoProposal]
  /\ answer = [s \in Suggestions |-> "none"]
  /\ snapshots = {} /\ taken = 0
  /\ at = [c \in Servers |-> "idle"]
  /\ request = [c \in Servers |-> NoRequest]
  /\ found = [c \in Servers |-> NoRead]
  /\ applied = [s \in Suggestions |-> 0] /\ overlapped = {}
  /\ disturbed = {} /\ unpruned = FALSE
-----------------------------------------------------------------------------
suggested == <<proposal, answer>>
versions == <<snapshots, taken>>
textHistory == <<applied, overlapped, disturbed, unpruned>>

MoveTo(c, p) == at' = [at EXCEPT ![c] = p]
\* The call returns or throws.
Return(c) ==
  /\ MoveTo(c, "idle")
  /\ request' = [request EXCEPT ![c] = NoRequest]
  /\ found' = [found EXCEPT ![c] = NoRead]
GoOn(c, p) == MoveTo(c, p) /\ UNCHANGED <<request, found>>
Read(c, p, r) == MoveTo(c, p) /\ found' = [found EXCEPT ![c] = r] /\ UNCHANGED request

MethodOf(c) == request[c].method
S(c) == request[c].suggestion

\* From the snapshot's reading of the text to the acceptance it is taken for.
Capturing == {"version", "insert", "count", "select", "delete", "apply"}
Disturbed(writers) == {c \in Servers \ writers : MethodOf(c) = "accept" /\ at[c] \in Capturing}
Disturb(writers) == disturbed' = disturbed \cup Disturbed(writers)

\* A request arrives and reads its first row.
Begin(c, m, s, p, r) ==
  /\ at[c] = "idle"
  /\ MoveTo(c, p)
  /\ request' = [request EXCEPT ![c] = [method |-> m, suggestion |-> s]]
  /\ found' = [found EXCEPT ![c] = r]
  /\ UNCHANGED <<text, suggested, versions, textHistory>>

\* create: a suggestion quotes the passage as its author sees it.
Suggest(s) ==
  /\ answer[s] = "none"
  /\ answer' = [answer EXCEPT ![s] = "pending"]
  /\ \E r \in Proposal :
       /\ r.original = text[r.passage]
       /\ proposal' = [proposal EXCEPT ![s] = r]
  /\ UNCHANGED <<text, versions, at, request, found, textHistory>>

\* The author saves an edit of the text there is.
Edit(p, w) ==
  /\ w # text[p]
  /\ text' = [text EXCEPT ![p] = w]
  /\ Disturb({})
  /\ UNCHANGED <<suggested, versions, at, request, found, applied, overlapped, unpruned>>
-----------------------------------------------------------------------------
(* accept, reject, withdraw.                                               *)

\* Who finds its suggestion pending goes on; the others throw.
LoadForResolve(c) ==
  \E s \in Suggestions :
    /\ answer[s] = "pending"
    /\ \/ Begin(c, "accept", s, "resolve", NoRead)
       \/ \E m \in {"reject", "withdraw"} : Begin(c, m, s, "settle", NoRead)

\* The text, with the suggestion in the place of the passage it quotes.
Replaced(s) == [text EXCEPT ![proposal[s].passage] = proposal[s].suggested]

ResolveAnchor(c) ==
  /\ at[c] = "resolve" /\ text[proposal[S(c)].passage] = proposal[S(c)].original
  /\ Read(c, "preview", [found[c] EXCEPT !.resolved = Replaced(S(c))])
  /\ UNCHANGED <<text, suggested, versions, textHistory>>

AnchorConflict(c) ==
  /\ at[c] = "resolve" /\ text[proposal[S(c)].passage] # proposal[S(c)].original
  /\ Return(c)
  /\ UNCHANGED <<text, suggested, versions, textHistory>>

Save(s, response) ==
  /\ answer' = [answer EXCEPT ![s] = response]
  /\ overlapped' = IF answer[s] = "pending" THEN overlapped ELSE overlapped \cup {s}

\* Mutant of Apply: a suggestion resolved meanwhile is not written any more,
\* but still saved as accepted.
ApplyUnlessSettled(c) ==
  /\ at[c] = "apply"
  /\ text' = IF answer[S(c)] = "pending" THEN found[c].resolved ELSE text
  /\ Save(S(c), "accepted")
  /\ applied' = [applied EXCEPT ![S(c)] = IF answer[S(c)] = "pending" THEN @ + 1 ELSE @]
  /\ disturbed' = (disturbed \ {c}) \cup Disturbed({c})
  /\ Return(c)
  /\ UNCHANGED <<proposal, versions, unpruned>>
\* replaceContent and settle, in one transaction.
Apply(c) ==
  /\ at[c] = "apply"
  /\ text' = found[c].resolved
  /\ Save(S(c), "accepted")
  /\ applied' = [applied EXCEPT ![S(c)] = @ + 1]
  /\ disturbed' = (disturbed \ {c}) \cup Disturbed({c})
  /\ Return(c)
  /\ UNCHANGED <<proposal, versions, unpruned>>

Settle(c) ==
  /\ at[c] = "settle"
  /\ Save(S(c), IF MethodOf(c) = "reject" THEN "rejected" ELSE "withdrawn")
  /\ Return(c)
  /\ UNCHANGED <<text, proposal, versions, applied, disturbed, unpruned>>
-----------------------------------------------------------------------------
(* SnapshotService.write.                                                  *)

\* The text as it is; for an acceptance or for a snapshot of its own.
Preview(c) ==
  \/ \E m \in {"snapshot", "publish"} :
       Begin(c, m, Nothing, "version", [NoRead EXCEPT !.content = text])
  \/ /\ at[c] = "preview"
     /\ Read(c, "version", [found[c] EXCEPT !.content = text])
     /\ UNCHANGED <<text, suggested, versions, textHistory>>

NextVersion == IF snapshots = {} THEN 1 ELSE Max({n.version : n \in snapshots}) + 1

NextSnapshotVersion(c) ==
  /\ at[c] = "version"
  /\ Read(c, "insert", [found[c] EXCEPT !.version = NextVersion])
  /\ UNCHANGED <<text, suggested, versions, textHistory>>

\* Snapshots of a publication are kept forever.
NewSnapshot(c) == [id |-> taken + 1, version |-> found[c].version, content |-> found[c].content,
                   pinned |-> MethodOf(c) = "publish"]

CreateSnapshot(c) ==
  /\ at[c] = "insert" /\ taken < MaxSnapshots
  /\ snapshots' = snapshots \cup {NewSnapshot(c)}
  /\ taken' = taken + 1
  /\ Disturb({c})
  /\ Read(c, "count", [NoRead EXCEPT !.resolved = found[c].resolved])
  /\ UNCHANGED <<text, suggested, applied, overlapped, unpruned>>

\* Mutant of Excess: one snapshot less is kept.
OneLess == IF Cardinality(snapshots) >= Cap THEN Cardinality(snapshots) - Cap + 1 ELSE 0
\* Another mutant: pinned snapshots are not counted.
UnpinnedOnly ==
  LET unpinned == Cardinality({n \in snapshots : ~n.pinned}) IN
  IF unpinned > Cap THEN unpinned - Cap ELSE 0
\* How many snapshots there are beyond the limit.
Excess == IF Cardinality(snapshots) > Cap THEN Cardinality(snapshots) - Cap ELSE 0

\* Where a call goes on once its snapshot is taken; the rest of a publication
\* and of a manual snapshot is none of the text's.
AfterCapture(c) ==
  IF MethodOf(c) = "accept" THEN GoOn(c, "apply") ELSE Return(c)

CountSnapshots(c) ==
  /\ at[c] = "count"
  /\ IF Excess = 0 THEN AfterCapture(c)
     ELSE Read(c, "select", [found[c] EXCEPT !.excess = Excess])
  /\ UNCHANGED <<text, suggested, versions, textHistory>>

Prunable == {n \in snapshots : ~n.pinned}

\* The oldest prunable ones by version; between equal versions any.
SelectPrunable(c) ==
  /\ at[c] = "select"
  /\ \E oldest \in SUBSET Prunable :
       /\ Cardinality(oldest) = Min({found[c].excess, Cardinality(Prunable)})
       /\ \A n \in oldest, m \in Prunable \ oldest : n.version <= m.version
       /\ Read(c, "delete", [found[c] EXCEPT !.oldest = {n.id : n \in oldest}])
  /\ UNCHANGED <<text, suggested, versions, textHistory>>

DeleteSnapshots(c) ==
  /\ at[c] = "delete"
  /\ snapshots' = {n \in snapshots : n.id \notin found[c].oldest}
  /\ Disturb({c})
  /\ AfterCapture(c)
  /\ UNCHANGED <<text, suggested, taken, applied, overlapped, unpruned>>
-----------------------------------------------------------------------------
(* revert: the snapshot is read, then its content saved as an update.      *)

FindSnapshot(c) ==
  \E n \in snapshots : Begin(c, "revert", Nothing, "update", [NoRead EXCEPT !.content = n.content])

Revert(c) ==
  /\ at[c] = "update"
  /\ text' = found[c].content
  /\ Disturb({c})
  /\ Return(c)
  /\ UNCHANGED <<suggested, versions, applied, overlapped, unpruned>>

\* A statement throws, a check refuses (the snapshot or the story is gone, the
\* story archived), or the process dies; what was written stays.
CutOff(c) ==
  /\ at[c] # "idle"
  /\ unpruned' = (unpruned \/ at[c] \in {"count", "select", "delete"})
  /\ Return(c)
  /\ disturbed' = disturbed \ {c}
  /\ UNCHANGED <<text, suggested, versions, applied, overlapped>>

TextStep(c) ==
  \/ LoadForResolve(c) \/ ResolveAnchor(c) \/ AnchorConflict(c) \/ Apply(c) \/ Settle(c)
  \/ Preview(c) \/ NextSnapshotVersion(c) \/ CreateSnapshot(c) \/ CountSnapshots(c)
  \/ SelectPrunable(c) \/ DeleteSnapshots(c) \/ FindSnapshot(c) \/ Revert(c) \/ CutOff(c)

TextNext ==
  \/ \E c \in Servers : TextStep(c)
  \/ \E s \in Suggestions : Suggest(s)
  \/ \E p \in Passages, w \in Wordings : Edit(p, w)

TextSpec == TextInit /\ [][TextNext]_textVars
-----------------------------------------------------------------------------
Pinned == {n \in snapshots : n.pinned}
Versioned(t) == \E n \in snapshots : n.content = t

\* "A suggestion marked accepted whose prose never changed is the defect":
\* whatever races or fails, a suggestion that says accepted has been written to
\* the text, and but for overlapping answers exactly once, and no other has.
AcceptedWasApplied ==
  \A s \in Suggestions :
    /\ answer[s] = "accepted" => applied[s] > 0
    /\ s \notin overlapped => applied[s] = (IF answer[s] = "accepted" THEN 1 ELSE 0)

\* "The pre-edit content is versioned first": the text an acceptance replaces is
\* among the snapshots when it is replaced, unless another call wrote the text
\* or the snapshots during the capture, or the pinned snapshots fill the limit.
PreEditKept ==
  [][\A c \in Servers :
       at[c] = "apply" /\ at'[c] = "idle" /\ text' # text /\ c \notin disturbed
         /\ Cardinality(Pinned) < Cap
       => Versioned(text)]_textVars

\* Once nobody is capturing, there are no more snapshots than the limit or the
\* pinned ones, however captures overlapped, unless one was cut off.
WithinCap ==
  (\A c \in Servers : at[c] \notin Capturing) /\ ~unpruned =>
    Cardinality(snapshots) <= Max({Cap, Cardinality(Pinned)})

\* Without overlapping calls, the text an acceptance replaces is versioned.
PreEditKeptSerially ==
  [][\A c \in Servers : at[c] = "apply" /\ text' # text /\ at'[c] = "idle"
       /\ c \notin disturbed => Versioned(text)]_textVars

\* An acceptance changes the passage it is about and no other.
OnlyThePassage ==
  [][\A c \in Servers : at[c] = "apply" /\ text' # text /\ at'[c] = "idle" =>
       \A p \in Passages \ {proposal[S(c)].passage} : text'[p] = text[p]]_textVars

\* A version names one snapshot.
VersionsDistinct == \A n, m \in snapshots : n.version = m.version => n = m

\* Pruning leaves as many snapshots as the limit allows.
NeverBelowCap == Cardinality(snapshots) >= Min({taken, Cap})
=============================================================================

---------------------------- MODULE StoryProofs ----------------------------
(***************************************************************************)
(* Proofs about StoryRoster and StoryText, the two specifications of one   *)
(* story's collaboration, for any sets of users, invitations, suggestions, *)
(* passages and processes, any limits, any interleaving, failing calls.    *)
(***************************************************************************)
EXTENDS StoryRoster, StoryText, FiniteSetTheorems, WellFoundedInduction, TLAPS

USE RosterConstants, TextConstants

-----------------------------------------------------------------------------
(* StoryRoster.                                                            *)

\* A call in progress has a user, and so has every invitation that was sent.
Addressed ==
  /\ \A c \in Procs : pc[c] # "idle" => Method(c) \in Methods /\ User(c) \in Users
  /\ \A c \in Procs : pc[c] # "idle" /\ Method(c) \in {"accept", "decline", "revoke", "expire"} =>
       Invitation(c) \in Invitations /\ status[Invitation(c)] # "none"
  /\ \A c \in Procs : pc[c] = "load" => Method(c) \in {"accept", "decline", "revoke"}
  /\ \A c \in Procs : pc[c] = "find" => Method(c) \in {"invite", "accept", "add", "changeRole", "remove"}
  /\ \A i \in Invitations : status[i] # "none" => invited[i] \in Users

\* No row has an id that was never given out.
Numbered == \A c \in Procs : got[c] # 0 => pc[c] # "idle" /\ got[c] <= rows[User(c)]

\* Only invitations that were sent can be answered twice.
CrossedWereSent == \A i \in crossed : status[i] # "none"

\* A call whose user was let in anew has found another row than the present one.
Superseded == \A c \in outdated : got[c] # 0 => got[c] # member[User(c)]

IInv == /\ TypeOK /\ Addressed /\ Numbered /\ CrossedWereSent
        /\ AcceptedMeansJoined /\ Superseded

\* The initial state satisfies the invariant.
LEMMA InitIInv == Init => IInv
<1> SUFFICES ASSUME Init PROVE IInv
  OBVIOUS
<1> USE DEF Init, NoCall
<1>1. TypeOK
  BY DEF TypeOK, Methods
<1>2. Addressed /\ Numbered /\ CrossedWereSent /\ AcceptedMeansJoined /\ Superseded
  BY DEF Addressed, Numbered, CrossedWereSent, AcceptedMeansJoined, Superseded, Method, User,
         Invitation
<1>3. QED
  BY <1>1, <1>2 DEF IInv

Calls == [method : Methods \cup {"none"}, user : Users \cup {None},
          invitation : Invitations \cup {None}]

\* Ending a call disturbs nothing that is said of calls.
LEMMA EndKeeps ==
  ASSUME TypeOK, Addressed, Numbered, NEW c \in Procs, End(c)
  PROVE  /\ pc' \in [Procs -> {"idle", "load", "find", "count", "write"}]
         /\ call' \in [Procs -> Calls]
         /\ got' \in [Procs -> 0..MaxRows]
         /\ \A d \in Procs : d # c => pc'[d] = pc[d] /\ call'[d] = call[d] /\ got'[d] = got[d]
         /\ pc'[c] = "idle" /\ got'[c] = 0
BY DEF TypeOK, End, Goto, NoCall, Calls

\* A call that ends leaves the other calls with the invitations they name.
LEMMA EndAddressed ==
  ASSUME TypeOK, Addressed, Numbered, NEW c \in Procs, End(c),
         \A i \in Invitations : /\ status[i] # "none" => status'[i] # "none"
                                /\ status'[i] # "none" => invited'[i] \in Users
  PROVE  Addressed'
<1>1. \A d \in Procs : pc'[d] # "idle" => pc'[d] = pc[d] /\ call'[d] = call[d]
  BY EndKeeps
<1>2. QED
  BY <1>1 DEF Addressed, Method, User, Invitation

\* Reading, or ending without a write, changes no row.
LEMMA ReadingKeeps ==
  ASSUME IInv, NEW c \in Procs,
         \/ Load(c) \/ LoadAnswered(c) \/ FindMembership(c) \/ FindUnwanted(c)
         \/ CountMembers(c) \/ JoinRefused(c) \/ Fail(c)
  PROVE  IInv'
<1> USE DEF IInv, roster, invitations, history
<1>1. CASE End(c) /\ UNCHANGED <<roster, invitations, history>>
  <2>1. TypeOK'
    BY <1>1, EndKeeps DEF TypeOK, Calls
  <2>2. Addressed' /\ Numbered'
    BY <1>1, EndKeeps DEF Addressed, Numbered, Method, User, Invitation
  <2>3. CrossedWereSent' /\ AcceptedMeansJoined' /\ Superseded'
    BY <1>1, EndKeeps DEF CrossedWereSent, AcceptedMeansJoined, Superseded, TypeOK, User
  <2>4. QED
    BY <2>1, <2>2, <2>3
<1>2. CASE Load(c) \/ FindMembership(c) \/ (CountMembers(c) /\ RoomLeft)
  <2> USE <1>2 DEF Load, FindMembership, CountMembers, Goto, Proceed
  <2>1. TypeOK'
    BY DEF TypeOK, Addressed
  <2>2. Addressed'
    BY DEF TypeOK, Addressed, Methods, Method, User, Invitation
  <2>3. Numbered'
    BY DEF TypeOK, Numbered, Addressed, User
  <2>4. CrossedWereSent' /\ AcceptedMeansJoined' /\ Superseded'
    BY DEF CrossedWereSent, AcceptedMeansJoined, Superseded, TypeOK, User
  <2>5. QED
    BY <2>1, <2>2, <2>3, <2>4
<1>3. QED
  BY <1>1, <1>2 DEF LoadAnswered, FindUnwanted, CountMembers, JoinRefused, Fail

\* loadPending that finds its invitation lapsed keeps the invariant.
LEMMA LapsedKeeps == ASSUME IInv, NEW c \in Procs, LoadLapsed(c) PROVE IInv'
<1> USE DEF LoadLapsed, IInv, roster, invitations, history, Goto
<1>1. call' \in [Procs -> Calls]
  BY DEF TypeOK, Calls, Methods
<1>2. /\ call'[c].method = "expire" /\ call'[c].user = User(c)
      /\ call'[c].invitation = Invitation(c)
      /\ \A d \in Procs \ {c} : call'[d] = call[d]
  BY DEF TypeOK, User, Invitation
<1>3. TypeOK'
  BY <1>1 DEF TypeOK, Calls
<1>4. Addressed'
  BY <1>2 DEF TypeOK, Addressed, Methods, Method, User, Invitation
<1>5. Numbered'
  BY <1>2 DEF TypeOK, Numbered, User
<1>6. CrossedWereSent' /\ AcceptedMeansJoined' /\ Superseded'
  BY <1>2 DEF CrossedWereSent, AcceptedMeansJoined, Superseded, TypeOK, User
<1>7. QED
  BY <1>3, <1>4, <1>5, <1>6

\* A request that arrives keeps the invariant.
LEMMA ReceiveKeeps == ASSUME IInv, NEW c \in Procs, Receive(c) PROVE IInv'
<1> USE DEF IInv, roster, invitations, history, Goto
<1>1. PICK m \in Methods, u \in Users, i \in Invitations \cup {None} :
        /\ Request(c, m, u, i)
        /\ i = None => m \in {"invite", "add", "changeRole", "remove"}
        /\ i # None => m \in {"accept", "decline", "revoke"} /\ status[i] # "none"
  BY DEF Receive, Addressed, Methods
<1> USE <1>1 DEF Request
<1>2. call' \in [Procs -> Calls]
  BY DEF TypeOK, Calls
<1>3. TypeOK'
  BY <1>2 DEF TypeOK, Calls
<1>4. Addressed'
  BY DEF TypeOK, Addressed, Method, User, Invitation
<1>5. Numbered'
  BY DEF TypeOK, Numbered, User
<1>6. CrossedWereSent' /\ AcceptedMeansJoined' /\ Superseded'
  BY DEF CrossedWereSent, AcceptedMeansJoined, Superseded, Numbered, TypeOK, User
<1>7. QED
  BY <1>3, <1>4, <1>5, <1>6

\* Each transaction keeps the rows and the invitations in step.
LEMMA WritingKeeps ==
  ASSUME IInv, NEW c \in Procs,
         \/ CreateInvitation(c) \/ Accept(c) \/ AddMember(c) \/ Respond(c)
         \/ SaveMembership(c) \/ DeleteMembership(c)
  PROVE  IInv'
<1> USE EndKeeps DEF IInv, roster, invitations, history
<1>1. CASE CreateInvitation(c)
  <2> USE <1>1 DEF CreateInvitation
  <2>1. End(c) /\ User(c) \in Users
    BY DEF Addressed
  <2>2. Method(c) \in {"accept", "decline", "revoke", "expire"} =>
         Invitation(c) \in Invitations /\ status[Invitation(c)] # "none"
    BY DEF Addressed
  <2>3. TypeOK'
    BY <2>1, <2>2 DEF TypeOK, Calls, Responses, Numbered
  <2>4. Addressed'
    <3>1. \A i \in Invitations : /\ status[i] # "none" => status'[i] # "none"
                                 /\ status'[i] # "none" => invited'[i] \in Users
      BY <2>1, <2>2 DEF TypeOK, Addressed, Responses
    <3>2. QED
      BY <2>1, <3>1, EndAddressed
  <2>5. Numbered'
    BY <2>1, <2>2 DEF TypeOK, Numbered, User
  <2>6. CrossedWereSent' /\ AcceptedMeansJoined'
    BY <2>1, <2>2 DEF TypeOK, Responses, CrossedWereSent, AcceptedMeansJoined
  <2>7. Superseded'
    BY <2>1, <2>2 DEF Superseded, Numbered, TypeOK, User
  <2>8. QED
    BY <2>3, <2>4, <2>5, <2>6, <2>7
<1>2. CASE Accept(c)
  <2> USE <1>2 DEF Accept, Answer, CreateMembership
  <2>1. End(c) /\ User(c) \in Users
    BY DEF Addressed
  <2>2. Method(c) \in {"accept", "decline", "revoke", "expire"} =>
         Invitation(c) \in Invitations /\ status[Invitation(c)] # "none"
    BY DEF Addressed
  <2>3. TypeOK'
    BY <2>1, <2>2 DEF TypeOK, Calls, Responses, Numbered
  <2>4. Addressed'
    <3>1. \A i \in Invitations : /\ status[i] # "none" => status'[i] # "none"
                                 /\ status'[i] # "none" => invited'[i] \in Users
      BY <2>1, <2>2 DEF TypeOK, Addressed, Responses
    <3>2. QED
      BY <2>1, <3>1, EndAddressed
  <2>5. Numbered'
    BY <2>1, <2>2 DEF TypeOK, Numbered, User
  <2>6. CrossedWereSent' /\ AcceptedMeansJoined'
    BY <2>1, <2>2 DEF TypeOK, Responses, CrossedWereSent, AcceptedMeansJoined
  <2>7. Superseded'
    BY <2>1, <2>2 DEF Superseded, Numbered, TypeOK, User
  <2>8. QED
    BY <2>3, <2>4, <2>5, <2>6, <2>7
<1>3. CASE AddMember(c)
  <2> USE <1>3 DEF AddMember, CreateMembership
  <2>1. End(c) /\ User(c) \in Users
    BY DEF Addressed
  <2>2. Method(c) \in {"accept", "decline", "revoke", "expire"} =>
         Invitation(c) \in Invitations /\ status[Invitation(c)] # "none"
    BY DEF Addressed
  <2>3. TypeOK'
    BY <2>1, <2>2 DEF TypeOK, Calls, Responses, Numbered
  <2>4. Addressed'
    <3>1. \A i \in Invitations : /\ status[i] # "none" => status'[i] # "none"
                                 /\ status'[i] # "none" => invited'[i] \in Users
      BY <2>1, <2>2 DEF TypeOK, Addressed, Responses
    <3>2. QED
      BY <2>1, <3>1, EndAddressed
  <2>5. Numbered'
    BY <2>1, <2>2 DEF TypeOK, Numbered, User
  <2>6. CrossedWereSent' /\ AcceptedMeansJoined'
    BY <2>1, <2>2 DEF TypeOK, Responses, CrossedWereSent, AcceptedMeansJoined
  <2>7. Superseded'
    BY <2>1, <2>2 DEF Superseded, Numbered, TypeOK, User
  <2>8. QED
    BY <2>3, <2>4, <2>5, <2>6, <2>7
<1>4. CASE Respond(c)
  <2> USE <1>4 DEF Respond, Answer
  <2>1. End(c) /\ User(c) \in Users
    BY DEF Addressed
  <2>2. Method(c) \in {"accept", "decline", "revoke", "expire"} =>
         Invitation(c) \in Invitations /\ status[Invitation(c)] # "none"
    BY DEF Addressed
  <2>3. TypeOK'
    BY <2>1, <2>2 DEF TypeOK, Calls, Responses, Numbered
  <2>4. Addressed'
    <3>1. \A i \in Invitations : /\ status[i] # "none" => status'[i] # "none"
                                 /\ status'[i] # "none" => invited'[i] \in Users
      BY <2>1, <2>2 DEF TypeOK, Addressed, Responses
    <3>2. QED
      BY <2>1, <3>1, EndAddressed
  <2>5. Numbered'
    BY <2>1, <2>2 DEF TypeOK, Numbered, User
  <2>6. CrossedWereSent' /\ AcceptedMeansJoined'
    BY <2>1, <2>2 DEF TypeOK, Responses, CrossedWereSent, AcceptedMeansJoined
  <2>7. Superseded'
    BY <2>1, <2>2 DEF Superseded, Numbered, TypeOK, User
  <2>8. QED
    BY <2>3, <2>4, <2>5, <2>6, <2>7
<1>5. CASE SaveMembership(c)
  <2> USE <1>5 DEF SaveMembership
  <2>1. End(c) /\ User(c) \in Users
    BY DEF Addressed
  <2>2. Method(c) \in {"accept", "decline", "revoke", "expire"} =>
         Invitation(c) \in Invitations /\ status[Invitation(c)] # "none"
    BY DEF Addressed
  <2>3. TypeOK'
    BY <2>1, <2>2 DEF TypeOK, Calls, Responses, Numbered
  <2>4. Addressed'
    <3>1. \A i \in Invitations : /\ status[i] # "none" => status'[i] # "none"
                                 /\ status'[i] # "none" => invited'[i] \in Users
      BY <2>1, <2>2 DEF TypeOK, Addressed, Responses
    <3>2. QED
      BY <2>1, <3>1, EndAddressed
  <2>5. Numbered'
    BY <2>1, <2>2 DEF TypeOK, Numbered, User
  <2>6. CrossedWereSent' /\ AcceptedMeansJoined'
    BY <2>1, <2>2 DEF TypeOK, Responses, CrossedWereSent, AcceptedMeansJoined
  <2>7. Superseded'
    BY <2>1, <2>2 DEF Superseded, Numbered, TypeOK, User
  <2>8. QED
    BY <2>3, <2>4, <2>5, <2>6, <2>7
<1>6. CASE DeleteMembership(c)
  <2> USE <1>6 DEF DeleteMembership
  <2>1. End(c) /\ User(c) \in Users
    BY DEF Addressed
  <2>2. Method(c) \in {"accept", "decline", "revoke", "expire"} =>
         Invitation(c) \in Invitations /\ status[Invitation(c)] # "none"
    BY DEF Addressed
  <2>3. TypeOK'
    BY <2>1, <2>2 DEF TypeOK, Calls, Responses, Numbered
  <2>4. Addressed'
    <3>1. \A i \in Invitations : /\ status[i] # "none" => status'[i] # "none"
                                 /\ status'[i] # "none" => invited'[i] \in Users
      BY <2>1, <2>2 DEF TypeOK, Addressed, Responses
    <3>2. QED
      BY <2>1, <3>1, EndAddressed
  <2>5. Numbered'
    BY <2>1, <2>2 DEF TypeOK, Numbered, User
  <2>6. CrossedWereSent' /\ AcceptedMeansJoined'
    BY <2>1, <2>2 DEF TypeOK, Responses, CrossedWereSent, AcceptedMeansJoined
  <2>7. Superseded'
    BY <2>1, <2>2 DEF Superseded, Numbered, TypeOK, User
  <2>8. QED
    BY <2>3, <2>4, <2>5, <2>6, <2>7
<1>7. QED
  BY <1>1, <1>2, <1>3, <1>4, <1>5, <1>6

\* Every step keeps the invariant.
LEMMA NextIInv == IInv /\ [Next]_vars => IInv'
<1> SUFFICES ASSUME IInv, [Next]_vars PROVE IInv'
  OBVIOUS
<1>1. ASSUME NEW c \in Procs, Receive(c) \/ Step(c) PROVE IInv'
  BY <1>1, ReadingKeeps, LapsedKeeps, ReceiveKeeps, WritingKeeps DEF Step
<1>2. ASSUME NEW i \in Invitations, Lapse(i) PROVE IInv'
  BY <1>2 DEF Lapse, roster, history, IInv, TypeOK, Addressed, Numbered, CrossedWereSent,
              AcceptedMeansJoined, Superseded, Method, User, Invitation
<1>3. CASE UNCHANGED vars
  BY <1>3 DEF vars, IInv, TypeOK, Addressed, Numbered, CrossedWereSent,
              AcceptedMeansJoined, Superseded, Method, User, Invitation
<1>4. QED
  BY <1>1, <1>2, <1>3 DEF Next

\* The invariant holds in every reachable state.
LEMMA Invariance == Spec => []IInv
BY InitIInv, NextIInv, PTL DEF Spec

\* Every variable keeps its type, under any interleaving of the methods of
\* membership.service.ts and invitation.service.ts.
THEOREM TypeCorrect == Spec => []TypeOK
BY Invariance, PTL DEF IInv

\* No invitation is accepted without its invitee's having joined, and none that
\* was not overwritten lets its invitee in twice: InvitationService.accept.
THEOREM AcceptedAlwaysJoined == Spec => []AcceptedMeansJoined
BY Invariance, PTL DEF IInv
-----------------------------------------------------------------------------
(* The limit.  Only the process that has just counted the members adds to  *)
(* those who are in or on their way in.                                    *)

Countable ==
  /\ IsFiniteSet(Members) /\ IsFiniteSet(Claims) /\ IsFiniteSet(Claimed)
  /\ Cardinality(Claimed) <= Cardinality(Claims)
  /\ Cardinality(Claims) <= Cardinality(Procs)

\* The roster can be counted: its claims number at most the processes.
LEMMA RosterFinite == IInv => Countable
<1>1. IsFiniteSet(Members)
  BY FS_Subset, Members \in SUBSET Users DEF Members
<1>2. IsFiniteSet(Claims) /\ Cardinality(Claims) <= Cardinality(Procs)
  BY FS_Subset, Claims \in SUBSET Procs DEF Claims
<1>3. [c \in Claims |-> User(c)] \in Surjection(Claims, Claimed)
  BY DEF Surjection, Claimed
<1>4. QED
  BY <1>1, <1>2, <1>3, FS_Surjection DEF Countable

\* A step that does not find room brings nobody new on the way.
LEMMA OnlyCountingAdds ==
  ASSUME IInv, [Next]_vars, \A c \in Procs : ~(CountMembers(c) /\ RoomLeft)
  PROVE  (Members \cup Claimed)' \subseteq Members \cup Claimed
<1> USE DEF Members, Claimed, Claims, Method, User
<1>1. ASSUME NEW c \in Procs, End(c), roster' = roster
      PROVE  (Members \cup Claimed)' \subseteq Members \cup Claimed
  BY <1>1, EndKeeps DEF IInv, roster
<1>2. ASSUME NEW c \in Procs, Receive(c)
      PROVE  (Members \cup Claimed)' \subseteq Members \cup Claimed
  BY <1>2 DEF Receive, Request, Goto, roster, IInv, TypeOK
<1>3. ASSUME NEW c \in Procs, Load(c) \/ FindMembership(c)
      PROVE  (Members \cup Claimed)' \subseteq Members \cup Claimed
  BY <1>3 DEF Load, FindMembership, Wanted, Goto, Proceed, roster, IInv, TypeOK, Addressed
<1>4. ASSUME NEW c \in Procs, LoadLapsed(c)
      PROVE  (Members \cup Claimed)' \subseteq Members \cup Claimed
  <2>1. call'[c].method = "expire" /\ \A d \in Procs \ {c} : call'[d] = call[d]
    BY <1>4 DEF LoadLapsed, IInv, TypeOK
  <2>2. QED
    BY <1>4, <2>1 DEF LoadLapsed, Goto, roster, IInv, TypeOK
<1>5. ASSUME NEW c \in Procs, Accept(c) \/ AddMember(c) \/ SaveMembership(c)
      PROVE  (Members \cup Claimed)' \subseteq Members \cup Claimed
  <2>1. End(c) /\ c \in Claims
    BY <1>5 DEF Accept, AddMember, SaveMembership
  <2>2. \A u \in Users : member'[u] # 0 => member[u] # 0 \/ u = User(c)
    BY <1>5 DEF Accept, AddMember, SaveMembership, CreateMembership, IInv, TypeOK
  <2>3. QED
    BY <2>1, <2>2, EndKeeps DEF IInv
<1>6. ASSUME NEW c \in Procs, DeleteMembership(c)
      PROVE  (Members \cup Claimed)' \subseteq Members \cup Claimed
  <2>1. \A u \in Users : member'[u] # 0 => member[u] # 0
    BY <1>6 DEF DeleteMembership, IInv, TypeOK
  <2>2. QED
    BY <1>6, <2>1, EndKeeps DEF DeleteMembership, IInv
<1>7. ASSUME NEW c \in Procs, Step(c)
      PROVE  (Members \cup Claimed)' \subseteq Members \cup Claimed
  BY <1>7, <1>1, <1>3, <1>4, <1>5, <1>6
     DEF Step, LoadAnswered, FindUnwanted, CountMembers, JoinRefused, Fail, CreateInvitation,
         Respond, roster
<1>8. CASE (\E i \in Invitations : Lapse(i)) \/ UNCHANGED vars
  BY <1>8 DEF Lapse, roster, vars
<1>9. QED
  BY <1>2, <1>7, <1>8 DEF Next

\* A story never has more collaborators than the limit and one for every
\* process but one, those about to be inserted included.
THEOREM RosterAlwaysBounded == Spec => []RosterBounded
<1>1. Cardinality(Procs) \in Nat \ {0}
  BY FS_CardinalityType, FS_EmptySet
<1>2. Init => RosterBounded
  <2>1. Init => Members \cup Claimed = {}
    BY DEF Init, Members, Claimed, Claims
  <2>2. QED
    BY <1>1, <2>1, FS_EmptySet DEF RosterBounded
<1>3. IInv /\ Countable' /\ RosterBounded /\ [Next]_vars => RosterBounded'
  <2> SUFFICES ASSUME IInv, Countable', RosterBounded, [Next]_vars PROVE RosterBounded'
    OBVIOUS
  <2>1. CASE \A c \in Procs : ~(CountMembers(c) /\ RoomLeft)
    <3>1. IsFiniteSet(Members \cup Claimed)
      BY RosterFinite, FS_Union DEF Countable
    <3>2. (Members \cup Claimed)' \in SUBSET (Members \cup Claimed)
      BY <2>1, OnlyCountingAdds
    <3>3. Cardinality((Members \cup Claimed)') <= Cardinality(Members \cup Claimed)
      BY <3>1, <3>2, FS_Subset
    <3>4. /\ Cardinality((Members \cup Claimed)') \in Nat
          /\ Cardinality(Members \cup Claimed) \in Nat
      BY <3>1, <3>2, FS_Subset, FS_CardinalityType
    <3>5. QED
      BY <1>1, <3>3, <3>4 DEF RosterBounded
  <2>2. ASSUME NEW c \in Procs, CountMembers(c), RoomLeft
        PROVE  RosterBounded'
    <3>1. Members' = Members
      BY <2>2 DEF CountMembers, Members, roster
    <3>2. IsFiniteSet(Members') /\ Cardinality(Members') \in Nat
          /\ Cardinality(Members') < MaxCollaborators
      BY <2>2, <3>1, RosterFinite, FS_CardinalityType DEF RoomLeft, Countable
    <3>3. /\ IsFiniteSet(Claimed') /\ IsFiniteSet(Claims')
          /\ Cardinality(Claimed') <= Cardinality(Claims')
          /\ Cardinality(Claims') <= Cardinality(Procs)
      BY DEF Countable
    <3>4. /\ Cardinality(Members' \cup Claimed') <= Cardinality(Members') + Cardinality(Claimed')
          /\ Cardinality(Members' \cup Claimed') \in Nat
          /\ Cardinality(Claimed') \in Nat /\ Cardinality(Claims') \in Nat
      <4>1. Cardinality(Members' \cap Claimed') \in Nat
        BY <3>2, FS_Intersection, FS_CardinalityType
      <4>2. IsFiniteSet(Members' \cup Claimed')
        BY <3>2, <3>3, FS_Union
      <4>3. Cardinality(Members' \cup Claimed') =
              Cardinality(Members') + Cardinality(Claimed') - Cardinality(Members' \cap Claimed')
        BY <3>2, <3>3, FS_Union
      <4>4. QED
        BY <3>2, <3>3, <4>1, <4>2, <4>3, FS_CardinalityType
    <3>5. QED
      BY <1>1, <3>2, <3>3, <3>4 DEF RosterBounded
  <2>3. QED
    BY <2>1, <2>2
<1>4. QED
  BY <1>2, <1>3, Invariance, RosterFinite, PTL DEF Spec

\* A removal never ends a membership made after it had found its row:
\* MembershipService.removeMember and leave.
THEOREM LateRemovalsHarmless == Spec => LateRemovalHarmless
<1> DEFINE Removed == \A u \in Users : member[u] # 0 /\ member'[u] = 0 =>
        \E c \in Procs \ outdated :
          pc[c] = "write" /\ Method(c) = "remove" /\ User(c) = u /\ pc'[c] = "idle"
<1>1. IInv /\ [Next]_vars => [Removed]_vars
  <2> SUFFICES ASSUME IInv, Next, NEW u \in Users, member[u] # 0, member'[u] = 0
               PROVE  \E c \in Procs \ outdated :
                        pc[c] = "write" /\ Method(c) = "remove" /\ User(c) = u /\ pc'[c] = "idle"
    BY DEF vars
  <2>1. ASSUME NEW c \in Procs, Accept(c) \/ AddMember(c) \/ SaveMembership(c)
        PROVE  FALSE
    BY <2>1 DEF Accept, AddMember, SaveMembership, CreateMembership, IInv, TypeOK
  <2>2. PICK c \in Procs : DeleteMembership(c)
    BY <2>1 DEF Next, Step, Receive, Request, Load, LoadLapsed, LoadAnswered, FindMembership,
           FindUnwanted, CountMembers, CreateInvitation, JoinRefused, Respond, Fail, Lapse, roster
  <2>3. User(c) = u /\ got[c] = member[u]
    BY <2>2 DEF DeleteMembership, IInv, TypeOK
  <2>4. c \notin outdated
    BY <2>3 DEF IInv, Superseded
  <2>5. pc'[c] = "idle"
    BY <2>2 DEF DeleteMembership, End, Goto, IInv, TypeOK
  <2>6. QED
    BY <2>2, <2>3, <2>4, <2>5 DEF DeleteMembership
<1>2. QED
  BY <1>1, Invariance, PTL DEF Spec, LateRemovalHarmless
-----------------------------------------------------------------------------
(* StoryText.                                                              *)

\* Every call that answers a suggestion names one, every call is at a statement
\* of its method, and what it will write is a text.
Named(c) ==
  /\ at[c] \in {"resolve", "preview", "apply"} => MethodOf(c) = "accept"
  /\ at[c] = "settle" => MethodOf(c) \in {"reject", "withdraw"}
  /\ at[c] \in {"version", "insert", "count", "select", "delete"} =>
       MethodOf(c) \in {"accept", "snapshot", "publish"}
  /\ MethodOf(c) \in {"accept", "reject", "withdraw"} => S(c) \in Suggestions
  /\ at[c] \in {"version", "insert", "update"} => found[c].content \in Texts
  /\ at[c] \in Capturing \cup {"preview"} /\ MethodOf(c) = "accept" => found[c].resolved \in Texts
AnswersNamed == \A c \in Servers : Named(c)

\* The version a call found, and the snapshots it will delete.
Dated(c) ==
  /\ at[c] = "insert" => found[c].version \in 1..(taken + 1)
  /\ found[c].oldest \subseteq 1..taken
  /\ \A n \in snapshots : n.id \in found[c].oldest => ~n.pinned

\* No snapshot has an id or a version beyond the number taken.
SnapshotsNumbered ==
  /\ IsFiniteSet(snapshots) /\ Cardinality(snapshots) <= taken
  /\ \A n \in snapshots : n.version <= n.id /\ n.id <= taken
  /\ \A c \in Servers : Dated(c)

\* How many snapshots pruning must leave, and those a deletion spares.
Limit == IF Cardinality(Pinned) > Cap THEN Cardinality(Pinned) ELSE Cap
Spared(c) == {n \in snapshots : n.id \notin found[c].oldest}

\* Snapshots beyond the limit are the work of a capture that has not come to
\* its deletion, and that deletes enough of them, or they were left by one that
\* was cut off.
WillPrune(c) ==
  \/ at[c] = "count"
  \/ at[c] = "select" /\ found[c].excess >= Cardinality(snapshots) - Cap
  \/ at[c] = "delete" /\ Cardinality(Spared(c)) <= Limit
ExcessOwed == ~unpruned /\ Cardinality(snapshots) > Limit => \E c \in Servers : WillPrune(c)

\* Snapshot n has the highest version.
Newest(n) == \A m \in snapshots : m # n => m.version < n.version

\* What an acceptance nobody disturbed has of its text, at each statement.
Captured(c) ==
  /\ at[c] = "version" => found[c].content = text
  /\ at[c] = "insert" => /\ found[c].content = text
                         /\ \A n \in snapshots : n.version < found[c].version
  /\ at[c] \in {"count", "select"} =>
       \E n \in snapshots : n.content = text /\ Newest(n)
  /\ at[c] = "select" => found[c].excess = Cardinality(snapshots) - Cap
  /\ at[c] = "delete" /\ Cardinality(Pinned) < Cap =>
       \E n \in snapshots : n.content = text /\ n.id \notin found[c].oldest
  /\ at[c] = "apply" /\ Cardinality(Pinned) < Cap => Versioned(text)
Undisturbed == \A c \in Servers : MethodOf(c) = "accept" /\ c \notin disturbed => Captured(c)

\* The invariant for the types and the suggestions, and the one for captures.
TextInv == TextTypeOK /\ AnswersNamed /\ SnapshotsNumbered /\ AcceptedWasApplied
CaptureInv == ExcessOwed /\ Undisturbed

\* The types of call and of found, by process.
TextCalls == [method : TextMethods \cup {"none"}, suggestion : Suggestions \cup {Nothing}]
TextReads == [resolved : Texts \cup {NoText}, content : Texts \cup {NoText},
              version : 0..(MaxSnapshots + 1), excess : 0..MaxSnapshots,
              oldest : SUBSET (1..MaxSnapshots)]

\* What a step of c leaves of the other calls.
Alone(c) == \A d \in Servers \ {c} :
              at'[d] = at[d] /\ request'[d] = request[d] /\ found'[d] = found[d]
CallsTyped ==
  /\ at \in [Servers -> Steps]
  /\ request \in [Servers -> TextCalls] /\ found \in [Servers -> TextReads]

\* A call that ends, reads, goes on or begins keeps to the types of calls and
\* is the only one to move.
LEMMA CallEnds ==
  ASSUME TextTypeOK, NEW c \in Servers, Return(c)
  PROVE  CallsTyped' /\ Alone(c) /\ at'[c] = "idle" /\ request'[c] = NoRequest /\ found'[c] = NoRead
<1>1. NoRead \in TextReads
  BY DEF NoRead, TextReads
<1>2. NoRequest \in TextCalls
  BY DEF NoRequest, TextCalls
<1>3. "idle" \in Steps
  BY DEF Steps
<1>4. QED
  BY <1>1, <1>2, <1>3 DEF TextTypeOK, Return, MoveTo, CallsTyped, Alone, TextCalls, TextReads

\* A call that reads keeps its request.
LEMMA CallReads ==
  ASSUME TextTypeOK, NEW c \in Servers, NEW p \in Steps, NEW r \in TextReads, Read(c, p, r)
  PROVE  CallsTyped' /\ Alone(c) /\ at'[c] = p /\ request'[c] = request[c] /\ found'[c] = r
BY DEF TextTypeOK, Read, MoveTo, CallsTyped, Alone, TextCalls, TextReads

\* A call that goes on keeps what it has read too.
LEMMA CallProceeds ==
  ASSUME TextTypeOK, NEW c \in Servers, NEW p \in Steps, GoOn(c, p)
  PROVE  CallsTyped' /\ Alone(c) /\ at'[c] = p /\ request'[c] = request[c] /\ found'[c] = found[c]
BY DEF TextTypeOK, GoOn, MoveTo, CallsTyped, Alone, TextCalls, TextReads

\* A call that begins has its method, its suggestion and its first reading.
LEMMA CallBegins ==
  ASSUME TextTypeOK, NEW c \in Servers, NEW m \in TextMethods, NEW s \in Suggestions \cup {Nothing},
         NEW p \in Steps, NEW r \in TextReads, Begin(c, m, s, p, r)
  PROVE  /\ CallsTyped' /\ Alone(c)
         /\ at'[c] = p /\ request'[c] = [method |-> m, suggestion |-> s] /\ found'[c] = r
<1>1. [method |-> m, suggestion |-> s] \in TextCalls
  BY DEF TextCalls
<1>2. QED
  BY <1>1 DEF TextTypeOK, Begin, MoveTo, CallsTyped, Alone, TextCalls, TextReads

\* The types of the state after a step, those of the calls apart.
LEMMA TypeOfText ==
  ASSUME text' \in Texts,
         proposal' \in [Suggestions -> Proposal \cup {NoProposal}],
         answer' \in [Suggestions -> {"none", "pending"} \cup Settled],
         snapshots' \subseteq Snapshot, \A n, m \in snapshots' : n.id = m.id => n = m,
         taken' \in 0..MaxSnapshots, CallsTyped',
         applied' \in [Suggestions -> Nat], overlapped' \subseteq Suggestions,
         disturbed' \subseteq Servers, unpruned' \in BOOLEAN
  PROVE  TextTypeOK'
BY DEF TextTypeOK, CallsTyped, TextCalls, TextReads

\* The initial states satisfy the invariant.
LEMMA InitText == TextInit => TextInv /\ CaptureInv
<1> SUFFICES ASSUME TextInit PROVE TextInv /\ CaptureInv
  OBVIOUS
<1> USE DEF TextInit, NoRequest, NoRead, MethodOf, S
<1>1. TextTypeOK
  <2>1. NoRead \in TextReads /\ NoRequest \in TextCalls /\ "idle" \in Steps
    BY DEF TextReads, TextCalls, Steps
  <2>2. CallsTyped
    BY <2>1 DEF CallsTyped
  <2>3. proposal \in [Suggestions -> Proposal \cup {NoProposal}]
    OBVIOUS
  <2>4. /\ answer \in [Suggestions -> {"none", "pending"} \cup Settled]
        /\ applied \in [Suggestions -> Nat]
    OBVIOUS
  <2>5. /\ snapshots \subseteq Snapshot /\ \A n, m \in snapshots : n.id = m.id => n = m
        /\ taken \in 0..MaxSnapshots /\ overlapped \subseteq Suggestions
    OBVIOUS
  <2>6. QED
    BY <2>2, <2>3, <2>4, <2>5 DEF TextTypeOK, CallsTyped, TextCalls, TextReads
<1>2. AnswersNamed
  BY DEF AnswersNamed, Named, Capturing
<1>3. SnapshotsNumbered
  BY FS_EmptySet DEF SnapshotsNumbered, Dated
<1>4. AcceptedWasApplied
  BY DEF AcceptedWasApplied
<1>5. Pinned = {}
  BY DEF Pinned
<1>6. ExcessOwed
  BY <1>5, FS_EmptySet DEF ExcessOwed, Limit
<1>7. Undisturbed
  BY DEF Undisturbed
<1>8. QED
  BY <1>1, <1>2, <1>3, <1>4, <1>6, <1>7 DEF TextInv, CaptureInv


\* A step of c that keeps to the types and takes no snapshot keeps what is said
\* of the calls and of the snapshots, if c itself does.
LEMMA TextKept ==
  ASSUME TextInv, NEW c \in Servers, Alone(c), UNCHANGED taken,
         snapshots' \subseteq snapshots, TextTypeOK', Named(c)', Dated(c)', AcceptedWasApplied'
  PROVE  TextInv'
<1> USE DEF TextInv
<1>1. AnswersNamed'
  BY DEF AnswersNamed, Named, Alone, MethodOf, S
<1>2. SnapshotsNumbered'
  <2>1. IsFiniteSet(snapshots') /\ Cardinality(snapshots') <= Cardinality(snapshots)
    BY FS_Subset DEF SnapshotsNumbered
  <2>2. Cardinality(snapshots) \in Nat /\ Cardinality(snapshots') \in Nat
    BY <2>1, FS_CardinalityType DEF SnapshotsNumbered
  <2>3. \A d \in Servers : Dated(d)'
    BY DEF SnapshotsNumbered, Dated, Alone
  <2>4. QED
    BY <2>1, <2>2, <2>3 DEF SnapshotsNumbered, TextTypeOK
<1>3. QED
  BY <1>1, <1>2

\* The calls of NoRead and of the requests that carry no suggestion.
LEMMA NoReadTyped == NoRead \in TextReads
BY DEF TextReads, NoRead

\* A step of c that only reads keeps the invariant if c's own call does.
LEMMA ReadingText ==
  ASSUME TextInv, NEW c \in Servers, UNCHANGED <<text, suggested, versions, textHistory>>,
         CallsTyped', Alone(c), Named(c)', Dated(c)'
  PROVE  TextInv'
<1> USE DEF suggested, versions, textHistory
<1>1. TextTypeOK'
  BY TypeOfText DEF TextInv, TextTypeOK
<1>2. AcceptedWasApplied'
  BY DEF TextInv, AcceptedWasApplied
<1>3. QED
  BY <1>1, <1>2, TextKept

\* A call that begins keeps the invariant.
LEMMA BeginText ==
  ASSUME TextInv, NEW c \in Servers,
         LoadForResolve(c) \/ FindSnapshot(c) \/ (at[c] = "idle" /\ Preview(c))
  PROVE  TextInv'
<1>1. ASSUME NEW m \in TextMethods, NEW s \in Suggestions \cup {Nothing}, NEW p \in Steps,
             NEW r \in TextReads, Begin(c, m, s, p, r), r.oldest = {}, p # "insert",
             \/ m \in {"accept", "reject", "withdraw"} /\ s \in Suggestions
                  /\ p = IF m = "accept" THEN "resolve" ELSE "settle"
             \/ m = "revert" /\ p = "update" /\ r.content \in Texts
             \/ m \in {"snapshot", "publish"} /\ p = "version" /\ r.content \in Texts
      PROVE  TextInv'
  <2>1. /\ CallsTyped' /\ Alone(c)
        /\ at'[c] = p /\ request'[c] = [method |-> m, suggestion |-> s] /\ found'[c] = r
    BY <1>1, CallBegins DEF TextInv
  <2>2. Named(c)' /\ Dated(c)'
    BY <1>1, <2>1 DEF Named, Dated, MethodOf, S, Capturing
  <2>3. QED
    BY <1>1, <2>1, <2>2, ReadingText DEF Begin
<1>2. CASE LoadForResolve(c)
  <2>1. PICK s \in Suggestions, m \in {"accept", "reject", "withdraw"} :
          Begin(c, m, s, IF m = "accept" THEN "resolve" ELSE "settle", NoRead)
    BY <1>2 DEF LoadForResolve
  <2>2. NoRead.oldest = {}
    BY DEF NoRead
  <2>3. QED
    BY <1>1, <2>1, <2>2, NoReadTyped DEF TextMethods, Steps
<1>3. ASSUME NEW t \in Texts
      PROVE  /\ [NoRead EXCEPT !.content = t] \in TextReads
             /\ [NoRead EXCEPT !.content = t].oldest = {}
             /\ [NoRead EXCEPT !.content = t].content = t
  BY DEF NoRead, TextReads
<1>4. CASE FindSnapshot(c)
  <2>1. PICK n \in snapshots :
          Begin(c, "revert", Nothing, "update", [NoRead EXCEPT !.content = n.content])
    BY <1>4 DEF FindSnapshot
  <2>2. n.content \in Texts
    BY DEF TextInv, TextTypeOK, Snapshot
  <2>3. QED
    BY <1>1, <1>3, <2>1, <2>2 DEF TextMethods, Steps
<1>5. CASE at[c] = "idle" /\ Preview(c)
  <2>1. PICK m \in {"snapshot", "publish"} :
          Begin(c, m, Nothing, "version", [NoRead EXCEPT !.content = text])
    BY <1>5 DEF Preview
  <2>2. text \in Texts
    BY DEF TextInv, TextTypeOK
  <2>3. m \in TextMethods /\ "version" \in Steps /\ Nothing \in Suggestions \cup {Nothing}
    BY DEF TextMethods, Steps
  <2> DEFINE r == [NoRead EXCEPT !.content = text]
  <2>4. r \in TextReads /\ r.oldest = {} /\ r.content \in Texts
    BY <1>3, <2>2
  <2>5. Begin(c, m, Nothing, "version", r)
    BY <2>1
  <2> HIDE DEF r
  <2>6. QED
    BY <1>1, <2>3, <2>4, <2>5
<1>6. QED
  BY <1>2, <1>4, <1>5

\* A text with one passage written is a text.
LEMMA WrittenIsText ==
  ASSUME TextTypeOK, NEW s \in Suggestions
  PROVE  Replaced(s) \in Texts
<1>1. text \in Texts
  BY DEF TextTypeOK
<1>2. CASE proposal[s] \in Proposal
  BY <1>1, <1>2 DEF Replaced, Texts, Proposal
<1>3. CASE proposal[s] = NoProposal
  <2>1. proposal[s].passage \notin Passages
    BY <1>3 DEF NoProposal
  <2>2. QED
    BY <1>1, <2>1 DEF Replaced, Texts
<1>4. QED
  BY <1>2, <1>3 DEF TextTypeOK

\* A set of numbers up to a bound has a greatest.
LEMMA HasGreatest ==
  ASSUME NEW k \in Nat, NEW T \in SUBSET (0..k), T # {}
  PROVE  Max(T) \in T /\ \A x \in T : x <= Max(T)
<1> DEFINE U == {k - x : x \in T}
<1>1. U \subseteq Nat /\ U # {}
  <2>1. \A x \in T : k - x \in Nat
    OBVIOUS
  <2>2. PICK x \in T : TRUE
    OBVIOUS
  <2>3. k - x \in U
    OBVIOUS
  <2>4. QED
    BY <2>1, <2>3
<1>2. PICK u \in U : \A v \in U : ~ (<<v, u>> \in OpToRel(<, Nat))
  BY <1>1, NatLessThanWellFounded, WFMin
<1>3. \A v \in U : ~ (v < u)
  BY <1>1, <1>2 DEF OpToRel
<1>4. PICK t \in T : u = k - t
  BY <1>2
<1>5. ASSUME NEW x \in T PROVE t >= x
  <2>1. k - x \in U
    OBVIOUS
  <2>2. ~ (k - x < k - t)
    BY <1>3, <1>4, <2>1
  <2>3. x \in Int /\ t \in Int
    OBVIOUS
  <2>4. QED
    BY <2>2, <2>3
<1>6. Max(T) \in T /\ \A x \in T : Max(T) >= x
  BY <1>4, <1>5 DEF Max
<1>7. QED
  BY <1>6

\* The version found is beyond every version there is.
LEMMA NextVersionIsNew ==
  ASSUME TextTypeOK, SnapshotsNumbered
  PROVE  NextVersion \in 1..(taken + 1) /\ \A n \in snapshots : n.version < NextVersion
<1> DEFINE V == {n.version : n \in snapshots}
<1>1. taken \in Nat /\ V \subseteq 0..taken /\ \A n \in snapshots : n.version \in 1..taken
  BY DEF TextTypeOK, SnapshotsNumbered, Snapshot
<1>2. CASE snapshots = {}
  BY <1>1, <1>2 DEF NextVersion
<1>3. CASE snapshots # {}
  <2>1. Max(V) \in V /\ \A x \in V : x <= Max(V)
    BY <1>1, <1>3, HasGreatest
  <2>2. NextVersion = Max(V) + 1
    BY <1>3 DEF NextVersion
  <2>3. PICK n \in snapshots : Max(V) = n.version
    BY <2>1
  <2>4. Max(V) \in 1..taken
    BY <1>1, <2>3
  <2>5. \A m \in snapshots : m.version <= Max(V)
    BY <2>1
  <2> HIDE DEF V
  <2>6. QED
    BY <1>1, <2>2, <2>4, <2>5
<1>4. QED
  BY <1>2, <1>3

\* A capture that goes on keeps its method, its suggestion and what it will write.
LEMMA CapturingNamed ==
  ASSUME NEW c \in Servers, Named(c), at[c] \in {"version", "insert", "count", "select", "delete"},
         request'[c] = request[c], found'[c].resolved = found[c].resolved,
         \/ at'[c] = "insert" /\ found'[c].content \in Texts
         \/ at'[c] \in {"count", "select", "delete"}
         \/ at'[c] = "apply" /\ MethodOf(c) = "accept"
  PROVE  Named(c)'
<1>1. MethodOf(c) \in {"accept", "snapshot", "publish"}
  BY DEF Named
<1>2. MethodOf(c) = "accept" => S(c) \in Suggestions /\ found[c].resolved \in Texts
  BY DEF Named, Capturing
<1>3. MethodOf(c)' = MethodOf(c) /\ S(c)' = S(c)
  BY DEF MethodOf, S
<1> HIDE DEF MethodOf, S
<1>4. QED
  BY <1>1, <1>2, <1>3 DEF Named

\* The anchor, the text to version and the snapshot's version are read.
LEMMA AnchorText ==
  ASSUME TextInv, NEW c \in Servers,
         ResolveAnchor(c) \/ (at[c] = "preview" /\ Preview(c)) \/ NextSnapshotVersion(c)
  PROVE  TextInv'
<1>1. found[c] \in TextReads /\ text \in Texts /\ taken \in 0..MaxSnapshots
  BY DEF TextInv, TextTypeOK, TextReads
<1>2. CASE ResolveAnchor(c)
  <2> DEFINE r == [found[c] EXCEPT !.resolved = Replaced(S(c))]
  <2>1. S(c) \in Suggestions
    BY <1>2 DEF ResolveAnchor, TextInv, AnswersNamed, Named
  <2>2. Replaced(S(c)) \in Texts
    BY <2>1, WrittenIsText DEF TextInv
  <2>3. r \in TextReads /\ r.oldest = found[c].oldest /\ r.resolved \in Texts
    BY <1>1, <2>2 DEF TextReads
  <2>4. Read(c, "preview", r) /\ "preview" \in Steps
    BY <1>2 DEF ResolveAnchor, Steps
  <2>5. /\ CallsTyped' /\ Alone(c)
        /\ at'[c] = "preview" /\ request'[c] = request[c] /\ found'[c] = r
    BY <2>3, <2>4, CallReads DEF TextInv
  <2>6. Named(c)' /\ Dated(c)'
    BY <1>2, <2>3, <2>5 DEF ResolveAnchor, TextInv, AnswersNamed, SnapshotsNumbered, Named,
                            Dated, MethodOf, S, Capturing, versions
  <2>7. QED
    BY <1>2, <2>5, <2>6, ReadingText DEF ResolveAnchor
<1>3. CASE at[c] = "preview" /\ Preview(c)
  <2> DEFINE r == [found[c] EXCEPT !.content = text]
  <2>1. /\ r \in TextReads /\ r.oldest = found[c].oldest
        /\ r.content \in Texts /\ r.resolved = found[c].resolved
    BY <1>1 DEF TextReads
  <2>2. /\ Read(c, "version", r) /\ "version" \in Steps
        /\ UNCHANGED <<text, suggested, versions, textHistory>>
    BY <1>3 DEF Preview, Begin, Steps
  <2>3. /\ CallsTyped' /\ Alone(c)
        /\ at'[c] = "version" /\ request'[c] = request[c] /\ found'[c] = r
    BY <2>1, <2>2, CallReads DEF TextInv
  <2> HIDE DEF r
  <2>4. Named(c)'
    <3>1. MethodOf(c) = "accept" /\ S(c) \in Suggestions
      BY <1>3 DEF TextInv, AnswersNamed, Named
    <3>2. found[c].resolved \in Texts
      BY <1>3, <3>1 DEF TextInv, AnswersNamed, Named
    <3>3. MethodOf(c)' = "accept" /\ S(c)' \in Suggestions
      BY <2>3, <3>1 DEF MethodOf, S
    <3>4. QED
      BY <2>1, <2>3, <3>2, <3>3 DEF Named
  <2>5. Dated(c)'
    BY <1>3, <2>1, <2>2, <2>3 DEF TextInv, SnapshotsNumbered, Dated, versions
  <2>6. QED
    BY <2>2, <2>3, <2>4, <2>5, ReadingText
<1>4. CASE NextSnapshotVersion(c)
  <2> DEFINE r == [found[c] EXCEPT !.version = NextVersion]
  <2>1. NextVersion \in 1..(taken + 1)
    BY NextVersionIsNew DEF TextInv
  <2>2. r \in TextReads /\ r.oldest = found[c].oldest /\ r.content = found[c].content
        /\ r.resolved = found[c].resolved /\ r.version \in 1..(taken + 1)
    BY <1>1, <2>1 DEF TextReads
  <2>3. Read(c, "insert", r) /\ "insert" \in Steps
    BY <1>4 DEF NextSnapshotVersion, Steps
  <2>4. /\ CallsTyped' /\ Alone(c)
        /\ at'[c] = "insert" /\ request'[c] = request[c] /\ found'[c] = r
    BY <2>2, <2>3, CallReads DEF TextInv
  <2> HIDE DEF r
  <2>5. Named(c)'
    <3>1. at[c] = "version" /\ Named(c)
      BY <1>4 DEF NextSnapshotVersion, TextInv, AnswersNamed
    <3>2. found[c].content \in Texts
      BY <3>1 DEF Named
    <3>3. QED
      BY <2>2, <2>4, <3>1, <3>2, CapturingNamed
  <2>6. Dated(c)'
    BY <1>4, <2>2, <2>4 DEF NextSnapshotVersion, TextInv, SnapshotsNumbered, Dated, versions
  <2>7. QED
    BY <1>4, <2>4, <2>5, <2>6, ReadingText DEF NextSnapshotVersion
<1>5. QED
  BY <1>2, <1>3, <1>4

\* A call that ends, whatever it has done, is named and dated.
LEMMA EndedNamed ==
  ASSUME NEW c \in Servers, at'[c] = "idle", request'[c] = NoRequest, found'[c] = NoRead
  PROVE  Named(c)' /\ Dated(c)'
BY DEF Named, Dated, NoRequest, NoRead, MethodOf, S, Capturing

\* The number of snapshots, and of those beyond the limit, in a capture's reading.
LEMMA SnapshotsCounted ==
  ASSUME TextTypeOK, SnapshotsNumbered
  PROVE  /\ IsFiniteSet(snapshots) /\ Cardinality(snapshots) \in 0..taken
         /\ IsFiniteSet(Pinned) /\ IsFiniteSet(Prunable)
         /\ Cardinality(Pinned) \in Nat /\ Cardinality(Prunable) \in Nat
         /\ Cardinality(Pinned) + Cardinality(Prunable) = Cardinality(snapshots)
         /\ Excess \in 0..MaxSnapshots
         /\ Excess = 0 <=> Cardinality(snapshots) <= Cap
<1>1. IsFiniteSet(snapshots) /\ Cardinality(snapshots) \in 0..taken /\ taken \in 0..MaxSnapshots
  BY FS_CardinalityType DEF TextTypeOK, SnapshotsNumbered
<1>2. Pinned \subseteq snapshots /\ Prunable \subseteq snapshots
  BY DEF Pinned, Prunable
<1>3. IsFiniteSet(Pinned) /\ IsFiniteSet(Prunable)
  BY <1>1, <1>2, FS_Subset
<1>4. Pinned \cup Prunable = snapshots /\ Pinned \cap Prunable = {}
  BY DEF Pinned, Prunable
<1>5. Cardinality(Pinned) \in Nat /\ Cardinality(Prunable) \in Nat
  BY <1>3, FS_CardinalityType
<1>6. Cardinality(snapshots) = Cardinality(Pinned) + Cardinality(Prunable) - Cardinality({})
  BY <1>3, <1>4, FS_Union
<1>7. Excess \in 0..MaxSnapshots /\ (Excess = 0 <=> Cardinality(snapshots) <= Cap)
  BY <1>1 DEF Excess
<1>8. QED
  BY <1>1, <1>3, <1>5, <1>6, <1>7, FS_EmptySet

\* The pruning statements before the deletion, and the calls that end or throw.
LEMMA PruningText ==
  ASSUME TextInv, NEW c \in Servers, CountSnapshots(c) \/ SelectPrunable(c)
  PROVE  TextInv'
<1>1. found[c] \in TextReads /\ taken \in 0..MaxSnapshots
  BY DEF TextInv, TextTypeOK, TextReads
<1>2. Named(c) /\ Dated(c)
  BY DEF TextInv, AnswersNamed, SnapshotsNumbered
<1>3. UNCHANGED <<text, suggested, versions, textHistory>>
  BY DEF CountSnapshots, SelectPrunable
<1>4. CASE CountSnapshots(c) /\ Excess = 0 /\ MethodOf(c) = "accept"
  <2>1. GoOn(c, "apply") /\ "apply" \in Steps /\ at[c] = "count"
    BY <1>4 DEF CountSnapshots, AfterCapture, Steps
  <2>2. /\ CallsTyped' /\ Alone(c)
        /\ at'[c] = "apply" /\ request'[c] = request[c] /\ found'[c] = found[c]
    BY <2>1, CallProceeds DEF TextInv
  <2>3. Named(c)'
    BY <1>2, <1>4, <2>1, <2>2, CapturingNamed
  <2>4. Dated(c)'
    BY <1>2, <1>3, <2>2 DEF Dated, versions
  <2>5. QED
    BY <1>3, <2>2, <2>3, <2>4, ReadingText
<1>5. CASE CountSnapshots(c) /\ Excess = 0 /\ MethodOf(c) # "accept"
  <2>1. Return(c)
    BY <1>5 DEF CountSnapshots, AfterCapture
  <2>2. QED
    BY <1>3, <2>1, CallEnds, EndedNamed, ReadingText DEF TextInv
<1>6. CASE CountSnapshots(c) /\ Excess # 0
  <2> DEFINE r == [found[c] EXCEPT !.excess = Excess]
  <2>1. Excess \in 0..MaxSnapshots
    BY SnapshotsCounted DEF TextInv
  <2>2. r \in TextReads /\ r.oldest = found[c].oldest /\ r.resolved = found[c].resolved
    BY <1>1, <2>1 DEF TextReads
  <2>3. Read(c, "select", r) /\ "select" \in Steps /\ at[c] = "count"
    BY <1>6 DEF CountSnapshots, Steps
  <2> HIDE DEF r
  <2>4. /\ CallsTyped' /\ Alone(c)
        /\ at'[c] = "select" /\ request'[c] = request[c] /\ found'[c] = r
    BY <2>2, <2>3, CallReads DEF TextInv
  <2>5. Named(c)'
    BY <1>2, <2>2, <2>3, <2>4, CapturingNamed
  <2>6. Dated(c)'
    BY <1>2, <1>3, <2>2, <2>4 DEF Dated, versions
  <2>7. QED
    BY <1>3, <2>4, <2>5, <2>6, ReadingText
<1>7. CASE SelectPrunable(c)
  <2>1. PICK oldest \in SUBSET Prunable :
          Read(c, "delete", [found[c] EXCEPT !.oldest = {n.id : n \in oldest}])
    BY <1>7 DEF SelectPrunable
  <2> DEFINE ids == {n.id : n \in oldest}
             r == [found[c] EXCEPT !.oldest = ids]
  <2>2. ids \subseteq 1..taken /\ \A n \in snapshots : n.id \in ids => ~n.pinned
    <3>1. \A n \in oldest : n \in snapshots /\ ~n.pinned
      BY DEF Prunable
    <3>2. \A n \in snapshots : n.id \in 1..taken
      BY <1>1 DEF TextInv, TextTypeOK, SnapshotsNumbered, Snapshot
    <3>3. QED
      BY <3>1, <3>2 DEF TextInv, TextTypeOK
  <2>3. r \in TextReads /\ r.oldest = ids /\ r.resolved = found[c].resolved
    BY <1>1, <2>2 DEF TextReads
  <2>4. Read(c, "delete", r) /\ "delete" \in Steps /\ at[c] = "select"
    BY <1>7, <2>1 DEF SelectPrunable, Steps
  <2> HIDE DEF r
  <2>5. /\ CallsTyped' /\ Alone(c)
        /\ at'[c] = "delete" /\ request'[c] = request[c] /\ found'[c] = r
    BY <2>3, <2>4, CallReads DEF TextInv
  <2>6. Named(c)'
    BY <1>2, <2>3, <2>4, <2>5, CapturingNamed
  <2>7. Dated(c)'
    BY <1>3, <2>2, <2>3, <2>5 DEF Dated, versions
  <2>8. QED
    BY <1>3, <2>5, <2>6, <2>7, ReadingText
<1>8. QED
  BY <1>4, <1>5, <1>6, <1>7

\* A capture's insert, under the next id.
LEMMA CreateText == ASSUME TextInv, NEW c \in Servers, CreateSnapshot(c) PROVE TextInv'
<1> DEFINE r == [NoRead EXCEPT !.resolved = found[c].resolved]
           n0 == NewSnapshot(c)
<1>1. /\ at[c] = "insert" /\ taken < MaxSnapshots /\ taken' = taken + 1
      /\ snapshots' = snapshots \cup {n0} /\ Read(c, "count", r)
      /\ UNCHANGED <<text, proposal, answer, applied, overlapped, unpruned>>
      /\ disturbed' = disturbed \cup Disturbed({c})
  BY DEF CreateSnapshot, suggested, Disturb
<1>2. Named(c) /\ Dated(c) /\ TextTypeOK /\ found[c] \in TextReads /\ taken \in Nat
  BY DEF TextInv, AnswersNamed, SnapshotsNumbered, TextTypeOK, TextReads
<1>3. r \in TextReads /\ r.oldest = {} /\ r.resolved = found[c].resolved /\ "count" \in Steps
  BY <1>2 DEF NoRead, TextReads, Steps
<1>4. /\ CallsTyped' /\ Alone(c)
      /\ at'[c] = "count" /\ request'[c] = request[c] /\ found'[c] = r
  BY <1>1, <1>2, <1>3, CallReads
<1> HIDE DEF r
<1>5. n0 \in Snapshot /\ n0.id = taken + 1 /\ n0.version <= taken + 1
  <2>1. found[c].content \in Texts /\ found[c].version \in 1..(taken + 1)
    BY <1>1, <1>2 DEF Named, Dated
  <2>2. (MethodOf(c) = "publish") \in BOOLEAN
    OBVIOUS
  <2>3. QED
    BY <1>1, <1>2, <2>1, <2>2 DEF NewSnapshot, Snapshot, TextTypeOK
<1> HIDE DEF n0
<1>6. \A n \in snapshots : n.id \in 1..taken /\ n.version <= n.id
  BY <1>2 DEF TextInv, SnapshotsNumbered, TextTypeOK, Snapshot
<1>7. TextTypeOK'
  <2>1. snapshots' \subseteq Snapshot /\ \A n, m \in snapshots' : n.id = m.id => n = m
    BY <1>1, <1>2, <1>5, <1>6 DEF TextTypeOK
  <2>2. disturbed' \subseteq Servers /\ taken' \in 0..MaxSnapshots
    BY <1>1, <1>2 DEF Disturbed, TextTypeOK
  <2>3. QED
    BY <1>1, <1>2, <1>4, <2>1, <2>2, TypeOfText DEF TextTypeOK
<1>8. AnswersNamed'
  <2>1. Named(c)'
    BY <1>1, <1>2, <1>3, <1>4, CapturingNamed
  <2>2. QED
    BY <1>4, <2>1 DEF TextInv, AnswersNamed, Named, Alone, MethodOf, S
<1>9. SnapshotsNumbered'
  <2>1. IsFiniteSet(snapshots') /\ Cardinality(snapshots') <= taken'
    <3>1. /\ IsFiniteSet(snapshots)
          /\ Cardinality(snapshots) \in Nat /\ Cardinality(snapshots) <= taken
      BY FS_CardinalityType DEF TextInv, SnapshotsNumbered
    <3>2. /\ IsFiniteSet(snapshots \cup {n0})
          /\ Cardinality(snapshots \cup {n0}) \in
               {Cardinality(snapshots), Cardinality(snapshots) + 1}
      BY <3>1, FS_AddElement, Zenon
    <3>3. Cardinality(snapshots \cup {n0}) \in Nat
      BY <3>2, FS_CardinalityType
    <3>4. QED
      BY <1>1, <1>2, <3>1, <3>2, <3>3
  <2>2. \A n \in snapshots' : n.version <= n.id /\ n.id <= taken'
    BY <1>1, <1>2, <1>5, <1>6
  <2>3. Dated(c)'
    BY <1>3, <1>4 DEF Dated
  <2>4. ASSUME NEW d \in Servers \ {c} PROVE Dated(d)'
    <3>1. Dated(d) /\ at'[d] = at[d] /\ found'[d] = found[d]
      BY <1>4 DEF Alone, TextInv, SnapshotsNumbered
    <3>2. n0.id \notin found[d].oldest /\ taken' = taken + 1
      BY <1>1, <1>2, <1>5, <3>1 DEF Dated
    <3>3. QED
      BY <1>1, <1>2, <3>1, <3>2 DEF Dated
  <2>5. QED
    BY <2>1, <2>2, <2>3, <2>4 DEF SnapshotsNumbered
<1>10. AcceptedWasApplied'
  BY <1>1 DEF TextInv, AcceptedWasApplied
<1>11. QED
  BY <1>7, <1>8, <1>9, <1>10 DEF TextInv

\* A deletion, an acceptance's or another capture's.
LEMMA DeleteText == ASSUME TextInv, NEW c \in Servers, DeleteSnapshots(c) PROVE TextInv'
<1>1. /\ at[c] = "delete" /\ AfterCapture(c) /\ snapshots' \subseteq snapshots
      /\ UNCHANGED <<text, proposal, answer, taken, applied, overlapped, unpruned>>
      /\ disturbed' = disturbed \cup Disturbed({c})
  BY DEF DeleteSnapshots, suggested, Disturb
<1>2. Named(c) /\ Dated(c) /\ TextTypeOK
  BY DEF TextInv, AnswersNamed, SnapshotsNumbered
<1>3. CallsTyped' /\ Alone(c) /\ Named(c)' /\ Dated(c)'
  <2>1. CASE MethodOf(c) = "accept"
    <3>1. GoOn(c, "apply") /\ "apply" \in Steps
      BY <1>1, <2>1 DEF AfterCapture, Steps
    <3>2. /\ CallsTyped' /\ Alone(c)
          /\ at'[c] = "apply" /\ request'[c] = request[c] /\ found'[c] = found[c]
      BY <1>2, <3>1, CallProceeds
    <3>3. Named(c)'
      BY <1>1, <1>2, <2>1, <3>2, CapturingNamed
    <3>4. Dated(c)'
      BY <1>1, <1>2, <3>2 DEF Dated
    <3>5. QED
      BY <3>2, <3>3, <3>4
  <2>2. CASE MethodOf(c) # "accept"
    BY <1>1, <1>2, <2>2, CallEnds, EndedNamed DEF AfterCapture
  <2>3. QED
    BY <2>1, <2>2
<1>4. TextTypeOK'
  BY <1>1, <1>2, <1>3, TypeOfText DEF TextTypeOK, Disturbed
<1>5. AcceptedWasApplied'
  BY <1>1 DEF TextInv, AcceptedWasApplied
<1>6. QED
  BY <1>1, <1>3, <1>4, <1>5, TextKept

\* The steps that end a call and write the text, a suggestion, or nothing.
LEMMA EndingText ==
  ASSUME TextInv, NEW c \in Servers,
         Apply(c) \/ Settle(c) \/ AnchorConflict(c) \/ Revert(c) \/ CutOff(c)
  PROVE  TextInv'
<1>1. Named(c) /\ TextTypeOK /\ AcceptedWasApplied
  BY DEF TextInv, AnswersNamed
<1>2. Return(c) /\ UNCHANGED <<proposal, snapshots, taken>>
  BY DEF Apply, Settle, AnchorConflict, Revert, CutOff, suggested, versions
<1>3. CallsTyped' /\ Alone(c) /\ Named(c)' /\ Dated(c)'
  BY <1>1, <1>2, CallEnds, EndedNamed
<1>4. CASE Apply(c) \/ Settle(c)
  <2>1. /\ S(c) \in Suggestions
        /\ \E response \in Settled :
             /\ Save(S(c), response)
             /\ applied' = [applied EXCEPT ![S(c)] = IF response = "accepted" THEN @ + 1 ELSE @]
        /\ text' \in Texts /\ disturbed' \subseteq Servers /\ unpruned' = unpruned
    <3>1. CASE Apply(c)
      BY <1>1, <3>1 DEF Apply, Named, Settled, TextTypeOK, Disturbed, Capturing
    <3>2. CASE Settle(c)
      <4>1. Save(S(c), IF MethodOf(c) = "reject" THEN "rejected" ELSE "withdrawn")
            /\ applied' = [applied EXCEPT ![S(c)] = @] /\ S(c) \in Suggestions
        BY <1>1, <3>2 DEF Settle, Named, TextTypeOK
      <4>2. QED
        BY <1>1, <3>2, <4>1 DEF Settle, Settled, TextTypeOK
    <3>3. QED
      BY <1>4, <3>1, <3>2
  <2>2. PICK response \in Settled :
             /\ Save(S(c), response)
             /\ applied' = [applied EXCEPT ![S(c)] = IF response = "accepted" THEN @ + 1 ELSE @]
    BY <2>1
  <2>3. /\ answer' \in [Suggestions -> {"none", "pending"} \cup Settled]
        /\ applied' \in [Suggestions -> Nat] /\ overlapped' \subseteq Suggestions
    BY <1>1, <2>1, <2>2 DEF Save, TextTypeOK
  <2>4. TextTypeOK'
    BY <1>1, <1>2, <1>3, <2>1, <2>3, TypeOfText DEF TextTypeOK
  <2>5. AcceptedWasApplied'
    <3> SUFFICES ASSUME NEW s \in Suggestions
                 PROVE  /\ answer'[s] = "accepted" => applied'[s] > 0
                        /\ s \notin overlapped' =>
                             applied'[s] = (IF answer'[s] = "accepted" THEN 1 ELSE 0)
      BY DEF AcceptedWasApplied
    <3>1. CASE s = S(c)
      BY <1>1, <2>2, <3>1 DEF Save, TextTypeOK, AcceptedWasApplied, Settled
    <3>2. CASE s # S(c)
      BY <1>1, <2>2, <3>2 DEF Save, TextTypeOK, AcceptedWasApplied
    <3>3. QED
      BY <3>1, <3>2
  <2>6. QED
    BY <1>2, <1>3, <2>4, <2>5, TextKept
<1>5. CASE AnchorConflict(c) \/ Revert(c) \/ CutOff(c)
  <2>1. text' \in Texts /\ disturbed' \subseteq Servers /\ unpruned' \in BOOLEAN
        /\ UNCHANGED <<answer, applied, overlapped>>
    BY <1>1, <1>5 DEF AnchorConflict, Revert, CutOff, TextTypeOK, Named, Disturb, Disturbed,
                            suggested, textHistory
  <2>2. TextTypeOK'
    BY <1>1, <1>2, <1>3, <2>1, TypeOfText DEF TextTypeOK
  <2>3. AcceptedWasApplied'
    BY <1>1, <2>1 DEF AcceptedWasApplied
  <2>4. QED
    BY <1>2, <1>3, <2>2, <2>3, TextKept
<1>6. QED
  BY <1>4, <1>5

\* A new suggestion and the author's edit.
LEMMA AuthorText ==
  ASSUME TextInv,
         \/ \E s \in Suggestions : Suggest(s)
         \/ \E p \in Passages, w \in Wordings : Edit(p, w)
  PROVE  TextInv'
<1>1. /\ UNCHANGED <<snapshots, taken, at, request, found, applied, overlapped, unpruned>>
      /\ text' \in Texts /\ disturbed' \subseteq Servers
      /\ proposal' \in [Suggestions -> Proposal \cup {NoProposal}]
      /\ answer' \in [Suggestions -> {"none", "pending"} \cup Settled]
      /\ \A s \in Suggestions : answer'[s] = "accepted" <=> answer[s] = "accepted"
  <2>1. CASE \E s \in Suggestions : Suggest(s)
    BY <2>1 DEF Suggest, TextInv, TextTypeOK, versions, textHistory
  <2>2. CASE \E p \in Passages, w \in Wordings : Edit(p, w)
    BY <2>2 DEF Edit, TextInv, TextTypeOK, Texts, suggested, versions, Disturb, Disturbed
  <2>3. QED
    BY <2>1, <2>2
<1>2. CallsTyped'
  BY <1>1 DEF TextInv, TextTypeOK, CallsTyped, TextCalls, TextReads
<1>3. TextTypeOK'
  BY <1>1, <1>2, TypeOfText DEF TextInv, TextTypeOK
<1>4. AnswersNamed' /\ SnapshotsNumbered'
  BY <1>1 DEF TextInv, AnswersNamed, Named, MethodOf, S, SnapshotsNumbered, Dated
<1>5. AcceptedWasApplied'
  BY <1>1 DEF TextInv, AcceptedWasApplied
<1>6. QED
  BY <1>3, <1>4, <1>5 DEF TextInv

\* Every step keeps the invariant.
LEMMA NextText == TextInv /\ [TextNext]_textVars => TextInv'
<1> SUFFICES ASSUME TextInv, [TextNext]_textVars PROVE TextInv'
  OBVIOUS
<1>1. ASSUME NEW c \in Servers, TextStep(c)
      PROVE  TextInv'
  <2>1. at[c] = "idle" \/ at[c] = "preview" \/ ~Preview(c)
    BY DEF Preview, Begin
  <2>2. QED
    BY <1>1, <2>1, BeginText, AnchorText, PruningText, CreateText, DeleteText, EndingText DEF TextStep
<1>2. CASE UNCHANGED textVars
  BY <1>2 DEF textVars, TextInv, TextTypeOK, AnswersNamed, Named, SnapshotsNumbered, Dated,
              AcceptedWasApplied, MethodOf, S
<1>3. QED
  BY <1>1, <1>2, AuthorText DEF TextNext

\* The invariant of the story's text holds in every reachable state.
LEMMA TextInvariance == TextSpec => []TextInv
BY InitText, NextText, PTL DEF TextSpec

\* Every reachable state keeps to the types: no two snapshots share an id, and
\* what SnapshotService counts and selects never leaves the ids given out.
THEOREM TextTypeCorrect == TextSpec => []TextTypeOK
BY TextInvariance, PTL DEF TextInv

\* SuggestionService.accept: a suggestion that says accepted has been written
\* to the text, and but for overlapping answers exactly once, and no other has.
THEOREM AcceptedAlwaysApplied == TextSpec => []AcceptedWasApplied
BY TextInvariance, PTL DEF TextInv

-----------------------------------------------------------------------------
\* What is said of one acceptance.
Kept(d) == MethodOf(d) = "accept" /\ d \notin disturbed => Captured(d)

\* A step of somebody else leaves an acceptance what it has captured, or
\* disturbs it.
LEMMA OtherKept ==
  ASSUME Undisturbed, NEW d \in Servers,
         at'[d] = at[d], request'[d] = request[d], found'[d] = found[d],
         d \in disturbed => d \in disturbed',
         \/ UNCHANGED <<text, snapshots>>
         \/ MethodOf(d) = "accept" /\ at[d] \in Capturing => d \in disturbed'
  PROVE  Kept(d)'
<1>1. Kept(d)
  BY DEF Undisturbed, Kept
<1>2. CASE UNCHANGED <<text, snapshots>>
  BY <1>1, <1>2 DEF Kept, Captured, Newest, Pinned, Versioned, MethodOf
<1>3. CASE MethodOf(d) = "accept" /\ at[d] \in Capturing => d \in disturbed'
  <2> SUFFICES ASSUME MethodOf(d) = "accept", d \notin disturbed' PROVE Captured(d)'
    BY DEF Kept, MethodOf
  <2>1. at[d] \notin {"version", "insert", "count", "select", "delete", "apply"}
    BY <1>3 DEF Capturing
  <2>2. QED
    BY <2>1 DEF Captured
<1>4. QED
  BY <1>2, <1>3

\* A step of c keeps the invariant if it keeps it for c, and disturbs whom it
\* takes the text or the snapshots from.
LEMMA UndisturbedKept ==
  ASSUME Undisturbed, NEW c \in Servers, Alone(c), Kept(c)', disturbed \ {c} \subseteq disturbed',
         UNCHANGED <<text, snapshots>> \/ Disturbed({c}) \subseteq disturbed'
  PROVE  Undisturbed'
<1>1. \A d \in Servers \ {c} : Kept(d)'
  BY OtherKept DEF Alone, Disturbed
<1>2. QED
  BY <1>1 DEF Undisturbed, Kept

\* A call that begins is not capturing for an acceptance yet.
LEMMA BeginUndisturbed ==
  ASSUME TextInv, Undisturbed, NEW c \in Servers,
         LoadForResolve(c) \/ FindSnapshot(c) \/ (at[c] = "idle" /\ Preview(c))
  PROVE  Undisturbed'
<1>1. PICK m \in TextMethods, s \in Suggestions \cup {Nothing}, p \in Steps, r \in TextReads :
        Begin(c, m, s, p, r) /\ (m # "accept" \/ p = "resolve")
  <2>1. ASSUME NEW t \in Texts PROVE [NoRead EXCEPT !.content = t] \in TextReads
    BY DEF NoRead, TextReads
  <2>2. CASE LoadForResolve(c)
    BY <2>2, NoReadTyped DEF LoadForResolve, TextMethods, Steps
  <2>3. CASE FindSnapshot(c)
    <3>1. \A n \in snapshots : [NoRead EXCEPT !.content = n.content] \in TextReads
      BY <2>1 DEF TextInv, TextTypeOK, Snapshot
    <3>2. QED
      BY <2>3, <3>1 DEF FindSnapshot, TextMethods, Steps
  <2>4. CASE at[c] = "idle" /\ Preview(c)
    BY <2>1, <2>4 DEF Preview, TextMethods, Steps, TextInv, TextTypeOK
  <2>5. QED
    BY <2>2, <2>3, <2>4
<1>2. /\ Alone(c) /\ at'[c] = p /\ request'[c] = [method |-> m, suggestion |-> s]
  BY <1>1, CallBegins DEF TextInv
<1>3. Kept(c)'
  BY <1>1, <1>2 DEF Kept, Captured, MethodOf
<1>4. QED
  BY <1>1, <1>2, <1>3, UndisturbedKept DEF Begin, versions, textHistory

\* A call that ends has captured nothing.
LEMMA EndUndisturbed ==
  ASSUME TextInv, Undisturbed, NEW c \in Servers, Return(c), disturbed \ {c} \subseteq disturbed',
         UNCHANGED <<text, snapshots>> \/ Disturbed({c}) \subseteq disturbed'
  PROVE  Undisturbed'
<1>1. Alone(c) /\ at'[c] = "idle" /\ request'[c] = NoRequest
  BY CallEnds DEF TextInv
<1>2. Kept(c)'
  BY <1>1 DEF Kept, MethodOf, NoRequest
<1>3. QED
  BY <1>1, <1>2, UndisturbedKept

\* Until its snapshot is inserted, an undisturbed acceptance holds the text
\* there is and a version beyond all others.
LEMMA AnchorUndisturbed ==
  ASSUME TextInv, Undisturbed, NEW c \in Servers,
         ResolveAnchor(c) \/ (at[c] = "preview" /\ Preview(c)) \/ NextSnapshotVersion(c)
  PROVE  Undisturbed'
<1>1. found[c] \in TextReads /\ at \in [Servers -> Steps] /\ found \in [Servers -> TextReads]
  BY DEF TextInv, TextTypeOK, TextReads
<1>2. /\ UNCHANGED <<text, snapshots, disturbed>> /\ Alone(c) /\ request' = request
  BY <1>1 DEF ResolveAnchor, Preview, Begin, NextSnapshotVersion, Read, MoveTo, versions,
              textHistory, Alone
<1>3. Kept(c)'
  <2> SUFFICES ASSUME MethodOf(c) = "accept", c \notin disturbed PROVE Captured(c)'
    BY <1>2 DEF Kept, MethodOf
  <2>1. CASE ResolveAnchor(c)
    BY <1>1, <2>1 DEF ResolveAnchor, Read, MoveTo, Captured
  <2>2. CASE at[c] = "preview" /\ Preview(c)
    <3>1. at'[c] = "version" /\ found'[c] = [found[c] EXCEPT !.content = text]
      BY <1>1, <2>2 DEF Preview, Begin, Read, MoveTo
    <3>2. found'[c].content = text
      BY <1>1, <3>1 DEF TextReads
    <3>3. QED
      BY <1>2, <3>1, <3>2 DEF Captured
  <2>3. CASE NextSnapshotVersion(c)
    <3>1. /\ at[c] = "version" /\ at'[c] = "insert"
          /\ found'[c] = [found[c] EXCEPT !.version = NextVersion]
      BY <1>1, <2>3 DEF NextSnapshotVersion, Read, MoveTo
    <3>2. found[c].content = text
      BY <3>1 DEF Undisturbed, Captured
    <3>3. found'[c].content = text /\ found'[c].version = NextVersion
      BY <1>1, <3>1, <3>2 DEF TextReads
    <3>4. \A n \in snapshots : n.version < NextVersion
      BY NextVersionIsNew DEF TextInv
    <3>5. QED
      BY <1>2, <3>1, <3>3, <3>4 DEF Captured
  <2>4. QED
    BY <2>1, <2>2, <2>3
<1>4. QED
  BY <1>2, <1>3, UndisturbedKept

\* The inserted snapshot holds the text and is the newest.
LEMMA CreateUndisturbed ==
  ASSUME TextInv, Undisturbed, NEW c \in Servers, CreateSnapshot(c)
  PROVE  Undisturbed'
<1> DEFINE r == [NoRead EXCEPT !.resolved = found[c].resolved]
           n0 == NewSnapshot(c)
<1>1. /\ at[c] = "insert" /\ snapshots' = snapshots \cup {n0} /\ Read(c, "count", r)
      /\ text' = text /\ disturbed' = disturbed \cup Disturbed({c})
  BY DEF CreateSnapshot, suggested, Disturb
<1>2. /\ at \in [Servers -> Steps] /\ found \in [Servers -> TextReads] /\ found[c] \in TextReads
  BY DEF TextInv, TextTypeOK, TextReads
<1>3. Alone(c) /\ at'[c] = "count" /\ request' = request
  BY <1>1, <1>2 DEF Read, MoveTo, Alone
<1>4. Kept(c)'
  <2> SUFFICES ASSUME MethodOf(c) = "accept", c \notin disturbed PROVE Captured(c)'
    BY <1>1, <1>3 DEF Kept, MethodOf
  <2>1. found[c].content = text /\ \A n \in snapshots : n.version < found[c].version
    BY <1>1 DEF Undisturbed, Captured
  <2>2. n0.content = text /\ n0.version = found[c].version
    BY <2>1 DEF NewSnapshot
  <2> HIDE DEF n0
  <2>3. n0 \in snapshots' /\ \A m \in snapshots' : m # n0 => m.version < n0.version
    BY <1>1, <2>1, <2>2
  <2>4. QED
    BY <1>1, <1>3, <2>2, <2>3 DEF Captured, Newest
<1>5. QED
  BY <1>1, <1>3, <1>4, UndisturbedKept

\* Selecting what is beyond the limit spares the newest, unless the pinned
\* snapshots alone fill the limit.
LEMMA SelectSparesNewest ==
  ASSUME TextTypeOK, SnapshotsNumbered, Cardinality(Pinned) < Cap,
         NEW oldest \in SUBSET Prunable, NEW excess \in Nat,
         excess = Cardinality(snapshots) - Cap,
         Cardinality(oldest) = Min({excess, Cardinality(Prunable)}),
         \A n \in oldest, m \in Prunable \ oldest : n.version <= m.version,
         NEW n0 \in snapshots, Newest(n0)
  PROVE  n0 \notin oldest
<1>1. excess < Cardinality(Prunable) /\ Cardinality(Prunable) \in Nat /\ IsFiniteSet(Prunable)
  BY SnapshotsCounted DEF TextTypeOK
<1>2. Min({excess, Cardinality(Prunable)}) = excess
  BY <1>1 DEF Min
<1>3. oldest # Prunable
  BY <1>1, <1>2
<1>4. PICK m \in Prunable \ oldest : TRUE
  BY <1>3
<1>5. SUFFICES ASSUME n0 \in oldest PROVE FALSE
  OBVIOUS
<1>6. n0.version <= m.version /\ m.version < n0.version
  BY <1>4, <1>5 DEF Newest, Prunable
<1>7. n0.version \in Int /\ m.version \in Int
  BY DEF TextTypeOK, Snapshot, Prunable
<1>8. QED
  BY <1>6, <1>7

\* Counting and selecting keep the newest snapshot out of what is deleted.
LEMMA PruningUndisturbed ==
  ASSUME TextInv, Undisturbed, NEW c \in Servers, CountSnapshots(c) \/ SelectPrunable(c)
  PROVE  Undisturbed'
<1>1. /\ at \in [Servers -> Steps] /\ found \in [Servers -> TextReads] /\ found[c] \in TextReads
      /\ request \in [Servers -> TextCalls]
  BY DEF TextInv, TextTypeOK, TextReads, TextCalls
<1>2. UNCHANGED <<text, snapshots, disturbed>>
  BY DEF CountSnapshots, SelectPrunable, versions, textHistory
<1>3. CASE CountSnapshots(c) /\ Excess = 0 /\ MethodOf(c) # "accept"
  <2>1. Return(c)
    BY <1>3 DEF CountSnapshots, AfterCapture
  <2>2. QED
    BY <1>2, <2>1, EndUndisturbed
<1>4. ASSUME \/ CountSnapshots(c) /\ (Excess # 0 \/ MethodOf(c) = "accept")
             \/ SelectPrunable(c)
      PROVE  Undisturbed'
  <2>1. Alone(c) /\ request' = request
    BY <1>1, <1>4 DEF CountSnapshots, SelectPrunable, AfterCapture, GoOn, Read, MoveTo, Alone
  <2>2. Kept(c)'
    <3> SUFFICES ASSUME MethodOf(c) = "accept", c \notin disturbed PROVE Captured(c)'
      BY <1>2, <2>1 DEF Kept, MethodOf
    <3>1. at[c] \in {"count", "select"}
      BY <1>4 DEF CountSnapshots, SelectPrunable
    <3>2. PICK n0 \in snapshots : n0.content = text /\ Newest(n0)
      BY <3>1 DEF Undisturbed, Captured
    <3>3. CASE CountSnapshots(c) /\ Excess = 0
      <4>1. at'[c] = "apply"
        BY <1>1, <3>3 DEF CountSnapshots, AfterCapture, GoOn, MoveTo
      <4>2. Versioned(text)'
        BY <1>2, <3>2 DEF Versioned
      <4>3. QED
        BY <1>2, <4>1, <4>2 DEF Captured
    <3>4. CASE CountSnapshots(c) /\ Excess # 0
      <4>1. at'[c] = "select" /\ found'[c] = [found[c] EXCEPT !.excess = Excess]
        BY <1>1, <3>4 DEF CountSnapshots, Read, MoveTo
      <4>2. found'[c].excess = Excess
        BY <1>1, <4>1 DEF TextReads
      <4>3. Excess = Cardinality(snapshots) - Cap
        BY <3>4 DEF Excess
      <4>4. QED
        BY <1>2, <3>2, <4>1, <4>2, <4>3 DEF Captured, Newest
    <3>5. CASE SelectPrunable(c)
      <4>1. PICK oldest \in SUBSET Prunable :
              /\ Cardinality(oldest) = Min({found[c].excess, Cardinality(Prunable)})
              /\ \A n \in oldest, m \in Prunable \ oldest : n.version <= m.version
              /\ Read(c, "delete", [found[c] EXCEPT !.oldest = {n.id : n \in oldest}])
        BY <3>5 DEF SelectPrunable
      <4>2. at[c] = "select" /\ at'[c] = "delete" /\ found'[c].oldest = {n.id : n \in oldest}
        BY <1>1, <3>5, <4>1 DEF SelectPrunable, Read, MoveTo, TextReads
      <4>3. found[c].excess = Cardinality(snapshots) - Cap /\ found[c].excess \in Nat
        BY <1>1, <4>2 DEF Undisturbed, Captured, TextReads
      <4>4. Cardinality(Pinned) < Cap => n0 \notin oldest
        BY <3>2, <4>1, <4>3, SelectSparesNewest DEF TextInv
      <4>5. n0 \notin oldest => n0.id \notin found'[c].oldest
        BY <4>2 DEF TextInv, TextTypeOK, Prunable
      <4>6. QED
        BY <1>2, <3>2, <4>2, <4>4, <4>5 DEF Captured, Pinned
    <3>6. QED
      BY <1>4, <3>3, <3>4, <3>5
  <2>3. QED
    BY <1>2, <2>1, <2>2, UndisturbedKept
<1>5. QED
  BY <1>3, <1>4

\* The deletion that follows deletes no pinned snapshot, and not the newest.
LEMMA DeleteUndisturbed ==
  ASSUME TextInv, Undisturbed, NEW c \in Servers, DeleteSnapshots(c)
  PROVE  Undisturbed'
<1>1. /\ at[c] = "delete" /\ AfterCapture(c)
      /\ snapshots' = {n \in snapshots : n.id \notin found[c].oldest}
      /\ text' = text /\ disturbed' = disturbed \cup Disturbed({c})
  BY DEF DeleteSnapshots, suggested, Disturb
<1>2. CASE MethodOf(c) # "accept"
  <2>1. Return(c)
    BY <1>1, <1>2 DEF AfterCapture
  <2>2. QED
    BY <1>1, <2>1, EndUndisturbed
<1>3. CASE MethodOf(c) = "accept"
  <2>1. Alone(c) /\ request' = request /\ at'[c] = "apply"
    BY <1>1, <1>3 DEF AfterCapture, GoOn, MoveTo, Alone, TextInv, TextTypeOK
  <2>2. Pinned' = Pinned
    BY <1>1 DEF Pinned, TextInv, SnapshotsNumbered, Dated
  <2>3. Kept(c)'
    <3> SUFFICES ASSUME c \notin disturbed, Cardinality(Pinned) < Cap PROVE Versioned(text)'
      BY <1>1, <2>1, <2>2 DEF Kept, Captured, MethodOf
    <3>1. PICK n \in snapshots : n.content = text /\ n.id \notin found[c].oldest
      BY <1>1, <1>3 DEF Undisturbed, Captured
    <3>2. QED
      BY <1>1, <3>1 DEF Versioned
  <2>4. QED
    BY <1>1, <2>1, <2>3, UndisturbedKept
<1>4. QED
  BY <1>2, <1>3

\* Every step leaves undisturbed acceptances what they captured.
LEMMA NextUndisturbed == TextInv /\ Undisturbed /\ [TextNext]_textVars => Undisturbed'
<1> SUFFICES ASSUME TextInv, Undisturbed, [TextNext]_textVars PROVE Undisturbed'
  OBVIOUS
<1>1. ASSUME NEW c \in Servers, TextStep(c)
      PROVE  Undisturbed'
  <2>1. CASE Apply(c) \/ Settle(c) \/ AnchorConflict(c) \/ Revert(c) \/ CutOff(c)
    <3>1. Return(c) /\ disturbed \ {c} \subseteq disturbed'
      BY <2>1 DEF Apply, Settle, AnchorConflict, Revert, CutOff, Disturb, textHistory
    <3>2. UNCHANGED <<text, snapshots>> \/ Disturbed({c}) \subseteq disturbed'
      BY <2>1 DEF Apply, Settle, AnchorConflict, Revert, CutOff, Disturb, Disturbed, versions
    <3>3. QED
      BY <3>1, <3>2, EndUndisturbed
  <2>2. at[c] = "idle" \/ at[c] = "preview" \/ ~Preview(c)
    BY DEF Preview, Begin
  <2>3. QED
    BY <1>1, <2>1, <2>2, BeginUndisturbed, AnchorUndisturbed, PruningUndisturbed, CreateUndisturbed,
       DeleteUndisturbed DEF TextStep
<1>2. CASE UNCHANGED textVars \/ \E s \in Suggestions : Suggest(s)
  <2>1. UNCHANGED <<text, snapshots, disturbed, at, request, found>>
    BY <1>2 DEF textVars, Suggest, versions, textHistory
  <2>2. \A d \in Servers : Kept(d)'
    BY <2>1, OtherKept
  <2>3. QED
    BY <2>2 DEF Undisturbed, Kept
<1>3. CASE \E p \in Passages, w \in Wordings : Edit(p, w)
  <2>1. UNCHANGED <<at, request, found>> /\ disturbed' = disturbed \cup Disturbed({})
    BY <1>3 DEF Edit, Disturb
  <2>2. \A d \in Servers : Kept(d)'
    BY <2>1, OtherKept DEF Disturbed
  <2>3. QED
    BY <2>2 DEF Undisturbed, Kept
<1>4. QED
  BY <1>1, <1>2, <1>3 DEF TextNext

\* SnapshotService.capture before replaceContent: the text an acceptance
\* replaces is among the snapshots, unless it was disturbed or the pinned
\* snapshots fill the limit.
THEOREM PreEditAlwaysKept == TextSpec => PreEditKept
<1> DEFINE Keeps == \A c \in Servers :
        at[c] = "apply" /\ at'[c] = "idle" /\ text' # text /\ c \notin disturbed
          /\ Cardinality(Pinned) < Cap
        => Versioned(text)
<1>1. TextInit => TextInv /\ Undisturbed
  BY InitText DEF CaptureInv
<1>2. TextInv /\ Undisturbed /\ [TextNext]_textVars => (TextInv /\ Undisturbed)'
  BY NextText, NextUndisturbed
<1>3. TextInv /\ Undisturbed => Keeps
  BY DEF TextInv, AnswersNamed, Named, Undisturbed, Captured
<1>4. QED
  BY <1>1, <1>2, <1>3, PTL DEF TextSpec, PreEditKept
-----------------------------------------------------------------------------
\* A step that writes no snapshot leaves a capture its work, unless its call
\* moves on or is cut off.
LEMMA OwedKept ==
  ASSUME TextInv, ExcessOwed, snapshots' = snapshots, unpruned => unpruned',
         \A d \in Servers : WillPrune(d) => unpruned' \/ WillPrune(d)'
  PROVE  ExcessOwed'
<1>1. Limit' = Limit
  BY DEF Limit, Pinned
<1>2. QED
  BY <1>1 DEF ExcessOwed

\* A capture that nobody's writes touched has the same work to do.
LEMMA OtherOwes ==
  ASSUME snapshots' = snapshots, NEW d \in Servers,
         at'[d] = at[d], found'[d] = found[d], WillPrune(d)
  PROVE  WillPrune(d)'
BY DEF WillPrune, Spared, Limit, Pinned

\* Calls that begin, anchor, version, answer, revert or are cut off leave the
\* captures under way their work.
LEMMA BeginOwed ==
  ASSUME TextInv, ExcessOwed, NEW c \in Servers,
         \/ LoadForResolve(c) \/ FindSnapshot(c) \/ Preview(c)
         \/ ResolveAnchor(c) \/ NextSnapshotVersion(c)
         \/ Apply(c) \/ Settle(c) \/ AnchorConflict(c) \/ Revert(c) \/ CutOff(c)
  PROVE  ExcessOwed'
<1>1. Alone(c) /\ snapshots' = snapshots /\ (unpruned => unpruned')
  BY DEF TextInv, TextTypeOK, Alone, LoadForResolve, FindSnapshot, Preview, Begin, ResolveAnchor,
         NextSnapshotVersion, Read, MoveTo, Apply, Settle, AnchorConflict, Revert, CutOff, Return,
         versions, textHistory
<1>2. WillPrune(c) => unpruned'
  BY DEF WillPrune, LoadForResolve, FindSnapshot, Preview, Begin, ResolveAnchor,
         NextSnapshotVersion, Apply, Settle, AnchorConflict, Revert, CutOff
<1>3. \A d \in Servers \ {c} : WillPrune(d) => WillPrune(d)'
  BY <1>1, OtherOwes DEF Alone
<1>4. QED
  BY <1>1, <1>2, <1>3, OwedKept

\* Who counts snapshots beyond the limit selects them, and who selects them
\* leaves no more than the limit.
LEMMA PruningOwed ==
  ASSUME TextInv, ExcessOwed, NEW c \in Servers, CountSnapshots(c) \/ SelectPrunable(c)
  PROVE  ExcessOwed'
<1>1. /\ snapshots' = snapshots /\ unpruned' = unpruned
  BY DEF CountSnapshots, SelectPrunable, versions, textHistory
<1>2. found[c] \in TextReads /\ at \in [Servers -> Steps] /\ found \in [Servers -> TextReads]
  BY DEF TextInv, TextTypeOK, TextReads
<1>3. Alone(c)
  BY CallEnds, <1>2 DEF TextInv, TextTypeOK, Alone, CountSnapshots, SelectPrunable, AfterCapture,
         GoOn, Read, MoveTo, Return
<1>4. Limit' = Limit /\ Limit >= Cap /\ Limit \in Nat /\ Cardinality(snapshots) \in Nat
  BY <1>1, SnapshotsCounted DEF Limit, Pinned, TextInv
<1>5. SUFFICES ASSUME ~unpruned, Cardinality(snapshots) > Limit
               PROVE  \E d \in Servers : WillPrune(d)'
  BY <1>1, <1>4 DEF ExcessOwed
<1>6. PICK d \in Servers : WillPrune(d)
  BY <1>5 DEF ExcessOwed
<1>7. CASE d # c
  BY <1>1, <1>3, <1>6, <1>7, OtherOwes DEF Alone
<1>8. CASE d = c /\ CountSnapshots(c)
  <2>1. Excess = Cardinality(snapshots) - Cap /\ Excess # 0
    BY <1>4, <1>5 DEF Excess
  <2>2. at'[c] = "select" /\ found'[c].excess = Excess
    BY <1>2, <1>8, <2>1 DEF CountSnapshots, Read, MoveTo, TextReads
  <2>3. QED
    BY <1>1, <2>1, <2>2 DEF WillPrune
<1>9. CASE d = c /\ SelectPrunable(c)
  <2>1. PICK oldest \in SUBSET Prunable :
          /\ Cardinality(oldest) = Min({found[c].excess, Cardinality(Prunable)})
          /\ Read(c, "delete", [found[c] EXCEPT !.oldest = {n.id : n \in oldest}])
    BY <1>9 DEF SelectPrunable
  <2>2. at[c] = "select" /\ at'[c] = "delete" /\ found'[c].oldest = {n.id : n \in oldest}
    BY <1>2, <1>9, <2>1 DEF SelectPrunable, Read, MoveTo, TextReads
  <2>3. found[c].excess >= Cardinality(snapshots) - Cap /\ found[c].excess \in Nat
    BY <1>2, <1>6, <1>9, <2>2 DEF WillPrune, TextReads
  <2>4. Spared(c)' = snapshots \ oldest
    BY <1>1, <2>2 DEF Spared, TextInv, TextTypeOK, Prunable
  <2>5. Cardinality(snapshots \ oldest) = Cardinality(snapshots) - Cardinality(oldest)
    <3>1. IsFiniteSet(oldest) /\ IsFiniteSet(snapshots \ oldest) /\ IsFiniteSet(snapshots)
      BY SnapshotsCounted, FS_Subset DEF TextInv, Prunable
    <3>2. oldest \cup (snapshots \ oldest) = snapshots /\ oldest \cap (snapshots \ oldest) = {}
      BY DEF Prunable
    <3>3. Cardinality(snapshots) = Cardinality(oldest) + Cardinality(snapshots \ oldest) - 0
      BY <3>1, <3>2, FS_Union, FS_EmptySet
    <3>4. Cardinality(oldest) \in Nat /\ Cardinality(snapshots \ oldest) \in Nat
      BY <3>1, FS_CardinalityType
    <3>5. QED
      BY <3>3, <3>4
  <2>6. \/ Cardinality(oldest) = found[c].excess
        \/ Cardinality(oldest) = Cardinality(Prunable)
    BY <2>1, <2>3, SnapshotsCounted DEF Min, TextInv
  <2>7. Cardinality(snapshots \ oldest) <= Limit
    BY <2>3, <2>5, <2>6, SnapshotsCounted DEF Limit, TextInv
  <2>8. QED
    BY <1>4, <2>2, <2>4, <2>7 DEF WillPrune
<1>10. QED
  BY <1>7, <1>8, <1>9

\* Who inserts a snapshot has the counting before it.
LEMMA CreateOwed ==
  ASSUME TextInv, ExcessOwed, NEW c \in Servers, CreateSnapshot(c)
  PROVE  ExcessOwed'
<1>1. at'[c] = "count"
  BY DEF CreateSnapshot, Read, MoveTo, TextInv, TextTypeOK
<1>2. QED
  BY <1>1 DEF ExcessOwed, WillPrune

\* A deletion leaves the others no more to delete than they were to; its own
\* leaves no more than the limit.
LEMMA DeleteOwed ==
  ASSUME TextInv, ExcessOwed, NEW c \in Servers, DeleteSnapshots(c)
  PROVE  ExcessOwed'
<1>1. /\ at[c] = "delete" /\ snapshots' = Spared(c) /\ unpruned' = unpruned
  BY DEF DeleteSnapshots, Spared
<1>2. Alone(c)
  BY DEF TextInv, TextTypeOK, Alone, DeleteSnapshots, AfterCapture, GoOn, MoveTo, Return
<1>3. Pinned' = Pinned
  BY <1>1 DEF Pinned, Spared, TextInv, SnapshotsNumbered, Dated
<1>4. Limit' = Limit /\ Limit \in Nat
  BY <1>3, SnapshotsCounted DEF Limit, TextInv
<1>5. ASSUME NEW d \in Servers
      PROVE  /\ IsFiniteSet(Spared(d)) /\ Cardinality(Spared(d)) \in Nat
             /\ Cardinality(Spared(d)) <= Cardinality(snapshots)
             /\ found'[d] = found[d] =>
                  /\ Cardinality(Spared(d)') \in Nat
                  /\ Cardinality(Spared(d)') <= Cardinality(Spared(d))
  <2>1. Spared(d) \subseteq snapshots
    BY DEF Spared
  <2>2. IsFiniteSet(snapshots)
    BY SnapshotsCounted DEF TextInv
  <2>3. IsFiniteSet(Spared(d)) /\ Cardinality(Spared(d)) <= Cardinality(snapshots)
    BY <2>1, <2>2, FS_Subset
  <2>4. found'[d] = found[d] => Spared(d)' \subseteq Spared(d)
    BY <1>1 DEF Spared
  <2>5. QED
    BY <2>3, <2>4, FS_Subset, FS_CardinalityType
<1>6. SUFFICES ASSUME ~unpruned, Cardinality(snapshots') > Limit
               PROVE  \E d \in Servers : WillPrune(d)'
  BY <1>1, <1>4 DEF ExcessOwed
<1>7. /\ Cardinality(snapshots) > Limit
      /\ Cardinality(snapshots) \in Nat /\ Cardinality(snapshots') \in Nat
      /\ Cardinality(snapshots') <= Cardinality(snapshots)
  BY <1>1, <1>4, <1>5, <1>6, SnapshotsCounted DEF TextInv
<1>8. PICK d \in Servers : WillPrune(d)
  BY <1>6, <1>7 DEF ExcessOwed
<1>9. d # c
  <2>1. d = c => Cardinality(Spared(c)) <= Limit
    BY <1>1, <1>8 DEF WillPrune
  <2>2. ~(Cardinality(Spared(c)) <= Limit)
    BY <1>1, <1>4, <1>6, <1>7
  <2>3. QED
    BY <2>1, <2>2
<1>10. at'[d] = at[d] /\ found'[d] = found[d]
  BY <1>2, <1>9 DEF Alone
<1>11. found[d].excess \in Nat
  BY DEF TextInv, TextTypeOK
<1>12. CASE at[d] = "count"
  BY <1>10, <1>12 DEF WillPrune
<1>13. CASE at[d] = "select"
  BY <1>7, <1>8, <1>10, <1>11, <1>13 DEF WillPrune
<1>14. CASE at[d] = "delete"
  <2>1. Cardinality(Spared(d)) <= Limit
    BY <1>8, <1>14 DEF WillPrune
  <2>2. Cardinality(Spared(d)') <= Limit
    BY <1>4, <1>5, <1>10, <2>1
  <2>3. QED
    BY <1>4, <1>10, <1>14, <2>2 DEF WillPrune
<1>15. QED
  BY <1>8, <1>12, <1>13, <1>14 DEF WillPrune

\* Every step leaves the snapshots beyond the limit owed.
LEMMA NextOwed == TextInv /\ ExcessOwed /\ [TextNext]_textVars => ExcessOwed'
<1> SUFFICES ASSUME TextInv, ExcessOwed, [TextNext]_textVars PROVE ExcessOwed'
  OBVIOUS
<1>1. ASSUME NEW c \in Servers, TextStep(c)
      PROVE  ExcessOwed'
  BY <1>1, BeginOwed, PruningOwed, CreateOwed, DeleteOwed DEF TextStep
<1>2. CASE \/ UNCHANGED textVars \/ \E s \in Suggestions : Suggest(s)
           \/ \E p \in Passages, w \in Wordings : Edit(p, w)
  <2>1. UNCHANGED <<snapshots, at, found, unpruned>>
    BY <1>2 DEF textVars, Suggest, Edit, versions, textHistory
  <2>2. QED
    BY <2>1, OtherOwes, OwedKept
<1>3. QED
  BY <1>1, <1>2 DEF TextNext

\* SnapshotService.prune: however captures overlap, once they are over there
\* are no more snapshots than the limit or the pinned ones, unless one was cut
\* off before its deletion.
THEOREM AlwaysWithinCap == TextSpec => []WithinCap
<1>1. TextInit => TextInv /\ ExcessOwed
  BY InitText DEF CaptureInv
<1>2. TextInv /\ ExcessOwed /\ [TextNext]_textVars => (TextInv /\ ExcessOwed)'
  BY NextText, NextOwed
<1>3. TextInv /\ ExcessOwed => WithinCap
  <2> SUFFICES ASSUME TextInv, ExcessOwed, \A c \in Servers : at[c] \notin Capturing, ~unpruned
               PROVE  Cardinality(snapshots) <= Max({Cap, Cardinality(Pinned)})
    BY DEF WithinCap
  <2>1. Cardinality(snapshots) \in Nat /\ Cardinality(Pinned) \in Nat
    BY SnapshotsCounted DEF TextInv
  <2>2. Cardinality(snapshots) <= Limit
    BY <2>1 DEF ExcessOwed, WillPrune, Capturing, Limit
  <2>3. Max({Cap, Cardinality(Pinned)}) = Limit
    BY <2>1 DEF Max, Limit
  <2>4. QED
    BY <2>2, <2>3
<1>4. QED
  BY <1>1, <1>2, <1>3, PTL DEF TextSpec
=============================================================================

------------------------------ MODULE StoryRoster ------------------------------
(***************************************************************************)
(* The collaborators of one story and the invitations to it: membership.   *)
(* service.ts and invitation.service.ts.                                   *)
(*                                                                         *)
(* Every method reads the rows it decides on, one query at a time, then    *)
(* writes in one transaction that looks at nothing again.  save() writes   *)
(* the entity as it was loaded, with its changes, whatever the row has     *)
(* become, and inserts the row anew when it is gone; the unique index on   *)
(* (story, user) makes a second row of one user roll everything back.      *)
(*                                                                         *)
(* Who may call what is PolicyEngineService's (PolicyCache); here any      *)
(* request has passed its assert.  Roles are left out: no guard reads one. *)
(***************************************************************************)
EXTENDS Integers, FiniteSets

CONSTANTS Users,             \* whoever may collaborate; the owner is none of them
          Invitations,       \* invitation ids
          Procs,             \* processes that serve requests
          MaxCollaborators,  \* MAX_STORY_COLLABORATORS (20)
          MaxRows,           \* bound: membership rows ever inserted for a user
          None               \* no user, no invitation

ASSUME RosterConstants ==
  /\ IsFiniteSet(Users) /\ IsFiniteSet(Procs) /\ Procs # {}
  /\ MaxCollaborators \in Nat \ {0} /\ MaxRows \in Nat
  /\ None \notin Users \cup Invitations

VARIABLES member,   \* member[u]: the id of u's story_memberships row, 0 if none
          rows,     \* rows[u]: ids given to rows of u so far, numbered from 1
          invited,  \* invited[i]: the invitee of invitation i
          status,   \* status[i]: its status
          lapsed,   \* the invitations past their expires_at
          pc,       \* pc[c]: the query process c executes next
          call,     \* call[c]: the method c executes, its user and invitation
          got,      \* got[c]: the id of the membership row c has loaded
          joins,    \* history: joins[i], memberships inserted by accepting i
          crossed,  \* history: invitations saved over a row that had changed
          outdated  \* history: calls whose user was let in anew after they had
                    \* found a row of that user

vars == <<member, rows, invited, status, lapsed, pc, call, got, joins, crossed, outdated>>

Responses == {"accepted", "declined", "revoked", "expired"}
Methods == {"invite", "accept", "decline", "revoke", "add", "changeRole", "remove",
            "expire"}
NoCall == [method |-> "none", user |-> None, invitation |-> None]

TypeOK ==
  /\ rows \in [Users -> 0..MaxRows]
  /\ member \in [Users -> 0..MaxRows] /\ \A u \in Users : member[u] <= rows[u]
  /\ invited \in [Invitations -> Users \cup {None}]
  /\ status \in [Invitations -> {"none", "pending"} \cup Responses]
  /\ lapsed \subseteq Invitations
  /\ pc \in [Procs -> {"idle", "load", "find", "count", "write"}]
  /\ call \in [Procs -> [method : Methods \cup {"none"}, user : Users \cup {None},
                         invitation : Invitations \cup {None}]]
  /\ got \in [Procs -> 0..MaxRows]
  /\ joins \in [Invitations -> Nat]
  /\ crossed \subseteq Invitations /\ outdated \subseteq Procs

Init ==
  /\ member = [u \in Users |-> 0] /\ rows = [u \in Users |-> 0]
  /\ invited = [i \in Invitations |-> None]
  /\ status = [i \in Invitations |-> "none"]
  /\ lapsed = {}
  /\ pc = [c \in Procs |-> "idle"]
  /\ call = [c \in Procs |-> NoCall]
  /\ got = [c \in Procs |-> 0]
  /\ joins = [i \in Invitations |-> 0] /\ crossed = {} /\ outdated = {}
-----------------------------------------------------------------------------
roster == <<member, rows>>
invitations == <<invited, status, lapsed>>
history == <<joins, crossed, outdated>>

Goto(c, p) == pc' = [pc EXCEPT ![c] = p]
\* The call returns or throws.
End(c) ==
  /\ Goto(c, "idle")
  /\ call' = [call EXCEPT ![c] = NoCall]
  /\ got' = [got EXCEPT ![c] = 0]
Proceed(c, p) == Goto(c, p) /\ UNCHANGED <<call, got>>

Method(c) == call[c].method
User(c) == call[c].user
Invitation(c) == call[c].invitation

Request(c, m, u, i) ==
  /\ pc[c] = "idle"
  /\ Goto(c, IF i = None THEN "find" ELSE "load")
  /\ call' = [call EXCEPT ![c] = [method |-> m, user |-> u, invitation |-> i]]
  /\ UNCHANGED <<roster, invitations, got, history>>

\* leave is removeMember by the member itself.
Receive(c) ==
  \/ \E m \in {"invite", "add", "changeRole", "remove"}, u \in Users : Request(c, m, u, None)
  \/ \E m \in {"accept", "decline", "revoke"}, i \in Invitations :
       status[i] # "none" /\ Request(c, m, invited[i], i)
-----------------------------------------------------------------------------
\* loadPending, and the like of it in revoke, which looks at no expiry.
Load(c) ==
  /\ pc[c] = "load" /\ status[Invitation(c)] = "pending"
  /\ Method(c) = "revoke" \/ Invitation(c) \notin lapsed
  /\ Proceed(c, IF Method(c) = "accept" THEN "find" ELSE "write")
  /\ UNCHANGED <<roster, invitations, history>>

\* A pending invitation that has lapsed is saved as expired instead.
LoadLapsed(c) ==
  /\ pc[c] = "load" /\ status[Invitation(c)] = "pending"
  /\ Method(c) # "revoke" /\ Invitation(c) \in lapsed
  /\ Goto(c, "write")
  /\ call' = [call EXCEPT ![c].method = "expire"]
  /\ UNCHANGED <<roster, invitations, got, history>>

LoadAnswered(c) ==
  /\ pc[c] = "load" /\ status[Invitation(c)] # "pending"
  /\ End(c)
  /\ UNCHANGED <<roster, invitations, history>>

\* What a method wants to find: a row to change, or none.
Wanted(c) == (member[User(c)] # 0) <=> Method(c) \in {"changeRole", "remove"}

FindMembership(c) ==
  /\ pc[c] = "find" /\ Wanted(c)
  /\ Goto(c, IF Method(c) \in {"accept", "add"} THEN "count" ELSE "write")
  /\ got' = [got EXCEPT ![c] = member[User(c)]]
  /\ outdated' = outdated \ {c}
  /\ UNCHANGED <<roster, invitations, call, joins, crossed>>

FindUnwanted(c) ==
  /\ pc[c] = "find" /\ ~Wanted(c)
  /\ End(c)
  /\ UNCHANGED <<roster, invitations, history>>

Members == {u \in Users : member[u] # 0}

\* Mutant of RoomLeft: the limit is one too high.
RoomForOneMore == Cardinality(Members) <= MaxCollaborators
\* The story has fewer collaborators than it may have.
RoomLeft == Cardinality(Members) < MaxCollaborators

CountMembers(c) ==
  /\ pc[c] = "count"
  /\ IF RoomLeft THEN Proceed(c, "write") ELSE End(c)
  /\ UNCHANGED <<roster, invitations, history>>
-----------------------------------------------------------------------------
\* invite: the invitation and its activity, in one transaction.
CreateInvitation(c) ==
  /\ pc[c] = "write" /\ Method(c) = "invite"
  /\ \E i \in Invitations :
       /\ status[i] = "none"
       /\ status' = [status EXCEPT ![i] = "pending"]
       /\ invited' = [invited EXCEPT ![i] = User(c)]
  /\ End(c)
  /\ UNCHANGED <<roster, lapsed, history>>

\* Saves invitation i as answered, whatever its row says by now.
Answer(i, response) ==
  /\ status' = [status EXCEPT ![i] = response]
  /\ crossed' = IF status[i] = "pending" THEN crossed ELSE crossed \cup {i}

\* A new row for u; what other calls have found of u is out of date.
CreateMembership(u) ==
  /\ member' = [member EXCEPT ![u] = rows[u] + 1]
  /\ rows' = [rows EXCEPT ![u] = @ + 1]
  /\ outdated' = outdated \cup {d \in Procs : User(d) = u /\ got[d] # 0}

\* Mutant of Accept: the membership is created in a transaction of its own.
AcceptApart(c) ==
  /\ pc[c] = "write" /\ Method(c) = "accept"
  /\ Answer(Invitation(c), "accepted")
  /\ joins' = IF member[User(c)] = 0 THEN [joins EXCEPT ![Invitation(c)] = @ + 1] ELSE joins
  /\ IF member[User(c)] = 0 THEN rows[User(c)] < MaxRows /\ CreateMembership(User(c))
     ELSE UNCHANGED <<roster, outdated>>
  /\ End(c)
  /\ UNCHANGED <<invited, lapsed>>
\* The invitation, then the membership, in one transaction.
Accept(c) ==
  /\ pc[c] = "write" /\ Method(c) = "accept"
  /\ member[User(c)] = 0 /\ rows[User(c)] < MaxRows
  /\ Answer(Invitation(c), "accepted")
  /\ CreateMembership(User(c))
  /\ joins' = [joins EXCEPT ![Invitation(c)] = @ + 1]
  /\ End(c)
  /\ UNCHANGED <<invited, lapsed>>

AddMember(c) ==
  /\ pc[c] = "write" /\ Method(c) = "add"
  /\ member[User(c)] = 0 /\ rows[User(c)] < MaxRows
  /\ CreateMembership(User(c))
  /\ End(c)
  /\ UNCHANGED <<invitations, joins, crossed>>

\* The unique index refuses a second row of the user: nothing is written.
JoinRefused(c) ==
  /\ pc[c] = "write" /\ Method(c) \in {"accept", "add"}
  /\ member[User(c)] # 0
  /\ End(c)
  /\ UNCHANGED <<roster, invitations, history>>

\* decline, revoke, and the expiry noticed by loadPending.
Respond(c) ==
  /\ pc[c] = "write" /\ Method(c) \in {"decline", "revoke", "expire"}
  /\ Answer(Invitation(c), CASE Method(c) = "decline" -> "declined"
                             [] Method(c) = "revoke"  -> "revoked"
                             [] OTHER                 -> "expired")
  /\ End(c)
  /\ UNCHANGED <<roster, invited, lapsed, joins, outdated>>

\* The row is updated if it is there, inserted again with its old id if the
\* user has none, refused by the index if the user has another one.
SaveMembership(c) ==
  /\ pc[c] = "write" /\ Method(c) = "changeRole"
  /\ member' = [member EXCEPT ![User(c)] = IF @ = 0 THEN got[c] ELSE @]
  /\ outdated' = IF member[User(c)] # 0 THEN outdated
                 ELSE {d \in outdated : User(d) = User(c) => got[d] # got[c]}
  /\ End(c)
  /\ UNCHANGED <<rows, invitations, joins, crossed>>

\* Mutant of DeleteMembership: it deletes by story and user.
DeleteOfUser(c) ==
  /\ pc[c] = "write" /\ Method(c) = "remove"
  /\ member' = [member EXCEPT ![User(c)] = 0]
  /\ End(c)
  /\ UNCHANGED <<rows, invitations, history>>
\* removeMember and leave delete by the id they have loaded.
DeleteMembership(c) ==
  /\ pc[c] = "write" /\ Method(c) = "remove"
  /\ member' = [member EXCEPT ![User(c)] = IF @ = got[c] THEN 0 ELSE @]
  /\ End(c)
  /\ UNCHANGED <<rows, invitations, history>>

\* A query throws or the process dies; no transaction is half done.
Fail(c) ==
  /\ pc[c] # "idle"
  /\ End(c)
  /\ UNCHANGED <<roster, invitations, history>>

\* INVITATION_TTL_HOURS have passed since invitation i was sent.
Lapse(i) ==
  /\ status[i] # "none"
  /\ lapsed' = lapsed \cup {i}
  /\ UNCHANGED <<roster, invited, status, pc, call, got, history>>

Step(c) ==
  \/ Load(c) \/ LoadLapsed(c) \/ LoadAnswered(c)
  \/ FindMembership(c) \/ FindUnwanted(c) \/ CountMembers(c)
  \/ CreateInvitation(c) \/ Accept(c) \/ AddMember(c) \/ JoinRefused(c)
  \/ Respond(c) \/ SaveMembership(c) \/ DeleteMembership(c) \/ Fail(c)

Next == (\E c \in Procs : Receive(c) \/ Step(c)) \/ \E i \in Invitations : Lapse(i)

Spec == Init /\ [][Next]_vars
-----------------------------------------------------------------------------
\* The calls about to insert, or to insert again, a row for their user.
Claims == {c \in Procs : pc[c] = "write" /\ Method(c) \in {"accept", "add", "changeRole"}}
Claimed == {User(c) : c \in Claims}

\* The limit is read before the transaction that inserts, and a late changeRole
\* reads no limit at all, yet a story never has more collaborators, those on
\* their way included, than the limit and one for every process but one.
RosterBounded ==
  Cardinality(Members \cup Claimed) <= MaxCollaborators + Cardinality(Procs) - 1

\* An invitation says accepted only if it brought its invitee in, whatever
\* raced or failed; and one that no overlapping answer overwrote brought the
\* invitee in once if it says accepted, and never otherwise.
AcceptedMeansJoined ==
  \A i \in Invitations :
    /\ status[i] = "accepted" => joins[i] > 0
    /\ i \notin crossed => joins[i] = (IF status[i] = "accepted" THEN 1 ELSE 0)

\* Whoever was removed and let in anew is not thrown out by another removal, or
\* leave, that had found the former membership: since a removal that ends one
\* has found its row, its user was not let in, whatever late saves bring back.
LateRemovalHarmless ==
  [][\A u \in Users : member[u] # 0 /\ member'[u] = 0 =>
       \E c \in Procs \ outdated :
         pc[c] = "write" /\ Method(c) = "remove" /\ User(c) = u /\ pc'[c] = "idle"]_vars

\* "the collaborator cap": a story never has more than it may have.
CapHolds == Cardinality(Members) <= MaxCollaborators

\* An answered invitation stays as it was answered.
AnswerFinal ==
  [][\A i \in Invitations : status[i] \in Responses => status'[i] = status[i]]_vars

\* Whoever was removed comes back by an invitation or an addition only.
RemovedStaysOut ==
  [][\A u \in Users : member'[u] # 0 => member'[u] = member[u] \/ member'[u] > rows[u]]_vars

\* One invitation lets its invitee in once.
InvitationUsedOnce == \A i \in Invitations : joins[i] <= 1
=============================================================================

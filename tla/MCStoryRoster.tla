---------------------------- MODULE MCStoryRoster ----------------------------
(* Instances of StoryRoster for TLC. *)
EXTENDS StoryRoster, TLC

CONSTANTS u1, u2, u3, i1, i2, c1, c2

TwoUsers == {u1, u2}
ThreeUsers == {u1, u2, u3}
OneInvitation == {i1}
TwoInvitations == {i1, i2}
TwoProcs == {c1, c2}

Symmetry == Permutations(Users) \cup Permutations(Invitations) \cup Permutations(Procs)
=============================================================================

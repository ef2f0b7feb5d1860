----------------------------- MODULE MCModeration -----------------------------
(* Instances of Moderation for TLC. *)
EXTENDS Moderation, TLC

CONSTANTS r1, r2, u1, u2, c1, c2

OneReport == {r1}
TwoReports == {r1, r2}
OneReporter == {u1}
TwoReporters == {u1, u2}
TwoProcs == {c1, c2}

Symmetry == Permutations(Reports) \cup Permutations(Procs) \cup Permutations(Reporters)
=============================================================================

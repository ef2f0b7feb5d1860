--------------------------- MODULE MCTokenSessions ---------------------------
(* Instances of TokenSessions for TLC. *)
EXTENDS TokenSessions, TLC

CONSTANTS f1, f2, t1, t2, t3, r1, r2, r3, c1, c2

TwoFamilies == {f1, f2}
TwoTokens == {t1, t2}
ThreeTokens == {t1, t2, t3}
OneReset == {r1}
ThreeResets == {r1, r2, r3}
TwoProcs == {c1, c2}

\* Nothing tells two ids, or two processes, apart.
Symmetry == Permutations(Families) \cup Permutations(Tokens)
            \cup Permutations(ResetTokens) \cup Permutations(Procs)
=============================================================================

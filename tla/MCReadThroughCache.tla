------------------------- MODULE MCReadThroughCache -------------------------
(***************************************************************************)
(* The callers are interchangeable; the liveness runs do not use symmetry. *)
(***************************************************************************)
EXTENDS ReadThroughCache, TLC

CallerSymmetry == Permutations(Callers)

=============================================================================

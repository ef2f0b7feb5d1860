-------------------------- MODULE MCPieceLifecycle ---------------------------
(* Instances of PieceLifecycle for TLC. *)
EXTENDS PieceLifecycle, TLC

CONSTANTS p1, p2, c1, w1

OnePiece == {p1}
TwoPieces == {p1, p2}
OneClient == {c1}
OneWorker == {w1}
Nobody == {}
=============================================================================

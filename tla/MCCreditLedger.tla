--------------------------- MODULE MCCreditLedger ----------------------------
(* Instances of CreditLedger for TLC. *)
EXTENDS CreditLedger, TLC

CONSTANTS u1, u2, c1, c2, c3

TwoUsers == {u1, u2}
OneUser == {u1}
ThreeCalls == {c1, c2, c3}
=============================================================================

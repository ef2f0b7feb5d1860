---------------------- MODULE MCSubscriptionLifecycle -----------------------
(* Instances of SubscriptionLifecycle for TLC. *)
EXTENDS SubscriptionLifecycle, TLC

CONSTANTS u1, u2, w1

OneUser == {u1}
TwoUsers == {u1, u2}
OneWorker == {w1}
Nobody == {}
=============================================================================

--------------------------- MODULE MCWebhookInbox ----------------------------
(* Instances of WebhookInbox for TLC. *)
EXTENDS WebhookInbox, TLC

CONSTANTS e1, e2, r1, r2, r3, w1, w2

NoEvent == {}
OneEvent == {e1}
TwoEvents == {e1, e2}
TwoRequests == {r1, r2}
ThreeRequests == {r1, r2, r3}
OneWorker == {w1}
TwoWorkers == {w1, w2}

Env(fallible, faulty) == [fallible |-> fallible, faulty |-> faulty]
FaultFreeEnv == Env({}, {})
\* Every process crashes, every step fails.
EverythingFails == Env(Requests \cup Workers, {"insert", "enqueue", "effect", "mark"})
\* Everything fails but the marks, and everything but marks and effects.
MarksKeptEnv == Env(Requests, {"insert", "enqueue", "effect"})
DeliveriesFail == Env(Requests, {"enqueue"})

AllEnvironments == {FaultFreeEnv, EverythingFails, MarksKeptEnv, DeliveriesFail}
=============================================================================

------------------------ MODULE MCEngagementCounters -------------------------
(* Instances of EngagementCounters for TLC. *)
EXTENDS EngagementCounters, TLC

CONSTANTS u1, u2, c1, c2

TwoUsers == {u1, u2}
TwoProcs == {c1, c2}
SomeReactions == {<<"like", u1>>, <<"like", u2>>, <<"clap", u1>>, <<"clap", u2>>}
OneOfEach == {<<"like", u1>>, <<"clap", u1>>}
Mutual == {<<"follow", u1, u2>>, <<"follow", u2, u1>>}
=============================================================================

----------------------------- MODULE MCStoryText -----------------------------
(* Instances of StoryText for TLC. *)
EXTENDS StoryText, TLC

CONSTANTS old, new, p1, p2, s1, s2, c1, c2

TwoWordings == {old, new}
OnePassage == {p1}
TwoPassages == {p1, p2}
OneSuggestion == {s1}
TwoServers == {c1, c2}

Symmetry == Permutations(Wordings) \cup Permutations(Suggestions) \cup Permutations(Servers)
=============================================================================

--------------------------- MODULE MCShareRequests ---------------------------
(* Instances of ShareRequests for TLC: a member and two reviewers. *)
EXTENDS ShareRequests, TLC

CONSTANTS member, alice, bob

Symmetry == Permutations(Request) \cup Permutations(Token) \cup Permutations(Share)
==============================================================================

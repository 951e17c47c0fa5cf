----------------------------- MODULE MCAuthTokens ----------------------------
(* Instances of AuthTokens for TLC. *)
EXTENDS AuthTokens, TLC

Symmetry == Permutations(Request) \cup Permutations(Pair)
==============================================================================

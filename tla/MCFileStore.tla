----------------------------- MODULE MCFileStore -----------------------------
(* Instances of FileStore for TLC. *)
EXTENDS FileStore, TLC

Symmetry == Permutations(Request) \cup Permutations(File)
==============================================================================

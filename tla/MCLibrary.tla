----------------------------- MODULE MCLibrary -----------------------------
(* Small instances of Library for TLC. *)
EXTENDS Library, TLC

Symmetry == Permutations(Path) \cup Permutations(Audio)
=============================================================================

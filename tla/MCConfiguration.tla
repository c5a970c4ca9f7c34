-------------------------- MODULE MCConfiguration --------------------------
(* Configuration for TLC. *)
EXTENDS Configuration, TLC

\* The aliases are interchangeable, and every run checks safety only.
Symmetry == Permutations(Aliases)
=============================================================================

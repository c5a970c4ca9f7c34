--------------------------- MODULE MCResourceCache ---------------------------
(***************************************************************************)
(* Small instances of ResourceCache.  Calls are interchangeable, and so    *)
(* are keys.                                                               *)
(***************************************************************************)
EXTENDS ResourceCache, TLC

Symmetry == Permutations(Consumers) \cup Permutations(Keys)
=============================================================================

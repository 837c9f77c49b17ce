--------------------------- MODULE MCTokenRestart ---------------------------
(* Small instances of TokenRestart for TLC. *)
EXTENDS TokenRestart, TLC

Symmetry == Permutations(Callers) \cup Permutations(Callbacks) \cup Permutations(Stoppers)

=============================================================================

--------------------------- MODULE MCTokenManager ---------------------------
(* Small instances of TokenManager for TLC. *)
EXTENDS TokenManager, TLC

\* Request goroutines are interchangeable, and so are callback goroutines and
\* the callers of Stop.
Symmetry ==
  Permutations(Callers) \cup Permutations(Callbacks) \cup Permutations(Stoppers)

=============================================================================

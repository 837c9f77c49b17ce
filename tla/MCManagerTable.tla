--------------------------- MODULE MCManagerTable ---------------------------
(* Small instances of ManagerTable: more keys than the cap, and a manager   *)
(* to spare for every handler.                                              *)
EXTENDS ManagerTable, TLC

CONSTANTS k1, k2, h1, h2, m1, m2, m3, m4

TwoKeys     == {k1, k2}
TwoHandlers == {h1, h2}
FourManagers == {m1, m2, m3, m4}

Quiet    == {[saveFails |-> FALSE, shutdown |-> FALSE, tokens |-> 2]}
Failing  == {[saveFails |-> TRUE, shutdown |-> FALSE, tokens |-> 2]}
Stopping == {[saveFails |-> FALSE, shutdown |-> TRUE, tokens |-> 1]}
Both     == Failing \cup Stopping

HandlerSymmetry == Permutations(TwoHandlers)
=============================================================================

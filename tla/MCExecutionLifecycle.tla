------------------------ MODULE MCExecutionLifecycle ------------------------
(* Small instances of ExecutionLifecycle for TLC. *)
EXTENDS ExecutionLifecycle, TLC

CONSTANTS j1, j2, h1, h2, o1, o2

OneOwner == [h \in {h1} |-> "ann"]
TwoHistories == [h \in {h1, h2} |-> "ann"]
JobsAndOperations == Permutations({j1, j2}) \cup Permutations({o1, o2})
=============================================================================

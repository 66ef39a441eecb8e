-------------------------- MODULE MCExecutionDrive --------------------------
(* Small instances of ExecutionDrive for TLC. *)
EXTENDS ExecutionDrive, TLC

CONSTANTS o1, o2, d1, d2

Chain == {[from |-> 1, to |-> 2, type |-> "Control", disabled |-> FALSE]}

\* 1 fails or succeeds; 2 runs on success, 3 on failure, and 3 also ignores a disabled edge.
Fork == {[from |-> 1, to |-> 2, type |-> "Control", disabled |-> FALSE],
         [from |-> 1, to |-> 3, type |-> "Failure", disabled |-> FALSE],
         [from |-> 2, to |-> 3, type |-> "Control", disabled |-> TRUE]}

NoEdges == {}

OwnerSymmetry == Permutations({o1, o2})
============================================================================

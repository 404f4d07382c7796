---------------------------- MODULE MCKernelQueue ----------------------------
(* Model checking of KernelQueue: two tasks of the same and one of a higher   *)
(* priority.                                                                  *)
EXTENDS KernelQueue, TLC

CONSTANTS Urgent

MCPriority == [t \in Tasks |-> IF t = Urgent THEN 2 ELSE 1]

Symmetry == Permutations(Tasks \ {Urgent})
==============================================================================

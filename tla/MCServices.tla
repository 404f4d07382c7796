------------------------------ MODULE MCServices ------------------------------
(* Model checking of Services.  Buffers: requests that fit, fit exactly and   *)
(* do not fit.  Heap: an array that is not aligned, requests from nothing to  *)
(* more than a size_t with its top bit free can say, and products that stay   *)
(* within a size_t and that leave it.  Mutexes: three tasks of different      *)
(* priorities.  Connections are interchangeable.                              *)
EXTENDS Services, TLC

CONSTANTS High, Middle

MCRequests == {0, 1, 2, 5, SizeMod \div 2 - 1, SizeMod \div 2}
MCItems == {<<2, 2>>, <<2, SizeMod \div 2 + 1>>}

MCPriority == [t \in Tasks |-> CASE t = High -> 3 [] t = Middle -> 2 [] OTHER -> 1]

Symmetry == Permutations(Connections)
==============================================================================

---------------------------- MODULE MCKernelTime ----------------------------
(* Model checking of KernelTime. *)
EXTENDS KernelTime, TLC

Symmetry == Permutations(Tasks \ Periodic)
=============================================================================

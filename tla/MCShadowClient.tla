---------------------------- MODULE MCShadowClient ----------------------------
(* Model checking of ShadowClient: tasks and Things are interchangeable.    *)
EXTENDS ShadowClient, TLC

Symmetry == Permutations(Tasks) \cup Permutations(Things)
==============================================================================

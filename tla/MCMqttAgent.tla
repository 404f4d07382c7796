----------------------------- MODULE MCMqttAgent -----------------------------
(* Model checking of MqttAgent.  Tasks are interchangeable; connections are *)
(* not, because the free one with the lowest number is taken first.         *)
EXTENDS MqttAgent, TLC

Symmetry == Permutations(Tasks)
==============================================================================

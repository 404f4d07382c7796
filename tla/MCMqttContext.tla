---------------------------- MODULE MCMqttContext ----------------------------
(* Model checking of MqttContext.  No symmetry: the runs check liveness.     *)
EXTENDS MqttContext
==============================================================================

----------------------------- MODULE PacketFields -----------------------------
(***************************************************************************)
(* The two loops of the MQTT library that work on the bytes of a packet     *)
(* (AWS/mqtt/aws_mqtt_lib.c): the one of the length field and the one that  *)
(* matches the topic of a PUBLISH.  Each is called with every input and     *)
(* runs until it returns; they share nothing.                               *)
(***************************************************************************)
EXTENDS TopicFilter, RemainingLength

vars == <<matchVars, lengthVars>>

Init == (MatchInit /\ LengthDone) \/ (LengthInit /\ MatchReturned)

Next ==
    \/ MatchNext  /\ UNCHANGED lengthVars
    \/ LengthNext /\ UNCHANGED matchVars

Spec == Init /\ [][Next]_vars /\ WF_vars(Next)

-----------------------------------------------------------------------------

(* No input keeps the MQTT task in one of the loops, and every length that   *)
(* prvEncodeRemainingLength writes is decoded: its caller asserts that       *)
(* prvDecodeRemainingLength does not return 0.                               *)
LoopsEnd == Terminates /\ Decoded
==============================================================================

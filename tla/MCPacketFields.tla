---------------------------- MODULE MCPacketFields ----------------------------
(* Model checking of PacketFields: all topics and valid filters up to a      *)
(* length, with two letters so that characters can differ; every length up   *)
(* to the longest of two bytes and those around the other limits.            *)
EXTENDS PacketFields

MCLengths == 0 .. 16500 \cup 2097000 .. 2097300 \cup 268435000 .. MaxRemainingLength
==============================================================================

--------------------------- MODULE RemainingLength ---------------------------
(***************************************************************************)
(* The "Remaining Length" field of an MQTT packet (AWS/mqtt/                *)
(* aws_mqtt_lib.c): a packet is sized, its length encoded byte by byte, and *)
(* read back by whoever looks at the packet later, which the library itself *)
(* does with its own SUBSCRIBE and UNSUBSCRIBE packets.  One step is one    *)
(* iteration of the encoding or of the decoding loop.                       *)
(***************************************************************************)
EXTENDS Integers, Sequences

CONSTANT Lengths   \* the lengths to encode

MaxBytes           == 4           \* mqttREMAINING_LENGTH_MAX_BYTES
MaxRemainingLength == 268435455   \* mqttMAX_REMAINING_LENGTH_LENGTH
Continuation       == 128         \* mqttREMAINING_LENGTH_CONTINUATION_BITMASK

ASSUME LengthAssumption == Lengths \subseteq 0 .. MaxRemainingLength

(* prvSizeOfRemainingLength *)
prvSizeOfRemainingLength(n) ==
    CASE n <= 127 -> 1
      [] n > 127 /\ n <= 16383 -> 2
      [] n > 16383 /\ n <= 2097151 -> 3
      [] n > 2097151 /\ n <= MaxRemainingLength -> 4

VARIABLES length,            \* ghost: the length to encode
          ulRemainingLength, \* what is left to encode
          bytes,             \* pucEncodedRemainingLength
          pc,                \* "encode", "decode", "done"
          x, ulDecodedRemainingLength

lengthVars == <<length, ulRemainingLength, bytes, pc, x, ulDecodedRemainingLength>>

LengthInit ==
    /\ length \in Lengths
    /\ ulRemainingLength = length
    /\ bytes = << >>
    /\ pc = "encode"
    /\ x = 0
    /\ ulDecodedRemainingLength = 0

(* A length that was encoded and decoded. *)
LengthDone ==
    /\ length = 0
    /\ ulRemainingLength = 0
    /\ bytes = <<0>>
    /\ pc = "done"
    /\ x = 1
    /\ ulDecodedRemainingLength = 0

(* prvEncodeRemainingLength: seven bits at a time, the eighth says that     *)
(* another byte follows.                                                    *)
EncodeByte ==
    /\ pc = "encode"
    /\ ulRemainingLength' = ulRemainingLength \div 128
    /\ bytes' = Append(bytes, (ulRemainingLength % 128)
                              + (IF ulRemainingLength' > 0 THEN Continuation ELSE 0))
    /\ pc' = IF ulRemainingLength' > 0 THEN "encode" ELSE "decode"
    /\ UNCHANGED <<length, x, ulDecodedRemainingLength>>

(* Mutant: the continuation bit is taken for data. *)
DecodeByteUnmasked ==
    /\ pc = "decode"
    /\ x < MaxBytes
    /\ ulDecodedRemainingLength' =
           ulDecodedRemainingLength + bytes[x + 1] * 128 ^ x
    /\ x' = x + 1
    /\ pc' = IF bytes[x + 1] < Continuation THEN "done" ELSE "decode"
    /\ UNCHANGED <<length, ulRemainingLength, bytes>>

(* prvDecodeRemainingLength; x counts the bytes read. *)
DecodeByte ==
    /\ pc = "decode"
    /\ x < MaxBytes
    /\ ulDecodedRemainingLength' =
           ulDecodedRemainingLength + (bytes[x + 1] % 128) * 128 ^ x
    /\ x' = x + 1
    /\ pc' = IF bytes[x + 1] < Continuation THEN "done" ELSE "decode"
    /\ UNCHANGED <<length, ulRemainingLength, bytes>>

LengthNext == EncodeByte \/ DecodeByte

-----------------------------------------------------------------------------

(* What is read back is what was written, from as many bytes, which are the  *)
(* bytes the packet was sized for (the assertion that follows every call of  *)
(* prvEncodeRemainingLength): the offsets of the fields behind it agree.     *)
RoundTrip ==
    pc = "done" => /\ ulDecodedRemainingLength = length
                   /\ x = Len(bytes)
                   /\ Len(bytes) = prvSizeOfRemainingLength(length)

(* The decoding succeeds: its caller asserts that it does not return 0.      *)
Decoded == pc = "encode" ~> pc = "done"
==============================================================================

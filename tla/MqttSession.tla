----------------------------- MODULE MqttSession -----------------------------
(***************************************************************************)
(* What the MQTT library promises the code that registered its callback    *)
(* (FreeRTOS/include/aws_mqtt_lib.h): every operation the library accepted *)
(* is reported, by a reply that carries its identifier or by the           *)
(* disconnect that ends the session, and by one of them only.  The one     *)
(* exception is a connect request that the broker refuses: it is reported  *)
(* by a reply and, before anything else happens, by a disconnect.          *)
(***************************************************************************)
CONSTANT Ids   \* packet identifiers

VARIABLES state,        \* xConnectionState of the context
          outstanding,  \* identifiers accepted and not yet reported
          event         \* what the last step told the callback

vars == <<state, outstanding, event>>

NoEvent      == [type |-> "None", ids |-> {}]
Reply(S)     == [type |-> "Reply", ids |-> S]
Disconnected == [type |-> "Disconnected", ids |-> {}]
Refused(S)   == [type |-> "Refused", ids |-> S]   \* a reply, then a disconnect

Init ==
    /\ state = "NotConnected"
    /\ outstanding = {}
    /\ event = NoEvent

(* A connect request was accepted and sent. *)
Open(id) ==
    /\ state = "NotConnected"
    /\ state' = "InProgress"
    /\ outstanding' = {id}
    /\ event' = NoEvent

(* The broker accepted the connection. *)
Established ==
    /\ state = "InProgress"
    /\ state' = "Connected"
    /\ outstanding' = {}
    /\ event' = Reply(outstanding)

(* The broker refused the connection: two callbacks for the one request. *)
Rejected ==
    /\ state = "InProgress"
    /\ state' = "NotConnected"
    /\ outstanding' = {}
    /\ event' = Refused(outstanding)

(* A subscribe, unsubscribe or QoS1 publish request was accepted. *)
Request(id) ==
    /\ state = "Connected"
    /\ id \notin outstanding
    /\ outstanding' = outstanding \cup {id}
    /\ event' = NoEvent
    /\ UNCHANGED state

(* Requests were acknowledged or timed out. *)
Finish(S) ==
    /\ state = "Connected"
    /\ S # {}
    /\ outstanding' = outstanding \ S
    /\ event' = Reply(S)
    /\ UNCHANGED state

(* The session ended for any other reason: one event for all requests. *)
Lost ==
    /\ state # "NotConnected"
    /\ state' = "NotConnected"
    /\ outstanding' = {}
    /\ event' = Disconnected

(* Anything else the library does reports nothing that was waited for. *)
Quiet ==
    /\ event' = NoEvent
    /\ UNCHANGED <<state, outstanding>>

Next ==
    \/ \E id \in Ids : Open(id) \/ Request(id)
    \/ Established
    \/ Rejected
    \/ \E S \in SUBSET outstanding : Finish(S)
    \/ Lost
    \/ Quiet

Spec == Init /\ [][Next]_vars
==============================================================================

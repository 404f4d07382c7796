----------------------------- MODULE MqttContext -----------------------------
(***************************************************************************)
(* The MQTT library of the firmware (AWS/mqtt/aws_mqtt_lib.c): the state   *)
(* machine kept in one MQTTContext_t.  All of it runs in the MQTT task;    *)
(* only MQTT_ReturnBuffer may be called by other tasks.                    *)
(*                                                                         *)
(* The bytes of a packet are looked at when it is complete, so its content *)
(* is chosen then; the broker may send anything.  Time is the number of    *)
(* ticks left until a deadline: prvIsTimeElapsed subtracts the ticks since *)
(* the recorded count from the ticks to wait, which is what Tick does one  *)
(* at a time.                                                              *)
(***************************************************************************)
EXTENDS Integers, FiniteSets

CONSTANTS Ids,                \* packet identifiers chosen by the caller
          Topics,             \* valid topic filters
          NoTopic,            \* no filter: a free entry, a packet without one
          NumBuffers,         \* size of the buffer pool
          MaxSubscriptions,   \* mqttconfigSUBSCRIPTION_MANAGER_MAX_SUBSCRIPTIONS
          TimeoutTicks,       \* ulTimeoutTicks of an operation
          KeepAliveTicks,     \* ulKeepAliveActualIntervalTicks
          PingTimeoutTicks    \* ulPingRequestTimeoutTicks

ASSUME ContextAssumption ==
    /\ NoTopic \notin Topics
    /\ NumBuffers \in Nat
    /\ MaxSubscriptions \in Nat
    /\ TimeoutTicks \in Nat
    /\ KeepAliveTicks \in Nat
    /\ PingTimeoutTicks \in Nat

Slots == 1 .. MaxSubscriptions
FixedHeaderMaxSize == 5   \* mqttFIXED_HEADER_MAX_SIZE

VARIABLES
    xConnectionState,
    xTxBufferList,             \* packets that wait for an acknowledgement
    xRxNextByte,               \* what the next received byte is
    xRxMessageAction,          \* store or drop the message being received
    ulRxMessageReceivedLength, \* bytes of the fixed header received so far
    xRxBuffer,                 \* is a buffer held for the packet being received
    xSubscriptions,            \* the topic filter of each entry, or NoTopic
    ulInUseSubscriptions,
    ulNextPeriodicInvokeTicks, \* ticks left until the keep alive is due
    xWaitingForPingResp,
    poolFree,                  \* buffers in the pool
    userBuffers,               \* received buffers owned by the application
    event,                     \* ghost: what the last step told pxCallback
    pingAge                    \* ghost: ticks since the PINGREQ that waits

rxVars   == <<xRxNextByte, xRxMessageAction, ulRxMessageReceivedLength, xRxBuffer>>
subVars  == <<xSubscriptions, ulInUseSubscriptions>>
pingVars == <<ulNextPeriodicInvokeTicks, xWaitingForPingResp, pingAge>>
bufVars  == <<poolFree, userBuffers>>
vars == <<xConnectionState, xTxBufferList, rxVars, subVars, pingVars, bufVars, event>>

NoEvent      == [type |-> "None", ids |-> {}]
Reply(S)     == [type |-> "Reply", ids |-> S]
Disconnected == [type |-> "Disconnected", ids |-> {}]
Refused(S)   == [type |-> "Refused", ids |-> S]   \* a reply, then a disconnect

Packets ==
    [type : {"CONNECT", "PUBLISH"}, id : Ids, topic : {NoTopic}, left : 0 .. TimeoutTicks]
    \cup
    [type : {"SUBSCRIBE", "UNSUBSCRIBE"}, id : Ids, topic : Topics, left : 0 .. TimeoutTicks]
Packet(type, id, topic) ==
    [type |-> type, id |-> id, topic |-> topic, left |-> TimeoutTicks]

IdsOf(S) == {p.id : p \in S}
TxIds    == IdsOf(xTxBufferList)

(* The Tx buffer lookups: by type alone for CONNECT, by type and packet    *)
(* identifier otherwise.                                                   *)
TxConnect     == {p \in xTxBufferList : p.type = "CONNECT"}
Tx(type, id)  == {p \in xTxBufferList : p.type = type /\ p.id = id}
RxHeld        == IF xRxBuffer THEN 1 ELSE 0

-----------------------------------------------------------------------------
(* The subscription manager. *)

(* The entries that prvRemoveSubscription frees when it is called for each *)
(* topic of S: the first one in use with that filter.                      *)
Matching(subs, S) ==
    {x \in Slots : subs[x] \in S /\ \A y \in Slots : y < x => subs[y] # subs[x]}

Without(subs, S) == [x \in Slots |-> IF x \in Matching(subs, S) THEN NoTopic ELSE subs[x]]

prvRemoveSubscription(S) ==
    /\ xSubscriptions' = Without(xSubscriptions, S)
    /\ ulInUseSubscriptions' =
           ulInUseSubscriptions - Cardinality(Matching(xSubscriptions, S))

FreeSlots(subs)    == {x \in Slots : subs[x] = NoTopic}
IsFirst(x, S)      == x \in S /\ \A y \in S : x <= y

(* Mutant: an older entry for the filter is kept. *)
prvStoreSubscriptionKeepsOld(topic) ==
    /\ \E x \in Slots :
          /\ IsFirst(x, FreeSlots(xSubscriptions))
          /\ xSubscriptions' = [xSubscriptions EXCEPT ![x] = topic]
    /\ ulInUseSubscriptions' = ulInUseSubscriptions + 1

(* prvStoreSubscription for a filter, once a free entry is known to exist: *)
(* an entry for the same filter is freed first.                            *)
prvStoreSubscription(topic) ==
    LET subs == Without(xSubscriptions, {topic}) IN
    /\ \E x \in Slots :
          /\ IsFirst(x, FreeSlots(subs))
          /\ xSubscriptions' = [subs EXCEPT ![x] = topic]
    /\ ulInUseSubscriptions' =
           (ulInUseSubscriptions - Cardinality(Matching(xSubscriptions, {topic}))) + 1

-----------------------------------------------------------------------------
(* MQTT_Init, called once for each context when the agent starts. *)
Init ==
    /\ xConnectionState = "NotConnected"
    /\ xTxBufferList = {}
    /\ xRxNextByte = "PacketType"
    /\ xRxMessageAction = "Store"
    /\ ulRxMessageReceivedLength = 0
    /\ xRxBuffer = FALSE
    /\ xSubscriptions = [x \in Slots |-> NoTopic]
    /\ ulInUseSubscriptions = 0
    /\ ulNextPeriodicInvokeTicks = 0
    /\ xWaitingForPingResp = FALSE
    /\ poolFree = NumBuffers
    /\ userBuffers = 0
    /\ event = NoEvent
    /\ pingAge = 0

(* Forget the packet being received; a buffer held for it is not returned. *)
prvResetRxMessageState ==
    /\ xRxNextByte' = "PacketType"
    /\ xRxMessageAction' = "Store"
    /\ ulRxMessageReceivedLength' = 0
    /\ xRxBuffer' = FALSE

(* Mutant: the buffer of a half received packet is forgotten. *)
prvResetMQTTContextLeaksRx ==
    /\ xConnectionState' = "NotConnected"
    /\ xTxBufferList' = {}
    /\ poolFree' = poolFree + Cardinality(xTxBufferList)
    /\ prvResetRxMessageState
    /\ xSubscriptions' = [x \in Slots |-> NoTopic]
    /\ ulInUseSubscriptions' = 0
    /\ UNCHANGED userBuffers

(* Everything the session holds goes back to the pool. *)
prvResetMQTTContext ==
    /\ xConnectionState' = "NotConnected"
    /\ xTxBufferList' = {}
    /\ poolFree' = poolFree + Cardinality(xTxBufferList) + RxHeld
    /\ prvResetRxMessageState
    /\ xSubscriptions' = [x \in Slots |-> NoTopic]
    /\ ulInUseSubscriptions' = 0
    /\ UNCHANGED userBuffers

(* The reset with the eMQTTClientDisconnected callback that goes with it   *)
(* (after it, but before it in MQTT_Disconnect).                           *)
EndSession ==
    /\ prvResetMQTTContext
    /\ event' = Disconnected

(* A successful prvSendData restarts the keep alive interval; a failed one *)
(* changes nothing here.                                                   *)
prvSendData(sent) ==
    /\ ulNextPeriodicInvokeTicks' =
           IF sent THEN KeepAliveTicks ELSE ulNextPeriodicInvokeTicks
    /\ UNCHANGED <<xWaitingForPingResp, pingAge>>

(* The packet just processed leaves the Rx buffer, which goes back to the  *)
(* pool with the n Tx buffers the handler returned.                        *)
ReleaseRx(n) ==
    /\ poolFree' = poolFree + RxHeld + n
    /\ prvResetRxMessageState
    /\ UNCHANGED userBuffers

-----------------------------------------------------------------------------
(* Operations of the library.  A call that fails before it changes         *)
(* anything (wrong state, no buffer) is no step; one that fails later is.  *)

(* MQTT_Connect: the packet is listed, sent, and unlisted if not sent. *)
MQTT_Connect(id) ==
    /\ xConnectionState = "NotConnected"
    /\ poolFree > 0
    /\ xConnectionState' = "InProgress"
    /\ xTxBufferList' = xTxBufferList \cup {Packet("CONNECT", id, NoTopic)}
    /\ poolFree' = poolFree - 1
    /\ prvSendData(TRUE)
    /\ event' = NoEvent
    /\ UNCHANGED <<rxVars, subVars, userBuffers>>

(* MQTT_Disconnect: whether or not the packet could be sent. *)
MQTT_Disconnect ==
    /\ xConnectionState # "NotConnected"
    /\ \E sent \in BOOLEAN : prvSendData(sent)
    /\ EndSession

(* MQTT_Subscribe while connected and with a free entry: the filter is     *)
(* stored before the packet is built and sent.                             *)
MQTT_Subscribe(id, topic) ==
    /\ xConnectionState = "Connected"
    /\ ulInUseSubscriptions < MaxSubscriptions
    /\ poolFree > 0
    /\ id \notin TxIds
    /\ prvStoreSubscription(topic)
    /\ xTxBufferList' = xTxBufferList \cup {Packet("SUBSCRIBE", id, topic)}
    /\ poolFree' = poolFree - 1
    /\ prvSendData(TRUE)
    /\ event' = NoEvent
    /\ UNCHANGED <<xConnectionState, rxVars, userBuffers>>

(* MQTT_Subscribe that fails for want of a connection or of a buffer, or   *)
(* because the packet was not sent: any entry for the filter is removed,   *)
(* the one stored by this call or, not connected, an older one.            *)
MQTT_SubscribeFails(topic) ==
    /\ xConnectionState = "Connected" => ulInUseSubscriptions < MaxSubscriptions
    /\ prvRemoveSubscription({topic})
    /\ event' = NoEvent
    /\ UNCHANGED <<xConnectionState, xTxBufferList, rxVars, pingVars, bufVars>>

(* MQTT_Unsubscribe: the entry stays until the UNSUBACK. *)
MQTT_Unsubscribe(id, topic) ==
    /\ xConnectionState = "Connected"
    /\ poolFree > 0
    /\ id \notin TxIds
    /\ xTxBufferList' = xTxBufferList \cup {Packet("UNSUBSCRIBE", id, topic)}
    /\ poolFree' = poolFree - 1
    /\ prvSendData(TRUE)
    /\ event' = NoEvent
    /\ UNCHANGED <<xConnectionState, rxVars, subVars, userBuffers>>

(* MQTT_Publish with QoS1. *)
MQTT_PublishQoS1(id) ==
    /\ xConnectionState = "Connected"
    /\ poolFree > 0
    /\ id \notin TxIds
    /\ xTxBufferList' = xTxBufferList \cup {Packet("PUBLISH", id, NoTopic)}
    /\ poolFree' = poolFree - 1
    /\ prvSendData(TRUE)
    /\ event' = NoEvent
    /\ UNCHANGED <<xConnectionState, rxVars, subVars, userBuffers>>

(* MQTT_Publish with QoS0: the buffer is returned before the call is.  *)
MQTT_PublishQoS0 ==
    /\ xConnectionState = "Connected"
    /\ poolFree > 0
    /\ prvSendData(TRUE)
    /\ event' = NoEvent
    /\ UNCHANGED <<xConnectionState, xTxBufferList, rxVars, subVars, bufVars>>

(* MQTT_ReturnBuffer, by the application that owns a received message. *)
MQTT_ReturnBuffer ==
    /\ userBuffers > 0
    /\ userBuffers' = userBuffers - 1
    /\ poolFree' = poolFree + 1
    /\ event' = NoEvent
    /\ UNCHANGED <<xConnectionState, xTxBufferList, rxVars, subVars, pingVars>>

-----------------------------------------------------------------------------
(* MQTT_ParseReceivedData, one byte of the fixed header or the last byte   *)
(* of a message at a time; between two of them the data may run out and    *)
(* any other operation be called.                                          *)

Receiving(next) == xConnectionState # "NotConnected" /\ xRxNextByte = next

ReceivePacketType ==
    /\ Receiving("PacketType")
    /\ ulRxMessageReceivedLength' = ulRxMessageReceivedLength + 1
    /\ xRxNextByte' = "PacketLength"
    /\ event' = NoEvent
    /\ UNCHANGED <<xConnectionState, xTxBufferList, xRxMessageAction, xRxBuffer,
                   subVars, pingVars, bufVars>>

(* Mutant: one continuation byte too many is accepted. *)
ReceivePacketLengthContinuedOffByOne ==
    /\ Receiving("PacketLength")
    /\ \/ /\ ulRxMessageReceivedLength + 1 > FixedHeaderMaxSize
          /\ EndSession
          /\ UNCHANGED pingVars
       \/ /\ ulRxMessageReceivedLength + 1 <= FixedHeaderMaxSize
          /\ ulRxMessageReceivedLength' = ulRxMessageReceivedLength + 1
          /\ event' = NoEvent
          /\ UNCHANGED <<xConnectionState, xTxBufferList, xRxNextByte, xRxMessageAction,
                         xRxBuffer, subVars, pingVars, bufVars>>

(* A length byte with the continuation bit. *)
ReceivePacketLengthContinued ==
    /\ Receiving("PacketLength")
    /\ \/ /\ ulRxMessageReceivedLength + 1 >= FixedHeaderMaxSize
          /\ EndSession
          /\ UNCHANGED pingVars
       \/ /\ ulRxMessageReceivedLength + 1 < FixedHeaderMaxSize
          /\ ulRxMessageReceivedLength' = ulRxMessageReceivedLength + 1
          /\ event' = NoEvent
          /\ UNCHANGED <<xConnectionState, xTxBufferList, xRxNextByte, xRxMessageAction,
                         xRxBuffer, subVars, pingVars, bufVars>>

(* The last length byte of a PINGRESP, which is two bytes long. *)
ReceivePINGRESP ==
    /\ Receiving("PacketLength")
    /\ ulRxMessageReceivedLength = 1
    /\ xWaitingForPingResp' = FALSE
    /\ ulNextPeriodicInvokeTicks' =
           IF xWaitingForPingResp THEN KeepAliveTicks ELSE ulNextPeriodicInvokeTicks
    /\ pingAge' = 0
    /\ prvResetRxMessageState
    /\ event' = NoEvent
    /\ UNCHANGED <<xConnectionState, xTxBufferList, subVars, bufVars>>

(* The last length byte of any other packet without a body. *)
ReceiveOtherFixedHeaderOnly ==
    /\ Receiving("PacketLength")
    /\ EndSession
    /\ UNCHANGED pingVars

(* The last length byte of a packet with a body: a buffer is taken if      *)
(* there is one and it is long enough, else the body will be dropped.      *)
ReceivePacketLength ==
    /\ Receiving("PacketLength")
    /\ ulRxMessageReceivedLength' = ulRxMessageReceivedLength + 1
    /\ xRxNextByte' = "Message"
    /\ \/ /\ poolFree > 0
          /\ xRxBuffer' = TRUE
          /\ xRxMessageAction' = "Store"
          /\ poolFree' = poolFree - 1
       \/ /\ xRxMessageAction' = "Drop"
          /\ UNCHANGED <<xRxBuffer, poolFree>>
    /\ event' = NoEvent
    /\ UNCHANGED <<xConnectionState, xTxBufferList, subVars, pingVars, userBuffers>>

(* The last byte of a dropped message. *)
ReceiveDropped ==
    /\ Receiving("Message")
    /\ xRxMessageAction = "Drop"
    /\ prvResetRxMessageState
    /\ event' = NoEvent
    /\ UNCHANGED <<xConnectionState, xTxBufferList, subVars, pingVars, bufVars>>

Stored == Receiving("Message") /\ xRxMessageAction = "Store"

(* A well formed acknowledgement nobody waits for is only announced. *)
ReceiveUnexpectedAck ==
    /\ Stored
    /\ ReleaseRx(0)
    /\ event' = NoEvent
    /\ UNCHANGED <<xConnectionState, xTxBufferList, subVars, pingVars>>

(* CONNACK with return code 0: the callback runs before the state changes. *)
ReceiveCONNACKAccepted ==
    /\ Stored
    /\ TxConnect # {}
    /\ \E p \in TxConnect :
          /\ xTxBufferList' = xTxBufferList \ {p}
          /\ event' = Reply({p.id})
    /\ ReleaseRx(1)
    /\ xConnectionState' = "Connected"
    /\ ulNextPeriodicInvokeTicks' = KeepAliveTicks
    /\ xWaitingForPingResp' = FALSE
    /\ pingAge' = 0
    /\ UNCHANGED subVars

(* CONNACK with return code 1 to 5: the CONNECT is reported by its reply   *)
(* and, after the reset, once more by the disconnect.                      *)
ReceiveCONNACKRefused ==
    /\ Stored
    /\ \E p \in TxConnect : event' = Refused({p.id})
    /\ prvResetMQTTContext
    /\ UNCHANGED pingVars

(* A malformed CONNACK, SUBACK, UNSUBACK or PUBACK (a reserved return code *)
(* too), a PUBLISH with QoS2 or 3, a packet no client receives.            *)
ReceiveMalformed ==
    /\ Stored
    /\ EndSession
    /\ UNCHANGED pingVars

(* Mutant: the Tx buffer of a refused subscription is not returned. *)
ReceiveSUBACKKeepsRefused(id, granted) ==
    /\ Stored
    /\ \E p \in Tx("SUBSCRIBE", id) :
          /\ xTxBufferList' = IF granted THEN xTxBufferList \ {p} ELSE xTxBufferList
          /\ prvRemoveSubscription(IF granted THEN {} ELSE {p.topic})
    /\ event' = Reply({id})
    /\ ReleaseRx(IF granted THEN 1 ELSE 0)
    /\ UNCHANGED <<xConnectionState, pingVars>>

(* SUBACK that grants or refuses the subscription. *)
ReceiveSUBACK(id, granted) ==
    /\ Stored
    /\ \E p \in Tx("SUBSCRIBE", id) :
          /\ xTxBufferList' = xTxBufferList \ {p}
          /\ prvRemoveSubscription(IF granted THEN {} ELSE {p.topic})
    /\ event' = Reply({id})
    /\ ReleaseRx(1)
    /\ UNCHANGED <<xConnectionState, pingVars>>

ReceiveUNSUBACK(id) ==
    /\ Stored
    /\ \E p \in Tx("UNSUBSCRIBE", id) :
          /\ xTxBufferList' = xTxBufferList \ {p}
          /\ prvRemoveSubscription({p.topic})
    /\ event' = Reply({id})
    /\ ReleaseRx(1)
    /\ UNCHANGED <<xConnectionState, pingVars>>

ReceivePUBACK(id) ==
    /\ Stored
    /\ \E p \in Tx("PUBLISH", id) : xTxBufferList' = xTxBufferList \ {p}
    /\ event' = Reply({id})
    /\ ReleaseRx(1)
    /\ UNCHANGED <<xConnectionState, subVars, pingVars>>

(* PUBLISH with QoS0 or QoS1; the latter is acknowledged first.  If a      *)
(* callback takes the buffer it is not returned to the pool.               *)
ReceivePUBLISH(qos1, taken) ==
    /\ Stored
    /\ \E sent \in BOOLEAN : prvSendData(qos1 /\ sent)
    /\ poolFree' = IF taken THEN poolFree ELSE poolFree + RxHeld
    /\ userBuffers' = IF taken THEN userBuffers + RxHeld ELSE userBuffers
    /\ prvResetRxMessageState
    /\ event' = NoEvent
    /\ UNCHANGED <<xConnectionState, xTxBufferList, subVars>>

-----------------------------------------------------------------------------
(* MQTT_Periodic. *)

(* Mutant: the timeout of a QoS1 publish is never looked at. *)
ExpiredButPublish == {p \in xTxBufferList : p.left = 0 /\ p.type # "PUBLISH"}

Expired == {p \in xTxBufferList : p.left = 0}

(* Mutant: the time to wait for the PINGRESP is not set. *)
KeepAliveNoTimeout ==
    IF xConnectionState = "Connected" /\ ulNextPeriodicInvokeTicks = 0
    THEN \/ /\ xWaitingForPingResp
            /\ xWaitingForPingResp' = FALSE
            /\ pingAge' = 0
            /\ UNCHANGED ulNextPeriodicInvokeTicks
         \/ /\ ~ xWaitingForPingResp
            /\ xWaitingForPingResp' = TRUE
            /\ pingAge' = 0
            /\ UNCHANGED ulNextPeriodicInvokeTicks
    ELSE UNCHANGED pingVars

(* The keep alive part, when the interval has elapsed: a PINGRESP that did *)
(* not come is given up, else a PINGREQ is sent or, failing that, left to  *)
(* the next call.                                                          *)
KeepAlive ==
    IF xConnectionState = "Connected" /\ ulNextPeriodicInvokeTicks = 0
    THEN \/ /\ xWaitingForPingResp
            /\ xWaitingForPingResp' = FALSE
            /\ pingAge' = 0
            /\ UNCHANGED ulNextPeriodicInvokeTicks
         \/ /\ ~ xWaitingForPingResp
            /\ ulNextPeriodicInvokeTicks' = PingTimeoutTicks
            /\ xWaitingForPingResp' = TRUE
            /\ pingAge' = 0
         \/ /\ ~ xWaitingForPingResp
            /\ UNCHANGED pingVars
    ELSE UNCHANGED pingVars

(* Mutant: a CONNECT that timed out is handled like any other packet. *)
MQTT_PeriodicKeepsSession ==
    /\ xTxBufferList' = xTxBufferList \ Expired
    /\ poolFree' = poolFree + Cardinality(Expired)
    /\ prvRemoveSubscription({p.topic : p \in {q \in Expired : q.type = "SUBSCRIBE"}})
    /\ event' = IF Expired = {} THEN NoEvent ELSE Reply(IdsOf(Expired))
    /\ KeepAlive
    /\ UNCHANGED <<xConnectionState, rxVars, userBuffers>>

(* A CONNECT that timed out ends the session; any other expired packet is  *)
(* reported and returned, a SUBSCRIBE with its entry.                      *)
MQTT_Periodic ==
    \/ /\ Expired \cap TxConnect # {}
       /\ EndSession
       /\ UNCHANGED pingVars
    \/ /\ Expired \cap TxConnect = {}
       /\ xTxBufferList' = xTxBufferList \ Expired
       /\ poolFree' = poolFree + Cardinality(Expired)
       /\ prvRemoveSubscription({p.topic : p \in {q \in Expired : q.type = "SUBSCRIBE"}})
       /\ event' = IF Expired = {} THEN NoEvent ELSE Reply(IdsOf(Expired))
       /\ KeepAlive
       /\ UNCHANGED <<xConnectionState, rxVars, userBuffers>>

Less(n) == IF n = 0 THEN 0 ELSE n - 1

(* One tick of the system clock. *)
Tick ==
    /\ xTxBufferList' = {[p EXCEPT !.left = Less(@)] : p \in xTxBufferList}
    /\ ulNextPeriodicInvokeTicks' = Less(ulNextPeriodicInvokeTicks)
    /\ pingAge' = IF xWaitingForPingResp /\ pingAge <= PingTimeoutTicks
                  THEN pingAge + 1 ELSE pingAge
    /\ event' = NoEvent
    /\ UNCHANGED <<xConnectionState, rxVars, subVars, xWaitingForPingResp, bufVars>>

-----------------------------------------------------------------------------

Call ==
    \/ \E id \in Ids : MQTT_Connect(id) \/ MQTT_PublishQoS1(id)
    \/ MQTT_Disconnect
    \/ \E id \in Ids, topic \in Topics : MQTT_Subscribe(id, topic) \/ MQTT_Unsubscribe(id, topic)
    \/ \E topic \in Topics : MQTT_SubscribeFails(topic)
    \/ MQTT_PublishQoS0
    \/ MQTT_ReturnBuffer

MQTT_ParseReceivedData ==
    \/ ReceivePacketType
    \/ ReceivePacketLengthContinued
    \/ ReceivePINGRESP
    \/ ReceiveOtherFixedHeaderOnly
    \/ ReceivePacketLength
    \/ ReceiveDropped
    \/ ReceiveUnexpectedAck
    \/ ReceiveCONNACKAccepted
    \/ ReceiveCONNACKRefused
    \/ ReceiveMalformed
    \/ \E id \in Ids, granted \in BOOLEAN : ReceiveSUBACK(id, granted)
    \/ \E id \in Ids : ReceiveUNSUBACK(id) \/ ReceivePUBACK(id)
    \/ \E qos1, taken \in BOOLEAN : ReceivePUBLISH(qos1, taken)

Next == Call \/ MQTT_ParseReceivedData \/ MQTT_Periodic \/ Tick

Spec == Init /\ [][Next]_vars

(* The clock runs and the MQTT task calls MQTT_Periodic again and again. *)
FairSpec == Spec /\ WF_vars(Tick) /\ WF_vars(MQTT_Periodic)

-----------------------------------------------------------------------------

TypeOK ==
    /\ xConnectionState \in {"NotConnected", "InProgress", "Connected"}
    /\ xTxBufferList \subseteq Packets
    /\ xRxNextByte \in {"PacketType", "PacketLength", "Message"}
    /\ xRxMessageAction \in {"Store", "Drop"}
    /\ ulRxMessageReceivedLength \in 0 .. FixedHeaderMaxSize
    /\ xRxBuffer \in BOOLEAN
    /\ xSubscriptions \in [Slots -> Topics \cup {NoTopic}]
    /\ ulInUseSubscriptions \in Nat
    /\ ulNextPeriodicInvokeTicks \in Nat
    /\ xWaitingForPingResp \in BOOLEAN
    /\ poolFree \in Nat
    /\ userBuffers \in Nat
    /\ event \in [type : {"None", "Reply", "Disconnected", "Refused"}, ids : SUBSET Ids]
    /\ pingAge \in 0 .. PingTimeoutTicks + 1

(* Every buffer is in exactly one place: the pool, the list of packets     *)
(* that wait for an acknowledgement, the packet being received, or the     *)
(* application.  None is lost or returned twice, whichever way sessions    *)
(* end and whatever the broker sends.                                      *)
BufferConservation ==
    poolFree + Cardinality(xTxBufferList) + RxHeld + userBuffers = NumBuffers

(* What the callers rely on when they open a new session: a context that   *)
(* is not connected holds nothing, one that is connecting holds its        *)
(* CONNECT only, and a CONNECT is never left over.                         *)
SessionShape ==
    /\ xConnectionState = "NotConnected" =>
           /\ xTxBufferList = {}
           /\ ~ xRxBuffer
           /\ ulRxMessageReceivedLength = 0
           /\ ulInUseSubscriptions = 0
    /\ xConnectionState = "InProgress" =>
           /\ xTxBufferList = TxConnect
           /\ \E p \in xTxBufferList : xTxBufferList = {p}
    /\ xConnectionState = "Connected" => TxConnect = {}

(* The assertions of MQTT_ParseReceivedData: no buffer and no byte is left *)
(* over when a packet begins, the fixed header never outgrows its buffer,  *)
(* and there is a buffer while a message is stored.                        *)
RxAssertions ==
    /\ xRxNextByte = "PacketType" => ulRxMessageReceivedLength = 0
    /\ xRxNextByte = "PacketLength" => ulRxMessageReceivedLength \in 1 .. FixedHeaderMaxSize - 1
    /\ xRxBuffer <=> xRxNextByte = "Message" /\ xRxMessageAction = "Store"

(* The count of entries is the number of entries in use, so that it cannot *)
(* wrap below zero and "not full" implies that an entry is free; and no    *)
(* filter has two entries.                                                 *)
SubscriptionManager ==
    /\ ulInUseSubscriptions = Cardinality({x \in Slots : xSubscriptions[x] # NoTopic})
    /\ \A x, y \in Slots : xSubscriptions[x] # NoTopic /\ xSubscriptions[x] = xSubscriptions[y] => x = y

(* Needed for the proofs: packets that wait for an acknowledgement have    *)
(* different identifiers, because the agent uses none twice.               *)
UniqueIds == \A p, q \in xTxBufferList : p.id = q.id => p = q

(* The library keeps the promise of MqttSession: what it accepted and not  *)
(* yet reported is what its Tx list holds.  No operation is forgotten, and *)
(* none is reported by two steps; the one that two callbacks report is a   *)
(* refused CONNECT, by its CONNACK and the disconnect right after it.      *)
Session == INSTANCE MqttSession WITH state <- xConnectionState, outstanding <- TxIds
SessionSpec == Session!Spec

(* Every accepted operation is reported in the end, even if the broker     *)
(* never answers.                                                          *)
EveryOperationReported == \A id \in Ids : id \in TxIds ~> id \notin TxIds

(* A PINGRESP is not given up, and the user told of a lost broker, before  *)
(* ulPingRequestTimeoutTicks have passed since the PINGREQ, although the   *)
(* same clock runs for the idle interval and every packet sent sets it.    *)
PingNotGivenUpEarly ==
    [][xConnectionState = "Connected" /\ xWaitingForPingResp /\ MQTT_Periodic
           /\ ~ xWaitingForPingResp' => pingAge >= PingTimeoutTicks]_vars

(* aws_mqtt_lib.h, pxPublishCallback: "Callback function to be called      *)
(* whenever a publish message is received on this topic".  When the broker *)
(* grants a subscription its entry, which holds the callback, is there.    *)
GrantedHasCallback ==
    [][\A id \in Ids : ReceiveSUBACK(id, TRUE) =>
           \A p \in Tx("SUBSCRIBE", id) : \E x \in Slots : xSubscriptions'[x] = p.topic]_vars
==============================================================================

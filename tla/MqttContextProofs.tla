-------------------------- MODULE MqttContextProofs --------------------------
(***************************************************************************)
(* Proofs about MqttContext for any number of buffers, of entries of the   *)
(* subscription manager, of packet identifiers and of ticks.               *)
(*                                                                         *)
(* The inductive invariant has one part for each group of variables.  The  *)
(* parts that relate two groups (BufferConservation, Shape) need the       *)
(* others: a count of buffers is only right if the Tx list is finite and   *)
(* no tick makes two of its packets equal, which UniqueIds excludes.       *)
(***************************************************************************)
EXTENDS MqttContext, FiniteSetTheorems, TLAPS

States == {"NotConnected", "InProgress", "Connected"}

TxInv ==
    /\ xConnectionState \in States
    /\ xTxBufferList \subseteq Packets
    /\ IsFiniteSet(xTxBufferList)
    /\ UniqueIds

(* The part of SessionShape that is about the Tx list. *)
TxShape ==
    /\ xConnectionState = "NotConnected" => xTxBufferList = {}
    /\ xConnectionState = "InProgress" =>
           /\ xTxBufferList = TxConnect
           /\ \E p \in xTxBufferList : xTxBufferList = {p}
    /\ xConnectionState = "Connected" => TxConnect = {}

RxInv ==
    /\ xRxNextByte \in {"PacketType", "PacketLength", "Message"}
    /\ xRxMessageAction \in {"Store", "Drop"}
    /\ ulRxMessageReceivedLength \in 0 .. FixedHeaderMaxSize
    /\ xRxBuffer \in BOOLEAN
    /\ RxAssertions
    /\ xConnectionState = "NotConnected" => ~ xRxBuffer /\ ulRxMessageReceivedLength = 0

BufInv ==
    /\ poolFree \in Nat
    /\ userBuffers \in Nat
    /\ BufferConservation

PingInv ==
    /\ ulNextPeriodicInvokeTicks \in Nat
    /\ xWaitingForPingResp \in BOOLEAN
    /\ pingAge \in 0 .. PingTimeoutTicks + 1

EventInv == event \in [type : {"None", "Reply", "Disconnected", "Refused"}, ids : SUBSET Ids]

SubInv ==
    /\ xSubscriptions \in [Slots -> Topics \cup {NoTopic}]
    /\ ulInUseSubscriptions \in Nat
    /\ SubscriptionManager
    /\ xConnectionState = "NotConnected" => ulInUseSubscriptions = 0

ContextInv == TxInv /\ TxShape /\ RxInv /\ BufInv /\ PingInv /\ EventInv /\ SubInv

-----------------------------------------------------------------------------
(* The subscription manager. *)

Used(subs) == {x \in Slots : subs[x] # NoTopic}
NoDuplicates(subs) ==
    \A x, y \in Slots : subs[x] # NoTopic /\ subs[x] = subs[y] => x = y

LEMMA SlotsFinite == IsFiniteSet(Slots)
  BY ContextAssumption, FS_Interval DEF Slots

LEMMA UsedFinite ==
  ASSUME NEW subs
  PROVE  IsFiniteSet(Used(subs)) /\ Cardinality(Used(subs)) \in Nat
<1>1. Used(subs) \in SUBSET Slots
  BY DEF Used
<1>2. QED
  BY <1>1, SlotsFinite, FS_Subset, FS_CardinalityType

(* What prvRemoveSubscription leaves for filters that are all valid. *)
LEMMA WithoutFacts ==
  ASSUME NEW subs \in [Slots -> Topics \cup {NoTopic}], NEW S \in SUBSET Topics,
         NoDuplicates(subs)
  PROVE  /\ Without(subs, S) \in [Slots -> Topics \cup {NoTopic}]
         /\ NoDuplicates(Without(subs, S))
         /\ \A x \in Slots : Without(subs, S)[x] \notin S
         /\ Used(Without(subs, S)) = Used(subs) \ Matching(subs, S)
         /\ Cardinality(Used(Without(subs, S))) =
               Cardinality(Used(subs)) - Cardinality(Matching(subs, S))
<1>0. NoTopic \notin S
  BY ContextAssumption
<1>1. \A x \in Slots : x \in Matching(subs, S) <=> subs[x] \in S
  <2>1. \A x, y \in Slots : y < x /\ subs[x] \in S => subs[y] # subs[x]
    BY <1>0 DEF NoDuplicates, Slots
  <2>2. QED
    BY <2>1 DEF Matching
<1>2. \A x \in Slots : Without(subs, S)[x] = IF subs[x] \in S THEN NoTopic ELSE subs[x]
  BY <1>1 DEF Without
<1>3. Without(subs, S) \in [Slots -> Topics \cup {NoTopic}]
  BY DEF Without
<1>4. NoDuplicates(Without(subs, S))
  BY <1>2 DEF NoDuplicates
<1>5. \A x \in Slots : Without(subs, S)[x] \notin S
  BY <1>0, <1>2
<1>6. Used(Without(subs, S)) = Used(subs) \ Matching(subs, S)
  BY <1>0, <1>1, <1>2 DEF Used, Matching
<1>7. Used(subs) \cap Matching(subs, S) = Matching(subs, S)
  BY <1>0, <1>1 DEF Used, Matching
<1>8. QED
  BY <1>3, <1>4, <1>5, <1>6, <1>7, UsedFinite, FS_Difference

LEMMA RemoveKeepsSubInv ==
  ASSUME SubInv, NEW S \in SUBSET Topics, prvRemoveSubscription(S),
         xConnectionState' = "NotConnected" => xConnectionState = "NotConnected"
  PROVE  SubInv'
<1>1. NoDuplicates(xSubscriptions) /\ ulInUseSubscriptions = Cardinality(Used(xSubscriptions))
  BY DEF SubInv, SubscriptionManager, NoDuplicates, Used
<1>2. /\ xSubscriptions' \in [Slots -> Topics \cup {NoTopic}]
      /\ NoDuplicates(xSubscriptions')
      /\ ulInUseSubscriptions' = Cardinality(Used(xSubscriptions'))
  BY <1>1, WithoutFacts DEF SubInv, prvRemoveSubscription
<1>3. ulInUseSubscriptions' \in Nat
  BY <1>2, UsedFinite
<1>4. ASSUME ulInUseSubscriptions = 0 PROVE ulInUseSubscriptions' = 0
  <2>1. Matching(xSubscriptions, S) \subseteq Used(xSubscriptions)
    BY ContextAssumption DEF Matching, Used
  <2>2. Used(xSubscriptions) = {}
    BY <1>1, <1>4, UsedFinite, FS_EmptySet
  <2>3. Cardinality(Matching(xSubscriptions, S)) = 0
    BY <2>1, <2>2, FS_EmptySet
  <2>4. QED
    BY <1>4, <2>3 DEF prvRemoveSubscription
<1>5. QED
  BY <1>2, <1>3, <1>4 DEF SubInv, SubscriptionManager, NoDuplicates, Used

LEMMA StoreKeepsSubInv ==
  ASSUME SubInv, NEW topic \in Topics, prvStoreSubscription(topic),
         xConnectionState' # "NotConnected"
  PROVE  SubInv'
<1> DEFINE subs == Without(xSubscriptions, {topic})
<1>1. NoDuplicates(xSubscriptions) /\ ulInUseSubscriptions = Cardinality(Used(xSubscriptions))
  BY DEF SubInv, SubscriptionManager, NoDuplicates, Used
<1>2. /\ subs \in [Slots -> Topics \cup {NoTopic}]
      /\ NoDuplicates(subs)
      /\ \A x \in Slots : subs[x] # topic
      /\ Cardinality(Used(subs)) =
            ulInUseSubscriptions - Cardinality(Matching(xSubscriptions, {topic}))
  <2>1. {topic} \in SUBSET Topics
    OBVIOUS
  <2>2. QED
    BY <1>1, <2>1, WithoutFacts DEF SubInv
<1> HIDE DEF subs
<1>3. PICK x \in Slots : subs[x] = NoTopic /\ xSubscriptions' = [subs EXCEPT ![x] = topic]
  BY DEF prvStoreSubscription, IsFirst, FreeSlots, subs
<1>4. Used(xSubscriptions') = Used(subs) \cup {x} /\ x \notin Used(subs)
  BY <1>2, <1>3, ContextAssumption DEF Used
<1>5. Cardinality(Used(xSubscriptions')) = Cardinality(Used(subs)) + 1
  BY <1>4, UsedFinite, FS_AddElement
<1>6. ulInUseSubscriptions' = Cardinality(Used(xSubscriptions'))
  BY <1>2, <1>5 DEF prvStoreSubscription
<1>7. NoDuplicates(xSubscriptions')
  BY <1>2, <1>3 DEF NoDuplicates
<1>8. xSubscriptions' \in [Slots -> Topics \cup {NoTopic}]
  BY <1>2, <1>3
<1>9. ulInUseSubscriptions' \in Nat
  BY <1>6, UsedFinite
<1>10. QED
  BY <1>6, <1>7, <1>8, <1>9 DEF SubInv, SubscriptionManager, NoDuplicates, Used

LEMMA ResetKeepsSubInv ==
  ASSUME xSubscriptions' = [x \in Slots |-> NoTopic], ulInUseSubscriptions' = 0
  PROVE  SubInv'
<1>1. Used(xSubscriptions') = {}
  BY DEF Used
<1>2. QED
  BY <1>1, FS_EmptySet DEF SubInv, SubscriptionManager, Used

-----------------------------------------------------------------------------
(* The Tx list and the buffers. *)

LEMMA TxCardinality ==
  ASSUME TxInv PROVE Cardinality(xTxBufferList) \in Nat
  BY FS_CardinalityType DEF TxInv

(* A packet with a new identifier is listed. *)
LEMMA ListPacket ==
  ASSUME TxInv, NEW p \in Packets, p.id \notin TxIds,
         xTxBufferList' = xTxBufferList \cup {p}, xConnectionState' \in States
  PROVE  TxInv' /\ Cardinality(xTxBufferList') = Cardinality(xTxBufferList) + 1
<1>1. p \notin xTxBufferList
  BY DEF TxIds, IdsOf
<1>2. /\ IsFiniteSet(xTxBufferList')
      /\ Cardinality(xTxBufferList') = Cardinality(xTxBufferList) + 1
  BY <1>1, FS_AddElement DEF TxInv
<1>3. UniqueIds'
  BY DEF TxInv, UniqueIds, TxIds, IdsOf
<1>4. QED
  BY <1>2, <1>3 DEF TxInv

(* Packets are unlisted. *)
LEMMA UnlistPackets ==
  ASSUME TxInv, NEW S \in SUBSET xTxBufferList,
         xTxBufferList' = xTxBufferList \ S, xConnectionState' \in States
  PROVE  /\ TxInv'
         /\ Cardinality(S) \in Nat
         /\ Cardinality(xTxBufferList') = Cardinality(xTxBufferList) - Cardinality(S)
<1>1. xTxBufferList \cap S = S
  OBVIOUS
<1>2. /\ IsFiniteSet(xTxBufferList')
      /\ Cardinality(xTxBufferList') = Cardinality(xTxBufferList) - Cardinality(S)
  <2>1. /\ IsFiniteSet(xTxBufferList \ S)
        /\ Cardinality(xTxBufferList \ S) =
              Cardinality(xTxBufferList) - Cardinality(xTxBufferList \cap S)
    BY FS_Difference DEF TxInv
  <2>2. QED
    BY <1>1, <2>1
<1>3. Cardinality(S) \in Nat
  BY FS_Subset, FS_CardinalityType DEF TxInv
<1>4. QED
  BY <1>2, <1>3 DEF TxInv, UniqueIds

(* Time passes: packets stay apart because their identifiers differ. *)
LEMMA TickPackets ==
  ASSUME TxInv, xTxBufferList' = {[p EXCEPT !.left = Less(@)] : p \in xTxBufferList},
         xConnectionState' \in States
  PROVE  TxInv' /\ Cardinality(xTxBufferList') = Cardinality(xTxBufferList)
<1> DEFINE Aged(p) == [p EXCEPT !.left = Less(@)]
           f == [p \in xTxBufferList |-> Aged(p)]
<1>1. \A p \in xTxBufferList : Aged(p) \in Packets /\ Aged(p).id = p.id
  BY ContextAssumption DEF TxInv, Packets, Less
<1> HIDE DEF Aged
<1>2. \A p, q \in xTxBufferList : f[p] = f[q] => p = q
  BY <1>1 DEF TxInv, UniqueIds
<1>3. xTxBufferList' = {Aged(p) : p \in xTxBufferList}
  BY DEF Aged
<1>4. f \in [xTxBufferList -> xTxBufferList']
  BY <1>3
<1>5. \A q \in xTxBufferList' : \E p \in xTxBufferList : f[p] = q
  BY <1>3
<1> HIDE DEF f
<1>6. f \in Bijection(xTxBufferList, xTxBufferList')
  BY <1>2, <1>4, <1>5 DEF Bijection, Injection, IsInjective, Surjection
<1>7. /\ IsFiniteSet(xTxBufferList')
      /\ Cardinality(xTxBufferList') = Cardinality(xTxBufferList)
  BY <1>6, FS_Bijection DEF TxInv, ExistsBijection
<1>8. UniqueIds'
  BY <1>1, <1>3 DEF TxInv, UniqueIds
<1>9. xTxBufferList' \subseteq Packets
  BY <1>1, <1>3
<1>10. QED
  BY <1>7, <1>8, <1>9 DEF TxInv

-----------------------------------------------------------------------------
(* What the common parts of the actions keep. *)

LEMMA ResetRx ==
  ASSUME prvResetRxMessageState PROVE RxInv' /\ RxHeld' = 0
<1>1. ulRxMessageReceivedLength' \in 0 .. FixedHeaderMaxSize
  BY DEF prvResetRxMessageState, FixedHeaderMaxSize
<1>2. RxAssertions'
  BY DEF prvResetRxMessageState, RxAssertions
<1>3. RxHeld' = 0
  BY DEF prvResetRxMessageState, RxHeld
<1>4. QED
  BY <1>1, <1>2, <1>3 DEF prvResetRxMessageState, RxInv

LEMMA RxHeldType == ASSUME RxInv PROVE RxHeld \in {0, 1}
  BY DEF RxInv, RxHeld

LEMMA SendKeepsPingInv ==
  ASSUME PingInv, NEW sent \in BOOLEAN, prvSendData(sent) PROVE PingInv'
  BY ContextAssumption DEF PingInv, prvSendData

LEMMA SameSubscriptions ==
  ASSUME SubInv, UNCHANGED subVars,
         xConnectionState' = "NotConnected" => xConnectionState = "NotConnected"
  PROVE  SubInv'
  BY DEF SubInv, SubscriptionManager, subVars

(* The context is reset, whatever the callback is told. *)
LEMMA ResetKeepsInv ==
  ASSUME ContextInv, prvResetMQTTContext, PingInv', EventInv' PROVE ContextInv'
<1> USE DEF ContextInv
<1>1. TxInv' /\ TxShape'
  BY FS_EmptySet DEF prvResetMQTTContext, TxInv, TxShape, States, UniqueIds
<1>2. RxInv' /\ RxHeld' = 0
  BY ResetRx DEF prvResetMQTTContext
<1>3. BufInv'
  BY <1>2, TxCardinality, RxHeldType, FS_EmptySet
     DEF prvResetMQTTContext, BufInv, BufferConservation
<1>4. SubInv'
  BY ResetKeepsSubInv DEF prvResetMQTTContext
<1>5. QED
  BY <1>1, <1>2, <1>3, <1>4

(* The session ends. *)
LEMMA EndSessionKeepsInv ==
  ASSUME ContextInv, EndSession, PingInv' PROVE ContextInv'
<1>1. EventInv'
  BY DEF EndSession, EventInv, Disconnected
<1>2. QED
  BY <1>1, ResetKeepsInv DEF EndSession

(* A request is listed while connected. *)
LEMMA RequestKeepsInv ==
  ASSUME ContextInv, NEW p \in Packets, p.type # "CONNECT", p.id \notin TxIds,
         xConnectionState = "Connected", poolFree > 0,
         xTxBufferList' = xTxBufferList \cup {p}, poolFree' = poolFree - 1,
         UNCHANGED <<xConnectionState, rxVars, userBuffers>>
  PROVE  TxInv' /\ TxShape' /\ RxInv' /\ BufInv'
<1> USE DEF ContextInv
<1>1. TxInv' /\ Cardinality(xTxBufferList') = Cardinality(xTxBufferList) + 1
  BY ListPacket DEF TxInv
<1>2. TxShape'
  BY DEF TxShape, TxConnect
<1>3. RxInv' /\ RxHeld' = RxHeld
  BY DEF RxInv, RxAssertions, rxVars, RxHeld
<1>4. BufInv'
  BY <1>1, <1>3, TxCardinality, RxHeldType DEF BufInv, BufferConservation
<1>5. QED
  BY <1>1, <1>2, <1>3, <1>4

(* An operation other than a connect is only waited for while connected. *)
LEMMA RequestImpliesConnected ==
  ASSUME TxInv, TxShape, NEW p \in xTxBufferList, p.type # "CONNECT"
  PROVE  xConnectionState = "Connected"
  BY DEF TxInv, TxShape, TxConnect, States

(* A request is acknowledged. *)
LEMMA AckKeepsInv ==
  ASSUME ContextInv, NEW p \in xTxBufferList, p.type # "CONNECT",
         xTxBufferList' = xTxBufferList \ {p}, event' = Reply({p.id}),
         ReleaseRx(1), UNCHANGED xConnectionState
  PROVE  TxInv' /\ TxShape' /\ RxInv' /\ BufInv' /\ EventInv'
<1> USE DEF ContextInv
<1>1. /\ TxInv'
      /\ Cardinality(xTxBufferList') = Cardinality(xTxBufferList) - Cardinality({p})
  BY UnlistPackets DEF TxInv
<1>2. Cardinality({p}) = 1
  BY FS_Singleton
<1>3. TxShape'
  BY RequestImpliesConnected DEF TxShape, TxConnect
<1>4. RxInv' /\ RxHeld' = 0
  BY ResetRx DEF ReleaseRx
<1>5. BufInv'
  BY <1>1, <1>2, <1>4, TxCardinality, RxHeldType DEF BufInv, BufferConservation, ReleaseRx
<1>6. EventInv'
  BY DEF EventInv, Reply, TxInv, Packets
<1>7. QED
  BY <1>1, <1>3, <1>4, <1>5, <1>6

(* The state and the Tx list stay as they are. *)
LEMMA SameTx ==
  ASSUME TxInv, TxShape, UNCHANGED <<xConnectionState, xTxBufferList>>
  PROVE  TxInv' /\ TxShape' /\ Cardinality(xTxBufferList') = Cardinality(xTxBufferList)
  BY DEF TxInv, TxShape, UniqueIds, TxConnect

LEMMA NoEventInv == ASSUME event' = NoEvent PROVE EventInv'
  BY DEF EventInv, NoEvent

(* Receiving does not move and no buffer changes hands. *)
LEMMA SameRxAndBuffers ==
  ASSUME RxInv, BufInv, UNCHANGED <<xConnectionState, rxVars, bufVars>>,
         Cardinality(xTxBufferList') = Cardinality(xTxBufferList)
  PROVE  RxInv' /\ BufInv'
  BY DEF RxInv, RxAssertions, BufInv, BufferConservation, RxHeld, rxVars, bufVars

-----------------------------------------------------------------------------
(* The steps. *)

LEMMA InitContextInv == Init => ContextInv
<1> SUFFICES ASSUME Init PROVE ContextInv
  OBVIOUS
<1> USE DEF Init
<1>1. TxInv /\ TxShape
  BY FS_EmptySet DEF TxInv, TxShape, States, UniqueIds
<1>2. RxInv
  <2>1. ulRxMessageReceivedLength \in 0 .. FixedHeaderMaxSize
    BY DEF FixedHeaderMaxSize
  <2>2. RxAssertions
    BY DEF RxAssertions
  <2>3. QED
    BY <2>1, <2>2 DEF RxInv
<1>3. BufInv
  BY FS_EmptySet, ContextAssumption DEF BufInv, BufferConservation, RxHeld
<1>4. PingInv /\ EventInv
  <2>1. pingAge \in 0 .. PingTimeoutTicks + 1
    BY ContextAssumption
  <2>2. QED
    BY <2>1 DEF PingInv, EventInv, NoEvent
<1>5. SubInv
  <2>1. Used(xSubscriptions) = {}
    BY DEF Used
  <2>2. QED
    BY <2>1, FS_EmptySet DEF SubInv, SubscriptionManager, Used
<1>6. QED
  BY <1>1, <1>2, <1>3, <1>4, <1>5 DEF ContextInv

LEMMA CallKeepsInv ==
  ASSUME ContextInv, Call PROVE ContextInv'
<1> USE DEF ContextInv
<1>1. ASSUME NEW id \in Ids, MQTT_Connect(id) PROVE ContextInv'
  <2> DEFINE p == Packet("CONNECT", id, NoTopic)
  <2>1. p \in Packets /\ p.type = "CONNECT" /\ p.id = id
    BY ContextAssumption DEF Packet, Packets
  <2>2. xTxBufferList = {} /\ xTxBufferList' = xTxBufferList \cup {p}
    BY <1>1 DEF MQTT_Connect, TxShape
  <2> HIDE DEF p
  <2>3. TxInv' /\ Cardinality(xTxBufferList') = Cardinality(xTxBufferList) + 1
    BY <1>1, <2>1, <2>2, ListPacket DEF MQTT_Connect, States, TxIds, IdsOf
  <2>4. TxShape'
    BY <1>1, <2>1, <2>2 DEF MQTT_Connect, TxShape, TxConnect
  <2>5. RxInv' /\ RxHeld' = RxHeld
    BY <1>1 DEF MQTT_Connect, RxInv, RxAssertions, rxVars, RxHeld
  <2>6. BufInv'
    BY <1>1, <2>3, <2>5, TxCardinality, RxHeldType DEF MQTT_Connect, BufInv, BufferConservation
  <2>7. PingInv' /\ EventInv'
    BY <1>1, SendKeepsPingInv, NoEventInv DEF MQTT_Connect
  <2>8. SubInv'
    BY <1>1, SameSubscriptions DEF MQTT_Connect
  <2>9. QED
    BY <2>3, <2>4, <2>5, <2>6, <2>7, <2>8
<1>2. ASSUME NEW id \in Ids, MQTT_PublishQoS1(id) PROVE ContextInv'
  <2> DEFINE p == Packet("PUBLISH", id, NoTopic)
  <2>1. p \in Packets /\ p.type # "CONNECT" /\ p.id = id
    BY ContextAssumption DEF Packet, Packets
  <2> HIDE DEF p
  <2>2. xTxBufferList' = xTxBufferList \cup {p}
    BY <1>2 DEF MQTT_PublishQoS1, p
  <2>3. TxInv' /\ TxShape' /\ RxInv' /\ BufInv'
    BY <1>2, <2>1, <2>2, RequestKeepsInv DEF MQTT_PublishQoS1
  <2>4. PingInv' /\ EventInv'
    BY <1>2, SendKeepsPingInv, NoEventInv DEF MQTT_PublishQoS1
  <2>5. SubInv'
    BY <1>2, SameSubscriptions DEF MQTT_PublishQoS1
  <2>6. QED
    BY <2>3, <2>4, <2>5
<1>3. CASE MQTT_Disconnect
  BY <1>3, SendKeepsPingInv, EndSessionKeepsInv DEF MQTT_Disconnect
<1>4. ASSUME NEW id \in Ids, NEW topic \in Topics, MQTT_Subscribe(id, topic) PROVE ContextInv'
  <2> DEFINE p == Packet("SUBSCRIBE", id, topic)
  <2>1. p \in Packets /\ p.type # "CONNECT" /\ p.id = id
    BY ContextAssumption DEF Packet, Packets
  <2> HIDE DEF p
  <2>2. xTxBufferList' = xTxBufferList \cup {p}
    BY <1>4 DEF MQTT_Subscribe, p
  <2>3. TxInv' /\ TxShape' /\ RxInv' /\ BufInv'
    BY <1>4, <2>1, <2>2, RequestKeepsInv DEF MQTT_Subscribe
  <2>4. PingInv' /\ EventInv'
    BY <1>4, SendKeepsPingInv, NoEventInv DEF MQTT_Subscribe
  <2>5. SubInv'
    BY <1>4, StoreKeepsSubInv DEF MQTT_Subscribe
  <2>6. QED
    BY <2>3, <2>4, <2>5
<1>5. ASSUME NEW id \in Ids, NEW topic \in Topics, MQTT_Unsubscribe(id, topic) PROVE ContextInv'
  <2> DEFINE p == Packet("UNSUBSCRIBE", id, topic)
  <2>1. p \in Packets /\ p.type # "CONNECT" /\ p.id = id
    BY ContextAssumption DEF Packet, Packets
  <2> HIDE DEF p
  <2>2. xTxBufferList' = xTxBufferList \cup {p}
    BY <1>5 DEF MQTT_Unsubscribe, p
  <2>3. TxInv' /\ TxShape' /\ RxInv' /\ BufInv'
    BY <1>5, <2>1, <2>2, RequestKeepsInv DEF MQTT_Unsubscribe
  <2>4. PingInv' /\ EventInv'
    BY <1>5, SendKeepsPingInv, NoEventInv DEF MQTT_Unsubscribe
  <2>5. SubInv'
    BY <1>5, SameSubscriptions DEF MQTT_Unsubscribe
  <2>6. QED
    BY <2>3, <2>4, <2>5
<1>6. ASSUME NEW topic \in Topics, MQTT_SubscribeFails(topic) PROVE ContextInv'
  <2> USE <1>6 DEF MQTT_SubscribeFails
  <2>1. TxInv' /\ TxShape' /\ Cardinality(xTxBufferList') = Cardinality(xTxBufferList)
    BY SameTx
  <2>2. RxInv' /\ BufInv'
    BY <2>1, SameRxAndBuffers
  <2>3. PingInv' /\ EventInv'
    BY NoEventInv DEF PingInv, pingVars
  <2>4. SubInv'
    <3>1. {topic} \in SUBSET Topics
      OBVIOUS
    <3>2. QED
      BY <3>1, RemoveKeepsSubInv
  <2>5. QED
    BY <2>1, <2>2, <2>3, <2>4
<1>7. CASE MQTT_PublishQoS0
  <2> USE <1>7 DEF MQTT_PublishQoS0
  <2>1. TxInv' /\ TxShape' /\ Cardinality(xTxBufferList') = Cardinality(xTxBufferList)
    BY SameTx
  <2>2. RxInv' /\ BufInv'
    BY <2>1, SameRxAndBuffers
  <2>3. PingInv' /\ EventInv' /\ SubInv'
    BY SendKeepsPingInv, NoEventInv, SameSubscriptions
  <2>4. QED
    BY <2>1, <2>2, <2>3
<1>8. CASE MQTT_ReturnBuffer
  <2> USE <1>8 DEF MQTT_ReturnBuffer
  <2>1. TxInv' /\ TxShape' /\ Cardinality(xTxBufferList') = Cardinality(xTxBufferList)
    BY SameTx
  <2>2. RxInv' /\ RxHeld' = RxHeld
    BY DEF RxInv, RxAssertions, rxVars, RxHeld
  <2>3. BufInv'
    BY <2>1, <2>2, TxCardinality, RxHeldType DEF BufInv, BufferConservation
  <2>4. PingInv' /\ EventInv' /\ SubInv'
    BY NoEventInv, SameSubscriptions DEF PingInv, pingVars
  <2>5. QED
    BY <2>1, <2>2, <2>3, <2>4
<1>9. QED
  BY <1>1, <1>2, <1>3, <1>4, <1>5, <1>6, <1>7, <1>8 DEF Call

LEMMA ReceiveKeepsInv ==
  ASSUME ContextInv, MQTT_ParseReceivedData PROVE ContextInv'
<1> USE DEF ContextInv
<1>1. CASE ReceivePacketType
  <2> USE <1>1 DEF ReceivePacketType
  <2>1. TxInv' /\ TxShape' /\ Cardinality(xTxBufferList') = Cardinality(xTxBufferList)
    BY SameTx
  <2>2. RxInv'
    BY DEF Receiving, RxInv, RxAssertions, FixedHeaderMaxSize
  <2>3. BufInv' /\ PingInv' /\ EventInv' /\ SubInv'
    BY <2>1, NoEventInv, SameSubscriptions
       DEF BufInv, BufferConservation, RxHeld, bufVars, PingInv, pingVars
  <2>4. QED
    BY <2>1, <2>2, <2>3
<1>2. CASE ReceivePacketLengthContinued
  <2>1. CASE EndSession /\ UNCHANGED pingVars
    BY <2>1, EndSessionKeepsInv DEF PingInv, pingVars
  <2>2. CASE ~ (EndSession /\ UNCHANGED pingVars)
    <3> USE <1>2, <2>2 DEF ReceivePacketLengthContinued
    <3>1. TxInv' /\ TxShape' /\ Cardinality(xTxBufferList') = Cardinality(xTxBufferList)
      BY SameTx
    <3>2. RxInv'
      BY DEF Receiving, RxInv, RxAssertions, FixedHeaderMaxSize
    <3>3. BufInv' /\ PingInv' /\ EventInv' /\ SubInv'
      BY <3>1, NoEventInv, SameSubscriptions
         DEF BufInv, BufferConservation, RxHeld, bufVars, PingInv, pingVars
    <3>4. QED
      BY <3>1, <3>2, <3>3
  <2>3. QED
    BY <2>1, <2>2
<1>3. CASE ReceivePINGRESP
  <2> USE <1>3 DEF ReceivePINGRESP
  <2>1. TxInv' /\ TxShape' /\ Cardinality(xTxBufferList') = Cardinality(xTxBufferList)
    BY SameTx
  <2>2. RxInv' /\ RxHeld' = 0
    BY ResetRx
  <2>3. RxHeld = 0
    BY DEF Receiving, RxInv, RxAssertions, RxHeld
  <2>4. BufInv'
    BY <2>1, <2>2, <2>3 DEF BufInv, BufferConservation, bufVars
  <2>5. PingInv'
    <3>1. pingAge' \in 0 .. PingTimeoutTicks + 1
      BY ContextAssumption
    <3>2. QED
      BY <3>1, ContextAssumption DEF PingInv
  <2>6. EventInv' /\ SubInv'
    BY NoEventInv, SameSubscriptions
  <2>7. QED
    BY <2>1, <2>2, <2>4, <2>5, <2>6
<1>4. CASE ReceiveOtherFixedHeaderOnly
  BY <1>4, EndSessionKeepsInv DEF ReceiveOtherFixedHeaderOnly, PingInv, pingVars
<1>5. CASE ReceivePacketLength
  <2> USE <1>5 DEF ReceivePacketLength
  <2>1. TxInv' /\ TxShape' /\ Cardinality(xTxBufferList') = Cardinality(xTxBufferList)
    BY SameTx
  <2>2. ~ xRxBuffer
    BY DEF Receiving, RxInv, RxAssertions
  <2>3. RxInv'
    <3>1. ulRxMessageReceivedLength' \in 0 .. FixedHeaderMaxSize
      BY DEF Receiving, RxInv, RxAssertions, FixedHeaderMaxSize
    <3>2. RxAssertions'
      BY <2>2 DEF RxAssertions
    <3>3. QED
      BY <2>2, <3>1, <3>2 DEF RxInv, Receiving
  <2>4. BufInv'
    <3>1. CASE poolFree' = poolFree - 1 /\ poolFree > 0 /\ xRxBuffer'
      BY <2>1, <2>2, <3>1, TxCardinality DEF BufInv, BufferConservation, RxHeld
    <3>2. CASE UNCHANGED <<xRxBuffer, poolFree>>
      BY <2>1, <3>2 DEF BufInv, BufferConservation, RxHeld
    <3>3. QED
      BY <3>1, <3>2
  <2>5. PingInv' /\ EventInv' /\ SubInv'
    BY NoEventInv, SameSubscriptions DEF PingInv, pingVars
  <2>6. QED
    BY <2>1, <2>3, <2>4, <2>5
<1>6. CASE ReceiveDropped
  <2> USE <1>6 DEF ReceiveDropped
  <2>1. TxInv' /\ TxShape' /\ Cardinality(xTxBufferList') = Cardinality(xTxBufferList)
    BY SameTx
  <2>2. RxInv' /\ RxHeld' = 0
    BY ResetRx
  <2>3. RxHeld = 0
    BY DEF RxInv, RxAssertions, RxHeld
  <2>4. BufInv'
    BY <2>1, <2>2, <2>3 DEF BufInv, BufferConservation, bufVars
  <2>5. PingInv' /\ EventInv' /\ SubInv'
    BY NoEventInv, SameSubscriptions DEF PingInv, pingVars
  <2>6. QED
    BY <2>1, <2>2, <2>4, <2>5
<1>7. CASE ReceiveUnexpectedAck
  <2> USE <1>7 DEF ReceiveUnexpectedAck, ReleaseRx
  <2>1. TxInv' /\ TxShape' /\ Cardinality(xTxBufferList') = Cardinality(xTxBufferList)
    BY SameTx
  <2>2. RxInv' /\ RxHeld' = 0
    BY ResetRx
  <2>3. BufInv'
    BY <2>1, <2>2, TxCardinality, RxHeldType DEF BufInv, BufferConservation
  <2>4. PingInv' /\ EventInv' /\ SubInv'
    BY NoEventInv, SameSubscriptions DEF PingInv, pingVars
  <2>5. QED
    BY <2>1, <2>2, <2>3, <2>4
<1>8. CASE ReceiveCONNACKAccepted
  <2> USE <1>8 DEF ReceiveCONNACKAccepted
  <2>1. PICK p \in TxConnect : xTxBufferList' = xTxBufferList \ {p} /\ event' = Reply({p.id})
    OBVIOUS
  <2>2. p \in xTxBufferList /\ p.type = "CONNECT"
    BY <2>1 DEF TxConnect
  <2>3. xTxBufferList = {p}
    BY <2>2 DEF TxInv, TxShape, TxConnect, States
  <2>4. /\ TxInv'
        /\ Cardinality(xTxBufferList') = Cardinality(xTxBufferList) - Cardinality({p})
    BY <2>1, <2>2, UnlistPackets DEF States
  <2>5. TxShape'
    BY <2>1, <2>3 DEF TxShape, TxConnect
  <2>6. RxInv' /\ RxHeld' = 0
    BY ResetRx DEF ReleaseRx
  <2>7. BufInv'
    <3>1. Cardinality({p}) = 1
      BY FS_Singleton
    <3>2. QED
      BY <2>4, <2>6, <3>1, TxCardinality, RxHeldType DEF BufInv, BufferConservation, ReleaseRx
  <2>8. PingInv'
    <3>1. pingAge' \in 0 .. PingTimeoutTicks + 1
      BY ContextAssumption
    <3>2. QED
      BY <3>1, ContextAssumption DEF PingInv
  <2>9. EventInv'
    BY <2>1, <2>2 DEF EventInv, Reply, TxInv, Packets
  <2>10. SubInv'
    BY SameSubscriptions
  <2>11. QED
    BY <2>4, <2>5, <2>6, <2>7, <2>8, <2>9, <2>10
<1>9. CASE ReceiveMalformed
  BY <1>9, EndSessionKeepsInv DEF ReceiveMalformed, PingInv, pingVars
<1>10. ASSUME NEW id \in Ids, NEW granted \in BOOLEAN, ReceiveSUBACK(id, granted)
       PROVE  ContextInv'
  <2> USE <1>10 DEF ReceiveSUBACK
  <2>1. PICK p \in Tx("SUBSCRIBE", id) :
          /\ xTxBufferList' = xTxBufferList \ {p}
          /\ prvRemoveSubscription(IF granted THEN {} ELSE {p.topic})
    OBVIOUS
  <2>2. p \in xTxBufferList /\ p.type = "SUBSCRIBE" /\ p.id = id
    BY <2>1 DEF Tx
  <2>3. TxInv' /\ TxShape' /\ RxInv' /\ BufInv' /\ EventInv'
    BY <2>1, <2>2, AckKeepsInv
  <2>4. p.topic \in Topics
    BY <2>2 DEF TxInv, Packets
  <2>5. SubInv'
    <3>1. (IF granted THEN {} ELSE {p.topic}) \in SUBSET Topics
      BY <2>4
    <3>2. QED
      BY <2>1, <3>1, RemoveKeepsSubInv
  <2>6. QED
    BY <2>3, <2>5 DEF PingInv, pingVars
<1>11. ASSUME NEW id \in Ids, ReceiveUNSUBACK(id) PROVE ContextInv'
  <2> USE <1>11 DEF ReceiveUNSUBACK
  <2>1. PICK p \in Tx("UNSUBSCRIBE", id) :
          xTxBufferList' = xTxBufferList \ {p} /\ prvRemoveSubscription({p.topic})
    OBVIOUS
  <2>2. p \in xTxBufferList /\ p.type = "UNSUBSCRIBE" /\ p.id = id
    BY <2>1 DEF Tx
  <2>3. TxInv' /\ TxShape' /\ RxInv' /\ BufInv' /\ EventInv'
    BY <2>1, <2>2, AckKeepsInv
  <2>4. {p.topic} \in SUBSET Topics
    BY <2>2 DEF TxInv, Packets
  <2>5. SubInv'
    BY <2>1, <2>4, RemoveKeepsSubInv
  <2>6. QED
    BY <2>3, <2>5 DEF PingInv, pingVars
<1>12. ASSUME NEW id \in Ids, ReceivePUBACK(id) PROVE ContextInv'
  <2> USE <1>12 DEF ReceivePUBACK
  <2>1. PICK p \in Tx("PUBLISH", id) : xTxBufferList' = xTxBufferList \ {p}
    OBVIOUS
  <2>2. p \in xTxBufferList /\ p.type = "PUBLISH" /\ p.id = id
    BY <2>1 DEF Tx
  <2>3. TxInv' /\ TxShape' /\ RxInv' /\ BufInv' /\ EventInv'
    BY <2>1, <2>2, AckKeepsInv
  <2>4. QED
    BY <2>3, SameSubscriptions DEF PingInv, pingVars
<1>13. ASSUME NEW qos1 \in BOOLEAN, NEW taken \in BOOLEAN, ReceivePUBLISH(qos1, taken)
       PROVE  ContextInv'
  <2> USE <1>13 DEF ReceivePUBLISH
  <2>1. TxInv' /\ TxShape' /\ Cardinality(xTxBufferList') = Cardinality(xTxBufferList)
    BY SameTx
  <2>2. RxInv' /\ RxHeld' = 0
    BY ResetRx
  <2>3. BufInv'
    BY <2>1, <2>2, TxCardinality, RxHeldType DEF BufInv, BufferConservation
  <2>4. PICK sent \in BOOLEAN : prvSendData(qos1 /\ sent)
    OBVIOUS
  <2>5. (qos1 /\ sent) \in BOOLEAN
    OBVIOUS
  <2>6. PingInv'
    BY <2>4, <2>5, SendKeepsPingInv
  <2>7. EventInv' /\ SubInv'
    BY NoEventInv, SameSubscriptions
  <2>8. QED
    BY <2>1, <2>2, <2>3, <2>6, <2>7
<1>14. CASE ReceiveCONNACKRefused
  <2>1. PICK p \in TxConnect : event' = Refused({p.id})
    BY <1>14 DEF ReceiveCONNACKRefused
  <2>2. EventInv'
    BY <2>1 DEF EventInv, Refused, TxInv, TxConnect, Packets
  <2>3. QED
    BY <1>14, <2>2, ResetKeepsInv DEF ReceiveCONNACKRefused, PingInv, pingVars
<1>15. QED
  BY <1>1, <1>2, <1>3, <1>4, <1>5, <1>6, <1>7, <1>8, <1>9, <1>10, <1>11, <1>12, <1>13, <1>14
     DEF MQTT_ParseReceivedData

LEMMA PeriodicKeepsInv ==
  ASSUME ContextInv, MQTT_Periodic PROVE ContextInv'
<1> USE DEF ContextInv
<1>1. CASE EndSession /\ UNCHANGED pingVars
  BY <1>1, EndSessionKeepsInv DEF PingInv, pingVars
<1>2. CASE /\ Expired \cap TxConnect = {}
           /\ xTxBufferList' = xTxBufferList \ Expired
           /\ poolFree' = poolFree + Cardinality(Expired)
           /\ prvRemoveSubscription({p.topic : p \in {q \in Expired : q.type = "SUBSCRIBE"}})
           /\ event' = IF Expired = {} THEN NoEvent ELSE Reply(IdsOf(Expired))
           /\ KeepAlive
           /\ UNCHANGED <<xConnectionState, rxVars, userBuffers>>
  <2> USE <1>2
  <2>1. Expired \in SUBSET xTxBufferList
    BY DEF Expired
  <2>2. /\ TxInv'
        /\ Cardinality(Expired) \in Nat
        /\ Cardinality(xTxBufferList') = Cardinality(xTxBufferList) - Cardinality(Expired)
    BY <2>1, UnlistPackets DEF TxInv
  <2>3. TxShape'
    <3>1. CASE xConnectionState = "Connected"
      BY <3>1 DEF TxShape, TxConnect
    <3>2. CASE xConnectionState = "NotConnected"
      BY <3>2 DEF TxShape, TxConnect
    <3>3. CASE xConnectionState = "InProgress"
      <4>1. Expired = {}
        BY <2>1, <3>3 DEF TxShape
      <4>2. xTxBufferList' = xTxBufferList
        BY <4>1
      <4>3. QED
        BY <4>2 DEF TxShape, TxConnect
    <3>4. QED
      BY <3>1, <3>2, <3>3 DEF TxInv, States
  <2>4. RxInv' /\ RxHeld' = RxHeld
    BY DEF RxInv, RxAssertions, rxVars, RxHeld
  <2>5. BufInv'
    BY <2>2, <2>4, TxCardinality, RxHeldType DEF BufInv, BufferConservation
  <2>6. PingInv'
    <3>1. 0 \in 0 .. PingTimeoutTicks + 1
      BY ContextAssumption
    <3>2. CASE UNCHANGED pingVars
      BY <3>2 DEF PingInv, pingVars
    <3>3. CASE ~ UNCHANGED pingVars
      BY <3>1, <3>3, ContextAssumption DEF KeepAlive, PingInv
    <3>4. QED
      BY <3>2, <3>3
  <2>7. EventInv'
    <3>1. IdsOf(Expired) \subseteq Ids
      BY <2>1 DEF IdsOf, TxInv, Packets
    <3>2. QED
      BY <3>1 DEF EventInv, NoEvent, Reply
  <2>8. SubInv'
    <3>1. {p.topic : p \in {q \in Expired : q.type = "SUBSCRIBE"}} \in SUBSET Topics
      BY <2>1 DEF TxInv, Packets
    <3>2. QED
      BY <3>1, RemoveKeepsSubInv
  <2>9. QED
    BY <2>2, <2>3, <2>4, <2>5, <2>6, <2>7, <2>8
<1>3. QED
  BY <1>1, <1>2 DEF MQTT_Periodic

LEMMA TickKeepsInv ==
  ASSUME ContextInv, Tick PROVE ContextInv'
<1> USE DEF ContextInv, Tick
<1>1. TxInv' /\ Cardinality(xTxBufferList') = Cardinality(xTxBufferList)
  BY TickPackets DEF TxInv
<1>2. \A p \in xTxBufferList : [p EXCEPT !.left = Less(@)].type = p.type
  BY DEF TxInv, Packets
<1>3. TxShape'
  <2> DEFINE Aged(p) == [p EXCEPT !.left = Less(@)]
  <2>1. xTxBufferList' = {Aged(p) : p \in xTxBufferList}
    OBVIOUS
  <2>2. \A p \in xTxBufferList : Aged(p).type = p.type
    BY <1>2
  <2> HIDE DEF Aged
  <2>3. CASE xConnectionState = "InProgress"
    <3>1. PICK p \in xTxBufferList : xTxBufferList = {p} /\ p.type = "CONNECT"
      BY <2>3 DEF TxShape, TxConnect
    <3>2. xTxBufferList' = {Aged(p)} /\ Aged(p).type = "CONNECT"
      BY <2>1, <2>2, <3>1
    <3>3. QED
      BY <2>3, <3>2 DEF TxShape, TxConnect
  <2>4. CASE xConnectionState # "InProgress"
    BY <2>1, <2>2, <2>4 DEF TxShape, TxConnect
  <2>5. QED
    BY <2>3, <2>4
<1>4. RxInv' /\ BufInv'
  BY <1>1, SameRxAndBuffers
<1>5. PingInv'
  <2>1. ulNextPeriodicInvokeTicks' \in Nat
    BY DEF PingInv, Less
  <2>2. pingAge' \in 0 .. PingTimeoutTicks + 1
    BY ContextAssumption DEF PingInv
  <2>3. QED
    BY <2>1, <2>2 DEF PingInv
<1>6. EventInv' /\ SubInv'
  BY NoEventInv, SameSubscriptions
<1>7. QED
  BY <1>1, <1>3, <1>4, <1>5, <1>6

LEMMA NextContextInv == ContextInv /\ [Next]_vars => ContextInv'
<1> SUFFICES ASSUME ContextInv, [Next]_vars PROVE ContextInv'
  OBVIOUS
<1>1. CASE UNCHANGED vars
  <2> USE <1>1 DEF ContextInv, vars
  <2>1. TxInv' /\ TxShape' /\ Cardinality(xTxBufferList') = Cardinality(xTxBufferList)
    BY SameTx
  <2>2. RxInv' /\ BufInv'
    BY <2>1, SameRxAndBuffers
  <2>3. PingInv' /\ EventInv' /\ SubInv'
    BY SameSubscriptions DEF PingInv, pingVars, EventInv
  <2>4. QED
    BY <2>1, <2>2, <2>3
<1>2. CASE Next
  BY <1>2, CallKeepsInv, ReceiveKeepsInv, PeriodicKeepsInv, TickKeepsInv DEF Next
<1>3. QED
  BY <1>1, <1>2

LEMMA ContextInvAlways == Spec => []ContextInv
  BY InitContextInv, NextContextInv, PTL DEF Spec

-----------------------------------------------------------------------------
(* The theorems. *)

(* The state of an MQTT context is always of its type, for any sizes. *)
THEOREM ContextTypeOK == Spec => []TypeOK
<1>1. ContextInv => TypeOK
  BY DEF ContextInv, TxInv, States, RxInv, BufInv, PingInv, EventInv, SubInv, TypeOK
<1>2. QED
  BY <1>1, ContextInvAlways, PTL

(* For any number of buffers and whatever the broker sends, the library    *)
(* neither loses a buffer nor returns one twice: prvResetMQTTContext,      *)
(* every acknowledgement and every timeout give back what was taken.       *)
THEOREM ContextBufferConservation == Spec => []BufferConservation
<1>1. ContextInv => BufferConservation
  BY DEF ContextInv, BufInv
<1>2. QED
  BY <1>1, ContextInvAlways, PTL

(* A context that is not connected holds no packet, no buffer and no       *)
(* subscription, and one that is connecting holds its CONNECT only.        *)
THEOREM ContextSessionShape == Spec => []SessionShape
<1>1. ContextInv => SessionShape
  BY DEF ContextInv, TxShape, RxInv, SubInv, SessionShape
<1>2. QED
  BY <1>1, ContextInvAlways, PTL

(* The assertions of MQTT_ParseReceivedData never fail, whatever bytes the *)
(* broker sends and whatever is called between two of them.                *)
THEOREM ContextRxAssertions == Spec => []RxAssertions
<1>1. ContextInv => RxAssertions
  BY DEF ContextInv, RxInv
<1>2. QED
  BY <1>1, ContextInvAlways, PTL

(* For a subscription manager of any size, the count of entries is right   *)
(* and no filter has two entries, however stores, refusals, timeouts and   *)
(* acknowledged unsubscribes interleave.                                   *)
THEOREM ContextSubscriptionManager == Spec => []SubscriptionManager
<1>1. ContextInv => SubscriptionManager
  BY DEF ContextInv, SubInv
<1>2. QED
  BY <1>1, ContextInvAlways, PTL

-----------------------------------------------------------------------------
(* The library implements MqttSession. *)

LEMMA QuietStep ==
  ASSUME event' = NoEvent, xConnectionState' = xConnectionState, TxIds' = TxIds
  PROVE  Session!Next
  BY DEF NoEvent, Session!Next, Session!Quiet, Session!NoEvent

LEMMA LostStep ==
  ASSUME xConnectionState # "NotConnected", EndSession
  PROVE  Session!Next
<1>1. TxIds' = {}
  BY DEF EndSession, prvResetMQTTContext, TxIds, IdsOf
<1>2. QED
  BY <1>1 DEF EndSession, prvResetMQTTContext, Disconnected, Session!Next, Session!Lost, Session!Disconnected

LEMMA RequestStep ==
  ASSUME xConnectionState = "Connected", NEW p, p.id \in Ids, p.id \notin TxIds,
         xTxBufferList' = xTxBufferList \cup {p}, event' = NoEvent,
         UNCHANGED xConnectionState
  PROVE  Session!Next
<1>1. TxIds' = TxIds \cup {p.id}
  BY DEF TxIds, IdsOf
<1>2. Session!Request(p.id)
  BY <1>1 DEF Session!Request, NoEvent, Session!NoEvent
<1>3. QED
  BY <1>2 DEF Session!Next

(* The identifiers of the packets that are unlisted are no longer waited   *)
(* for, because no other packet has them.                                  *)
LEMMA FinishStep ==
  ASSUME TxInv, xConnectionState = "Connected", NEW S \in SUBSET xTxBufferList, S # {},
         xTxBufferList' = xTxBufferList \ S, event' = Reply(IdsOf(S)),
         UNCHANGED xConnectionState
  PROVE  Session!Next
<1>1. TxIds' = TxIds \ IdsOf(S)
  BY DEF TxIds, IdsOf, TxInv, UniqueIds
<1>2. IdsOf(S) # {} /\ IdsOf(S) \in SUBSET TxIds
  BY DEF TxIds, IdsOf
<1>3. Session!Finish(IdsOf(S))
  BY <1>1, <1>2 DEF Session!Finish, Reply, Session!Reply
<1>4. QED
  BY <1>2, <1>3 DEF Session!Next

LEMMA AckStep ==
  ASSUME TxInv, TxShape, NEW p \in xTxBufferList, p.type # "CONNECT",
         xTxBufferList' = xTxBufferList \ {p}, event' = Reply({p.id}),
         UNCHANGED xConnectionState
  PROVE  Session!Next
<1>1. IdsOf({p}) = {p.id}
  BY DEF IdsOf
<1>2. {p} \in SUBSET xTxBufferList /\ {p} # {}
  OBVIOUS
<1>3. xConnectionState = "Connected"
  BY RequestImpliesConnected
<1>4. QED
  BY <1>1, <1>2, <1>3, FinishStep

LEMMA PacketId ==
  ASSUME NEW type, NEW id, NEW topic PROVE Packet(type, id, topic).id = id
  BY DEF Packet

LEMMA CallRefines ==
  ASSUME ContextInv, Call PROVE Session!Next
<1> USE DEF ContextInv
<1>1. ASSUME NEW id \in Ids, MQTT_Connect(id) PROVE Session!Next
  <2>1. TxIds' = {id}
    <3>1. xTxBufferList' = {Packet("CONNECT", id, NoTopic)}
      BY <1>1 DEF MQTT_Connect, TxShape
    <3>2. QED
      BY <3>1, PacketId DEF TxIds, IdsOf
  <2>2. Session!Open(id)
    BY <1>1, <2>1 DEF MQTT_Connect, Session!Open, NoEvent, Session!NoEvent
  <2>3. QED
    BY <2>2 DEF Session!Next
<1>2. ASSUME NEW id \in Ids, MQTT_PublishQoS1(id) PROVE Session!Next
  BY <1>2, PacketId, RequestStep DEF MQTT_PublishQoS1
<1>3. CASE MQTT_Disconnect
  BY <1>3, LostStep DEF MQTT_Disconnect
<1>4. ASSUME NEW id \in Ids, NEW topic \in Topics, MQTT_Subscribe(id, topic) PROVE Session!Next
  BY <1>4, PacketId, RequestStep DEF MQTT_Subscribe
<1>5. ASSUME NEW id \in Ids, NEW topic \in Topics, MQTT_Unsubscribe(id, topic) PROVE Session!Next
  BY <1>5, PacketId, RequestStep DEF MQTT_Unsubscribe
<1>6. ASSUME NEW topic \in Topics, MQTT_SubscribeFails(topic) PROVE Session!Next
  BY <1>6, QuietStep DEF MQTT_SubscribeFails, TxIds, IdsOf
<1>7. CASE MQTT_PublishQoS0 \/ MQTT_ReturnBuffer
  BY <1>7, QuietStep DEF MQTT_PublishQoS0, MQTT_ReturnBuffer, TxIds, IdsOf
<1>8. QED
  BY <1>1, <1>2, <1>3, <1>4, <1>5, <1>6, <1>7 DEF Call

LEMMA ReceiveRefines ==
  ASSUME ContextInv, MQTT_ParseReceivedData PROVE Session!Next
<1> USE DEF ContextInv
<1>1. CASE ReceivePacketType \/ ReceivePINGRESP \/ ReceivePacketLength \/ ReceiveDropped
           \/ ReceiveUnexpectedAck
  BY <1>1, QuietStep DEF ReceivePacketType, ReceivePINGRESP, ReceivePacketLength,
     ReceiveDropped, ReceiveUnexpectedAck, TxIds, IdsOf
<1>2. CASE ReceivePacketLengthContinued
  BY <1>2, QuietStep, LostStep DEF ReceivePacketLengthContinued, Receiving, TxIds, IdsOf
<1>3. CASE ReceiveOtherFixedHeaderOnly \/ ReceiveMalformed
  BY <1>3, LostStep DEF ReceiveOtherFixedHeaderOnly, ReceiveMalformed, Stored, Receiving
<1>4. CASE ReceiveCONNACKAccepted
  <2>1. PICK p \in TxConnect : xTxBufferList' = xTxBufferList \ {p} /\ event' = Reply({p.id})
    BY <1>4 DEF ReceiveCONNACKAccepted
  <2>2. xConnectionState = "InProgress" /\ xTxBufferList = {p}
    BY <2>1 DEF TxInv, TxShape, TxConnect, States
  <2>3. TxIds = {p.id} /\ TxIds' = {}
    BY <2>1, <2>2 DEF TxIds, IdsOf
  <2>4. Session!Established
    BY <1>4, <2>1, <2>2, <2>3 DEF ReceiveCONNACKAccepted, Session!Established, Reply, Session!Reply
  <2>5. QED
    BY <2>4 DEF Session!Next
<1>5. ASSUME NEW id \in Ids, NEW granted \in BOOLEAN, ReceiveSUBACK(id, granted)
      PROVE  Session!Next
  BY <1>5, AckStep DEF ReceiveSUBACK, Tx
<1>6. ASSUME NEW id \in Ids, ReceiveUNSUBACK(id) PROVE Session!Next
  BY <1>6, AckStep DEF ReceiveUNSUBACK, Tx
<1>7. ASSUME NEW id \in Ids, ReceivePUBACK(id) PROVE Session!Next
  BY <1>7, AckStep DEF ReceivePUBACK, Tx
<1>8. ASSUME NEW qos1 \in BOOLEAN, NEW taken \in BOOLEAN, ReceivePUBLISH(qos1, taken)
      PROVE  Session!Next
  BY <1>8, QuietStep DEF ReceivePUBLISH, TxIds, IdsOf
<1>9. CASE ReceiveCONNACKRefused
  <2>1. PICK p \in TxConnect : event' = Refused({p.id})
    BY <1>9 DEF ReceiveCONNACKRefused
  <2>2. xConnectionState = "InProgress" /\ xTxBufferList = {p}
    BY <2>1 DEF TxInv, TxShape, TxConnect, States
  <2>3. TxIds = {p.id}
    BY <2>2 DEF TxIds, IdsOf
  <2>4. TxIds' = {} /\ xConnectionState' = "NotConnected"
    BY <1>9 DEF ReceiveCONNACKRefused, prvResetMQTTContext, TxIds, IdsOf
  <2>5. Session!Rejected
    BY <2>1, <2>2, <2>3, <2>4 DEF Session!Rejected, Refused, Session!Refused
  <2>6. QED
    BY <2>5 DEF Session!Next
<1>10. QED
  BY <1>1, <1>2, <1>3, <1>4, <1>5, <1>6, <1>7, <1>8, <1>9 DEF MQTT_ParseReceivedData

LEMMA PeriodicRefines ==
  ASSUME ContextInv, MQTT_Periodic PROVE Session!Next
<1> USE DEF ContextInv
<1>1. CASE Expired \cap TxConnect # {}
  <2>1. xConnectionState # "NotConnected"
    BY <1>1 DEF Expired, TxShape
  <2>2. QED
    BY <1>1, <2>1, LostStep DEF MQTT_Periodic
<1>2. CASE Expired \cap TxConnect = {} /\ Expired = {}
  BY <1>2, QuietStep DEF MQTT_Periodic, TxIds, IdsOf
<1>3. CASE Expired \cap TxConnect = {} /\ Expired # {}
  <2>1. Expired \in SUBSET xTxBufferList
    BY DEF Expired
  <2>2. PICK p \in Expired : p.type # "CONNECT"
    BY <1>3, <2>1 DEF TxConnect
  <2>3. xConnectionState = "Connected"
    BY <2>1, <2>2, RequestImpliesConnected
  <2>4. QED
    BY <1>3, <2>1, <2>3, FinishStep DEF MQTT_Periodic
<1>4. QED
  BY <1>1, <1>2, <1>3

LEMMA TickRefines ==
  ASSUME ContextInv, Tick PROVE Session!Next
<1> DEFINE Aged(p) == [p EXCEPT !.left = Less(@)]
<1>1. \A p \in xTxBufferList : Aged(p).id = p.id
  BY DEF ContextInv, TxInv, Packets
<1>2. xTxBufferList' = {Aged(p) : p \in xTxBufferList}
  BY DEF Tick
<1> HIDE DEF Aged
<1>3. TxIds' = TxIds
  BY <1>1, <1>2 DEF TxIds, IdsOf
<1>4. QED
  BY <1>3, QuietStep DEF Tick

(* aws_mqtt_lib.c implements MqttSession: for any number of buffers,       *)
(* subscriptions, identifiers and ticks, every operation the library       *)
(* accepted is reported by a reply that carries its identifier or by the   *)
(* disconnect that ends its session, and not by both, unless the broker    *)
(* refused a CONNECT: prvProcessReceivedCONNACK then reports it by a reply *)
(* and the disconnect that follows within the same call.                   *)
THEOREM ContextImplementsSession == Spec => SessionSpec
<1>1. Init => Session!Init
  BY DEF Init, Session!Init, TxIds, IdsOf, NoEvent, Session!NoEvent
<1>2. ContextInv /\ [Next]_vars => [Session!Next]_(Session!vars)
  <2> SUFFICES ASSUME ContextInv, [Next]_vars PROVE [Session!Next]_(Session!vars)
    OBVIOUS
  <2>1. CASE UNCHANGED vars
    BY <2>1 DEF vars, Session!vars, TxIds, IdsOf
  <2>2. CASE Next
    BY <2>2, CallRefines, ReceiveRefines, PeriodicRefines, TickRefines DEF Next
  <2>3. QED
    BY <2>1, <2>2
<1>3. QED
  BY <1>1, <1>2, ContextInvAlways, PTL DEF Spec, SessionSpec, Session!Spec

-----------------------------------------------------------------------------
(* The keep alive.                                                          *)

(* What is left of the interval reaches beyond the time the PINGRESP has.   *)
PingTimed == xWaitingForPingResp => pingAge + ulNextPeriodicInvokeTicks >= PingTimeoutTicks

(* What a step does to the keep alive. *)
LEMMA PingSteps ==
  ASSUME [Next]_vars
  PROVE  \/ UNCHANGED pingVars
         \/ \E sent \in BOOLEAN : prvSendData(sent)
         \/ xWaitingForPingResp' = FALSE
         \/ KeepAlive
         \/ Tick
<1>1. CASE UNCHANGED vars
  BY <1>1 DEF vars
<1>2. CASE Call
  BY <1>2 DEF Call, MQTT_Connect, MQTT_Disconnect, MQTT_PublishQoS1, MQTT_PublishQoS0,
              MQTT_Subscribe, MQTT_SubscribeFails, MQTT_Unsubscribe, MQTT_ReturnBuffer
<1>3. CASE MQTT_ParseReceivedData
  <2>1. ASSUME NEW qos1 \in BOOLEAN, NEW taken \in BOOLEAN, ReceivePUBLISH(qos1, taken)
        PROVE  \E sent \in BOOLEAN : prvSendData(sent)
    <3>1. PICK sent \in BOOLEAN : prvSendData(qos1 /\ sent)
      BY <2>1 DEF ReceivePUBLISH
    <3>2. QED
      BY <3>1
  <2>2. QED
    BY <1>3, <2>1 DEF MQTT_ParseReceivedData, ReceivePacketType, ReceivePacketLengthContinued,
              ReceivePINGRESP, ReceiveOtherFixedHeaderOnly, ReceivePacketLength, ReceiveDropped,
              ReceiveUnexpectedAck, ReceiveCONNACKAccepted, ReceiveCONNACKRefused,
              ReceiveMalformed, ReceiveSUBACK,
              ReceiveUNSUBACK, ReceivePUBACK
<1>4. CASE MQTT_Periodic
  BY <1>4 DEF MQTT_Periodic
<1>5. QED
  BY <1>1, <1>2, <1>3, <1>4 DEF Next

LEMMA PingTimedKept ==
  ASSUME PingTimeoutTicks <= KeepAliveTicks, PingInv, PingTimed, [Next]_vars
  PROVE  PingTimed'
<1>1. PICK age, left \in Nat : age = pingAge /\ left = ulNextPeriodicInvokeTicks
  BY ContextAssumption DEF PingInv
<1>2. CASE UNCHANGED pingVars
  BY <1>2 DEF pingVars, PingTimed
<1>3. ASSUME NEW sent \in BOOLEAN, prvSendData(sent) PROVE PingTimed'
  <2>1. xWaitingForPingResp' = xWaitingForPingResp /\ pingAge' = age
        /\ ulNextPeriodicInvokeTicks' \in {left, KeepAliveTicks}
    BY <1>1, <1>3 DEF prvSendData
  <2>2. age + KeepAliveTicks >= PingTimeoutTicks
    BY ContextAssumption
  <2>3. QED
    BY <1>1, <2>1, <2>2 DEF PingTimed
<1>4. CASE xWaitingForPingResp' = FALSE
  BY <1>4 DEF PingTimed
<1>5. CASE KeepAlive
  <2>1. 0 + PingTimeoutTicks >= PingTimeoutTicks
    BY ContextAssumption
  <2>2. QED
    BY <1>5, <2>1 DEF KeepAlive, PingTimed, pingVars
<1>6. CASE Tick
  <2>1. /\ xWaitingForPingResp' = xWaitingForPingResp
        /\ ulNextPeriodicInvokeTicks' = Less(left)
        /\ xWaitingForPingResp => pingAge' = IF age <= PingTimeoutTicks THEN age + 1 ELSE age
    BY <1>1, <1>6 DEF Tick
  <2>2. ASSUME xWaitingForPingResp
        PROVE  pingAge' + ulNextPeriodicInvokeTicks' >= PingTimeoutTicks
    <3>1. age + left >= PingTimeoutTicks
      BY <1>1, <2>2 DEF PingTimed
    <3>2. (IF age <= PingTimeoutTicks THEN age + 1 ELSE age) + Less(left) >= PingTimeoutTicks
      BY <3>1, ContextAssumption DEF Less
    <3>3. QED
      BY <2>1, <2>2, <3>2
  <2>3. QED
    BY <2>1, <2>2 DEF PingTimed
<1>7. QED
  BY <1>2, <1>3, <1>4, <1>5, <1>6, PingSteps

(* MQTT_Periodic does not give up a PINGRESP before                         *)
(* ulPingRequestTimeoutTicks have passed since the PINGREQ, if the keep     *)
(* alive interval, which every packet that is sent sets, is not the shorter *)
(* of the two.                                                              *)
THEOREM ContextPingNotGivenUpEarly ==
  ASSUME PingTimeoutTicks <= KeepAliveTicks
  PROVE  Spec => PingNotGivenUpEarly
<1>1. Init => PingTimed
  BY DEF Init, PingTimed
<1>2. PingInv /\ PingTimed /\ [Next]_vars => PingTimed'
  BY PingTimedKept
<1>3. PingInv /\ PingTimed =>
         (xConnectionState = "Connected" /\ xWaitingForPingResp /\ MQTT_Periodic
             /\ ~ xWaitingForPingResp' => pingAge >= PingTimeoutTicks)
  <2> SUFFICES ASSUME PingInv, PingTimed, xWaitingForPingResp, MQTT_Periodic, ~ xWaitingForPingResp'
               PROVE  pingAge >= PingTimeoutTicks
    OBVIOUS
  <2>1. ulNextPeriodicInvokeTicks = 0
    BY DEF MQTT_Periodic, KeepAlive, pingVars
  <2>2. PICK age \in Nat : age = pingAge
    BY ContextAssumption DEF PingInv
  <2>3. age + 0 >= PingTimeoutTicks
    BY <2>1, <2>2 DEF PingTimed
  <2>4. QED
    BY <2>2, <2>3, ContextAssumption
<1>4. Spec => []PingTimed
  BY <1>1, <1>2, ContextInvAlways, PTL DEF Spec, ContextInv
<1>5. QED
  BY <1>3, <1>4, ContextInvAlways, PTL DEF Spec, ContextInv, PingNotGivenUpEarly
=============================================================================

------------------------------ MODULE MqttAgent ------------------------------
(***************************************************************************)
(* The MQTT agent (AWS/mqtt/aws_mqtt_agent.c): application tasks put        *)
(* commands on a queue and wait for a task notification; one MQTT task      *)
(* takes the commands, drives the MQTT library and notifies the callers.    *)
(*                                                                          *)
(* The connections are touched by the MQTT task only, so one of its         *)
(* handlers is one step here; the steps of the application tasks, which do  *)
(* share the queue, the identifier counter and the notifications with it,   *)
(* interleave freely.  The library is seen through what MqttSession says of *)
(* it: state[c] and outstanding[c] are the variables of that specification  *)
(* for connection c, and each event reaches prvMQTTEventCallback within the *)
(* step that causes it.                                                     *)
(***************************************************************************)
EXTENDS Integers, Sequences

CONSTANTS Tasks,          \* application tasks
          NoTask,         \* NULL as a task handle
          Brokers,        \* 0 .. mqttconfigMAX_BROKERS - 1
          MaxParallelOps, \* mqttconfigMAX_PARALLEL_OPS
          QueueLength,    \* mqttCOMMAND_QUEUE_LENGTH
          MaxIdentifier,  \* message identifiers are 1 .. MaxIdentifier
          Strangers       \* do other parts of the program notify these tasks?

ASSUME AgentAssumption ==
    /\ NoTask \notin Tasks
    /\ Brokers \subseteq Nat
    /\ MaxParallelOps \in Nat
    /\ QueueLength \in Nat \ {0}
    /\ MaxIdentifier \in Nat \ {0}
    /\ Strangers \in BOOLEAN

Identifiers == 1 .. MaxIdentifier
Slots       == 1 .. MaxParallelOps
Requests    == {"Subscribe", "Unsubscribe", "PublishQoS1"}
Operations  == Requests \cup {"Connect", "Disconnect", "PublishQoS0"}

Commands == [op : Operations, broker : Brokers, task : Tasks, id : Identifiers]
NoCommand == [op |-> "None", broker |-> 0, task |-> NoTask, id |-> 0]
Free     == [task |-> NoTask, id |-> 0]
Waiting  == [task : Tasks, id : Identifiers]
Nothing  == [id |-> 0, status |-> "none"]
Foreign  == [id |-> 0, status |-> "foreign"]
Replies  == [id : Identifiers, status : {"pass", "fail", "timeout"}]

VARIABLES
    xConnectionInUse,          \* per connection: the task that created it
    xSocket,                   \* per connection: is there a socket
    state,                     \* per connection: xConnectionState of its context
    outstanding,               \* per connection: packets the library waits for
    xWaitingTasks,             \* per connection: the notification slots
    xCommandQueue,
    ulQueueMessageIdentifier,
    pc,                        \* where each task is in prvSendCommandToMQTTTask
    xEventData,                \* its command
    notification,              \* its pending task notification
    mayConnect                 \* ghost: the owner knows that it is disconnected

connVars == <<xSocket, state, outstanding, xWaitingTasks>>
vars == <<xConnectionInUse, connVars, xCommandQueue, ulQueueMessageIdentifier,
          pc, xEventData, notification, mayConnect>>

(* MQTT_AGENT_Init. *)
Init ==
    /\ xConnectionInUse = [c \in Brokers |-> NoTask]
    /\ xSocket = [c \in Brokers |-> FALSE]
    /\ state = [c \in Brokers |-> "NotConnected"]
    /\ outstanding = [c \in Brokers |-> {}]
    /\ xWaitingTasks = [c \in Brokers |-> [s \in Slots |-> Free]]
    /\ xCommandQueue = << >>
    /\ ulQueueMessageIdentifier = 1
    /\ pc = [t \in Tasks |-> "idle"]
    /\ xEventData = [t \in Tasks |-> NoCommand]
    /\ notification = [t \in Tasks |-> Nothing]
    /\ mayConnect = [c \in Brokers |-> TRUE]

-----------------------------------------------------------------------------
(* Application tasks. *)

(* MQTT_AGENT_Create takes the first connection that is not in use. *)
MQTT_AGENT_Create(t, c) ==
    /\ pc[t] = "idle"
    /\ xConnectionInUse[c] = NoTask
    /\ \A d \in Brokers : d < c => xConnectionInUse[d] # NoTask
    /\ xConnectionInUse' = [xConnectionInUse EXCEPT ![c] = t]
    /\ UNCHANGED <<connVars, xCommandQueue, ulQueueMessageIdentifier, pc,
                   xEventData, notification, mayConnect>>

(* MQTT_AGENT_Delete only clears the flag; its user must have disconnected. *)
MQTT_AGENT_Delete(t, c) ==
    /\ pc[t] = "idle"
    /\ xConnectionInUse[c] = t
    /\ mayConnect[c]
    /\ xConnectionInUse' = [xConnectionInUse EXCEPT ![c] = NoTask]
    /\ UNCHANGED <<connVars, xCommandQueue, ulQueueMessageIdentifier, pc,
                   xEventData, notification, mayConnect>>

InFlight == {xEventData[t].id : t \in {u \in Tasks : pc[u] # "idle"}}

(* The critical section of prvSendCommandToMQTTTask, entered from one of    *)
(* the API functions.  Any task may use a connection that was created; its  *)
(* creator alone connects, and only once it knows that it is disconnected.  *)
(* The counter does not come round to an identifier that is in flight:      *)
(* that takes 65534 commands while one waits for its timeout.               *)
TakeIdentifier(t, op, c) ==
    /\ pc[t] = "idle"
    /\ xConnectionInUse[c] # NoTask
    /\ op = "Connect" => xConnectionInUse[c] = t /\ mayConnect[c]
    /\ ulQueueMessageIdentifier \notin InFlight
    /\ xEventData' = [xEventData EXCEPT
           ![t] = [op |-> op, broker |-> c, task |-> t, id |-> ulQueueMessageIdentifier]]
    /\ ulQueueMessageIdentifier' =
           IF ulQueueMessageIdentifier >= MaxIdentifier THEN 1 ELSE ulQueueMessageIdentifier + 1
    /\ pc' = [pc EXCEPT ![t] = "clear"]
    /\ mayConnect' = [mayConnect EXCEPT ![c] = @ /\ op # "Connect"]
    /\ UNCHANGED <<xConnectionInUse, connVars, xCommandQueue, notification>>

(* The notification state of the caller is cleared before the command can   *)
(* be answered.                                                             *)
NotifyStateClear(t) ==
    /\ pc[t] = "clear"
    /\ notification' = [notification EXCEPT ![t] = Nothing]
    /\ pc' = [pc EXCEPT ![t] = "send"]
    /\ UNCHANGED <<xConnectionInUse, connVars, xCommandQueue, ulQueueMessageIdentifier,
                   xEventData, mayConnect>>

QueueSend(t) ==
    /\ pc[t] = "send"
    /\ Len(xCommandQueue) < QueueLength
    /\ xCommandQueue' = Append(xCommandQueue, xEventData[t])
    /\ pc' = [pc EXCEPT ![t] = "wait"]
    /\ UNCHANGED <<xConnectionInUse, connVars, ulQueueMessageIdentifier, xEventData,
                   notification, mayConnect>>

(* The call of task t returns with this status; what its owner learns about *)
(* the connection: a connect that did not succeed left it closed, and so    *)
(* did a disconnect that did.                                               *)
Return(t, status) ==
    LET op == xEventData[t].op
        c  == xEventData[t].broker
    IN  /\ pc' = [pc EXCEPT ![t] = "idle"]
        /\ mayConnect' = [mayConnect EXCEPT ![c] =
               CASE op = "Connect" -> status # "pass"
                 [] op = "Disconnect" /\ t = xConnectionInUse[c] -> @ \/ status = "pass"
                 [] OTHER -> @]
        /\ xEventData' = [xEventData EXCEPT ![t] = NoCommand]

(* The queue stayed full for the time the caller was willing to wait. *)
QueueSendTimesOut(t) ==
    /\ pc[t] = "send"
    /\ Len(xCommandQueue) = QueueLength
    /\ Return(t, "fail")
    /\ UNCHANGED <<xConnectionInUse, connVars, xCommandQueue, ulQueueMessageIdentifier,
                   notification>>

(* Mutant: any notification is taken for the reply. *)
NotifyWaitAny(t) ==
    /\ pc[t] = "wait"
    /\ notification[t] # Nothing
    /\ notification' = [notification EXCEPT ![t] = Nothing]
    /\ Return(t, notification[t].status)
    /\ UNCHANGED <<xConnectionInUse, connVars, xCommandQueue, ulQueueMessageIdentifier>>

(* A notification is taken; any other than the reply is ignored. *)
NotifyWait(t) ==
    /\ pc[t] = "wait"
    /\ notification[t] # Nothing
    /\ notification' = [notification EXCEPT ![t] = Nothing]
    /\ \/ /\ notification[t].id = xEventData[t].id
          /\ Return(t, notification[t].status)
       \/ /\ notification[t].id # xEventData[t].id
          /\ UNCHANGED <<pc, xEventData, mayConnect>>
    /\ UNCHANGED <<xConnectionInUse, connVars, xCommandQueue, ulQueueMessageIdentifier>>

(* Some other code notifies a task that has no notification pending. *)
OtherNotification(t) ==
    /\ Strangers
    /\ notification[t] = Nothing
    /\ notification' = [notification EXCEPT ![t] = Foreign]
    /\ UNCHANGED <<xConnectionInUse, connVars, xCommandQueue, ulQueueMessageIdentifier,
                   pc, xEventData, mayConnect>>

-----------------------------------------------------------------------------
(* The MQTT task: notification slots. *)

(* What prvNotifyRequestingTask is asked to send. *)
Telling(W, status) == {[task |-> w.task, id |-> w.id, status |-> status] : w \in W}

(* prvNotifyRequestingTask for each of these records: a notification that   *)
(* is pending is not overwritten, and nobody looks at the result.           *)
prvNotifyRequestingTask(W) ==
    notification' = [t \in Tasks |->
        IF notification[t] = Nothing /\ \E w \in W : w.task = t
        THEN LET w == CHOOSE w \in W : w.task = t IN [id |-> w.id, status |-> w.status]
        ELSE notification[t]]

FreeSlots(c) == {s \in Slots : xWaitingTasks[c][s] = Free}
UsedSlots(c) == Slots \ FreeSlots(c)

(* prvStoreNotificationData in the first free slot. *)
prvStoreNotificationData(cmd) ==
    \E s \in FreeSlots(cmd.broker) :
        /\ \A r \in FreeSlots(cmd.broker) : s <= r
        /\ xWaitingTasks' = [xWaitingTasks EXCEPT
               ![cmd.broker][s] = [task |-> cmd.task, id |-> cmd.id]]

(* prvRetrieveNotificationData: the first used slot with the identifier. *)
prvRetrieveNotificationData(c, id) ==
    {s \in UsedSlots(c) :
        /\ xWaitingTasks[c][s].id = id
        /\ \A r \in UsedSlots(c) : xWaitingTasks[c][r].id = id => s <= r}

WaitingIn(c, S) == {xWaitingTasks[c][s] : s \in S}

(* Mutant: the slots are not given back. *)
ClearSlotsNot(c, S) == UNCHANGED xWaitingTasks

(* prvNotifyRequestingTask also gives the slot back. *)
ClearSlots(c, S) ==
    xWaitingTasks' = [xWaitingTasks EXCEPT
        ![c] = [s \in Slots |-> IF s \in S THEN Free ELSE @[s]]]

-----------------------------------------------------------------------------
(* The MQTT task: commands. *)

Reply(cmd, status) == prvNotifyRequestingTask(Telling({cmd}, status))

(* Mutant: the socket of a connect that was not sent stays open. *)
prvInitiateMQTTConnectLeavesSocket(cmd) ==
    LET c == cmd.broker IN
    /\ cmd.op = "Connect"
    /\ \/ /\ FreeSlots(c) # {}
          /\ state[c] = "NotConnected"
          /\ prvStoreNotificationData(cmd)
          /\ xSocket' = [xSocket EXCEPT ![c] = TRUE]
          /\ state' = [state EXCEPT ![c] = "InProgress"]
          /\ outstanding' = [outstanding EXCEPT ![c] = {cmd.id}]
          /\ UNCHANGED notification
       \/ /\ Reply(cmd, "fail")
          /\ xSocket' = [xSocket EXCEPT ![c] = TRUE]
          /\ UNCHANGED <<state, outstanding, xWaitingTasks>>
    /\ UNCHANGED mayConnect

(* A slot is taken, the socket is set up and connected and a CONNECT packet *)
(* sent; whichever of the three fails, the socket is closed, the caller     *)
(* notified and the slot given back.                                        *)
prvInitiateMQTTConnect(cmd) ==
    LET c == cmd.broker IN
    /\ cmd.op = "Connect"
    /\ \/ /\ FreeSlots(c) # {}
          /\ state[c] = "NotConnected"
          /\ prvStoreNotificationData(cmd)
          /\ xSocket' = [xSocket EXCEPT ![c] = TRUE]
          /\ state' = [state EXCEPT ![c] = "InProgress"]
          /\ outstanding' = [outstanding EXCEPT ![c] = {cmd.id}]
          /\ UNCHANGED notification
       \/ /\ Reply(cmd, "fail")
          /\ xSocket' = [xSocket EXCEPT ![c] = @ /\ FreeSlots(c) = {}]
          /\ UNCHANGED <<state, outstanding, xWaitingTasks>>
    /\ UNCHANGED mayConnect

(* Mutant: the tasks that wait for an acknowledgement are not told. *)
SessionEndsSilently(c, W) ==
    /\ state[c] # "NotConnected"
    /\ state' = [state EXCEPT ![c] = "NotConnected"]
    /\ outstanding' = [outstanding EXCEPT ![c] = {}]
    /\ xSocket' = [xSocket EXCEPT ![c] = FALSE]
    /\ mayConnect' = [mayConnect EXCEPT ![c] = @ \/ xSocket[c]]
    /\ prvNotifyRequestingTask(W)
    /\ UNCHANGED xWaitingTasks

(* The library resets the context and prvProcessReceivedDisconnect calls    *)
(* the user's callback, closes the socket and notifies all that wait for an *)
(* acknowledgement; after that the tasks of W are told.                     *)
SessionEnds(c, W) ==
    /\ state[c] # "NotConnected"
    /\ state' = [state EXCEPT ![c] = "NotConnected"]
    /\ outstanding' = [outstanding EXCEPT ![c] = {}]
    /\ xSocket' = [xSocket EXCEPT ![c] = FALSE]
    /\ mayConnect' = [mayConnect EXCEPT ![c] = @ \/ xSocket[c]]
    /\ prvNotifyRequestingTask(Telling(WaitingIn(c, UsedSlots(c)), "fail") \cup W)
    /\ ClearSlots(c, UsedSlots(c))

(* MQTT_Disconnect reports success if there was nothing to disconnect or    *)
(* the DISCONNECT packet was sent; the session ends in either case.         *)
prvInitiateMQTTDisconnect(cmd) ==
    /\ cmd.op = "Disconnect"
    /\ \/ /\ state[cmd.broker] = "NotConnected"
          /\ Reply(cmd, "pass")
          /\ UNCHANGED <<connVars, mayConnect>>
       \/ \E status \in {"pass", "fail"} : SessionEnds(cmd.broker, Telling({cmd}, status))

(* The part common to the requests that are acknowledged: with a slot and a *)
(* packet accepted by the library the caller waits on, else it is notified. *)
InitiateRequest(cmd) ==
    LET c == cmd.broker IN
    /\ \/ /\ state[c] = "Connected"
          /\ prvStoreNotificationData(cmd)
          /\ outstanding' = [outstanding EXCEPT ![c] = @ \cup {cmd.id}]
          /\ UNCHANGED notification
       \/ /\ Reply(cmd, "fail")
          /\ UNCHANGED <<outstanding, xWaitingTasks>>
    /\ UNCHANGED <<xSocket, state, mayConnect>>

prvInitiateMQTTSubscribe(cmd)   == cmd.op = "Subscribe" /\ InitiateRequest(cmd)
prvInitiateMQTTUnSubscribe(cmd) == cmd.op = "Unsubscribe" /\ InitiateRequest(cmd)

(* A QoS0 publish takes no slot: its caller is notified at once. *)
prvInitiateMQTTPublish(cmd) ==
    \/ cmd.op = "PublishQoS1" /\ InitiateRequest(cmd)
    \/ /\ cmd.op = "PublishQoS0"
       /\ \/ Reply(cmd, "fail")
          \/ state[cmd.broker] = "Connected" /\ Reply(cmd, "pass")
       /\ UNCHANGED <<connVars, mayConnect>>

(* The command waited longer in the queue than its caller was willing to. *)
CommandExpired(cmd) ==
    /\ Reply(cmd, "timeout")
    /\ UNCHANGED <<connVars, mayConnect>>

appVars == <<xConnectionInUse, ulQueueMessageIdentifier, pc, xEventData>>

(* prvMQTTTask takes the oldest command. *)
ReceiveCommand ==
    /\ xCommandQueue # << >>
    /\ LET cmd == Head(xCommandQueue) IN
          \/ CommandExpired(cmd)
          \/ prvInitiateMQTTConnect(cmd)
          \/ prvInitiateMQTTDisconnect(cmd)
          \/ prvInitiateMQTTSubscribe(cmd)
          \/ prvInitiateMQTTUnSubscribe(cmd)
          \/ prvInitiateMQTTPublish(cmd)
    /\ xCommandQueue' = Tail(xCommandQueue)
    /\ UNCHANGED appVars

-----------------------------------------------------------------------------
(* The MQTT task: events of the library, from prvManageConnections.  *)

(* The library is done with a packet: the task in its slot is told. *)
Finished(c, id, status) ==
    LET S == prvRetrieveNotificationData(c, id) IN
    /\ id \in outstanding[c]
    /\ outstanding' = [outstanding EXCEPT ![c] = @ \ {id}]
    /\ prvNotifyRequestingTask(Telling(WaitingIn(c, S), status))
    /\ ClearSlots(c, S)
    /\ UNCHANGED <<xSocket, mayConnect, xCommandQueue, appVars>>

prvProcessReceivedCONNACK(c, id) ==
    /\ state[c] = "InProgress"
    /\ state' = [state EXCEPT ![c] = "Connected"]
    /\ Finished(c, id, "pass")

(* SUBACK, which may refuse the subscription. *)
prvProcessReceivedSUBACK(c, id) ==
    /\ state[c] = "Connected"
    /\ \E status \in {"pass", "fail"} : Finished(c, id, status)
    /\ UNCHANGED state

prvProcessReceivedUNSUBACK(c, id) ==
    /\ state[c] = "Connected"
    /\ Finished(c, id, "pass")
    /\ UNCHANGED state

prvProcessReceivedPUBACK(c, id) ==
    /\ state[c] = "Connected"
    /\ Finished(c, id, "pass")
    /\ UNCHANGED state

prvProcessReceivedTimeout(c, id) ==
    /\ state[c] = "Connected"
    /\ Finished(c, id, "timeout")
    /\ UNCHANGED state

(* A CONNECT was not answered in time. *)
ConnectTimeout(c) ==
    /\ state[c] = "InProgress"
    /\ SessionEnds(c, {})
    /\ UNCHANGED <<xCommandQueue, appVars>>

(* SOCKETS_Recv failed and prvManageConnections calls MQTT_Disconnect, or   *)
(* the broker sent a malformed packet or refused the connection.  Of the    *)
(* two events of a refusal the agent acts on the second one only: the       *)
(* caller must not try again while there is a socket.                       *)
ConnectionLost(c) ==
    /\ xSocket[c]
    /\ SessionEnds(c, {})
    /\ UNCHANGED <<xCommandQueue, appVars>>

-----------------------------------------------------------------------------

AppStep(t) ==
    \/ \E c \in Brokers : MQTT_AGENT_Create(t, c) \/ MQTT_AGENT_Delete(t, c)
    \/ \E op \in Operations, c \in Brokers : TakeIdentifier(t, op, c)
    \/ NotifyStateClear(t)
    \/ QueueSend(t)
    \/ QueueSendTimesOut(t)
    \/ NotifyWait(t)
    \/ OtherNotification(t)

LibraryEvent(c) ==
    \/ \E id \in outstanding[c] :
          \/ prvProcessReceivedCONNACK(c, id)
          \/ prvProcessReceivedSUBACK(c, id)
          \/ prvProcessReceivedUNSUBACK(c, id)
          \/ prvProcessReceivedPUBACK(c, id)
          \/ prvProcessReceivedTimeout(c, id)
    \/ ConnectTimeout(c)
    \/ ConnectionLost(c)

Next ==
    \/ \E t \in Tasks : AppStep(t)
    \/ ReceiveCommand
    \/ \E c \in Brokers : LibraryEvent(c)

Spec == Init /\ [][Next]_vars

(* A task runs on inside an API call; the MQTT task serves its queue and,   *)
(* because every packet has a timeout, the library is done with every       *)
(* packet in the end (EveryOperationReported in MqttContext).               *)
FairSpec ==
    /\ Spec
    /\ \A t \in Tasks :
          /\ WF_vars(NotifyStateClear(t))
          /\ WF_vars(QueueSend(t) \/ QueueSendTimesOut(t))
          /\ WF_vars(NotifyWait(t))
    /\ WF_vars(ReceiveCommand)
    /\ \A c \in Brokers :
          /\ WF_vars(ConnectTimeout(c))
          /\ \A id \in Identifiers : WF_vars(prvProcessReceivedTimeout(c, id))

-----------------------------------------------------------------------------

TypeOK ==
    /\ xConnectionInUse \in [Brokers -> Tasks \cup {NoTask}]
    /\ xSocket \in [Brokers -> BOOLEAN]
    /\ state \in [Brokers -> {"NotConnected", "InProgress", "Connected"}]
    /\ outstanding \in [Brokers -> SUBSET Identifiers]
    /\ xWaitingTasks \in [Brokers -> [Slots -> Waiting \cup {Free}]]
    /\ xCommandQueue \in Seq(Commands)
    /\ Len(xCommandQueue) <= QueueLength
    /\ ulQueueMessageIdentifier \in Identifiers
    /\ pc \in [Tasks -> {"idle", "clear", "send", "wait"}]
    /\ xEventData \in [Tasks -> Commands \cup {NoCommand}]
    /\ notification \in [Tasks -> Replies \cup {Nothing, Foreign}]
    /\ mayConnect \in [Brokers -> BOOLEAN]

(* The places the reply to a task can come from: its command in the queue,  *)
(* a notification slot, the notification that is pending.                   *)
Queued(t)   == {i \in DOMAIN xCommandQueue : xCommandQueue[i].task = t}
Slotted(t)  == {cs \in Brokers \X Slots : xWaitingTasks[cs[1]][cs[2]].task = t}
Answered(t) == notification[t].id # 0

(* A task that waits is owed exactly one reply and a task that does not is  *)
(* owed none: no call is forgotten or answered twice, no notification       *)
(* arrives after the call has returned, and the parameters a queued command *)
(* points to, on its caller's stack, are alive.  The state is of its type.   *)
ReplyAccounting ==
    /\ TypeOK
    /\ \A t \in Tasks :
           \/ pc[t] # "wait" /\ Queued(t) = {} /\ Slotted(t) = {} /\ ~ Answered(t)
           \/ /\ pc[t] = "wait"
              /\ \/ /\ \E i \in DOMAIN xCommandQueue : Queued(t) = {i}
                    /\ Slotted(t) = {}
                    /\ ~ Answered(t)
                 \/ /\ \E cs \in Brokers \X Slots : Slotted(t) = {cs}
                    /\ Queued(t) = {}
                    /\ ~ Answered(t)
                 \/ Answered(t) /\ Queued(t) = {} /\ Slotted(t) = {}

(* What is owed to a task carries the identifier it waits for, on the       *)
(* connection it asked: a reply is never taken for another one.             *)
RepliesMatch ==
    /\ \A i \in DOMAIN xCommandQueue :
          xCommandQueue[i] = xEventData[xCommandQueue[i].task]
    /\ \A c \in Brokers : \A s \in UsedSlots(c) :
          LET w == xWaitingTasks[c][s] IN
          xEventData[w.task].id = w.id /\ xEventData[w.task].broker = c
    /\ \A t \in Tasks : Answered(t) => notification[t].id = xEventData[t].id
    /\ \A t, u \in Tasks : pc[t] # "idle" /\ pc[u] # "idle" /\ xEventData[t].id = xEventData[u].id => t = u

(* The slots of a connection are those of the packets the library waits     *)
(* for: each event finds the task to notify and no slot is left over.       *)
SlotsMatchLibrary ==
    \A c \in Brokers : {w.id : w \in WaitingIn(c, UsedSlots(c))} = outstanding[c]

(* There is a socket exactly while the library has a session, so that       *)
(* prvManageConnections serves every session and closes every socket; and a *)
(* connection that is asked to connect has none, as prvSetupConnection      *)
(* asserts.                                                                 *)
SocketMatchesSession ==
    /\ \A c \in Brokers : xSocket[c] <=> state[c] # "NotConnected"
    /\ \A i \in DOMAIN xCommandQueue :
          xCommandQueue[i].op = "Connect" => ~ xSocket[xCommandQueue[i].broker]

(* Every API call returns. *)
EveryCallReturns == \A t \in Tasks : pc[t] # "idle" ~> pc[t] = "idle"
==============================================================================

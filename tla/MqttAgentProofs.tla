--------------------------- MODULE MqttAgentProofs ---------------------------
(***************************************************************************)
(* Proofs about MqttAgent for any number of tasks, connections, slots and  *)
(* identifiers and any length of the command queue.                        *)
(*                                                                         *)
(* A task that waits is in at most one of three places: a command in the   *)
(* queue, a notification slot, a pending notification.  AgentInv says of   *)
(* each place what it knows of the task, and of the tasks which connection *)
(* they may still open.                                                    *)
(***************************************************************************)
EXTENDS MqttAgent, TLAPS

Busy(t) == pc[t] # "idle"

(* The command of a call that is under way is the caller's own, under an    *)
(* identifier of its own.                                                   *)
CallInv ==
    /\ \A t \in Tasks : Busy(t) => xEventData[t] \in Commands /\ xEventData[t].task = t
    /\ \A t, u \in Tasks : Busy(t) /\ Busy(u) /\ xEventData[t].id = xEventData[u].id => t = u

QueueInv ==
    /\ \A i \in 1 .. Len(xCommandQueue) :
          /\ pc[xCommandQueue[i].task] = "wait"
          /\ xCommandQueue[i] = xEventData[xCommandQueue[i].task]
    /\ \A i, j \in 1 .. Len(xCommandQueue) :
          xCommandQueue[i].task = xCommandQueue[j].task => i = j

SlotInv ==
    \A c \in Brokers, s \in Slots : xWaitingTasks[c][s] # Free =>
        /\ pc[xWaitingTasks[c][s].task] = "wait"
        /\ xEventData[xWaitingTasks[c][s].task].id = xWaitingTasks[c][s].id
        /\ xEventData[xWaitingTasks[c][s].task].broker = c
        /\ xEventData[xWaitingTasks[c][s].task].op # "Disconnect"
        /\ \A i \in 1 .. Len(xCommandQueue) : xCommandQueue[i].task # xWaitingTasks[c][s].task
        /\ \A r \in Slots : xWaitingTasks[c][r].task = xWaitingTasks[c][s].task => r = s

NotifyInv ==
    \A t \in Tasks : Answered(t) =>
        /\ pc[t] = "wait"
        /\ notification[t].id = xEventData[t].id
        /\ \A i \in 1 .. Len(xCommandQueue) : xCommandQueue[i].task # t
        /\ \A c \in Brokers, s \in Slots : xWaitingTasks[c][s].task # t

(* A slot belongs to a session, and while that is being set up to the task  *)
(* that connects.                                                           *)
SessionInv ==
    /\ \A c \in Brokers : xSocket[c] <=> state[c] # "NotConnected"
    /\ \A c \in Brokers, id \in Identifiers : id \in outstanding[c] <=>
           \E s \in Slots : xWaitingTasks[c][s] # Free /\ xWaitingTasks[c][s].id = id
    /\ \A c \in Brokers, s \in Slots : xWaitingTasks[c][s] # Free =>
           /\ state[c] # "NotConnected"
           /\ xEventData[xWaitingTasks[c][s].task].op = "Connect" <=> state[c] = "InProgress"

(* Who connects owns the connection, and until the MQTT task has taken the  *)
(* command the connection has no socket.                                    *)
ConnectInv ==
    /\ \A c \in Brokers : mayConnect[c] => ~ xSocket[c]
    /\ \A t \in Tasks : Busy(t) /\ xEventData[t].op = "Connect" =>
          /\ xConnectionInUse[xEventData[t].broker] = t
          /\ pc[t] # "wait" \/ (\E i \in 1 .. Len(xCommandQueue) : xCommandQueue[i].task = t) =>
                 ~ xSocket[xEventData[t].broker] /\ ~ mayConnect[xEventData[t].broker]
          /\ Answered(t) /\ notification[t].status # "pass" => ~ xSocket[xEventData[t].broker]
    /\ \A t \in Tasks :
          /\ Answered(t)
          /\ xEventData[t].op = "Disconnect"
          /\ notification[t].status = "pass"
          /\ xConnectionInUse[xEventData[t].broker] = t
          => ~ xSocket[xEventData[t].broker]

AgentInv == TypeOK /\ CallInv /\ QueueInv /\ SlotInv /\ NotifyInv /\ SessionInv /\ ConnectInv

(* Nobody else notifies: a task that waits is owed a reply. *)
OwedInv ==
    \A t \in Tasks :
        /\ notification[t] # Foreign
        /\ pc[t] = "wait" =>
              \/ \E i \in 1 .. Len(xCommandQueue) : xCommandQueue[i].task = t
              \/ \E c \in Brokers, s \in Slots : xWaitingTasks[c][s].task = t
              \/ Answered(t)

-----------------------------------------------------------------------------
(* The operators of the model. *)

LEMMA TailFacts ==
  ASSUME xCommandQueue \in Seq(Commands), xCommandQueue # << >>,
         xCommandQueue' = Tail(xCommandQueue)
  PROVE  /\ Head(xCommandQueue) = xCommandQueue[1]
         /\ Head(xCommandQueue) \in Commands
         /\ 1 \in 1 .. Len(xCommandQueue)
         /\ xCommandQueue' \in Seq(Commands)
         /\ Len(xCommandQueue') = Len(xCommandQueue) - 1
         /\ \A i \in 1 .. Len(xCommandQueue') :
               /\ i + 1 \in 1 .. Len(xCommandQueue)
               /\ xCommandQueue'[i] = xCommandQueue[i + 1]
  OBVIOUS

LEMMA WaitingFacts ==
  ASSUME TypeOK, NEW c \in Brokers, NEW s \in Slots
  PROVE  /\ xWaitingTasks[c][s] \in Waiting \cup {Free}
         /\ xWaitingTasks[c][s] # Free => /\ xWaitingTasks[c][s].task \in Tasks
                                          /\ xWaitingTasks[c][s].id \in Identifiers
         /\ xWaitingTasks[c][s] = Free => /\ xWaitingTasks[c][s].task \notin Tasks
                                          /\ xWaitingTasks[c][s].id \notin Identifiers
<1>1. xWaitingTasks[c][s] \in Waiting \cup {Free}
  BY DEF TypeOK
<1>2. QED
  BY <1>1, AgentAssumption DEF Waiting, Free, Identifiers

LEMMA NotificationFacts ==
  ASSUME TypeOK, NEW t \in Tasks
  PROVE  /\ notification[t] \in Replies \cup {Nothing, Foreign}
         /\ Answered(t) <=> notification[t] \in Replies
         /\ notification[t] = Nothing => ~ Answered(t)
         /\ notification[t] = Foreign => ~ Answered(t)
<1>1. notification[t] \in Replies \cup {Nothing, Foreign}
  BY DEF TypeOK
<1>2. QED
  BY <1>1, AgentAssumption DEF Answered, Replies, Nothing, Foreign, Identifiers

(* What prvNotifyRequestingTask may do to the notification of a task. *)
LEMMA NotifyFacts ==
  ASSUME TypeOK, NEW W, prvNotifyRequestingTask(W)
  PROVE  /\ DOMAIN notification' = Tasks
         /\ notification' = [t \in Tasks |-> notification'[t]]
         /\ \A t \in Tasks :
               \/ notification'[t] = notification[t]
               \/ \E w \in W : /\ w.task = t
                               /\ notification'[t] = [id |-> w.id, status |-> w.status]
         /\ \A t \in Tasks : notification[t] = Nothing /\ (\E w \in W : w.task = t) =>
               \E w \in W : /\ w.task = t
                            /\ notification'[t] = [id |-> w.id, status |-> w.status]
<1>1. /\ DOMAIN notification' = Tasks
      /\ notification' = [t \in Tasks |-> notification'[t]]
  BY DEF prvNotifyRequestingTask
<1>2. ASSUME NEW t \in Tasks
      PROVE  IF notification[t] = Nothing /\ \E w \in W : w.task = t
             THEN \E w \in W : /\ w.task = t
                               /\ notification'[t] = [id |-> w.id, status |-> w.status]
             ELSE notification'[t] = notification[t]
  <2>1. CASE notification[t] = Nothing /\ \E w \in W : w.task = t
    <3> DEFINE w == CHOOSE w \in W : w.task = t
    <3>1. w \in W /\ w.task = t
      BY <2>1
    <3>2. notification'[t] = [id |-> w.id, status |-> w.status]
      BY <2>1 DEF prvNotifyRequestingTask
    <3> HIDE DEF w
    <3>3. QED
      BY <2>1, <3>1, <3>2
  <2>2. CASE ~ (notification[t] = Nothing /\ \E w \in W : w.task = t)
    BY <2>2 DEF prvNotifyRequestingTask
  <2>3. QED
    BY <2>1, <2>2
<1>3. QED
  BY <1>1, <1>2, Zenon

-----------------------------------------------------------------------------
(* What the steps of the MQTT task have in common. *)

QueueKept ==
    \/ xCommandQueue' = xCommandQueue
    \/ xCommandQueue # << >> /\ xCommandQueue' = Tail(xCommandQueue)

LEMMA QueueKeptFacts ==
  ASSUME AgentInv, UNCHANGED appVars, QueueKept
  PROVE  /\ CallInv' /\ QueueInv'
         /\ xCommandQueue' \in Seq(Commands) /\ Len(xCommandQueue') <= QueueLength
         /\ \A i \in 1 .. Len(xCommandQueue') :
               \E j \in 1 .. Len(xCommandQueue) : xCommandQueue'[i] = xCommandQueue[j]
<1> USE DEF AgentInv, appVars
<1>1. CallInv'
  BY DEF CallInv, Busy
<1>2. CASE xCommandQueue' = xCommandQueue
  BY <1>1, <1>2 DEF QueueInv, TypeOK
<1>3. CASE xCommandQueue # << >> /\ xCommandQueue' = Tail(xCommandQueue)
  <2>1. xCommandQueue \in Seq(Commands) /\ Len(xCommandQueue) <= QueueLength
    BY DEF TypeOK
  <2>2. /\ xCommandQueue' \in Seq(Commands)
        /\ Len(xCommandQueue') = Len(xCommandQueue) - 1
        /\ Len(xCommandQueue) \in Nat
        /\ \A i \in 1 .. Len(xCommandQueue') :
              i + 1 \in 1 .. Len(xCommandQueue) /\ xCommandQueue'[i] = xCommandQueue[i + 1]
    BY <1>3, <2>1, TailFacts
  <2>3. QueueInv'
    <3>1. ASSUME NEW i \in 1 .. Len(xCommandQueue')
          PROVE  /\ pc[xCommandQueue'[i].task] = "wait"
                 /\ xCommandQueue'[i] = xEventData[xCommandQueue'[i].task]
      BY <2>2 DEF QueueInv
    <3>2. ASSUME NEW i \in 1 .. Len(xCommandQueue'), NEW j \in 1 .. Len(xCommandQueue'),
                 xCommandQueue'[i].task = xCommandQueue'[j].task
          PROVE  i = j
      <4>1. i + 1 = j + 1
        BY <2>2, <3>2, SMTT(30) DEF QueueInv
      <4>2. i \in Int /\ j \in Int
        BY <2>2
      <4>3. QED
        BY <4>1, <4>2
    <3>3. QED
      BY <3>1, <3>2 DEF QueueInv
  <2>4. QED
    BY <1>1, <2>1, <2>2, <2>3, AgentAssumption
<1>4. QED
  BY <1>2, <1>3 DEF QueueKept

(* A slot that is not touched or is given back stays right. *)
LEMMA SlotsKeptFacts ==
  ASSUME AgentInv, UNCHANGED appVars, QueueKept,
         \A c \in Brokers, s \in Slots :
             \/ xWaitingTasks'[c][s] = Free
             \/ xWaitingTasks'[c][s] = xWaitingTasks[c][s]
  PROVE  SlotInv'
<1>1. \A i \in 1 .. Len(xCommandQueue') :
         \E j \in 1 .. Len(xCommandQueue) : xCommandQueue'[i] = xCommandQueue[j]
  BY QueueKeptFacts
<1>2. SUFFICES ASSUME NEW c \in Brokers, NEW s \in Slots, xWaitingTasks'[c][s] # Free
               PROVE  /\ pc[xWaitingTasks[c][s].task] = "wait"
                      /\ xEventData[xWaitingTasks[c][s].task].id = xWaitingTasks[c][s].id
                      /\ xEventData[xWaitingTasks[c][s].task].broker = c
                      /\ xEventData[xWaitingTasks[c][s].task].op # "Disconnect"
                      /\ \A i \in 1 .. Len(xCommandQueue') :
                            xCommandQueue'[i].task # xWaitingTasks[c][s].task
                      /\ \A r \in Slots :
                            xWaitingTasks'[c][r].task = xWaitingTasks[c][s].task => r = s
  BY DEF SlotInv, appVars
<1>3. xWaitingTasks'[c][s] = xWaitingTasks[c][s] /\ xWaitingTasks[c][s] # Free
  BY <1>2
<1>4. ASSUME NEW r \in Slots, xWaitingTasks'[c][r].task = xWaitingTasks[c][s].task
      PROVE  r = s
  <2>1. xWaitingTasks[c][s].task \in Tasks /\ Free.task \notin Tasks
    BY <1>3, WaitingFacts, AgentAssumption DEF AgentInv, Free
  <2>2. xWaitingTasks'[c][r] = xWaitingTasks[c][r]
    BY <1>4, <2>1
  <2>3. QED
    BY <1>3, <1>4, <2>2 DEF SlotInv, AgentInv
<1>5. QED
  BY <1>1, <1>3, <1>4 DEF SlotInv, AgentInv

(* The tasks that are notified waited for it, and owe nothing any more. *)
LEMMA NotifyKeptFacts ==
  ASSUME AgentInv, UNCHANGED appVars, QueueKept,
         NEW W, prvNotifyRequestingTask(W),
         \A w \in W :
             /\ w.task \in Tasks /\ w.id = xEventData[w.task].id
             /\ w.status \in {"pass", "fail", "timeout"}
             /\ pc[w.task] = "wait"
             /\ \A i \in 1 .. Len(xCommandQueue') : xCommandQueue'[i].task # w.task
             /\ \A c \in Brokers, s \in Slots : xWaitingTasks'[c][s].task # w.task,
         \A c \in Brokers, s \in Slots :
             \/ xWaitingTasks'[c][s] = Free
             \/ xWaitingTasks'[c][s] = xWaitingTasks[c][s]
  PROVE  /\ NotifyInv'
         /\ notification' \in [Tasks -> Replies \cup {Nothing, Foreign}]
<1>1. \A i \in 1 .. Len(xCommandQueue') :
         \E j \in 1 .. Len(xCommandQueue) : xCommandQueue'[i] = xCommandQueue[j]
  BY QueueKeptFacts
<1>2. SUFFICES ASSUME NEW t \in Tasks
               PROVE  /\ notification'[t] \in Replies \cup {Nothing, Foreign}
                      /\ notification'[t].id # 0 =>
                           /\ pc[t] = "wait"
                           /\ notification'[t].id = xEventData[t].id
                           /\ \A i \in 1 .. Len(xCommandQueue') : xCommandQueue'[i].task # t
                           /\ \A c \in Brokers, s \in Slots : xWaitingTasks'[c][s].task # t
  <2>1. notification' = [t \in Tasks |-> notification'[t]]
    BY NotifyFacts DEF AgentInv
  <2>2. notification' \in [Tasks -> Replies \cup {Nothing, Foreign}]
    BY <1>2, <2>1
  <2>3. QED
    BY <1>2, <2>2 DEF NotifyInv, Answered, appVars
<1>3. CASE notification'[t] = notification[t]
  <2>1. notification'[t] \in Replies \cup {Nothing, Foreign}
    BY <1>3 DEF AgentInv, TypeOK
  <2>2. ASSUME notification[t].id # 0
        PROVE  /\ pc[t] = "wait"
               /\ notification[t].id = xEventData[t].id
               /\ \A i \in 1 .. Len(xCommandQueue) : xCommandQueue[i].task # t
               /\ \A c \in Brokers, s \in Slots : xWaitingTasks[c][s].task # t
    BY <2>2 DEF AgentInv, NotifyInv, Answered
  <2>3. Free.task # t
    BY AgentAssumption DEF Free
  <2>4. QED
    BY <1>1, <1>3, <2>1, <2>2, <2>3
<1>4. CASE \E w \in W : /\ w.task = t
                        /\ notification'[t] = [id |-> w.id, status |-> w.status]
  <2>1. PICK w \in W : /\ w.task = t
                       /\ notification'[t] = [id |-> w.id, status |-> w.status]
    BY <1>4
  <2>2. xEventData[t] \in Commands
    BY <2>1 DEF AgentInv, CallInv, Busy
  <2>3. notification'[t] \in Replies
    BY <2>1, <2>2 DEF Replies, Commands
  <2>4. QED
    BY <2>1, <2>3
<1>5. QED
  BY <1>3, <1>4, NotifyFacts DEF AgentInv

-----------------------------------------------------------------------------
(* The steps of the application tasks. *)

LEMMA InitInv == Init => AgentInv
<1> SUFFICES ASSUME Init PROVE AgentInv
  OBVIOUS
<1>1. TypeOK
  BY AgentAssumption DEF Init, TypeOK, Identifiers
<1>2. \A t \in Tasks : ~ Busy(t) /\ ~ Answered(t)
  BY DEF Init, Busy, Answered, Nothing
<1>3. \A c \in Brokers, s \in Slots : xWaitingTasks[c][s] = Free
  BY DEF Init
<1>4. Len(xCommandQueue) = 0
  BY DEF Init
<1>5. CallInv /\ QueueInv /\ SlotInv /\ NotifyInv
  BY <1>2, <1>3, <1>4 DEF CallInv, QueueInv, SlotInv, NotifyInv
<1>6. SessionInv
  BY <1>3 DEF SessionInv, Init
<1>7. ConnectInv
  BY <1>2 DEF ConnectInv, Init
<1>8. QED
  BY <1>1, <1>5, <1>6, <1>7 DEF AgentInv

(* A connection is created and deleted by a task that has no call under way. *)
LEMMA OwnerInv ==
  ASSUME AgentInv, NEW t \in Tasks, NEW c \in Brokers,
         MQTT_AGENT_Create(t, c) \/ MQTT_AGENT_Delete(t, c)
  PROVE  AgentInv'
<1>1. PICK o \in Tasks \cup {NoTask} :
         /\ xConnectionInUse' = [xConnectionInUse EXCEPT ![c] = o]
         /\ \A u \in Tasks : u = xConnectionInUse[c] \/ u = o => ~ Busy(u)
  BY AgentAssumption DEF MQTT_AGENT_Create, MQTT_AGENT_Delete, Busy
<1>2. UNCHANGED <<connVars, xCommandQueue, ulQueueMessageIdentifier, pc,
                  xEventData, notification, mayConnect>>
  BY DEF MQTT_AGENT_Create, MQTT_AGENT_Delete
<1> USE <1>2 DEF connVars
<1>3. TypeOK'
  BY <1>1 DEF AgentInv, TypeOK
<1>4. CallInv' /\ QueueInv' /\ SlotInv' /\ NotifyInv' /\ SessionInv'
  BY DEF AgentInv, CallInv, QueueInv, SlotInv, NotifyInv, SessionInv, Busy, Answered
<1>5. \A d \in Brokers, u \in Tasks : Busy(u) =>
         (xConnectionInUse'[d] = u <=> xConnectionInUse[d] = u)
  BY <1>1 DEF AgentInv, TypeOK
<1>6. \A u \in Tasks : Busy(u) => xEventData[u].broker \in Brokers
  BY DEF AgentInv, CallInv, Commands
<1>7. \A u \in Tasks : Answered(u) => Busy(u)
  BY DEF AgentInv, NotifyInv, Busy
<1>8. ConnectInv'
  BY <1>5, <1>6, <1>7 DEF AgentInv, ConnectInv, Busy, Answered
<1>9. QED
  BY <1>3, <1>4, <1>8 DEF AgentInv

LEMMA TakeIdentifierInv ==
  ASSUME AgentInv, NEW t \in Tasks, NEW op \in Operations, NEW c \in Brokers,
         TakeIdentifier(t, op, c)
  PROVE  AgentInv'
<1> DEFINE cmd == [op |-> op, broker |-> c, task |-> t, id |-> ulQueueMessageIdentifier]
<1>1. cmd \in Commands
  BY DEF AgentInv, TypeOK, Commands
<1>2. /\ pc[t] = "idle"
      /\ xEventData' = [xEventData EXCEPT ![t] = cmd]
      /\ pc' = [pc EXCEPT ![t] = "clear"]
      /\ mayConnect' = [mayConnect EXCEPT ![c] = @ /\ op # "Connect"]
      /\ UNCHANGED <<xConnectionInUse, xSocket, state, outstanding, xWaitingTasks,
                     xCommandQueue, notification>>
      /\ op = "Connect" => xConnectionInUse[c] = t /\ mayConnect[c]
      /\ \A u \in Tasks : Busy(u) => xEventData[u].id # ulQueueMessageIdentifier
  BY DEF TakeIdentifier, connVars, InFlight, Busy
<1>3. ulQueueMessageIdentifier' \in Identifiers
  BY AgentAssumption DEF TakeIdentifier, AgentInv, TypeOK, Identifiers
<1>4. cmd.op = op /\ cmd.broker = c /\ cmd.task = t /\ cmd.id = ulQueueMessageIdentifier
  OBVIOUS
<1> HIDE DEF cmd
<1>5. TypeOK'
  BY <1>1, <1>2, <1>3 DEF AgentInv, TypeOK
<1>6. \A u \in Tasks : u # t => pc'[u] = pc[u] /\ xEventData'[u] = xEventData[u]
  BY <1>2 DEF AgentInv, TypeOK
<1>7. pc'[t] = "clear" /\ xEventData'[t] = cmd
  BY <1>2 DEF AgentInv, TypeOK
<1>8. CallInv'
  BY <1>1, <1>2, <1>4, <1>6, <1>7 DEF AgentInv, CallInv, Busy
<1>9. \A i \in 1 .. Len(xCommandQueue) : xCommandQueue[i].task \in Tasks \ {t}
  <2>1. \A i \in 1 .. Len(xCommandQueue) : xCommandQueue[i] \in Commands
    BY DEF AgentInv, TypeOK
  <2>2. QED
    BY <1>2, <2>1 DEF AgentInv, QueueInv, Commands
<1>10. QueueInv'
  BY <1>2, <1>6, <1>9 DEF AgentInv, QueueInv
<1>11. \A d \in Brokers, s \in Slots :
          xWaitingTasks[d][s] # Free => xWaitingTasks[d][s].task \in Tasks \ {t}
  BY <1>2, WaitingFacts DEF AgentInv, SlotInv
<1>12. SlotInv'
  BY <1>2, <1>6, <1>11 DEF AgentInv, SlotInv
<1>13. ~ Answered(t) /\ ~ Answered(t)'
  BY <1>2 DEF AgentInv, NotifyInv, Answered
<1>14. NotifyInv'
  BY <1>2, <1>6, <1>13 DEF AgentInv, NotifyInv, Answered
<1>15. SessionInv'
  BY <1>2, <1>6, <1>11 DEF AgentInv, SessionInv
<1>16. ConnectInv'
  <2>1. \A d \in Brokers : mayConnect'[d] => mayConnect[d]
    BY <1>2 DEF AgentInv, TypeOK
  <2>2. op = "Connect" => ~ mayConnect'[c] /\ ~ xSocket[c]
    BY <1>2 DEF AgentInv, TypeOK, ConnectInv
  <2>3. \A u \in Tasks : Busy(u) => xEventData[u].broker \in Brokers
    BY DEF AgentInv, CallInv, Commands
  <2>4. \A u \in Tasks : Answered(u)' <=> Answered(u)
    BY <1>2 DEF Answered
  <2>5. \A u \in Tasks : Answered(u) => Busy(u)
    BY DEF AgentInv, NotifyInv, Busy
  <2>6. ASSUME NEW u \in Tasks, Busy(u)', xEventData'[u].op = "Connect"
        PROVE  /\ xConnectionInUse'[xEventData'[u].broker] = u
               /\ pc'[u] # "wait"
                     \/ (\E i \in 1 .. Len(xCommandQueue') : xCommandQueue'[i].task = u) =>
                  ~ xSocket'[xEventData'[u].broker] /\ ~ mayConnect'[xEventData'[u].broker]
               /\ Answered(u)' /\ notification'[u].status # "pass" =>
                  ~ xSocket'[xEventData'[u].broker]
    <3>1. CASE u = t
      BY <1>2, <1>4, <1>7, <1>13, <2>2, <2>6, <3>1
    <3>2. CASE u # t
      <4>1. /\ Busy(u) /\ xEventData[u].op = "Connect" /\ pc'[u] = pc[u]
            /\ xEventData'[u] = xEventData[u] /\ xEventData[u].broker \in Brokers
        BY <1>6, <2>3, <2>6, <3>2 DEF Busy
      <4>2. /\ xConnectionInUse[xEventData[u].broker] = u
            /\ pc[u] # "wait" \/ (\E i \in 1 .. Len(xCommandQueue) : xCommandQueue[i].task = u) =>
                  ~ xSocket[xEventData[u].broker] /\ ~ mayConnect[xEventData[u].broker]
            /\ Answered(u) /\ notification[u].status # "pass" => ~ xSocket[xEventData[u].broker]
        BY <4>1 DEF AgentInv, ConnectInv
      <4>3. QED
        BY <1>2, <2>1, <2>4, <4>1, <4>2
    <3>3. QED
      BY <3>1, <3>2
  <2>7. QED
    BY <1>2, <1>6, <1>13, <2>1, <2>4, <2>6 DEF AgentInv, ConnectInv
<1>17. QED
  BY <1>5, <1>8, <1>10, <1>12, <1>14, <1>15, <1>16 DEF AgentInv

(* Who is in the queue, in a slot or answered is a task that waits. *)
LEMMA PlaceFacts ==
  ASSUME AgentInv
  PROVE  /\ \A i \in 1 .. Len(xCommandQueue) :
               /\ xCommandQueue[i] \in Commands
               /\ xCommandQueue[i].task \in Tasks
               /\ pc[xCommandQueue[i].task] = "wait"
         /\ \A c \in Brokers, s \in Slots : xWaitingTasks[c][s] # Free =>
               xWaitingTasks[c][s].task \in Tasks /\ pc[xWaitingTasks[c][s].task] = "wait"
         /\ \A t \in Tasks : Answered(t) => pc[t] = "wait"
         /\ \A t \in Tasks : Busy(t) => /\ xEventData[t].broker \in Brokers
                                        /\ xEventData[t].id \in Identifiers
<1>1. \A i \in 1 .. Len(xCommandQueue) : xCommandQueue[i] \in Commands
  BY DEF AgentInv, TypeOK
<1>2. \A i \in 1 .. Len(xCommandQueue) :
         xCommandQueue[i].task \in Tasks /\ pc[xCommandQueue[i].task] = "wait"
  BY <1>1 DEF AgentInv, QueueInv, Commands
<1>3. \A c \in Brokers, s \in Slots : xWaitingTasks[c][s] # Free =>
         xWaitingTasks[c][s].task \in Tasks /\ pc[xWaitingTasks[c][s].task] = "wait"
  BY WaitingFacts DEF AgentInv, SlotInv
<1>4. \A t \in Tasks : Answered(t) => pc[t] = "wait"
  BY DEF AgentInv, NotifyInv
<1>5. \A t \in Tasks : Busy(t) => xEventData[t].broker \in Brokers /\ xEventData[t].id \in Identifiers
  BY DEF AgentInv, CallInv, Commands
<1>6. QED
  BY <1>1, <1>2, <1>3, <1>4, <1>5

LEMMA NotifyStateClearInv ==
  ASSUME AgentInv, NEW t \in Tasks, NotifyStateClear(t)
  PROVE  AgentInv'
<1>1. /\ pc[t] = "clear"
      /\ UNCHANGED <<xConnectionInUse, xSocket, state, outstanding, xWaitingTasks,
                     xCommandQueue, ulQueueMessageIdentifier, xEventData, mayConnect>>
      /\ notification' = [notification EXCEPT ![t] = Nothing]
      /\ pc' = [pc EXCEPT ![t] = "send"]
  BY DEF NotifyStateClear, connVars
<1>2. TypeOK'
  BY <1>1 DEF AgentInv, TypeOK
<1>3. /\ pc'[t] = "send" /\ notification'[t] = Nothing
      /\ \A u \in Tasks : u # t => pc'[u] = pc[u] /\ notification'[u] = notification[u]
  BY <1>1 DEF AgentInv, TypeOK
<1>4. ~ Answered(t) /\ ~ Answered(t)'
  BY <1>1, <1>3, PlaceFacts DEF Answered, Nothing
<1>5. \A u \in Tasks : /\ Answered(u)' <=> Answered(u)
                       /\ Busy(u)' <=> Busy(u)
                       /\ Answered(u) => notification'[u] = notification[u]
                       /\ pc'[u] = "wait" <=> pc[u] = "wait"
  BY <1>1, <1>3, <1>4 DEF Answered, Busy
<1>6. CallInv'
  BY <1>1, <1>5 DEF AgentInv, CallInv
<1>7. QueueInv' /\ SlotInv'
  BY <1>1, <1>5, PlaceFacts DEF AgentInv, QueueInv, SlotInv
<1>8. NotifyInv'
  BY <1>1, <1>5 DEF AgentInv, NotifyInv
<1>9. SessionInv'
  BY <1>1 DEF AgentInv, SessionInv
<1>10. ConnectInv'
  BY <1>1, <1>5 DEF AgentInv, ConnectInv
<1>11. QED
  BY <1>2, <1>6, <1>7, <1>8, <1>9, <1>10 DEF AgentInv

LEMMA OtherNotificationInv ==
  ASSUME AgentInv, NEW t \in Tasks, OtherNotification(t)
  PROVE  AgentInv'
<1>1. /\ UNCHANGED <<xConnectionInUse, xSocket, state, outstanding, xWaitingTasks, pc,
                     xCommandQueue, ulQueueMessageIdentifier, xEventData, mayConnect>>
      /\ notification[t] = Nothing
      /\ notification' = [notification EXCEPT ![t] = Foreign]
  BY DEF OtherNotification, connVars
<1>2. TypeOK'
  BY <1>1 DEF AgentInv, TypeOK
<1>3. /\ notification'[t] = Foreign
      /\ \A u \in Tasks : u # t => notification'[u] = notification[u]
  BY <1>1 DEF AgentInv, TypeOK
<1>4. \A u \in Tasks : /\ Answered(u)' <=> Answered(u)
                       /\ Answered(u) => notification'[u] = notification[u]
  BY <1>1, <1>3 DEF Answered, Nothing, Foreign
<1>5. CallInv' /\ QueueInv' /\ SlotInv' /\ SessionInv'
  <2>1. CallInv'
    BY <1>1 DEF AgentInv, CallInv, Busy
  <2>2. QueueInv'
    BY <1>1 DEF AgentInv, QueueInv
  <2>3. SlotInv' /\ SessionInv'
    BY <1>1 DEF AgentInv, SlotInv, SessionInv
  <2>4. QED
    BY <2>1, <2>2, <2>3
<1>6. NotifyInv' /\ ConnectInv'
  BY <1>1, <1>4 DEF AgentInv, NotifyInv, ConnectInv, Busy
<1>7. QED
  BY <1>2, <1>5, <1>6 DEF AgentInv

LEMMA QueueSendInv ==
  ASSUME AgentInv, NEW t \in Tasks, QueueSend(t)
  PROVE  AgentInv'
<1>1. /\ pc[t] = "send"
      /\ UNCHANGED <<xConnectionInUse, xSocket, state, outstanding, xWaitingTasks,
                     ulQueueMessageIdentifier, xEventData, notification, mayConnect>>
      /\ pc' = [pc EXCEPT ![t] = "wait"]
  BY DEF QueueSend, connVars
<1>2. xEventData[t] \in Commands /\ xEventData[t].task = t
  BY <1>1 DEF AgentInv, CallInv, Busy
<1>3. /\ xCommandQueue' \in Seq(Commands)
      /\ Len(xCommandQueue') = Len(xCommandQueue) + 1
      /\ Len(xCommandQueue) \in Nat
      /\ Len(xCommandQueue') <= QueueLength
      /\ xCommandQueue'[Len(xCommandQueue')] = xEventData[t]
      /\ \A i \in 1 .. Len(xCommandQueue) : xCommandQueue'[i] = xCommandQueue[i]
  <2>1. /\ xCommandQueue \in Seq(Commands) /\ Len(xCommandQueue) < QueueLength
        /\ xCommandQueue' = Append(xCommandQueue, xEventData[t])
    BY DEF AgentInv, TypeOK, QueueSend
  <2>2. QED
    BY <1>2, <2>1, AgentAssumption
<1>4. \A i \in 1 .. Len(xCommandQueue') :
         \/ i \in 1 .. Len(xCommandQueue) /\ xCommandQueue'[i] = xCommandQueue[i]
         \/ i = Len(xCommandQueue') /\ xCommandQueue'[i] = xEventData[t]
  BY <1>3
<1>5. pc'[t] = "wait" /\ \A u \in Tasks : u # t => pc'[u] = pc[u]
  BY <1>1 DEF AgentInv, TypeOK
<1>6. \A u \in Tasks : /\ Answered(u)' <=> Answered(u)
                       /\ Busy(u)' <=> Busy(u)
                       /\ pc[u] = "wait" => u # t /\ pc'[u] = "wait"
  BY <1>1, <1>5 DEF Answered, Busy
<1>7. TypeOK'
  BY <1>1, <1>3 DEF AgentInv, TypeOK
<1>8. CallInv'
  BY <1>1, <1>6 DEF AgentInv, CallInv
<1>9. QueueInv'
  <2>1. \A i \in 1 .. Len(xCommandQueue) : /\ xCommandQueue[i].task # t
                                           /\ pc'[xCommandQueue[i].task] = "wait"
                                           /\ xCommandQueue[i] = xEventData[xCommandQueue[i].task]
    BY <1>6, PlaceFacts DEF AgentInv, QueueInv
  <2>2. \A i \in 1 .. Len(xCommandQueue') :
          /\ pc'[xCommandQueue'[i].task] = "wait"
          /\ xCommandQueue'[i] = xEventData[xCommandQueue'[i].task]
    BY <1>2, <1>4, <1>5, <2>1
  <2>3. \A i, j \in 1 .. Len(xCommandQueue') :
          xCommandQueue'[i].task = xCommandQueue'[j].task => i = j
    BY <1>2, <1>4, <2>1 DEF AgentInv, QueueInv
  <2>4. QED
    BY <1>1, <2>2, <2>3 DEF QueueInv
<1>10. SlotInv'
  <2>1. SUFFICES ASSUME NEW c \in Brokers, NEW s \in Slots, xWaitingTasks[c][s] # Free
                 PROVE  /\ pc'[xWaitingTasks[c][s].task] = "wait"
                        /\ \A i \in 1 .. Len(xCommandQueue') :
                              xCommandQueue'[i].task # xWaitingTasks[c][s].task
    BY <1>1 DEF AgentInv, SlotInv
  <2>2. QED
    BY <1>2, <1>4, <1>6, <2>1, PlaceFacts DEF AgentInv, SlotInv
<1>11. NotifyInv'
  BY <1>1, <1>2, <1>4, <1>6 DEF AgentInv, NotifyInv
<1>12. SessionInv'
  BY <1>1 DEF AgentInv, SessionInv
<1>13. ConnectInv'
  <2>1. ASSUME NEW u \in Tasks, Busy(u)', xEventData'[u].op = "Connect"
        PROVE  /\ xConnectionInUse'[xEventData'[u].broker] = u
               /\ pc'[u] # "wait"
                     \/ (\E i \in 1 .. Len(xCommandQueue') : xCommandQueue'[i].task = u) =>
                  ~ xSocket'[xEventData'[u].broker] /\ ~ mayConnect'[xEventData'[u].broker]
               /\ Answered(u)' /\ notification'[u].status # "pass" =>
                  ~ xSocket'[xEventData'[u].broker]
    <3>1. /\ xConnectionInUse[xEventData[u].broker] = u
          /\ pc[u] # "wait" \/ (\E i \in 1 .. Len(xCommandQueue) : xCommandQueue[i].task = u) =>
                ~ xSocket[xEventData[u].broker] /\ ~ mayConnect[xEventData[u].broker]
          /\ Answered(u) /\ notification[u].status # "pass" => ~ xSocket[xEventData[u].broker]
      BY <1>1, <1>6, <2>1 DEF AgentInv, ConnectInv
    <3>2. (\E i \in 1 .. Len(xCommandQueue') : xCommandQueue'[i].task = u) =>
              \/ \E i \in 1 .. Len(xCommandQueue) : xCommandQueue[i].task = u
              \/ u = t
      BY <1>2, <1>4
    <3>3. QED
      BY <1>1, <1>5, <1>6, <3>1, <3>2
  <2>2. QED
    BY <1>1, <1>6, <2>1 DEF AgentInv, ConnectInv
<1>14. QED
  BY <1>7, <1>8, <1>9, <1>10, <1>11, <1>12, <1>13 DEF AgentInv

(* A call returns: its task is in no place, and what it tells its owner of  *)
(* the connection is true.                                                  *)
LEMMA ReturnInv ==
  ASSUME AgentInv, NEW t \in Tasks, NEW status, Return(t, status), Busy(t),
         UNCHANGED <<xConnectionInUse, xSocket, state, outstanding, xWaitingTasks,
                     xCommandQueue, ulQueueMessageIdentifier>>,
         notification' \in [Tasks -> Replies \cup {Nothing, Foreign}],
         ~ Answered(t)',
         \A u \in Tasks : u # t => notification'[u] = notification[u],
         \A i \in 1 .. Len(xCommandQueue) : xCommandQueue[i].task # t,
         \A c \in Brokers, s \in Slots : xWaitingTasks[c][s].task # t,
         \/ xEventData[t].op = "Connect" /\ status # "pass"
         \/ /\ xEventData[t].op = "Disconnect" /\ status = "pass"
            /\ xConnectionInUse[xEventData[t].broker] = t
         => ~ xSocket[xEventData[t].broker]
  PROVE  AgentInv'
<1> DEFINE b == xEventData[t].broker
<1>1. b \in Brokers
  BY PlaceFacts
<1>2. /\ pc' = [pc EXCEPT ![t] = "idle"]
      /\ xEventData' = [xEventData EXCEPT ![t] = NoCommand]
      /\ DOMAIN mayConnect' = Brokers
      /\ mayConnect' \in [Brokers -> BOOLEAN]
      /\ \A c \in Brokers : c # b => mayConnect'[c] = mayConnect[c]
      /\ mayConnect'[b] =>
            \/ mayConnect[b]
            \/ xEventData[t].op = "Connect" /\ status # "pass"
            \/ xEventData[t].op = "Disconnect" /\ status = "pass" /\ xConnectionInUse[b] = t
      /\ mayConnect'[b] /\ ~ mayConnect[b] => xConnectionInUse[b] = t
  BY <1>1 DEF Return, AgentInv, TypeOK, ConnectInv
<1> HIDE DEF b
<1>3. TypeOK'
  BY <1>2 DEF AgentInv, TypeOK
<1>4. /\ pc'[t] = "idle"
      /\ \A u \in Tasks : u # t => pc'[u] = pc[u] /\ xEventData'[u] = xEventData[u]
  BY <1>2 DEF AgentInv, TypeOK
<1>5. ~ Busy(t)' /\ \A u \in Tasks : u # t =>
          (Busy(u)' <=> Busy(u)) /\ (Answered(u)' <=> Answered(u))
  BY <1>4 DEF Busy, Answered
<1>6. CallInv'
  BY <1>4, <1>5 DEF AgentInv, CallInv
<1>7. QueueInv'
  BY <1>4, PlaceFacts DEF AgentInv, QueueInv
<1>8. SlotInv' /\ SessionInv'
  <2>1. \A c \in Brokers, s \in Slots : xWaitingTasks[c][s] # Free =>
           xWaitingTasks[c][s].task \in Tasks \ {t}
    BY PlaceFacts
  <2>2. SlotInv'
    BY <1>4, <2>1, SMTT(30) DEF AgentInv, SlotInv
  <2>3. SessionInv'
    BY <1>4, <2>1, SMTT(30) DEF AgentInv, SessionInv
  <2>4. QED
    BY <2>2, <2>3
<1>9. NotifyInv'
  BY <1>4, <1>5 DEF AgentInv, NotifyInv
<1>10. ConnectInv'
  <2>1. \A c \in Brokers : mayConnect'[c] => ~ xSocket[c]
    BY <1>1, <1>2 DEF b, AgentInv, ConnectInv
  <2>2. ASSUME NEW u \in Tasks, Busy(u)', xEventData'[u].op = "Connect"
        PROVE  /\ xConnectionInUse'[xEventData'[u].broker] = u
               /\ pc'[u] # "wait"
                     \/ (\E i \in 1 .. Len(xCommandQueue') : xCommandQueue'[i].task = u) =>
                  ~ xSocket'[xEventData'[u].broker] /\ ~ mayConnect'[xEventData'[u].broker]
               /\ Answered(u)' /\ notification'[u].status # "pass" =>
                  ~ xSocket'[xEventData'[u].broker]
    <3>1. /\ u # t /\ Busy(u) /\ xEventData'[u] = xEventData[u] /\ pc'[u] = pc[u]
          /\ xEventData[u].broker \in Brokers
      BY <1>4, <1>5, <2>2, PlaceFacts
    <3>2. /\ xConnectionInUse[xEventData[u].broker] = u
          /\ pc[u] # "wait" \/ (\E i \in 1 .. Len(xCommandQueue) : xCommandQueue[i].task = u) =>
                ~ xSocket[xEventData[u].broker] /\ ~ mayConnect[xEventData[u].broker]
          /\ Answered(u) /\ notification[u].status # "pass" => ~ xSocket[xEventData[u].broker]
      BY <2>2, <3>1 DEF AgentInv, ConnectInv
    <3>3. mayConnect'[xEventData[u].broker] => mayConnect[xEventData[u].broker]
      BY <1>2, <3>1, <3>2
    <3>4. QED
      BY <1>5, <3>1, <3>2, <3>3
  <2>3. ASSUME NEW u \in Tasks, Answered(u)', xEventData'[u].op = "Disconnect",
               notification'[u].status = "pass", xConnectionInUse'[xEventData'[u].broker] = u
        PROVE  ~ xSocket'[xEventData'[u].broker]
    BY <1>4, <1>5, <2>3 DEF AgentInv, ConnectInv
  <2>4. QED
    BY <2>1, <2>2, <2>3 DEF ConnectInv
<1>11. QED
  BY <1>3, <1>6, <1>7, <1>8, <1>9, <1>10 DEF AgentInv

LEMMA QueueSendTimesOutInv ==
  ASSUME AgentInv, NEW t \in Tasks, QueueSendTimesOut(t)
  PROVE  AgentInv'
<1>1. /\ pc[t] = "send" /\ Busy(t)
      /\ Return(t, "fail")
      /\ UNCHANGED <<xConnectionInUse, xSocket, state, outstanding, xWaitingTasks,
                     xCommandQueue, ulQueueMessageIdentifier, notification>>
  BY DEF QueueSendTimesOut, connVars, Busy
<1>2. /\ ~ Answered(t)
      /\ \A i \in 1 .. Len(xCommandQueue) : xCommandQueue[i].task # t
  BY <1>1, PlaceFacts
<1>3. ASSUME NEW c \in Brokers, NEW s \in Slots
      PROVE  xWaitingTasks[c][s].task # t
  BY <1>1, PlaceFacts, WaitingFacts DEF AgentInv
<1>4. notification' \in [Tasks -> Replies \cup {Nothing, Foreign}] /\ ~ Answered(t)'
  BY <1>1, <1>2 DEF AgentInv, TypeOK, Answered
<1>5. xEventData[t].op = "Connect" => ~ xSocket[xEventData[t].broker]
  BY <1>1 DEF AgentInv, ConnectInv
<1>6. \A u \in Tasks : notification'[u] = notification[u]
  BY <1>1
<1>7. QED
  BY <1>1, <1>2, <1>3, <1>4, <1>5, <1>6, ReturnInv

LEMMA NotifyWaitInv ==
  ASSUME AgentInv, NEW t \in Tasks, NotifyWait(t)
  PROVE  AgentInv'
<1>1. /\ pc[t] = "wait" /\ Busy(t)
      /\ UNCHANGED <<xConnectionInUse, xSocket, state, outstanding, xWaitingTasks,
                     xCommandQueue, ulQueueMessageIdentifier>>
      /\ notification' = [notification EXCEPT ![t] = Nothing]
  BY DEF NotifyWait, connVars, Busy
<1>2. /\ notification' \in [Tasks -> Replies \cup {Nothing, Foreign}]
      /\ notification'[t] = Nothing
      /\ \A u \in Tasks : u # t => notification'[u] = notification[u]
  BY <1>1 DEF AgentInv, TypeOK
<1>3. ~ Answered(t)'
  BY <1>2 DEF Answered, Nothing
<1>4. CASE notification[t].id = xEventData[t].id /\ Return(t, notification[t].status)
  <2>1. Answered(t)
    BY <1>1, <1>4, PlaceFacts, AgentAssumption DEF Answered, Identifiers
  <2>2. /\ \A i \in 1 .. Len(xCommandQueue) : xCommandQueue[i].task # t
        /\ \A c \in Brokers, s \in Slots : xWaitingTasks[c][s].task # t
    BY <2>1 DEF AgentInv, NotifyInv
  <2>3. \/ xEventData[t].op = "Connect" /\ notification[t].status # "pass"
        \/ /\ xEventData[t].op = "Disconnect" /\ notification[t].status = "pass"
           /\ xConnectionInUse[xEventData[t].broker] = t
        => ~ xSocket[xEventData[t].broker]
    BY <1>1, <2>1 DEF AgentInv, ConnectInv
  <2>4. QED
    BY <1>1, <1>2, <1>3, <1>4, <2>2, <2>3, ReturnInv
<1>5. CASE /\ notification[t].id # xEventData[t].id
           /\ UNCHANGED <<pc, xEventData, mayConnect>>
  <2>1. ~ Answered(t)
    BY <1>5 DEF AgentInv, NotifyInv
  <2>2. \A u \in Tasks : /\ Answered(u)' <=> Answered(u)
                         /\ Answered(u) => notification'[u] = notification[u]
    BY <1>2, <1>3, <2>1 DEF Answered
  <2>3. TypeOK'
    BY <1>1, <1>2, <1>5 DEF AgentInv, TypeOK
  <2>4. CallInv' /\ QueueInv' /\ SlotInv' /\ SessionInv'
    BY <1>1, <1>5 DEF AgentInv, CallInv, QueueInv, SlotInv, SessionInv, Busy
  <2>5. NotifyInv' /\ ConnectInv'
    BY <1>1, <1>5, <2>2 DEF AgentInv, NotifyInv, ConnectInv, Busy
  <2>6. QED
    BY <2>3, <2>4, <2>5 DEF AgentInv
<1>6. QED
  BY <1>4, <1>5 DEF NotifyWait

-----------------------------------------------------------------------------
(* The steps of the MQTT task. *)

(* The oldest command: its task waits and is in no other place. *)
LEMMA HeadFacts ==
  ASSUME AgentInv, xCommandQueue # << >>, xCommandQueue' = Tail(xCommandQueue),
         NEW cmd, cmd = Head(xCommandQueue)
  PROVE  /\ cmd \in Commands /\ cmd.task \in Tasks /\ cmd.broker \in Brokers
         /\ cmd.id \in Identifiers
         /\ pc[cmd.task] = "wait" /\ Busy(cmd.task) /\ cmd = xEventData[cmd.task]
         /\ \A i \in 1 .. Len(xCommandQueue') : xCommandQueue'[i].task # cmd.task
         /\ \A c \in Brokers, s \in Slots : xWaitingTasks[c][s].task # cmd.task
         /\ ~ Answered(cmd.task)
         /\ cmd.op = "Connect" => /\ xConnectionInUse[cmd.broker] = cmd.task
                                  /\ ~ xSocket[cmd.broker]
                                  /\ ~ mayConnect[cmd.broker]
<1>1. /\ cmd = xCommandQueue[1]
      /\ cmd \in Commands
      /\ 1 \in 1 .. Len(xCommandQueue)
      /\ \A i \in 1 .. Len(xCommandQueue') : /\ i + 1 \in 1 .. Len(xCommandQueue)
                                             /\ i + 1 # 1
                                             /\ xCommandQueue'[i] = xCommandQueue[i + 1]
  <2>1. xCommandQueue \in Seq(Commands)
    BY DEF AgentInv, TypeOK
  <2>2. QED
    BY <2>1, TailFacts
<1>2. cmd.task \in Tasks /\ cmd.broker \in Brokers /\ cmd.id \in Identifiers
  BY <1>1 DEF Commands
<1>3. pc[cmd.task] = "wait" /\ Busy(cmd.task) /\ cmd = xEventData[cmd.task]
  BY <1>1 DEF AgentInv, QueueInv, Busy
<1>4. \A i \in 1 .. Len(xCommandQueue') : xCommandQueue'[i].task # cmd.task
  BY <1>1 DEF AgentInv, QueueInv
<1>5. ASSUME NEW c \in Brokers, NEW s \in Slots
      PROVE  xWaitingTasks[c][s].task # cmd.task
  BY <1>1, <1>2, WaitingFacts DEF AgentInv, SlotInv
<1>6. ~ Answered(cmd.task)
  BY <1>1, <1>2 DEF AgentInv, NotifyInv
<1>7. cmd.op = "Connect" => /\ xConnectionInUse[cmd.broker] = cmd.task
                            /\ ~ xSocket[cmd.broker]
                            /\ ~ mayConnect[cmd.broker]
  BY <1>1, <1>2, <1>3 DEF AgentInv, ConnectInv
<1>8. QED
  BY <1>1, <1>2, <1>3, <1>4, <1>5, <1>6, <1>7

(* No socket is opened, and what the notified tasks are told is true. *)
LEMMA ConnectKeptFacts ==
  ASSUME AgentInv, UNCHANGED appVars, QueueKept, NEW W,
         \A t \in Tasks :
             \/ notification'[t] = notification[t]
             \/ \E w \in W : /\ w.task = t
                             /\ notification'[t] = [id |-> w.id, status |-> w.status],
         \A w \in W : w.task \in Tasks /\ Busy(w.task),
         \A w \in W :
             \/ xEventData[w.task].op = "Connect" /\ w.status # "pass"
             \/ xEventData[w.task].op = "Disconnect" /\ w.status = "pass"
             => ~ xSocket'[xEventData[w.task].broker],
         \A c \in Brokers : /\ xSocket'[c] => xSocket[c]
                            /\ mayConnect'[c] => ~ xSocket'[c]
                            /\ mayConnect'[c] => mayConnect[c] \/ xSocket[c]
  PROVE  ConnectInv'
<1>1. \A i \in 1 .. Len(xCommandQueue') :
         \E j \in 1 .. Len(xCommandQueue) : xCommandQueue'[i] = xCommandQueue[j]
  BY QueueKeptFacts
<1>2. ASSUME NEW u \in Tasks, Busy(u), xEventData[u].op = "Connect"
      PROVE  /\ xConnectionInUse[xEventData[u].broker] = u
             /\ pc[u] # "wait"
                   \/ (\E i \in 1 .. Len(xCommandQueue') : xCommandQueue'[i].task = u) =>
                ~ xSocket'[xEventData[u].broker] /\ ~ mayConnect'[xEventData[u].broker]
             /\ Answered(u)' /\ notification'[u].status # "pass" =>
                ~ xSocket'[xEventData[u].broker]
  <2>1. xEventData[u].broker \in Brokers
    BY <1>2, PlaceFacts
  <2>2. /\ xConnectionInUse[xEventData[u].broker] = u
        /\ pc[u] # "wait" \/ (\E i \in 1 .. Len(xCommandQueue) : xCommandQueue[i].task = u) =>
              ~ xSocket[xEventData[u].broker] /\ ~ mayConnect[xEventData[u].broker]
        /\ Answered(u) /\ notification[u].status # "pass" => ~ xSocket[xEventData[u].broker]
    BY <1>2 DEF AgentInv, ConnectInv
  <2>3. Answered(u)' /\ notification'[u].status # "pass" => ~ xSocket'[xEventData[u].broker]
    <3>1. CASE notification'[u] = notification[u]
      BY <2>1, <2>2, <3>1 DEF Answered
    <3>2. CASE notification'[u] # notification[u]
      <4>1. PICK w \in W : /\ w.task = u
                           /\ notification'[u] = [id |-> w.id, status |-> w.status]
        BY <3>2
      <4>2. notification'[u].status = w.status
        BY <4>1
      <4>3. QED
        BY <1>2, <4>1, <4>2
    <3>3. QED
      BY <3>1, <3>2
  <2>4. QED
    BY <1>1, <2>1, <2>2, <2>3
<1>3. ASSUME NEW u \in Tasks, Answered(u)', xEventData[u].op = "Disconnect",
             notification'[u].status = "pass", xConnectionInUse[xEventData[u].broker] = u
      PROVE  ~ xSocket'[xEventData[u].broker]
  <2>1. CASE notification'[u] = notification[u]
    <3>1. Answered(u) /\ Busy(u)
      BY <1>3, <2>1, PlaceFacts DEF Answered, Busy
    <3>2. xEventData[u].broker \in Brokers /\ ~ xSocket[xEventData[u].broker]
      BY <1>3, <2>1, <3>1, PlaceFacts DEF AgentInv, ConnectInv
    <3>3. QED
      BY <3>2
  <2>2. CASE notification'[u] # notification[u]
    <3>1. PICK w \in W : /\ w.task = u
                         /\ notification'[u] = [id |-> w.id, status |-> w.status]
      BY <2>2
    <3>2. notification'[u].status = w.status
      BY <3>1
    <3>3. QED
      BY <1>3, <3>1, <3>2
  <2>3. QED
    BY <2>1, <2>2
<1>4. QED
  BY <1>2, <1>3 DEF ConnectInv, appVars, Busy

(* The command is answered at once. *)
LEMMA ReplyInv ==
  ASSUME AgentInv, xCommandQueue # << >>, xCommandQueue' = Tail(xCommandQueue),
         NEW cmd, cmd = Head(xCommandQueue), UNCHANGED <<appVars, connVars, mayConnect>>,
         NEW status \in {"pass", "fail", "timeout"}, Reply(cmd, status),
         cmd.op = "Connect" => status # "pass",
         cmd.op = "Disconnect" /\ status = "pass" => ~ xSocket[cmd.broker]
  PROVE  AgentInv'
<1> DEFINE W == Telling({cmd}, status)
<1>1. /\ W = {[task |-> cmd.task, id |-> cmd.id, status |-> status]}
      /\ prvNotifyRequestingTask(W)
      /\ \A w \in W : w.task = cmd.task /\ w.id = cmd.id /\ w.status = status
  BY DEF Telling, Reply
<1> HIDE DEF W
<1>2. UNCHANGED appVars /\ QueueKept
  BY DEF QueueKept
<1>3. /\ UNCHANGED <<xSocket, state, outstanding, xWaitingTasks, mayConnect>>
      /\ UNCHANGED <<xConnectionInUse, ulQueueMessageIdentifier, pc, xEventData>>
  BY DEF connVars, appVars
<1>4. /\ cmd.task \in Tasks
      /\ pc[cmd.task] = "wait" /\ Busy(cmd.task) /\ cmd = xEventData[cmd.task]
      /\ \A i \in 1 .. Len(xCommandQueue') : xCommandQueue'[i].task # cmd.task
      /\ \A c \in Brokers, s \in Slots : xWaitingTasks[c][s].task # cmd.task
      /\ cmd.op = "Connect" => ~ xSocket[cmd.broker]
  BY HeadFacts
<1>5. NotifyInv' /\ notification' \in [Tasks -> Replies \cup {Nothing, Foreign}]
  BY <1>1, <1>2, <1>3, <1>4, NotifyKeptFacts
<1>6. CallInv' /\ QueueInv' /\ xCommandQueue' \in Seq(Commands) /\ Len(xCommandQueue') <= QueueLength
  BY <1>2, QueueKeptFacts
<1>7. SlotInv'
  BY <1>2, <1>3, SlotsKeptFacts
<1>8. TypeOK'
  BY <1>3, <1>5, <1>6 DEF AgentInv, TypeOK
<1>9. SessionInv'
  BY <1>3 DEF AgentInv, SessionInv
<1>10. ConnectInv'
  <2>1. \A t \in Tasks :
           \/ notification'[t] = notification[t]
           \/ \E w \in W : /\ w.task = t
                           /\ notification'[t] = [id |-> w.id, status |-> w.status]
    BY <1>1, NotifyFacts, ZenonT(40) DEF AgentInv
  <2>2. \A c \in Brokers : /\ xSocket'[c] => xSocket[c]
                           /\ mayConnect'[c] => ~ xSocket'[c]
                           /\ mayConnect'[c] => mayConnect[c] \/ xSocket[c]
    BY <1>3 DEF AgentInv, ConnectInv
  <2>3. \A w \in W :
           /\ w.task \in Tasks /\ Busy(w.task)
           /\ \/ xEventData[w.task].op = "Connect" /\ w.status # "pass"
              \/ xEventData[w.task].op = "Disconnect" /\ w.status = "pass"
              => ~ xSocket'[xEventData[w.task].broker]
    BY <1>1, <1>3, <1>4
  <2>4. QED
    BY <1>2, <2>1, <2>2, <2>3, ConnectKeptFacts
<1>11. QED
  BY <1>5, <1>6, <1>7, <1>8, <1>9, <1>10 DEF AgentInv

LEMMA ClearSlotsFacts ==
  ASSUME TypeOK, NEW c \in Brokers, NEW S \in SUBSET Slots, ClearSlots(c, S)
  PROVE  /\ xWaitingTasks' \in [Brokers -> [Slots -> Waiting \cup {Free}]]
         /\ \A s \in S : xWaitingTasks'[c][s] = Free
         /\ \A d \in Brokers, s \in Slots :
               d # c \/ s \notin S => xWaitingTasks'[d][s] = xWaitingTasks[d][s]
  BY DEF TypeOK, ClearSlots

(* A session ends; besides the tasks in its slots those of V are told. *)
LEMMA SessionEndsInv ==
  ASSUME AgentInv, UNCHANGED appVars, QueueKept, NEW c \in Brokers, NEW V,
         SessionEnds(c, V),
         \A w \in V :
             /\ w.task \in Tasks /\ w.id = xEventData[w.task].id
             /\ w.status \in {"pass", "fail"}
             /\ pc[w.task] = "wait" /\ xEventData[w.task].broker = c
             /\ \A i \in 1 .. Len(xCommandQueue') : xCommandQueue'[i].task # w.task
             /\ \A d \in Brokers, s \in Slots : xWaitingTasks[d][s].task # w.task
  PROVE  AgentInv'
<1> DEFINE W == Telling(WaitingIn(c, UsedSlots(c)), "fail") \cup V
<1>1. /\ state[c] # "NotConnected"
      /\ state' = [state EXCEPT ![c] = "NotConnected"]
      /\ outstanding' = [outstanding EXCEPT ![c] = {}]
      /\ xSocket' = [xSocket EXCEPT ![c] = FALSE]
      /\ mayConnect' = [mayConnect EXCEPT ![c] = @ \/ xSocket[c]]
      /\ prvNotifyRequestingTask(W)
      /\ ClearSlots(c, UsedSlots(c))
      /\ UNCHANGED <<xConnectionInUse, ulQueueMessageIdentifier, pc, xEventData>>
  BY DEF SessionEnds, appVars
<1>2. \A w \in W : \/ w \in V
                   \/ \E s \in Slots : /\ xWaitingTasks[c][s] # Free
                                       /\ w.task = xWaitingTasks[c][s].task
                                       /\ w.id = xWaitingTasks[c][s].id
                                       /\ w.status = "fail"
  BY DEF Telling, WaitingIn, UsedSlots, FreeSlots
<1> HIDE DEF W
<1>3. UsedSlots(c) \in SUBSET Slots /\ \A s \in Slots : s \in UsedSlots(c) <=> xWaitingTasks[c][s] # Free
  BY DEF UsedSlots, FreeSlots
<1>4. /\ xWaitingTasks' \in [Brokers -> [Slots -> Waiting \cup {Free}]]
      /\ \A s \in Slots : xWaitingTasks'[c][s] = Free
      /\ \A d \in Brokers, s \in Slots : d # c => xWaitingTasks'[d][s] = xWaitingTasks[d][s]
  <2>1. TypeOK /\ ClearSlots(c, UsedSlots(c))
    BY <1>1 DEF AgentInv
  <2>2. /\ xWaitingTasks' \in [Brokers -> [Slots -> Waiting \cup {Free}]]
        /\ \A s \in UsedSlots(c) : xWaitingTasks'[c][s] = Free
        /\ \A d \in Brokers, s \in Slots :
              d # c \/ s \notin UsedSlots(c) => xWaitingTasks'[d][s] = xWaitingTasks[d][s]
    BY <1>3, <2>1, ClearSlotsFacts
  <2>3. QED
    BY <1>3, <2>2
<1>5. /\ ~ xSocket'[c] /\ state'[c] = "NotConnected" /\ outstanding'[c] = {}
      /\ mayConnect'[c] => mayConnect[c] \/ xSocket[c]
      /\ \A d \in Brokers : d # c => /\ xSocket'[d] = xSocket[d]
                                     /\ state'[d] = state[d]
                                     /\ outstanding'[d] = outstanding[d]
                                     /\ mayConnect'[d] = mayConnect[d]
  BY <1>1 DEF AgentInv, TypeOK
<1>6. CallInv' /\ QueueInv' /\ xCommandQueue' \in Seq(Commands) /\ Len(xCommandQueue') <= QueueLength
      /\ \A i \in 1 .. Len(xCommandQueue') :
               \E j \in 1 .. Len(xCommandQueue) : xCommandQueue'[i] = xCommandQueue[j]
  BY QueueKeptFacts
<1>7. \A d \in Brokers, s \in Slots : \/ xWaitingTasks'[d][s] = Free
                                      \/ xWaitingTasks'[d][s] = xWaitingTasks[d][s]
  BY <1>4
<1>8. SlotInv'
  BY <1>7, SlotsKeptFacts
<1>9. ASSUME NEW w \in W
      PROVE  /\ w.task \in Tasks /\ w.id = xEventData[w.task].id
             /\ w.status \in {"pass", "fail", "timeout"}
             /\ pc[w.task] = "wait" /\ xEventData[w.task].broker = c
             /\ \A i \in 1 .. Len(xCommandQueue') : xCommandQueue'[i].task # w.task
             /\ \A d \in Brokers, s \in Slots : xWaitingTasks'[d][s].task # w.task
  <2>0. Free.task \notin Tasks
    BY AgentAssumption DEF Free
  <2>1. CASE w \in V
    <3>1. w.task \in Tasks
      BY <2>1
    <3>2. ASSUME NEW d \in Brokers, NEW s \in Slots
          PROVE  xWaitingTasks'[d][s].task # w.task
      BY <1>7, <2>0, <2>1, <3>1
    <3>3. QED
      BY <2>1, <3>2
  <2>2. CASE \E s \in Slots : /\ xWaitingTasks[c][s] # Free
                              /\ w.task = xWaitingTasks[c][s].task
                              /\ w.id = xWaitingTasks[c][s].id
                              /\ w.status = "fail"
    <3>1. PICK s \in Slots : /\ xWaitingTasks[c][s] # Free
                             /\ w.task = xWaitingTasks[c][s].task
                             /\ w.id = xWaitingTasks[c][s].id
                             /\ w.status = "fail"
      BY <2>2
    <3>2. /\ w.task \in Tasks /\ pc[w.task] = "wait"
          /\ w.id = xEventData[w.task].id /\ xEventData[w.task].broker = c
          /\ \A i \in 1 .. Len(xCommandQueue) : xCommandQueue[i].task # w.task
      BY <3>1, PlaceFacts DEF AgentInv, SlotInv
    <3>3. ASSUME NEW d \in Brokers, NEW r \in Slots, xWaitingTasks'[d][r].task = w.task
          PROVE  FALSE
      <4>1. d # c
        BY <1>4, <2>0, <3>2, <3>3
      <4>2. xWaitingTasks[d][r].task = w.task /\ xWaitingTasks[d][r] # Free
        BY <1>4, <2>0, <3>2, <3>3, <4>1
      <4>3. xEventData[w.task].broker = d
        BY <4>2 DEF AgentInv, SlotInv
      <4>4. QED
        BY <3>2, <4>1, <4>3
    <3>4. QED
      BY <1>6, <3>1, <3>2, <3>3
  <2>3. QED
    BY <1>2, <2>1, <2>2
<1>10. NotifyInv' /\ notification' \in [Tasks -> Replies \cup {Nothing, Foreign}]
  BY <1>1, <1>7, <1>9, NotifyKeptFacts
<1>11. TypeOK'
  BY <1>1, <1>4, <1>6, <1>10 DEF AgentInv, TypeOK
<1>12. SessionInv'
  <2>1. \A d \in Brokers : xSocket'[d] <=> state'[d] # "NotConnected"
    BY <1>5 DEF AgentInv, SessionInv
  <2>2. ASSUME NEW d \in Brokers, NEW id \in Identifiers
        PROVE  id \in outstanding'[d] <=>
                  \E s \in Slots : xWaitingTasks'[d][s] # Free /\ xWaitingTasks'[d][s].id = id
    <3>1. CASE d = c
      BY <1>4, <1>5, <3>1
    <3>2. CASE d # c
      BY <1>4, <1>5, <3>2 DEF AgentInv, SessionInv
    <3>3. QED
      BY <3>1, <3>2
  <2>3. ASSUME NEW d \in Brokers, NEW s \in Slots, xWaitingTasks'[d][s] # Free
        PROVE  /\ state'[d] # "NotConnected"
               /\ xEventData'[xWaitingTasks'[d][s].task].op = "Connect" <=> state'[d] = "InProgress"
    BY <1>1, <1>4, <1>5, <2>3 DEF AgentInv, SessionInv
  <2>4. QED
    BY <2>1, <2>2, <2>3 DEF SessionInv
<1>13. ConnectInv'
  <2>1. \A t \in Tasks :
           \/ notification'[t] = notification[t]
           \/ \E w \in W : /\ w.task = t
                           /\ notification'[t] = [id |-> w.id, status |-> w.status]
    BY <1>1, NotifyFacts DEF AgentInv
  <2>2. \A d \in Brokers : /\ xSocket'[d] => xSocket[d]
                           /\ mayConnect'[d] => ~ xSocket'[d]
                           /\ mayConnect'[d] => mayConnect[d] \/ xSocket[d]
    BY <1>5 DEF AgentInv, ConnectInv
  <2>3. \A w \in W : /\ w.task \in Tasks /\ Busy(w.task)
                     /\ ~ xSocket'[xEventData[w.task].broker]
    BY <1>5, <1>9 DEF Busy
  <2>4. QED
    BY <2>1, <2>2, <2>3, ConnectKeptFacts
<1>14. QED
  BY <1>6, <1>8, <1>10, <1>11, <1>12, <1>13 DEF AgentInv

(* prvRetrieveNotificationData finds the one slot with the identifier. *)
LEMMA RetrieveFacts ==
  ASSUME AgentInv, NEW c \in Brokers, NEW id \in outstanding[c]
  PROVE  \E s \in Slots :
            /\ prvRetrieveNotificationData(c, id) = {s}
            /\ xWaitingTasks[c][s] # Free /\ xWaitingTasks[c][s].id = id
            /\ \A r \in Slots : xWaitingTasks[c][r].id = id => r = s
<1>1. id \in Identifiers
  BY DEF AgentInv, TypeOK
<1>2. PICK s \in Slots : xWaitingTasks[c][s] # Free /\ xWaitingTasks[c][s].id = id
  BY <1>1 DEF AgentInv, SessionInv
<1>3. ASSUME NEW r \in Slots, xWaitingTasks[c][r].id = id
      PROVE  r = s
  <2>1. xWaitingTasks[c][r] # Free
    BY <1>1, <1>3, WaitingFacts DEF AgentInv
  <2>2. /\ Busy(xWaitingTasks[c][r].task) /\ Busy(xWaitingTasks[c][s].task)
        /\ xWaitingTasks[c][r].task \in Tasks /\ xWaitingTasks[c][s].task \in Tasks
        /\ xEventData[xWaitingTasks[c][r].task].id = id
        /\ xEventData[xWaitingTasks[c][s].task].id = id
    BY <1>2, <1>3, <2>1, PlaceFacts DEF AgentInv, SlotInv, Busy
  <2>3. xWaitingTasks[c][r].task = xWaitingTasks[c][s].task
    BY <2>2 DEF AgentInv, CallInv
  <2>4. QED
    BY <1>2, <2>3 DEF AgentInv, SlotInv
<1>4. \A r \in Slots : r \in UsedSlots(c) <=> xWaitingTasks[c][r] # Free
  BY DEF UsedSlots, FreeSlots
<1>5. UsedSlots(c) \subseteq Slots /\ s \in Int /\ s <= s
  BY DEF UsedSlots, Slots
<1>6. prvRetrieveNotificationData(c, id) = {s}
  BY <1>2, <1>3, <1>4, <1>5 DEF prvRetrieveNotificationData
<1>7. QED
  BY <1>2, <1>3, <1>6

(* The library is done with a packet: with the CONNECT packet, which it can *)
(* only be by a CONNACK, or with one of a session.                          *)
LEMMA FinishedInv ==
  ASSUME AgentInv, NEW c \in Brokers, NEW id \in outstanding[c],
         NEW status \in {"pass", "fail", "timeout"}, Finished(c, id, status),
         \/ state[c] = "Connected" /\ UNCHANGED state
         \/ /\ state[c] = "InProgress" /\ status = "pass"
            /\ state' = [state EXCEPT ![c] = "Connected"]
  PROVE  AgentInv'
<1>1. PICK s \in Slots :
         /\ prvRetrieveNotificationData(c, id) = {s}
         /\ xWaitingTasks[c][s] # Free /\ xWaitingTasks[c][s].id = id
         /\ \A r \in Slots : xWaitingTasks[c][r].id = id => r = s
  BY RetrieveFacts
<1> DEFINE t == xWaitingTasks[c][s].task
           W == Telling(WaitingIn(c, {s}), status)
<1>2. /\ outstanding' = [outstanding EXCEPT ![c] = @ \ {id}]
      /\ prvNotifyRequestingTask(W)
      /\ ClearSlots(c, {s})
      /\ UNCHANGED <<xSocket, mayConnect>>
      /\ UNCHANGED appVars
      /\ UNCHANGED <<xConnectionInUse, ulQueueMessageIdentifier, pc, xEventData>>
      /\ QueueKept
  BY <1>1 DEF Finished, appVars, QueueKept
<1>3. \A w \in W : w.task = t /\ w.id = id /\ w.status = status
  BY <1>1 DEF Telling, WaitingIn
<1>4. /\ t \in Tasks /\ pc[t] = "wait" /\ Busy(t)
      /\ xEventData[t].id = id /\ xEventData[t].broker = c /\ xEventData[t].op # "Disconnect"
      /\ \A i \in 1 .. Len(xCommandQueue) : xCommandQueue[i].task # t
      /\ \A r \in Slots : xWaitingTasks[c][r].task = t => r = s
      /\ xEventData[t].op = "Connect" <=> state[c] = "InProgress"
  BY <1>1, PlaceFacts DEF AgentInv, SlotInv, SessionInv, Busy
<1> HIDE DEF W
<1>5. /\ xWaitingTasks' \in [Brokers -> [Slots -> Waiting \cup {Free}]]
      /\ xWaitingTasks'[c][s] = Free
      /\ \A d \in Brokers, r \in Slots :
            d # c \/ r # s => xWaitingTasks'[d][r] = xWaitingTasks[d][r]
  <2>1. TypeOK /\ {s} \in SUBSET Slots
    BY DEF AgentInv
  <2>2. /\ xWaitingTasks' \in [Brokers -> [Slots -> Waiting \cup {Free}]]
        /\ \A r \in {s} : xWaitingTasks'[c][r] = Free
        /\ \A d \in Brokers, r \in Slots :
              d # c \/ r \notin {s} => xWaitingTasks'[d][r] = xWaitingTasks[d][r]
    BY <1>2, <2>1, ClearSlotsFacts
  <2>3. QED
    BY <2>2
<1>6. /\ outstanding'[c] = outstanding[c] \ {id}
      /\ state'[c] = "Connected" /\ xSocket' = xSocket
      /\ \A d \in Brokers : d # c => state'[d] = state[d] /\ outstanding'[d] = outstanding[d]
  BY <1>2 DEF AgentInv, TypeOK
<1>7. /\ CallInv' /\ QueueInv' /\ xCommandQueue' \in Seq(Commands)
      /\ Len(xCommandQueue') <= QueueLength
      /\ \A i \in 1 .. Len(xCommandQueue') :
            \E j \in 1 .. Len(xCommandQueue) : xCommandQueue'[i] = xCommandQueue[j]
  BY <1>2, QueueKeptFacts
<1>8. \A d \in Brokers, r \in Slots : \/ xWaitingTasks'[d][r] = Free
                                      \/ xWaitingTasks'[d][r] = xWaitingTasks[d][r]
  BY <1>5
<1>9. SlotInv'
  BY <1>2, <1>8, SlotsKeptFacts
<1>10. ASSUME NEW d \in Brokers, NEW r \in Slots
       PROVE  xWaitingTasks'[d][r].task # t
  <2>1. Free.task # t
    BY <1>4, AgentAssumption DEF Free
  <2>2. CASE d = c
    BY <1>4, <1>5, <2>1, <2>2
  <2>3. CASE d # c
    BY <1>4, <1>5, <2>1, <2>3 DEF AgentInv, SlotInv
  <2>4. QED
    BY <2>2, <2>3
<1>11. NotifyInv' /\ notification' \in [Tasks -> Replies \cup {Nothing, Foreign}]
  <2>1. \A w \in W :
           /\ w.task \in Tasks /\ w.id = xEventData[w.task].id
           /\ w.status \in {"pass", "fail", "timeout"}
           /\ pc[w.task] = "wait"
           /\ \A i \in 1 .. Len(xCommandQueue') : xCommandQueue'[i].task # w.task
           /\ \A d \in Brokers, r \in Slots : xWaitingTasks'[d][r].task # w.task
    BY <1>3, <1>4, <1>7, <1>10
  <2>2. QED
    BY <1>2, <1>8, <2>1, NotifyKeptFacts
<1>12. TypeOK'
  BY <1>2, <1>5, <1>6, <1>7, <1>11 DEF AgentInv, TypeOK
<1>13. SessionInv'
  <2>1. \A d \in Brokers : xSocket'[d] <=> state'[d] # "NotConnected"
    BY <1>6 DEF AgentInv, SessionInv
  <2>2. ASSUME NEW d \in Brokers, NEW i \in Identifiers
        PROVE  i \in outstanding'[d] <=>
                  \E r \in Slots : xWaitingTasks'[d][r] # Free /\ xWaitingTasks'[d][r].id = i
    <3>1. i \in outstanding[d] <=>
             \E r \in Slots : xWaitingTasks[d][r] # Free /\ xWaitingTasks[d][r].id = i
      BY DEF AgentInv, SessionInv
    <3>2. QED
      BY <1>1, <1>5, <1>6, <3>1
  <2>3. ASSUME NEW d \in Brokers, NEW r \in Slots, xWaitingTasks'[d][r] # Free
        PROVE  /\ state'[d] # "NotConnected"
               /\ xEventData'[xWaitingTasks'[d][r].task].op = "Connect" <=> state'[d] = "InProgress"
    <3>1. /\ xWaitingTasks'[d][r] = xWaitingTasks[d][r] /\ xEventData' = xEventData
          /\ d # c \/ r # s
          /\ xWaitingTasks[d][r] # Free
      BY <1>2, <1>5, <2>3
    <3>2. /\ state[d] # "NotConnected"
          /\ xEventData[xWaitingTasks[d][r].task].op = "Connect" <=> state[d] = "InProgress"
      BY <3>1 DEF AgentInv, SessionInv
    <3>3. CASE d # c
      BY <1>2, <1>6, <3>1, <3>2, <3>3
    <3>4. CASE d = c /\ state[c] = "InProgress"
      <4>1. /\ xWaitingTasks[c][r].task \in Tasks /\ Busy(xWaitingTasks[c][r].task)
            /\ xEventData[xWaitingTasks[c][r].task].broker = c
        BY <3>1, <3>4, PlaceFacts DEF AgentInv, SlotInv, Busy
      <4>2. xConnectionInUse[c] = xWaitingTasks[c][r].task
        BY <3>2, <3>4, <4>1 DEF AgentInv, ConnectInv
      <4>3. xConnectionInUse[c] = t
        BY <1>4, <3>4 DEF AgentInv, ConnectInv
      <4>4. QED
        BY <1>4, <3>1, <3>4, <4>2, <4>3
    <3>5. CASE d = c /\ state[c] = "Connected"
      BY <1>2, <1>6, <3>1, <3>2, <3>5
    <3>6. QED
      BY <3>3, <3>4, <3>5
  <2>4. QED
    BY <2>1, <2>2, <2>3 DEF SessionInv
<1>14. ConnectInv'
  <2>1. \A u \in Tasks :
           \/ notification'[u] = notification[u]
           \/ \E w \in W : /\ w.task = u
                           /\ notification'[u] = [id |-> w.id, status |-> w.status]
    BY <1>2, NotifyFacts DEF AgentInv
  <2>2. \A d \in Brokers : /\ xSocket'[d] => xSocket[d]
                           /\ mayConnect'[d] => ~ xSocket'[d]
                           /\ mayConnect'[d] => mayConnect[d] \/ xSocket[d]
    BY <1>2 DEF AgentInv, ConnectInv
  <2>3. \A w \in W :
           /\ w.task \in Tasks /\ Busy(w.task)
           /\ ~ (xEventData[w.task].op = "Connect" /\ w.status # "pass")
           /\ xEventData[w.task].op # "Disconnect"
    BY <1>3, <1>4
  <2>4. QED
    BY <1>2, <2>1, <2>2, <2>3, ConnectKeptFacts
<1>15. QED
  BY <1>7, <1>9, <1>11, <1>12, <1>13, <1>14 DEF AgentInv

(* The command moves from the queue into a free slot of its connection. *)
LEMMA StoreFacts ==
  ASSUME AgentInv, xCommandQueue # << >>, xCommandQueue' = Tail(xCommandQueue),
         NEW cmd, cmd = Head(xCommandQueue), cmd.op # "Disconnect",
         UNCHANGED <<appVars, notification>>, prvStoreNotificationData(cmd)
  PROVE  /\ CallInv' /\ QueueInv' /\ SlotInv' /\ NotifyInv'
         /\ xCommandQueue' \in Seq(Commands) /\ Len(xCommandQueue') <= QueueLength
         /\ xWaitingTasks' \in [Brokers -> [Slots -> Waiting \cup {Free}]]
         /\ \E s \in Slots :
               /\ xWaitingTasks[cmd.broker][s] = Free
               /\ xWaitingTasks'[cmd.broker][s] = [task |-> cmd.task, id |-> cmd.id]
               /\ xWaitingTasks'[cmd.broker][s] # Free
               /\ \A d \in Brokers, r \in Slots :
                     d # cmd.broker \/ r # s => xWaitingTasks'[d][r] = xWaitingTasks[d][r]
<1> DEFINE b == cmd.broker
           u == cmd.task
<1>1. /\ u \in Tasks /\ b \in Brokers /\ cmd.id \in Identifiers
      /\ pc[u] = "wait" /\ cmd = xEventData[u]
      /\ \A i \in 1 .. Len(xCommandQueue') : xCommandQueue'[i].task # u
      /\ \A c \in Brokers, s \in Slots : xWaitingTasks[c][s].task # u
      /\ ~ Answered(u)
  BY HeadFacts
<1>2. /\ UNCHANGED <<xConnectionInUse, ulQueueMessageIdentifier, pc, xEventData, notification>>
      /\ UNCHANGED appVars /\ QueueKept
  BY DEF appVars, QueueKept
<1>3. /\ CallInv' /\ QueueInv' /\ xCommandQueue' \in Seq(Commands)
      /\ Len(xCommandQueue') <= QueueLength
      /\ \A i \in 1 .. Len(xCommandQueue') :
            \E j \in 1 .. Len(xCommandQueue) : xCommandQueue'[i] = xCommandQueue[j]
  BY <1>2, QueueKeptFacts
<1> DEFINE new == [task |-> u, id |-> cmd.id]
<1>4. PICK s \in Slots :
         /\ xWaitingTasks[b][s] = Free
         /\ xWaitingTasks' = [xWaitingTasks EXCEPT ![b][s] = new]
  BY DEF prvStoreNotificationData, FreeSlots
<1>5. new \in Waiting /\ new # Free /\ new.task = u /\ new.id = cmd.id
  BY <1>1, AgentAssumption DEF Waiting, Free
<1> HIDE DEF new
<1>6. /\ xWaitingTasks' \in [Brokers -> [Slots -> Waiting \cup {Free}]]
      /\ xWaitingTasks'[b][s] = new
      /\ \A d \in Brokers, r \in Slots :
            d # b \/ r # s => xWaitingTasks'[d][r] = xWaitingTasks[d][r]
  BY <1>1, <1>4, <1>5 DEF AgentInv, TypeOK
<1>7. SlotInv'
  <2>1. ASSUME NEW c \in Brokers, NEW r \in Slots, xWaitingTasks'[c][r] # Free
        PROVE  /\ pc[xWaitingTasks'[c][r].task] = "wait"
               /\ xEventData[xWaitingTasks'[c][r].task].id = xWaitingTasks'[c][r].id
               /\ xEventData[xWaitingTasks'[c][r].task].broker = c
               /\ xEventData[xWaitingTasks'[c][r].task].op # "Disconnect"
               /\ \A i \in 1 .. Len(xCommandQueue') :
                     xCommandQueue'[i].task # xWaitingTasks'[c][r].task
               /\ \A q \in Slots : xWaitingTasks'[c][q].task = xWaitingTasks'[c][r].task => q = r
    <3>1. CASE c = b /\ r = s
      <4>1. xWaitingTasks'[c][r] = new /\ new.task = u /\ new.id = cmd.id /\ c = cmd.broker
        BY <1>5, <1>6, <3>1
      <4>2. ASSUME NEW q \in Slots, xWaitingTasks'[c][q].task = u PROVE q = r
        BY <1>1, <1>6, <3>1, <4>2
      <4>3. QED
        BY <1>1, <4>1, <4>2
    <3>2. CASE c # b \/ r # s
      <4>1. xWaitingTasks'[c][r] = xWaitingTasks[c][r] /\ xWaitingTasks[c][r] # Free
        BY <1>6, <2>1, <3>2
      <4>2. /\ pc[xWaitingTasks[c][r].task] = "wait"
            /\ xEventData[xWaitingTasks[c][r].task].id = xWaitingTasks[c][r].id
            /\ xEventData[xWaitingTasks[c][r].task].broker = c
            /\ xEventData[xWaitingTasks[c][r].task].op # "Disconnect"
            /\ \A i \in 1 .. Len(xCommandQueue) :
                  xCommandQueue[i].task # xWaitingTasks[c][r].task
            /\ \A q \in Slots : xWaitingTasks[c][q].task = xWaitingTasks[c][r].task => q = r
        BY <4>1 DEF AgentInv, SlotInv
      <4>3. xWaitingTasks[c][r].task # u
        BY <1>1
      <4>4. ASSUME NEW q \in Slots, xWaitingTasks'[c][q].task = xWaitingTasks'[c][r].task
            PROVE  q = r
        BY <1>5, <1>6, <4>1, <4>2, <4>3, <4>4
      <4>5. QED
        BY <1>3, <4>1, <4>2, <4>4
    <3>3. QED
      BY <3>1, <3>2
  <2>2. QED
    BY <1>2, <2>1 DEF SlotInv
<1>8. NotifyInv'
  <2>1. SUFFICES ASSUME NEW t \in Tasks, Answered(t)
                 PROVE  /\ pc[t] = "wait"
                        /\ notification[t].id = xEventData[t].id
                        /\ \A i \in 1 .. Len(xCommandQueue') : xCommandQueue'[i].task # t
                        /\ \A c \in Brokers, r \in Slots : xWaitingTasks'[c][r].task # t
    BY <1>2 DEF NotifyInv, Answered
  <2>2. /\ t # u /\ pc[t] = "wait" /\ notification[t].id = xEventData[t].id
        /\ \A i \in 1 .. Len(xCommandQueue) : xCommandQueue[i].task # t
        /\ \A c \in Brokers, r \in Slots : xWaitingTasks[c][r].task # t
    BY <1>1, <2>1 DEF AgentInv, NotifyInv
  <2>3. QED
    BY <1>3, <1>5, <1>6, <2>2
<1>9. QED
  BY <1>3, <1>4, <1>5, <1>6, <1>7, <1>8 DEF new

(* A CONNECT packet is sent. *)
LEMMA ConnectSentInv ==
  ASSUME AgentInv, xCommandQueue # << >>, xCommandQueue' = Tail(xCommandQueue),
         NEW cmd, cmd = Head(xCommandQueue), cmd.op = "Connect",
         UNCHANGED <<appVars, notification, mayConnect>>, prvStoreNotificationData(cmd),
         state[cmd.broker] = "NotConnected",
         xSocket' = [xSocket EXCEPT ![cmd.broker] = TRUE],
         state' = [state EXCEPT ![cmd.broker] = "InProgress"],
         outstanding' = [outstanding EXCEPT ![cmd.broker] = {cmd.id}]
  PROVE  AgentInv'
<1> DEFINE b == cmd.broker
           u == cmd.task
<1>1. /\ u \in Tasks /\ b \in Brokers /\ cmd.id \in Identifiers
      /\ pc[u] = "wait" /\ Busy(u) /\ cmd = xEventData[u]
      /\ \A i \in 1 .. Len(xCommandQueue') : xCommandQueue'[i].task # u
      /\ ~ Answered(u)
      /\ xConnectionInUse[b] = u /\ ~ xSocket[b] /\ ~ mayConnect[b]
  BY HeadFacts, ZenonT(60)
<1>2. UNCHANGED <<xConnectionInUse, ulQueueMessageIdentifier, pc, xEventData, notification, mayConnect>>
  BY DEF appVars
<1>3. /\ CallInv' /\ QueueInv' /\ SlotInv' /\ NotifyInv'
      /\ xCommandQueue' \in Seq(Commands) /\ Len(xCommandQueue') <= QueueLength
      /\ xWaitingTasks' \in [Brokers -> [Slots -> Waiting \cup {Free}]]
  BY StoreFacts
<1>4. PICK s \in Slots :
         /\ xWaitingTasks'[b][s] = [task |-> u, id |-> cmd.id]
         /\ xWaitingTasks'[b][s] # Free
         /\ \A d \in Brokers, r \in Slots :
               d # b \/ r # s => xWaitingTasks'[d][r] = xWaitingTasks[d][r]
  BY StoreFacts
<1>5. xWaitingTasks'[b][s].task = u /\ xWaitingTasks'[b][s].id = cmd.id
  BY <1>4
<1>6. \A r \in Slots : xWaitingTasks[b][r] = Free
  BY <1>1 DEF AgentInv, SessionInv
<1>7. /\ xSocket'[b] /\ state'[b] = "InProgress" /\ outstanding'[b] = {cmd.id}
      /\ \A d \in Brokers : d # b => /\ xSocket'[d] = xSocket[d]
                                     /\ state'[d] = state[d]
                                     /\ outstanding'[d] = outstanding[d]
  BY <1>1 DEF AgentInv, TypeOK
<1>8. TypeOK'
  BY <1>1, <1>2, <1>3 DEF AgentInv, TypeOK
<1>9. SessionInv'
  <2>1. \A d \in Brokers : xSocket'[d] <=> state'[d] # "NotConnected"
    BY <1>7 DEF AgentInv, SessionInv
  <2>2. ASSUME NEW d \in Brokers, NEW i \in Identifiers
        PROVE  i \in outstanding'[d] <=>
                  \E r \in Slots : xWaitingTasks'[d][r] # Free /\ xWaitingTasks'[d][r].id = i
    <3>1. CASE d = b
      BY <1>4, <1>5, <1>6, <1>7, <3>1, SMTT(30)
    <3>2. CASE d # b
      BY <1>4, <1>7, <3>2 DEF AgentInv, SessionInv
    <3>3. QED
      BY <3>1, <3>2
  <2>3. ASSUME NEW d \in Brokers, NEW r \in Slots, xWaitingTasks'[d][r] # Free
        PROVE  /\ state'[d] # "NotConnected"
               /\ xEventData'[xWaitingTasks'[d][r].task].op = "Connect" <=> state'[d] = "InProgress"
    <3>1. CASE d = b
      <4>1. r = s
        BY <1>4, <1>6, <2>3, <3>1
      <4>2. QED
        BY <1>1, <1>2, <1>5, <1>7, <3>1, <4>1
    <3>2. CASE d # b
      BY <1>2, <1>4, <1>7, <2>3, <3>2 DEF AgentInv, SessionInv
    <3>3. QED
      BY <3>1, <3>2
  <2>4. QED
    BY <2>1, <2>2, <2>3 DEF SessionInv
<1>10. ConnectInv'
  <2>1. \A i \in 1 .. Len(xCommandQueue') :
           \E j \in 1 .. Len(xCommandQueue) : xCommandQueue'[i] = xCommandQueue[j]
    BY QueueKeptFacts DEF QueueKept
  <2>2. \A d \in Brokers : mayConnect'[d] => ~ xSocket'[d]
    BY <1>1, <1>2, <1>7 DEF AgentInv, ConnectInv
  <2>3. ASSUME NEW t \in Tasks, Busy(t), xEventData[t].op = "Connect"
        PROVE  /\ xConnectionInUse[xEventData[t].broker] = t
               /\ pc[t] # "wait"
                     \/ (\E i \in 1 .. Len(xCommandQueue') : xCommandQueue'[i].task = t) =>
                  ~ xSocket'[xEventData[t].broker] /\ ~ mayConnect[xEventData[t].broker]
               /\ Answered(t) /\ notification[t].status # "pass" =>
                  ~ xSocket'[xEventData[t].broker]
    <3>1. CASE t = u
      BY <1>1, <3>1
    <3>2. CASE t # u
      <4>1. /\ xEventData[t].broker \in Brokers
            /\ xConnectionInUse[xEventData[t].broker] = t
            /\ pc[t] # "wait"
                  \/ (\E i \in 1 .. Len(xCommandQueue) : xCommandQueue[i].task = t) =>
                  ~ xSocket[xEventData[t].broker] /\ ~ mayConnect[xEventData[t].broker]
            /\ Answered(t) /\ notification[t].status # "pass" => ~ xSocket[xEventData[t].broker]
        BY <2>3, PlaceFacts DEF AgentInv, ConnectInv
      <4>2. xEventData[t].broker # b
        BY <1>1, <3>2, <4>1
      <4>3. QED
        BY <1>7, <2>1, <4>1, <4>2
    <3>3. QED
      BY <3>1, <3>2
  <2>4. ASSUME NEW t \in Tasks, Answered(t), xEventData[t].op = "Disconnect",
               notification[t].status = "pass", xConnectionInUse[xEventData[t].broker] = t
        PROVE  ~ xSocket'[xEventData[t].broker]
    <3>1. t # u /\ xEventData[t].broker \in Brokers /\ ~ xSocket[xEventData[t].broker]
      BY <1>1, <2>4, PlaceFacts DEF AgentInv, ConnectInv, Busy
    <3>2. QED
      BY <1>1, <1>7, <2>4, <3>1
  <2>5. \A t \in Tasks : (Busy(t)' <=> Busy(t)) /\ (Answered(t)' <=> Answered(t))
    BY <1>2 DEF Busy, Answered
  <2>6. QED
    BY <1>2, <2>2, <2>3, <2>4, <2>5 DEF ConnectInv
<1>11. QED
  BY <1>3, <1>8, <1>9, <1>10 DEF AgentInv

(* A packet that will be acknowledged is sent. *)
LEMMA RequestSentInv ==
  ASSUME AgentInv, xCommandQueue # << >>, xCommandQueue' = Tail(xCommandQueue),
         NEW cmd, cmd = Head(xCommandQueue), cmd.op \in Requests,
         UNCHANGED <<appVars, xSocket, state, notification, mayConnect>>,
         prvStoreNotificationData(cmd), state[cmd.broker] = "Connected",
         outstanding' = [outstanding EXCEPT ![cmd.broker] = @ \cup {cmd.id}]
  PROVE  AgentInv'
<1> DEFINE b == cmd.broker
           u == cmd.task
<1>1. /\ u \in Tasks /\ b \in Brokers /\ cmd.id \in Identifiers
      /\ cmd = xEventData[u] /\ cmd.op # "Connect" /\ cmd.op # "Disconnect"
  BY HeadFacts DEF Requests
<1>2. /\ UNCHANGED <<xConnectionInUse, ulQueueMessageIdentifier, pc, xEventData, xSocket,
                     state, notification, mayConnect>>
      /\ UNCHANGED appVars /\ QueueKept
  BY DEF appVars, QueueKept
<1>3. /\ CallInv' /\ QueueInv' /\ SlotInv' /\ NotifyInv'
      /\ xCommandQueue' \in Seq(Commands) /\ Len(xCommandQueue') <= QueueLength
      /\ xWaitingTasks' \in [Brokers -> [Slots -> Waiting \cup {Free}]]
  BY <1>1, StoreFacts
<1>4. PICK s \in Slots :
         /\ xWaitingTasks[b][s] = Free
         /\ xWaitingTasks'[b][s] = [task |-> u, id |-> cmd.id]
         /\ xWaitingTasks'[b][s] # Free
         /\ \A d \in Brokers, r \in Slots :
               d # b \/ r # s => xWaitingTasks'[d][r] = xWaitingTasks[d][r]
  BY <1>1, StoreFacts
<1>5. xWaitingTasks'[b][s].task = u /\ xWaitingTasks'[b][s].id = cmd.id
  BY <1>4
<1>6. /\ outstanding'[b] = outstanding[b] \cup {cmd.id}
      /\ \A d \in Brokers : d # b => outstanding'[d] = outstanding[d]
  BY <1>1 DEF AgentInv, TypeOK
<1>7. TypeOK'
  BY <1>1, <1>2, <1>3 DEF AgentInv, TypeOK
<1>8. SessionInv'
  <2>1. ASSUME NEW d \in Brokers, NEW i \in Identifiers
        PROVE  i \in outstanding'[d] <=>
                  \E r \in Slots : xWaitingTasks'[d][r] # Free /\ xWaitingTasks'[d][r].id = i
    <3>1. i \in outstanding[d] <=>
             \E r \in Slots : xWaitingTasks[d][r] # Free /\ xWaitingTasks[d][r].id = i
      BY DEF AgentInv, SessionInv
    <3>2. CASE d = b
      BY <1>4, <1>5, <1>6, <3>1, <3>2
    <3>3. CASE d # b
      BY <1>4, <1>6, <3>1, <3>3
    <3>4. QED
      BY <3>2, <3>3
  <2>2. ASSUME NEW d \in Brokers, NEW r \in Slots, xWaitingTasks'[d][r] # Free
        PROVE  /\ state'[d] # "NotConnected"
               /\ xEventData'[xWaitingTasks'[d][r].task].op = "Connect" <=> state'[d] = "InProgress"
    <3>1. CASE d = b /\ r = s
      BY <1>1, <1>2, <1>5, <3>1
    <3>2. CASE d # b \/ r # s
      BY <1>2, <1>4, <2>2, <3>2 DEF AgentInv, SessionInv
    <3>3. QED
      BY <3>1, <3>2
  <2>3. QED
    BY <1>2, <2>1, <2>2 DEF AgentInv, SessionInv
<1>9. ConnectInv'
  <2>0. PICK W : W = {}
    OBVIOUS
  <2>1. \A d \in Brokers : /\ xSocket'[d] => xSocket[d]
                           /\ mayConnect'[d] => ~ xSocket'[d]
                           /\ mayConnect'[d] => mayConnect[d] \/ xSocket[d]
    BY <1>2 DEF AgentInv, ConnectInv
  <2>2. \A t \in Tasks :
           \/ notification'[t] = notification[t]
           \/ \E w \in W : /\ w.task = t
                            /\ notification'[t] = [id |-> w.id, status |-> w.status]
    BY <1>2
  <2>3. \A w \in W :
           /\ w.task \in Tasks /\ Busy(w.task)
           /\ \/ xEventData[w.task].op = "Connect" /\ w.status # "pass"
              \/ xEventData[w.task].op = "Disconnect" /\ w.status = "pass"
              => ~ xSocket'[xEventData[w.task].broker]
    BY <2>0
  <2>4. QED
    BY <1>2, <2>1, <2>2, <2>3, ConnectKeptFacts
<1>10. QED
  BY <1>3, <1>7, <1>8, <1>9 DEF AgentInv

(* How each command leaves the queue. *)
LEMMA ReceiveCases ==
  ASSUME AgentInv, ReceiveCommand, NEW cmd, cmd = Head(xCommandQueue)
  PROVE  /\ xCommandQueue # << >> /\ xCommandQueue' = Tail(xCommandQueue) /\ UNCHANGED appVars
         /\ \/ /\ UNCHANGED <<connVars, mayConnect>>
               /\ \E status \in {"pass", "fail", "timeout"} :
                     /\ Reply(cmd, status)
                     /\ cmd.op = "Connect" => status # "pass"
                     /\ cmd.op = "Disconnect" /\ status = "pass" => ~ xSocket[cmd.broker]
            \/ /\ cmd.op = "Connect" /\ prvStoreNotificationData(cmd)
               /\ state[cmd.broker] = "NotConnected"
               /\ xSocket' = [xSocket EXCEPT ![cmd.broker] = TRUE]
               /\ state' = [state EXCEPT ![cmd.broker] = "InProgress"]
               /\ outstanding' = [outstanding EXCEPT ![cmd.broker] = {cmd.id}]
               /\ UNCHANGED <<notification, mayConnect>>
            \/ /\ cmd.op \in Requests /\ prvStoreNotificationData(cmd)
               /\ state[cmd.broker] = "Connected"
               /\ outstanding' = [outstanding EXCEPT ![cmd.broker] = @ \cup {cmd.id}]
               /\ UNCHANGED <<xSocket, state, notification, mayConnect>>
            \/ /\ cmd.op = "Disconnect"
               /\ \E status \in {"pass", "fail"} :
                     SessionEnds(cmd.broker, Telling({cmd}, status))
<1>1. /\ xCommandQueue # << >> /\ xCommandQueue' = Tail(xCommandQueue) /\ UNCHANGED appVars
      /\ \/ CommandExpired(cmd)
         \/ prvInitiateMQTTConnect(cmd)
         \/ prvInitiateMQTTDisconnect(cmd)
         \/ prvInitiateMQTTSubscribe(cmd)
         \/ prvInitiateMQTTUnSubscribe(cmd)
         \/ prvInitiateMQTTPublish(cmd)
  BY DEF ReceiveCommand
<1>2. cmd.broker \in Brokers /\ (cmd.op = "Connect" => ~ xSocket[cmd.broker])
  BY <1>1, HeadFacts
<1>3. CASE CommandExpired(cmd)
  BY <1>1, <1>3 DEF CommandExpired
<1>4. CASE prvInitiateMQTTConnect(cmd)
  <2>1. [xSocket EXCEPT ![cmd.broker] = xSocket[cmd.broker] /\ FreeSlots(cmd.broker) = {}] = xSocket
    BY <1>2, <1>4 DEF AgentInv, TypeOK, prvInitiateMQTTConnect
  <2>2. QED
    BY <1>1, <1>4, <2>1 DEF prvInitiateMQTTConnect, connVars
<1>5. CASE prvInitiateMQTTDisconnect(cmd)
  <2>1. state[cmd.broker] = "NotConnected" => ~ xSocket[cmd.broker]
    BY <1>2 DEF AgentInv, SessionInv
  <2>2. QED
    BY <1>1, <1>5, <2>1 DEF prvInitiateMQTTDisconnect
<1>6. ASSUME cmd.op \in Requests, InitiateRequest(cmd)
      PROVE  \/ /\ UNCHANGED <<connVars, mayConnect>> /\ Reply(cmd, "fail")
             \/ /\ prvStoreNotificationData(cmd)
                /\ state[cmd.broker] = "Connected"
                /\ outstanding' = [outstanding EXCEPT ![cmd.broker] = @ \cup {cmd.id}]
                /\ UNCHANGED <<xSocket, state, notification, mayConnect>>
  BY <1>6 DEF InitiateRequest, connVars
<1>7. CASE prvInitiateMQTTSubscribe(cmd) \/ prvInitiateMQTTUnSubscribe(cmd)
  BY <1>1, <1>6, <1>7 DEF prvInitiateMQTTSubscribe, prvInitiateMQTTUnSubscribe, Requests
<1>8. CASE prvInitiateMQTTPublish(cmd)
  BY <1>1, <1>6, <1>8 DEF prvInitiateMQTTPublish, Requests
<1>9. QED
  BY <1>1, <1>3, <1>4, <1>5, <1>7, <1>8

(* The tasks told that a disconnect has ended the session. *)
LEMMA TellingFacts ==
  ASSUME NEW cmd, NEW status
  PROVE  /\ \E w \in Telling({cmd}, status) : w.task = cmd.task
         /\ \A w \in Telling({cmd}, status) :
               w.task = cmd.task /\ w.id = cmd.id /\ w.status = status
<1> DEFINE v == [task |-> cmd.task, id |-> cmd.id, status |-> status]
<1>1. Telling({cmd}, status) = {v}
  BY DEF Telling
<1>2. v.task = cmd.task /\ v.id = cmd.id /\ v.status = status
  OBVIOUS
<1> HIDE DEF v
<1>3. QED
  BY <1>1, <1>2

LEMMA ReceiveCommandInv ==
  ASSUME AgentInv, ReceiveCommand
  PROVE  AgentInv'
<1> DEFINE cmd == Head(xCommandQueue)
<1>1. /\ xCommandQueue # << >> /\ xCommandQueue' = Tail(xCommandQueue) /\ UNCHANGED appVars
      /\ QueueKept
  BY DEF ReceiveCommand, QueueKept
<1> HIDE DEF cmd
<1>2. ASSUME UNCHANGED <<connVars, mayConnect>>,
             NEW status \in {"pass", "fail", "timeout"}, Reply(cmd, status),
             cmd.op = "Connect" => status # "pass",
             cmd.op = "Disconnect" /\ status = "pass" => ~ xSocket[cmd.broker]
      PROVE  AgentInv'
  BY <1>1, <1>2, ReplyInv DEF cmd
<1>3. ASSUME NEW status \in {"pass", "fail"},
             SessionEnds(cmd.broker, Telling({cmd}, status))
      PROVE  AgentInv'
  <2>1. /\ cmd.task \in Tasks /\ cmd.broker \in Brokers
        /\ pc[cmd.task] = "wait" /\ cmd = xEventData[cmd.task]
        /\ \A i \in 1 .. Len(xCommandQueue') : xCommandQueue'[i].task # cmd.task
        /\ \A c \in Brokers, s \in Slots : xWaitingTasks[c][s].task # cmd.task
    BY <1>1, HeadFacts DEF cmd
  <2>2. \A w \in Telling({cmd}, status) :
          /\ w.task \in Tasks /\ w.id = xEventData[w.task].id
          /\ w.status \in {"pass", "fail"}
          /\ pc[w.task] = "wait" /\ xEventData[w.task].broker = cmd.broker
          /\ \A i \in 1 .. Len(xCommandQueue') : xCommandQueue'[i].task # w.task
          /\ \A d \in Brokers, s \in Slots : xWaitingTasks[d][s].task # w.task
    BY <2>1, TellingFacts
  <2>3. QED
    BY <1>1, <1>3, <2>1, <2>2, SessionEndsInv
<1>4. CASE /\ cmd.op = "Connect" /\ prvStoreNotificationData(cmd)
           /\ state[cmd.broker] = "NotConnected"
           /\ xSocket' = [xSocket EXCEPT ![cmd.broker] = TRUE]
           /\ state' = [state EXCEPT ![cmd.broker] = "InProgress"]
           /\ outstanding' = [outstanding EXCEPT ![cmd.broker] = {cmd.id}]
           /\ UNCHANGED <<notification, mayConnect>>
  BY <1>1, <1>4, ConnectSentInv DEF cmd
<1>5. CASE /\ cmd.op \in Requests /\ prvStoreNotificationData(cmd)
           /\ state[cmd.broker] = "Connected"
           /\ outstanding' = [outstanding EXCEPT ![cmd.broker] = @ \cup {cmd.id}]
           /\ UNCHANGED <<xSocket, state, notification, mayConnect>>
  BY <1>1, <1>5, RequestSentInv DEF cmd
<1>6. QED
  BY <1>2, <1>3, <1>4, <1>5, ReceiveCases DEF cmd

LEMMA LibraryEventCases ==
  ASSUME NEW c \in Brokers, LibraryEvent(c)
  PROVE  \/ \E id \in outstanding[c], status \in {"pass", "fail", "timeout"} :
               /\ Finished(c, id, status)
               /\ \/ state[c] = "Connected" /\ UNCHANGED state
                  \/ /\ state[c] = "InProgress" /\ status = "pass"
                     /\ state' = [state EXCEPT ![c] = "Connected"]
         \/ SessionEnds(c, {}) /\ UNCHANGED <<xCommandQueue, appVars>>
<1>1. ASSUME NEW id \in outstanding[c], prvProcessReceivedCONNACK(c, id)
      PROVE  /\ Finished(c, id, "pass") /\ state[c] = "InProgress"
             /\ state' = [state EXCEPT ![c] = "Connected"]
  BY <1>1 DEF prvProcessReceivedCONNACK
<1>2. ASSUME NEW id \in outstanding[c],
             \/ prvProcessReceivedSUBACK(c, id) \/ prvProcessReceivedUNSUBACK(c, id)
             \/ prvProcessReceivedPUBACK(c, id) \/ prvProcessReceivedTimeout(c, id)
      PROVE  /\ \E status \in {"pass", "fail", "timeout"} : Finished(c, id, status)
             /\ state[c] = "Connected" /\ UNCHANGED state
  BY <1>2 DEF prvProcessReceivedSUBACK, prvProcessReceivedUNSUBACK,
              prvProcessReceivedPUBACK, prvProcessReceivedTimeout
<1>3. CASE ConnectTimeout(c) \/ ConnectionLost(c)
  BY <1>3 DEF ConnectTimeout, ConnectionLost
<1>4. QED
  BY <1>1, <1>2, <1>3 DEF LibraryEvent

LEMMA LibraryEventInv ==
  ASSUME AgentInv, NEW c \in Brokers, LibraryEvent(c)
  PROVE  AgentInv'
<1>1. ASSUME NEW id \in outstanding[c], NEW status \in {"pass", "fail", "timeout"},
             Finished(c, id, status),
             \/ state[c] = "Connected" /\ UNCHANGED state
             \/ /\ state[c] = "InProgress" /\ status = "pass"
                /\ state' = [state EXCEPT ![c] = "Connected"]
      PROVE  AgentInv'
  BY <1>1, FinishedInv
<1>2. ASSUME SessionEnds(c, {}), UNCHANGED <<xCommandQueue, appVars>>
      PROVE  AgentInv'
  <2>1. UNCHANGED appVars /\ QueueKept
    BY <1>2 DEF QueueKept
  <2>2. PICK V : V = {}
    OBVIOUS
  <2>3. SessionEnds(c, V)
    BY <1>2, <2>2
  <2>4. \A w \in V : FALSE
    BY <2>2
  <2>5. QED
    BY <2>1, <2>3, <2>4, SessionEndsInv
<1>3. QED
  BY <1>1, <1>2, LibraryEventCases

LEMMA NextInv == AgentInv /\ [Next]_vars => AgentInv'
<1> SUFFICES ASSUME AgentInv, [Next]_vars PROVE AgentInv'
  OBVIOUS
<1>1. ASSUME NEW t \in Tasks, AppStep(t)
      PROVE  AgentInv'
  BY <1>1, OwnerInv, TakeIdentifierInv, NotifyStateClearInv, QueueSendInv,
     QueueSendTimesOutInv, NotifyWaitInv, OtherNotificationInv DEF AppStep
<1>2. CASE UNCHANGED vars
  <2>1. UNCHANGED <<xConnectionInUse, xSocket, state, outstanding, xWaitingTasks,
                    xCommandQueue, ulQueueMessageIdentifier, pc, xEventData,
                    notification, mayConnect>>
    BY <1>2 DEF vars, connVars
  <2>2. TypeOK' /\ CallInv' /\ QueueInv' /\ SlotInv' /\ SessionInv'
    BY <2>1 DEF AgentInv, TypeOK, CallInv, QueueInv, SlotInv, SessionInv, Busy
  <2>3. NotifyInv' /\ ConnectInv'
    BY <2>1 DEF AgentInv, NotifyInv, ConnectInv, Answered, Busy
  <2>4. QED
    BY <2>2, <2>3 DEF AgentInv
<1>3. QED
  BY <1>1, <1>2, ReceiveCommandInv, LibraryEventInv DEF Next

-----------------------------------------------------------------------------
(* No reply is lost when nobody else notifies. *)

LEMMA OwedKeptFacts ==
  ASSUME AgentInv, OwedInv, UNCHANGED pc, NEW W, prvNotifyRequestingTask(W),
         \A w \in W : w.id \in Identifiers,
         \A t \in Tasks : pc[t] = "wait" /\ ~ Answered(t) =>
             \/ \E i \in 1 .. Len(xCommandQueue') : xCommandQueue'[i].task = t
             \/ \E c \in Brokers, s \in Slots : xWaitingTasks'[c][s].task = t
             \/ \E w \in W : w.task = t
  PROVE  OwedInv'
<1>1. SUFFICES ASSUME NEW t \in Tasks
               PROVE  /\ notification'[t] # Foreign
                      /\ pc[t] = "wait" =>
                            \/ \E i \in 1 .. Len(xCommandQueue') : xCommandQueue'[i].task = t
                            \/ \E c \in Brokers, s \in Slots : xWaitingTasks'[c][s].task = t
                            \/ Answered(t)'
  BY DEF OwedInv
<1>2. notification[t] # Foreign /\ (notification[t] = Nothing <=> ~ Answered(t))
  BY NotificationFacts DEF OwedInv, AgentInv, Answered, Nothing
<1>3. ASSUME NEW w \in W, notification'[t] = [id |-> w.id, status |-> w.status]
      PROVE  notification'[t] # Foreign /\ Answered(t)'
  <2>1. notification'[t].id # 0 /\ Foreign.id = 0
    BY <1>3, AgentAssumption DEF Identifiers, Foreign
  <2>2. QED
    BY <2>1 DEF Answered
<1>4. CASE notification'[t] # notification[t]
  <2>1. \E w \in W : notification'[t] = [id |-> w.id, status |-> w.status]
    BY <1>4, NotifyFacts DEF AgentInv
  <2>2. QED
    BY <1>3, <2>1
<1>5. CASE notification'[t] = notification[t]
  <2>1. CASE Answered(t)
    BY <1>2, <1>5, <2>1 DEF Answered
  <2>2. CASE ~ Answered(t) /\ \E w \in W : w.task = t
    <3>1. \E w \in W : notification'[t] = [id |-> w.id, status |-> w.status]
      BY <1>2, <2>2, NotifyFacts DEF AgentInv
    <3>2. QED
      BY <1>3, <3>1
  <2>3. CASE ~ Answered(t) /\ ~ \E w \in W : w.task = t
    BY <1>2, <1>5, <2>3
  <2>4. QED
    BY <2>1, <2>2, <2>3
<1>6. QED
  BY <1>4, <1>5

(* Who was in the queue stays in it, but for the oldest command. *)
LEMMA QueueLeft ==
  ASSUME AgentInv, QueueKept, NEW i \in 1 .. Len(xCommandQueue)
  PROVE  \/ \E j \in 1 .. Len(xCommandQueue') : xCommandQueue'[j] = xCommandQueue[i]
         \/ /\ xCommandQueue # << >> /\ xCommandQueue' = Tail(xCommandQueue)
            /\ xCommandQueue[i] = Head(xCommandQueue)
<1>1. xCommandQueue \in Seq(Commands)
  BY DEF AgentInv, TypeOK
<1>2. CASE xCommandQueue' = xCommandQueue
  BY <1>2
<1>3. CASE xCommandQueue # << >> /\ xCommandQueue' = Tail(xCommandQueue)
  <2>1. CASE i = 1
    BY <1>1, <1>3, <2>1
  <2>2. CASE i # 1
    <3>1. /\ i - 1 \in 1 .. Len(xCommandQueue')
          /\ xCommandQueue'[i - 1] = xCommandQueue[i]
      BY <1>1, <1>3, <2>2
    <3>2. QED
      BY <3>1
  <2>3. QED
    BY <2>1, <2>2
<1>4. QED
  BY <1>2, <1>3 DEF QueueKept

LEMMA SessionEndsOwed ==
  ASSUME AgentInv, OwedInv, UNCHANGED appVars, QueueKept, NEW c \in Brokers, NEW V,
         SessionEnds(c, V), \A w \in V : w.id \in Identifiers,
         xCommandQueue' = Tail(xCommandQueue) /\ xCommandQueue # << >> =>
             \/ xCommandQueue' = xCommandQueue
             \/ \E w \in V : w.task = Head(xCommandQueue).task
  PROVE  OwedInv'
<1> DEFINE W == Telling(WaitingIn(c, UsedSlots(c)), "fail") \cup V
<1>1. prvNotifyRequestingTask(W) /\ ClearSlots(c, UsedSlots(c)) /\ UNCHANGED pc
  BY DEF SessionEnds, appVars
<1>2. \A s \in Slots : s \in UsedSlots(c) <=> xWaitingTasks[c][s] # Free
  BY DEF UsedSlots, FreeSlots
<1>3. ASSUME NEW s \in Slots, xWaitingTasks[c][s] # Free
      PROVE  \E w \in W : w.task = xWaitingTasks[c][s].task
  <2> DEFINE w == [task |-> xWaitingTasks[c][s].task, id |-> xWaitingTasks[c][s].id,
                   status |-> "fail"]
  <2>1. xWaitingTasks[c][s] \in WaitingIn(c, UsedSlots(c))
    BY <1>2, <1>3 DEF WaitingIn
  <2>2. w \in W
    BY <2>1 DEF Telling
  <2>3. QED
    BY <2>2
<1>4. \A w \in W : w.id \in Identifiers
  <2>1. \A w \in Telling(WaitingIn(c, UsedSlots(c)), "fail") : \E s \in Slots :
           xWaitingTasks[c][s] # Free /\ w.id = xWaitingTasks[c][s].id
    BY DEF Telling, WaitingIn, UsedSlots, FreeSlots
  <2>2. QED
    BY <2>1, WaitingFacts DEF AgentInv
<1> HIDE DEF W
<1>5. V \subseteq W
  BY DEF W
<1>6. \A d \in Brokers, s \in Slots : d # c => xWaitingTasks'[d][s] = xWaitingTasks[d][s]
  <2>1. TypeOK /\ UsedSlots(c) \in SUBSET Slots
    BY DEF AgentInv, UsedSlots
  <2>2. QED
    BY <1>1, <2>1, ClearSlotsFacts
<1>7. ASSUME NEW t \in Tasks, pc[t] = "wait", ~ Answered(t)
      PROVE  \/ \E i \in 1 .. Len(xCommandQueue') : xCommandQueue'[i].task = t
             \/ \E d \in Brokers, s \in Slots : xWaitingTasks'[d][s].task = t
             \/ \E w \in W : w.task = t
  <2>1. CASE \E i \in 1 .. Len(xCommandQueue) : xCommandQueue[i].task = t
    <3>1. PICK i \in 1 .. Len(xCommandQueue) : xCommandQueue[i].task = t
      BY <2>1
    <3>2. QED
      BY <1>5, <3>1, QueueLeft
  <2>2. CASE \E d \in Brokers, s \in Slots : xWaitingTasks[d][s].task = t
    <3>1. PICK d \in Brokers, s \in Slots : xWaitingTasks[d][s].task = t
      BY <2>2
    <3>2. xWaitingTasks[d][s] # Free
      BY <3>1, AgentAssumption DEF Free
    <3>3. QED
      BY <1>3, <1>6, <3>1, <3>2
  <2>3. QED
    BY <1>7, <2>1, <2>2 DEF OwedInv
<1>8. QED
  BY <1>1, <1>4, <1>7, OwedKeptFacts

LEMMA FinishedOwed ==
  ASSUME AgentInv, OwedInv, NEW c \in Brokers, NEW id \in outstanding[c], NEW status,
         Finished(c, id, status)
  PROVE  OwedInv'
<1>1. PICK s \in Slots :
         /\ prvRetrieveNotificationData(c, id) = {s}
         /\ xWaitingTasks[c][s] # Free /\ xWaitingTasks[c][s].id = id
  BY RetrieveFacts
<1> DEFINE w == [task |-> xWaitingTasks[c][s].task, id |-> id, status |-> status]
           W == Telling(WaitingIn(c, {s}), status)
<1>2. W = {w} /\ w.task = xWaitingTasks[c][s].task /\ w.id = id
  BY <1>1 DEF Telling, WaitingIn
<1>3. prvNotifyRequestingTask(W) /\ ClearSlots(c, {s}) /\ UNCHANGED <<pc, xCommandQueue>>
  BY <1>1 DEF Finished, appVars
<1> HIDE DEF w, W
<1>4. id \in Identifiers
  BY DEF AgentInv, TypeOK
<1>5. \A d \in Brokers, r \in Slots : d # c \/ r # s => xWaitingTasks'[d][r] = xWaitingTasks[d][r]
  <2>1. TypeOK /\ {s} \in SUBSET Slots
    BY DEF AgentInv
  <2>2. \A d \in Brokers, r \in Slots :
           d # c \/ r \notin {s} => xWaitingTasks'[d][r] = xWaitingTasks[d][r]
    BY <1>3, <2>1, ClearSlotsFacts
  <2>3. QED
    BY <2>2
<1>6. ASSUME NEW t \in Tasks, pc[t] = "wait", ~ Answered(t)
      PROVE  \/ \E i \in 1 .. Len(xCommandQueue') : xCommandQueue'[i].task = t
             \/ \E d \in Brokers, r \in Slots : xWaitingTasks'[d][r].task = t
             \/ \E x \in W : x.task = t
  <2>1. CASE \E d \in Brokers, r \in Slots : xWaitingTasks[d][r].task = t
    BY <1>2, <1>5, <2>1
  <2>2. CASE \E i \in 1 .. Len(xCommandQueue) : xCommandQueue[i].task = t
    BY <1>3, <2>2
  <2>3. QED
    BY <1>6, <2>1, <2>2 DEF OwedInv
<1>7. QED
  BY <1>2, <1>3, <1>4, <1>6, OwedKeptFacts

LEMMA ReceiveCommandOwed ==
  ASSUME AgentInv, OwedInv, ReceiveCommand
  PROVE  OwedInv'
<1> DEFINE cmd == Head(xCommandQueue)
<1>1. /\ xCommandQueue # << >> /\ xCommandQueue' = Tail(xCommandQueue) /\ UNCHANGED appVars
      /\ QueueKept /\ UNCHANGED pc
  BY DEF ReceiveCommand, QueueKept, appVars
<1>2. cmd.task \in Tasks /\ cmd.broker \in Brokers /\ cmd.id \in Identifiers
  BY <1>1, HeadFacts
<1> HIDE DEF cmd
<1>3. ASSUME NEW status, Reply(cmd, status), UNCHANGED connVars
      PROVE  OwedInv'
  <2> DEFINE W == Telling({cmd}, status)
  <2>1. /\ prvNotifyRequestingTask(W) /\ UNCHANGED xWaitingTasks
        /\ \E w \in W : w.task = cmd.task
        /\ \A w \in W : w.id \in Identifiers
    BY <1>2, <1>3, TellingFacts DEF Reply, connVars
  <2> HIDE DEF W
  <2>2. ASSUME NEW t \in Tasks, pc[t] = "wait", ~ Answered(t)
        PROVE  \/ \E i \in 1 .. Len(xCommandQueue') : xCommandQueue'[i].task = t
               \/ \E d \in Brokers, r \in Slots : xWaitingTasks'[d][r].task = t
               \/ \E w \in W : w.task = t
    <3>1. CASE \E d \in Brokers, r \in Slots : xWaitingTasks[d][r].task = t
      BY <2>1, <3>1
    <3>2. CASE \E i \in 1 .. Len(xCommandQueue) : xCommandQueue[i].task = t
      <4>1. PICK i \in 1 .. Len(xCommandQueue) : xCommandQueue[i].task = t
        BY <3>2
      <4>2. QED
        BY <1>1, <2>1, <4>1, QueueLeft DEF cmd
    <3>3. QED
      BY <2>2, <3>1, <3>2 DEF OwedInv
  <2>3. QED
    BY <1>1, <2>1, <2>2, OwedKeptFacts
<1>4. ASSUME prvStoreNotificationData(cmd), UNCHANGED notification, cmd.op # "Disconnect"
      PROVE  OwedInv'
  <2>1. PICK s \in Slots :
           /\ xWaitingTasks[cmd.broker][s] = Free
           /\ xWaitingTasks'[cmd.broker][s] = [task |-> cmd.task, id |-> cmd.id]
           /\ \A d \in Brokers, r \in Slots :
                 d # cmd.broker \/ r # s => xWaitingTasks'[d][r] = xWaitingTasks[d][r]
    BY <1>1, <1>4, StoreFacts DEF cmd
  <2>2. xWaitingTasks'[cmd.broker][s].task = cmd.task
    BY <2>1
  <2>3. ASSUME NEW t \in Tasks, pc[t] = "wait", ~ Answered(t)
        PROVE  \/ \E i \in 1 .. Len(xCommandQueue') : xCommandQueue'[i].task = t
               \/ \E d \in Brokers, r \in Slots : xWaitingTasks'[d][r].task = t
    <3>1. CASE \E d \in Brokers, r \in Slots : xWaitingTasks[d][r].task = t
      <4>1. Free.task # t
        BY AgentAssumption DEF Free
      <4>2. QED
        BY <2>1, <3>1, <4>1
    <3>2. CASE \E i \in 1 .. Len(xCommandQueue) : xCommandQueue[i].task = t
      <4>1. PICK i \in 1 .. Len(xCommandQueue) : xCommandQueue[i].task = t
        BY <3>2
      <4>2. QED
        BY <1>1, <1>2, <2>2, <4>1, QueueLeft DEF cmd
    <3>3. QED
      BY <2>3, <3>1, <3>2 DEF OwedInv
  <2>4. \A t \in Tasks : notification'[t] = notification[t] /\ (Answered(t)' <=> Answered(t))
    BY <1>4 DEF Answered
  <2>5. QED
    BY <1>1, <2>3, <2>4 DEF OwedInv
<1>5. ASSUME NEW status \in {"pass", "fail"},
             SessionEnds(cmd.broker, Telling({cmd}, status))
      PROVE  OwedInv'
  <2>1. /\ \E w \in Telling({cmd}, status) : w.task = Head(xCommandQueue).task
        /\ \A w \in Telling({cmd}, status) : w.id \in Identifiers
    BY <1>2, TellingFacts DEF cmd
  <2>2. QED
    BY <1>1, <1>2, <1>5, <2>1, SessionEndsOwed
<1>6. QED
  BY <1>3, <1>4, <1>5, ReceiveCases DEF cmd, Requests

LEMMA AppStepOwed ==
  ASSUME AgentInv, OwedInv, ~ Strangers, NEW t \in Tasks, AppStep(t)
  PROVE  OwedInv'
<1>0. notification[t] # Foreign /\ (notification[t] # Nothing => Answered(t))
  BY NotificationFacts DEF OwedInv, AgentInv
<1>1. ASSUME UNCHANGED xWaitingTasks, UNCHANGED xCommandQueue, pc'[t] # "wait",
             notification'[t] # Foreign,
             \A u \in Tasks : u # t => pc'[u] = pc[u] /\ notification'[u] = notification[u]
      PROVE  OwedInv'
  BY <1>1 DEF OwedInv, Answered
<1>2. Nothing # Foreign
  BY DEF Nothing, Foreign
<1>3. ASSUME NEW c \in Brokers, MQTT_AGENT_Create(t, c) \/ MQTT_AGENT_Delete(t, c)
      PROVE  OwedInv'
  BY <1>0, <1>1, <1>3 DEF MQTT_AGENT_Create, MQTT_AGENT_Delete, connVars
<1>4. ASSUME NEW op \in Operations, NEW c \in Brokers, TakeIdentifier(t, op, c)
      PROVE  OwedInv'
  BY <1>0, <1>1, <1>4 DEF TakeIdentifier, connVars, AgentInv, TypeOK
<1>5. CASE NotifyStateClear(t)
  BY <1>1, <1>2, <1>5 DEF NotifyStateClear, connVars, AgentInv, TypeOK
<1>6. CASE QueueSend(t)
  <2>1. /\ UNCHANGED <<xWaitingTasks, notification>>
        /\ \A u \in Tasks : u # t => pc'[u] = pc[u]
        /\ pc[t] = "send"
    BY <1>6 DEF QueueSend, connVars, AgentInv, TypeOK
  <2>2. xEventData[t] \in Commands /\ xEventData[t].task = t
    BY <2>1 DEF AgentInv, CallInv, Busy
  <2>3. /\ \A i \in 1 .. Len(xCommandQueue) : i \in 1 .. Len(xCommandQueue') /\ xCommandQueue'[i] = xCommandQueue[i]
        /\ \E i \in 1 .. Len(xCommandQueue') : xCommandQueue'[i] = xEventData[t]
    <3>1. xCommandQueue \in Seq(Commands) /\ xCommandQueue' = Append(xCommandQueue, xEventData[t])
      BY <1>6 DEF QueueSend, AgentInv, TypeOK
    <3>2. /\ Len(xCommandQueue') \in 1 .. Len(xCommandQueue')
          /\ xCommandQueue'[Len(xCommandQueue')] = xEventData[t]
      BY <2>2, <3>1
    <3>3. QED
      BY <2>2, <3>1, <3>2
  <2>4. QED
    BY <2>1, <2>2, <2>3 DEF OwedInv, Answered
<1>7. CASE QueueSendTimesOut(t)
  BY <1>0, <1>1, <1>7 DEF QueueSendTimesOut, Return, connVars, AgentInv, TypeOK
<1>8. CASE NotifyWait(t)
  <2>1. notification[t].id = xEventData[t].id
    BY <1>0, <1>8 DEF NotifyWait, AgentInv, NotifyInv
  <2>2. QED
    BY <1>1, <1>2, <1>8, <2>1 DEF NotifyWait, Return, connVars, AgentInv, TypeOK
<1>9. ~ OtherNotification(t)
  BY DEF OtherNotification
<1>10. QED
  BY <1>3, <1>4, <1>5, <1>6, <1>7, <1>8, <1>9 DEF AppStep

LEMMA NextOwed ==
  ASSUME ~ Strangers
  PROVE  AgentInv /\ OwedInv /\ [Next]_vars => OwedInv'
<1> SUFFICES ASSUME AgentInv, OwedInv, [Next]_vars PROVE OwedInv'
  OBVIOUS
<1>1. ASSUME NEW c \in Brokers, LibraryEvent(c)
      PROVE  OwedInv'
  <2>1. ASSUME SessionEnds(c, {}), UNCHANGED <<xCommandQueue, appVars>>
        PROVE  OwedInv'
    <3>1. UNCHANGED appVars /\ QueueKept /\ xCommandQueue' = xCommandQueue
      BY <2>1 DEF QueueKept
    <3>2. PICK V : V = {}
      OBVIOUS
    <3>3. SessionEnds(c, V) /\ \A w \in V : w.id \in Identifiers
      BY <2>1, <3>2
    <3>4. QED
      BY <3>1, <3>3, SessionEndsOwed
  <2>2. QED
    BY <1>1, <2>1, LibraryEventCases, FinishedOwed
<1>2. CASE UNCHANGED vars
  BY <1>2 DEF vars, connVars, OwedInv, Answered
<1>3. QED
  BY <1>1, <1>2, AppStepOwed, ReceiveCommandOwed DEF Next

-----------------------------------------------------------------------------
(* The theorems. *)

(* The inductive invariant of the agent, whoever else notifies its tasks. *)
THEOREM AgentInvariant == Spec => []AgentInv
  BY InitInv, NextInv, PTL DEF Spec

(* The state of the agent is always of its type. *)
THEOREM AgentTypeCorrect == Spec => []TypeOK
<1>1. AgentInv => TypeOK
  BY DEF AgentInv
<1>2. QED
  BY <1>1, AgentInvariant, PTL

(* What is owed to a task, in prvMQTTTask's queue, in a notification slot   *)
(* or as a pending notification, carries the identifier its call waits for  *)
(* on the connection it asked.                                              *)
THEOREM AgentRepliesMatch == Spec => []RepliesMatch
<1>1. AgentInv => RepliesMatch
  <2> SUFFICES ASSUME AgentInv PROVE RepliesMatch
    OBVIOUS
  <2>1. DOMAIN xCommandQueue = 1 .. Len(xCommandQueue)
    BY DEF AgentInv, TypeOK
  <2>2. \A c \in Brokers : \A s \in UsedSlots(c) : s \in Slots /\ xWaitingTasks[c][s] # Free
    BY DEF UsedSlots, FreeSlots
  <2>3. QED
    BY <2>1, <2>2 DEF RepliesMatch, AgentInv, CallInv, QueueInv, SlotInv, NotifyInv, Busy
<1>2. QED
  BY <1>1, AgentInvariant, PTL

(* The notification slots of a connection are those of the packets the      *)
(* library waits for.                                                       *)
THEOREM AgentSlotsMatchLibrary == Spec => []SlotsMatchLibrary
<1>1. AgentInv => SlotsMatchLibrary
  <2> SUFFICES ASSUME AgentInv, NEW c \in Brokers
               PROVE  {w.id : w \in WaitingIn(c, UsedSlots(c))} = outstanding[c]
    BY DEF SlotsMatchLibrary
  <2>1. \A s \in Slots : s \in UsedSlots(c) <=> xWaitingTasks[c][s] # Free
    BY DEF UsedSlots, FreeSlots
  <2>2. UsedSlots(c) \subseteq Slots
    BY DEF UsedSlots
  <2>3. ASSUME NEW id \in outstanding[c]
        PROVE  id \in {w.id : w \in WaitingIn(c, UsedSlots(c))}
    <3>1. id \in Identifiers
      BY DEF AgentInv, TypeOK
    <3>2. PICK s \in Slots : xWaitingTasks[c][s] # Free /\ xWaitingTasks[c][s].id = id
      BY <3>1 DEF AgentInv, SessionInv
    <3>3. QED
      BY <2>1, <3>2 DEF WaitingIn
  <2>4. ASSUME NEW id \in {w.id : w \in WaitingIn(c, UsedSlots(c))}
        PROVE  id \in outstanding[c]
    <3>1. PICK s \in UsedSlots(c) : id = xWaitingTasks[c][s].id
      BY DEF WaitingIn
    <3>2. s \in Slots /\ xWaitingTasks[c][s] # Free
      BY <2>1, <2>2
    <3>3. id \in Identifiers
      BY <3>1, <3>2, WaitingFacts DEF AgentInv
    <3>4. QED
      BY <3>1, <3>2, <3>3 DEF AgentInv, SessionInv
  <2>5. QED
    BY <2>3, <2>4
<1>2. QED
  BY <1>1, AgentInvariant, PTL

(* A connection has a socket exactly while the library has a session on it, *)
(* and none when prvSetupConnection is about to make one.                   *)
THEOREM AgentSocketMatchesSession == Spec => []SocketMatchesSession
<1>1. AgentInv => SocketMatchesSession
  <2> SUFFICES ASSUME AgentInv PROVE SocketMatchesSession
    OBVIOUS
  <2>1. DOMAIN xCommandQueue = 1 .. Len(xCommandQueue)
    BY DEF AgentInv, TypeOK
  <2>2. ASSUME NEW i \in 1 .. Len(xCommandQueue), xCommandQueue[i].op = "Connect"
        PROVE  ~ xSocket[xCommandQueue[i].broker]
    <3>1. /\ xCommandQueue[i].task \in Tasks /\ Busy(xCommandQueue[i].task)
          /\ xEventData[xCommandQueue[i].task] = xCommandQueue[i]
      BY PlaceFacts DEF AgentInv, QueueInv, Busy
    <3>2. QED
      BY <2>2, <3>1 DEF AgentInv, ConnectInv
  <2>3. QED
    BY <2>1, <2>2 DEF SocketMatchesSession, AgentInv, SessionInv
<1>2. QED
  BY <1>1, AgentInvariant, PTL

(* A task that waits is owed exactly one reply and a task that does not is  *)
(* owed none, when only prvNotifyRequestingTask notifies the tasks.  With   *)
(* other notifiers a reply that finds a notification pending is lost.       *)
THEOREM AgentReplyAccounting ==
  ASSUME ~ Strangers
  PROVE  Spec => []ReplyAccounting
<1>1. Init => OwedInv
  <2>1. Nothing # Foreign
    BY DEF Nothing, Foreign
  <2>2. ASSUME Init, NEW t \in Tasks
        PROVE  notification[t] = Nothing /\ pc[t] = "idle"
    BY <2>2 DEF Init
  <2>3. QED
    BY <2>1, <2>2 DEF OwedInv
<1>2. AgentInv /\ OwedInv => ReplyAccounting
  <2> SUFFICES ASSUME AgentInv, OwedInv, NEW t \in Tasks
               PROVE
           \/ pc[t] # "wait" /\ Queued(t) = {} /\ Slotted(t) = {} /\ ~ Answered(t)
           \/ /\ pc[t] = "wait"
              /\ \/ /\ \E i \in DOMAIN xCommandQueue : Queued(t) = {i}
                    /\ Slotted(t) = {}
                    /\ ~ Answered(t)
                 \/ /\ \E cs \in Brokers \X Slots : Slotted(t) = {cs}
                    /\ Queued(t) = {}
                    /\ ~ Answered(t)
                 \/ Answered(t) /\ Queued(t) = {} /\ Slotted(t) = {}
    BY DEF ReplyAccounting, AgentInv
  <2>1. DOMAIN xCommandQueue = 1 .. Len(xCommandQueue)
    BY DEF AgentInv, TypeOK
  <2>2. Free.task # t
    BY AgentAssumption DEF Free
  <2>3. ASSUME \A i \in 1 .. Len(xCommandQueue) : xCommandQueue[i].task # t
        PROVE  Queued(t) = {}
    BY <2>1, <2>3 DEF Queued
  <2>4. ASSUME \A c \in Brokers, s \in Slots : xWaitingTasks[c][s].task # t
        PROVE  Slotted(t) = {}
    BY <2>4 DEF Slotted
  <2>5. CASE Answered(t)
    BY <2>3, <2>4, <2>5 DEF AgentInv, NotifyInv
  <2>6. CASE \E i \in 1 .. Len(xCommandQueue) : xCommandQueue[i].task = t
    <3>1. PICK i \in 1 .. Len(xCommandQueue) : xCommandQueue[i].task = t
      BY <2>6
    <3>2. Queued(t) = {i}
      BY <2>1, <3>1 DEF Queued, AgentInv, QueueInv
    <3>3. \A c \in Brokers, s \in Slots : xWaitingTasks[c][s].task # t
      BY <2>2, <3>1 DEF AgentInv, SlotInv
    <3>4. pc[t] = "wait" /\ ~ Answered(t)
      BY <3>1 DEF AgentInv, QueueInv, NotifyInv
    <3>5. QED
      BY <2>1, <2>4, <3>2, <3>3, <3>4
  <2>7. CASE \E c \in Brokers, s \in Slots : xWaitingTasks[c][s].task = t
    <3>1. PICK c \in Brokers, s \in Slots : xWaitingTasks[c][s].task = t
      BY <2>7
    <3>2. /\ xWaitingTasks[c][s] # Free /\ xEventData[t].broker = c /\ pc[t] = "wait"
          /\ \A i \in 1 .. Len(xCommandQueue) : xCommandQueue[i].task # t
          /\ \A r \in Slots : xWaitingTasks[c][r].task = t => r = s
      BY <2>2, <3>1 DEF AgentInv, SlotInv
    <3>3. ASSUME NEW d \in Brokers, NEW r \in Slots, xWaitingTasks[d][r].task = t
          PROVE  d = c /\ r = s
      <4>1. xEventData[t].broker = d
        BY <2>2, <3>3 DEF AgentInv, SlotInv
      <4>2. QED
        BY <3>2, <3>3, <4>1
    <3>4. Slotted(t) = {<<c, s>>}
      BY <3>1, <3>3 DEF Slotted
    <3>5. ~ Answered(t)
      BY <3>1 DEF AgentInv, NotifyInv
    <3>6. QED
      BY <2>3, <3>2, <3>4, <3>5
  <2>8. CASE /\ ~ Answered(t)
             /\ \A i \in 1 .. Len(xCommandQueue) : xCommandQueue[i].task # t
             /\ \A c \in Brokers, s \in Slots : xWaitingTasks[c][s].task # t
    <3>1. pc[t] # "wait"
      BY <2>8 DEF OwedInv
    <3>2. QED
      BY <2>3, <2>4, <2>8, <3>1
  <2>9. QED
    BY <2>5, <2>6, <2>7, <2>8
<1>3. QED
  BY <1>1, <1>2, NextOwed, AgentInvariant, PTL DEF Spec
==============================================================================

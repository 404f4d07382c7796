------------------------------- MODULE LightBulb -------------------------------
(***************************************************************************)
(* The shadow demo (aws_shadow_lightbulb_on_off.c).  The tasks that change  *)
(* the desired state put updates in a queue and wait to be notified; one    *)
(* task performs them with SHADOW_Update; the MQTT task puts an update in   *)
(* the same queue from inside prvDeltaCallback.  So the MQTT task can wait  *)
(* for the update task, which waits for the MQTT task.                      *)
(*                                                                          *)
(* SHADOW_Update is two waits: for the MQTT task to perform the commands of *)
(* the agent, which has no time limit, and for the reply, which has one     *)
(* (see MqttAgent and ShadowClient).  The limit of ulTaskNotifyTake, 100 s, *)
(* is not in the model: what is shown is that the wait ends.                *)
(***************************************************************************)
EXTENDS Integers, Sequences, FiniteSets

CONSTANTS Bulbs,        \* the tasks that run prvChangeDesiredTask
          NoBulb,
          UpdateQueueLength \* shadowDemoUPDATE_QUEUE_LENGTH

ASSUME LightBulbAssumption == NoBulb \notin Bulbs /\ UpdateQueueLength \in Nat \ {0}

VARIABLES
    init,          \* where prvShadowInitTask is
    bulb,          \* where each prvChangeDesiredTask is
    update,        \* where prvUpdateQueueTask is
    xTaskToNotify, \* of the update it performs
    mqtt,          \* where the loop of the MQTT task is
    xUpdateQueue,  \* xTaskToNotify of the queued updates
    notified       \* the notification value of each bulb task

demoVars == <<init, bulb, update, xTaskToNotify, mqtt, xUpdateQueue, notified>>

DemoInit ==
    /\ init = "connect"
    /\ bulb = [b \in Bulbs |-> "none"]
    /\ update = "none"
    /\ xTaskToNotify = NoBulb
    /\ mqtt = "commands"
    /\ xUpdateQueue = <<>>
    /\ notified = [b \in Bulbs |-> 0]

(* xQueueSendToBack when there is room. *)
QueueSend(item) ==
    /\ Len(xUpdateQueue) < UpdateQueueLength
    /\ xUpdateQueue' = Append(xUpdateQueue, item)

Full == Len(xUpdateQueue) >= UpdateQueueLength

-----------------------------------------------------------------------------
(* prvShadowInitTask: the client is connected, an old shadow deleted and    *)
(* the callback registered; if all that worked the tasks are created.       *)

prvShadowInitTask ==
    /\ \/ init = "connect"  /\ init' \in {"delete", "failed"}
       \/ init = "delete"   /\ init' \in {"register", "failed"}
       \/ init = "register" /\ init' \in {"create", "failed"}
    /\ UNCHANGED <<bulb, update, xTaskToNotify, mqtt, xUpdateQueue, notified>>

CreateUpdateTask ==
    /\ init = "create"
    /\ update = "none"
    /\ update' = "receive"
    /\ UNCHANGED <<init, bulb, xTaskToNotify, mqtt, xUpdateQueue, notified>>

CreateBulbTask(b) ==
    /\ init = "create"
    /\ update # "none"
    /\ bulb[b] = "none"
    /\ bulb' = [bulb EXCEPT ![b] = "report"]
    /\ UNCHANGED <<init, update, xTaskToNotify, mqtt, xUpdateQueue, notified>>

-----------------------------------------------------------------------------
(* prvChangeDesiredTask: the initial report, then a change of the desired   *)
(* state every few seconds; each waits for the notification.                *)

SendUpdate(b) ==
    /\ bulb[b] \in {"report", "change"}
    /\ QueueSend(b)
    /\ bulb' = [bulb EXCEPT ![b] = "wait"]
    /\ UNCHANGED <<init, update, xTaskToNotify, mqtt, notified>>

(* The queue stays full: for the initial report an assertion stops the      *)
(* task and the system with it, otherwise the change is left out.           *)
SendTimesOut(b) ==
    /\ bulb[b] \in {"report", "change"}
    /\ Full
    /\ bulb' = [bulb EXCEPT ![b] = IF @ = "report" THEN "assertion" ELSE "delay"]
    /\ UNCHANGED <<init, update, xTaskToNotify, mqtt, xUpdateQueue, notified>>

(* ulTaskNotifyTake returns the value and clears it; the value is asserted  *)
(* to be 1.                                                                 *)
NotifyTake(b) ==
    /\ bulb[b] = "wait"
    /\ notified[b] > 0
    /\ bulb' = [bulb EXCEPT ![b] = IF notified[b] = 1 THEN "delay" ELSE "assertion"]
    /\ notified' = [notified EXCEPT ![b] = 0]
    /\ UNCHANGED <<init, update, xTaskToNotify, mqtt, xUpdateQueue>>

Delayed(b) ==
    /\ bulb[b] = "delay"
    /\ bulb' = [bulb EXCEPT ![b] = "change"]
    /\ UNCHANGED <<init, update, xTaskToNotify, mqtt, xUpdateQueue, notified>>

-----------------------------------------------------------------------------
(* prvUpdateQueueTask. *)

QueueReceive ==
    /\ update = "receive"
    /\ xUpdateQueue # <<>>
    /\ xTaskToNotify' = Head(xUpdateQueue)
    /\ xUpdateQueue' = Tail(xUpdateQueue)
    /\ update' = "agent"
    /\ UNCHANGED <<init, bulb, mqtt, notified>>

(* No reply: SHADOW_Update returns eShadowTimeout. *)
ReplyTimesOut ==
    /\ update = "reply"
    /\ update' = "notify"
    /\ UNCHANGED <<init, bulb, xTaskToNotify, mqtt, xUpdateQueue, notified>>

(* Whatever SHADOW_Update returned, the task that asked is notified. *)
NotifyGive ==
    /\ update = "notify"
    /\ notified' = [b \in Bulbs |-> IF b = xTaskToNotify THEN notified[b] + 1 ELSE notified[b]]
    /\ xTaskToNotify' = NoBulb
    /\ update' = "receive"
    /\ UNCHANGED <<init, bulb, mqtt, xUpdateQueue>>

-----------------------------------------------------------------------------
(* The MQTT task: in each turn of its loop it performs the commands in its  *)
(* queue and then reads its sockets.                                        *)

(* The commands of SHADOW_Update; the agent may report a failure. *)
PerformCommands ==
    /\ mqtt = "commands"
    /\ mqtt' = "sockets"
    /\ \/ update = "agent" /\ update' \in {"reply", "notify"}
       \/ update # "agent" /\ UNCHANGED update
    /\ UNCHANGED <<init, bulb, xTaskToNotify, xUpdateQueue, notified>>

(* Nothing for the demo, or the reply to the update. *)
ReadSockets ==
    /\ mqtt = "sockets"
    /\ mqtt' = "commands"
    /\ \/ UNCHANGED update
       \/ update = "reply" /\ update' = "notify"
    /\ UNCHANGED <<init, bulb, xTaskToNotify, xUpdateQueue, notified>>

(* Mutant: the update of a delta asks for the notification of a task. *)
prvDeltaCallbackNotifies ==
    /\ mqtt = "sockets"
    /\ init = "create"
    /\ \/ Full /\ mqtt' = "delta" /\ UNCHANGED xUpdateQueue
       \/ (\E b \in Bulbs : QueueSend(b)) /\ mqtt' = "commands"
    /\ UNCHANGED <<init, bulb, update, xTaskToNotify, notified>>

(* prvDeltaCallback, from the read of a socket once it is registered: the   *)
(* reported state is to follow; nobody waits for that.                      *)
prvDeltaCallback ==
    /\ mqtt = "sockets"
    /\ init = "create"
    /\ \/ Full /\ mqtt' = "delta" /\ UNCHANGED xUpdateQueue
       \/ QueueSend(NoBulb) /\ mqtt' = "commands"
    /\ UNCHANGED <<init, bulb, update, xTaskToNotify, notified>>

(* Mutant: the callback waits for room as long as it takes. *)
DeltaWaitsForever ==
    /\ mqtt = "delta"
    /\ QueueSend(NoBulb)
    /\ mqtt' = "commands"
    /\ UNCHANGED <<init, bulb, update, xTaskToNotify, notified>>

(* The callback waits for room, for a limited time. *)
DeltaWaits ==
    /\ mqtt = "delta"
    /\ QueueSend(NoBulb) \/ (Full /\ UNCHANGED xUpdateQueue)
    /\ mqtt' = "commands"
    /\ UNCHANGED <<init, bulb, update, xTaskToNotify, notified>>

-----------------------------------------------------------------------------

BulbStep(b) == SendUpdate(b) \/ SendTimesOut(b) \/ NotifyTake(b) \/ Delayed(b)
UpdateStep  == QueueReceive \/ ReplyTimesOut \/ NotifyGive
MqttStep    == PerformCommands \/ ReadSockets \/ prvDeltaCallback \/ DeltaWaits

Stopped == \E b \in Bulbs : bulb[b] = "assertion"

DemoNext ==
    /\ ~ Stopped
    /\ \/ prvShadowInitTask
       \/ CreateUpdateTask
       \/ \E b \in Bulbs : CreateBulbTask(b) \/ BulbStep(b)
       \/ UpdateStep
       \/ MqttStep

-----------------------------------------------------------------------------

DemoTypeOK ==
    /\ init \in {"connect", "delete", "register", "create", "failed"}
    /\ bulb \in [Bulbs -> {"none", "report", "change", "wait", "delay", "assertion"}]
    /\ update \in {"none", "receive", "agent", "reply", "notify"}
    /\ xTaskToNotify \in Bulbs \cup {NoBulb}
    /\ mqtt \in {"commands", "sockets", "delta"}
    /\ xUpdateQueue \in Seq(Bulbs \cup {NoBulb})
    /\ Len(xUpdateQueue) <= UpdateQueueLength
    /\ notified \in [Bulbs -> Nat]

(* The assertion on ulTaskNotifyTake: a task that waits is owed exactly one *)
(* notification, by an update in the queue, by the update being performed   *)
(* or already given, and one that does not wait is owed none; an update     *)
(* that a delta caused never notifies anybody.  The state is of its type.   *)
NotifiedOnce ==
    /\ DemoTypeOK
    /\ \A b \in Bulbs :
           Cardinality({i \in 1 .. Len(xUpdateQueue) : xUpdateQueue[i] = b})
               + (IF xTaskToNotify = b THEN 1 ELSE 0) + notified[b]
           = IF bulb[b] = "wait" THEN 1 ELSE 0

(* No circular wait: although the MQTT task waits for room in the queue     *)
(* that the update task empties, and the update task waits for the MQTT     *)
(* task, a task that waits for its update goes on.                          *)
EveryUpdateNotified == \A b \in Bulbs : bulb[b] = "wait" ~> (bulb[b] # "wait" \/ Stopped)
==============================================================================

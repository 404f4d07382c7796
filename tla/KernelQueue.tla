----------------------------- MODULE KernelQueue -----------------------------
(***************************************************************************)
(* A queue of the kernel (FreeRTOS/queue.c), with tasks that send, receive  *)
(* and peek and interrupts that send and receive.                           *)
(*                                                                          *)
(* A call that has to wait looks at the queue again with the scheduler      *)
(* suspended and the queue locked, and then enters an event list.  Neither  *)
(* keeps interrupts away from the items: those only count what they did     *)
(* while the queue is locked, and the task that unlocks it wakes others in  *)
(* their place.  Every critical section is one step.                        *)
(***************************************************************************)
EXTENDS Integers, Sequences, FiniteSets

CONSTANTS Tasks,
          uxPriority, \* of each task
          NoTask,
          Items, NoItem,
          uxLength,
          MaxLock     \* calls from interrupts while the queue is locked

ASSUME QueueAssumption ==
    /\ NoTask \notin Tasks
    /\ IsFiniteSet(Tasks)
    /\ uxPriority \in [Tasks -> Nat]
    /\ NoItem \notin Items
    /\ uxLength \in Nat \ {0}
    /\ MaxLock \in 1 .. 127

VARIABLES
    pcStorage, pcWriteTo, pcReadFrom, uxMessagesWaiting,
    cRxLock, cTxLock,
    xTasksWaitingToSend, xTasksWaitingToReceive,
    blocked,           \* tasks in a delayed list or the suspended list
    xPendingReadyList,
    suspendedBy,       \* the task that has suspended the scheduler
    at,                \* where each task is in its call
    call,              \* the call: what it does and how long it waits
    expired,           \* tasks whose block time is over
    over,              \* the task that suspended the scheduler found it so
    pvBuffer           \* ghost: what was last copied out of the queue

storage == <<pcStorage, pcWriteTo, pcReadFrom, uxMessagesWaiting, pvBuffer>>
locks   == <<cRxLock, cTxLock>>
lists   == <<xTasksWaitingToSend, xTasksWaitingToReceive, blocked, xPendingReadyList>>
tasks   == <<at, call, expired>>
vars    == <<storage, locks, lists, suspendedBy, tasks, over>>

queueUNLOCKED == -1
queueLOCKED_UNMODIFIED == 0

Calls == [op : {"back", "front"}, item : Items, wait : {"none", "limited", "forever"}]
            \cup [op : {"receive", "peek"}, item : {NoItem},
                  wait : {"none", "limited", "forever"}]
NoCall == [op |-> "none", item |-> NoItem, wait |-> "none"]
Sends(c) == c.op \in {"back", "front"}

(* xQueueGenericReset of a new queue. *)
Init ==
    /\ pcStorage = [n \in 0 .. uxLength - 1 |-> NoItem]
    /\ pcWriteTo = 0
    /\ pcReadFrom = uxLength - 1
    /\ uxMessagesWaiting = 0
    /\ pvBuffer = NoItem
    /\ cRxLock = queueUNLOCKED
    /\ cTxLock = queueUNLOCKED
    /\ xTasksWaitingToSend = <<>>
    /\ xTasksWaitingToReceive = <<>>
    /\ blocked = {}
    /\ xPendingReadyList = {}
    /\ suspendedBy = NoTask
    /\ at = [t \in Tasks |-> "elsewhere"]
    /\ call = [t \in Tasks |-> NoCall]
    /\ expired = {}
    /\ over = FALSE

-----------------------------------------------------------------------------
(* The scheduler. *)

Ready(t) == t \notin blocked /\ at[t] # "elsewhere"

(* The task has the processor: nobody of a higher priority is ready, or the *)
(* scheduler is suspended by it.                                            *)
Runs(t) ==
    /\ t \notin blocked \/ suspendedBy = t
    /\ \/ suspendedBy = t
       \/ /\ suspendedBy = NoTask
          /\ \A u \in Tasks : Ready(u) => uxPriority[u] <= uxPriority[t]

(* vListInsert of a task into an event list: after those of its priority.   *)
Inserted(list, t) ==
    LET before == Cardinality({n \in DOMAIN list : uxPriority[list[n]] >= uxPriority[t]})
    IN  SubSeq(list, 1, before) \o <<t>> \o SubSeq(list, before + 1, Len(list))

(* uxListRemove of the task's item from an event list that it may be in.    *)
Unlinked(list, t) ==
    IF \A n \in DOMAIN list : list[n] # t THEN list
    ELSE LET i == CHOOSE n \in DOMAIN list : list[n] = t
         IN  SubSeq(list, 1, i - 1) \o SubSeq(list, i + 1, Len(list))

(* xTaskRemoveFromEventList of the first n tasks of a list: while the       *)
(* scheduler is suspended they are held pending.                            *)
Readied(tasksReadied) ==
    IF suspendedBy = NoTask
    THEN blocked' = blocked \ tasksReadied /\ UNCHANGED xPendingReadyList
    ELSE xPendingReadyList' = xPendingReadyList \cup tasksReadied /\ UNCHANGED blocked

First(list, n) == SubSeq(list, 1, IF n < Len(list) THEN n ELSE Len(list))
Rest(list, n) == SubSeq(list, n + 1, Len(list))
TasksOf(list) == {list[n] : n \in DOMAIN list}

WakeReceivers(n) ==
    /\ Readied(TasksOf(First(xTasksWaitingToReceive, n)))
    /\ xTasksWaitingToReceive' = Rest(xTasksWaitingToReceive, n)
    /\ UNCHANGED xTasksWaitingToSend

WakeSenders(n) ==
    /\ Readied(TasksOf(First(xTasksWaitingToSend, n)))
    /\ xTasksWaitingToSend' = Rest(xTasksWaitingToSend, n)
    /\ UNCHANGED xTasksWaitingToReceive

-----------------------------------------------------------------------------
(* The items. *)

After(position) == IF position + 1 >= uxLength THEN 0 ELSE position + 1

Before(position) == IF position - 1 < 0 THEN uxLength - 1 ELSE position - 1

(* Mutant: an item for the front is stored where the read position will be. *)
prvCopyDataToQueueMoved(c) ==
    /\ uxMessagesWaiting' = uxMessagesWaiting + 1
    /\ UNCHANGED pvBuffer
    /\ \/ /\ c.op = "back"
          /\ pcStorage' = [pcStorage EXCEPT ![pcWriteTo] = c.item]
          /\ pcWriteTo' = After(pcWriteTo)
          /\ UNCHANGED pcReadFrom
       \/ /\ c.op = "front"
          /\ pcStorage' = [pcStorage EXCEPT ![Before(pcReadFrom)] = c.item]
          /\ pcReadFrom' = Before(pcReadFrom)
          /\ UNCHANGED pcWriteTo

(* prvCopyDataToQueue, of a queue with items. *)
prvCopyDataToQueue(c) ==
    /\ uxMessagesWaiting' = uxMessagesWaiting + 1
    /\ UNCHANGED pvBuffer
    /\ \/ /\ c.op = "back"
          /\ pcStorage' = [pcStorage EXCEPT ![pcWriteTo] = c.item]
          /\ pcWriteTo' = After(pcWriteTo)
          /\ UNCHANGED pcReadFrom
       \/ /\ c.op = "front"
          /\ pcStorage' = [pcStorage EXCEPT ![pcReadFrom] = c.item]
          /\ pcReadFrom' = Before(pcReadFrom)
          /\ UNCHANGED pcWriteTo

(* prvCopyDataFromQueue and the count.  The place keeps the item, but       *)
(* nothing reads it before it is written again: it is cleared here.         *)
TakeFirst ==
    /\ pcReadFrom' = After(pcReadFrom)
    /\ pvBuffer' = pcStorage[After(pcReadFrom)]
    /\ pcStorage' = [pcStorage EXCEPT ![After(pcReadFrom)] = NoItem]
    /\ uxMessagesWaiting' = uxMessagesWaiting - 1
    /\ UNCHANGED pcWriteTo

(* xQueuePeek puts the read position back. *)
LookAtFirst ==
    /\ pvBuffer' = pcStorage[After(pcReadFrom)]
    /\ UNCHANGED <<pcStorage, pcWriteTo, pcReadFrom, uxMessagesWaiting>>

Possible(c) == IF Sends(c) THEN uxMessagesWaiting < uxLength ELSE uxMessagesWaiting > 0

-----------------------------------------------------------------------------
(* xQueueGenericSend, xQueueReceive and xQueuePeek. *)

Call(t, c) ==
    /\ Runs(t)
    /\ at[t] = "elsewhere"
    /\ at' = [at EXCEPT ![t] = "try"]
    /\ call' = [call EXCEPT ![t] = c]
    /\ UNCHANGED <<storage, locks, lists, suspendedBy, expired, over>>

Return(t) ==
    /\ at' = [at EXCEPT ![t] = "elsewhere"]
    /\ call' = [call EXCEPT ![t] = NoCall]
    /\ expired' = expired \ {t}

GoOn(t, place) ==
    /\ at' = [at EXCEPT ![t] = place]
    /\ UNCHANGED <<call, expired>>

(* The attempt: a task that waits for what it made possible is woken.  An   *)
(* item that was only looked at is left for the next one.                   *)
Succeed(t) ==
    /\ Runs(t)
    /\ at[t] = "try"
    /\ Possible(call[t])
    /\ CASE Sends(call[t])         -> prvCopyDataToQueue(call[t]) /\ WakeReceivers(1)
         [] call[t].op = "receive" -> TakeFirst /\ WakeSenders(1)
         [] call[t].op = "peek"    -> LookAtFirst /\ WakeReceivers(1)
    /\ Return(t)
    /\ UNCHANGED <<locks, suspendedBy, over>>

Fail(t) ==
    /\ Runs(t)
    /\ at[t] = "try"
    /\ ~Possible(call[t])
    /\ IF call[t].wait = "none" THEN Return(t) ELSE GoOn(t, "suspend")
    /\ UNCHANGED <<storage, locks, lists, suspendedBy, over>>

vTaskSuspendAll(t) ==
    /\ Runs(t)
    /\ at[t] = "suspend"
    /\ suspendedBy' = t
    /\ GoOn(t, "lock")
    /\ UNCHANGED <<storage, locks, lists, over>>

prvLockQueue(t) ==
    /\ at[t] = "lock"
    /\ cRxLock' = IF cRxLock = queueUNLOCKED THEN queueLOCKED_UNMODIFIED ELSE cRxLock
    /\ cTxLock' = IF cTxLock = queueUNLOCKED THEN queueLOCKED_UNMODIFIED ELSE cTxLock
    /\ GoOn(t, "look")
    /\ UNCHANGED <<storage, lists, suspendedBy, over>>

(* xTaskCheckForTimeOut sets the time to wait to 0 when it is over;         *)
(* otherwise prvIsQueueFull or prvIsQueueEmpty decide.                      *)
Look(t) ==
    /\ at[t] = "look"
    /\ over' = (t \in expired)
    /\ IF t \in expired
       THEN /\ at' = [at EXCEPT ![t] = "unlockTx"]
            /\ call' = [call EXCEPT ![t].wait = "none"]
            /\ UNCHANGED expired
       ELSE GoOn(t, IF Possible(call[t]) THEN "unlockTx" ELSE "place")
    /\ UNCHANGED <<storage, locks, lists, suspendedBy>>

vTaskPlaceOnEventList(t) ==
    /\ at[t] = "place"
    /\ IF Sends(call[t])
       THEN /\ xTasksWaitingToSend' = Inserted(xTasksWaitingToSend, t)
            /\ UNCHANGED xTasksWaitingToReceive
       ELSE /\ xTasksWaitingToReceive' = Inserted(xTasksWaitingToReceive, t)
            /\ UNCHANGED xTasksWaitingToSend
    /\ blocked' = blocked \cup {t}
    /\ GoOn(t, "unlockTx")
    /\ UNCHANGED <<storage, locks, xPendingReadyList, suspendedBy, over>>

(* Mutant: one task is woken, however many items came. *)
prvUnlockQueueTxOne(t) ==
    /\ at[t] = "unlockTx"
    /\ WakeReceivers(IF cTxLock > queueLOCKED_UNMODIFIED THEN 1 ELSE 0)
    /\ cTxLock' = queueUNLOCKED
    /\ GoOn(t, "unlockRx")
    /\ UNCHANGED <<storage, cRxLock, suspendedBy, over>>

(* prvUnlockQueue: two critical sections. *)
prvUnlockQueueTx(t) ==
    /\ at[t] = "unlockTx"
    /\ WakeReceivers(cTxLock)
    /\ cTxLock' = queueUNLOCKED
    /\ GoOn(t, "unlockRx")
    /\ UNCHANGED <<storage, cRxLock, suspendedBy, over>>

prvUnlockQueueRx(t) ==
    /\ at[t] = "unlockRx"
    /\ WakeSenders(cRxLock)
    /\ cRxLock' = queueUNLOCKED
    /\ GoOn(t, "resume")
    /\ UNCHANGED <<storage, cTxLock, suspendedBy, over>>

(* A send whose time is over returns; a receive looks once more. *)
xTaskResumeAll(t) ==
    /\ at[t] = "resume"
    /\ suspendedBy' = NoTask
    /\ blocked' = blocked \ xPendingReadyList
    /\ xPendingReadyList' = {}
    /\ IF over /\ Sends(call[t]) THEN Return(t)
       ELSE GoOn(t, IF over THEN "lookAgain" ELSE "try")
    /\ over' = FALSE
    /\ UNCHANGED <<storage, locks, xTasksWaitingToSend, xTasksWaitingToReceive>>

LookAgain(t) ==
    /\ Runs(t)
    /\ at[t] = "lookAgain"
    /\ IF Possible(call[t]) THEN GoOn(t, "try") ELSE Return(t)
    /\ UNCHANGED <<storage, locks, lists, suspendedBy, over>>

-----------------------------------------------------------------------------
(* Interrupts. *)

(* xTaskIncrementTick: the block time of a task is over.  If it is blocked  *)
(* it leaves the event list too.                                            *)
BlockTimeOver(t) ==
    /\ suspendedBy = NoTask
    /\ at[t] # "elsewhere"
    /\ call[t].wait = "limited"
    /\ t \notin expired
    /\ expired' = expired \cup {t}
    /\ blocked' = blocked \ {t}
    /\ xTasksWaitingToSend' = Unlinked(xTasksWaitingToSend, t)
    /\ xTasksWaitingToReceive' = Unlinked(xTasksWaitingToReceive, t)
    /\ UNCHANGED <<storage, locks, xPendingReadyList, suspendedBy, at, call, over>>

xQueueGenericSendFromISR(i) ==
    /\ uxMessagesWaiting < uxLength
    /\ prvCopyDataToQueue([op |-> "back", item |-> i, wait |-> "none"])
    /\ IF cTxLock = queueUNLOCKED
       THEN WakeReceivers(1) /\ UNCHANGED cTxLock
       ELSE cTxLock < MaxLock /\ cTxLock' = cTxLock + 1 /\ UNCHANGED lists
    /\ UNCHANGED <<cRxLock, suspendedBy, tasks, over>>

xQueueReceiveFromISR ==
    /\ uxMessagesWaiting > 0
    /\ TakeFirst
    /\ IF cRxLock = queueUNLOCKED
       THEN WakeSenders(1) /\ UNCHANGED cRxLock
       ELSE cRxLock < MaxLock /\ cRxLock' = cRxLock + 1 /\ UNCHANGED lists
    /\ UNCHANGED <<cTxLock, suspendedBy, tasks, over>>

Next ==
    \/ \E t \in Tasks :
          \/ \E c \in Calls : Call(t, c)
          \/ Succeed(t)
          \/ Fail(t)
          \/ vTaskSuspendAll(t)
          \/ prvLockQueue(t)
          \/ Look(t)
          \/ vTaskPlaceOnEventList(t)
          \/ prvUnlockQueueTx(t)
          \/ prvUnlockQueueRx(t)
          \/ xTaskResumeAll(t)
          \/ LookAgain(t)
          \/ BlockTimeOver(t)
    \/ \E i \in Items : xQueueGenericSendFromISR(i)
    \/ xQueueReceiveFromISR

Spec == Init /\ [][Next]_vars

-----------------------------------------------------------------------------
Places == {"elsewhere", "try", "suspend", "lock", "look", "place", "unlockTx",
           "unlockRx", "resume", "lookAgain"}

TypeOK ==
    /\ pcStorage \in [0 .. uxLength - 1 -> Items \cup {NoItem}]
    /\ {pcWriteTo, pcReadFrom} \subseteq 0 .. uxLength - 1
    /\ uxMessagesWaiting \in 0 .. uxLength
    /\ {cRxLock, cTxLock} \subseteq queueUNLOCKED .. MaxLock
    /\ at \in [Tasks -> Places]
    /\ call \in [Tasks -> Calls \cup {NoCall}]
    /\ xPendingReadyList \subseteq blocked
    /\ blocked \subseteq Tasks

(* The tasks that will try before they sleep: they are in no event list,    *)
(* although perhaps still to be moved to the ready list.                    *)
Awake(S) == {t \in S : /\ at[t] \in {"try", "unlockRx", "resume"}
                       /\ ~(over /\ suspendedBy = t)
                       /\ t \notin TasksOf(xTasksWaitingToSend \o xTasksWaitingToReceive)}

(* No wakeup is lost, although interrupts use the queue while a task is     *)
(* between its attempt and its sleep, and a woken task can find that        *)
(* another one was faster: while a task sleeps that waits for an item,      *)
(* there is for each item in the queue a task that was woken to take it;    *)
(* the same holds of places and the tasks that wait to send.                *)
NoLostWakeup ==
    /\ TypeOK
    /\ (cTxLock = queueUNLOCKED /\ xTasksWaitingToReceive # <<>>)
          => uxMessagesWaiting
                <= Cardinality(Awake({t \in Tasks : call[t].op \in {"receive", "peek"}}))
    /\ (cRxLock = queueUNLOCKED /\ xTasksWaitingToSend # <<>>)
          => uxLength - uxMessagesWaiting
                <= Cardinality(Awake({t \in Tasks : Sends(call[t])}))

(* The items between the read and the write position, oldest first. *)
Contents == [n \in 1 .. uxMessagesWaiting |-> pcStorage[(pcReadFrom + n) % uxLength]]

Queue == INSTANCE BoundedQueue WITH items <- Contents, taken <- pvBuffer,
                                    Length <- uxLength

(* The ring with its two positions is a bounded queue, for tasks and        *)
(* interrupts that put items at its back or front, take and look at them.   *)
QueueSpec == Queue!Spec
=============================================================================

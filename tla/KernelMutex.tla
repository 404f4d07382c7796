----------------------------- MODULE KernelMutex -----------------------------
(***************************************************************************)
(* Mutexes and the scheduler (FreeRTOS/queue.c and tasks.c): taking a mutex *)
(* with and without a time limit, giving it, and priority inheritance, over *)
(* the ready lists, one for each priority, and the bit map that says which  *)
(* of them has a task.                                                      *)
(*                                                                          *)
(* A task that has to wait enters the event list with the scheduler         *)
(* suspended; since interrupts do not use mutexes nothing that matters here *)
(* happens meanwhile, and Block is one step.                                *)
(***************************************************************************)
EXTENDS Integers, Sequences, FiniteSetsExt, Functions, FiniteSets

CONSTANTS Tasks, Mutexes,
          configMAX_PRIORITIES,
          uxBasePriority, \* of each task, above that of the idle task
          Idle, NoTask

ASSUME MutexAssumption ==
    /\ Idle \notin Tasks /\ NoTask \notin Tasks \cup Mutexes \cup {Idle}
    /\ IsFiniteSet(Mutexes)
    /\ configMAX_PRIORITIES \in Nat \ {0}
    /\ uxBasePriority \in [Tasks -> 1 .. configMAX_PRIORITIES - 1]

tskIDLE_PRIORITY == 0
Priorities == {tskIDLE_PRIORITY} \cup Range(uxBasePriority)

VARIABLES
    pxMutexHolder,          \* of each mutex, NoTask while it can be taken
    xTasksWaitingToReceive, \* the event list of each mutex
    uxMutexesHeld, uxPriority,
    ready,                  \* pxReadyTasksLists and the bits of uxTopReadyPriority
    pxCurrentTCB,
    at,                     \* where each task is
    xMutex,                 \* the mutex it is to take
    xTicksToWait,           \* "none", "limited" or "forever"
    expired,                \* tasks whose block time is over
    xInheritanceOccurred    \* tasks for which it is pdTRUE

mutexes == <<pxMutexHolder, xTasksWaitingToReceive>>
calls   == <<at, xMutex, xTicksToWait, expired, xInheritanceOccurred>>
mutexVars    == <<mutexes, uxMutexesHeld, uxPriority, ready, pxCurrentTCB, calls>>

NoMutex == NoTask

MutexInit ==
    /\ pxMutexHolder = [m \in Mutexes |-> NoTask]
    /\ xTasksWaitingToReceive = [m \in Mutexes |-> <<>>]
    /\ uxMutexesHeld = [t \in Tasks |-> 0]
    /\ uxPriority = uxBasePriority
    /\ ready = [lists |-> [p \in Priorities |->
                             {t \in Tasks : uxBasePriority[t] = p}
                               \cup IF p = tskIDLE_PRIORITY THEN {Idle} ELSE {}],
                top   |-> Priorities]
    /\ pxCurrentTCB \in {t \in Tasks : uxBasePriority[t] = Max(Priorities)}
    /\ at = [t \in Tasks |-> "elsewhere"]
    /\ xMutex = [t \in Tasks |-> NoMutex]
    /\ xTicksToWait = [t \in Tasks |-> "none"]
    /\ expired = {}
    /\ xInheritanceOccurred = {}

-----------------------------------------------------------------------------
(* The ready lists. *)

(* taskRESET_READY_PRIORITY. *)
Reset(r, p) == IF r.lists[p] = {} THEN [r EXCEPT !.top = @ \ {p}] ELSE r

(* uxListRemove from the ready list of priority p; the bit of priority q is *)
(* reset if the list is empty then.                                         *)
Removed(r, t, p, q) ==
    LET s == [r EXCEPT !.lists[p] = @ \ {t}]
    IN  IF s.lists[p] = {} THEN Reset(s, q) ELSE s

(* prvAddTaskToReadyList. *)
Added(r, t, p) == [r EXCEPT !.lists[p] = @ \cup {t}, !.top = @ \cup {p}]

PriorityOf(t) == IF t = Idle THEN tskIDLE_PRIORITY ELSE uxPriority[t]

IsReady(t) == t \in ready.lists[PriorityOf(t)]

(* vTaskSwitchContext: a task of the highest list whose bit is set.  With   *)
(* an empty list its assertion stops the system.                            *)
vTaskSwitchContext ==
    LET list == ready'.lists[Max(ready'.top)]
    IN  IF list = {} THEN pxCurrentTCB' = NoTask ELSE pxCurrentTCB' \in list

YieldIf(condition) ==
    IF condition THEN vTaskSwitchContext ELSE UNCHANGED pxCurrentTCB

-----------------------------------------------------------------------------
(* Taking a mutex: xQueueSemaphoreTake. *)

Call(t, m, ticks) ==
    /\ pxCurrentTCB = t
    /\ at[t] = "elsewhere"
    /\ pxMutexHolder[m] # t
    /\ at' = [at EXCEPT ![t] = "try"]
    /\ xMutex' = [xMutex EXCEPT ![t] = m]
    /\ xTicksToWait' = [xTicksToWait EXCEPT ![t] = ticks]
    /\ UNCHANGED <<mutexes, uxMutexesHeld, uxPriority, ready, pxCurrentTCB, expired,
                   xInheritanceOccurred>>

Return(t) ==
    /\ at' = [at EXCEPT ![t] = "elsewhere"]
    /\ xMutex' = [xMutex EXCEPT ![t] = NoMutex]
    /\ xTicksToWait' = [xTicksToWait EXCEPT ![t] = "none"]
    /\ expired' = expired \ {t}
    /\ xInheritanceOccurred' = xInheritanceOccurred \ {t}

GoOn(t, place) ==
    /\ at' = [at EXCEPT ![t] = place]
    /\ UNCHANGED <<xMutex, xTicksToWait, expired, xInheritanceOccurred>>

Take(t) ==
    /\ pxCurrentTCB = t
    /\ at[t] = "try"
    /\ pxMutexHolder[xMutex[t]] = NoTask
    /\ pxMutexHolder' = [pxMutexHolder EXCEPT ![xMutex[t]] = t]
    /\ uxMutexesHeld' = [uxMutexesHeld EXCEPT ![t] = @ + 1]
    /\ Return(t)
    /\ UNCHANGED <<xTasksWaitingToReceive, uxPriority, ready, pxCurrentTCB>>

(* The mutex is held.  Without time to wait the call returns, but only      *)
(* after an assertion that no inheritance occurred.                         *)
TakeFails(t) ==
    /\ pxCurrentTCB = t
    /\ at[t] = "try"
    /\ pxMutexHolder[xMutex[t]] # NoTask
    /\ IF xTicksToWait[t] # "none" THEN GoOn(t, "block") /\ UNCHANGED pxCurrentTCB
       ELSE IF t \in xInheritanceOccurred
            THEN GoOn(t, "assertion") /\ pxCurrentTCB' = NoTask
            ELSE Return(t) /\ UNCHANGED pxCurrentTCB
    /\ UNCHANGED <<mutexes, uxMutexesHeld, uxPriority, ready>>

(* vListInsert into an event list, whose order is that of the priorities    *)
(* unless one has changed since: behind all that are at least as high.      *)
Inserted(list, t) ==
    LET Passed(n) == \A i \in 1 .. n : uxPriority[list[i]] >= uxPriority[t]
        before == Max({n \in 0 .. Len(list) : Passed(n)})
    IN  SubSeq(list, 1, before) \o <<t>> \o SubSeq(list, before + 1, Len(list))

(* uxListRemove of the task's item from an event list. *)
Unlinked(list, t) ==
    LET i == CHOOSE n \in 1 .. Len(list) : list[n] = t
    IN  SubSeq(list, 1, i - 1) \o SubSeq(list, i + 1, Len(list))

(* Mutant: the holder inherits the priority, but not in its ready list. *)
xTaskPriorityInheritUnlisted(h, p) == ready

(* xTaskPriorityInherit: the ready lists when the holder h gets priority p. *)
xTaskPriorityInherit(h, p) ==
    IF IsReady(h) THEN Added(Removed(ready, h, uxPriority[h], uxPriority[h]), h, p)
    ELSE ready

(* The time is over; or the mutex was given meanwhile; or the task blocks,  *)
(* after the holder has inherited its priority.                             *)
BlockTimeIsOver(t) ==
    /\ pxCurrentTCB = t
    /\ at[t] = "block"
    /\ t \in expired
    /\ at' = [at EXCEPT ![t] = "lookAgain"]
    /\ xTicksToWait' = [xTicksToWait EXCEPT ![t] = "none"]
    /\ UNCHANGED <<mutexes, uxMutexesHeld, uxPriority, ready, pxCurrentTCB, xMutex,
                   expired, xInheritanceOccurred>>

GivenMeanwhile(t) ==
    /\ pxCurrentTCB = t
    /\ at[t] = "block"
    /\ t \notin expired
    /\ pxMutexHolder[xMutex[t]] = NoTask
    /\ GoOn(t, "try")
    /\ UNCHANGED <<mutexes, uxMutexesHeld, uxPriority, ready, pxCurrentTCB>>

Block(t) ==
    LET m == xMutex[t]
        h == pxMutexHolder[m]
        raised == uxPriority[h] < uxPriority[t]
        inherited == IF raised THEN xTaskPriorityInherit(h, uxPriority[t]) ELSE ready
    IN  /\ pxCurrentTCB = t
        /\ at[t] = "block"
        /\ t \notin expired
        /\ h # NoTask
        /\ uxPriority' = IF raised THEN [uxPriority EXCEPT ![h] = uxPriority[t]]
                         ELSE uxPriority
        /\ xInheritanceOccurred' =
              IF raised \/ uxBasePriority[h] < uxPriority[t]
              THEN xInheritanceOccurred \cup {t} ELSE xInheritanceOccurred \ {t}
        /\ xTasksWaitingToReceive' =
              [xTasksWaitingToReceive EXCEPT ![m] = Inserted(@, t)]
        /\ ready' = Removed(inherited, t, uxPriority[t], uxPriority[t])
        /\ vTaskSwitchContext
        /\ at' = [at EXCEPT ![t] = "try"]
        /\ UNCHANGED <<pxMutexHolder, uxMutexesHeld, xMutex, xTicksToWait, expired>>

(* After a timeout: the mutex can be taken after all, or the call returns,  *)
(* once it has taken back what the holder inherited from it.                *)
LookAgain(t) ==
    /\ pxCurrentTCB = t
    /\ at[t] = "lookAgain"
    /\ IF pxMutexHolder[xMutex[t]] = NoTask THEN GoOn(t, "try")
       ELSE IF t \in xInheritanceOccurred THEN GoOn(t, "disinherit")
       ELSE Return(t)
    /\ UNCHANGED <<mutexes, uxMutexesHeld, uxPriority, ready, pxCurrentTCB>>

(* Mutant: the tasks that still wait are forgotten. *)
DisinheritPriorityLowest(m) == tskIDLE_PRIORITY

(* prvGetDisinheritPriorityAfterTimeout: the head of the event list. *)
DisinheritPriority(m) ==
    IF xTasksWaitingToReceive[m] = <<>> THEN tskIDLE_PRIORITY
    ELSE uxPriority[Head(xTasksWaitingToReceive[m])]

(* vTaskPriorityDisinheritAfterTimeout.  It resets the bit of the new       *)
(* priority, not of the one whose list the holder leaves.                   *)
Disinherit(t) ==
    LET m == xMutex[t]
        h == pxMutexHolder[m]
        toUse == Max({uxBasePriority[h], DisinheritPriority(m)})
    IN  /\ pxCurrentTCB = t
        /\ at[t] = "disinherit"
        /\ IF h # NoTask /\ uxPriority[h] # toUse /\ uxMutexesHeld[h] = 1
           THEN /\ uxPriority' = [uxPriority EXCEPT ![h] = toUse]
                /\ ready' = IF IsReady(h)
                            THEN Added(Removed(ready, h, uxPriority[h], toUse), h, toUse)
                            ELSE ready
           ELSE UNCHANGED <<uxPriority, ready>>
        /\ Return(t)
        /\ UNCHANGED <<mutexes, uxMutexesHeld, pxCurrentTCB>>

-----------------------------------------------------------------------------
(* Giving a mutex: xQueueGenericSend with prvCopyDataToQueue and             *)
(* xTaskPriorityDisinherit.                                                  *)

(* Mutant: the mutex that is being given is counted as still held. *)
FallsTooLate(t) == uxPriority[t] # uxBasePriority[t] /\ uxMutexesHeld[t] = 0

(* xTaskPriorityDisinherit: the giver returns to its own priority with the   *)
(* last mutex.                                                               *)
Falls(t) == uxPriority[t] # uxBasePriority[t] /\ uxMutexesHeld[t] = 1

(* A waiting task is woken, and the giver yields to it if its priority is    *)
(* higher; only without one does it yield because its own priority fell.     *)
Give(t, m) ==
    LET priority == IF Falls(t) THEN uxBasePriority[t] ELSE uxPriority[t]
        fallen == IF Falls(t)
                  THEN Added(Removed(ready, t, uxPriority[t], uxPriority[t]), t, priority)
                  ELSE ready
        waiting == xTasksWaitingToReceive[m]
        woken == Head(waiting)
    IN  /\ pxCurrentTCB = t
        /\ at[t] = "elsewhere"
        /\ pxMutexHolder[m] = t
        /\ pxMutexHolder' = [pxMutexHolder EXCEPT ![m] = NoTask]
        /\ uxMutexesHeld' = [uxMutexesHeld EXCEPT ![t] = @ - 1]
        /\ uxPriority' = [uxPriority EXCEPT ![t] = priority]
        /\ IF waiting # <<>>
           THEN /\ ready' = Added(fallen, woken, uxPriority[woken])
                /\ xTasksWaitingToReceive' =
                      [xTasksWaitingToReceive EXCEPT ![m] = Tail(@)]
                /\ YieldIf(uxPriority[woken] > priority)
           ELSE /\ ready' = fallen
                /\ UNCHANGED xTasksWaitingToReceive
                /\ YieldIf(Falls(t))
        /\ UNCHANGED calls

-----------------------------------------------------------------------------
(* Time. *)

(* A task leaves for a while, without waiting for a mutex. *)
vTaskDelay(t) ==
    /\ pxCurrentTCB = t
    /\ at[t] = "elsewhere"
    /\ at' = [at EXCEPT ![t] = "asleep"]
    /\ ready' = Removed(ready, t, uxPriority[t], uxPriority[t])
    /\ vTaskSwitchContext
    /\ UNCHANGED <<mutexes, uxMutexesHeld, uxPriority, xMutex, xTicksToWait, expired,
                   xInheritanceOccurred>>

(* xTaskIncrementTick: the time of a sleeping or waiting task has come. *)
Unblock(t) ==
    /\ ready' = Added(ready, t, uxPriority[t])
    /\ YieldIf(uxPriority[t] >= PriorityOf(pxCurrentTCB))

WakeUp(t) ==
    /\ pxCurrentTCB # NoTask
    /\ at[t] = "asleep"
    /\ at' = [at EXCEPT ![t] = "elsewhere"]
    /\ Unblock(t)
    /\ UNCHANGED <<mutexes, uxMutexesHeld, uxPriority, xMutex, xTicksToWait, expired,
                   xInheritanceOccurred>>

BlockTimeOver(t) ==
    /\ pxCurrentTCB # NoTask
    /\ at[t] \in {"try", "block"}
    /\ xTicksToWait[t] = "limited"
    /\ t \notin expired
    /\ expired' = expired \cup {t}
    /\ IF IsReady(t)
       THEN UNCHANGED <<ready, pxCurrentTCB, xTasksWaitingToReceive>>
       ELSE /\ xTasksWaitingToReceive' =
                 [xTasksWaitingToReceive EXCEPT ![xMutex[t]] = Unlinked(@, t)]
            /\ Unblock(t)
    /\ UNCHANGED <<pxMutexHolder, uxMutexesHeld, uxPriority, at, xMutex, xTicksToWait,
                   xInheritanceOccurred>>

(* Time slicing: the tick switches among tasks of the same priority. *)
TimeSlice ==
    /\ pxCurrentTCB # NoTask
    /\ Cardinality(ready.lists[PriorityOf(pxCurrentTCB)]) > 1
    /\ UNCHANGED <<mutexes, uxMutexesHeld, uxPriority, ready, calls>>
    /\ vTaskSwitchContext

MutexNext ==
    \/ \E t \in Tasks :
          \/ \E m \in Mutexes, ticks \in {"limited", "forever"} : Call(t, m, ticks)
          \/ Take(t)
          \/ TakeFails(t)
          \/ BlockTimeIsOver(t)
          \/ GivenMeanwhile(t)
          \/ Block(t)
          \/ LookAgain(t)
          \/ Disinherit(t)
          \/ \E m \in Mutexes : Give(t, m)
          \/ vTaskDelay(t)
          \/ WakeUp(t)
          \/ BlockTimeOver(t)
    \/ TimeSlice

-----------------------------------------------------------------------------
Places == {"elsewhere", "try", "block", "lookAgain", "disinherit", "asleep",
           "assertion"}

MutexTypeOK ==
    /\ pxMutexHolder \in [Mutexes -> Tasks \cup {NoTask}]
    /\ uxPriority \in [Tasks -> Priorities]
    /\ at \in [Tasks -> Places]
    /\ pxCurrentTCB \in Tasks \cup {Idle, NoTask}
    /\ expired \cup xInheritanceOccurred \subseteq Tasks

Held(t) == {m \in Mutexes : pxMutexHolder[m] = t}

(* The scheduler's lists stay exact while priorities change under it: a     *)
(* task is only in the list of its priority, and in none while it waits.    *)
(* What the mutexes say of their holders agrees with what these count.      *)
ReadyListsExact ==
    /\ MutexTypeOK
    /\ \A p \in Priorities : \A t \in ready.lists[p] : PriorityOf(t) = p
    /\ \A t \in Tasks :
          IsReady(t) <=> at[t] # "asleep"
                         /\ \A m \in Mutexes : t \notin Range(xTasksWaitingToReceive[m])
    /\ \A t \in Tasks : uxMutexesHeld[t] = Cardinality(Held(t))

(* A priority is inherited only for as long as a mutex is held: whoever     *)
(* holds none has its own.                                                  *)
PriorityRestored ==
    \A t \in Tasks : IF Held(t) = {} THEN uxPriority[t] = uxBasePriority[t]
                     ELSE uxPriority[t] >= uxBasePriority[t]

(* Priority inheritance is exact: nobody waits for a holder that has a       *)
(* lower priority, not even after others' timeouts have taken back what      *)
(* they lent, and a bit of uxTopReadyPriority is set if and only if its      *)
(* ready list has a task, on which the assertion of vTaskSwitchContext rests. *)
InheritanceExact ==
    /\ \A m \in Mutexes : \A t \in Range(xTasksWaitingToReceive[m]) :
          pxMutexHolder[m] # NoTask => uxPriority[pxMutexHolder[m]] >= uxPriority[t]
    /\ \A p \in Priorities : p \in ready.top <=> ready.lists[p] # {}
=============================================================================

----------------------------- MODULE KernelTime -----------------------------
(***************************************************************************)
(* Delays and timeouts of the kernel (FreeRTOS/tasks.c): vTaskDelay,        *)
(* vTaskDelayUntil, the waiting loop that the blocking calls of queue.c     *)
(* share, and the tick interrupt, over the two delayed lists that are       *)
(* switched when the tick count comes round to 0.                           *)
(*                                                                          *)
(* TickType_t has TickMod values, where the board has 2^32: at 1 kHz its    *)
(* tick count comes round after 49.7 days.  Priorities are left out, so     *)
(* that any task that is not blocked may run next, as late as MaxLate.      *)
(***************************************************************************)
EXTENDS Integers, Functions, FiniteSetsExt

CONSTANTS Tasks,
          Periodic,   \* tasks that only call vTaskDelayUntil
          NoTask,
          TickMod,    \* values of TickType_t
          MaxWait,    \* the longest delay or wait asked for
          MaxLate,    \* ticks a task that may run has to wait for the processor
          MaxPended,  \* ticks while the scheduler is suspended
          OverflowMod \* values of xNumOfOverflows

ASSUME TimeAssumption ==
    /\ NoTask \notin Tasks
    /\ Periodic \subseteq Tasks
    /\ {TickMod, MaxWait, MaxLate, MaxPended} \subseteq Nat \ {0}
    /\ MaxWait + MaxLate < TickMod
    /\ OverflowMod \in Nat \ {0, 1}

portMAX_DELAY == TickMod - 1

VARIABLES
    kernel,             \* tick count, overflows, delayed lists, next unblock time
    xSuspendedTaskList, \* tasks that wait without a time limit
    uxPendedTicks,
    suspendedBy,        \* the task that has suspended the scheduler
    eventList,          \* tasks that wait for an event
    xPendingReadyList,  \* tasks whose event came while the scheduler was suspended
    at,                 \* where each task is
    xTicksToWait,
    xTimeOut,
    pxPreviousWakeTime,
    due                 \* ghost: ticks until each task's delay or wait is over

vars == <<kernel, xSuspendedTaskList, uxPendedTicks, suspendedBy, eventList,
          xPendingReadyList, at, xTicksToWait, xTimeOut, pxPreviousWakeTime, due>>

(* A delayed list gives the wake time of each of its tasks: vListInsert     *)
(* keeps it in the order of these, and its head has the smallest.           *)
EmptyList == [t \in {} |-> 0]

(* The locals xTimeOut and xTicksToWait are not there outside a call. *)
NoTimeOut == [xOverflowCount |-> 0, xTimeOnEntering |-> 0]

Init ==
    /\ kernel = [xTickCount |-> 0, xNumOfOverflows |-> 0,
                 pxDelayedTaskList |-> EmptyList,
                 pxOverflowDelayedTaskList |-> EmptyList,
                 xNextTaskUnblockTime |-> portMAX_DELAY]
    /\ xSuspendedTaskList = {}
    /\ uxPendedTicks = 0
    /\ suspendedBy = NoTask
    /\ eventList = {}
    /\ xPendingReadyList = {}
    /\ at = [t \in Tasks |-> "elsewhere"]
    /\ xTicksToWait = [t \in Tasks |-> 0]
    /\ xTimeOut = [t \in Tasks |-> NoTimeOut]
    /\ pxPreviousWakeTime = [t \in Tasks |-> 0]
    /\ due = [t \in Tasks |-> 0]

Delayed(k) == DOMAIN k.pxDelayedTaskList \cup DOMAIN k.pxOverflowDelayedTaskList

Blocked(t) == t \in Delayed(kernel) \cup xSuspendedTaskList

(* The task may have the processor. *)
Runs(t) == ~Blocked(t) /\ suspendedBy = NoTask

-----------------------------------------------------------------------------
(* The lists. *)

Without(list, S) == Restrict(list, DOMAIN list \ S)

(* prvResetNextTaskUnblockTime: the wake time at the head of a list. *)
NextUnblockTime(list) ==
    IF DOMAIN list = {} THEN portMAX_DELAY ELSE Min(Range(list))

vListInsert(list, t, wake) ==
    [u \in DOMAIN list \cup {t} |-> IF u = t THEN wake ELSE list[u]]

(* Mutant: every wake time goes to the current list. *)
prvAddToDelayedListAlways(k, t, ticks) ==
    LET wake == (k.xTickCount + ticks) % TickMod
    IN  [k EXCEPT !.pxDelayedTaskList = vListInsert(@, t, wake),
                  !.xNextTaskUnblockTime = IF wake < @ THEN wake ELSE @]

(* prvAddCurrentTaskToDelayedList, for a task that is not to block          *)
(* indefinitely: a wake time past the overflow goes to the other list.      *)
prvAddToDelayedList(k, t, ticks) ==
    LET wake == (k.xTickCount + ticks) % TickMod
    IN  IF wake < k.xTickCount
        THEN [k EXCEPT !.pxOverflowDelayedTaskList = vListInsert(@, t, wake)]
        ELSE [k EXCEPT !.pxDelayedTaskList = vListInsert(@, t, wake),
                       !.xNextTaskUnblockTime = IF wake < @ THEN wake ELSE @]

(* taskSWITCH_DELAYED_LISTS, when the new tick count is 0. *)
SwitchDelayedLists(k) ==
    [k EXCEPT !.pxDelayedTaskList = k.pxOverflowDelayedTaskList,
              !.pxOverflowDelayedTaskList = k.pxDelayedTaskList,
              !.xNumOfOverflows = (@ + 1) % OverflowMod,
              !.xNextTaskUnblockTime = NextUnblockTime(k.pxOverflowDelayedTaskList)]

(* xTaskIncrementTick with the scheduler running: the tasks at the head of  *)
(* the list whose time has come are removed.                                *)
xTaskIncrementTick(k) ==
    LET tick == (k.xTickCount + 1) % TickMod
        counted == [k EXCEPT !.xTickCount = tick]
        switched == IF tick = 0 THEN SwitchDelayedLists(counted) ELSE counted
        list == switched.pxDelayedTaskList
        rest == Without(list, {t \in DOMAIN list : list[t] <= tick})
    IN  IF tick >= switched.xNextTaskUnblockTime
        THEN [switched EXCEPT !.pxDelayedTaskList = rest,
                              !.xNextTaskUnblockTime = NextUnblockTime(rest)]
        ELSE switched

(* xTaskResumeAll's loop over n pended ticks. *)
Ticked(k, n) ==
    LET after[i \in 0 .. n] == IF i = 0 THEN k ELSE xTaskIncrementTick(after[i - 1])
    IN  after[n]

(* A wait without a time limit is never over. *)
Forever(t) == at[t] \in {"check", "waiting"} /\ xTicksToWait[t] = portMAX_DELAY

(* The ghost follows n ticks: a task that asked for nothing has none due.   *)
Elapse(n) ==
    due' = [t \in Tasks |->
              IF (at[t] = "elsewhere" /\ t \notin Periodic) \/ Forever(t)
              THEN due[t] ELSE due[t] - n]

(* The processor is not kept from a task for longer than MaxLate. *)
NobodyTooLate == \A t \in Tasks : due[t] - uxPendedTicks > -MaxLate

-----------------------------------------------------------------------------
(* The tick interrupt.  While the scheduler is suspended the tick is only   *)
(* counted.                                                                 *)

Tick ==
    /\ suspendedBy = NoTask
    /\ NobodyTooLate
    /\ kernel' = xTaskIncrementTick(kernel)
    /\ eventList' = eventList \ (Delayed(kernel) \ Delayed(kernel'))
    /\ Elapse(1)
    /\ UNCHANGED <<xSuspendedTaskList, uxPendedTicks, suspendedBy, xPendingReadyList,
                   at, xTicksToWait, xTimeOut, pxPreviousWakeTime>>

PendTick ==
    /\ suspendedBy # NoTask
    /\ uxPendedTicks < MaxPended
    /\ NobodyTooLate
    /\ uxPendedTicks' = uxPendedTicks + 1
    /\ UNCHANGED <<kernel, xSuspendedTaskList, suspendedBy, eventList,
                   xPendingReadyList, at, xTicksToWait, xTimeOut,
                   pxPreviousWakeTime, due>>

(* xTaskRemoveFromEventList, from an interrupt: while the scheduler is      *)
(* suspended the task is held pending and stays in its delayed list.        *)
xTaskRemoveFromEventList(t) ==
    /\ t \in eventList
    /\ eventList' = eventList \ {t}
    /\ IF suspendedBy = NoTask
       THEN /\ kernel' = [kernel EXCEPT !.pxDelayedTaskList = Without(@, {t}),
                                        !.pxOverflowDelayedTaskList = Without(@, {t})]
            /\ xSuspendedTaskList' = xSuspendedTaskList \ {t}
            /\ UNCHANGED xPendingReadyList
       ELSE /\ xPendingReadyList' = xPendingReadyList \cup {t}
            /\ UNCHANGED <<kernel, xSuspendedTaskList>>
    /\ UNCHANGED <<uxPendedTicks, suspendedBy, at, xTicksToWait, xTimeOut,
                   pxPreviousWakeTime, due>>

(* xTaskResumeAll: the tasks held pending leave their lists, then the ticks *)
(* that were only counted are processed.                                    *)
xTaskResumeAll(t) ==
    LET readied ==
            IF xPendingReadyList = {} THEN kernel
            ELSE LET list == Without(kernel.pxDelayedTaskList, xPendingReadyList)
                 IN  [kernel EXCEPT !.pxDelayedTaskList = list,
                                    !.pxOverflowDelayedTaskList =
                                        Without(@, xPendingReadyList),
                                    !.xNextTaskUnblockTime = NextUnblockTime(list)]
    IN  /\ suspendedBy = t
        /\ suspendedBy' = NoTask
        /\ kernel' = Ticked(readied, uxPendedTicks)
        /\ xSuspendedTaskList' = xSuspendedTaskList \ xPendingReadyList
        /\ xPendingReadyList' = {}
        /\ eventList' = eventList \ (Delayed(kernel) \ Delayed(kernel'))
        /\ uxPendedTicks' = 0
        /\ Elapse(uxPendedTicks)
        /\ UNCHANGED <<at, xTicksToWait, xTimeOut, pxPreviousWakeTime>>

-----------------------------------------------------------------------------
(* Delays. *)

vTaskDelay(t, ticks) ==
    /\ Runs(t)
    /\ at[t] = "elsewhere"
    /\ suspendedBy' = t
    /\ kernel' = prvAddToDelayedList(kernel, t, ticks)
    /\ at' = [at EXCEPT ![t] = "delaying"]
    /\ due' = [due EXCEPT ![t] = ticks]
    /\ UNCHANGED <<xSuspendedTaskList, uxPendedTicks, eventList, xPendingReadyList,
                   xTicksToWait, xTimeOut, pxPreviousWakeTime>>

(* vTaskDelayUntil's xShouldDelay: the wake time is still to come. *)
ShouldDelay(previous, wake, tick) ==
    IF tick < previous
    THEN wake < previous /\ wake > tick
    ELSE wake < previous \/ wake > tick

(* The delay ends at a fixed distance from the last one, however late the   *)
(* task came to ask for it.                                                 *)
vTaskDelayUntil(t, increment) ==
    LET wake == (pxPreviousWakeTime[t] + increment) % TickMod
    IN  /\ Runs(t)
        /\ at[t] = "elsewhere"
        /\ suspendedBy' = t
        /\ pxPreviousWakeTime' = [pxPreviousWakeTime EXCEPT ![t] = wake]
        /\ kernel' = IF ShouldDelay(pxPreviousWakeTime[t], wake, kernel.xTickCount)
                     THEN prvAddToDelayedList(kernel, t,
                              (wake - kernel.xTickCount) % TickMod)
                     ELSE kernel
        /\ at' = [at EXCEPT ![t] = "delaying"]
        /\ due' = [due EXCEPT ![t] = @ + increment]
        /\ UNCHANGED <<xSuspendedTaskList, uxPendedTicks, eventList,
                       xPendingReadyList, xTicksToWait, xTimeOut>>

DelayReturns(t) ==
    /\ Runs(t)
    /\ at[t] = "delaying"
    /\ at' = [at EXCEPT ![t] = "elsewhere"]
    /\ due' = [due EXCEPT ![t] = IF t \in Periodic THEN @ ELSE 0]
    /\ UNCHANGED <<kernel, xSuspendedTaskList, uxPendedTicks, suspendedBy, eventList,
                   xPendingReadyList, xTicksToWait, xTimeOut, pxPreviousWakeTime>>

-----------------------------------------------------------------------------
(* The waiting loop of xQueueGenericSend, xQueueReceive, xQueuePeek and      *)
(* xQueueSemaphoreTake.                                                      *)

(* vTaskInternalSetTimeOutState. *)
TimeOutState == [xOverflowCount |-> kernel.xNumOfOverflows,
                 xTimeOnEntering |-> kernel.xTickCount]

(* The first attempt fails and a block time was given. *)
BeginWait(t, ticks) ==
    /\ Runs(t)
    /\ at[t] = "elsewhere"
    /\ at' = [at EXCEPT ![t] = "check"]
    /\ xTicksToWait' = [xTicksToWait EXCEPT ![t] = ticks]
    /\ xTimeOut' = [xTimeOut EXCEPT ![t] = TimeOutState]
    /\ due' = [due EXCEPT ![t] = ticks]
    /\ UNCHANGED <<kernel, xSuspendedTaskList, uxPendedTicks, suspendedBy, eventList,
                   xPendingReadyList, pxPreviousWakeTime>>

Elapsed(t) == (kernel.xTickCount - xTimeOut[t].xTimeOnEntering) % TickMod

(* xTaskCheckForTimeOut's result. *)
TimedOut(t) ==
    /\ xTicksToWait[t] # portMAX_DELAY
    /\ \/ /\ kernel.xNumOfOverflows # xTimeOut[t].xOverflowCount
          /\ kernel.xTickCount >= xTimeOut[t].xTimeOnEntering
       \/ Elapsed(t) >= xTicksToWait[t]

(* With the scheduler suspended: the wait is over, the event has come after *)
(* all, or the task enters the event list and a list of blocked tasks for   *)
(* the time that is left.                                                   *)
WaitIsOver(t) ==
    /\ Runs(t)
    /\ at[t] = "check"
    /\ TimedOut(t)
    /\ suspendedBy' = t
    /\ at' = [at EXCEPT ![t] = "timedOut"]
    /\ UNCHANGED <<kernel, xSuspendedTaskList, uxPendedTicks, eventList,
                   xPendingReadyList, xTicksToWait, xTimeOut, pxPreviousWakeTime, due>>

vTaskPlaceOnEventList(t) ==
    LET forever == xTicksToWait[t] = portMAX_DELAY
        left == xTicksToWait[t] - Elapsed(t)
    IN  /\ Runs(t)
        /\ at[t] = "check"
        /\ ~TimedOut(t)
        /\ suspendedBy' = t
        /\ at' = [at EXCEPT ![t] = "waiting"]
        /\ eventList' = eventList \cup {t}
        /\ IF forever
           THEN /\ xSuspendedTaskList' = xSuspendedTaskList \cup {t}
                /\ UNCHANGED <<kernel, xTicksToWait, xTimeOut>>
           ELSE /\ xTicksToWait' = [xTicksToWait EXCEPT ![t] = left]
                /\ xTimeOut' = [xTimeOut EXCEPT ![t] = TimeOutState]
                /\ kernel' = prvAddToDelayedList(kernel, t, left)
                /\ UNCHANGED xSuspendedTaskList
        /\ UNCHANGED <<uxPendedTicks, xPendingReadyList, pxPreviousWakeTime, due>>

(* The event woke the task but is gone again: the loop begins anew. *)
TryAgain(t) ==
    /\ Runs(t)
    /\ at[t] = "waiting"
    /\ at' = [at EXCEPT ![t] = "check"]
    /\ UNCHANGED <<kernel, xSuspendedTaskList, uxPendedTicks, suspendedBy, eventList,
                   xPendingReadyList, xTicksToWait, xTimeOut, pxPreviousWakeTime, due>>

(* The attempt at the top of the loop succeeds, or the call returns an      *)
(* error.                                                                   *)
WaitReturns(t) ==
    /\ Runs(t)
    /\ at[t] \in {"check", "waiting", "timedOut"}
    /\ at' = [at EXCEPT ![t] = "elsewhere"]
    /\ xTicksToWait' = [xTicksToWait EXCEPT ![t] = 0]
    /\ xTimeOut' = [xTimeOut EXCEPT ![t] = NoTimeOut]
    /\ due' = [due EXCEPT ![t] = 0]
    /\ UNCHANGED <<kernel, xSuspendedTaskList, uxPendedTicks, suspendedBy, eventList,
                   xPendingReadyList, pxPreviousWakeTime>>

Next ==
    \/ Tick
    \/ PendTick
    \/ \E t \in Tasks :
          \/ xTaskRemoveFromEventList(t)
          \/ xTaskResumeAll(t)
          \/ DelayReturns(t)
          \/ WaitIsOver(t)
          \/ vTaskPlaceOnEventList(t)
          \/ TryAgain(t)
          \/ WaitReturns(t)
    \/ \E t \in Tasks \ Periodic, ticks \in 1 .. MaxWait :
          vTaskDelay(t, ticks) \/ BeginWait(t, ticks)
    \/ \E t \in Tasks \ Periodic : BeginWait(t, portMAX_DELAY)
    \/ \E t \in Periodic, increment \in 1 .. MaxWait : vTaskDelayUntil(t, increment)

Spec == Init /\ [][Next]_vars

-----------------------------------------------------------------------------
Places == {"elsewhere", "delaying", "check", "waiting", "timedOut"}

TypeOK ==
    /\ kernel.xTickCount \in 0 .. TickMod - 1
    /\ kernel.xNextTaskUnblockTime \in 0 .. TickMod - 1
    /\ Delayed(kernel) \cap xSuspendedTaskList = {}
    /\ xPendingReadyList \cap eventList = {}
    /\ xPendingReadyList \cup eventList \subseteq Delayed(kernel) \cup xSuspendedTaskList
    /\ uxPendedTicks \in 0 .. MaxPended
    /\ suspendedBy \in Tasks \cup {NoTask}
    /\ at \in [Tasks -> Places]

(* No task sleeps past the end of its delay or of its wait, and none is     *)
(* told too early that it is over, wherever the tick count comes round in   *)
(* between, and although xNextTaskUnblockTime is not brought up to date     *)
(* when an event takes a task out of the list.  When the tick count comes   *)
(* round nobody is left in the list that becomes the one for overflows: the *)
(* assertion of taskSWITCH_DELAYED_LISTS.                                   *)
DelaysExact ==
    /\ TypeOK
    /\ \A t \in Delayed(kernel) : due[t] > 0
    /\ \A t \in Tasks :
          (at[t] = "timedOut" \/ (at[t] = "delaying" /\ ~Blocked(t))) => due[t] <= 0
    /\ kernel.xTickCount = portMAX_DELAY => DOMAIN kernel.pxDelayedTaskList = {}
=============================================================================

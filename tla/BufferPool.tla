------------------------------ MODULE BufferPool ------------------------------
(***************************************************************************)
(* The statically allocated buffer pool shared by the MQTT task and the    *)
(* application tasks (AWS/bufferpool/aws_bufferpool_static_thread_safe.c). *)
(*                                                                         *)
(* BUFFERPOOL_GetFreeBuffer is not atomic: it visits the buffers in order  *)
(* and enters one critical section per buffer, so a task that returns a    *)
(* buffer can run between any two visits.  In this firmware the pool is    *)
(* only asked for a buffer by the MQTT library, which runs in the MQTT     *)
(* task alone; every task may return one.                                  *)
(***************************************************************************)
EXTENDS Naturals

CONSTANTS NumBuffers,  \* bufferpoolconfigNUM_BUFFERS
          BufferSize,  \* bufferpoolconfigBUFFER_SIZE
          Lengths,     \* the lengths callers ask for
          MqttTask,    \* the only task that calls BUFFERPOOL_GetFreeBuffer
          AppTasks     \* the tasks that are handed received buffers

ASSUME PoolAssumption ==
    /\ NumBuffers \in Nat \ {0}
    /\ BufferSize \in Nat
    /\ Lengths \subseteq Nat
    /\ MqttTask \notin AppTasks

Buffers   == 0 .. NumBuffers - 1
PoolTasks == AppTasks \cup {MqttTask}

(* The value of *pulBufferLength and of the returned pointer before a call. *)
Null == NumBuffers

VARIABLES
    ucBufferInUse,  \* the metadata byte of each buffer
    pc,             \* the MQTT task: "idle", "scan" or "done" (call returned)
    x,              \* the index the scan visits next
    pulBufferLength,\* the in/out parameter of the call
    pucFreeBuffer,  \* the result of the last call
    holder,         \* ghost: the tasks that believe they own each buffer
    busyAtCall      \* ghost: the buffers in use when the call began

vars == <<ucBufferInUse, pc, x, pulBufferLength, pucFreeBuffer, holder, busyAtCall>>

InUse == {b \in Buffers : ucBufferInUse[b] = 1}

-----------------------------------------------------------------------------

(* BUFFERPOOL_Init marks every buffer free. *)
Init ==
    /\ ucBufferInUse = [b \in Buffers |-> 0]
    /\ pc = "idle"
    /\ x = 0
    /\ pulBufferLength = 0
    /\ pucFreeBuffer = Null
    /\ holder = [b \in Buffers |-> {}]
    /\ busyAtCall = {}

(* Mutant: the scan starts at the second buffer. *)
GetFreeBufferSkipsFirst(len) ==
    /\ pc = "idle"
    /\ pulBufferLength' = len
    /\ pucFreeBuffer' = Null
    /\ x' = 1
    /\ busyAtCall' = InUse
    /\ pc' = IF len <= BufferSize THEN "scan" ELSE "done"
    /\ UNCHANGED <<ucBufferInUse, holder>>

(* Entry of BUFFERPOOL_GetFreeBuffer: a request that no buffer can satisfy *)
(* returns NULL at once, any other starts the scan.                        *)
GetFreeBuffer(len) ==
    /\ pc = "idle"
    /\ pulBufferLength' = len
    /\ pucFreeBuffer' = Null
    /\ x' = 0
    /\ busyAtCall' = InUse
    /\ pc' = IF len <= BufferSize THEN "scan" ELSE "done"
    /\ UNCHANGED <<ucBufferInUse, holder>>

(* Mutant: the buffer is tested but never marked in use. *)
ScanStepUnmarked ==
    /\ pc = "scan"
    /\ x \in Buffers
    /\ \/ /\ ucBufferInUse[x] = 0
          /\ pulBufferLength' = BufferSize
          /\ pucFreeBuffer' = x
          /\ holder' = [holder EXCEPT ![x] = @ \cup {MqttTask}]
          /\ pc' = "done"
          /\ x' = x
       \/ /\ ucBufferInUse[x] # 0
          /\ x' = x + 1
          /\ UNCHANGED <<pc, pulBufferLength, pucFreeBuffer, holder>>
    /\ UNCHANGED <<busyAtCall, ucBufferInUse>>

(* One critical section of the scan: the buffer at x is tested and marked. *)
ScanStep ==
    /\ pc = "scan"
    /\ x \in Buffers
    /\ \/ /\ ucBufferInUse[x] = 0
          /\ ucBufferInUse' = [ucBufferInUse EXCEPT ![x] = 1]
          /\ pulBufferLength' = BufferSize
          /\ pucFreeBuffer' = x
          /\ holder' = [holder EXCEPT ![x] = @ \cup {MqttTask}]
          /\ pc' = "done"
          /\ x' = x
       \/ /\ ucBufferInUse[x] # 0
          /\ x' = x + 1
          /\ UNCHANGED <<ucBufferInUse, pc, pulBufferLength, pucFreeBuffer, holder>>
    /\ UNCHANGED busyAtCall

(* The loop condition fails: every buffer was visited, NULL is returned. *)
ScanEnd ==
    /\ pc = "scan"
    /\ x = NumBuffers
    /\ pc' = "done"
    /\ UNCHANGED <<ucBufferInUse, x, pulBufferLength, pucFreeBuffer, holder, busyAtCall>>

(* The caller has looked at the result and goes on. *)
Resume ==
    /\ pc = "done"
    /\ pc' = "idle"
    /\ UNCHANGED <<ucBufferInUse, x, pulBufferLength, pucFreeBuffer, holder, busyAtCall>>

(* BUFFERPOOL_ReturnBuffer: one critical section that marks the buffer     *)
(* free and checks nothing.  Callers return only a buffer they were given. *)
(* The MQTT task returns its buffers between two calls, the application    *)
(* tasks at any time.                                                      *)
ReturnBuffer(t, b) ==
    /\ t \in holder[b]
    /\ t = MqttTask => pc = "idle"
    /\ ucBufferInUse' = [ucBufferInUse EXCEPT ![b] = 0]
    /\ holder' = [holder EXCEPT ![b] = @ \ {t}]
    /\ UNCHANGED <<pc, x, pulBufferLength, pucFreeBuffer, busyAtCall>>

(* A publish callback returned pdTRUE: the application owns the buffer. *)
TakeOwnership(t, b) ==
    /\ pc = "idle"
    /\ MqttTask \in holder[b]
    /\ holder' = [holder EXCEPT ![b] = (@ \ {MqttTask}) \cup {t}]
    /\ UNCHANGED <<ucBufferInUse, pc, x, pulBufferLength, pucFreeBuffer, busyAtCall>>

Next ==
    \/ \E len \in Lengths : GetFreeBuffer(len)
    \/ ScanStep
    \/ ScanEnd
    \/ Resume
    \/ \E t \in PoolTasks, b \in Buffers : ReturnBuffer(t, b)
    \/ \E t \in AppTasks, b \in Buffers : TakeOwnership(t, b)

Spec == Init /\ [][Next]_vars

-----------------------------------------------------------------------------

TypeOK ==
    /\ ucBufferInUse \in [Buffers -> {0, 1}]
    /\ pc \in {"idle", "scan", "done"}
    /\ x \in 0 .. NumBuffers
    /\ pulBufferLength \in Nat
    /\ pucFreeBuffer \in Buffers \cup {Null}
    /\ holder \in [Buffers -> SUBSET PoolTasks]
    /\ busyAtCall \in SUBSET Buffers

(* No buffer has two owners, and a buffer is marked in use exactly while   *)
(* somebody owns it: nothing is handed out twice and nothing leaks, in     *)
(* whatever order returns and visits of the scan interleave.               *)
Ownership ==
    \A b \in Buffers :
        /\ \A s, t \in holder[b] : s = t
        /\ ucBufferInUse[b] = 1 <=> holder[b] # {}

(* Although the scan can walk past a buffer that is freed behind it, NULL  *)
(* is only returned for a request that fits when at one instant of the     *)
(* call (its beginning) every buffer was in use.                           *)
NullOnlyWhenExhausted ==
    pc = "done" /\ pucFreeBuffer = Null /\ pulBufferLength <= BufferSize
        => busyAtCall = Buffers

(* What keeps NullOnlyWhenExhausted: all that was visited was in use when  *)
(* the call began, because only the MQTT task marks buffers.               *)
VisitedWasBusy ==
    pc = "scan" => /\ \A b \in Buffers : b < x => b \in busyAtCall
                   /\ InUse \subseteq busyAtCall
                   /\ pucFreeBuffer = Null
==============================================================================

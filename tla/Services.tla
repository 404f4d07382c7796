------------------------------- MODULE Services -------------------------------
(***************************************************************************)
(* Services that the tasks of the firmware share: the buffer pool, the heap *)
(* and the mutexes of the kernel, the secure sockets.  They have no state   *)
(* in common, and a behaviour here is one of a single service, so that the  *)
(* others need not be multiplied with it.                                   *)
(***************************************************************************)
EXTENDS BufferPool, Heap, KernelMutex, SecureSocket

VARIABLE service  \* the one that is used

poolVars == vars
serviceVars == <<service, poolVars, heapVars, mutexVars, socketVars>>

ServicesInit ==
    /\ service \in {"pool", "heap", "mutexes", "one mutex", "sockets"}
    /\ Init
    /\ HeapInit
    /\ MutexInit
    /\ SocketInit

(* No task takes another mutex than this one. *)
OneMutex == xMutex' \in [Tasks -> {NoMutex, CHOOSE m \in Mutexes : TRUE}]

ServicesNext ==
    /\ UNCHANGED service
    /\ \/ /\ service = "pool" /\ Next
          /\ UNCHANGED <<heapVars, mutexVars, socketVars>>
       \/ /\ service = "heap" /\ HeapNext
          /\ UNCHANGED <<poolVars, mutexVars, socketVars>>
       \/ /\ service \in {"mutexes", "one mutex"} /\ MutexNext
          /\ service = "one mutex" => OneMutex
          /\ UNCHANGED <<poolVars, heapVars, socketVars>>
       \/ /\ service = "sockets" /\ SocketNext
          /\ UNCHANGED <<poolVars, heapVars, mutexVars>>

ServicesSpec == ServicesInit /\ [][ServicesNext]_serviceVars

-----------------------------------------------------------------------------

(* With one mutex priority inheritance is exact (with several it is not:     *)
(* vTaskPriorityDisinheritAfterTimeout leaves alone a holder of two).        *)
OneMutexExact == service = "one mutex" => InheritanceExact
==============================================================================

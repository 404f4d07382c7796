--------------------------- MODULE BufferPoolProofs ---------------------------
(* Proofs about BufferPool for any number of buffers and of tasks. *)
EXTENDS BufferPool, TLAPS

(* The inductive invariant: type correctness, ownership and the fact that  *)
(* a scan in progress has only passed buffers that were busy at its start. *)
PoolInv == TypeOK /\ Ownership /\ VisitedWasBusy /\ NullOnlyWhenExhausted

LEMMA InitPoolInv == Init => PoolInv
  BY PoolAssumption DEF Init, PoolInv, TypeOK, Ownership, VisitedWasBusy,
     NullOnlyWhenExhausted, InUse, Buffers, PoolTasks, Null

LEMMA NextPoolInv == PoolInv /\ [Next]_vars => PoolInv'
<1> SUFFICES ASSUME PoolInv, [Next]_vars PROVE PoolInv'
  OBVIOUS
<1> USE PoolAssumption DEF PoolInv, TypeOK, Buffers, PoolTasks, Null
<1>1. CASE UNCHANGED vars
  BY <1>1 DEF vars, Ownership, VisitedWasBusy, NullOnlyWhenExhausted, InUse
<1>2. ASSUME NEW len \in Lengths, GetFreeBuffer(len) PROVE PoolInv'
  BY <1>2 DEF GetFreeBuffer, Ownership, VisitedWasBusy, NullOnlyWhenExhausted, InUse
<1>3. CASE ScanStep
  <2>1. CASE ucBufferInUse[x] = 0
    BY <1>3, <2>1, SMTT(30) DEF ScanStep, Ownership, VisitedWasBusy, NullOnlyWhenExhausted, InUse
  <2>2. CASE ucBufferInUse[x] # 0
    <3>1. x \in InUse
      BY <1>3, <2>2 DEF ScanStep, InUse
    <3>2. VisitedWasBusy'
      BY <1>3, <2>2, <3>1 DEF ScanStep, VisitedWasBusy, InUse
    <3>3. QED
      BY <1>3, <2>2, <3>2 DEF ScanStep, Ownership, NullOnlyWhenExhausted
  <2>3. QED
    BY <2>1, <2>2
<1>4. CASE ScanEnd
  <2>1. \A b \in Buffers : b \in busyAtCall
    BY <1>4 DEF ScanEnd, VisitedWasBusy
  <2> HIDE DEF Buffers
  <2>2. busyAtCall = Buffers
    BY <2>1 DEF TypeOK
  <2>3. QED
    BY <1>4, <2>2 DEF ScanEnd, Ownership, VisitedWasBusy, NullOnlyWhenExhausted
<1>5. CASE Resume
  BY <1>5 DEF Resume, Ownership, VisitedWasBusy, NullOnlyWhenExhausted
<1>6. ASSUME NEW t \in PoolTasks, NEW b \in Buffers, ReturnBuffer(t, b) PROVE PoolInv'
  <2>1. holder[b] = {t}
    BY <1>6 DEF ReturnBuffer, Ownership
  <2>2. Ownership'
    BY <1>6, <2>1 DEF ReturnBuffer, Ownership
  <2>3. TypeOK' /\ VisitedWasBusy' /\ NullOnlyWhenExhausted'
    BY <1>6 DEF ReturnBuffer, VisitedWasBusy, NullOnlyWhenExhausted, InUse
  <2>4. QED
    BY <2>2, <2>3
<1>7. ASSUME NEW t \in AppTasks, NEW b \in Buffers, TakeOwnership(t, b) PROVE PoolInv'
  <2>1. holder[b] = {MqttTask}
    BY <1>7 DEF TakeOwnership, Ownership
  <2>2. Ownership'
    BY <1>7, <2>1 DEF TakeOwnership, Ownership
  <2>3. TypeOK' /\ VisitedWasBusy' /\ NullOnlyWhenExhausted'
    BY <1>7 DEF TakeOwnership, VisitedWasBusy, NullOnlyWhenExhausted, InUse
  <2>4. QED
    BY <2>2, <2>3
<1>8. QED
  BY <1>1, <1>2, <1>3, <1>4, <1>5, <1>6, <1>7 DEF Next

(* For every number of buffers and every interleaving of returns with the  *)
(* scan of BUFFERPOOL_GetFreeBuffer, no buffer has two owners and none is  *)
(* lost.                                                                   *)
THEOREM PoolOwnership == Spec => []Ownership
<1>1. PoolInv => Ownership
  BY DEF PoolInv
<1>2. QED
  BY <1>1, InitPoolInv, NextPoolInv, PTL DEF Spec

(* For every number of buffers, BUFFERPOOL_GetFreeBuffer only returns NULL *)
(* for a request that fits when all buffers were in use as it was called.  *)
THEOREM PoolNullOnlyWhenExhausted == Spec => []NullOnlyWhenExhausted
<1>1. PoolInv => NullOnlyWhenExhausted
  BY DEF PoolInv
<1>2. QED
  BY <1>1, InitPoolInv, NextPoolInv, PTL DEF Spec
==============================================================================

-------------------------- MODULE ShadowClientProofs --------------------------
(***************************************************************************)
(* Proofs about ShadowClient for any tasks, Things, size of the catalog    *)
(* and number of calls.                                                    *)
(*                                                                         *)
(* Everything follows the operation mutex: pxOperationData is the stack of *)
(* its holder, the semaphore is only taken while the holder has a request  *)
(* under way (SemaphoreInv), and what the callback leaves for the holder,  *)
(* a result and possibly an MQTT buffer, is tied to the semaphore it gives *)
(* (AnswerInv, BufferInv).                                                 *)
(***************************************************************************)
EXTENDS ShadowClient, TLAPS

(* Between taking the semaphore and giving it back. *)
Requesting == {"publish", "wait", "give"}
Ending     == {"cleanup", "unsubscribe", "unsubscribeRejected", "finish"}
Preparing  == {"accepted", "rejected", "undo", "start"}
Holding    == Preparing \cup Requesting \cup Ending
Registering == {"unregister", "register"}

CallInv ==
    /\ pc \in [Tasks -> {"idle", "lock"} \cup Holding \cup Registering]
    /\ \A t \in Tasks :
          /\ pc[t] \in {"lock"} \cup Holding => xParams[t] \in Requests
          /\ pc[t] \in Registering => xParams[t] \in Changes
          /\ pc[t] = "unsubscribe" => xParams[t].op # "delete"

MutexInv ==
    /\ \A t \in Tasks : pc[t] \in Holding <=> xOperationMutex = t
    /\ \A t \in Tasks : pc[t] \in Requesting => pxOperationData = t
    /\ \A t \in Tasks : pxOperationData = t => pc[t] \in Requesting \cup Ending

SemaphoreInv ==
    xCallbackSemaphore = 0 => \E t \in Tasks : pc[t] \in Requesting

(* The result the callback has left for an update, and the one the call     *)
(* has fetched, are the service's answer to it.                             *)
Answer(t, result) ==
    /\ result = "Success"  => service[xParams[t].token].suffix = "accepted"
    /\ result = "Rejected" => service[xParams[t].token].suffix = "rejected"

AnswerInv ==
    \A t \in Tasks : pxOperationData = t /\ xParams[t].op = "update" =>
        /\ pc[t] \in {"publish", "wait"} /\ xCallbackSemaphore = 1 => Answer(t, xOperationResult)
        /\ pc[t] \in {"give"} \cup Ending => Answer(t, xReturn[t])

(* A buffer is taken in the step that gives the semaphore; a second one, or *)
(* one that comes too late, stops the program.                              *)
BufferInv ==
    Running => \A t \in Tasks :
        /\ pc[t] \in {"lock"} \cup Preparing => xBuffer[t] = 0
        /\ pc[t] \in {"publish", "wait"} /\ xBuffer[t] # 0 =>
              xBuffer[t] = 1 /\ xCallbackSemaphore = 1 /\ xOperationResult = "Success"
        /\ pc[t] = "give" /\ xCallbackSemaphore = 0 /\ xBuffer[t] # 0 =>
              xBuffer[t] = 1 /\ xReturn[t] = "Success"
        /\ pc[t] \in Ending /\ xBuffer[t] # 0 => xBuffer[t] = 1 /\ xReturn[t] = "Success"

CoreInv == TypeOK /\ CallInv /\ MutexInv /\ SemaphoreInv
ShadowInv == CoreInv /\ AnswerInv /\ BufferInv

-----------------------------------------------------------------------------
(* What the steps have in common. *)

LEMMA TopicFacts ==
  ASSUME NEW t \in Tasks, xParams[t] \in Requests,
         NEW suffix \in {"", "accepted", "rejected", "documents", "delta"}
  PROVE  ReplyTopic(t, suffix) \in Topics
  BY DEF ReplyTopic, Topic, Topics, Requests

LEMMA RequestFacts ==
  ASSUME NEW t \in Tasks, xParams[t] \in Requests
  PROVE  /\ xParams[t].op \in Operations /\ xParams[t].thing \in Things
         /\ xParams[t].token \in Tokens /\ xParams[t].token # Others
  BY ShadowAssumption DEF Requests, Tokens, Others

LEMMA SubscribeFacts ==
  ASSUME NEW topic \in Topics, NEW code, subscriptions \subseteq Topics,
         Subscribe(topic, code) \/ Unsubscribe(topic, code)
  PROVE  subscriptions' \subseteq Topics
  BY DEF Subscribe, Unsubscribe

(* The holder of the operation mutex goes on. *)
LEMMA MoveInv ==
  ASSUME CoreInv, NEW t \in Tasks, pc[t] \in Holding, NEW l \in Holding, Goto(t, l),
         UNCHANGED <<xOperationMutex, pxOperationData, xParams>>,
         l = "unsubscribe" => xParams[t].op # "delete",
         l \in Requesting => pc[t] \in Requesting,
         pc[t] \in Requesting \cup Ending => l \in Requesting \cup Ending
  PROVE  /\ CallInv' /\ MutexInv'
         /\ pc'[t] = l /\ \A u \in Tasks : u # t => pc'[u] = pc[u]
<1>1. /\ pc' = [pc EXCEPT ![t] = l]
      /\ pc'[t] = l /\ \A u \in Tasks : u # t => pc'[u] = pc[u]
  BY DEF Goto, CoreInv, CallInv
<1>2. pc' \in [Tasks -> {"idle", "lock"} \cup Holding \cup Registering]
  BY <1>1 DEF CoreInv, CallInv
<1>3. l \notin Registering
  BY DEF Registering, Holding, Preparing, Requesting, Ending
<1>4. CallInv'
  BY <1>1, <1>2, <1>3 DEF CoreInv, CallInv
<1>5. MutexInv'
  BY <1>1 DEF CoreInv, MutexInv
<1>6. QED
  BY <1>1, <1>4, <1>5

LEMMA InitInv == Init => ShadowInv
<1> SUFFICES ASSUME Init PROVE ShadowInv
  OBVIOUS
<1>1. TypeOK
  <2>1. Unused \in [thing : Things \cup {NoThing}, callbacks : SUBSET Callbacks]
    BY DEF Unused
  <2>2. 0 \in 0 .. MaxCalls
    BY ShadowAssumption
  <2>3. QED
    BY <2>1, <2>2 DEF Init, TypeOK
<1>2. CallInv
  BY DEF Init, CallInv, Holding, Preparing, Requesting, Ending, Registering
<1>3. MutexInv /\ SemaphoreInv
  BY ShadowAssumption DEF Init, MutexInv, SemaphoreInv, Holding, Preparing, Requesting, Ending
<1>4. AnswerInv /\ BufferInv
  BY ShadowAssumption DEF Init, AnswerInv, BufferInv, Preparing, Ending
<1>5. QED
  BY <1>1, <1>2, <1>3, <1>4 DEF ShadowInv, CoreInv

-----------------------------------------------------------------------------
(* The steps of an operation. *)

LEMMA BeginInv ==
  ASSUME ShadowInv, NEW t \in Tasks, NEW op \in Operations, NEW thing \in Things,
         NEW keep \in BOOLEAN, Begin(t, op, thing, keep)
  PROVE  ShadowInv'
<1> DEFINE r == [op |-> op, thing |-> thing, keep |-> keep, token |-> calls + 1]
<1> USE DEF ShadowInv, CoreInv
<1>1. /\ pc[t] = "idle" /\ xBuffer[t] = 0
      /\ pc' = [pc EXCEPT ![t] = "lock"]
      /\ xParams' = [xParams EXCEPT ![t] = r]
      /\ xReturn' = [xReturn EXCEPT ![t] = "Failure"]
      /\ calls < MaxCalls /\ calls' = calls + 1
      /\ UNCHANGED <<connected, xOperationMutex, xCallbackSemaphore, pxOperationData,
                     ucTopicBuffer, xSubscribed, xOperationResult, xCallbackCatalog, xBuffer,
                     subscriptions, service, failure>>
  BY DEF Begin, Goto, clientVars
<1>2. r \in Requests /\ calls + 1 \in 0 .. MaxCalls
  <2>1. calls \in 0 .. MaxCalls /\ calls < MaxCalls
    BY <1>1 DEF TypeOK
  <2>2. calls + 1 \in 1 .. MaxCalls
    BY <2>1, ShadowAssumption
  <2>3. QED
    BY <2>2, ShadowAssumption DEF Requests, Tokens
<1> HIDE DEF r
<1>3. /\ pc'[t] = "lock" /\ xParams'[t] = r
      /\ \A u \in Tasks : u # t => /\ pc'[u] = pc[u] /\ xParams'[u] = xParams[u]
                                   /\ xReturn'[u] = xReturn[u]
  BY <1>1 DEF TypeOK, CallInv
<1>4. "lock" \notin Holding \cup Registering /\ "idle" \notin Holding
  BY DEF Holding, Preparing, Requesting, Ending, Registering
<1>5. TypeOK'
  BY <1>1, <1>2 DEF TypeOK
<1>6. CallInv'
  BY <1>1, <1>2, <1>3, <1>4 DEF CallInv
<1>7. Requesting \subseteq Holding /\ Ending \subseteq Holding /\ Preparing \subseteq Holding
  BY DEF Holding
<1>8. MutexInv' /\ SemaphoreInv'
  BY <1>1, <1>3, <1>4, <1>7 DEF MutexInv, SemaphoreInv
<1>9. pxOperationData # t
  BY <1>1, <1>4, <1>7 DEF MutexInv
<1>10. AnswerInv'
  BY <1>1, <1>3, <1>9 DEF AnswerInv, Answer
<1>11. BufferInv'
  BY <1>1, <1>3, <1>4, <1>7 DEF BufferInv, Running
<1>12. QED
  BY <1>5, <1>6, <1>8, <1>10, <1>11

LEMMA LockInv ==
  ASSUME ShadowInv, NEW t \in Tasks, Lock(t)
  PROVE  ShadowInv'
<1> USE DEF ShadowInv, CoreInv
<1>1. /\ pc[t] = "lock"
      /\ UNCHANGED <<connected, xCallbackSemaphore, pxOperationData, ucTopicBuffer, xSubscribed,
                     xOperationResult, xCallbackCatalog, xBuffer, subscriptions, service,
                     failure, calls>>
  BY DEF Lock
<1>2. PICK l \in {"start", "accepted", "idle"} :
         /\ pc' = [pc EXCEPT ![t] = l]
         /\ l # "idle" => /\ xOperationMutex = NoTask /\ xOperationMutex' = t
                          /\ UNCHANGED <<xParams, xReturn>>
         /\ l = "idle" => /\ UNCHANGED xOperationMutex
                          /\ xParams' = [xParams EXCEPT ![t] = Nothing]
                          /\ xReturn' = [xReturn EXCEPT ![t] = "none"]
  BY DEF Lock, Goto, Return
<1>3. /\ pc'[t] = l
      /\ \A u \in Tasks : u # t => /\ pc'[u] = pc[u] /\ xParams'[u] = xParams[u]
                                   /\ xReturn'[u] = xReturn[u]
  BY <1>2 DEF TypeOK, CallInv
<1>4. /\ "lock" \notin Holding /\ "idle" \notin Holding \cup Registering
      /\ "start" \in Preparing /\ "accepted" \in Preparing
      /\ {"start", "accepted"} \cap (Requesting \cup Ending \cup Registering) = {}
      /\ Requesting \subseteq Holding /\ Ending \subseteq Holding /\ Preparing \subseteq Holding
  BY DEF Holding, Preparing, Requesting, Ending, Registering
<1>5. TypeOK'
  BY <1>1, <1>2 DEF TypeOK
<1>6. CallInv'
  BY <1>1, <1>2, <1>3, <1>4 DEF CallInv
<1>7. MutexInv' /\ SemaphoreInv'
  BY <1>1, <1>2, <1>3, <1>4, ShadowAssumption DEF MutexInv, SemaphoreInv
<1>8. pxOperationData # t
  BY <1>1, <1>4 DEF MutexInv
<1>9. AnswerInv'
  BY <1>1, <1>3, <1>8 DEF AnswerInv, Answer
<1>10. BufferInv'
  BY <1>1, <1>2, <1>3, <1>4 DEF BufferInv, Running
<1>11. QED
  BY <1>5, <1>6, <1>7, <1>9, <1>10

LEMMA PhaseFacts ==
  /\ Requesting \subseteq Holding /\ Ending \subseteq Holding /\ Preparing \subseteq Holding
  /\ Preparing \cap (Requesting \cup Ending) = {} /\ Requesting \cap Ending = {}
  /\ Holding \cap (Registering \cup {"idle", "lock"}) = {}
  /\ Registering \cap {"idle", "lock"} = {}
  BY DEF Holding, Preparing, Requesting, Ending, Registering

(* prvShadowSubscribeToAcceptedRejected. *)
LEMMA PreparingInv ==
  ASSUME ShadowInv, NEW t \in Tasks,
         SubscribeAccepted(t) \/ SubscribeRejected(t) \/ UndoAccepted(t)
  PROVE  ShadowInv'
<1> USE DEF ShadowInv, CoreInv
<1>1. /\ pc[t] \in Preparing
      /\ UNCHANGED <<connected, xOperationMutex, xCallbackSemaphore, pxOperationData, xSubscribed,
                     xOperationResult, xCallbackCatalog, xParams, xBuffer, service, failure, calls>>
  BY DEF SubscribeAccepted, SubscribeRejected, UndoAccepted, Preparing
<1>2. xParams[t] \in Requests /\ pc[t] \in Holding
  BY <1>1, PhaseFacts DEF CallInv
<1>3. /\ ucTopicBuffer' \in Topics
      /\ subscriptions' \subseteq Topics
      /\ \E code \in {"Success", "Failure"} : \/ xReturn' = [xReturn EXCEPT ![t] = code]
                                              \/ UNCHANGED xReturn
  <2>1. ReplyTopic(t, "accepted") \in Topics /\ ReplyTopic(t, "rejected") \in Topics
    BY <1>2, TopicFacts
  <2>2. subscriptions \subseteq Topics
    BY DEF TypeOK
  <2>3. QED
    BY <2>1, <2>2, SubscribeFacts DEF SubscribeAccepted, SubscribeRejected, UndoAccepted
<1>4. PICK l \in {"rejected", "start", "undo", "cleanup"} : Goto(t, l)
  BY DEF SubscribeAccepted, SubscribeRejected, UndoAccepted
<1>5. /\ l \in Preparing \cup Ending /\ l \in Holding /\ l \notin Requesting
      /\ l # "unsubscribe" /\ pc[t] \notin Requesting \cup Ending
  BY <1>1, <1>4 DEF Preparing, Requesting, Ending, Holding
<1>6. /\ CallInv' /\ MutexInv'
      /\ pc'[t] = l /\ \A u \in Tasks : u # t => pc'[u] = pc[u]
  BY <1>1, <1>2, <1>4, <1>5, MoveInv
<1>7. TypeOK'
  BY <1>1, <1>3 DEF TypeOK
<1>8. SemaphoreInv'
  BY <1>1, <1>5, <1>6 DEF SemaphoreInv
<1>9. pxOperationData # t /\ \A u \in Tasks : u # t => xReturn'[u] = xReturn[u]
  BY <1>3, <1>5 DEF MutexInv, TypeOK
<1>10. AnswerInv'
  BY <1>1, <1>6, <1>9 DEF AnswerInv, Answer
<1>11. BufferInv'
  <2>1. Running => xBuffer[t] = 0
    BY <1>1 DEF BufferInv
  <2>2. l \notin {"lock", "publish", "wait", "give"}
    BY <1>4
  <2>3. QED
    BY <1>1, <1>6, <1>9, <2>1, <2>2 DEF BufferInv, Running
<1>12. QED
  BY <1>6, <1>7, <1>8, <1>10, <1>11

LEMMA StartInv ==
  ASSUME ShadowInv, NEW t \in Tasks, Start(t)
  PROVE  ShadowInv'
<1> USE DEF ShadowInv, CoreInv
<1>1. /\ pc[t] = "start" /\ xCallbackSemaphore' = 0 /\ pxOperationData' = t
      /\ ucTopicBuffer' = ReplyTopic(t, "")
      /\ pc' = [pc EXCEPT ![t] = "publish"]
      /\ UNCHANGED <<connected, xOperationMutex, xOperationResult, xCallbackCatalog, xParams,
                     xReturn, xBuffer, subscriptions, failure, calls>>
  BY DEF Start, Goto
<1>2. /\ "start" \in Preparing /\ "start" \notin Requesting \cup Ending
      /\ "publish" \in Requesting /\ "publish" \notin Ending \cup Preparing \cup Registering
  BY DEF Preparing, Requesting, Ending, Registering
<1>3. xParams[t] \in Requests /\ pc[t] \in Holding /\ xOperationMutex = t
  BY <1>1, <1>2, PhaseFacts DEF CallInv, MutexInv
<1>4. /\ ReplyTopic(t, "") \in Topics
      /\ xParams[t].op \in Operations /\ xParams[t].token \in Tokens
  BY <1>3, TopicFacts, RequestFacts
<1>5. /\ pc'[t] = "publish" /\ \A u \in Tasks : u # t => pc'[u] = pc[u]
      /\ pc' \in [Tasks -> {"idle", "lock"} \cup Holding \cup Registering]
  BY <1>1, <1>2, PhaseFacts DEF CallInv
<1>6. TypeOK'
  <2>1. /\ xSubscribed' \in [Operations -> BOOLEAN]
        /\ service' \in [Tokens -> Topics \cup {NoTopic}]
    BY <1>4 DEF Start, TypeOK
  <2>2. QED
    BY <1>1, <1>4, <2>1 DEF TypeOK
<1>7. CallInv'
  BY <1>1, <1>2, <1>3, <1>5, PhaseFacts DEF CallInv
<1>8. \A u \in Tasks : u # t => pc[u] \notin Holding
  BY <1>3 DEF MutexInv
<1>9. MutexInv'
  BY <1>1, <1>2, <1>3, <1>5, <1>8, PhaseFacts DEF MutexInv
<1>10. SemaphoreInv'
  BY <1>2, <1>5 DEF SemaphoreInv
<1>11. AnswerInv'
  <2>1. \A u \in Tasks : pxOperationData' = u => pc'[u] \notin {"give"} \cup Ending
    BY <1>1, <1>2, <1>5
  <2>2. xCallbackSemaphore' # 1
    <3>1. xCallbackSemaphore' = 0
      BY <1>1
    <3>2. QED
      BY <3>1
  <2>3. QED
    BY <2>1, <2>2 DEF AnswerInv
<1>12. BufferInv'
  <2>1. Running => xBuffer[t] = 0
    BY <1>1, <1>2 DEF BufferInv
  <2>2. {"publish", "wait", "give"} \subseteq Holding
    BY DEF Holding, Requesting
  <2>3. QED
    BY <1>1, <1>2, <1>5, <1>8, <2>1, <2>2, PhaseFacts, ZenonT(40) DEF BufferInv, Running
<1>13. QED
  BY <1>6, <1>7, <1>9, <1>10, <1>11, <1>12

LEMMA PublishedInv ==
  ASSUME ShadowInv, NEW t \in Tasks, Published(t)
  PROVE  ShadowInv'
<1> USE DEF ShadowInv, CoreInv
<1>1. /\ pc[t] = "publish"
      /\ UNCHANGED <<connected, xOperationMutex, xCallbackSemaphore, pxOperationData,
                     ucTopicBuffer, xSubscribed, xOperationResult, xCallbackCatalog, xParams,
                     xBuffer, subscriptions, service, failure, calls>>
  BY DEF Published, clientVars
<1>2. PICK l \in {"wait", "give"}, code \in {"Success", "Failure"} :
         /\ xReturn' = [xReturn EXCEPT ![t] = code]
         /\ Goto(t, l) /\ (l = "give" => code = "Failure")
  BY DEF Published
<1>3. pc[t] \in Requesting /\ l \in Requesting /\ l # "unsubscribe" /\ l \notin Ending \cup Preparing
  BY <1>1, <1>2 DEF Requesting, Ending, Preparing
<1>4. /\ CallInv' /\ MutexInv'
      /\ pc'[t] = l /\ \A u \in Tasks : u # t => pc'[u] = pc[u]
  BY <1>1, <1>2, <1>3, PhaseFacts, MoveInv
<1>5. TypeOK'
  BY <1>1, <1>2 DEF TypeOK
<1>6. SemaphoreInv'
  BY <1>3, <1>4 DEF SemaphoreInv
<1>7. xReturn'[t] = code /\ \A u \in Tasks : u # t => xReturn'[u] = xReturn[u]
  BY <1>2 DEF TypeOK
<1>8. AnswerInv'
  BY <1>1, <1>2, <1>3, <1>4, <1>7 DEF AnswerInv, Answer
<1>9. BufferInv'
  BY <1>1, <1>2, <1>3, <1>4, <1>7 DEF BufferInv, Running
<1>10. QED
  BY <1>4, <1>5, <1>6, <1>8, <1>9

LEMMA WaitInv ==
  ASSUME ShadowInv, NEW t \in Tasks, Wait(t)
  PROVE  ShadowInv'
<1> USE DEF ShadowInv, CoreInv
<1>1. /\ pc[t] = "wait" /\ Goto(t, "give") /\ xCallbackSemaphore' = 0
      /\ xReturn' = [xReturn EXCEPT ![t] =
             IF xCallbackSemaphore = 1 THEN xOperationResult ELSE "Timeout"]
      /\ UNCHANGED <<connected, xOperationMutex, pxOperationData, ucTopicBuffer, xSubscribed,
                     xOperationResult, xCallbackCatalog, xParams, xBuffer, subscriptions,
                     service, failure, calls>>
  BY DEF Wait
<1>2. pc[t] \in Requesting /\ "give" \in Requesting /\ "give" \notin Ending \cup Preparing
  BY <1>1 DEF Requesting, Ending, Preparing
<1>3. /\ CallInv' /\ MutexInv'
      /\ pc'[t] = "give" /\ \A u \in Tasks : u # t => pc'[u] = pc[u]
  BY <1>1, <1>2, PhaseFacts, MoveInv
<1>4. TypeOK'
  BY <1>1 DEF TypeOK
<1>5. SemaphoreInv'
  BY <1>2, <1>3 DEF SemaphoreInv
<1>6. /\ xReturn'[t] = IF xCallbackSemaphore = 1 THEN xOperationResult ELSE "Timeout"
      /\ \A u \in Tasks : u # t => xReturn'[u] = xReturn[u]
  BY <1>1 DEF TypeOK
<1>7. pxOperationData = t
  BY <1>2 DEF MutexInv
<1>8. AnswerInv'
  <2>1. xCallbackSemaphore' # 1
    BY <1>1
  <2>2. ASSUME xParams[t].op = "update"
        PROVE  Answer(t, xReturn[t])'
    <3>1. CASE xCallbackSemaphore = 1
      <4>1. Answer(t, xOperationResult)
        BY <1>1, <1>7, <2>2, <3>1 DEF AnswerInv
      <4>2. QED
        BY <1>1, <1>6, <3>1, <4>1 DEF Answer
    <3>2. CASE xCallbackSemaphore # 1
      BY <1>6, <3>2 DEF Answer
    <3>3. QED
      BY <3>1, <3>2
  <2>3. QED
    BY <1>1, <1>7, <2>1, <2>2 DEF AnswerInv
<1>9. BufferInv'
  <2>1. \A u \in Tasks : u # t => pc[u] \notin {"publish", "wait", "give"}
    BY <1>7 DEF MutexInv, Requesting
  <2>2. QED
    BY <1>1, <1>2, <1>3, <1>6, <2>1 DEF BufferInv, Running
<1>10. QED
  BY <1>3, <1>4, <1>5, <1>8, <1>9

LEMMA GiveInv ==
  ASSUME ShadowInv, NEW t \in Tasks, Give(t)
  PROVE  ShadowInv'
<1> USE DEF ShadowInv, CoreInv
<1>1. /\ pc[t] = "give" /\ Goto(t, "cleanup") /\ xCallbackSemaphore' = 1
      /\ failure' = IF xCallbackSemaphore = 0 THEN failure ELSE "give"
      /\ UNCHANGED <<connected, xOperationMutex, pxOperationData, ucTopicBuffer, xSubscribed,
                     xOperationResult, xCallbackCatalog, xParams, xReturn, xBuffer,
                     subscriptions, service, calls>>
  BY DEF Give, GiveSemaphore
<1>2. pc[t] \in Requesting /\ "cleanup" \in Ending /\ "cleanup" \notin Preparing \cup Requesting
  BY <1>1 DEF Requesting, Ending, Preparing
<1>3. /\ CallInv' /\ MutexInv'
      /\ pc'[t] = "cleanup" /\ \A u \in Tasks : u # t => pc'[u] = pc[u]
  BY <1>1, <1>2, PhaseFacts, MoveInv
<1>4. TypeOK'
  BY <1>1 DEF TypeOK
<1>5. SemaphoreInv'
  BY <1>1 DEF SemaphoreInv
<1>6. AnswerInv'
  <2>1. pxOperationData = t
    BY <1>2 DEF MutexInv
  <2>2. xParams[t].op = "update" => Answer(t, xReturn[t])'
    BY <1>1, <2>1 DEF AnswerInv, Answer
  <2>3. pc'[t] \notin {"publish", "wait"}
    BY <1>3
  <2>4. QED
    BY <1>1, <2>1, <2>2, <2>3 DEF AnswerInv
<1>7. \A u \in Tasks : u # t => pc[u] \notin {"publish", "wait", "give"}
  BY <1>2 DEF MutexInv, Requesting
<1>8. BufferInv'
  BY <1>1, <1>2, <1>3, <1>7 DEF BufferInv, Running
<1>9. QED
  BY <1>3, <1>4, <1>5, <1>6, <1>8

(* prvShadowUnsubscribeFromAcceptedRejected. *)
LEMMA EndingInv ==
  ASSUME ShadowInv, NEW t \in Tasks,
         Cleanup(t) \/ UnsubscribeAccepted(t) \/ UnsubscribeRejected(t)
  PROVE  ShadowInv'
<1> USE DEF ShadowInv, CoreInv
<1>1. /\ pc[t] \in Ending
      /\ UNCHANGED <<connected, xOperationMutex, xCallbackSemaphore, pxOperationData,
                     xOperationResult, xCallbackCatalog, xParams, xReturn, xBuffer, service,
                     failure, calls>>
  BY DEF Cleanup, UnsubscribeAccepted, UnsubscribeRejected, Ending
<1>2. xParams[t] \in Requests /\ pc[t] \in Holding
  BY <1>1, PhaseFacts DEF CallInv
<1>3. /\ ucTopicBuffer' \in Topics \cup {NoTopic}
      /\ subscriptions' \subseteq Topics
      /\ xSubscribed' \in [Operations -> BOOLEAN]
  <2>1. ReplyTopic(t, "accepted") \in Topics /\ ReplyTopic(t, "rejected") \in Topics
    BY <1>2, TopicFacts
  <2>2. /\ subscriptions \subseteq Topics /\ xSubscribed \in [Operations -> BOOLEAN]
        /\ ucTopicBuffer \in Topics \cup {NoTopic}
    BY DEF TypeOK
  <2>3. CASE Cleanup(t)
    BY <2>1, <2>2, <2>3 DEF Cleanup
  <2>4. CASE UnsubscribeAccepted(t)
    BY <2>1, <2>2, <2>4, SubscribeFacts DEF UnsubscribeAccepted
  <2>5. CASE UnsubscribeRejected(t)
    BY <2>1, <2>2, <2>5, SubscribeFacts DEF UnsubscribeRejected
  <2>6. QED
    BY <2>3, <2>4, <2>5
<1>4. PICK l \in {"finish", "unsubscribe", "unsubscribeRejected"} :
         Goto(t, l) /\ (l = "unsubscribe" => xParams[t].op # "delete")
  BY DEF Cleanup, UnsubscribeAccepted, UnsubscribeRejected
<1>5. l \in Ending /\ l \notin Requesting \cup Preparing
  BY <1>4 DEF Ending, Requesting, Preparing
<1>6. /\ CallInv' /\ MutexInv'
      /\ pc'[t] = l /\ \A u \in Tasks : u # t => pc'[u] = pc[u]
  BY <1>1, <1>2, <1>4, <1>5, PhaseFacts, MoveInv
<1>7. TypeOK'
  BY <1>1, <1>3 DEF TypeOK
<1>8. SemaphoreInv'
  BY <1>1, <1>5, <1>6, PhaseFacts DEF SemaphoreInv
<1>9. \A u \in Tasks : /\ pc'[u] \in {"lock"} \cup Preparing \cup {"publish", "wait", "give"} => pc'[u] = pc[u]
                       /\ pc'[u] \in Ending <=> pc[u] \in Ending
                       /\ pc'[u] \in {"give"} \cup Ending => pc[u] \in {"give"} \cup Ending
  BY <1>1, <1>4, <1>5, <1>6
<1>10. AnswerInv'
  <2>1. ASSUME NEW u \in Tasks, pxOperationData = u, xParams[u].op = "update"
        PROVE  /\ pc'[u] \in {"publish", "wait"} /\ xCallbackSemaphore = 1 => Answer(u, xOperationResult)
               /\ pc'[u] \in {"give"} \cup Ending => Answer(u, xReturn[u])
    BY <1>9, <2>1 DEF AnswerInv
  <2>2. QED
    BY <1>1, <2>1 DEF AnswerInv, Answer
<1>11. BufferInv'
  BY <1>1, <1>9 DEF BufferInv, Running
<1>12. QED
  BY <1>6, <1>7, <1>8, <1>10, <1>11

LEMMA FinishInv ==
  ASSUME ShadowInv, NEW t \in Tasks, Finish(t)
  PROVE  ShadowInv'
<1> USE DEF ShadowInv, CoreInv
<1>1. /\ pc[t] = "finish" /\ pxOperationData' = NoTask /\ xOperationResult' = "Success"
      /\ ucTopicBuffer' = NoTopic /\ xOperationMutex' = NoTask
      /\ pc' = [pc EXCEPT ![t] = "idle"]
      /\ xParams' = [xParams EXCEPT ![t] = Nothing]
      /\ xReturn' = [xReturn EXCEPT ![t] = "none"]
      /\ UNCHANGED <<connected, xCallbackSemaphore, xSubscribed, xCallbackCatalog, xBuffer,
                     subscriptions, service, failure, calls>>
  BY DEF Finish, Return, Goto
<1>2. "finish" \in Ending /\ "finish" \notin Requesting
  BY DEF Ending, Requesting
<1>3. /\ xOperationMutex = t
      /\ \A u \in Tasks : u # t => pc[u] \notin Holding
  BY <1>1, <1>2, PhaseFacts DEF MutexInv
<1>4. /\ pc'[t] = "idle"
      /\ \A u \in Tasks : u # t => /\ pc'[u] = pc[u] /\ xParams'[u] = xParams[u]
                                   /\ xReturn'[u] = xReturn[u]
  BY <1>1 DEF TypeOK, CallInv
<1>5. TypeOK'
  BY <1>1 DEF TypeOK
<1>6. CallInv'
  BY <1>1, <1>4, PhaseFacts DEF CallInv
<1>7. \A u \in Tasks : pc'[u] \notin Holding
  BY <1>3, <1>4, PhaseFacts
<1>8. MutexInv'
  BY <1>1, <1>7, PhaseFacts, ShadowAssumption DEF MutexInv
<1>9. \A u \in Tasks : pc[u] \notin Requesting
  BY <1>1, <1>2, <1>3, PhaseFacts
<1>10. SemaphoreInv' /\ AnswerInv'
  BY <1>1, <1>9, ShadowAssumption DEF SemaphoreInv, AnswerInv
<1>11. BufferInv'
  <2>1. {"publish", "wait", "give"} \subseteq Holding
    BY DEF Holding, Requesting
  <2>2. QED
    BY <1>1, <1>4, <1>7, <2>1, PhaseFacts DEF BufferInv, Running
<1>12. QED
  BY <1>5, <1>6, <1>8, <1>10, <1>11

-----------------------------------------------------------------------------
(* A task that does not hold the operation mutex. *)

LEMMA OutsideInv ==
  ASSUME ShadowInv, NEW t \in Tasks,
         pc[t] \in {"idle"} \cup Registering, NEW l \in {"idle"} \cup Registering,
         Goto(t, l), TypeOK',
         UNCHANGED <<xOperationMutex, xCallbackSemaphore, pxOperationData, xOperationResult, service>>,
         \A u \in Tasks : u # t => /\ xParams'[u] = xParams[u] /\ xReturn'[u] = xReturn[u]
                                   /\ xBuffer'[u] = xBuffer[u],
         l \in Registering => xParams'[t] \in Changes,
         failure = "none"
  PROVE  ShadowInv'
<1> USE DEF ShadowInv, CoreInv
<1>1. /\ pc'[t] = l /\ \A u \in Tasks : u # t => pc'[u] = pc[u]
      /\ pc' \in [Tasks -> {"idle", "lock"} \cup Holding \cup Registering]
  BY DEF Goto, CallInv
<1>2. l \notin Holding \cup {"lock"} /\ pc[t] \notin Holding \cup {"lock"} /\ l # "unsubscribe"
  BY PhaseFacts DEF Registering
<1>3. CallInv'
  BY <1>1, <1>2 DEF CallInv
<1>4. MutexInv' /\ SemaphoreInv'
  BY <1>1, <1>2, PhaseFacts DEF MutexInv, SemaphoreInv
<1>5. pxOperationData # t
  BY <1>2, PhaseFacts DEF MutexInv
<1>6. AnswerInv'
  BY <1>1, <1>5 DEF AnswerInv, Answer
<1>7. BufferInv'
  <2>1. {"publish", "wait", "give"} \subseteq Holding
    BY DEF Holding, Requesting
  <2>2. l \notin {"lock"} \cup Preparing \cup {"publish", "wait", "give"} \cup Ending
    BY <1>2, <2>1, PhaseFacts
  <2>3. SUFFICES ASSUME NEW u \in Tasks, u # t
                 PROVE  /\ pc[u] \in {"lock"} \cup Preparing => xBuffer[u] = 0
                        /\ pc[u] \in {"publish", "wait"} /\ xBuffer[u] # 0 =>
                              xBuffer[u] = 1 /\ xCallbackSemaphore = 1 /\ xOperationResult = "Success"
                        /\ pc[u] = "give" /\ xCallbackSemaphore = 0 /\ xBuffer[u] # 0 =>
                              xBuffer[u] = 1 /\ xReturn[u] = "Success"
                        /\ pc[u] \in Ending /\ xBuffer[u] # 0 =>
                              xBuffer[u] = 1 /\ xReturn[u] = "Success"
    BY <1>1, <2>2 DEF BufferInv
  <2>4. QED
    BY <2>3 DEF BufferInv, Running
<1>8. QED
  BY <1>3, <1>4, <1>6, <1>7

LEMMA ReturnBufferInv ==
  ASSUME ShadowInv, failure = "none", NEW t \in Tasks, SHADOW_ReturnMQTTBuffer(t)
  PROVE  ShadowInv'
<1>1. /\ pc[t] = "idle" /\ xBuffer' = [xBuffer EXCEPT ![t] = 0]
      /\ UNCHANGED <<connected, xOperationMutex, xCallbackSemaphore, pxOperationData,
                     ucTopicBuffer, xSubscribed, xOperationResult, xCallbackCatalog, pc,
                     xParams, xReturn, subscriptions, service, failure, calls>>
  BY DEF SHADOW_ReturnMQTTBuffer, clientVars
<1>2. TypeOK'
  BY <1>1 DEF ShadowInv, CoreInv, TypeOK
<1>3. Goto(t, "idle")
  BY <1>1 DEF Goto, ShadowInv, CoreInv, CallInv
<1>4. \A u \in Tasks : u # t => /\ xParams'[u] = xParams[u] /\ xReturn'[u] = xReturn[u]
                                /\ xBuffer'[u] = xBuffer[u]
  BY <1>1 DEF ShadowInv, CoreInv, TypeOK
<1>5. "idle" \notin Registering
  BY PhaseFacts
<1>6. QED
  BY <1>1, <1>2, <1>3, <1>4, <1>5, OutsideInv

LEMMA CatalogFacts ==
  ASSUME TypeOK, NEW e \in Entries
  PROVE  /\ xCallbackCatalog[e].thing \in Things \cup {NoThing}
         /\ xCallbackCatalog[e].callbacks \in SUBSET Callbacks
<1>1. xCallbackCatalog[e] \in [thing : Things \cup {NoThing}, callbacks : SUBSET Callbacks]
  BY DEF TypeOK
<1>2. QED
  BY <1>1

LEMMA RegisterCallbacksInv ==
  ASSUME ShadowInv, failure = "none", NEW t \in Tasks, NEW thing \in Things, NEW new \in Wanted,
         SHADOW_RegisterCallbacks(t, thing, new)
  PROVE  ShadowInv'
<1>1. /\ pc[t] = "idle" /\ calls < MaxCalls /\ calls' = calls + 1
      /\ UNCHANGED <<connected, xOperationMutex, xCallbackSemaphore, pxOperationData,
                     ucTopicBuffer, xSubscribed, xOperationResult, xReturn, xBuffer,
                     subscriptions, service>>
  BY DEF SHADOW_RegisterCallbacks
<1>2. calls' \in 0 .. MaxCalls
  <2>1. calls \in 0 .. MaxCalls
    BY DEF ShadowInv, CoreInv, TypeOK
  <2>2. QED
    BY <1>1, <2>1, ShadowAssumption
<1>3. CASE \E e \in Entries :
             /\ xCallbackCatalog' = [xCallbackCatalog EXCEPT ![e].thing = thing]
             /\ xParams' = [xParams EXCEPT ![t] = [thing |-> thing, new |-> new, entry |-> e, stage |-> 1]]
             /\ Goto(t, "unregister")
             /\ UNCHANGED failure
  <2>1. PICK e \in Entries :
             /\ xCallbackCatalog' = [xCallbackCatalog EXCEPT ![e].thing = thing]
             /\ xParams' = [xParams EXCEPT ![t] = [thing |-> thing, new |-> new, entry |-> e, stage |-> 1]]
             /\ Goto(t, "unregister")
             /\ UNCHANGED failure
    BY <1>3
  <2>2. [thing |-> thing, new |-> new, entry |-> e, stage |-> 1] \in Changes
    BY ShadowAssumption DEF Changes, Callbacks
  <2>3. xCallbackCatalog' \in [Entries -> [thing : Things \cup {NoThing}, callbacks : SUBSET Callbacks]]
    BY <2>1 DEF ShadowInv, CoreInv, TypeOK
  <2>4. /\ xParams'[t] \in Changes
        /\ xParams' \in [Tasks -> Requests \cup Changes \cup {Nothing}]
        /\ \A u \in Tasks : u # t => xParams'[u] = xParams[u]
    BY <2>1, <2>2 DEF ShadowInv, CoreInv, TypeOK
  <2>5. TypeOK'
    BY <1>1, <1>2, <2>1, <2>3, <2>4 DEF ShadowInv, CoreInv, TypeOK
  <2>6. "unregister" \in Registering
    BY DEF Registering
  <2>7. QED
    BY <1>1, <2>1, <2>4, <2>5, <2>6, OutsideInv
<1>4. CASE failure' = "catalog" /\ UNCHANGED <<xCallbackCatalog, xParams, pc>>
  <2>1. Goto(t, "idle")
    BY <1>1, <1>4 DEF Goto, ShadowInv, CoreInv, CallInv
  <2>2. TypeOK'
    BY <1>1, <1>2, <1>4 DEF ShadowInv, CoreInv, TypeOK
  <2>3. "idle" \notin Registering
    BY PhaseFacts
  <2>4. QED
    BY <1>1, <1>4, <2>1, <2>2, <2>3, OutsideInv
<1>5. QED
  BY <1>3, <1>4 DEF SHADOW_RegisterCallbacks, prvMatchCallbackTopic

LEMMA CallbackTopicFacts ==
  ASSUME NEW thing, NEW cb \in Callbacks
  PROVE  /\ thing \in Things => CallbackTopic(thing, cb) \in Topics
         /\ CallbackTopic(thing, cb).suffix # "rejected"
         /\ CallbackTopic(thing, cb).suffix = "accepted" => CallbackTopic(thing, cb).op = "delete"
<1>1. CASE cb = "updated"
  BY <1>1 DEF CallbackTopic, Topic, Topics, Operations
<1>2. CASE cb = "deleted"
  BY <1>2 DEF CallbackTopic, Topic, Topics, Operations
<1>3. CASE cb = "delta"
  BY <1>3 DEF CallbackTopic, Topic, Topics, Operations
<1>4. QED
  BY <1>1, <1>2, <1>3 DEF Callbacks

LEMMA ChangeFacts ==
  ASSUME NEW t \in Tasks, xParams[t] \in Changes
  PROVE  /\ xParams[t].thing \in Things /\ xParams[t].entry \in Entries
         /\ xParams[t].new \in SUBSET Callbacks /\ xParams[t].stage \in 1 .. 3
         /\ Order[xParams[t].stage] \in Callbacks
<1>1. /\ xParams[t].thing \in Things /\ xParams[t].entry \in Entries
      /\ xParams[t].new \in SUBSET Callbacks /\ xParams[t].stage \in 1 .. 3
  BY DEF Changes
<1>2. \A i \in 1 .. 3 : Order[i] \in Callbacks
  BY DEF Order, Callbacks
<1>3. QED
  BY <1>1, <1>2

LEMMA UnregisterInv ==
  ASSUME ShadowInv, failure = "none", NEW t \in Tasks, Unregister(t)
  PROVE  ShadowInv'
<1>1. /\ pc[t] = "unregister" /\ Goto(t, "register")
      /\ UNCHANGED <<connected, xOperationMutex, xCallbackSemaphore, pxOperationData,
                     ucTopicBuffer, xSubscribed, xOperationResult, xCallbackCatalog, xParams,
                     xBuffer, service, failure, calls>>
  BY DEF Unregister, clientVars
<1>2. {"unregister", "register"} \subseteq Registering
  BY DEF Registering
<1>3. xParams[t] \in Changes
  BY <1>1, <1>2 DEF ShadowInv, CoreInv, CallInv
<1>4. CallbackTopic(xParams[t].thing, Order[xParams[t].stage]) \in Topics
  BY <1>3, ChangeFacts, CallbackTopicFacts
<1>5. subscriptions \subseteq Topics
  BY DEF ShadowInv, CoreInv, TypeOK
<1>6. subscriptions' \subseteq Topics
  BY <1>4, <1>5, SubscribeFacts DEF Unregister
<1>7. \E code \in {"Success", "Failure"} : xReturn' = [xReturn EXCEPT ![t] = code]
  BY DEF Unregister
<1>8. TypeOK' /\ \A u \in Tasks : u # t => xReturn'[u] = xReturn[u]
  BY <1>1, <1>6, <1>7 DEF ShadowInv, CoreInv, TypeOK
<1>9. QED
  BY <1>1, <1>2, <1>3, <1>8, OutsideInv

LEMMA RegisterInv ==
  ASSUME ShadowInv, failure = "none", NEW t \in Tasks, Register(t)
  PROVE  ShadowInv'
<1> DEFINE p == xParams[t]
           Entry == [thing : Things \cup {NoThing}, callbacks : SUBSET Callbacks]
           cb == Order[p.stage]
<1>1. /\ pc[t] = "register"
      /\ UNCHANGED <<connected, xOperationMutex, xCallbackSemaphore, pxOperationData,
                     ucTopicBuffer, xSubscribed, xOperationResult, xBuffer, service, failure, calls>>
  BY DEF Register
<1>2. {"unregister", "register"} \subseteq Registering /\ "idle" \notin Registering
  BY PhaseFacts DEF Registering
<1>3. p \in Changes
  BY <1>1, <1>2 DEF ShadowInv, CoreInv, CallInv
<1>4. /\ p.thing \in Things /\ p.entry \in Entries /\ p.new \in SUBSET Callbacks
      /\ p.stage \in 1 .. 3 /\ cb \in Callbacks
  BY <1>3, ChangeFacts
<1>5. CallbackTopic(p.thing, cb) \in Topics
  BY <1>4, CallbackTopicFacts
<1>6. subscriptions \subseteq Topics /\ xCallbackCatalog \in [Entries -> Entry]
  BY DEF ShadowInv, CoreInv, TypeOK
<1>7. subscriptions' \subseteq Topics
  BY <1>5, <1>6, SubscribeFacts DEF Register
<1>8. PICK code \in {"Success", "Failure"} :
        LET old  == xCallbackCatalog[p.entry].callbacks
            now  == IF code = "Failure" THEN old
                    ELSE IF cb \in p.new THEN old \cup {cb} ELSE old \ {cb}
            last == code = "Failure" \/ p.stage = 3
        IN  /\ xCallbackCatalog' = [xCallbackCatalog EXCEPT ![p.entry] =
                   IF last /\ now = {} THEN Unused ELSE [@ EXCEPT !.callbacks = now]]
            /\ \/ last /\ Return(t)
               \/ /\ ~ last
                  /\ xParams' = [xParams EXCEPT ![t].stage = @ + 1]
                  /\ Goto(t, "unregister")
                  /\ UNCHANGED xReturn
  BY DEF Register
<1>9. xCallbackCatalog' \in [Entries -> Entry]
  <2>1. Unused \in Entry
    BY DEF Unused
  <2>2. ASSUME NEW now \in SUBSET Callbacks
        PROVE  [xCallbackCatalog[p.entry] EXCEPT !.callbacks = now] \in Entry
    BY <1>4, <1>6
  <2>3. PICK v \in Entry : xCallbackCatalog' = [xCallbackCatalog EXCEPT ![p.entry] = v]
    <3>1. xCallbackCatalog[p.entry].callbacks \in SUBSET Callbacks
      BY <1>4, <1>6
    <3> DEFINE old == xCallbackCatalog[p.entry].callbacks
               now == IF code = "Failure" THEN old
                      ELSE IF cb \in p.new THEN old \cup {cb} ELSE old \ {cb}
    <3>2. now \in SUBSET Callbacks
      BY <1>4, <3>1
    <3>3. \/ xCallbackCatalog' = [xCallbackCatalog EXCEPT ![p.entry] = Unused]
          \/ xCallbackCatalog' = [xCallbackCatalog EXCEPT
                 ![p.entry] = [xCallbackCatalog[p.entry] EXCEPT !.callbacks = now]]
      BY <1>8
    <3> HIDE DEF now, old
    <3>4. QED
      BY <2>1, <2>2, <3>2, <3>3
  <2>4. QED
    BY <1>6, <2>3
<1>10. CASE Return(t)
  <2>1. /\ xParams' = [xParams EXCEPT ![t] = Nothing]
        /\ xReturn' = [xReturn EXCEPT ![t] = "none"]
        /\ Goto(t, "idle")
    BY <1>10 DEF Return
  <2>2. TypeOK'
    BY <1>1, <1>7, <1>9, <2>1 DEF ShadowInv, CoreInv, TypeOK
  <2>3. \A u \in Tasks : u # t => xParams'[u] = xParams[u] /\ xReturn'[u] = xReturn[u]
    BY <2>1 DEF ShadowInv, CoreInv, TypeOK
  <2>4. QED
    BY <1>1, <1>2, <2>1, <2>2, <2>3, OutsideInv
<1>11. CASE /\ p.stage # 3
            /\ xParams' = [xParams EXCEPT ![t].stage = @ + 1]
            /\ Goto(t, "unregister")
            /\ UNCHANGED xReturn
  <2> DEFINE q == [p EXCEPT !.stage = @ + 1]
  <2>1. q \in Changes
    BY <1>3, <1>4, <1>11 DEF Changes
  <2>2. xParams' = [xParams EXCEPT ![t] = q]
    BY <1>11
  <2> HIDE DEF q
  <2>3. /\ xParams'[t] \in Changes
        /\ xParams' \in [Tasks -> Requests \cup Changes \cup {Nothing}]
        /\ \A u \in Tasks : u # t => xParams'[u] = xParams[u]
    BY <2>1, <2>2 DEF ShadowInv, CoreInv, TypeOK
  <2>4. TypeOK'
    BY <1>1, <1>7, <1>9, <1>11, <2>3 DEF ShadowInv, CoreInv, TypeOK
  <2>5. QED
    BY <1>1, <1>2, <1>11, <2>3, <2>4, OutsideInv
<1>12. QED
  BY <1>8, <1>10, <1>11

-----------------------------------------------------------------------------
(* The MQTT task. *)

(* What the service has answered it does not answer again. *)
LEMMA DeliveredFacts ==
  ASSUME TypeOK, NEW topic \in subscriptions, NEW k \in Tokens \cup {Others}, Delivered(topic, k)
  PROVE  /\ service' \in [Tokens -> Topics \cup {NoTopic}]
         /\ k \in Tokens /\ k # Others => service'[k] = topic
         /\ \A j \in Tokens : service[j].suffix \in {"accepted", "rejected"} => service'[j] = service[j]
<1>1. topic \in Topics
  BY DEF TypeOK
<1>2. [topic EXCEPT !.suffix = ""].suffix = ""
  BY <1>1 DEF Topics
<1>3. CASE k = Others /\ UNCHANGED service
  BY <1>3 DEF TypeOK
<1>4. CASE /\ k # Others
           /\ service[k] \in {topic, [topic EXCEPT !.suffix = ""]}
           /\ service' = [service EXCEPT ![k] = topic]
  <2>1. k \in Tokens
    BY <1>4
  <2>2. service' \in [Tokens -> Topics \cup {NoTopic}] /\ service'[k] = topic
    BY <1>1, <1>4, <2>1 DEF TypeOK
  <2>3. \A j \in Tokens : j # k => service'[j] = service[j]
    BY <1>4 DEF TypeOK
  <2>4. service[k].suffix \in {"accepted", "rejected"} => service'[k] = service[k]
    BY <1>2, <1>4, <2>2
  <2>5. QED
    BY <2>2, <2>3, <2>4
<1>5. QED
  BY <1>3, <1>4 DEF Delivered

LEMMA PublishReceivedInv ==
  ASSUME ShadowInv, failure = "none", NEW topic \in subscriptions,
         NEW k \in Tokens \cup {Others}, PublishReceived(topic, k)
  PROVE  ShadowInv'
<1> USE DEF ShadowInv, CoreInv
<1>1. /\ Delivered(topic, k)
      /\ UNCHANGED <<connected, xOperationMutex, pxOperationData, ucTopicBuffer, xSubscribed,
                     xCallbackCatalog, pc, xParams, xReturn, subscriptions, calls>>
  BY DEF PublishReceived
<1>2. /\ service' \in [Tokens -> Topics \cup {NoTopic}]
      /\ k \in Tokens /\ k # Others => service'[k] = topic
      /\ \A j \in Tokens : service[j].suffix \in {"accepted", "rejected"} => service'[j] = service[j]
  BY <1>1, DeliveredFacts
<1>3. CallInv' /\ MutexInv'
  BY <1>1 DEF CallInv, MutexInv
<1>4. ASSUME NEW t \in Tasks, pxOperationData = t
      PROVE  /\ pc[t] \in Requesting \cup Ending /\ xParams[t] \in Requests
             /\ xParams[t].token \in Tokens /\ xParams[t].token # Others
             /\ \A u \in Tasks : u # t => pc[u] \notin Holding
  <2>1. pc[t] \in Requesting \cup Ending /\ xOperationMutex = t
    BY <1>4, PhaseFacts DEF MutexInv
  <2>2. xParams[t] \in Requests
    BY <2>1, PhaseFacts DEF CallInv
  <2>3. QED
    BY <2>1, <2>2, RequestFacts DEF MutexInv
<1>5. ASSUME NEW t \in Tasks, pxOperationData = t, NEW result, Answer(t, result),
             result \in {"Success", "Rejected"}
      PROVE  service'[xParams[t].token] = service[xParams[t].token]
  BY <1>2, <1>4, <1>5 DEF Answer
<1>6. \A t \in Tasks : pxOperationData = t /\ Answer(t, xReturn[t]) => Answer(t, xReturn[t])'
  <2>1. ASSUME NEW t \in Tasks, pxOperationData = t, Answer(t, xReturn[t])
        PROVE  Answer(t, xReturn[t])'
    <3>1. CASE xReturn[t] \in {"Success", "Rejected"}
      BY <1>1, <1>5, <2>1, <3>1 DEF Answer
    <3>2. CASE xReturn[t] \notin {"Success", "Rejected"}
      BY <1>1, <3>2 DEF Answer
    <3>3. QED
      BY <3>1, <3>2
  <2>2. QED
    BY <2>1
<1>7. CASE UNCHANGED <<xOperationResult, xCallbackSemaphore, xBuffer>> /\ failure' \in {"none", "null callback"}
  <2>1. TypeOK'
    BY <1>1, <1>2, <1>7 DEF TypeOK
  <2>2. SemaphoreInv'
    BY <1>1, <1>7 DEF SemaphoreInv
  <2>3. \A t \in Tasks : pxOperationData = t /\ Answer(t, xOperationResult) =>
           Answer(t, xOperationResult)'
    <3>1. xOperationResult \in {"Success", "Rejected"}
      BY DEF TypeOK
    <3>2. QED
      BY <1>1, <1>5, <1>7, <3>1 DEF Answer
  <2>4. AnswerInv'
    BY <1>1, <1>6, <1>7, <2>3 DEF AnswerInv
  <2>5. BufferInv'
    BY <1>1, <1>7 DEF BufferInv, Running
  <2>6. QED
    BY <1>3, <2>1, <2>2, <2>4, <2>5
<1>8. ASSUME OperationMatched(topic), xOperationResult' = Result(topic), GiveSemaphore,
             xParams[pxOperationData].op = "update" => k = xParams[pxOperationData].token,
             \/ UNCHANGED xBuffer
             \/ xBuffer' = [xBuffer EXCEPT ![pxOperationData] =
                               IF topic.suffix = "accepted" THEN @ + 1 ELSE @]
      PROVE  ShadowInv'
  <2>1. PICK t \in Tasks : pxOperationData = t
    BY <1>8 DEF OperationMatched, TypeOK
  <2>2. /\ xCallbackSemaphore' = 1
        /\ failure' = IF xCallbackSemaphore = 0 THEN "none" ELSE "give"
        /\ topic.suffix \in {"accepted", "rejected"}
        /\ xOperationResult' = IF topic.suffix = "accepted" THEN "Success" ELSE "Rejected"
    BY <1>8 DEF GiveSemaphore, OperationMatched, Result
  <2>3. /\ xBuffer' \in [Tasks -> Nat] /\ \A u \in Tasks : u # t => xBuffer'[u] = xBuffer[u]
        /\ xBuffer'[t] # xBuffer[t] => xBuffer'[t] = xBuffer[t] + 1 /\ topic.suffix = "accepted"
    BY <1>8, <2>1 DEF TypeOK
  <2>4. TypeOK'
    BY <1>1, <1>2, <2>2, <2>3 DEF TypeOK
  <2>5. SemaphoreInv'
    BY <2>2 DEF SemaphoreInv
  <2>6. AnswerInv'
    <3>1. xParams[t].op = "update" => Answer(t, xOperationResult)'
      BY <1>1, <1>2, <1>4, <1>8, <2>1, <2>2 DEF Answer
    <3>2. QED
      BY <1>1, <1>6, <2>1, <3>1 DEF AnswerInv
  <2>7. BufferInv'
    <3>1. SUFFICES ASSUME failure' = "none" PROVE BufferInv'
      BY DEF BufferInv, Running
    <3>2. xCallbackSemaphore = 0 /\ xCallbackSemaphore # 1
      BY <2>2, <3>1 DEF TypeOK
    <3>3. pc[t] \in Requesting /\ pc[t] \notin Ending \cup Preparing \cup {"lock"}
      <4>1. PICK u \in Tasks : pc[u] \in Requesting
        BY <3>2 DEF SemaphoreInv
      <4>2. u = t
        BY <1>4, <2>1, <4>1, PhaseFacts
      <4>3. QED
        BY <4>1, <4>2, PhaseFacts
    <3>4. pc[t] \in {"publish", "wait"} => xBuffer[t] = 0
      BY <3>2 DEF BufferInv, Running
    <3>5. pc[t] \in {"publish", "wait"} /\ xBuffer'[t] # 0 =>
             xBuffer'[t] = 1 /\ xOperationResult' = "Success"
      BY <2>2, <2>3, <3>4
    <3>6. \A u \in Tasks : u # t => pc[u] \notin {"publish", "wait", "give"}
      BY <1>4, <2>1, PhaseFacts DEF Requesting
    <3>7. xCallbackSemaphore' # 0
      BY <2>2
    <3>8. ASSUME NEW u \in Tasks
          PROVE /\ pc[u] \in {"lock"} \cup Preparing => xBuffer'[u] = 0
                /\ pc[u] \in {"publish", "wait"} /\ xBuffer'[u] # 0 =>
                      xBuffer'[u] = 1 /\ xOperationResult' = "Success"
                /\ pc[u] \in Ending /\ xBuffer'[u] # 0 => xBuffer'[u] = 1 /\ xReturn[u] = "Success"
      <4>1. CASE u = t
        BY <3>3, <3>5, <4>1
      <4>2. CASE u # t
        BY <2>3, <3>6, <4>2 DEF BufferInv, Running
      <4>3. QED
        BY <4>1, <4>2
    <3>9. QED
      BY <1>1, <2>2, <3>7, <3>8 DEF BufferInv
  <2>8. QED
    BY <1>3, <2>4, <2>5, <2>6, <2>7
<1>9. QED
  <2>1. CASE OperationMatched(topic)
    <3>1. PICK t \in Tasks : pxOperationData = t
      BY <2>1 DEF OperationMatched, TypeOK
    <3>2. CASE xParams[t].op = "update" /\ prvShadowUpdateCallback(topic, k)
      BY <1>7, <1>8, <2>1, <3>1, <3>2 DEF prvShadowUpdateCallback
    <3>3. CASE xParams[t].op = "get" /\ prvShadowGetCallback(topic)
      BY <1>8, <2>1, <3>1, <3>3 DEF prvShadowGetCallback
    <3>4. CASE xParams[t].op = "delete" /\ prvShadowDeleteCallback(topic)
      BY <1>8, <2>1, <3>1, <3>4 DEF prvShadowDeleteCallback
    <3>5. QED
      BY <2>1, <3>1, <3>2, <3>3, <3>4 DEF PublishReceived
  <2>2. CASE ~ OperationMatched(topic)
    BY <1>7, <2>2 DEF PublishReceived
  <2>3. QED
    BY <2>1, <2>2

(* SHADOW_ClientConnect, the disconnect event and SHADOW_ClientDelete. *)
LEMMA ClientInv ==
  ASSUME ShadowInv, SHADOW_ClientConnect \/ Disconnected \/ SHADOW_ClientDelete
  PROVE  ShadowInv'
<1> USE DEF ShadowInv, CoreInv
<1>1. CASE SHADOW_ClientConnect \/ Disconnected
  <2>1. /\ UNCHANGED <<xOperationMutex, xCallbackSemaphore, pxOperationData, ucTopicBuffer,
                       xOperationResult, xCallbackCatalog, pc, xParams, xReturn, xBuffer,
                       service, failure, calls>>
        /\ connected' \in BOOLEAN
        /\ subscriptions' = subscriptions \/ subscriptions' = {}
        /\ xSubscribed' = xSubscribed \/ xSubscribed' = [o \in Operations |-> FALSE]
    BY <1>1 DEF SHADOW_ClientConnect, Disconnected, clientVars, taskVars
  <2>2. TypeOK'
    BY <2>1 DEF TypeOK
  <2>3. CallInv' /\ MutexInv' /\ SemaphoreInv'
    BY <2>1 DEF CallInv, MutexInv, SemaphoreInv
  <2>4. AnswerInv' /\ BufferInv'
    BY <2>1 DEF AnswerInv, Answer, BufferInv, Running
  <2>5. QED
    BY <2>2, <2>3, <2>4
<1>2. CASE SHADOW_ClientDelete
  <2>1. /\ xOperationMutex' = NoTask /\ xCallbackSemaphore' = 1 /\ pxOperationData' = NoTask
        /\ ucTopicBuffer' = NoTopic /\ xSubscribed' = [o \in Operations |-> FALSE]
        /\ xOperationResult' = "Success" /\ xCallbackCatalog' = [e \in Entries |-> Unused]
        /\ UNCHANGED <<connected, pc, xParams, xReturn, xBuffer, subscriptions, service, failure, calls>>
        /\ \A t \in Tasks : pc[t] = "idle"
    BY <1>2 DEF SHADOW_ClientDelete, taskVars
  <2>2. TypeOK'
    <3>1. Unused \in [thing : Things \cup {NoThing}, callbacks : SUBSET Callbacks]
      BY DEF Unused
    <3>2. QED
      BY <2>1, <3>1 DEF TypeOK
  <2>3. CallInv'
    BY <2>1 DEF CallInv
  <2>4. \A t \in Tasks : pc[t] \notin Holding \cup {"lock", "publish", "wait", "give"}
    BY <2>1, PhaseFacts
  <2>5. MutexInv' /\ SemaphoreInv' /\ AnswerInv'
    BY <2>1, <2>4, PhaseFacts, ShadowAssumption DEF MutexInv, SemaphoreInv, AnswerInv
  <2>6. BufferInv'
    BY <2>1, <2>4, PhaseFacts DEF BufferInv
  <2>7. QED
    BY <2>2, <2>3, <2>5, <2>6
<1>3. QED
  BY <1>1, <1>2

LEMMA NextInv == ShadowInv /\ [Next]_vars => ShadowInv'
<1> SUFFICES ASSUME ShadowInv, [Next]_vars PROVE ShadowInv'
  OBVIOUS
<1>1. CASE Next
  <2>1. failure = "none"
    BY <1>1 DEF Next
  <2>2. ASSUME NEW t \in Tasks, TaskCalls(t) PROVE ShadowInv'
    BY <2>1, <2>2, BeginInv, RegisterCallbacksInv, ReturnBufferInv DEF TaskCalls
  <2>3. ASSUME NEW t \in Tasks, OperationStep(t) PROVE ShadowInv'
    BY <2>3, LockInv, PreparingInv, StartInv, PublishedInv, WaitInv, GiveInv, EndingInv, FinishInv
       DEF OperationStep
  <2>4. ASSUME NEW t \in Tasks, RegisterStep(t) PROVE ShadowInv'
    BY <2>1, <2>4, UnregisterInv, RegisterInv DEF RegisterStep
  <2>5. ASSUME Environment PROVE ShadowInv'
    BY <2>1, <2>5, PublishReceivedInv, ClientInv DEF Environment
  <2>6. QED
    BY <1>1, <2>2, <2>3, <2>4, <2>5 DEF Next
<1>2. CASE UNCHANGED vars
  <2> USE <1>2 DEF vars, clientVars, taskVars, ShadowInv, CoreInv
  <2>1. TypeOK' /\ CallInv' /\ MutexInv' /\ SemaphoreInv'
    BY DEF TypeOK, CallInv, MutexInv, SemaphoreInv
  <2>2. AnswerInv' /\ BufferInv'
    BY DEF AnswerInv, Answer, BufferInv, Running
  <2>3. QED
    BY <2>1, <2>2
<1>3. QED
  BY <1>1, <1>2

-----------------------------------------------------------------------------
(* The theorems. *)

(* The inductive invariant of the shadow client holds in every reachable    *)
(* state.                                                                   *)
THEOREM ShadowInvariant == Spec => []ShadowInv
  BY InitInv, NextInv, PTL DEF Spec

(* prvShadowMQTTCallback never works on the parameters of a call that has   *)
(* returned: pxOperationData is that of the holder of the operation mutex.  *)
THEOREM ShadowOperationDataAlive == Spec => []OperationDataAlive
<1>1. ShadowInv => OperationDataAlive
  <2> SUFFICES ASSUME ShadowInv PROVE OperationDataAlive
    OBVIOUS
  <2>1. TypeOK /\ MutexInv
    BY DEF ShadowInv, CoreInv
  <2>2. ASSUME pxOperationData # NoTask
        PROVE  /\ xOperationMutex = pxOperationData
               /\ pc[pxOperationData] \in Requesting \cup Ending
    <3>1. pxOperationData \in Tasks
      BY <2>1, <2>2 DEF TypeOK
    <3>2. pc[pxOperationData] \in Requesting \cup Ending
      BY <2>1, <3>1 DEF MutexInv
    <3>3. QED
      BY <2>1, <3>1, <3>2, PhaseFacts DEF MutexInv
  <2>3. QED
    BY <2>1, <2>2 DEF OperationDataAlive, Requesting, Ending
<1>2. QED
  BY <1>1, ShadowInvariant, PTL

(* The take before a request in prvShadowOperation, "guarded by             *)
(* xOperationMutex and should never fail", finds the semaphore available.   *)
THEOREM ShadowTakeNeverFails == Spec => []TakeNeverFails
<1>1. ShadowInv => TakeNeverFails
  <2> SUFFICES ASSUME ShadowInv, NEW t \in Tasks, pc[t] = "start" PROVE xCallbackSemaphore = 1
    BY DEF TakeNeverFails
  <2>1. TypeOK /\ MutexInv /\ SemaphoreInv
    BY DEF ShadowInv, CoreInv
  <2>2. pc[t] \in Holding /\ pc[t] \notin Requesting
    BY DEF Holding, Preparing, Requesting
  <2>3. \A u \in Tasks : pc[u] \notin Requesting
    BY <2>1, <2>2, PhaseFacts DEF MutexInv
  <2>4. xCallbackSemaphore # 0
    BY <2>1, <2>3 DEF SemaphoreInv
  <2>5. QED
    BY <2>1, <2>4 DEF TypeOK
<1>2. QED
  BY <1>1, ShadowInvariant, PTL

(* SHADOW_Update reports the service's answer to that very update, whatever *)
(* answers to other requests reach the callback in between.                 *)
THEOREM ShadowUpdateReportsOwnAnswer == Spec => []UpdateReportsOwnAnswer
<1>1. ShadowInv => UpdateReportsOwnAnswer
  BY DEF ShadowInv, AnswerInv, Answer, UpdateReportsOwnAnswer, Ending
<1>2. QED
  BY <1>1, ShadowInvariant, PTL

(* A buffer that the callback takes for a call reaches its caller, who is   *)
(* told of success, and there is never a second one.                        *)
THEOREM ShadowBuffersReachCaller == Spec => []BuffersReachCaller
<1>1. ShadowInv => BuffersReachCaller
  <2> SUFFICES ASSUME ShadowInv, Running, NEW t \in Tasks, pc[t] \in Ending, xBuffer[t] > 0
               PROVE  xReturn[t] = "Success" /\ xBuffer[t] = 1
    BY DEF BuffersReachCaller, Ending
  <2>1. xBuffer[t] # 0
    OBVIOUS
  <2>2. QED
    BY <2>1 DEF ShadowInv, BufferInv
<1>2. QED
  BY <1>1, ShadowInvariant, PTL

(* The steps that can change where an operation is that is unsubscribing. *)
LEMMA UnsubscribingSteps ==
  ASSUME ShadowInv, Next, NEW t \in Tasks, pc[t] \in {"unsubscribe", "unsubscribeRejected"},
         pc'[t] # pc[t]
  PROVE  UnsubscribeAccepted(t) \/ UnsubscribeRejected(t)
<1>1. pc \in [Tasks -> {"idle", "lock"} \cup Holding \cup Registering]
  BY DEF ShadowInv, CoreInv, CallInv
<1>2. ASSUME NEW u \in Tasks, NEW l, Goto(u, l) PROVE u = t
  BY <1>1, <1>2 DEF Goto
<1>3. ~ UNCHANGED pc
  OBVIOUS
<1>4. ~ Environment
  BY <1>3 DEF Environment, PublishReceived, SHADOW_ClientConnect, Disconnected,
              SHADOW_ClientDelete, taskVars
<1>5. ASSUME NEW u \in Tasks, TaskCalls(u) PROVE FALSE
  <2>1. pc[u] = "idle"
    BY <1>5 DEF TaskCalls, Begin, SHADOW_RegisterCallbacks, SHADOW_ReturnMQTTBuffer
  <2>2. \E l : Goto(u, l)
    BY <1>3, <1>5 DEF TaskCalls, Begin, SHADOW_RegisterCallbacks, SHADOW_ReturnMQTTBuffer
  <2>3. QED
    BY <1>2, <2>1, <2>2
<1>6. ASSUME NEW u \in Tasks, RegisterStep(u) PROVE FALSE
  <2>1. pc[u] \in {"unregister", "register"}
    BY <1>6 DEF RegisterStep, Unregister, Register
  <2>2. \E l : Goto(u, l)
    BY <1>6 DEF RegisterStep, Unregister, Register, Return
  <2>3. QED
    BY <1>2, <2>1, <2>2
<1>7. ASSUME NEW u \in Tasks, OperationStep(u) PROVE UnsubscribeAccepted(t) \/ UnsubscribeRejected(t)
  <2>1. \E l : Goto(u, l)
    BY <1>7 DEF OperationStep, Lock, SubscribeAccepted, SubscribeRejected, UndoAccepted, Start,
                Published, Wait, Give, Cleanup, UnsubscribeAccepted, UnsubscribeRejected, Finish,
                Return
  <2>2. u = t
    BY <1>2, <2>1
  <2>3. QED
    BY <1>7, <2>2 DEF OperationStep, Lock, SubscribeAccepted, SubscribeRejected, UndoAccepted,
                      Start, Published, Wait, Give, Cleanup, Finish
<1>8. QED
  BY <1>4, <1>5, <1>6, <1>7 DEF Next

(* At its end an operation leaves the topic of every registered callback    *)
(* subscribed: the case "that would break callback notify" of               *)
(* prvShadowOperation.                                                      *)
THEOREM ShadowCleanupKeepsNotify == Spec => CleanupKeepsNotify
<1> DEFINE Kept ==
      \A t \in Tasks, e \in Entries : \A cb \in xCallbackCatalog[e].callbacks :
          /\ pc[t] \in {"unsubscribe", "unsubscribeRejected"}
          /\ pc'[t] # pc[t]
          /\ CallbackTopic(xCallbackCatalog[e].thing, cb) \in subscriptions
          => CallbackTopic(xCallbackCatalog[e].thing, cb) \in subscriptions'
<1>1. ShadowInv /\ [Next]_vars => [Kept]_vars
  <2> SUFFICES ASSUME ShadowInv, Next, NEW t \in Tasks, NEW e \in Entries,
                      NEW cb \in xCallbackCatalog[e].callbacks,
                      pc[t] \in {"unsubscribe", "unsubscribeRejected"}, pc'[t] # pc[t],
                      CallbackTopic(xCallbackCatalog[e].thing, cb) \in subscriptions
               PROVE  CallbackTopic(xCallbackCatalog[e].thing, cb) \in subscriptions'
    OBVIOUS
  <2> DEFINE topic == CallbackTopic(xCallbackCatalog[e].thing, cb)
  <2>1. /\ topic.suffix # "rejected"
        /\ topic.suffix = "accepted" => topic.op = "delete"
    <3>1. cb \in Callbacks
      BY CatalogFacts DEF ShadowInv, CoreInv
    <3>2. QED
      BY <3>1, CallbackTopicFacts
  <2>2. CASE UnsubscribeAccepted(t)
    <3>1. pc[t] = "unsubscribe" /\ xParams[t].op # "delete"
      BY <2>2 DEF UnsubscribeAccepted, ShadowInv, CoreInv, CallInv
    <3>2. ReplyTopic(t, "accepted").suffix = "accepted" /\ ReplyTopic(t, "accepted").op # "delete"
      BY <3>1 DEF ReplyTopic, Topic
    <3>3. topic # ReplyTopic(t, "accepted")
      BY <2>1, <3>2
    <3>4. QED
      BY <2>2, <3>3 DEF UnsubscribeAccepted, Unsubscribe
  <2>3. CASE UnsubscribeRejected(t)
    <3>1. ReplyTopic(t, "rejected").suffix = "rejected"
      BY DEF ReplyTopic, Topic
    <3>2. topic # ReplyTopic(t, "rejected")
      BY <2>1, <3>1
    <3>3. QED
      BY <2>3, <3>2 DEF UnsubscribeRejected, Unsubscribe
  <2>4. QED
    BY <2>2, <2>3, UnsubscribingSteps
<1>2. QED
  BY <1>1, ShadowInvariant, PTL DEF Spec, CleanupKeepsNotify
==============================================================================

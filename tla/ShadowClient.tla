----------------------------- MODULE ShadowClient -----------------------------
(***************************************************************************)
(* The device shadow client (AWS/shadow/aws_shadow.c).  A task that calls   *)
(* SHADOW_Update, SHADOW_Get or SHADOW_Delete subscribes to the two reply   *)
(* topics, publishes its request and waits on a semaphore that the MQTT     *)
(* task gives from prvShadowMQTTCallback; user callbacks for other topics   *)
(* are kept in a catalog.  There is one client (shadowconfigMAX_CLIENTS).   *)
(*                                                                          *)
(* A call of the MQTT agent is one step with its return code, except for    *)
(* the publish of a request: the answer may come before that call returns.  *)
(* The callback is one step, because it holds xOperationDataMutex while it  *)
(* looks at the operation.  A failed configASSERT disables the interrupts   *)
(* and loops, so it stops the whole program: failure says which one.        *)
(***************************************************************************)
EXTENDS Integers, Sequences, FiniteSets

CONSTANTS Tasks,      \* tasks that use the client
          NoTask,
          Things,
          NoThing,
          MaxThings,  \* shadowconfigMAX_THINGS_WITH_CALLBACKS
          Wanted,     \* the sets of callbacks a task may ask for
          MaxCalls    \* bound: API calls of the tasks

ASSUME ShadowAssumption ==
    /\ NoTask \notin Tasks
    /\ NoThing \notin Things
    /\ MaxThings \in Nat \ {0}
    /\ Wanted \subseteq SUBSET {"updated", "deleted", "delta"}
    /\ MaxCalls \in Nat

Operations == {"update", "get", "delete"}
Tokens     == 1 .. MaxCalls
Others     == 0                       \* stands for the requests of other clients
Entries    == 1 .. MaxThings
Callbacks  == {"updated", "deleted", "delta"}
Order      == <<"updated", "deleted", "delta">>

Topics   == [thing : Things, op : Operations, suffix : {"", "accepted", "rejected", "documents", "delta"}]
NoTopic  == [thing |-> NoThing, op |-> "none", suffix |-> ""]
Requests == [op : Operations, thing : Things, keep : BOOLEAN, token : Tokens]
Changes  == [thing : Things, new : SUBSET Callbacks, entry : Entries, stage : 1 .. 3]
Nothing  == [op |-> "none"]
Unused   == [thing |-> NoThing, callbacks |-> {}]

VARIABLES
    connected,           \* does the agent have a session for the client
    xOperationMutex,     \* the task that holds it
    xCallbackSemaphore,  \* 0 or 1
    pxOperationData,     \* NULL, or the task on whose stack the data is
    ucTopicBuffer,
    xSubscribed,         \* xUpdateSubscribed, xGetSubscribed, xDeleteSubscribed
    xOperationResult,
    xCallbackCatalog,
    pc, xParams, xReturn, \* per task: the call it is in
    xBuffer,             \* per task: MQTT buffers taken for its call
    subscriptions,       \* the topics the broker has a subscription for
    service,             \* per token: what the shadow service did with the request
    failure,             \* the assertion or call that stopped the program
    calls                \* API calls so far

clientVars == <<xOperationMutex, xCallbackSemaphore, pxOperationData, ucTopicBuffer,
                xSubscribed, xOperationResult, xCallbackCatalog>>
taskVars   == <<pc, xParams, xReturn, xBuffer>>
vars == <<connected, clientVars, taskVars, subscriptions, service, failure, calls>>

(* SHADOW_ClientCreate; the semaphore is given once. *)
Init ==
    /\ connected = FALSE
    /\ xOperationMutex = NoTask
    /\ xCallbackSemaphore = 1
    /\ pxOperationData = NoTask
    /\ ucTopicBuffer = NoTopic
    /\ xSubscribed = [o \in Operations |-> FALSE]
    /\ xOperationResult = "Success"
    /\ xCallbackCatalog = [e \in Entries |-> Unused]
    /\ pc = [t \in Tasks |-> "idle"]
    /\ xParams = [t \in Tasks |-> Nothing]
    /\ xReturn = [t \in Tasks |-> "none"]
    /\ xBuffer = [t \in Tasks |-> 0]
    /\ subscriptions = {}
    /\ service = [k \in Tokens |-> NoTopic]
    /\ failure = "none"
    /\ calls = 0

Topic(thing, op, suffix) == [thing |-> thing, op |-> op, suffix |-> suffix]
ReplyTopic(t, suffix)    == Topic(xParams[t].thing, xParams[t].op, suffix)

-----------------------------------------------------------------------------
(* The agent's calls, by what they do to the subscriptions.  "Failure"      *)
(* stands for eShadowFailure and for eShadowTimeout of the agent, which the *)
(* code does not tell apart; the broker may have done what was asked.       *)

Subscribe(topic, code) ==
    \/ /\ code = "Success"
       /\ connected
       /\ subscriptions' = subscriptions \cup {topic}
    \/ /\ code = "Failure"
       /\ \/ UNCHANGED subscriptions
          \/ connected /\ subscriptions' = subscriptions \cup {topic}

Unsubscribe(topic, code) ==
    \/ /\ code = "Success"
       /\ connected
       /\ subscriptions' = subscriptions \ {topic}
    \/ /\ code = "Failure"
       /\ \/ UNCHANGED subscriptions
          \/ connected /\ subscriptions' = subscriptions \ {topic}

-----------------------------------------------------------------------------
(* prvShadowOperation. *)

Goto(t, label) == pc' = [pc EXCEPT ![t] = label]

(* The call is over; what it returned is xReturn before this step. *)
Return(t) ==
    /\ xParams' = [xParams EXCEPT ![t] = Nothing]
    /\ xReturn' = [xReturn EXCEPT ![t] = "none"]
    /\ Goto(t, "idle")

(* SHADOW_Update, SHADOW_Get, SHADOW_Delete; an update carries a client     *)
(* token of its own.                                                        *)
Begin(t, op, thing, keep) ==
    /\ pc[t] = "idle"
    /\ xBuffer[t] = 0
    /\ calls < MaxCalls
    /\ calls' = calls + 1
    /\ xParams' = [xParams EXCEPT
           ![t] = [op |-> op, thing |-> thing, keep |-> keep, token |-> calls + 1]]
    /\ xReturn' = [xReturn EXCEPT ![t] = "Failure"]
    /\ Goto(t, "lock")
    /\ UNCHANGED <<connected, clientVars, xBuffer, subscriptions, service, failure>>

(* The operation mutex is taken, or not in time. *)
Lock(t) ==
    /\ pc[t] = "lock"
    /\ \/ /\ xOperationMutex = NoTask
          /\ xOperationMutex' = t
          /\ Goto(t, IF xSubscribed[xParams[t].op] THEN "start" ELSE "accepted")
          /\ UNCHANGED <<xParams, xReturn>>
       \/ xOperationMutex # NoTask /\ Return(t) /\ UNCHANGED xOperationMutex
    /\ UNCHANGED <<connected, xCallbackSemaphore, pxOperationData, ucTopicBuffer, xSubscribed,
                   xOperationResult, xCallbackCatalog, xBuffer, subscriptions, service,
                   failure, calls>>

(* prvShadowSubscribeToAcceptedRejected: its two calls, and the call that   *)
(* undoes the first if the second fails.                                    *)
SubscribeAccepted(t) ==
    /\ pc[t] = "accepted"
    /\ ucTopicBuffer' = ReplyTopic(t, "accepted")
    /\ \E code \in {"Success", "Failure"} :
          /\ Subscribe(ReplyTopic(t, "accepted"), code)
          /\ xReturn' = [xReturn EXCEPT ![t] = code]
          /\ Goto(t, IF code = "Success" THEN "rejected" ELSE "cleanup")
    /\ UNCHANGED <<connected, xOperationMutex, xCallbackSemaphore, pxOperationData, xSubscribed,
                   xOperationResult, xCallbackCatalog, xParams, xBuffer, service, failure, calls>>

SubscribeRejected(t) ==
    /\ pc[t] = "rejected"
    /\ ucTopicBuffer' = ReplyTopic(t, "rejected")
    /\ \E code \in {"Success", "Failure"} :
          /\ Subscribe(ReplyTopic(t, "rejected"), code)
          /\ xReturn' = [xReturn EXCEPT ![t] = code]
          /\ Goto(t, IF code = "Success" THEN "start" ELSE "undo")
    /\ UNCHANGED <<connected, xOperationMutex, xCallbackSemaphore, pxOperationData, xSubscribed,
                   xOperationResult, xCallbackCatalog, xParams, xBuffer, service, failure, calls>>

UndoAccepted(t) ==
    /\ pc[t] = "undo"
    /\ ucTopicBuffer' = ReplyTopic(t, "accepted")
    /\ \E code \in {"Success", "Failure"} : Unsubscribe(ReplyTopic(t, "accepted"), code)
    /\ Goto(t, "cleanup")
    /\ UNCHANGED <<connected, xOperationMutex, xCallbackSemaphore, pxOperationData, xSubscribed,
                   xOperationResult, xCallbackCatalog, xParams, xReturn, xBuffer, service, failure,
                   calls>>

(* The flag is set, the semaphore taken, the operation shown to the         *)
(* callback and the request handed to the agent.                            *)
Start(t) ==
    /\ pc[t] = "start"
    /\ xSubscribed' = [xSubscribed EXCEPT ![xParams[t].op] = TRUE]
    /\ xCallbackSemaphore = 1
    /\ xCallbackSemaphore' = 0
    /\ ucTopicBuffer' = ReplyTopic(t, "")
    /\ pxOperationData' = t
    /\ service' = [service EXCEPT ![xParams[t].token] = IF connected THEN ReplyTopic(t, "") ELSE @]
    /\ Goto(t, "publish")
    /\ UNCHANGED <<connected, xOperationMutex, xOperationResult, xCallbackCatalog, xParams, xReturn,
                   xBuffer, subscriptions, failure, calls>>

(* MQTT_AGENT_Publish returns. *)
Published(t) ==
    /\ pc[t] = "publish"
    /\ \E code \in {"Success", "Failure"} :
          /\ xReturn' = [xReturn EXCEPT ![t] = code]
          /\ Goto(t, IF code = "Success" THEN "wait" ELSE "give")
    /\ UNCHANGED <<connected, clientVars, xParams, xBuffer, subscriptions, service, failure, calls>>

(* The wait for the callback ends, with the semaphore or with a timeout. *)
Wait(t) ==
    /\ pc[t] = "wait"
    /\ xCallbackSemaphore' = 0
    /\ xReturn' = [xReturn EXCEPT ![t] = IF xCallbackSemaphore = 1 THEN xOperationResult ELSE "Timeout"]
    /\ Goto(t, "give")
    /\ UNCHANGED <<connected, xOperationMutex, pxOperationData, ucTopicBuffer, xSubscribed,
                   xOperationResult, xCallbackCatalog, xParams, xBuffer, subscriptions, service, failure,
                   calls>>

(* xSemaphoreGive inside a configASSERT. *)
GiveSemaphore ==
    /\ xCallbackSemaphore' = 1
    /\ failure' = IF xCallbackSemaphore = 0 THEN failure ELSE "give"

(* Mutant: the semaphore is not given back when the publish failed. *)
GiveUnlessFailed(t) ==
    /\ pc[t] = "give"
    /\ IF xReturn[t] = "Failure" THEN UNCHANGED <<xCallbackSemaphore, failure>> ELSE GiveSemaphore
    /\ Goto(t, "cleanup")
    /\ UNCHANGED <<connected, xOperationMutex, pxOperationData, ucTopicBuffer, xSubscribed,
                   xOperationResult, xCallbackCatalog, xParams, xReturn, xBuffer, subscriptions, service,
                   calls>>

Give(t) ==
    /\ pc[t] = "give"
    /\ GiveSemaphore
    /\ Goto(t, "cleanup")
    /\ UNCHANGED <<connected, xOperationMutex, pxOperationData, ucTopicBuffer, xSubscribed,
                   xOperationResult, xCallbackCatalog, xParams, xReturn, xBuffer, subscriptions, service,
                   calls>>

(* The entry of a Thing in the catalog, as a set. *)
prvMatchCallbackTopic(thing) == {e \in Entries : xCallbackCatalog[e].thing = thing}

(* Mutant: the callbacks of a Thing are forgotten when its shadow is deleted. *)
CleanupIgnoresCallbacks(t) ==
    /\ pc[t] = "cleanup"
    /\ Goto(t, IF xParams[t].keep THEN "finish" ELSE "unsubscribe")
    /\ UNCHANGED <<connected, clientVars, xParams, xReturn, xBuffer, subscriptions, service,
                   failure, calls>>

(* What is unsubscribed when the subscriptions are not kept: both topics;   *)
(* for a delete only the rejected one, and none if the Thing has callbacks. *)
Cleanup(t) ==
    LET p == xParams[t] IN
    /\ pc[t] = "cleanup"
    /\ \/ p.keep /\ Goto(t, "finish") /\ UNCHANGED ucTopicBuffer
       \/ ~ p.keep /\ p.op # "delete" /\ Goto(t, "unsubscribe") /\ UNCHANGED ucTopicBuffer
       \/ /\ ~ p.keep
          /\ p.op = "delete"
          /\ ucTopicBuffer' = ReplyTopic(t, "accepted")
          /\ Goto(t, IF prvMatchCallbackTopic(p.thing) = {} THEN "unsubscribeRejected" ELSE "finish")
    /\ UNCHANGED <<connected, xOperationMutex, xCallbackSemaphore, pxOperationData, xSubscribed,
                   xOperationResult, xCallbackCatalog, xParams, xReturn, xBuffer, subscriptions, service,
                   failure, calls>>

(* prvShadowUnsubscribeFromAcceptedRejected: the code of its last call      *)
(* decides about the flag.                                                  *)
UnsubscribeAccepted(t) ==
    /\ pc[t] = "unsubscribe"
    /\ ucTopicBuffer' = ReplyTopic(t, "accepted")
    /\ \E code \in {"Success", "Failure"} : Unsubscribe(ReplyTopic(t, "accepted"), code)
    /\ Goto(t, "unsubscribeRejected")
    /\ UNCHANGED <<connected, xOperationMutex, xCallbackSemaphore, pxOperationData, xSubscribed,
                   xOperationResult, xCallbackCatalog, xParams, xReturn, xBuffer, service, failure,
                   calls>>

UnsubscribeRejected(t) ==
    /\ pc[t] = "unsubscribeRejected"
    /\ ucTopicBuffer' = ReplyTopic(t, "rejected")
    /\ \E code \in {"Success", "Failure"} :
          /\ Unsubscribe(ReplyTopic(t, "rejected"), code)
          /\ xSubscribed' = [xSubscribed EXCEPT ![xParams[t].op] = @ /\ code = "Failure"]
    /\ Goto(t, "finish")
    /\ UNCHANGED <<connected, xOperationMutex, xCallbackSemaphore, pxOperationData,
                   xOperationResult, xCallbackCatalog, xParams, xReturn, xBuffer, service, failure,
                   calls>>

(* Mutant: the operation is not taken back. *)
FinishLeavesData(t) ==
    /\ pc[t] = "finish"
    /\ xOperationResult' = "Success"
    /\ ucTopicBuffer' = NoTopic
    /\ xOperationMutex' = NoTask
    /\ Return(t)
    /\ UNCHANGED <<connected, pxOperationData, xCallbackSemaphore, xSubscribed, xCallbackCatalog,
                   xBuffer, subscriptions, service, failure, calls>>

(* The client is cleared for the next operation and the call returns. *)
Finish(t) ==
    /\ pc[t] = "finish"
    /\ pxOperationData' = NoTask
    /\ xOperationResult' = "Success"
    /\ ucTopicBuffer' = NoTopic
    /\ xOperationMutex' = NoTask
    /\ Return(t)
    /\ UNCHANGED <<connected, xCallbackSemaphore, xSubscribed, xCallbackCatalog,
                   xBuffer, subscriptions, service, failure, calls>>

(* SHADOW_ReturnMQTTBuffer, for the document a Get returned. *)
SHADOW_ReturnMQTTBuffer(t) ==
    /\ pc[t] = "idle"
    /\ xBuffer[t] = 1
    /\ xBuffer' = [xBuffer EXCEPT ![t] = 0]
    /\ UNCHANGED <<connected, clientVars, pc, xParams, xReturn, subscriptions, service, failure,
                   calls>>

-----------------------------------------------------------------------------
(* SHADOW_RegisterCallbacks. *)

CallbackTopic(thing, cb) ==
    CASE cb = "updated" -> Topic(thing, "update", "documents")
      [] cb = "deleted" -> Topic(thing, "delete", "accepted")
      [] cb = "delta"   -> Topic(thing, "update", "delta")

(* prvGetCallbackCatalogEntry: the entry of the Thing, else the last free   *)
(* one; a full catalog fails an assertion.  Nothing guards the catalog      *)
(* against a second registration, so its users make one at a time.          *)
SHADOW_RegisterCallbacks(t, thing, new) ==
    LET own  == prvMatchCallbackTopic(thing)
        free == {e \in Entries : xCallbackCatalog[e] = Unused}
    IN
    /\ pc[t] = "idle"
    /\ \A u \in Tasks : pc[u] \notin {"unregister", "register"}
    /\ calls < MaxCalls
    /\ calls' = calls + 1
    /\ \/ \E e \in IF own # {} THEN own ELSE {f \in free : \A g \in free : g <= f} :
             /\ xCallbackCatalog' = [xCallbackCatalog EXCEPT ![e].thing = thing]
             /\ xParams' = [xParams EXCEPT ![t] = [thing |-> thing, new |-> new, entry |-> e, stage |-> 1]]
             /\ Goto(t, "unregister")
             /\ UNCHANGED failure
       \/ /\ own = {} /\ free = {}
          /\ failure' = "catalog"
          /\ UNCHANGED <<xCallbackCatalog, xParams, pc>>
    /\ UNCHANGED <<connected, xOperationMutex, xCallbackSemaphore, pxOperationData, ucTopicBuffer,
                   xSubscribed, xOperationResult, xReturn, xBuffer, subscriptions, service>>

(* prvRegisterCallback: the old callback's topic is unsubscribed. *)
Unregister(t) ==
    LET p  == xParams[t]
        cb == Order[p.stage]
    IN
    /\ pc[t] = "unregister"
    /\ \/ /\ cb \in xCallbackCatalog[p.entry].callbacks
          /\ \E code \in {"Success", "Failure"} :
                /\ Unsubscribe(CallbackTopic(p.thing, cb), code)
                /\ xReturn' = [xReturn EXCEPT ![t] = code]
       \/ /\ cb \notin xCallbackCatalog[p.entry].callbacks
          /\ xReturn' = [xReturn EXCEPT ![t] = "Success"]
          /\ UNCHANGED subscriptions
    /\ Goto(t, "register")
    /\ UNCHANGED <<connected, clientVars, xParams, xBuffer, service, failure, calls>>

(* The new one's is subscribed and, if the last call succeeded, the catalog *)
(* changed; after the last callback or the first failure an entry without   *)
(* callbacks is freed.                                                      *)
Register(t) ==
    LET p  == xParams[t]
        cb == Order[p.stage]
    IN
    /\ pc[t] = "register"
    /\ \E code \in {"Success", "Failure"} :
          /\ IF cb \in p.new THEN Subscribe(CallbackTopic(p.thing, cb), code)
                             ELSE code = xReturn[t] /\ UNCHANGED subscriptions
          /\ LET old  == xCallbackCatalog[p.entry].callbacks
                 now  == IF code = "Failure" THEN old
                         ELSE IF cb \in p.new THEN old \cup {cb} ELSE old \ {cb}
                 last == code = "Failure" \/ p.stage = 3
             IN  /\ xCallbackCatalog' = [xCallbackCatalog EXCEPT ![p.entry] =
                        IF last /\ now = {} THEN Unused ELSE [@ EXCEPT !.callbacks = now]]
                 /\ \/ last /\ Return(t)
                    \/ /\ ~ last
                       /\ xParams' = [xParams EXCEPT ![t].stage = @ + 1]
                       /\ Goto(t, "unregister")
                       /\ UNCHANGED xReturn
    /\ UNCHANGED <<connected, xOperationMutex, xCallbackSemaphore, pxOperationData, ucTopicBuffer,
                   xSubscribed, xOperationResult, xBuffer, service, failure, calls>>

-----------------------------------------------------------------------------
(* The MQTT task and what reaches it. *)

(* The received topic begins with what is in the topic buffer, or the       *)
(* buffer with the topic, and prvParseShadowOperationStatus finds a status. *)
OperationMatched(topic) ==
    /\ pxOperationData # NoTask
    /\ topic.thing = ucTopicBuffer.thing
    /\ topic.op = ucTopicBuffer.op
    /\ ucTopicBuffer.suffix \in {"", topic.suffix}
    /\ topic.suffix \in {"accepted", "rejected"}

(* prvGetErrorCodeAndMessage makes a code of a rejection, never success. *)
Result(topic) == IF topic.suffix = "accepted" THEN "Success" ELSE "Rejected"

(* Mutant: the client token is not compared. *)
prvShadowUpdateCallbackAny(topic, k) ==
    /\ xOperationResult' = Result(topic)
    /\ GiveSemaphore
    /\ UNCHANGED xBuffer

(* SHADOW_JSONDocClientTokenMatch: only the reply to this very update. *)
prvShadowUpdateCallback(topic, k) ==
    /\ \/ /\ k = xParams[pxOperationData].token
          /\ xOperationResult' = Result(topic)
          /\ GiveSemaphore
       \/ /\ k # xParams[pxOperationData].token
          /\ UNCHANGED <<xOperationResult, xCallbackSemaphore, failure>>
    /\ UNCHANGED xBuffer

(* Mutant: the buffer of a rejection is taken as well. *)
prvShadowGetCallbackTakes(topic) ==
    /\ xOperationResult' = Result(topic)
    /\ GiveSemaphore
    /\ xBuffer' = [xBuffer EXCEPT ![pxOperationData] = @ + 1]

(* An accepted Get keeps the MQTT buffer its document is in. *)
prvShadowGetCallback(topic) ==
    /\ xOperationResult' = Result(topic)
    /\ GiveSemaphore
    /\ xBuffer' = [xBuffer EXCEPT
           ![pxOperationData] = IF topic.suffix = "accepted" THEN @ + 1 ELSE @]

prvShadowDeleteCallback(topic) ==
    /\ xOperationResult' = Result(topic)
    /\ GiveSemaphore
    /\ UNCHANGED xBuffer

(* A message on this topic reaches the client: the service accepts or       *)
(* rejects request k, once, and the broker may deliver that late or several *)
(* times; or it is about something another client did.                      *)
Delivered(topic, k) ==
    /\ connected
    /\ topic \in subscriptions
    /\ \/ k = Others /\ UNCHANGED service
       \/ /\ k # Others
          /\ service[k] \in {topic, [topic EXCEPT !.suffix = ""]}
          /\ service' = [service EXCEPT ![k] = topic]

(* The catalog has an entry for the Thing of this topic, but no callback    *)
(* for the topic, and that is called.                                       *)
NullCallback(topic) ==
    \E e \in prvMatchCallbackTopic(topic.thing), cb \in Callbacks :
        /\ topic = CallbackTopic(topic.thing, cb)
        /\ cb \notin xCallbackCatalog[e].callbacks

(* prvShadowMQTTCallback for a publish, with the token of the request it    *)
(* answers: the operation in progress, else the user's callback, of which   *)
(* only matters whether there is one to call, else nobody.                  *)
PublishReceived(topic, k) ==
    /\ Delivered(topic, k)
    /\ \/ /\ OperationMatched(topic)
          /\ LET op == xParams[pxOperationData].op IN
                \/ op = "update" /\ prvShadowUpdateCallback(topic, k)
                \/ op = "get"    /\ prvShadowGetCallback(topic)
                \/ op = "delete" /\ prvShadowDeleteCallback(topic)
       \/ /\ ~ OperationMatched(topic)
          /\ NullCallback(topic)
          /\ failure' = "null callback"
          /\ UNCHANGED <<xOperationResult, xCallbackSemaphore, xBuffer>>
       \/ /\ ~ OperationMatched(topic)
          /\ ~ NullCallback(topic)
          /\ UNCHANGED <<xOperationResult, xCallbackSemaphore, xBuffer, failure>>
    /\ UNCHANGED <<connected, xOperationMutex, pxOperationData, ucTopicBuffer, xSubscribed,
                   xCallbackCatalog, pc, xParams, xReturn, subscriptions, calls>>

(* SHADOW_ClientConnect; the session starts without subscriptions. *)
SHADOW_ClientConnect ==
    /\ ~ connected
    /\ connected' = TRUE
    /\ UNCHANGED <<clientVars, taskVars, subscriptions, service, failure, calls>>

(* SHADOW_ClientDisconnect or a lost connection: prvShadowMQTTCallback for  *)
(* the disconnect event.                                                    *)
Disconnected ==
    /\ connected
    /\ connected' = FALSE
    /\ subscriptions' = {}
    /\ xSubscribed' = [o \in Operations |-> FALSE]
    /\ UNCHANGED <<xOperationMutex, xCallbackSemaphore, pxOperationData, ucTopicBuffer,
                   xOperationResult, xCallbackCatalog, taskVars, service, failure, calls>>

(* SHADOW_ClientDelete clears the client, which its users have left; it can *)
(* be created again.                                                        *)
SHADOW_ClientDelete ==
    /\ ~ connected
    /\ \A t \in Tasks : pc[t] = "idle"
    /\ xOperationMutex' = NoTask
    /\ xCallbackSemaphore' = 1
    /\ pxOperationData' = NoTask
    /\ ucTopicBuffer' = NoTopic
    /\ xSubscribed' = [o \in Operations |-> FALSE]
    /\ xOperationResult' = "Success"
    /\ xCallbackCatalog' = [e \in Entries |-> Unused]
    /\ UNCHANGED <<connected, taskVars, subscriptions, service, failure, calls>>

-----------------------------------------------------------------------------

OperationStep(t) ==
    \/ Lock(t)
    \/ SubscribeAccepted(t)
    \/ SubscribeRejected(t)
    \/ UndoAccepted(t)
    \/ Start(t)
    \/ Published(t)
    \/ Wait(t)
    \/ Give(t)
    \/ Cleanup(t)
    \/ UnsubscribeAccepted(t)
    \/ UnsubscribeRejected(t)
    \/ Finish(t)

RegisterStep(t) == Unregister(t) \/ Register(t)

TaskCalls(t) ==
    \/ \E op \in Operations, thing \in Things, keep \in BOOLEAN : Begin(t, op, thing, keep)
    \/ \E thing \in Things, new \in Wanted : SHADOW_RegisterCallbacks(t, thing, new)
    \/ SHADOW_ReturnMQTTBuffer(t)

Environment ==
    \/ \E topic \in subscriptions, k \in Tokens \cup {Others} : PublishReceived(topic, k)
    \/ SHADOW_ClientConnect
    \/ Disconnected
    \/ SHADOW_ClientDelete

Next ==
    /\ failure = "none"
    /\ \/ \E t \in Tasks : TaskCalls(t) \/ OperationStep(t) \/ RegisterStep(t)
       \/ Environment

Spec == Init /\ [][Next]_vars

-----------------------------------------------------------------------------

Running == failure = "none"

TypeOK ==
    /\ connected \in BOOLEAN
    /\ xOperationMutex \in Tasks \cup {NoTask}
    /\ xCallbackSemaphore \in {0, 1}
    /\ pxOperationData \in Tasks \cup {NoTask}
    /\ ucTopicBuffer \in Topics \cup {NoTopic}
    /\ xSubscribed \in [Operations -> BOOLEAN]
    /\ xOperationResult \in {"Success", "Rejected"}
    /\ xCallbackCatalog \in [Entries -> [thing : Things \cup {NoThing}, callbacks : SUBSET Callbacks]]
    /\ xParams \in [Tasks -> Requests \cup Changes \cup {Nothing}]
    /\ xReturn \in [Tasks -> {"none", "Success", "Failure", "Timeout", "Rejected"}]
    /\ xBuffer \in [Tasks -> Nat]
    /\ subscriptions \subseteq Topics
    /\ service \in [Tokens -> Topics \cup {NoTopic}]
    /\ failure \in {"none", "give", "catalog", "null callback"}
    /\ calls \in 0 .. MaxCalls

(* The comment in prvShadowOperation on taking the semaphore before a       *)
(* request, "guarded by xOperationMutex and should never fail": whatever    *)
(* the callbacks, timeouts and failures of earlier operations did, the      *)
(* semaphore is available.                                                  *)
TakeNeverFails == \A t \in Tasks : pc[t] = "start" => xCallbackSemaphore = 1

(* The callback never works on the parameters of a call that has returned:  *)
(* pxOperationData, which points to the stack of a task, is that of the     *)
(* task that holds the operation mutex.  The state is of its type.          *)
OperationDataAlive ==
    /\ TypeOK
    /\ pxOperationData # NoTask =>
           /\ xOperationMutex = pxOperationData
           /\ pc[pxOperationData] \in {"publish", "wait", "give", "cleanup", "unsubscribe",
                                       "unsubscribeRejected", "finish"}

(* An update reports the shadow service's answer to that very update, never *)
(* the answer to an earlier one, to another task's or to another client's.  *)
UpdateReportsOwnAnswer ==
    \A t \in Tasks :
        pc[t] \in {"give", "cleanup", "unsubscribe", "unsubscribeRejected", "finish"}
            /\ xParams[t].op = "update" /\ pxOperationData = t
        => /\ xReturn[t] = "Success"  => service[xParams[t].token].suffix = "accepted"
           /\ xReturn[t] = "Rejected" => service[xParams[t].token].suffix = "rejected"

(* MQTT buffers are few: a buffer is taken for a call only if it returns    *)
(* success, so that its caller knows that it has one to give back.          *)
BuffersReachCaller ==
    Running => \A t \in Tasks :
        pc[t] \in {"cleanup", "unsubscribe", "unsubscribeRejected", "finish"} /\ xBuffer[t] > 0
            => xReturn[t] = "Success" /\ xBuffer[t] = 1

(* The comment "that would break callback notify" in prvShadowOperation: at *)
(* its end an operation leaves the topic of a registered callback alone.    *)
CleanupKeepsNotify ==
    [][\A t \in Tasks, e \in Entries : \A cb \in xCallbackCatalog[e].callbacks :
          /\ pc[t] \in {"unsubscribe", "unsubscribeRejected"}
          /\ pc'[t] # pc[t]
          /\ CallbackTopic(xCallbackCatalog[e].thing, cb) \in subscriptions
          => CallbackTopic(xCallbackCatalog[e].thing, cb) \in subscriptions']_vars

(* The assertions around xSemaphoreGive say that the semaphore has been     *)
(* taken whenever it is given.                                              *)
GiveNeverFails == failure # "give"
==============================================================================

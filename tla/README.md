# TLA+ models of the Tiva AWS IoT firmware

The firmware connects a Tiva C (TM4C1294) board to AWS IoT: FreeRTOS tasks use a
device shadow client, which uses an MQTT agent, an MQTT library, secure sockets and
TLS over lwIP. This directory holds TLA+ specifications of the parts that carry the
program's own logic and of the kernel functions all of it rests on, TLC configurations that check small instances of them, and
TLAPS proofs for all values of the constants. Paths below are relative to the
repository.

- [Inventory](#inventory)
- [Modules and the code they model](#modules-and-the-code-they-model)
- [Runs](#runs)
- [Fairness](#fairness)
- [Proofs](#proofs)
- [Where code and documents disagree](#where-code-and-documents-disagree)
- [What the models assume](#what-the-models-assume)
- [Not modelled](#not-modelled)
- [Plan](#plan)

## Inventory

| Component | State it keeps | Operations | Correct if |
|---|---|---|---|
| Buffer pool, `AWS/bufferpool` | an in-use flag per buffer (8 of 2176 bytes) | Init, GetFreeBuffer, ReturnBuffer | a buffer has one owner, none is lost, NULL means that there is none |
| MQTT library, `AWS/mqtt/aws_mqtt_lib.c` | connection state, list of packets that wait for an acknowledgement, packet being received, subscription entries, keep alive | Connect, Disconnect, Subscribe, Unsubscribe, Publish, ReturnBuffer, ParseReceivedData, Periodic | every accepted operation is reported in the end, and once (a refused connect twice); buffers are conserved; its assertions hold |
| Topic filters and remaining length, same file | none (pure functions) | filter validation and matching, length size, encoding, decoding | they agree with the MQTT standard |
| MQTT agent, `AWS/mqtt/aws_mqtt_agent.c` | 3 connections with a socket and 5 notification slots each, the command queue, an identifier counter, the callers' task notifications | Create, Delete, Connect, Disconnect, Subscribe, Unsubscribe, Publish; the MQTT task | a call gets its own reply, exactly once, and returns; sockets match sessions |
| Shadow client, `AWS/shadow/aws_shadow.c` | a client with its MQTT connection, a mutex, a semaphore, the operation under way, subscribed flags, callbacks per Thing | Connect, Disconnect, Update, Get, Delete, RegisterCallbacks, ReturnMQTTBuffer | an answer is taken for the operation it belongs to, late answers do no harm, buffers are returned |
| Light bulb demo, `AWS/common/demo/shadow` | a queue of reported states | two tasks on top of the shadow client | the reported state follows the desired one |
| Secure sockets and TLS, `AWS/secure_sockets`, `AWS/tls` | a context per socket with its flags, timeouts and TLS context | Socket, Connect, Send, Recv, SetSockOpt, Shutdown, Close | no context is leaked or used after it is freed; a closed connection is noticed |
| PKCS #11 and provisioning, `AWS/pkcs11`, `AWS/common/demo/devmode_key_provisioning` | session, object handles, files on flash | the C_* functions the firmware uses | handles are valid when used, partial provisioning can be repeated |
| Calendar and SNTP, `OSTime.c`, `sntp_client` | date and time, SNTP retry interval | OSUpdateCalendar, set, get, SNTP request and answer | the date is a valid date, and never a mix of two |
| UART terminal, keyboard, `tarefas.c` | transmit mutex, semaphore, receive queue | UART interrupt, send, terminal | no byte is lost or written twice, no deadlock |
| Boot, `main.c`, `AWS/utils` | none | task creation, `SYSTEM_Init` | the pool exists before the agent, the agent before its users |
| Kernel queues, `FreeRTOS/queue.c` | a ring of items, two lock counters, two event lists | send, receive, peek, from tasks and interrupts | a bounded queue; no task sleeps while what it waits for is there |
| Kernel mutexes, `FreeRTOS/queue.c`, `tasks.c` | holder and waiters of each mutex, priorities, ready lists and their bit map | take with a time limit, give | the most urgent ready task runs; inherited priorities end |
| Kernel time, `FreeRTOS/tasks.c` | the tick count, two delayed lists, ticks and events pended while the scheduler is suspended | tick, vTaskDelay, vTaskDelayUntil, waits with a time limit | no delay or wait ends early or is missed, also when the tick count wraps |
| Heap, `FreeRTOS/portable/MemMang/heap_4.c` | block headers, the free list, two counters | pvPortMalloc, vPortCalloc, vPortFree | blocks do not overlap, none is lost, free neighbours are joined |
| lwIP, mbedTLS, FatFs, jsmn, driverlib | | | third-party |

How they interact. Application tasks call the agent's API, which puts a command with
a pointer to the caller's stack on `xCommandQueue` and waits for a task notification
*without a timeout*. One MQTT task takes the commands, calls the library for one of
three contexts, reads the sockets and calls `MQTT_Periodic`; the library reports to
it by an event callback, and from there the callers are notified through slots that
pair a task with the identifier of its packet. The library takes buffers from the
pool; a received publish can be handed to an application task, which returns its
buffer later, from its own context. The shadow client waits on a semaphore which its
callbacks give in the MQTT task. The SNTP client sets the calendar which another
task advances and the TLS layer reads.

What is hard here, by kind (the list with lines is `hazards` in `PROJECT.json`):

- *interleaving*: the scan of the pool is not one critical section; a reply can race
  the caller that prepares to wait for it; the calendar is not protected;
- *ordering and unreliable peers*: acknowledgements out of order, twice, unasked,
  malformed, or never; a session that ends in the middle of a packet;
- *timeouts*: expiry of a command in the queue, of a packet, of a CONNECT, of a
  PINGRESP, each racing the late answer;
- *resources*: no buffer, a packet longer than a buffer, no slot, full queue, full
  subscription manager;
- *partial failure*: a connect that fails after the slot, after the socket, after
  the handshake;
- *numeric edges*: 16 bit identifiers, four byte lengths, two indexes that look ahead
  in strings, a tick count that wraps, ring positions, sizes with a mark in their top
  bit;
- *the kernel under all of it*: interrupts that use a queue while a task is on its way
  to sleep, timeouts of tasks that have lent their priority, blocks that are freed by
  one task while another allocates.

## Modules and the code they model

`map` in `PROJECT.json` gives the lines of every definition. Definitions whose comment
starts with "Mutant:" are wrong variants of the definition that follows; no
specification uses them, and they serve to show that each property can fail.

**BufferPool**, with BufferPoolProofs: all of
`aws_bufferpool_static_thread_safe.c`. `ucBufferInUse` are the flags, `x`,
`pulBufferLength` and `pucFreeBuffer` the locals of the scan. `GetFreeBuffer` starts
a request, `ScanStep` is one critical section of the loop, `ScanEnd` its exit and
`Resume` the return to the caller; `ReturnBuffer` and `TakeOwnership` (a callback
keeps the buffer of a publish) are taken by other tasks between any two of them.
`holder` and `busyAtCall` are ghosts for the properties.

**MqttSession** is the abstract specification of the library: a connection state, the
set of operations accepted and not yet reported, and the last event. An operation
leaves the set only in a step that reports it, by a reply with its identifier or by
the one disconnect event that ends the session. `Rejected` is the exception: a CONNECT
that the broker refuses is reported by its reply and then by the disconnect
(`aws_mqtt_lib.c:1274` and `:1323`), which the event `Refused` stands for.

**MqttContext**, with MqttContextProofs and MCMqttContext: one `MQTTContext_t` and all
public functions of `aws_mqtt_lib.c`. Variables carry the names of the structure's
members. `xTxBufferList` is the list of buffers that wait for an acknowledgement: of a
buffer it keeps the packet type, identifier, topic filter and the ticks left. One
action is one call, except that `MQTT_ParseReceivedData` is one action per kind of
byte or complete packet, the granularity at which its state changes. The content of a
packet is chosen when it is complete, so that the broker can send anything. Helpers
that change state (`prvResetMQTTContext`, `prvResetRxMessageState`, `prvSendData`,
`prvStoreSubscription`, `prvRemoveSubscription`) are conjuncts of the actions that
call them; `EndSession` is the reset with the callback that tells of it. `Session` instantiates MqttSession with
`state <- xConnectionState, outstanding <- TxIds`.

**MqttAgent**, with MqttAgentProofs and MCMqttAgent: `aws_mqtt_agent.c` composed with what MqttSession
says of the library: `state[c]` and `outstanding[c]` are its variables for connection
`c`. An API call of a task goes through `pc` = idle, clear, send, wait, which are the
statements of `prvSendCommandToMQTTTask` (take an identifier in a critical section,
clear the notification state, send to the queue, wait). A handler of the MQTT task is
one step (`ReceiveCommand`, one disjunct per command and one for an expired command;
`LibraryEvent`, one disjunct per event), because nobody else touches the connections.
`notification` is the value of the FreeRTOS task notification with its pending state:
`prvNotifyRequestingTask` does not overwrite one that is pending. Of the two events of a
refused CONNECT the agent answers its caller at the second only (the comment at
`aws_mqtt_agent.c:1079` says why), so `ConnectionLost` stands for both. `mayConnect` is a
ghost: the creator of a connection knows that it is disconnected.

**TopicFilter** and **RemainingLength**, run together as **PacketFields** with
MCPacketFields: `prvGetTopicFilterType` and the loop of `prvDoesTopicMatchTopicFilter`,
one action per branch of its body, against a definition by levels of section 4.7 of
the standard (`MatchLevels`); `prvSizeOfRemainingLength`, `prvEncodeRemainingLength` and
`prvDecodeRemainingLength`, one action per byte. The two share nothing: a behaviour
runs one of the loops for one input.

**ShadowClient**, with ShadowClientProofs and MCShadowClient: all of `aws_shadow.c`. `pc` is where a task is in
`prvShadowOperation` or `SHADOW_RegisterCallbacks`, `xParams`, `xReturn` and `xBuffer`
are the parameters, the return code and the MQTT buffers of its call; the other
variables are members of `ShadowClient_t`. The agent's calls are steps with a return
code (what MqttAgent shows of them: each returns), except that the answer to a request
may come before the publish of it returns. `subscriptions` and `service` are the broker
and the shadow service: a request is accepted or rejected once, and its answer may be
delivered late, several times, or never; other clients' answers come at any time.
`prvShadowMQTTCallback` is one step (`PublishReceived`), because it holds
`xOperationDataMutex` and only the MQTT task runs it. A failed `configASSERT` ends the
behaviour, as `failure` says.

**SecureSocket**: `prvSetupConnection` and
`prvGracefulSocketClose` of the agent, `aws_secure_sockets.c`, `aws_tls.c` and the
session of `aws_pkcs11_pal.c`, by what they allocate, use and free. `blocks` are the heap
blocks a connection owns, `lwip` the open sockets. Every call can fail, `TLS_Connect`
after any of the steps in `Steps`. A use of what is not there sets `fault` and ends the
behaviour, and a block whose last pointer is gone moves to `lost`. The set up has four
faults of its own (`SetupFaults`): the host that was not found, the NULL of
`SOCKETS_Socket`, and the two ends of its clean-up when there is no memory for the
context of a socket that lwIP has opened (`NoMemoryFor`): the number of the lwIP socket is
handed to `SOCKETS_Close` in place of a context, so that number 0 closes nothing and any other
is used as a pointer; in both cases the lwIP socket stays open without a handle.

**LightBulb**: the tasks of `aws_shadow_lightbulb_on_off.c` and the MQTT
task as far as they wait for each other. `SHADOW_Update` is two waits: for the MQTT task
to perform the agent's commands, without a limit, and for the reply, with one. The 100 s
limit of `ulTaskNotifyTake` is left out (see [below](#what-the-models-assume)).

**Clock**: `sntp.c`, the calendar of `OSTime.c` and the task `System_Time`.
`timers` counts the armed lwIP timers of the two handlers; `sntp_recv` and `SetCalendar`
are one call of the code cut between the two words of the structure it copies, since the
task that advances the calendar has a higher priority than the lwIP thread. `wall` is
the time the calendar should show, kept as a day number and a second.

**Console**: `Terminal`, `UARTPutString`, `UARTPutChar` and
`UARTIntHandler` of `tarefas.c` with the data register and the interrupt flags of the
UART, whose FIFO is disabled. A writer goes through `at` = mutex, store, enable, wait,
give, the statements of `UARTPutString`; `UARTPutChar` is the same for one character.

**KernelQueue**, with **BoundedQueue** (its abstract specification), KernelQueueProofs and MCKernelQueue:
`xQueueGenericSend`, `xQueueReceive`, `xQueuePeek` and what interrupts call, one action per
critical section. `at` is where a task is in its call, `blocked` are the tasks in a
delayed or the suspended list, `xPendingReadyList` those woken while the scheduler is
suspended. Interrupts come between any two steps, also while the queue is locked; other
tasks only while the scheduler runs, and a more urgent ready task before a less urgent.
Semaphores are queues whose items do not matter.

**KernelMutex**: `xQueueSemaphoreTake` and the give of
`xQueueGenericSend` for mutexes, the functions of priority inheritance in `tasks.c`, the
ready lists and the bits of `uxTopReadyPriority` (`configUSE_PORT_OPTIMISED_TASK_SELECTION`
is 1 in this port). Only `pxCurrentTCB` takes steps; the tick wakes tasks, ends waits and
shares time among equals. A failed assertion leaves no current task.

**KernelTime**, with KernelTimeProofs and MCKernelTime: `xTaskIncrementTick`, the two delayed lists, `vTaskDelay`,
`vTaskDelayUntil`, `xTaskCheckForTimeOut` and the waiting loop of the blocking calls,
`xTaskResumeAll` with its pended ticks and tasks. The tick count is a number modulo
`TickMod`. `due` is a ghost: the ticks until the delay or wait of a task is over, negative
when that is past.

**Heap**: `heap_4.c`. `block` gives the header at each address where there is
one; `owned` are the program's blocks with the size it asked for. `pvPortMalloc` is one step,
`vPortFree` two, before and within the suspension of the scheduler.

**Services**, with ServicesProofs and MCServices, and **Firmware**, with FirmwareProofs and
MCFirmware, run modules that have no
state in common: Services the buffer pool, the heap, the mutexes and the sockets, Firmware
the demo, the clock and the console. The variable `service` (or `part`) says which of
them a behaviour is of, so that the state spaces are added and not multiplied. Services
has the mutexes twice, also for tasks that never take a second one.

## Runs

| Run | Bounds | Distinct states | Checks | Shows |
|---|---|---|---|---|
| `context` | 2 identifiers, 2 filters, 2 entries, 3 buffers, timeouts 2, keep alive 2, ping 1 | 173,556 | BufferConservation, SessionShape, RxAssertions, SubscriptionManager, SessionSpec, EveryOperationReported, PingNotGivenUpEarly | the library survives anything the broker sends, implements MqttSession, and reports every operation in the end; a PINGRESP is not given up before its time |
| `context_granted` | 1 filter | violation | GrantedHasCallback | finding 1 |
| `agent` | 2 tasks, 1 connection, 1 slot, queue of 1, 3 identifiers | 69,639 | ReplyAccounting, SlotsMatchLibrary, EveryCallReturns | a waiting call is owed exactly one reply; slots agree with the library; every call returns |
| `agent_foreign` | 2 tasks, 2 connections, 1 slot, queue of 1, 3 identifiers, foreign notifications | 3.4 million | RepliesMatch, SocketMatchesSession | no notification of others is taken for a reply; a socket is open exactly during a session, and no connect finds one open |
| `packet_fields` | topics up to 4, filters up to 5 characters, 2 letters; lengths 0..16500, 2097000..2097300, 268435000..268435455 | 155,918 | AcceptedIsValid, MatchIsExact, RoundTrip, LoopsEnd | the matching loop ends, stays inside both strings and is right but for two cases of a final `#`; packets are sized for the length bytes that are written, and these decode to the length |
| `shadow` | 2 tasks, 2 Things, a catalog of 1, 2 API calls | 674,204 | TakeNeverFails, OperationDataAlive, UpdateReportsOwnAnswer, BuffersReachCaller, CleanupKeepsNotify | operations do not disturb each other through the semaphore, the flags or the data they leave; an update reports its own answer |
| `shadow_give` | as `shadow` | violation | GiveNeverFails | finding 2 |
| `services` | pool: 3 buffers, 2 application tasks, lengths 1 to 3 for size 2; heap: 29 bytes from an odd address, alignment and header 2, size_t modulo 128, six sizes and two products; mutexes: 3 tasks of 3 priorities, 2 mutexes, and the same with 1; sockets: 2 connections, 2 lwIP sockets | 538,690 | Ownership, NullOnlyWhenExhausted; HeapExact; ReadyListsExact, PriorityRestored, OneMutexExact; CallsOnLiveObjects, SocketsAccounted, CloseReleases | no buffer has two owners or is lost although it may be returned between any two visits of the scan, and NULL means too long or all in use when asked; blocks tile the heap, the free list and the counters are exact; ready lists follow the priorities, who holds no mutex has its own priority, and with one mutex a holder is as urgent as its most urgent waiter; whatever fails in a connection, nothing is used after it is freed, no lwIP socket is lost but the one that `SOCKETS_Socket` opened without memory for its context, and a close releases all but what a `TLS_Connect` that failed before its handshake leaves |
| `firmware` | demo: 2 bulb tasks, queue of 4; clock: 3 timers, 2 lookups, 2 answers under way, 2 seconds between settings; console: 3 printing tasks and the echo, strings of 3 | 32,550 | NotifiedOnce, EveryUpdateNotified; CalendarFollows, CalendarExists, AsksAgain; StringsWhole, EveryStringPrinted | a waiting bulb task is owed one notification and gets it, unless the assertion on an initial report stops the system; the calendar is right at its edges and never shows a date that does not exist, and the client never stops asking; no character is lost, no strings are mixed, every string is printed |
| `kernel_queue` | 3 tasks of 2 priorities, 1 item, 2 places, 2 calls of interrupts per lock | 2.7 million | NoLostWakeup | for each item (or place) somebody waits for, a task has been woken |
| `kernel_queue_fifo` | 2 tasks, 2 items, 3 places, 1 call of an interrupt per lock | 2.2 million | QueueSpec | the ring is a bounded queue with two ends |
| `kernel_time` | 3 tasks, one periodic, tick count modulo 6, waits up to 3, lateness up to 2, 1 pended tick | 2.6 million | DelaysExact | no task sleeps too long or is told too early |

Why these bounds are enough to meet the interesting cases:

- *pool*: with 3 buffers one lies before, one under and one after the place of the
  scan; the third length does not fit;
- *context*: 3 buffers for 2 requests and one packet being received run out; 2 entries
  make a full manager; two identifiers on one filter make requests overlap; a timeout
  of 2 ticks lets requests expire apart from and together with each other, and is
  longer than the ping timeout. Buffers are alike and are only counted. The run
  with a violation needs one filter only;
- *agent*: 2 tasks exceed 1 slot and a queue of 1; identifiers wrap after 3, so that a
  slot left over meets its identifier again. Two connections need 2 tasks, an owner
  and another. Tasks are symmetric in the runs without a liveness property;
- *topic filter*: 5 characters hold two separators, both wild cards and a letter; the
  loop looks at most two characters ahead; two letters are needed for a mismatch;
- *remaining length*: all lengths of one and two bytes and both sides of every change
  of the number of bytes;
- *shadow*: two calls are an operation and the next one, or two at once; with two Things
  an operation follows one for another Thing, and a catalog of 1 runs full. What the
  first call leaves (semaphore, flags, catalog, answers under way) is all that a further
  call could see of it;
- *sockets*: the connections are served by one task, and the second serves to meet the
  socket numbers of the first again;
- *demo*: the queue is twice as long as there are tasks, as in the code, and the updates
  of the deltas fill it; the second task finds it full while the first waits;
- *clock*: the server answers the last seconds of 28 February of 2000, 2019 and 2020, a
  leap century, a common year and a leap year, and of the year 2019, so that two seconds
  cross each; a century without leap day lies beyond the times SNTP's 32 bits hold; two
  answers under way are a late one and the current one. `AsksAgain` also holds with a
  single timer in the pool;
- *console*: 3 characters are a first, a middle and a last one; the queue of 2 runs full;
- *kernel queue*: three tasks are one that uses the queue and two that wait, equals and an
  urgent one; two calls of interrupts during a lock must wake two. For the order of items
  three places tell the neighbours of a position apart, and two items an item from
  another;
- *kernel time*: waits of up to half of the tick count, begun at every value of it, so that
  each list is used and the count comes round during waits, delays and pended ticks. In
  the code a wait and the lateness of its task must together stay below 2^32 ticks, 49
  days, which MaxWait and MaxLate stand for;
- *mutexes*: a holder, a waiter and one more urgent than both. Two mutexes make chains of
  two, and orders of giving other than of taking;
- *heap*: up to six blocks; the sizes make rests that are split off and rests that are not,
  and neighbours to join on either side, both or neither. The alignment, the header and
  the least rest have the ratios of the code (8, 8 and 16).

`packet_fields` does not check for deadlock because the modelled functions return;
`shadow` because its calls are counted; `services` because a fault of a socket or a failed
assertion ends the behaviour; `firmware` because of these, an unusable console, and the
bound on the seconds of the clock.
In the other runs deadlock is checked.

ReplyAccounting, MatchIsExact, OperationDataAlive, SocketsAccounted, NotifiedOnce,
CalendarExists, StringsWhole, NoLostWakeup, DelaysExact, ReadyListsExact and HeapExact
include the type invariant of their modules; those of BufferPool and MqttContext are
part of what is proved.

## Fairness

- `MqttContext!FairSpec`: weak fairness of `Tick` and of `MQTT_Periodic`. The tick
  interrupt runs, and `prvMQTTTask` comes back to `prvManageConnections`, which calls
  `MQTT_Periodic` for every connection, after each wait on the queue, which is bounded.
  No fairness is assumed of the broker or of the callers.
- `MqttAgent!FairSpec`: weak fairness of each statement of an API call that a task is
  in (its call to `xQueueSendToBack` ends because it has a timeout), of
  `ReceiveCommand` (the MQTT task), and of `ConnectTimeout` and
  `prvProcessReceivedTimeout`: that the library is done with every packet is what
  `EveryOperationReported` shows in the run `context`. The events that the broker
  causes have no fairness. `QueueSend` and `QueueSendTimesOut` are one fair action: a
  task that finds the queue full again and again gives up.
- `PacketFields!Spec`: the function runs until it returns.
- `Firmware!DemoFairness`: weak fairness of each task. The waits that end by a time limit in
  the code are steps of those tasks. No fairness of the broker: `ReplyTimesOut` is what
  ends the wait for a reply.
- `Firmware!ClockFairness`: weak fairness of the second half of `SetCalendar`, strong fairness of
  the timers and of the end of a lookup. Strong, because the lwIP thread serves expired
  timers before every message it fetches, so packets cannot hold them up for ever; a
  lookup ends since lwIP gives up after its retries. No answer is ever assumed.
- `Firmware!ConsoleFairness`: weak fairness of the UART, of the interrupt and of every statement
  of a writer, and strong fairness of taking the mutex, which FreeRTOS hands to the
  waiting task of the highest priority: the tasks of a higher priority pause between two
  strings.

The specifications of the kernel state no fairness: what they are checked for is safety,
NoLostWakeup and DelaysExact included, which say in each state that whoever should run
has been made ready.

## Proofs

TLAPS checks all obligations with its SMT, Zenon and LS4 backends.

**BufferPoolProofs**, from `PoolAssumption`, for any number of buffers and tasks:
`PoolOwnership` and `PoolNullOnlyWhenExhausted`. The inductive invariant `PoolInv` adds
`VisitedWasBusy` to the type and the two properties: each buffer the scan has passed
was in use when the request began, and none has been marked since. Without it nothing is known at the
end of the loop about buffers that were returned behind the scan.

**MqttContextProofs**, from `ContextAssumption` alone (the numbers are naturals and
`NoTopic` is no topic):

- `ContextTypeOK`, `ContextBufferConservation`, `ContextSessionShape`,
  `ContextRxAssertions`, `ContextSubscriptionManager`: the type and the four invariants of
  the run `context`;
- `ContextImplementsSession`: `Spec => SessionSpec`, the library implements
  MqttSession: what was accepted is reported by a reply or by the end of the session, and
  only a refused CONNECT by both;
- `ContextPingNotGivenUpEarly`: `Spec => PingNotGivenUpEarly`, if
  `PingTimeoutTicks <= KeepAliveTicks`. The board has 1000 and 300000 ticks
  (`config/aws_mqtt_agent_config.h:72` and `:64`). The hypothesis is needed: a packet that is
  sent while the PINGRESP is awaited sets the clock to the keep alive interval, and a
  shorter one would end the wait before its time. The invariant is `PingTimed`: the age of
  the PINGREQ and what is left on the clock are together at least the timeout.

The inductive invariant `ContextInv` has one part per piece of state: `TxInv` (the
list is finite, of its type, and its identifiers differ), `TxShape` (which packets a
state of the session allows), `RxInv`, `BufInv` (conservation), `PingInv`, `EventInv`
and `SubInv`. Identifiers must differ for two reasons. Counting: `Tick` rewrites every
packet, and the number of packets, so of buffers, stays the same only if no two become
equal. Refinement: an acknowledgement removes a packet, and must remove exactly its
identifier from `outstanding`. A finite list is needed because `Cardinality` says
nothing of others. `SubInv` is `SubscriptionManager`, the right type, and no entries
without a session; the lemmas `WithoutFacts`, `RemoveKeepsSubInv` and
`StoreKeepsSubInv` state what freeing and storing entries does to their number. There
is one lemma per kind of step (`CallKeepsInv`, `ReceiveKeepsInv`, `PeriodicKeepsInv`,
`TickKeepsInv`) and one per kind for the refinement (`CallRefines`, ...), where a call
maps to `Open`, `Request`, `Lost` or `Quiet`, a received packet to `Established`,
`Rejected`, `Finish`, `Lost` or `Quiet`, and the timeouts to `Finish` or `Lost`.

**MqttAgentProofs**, from `AgentAssumption` (the numbers are naturals, the queue and the
identifiers are not empty, `NoTask` is no task), for any tasks, connections, slots and
identifiers:

- `AgentTypeCorrect`, `AgentRepliesMatch`, `AgentSlotsMatchLibrary` and
  `AgentSocketMatchesSession`, whoever else notifies the tasks;
- `AgentReplyAccounting`, under the hypothesis `~Strangers` that nobody else does. It is
  false without: a reply that finds a notification pending is dropped.

The invariant `AgentInv` has one part per place where a reply can be on its way:
`QueueInv` (a command in the queue is the caller's own and is there once), `SlotInv` (a
slot is that of a waiting task which has no command in the queue and no other slot) and
`NotifyInv` (who has its answer is in neither). They make the three places exclusive,
which is what "exactly one" needs, and rest on `CallInv`: calls under way have different
identifiers, as assumed [below](#what-the-models-assume). `SessionInv` ties slots to
the session and `ConnectInv` says who may connect: no socket from the moment the creator
knows that the connection is closed until the MQTT task takes its command. `OwedInv` adds
that a waiting task is in at least one of the places.

**ShadowClientProofs**, from `ShadowAssumption`, for any tasks, Things, catalog and number of
calls: `ShadowOperationDataAlive`, `ShadowTakeNeverFails`, `ShadowUpdateReportsOwnAnswer`,
`ShadowBuffersReachCaller` and the action property `ShadowCleanupKeepsNotify`. `ShadowInv`
follows the operation mutex: only its holder is past the lock, and `pxOperationData` is its
data (`MutexInv`); the semaphore is only taken while the holder has a request under way
(`SemaphoreInv`), so the next operation finds it. What a callback left is tied to the
semaphore: when it is 1 during the wait, the result is that of the request's own token
(`AnswerInv`) and a buffer was taken only together with success (`BufferInv`).

**FirmwareProofs**, for the parts of Firmware:

- `ConsoleStringsWhole`: `ConsoleInv` derives the data register, the interrupt and the
  semaphore from the statement where the holder of the mutex is;
- `DemoNotifiedOnce`: by `DemoInv` a waiting task is in exactly one of the queue, the hands
  of the update task, and its notification;
- `ClockCalendarFollows` and `ClockCalendarExists`, from `ClockAssumption`: the dates the
  servers send exist. The lemmas about `OSUpdateCalendar` show for every date that exists
  that the next one does and is one second later, by the definition of day numbers in
  Clock. `CalendarInv` keeps which word of `SetCalendar` has been copied.

**ServicesProofs**, for the parts of Services:

- `SocketCallsOnLiveObjects`, `SocketSocketsAccounted` and the action property
  `SocketCloseReleases`, for any connections and sockets. `SocketInv` says of each
  connection what the agent's and the layers' flags imply of its blocks (`Consistent`), and
  that an open lwIP socket is known to its connection. What is invariant is
  `SocketInv \/ UnclosedInv`: the latter says of the state in which `SOCKETS_Socket` found no
  memory that one socket is open without a handle and that every other handle still
  reaches its socket; no step follows it. So
  `SocketCallsOnLiveObjects` says that nothing is used after it was freed or closed, not that
  the set up never accesses what it did not get, and `SocketSocketsAccounted` has the
  one socket as its exception;
- `MutexReadyListsExact` and `MutexPriorityRestored`, for any finite set of mutexes and
  priorities below `configMAX_PRIORITIES` (`MutexAssumption`). `MutexInv` says that the ready
  lists are those of the tasks that neither sleep nor wait, under their current
  priorities, that a task waits in one list once, for the mutex of its call, and
  that `uxMutexesHeld` counts the mutexes held: a priority is restored when it reaches 0;
- `MutexOneMutexExact`, from the same assumption, for tasks that use one mutex. Neither half
  of InheritanceExact is inductive. `vTaskPriorityDisinheritAfterTimeout` resets the bit of the
  new priority, not of the list that the holder leaves; `OneInv` shows why that does no
  harm: what the holder is lent is the priority of a task that lends it and still has to take
  it back (`Lends`), and after its timeout that task is ready, in the same list. And while
  the mutex is free (`FreeExact`) some ready task that is to try for it is as urgent as all
  that wait (`Bids`), so that whoever the scheduler picks, and so whoever takes it, is too:
  its new holder needs nothing lent. The event list stays in order because who waits holds
  no mutex and keeps its own priority;
- `HeapHeapExact`, from `HeapAssumption` (the header is a multiple of the alignment, the heap
  has room for four headers and is smaller than the mark in a size), for any number of
  blocks. `HeapInv` says `Whole` of the heap once there is one. `Laid` is the tiling, with the
  successor of a block stated without a minimum (`Follows`) and with sizes that are
  aligned, which HeapExact does not say and a split needs; `ListOf` is the order of
  the list, also while blocks in it touch (`Touching`). The walks along the list
  (`Iterator`, `FirstFit`) are the equations of recursive functions: `WalkExists`
  shows that one satisfies them, by giving it as the next block at which the walk stops, and `WalkFacts` what
  any such function returns, from the largest address for which it would not.
  `prvInsertBlockIntoFreeList` is then split into linking a block and at most two joins
  (`InsertSteps`), and taking a block into unlinking it and cutting it in two (`TakenSteps`), each of
  which keeps `Laid` and `ListOf`; a join keeps the set of free bytes, so the counter is its
  size. `WantedFacts` shows that the rounded size does not wrap for a request below the mark.

**KernelTimeProofs**, from `TimeAssumption`, for any tasks, width of the tick count, waits and
number of pended ticks: `TimeDelaysExact`. `TimeInv` consists of the type, `PlacesInv` (who can be in which
list where), `DueInv` (what is due to a task that is in no list) and `TimesExact`. The latter says
that a task in a delayed list has the wake time at which its `due` becomes 0 and is in the list for
overflows exactly if the tick count comes round before (`ListsExact`), with
`xNextTaskUnblockTime` not above any wake time of the current list; and that the record
of `vTaskInternalSetTimeOutState` tells the ticks since the wait began (`RecordsExact`),
which is what `xTaskCheckForTimeOut` computes from. DelaysExact alone is silent on where
the tasks are, so a tick could move one past its time. `OneTick` shows `TimesExact` after one
`xTaskIncrementTick`, and `ManyTicks` after as many as were pended, by the least number for
which it would fail.

**KernelQueueProofs**, from `QueueAssumption` (the tasks are finitely many, priorities are
naturals, the length is not 0), for any tasks, priorities, items and length:

- `QueueImplementsBounded`: `Spec => QueueSpec`. `RingInv` says that the write position is
  behind the last item; lemmas on positions (`Slot`, `After`, `Before`) turn each copy into an
  append, a prepend or a removal of `Contents`;
- `QueueNoLostWakeup`, from `QueueInv`. NoLostWakeup alone is not inductive, since it is
  silent while the queue is locked and of a task that is about to enter a list. `Covered`
  extends it: if a task waits *or is at the point of entering the list*, the items are at
  most the awake receivers *plus what interrupts have counted in the lock* (`Pended`).
  Each wakeup adds to the awake what it takes from the count (`ReceiversWoken`, `SendersWoken`),
  and each successful attempt removes one awake task together with one item or place.
  `SchedulerInv`, `LocksInv`, `ListsInv` and `PlacesInv` say that one task at a time is inside
  a suspension, when the locks are held, and that who is in a list is blocked in a call of
  its kind.

In the theorems of Firmware and Services a lemma shows for each part that the steps of the other
parts leave its invariant alone.

Only model-checked:

- the liveness properties (`EveryOperationReported`, `EveryCallReturns`, `LoopsEnd`,
  `EveryUpdateNotified`, `AsksAgain`, `EveryStringPrinted`): the prover handles neither fairness
  nor ENABLED;
- what the loops over strings and bytes compute (`AcceptedIsValid`, `MatchIsExact`,
  `RoundTrip`), which needs induction over data.

## Where code and documents disagree

1. **Overlapping requests for one filter** (`context_granted`). Entries are found by
   their filter alone, so the failure, refusal or timeout of one request, or an
   UNSUBACK, removes the entry of a later SUBSCRIBE; once that is granted there is no
   callback for it, which `aws_mqtt_lib.h:544` promises.
2. **A semaphore given twice** (`shadow_give`). While an operation's data is set, every
   reply to it gives `xCallbackSemaphore`; so does the operation itself when its wait is
   over. A reply that comes between the end of the wait and the end of the operation, or
   twice, therefore finds the binary semaphore given, `xSemaphoreGive` fails, and the
   assertion at `aws_shadow.c:1243` or `:1045` stops the firmware. The semaphore is in
   order for the next operation all the same (`TakeNeverFails`).

Behaviour that the models make visible and that a reader of the code should know:

- `prvSendData` (`aws_mqtt_lib.c:1117`) sets the clock of the keep alive after every
  packet, also while a PINGRESP is awaited: an application that keeps publishing never
  sees the ping timeout. `PingNotGivenUpEarly` checks the other direction.
- The parent level of a final `#` is matched by comparing characters, so `+/#` does not
  match `a`, nor `a/#` the topic `a/`; `MatchIsExact` shows that these are the only two
  cases.
- `prvNotifyRequestingTask` does not overwrite a pending notification and ignores the
  result: a notification from other code can displace the reply, and its caller waits for
  ever. Nothing in this firmware notifies a task that uses the agent, and `agent` assumes
  that (`Strangers = FALSE`).
- What `TLS_Connect` allocates before its handshake is lost when it fails there;
  `CloseReleases` names exactly these blocks.
- A reply to a Get or a Delete is not checked against a token, so one caused by another
  client is taken for its own. The subscribed flags are kept per operation, not per
  Thing.
- Mutexes taken with a time limit by tasks of different priorities. (a) When a waiter times
  out, `vTaskPriorityDisinheritAfterTimeout` moves the holder to a lower ready list and
  means to reset the bit of the list it left, but `tasks.c:4106` names the priority it has
  already changed. The bit stays set for an empty list if the waiter's own priority was
  raised through a second mutex in between, and the assertion at `tasks.c:192` fails once
  nothing more urgent is ready: `InheritanceExact` does not hold of `mutexes`, only of
  `one mutex`. (b) A take that timed out and then saw the mutex free goes round its loop
  with a time of 0 and, if another task is faster, meets the assertion at `queue.c:1473`:
  the place "assertion" of KernelMutex is reachable. (c) `queue.c:810-825` looks at what
  `xTaskPriorityDisinherit` returns only if nobody waits for the mutex, so a giver that has
  fallen below a ready task can go on running. The firmware has one mutex with a time
  limit, the shadow client's `xOperationMutex` (`aws_shadow.c:1168`), with a single user in
  the demo; further users would meet (b) and (c).
- `lwip_recv` returns 0 both for a timeout and for an orderly close (`sockets.c:803`), so
  the MQTT task does not see that the broker closed the connection.
- The rest of a message that never comes holds its buffer (`aws_mqtt_lib.c:3209`): the code
  has no timeout for it.
- `vPortCalloc` does not look at the overflow of its product; the model has it, and
  `HeapExact` is about the size that `pvPortMalloc` is asked for.
- `SOCKETS_GetHostByName` uses the result of a failed lookup. `SOCKETS_Socket` returns NULL
  when it fails, where `aws_secure_sockets.h:225` says `SOCKETS_INVALID_SOCKET`, and the agent
  does not recognise the NULL. Under its comment "Need to close socket."
  (`aws_secure_sockets.c:445`) it does not close the lwIP socket, as described for
  SecureSocket above.
- A CONNECT that the broker refuses is reported to the callback of the library twice. The
  agent is written for that; another user of the library would have to be too.
- The comment at `aws_shadow_lightbulb_on_off.c:394` says that putting the initial report in
  the queue never fails because the queue is empty. The queue is not: tasks created before
  and deltas from the broker use it. If it stays full for the time the call waits, the
  assertion stops the system. The model reaches that (`SendTimesOut`), and
  `EveryUpdateNotified` admits it.

## What the models assume

- An identifier is not used again while it is in flight. The agent's counter would
  have to pass 65534 commands during the timeout of one.
- Users follow `aws_mqtt_agent.h`: the task that created a connection connects it,
  only when it knows that it is not connected, and disconnects before it deletes it.
  Without that `prvSetupConnection` asserts; the models do not explore misuse.
- Only the MQTT task asks the pool for buffers; all tasks return them.
- A library call that fails before it changes anything is no step. Those that fail
  after a change (`MQTT_SubscribeFails`, the connect of the agent) are modelled.
- An event callback runs within the step that causes it, as the call in the code does.
- Bytes inside packets, names, certificates and user data are left out. The broker
  chooses packet types, lengths (fits or not), identifiers and verdicts freely.
- A dropped message ends with some later byte: that as many bytes are dropped as its length
  says is not checked.
- A bulb task waits for its notification as long as it takes. In the code the wait ends
  after 100 s with a failed assertion (`aws_shadow_lightbulb_on_off.c:396` and `:415`). How
  long the updates in front of it take is a matter of the network, and no count of
  steps stands for it, so what is shown is that exactly one notification is on its way
  and that it comes, not that it comes in time.
- Two registrations of shadow callbacks do not run at the same time (nothing in the code
  guards the catalog), and `SHADOW_ClientDelete` is called when nobody uses the client.
- `SetCalendar` copies `OS_RTC`, two words, word by word in either order.
- Nobody prints between the creation of the mutex and the configuration of the UART,
  both early in `Terminal`; the first string of another task comes after a delay.
- SNTP packets that nobody asked for (broadcasts) do not arrive: the client's socket is
  not bound to the SNTP port.

## Not modelled

The repository has some 268,000 lines of C, nearly all of it third-party: mbedTLS, lwIP,
FreeRTOS, FatFs, the Tiva driver library and jsmn. Of these the kernel's queues, mutexes,
timeouts and heap are modelled, since every other part waits, locks and allocates through
them. What the firmware uses of the others is in the modules above as far as it matters
for their properties (timers, sockets, blocks); the libraries themselves are not the
subject of this project, so the share of all lines that the modules stand for stays
small.

Of the kernel these parts are left out: creation and deletion of tasks, software timers,
event groups, stream buffers, queue sets, recursive mutexes, resetting and overwriting a
queue, changing a task's priority (the firmware does not use them or only at its start),
and the port's assembly. Task notifications are modelled where they are used.

Of the firmware's own code these parts are left out:

- `aws_shadow_json.c`: a search through tokens, without state;
- the PKCS #11 functions around keys and signatures, and the provisioning of keys: each is
  a sequence of calls of mbedTLS and FatFs whose results the models would have to
  choose freely;
- the keyboard, LED and statistics tasks of `tarefas.c`, and `main.c`: loops around
  driver calls, and the creation of the tasks;
- the up time of `OSTime.c`: counters with one writer.

## Plan

Done: models of the parts above and the proofs of the previous section: all safety
invariants of BufferPool, MqttContext, MqttAgent, ShadowClient, LightBulb, Clock, Console,
SecureSocket, KernelQueue, KernelTime, KernelMutex and Heap, and the two refinements.

Further work: of the system, what the previous section lists as left out of the kernel
would come next if the firmware began to use it.

-------------------------- MODULE KernelTimeProofs ---------------------------
(***************************************************************************)
(* Delays and waits are over when they should be, for any number of tasks,  *)
(* any width of TickType_t and of the count of its overflows.               *)
(***************************************************************************)
EXTENDS KernelTime, WellFoundedInduction, TLAPS

Ticks == 0 .. TickMod - 1
Lists == UNION {[S -> Ticks] : S \in SUBSET Tasks}

Kernels == [xTickCount : Ticks, xNumOfOverflows : 0 .. OverflowMod - 1,
            pxDelayedTaskList : Lists, pxOverflowDelayedTaskList : Lists,
            xNextTaskUnblockTime : Ticks]

TimeOuts == [xOverflowCount : 0 .. OverflowMod - 1, xTimeOnEntering : Ticks]

(* d[t] is the number of ticks after which the time of t is over, counted   *)
(* from the tick count of k.  A task is in the list that says so, and none  *)
(* in the current list has its time before xNextTaskUnblockTime.            *)
ListsExact(k, d) ==
    /\ k \in Kernels
    /\ \A t \in DOMAIN k.pxDelayedTaskList :
          /\ k.pxDelayedTaskList[t] = k.xTickCount + d[t] /\ d[t] > 0
          /\ k.xNextTaskUnblockTime <= k.pxDelayedTaskList[t]
    /\ \A t \in DOMAIN k.pxOverflowDelayedTaskList :
          /\ k.pxOverflowDelayedTaskList[t] = k.xTickCount + d[t] - TickMod
          /\ k.pxOverflowDelayedTaskList[t] < k.xTickCount

(* Where the tick count was e ticks ago, and how often it had come round. *)
Since(k, s, e) ==
    \/ s.xTimeOnEntering = k.xTickCount - e /\ s.xOverflowCount = k.xNumOfOverflows
    \/ /\ s.xTimeOnEntering = k.xTickCount - e + TickMod
       /\ (s.xOverflowCount + 1) % OverflowMod = k.xNumOfOverflows

(* The wake time of a task that calls vTaskDelayUntil. *)
Reaches(k, wake, d) ==
    wake \in {k.xTickCount + d - TickMod, k.xTickCount + d, k.xTickCount + d + TickMod}

Waits(t) == at[t] \in {"check", "waiting"} /\ xTicksToWait[t] # portMAX_DELAY

(* What is remembered of the time when a delay or a wait began.             *)
RecordsExact(k, d) ==
    /\ \A t \in Tasks : Waits(t) => /\ d[t] <= xTicksToWait[t]
                                    /\ Since(k, xTimeOut[t], xTicksToWait[t] - d[t])
    /\ \A t \in Periodic : Reaches(k, pxPreviousWakeTime[t], d[t])

TimesExact(k, d) == ListsExact(k, d) /\ RecordsExact(k, d)

TypeInv ==
    /\ xSuspendedTaskList \subseteq Tasks
    /\ uxPendedTicks \in 0 .. MaxPended
    /\ suspendedBy \in Tasks \cup {NoTask}
    /\ at \in [Tasks -> Places]
    /\ xTicksToWait \in [Tasks -> 0 .. MaxWait \cup {portMAX_DELAY}]
    /\ xTimeOut \in [Tasks -> TimeOuts]
    /\ pxPreviousWakeTime \in [Tasks -> Ticks]
    /\ due \in [Tasks -> Int]

(* Which lists a task can be in, and what it is doing there. *)
PlacesInv ==
    /\ \A t \in Delayed(kernel) : at[t] = "delaying" \/ (at[t] = "waiting" /\ Waits(t))
    /\ \A t \in xSuspendedTaskList : at[t] = "waiting" /\ ~ Waits(t)
    /\ \A t \in eventList \cup xPendingReadyList : at[t] = "waiting" /\ Blocked(t)
    /\ xPendingReadyList \cap eventList = {}
    /\ suspendedBy = NoTask => uxPendedTicks = 0 /\ xPendingReadyList = {}
    /\ \A t \in Periodic : at[t] \in {"elsewhere", "delaying"}

DueInv ==
    /\ \A t \in Tasks : due[t] - uxPendedTicks >= -MaxLate
    /\ \A t \in Tasks : at[t] = "elsewhere" => due[t] <= 0 /\ (t \notin Periodic => due[t] = 0)
    /\ \A t \in Tasks : at[t] = "timedOut" => due[t] <= 0
    /\ \A t \in Tasks : at[t] = "delaying" /\ ~ Blocked(t) => due[t] <= 0

TimeInv ==
    /\ TypeInv
    /\ PlacesInv
    /\ DueInv
    /\ TimesExact(kernel, due)

-----------------------------------------------------------------------------
(* Numbers. *)

LEMMA Numbers ==
  /\ TickMod \in Nat \ {0} /\ MaxWait \in Nat \ {0} /\ MaxLate \in Nat \ {0}
  /\ MaxPended \in Nat /\ OverflowMod \in Nat \ {0, 1}
  /\ MaxWait + MaxLate < TickMod /\ NoTask \notin Tasks /\ Periodic \subseteq Tasks
  /\ portMAX_DELAY = TickMod - 1 /\ portMAX_DELAY \in Ticks /\ portMAX_DELAY > MaxWait
<1>1. /\ TickMod \in Nat \ {0} /\ MaxWait \in Nat \ {0} /\ MaxLate \in Nat \ {0}
      /\ MaxPended \in Nat /\ MaxWait + MaxLate < TickMod
  BY TimeAssumption
<1>2. TickMod - 1 \in 0 .. TickMod - 1 /\ TickMod - 1 > MaxWait
  BY <1>1
<1>3. QED
  BY <1>1, <1>2, TimeAssumption DEF portMAX_DELAY, Ticks

LEMMA ModuloFacts ==
  ASSUME NEW m \in Nat \ {0}, NEW x \in Int
  PROVE  /\ 0 <= x /\ x < m => x % m = x
         /\ m <= x /\ x < m + m => x % m = x - m
         /\ -m <= x /\ x < 0 => x % m = x + m
         /\ x % m \in 0 .. m - 1
<1>1. 0 <= x /\ x < m => x % m = x
  OBVIOUS
<1>2. m <= x /\ x < m + m => x % m = x - m
  OBVIOUS
<1>3. -m <= x /\ x < 0 => x % m = x + m
  OBVIOUS
<1>4. x % m \in 0 .. m - 1
  OBVIOUS
<1>5. QED
  BY <1>1, <1>2, <1>3, <1>4

(* The least element of a set of naturals. *)
LEMMA MinFacts ==
  ASSUME NEW S \in SUBSET Nat, S # {}
  PROVE  Min(S) \in S /\ \A y \in S : Min(S) <= y
<1> DEFINE R == {ss \in Nat \X Nat : ss[1] < ss[2]}
<1>1. IsWellFoundedOn(R, Nat)
  BY NatLessThanWellFounded DEF OpToRel
<1> HIDE DEF R
<1>2. PICK z \in S : \A y \in S : ~ (<<y, z>> \in R)
  BY <1>1, WFMin
<1>3. \A y \in S : z <= y
  <2>1. ASSUME NEW y \in S PROVE z <= y
    <3>1. y \in Nat /\ z \in Nat
      OBVIOUS
    <3>2. <<y, z>> \in Nat \X Nat /\ ~ (<<y, z>> \in R)
      BY <1>2, <3>1
    <3>3. ~ (y < z)
      BY <3>2 DEF R
    <3>4. QED
      BY <3>1, <3>3
  <2>2. QED
    BY <2>1
<1>4. QED
  BY <1>3 DEF Min

-----------------------------------------------------------------------------
(* Lists. *)

LEMMA ListFacts ==
  ASSUME NEW list \in Lists
  PROVE  /\ DOMAIN list \in SUBSET Tasks /\ list = [t \in DOMAIN list |-> list[t]]
         /\ \A t \in DOMAIN list : list[t] \in Ticks
<1>1. PICK S \in SUBSET Tasks : list \in [S -> Ticks]
  BY DEF Lists
<1>2. QED
  BY <1>1

LEMMA NextFacts ==
  ASSUME NEW list \in Lists
  PROVE  /\ NextUnblockTime(list) \in Ticks
         /\ \A t \in DOMAIN list : NextUnblockTime(list) <= list[t]
<1>1. CASE DOMAIN list = {}
  BY <1>1, Numbers DEF NextUnblockTime
<1>2. CASE DOMAIN list # {}
  <2>1. Range(list) = {list[t] : t \in DOMAIN list}
    BY DEF Range
  <2>2. Range(list) \in SUBSET Ticks /\ Range(list) # {}
    BY <1>2, <2>1, ListFacts
  <2>3. Ticks \subseteq Nat
    BY Numbers DEF Ticks
  <2>4. Min(Range(list)) \in Range(list) /\ \A y \in Range(list) : Min(Range(list)) <= y
    BY <2>2, <2>3, MinFacts
  <2>5. NextUnblockTime(list) = Min(Range(list))
    BY <1>2 DEF NextUnblockTime
  <2>6. QED
    BY <2>1, <2>2, <2>4, <2>5
<1>3. QED
  BY <1>1, <1>2

LEMMA WithoutFacts ==
  ASSUME NEW list \in Lists, NEW S
  PROVE  /\ Without(list, S) \in Lists /\ DOMAIN Without(list, S) = DOMAIN list \ S
         /\ \A t \in DOMAIN list \ S : Without(list, S)[t] = list[t]
<1>1. Without(list, S) = [t \in DOMAIN list \ S |-> list[t]]
  BY DEF Without, Restrict
<1>2. DOMAIN list \ S \in SUBSET Tasks /\ \A t \in DOMAIN list \ S : list[t] \in Ticks
  BY ListFacts
<1>3. Without(list, S) \in [DOMAIN list \ S -> Ticks]
  BY <1>1, <1>2
<1>4. QED
  BY <1>1, <1>2, <1>3 DEF Lists

LEMMA InsertFacts ==
  ASSUME NEW list \in Lists, NEW t \in Tasks, NEW wake \in Ticks
  PROVE  /\ vListInsert(list, t, wake) \in Lists
         /\ DOMAIN vListInsert(list, t, wake) = DOMAIN list \cup {t}
         /\ vListInsert(list, t, wake)[t] = wake
         /\ \A u \in DOMAIN list \ {t} : vListInsert(list, t, wake)[u] = list[u]
<1>1. DOMAIN list \cup {t} \in SUBSET Tasks /\ \A u \in DOMAIN list : list[u] \in Ticks
  BY ListFacts
<1>2. vListInsert(list, t, wake) \in [DOMAIN list \cup {t} -> Ticks]
  BY <1>1 DEF vListInsert
<1>3. vListInsert(list, t, wake) \in Lists
  BY <1>1, <1>2 DEF Lists
<1>4. QED
  BY <1>3 DEF vListInsert

LEMMA TickModulo ==
  \A x \in Int : /\ 0 <= x /\ x < TickMod => x % TickMod = x
                 /\ TickMod <= x /\ x < TickMod + TickMod => x % TickMod = x - TickMod
                 /\ -TickMod <= x /\ x < 0 => x % TickMod = x + TickMod
                 /\ x % TickMod \in Ticks
<1>1. TickMod \in Nat \ {0}
  BY Numbers
<1>2. QED
  BY <1>1, ModuloFacts DEF Ticks

-----------------------------------------------------------------------------
(* One tick. *)

LEMMA KernelFacts ==
  ASSUME NEW k \in Kernels
  PROVE  /\ k.xTickCount \in Ticks /\ k.xNumOfOverflows \in 0 .. OverflowMod - 1
         /\ k.pxDelayedTaskList \in Lists /\ k.pxOverflowDelayedTaskList \in Lists
         /\ k.xNextTaskUnblockTime \in Ticks
BY DEF Kernels

(* The tick count goes on, and the lists change places when it comes round. *)
Advanced(k) ==
    LET counted == [k EXCEPT !.xTickCount = (k.xTickCount + 1) % TickMod]
    IN  IF (k.xTickCount + 1) % TickMod = 0 THEN SwitchDelayedLists(counted) ELSE counted

LEMMA IncrementFacts ==
  ASSUME NEW k
  PROVE  LET s == Advanced(k)
             tick == (k.xTickCount + 1) % TickMod
             rest == Without(s.pxDelayedTaskList,
                             {t \in DOMAIN s.pxDelayedTaskList : s.pxDelayedTaskList[t] <= tick})
         IN  xTaskIncrementTick(k) = IF tick >= s.xNextTaskUnblockTime
                                     THEN [s EXCEPT !.pxDelayedTaskList = rest,
                                                    !.xNextTaskUnblockTime = NextUnblockTime(rest)]
                                     ELSE s
BY DEF xTaskIncrementTick, Advanced

(* Then a task of the current list may have its time at once. *)
LEMMA AdvancedFacts ==
  ASSUME NEW k, NEW d \in [Tasks -> Int], NEW e \in [Tasks -> Int], ListsExact(k, d),
         \A t \in Delayed(k) : e[t] = d[t] - 1
  PROVE  /\ Advanced(k) \in Kernels
         /\ Advanced(k).xTickCount = (k.xTickCount + 1) % TickMod
         /\ \/ /\ k.xTickCount + 1 < TickMod
               /\ Advanced(k).xTickCount = k.xTickCount + 1
               /\ Advanced(k).xNumOfOverflows = k.xNumOfOverflows
            \/ /\ k.xTickCount + 1 = TickMod
               /\ Advanced(k).xTickCount = 0
               /\ Advanced(k).xNumOfOverflows = (k.xNumOfOverflows + 1) % OverflowMod
         /\ Delayed(Advanced(k)) = Delayed(k)
         /\ \A t \in DOMAIN Advanced(k).pxDelayedTaskList :
               /\ Advanced(k).pxDelayedTaskList[t] = Advanced(k).xTickCount + e[t]
               /\ Advanced(k).xNextTaskUnblockTime <= Advanced(k).pxDelayedTaskList[t]
         /\ \A t \in DOMAIN Advanced(k).pxOverflowDelayedTaskList :
               /\ Advanced(k).pxOverflowDelayedTaskList[t] = Advanced(k).xTickCount + e[t] - TickMod
               /\ Advanced(k).pxOverflowDelayedTaskList[t] < Advanced(k).xTickCount
<1> DEFINE s == Advanced(k)
           tick == (k.xTickCount + 1) % TickMod
           counted == [k EXCEPT !.xTickCount = tick]
           c == k.xTickCount
           now == k.pxDelayedTaskList
           later == k.pxOverflowDelayedTaskList
<1>1. /\ k \in Kernels /\ c \in Ticks /\ k.xNumOfOverflows \in 0 .. OverflowMod - 1
      /\ now \in Lists /\ later \in Lists /\ k.xNextTaskUnblockTime \in Ticks
  BY KernelFacts DEF ListsExact
<1>2. /\ \A t \in DOMAIN now : /\ now[t] = c + d[t] /\ d[t] > 0 /\ k.xNextTaskUnblockTime <= now[t]
                               /\ now[t] \in Ticks /\ e[t] = d[t] - 1 /\ d[t] \in Int
      /\ \A t \in DOMAIN later : /\ later[t] = c + d[t] - TickMod /\ later[t] < c
                                 /\ later[t] \in Ticks /\ e[t] = d[t] - 1 /\ d[t] \in Int
  BY <1>1, ListFacts DEF ListsExact, Delayed
<1>3. TickMod \in Nat \ {0} /\ OverflowMod \in Nat \ {0, 1}
  BY Numbers
<1>4. c \in Int /\ 0 <= c /\ c < TickMod
  BY <1>1, <1>3 DEF Ticks
<1>5. counted = [xTickCount |-> tick, xNumOfOverflows |-> k.xNumOfOverflows,
                 pxDelayedTaskList |-> now, pxOverflowDelayedTaskList |-> later,
                 xNextTaskUnblockTime |-> k.xNextTaskUnblockTime]
  BY <1>1 DEF Kernels
<1>6. CASE c + 1 < TickMod
  <2>1. tick = c + 1 /\ tick # 0 /\ tick \in Ticks
    <3>1. c + 1 \in Int /\ 0 <= c + 1 /\ c + 1 # 0
      BY <1>4
    <3>2. (c + 1) % TickMod = c + 1 /\ (c + 1) % TickMod \in Ticks
      BY <1>6, <3>1, TickModulo
    <3>3. QED
      BY <3>1, <3>2
  <2>2. s = counted
    BY <2>1 DEF Advanced
  <2>3. s \in Kernels
    BY <1>1, <1>5, <2>1, <2>2 DEF Kernels
  <2>4. \A t \in DOMAIN now : now[t] = tick + e[t]
    BY <1>2, <1>4, <2>1
  <2>5. \A t \in DOMAIN later : later[t] = tick + e[t] - TickMod /\ later[t] < tick
    BY <1>2, <1>3, <1>4, <2>1 DEF Ticks
  <2>6. Delayed(s) = Delayed(k)
    BY <1>5, <2>2 DEF Delayed
  <2> HIDE DEF counted, tick, s
  <2>7. QED
    BY <1>2, <1>5, <1>6, <2>1, <2>2, <2>3, <2>4, <2>5, <2>6 DEF tick, s
<1>7. CASE c + 1 = TickMod
  <2>1. tick = 0 /\ tick \in Ticks
    <3>1. c + 1 \in Int /\ TickMod <= c + 1 /\ c + 1 < TickMod + TickMod /\ (c + 1) - TickMod = 0
      BY <1>3, <1>4, <1>7
    <3>2. (c + 1) % TickMod = (c + 1) - TickMod /\ (c + 1) % TickMod \in Ticks
      BY <3>1, TickModulo
    <3>3. QED
      BY <3>1, <3>2
  <2>2. s = [xTickCount |-> 0, xNumOfOverflows |-> (k.xNumOfOverflows + 1) % OverflowMod,
             pxDelayedTaskList |-> later, pxOverflowDelayedTaskList |-> now,
             xNextTaskUnblockTime |-> NextUnblockTime(later)]
    BY <1>5, <2>1 DEF Advanced, SwitchDelayedLists
  <2>3. (k.xNumOfOverflows + 1) % OverflowMod \in 0 .. OverflowMod - 1
    <3>1. k.xNumOfOverflows + 1 \in Int /\ OverflowMod \in Nat \ {0}
      BY <1>1, <1>3
    <3>2. QED
      BY <3>1, ModuloFacts
  <2>4. /\ NextUnblockTime(later) \in Ticks
        /\ \A t \in DOMAIN later : NextUnblockTime(later) <= later[t]
    BY <1>1, NextFacts
  <2>5. s \in Kernels
    BY <1>1, <2>1, <2>2, <2>3, <2>4 DEF Kernels
  <2>6. DOMAIN now = {}
    <3>1. ASSUME NEW t \in DOMAIN now PROVE FALSE
      BY <1>2, <1>3, <1>4, <1>7 DEF Ticks
    <3>2. QED
      BY <3>1
  <2>7. \A t \in DOMAIN later : later[t] = 0 + e[t]
    BY <1>2, <1>3, <1>4, <1>7
  <2>8. Delayed(s) = Delayed(k)
    BY <2>2 DEF Delayed
  <2> HIDE DEF counted, tick, s
  <2>9. QED
    BY <1>7, <2>1, <2>2, <2>4, <2>5, <2>6, <2>7, <2>8 DEF tick, s
<1>8. QED
  BY <1>3, <1>4, <1>6, <1>7

(* How the tick count of a kernel goes on. *)
NextCount(k, next) ==
    \/ /\ k.xTickCount + 1 < TickMod
       /\ next.xTickCount = k.xTickCount + 1
       /\ next.xNumOfOverflows = k.xNumOfOverflows
    \/ /\ k.xTickCount + 1 = TickMod
       /\ next.xTickCount = 0
       /\ next.xNumOfOverflows = (k.xNumOfOverflows + 1) % OverflowMod

LEMMA NewCurrentList ==
  ASSUME NEW k \in Kernels, NEW l, NEW n
  PROVE  [k EXCEPT !.pxDelayedTaskList = l, !.xNextTaskUnblockTime = n]
            = [xTickCount |-> k.xTickCount, xNumOfOverflows |-> k.xNumOfOverflows,
               pxDelayedTaskList |-> l, pxOverflowDelayedTaskList |-> k.pxOverflowDelayedTaskList,
               xNextTaskUnblockTime |-> n]
<1> DEFINE new == [k EXCEPT !.pxDelayedTaskList = l]
<1>1. new = [xTickCount |-> k.xTickCount, xNumOfOverflows |-> k.xNumOfOverflows,
             pxDelayedTaskList |-> l, pxOverflowDelayedTaskList |-> k.pxOverflowDelayedTaskList,
             xNextTaskUnblockTime |-> k.xNextTaskUnblockTime]
  BY DEF Kernels
<1>2. [k EXCEPT !.pxDelayedTaskList = l, !.xNextTaskUnblockTime = n]
         = [new EXCEPT !.xNextTaskUnblockTime = n]
  BY DEF Kernels
<1> HIDE DEF new
<1>3. QED
  BY <1>1, <1>2

(* Who leaves the lists has its time. *)
LEMMA IncrementLists ==
  ASSUME NEW k, NEW d \in [Tasks -> Int], NEW e \in [Tasks -> Int], ListsExact(k, d),
         \A t \in Delayed(k) : e[t] = d[t] - 1
  PROVE  /\ ListsExact(xTaskIncrementTick(k), e)
         /\ NextCount(k, xTaskIncrementTick(k))
         /\ Delayed(xTaskIncrementTick(k)) \subseteq Delayed(k)
         /\ \A t \in Delayed(k) \ Delayed(xTaskIncrementTick(k)) : e[t] <= 0
<1> DEFINE s == Advanced(k)
           tick == (k.xTickCount + 1) % TickMod
           now == s.pxDelayedTaskList
           over == {t \in DOMAIN now : now[t] <= tick}
           rest == Without(now, over)
           next == [s EXCEPT !.pxDelayedTaskList = rest,
                             !.xNextTaskUnblockTime = NextUnblockTime(rest)]
<1>1. /\ s \in Kernels /\ s.xTickCount = tick /\ NextCount(k, s) /\ Delayed(s) = Delayed(k)
      /\ \A t \in DOMAIN now : now[t] = tick + e[t] /\ s.xNextTaskUnblockTime <= now[t]
      /\ \A t \in DOMAIN s.pxOverflowDelayedTaskList :
            /\ s.pxOverflowDelayedTaskList[t] = tick + e[t] - TickMod
            /\ s.pxOverflowDelayedTaskList[t] < tick
  BY AdvancedFacts DEF NextCount
<1>2. xTaskIncrementTick(k) = IF tick >= s.xNextTaskUnblockTime THEN next ELSE s
  BY IncrementFacts
<1>3. tick \in Int /\ now \in Lists /\ s.xNextTaskUnblockTime \in Int
  BY <1>1, KernelFacts, Numbers DEF Ticks
<1>4. \A t \in DOMAIN now : now[t] \in Int /\ e[t] \in Int
  <2>1. \A t \in DOMAIN now : t \in Tasks /\ now[t] \in Ticks
    BY <1>3, ListFacts
  <2>2. QED
    BY <2>1, Numbers DEF Ticks
<1> HIDE DEF s, tick
<1>5. CASE tick >= s.xNextTaskUnblockTime
  <2>1. /\ rest \in Lists /\ DOMAIN rest = DOMAIN now \ over
        /\ \A t \in DOMAIN now \ over : rest[t] = now[t]
    BY <1>3, WithoutFacts
  <2>2. NextUnblockTime(rest) \in Ticks /\ \A t \in DOMAIN rest : NextUnblockTime(rest) <= rest[t]
    BY <2>1, NextFacts
  <2>3. next = [xTickCount |-> tick, xNumOfOverflows |-> s.xNumOfOverflows,
                pxDelayedTaskList |-> rest, pxOverflowDelayedTaskList |-> s.pxOverflowDelayedTaskList,
                xNextTaskUnblockTime |-> NextUnblockTime(rest)]
    <3>1. \A l, n : [s EXCEPT !.pxDelayedTaskList = l, !.xNextTaskUnblockTime = n]
                       = [xTickCount |-> s.xTickCount, xNumOfOverflows |-> s.xNumOfOverflows,
                          pxDelayedTaskList |-> l,
                          pxOverflowDelayedTaskList |-> s.pxOverflowDelayedTaskList,
                          xNextTaskUnblockTime |-> n]
      BY <1>1, NewCurrentList
    <3>2. s.xTickCount = tick
      BY <1>1
    <3> HIDE DEF rest
    <3>3. QED
      BY <3>1, <3>2
  <2>4. \A t \in DOMAIN rest : rest[t] = tick + e[t] /\ e[t] > 0
    <3>1. ASSUME NEW t \in DOMAIN now, ~ (now[t] <= tick) PROVE e[t] > 0
      BY <1>1, <1>3, <1>4, <3>1
    <3>2. QED
      BY <1>1, <2>1, <3>1
  <2>5. \A t \in over : e[t] <= 0
    BY <1>1, <1>3, <1>4
  <2>6. next \in Kernels
    <3>1. /\ s.xTickCount \in Ticks /\ s.xNumOfOverflows \in 0 .. OverflowMod - 1
          /\ s.pxOverflowDelayedTaskList \in Lists
      BY <1>1, KernelFacts
    <3>2. QED
      BY <1>1, <2>1, <2>2, <2>3, <3>1 DEF Kernels
  <2>7. xTaskIncrementTick(k) = next
    BY <1>2, <1>5
  <2>8. NextCount(k, next)
    BY <1>1, <2>3 DEF NextCount
  <2>9. Delayed(next) \subseteq Delayed(k) /\ Delayed(k) \ Delayed(next) \subseteq over
    BY <1>1, <2>1, <2>3 DEF Delayed
  <2>10. ListsExact(next, e)
    <3>1. /\ next.xTickCount = tick /\ next.pxDelayedTaskList = rest
          /\ next.pxOverflowDelayedTaskList = s.pxOverflowDelayedTaskList
          /\ next.xNextTaskUnblockTime = NextUnblockTime(rest)
      BY <2>3
    <3> HIDE DEF next, rest
    <3>2. QED
      BY <1>1, <2>2, <2>4, <2>6, <3>1 DEF ListsExact
  <2> HIDE DEF next, over
  <2>11. QED
    BY <2>5, <2>7, <2>8, <2>9, <2>10
<1>6. CASE ~ (tick >= s.xNextTaskUnblockTime)
  <2>1. xTaskIncrementTick(k) = s
    BY <1>2, <1>6
  <2>2. \A t \in DOMAIN now : e[t] > 0
    BY <1>1, <1>3, <1>4, <1>6
  <2>3. ListsExact(s, e)
    BY <1>1, <2>2 DEF ListsExact
  <2>4. QED
    BY <1>1, <2>1, <2>3
<1>7. QED
  BY <1>5, <1>6

LEMMA SinceKept ==
  ASSUME NEW k \in Kernels, NEW next, NextCount(k, next), NEW s \in TimeOuts,
         NEW x \in Nat, x + 1 < TickMod, Since(k, s, x)
  PROVE  Since(next, s, x + 1)
<1>1. PICK c, entering, m \in Int :
         /\ c = k.xTickCount /\ entering = s.xTimeOnEntering /\ m = TickMod
         /\ 0 <= entering /\ entering < m /\ 0 <= c /\ c < m
  <2>1. k.xTickCount \in Ticks /\ s.xTimeOnEntering \in Ticks
    BY KernelFacts DEF TimeOuts
  <2>2. TickMod \in Int
    BY Numbers
  <2>3. QED
    BY <2>1, <2>2 DEF Ticks
<1>2. CASE /\ c + 1 < m /\ next.xTickCount = c + 1
           /\ next.xNumOfOverflows = k.xNumOfOverflows
  BY <1>1, <1>2 DEF Since
<1>3. CASE /\ c + 1 = m /\ next.xTickCount = 0
           /\ next.xNumOfOverflows = (k.xNumOfOverflows + 1) % OverflowMod
  <2>1. CASE entering = c - x /\ s.xOverflowCount = k.xNumOfOverflows
    <3>1. entering = 0 - (x + 1) + m
      BY <1>3, <2>1
    <3>2. QED
      BY <1>1, <1>3, <2>1, <3>1 DEF Since
  <2>2. ~ (entering = c - x + m)
    BY <1>1, <1>3
  <2>3. QED
    BY <1>1, <2>1, <2>2 DEF Since
<1>4. QED
  BY <1>1, <1>2, <1>3 DEF NextCount

LEMMA ReachesKept ==
  ASSUME NEW k \in Kernels, NEW next, NextCount(k, next), NEW wake \in Ticks,
         NEW x \in Int, x - 1 >= -MaxLate, Reaches(k, wake, x)
  PROVE  Reaches(next, wake, x - 1)
<1>1. PICK c, m, l \in Int :
         /\ c = k.xTickCount /\ m = TickMod /\ l = MaxLate /\ l < m
         /\ 0 <= c /\ c < m /\ 0 <= wake /\ wake < m /\ wake \in Int
  <2>1. k.xTickCount \in Ticks
    BY KernelFacts
  <2>2. TickMod \in Int /\ MaxLate \in Int /\ MaxLate < TickMod
    BY Numbers
  <2>3. QED
    BY <2>1, <2>2 DEF Ticks
<1>2. CASE c + 1 < m /\ next.xTickCount = c + 1
  BY <1>1, <1>2 DEF Reaches
<1>3. CASE c + 1 = m /\ next.xTickCount = 0
  <2>1. wake # c + x + m
    BY <1>1, <1>3
  <2>2. wake = c + x => wake = 0 + (x - 1) + m
    BY <1>1, <1>3
  <2>3. wake = c + x - m => wake = 0 + (x - 1)
    BY <1>1, <1>3
  <2>4. QED
    BY <1>1, <1>3, <2>1, <2>2, <2>3 DEF Reaches
<1>4. QED
  BY <1>1, <1>2, <1>3 DEF NextCount

(* The time of these tasks does not pass: they asked for nothing, or wait   *)
(* without a limit.                                                         *)
Exempt(t) == (at[t] = "elsewhere" /\ t \notin Periodic) \/ Forever(t)

LEMMA OneTick ==
  ASSUME TypeInv, \A t \in Periodic : ~ Exempt(t),
         NEW k, NEW d \in [Tasks -> Int], NEW e \in [Tasks -> Int], TimesExact(k, d),
         \A t \in Delayed(k) : ~ Exempt(t),
         \A t \in Tasks : ~ Exempt(t) => e[t] = d[t] - 1,
         \A t \in Tasks : e[t] >= -MaxLate
  PROVE  /\ TimesExact(xTaskIncrementTick(k), e)
         /\ Delayed(xTaskIncrementTick(k)) \subseteq Delayed(k)
         /\ \A t \in Delayed(k) \ Delayed(xTaskIncrementTick(k)) : e[t] <= 0
<1> DEFINE next == xTaskIncrementTick(k)
<1>1. k \in Kernels /\ ListsExact(k, d) /\ RecordsExact(k, d)
  BY DEF TimesExact, ListsExact
<1>2. Delayed(k) \subseteq Tasks
  BY <1>1, KernelFacts, ListFacts DEF Delayed
<1>3. \A t \in Delayed(k) : e[t] = d[t] - 1
  BY <1>2
<1>4. /\ ListsExact(next, e) /\ NextCount(k, next) /\ Delayed(next) \subseteq Delayed(k)
      /\ \A t \in Delayed(k) \ Delayed(next) : e[t] <= 0
  BY <1>1, <1>3, IncrementLists
<1> HIDE DEF next
<1>5. ASSUME NEW t \in Tasks, Waits(t)
      PROVE  e[t] <= xTicksToWait[t] /\ Since(next, xTimeOut[t], xTicksToWait[t] - e[t])
  <2>1. ~ Exempt(t)
    BY <1>5 DEF Exempt, Forever, Waits
  <2>2. PICK w, x, y \in Int : /\ w = xTicksToWait[t] /\ x = d[t] /\ y = e[t] /\ y = x - 1
                               /\ w <= MaxWait /\ y >= -MaxLate /\ x <= w
    <3>1. xTicksToWait[t] \in 0 .. MaxWait
      BY <1>5 DEF TypeInv, Waits
    <3>2. d[t] <= xTicksToWait[t]
      BY <1>1, <1>5 DEF RecordsExact
    <3>3. QED
      BY <2>1, <3>1, <3>2, Numbers
  <2>3. w - x \in Nat /\ (w - x) + 1 < TickMod /\ (w - x) + 1 = w - y
    BY <2>2, Numbers
  <2>4. Since(k, xTimeOut[t], w - x)
    BY <1>1, <1>5, <2>2 DEF RecordsExact
  <2>5. xTimeOut[t] \in TimeOuts
    BY DEF TypeInv
  <2>6. Since(next, xTimeOut[t], (w - x) + 1)
    BY <1>1, <1>4, <2>3, <2>4, <2>5, SinceKept
  <2>7. QED
    BY <2>2, <2>3, <2>6
<1>6. ASSUME NEW t \in Periodic PROVE Reaches(next, pxPreviousWakeTime[t], e[t])
  <2>1. t \in Tasks
    BY Numbers
  <2>2. e[t] = d[t] - 1 /\ d[t] - 1 >= -MaxLate /\ d[t] \in Int
    BY <2>1
  <2>3. Reaches(k, pxPreviousWakeTime[t], d[t])
    BY <1>1 DEF RecordsExact
  <2>4. pxPreviousWakeTime[t] \in Ticks
    BY <2>1 DEF TypeInv
  <2>5. Reaches(next, pxPreviousWakeTime[t], d[t] - 1)
    BY <1>1, <1>4, <2>2, <2>3, <2>4, ReachesKept
  <2>6. QED
    BY <2>2, <2>5
<1>7. RecordsExact(next, e)
  BY <1>5, <1>6 DEF RecordsExact
<1>8. QED
  BY <1>4, <1>7 DEF TimesExact, next

-----------------------------------------------------------------------------
(* The pended ticks. *)

(* A set of naturals that is closed under successor and has 0 is all.       *)
LEMMA NaturalsFrom0 ==
  ASSUME NEW S \in SUBSET Nat, 0 \in S, \A i \in S : i + 1 \in S
  PROVE  S = Nat
<1> DEFINE T == Nat \ S
<1>1. SUFFICES ASSUME T # {} PROVE FALSE
  OBVIOUS
<1>2. Min(T) \in T /\ \A y \in T : Min(T) <= y
  BY <1>1, MinFacts
<1> HIDE DEF T
<1>3. PICK i \in Nat : i \in T /\ \A y \in T : i <= y
  BY <1>2 DEF T
<1>4. i - 1 \in Nat /\ ~ (i <= i - 1) /\ i = (i - 1) + 1
  BY <1>3 DEF T
<1>5. i - 1 \in S
  BY <1>3, <1>4 DEF T
<1>6. QED
  BY <1>3, <1>4, <1>5 DEF T

(* The kernels that a run of xTaskIncrementTick passes. *)
IsRun(g, k, n) == g = [i \in 0 .. n |-> IF i = 0 THEN k ELSE xTaskIncrementTick(g[i - 1])]

LEMMA RunsExist ==
  ASSUME NEW k
  PROVE  \A n \in Nat : \E g : IsRun(g, k, n)
<1> DEFINE S == {n \in Nat : \E g : IsRun(g, k, n)}
<1>1. 0 \in S
  <2> DEFINE g == [i \in 0 .. 0 |-> k]
  <2>1. g = [i \in 0 .. 0 |-> IF i = 0 THEN k ELSE xTaskIncrementTick(g[i - 1])]
    <3>1. \A i \in 0 .. 0 : i = 0
      OBVIOUS
    <3>2. QED
      BY <3>1
  <2>2. IsRun(g, k, 0)
    BY <2>1 DEF IsRun
  <2>3. QED
    BY <2>2
<1>2. ASSUME NEW n \in S PROVE n + 1 \in S
  <2>1. PICK g : IsRun(g, k, n)
    OBVIOUS
  <2> DEFINE h == [i \in 0 .. n + 1 |-> IF i = n + 1 THEN xTaskIncrementTick(g[n]) ELSE g[i]]
             r == [i \in 0 .. n + 1 |-> IF i = 0 THEN k ELSE xTaskIncrementTick(h[i - 1])]
  <2>2. ASSUME NEW i \in 0 .. n + 1 PROVE h[i] = r[i]
    <3>1. CASE i = n + 1
      <4>1. n \in 0 .. n + 1 /\ n # n + 1 /\ i # 0 /\ i - 1 = n
        BY <3>1
      <4>2. h[i] = xTaskIncrementTick(g[n]) /\ h[n] = g[n]
        BY <3>1, <4>1
      <4>3. r[i] = xTaskIncrementTick(h[n])
        BY <4>1
      <4>4. QED
        BY <4>2, <4>3
    <3>2. CASE i # n + 1
      <4>1. i \in 0 .. n
        BY <3>2
      <4>2. h[i] = g[i] /\ g[i] = IF i = 0 THEN k ELSE xTaskIncrementTick(g[i - 1])
        BY <2>1, <3>2, <4>1 DEF IsRun
      <4>3. i # 0 => i - 1 \in 0 .. n + 1 /\ i - 1 # n + 1
        BY <4>1
      <4>4. i # 0 => h[i - 1] = g[i - 1]
        BY <4>3
      <4>5. QED
        BY <4>2, <4>4
    <3>3. QED
      BY <3>1, <3>2
  <2>3. h = r
    BY <2>2
  <2>4. IsRun(h, k, n + 1)
    BY <2>3 DEF IsRun
  <2>5. n + 1 \in Nat
    OBVIOUS
  <2>6. QED
    BY <2>4, <2>5
<1> HIDE DEF S
<1>3. S = Nat
  <2>1. S \in SUBSET Nat
    BY DEF S
  <2>2. QED
    BY <1>1, <1>2, <2>1, NaturalsFrom0
<1>4. QED
  BY <1>3 DEF S

LEMMA TickedFacts ==
  ASSUME NEW k, NEW n \in Nat
  PROVE  \E g : IsRun(g, k, n) /\ Ticked(k, n) = g[n]
<1> DEFINE run == CHOOSE g : IsRun(g, k, n)
<1>1. IsRun(run, k, n)
  BY RunsExist
<1>2. Ticked(k, n) = run[n]
  BY DEF Ticked, IsRun
<1>3. QED
  BY <1>1, <1>2

Later(n) == [t \in Tasks |-> IF Exempt(t) THEN due[t] ELSE due[t] - n]

LEMMA ManyTicks ==
  ASSUME TypeInv, \A t \in Periodic : ~ Exempt(t),
         NEW k, TimesExact(k, due), \A t \in Delayed(k) : ~ Exempt(t),
         NEW n \in Nat, \A t \in Tasks : due[t] >= -MaxLate /\ due[t] - n >= -MaxLate
  PROVE  /\ TimesExact(Ticked(k, n), Later(n))
         /\ Delayed(Ticked(k, n)) \subseteq Delayed(k)
         /\ \A t \in Delayed(k) \ Delayed(Ticked(k, n)) : Later(n)[t] <= 0
<1> DEFINE Good(l, i) == /\ TimesExact(l, Later(i)) /\ Delayed(l) \subseteq Delayed(k)
                         /\ \A t \in Delayed(k) \ Delayed(l) : Later(i)[t] <= 0
<1>1. PICK g : IsRun(g, k, n) /\ Ticked(k, n) = g[n]
  BY TickedFacts
<1>2. due \in [Tasks -> Int] /\ MaxLate \in Int
  BY Numbers DEF TypeInv
<1>3. \A i \in Nat : Later(i) \in [Tasks -> Int]
  BY <1>2 DEF Later
<1>4. Delayed(k) \subseteq Tasks
  BY KernelFacts, ListFacts DEF Delayed, TimesExact, ListsExact
<1> DEFINE S == {i \in Nat : i <= n => Good(g[i], i)}
<1>5. 0 \in S
  <2>1. g[0] = k
    BY <1>1 DEF IsRun
  <2>2. Later(0) = due
    <3>1. \A t \in Tasks : due[t] - 0 = due[t]
      BY <1>2
    <3>2. \A t \in Tasks : Later(0)[t] = due[t]
      BY <3>1 DEF Later
    <3>3. QED
      BY <1>2, <3>2 DEF Later
  <2>3. QED
    BY <2>1, <2>2
<1>6. ASSUME NEW i \in S PROVE i + 1 \in S
  <2>1. i \in Nat /\ i + 1 \in Nat
    OBVIOUS
  <2>2. ASSUME i + 1 <= n PROVE Good(g[i + 1], i + 1)
    <3>1. Good(g[i], i)
      BY <2>1, <2>2
    <3>2. g[i + 1] = xTaskIncrementTick(g[i])
      <4>1. i + 1 \in 0 .. n /\ i + 1 # 0 /\ (i + 1) - 1 = i
        BY <2>1, <2>2
      <4>2. QED
        BY <1>1, <4>1 DEF IsRun
    <3>3. \A t \in Tasks : ~ Exempt(t) => Later(i + 1)[t] = Later(i)[t] - 1
      BY <1>2, <2>1 DEF Later
    <3>4. \A t \in Tasks : Later(i + 1)[t] >= -MaxLate
      <4>1. \A t \in Tasks : due[t] - (i + 1) >= -MaxLate
        BY <1>2, <2>1, <2>2
      <4>2. QED
        BY <4>1 DEF Later
    <3>5. \A t \in Delayed(g[i]) : ~ Exempt(t)
      BY <3>1
    <3>6. /\ TimesExact(g[i + 1], Later(i + 1))
          /\ Delayed(g[i + 1]) \subseteq Delayed(g[i])
          /\ \A t \in Delayed(g[i]) \ Delayed(g[i + 1]) : Later(i + 1)[t] <= 0
      <4>1. Later(i) \in [Tasks -> Int] /\ Later(i + 1) \in [Tasks -> Int]
        BY <1>3, <2>1
      <4>2. TimesExact(g[i], Later(i))
        BY <3>1
      <4> HIDE DEF Good, S
      <4>3. QED
        BY <3>2, <3>3, <3>4, <3>5, <4>1, <4>2, OneTick
    <3>7. \A t \in Delayed(k) \ Delayed(g[i]) : Later(i + 1)[t] <= 0
      <4>1. ASSUME NEW t \in Delayed(k) \ Delayed(g[i]) PROVE Later(i + 1)[t] <= 0
        <5>1. t \in Tasks /\ ~ Exempt(t)
          BY <1>4
        <5>2. Later(i)[t] <= 0 /\ Later(i + 1)[t] = Later(i)[t] - 1 /\ Later(i)[t] \in Int
          BY <1>3, <2>1, <3>1, <3>3, <5>1
        <5>3. QED
          BY <5>2
      <4>2. QED
        BY <4>1
    <3>8. QED
      BY <3>1, <3>6, <3>7
  <2>3. QED
    BY <2>1, <2>2
<1>7. S = Nat
  <2>1. S \in SUBSET Nat
    OBVIOUS
  <2> HIDE DEF S
  <2>2. QED
    BY <1>5, <1>6, <2>1, NaturalsFrom0
<1>8. Good(g[n], n)
  BY <1>7
<1>9. QED
  BY <1>1, <1>8

-----------------------------------------------------------------------------
(* Entering and leaving the lists. *)

SameCount(k, next) ==
    next.xTickCount = k.xTickCount /\ next.xNumOfOverflows = k.xNumOfOverflows

LEMMA EnterFacts ==
  ASSUME NEW k, NEW d \in [Tasks -> Int], ListsExact(k, d),
         NEW t \in Tasks \ Delayed(k), NEW ticks \in Int, 0 < ticks, ticks < TickMod,
         NEW e \in [Tasks -> Int], e[t] = ticks, \A u \in Tasks \ {t} : e[u] = d[u]
  PROVE  /\ ListsExact(prvAddToDelayedList(k, t, ticks), e)
         /\ Delayed(prvAddToDelayedList(k, t, ticks)) = Delayed(k) \cup {t}
         /\ SameCount(k, prvAddToDelayedList(k, t, ticks))
<1> DEFINE c == k.xTickCount
           wake == (c + ticks) % TickMod
           now == k.pxDelayedTaskList
           later == k.pxOverflowDelayedTaskList
           first == IF wake < k.xNextTaskUnblockTime THEN wake ELSE k.xNextTaskUnblockTime
           next == prvAddToDelayedList(k, t, ticks)
<1>1. /\ k \in Kernels /\ c \in Ticks /\ now \in Lists /\ later \in Lists
      /\ k.xNumOfOverflows \in 0 .. OverflowMod - 1 /\ k.xNextTaskUnblockTime \in Ticks
  BY KernelFacts DEF ListsExact
<1>2. /\ \A u \in DOMAIN now : /\ now[u] = c + d[u] /\ d[u] > 0 /\ k.xNextTaskUnblockTime <= now[u]
                               /\ now[u] \in Ticks /\ u \in Tasks \ {t}
      /\ \A u \in DOMAIN later : /\ later[u] = c + d[u] - TickMod /\ later[u] < c
                                 /\ later[u] \in Ticks /\ u \in Tasks \ {t}
  BY <1>1, ListFacts DEF ListsExact, Delayed
<1>3. TickMod \in Nat \ {0} /\ c \in Int /\ 0 <= c /\ c < TickMod
  BY <1>1, Numbers DEF Ticks
<1>4. /\ c + ticks < TickMod => wake = c + ticks
      /\ ~ (c + ticks < TickMod) => wake = c + ticks - TickMod
      /\ wake \in Ticks
  <2>1. c + ticks \in Int /\ 0 <= c + ticks /\ c + ticks < TickMod + TickMod
    BY <1>3
  <2>2. PICK x \in Int : x = c + ticks
    BY <2>1
  <2>3. /\ x < TickMod => x % TickMod = x
        /\ ~ (x < TickMod) => x % TickMod = x - TickMod
        /\ x % TickMod \in Ticks
    BY <1>3, <2>1, <2>2, TickModulo
  <2>4. wake = x % TickMod
    BY <2>2
  <2> HIDE DEF wake
  <2>5. QED
    BY <1>3, <2>2, <2>3, <2>4
<1> HIDE DEF wake
<1>5. CASE c + ticks < TickMod
  <2>1. wake = c + ticks /\ ~ (wake < c)
    BY <1>3, <1>4, <1>5
  <2> DEFINE new == vListInsert(now, t, wake)
  <2>2. next = [k EXCEPT !.pxDelayedTaskList = new, !.xNextTaskUnblockTime = first]
    BY <2>1 DEF prvAddToDelayedList, wake
  <2>3. next = [xTickCount |-> c, xNumOfOverflows |-> k.xNumOfOverflows,
                pxDelayedTaskList |-> new, pxOverflowDelayedTaskList |-> later,
                xNextTaskUnblockTime |-> first]
    <3> HIDE DEF new, first, next
    <3>1. QED
      BY <1>1, <2>2, NewCurrentList
  <2>4. /\ new \in Lists /\ DOMAIN new = DOMAIN now \cup {t} /\ new[t] = wake
        /\ \A u \in DOMAIN now \ {t} : new[u] = now[u]
    <3>1. now \in Lists /\ wake \in Ticks /\ t \in Tasks
      BY <1>1, <1>4
    <3>2. \A list \in Lists, w \in Ticks :
             /\ vListInsert(list, t, w) \in Lists
             /\ DOMAIN vListInsert(list, t, w) = DOMAIN list \cup {t}
             /\ vListInsert(list, t, w)[t] = w
             /\ \A u \in DOMAIN list \ {t} : vListInsert(list, t, w)[u] = list[u]
      BY InsertFacts
    <3> HIDE DEF next, first, now, later, c
    <3>3. QED
      BY <3>1, <3>2
  <2> HIDE DEF next, new
  <2>5. first \in Ticks /\ first <= wake /\ first <= k.xNextTaskUnblockTime
    BY <1>1, <1>4, Numbers DEF Ticks
  <2> HIDE DEF first
  <2>6. next \in Kernels
    BY <1>1, <2>3, <2>4, <2>5 DEF Kernels
  <2>7. \A u \in DOMAIN new : new[u] = c + e[u] /\ e[u] > 0 /\ first <= new[u]
    <3>1. ASSUME NEW u \in DOMAIN now PROVE first <= now[u]
      <4>1. k.xNextTaskUnblockTime <= now[u] /\ now[u] \in Ticks
        BY <1>2
      <4>2. QED
        BY <1>1, <2>5, <4>1, Numbers DEF Ticks
    <3>2. QED
      BY <1>2, <2>1, <2>4, <2>5, <3>1
  <2>8. \A u \in DOMAIN later : later[u] = c + e[u] - TickMod /\ later[u] < c
    BY <1>2
  <2>9. ListsExact(next, e)
    <3>1. /\ next.xTickCount = c /\ next.pxDelayedTaskList = new
          /\ next.pxOverflowDelayedTaskList = later /\ next.xNextTaskUnblockTime = first
      BY <2>3
    <3>2. QED
      BY <2>6, <2>7, <2>8, <3>1 DEF ListsExact
  <2>10. Delayed(next) = Delayed(k) \cup {t} /\ SameCount(k, next)
    BY <2>3, <2>4 DEF Delayed, SameCount
  <2>11. QED
    BY <2>9, <2>10 DEF next
<1>6. CASE ~ (c + ticks < TickMod)
  <2>1. wake = c + ticks - TickMod /\ wake < c
    BY <1>3, <1>4, <1>6
  <2> DEFINE new == vListInsert(later, t, wake)
  <2>2. next = [k EXCEPT !.pxOverflowDelayedTaskList = new]
    BY <2>1 DEF prvAddToDelayedList, wake
  <2>3. next = [xTickCount |-> c, xNumOfOverflows |-> k.xNumOfOverflows,
                pxDelayedTaskList |-> now, pxOverflowDelayedTaskList |-> new,
                xNextTaskUnblockTime |-> k.xNextTaskUnblockTime]
    <3> HIDE DEF new, next
    <3>1. QED
      BY <1>1, <2>2 DEF Kernels
  <2>4. /\ new \in Lists /\ DOMAIN new = DOMAIN later \cup {t} /\ new[t] = wake
        /\ \A u \in DOMAIN later \ {t} : new[u] = later[u]
    <3>1. later \in Lists /\ wake \in Ticks /\ t \in Tasks
      BY <1>1, <1>4
    <3>2. \A list \in Lists, w \in Ticks :
             /\ vListInsert(list, t, w) \in Lists
             /\ DOMAIN vListInsert(list, t, w) = DOMAIN list \cup {t}
             /\ vListInsert(list, t, w)[t] = w
             /\ \A u \in DOMAIN list \ {t} : vListInsert(list, t, w)[u] = list[u]
      BY InsertFacts
    <3> HIDE DEF next, first, now, later, c
    <3>3. QED
      BY <3>1, <3>2
  <2> HIDE DEF next, new
  <2>5. next \in Kernels
    BY <1>1, <2>3, <2>4 DEF Kernels
  <2>6. \A u \in DOMAIN new : new[u] = c + e[u] - TickMod /\ new[u] < c
    BY <1>2, <2>1, <2>4
  <2>7. ListsExact(next, e)
    <3>1. /\ next.xTickCount = c /\ next.pxDelayedTaskList = now
          /\ next.pxOverflowDelayedTaskList = new
          /\ next.xNextTaskUnblockTime = k.xNextTaskUnblockTime
      BY <2>3
    <3>2. QED
      BY <1>2, <2>5, <2>6, <3>1 DEF ListsExact
  <2>8. Delayed(next) = Delayed(k) \cup {t} /\ SameCount(k, next)
    BY <2>3, <2>4 DEF Delayed, SameCount
  <2>9. QED
    BY <2>7, <2>8 DEF next
<1>7. QED
  BY <1>5, <1>6

(* Without the tasks of S, and xNextTaskUnblockTime as it is or reset. *)
LEMMA LeaveFacts ==
  ASSUME NEW k, NEW d \in [Tasks -> Int], ListsExact(k, d), NEW S, NEW first,
         first \in {k.xNextTaskUnblockTime, NextUnblockTime(Without(k.pxDelayedTaskList, S))},
         NEW next,
         next = [xTickCount |-> k.xTickCount, xNumOfOverflows |-> k.xNumOfOverflows,
                 pxDelayedTaskList |-> Without(k.pxDelayedTaskList, S),
                 pxOverflowDelayedTaskList |-> Without(k.pxOverflowDelayedTaskList, S),
                 xNextTaskUnblockTime |-> first]
  PROVE  ListsExact(next, d) /\ Delayed(next) = Delayed(k) \ S /\ SameCount(k, next)
<1> DEFINE now == Without(k.pxDelayedTaskList, S)
           later == Without(k.pxOverflowDelayedTaskList, S)
<1>1. /\ k \in Kernels /\ k.xTickCount \in Ticks /\ k.pxDelayedTaskList \in Lists
      /\ k.pxOverflowDelayedTaskList \in Lists
      /\ k.xNumOfOverflows \in 0 .. OverflowMod - 1 /\ k.xNextTaskUnblockTime \in Ticks
  BY KernelFacts DEF ListsExact
<1>2. /\ now \in Lists /\ DOMAIN now = DOMAIN k.pxDelayedTaskList \ S
      /\ \A t \in DOMAIN now : now[t] = k.pxDelayedTaskList[t]
  <2>1. PICK list \in Lists : list = k.pxDelayedTaskList
    BY <1>1
  <2>2. /\ Without(list, S) \in Lists /\ DOMAIN Without(list, S) = DOMAIN list \ S
        /\ \A t \in DOMAIN list \ S : Without(list, S)[t] = list[t]
    BY WithoutFacts
  <2>3. QED
    BY <2>1, <2>2
<1>3. /\ later \in Lists /\ DOMAIN later = DOMAIN k.pxOverflowDelayedTaskList \ S
      /\ \A t \in DOMAIN later : later[t] = k.pxOverflowDelayedTaskList[t]
  <2>1. PICK list \in Lists : list = k.pxOverflowDelayedTaskList
    BY <1>1
  <2>2. /\ Without(list, S) \in Lists /\ DOMAIN Without(list, S) = DOMAIN list \ S
        /\ \A t \in DOMAIN list \ S : Without(list, S)[t] = list[t]
    BY WithoutFacts
  <2>3. QED
    BY <2>1, <2>2
<1>4. first \in Ticks /\ \A t \in DOMAIN now : first <= now[t]
  <2>1. NextUnblockTime(now) \in Ticks /\ \A t \in DOMAIN now : NextUnblockTime(now) <= now[t]
    BY <1>2, NextFacts
  <2>2. \A t \in DOMAIN now : k.xNextTaskUnblockTime <= now[t]
    BY <1>2 DEF ListsExact
  <2>3. QED
    BY <1>1, <2>1, <2>2
<1> HIDE DEF now, later
<1>5. /\ next.xTickCount = k.xTickCount /\ next.pxDelayedTaskList = now
      /\ next.pxOverflowDelayedTaskList = later /\ next.xNextTaskUnblockTime = first
      /\ next.xNumOfOverflows = k.xNumOfOverflows
  BY DEF now, later
<1>6. next \in Kernels
  BY <1>1, <1>2, <1>3, <1>4 DEF Kernels, now, later
<1>7. ListsExact(next, d)
  BY <1>2, <1>3, <1>4, <1>5, <1>6 DEF ListsExact
<1>8. Delayed(next) = Delayed(k) \ S /\ SameCount(k, next)
  BY <1>2, <1>3, <1>5 DEF Delayed, SameCount
<1>9. QED
  BY <1>7, <1>8

-----------------------------------------------------------------------------
(* What the invariant says of one task. *)

OwnInv(t) ==
    /\ t \in Delayed(kernel) => at[t] = "delaying" \/ (at[t] = "waiting" /\ Waits(t))
    /\ t \in xSuspendedTaskList => at[t] = "waiting" /\ ~ Waits(t)
    /\ t \in eventList \cup xPendingReadyList => at[t] = "waiting" /\ Blocked(t)
    /\ t \in Periodic => at[t] \in {"elsewhere", "delaying"}
    /\ due[t] >= -MaxLate
    /\ at[t] = "elsewhere" => due[t] <= 0 /\ (t \notin Periodic => due[t] = 0)
    /\ at[t] = "timedOut" => due[t] <= 0
    /\ at[t] = "delaying" /\ ~ Blocked(t) => due[t] <= 0
    /\ Waits(t) => due[t] <= xTicksToWait[t] /\ Since(kernel, xTimeOut[t], xTicksToWait[t] - due[t])
    /\ t \in Periodic => Reaches(kernel, pxPreviousWakeTime[t], due[t])

(* Of a task that runs. *)
LEMMA RunsFacts ==
  ASSUME TimeInv, NEW t \in Tasks, Runs(t)
  PROVE  /\ OwnInv(t) /\ t \notin Delayed(kernel) /\ t \notin xSuspendedTaskList
         /\ t \notin eventList /\ suspendedBy = NoTask
         /\ uxPendedTicks = 0 /\ xPendingReadyList = {}
<1>1. /\ t \notin Delayed(kernel) /\ t \notin xSuspendedTaskList /\ suspendedBy = NoTask
  BY DEF Runs, Blocked
<1>2. uxPendedTicks = 0 /\ xPendingReadyList = {}
  BY <1>1 DEF TimeInv, PlacesInv
<1>3. due[t] >= -MaxLate
  <2>1. due[t] - 0 >= -MaxLate /\ due[t] \in Int
    BY <1>2 DEF TimeInv, DueInv, TypeInv
  <2>2. QED
    BY <2>1, Numbers
<1>4. t \notin eventList
  BY <1>1 DEF TimeInv, PlacesInv, Blocked
<1>5. OwnInv(t)
  BY <1>1, <1>2, <1>3, <1>4 DEF TimeInv, PlacesInv, DueInv, TimesExact, RecordsExact, OwnInv
<1>6. QED
  BY <1>1, <1>2, <1>4, <1>5

(* A step of such a task changes nothing of another. *)
LEMMA OwnStep ==
  ASSUME TimeInv, NEW t \in Tasks, Runs(t), TypeInv', OwnInv(t)',
         \A u \in Tasks \ {t} : /\ at'[u] = at[u] /\ xTicksToWait'[u] = xTicksToWait[u]
                                /\ xTimeOut'[u] = xTimeOut[u] /\ due'[u] = due[u]
                                /\ pxPreviousWakeTime'[u] = pxPreviousWakeTime[u],
         ListsExact(kernel', due'), SameCount(kernel, kernel'),
         Delayed(kernel') \ {t} = Delayed(kernel), xSuspendedTaskList' \ {t} = xSuspendedTaskList,
         eventList' \ {t} = eventList,
         UNCHANGED <<uxPendedTicks, xPendingReadyList>>
  PROVE  TimeInv'
<1>1. /\ t \notin Delayed(kernel) /\ t \notin xSuspendedTaskList
      /\ t \notin eventList /\ uxPendedTicks' = 0 /\ xPendingReadyList' = {}
  BY RunsFacts
<1>2. /\ \A u \in Tasks : Waits(u)' => due'[u] <= xTicksToWait'[u]
                                       /\ Since(kernel', xTimeOut'[u], xTicksToWait'[u] - due'[u])
      /\ \A u \in Periodic : Reaches(kernel', pxPreviousWakeTime'[u], due'[u])
  <2>1. ASSUME NEW u \in Tasks \ {t}, Waits(u)'
        PROVE  due'[u] <= xTicksToWait'[u] /\ Since(kernel', xTimeOut'[u], xTicksToWait'[u] - due'[u])
    <3>1. Waits(u)
      BY <2>1 DEF Waits
    <3>2. due[u] <= xTicksToWait[u] /\ Since(kernel, xTimeOut[u], xTicksToWait[u] - due[u])
      BY <3>1 DEF TimeInv, TimesExact, RecordsExact
    <3>3. QED
      BY <3>2 DEF Since, SameCount
  <2>2. ASSUME NEW u \in Periodic, u # t PROVE Reaches(kernel', pxPreviousWakeTime'[u], due'[u])
    <3>1. u \in Tasks \ {t}
      BY <2>2, Numbers
    <3>2. Reaches(kernel, pxPreviousWakeTime[u], due[u])
      BY DEF TimeInv, TimesExact, RecordsExact
    <3>3. QED
      BY <3>1, <3>2 DEF Reaches, SameCount
  <2>3. QED
    BY <2>1, <2>2 DEF OwnInv
<1>3. TimesExact(kernel, due)'
  BY <1>2 DEF TimesExact, RecordsExact
<1>4. \A u \in Tasks \ {t} : (Blocked(u)' <=> Blocked(u)) /\ (Waits(u)' <=> Waits(u))
  BY DEF Blocked, Waits
<1>5. Delayed(kernel') \subseteq Tasks /\ xSuspendedTaskList' \subseteq Tasks
  <2>1. kernel' \in Kernels
    BY DEF ListsExact
  <2>2. QED
    BY <2>1, KernelFacts, ListFacts DEF Delayed, TypeInv
<1>6. PlacesInv'
  <2>1. \A u \in Delayed(kernel') : at'[u] = "delaying" \/ (at'[u] = "waiting" /\ Waits(u)')
    BY <1>4, <1>5 DEF OwnInv, TimeInv, PlacesInv
  <2>2. \A u \in xSuspendedTaskList' : at'[u] = "waiting" /\ ~ Waits(u)'
    BY <1>4, <1>5 DEF OwnInv, TimeInv, PlacesInv
  <2>3. \A u \in eventList' : at'[u] = "waiting" /\ Blocked(u)'
    <3>1. ASSUME NEW u \in eventList', u # t PROVE at'[u] = "waiting" /\ Blocked(u)'
      <4>1. u \in eventList
        BY <3>1
      <4>2. at[u] = "waiting" /\ Blocked(u)
        BY <4>1 DEF TimeInv, PlacesInv
      <4>3. u \in Tasks
        BY <4>2, KernelFacts, ListFacts DEF Blocked, Delayed, TimeInv, TypeInv, TimesExact, ListsExact
      <4>4. QED
        BY <1>4, <3>1, <4>2, <4>3
    <3>2. QED
      BY <3>1 DEF OwnInv
  <2>4. \A u \in Periodic : at'[u] \in {"elsewhere", "delaying"}
    BY Numbers DEF OwnInv, TimeInv, PlacesInv
  <2>5. QED
    BY <1>1, <2>1, <2>2, <2>3, <2>4 DEF PlacesInv
<1>7. DueInv'
  <2>1. \A u \in Tasks : due'[u] - 0 >= -MaxLate
    <3>1. ASSUME NEW u \in Tasks PROVE due'[u] >= -MaxLate /\ due'[u] \in Int
      <4>1. CASE u = t
        BY <4>1 DEF OwnInv, TypeInv
      <4>2. CASE u # t
        <5>1. due[u] - 0 >= -MaxLate /\ due[u] \in Int
          BY <1>1 DEF TimeInv, DueInv, TypeInv
        <5>2. QED
          BY <4>2, <5>1, Numbers
      <4>3. QED
        BY <4>1, <4>2
    <3>2. QED
      BY <3>1, Numbers
  <2>2. \A u \in Tasks : /\ at'[u] = "elsewhere" => due'[u] <= 0 /\ (u \notin Periodic => due'[u] = 0)
                         /\ at'[u] = "timedOut" => due'[u] <= 0
                         /\ at'[u] = "delaying" /\ ~ Blocked(u)' => due'[u] <= 0
    BY <1>4 DEF OwnInv, TimeInv, DueInv
  <2>3. QED
    BY <1>1, <2>1, <2>2 DEF DueInv
<1>8. QED
  BY <1>3, <1>6, <1>7 DEF TimeInv

LEMMA SameLists ==
  ASSUME NEW k, NEW d, ListsExact(k, d), NEW e, \A t \in Delayed(k) : e[t] = d[t]
  PROVE  ListsExact(k, e)
BY DEF ListsExact, Delayed

LEMMA KernelKept ==
  ASSUME TimeInv, NEW t, t \notin Delayed(kernel), kernel' = kernel,
         \A u \in Tasks \ {t} : due'[u] = due[u]
  PROVE  ListsExact(kernel', due') /\ SameCount(kernel, kernel')
<1>1. ListsExact(kernel, due)
  BY DEF TimeInv, TimesExact
<1>2. Delayed(kernel) \subseteq Tasks \ {t}
  BY <1>1, KernelFacts, ListFacts DEF ListsExact, Delayed
<1>3. \A u \in Delayed(kernel) : due'[u] = due[u]
  BY <1>2
<1>4. ListsExact(kernel, due')
  BY <1>1, <1>3, SameLists
<1>5. QED
  BY <1>4 DEF SameCount

-----------------------------------------------------------------------------
(* The steps of a task. *)

LEMMA DelayReturnsInv ==
  ASSUME TimeInv, NEW t \in Tasks, DelayReturns(t)
  PROVE  TimeInv'
<1>1. /\ Runs(t) /\ at[t] = "delaying" /\ at' = [at EXCEPT ![t] = "elsewhere"]
      /\ due' = [due EXCEPT ![t] = IF t \in Periodic THEN @ ELSE 0]
      /\ UNCHANGED <<kernel, xSuspendedTaskList, uxPendedTicks, suspendedBy, eventList,
                     xPendingReadyList, xTicksToWait, xTimeOut, pxPreviousWakeTime>>
  BY DEF DelayReturns
<1>2. /\ OwnInv(t) /\ t \notin Delayed(kernel) /\ t \notin xSuspendedTaskList
      /\ t \notin eventList /\ xPendingReadyList = {}
  BY <1>1, RunsFacts
<1>3. /\ at'[t] = "elsewhere" /\ due'[t] = (IF t \in Periodic THEN due[t] ELSE 0)
      /\ \A u \in Tasks \ {t} : at'[u] = at[u] /\ due'[u] = due[u]
  BY <1>1 DEF TimeInv, TypeInv
<1>4. TypeInv'
  BY <1>1 DEF TimeInv, TypeInv, Places
<1>5. due[t] <= 0 /\ due[t] \in Int
  BY <1>1 DEF TimeInv, TypeInv, DueInv, Runs
<1>6. OwnInv(t)'
  BY <1>1, <1>2, <1>3, <1>5, Numbers DEF OwnInv, Waits
<1>7. ListsExact(kernel', due') /\ SameCount(kernel, kernel')
  BY <1>1, <1>2, <1>3, KernelKept
<1>8. QED
  BY <1>1, <1>2, <1>3, <1>4, <1>6, <1>7, OwnStep

LEMMA BeginWaitInv ==
  ASSUME TimeInv, NEW t \in Tasks \ Periodic, NEW ticks \in 1 .. MaxWait \cup {portMAX_DELAY},
         BeginWait(t, ticks)
  PROVE  TimeInv'
<1>1. /\ Runs(t) /\ at[t] = "elsewhere" /\ at' = [at EXCEPT ![t] = "check"]
      /\ xTicksToWait' = [xTicksToWait EXCEPT ![t] = ticks]
      /\ xTimeOut' = [xTimeOut EXCEPT ![t] = TimeOutState]
      /\ due' = [due EXCEPT ![t] = ticks]
      /\ UNCHANGED <<kernel, xSuspendedTaskList, uxPendedTicks, suspendedBy, eventList,
                     xPendingReadyList, pxPreviousWakeTime>>
  BY DEF BeginWait
<1>2. /\ t \notin Delayed(kernel) /\ t \notin xSuspendedTaskList
      /\ t \notin eventList /\ xPendingReadyList = {}
  BY <1>1, RunsFacts
<1>3. /\ at'[t] = "check" /\ due'[t] = ticks /\ xTicksToWait'[t] = ticks
      /\ xTimeOut'[t] = TimeOutState
      /\ \A u \in Tasks \ {t} : at'[u] = at[u] /\ due'[u] = due[u]
                                /\ xTicksToWait'[u] = xTicksToWait[u] /\ xTimeOut'[u] = xTimeOut[u]
  BY <1>1 DEF TimeInv, TypeInv
<1>4. kernel \in Kernels /\ ListsExact(kernel, due)
  BY DEF TimeInv, TimesExact, ListsExact
<1>5. ticks \in Nat /\ ticks \in 0 .. MaxWait \cup {portMAX_DELAY}
  BY Numbers
<1>6. TypeInv'
  <2>1. TimeOutState \in TimeOuts
    BY <1>4, KernelFacts DEF TimeOutState, TimeOuts
  <2>2. QED
    BY <1>1, <1>5, <2>1 DEF TimeInv, TypeInv, Places
<1>7. Since(kernel, TimeOutState, ticks - ticks)
  <2>1. kernel.xTickCount \in Int /\ ticks - ticks = 0
    BY <1>4, <1>5, KernelFacts, Numbers DEF Ticks
  <2>2. QED
    BY <2>1 DEF Since, TimeOutState
<1>8. OwnInv(t)'
  <2>1. ticks >= -MaxLate /\ ticks <= ticks
    BY <1>5, Numbers
  <2>2. QED
    BY <1>1, <1>2, <1>3, <1>7, <2>1 DEF OwnInv
<1>9. ListsExact(kernel', due') /\ SameCount(kernel, kernel')
  BY <1>1, <1>2, <1>3, KernelKept
<1>10. QED
  BY <1>1, <1>2, <1>3, <1>6, <1>8, <1>9, OwnStep

(* xTaskCheckForTimeOut's arithmetic. *)
LEMMA ElapsedFacts ==
  ASSUME TimeInv, NEW t \in Tasks, Waits(t), due[t] >= -MaxLate
  PROVE  /\ xTicksToWait[t] \in 0 .. MaxWait
         /\ Elapsed(t) = xTicksToWait[t] - due[t]
         /\ TimedOut(t) <=> due[t] <= 0
<1>1. xTicksToWait[t] \in 0 .. MaxWait /\ xTicksToWait[t] # portMAX_DELAY
  BY DEF Waits, TimeInv, TypeInv
<1>2. PICK w, x, c, entering, m, y \in Int :
         /\ w = xTicksToWait[t] /\ x = due[t] /\ y = w - x
         /\ c = kernel.xTickCount /\ entering = xTimeOut[t].xTimeOnEntering /\ m = TickMod
         /\ 0 <= entering /\ entering < m /\ 0 <= c /\ c < m /\ 0 <= y /\ y < m
  <2>1. kernel.xTickCount \in Ticks /\ xTimeOut[t].xTimeOnEntering \in Ticks
    BY KernelFacts DEF TimeInv, TypeInv, TimeOuts, TimesExact, ListsExact
  <2>2. kernel.xTickCount \in Int /\ xTimeOut[t].xTimeOnEntering \in Int /\ TickMod \in Int
        /\ 0 <= kernel.xTickCount /\ kernel.xTickCount < TickMod
        /\ 0 <= xTimeOut[t].xTimeOnEntering /\ xTimeOut[t].xTimeOnEntering < TickMod
    BY <2>1, Numbers DEF Ticks
  <2>3. xTicksToWait[t] \in Int /\ due[t] \in Int
    BY <1>1, Numbers DEF TimeInv, TypeInv
  <2>4. due[t] <= xTicksToWait[t]
    BY DEF TimeInv, TimesExact, RecordsExact
  <2>5. 0 <= xTicksToWait[t] - due[t] /\ xTicksToWait[t] - due[t] < TickMod
    BY <1>1, <2>3, <2>4, Numbers
  <2> USE <2>2, <2>3, <2>5
  <2> WITNESS xTicksToWait[t] \in Int, due[t] \in Int, kernel.xTickCount \in Int,
              xTimeOut[t].xTimeOnEntering \in Int, TickMod \in Int,
              xTicksToWait[t] - due[t] \in Int
  <2> QED
    OBVIOUS
<1>3. \/ entering = c - y /\ xTimeOut[t].xOverflowCount = kernel.xNumOfOverflows
      \/ entering = c - y + m
  BY <1>2 DEF TimeInv, TimesExact, RecordsExact, Since
<1>4. (c - entering) % TickMod = y
  <2>1. CASE entering = c - y
    <3>1. c - entering = y
      BY <1>2, <2>1
    <3>2. QED
      BY <1>2, <3>1, TickModulo
  <2>2. CASE entering = c - y + m
    <3>1. PICK z \in Int : z = c - entering /\ -m <= z /\ z < 0 /\ z + m = y
      BY <1>2, <2>2
    <3>2. z % TickMod = z + m
      BY <1>2, <3>1, TickModulo
    <3>3. QED
      BY <3>1, <3>2
  <2>3. QED
    BY <1>3, <2>1, <2>2
<1>5. Elapsed(t) = y
  BY <1>2, <1>4 DEF Elapsed
<1>6. ~ (kernel.xNumOfOverflows # xTimeOut[t].xOverflowCount /\ c >= entering)
  BY <1>2, <1>3
<1>7. y >= w <=> x <= 0
  BY <1>2
<1>8. TimedOut(t) <=> y >= w
  BY <1>1, <1>2, <1>5, <1>6 DEF TimedOut
<1>9. QED
  BY <1>1, <1>2, <1>5, <1>7, <1>8

LEMMA WaitIsOverInv ==
  ASSUME TimeInv, NEW t \in Tasks, WaitIsOver(t)
  PROVE  TimeInv'
<1>1. /\ Runs(t) /\ at[t] = "check" /\ TimedOut(t) /\ suspendedBy' = t
      /\ at' = [at EXCEPT ![t] = "timedOut"]
      /\ UNCHANGED <<kernel, xSuspendedTaskList, uxPendedTicks, eventList,
                     xPendingReadyList, xTicksToWait, xTimeOut, pxPreviousWakeTime, due>>
  BY DEF WaitIsOver
<1>2. /\ OwnInv(t) /\ t \notin Delayed(kernel) /\ t \notin xSuspendedTaskList
      /\ t \notin eventList /\ xPendingReadyList = {}
  BY <1>1, RunsFacts
<1>3. at'[t] = "timedOut" /\ \A u \in Tasks \ {t} : at'[u] = at[u]
  BY <1>1 DEF TimeInv, TypeInv
<1>4. TypeInv'
  BY <1>1 DEF TimeInv, TypeInv, Places
<1>5. due[t] <= 0
  <2>1. Waits(t) /\ due[t] >= -MaxLate
    BY <1>1, <1>2 DEF Waits, TimedOut, OwnInv
  <2>2. QED
    BY <1>1, <2>1, ElapsedFacts
<1>6. OwnInv(t)'
  <2>1. t \notin Periodic
    BY <1>1, <1>2 DEF OwnInv
  <2>2. QED
    BY <1>1, <1>2, <1>3, <1>5, <2>1 DEF OwnInv, Waits
<1>7. ListsExact(kernel', due') /\ SameCount(kernel, kernel')
  BY <1>1, <1>2, KernelKept
<1>8. QED
  BY <1>1, <1>2, <1>3, <1>4, <1>6, <1>7, OwnStep

LEMMA TryAgainInv ==
  ASSUME TimeInv, NEW t \in Tasks, TryAgain(t)
  PROVE  TimeInv'
<1>1. /\ Runs(t) /\ at[t] = "waiting" /\ at' = [at EXCEPT ![t] = "check"]
      /\ UNCHANGED <<kernel, xSuspendedTaskList, uxPendedTicks, suspendedBy, eventList,
                     xPendingReadyList, xTicksToWait, xTimeOut, pxPreviousWakeTime, due>>
  BY DEF TryAgain
<1>2. /\ OwnInv(t) /\ t \notin Delayed(kernel) /\ t \notin xSuspendedTaskList
      /\ t \notin eventList /\ xPendingReadyList = {}
  BY <1>1, RunsFacts
<1>3. at'[t] = "check" /\ \A u \in Tasks \ {t} : at'[u] = at[u]
  BY <1>1 DEF TimeInv, TypeInv
<1>4. TypeInv'
  BY <1>1 DEF TimeInv, TypeInv, Places
<1>5. OwnInv(t)'
  <2>1. t \notin Periodic
    BY <1>1, <1>2 DEF OwnInv
  <2>2. QED
    BY <1>1, <1>2, <1>3, <2>1 DEF OwnInv, Waits
<1>6. ListsExact(kernel', due') /\ SameCount(kernel, kernel')
  BY <1>1, <1>2, KernelKept
<1>7. QED
  BY <1>1, <1>2, <1>3, <1>4, <1>5, <1>6, OwnStep

LEMMA WaitReturnsInv ==
  ASSUME TimeInv, NEW t \in Tasks, WaitReturns(t)
  PROVE  TimeInv'
<1>1. /\ Runs(t) /\ at[t] \in {"check", "waiting", "timedOut"}
      /\ at' = [at EXCEPT ![t] = "elsewhere"]
      /\ xTicksToWait' = [xTicksToWait EXCEPT ![t] = 0]
      /\ xTimeOut' = [xTimeOut EXCEPT ![t] = NoTimeOut]
      /\ due' = [due EXCEPT ![t] = 0]
      /\ UNCHANGED <<kernel, xSuspendedTaskList, uxPendedTicks, suspendedBy, eventList,
                     xPendingReadyList, pxPreviousWakeTime>>
  BY DEF WaitReturns
<1>2. /\ OwnInv(t) /\ t \notin Delayed(kernel) /\ t \notin xSuspendedTaskList
      /\ t \notin eventList /\ xPendingReadyList = {}
  BY <1>1, RunsFacts
<1>3. /\ at'[t] = "elsewhere" /\ due'[t] = 0
      /\ \A u \in Tasks \ {t} : at'[u] = at[u] /\ due'[u] = due[u]
                                /\ xTicksToWait'[u] = xTicksToWait[u] /\ xTimeOut'[u] = xTimeOut[u]
  BY <1>1 DEF TimeInv, TypeInv
<1>4. TypeInv'
  <2>1. NoTimeOut \in TimeOuts /\ 0 \in 0 .. MaxWait \cup {portMAX_DELAY} /\ 0 \in Int
    BY Numbers DEF NoTimeOut, TimeOuts, Ticks
  <2>2. QED
    BY <1>1, <2>1 DEF TimeInv, TypeInv, Places
<1>5. OwnInv(t)'
  <2>1. t \notin Periodic
    BY <1>1, <1>2 DEF OwnInv
  <2>2. 0 >= -MaxLate
    BY Numbers
  <2>3. QED
    BY <1>1, <1>2, <1>3, <2>1, <2>2 DEF OwnInv, Waits
<1>6. ListsExact(kernel', due') /\ SameCount(kernel, kernel')
  BY <1>1, <1>2, <1>3, KernelKept
<1>7. QED
  BY <1>1, <1>2, <1>3, <1>4, <1>5, <1>6, OwnStep

LEMMA vTaskPlaceOnEventListInv ==
  ASSUME TimeInv, NEW t \in Tasks, vTaskPlaceOnEventList(t)
  PROVE  TimeInv'
<1>1. /\ Runs(t) /\ at[t] = "check" /\ ~ TimedOut(t) /\ suspendedBy' = t
      /\ at' = [at EXCEPT ![t] = "waiting"] /\ eventList' = eventList \cup {t}
      /\ UNCHANGED <<uxPendedTicks, xPendingReadyList, pxPreviousWakeTime, due>>
  BY DEF vTaskPlaceOnEventList
<1>2. /\ OwnInv(t) /\ t \notin Delayed(kernel) /\ t \notin xSuspendedTaskList
      /\ t \notin eventList /\ xPendingReadyList = {}
  BY <1>1, RunsFacts
<1>3. at'[t] = "waiting" /\ \A u \in Tasks \ {t} : at'[u] = at[u]
  BY <1>1 DEF TimeInv, TypeInv
<1>4. t \notin Periodic
  BY <1>1, <1>2 DEF OwnInv
<1>5. CASE xTicksToWait[t] = portMAX_DELAY
  <2>1. /\ xSuspendedTaskList' = xSuspendedTaskList \cup {t}
        /\ UNCHANGED <<kernel, xTicksToWait, xTimeOut>>
    BY <1>5 DEF vTaskPlaceOnEventList
  <2>2. TypeInv'
    BY <1>1, <2>1 DEF TimeInv, TypeInv, Places
  <2>3. OwnInv(t)'
    BY <1>1, <1>2, <1>3, <1>4, <1>5, <2>1 DEF OwnInv, Waits, Blocked
  <2>4. ListsExact(kernel', due') /\ SameCount(kernel, kernel')
    BY <1>1, <1>2, <2>1, KernelKept
  <2>5. QED
    BY <1>1, <1>2, <1>3, <2>1, <2>2, <2>3, <2>4, OwnStep
<1>6. CASE xTicksToWait[t] # portMAX_DELAY
  <2>1. Waits(t) /\ due[t] >= -MaxLate /\ due[t] <= xTicksToWait[t]
    BY <1>1, <1>2, <1>6 DEF Waits, OwnInv
  <2>2. PICK left \in Int : left = due[t] /\ left = xTicksToWait[t] - Elapsed(t)
                            /\ 0 < left /\ left <= MaxWait
    <3>1. /\ xTicksToWait[t] \in 0 .. MaxWait /\ Elapsed(t) = xTicksToWait[t] - due[t]
          /\ TimedOut(t) <=> due[t] <= 0
      BY <2>1, ElapsedFacts
    <3>2. due[t] \in Int /\ xTicksToWait[t] \in Int
      BY <3>1, Numbers DEF TimeInv, TypeInv
    <3>3. due[t] = xTicksToWait[t] - Elapsed(t) /\ 0 < due[t] /\ due[t] <= MaxWait
      BY <1>1, <2>1, <3>1, <3>2, Numbers
    <3>4. QED
      BY <3>2, <3>3
  <2>3. /\ xTicksToWait' = [xTicksToWait EXCEPT ![t] = left]
        /\ xTimeOut' = [xTimeOut EXCEPT ![t] = TimeOutState]
        /\ kernel' = prvAddToDelayedList(kernel, t, left)
        /\ xSuspendedTaskList' = xSuspendedTaskList
    BY <1>6, <2>2 DEF vTaskPlaceOnEventList
  <2>4. /\ xTicksToWait'[t] = left /\ xTimeOut'[t] = TimeOutState
        /\ \A u \in Tasks \ {t} : xTicksToWait'[u] = xTicksToWait[u] /\ xTimeOut'[u] = xTimeOut[u]
    BY <2>3 DEF TimeInv, TypeInv
  <2>5. kernel \in Kernels /\ ListsExact(kernel, due)
    BY DEF TimeInv, TimesExact, ListsExact
  <2>6. left \in 0 .. MaxWait /\ left # portMAX_DELAY /\ left < TickMod
    BY <2>2, Numbers
  <2>7. /\ ListsExact(kernel', due) /\ Delayed(kernel') = Delayed(kernel) \cup {t}
        /\ SameCount(kernel, kernel')
    <3>1. due \in [Tasks -> Int] /\ t \in Tasks \ Delayed(kernel)
      BY <1>2 DEF TimeInv, TypeInv
    <3>2. left \in Int /\ 0 < left /\ left < TickMod /\ due[t] = left
      BY <2>2, <2>6
    <3>3. /\ ListsExact(prvAddToDelayedList(kernel, t, left), due)
          /\ Delayed(prvAddToDelayedList(kernel, t, left)) = Delayed(kernel) \cup {t}
          /\ SameCount(kernel, prvAddToDelayedList(kernel, t, left))
      <4>1. \A u \in Tasks \ {t} : due[u] = due[u]
        OBVIOUS
      <4>2. QED
        BY <2>5, <3>1, <3>2, <4>1, EnterFacts
    <3>4. QED
      BY <2>3, <3>3
  <2>8. TypeInv'
    <3>1. TimeOutState \in TimeOuts
      BY <2>5, KernelFacts DEF TimeOutState, TimeOuts
    <3>2. QED
      BY <1>1, <2>3, <2>6, <3>1 DEF TimeInv, TypeInv, Places
  <2>9. Since(kernel', TimeOutState, left - left)
    <3>1. kernel.xTickCount \in Int /\ left - left = 0
      BY <2>5, KernelFacts, Numbers DEF Ticks
    <3>2. QED
      BY <2>7, <3>1 DEF Since, TimeOutState, SameCount
  <2>10. OwnInv(t)'
    <3>1. Waits(t)' /\ Blocked(t)'
      BY <1>3, <2>4, <2>6, <2>7 DEF Waits, Blocked
    <3>2. due'[t] >= -MaxLate /\ due'[t] <= xTicksToWait'[t] /\ due'[t] = left
      BY <1>1, <2>1, <2>2, <2>4
    <3>3. QED
      BY <1>1, <1>2, <1>3, <1>4, <2>3, <2>4, <2>9, <3>1, <3>2 DEF OwnInv
  <2>11. QED
    BY <1>1, <1>2, <1>3, <2>3, <2>4, <2>7, <2>8, <2>10, OwnStep
<1>7. QED
  BY <1>5, <1>6

LEMMA vTaskDelayInv ==
  ASSUME TimeInv, NEW t \in Tasks \ Periodic, NEW ticks \in 1 .. MaxWait, vTaskDelay(t, ticks)
  PROVE  TimeInv'
<1>1. /\ Runs(t) /\ at[t] = "elsewhere" /\ suspendedBy' = t
      /\ kernel' = prvAddToDelayedList(kernel, t, ticks)
      /\ at' = [at EXCEPT ![t] = "delaying"] /\ due' = [due EXCEPT ![t] = ticks]
      /\ UNCHANGED <<xSuspendedTaskList, uxPendedTicks, eventList, xPendingReadyList,
                     xTicksToWait, xTimeOut, pxPreviousWakeTime>>
  BY DEF vTaskDelay
<1>2. /\ OwnInv(t) /\ t \notin Delayed(kernel) /\ t \notin xSuspendedTaskList
      /\ t \notin eventList /\ xPendingReadyList = {}
  BY <1>1, RunsFacts
<1>3. /\ at'[t] = "delaying" /\ due'[t] = ticks
      /\ \A u \in Tasks \ {t} : at'[u] = at[u] /\ due'[u] = due[u]
  BY <1>1 DEF TimeInv, TypeInv
<1>4. ticks \in Int /\ 0 < ticks /\ ticks < TickMod /\ ticks >= -MaxLate
  BY Numbers
<1>5. TypeInv'
  BY <1>1, <1>4 DEF TimeInv, TypeInv, Places
<1>6. /\ ListsExact(kernel', due') /\ Delayed(kernel') = Delayed(kernel) \cup {t}
      /\ SameCount(kernel, kernel')
  <2>1. due \in [Tasks -> Int] /\ due' \in [Tasks -> Int] /\ ListsExact(kernel, due)
    BY <1>5 DEF TimeInv, TypeInv, TimesExact
  <2>2. t \in Tasks \ Delayed(kernel)
    BY <1>2
  <2>3. /\ ListsExact(prvAddToDelayedList(kernel, t, ticks), due')
        /\ Delayed(prvAddToDelayedList(kernel, t, ticks)) = Delayed(kernel) \cup {t}
        /\ SameCount(kernel, prvAddToDelayedList(kernel, t, ticks))
    BY <1>3, <1>4, <2>1, <2>2, EnterFacts
  <2>4. QED
    BY <1>1, <2>3
<1>7. OwnInv(t)'
  BY <1>1, <1>2, <1>3, <1>4, <1>6 DEF OwnInv, Waits, Blocked
<1>8. QED
  BY <1>1, <1>2, <1>3, <1>5, <1>6, <1>7, OwnStep

(* vTaskDelayUntil's arithmetic, for a task that is -x ticks late.          *)
LEMMA ShouldDelayFacts ==
  ASSUME NEW c \in Ticks, NEW previous \in Ticks, NEW x \in Int, x <= 0, x >= -MaxLate,
         previous \in {c + x - TickMod, c + x, c + x + TickMod}, NEW increment \in 1 .. MaxWait
  PROVE  LET wake == (previous + increment) % TickMod
         IN  /\ wake \in Ticks
             /\ wake \in {c + (x + increment) - TickMod, c + (x + increment),
                          c + (x + increment) + TickMod}
             /\ ShouldDelay(previous, wake, c) <=> x + increment > 0
             /\ x + increment > 0 => (wake - c) % TickMod = x + increment
<1> DEFINE wake == (previous + increment) % TickMod
<1>1. PICK m, i \in Int : /\ m = TickMod /\ i = increment /\ 0 < i /\ i < m /\ -m < x /\ i + -x < m
                          /\ 0 <= c /\ c < m /\ 0 <= previous /\ previous < m
                          /\ c \in Int /\ previous \in Int
  <2>1. /\ TickMod \in Int /\ increment \in Int /\ 0 < increment /\ increment < TickMod
        /\ -TickMod < x /\ increment + -x < TickMod
    BY Numbers
  <2>2. QED
    BY <2>1 DEF Ticks
<1>2. (previous = c + x /\ c + x >= 0) \/ (previous = c + x + m /\ c + x < 0)
  BY <1>1
<1>3. PICK z \in Int : z = previous + i /\ 0 <= z /\ z < m + m
  BY <1>1
<1>4. /\ z < m => wake = z
      /\ ~ (z < m) => wake = z - m
      /\ wake \in Ticks
  <2>1. wake = z % TickMod
    BY <1>1, <1>3
  <2>2. /\ z < m => z % TickMod = z
        /\ ~ (z < m) => z % TickMod = z - m
        /\ z % TickMod \in Ticks
    BY <1>1, <1>3, TickModulo, SMTT(30)
  <2> HIDE DEF wake
  <2>3. QED
    BY <2>1, <2>2
<1> HIDE DEF wake
<1>5. PICK w, y \in Int : w = wake /\ 0 <= w /\ w < m /\ y = x + i /\ -m < y /\ y < m
  BY <1>1, <1>4 DEF Ticks
<1>6. \/ w = c + y \/ w = c + y - m \/ w = c + y + m
  BY <1>1, <1>2, <1>3, <1>4, <1>5
<1>7. (IF c < previous THEN w < previous /\ w > c ELSE w < previous \/ w > c) <=> y > 0
  <2>1. CASE previous = c + x /\ c + x >= 0
    <3>1. ~ (c < previous) /\ (z < m => w = c + y) /\ (~ (z < m) => w = c + y - m) /\ z = c + y
      BY <1>1, <1>3, <1>4, <1>5, <2>1
    <3>2. w < previous => y > 0
      BY <1>1, <1>3, <1>5, <2>1, <3>1
    <3>3. w > c => y > 0
      BY <1>1, <1>3, <1>5, <2>1, <3>1
    <3>4. y > 0 => w > c \/ w < previous
      BY <1>1, <1>3, <1>5, <2>1, <3>1
    <3>5. QED
      BY <3>1, <3>2, <3>3, <3>4
  <2>2. CASE previous = c + x + m /\ c + x < 0
    <3>1. c < previous /\ z = c + y + m /\ (z < m => w = z) /\ (~ (z < m) => w = z - m)
      BY <1>1, <1>3, <1>4, <1>5, <2>2
    <3>2. y > 0 => w < previous /\ w > c
      BY <1>1, <1>3, <1>5, <2>2, <3>1
    <3>3. w < previous /\ w > c => y > 0
      BY <1>1, <1>3, <1>5, <2>2, <3>1
    <3>4. QED
      BY <3>1, <3>2, <3>3
  <2>3. QED
    BY <1>2, <2>1, <2>2
<1>8. y > 0 => (w - c) % TickMod = y
  <2>1. SUFFICES ASSUME y > 0 PROVE (w - c) % TickMod = y
    OBVIOUS
  <2>2. PICK v \in Int : v = w - c /\ (v = y \/ (v = y - m /\ -m <= v /\ v < 0))
    BY <1>1, <1>5, <1>6, <2>1
  <2>3. /\ 0 <= v /\ v < m => v % TickMod = v
        /\ -m <= v /\ v < 0 => v % TickMod = v + m
    BY <1>1, TickModulo
  <2>4. v % TickMod = y
    BY <1>1, <1>5, <2>1, <2>2, <2>3
  <2>5. QED
    BY <2>2, <2>4
<1>9. wake \in {c + (x + increment) - TickMod, c + (x + increment), c + (x + increment) + TickMod}
  BY <1>1, <1>5, <1>6
<1>10. ShouldDelay(previous, wake, c) <=> x + increment > 0
  BY <1>1, <1>5, <1>7 DEF ShouldDelay
<1>11. x + increment > 0 => (wake - c) % TickMod = x + increment
  BY <1>1, <1>5, <1>8
<1>12. QED
  BY <1>4, <1>9, <1>10, <1>11 DEF wake

LEMMA vTaskDelayUntilInv ==
  ASSUME TimeInv, NEW t \in Periodic, NEW increment \in 1 .. MaxWait,
         vTaskDelayUntil(t, increment)
  PROVE  TimeInv'
<1> DEFINE c == kernel.xTickCount
           previous == pxPreviousWakeTime[t]
           wake == (previous + increment) % TickMod
           left == due[t] + increment
<1>1. /\ Runs(t) /\ at[t] = "elsewhere" /\ suspendedBy' = t
      /\ pxPreviousWakeTime' = [pxPreviousWakeTime EXCEPT ![t] = wake]
      /\ kernel' = IF ShouldDelay(previous, wake, c)
                   THEN prvAddToDelayedList(kernel, t, (wake - c) % TickMod) ELSE kernel
      /\ at' = [at EXCEPT ![t] = "delaying"]
      /\ due' = [due EXCEPT ![t] = @ + increment]
      /\ UNCHANGED <<xSuspendedTaskList, uxPendedTicks, eventList, xPendingReadyList,
                     xTicksToWait, xTimeOut>>
  BY DEF vTaskDelayUntil
<1>2. t \in Tasks
  BY Numbers
<1>3. /\ OwnInv(t) /\ t \notin Delayed(kernel) /\ t \notin xSuspendedTaskList
      /\ t \notin eventList /\ xPendingReadyList = {}
  BY <1>1, <1>2, RunsFacts
<1>4. /\ at'[t] = "delaying" /\ due'[t] = left /\ pxPreviousWakeTime'[t] = wake
      /\ \A u \in Tasks \ {t} : /\ at'[u] = at[u] /\ due'[u] = due[u]
                                /\ pxPreviousWakeTime'[u] = pxPreviousWakeTime[u]
  BY <1>1, <1>2 DEF TimeInv, TypeInv
<1>5. /\ due[t] \in Int /\ due[t] <= 0 /\ due[t] >= -MaxLate
      /\ Reaches(kernel, previous, due[t])
  BY <1>1, <1>2, <1>3 DEF OwnInv, TimeInv, TypeInv
<1>6. kernel \in Kernels /\ ListsExact(kernel, due) /\ c \in Ticks /\ previous \in Ticks
  BY <1>2, KernelFacts DEF TimeInv, TypeInv, TimesExact, ListsExact
<1>7. /\ wake \in Ticks /\ wake \in {c + left - TickMod, c + left, c + left + TickMod}
      /\ ShouldDelay(previous, wake, c) <=> left > 0
      /\ left > 0 => (wake - c) % TickMod = left
  <2>1. previous \in {c + due[t] - TickMod, c + due[t], c + due[t] + TickMod}
    BY <1>5 DEF Reaches
  <2> HIDE DEF c, previous
  <2>2. QED
    BY <1>5, <1>6, <2>1, ShouldDelayFacts
<1> HIDE DEF wake, c, previous
<1>8. left \in Int /\ left < TickMod /\ left >= -MaxLate
  BY <1>5, Numbers
<1> HIDE DEF left
<1>9. TypeInv'
  <2>1. due' \in [Tasks -> Int]
    BY <1>1, <1>5, Numbers DEF TimeInv, TypeInv
  <2>2. at' \in [Tasks -> Places]
    BY <1>1 DEF TimeInv, TypeInv, Places
  <2>3. pxPreviousWakeTime' \in [Tasks -> Ticks]
    BY <1>1, <1>7 DEF TimeInv, TypeInv
  <2>4. QED
    BY <1>1, <1>2, <2>1, <2>2, <2>3 DEF TimeInv, TypeInv
<1>10. /\ ListsExact(kernel', due') /\ SameCount(kernel, kernel')
       /\ Delayed(kernel') = Delayed(kernel) \cup (IF left > 0 THEN {t} ELSE {})
  <2>1. CASE left > 0
    <3>1. due \in [Tasks -> Int] /\ due' \in [Tasks -> Int]
      BY <1>9 DEF TimeInv, TypeInv
    <3>2. t \in Tasks \ Delayed(kernel)
      BY <1>2, <1>3
    <3>3. /\ ListsExact(prvAddToDelayedList(kernel, t, left), due')
          /\ Delayed(prvAddToDelayedList(kernel, t, left)) = Delayed(kernel) \cup {t}
          /\ SameCount(kernel, prvAddToDelayedList(kernel, t, left))
      BY <1>4, <1>6, <1>8, <2>1, <3>1, <3>2, EnterFacts
    <3>4. kernel' = prvAddToDelayedList(kernel, t, left)
      BY <1>1, <1>7, <2>1
    <3>5. QED
      BY <2>1, <3>3, <3>4
  <2>2. CASE ~ (left > 0)
    <3>1. kernel' = kernel
      BY <1>1, <1>7, <2>2
    <3>2. ListsExact(kernel', due') /\ SameCount(kernel, kernel')
      BY <1>3, <1>4, <3>1, KernelKept
    <3>3. QED
      BY <2>2, <3>1, <3>2
  <2>3. QED
    BY <2>1, <2>2
<1>11. Reaches(kernel', wake, left)
  <2>1. kernel'.xTickCount = c
    BY <1>10 DEF SameCount, c
  <2>2. QED
    BY <1>7, <2>1 DEF Reaches
<1>12. OwnInv(t)'
  <2>1. ~ Waits(t)'
    BY <1>4 DEF Waits
  <2>2. ~ Blocked(t)' => left <= 0
    BY <1>8, <1>10 DEF Blocked
  <2>3. QED
    BY <1>1, <1>3, <1>4, <1>8, <1>11, <2>1, <2>2 DEF OwnInv
<1>13. QED
  BY <1>1, <1>2, <1>3, <1>4, <1>9, <1>10, <1>12, OwnStep

-----------------------------------------------------------------------------
(* The steps of the clock, of interrupts and of xTaskResumeAll. *)

LEMMA NewLists ==
  ASSUME NEW k \in Kernels, NEW l, NEW o
  PROVE  [k EXCEPT !.pxDelayedTaskList = l, !.pxOverflowDelayedTaskList = o]
            = [xTickCount |-> k.xTickCount, xNumOfOverflows |-> k.xNumOfOverflows,
               pxDelayedTaskList |-> l, pxOverflowDelayedTaskList |-> o,
               xNextTaskUnblockTime |-> k.xNextTaskUnblockTime]
<1> DEFINE one == [k EXCEPT !.pxDelayedTaskList = l]
<1>1. one = [xTickCount |-> k.xTickCount, xNumOfOverflows |-> k.xNumOfOverflows,
             pxDelayedTaskList |-> l, pxOverflowDelayedTaskList |-> k.pxOverflowDelayedTaskList,
             xNextTaskUnblockTime |-> k.xNextTaskUnblockTime]
  BY DEF Kernels
<1>2. [k EXCEPT !.pxDelayedTaskList = l, !.pxOverflowDelayedTaskList = o]
         = [one EXCEPT !.pxOverflowDelayedTaskList = o]
  BY DEF Kernels
<1> HIDE DEF one
<1>3. QED
  BY <1>1, <1>2

LEMMA ResetLists ==
  ASSUME NEW k \in Kernels, NEW l, NEW o, NEW n
  PROVE  [k EXCEPT !.pxDelayedTaskList = l, !.pxOverflowDelayedTaskList = o,
                   !.xNextTaskUnblockTime = n]
            = [xTickCount |-> k.xTickCount, xNumOfOverflows |-> k.xNumOfOverflows,
               pxDelayedTaskList |-> l, pxOverflowDelayedTaskList |-> o,
               xNextTaskUnblockTime |-> n]
<1> DEFINE both == [k EXCEPT !.pxDelayedTaskList = l, !.pxOverflowDelayedTaskList = o]
<1>1. both = [xTickCount |-> k.xTickCount, xNumOfOverflows |-> k.xNumOfOverflows,
              pxDelayedTaskList |-> l, pxOverflowDelayedTaskList |-> o,
              xNextTaskUnblockTime |-> k.xNextTaskUnblockTime]
  BY NewLists
<1>2. [k EXCEPT !.pxDelayedTaskList = l, !.pxOverflowDelayedTaskList = o,
                !.xNextTaskUnblockTime = n] = [both EXCEPT !.xNextTaskUnblockTime = n]
  BY DEF Kernels
<1> HIDE DEF both
<1>3. QED
  BY <1>1, <1>2

LEMMA RecordsKept ==
  ASSUME NEW k, NEW next, NEW d, RecordsExact(k, d), SameCount(k, next)
  PROVE  RecordsExact(next, d)
BY DEF RecordsExact, SameCount, Since, Reaches

(* The time of a task in a delayed list passes, and that of a periodic one. *)
LEMMA TimedTasks ==
  ASSUME TimeInv
  PROVE  /\ \A t \in Periodic : ~ Exempt(t)
         /\ \A t \in Delayed(kernel) : ~ Exempt(t)
<1>1. ASSUME NEW t \in Periodic PROVE ~ Exempt(t)
  <2>1. at[t] \in {"elsewhere", "delaying"}
    BY DEF TimeInv, PlacesInv
  <2>2. QED
    BY <2>1 DEF Exempt, Forever
<1>2. ASSUME NEW t \in Delayed(kernel) PROVE ~ Exempt(t)
  <2>1. at[t] = "delaying" \/ (at[t] = "waiting" /\ Waits(t))
    BY DEF TimeInv, PlacesInv
  <2>2. QED
    BY <2>1 DEF Exempt, Forever, Waits
<1>3. QED
  BY <1>1, <1>2

(* n ticks are processed, and tasks whose event has come leave their lists. *)
LEMMA TimePasses ==
  ASSUME TimeInv, NEW n \in Nat, due' = Later(n), \A t \in Tasks : due[t] - n >= -MaxLate,
         TimesExact(kernel', due'), Delayed(kernel') \subseteq Delayed(kernel),
         \A t \in Delayed(kernel) \ Delayed(kernel') : due'[t] <= 0 \/ at[t] = "waiting",
         xSuspendedTaskList' \subseteq xSuspendedTaskList,
         eventList' = eventList \ (Delayed(kernel) \ Delayed(kernel')),
         eventList \cap xSuspendedTaskList \subseteq xSuspendedTaskList',
         suspendedBy' = NoTask, uxPendedTicks' = 0, xPendingReadyList' = {},
         UNCHANGED <<at, xTicksToWait, xTimeOut, pxPreviousWakeTime>>
  PROVE  TimeInv'
<1>1. due \in [Tasks -> Int] /\ MaxLate \in Nat /\ MaxPended \in Nat
  BY Numbers DEF TimeInv, TypeInv
<1>2. due' \in [Tasks -> Int] /\ \A t \in Tasks : due'[t] \in {due[t], due[t] - n}
  BY <1>1 DEF Later
<1>3. TypeInv'
  BY <1>1, <1>2 DEF TimeInv, TypeInv
<1>4. TimesExact(kernel, due)'
  BY DEF TimesExact, RecordsExact, Waits
<1>5. PlacesInv'
  <2>1. \A t \in Tasks : Waits(t)' <=> Waits(t)
    BY DEF Waits
  <2>2. Delayed(kernel) \subseteq Tasks /\ xSuspendedTaskList \subseteq Tasks
    BY KernelFacts, ListFacts DEF Delayed, TimeInv, TypeInv, TimesExact, ListsExact
  <2>3. \A t \in Delayed(kernel') : at'[t] = "delaying" \/ (at'[t] = "waiting" /\ Waits(t)')
    BY <2>1, <2>2 DEF TimeInv, PlacesInv
  <2>4. \A t \in xSuspendedTaskList' : at'[t] = "waiting" /\ ~ Waits(t)'
    BY <2>1, <2>2 DEF TimeInv, PlacesInv
  <2>5. \A t \in eventList' : at'[t] = "waiting" /\ Blocked(t)'
    BY DEF TimeInv, PlacesInv, Blocked
  <2>6. QED
    BY <2>3, <2>4, <2>5 DEF TimeInv, PlacesInv
<1>6. DueInv'
  <2>1. ASSUME NEW t \in Tasks
        PROVE  /\ due'[t] - 0 >= -MaxLate
               /\ at[t] = "elsewhere" => due'[t] <= 0 /\ (t \notin Periodic => due'[t] = 0)
               /\ at[t] = "timedOut" => due'[t] <= 0
               /\ at[t] = "delaying" /\ ~ Blocked(t)' => due'[t] <= 0
    <3>1. PICK x, y \in Int : x = due[t] /\ y = due'[t] /\ y \in {x, x - n}
      BY <1>1, <1>2
    <3>2. y - 0 >= -MaxLate
      BY <1>1, <3>1
    <3>3. at[t] = "elsewhere" => y <= 0 /\ (t \notin Periodic => y = 0)
      <4>1. at[t] = "elsewhere" => x <= 0 /\ (t \notin Periodic => x = 0)
        BY <3>1 DEF TimeInv, DueInv
      <4>2. at[t] = "elsewhere" /\ t \notin Periodic => y = x
        BY <3>1 DEF Later, Exempt
      <4>3. QED
        BY <3>1, <4>1, <4>2
    <3>4. at[t] = "timedOut" => y <= 0
      BY <3>1 DEF TimeInv, DueInv
    <3>5. ASSUME at[t] = "delaying", ~ Blocked(t)' PROVE y <= 0
      <4>1. CASE Blocked(t)
        <5>1. t \in Delayed(kernel) \ Delayed(kernel')
          BY <3>5, <4>1 DEF Blocked, TimeInv, PlacesInv
        <5>2. QED
          BY <3>1, <3>5, <5>1
      <4>2. CASE ~ Blocked(t)
        <5>1. x <= 0
          BY <3>1, <3>5, <4>2 DEF TimeInv, DueInv
        <5>2. QED
          BY <3>1, <5>1
      <4>3. QED
        BY <4>1, <4>2
    <3>6. QED
      BY <3>1, <3>2, <3>3, <3>4, <3>5
  <2>2. QED
    BY <2>1 DEF DueInv
<1>7. QED
  BY <1>3, <1>4, <1>5, <1>6 DEF TimeInv

LEMMA TickInv == ASSUME TimeInv, Tick PROVE TimeInv'
<1>1. /\ suspendedBy = NoTask /\ NobodyTooLate
      /\ kernel' = xTaskIncrementTick(kernel)
      /\ eventList' = eventList \ (Delayed(kernel) \ Delayed(kernel'))
      /\ UNCHANGED <<xSuspendedTaskList, uxPendedTicks, suspendedBy, xPendingReadyList,
                     at, xTicksToWait, xTimeOut, pxPreviousWakeTime>>
  BY DEF Tick
<1>2. due' = Later(1)
  BY DEF Tick, Elapse, Later, Exempt
<1>3. uxPendedTicks = 0 /\ xPendingReadyList = {}
  BY <1>1 DEF TimeInv, PlacesInv
<1>4. due \in [Tasks -> Int] /\ MaxLate \in Nat
  BY Numbers DEF TimeInv, TypeInv
<1>5. \A t \in Tasks : due[t] >= -MaxLate /\ due[t] - 1 >= -MaxLate
  <2>1. ASSUME NEW t \in Tasks PROVE due[t] >= -MaxLate /\ due[t] - 1 >= -MaxLate
    <3>1. due[t] - 0 > -MaxLate /\ due[t] \in Int
      BY <1>1, <1>3, <1>4 DEF NobodyTooLate
    <3>2. QED
      BY <1>4, <3>1
  <2>2. QED
    BY <2>1
<1>6. /\ TimesExact(xTaskIncrementTick(kernel), Later(1))
      /\ Delayed(xTaskIncrementTick(kernel)) \subseteq Delayed(kernel)
      /\ \A t \in Delayed(kernel) \ Delayed(xTaskIncrementTick(kernel)) : Later(1)[t] <= 0
  <2>1. TypeInv /\ TimesExact(kernel, due)
    BY DEF TimeInv
  <2>2. Later(1) \in [Tasks -> Int]
    BY <1>4 DEF Later
  <2>3. \A t \in Tasks : (~ Exempt(t) => Later(1)[t] = due[t] - 1) /\ Later(1)[t] >= -MaxLate
    BY <1>5 DEF Later
  <2>4. QED
    BY <1>4, <2>1, <2>2, <2>3, TimedTasks, OneTick
<1>7. /\ TimesExact(kernel', due') /\ Delayed(kernel') \subseteq Delayed(kernel)
      /\ \A t \in Delayed(kernel) \ Delayed(kernel') : due'[t] <= 0
  BY <1>1, <1>2, <1>6
<1>8. 1 \in Nat
  OBVIOUS
<1>9. QED
  BY <1>1, <1>2, <1>3, <1>5, <1>7, <1>8, TimePasses

LEMMA PendTickInv == ASSUME TimeInv, PendTick PROVE TimeInv'
<1>1. /\ suspendedBy # NoTask /\ uxPendedTicks < MaxPended /\ NobodyTooLate
      /\ uxPendedTicks' = uxPendedTicks + 1
      /\ UNCHANGED <<kernel, xSuspendedTaskList, suspendedBy, eventList, xPendingReadyList,
                     at, xTicksToWait, xTimeOut, pxPreviousWakeTime, due>>
  BY DEF PendTick
<1>2. TypeInv'
  BY <1>1, Numbers DEF TimeInv, TypeInv
<1>3. TimesExact(kernel, due)'
  BY <1>1 DEF TimeInv, TimesExact, RecordsExact, Waits
<1>4. PlacesInv'
  BY <1>1 DEF TimeInv, PlacesInv, Waits, Blocked
<1>5. DueInv'
  <2>1. ASSUME NEW t \in Tasks PROVE due[t] - (uxPendedTicks + 1) >= -MaxLate
    <3>1. /\ due[t] - uxPendedTicks > -MaxLate /\ due[t] \in Int /\ uxPendedTicks \in Int
          /\ MaxLate \in Int
      BY <1>1, Numbers DEF NobodyTooLate, TimeInv, TypeInv
    <3>2. QED
      BY <3>1
  <2>2. QED
    BY <1>1, <2>1 DEF TimeInv, DueInv, Blocked
<1>6. QED
  BY <1>2, <1>3, <1>4, <1>5 DEF TimeInv

LEMMA xTaskRemoveFromEventListInv ==
  ASSUME TimeInv, NEW t \in Tasks, xTaskRemoveFromEventList(t)
  PROVE  TimeInv'
<1>1. /\ t \in eventList /\ eventList' = eventList \ {t}
      /\ UNCHANGED <<uxPendedTicks, suspendedBy, at, xTicksToWait, xTimeOut,
                     pxPreviousWakeTime, due>>
  BY DEF xTaskRemoveFromEventList
<1>2. at[t] = "waiting" /\ Blocked(t)
  BY <1>1 DEF TimeInv, PlacesInv
<1>3. CASE suspendedBy = NoTask
  <2>1. /\ kernel' = [kernel EXCEPT !.pxDelayedTaskList = Without(@, {t}),
                                    !.pxOverflowDelayedTaskList = Without(@, {t})]
        /\ xSuspendedTaskList' = xSuspendedTaskList \ {t}
        /\ xPendingReadyList' = xPendingReadyList
    BY <1>3 DEF xTaskRemoveFromEventList
  <2>2. kernel \in Kernels /\ ListsExact(kernel, due) /\ RecordsExact(kernel, due)
        /\ due \in [Tasks -> Int]
    BY DEF TimeInv, TypeInv, TimesExact, ListsExact
  <2>3. kernel' = [xTickCount |-> kernel.xTickCount, xNumOfOverflows |-> kernel.xNumOfOverflows,
                   pxDelayedTaskList |-> Without(kernel.pxDelayedTaskList, {t}),
                   pxOverflowDelayedTaskList |-> Without(kernel.pxOverflowDelayedTaskList, {t}),
                   xNextTaskUnblockTime |-> kernel.xNextTaskUnblockTime]
    <3>1. kernel' = [kernel EXCEPT
             !.pxDelayedTaskList = Without(kernel.pxDelayedTaskList, {t}),
             !.pxOverflowDelayedTaskList = Without(kernel.pxOverflowDelayedTaskList, {t})]
      BY <2>1, <2>2 DEF Kernels
    <3>2. QED
      BY <2>2, <3>1, NewLists
  <2>4. /\ ListsExact(kernel', due) /\ Delayed(kernel') = Delayed(kernel) \ {t}
        /\ SameCount(kernel, kernel')
    BY <2>2, <2>3, LeaveFacts
  <2>5. RecordsExact(kernel', due)
    BY <2>2, <2>4, RecordsKept
  <2>6. TimesExact(kernel, due)'
    BY <1>1, <2>4, <2>5 DEF TimesExact, RecordsExact, Waits
  <2>7. TypeInv'
    BY <1>1, <2>1 DEF TimeInv, TypeInv
  <2>8. PlacesInv'
    BY <1>1, <1>3, <2>1, <2>4 DEF TimeInv, PlacesInv, Waits, Blocked
  <2>9. DueInv'
    BY <1>1, <1>2, <2>1, <2>4 DEF TimeInv, DueInv, Blocked
  <2>10. QED
    BY <2>6, <2>7, <2>8, <2>9 DEF TimeInv
<1>4. CASE suspendedBy # NoTask
  <2>1. /\ xPendingReadyList' = xPendingReadyList \cup {t}
        /\ UNCHANGED <<kernel, xSuspendedTaskList>>
    BY <1>4 DEF xTaskRemoveFromEventList
  <2>2. TimesExact(kernel, due)'
    BY <1>1, <2>1 DEF TimeInv, TimesExact, RecordsExact, Waits
  <2>3. TypeInv' /\ DueInv'
    BY <1>1, <2>1 DEF TimeInv, TypeInv, DueInv, Blocked
  <2>4. PlacesInv'
    BY <1>1, <1>2, <1>4, <2>1 DEF TimeInv, PlacesInv, Waits, Blocked
  <2>5. QED
    BY <2>2, <2>3, <2>4 DEF TimeInv
<1>5. QED
  BY <1>3, <1>4

LEMMA xTaskResumeAllInv ==
  ASSUME TimeInv, NEW t \in Tasks, xTaskResumeAll(t)
  PROVE  TimeInv'
<1> DEFINE P == xPendingReadyList
           list == Without(kernel.pxDelayedTaskList, P)
           other == Without(kernel.pxOverflowDelayedTaskList, P)
           readied == IF P = {} THEN kernel
                      ELSE [kernel EXCEPT !.pxDelayedTaskList = list,
                                          !.pxOverflowDelayedTaskList = Without(@, P),
                                          !.xNextTaskUnblockTime = NextUnblockTime(list)]
           n == uxPendedTicks
<1>1. /\ suspendedBy' = NoTask /\ kernel' = Ticked(readied, n)
      /\ xSuspendedTaskList' = xSuspendedTaskList \ P /\ xPendingReadyList' = {}
      /\ eventList' = eventList \ (Delayed(kernel) \ Delayed(kernel')) /\ uxPendedTicks' = 0
      /\ UNCHANGED <<at, xTicksToWait, xTimeOut, pxPreviousWakeTime>>
  BY DEF xTaskResumeAll
<1>2. due' = Later(n)
  BY DEF xTaskResumeAll, Elapse, Later, Exempt
<1>3. /\ kernel \in Kernels /\ ListsExact(kernel, due) /\ RecordsExact(kernel, due)
      /\ due \in [Tasks -> Int] /\ n \in Nat /\ MaxLate \in Nat
  BY Numbers DEF TimeInv, TypeInv, TimesExact, ListsExact
<1>4. ListsExact(readied, due) /\ Delayed(readied) = Delayed(kernel) \ P
      /\ SameCount(kernel, readied)
  <2>1. CASE P = {}
    BY <1>3, <2>1 DEF SameCount
  <2>2. CASE P # {}
    <3>1. readied = [xTickCount |-> kernel.xTickCount, xNumOfOverflows |-> kernel.xNumOfOverflows,
                     pxDelayedTaskList |-> list, pxOverflowDelayedTaskList |-> other,
                     xNextTaskUnblockTime |-> NextUnblockTime(list)]
      <4>1. readied = [kernel EXCEPT !.pxDelayedTaskList = list,
                                     !.pxOverflowDelayedTaskList = other,
                                     !.xNextTaskUnblockTime = NextUnblockTime(list)]
        BY <1>3, <2>2 DEF Kernels
      <4>2. \A l, o, first :
               [kernel EXCEPT !.pxDelayedTaskList = l, !.pxOverflowDelayedTaskList = o,
                              !.xNextTaskUnblockTime = first]
                 = [xTickCount |-> kernel.xTickCount, xNumOfOverflows |-> kernel.xNumOfOverflows,
                    pxDelayedTaskList |-> l, pxOverflowDelayedTaskList |-> o,
                    xNextTaskUnblockTime |-> first]
        BY <1>3, ResetLists
      <4> HIDE DEF readied, list, other
      <4>3. QED
        BY <4>1, <4>2
    <3> HIDE DEF readied, P
    <3>2. QED
      BY <1>3, <3>1, LeaveFacts
  <2>3. QED
    BY <2>1, <2>2
<1> HIDE DEF readied
<1>5. TimesExact(readied, due)
  BY <1>3, <1>4, RecordsKept DEF TimesExact
<1>6. \A u \in Tasks : due[u] >= -MaxLate /\ due[u] - n >= -MaxLate
  <2>1. ASSUME NEW u \in Tasks PROVE due[u] >= -MaxLate /\ due[u] - n >= -MaxLate
    <3>1. due[u] - n >= -MaxLate /\ due[u] \in Int
      BY <1>3 DEF TimeInv, DueInv
    <3>2. QED
      BY <1>3, <3>1
  <2>2. QED
    BY <2>1
<1>7. /\ TimesExact(Ticked(readied, n), Later(n))
      /\ Delayed(Ticked(readied, n)) \subseteq Delayed(readied)
      /\ \A u \in Delayed(readied) \ Delayed(Ticked(readied, n)) : Later(n)[u] <= 0
  <2>1. TypeInv /\ \A u \in Periodic : ~ Exempt(u)
    BY TimedTasks DEF TimeInv
  <2>2. \A u \in Delayed(readied) : ~ Exempt(u)
    BY <1>4, TimedTasks
  <2> HIDE DEF n
  <2>3. QED
    BY <1>3, <1>5, <1>6, <2>1, <2>2, ManyTicks
<1>8. /\ TimesExact(kernel', due') /\ Delayed(kernel') \subseteq Delayed(kernel)
      /\ \A u \in Delayed(kernel) \ Delayed(kernel') : due'[u] <= 0 \/ at[u] = "waiting"
  <2>1. \A u \in P : at[u] = "waiting"
    BY DEF TimeInv, PlacesInv
  <2> HIDE DEF n, P
  <2>2. QED
    BY <1>1, <1>2, <1>4, <1>7, <2>1
<1>9. eventList \cap P = {}
  BY DEF TimeInv, PlacesInv
<1>10. /\ xSuspendedTaskList' \subseteq xSuspendedTaskList
       /\ eventList \cap xSuspendedTaskList \subseteq xSuspendedTaskList'
  BY <1>1, <1>9
<1> HIDE DEF n, P
<1>11. QED
  BY <1>1, <1>2, <1>3, <1>6, <1>8, <1>10, TimePasses

-----------------------------------------------------------------------------
(* The theorem. *)

LEMMA InitTimeInv == Init => TimeInv
<1>1. SUFFICES ASSUME Init PROVE TimeInv
  OBVIOUS
<1>2. EmptyList \in Lists /\ DOMAIN EmptyList = {}
  <2>1. EmptyList \in [{} -> Ticks] /\ {} \in SUBSET Tasks
    BY DEF EmptyList
  <2>2. QED
    BY <2>1 DEF Lists
<1>3. kernel \in Kernels /\ Delayed(kernel) = {} /\ kernel.xTickCount = 0
  <2>1. kernel = [xTickCount |-> 0, xNumOfOverflows |-> 0, pxDelayedTaskList |-> EmptyList,
                  pxOverflowDelayedTaskList |-> EmptyList,
                  xNextTaskUnblockTime |-> portMAX_DELAY]
    BY <1>1 DEF Init
  <2>2. 0 \in Ticks /\ 0 \in 0 .. OverflowMod - 1 /\ portMAX_DELAY \in Ticks
    BY Numbers DEF Ticks
  <2>3. QED
    BY <1>2, <2>1, <2>2 DEF Kernels, Delayed
<1>4. /\ xSuspendedTaskList = {} /\ uxPendedTicks = 0 /\ suspendedBy = NoTask /\ eventList = {}
      /\ xPendingReadyList = {} /\ at = [t \in Tasks |-> "elsewhere"]
      /\ xTicksToWait = [t \in Tasks |-> 0] /\ xTimeOut = [t \in Tasks |-> NoTimeOut]
      /\ pxPreviousWakeTime = [t \in Tasks |-> 0] /\ due = [t \in Tasks |-> 0]
  BY <1>1 DEF Init
<1>5. TypeInv
  <2>1. /\ NoTimeOut \in TimeOuts /\ 0 \in Ticks /\ 0 \in 0 .. MaxPended /\ 0 \in Int
        /\ 0 \in 0 .. MaxWait \cup {portMAX_DELAY}
    BY Numbers DEF NoTimeOut, TimeOuts, Ticks
  <2>2. QED
    BY <1>4, <2>1 DEF TypeInv, Places
<1>6. PlacesInv
  BY <1>3, <1>4, Numbers DEF PlacesInv
<1>7. DueInv
  <2>1. 0 - 0 >= -MaxLate /\ 0 <= 0
    BY Numbers
  <2>2. QED
    BY <1>4, <2>1 DEF DueInv
<1>8. ListsExact(kernel, due)
  BY <1>3 DEF ListsExact, Delayed
<1>9. RecordsExact(kernel, due)
  <2>1. \A t \in Tasks : ~ Waits(t)
    BY <1>4 DEF Waits
  <2>2. \A t \in Periodic : t \in Tasks
    BY Numbers
  <2>3. \A t \in Periodic : Reaches(kernel, pxPreviousWakeTime[t], due[t])
    BY <1>3, <1>4, <2>2 DEF Reaches
  <2>4. QED
    BY <2>1, <2>3 DEF RecordsExact
<1>10. QED
  BY <1>5, <1>6, <1>7, <1>8, <1>9 DEF TimeInv, TimesExact

LEMMA NextTimeInv == TimeInv /\ [Next]_vars => TimeInv'
<1>1. SUFFICES ASSUME TimeInv, [Next]_vars PROVE TimeInv'
  OBVIOUS
<1>2. CASE Tick
  BY <1>1, <1>2, TickInv
<1>3. CASE PendTick
  BY <1>1, <1>3, PendTickInv
<1>4. ASSUME NEW t \in Tasks, xTaskRemoveFromEventList(t) PROVE TimeInv'
  BY <1>1, <1>4, xTaskRemoveFromEventListInv
<1>5. ASSUME NEW t \in Tasks, xTaskResumeAll(t) PROVE TimeInv'
  BY <1>1, <1>5, xTaskResumeAllInv
<1>6. ASSUME NEW t \in Tasks, DelayReturns(t) PROVE TimeInv'
  BY <1>1, <1>6, DelayReturnsInv
<1>7. ASSUME NEW t \in Tasks, WaitIsOver(t) PROVE TimeInv'
  BY <1>1, <1>7, WaitIsOverInv
<1>8. ASSUME NEW t \in Tasks, vTaskPlaceOnEventList(t) PROVE TimeInv'
  BY <1>1, <1>8, vTaskPlaceOnEventListInv
<1>9. ASSUME NEW t \in Tasks, TryAgain(t) PROVE TimeInv'
  BY <1>1, <1>9, TryAgainInv
<1>10. ASSUME NEW t \in Tasks, WaitReturns(t) PROVE TimeInv'
  BY <1>1, <1>10, WaitReturnsInv
<1>11. ASSUME NEW t \in Tasks \ Periodic, NEW ticks \in 1 .. MaxWait, vTaskDelay(t, ticks)
       PROVE  TimeInv'
  BY <1>1, <1>11, vTaskDelayInv
<1>12. ASSUME NEW t \in Tasks \ Periodic, NEW ticks \in 1 .. MaxWait \cup {portMAX_DELAY},
              BeginWait(t, ticks)
       PROVE  TimeInv'
  BY <1>1, <1>12, BeginWaitInv
<1>13. ASSUME NEW t \in Periodic, NEW increment \in 1 .. MaxWait, vTaskDelayUntil(t, increment)
       PROVE  TimeInv'
  BY <1>1, <1>13, vTaskDelayUntilInv
<1>14. CASE UNCHANGED vars
  <2>1. /\ kernel' = kernel /\ xSuspendedTaskList' = xSuspendedTaskList
        /\ uxPendedTicks' = uxPendedTicks /\ suspendedBy' = suspendedBy
        /\ eventList' = eventList /\ xPendingReadyList' = xPendingReadyList /\ at' = at
        /\ xTicksToWait' = xTicksToWait /\ xTimeOut' = xTimeOut
        /\ pxPreviousWakeTime' = pxPreviousWakeTime /\ due' = due
    BY <1>14 DEF vars
  <2>2. TypeInv' /\ PlacesInv' /\ DueInv'
    BY <1>1, <2>1 DEF TimeInv, TypeInv, PlacesInv, DueInv, Blocked, Waits
  <2>3. TimesExact(kernel, due)'
    BY <1>1, <2>1 DEF TimeInv, TimesExact, RecordsExact, Waits
  <2>4. QED
    BY <2>2, <2>3 DEF TimeInv
<1>15. QED
  BY <1>1, <1>2, <1>3, <1>4, <1>5, <1>6, <1>7, <1>8, <1>9, <1>10, <1>11, <1>12, <1>13, <1>14
     DEF Next

LEMMA TimeInvDelaysExact == TimeInv => DelaysExact
<1>1. SUFFICES ASSUME TimeInv PROVE DelaysExact
  OBVIOUS
<1>2. /\ kernel \in Kernels /\ ListsExact(kernel, due) /\ due \in [Tasks -> Int]
      /\ kernel.xTickCount \in Ticks /\ kernel.xNextTaskUnblockTime \in Ticks
  BY <1>1, KernelFacts DEF TimeInv, TypeInv, TimesExact, ListsExact
<1>3. TickMod \in Nat \ {0} /\ kernel.xTickCount \in Int
  BY <1>2, Numbers DEF Ticks
<1>4. /\ \A t \in DOMAIN kernel.pxDelayedTaskList :
            /\ t \in Tasks /\ due[t] \in Int /\ due[t] > 0
            /\ kernel.xTickCount + due[t] < TickMod
      /\ \A t \in DOMAIN kernel.pxOverflowDelayedTaskList :
            t \in Tasks /\ due[t] \in Int /\ due[t] > 0
  <2>1. ASSUME NEW t \in DOMAIN kernel.pxDelayedTaskList
        PROVE  /\ t \in Tasks /\ due[t] \in Int /\ due[t] > 0
               /\ kernel.xTickCount + due[t] < TickMod
    <3>1. t \in Tasks /\ kernel.pxDelayedTaskList[t] \in Ticks
      BY <1>2, KernelFacts, ListFacts
    <3>2. kernel.pxDelayedTaskList[t] = kernel.xTickCount + due[t] /\ due[t] > 0
      BY <1>2 DEF ListsExact
    <3>3. QED
      BY <1>2, <1>3, <3>1, <3>2 DEF Ticks
  <2>2. ASSUME NEW t \in DOMAIN kernel.pxOverflowDelayedTaskList
        PROVE  t \in Tasks /\ due[t] \in Int /\ due[t] > 0
    <3>1. t \in Tasks /\ kernel.pxOverflowDelayedTaskList[t] \in Ticks
      BY <1>2, KernelFacts, ListFacts
    <3>2. kernel.pxOverflowDelayedTaskList[t] = kernel.xTickCount + due[t] - TickMod
      BY <1>2 DEF ListsExact
    <3>3. PICK d, c, m, l \in Int : /\ d = due[t] /\ c = kernel.xTickCount /\ m = TickMod
                                    /\ l = kernel.pxOverflowDelayedTaskList[t]
                                    /\ 0 <= l /\ c < m
      BY <1>2, <1>3, <3>1 DEF Ticks
    <3>4. d > 0
      BY <3>2, <3>3
    <3>5. QED
      BY <3>1, <3>3, <3>4
  <2>3. QED
    BY <2>1, <2>2
<1>5. TypeOK
  <2>1. Delayed(kernel) \cap xSuspendedTaskList = {}
    BY <1>1 DEF TimeInv, PlacesInv
  <2>2. /\ xPendingReadyList \cap eventList = {}
        /\ xPendingReadyList \cup eventList \subseteq Delayed(kernel) \cup xSuspendedTaskList
    BY <1>1 DEF TimeInv, PlacesInv, Blocked
  <2>3. QED
    BY <1>1, <1>2, <2>1, <2>2 DEF TypeOK, TimeInv, TypeInv, Ticks
<1>6. \A t \in Delayed(kernel) : due[t] > 0
  BY <1>4 DEF Delayed
<1>7. \A t \in Tasks : (at[t] = "timedOut" \/ (at[t] = "delaying" /\ ~Blocked(t))) => due[t] <= 0
  BY <1>1 DEF TimeInv, DueInv
<1>8. kernel.xTickCount = portMAX_DELAY => DOMAIN kernel.pxDelayedTaskList = {}
  <2>1. ASSUME kernel.xTickCount = portMAX_DELAY, NEW t \in DOMAIN kernel.pxDelayedTaskList
        PROVE  FALSE
    <3>1. /\ due[t] \in Int /\ due[t] > 0 /\ kernel.xTickCount + due[t] < TickMod
          /\ kernel.xTickCount = TickMod - 1
      BY <1>4, <2>1, Numbers
    <3>2. QED
      BY <1>3, <3>1
  <2>2. QED
    BY <2>1
<1>9. QED
  BY <1>5, <1>6, <1>7, <1>8 DEF DelaysExact

(* No task sleeps past the end of its delay or of its wait, and none is     *)
(* told too early that it is over (vTaskDelay, vTaskDelayUntil,             *)
(* xTaskCheckForTimeOut), wherever the tick count comes round and however   *)
(* many ticks were pended; and the list that becomes the one for overflows  *)
(* is empty when the lists are switched.                                    *)
THEOREM TimeDelaysExact == Spec => []DelaysExact
<1>1. Init => TimeInv
  BY InitTimeInv
<1>2. TimeInv /\ [Next]_vars => TimeInv'
  BY NextTimeInv
<1>3. TimeInv => DelaysExact
  BY TimeInvDelaysExact
<1>4. QED
  BY <1>1, <1>2, <1>3, PTL DEF Spec
=============================================================================

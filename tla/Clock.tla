-------------------------------- MODULE Clock --------------------------------
(***************************************************************************)
(* The time of the board: the SNTP client (sntp_client/sntp.c), which lives *)
(* on the timers and the name lookups of the lwIP thread, and the calendar  *)
(* it sets (OSTime.c), which the task System_Time advances every second.    *)
(*                                                                          *)
(* SetCalendar copies a structure of two words and nothing protects it:     *)
(* System_Time has the highest priority and can run between the two.        *)
(* The time limits of the timers are not in the model, except for the       *)
(* growth of the retry delay: an armed timer goes off some day.             *)
(***************************************************************************)
EXTENDS Integers

CONSTANTS ServerDates,   \* the dates the server can answer
          NoDate,
          TimeoutPool,   \* timers of MEMP_NUM_SYS_TIMEOUT left to this client
          DnsRequests,   \* DNS_MAX_REQUESTS left to it
          RetryMax,      \* SNTP_RETRY_TIMEOUT_MAX in units of SNTP_RETRY_TIMEOUT
          MaxFlight,     \* bound: requests whose answer is under way
          MaxTicks       \* bound: seconds counted since the calendar was set

MonthLength == <<31, 28, 31, 30, 31, 30, 31, 31, 30, 31, 30, 31>>

Dates == [Year : Nat \ {0}, Month : 1 .. 12, Day : 1 .. 31, Hour : 0 .. 23,
          Min : 0 .. 59, Sec : 0 .. 59]

(* The Gregorian calendar, against which OSUpdateCalendar is checked. *)
IsLeap(y) == y % 4 = 0 /\ (y % 100 # 0 \/ y % 400 = 0)

DayLimit(y, m) == IF m = 2 /\ IsLeap(y) THEN 29 ELSE MonthLength[m]

Exists(rtc) == rtc \in Dates /\ rtc.Day <= DayLimit(rtc.Year, rtc.Month)

(* sntp_set_system_time makes a date with localtime: one that exists. *)
ASSUME ClockAssumption ==
    /\ \A rtc \in ServerDates : Exists(rtc)
    /\ NoDate \notin [rtc : ServerDates, rest : {"date", "time"}]
    /\ TimeoutPool \in Nat \ {0}
    /\ DnsRequests \in Nat
    /\ RetryMax \in Nat \ {0}
    /\ MaxFlight \in Nat
    /\ MaxTicks \in Nat

VARIABLES
    sntp_pcb,            \* sntp_init has run
    timers,              \* armed timers whose handler is sntp_request, sntp_retry
    timerLost,           \* ghost: the timer armed by sntp_init was lost
    dns,                 \* lookups whose sntp_dns_found is to come
    flight,              \* requests that may still be answered
    sntp_retry_timeout,  \* in units of SNTP_RETRY_TIMEOUT
    OSRtc,               \* the calendar
    copying,             \* what SetCalendar has still to copy: [rtc, rest]
    wall,                \* ghost: what the calendar should show
    torn,                \* ghost: a tick fell into the last SetCalendar
    ticks                \* ghost: seconds since the last SetCalendar

sntpVars     == <<sntp_pcb, timers, timerLost, dns, flight, sntp_retry_timeout>>
calendarVars == <<OSRtc, copying, wall, torn, ticks>>
clockVars         == <<sntpVars, calendarVars>>

-----------------------------------------------------------------------------
(* The calendar.                                                            *)

(* Mutant: the rule of the 400 years is forgotten. *)
LeapMonthNo400(rtc) ==
    IF rtc.Month = 2 /\ rtc.Year % 4 = 0 /\ rtc.Year % 100 # 0 THEN 1 ELSE 0

(* LeapMonth: the day that February has more. *)
LeapMonth(rtc) ==
    IF /\ rtc.Month = 2
       /\ rtc.Year % 4 = 0
       /\ rtc.Year % 100 = 0 => rtc.Year % 400 = 0
    THEN 1 ELSE 0

NextDay(rtc) ==
    IF rtc.Day + 1 <= MonthLength[rtc.Month] + LeapMonth(rtc)
    THEN [rtc EXCEPT !.Day = @ + 1]
    ELSE IF rtc.Month + 1 <= 12
         THEN [rtc EXCEPT !.Day = 1, !.Month = @ + 1]
         ELSE [rtc EXCEPT !.Day = 1, !.Month = 1, !.Year = @ + 1]

(* Mutant: the hour comes round one late. *)
OSUpdateCalendarHour24(rtc) ==
    CASE rtc.Sec + 1 < 60 -> [rtc EXCEPT !.Sec = @ + 1]
      [] rtc.Sec + 1 = 60 /\ rtc.Min < 59 -> [rtc EXCEPT !.Sec = 0, !.Min = @ + 1]
      [] rtc.Sec + 1 = 60 /\ rtc.Min >= 59 /\ rtc.Hour < 24 ->
             [rtc EXCEPT !.Sec = 0, !.Min = 0, !.Hour = @ + 1]
      [] OTHER -> NextDay([rtc EXCEPT !.Sec = 0, !.Min = 0, !.Hour = 0])

(* OSUpdateCalendar: one second later. *)
OSUpdateCalendar(rtc) ==
    CASE rtc.Sec + 1 < 60 -> [rtc EXCEPT !.Sec = @ + 1]
      [] rtc.Sec + 1 = 60 /\ rtc.Min < 59 -> [rtc EXCEPT !.Sec = 0, !.Min = @ + 1]
      [] rtc.Sec + 1 = 60 /\ rtc.Min >= 59 /\ rtc.Hour < 23 ->
             [rtc EXCEPT !.Sec = 0, !.Min = 0, !.Hour = @ + 1]
      [] OTHER -> NextDay([rtc EXCEPT !.Sec = 0, !.Min = 0, !.Hour = 0])

(* Init_Calendar *)
Init_Calendar ==
    [Year |-> 2011, Month |-> 3, Day |-> 28, Hour |-> 9, Min |-> 0, Sec |-> 30]

(* One word of the structure. *)
CopyWord(to, from, word) ==
    CASE word = "date" -> [to EXCEPT !.Year = from.Year, !.Month = from.Month,
                                     !.Day = from.Day]
      [] word = "time" -> [to EXCEPT !.Hour = from.Hour, !.Min = from.Min,
                                     !.Sec = from.Sec]

(* The definition of the calendar the ghost is kept with: the days since    *)
(* the year 1 and the seconds of the day.                                   *)
DaysBeforeMonth[m \in 1 .. 12] ==
    IF m = 1 THEN 0 ELSE DaysBeforeMonth[m - 1] + MonthLength[m - 1]

DaysBefore(y, m) == DaysBeforeMonth[m] + IF m > 2 /\ IsLeap(y) THEN 1 ELSE 0

DayNumber(y, m, d) ==
    365 * (y - 1) + (y - 1) \div 4 - (y - 1) \div 100 + (y - 1) \div 400 + DaysBefore(y, m) + d

SecondsOfDay == 86400

SecondOfDay(h, min, sec) == 3600 * h + 60 * min + sec

Instant(rtc) == [day |-> DayNumber(rtc.Year, rtc.Month, rtc.Day),
                 sec |-> SecondOfDay(rtc.Hour, rtc.Min, rtc.Sec)]

SecondAfter(t) ==
    [day |-> t.day + (t.sec + 1) \div SecondsOfDay, sec |-> (t.sec + 1) % SecondsOfDay]

(* What System_Time does every second, whatever the lwIP thread was doing.  *)
System_Time ==
    /\ ticks < MaxTicks
    /\ ticks' = ticks + 1
    /\ OSRtc' = OSUpdateCalendar(OSRtc)
    /\ wall' = SecondAfter(wall)
    /\ torn' = (torn \/ copying # NoDate)
    /\ UNCHANGED <<copying, sntpVars>>

-----------------------------------------------------------------------------
(* lwIP: sys_timeout does nothing when the pool is empty, sys_untimeout     *)
(* removes one timer of a handler.                                          *)

Armed(t) == t["request"] + t["retry"]

sys_timeout(t, handler) ==
    IF Armed(t) < TimeoutPool THEN [t EXCEPT ![handler] = @ + 1] ELSE t

sys_untimeout(t, handler) ==
    IF t[handler] > 0 THEN [t EXCEPT ![handler] = @ - 1] ELSE t

(* The lwIP thread runs one handler at a time. *)
LwipIdle == copying = NoDate

(* sntp_retry, and sntp_try_next_server: the next request after the delay,  *)
(* which is doubled as long as it stays within the limit.                   *)
sntp_retry(t) ==
    /\ timers' = sys_timeout(t, "request")
    /\ sntp_retry_timeout' = IF 2 * sntp_retry_timeout <= RetryMax
                             THEN 2 * sntp_retry_timeout
                             ELSE sntp_retry_timeout

(* Mutant: out of memory, the request is given up. *)
sntp_send_requestGivesUp(t) ==
    \/ /\ flight' = IF flight < MaxFlight THEN flight + 1 ELSE flight
       /\ timers' = sys_timeout(t, "retry")
    \/ /\ timers' = t
       /\ UNCHANGED flight

(* sntp_send_request: sent, or no pbuf to send it from. *)
sntp_send_request(t) ==
    \/ /\ flight' = IF flight < MaxFlight THEN flight + 1 ELSE flight
       /\ timers' = sys_timeout(t, "retry")
    \/ /\ timers' = sys_timeout(t, "request")
       /\ UNCHANGED flight

(* sntp_request: the lookup is started, answered from the table, or fails   *)
(* (no server, table full).                                                 *)
sntp_request(t) ==
    /\ \/ /\ dns < DnsRequests
          /\ dns' = dns + 1
          /\ timers' = t
          /\ UNCHANGED flight
       \/ /\ sntp_send_request(t)
          /\ UNCHANGED dns
       \/ /\ timers' = sys_timeout(t, "retry")
          /\ UNCHANGED <<dns, flight>>
    /\ UNCHANGED sntp_retry_timeout

(* sntp_init, called once by UpLwIP.  It uses the timers outside the lwIP   *)
(* thread, which may be in the middle of changing their list: what is armed *)
(* here can be lost.                                                        *)
sntp_init ==
    /\ ~ sntp_pcb
    /\ sntp_pcb' = TRUE
    /\ \/ sntp_request(timers) /\ UNCHANGED timerLost
       \/ /\ timerLost' = TRUE
          /\ UNCHANGED <<timers, dns, flight, sntp_retry_timeout>>
    /\ UNCHANGED calendarVars

(* A timer goes off and its handler runs. *)
TimerExpires(handler) ==
    /\ LwipIdle
    /\ timers[handler] > 0
    /\ LET left == sys_untimeout(timers, handler)
       IN  CASE handler = "request" -> sntp_request(left)
             [] handler = "retry"   -> sntp_retry(left) /\ UNCHANGED <<dns, flight>>
    /\ UNCHANGED <<sntp_pcb, timerLost, calendarVars>>

(* The lookup ends with an address or without. *)
sntp_dns_found ==
    /\ LwipIdle
    /\ dns > 0
    /\ dns' = dns - 1
    /\ \/ sntp_send_request(timers) /\ UNCHANGED sntp_retry_timeout
       \/ sntp_retry(timers) /\ UNCHANGED flight
    /\ UNCHANGED <<sntp_pcb, timerLost, calendarVars>>

(* sntp_recv when the packet is a kiss of death or no answer at all. *)
RefusedAnswer ==
    /\ LwipIdle
    /\ flight > 0
    /\ flight' = flight - 1
    /\ sntp_retry(sys_untimeout(sys_untimeout(timers, "retry"), "request"))
    /\ UNCHANGED <<sntp_pcb, timerLost, dns, calendarVars>>

(* sntp_recv with the time: the timers are stopped and the first word of    *)
(* the calendar is written; which one that is is the compiler's choice.     *)
sntp_recv(rtc, word) ==
    /\ LwipIdle
    /\ flight > 0
    /\ flight' = flight - 1
    /\ timers' = sys_untimeout(sys_untimeout(timers, "retry"), "request")
    /\ sntp_retry_timeout' = 1
    /\ OSRtc' = CopyWord(OSRtc, rtc, word)
    /\ copying' = [rtc |-> rtc, rest |-> IF word = "date" THEN "time" ELSE "date"]
    /\ torn' = FALSE
    /\ ticks' = 0
    /\ UNCHANGED <<sntp_pcb, timerLost, dns, wall>>

(* The second word, and the timer for the next request. *)
SetCalendar ==
    /\ ~ LwipIdle
    /\ OSRtc' = CopyWord(OSRtc, copying.rtc, copying.rest)
    /\ copying' = NoDate
    /\ wall' = Instant(copying.rtc)
    /\ timers' = sys_timeout(timers, "request")
    /\ UNCHANGED <<sntp_pcb, timerLost, dns, flight, sntp_retry_timeout, torn, ticks>>

(* The network loses a request or its answer. *)
AnswerLost ==
    /\ flight > 0
    /\ flight' = flight - 1
    /\ UNCHANGED <<sntp_pcb, timers, timerLost, dns, sntp_retry_timeout, calendarVars>>

-----------------------------------------------------------------------------

ClockInit ==
    /\ sntp_pcb = FALSE
    /\ timers = [h \in {"request", "retry"} |-> 0]
    /\ timerLost = FALSE
    /\ dns = 0
    /\ flight = 0
    /\ sntp_retry_timeout = 1
    /\ OSRtc = Init_Calendar
    /\ copying = NoDate
    /\ wall = Instant(Init_Calendar)
    /\ torn = FALSE
    /\ ticks = 0

ClockNext ==
    \/ System_Time
    \/ sntp_init
    \/ \E h \in {"request", "retry"} : TimerExpires(h)
    \/ sntp_dns_found
    \/ RefusedAnswer
    \/ \E rtc \in ServerDates, word \in {"date", "time"} : sntp_recv(rtc, word)
    \/ SetCalendar
    \/ AnswerLost

-----------------------------------------------------------------------------

ClockTypeOK ==
    /\ sntp_pcb \in BOOLEAN
    /\ timers \in [{"request", "retry"} -> 0 .. TimeoutPool]
    /\ timerLost \in BOOLEAN
    /\ dns \in 0 .. DnsRequests
    /\ flight \in 0 .. MaxFlight
    /\ sntp_retry_timeout \in 1 .. RetryMax
    /\ OSRtc \in Dates
    /\ copying \in {NoDate} \cup [rtc : ServerDates, rest : {"date", "time"}]
    /\ wall \in [day : Nat, sec : 0 .. SecondsOfDay - 1]
    /\ torn \in BOOLEAN
    /\ ticks \in 0 .. MaxTicks

(* The calendar shows the time the server gave plus the seconds counted     *)
(* since, through the ends of months and years, unless System_Time ran      *)
(* between the two words of SetCalendar.                                    *)
CalendarFollows == copying = NoDate /\ ~ torn => Instant(OSRtc) = wall

(* Even then, and while it is being set, the calendar shows a date that     *)
(* exists: OSUpdateCalendar uses it as an index and a limit.  The rest of   *)
(* the state is of its type, too.                                           *)
CalendarExists ==
    /\ ClockTypeOK
    /\ Exists(OSRtc)

(* The SNTP client never stops asking: whatever is lost, late, refused or   *)
(* out of memory, and although the answers of older requests cancel timers  *)
(* that are not theirs, another request is made.  The code has one way out: *)
(* the timer that sntp_init arms outside the lwIP thread is lost.           *)
AsksAgain ==
    \/ <>[](~ sntp_pcb \/ timerLost)
    \/ []<><<TimerExpires("request")>>_clockVars
==============================================================================

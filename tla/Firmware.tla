------------------------------- MODULE Firmware -------------------------------
(***************************************************************************)
(* The tasks of the firmware around the MQTT client: the light bulb demo,   *)
(* the clock and the console.  Their models have no state in common, and a  *)
(* behaviour here is one of a single part, so that the others need not be   *)
(* multiplied with it.                                                      *)
(***************************************************************************)
EXTENDS LightBulb, Clock, Console

VARIABLE part  \* the one that runs

vars == <<part, demoVars, clockVars, consoleVars>>

Init ==
    /\ part \in {"demo", "clock", "console"}
    /\ DemoInit
    /\ ClockInit
    /\ ConsoleInit

Next ==
    /\ UNCHANGED part
    /\ \/ /\ part = "demo" /\ DemoNext
          /\ UNCHANGED <<clockVars, consoleVars>>
       \/ /\ part = "clock" /\ ClockNext
          /\ UNCHANGED <<demoVars, consoleVars>>
       \/ /\ part = "console" /\ ConsoleNext
          /\ UNCHANGED <<demoVars, clockVars>>

(* The scheduler lets each task run and time limits end the waits that have *)
(* one.                                                                     *)
DemoFairness ==
    /\ \A b \in Bulbs : WF_demoVars(part = "demo" /\ ~ Stopped /\ BulbStep(b))
    /\ WF_demoVars(part = "demo" /\ ~ Stopped /\ UpdateStep)
    /\ WF_demoVars(part = "demo" /\ ~ Stopped /\ MqttStep)

(* The lwIP thread runs, a lookup ends and an armed timer goes off; the     *)
(* thread serves them between two packets, hence the strong fairness.       *)
ClockFairness ==
    /\ WF_clockVars(part = "clock" /\ SetCalendar)
    /\ SF_clockVars(part = "clock" /\ sntp_dns_found)
    /\ \A h \in {"request", "retry"} : SF_clockVars(part = "clock" /\ TimerExpires(h))

(* The scheduler runs every task that is ready and the UART works.  The     *)
(* mutex is handed to the waiting task of the highest priority and nobody   *)
(* prints again without a pause, so that a waiting task gets it in the end, *)
(* although others get it in between.                                       *)
ConsoleFairness ==
    /\ WF_consoleVars(part = "console" /\ Transmit)
    /\ WF_consoleVars(part = "console" /\ UARTIntHandler)
    /\ \A p \in Printers : /\ SF_consoleVars(part = "console" /\ TakeMutex(p))
                           /\ WF_consoleVars(part = "console" /\ PrintStep(p))

Spec == Init /\ [][Next]_vars /\ DemoFairness /\ ClockFairness /\ ConsoleFairness
==============================================================================

---------------------------- MODULE FirmwareProofs ----------------------------
(***************************************************************************)
(* Proofs about the console, the light bulb demo and the clock, as parts of *)
(* Firmware, for any tasks, lengths, dates and bounds.  The parts have no   *)
(* state in common: each has an inductive invariant of its own, which the   *)
(* steps of the others leave alone.                                         *)
(***************************************************************************)
EXTENDS Firmware, FiniteSetTheorems, TLAPS

-----------------------------------------------------------------------------
(* The console: who holds the mutex owns the transmitter, and what the      *)
(* transmitter, its interrupt and the semaphore are doing follows from      *)
(* where the holder is.                                                     *)

Printing == {"store", "enable", "wait", "give"}

(* The wire after n characters of the string of p. *)
Last(p, n) == IF n \in 1 .. Length(p) - 1 THEN [of |-> p, number |-> n] ELSE Empty

Quiet == dr = Empty /\ sUART0 = 0 /\ ~ txEnabled

(* The next character of p is in the data register. *)
InRegister(p) ==
    /\ dr = [of |-> p, number |-> sent[p] + 1] /\ ~ txRaw /\ sUART0 = 0
    /\ wire = Last(p, sent[p])

(* It has gone. *)
Gone(p) == dr = Empty /\ wire = Last(p, sent[p] + 1)

Holder(p) ==
    /\ at[p] \in Printing
    /\ at[p] = "store"  => Quiet /\ wire = Last(p, sent[p])
    /\ at[p] = "enable" => ~ txEnabled /\ \/ InRegister(p)
                                          \/ Gone(p) /\ txRaw /\ sUART0 = 0
    /\ at[p] = "wait"   => \/ txEnabled /\ InRegister(p)
                           \/ txEnabled /\ Gone(p) /\ txRaw /\ sUART0 = 0
                           \/ ~ txEnabled /\ Gone(p) /\ sUART0 = 1
    /\ at[p] = "give"   => Quiet /\ wire = Empty /\ sent[p] = Length(p)
    /\ at[p] # "give"   => sent[p] < Length(p)

ConsoleInv ==
    /\ ConsoleTypeOK
    /\ \A p \in Printers : at[p] \in Printing => mutexTx0 = p
    /\ \A p \in Printers : at[p] \notin Printing => sent[p] = 0
    /\ mutexTx0 = NoTask => Quiet /\ wire = Empty
    /\ mutexTx0 # NoTask => Holder(mutexTx0)

LEMMA LengthFacts ==
  ASSUME NEW p \in Printers
  PROVE  /\ Length(p) \in Nat \ {0} /\ Length(p) <= StringLength
         /\ p # NoTask
  BY ConsoleAssumption DEF Length, Printers

LEMMA CharacterFacts ==
  /\ Empty \in Characters
  /\ \A p \in Printers, n \in 1 .. StringLength : [of |-> p, number |-> n] \in Characters
  /\ \A p \in Printers, n \in Nat : [of |-> p, number |-> n] # Empty
  /\ \A p \in Printers, n \in Nat : Last(p, n) \in Characters
<1>1. \A p \in Printers, n \in 1 .. StringLength : [of |-> p, number |-> n] \in Characters
  BY ConsoleAssumption DEF Characters
<1>2. Empty \in Characters
  BY ConsoleAssumption DEF Characters, Empty
<1>3. ASSUME NEW p \in Printers, NEW n \in Nat PROVE [of |-> p, number |-> n] # Empty
  BY LengthFacts DEF Empty
<1>4. ASSUME NEW p \in Printers, NEW n \in Nat PROVE Last(p, n) \in Characters
  <2>1. n \in 1 .. Length(p) - 1 => n \in 1 .. StringLength
    BY LengthFacts, ConsoleAssumption
  <2>2. QED
    BY <1>1, <1>2, <2>1 DEF Last
<1>5. QED
  BY <1>1, <1>2, <1>3, <1>4

LEMMA ConsoleInitInv == ConsoleInit => ConsoleInv
<1> SUFFICES ASSUME ConsoleInit PROVE ConsoleInv
  OBVIOUS
<1>1. ConsoleTypeOK
  <2>1. 0 \in 0 .. StringLength /\ 0 \in 0 .. 2 /\ 0 \in 0 .. 1 /\ 0 \in 0 .. RxQueueLength
    BY ConsoleAssumption
  <2>2. QED
    BY <2>1, CharacterFacts DEF ConsoleInit, ConsoleTypeOK
<1>2. QED
  BY <1>1 DEF ConsoleInit, ConsoleInv, Printing, Quiet

(* Steps that leave the transmitter, the mutex and who is printing alone. *)
LEMMA ConsoleAsideInv ==
  ASSUME ConsoleInv, ConsoleTypeOK',
         UNCHANGED <<sent, mutexTx0, sUART0, dr, txRaw, txEnabled, wire>>,
         \A p \in Printers : at'[p] = at[p] \/ {at[p], at'[p]} \cap Printing = {}
  PROVE  ConsoleInv'
<1>1. mutexTx0 # NoTask => mutexTx0 \in Printers /\ at'[mutexTx0] = at[mutexTx0]
  BY DEF ConsoleInv, ConsoleTypeOK, Holder
<1>2. mutexTx0 # NoTask => Holder(mutexTx0)'
  <2> SUFFICES ASSUME mutexTx0 # NoTask PROVE Holder(mutexTx0)'
    OBVIOUS
  <2>1. PICK p \in Printers : p = mutexTx0 /\ Holder(p) /\ at'[p] = at[p]
    BY <1>1 DEF ConsoleInv
  <2>2. QED
    BY <2>1 DEF Holder, Quiet, InRegister, Gone, Last
<1>3. QED
  BY <1>2 DEF ConsoleInv, Quiet

(* What a step of the holder has to do. *)
LEMMA ConsoleHolderInv ==
  ASSUME ConsoleInv, NEW p \in Printers, at[p] \in Printing \/ mutexTx0 = NoTask,
         ConsoleTypeOK', mutexTx0' = p, Holder(p)',
         \A q \in Printers : q # p => at'[q] = at[q] /\ sent'[q] = sent[q]
  PROVE  ConsoleInv'
<1>1. \A q \in Printers : q # p => at[q] \notin Printing
  BY LengthFacts DEF ConsoleInv
<1>2. at'[p] \in Printing
  BY DEF Holder
<1>3. QED
  BY <1>1, <1>2, LengthFacts DEF ConsoleInv

LEMMA PrintStepInv ==
  ASSUME ConsoleInv, NEW p \in Printers, PrintStep(p)
  PROVE  ConsoleInv'
<1> USE DEF ConsoleInv
<1>1. /\ Length(p) \in Nat \ {0} /\ Length(p) <= StringLength /\ p # NoTask
      /\ sent[p] \in 0 .. StringLength
  BY LengthFacts DEF ConsoleTypeOK
<1>2. at[p] \in Printing => mutexTx0 = p /\ Holder(p)
  BY <1>1
<1>3. CASE TakeMutex(p)
  <2>1. /\ at[p] = "mutex" /\ mutexTx0 = NoTask /\ mutexTx0' = p
        /\ at' = [at EXCEPT ![p] = "store"]
        /\ UNCHANGED <<console, sent, echo, sUART0, qUART0, dr, txRaw, txEnabled, rxRaw, wire>>
    BY <1>3 DEF TakeMutex
  <2>2. ConsoleTypeOK'
    BY <2>1 DEF ConsoleTypeOK
  <2>3. at'[p] = "store" /\ \A q \in Printers : q # p => at'[q] = at[q] /\ sent'[q] = sent[q]
    BY <2>1 DEF ConsoleTypeOK
  <2>4. sent[p] = 0 /\ Quiet /\ wire = Empty
    BY <2>1 DEF Printing
  <2>5. Holder(p)'
    BY <1>1, <2>1, <2>3, <2>4 DEF Holder, Quiet, Last, Printing, Length
  <2>6. QED
    BY <2>1, <2>2, <2>3, <2>5, ConsoleHolderInv
<1>4. CASE Store(p)
  <2>1. /\ at[p] = "store" /\ dr' = [of |-> p, number |-> sent[p] + 1] /\ txRaw' = FALSE
        /\ at' = [at EXCEPT ![p] = "enable"]
        /\ UNCHANGED <<console, sent, echo, mutexTx0, sUART0, qUART0, txEnabled, rxRaw, wire>>
    BY <1>4 DEF Store
  <2>2. at[p] \in Printing /\ Quiet /\ wire = Last(p, sent[p]) /\ sent[p] < Length(p)
    BY <1>2, <2>1 DEF Holder, Printing
  <2>3. ConsoleTypeOK'
    <3>1. sent[p] + 1 \in 1 .. StringLength
      BY <1>1, <2>2, ConsoleAssumption
    <3>2. dr' \in Characters
      BY <2>1, <3>1, CharacterFacts
    <3>3. QED
      BY <2>1, <3>2 DEF ConsoleTypeOK
  <2>4. at'[p] = "enable" /\ \A q \in Printers : q # p => at'[q] = at[q] /\ sent'[q] = sent[q]
    BY <2>1 DEF ConsoleTypeOK
  <2>5. Holder(p)'
    BY <2>1, <2>2, <2>4 DEF Holder, Quiet, InRegister, Last, Printing, Length
  <2>6. QED
    BY <1>2, <2>1, <2>2, <2>3, <2>4, <2>5, ConsoleHolderInv
<1>5. CASE EnableTx(p)
  <2>1. /\ at[p] = "enable" /\ txEnabled' = TRUE
        /\ at' = [at EXCEPT ![p] = "wait"]
        /\ UNCHANGED <<console, sent, echo, mutexTx0, sUART0, qUART0, dr, txRaw, rxRaw, wire>>
    BY <1>5 DEF EnableTx
  <2>2. /\ at[p] \in Printing /\ sent[p] < Length(p)
        /\ \/ InRegister(p)
           \/ Gone(p) /\ txRaw /\ sUART0 = 0
    BY <1>2, <2>1 DEF Holder, Printing
  <2>3. ConsoleTypeOK'
    BY <2>1 DEF ConsoleTypeOK
  <2>4. at'[p] = "wait" /\ \A q \in Printers : q # p => at'[q] = at[q] /\ sent'[q] = sent[q]
    BY <2>1 DEF ConsoleTypeOK
  <2>5. Holder(p)'
    BY <2>1, <2>2, <2>4 DEF Holder, InRegister, Gone, Last, Printing, Length
  <2>6. QED
    BY <1>2, <2>1, <2>2, <2>3, <2>4, <2>5, ConsoleHolderInv
<1>6. CASE TakeSemaphore(p)
  <2>1. /\ at[p] = "wait" /\ sUART0 = 1 /\ sUART0' = 0
        /\ sent' = [sent EXCEPT ![p] = @ + 1]
        /\ at' = [at EXCEPT ![p] = IF sent[p] + 1 < Length(p) THEN "store" ELSE "give"]
        /\ UNCHANGED <<console, echo, mutexTx0, qUART0, dr, txRaw, txEnabled, rxRaw, wire>>
    BY <1>6 DEF TakeSemaphore
  <2>2. at[p] \in Printing /\ ~ txEnabled /\ Gone(p) /\ sent[p] < Length(p)
    BY <1>2, <2>1 DEF Holder, InRegister, Printing
  <2>3. ConsoleTypeOK'
    <3>1. sent[p] + 1 \in 0 .. StringLength
      BY <1>1, <2>2, ConsoleAssumption
    <3>2. QED
      BY <2>1, <3>1 DEF ConsoleTypeOK
  <2>4. /\ at'[p] = (IF sent[p] + 1 < Length(p) THEN "store" ELSE "give") /\ sent'[p] = sent[p] + 1
        /\ \A q \in Printers : q # p => at'[q] = at[q] /\ sent'[q] = sent[q]
    BY <2>1 DEF ConsoleTypeOK
  <2>5. Holder(p)'
    BY <1>1, <2>1, <2>2, <2>4 DEF Holder, Quiet, Gone, Last, Printing, Length
  <2>6. QED
    BY <1>2, <2>1, <2>2, <2>3, <2>4, <2>5, ConsoleHolderInv
<1>7. CASE GiveMutex(p)
  <2>1. /\ at[p] = "give" /\ mutexTx0' = NoTask
        /\ at' = [at EXCEPT ![p] = "idle"] /\ sent' = [sent EXCEPT ![p] = 0]
        /\ UNCHANGED <<console, echo, sUART0, qUART0, dr, txRaw, txEnabled, rxRaw, wire>>
    BY <1>7 DEF GiveMutex
  <2>2. at[p] \in Printing /\ Quiet /\ wire = Empty
    BY <1>2, <2>1 DEF Holder, Printing
  <2>3. ConsoleTypeOK'
    BY <2>1, ConsoleAssumption DEF ConsoleTypeOK
  <2>4. /\ at'[p] = "idle" /\ sent'[p] = 0
        /\ \A q \in Printers : q # p => at'[q] = at[q] /\ sent'[q] = sent[q] /\ at[q] \notin Printing
    BY <1>2, <2>1, <2>2 DEF ConsoleTypeOK
  <2>5. QED
    BY <2>1, <2>2, <2>3, <2>4 DEF Quiet, Printing
<1>8. QED
  BY <1>3, <1>4, <1>5, <1>6, <1>7 DEF PrintStep

(* The UART takes the character of the holder, whose interrupt follows. *)
LEMMA TransmitInv ==
  ASSUME ConsoleInv, Transmit
  PROVE  ConsoleInv'
<1>1. /\ dr # Empty /\ wire' = IF dr.number < Length(dr.of) THEN dr ELSE Empty
      /\ dr' = Empty /\ txRaw' = TRUE
      /\ UNCHANGED <<console, at, sent, echo, mutexTx0, sUART0, qUART0, txEnabled, rxRaw>>
  BY DEF Transmit
<1>2. PICK p \in Printers : mutexTx0 = p /\ Holder(p)
  BY <1>1 DEF ConsoleInv, ConsoleTypeOK, Quiet
<1>3. at[p] \in {"enable", "wait"} /\ InRegister(p) /\ sent[p] < Length(p)
  BY <1>1, <1>2 DEF Holder, Quiet, Gone, Printing
<1>4. /\ Length(p) \in Nat \ {0} /\ Length(p) <= StringLength /\ sent[p] \in 0 .. StringLength
  BY LengthFacts DEF ConsoleInv, ConsoleTypeOK
<1>5. dr.of = p /\ dr.number = sent[p] + 1 /\ wire' = Last(p, sent[p] + 1)
  BY <1>1, <1>3, <1>4 DEF InRegister, Last
<1>6. ConsoleTypeOK'
  <2>1. wire' \in Characters /\ dr' \in Characters
    BY <1>1, CharacterFacts DEF ConsoleInv, ConsoleTypeOK
  <2>2. QED
    BY <1>1, <2>1 DEF ConsoleInv, ConsoleTypeOK
<1>7. Holder(p)'
  BY <1>1, <1>2, <1>3, <1>5 DEF Holder, InRegister, Gone, Last, Length, Printing
<1>8. QED
  BY <1>1, <1>2, <1>3, <1>6, <1>7, ConsoleHolderInv DEF Printing

LEMMA UARTIntHandlerInv ==
  ASSUME ConsoleInv, UARTIntHandler
  PROVE  ConsoleInv'
<1>1. /\ rxRaw' = FALSE
      /\ qUART0' = IF rxRaw /\ qUART0 < RxQueueLength THEN qUART0 + 1 ELSE qUART0
      /\ IF txRaw /\ txEnabled
         THEN txRaw' = FALSE /\ txEnabled' = FALSE /\ sUART0' = 1
         ELSE UNCHANGED <<txRaw, txEnabled, sUART0>>
      /\ UNCHANGED <<console, at, sent, echo, mutexTx0, dr, wire>>
  BY DEF UARTIntHandler
<1>2. ConsoleTypeOK'
  <2>1. qUART0' \in 0 .. RxQueueLength
    BY <1>1, ConsoleAssumption DEF ConsoleInv, ConsoleTypeOK
  <2>2. sUART0' \in 0 .. 1
    BY <1>1 DEF ConsoleInv, ConsoleTypeOK
  <2>3. txRaw' \in BOOLEAN /\ txEnabled' \in BOOLEAN /\ rxRaw' \in BOOLEAN
    BY <1>1, Zenon DEF ConsoleInv, ConsoleTypeOK
  <2>4. QED
    BY <1>1, <2>1, <2>2, <2>3 DEF ConsoleInv, ConsoleTypeOK
<1>3. CASE ~ (txRaw /\ txEnabled)
  BY <1>1, <1>2, <1>3, ConsoleAsideInv
<1>4. CASE txRaw /\ txEnabled
  <2>1. PICK p \in Printers : mutexTx0 = p /\ Holder(p)
    BY <1>4 DEF ConsoleInv, ConsoleTypeOK, Quiet
  <2>2. at[p] = "wait" /\ Gone(p) /\ sent[p] < Length(p)
    BY <1>4, <2>1 DEF Holder, Quiet, InRegister, Printing
  <2>3. Holder(p)'
    BY <1>1, <1>4, <2>1, <2>2 DEF Holder, Gone, Last, Length, Printing
  <2>4. QED
    BY <1>1, <1>2, <2>1, <2>2, <2>3, ConsoleHolderInv DEF Printing
<1>5. QED
  BY <1>3, <1>4

LEMMA ConsoleNextInv == ConsoleInv /\ [ConsoleNext]_consoleVars => ConsoleInv'
<1> SUFFICES ASSUME ConsoleInv, [ConsoleNext]_consoleVars PROVE ConsoleInv'
  OBVIOUS
<1>1. CASE CreateConsole \/ UARTGetChar \/ Receive \/ UNCHANGED consoleVars
  <2>1. /\ UNCHANGED <<at, sent, mutexTx0, sUART0, dr, txRaw, txEnabled, wire>>
        /\ console' \in {"none", "ready", "without", "deleted"}
        /\ echo' \in 0 .. 2 /\ qUART0' \in 0 .. RxQueueLength /\ rxRaw' \in BOOLEAN
    <3>1. /\ console \in {"none", "ready", "without", "deleted"} /\ rxRaw \in BOOLEAN
          /\ echo \in 0 .. 2 /\ qUART0 \in 0 .. RxQueueLength
      BY DEF ConsoleInv, ConsoleTypeOK
    <3>2. {1, 2} \subseteq 0 .. 2 /\ (qUART0 > 0 => qUART0 - 1 \in 0 .. RxQueueLength)
      BY <3>1, ConsoleAssumption
    <3>3. CASE CreateConsole
      BY <3>1, <3>3 DEF CreateConsole
    <3>4. CASE UARTGetChar
      BY <3>1, <3>2, <3>4 DEF UARTGetChar
    <3>5. CASE Receive \/ UNCHANGED consoleVars
      BY <3>1, <3>5 DEF Receive, consoleVars
    <3>6. QED
      BY <1>1, <3>3, <3>4, <3>5
  <2>2. ConsoleTypeOK'
    BY <2>1 DEF ConsoleInv, ConsoleTypeOK
  <2>3. QED
    BY <2>1, <2>2, ConsoleAsideInv
<1>2. ASSUME NEW p \in Printers, Call(p), echo' \in 0 .. 2 PROVE ConsoleInv'
  <2>1. /\ at[p] = "idle"
        /\ UNCHANGED <<console, sent, mutexTx0, sUART0, qUART0, dr, txRaw, txEnabled, rxRaw, wire>>
    BY <1>2 DEF Call
  <2>2. PICK place \in {"mutex", "idle", "undefined"} : at' = [at EXCEPT ![p] = place]
    BY <1>2 DEF Call, ConsoleInv, ConsoleTypeOK
  <2>3. ConsoleTypeOK'
    BY <1>2, <2>1, <2>2 DEF ConsoleInv, ConsoleTypeOK
  <2>4. \A q \in Printers : at'[q] = at[q] \/ {at[q], at'[q]} \cap Printing = {}
    BY <2>1, <2>2 DEF ConsoleInv, ConsoleTypeOK, Printing
  <2>5. QED
    BY <2>1, <2>3, <2>4, ConsoleAsideInv
<1>3. ASSUME NEW w \in Writers, Call(w) /\ UNCHANGED echo PROVE ConsoleInv'
  BY <1>2, <1>3 DEF Printers, ConsoleInv, ConsoleTypeOK
<1>4. CASE Echo
  <2>1. echo' \in 0 .. 2 /\ Call(Terminal) /\ Terminal \in Printers
    BY <1>4 DEF Echo, Printers, ConsoleInv, ConsoleTypeOK
  <2>2. QED
    BY <1>2, <2>1
<1>5. QED
  BY <1>1, <1>3, <1>4, PrintStepInv, TransmitInv, UARTIntHandlerInv DEF ConsoleNext

(* A string goes out whole, whoever else wants to print: UARTPutString      *)
(* overwrites no character, and the characters of a string follow each      *)
(* other on the wire without one of another string between them.            *)
THEOREM ConsoleStringsWhole == Spec => []StringsWhole
<1>1. Init => ConsoleInv
  BY ConsoleInitInv DEF Init
<1>2. ConsoleInv /\ [Next]_vars => ConsoleInv'
  BY ConsoleNextInv DEF Next, vars
<1>3. ConsoleInv => StringsWhole
  <2> SUFFICES ASSUME ConsoleInv PROVE StringsWhole
    OBVIOUS
  <2>1. ASSUME NEW p \in Printers, at[p] = "store" PROVE dr = Empty /\ sUART0 = 0
    BY <2>1, LengthFacts DEF ConsoleInv, Holder, Quiet, Printing
  <2>2. ASSUME dr # Empty PROVE wire = IF dr.number = 1 THEN Empty ELSE [dr EXCEPT !.number = @ - 1]
    <3>1. PICK p \in Printers : mutexTx0 = p /\ Holder(p)
      BY <2>2 DEF ConsoleInv, ConsoleTypeOK, Quiet
    <3>2. InRegister(p) /\ sent[p] < Length(p)
      BY <2>2, <3>1 DEF Holder, Quiet, Gone, Printing
    <3>3. sent[p] \in Nat /\ Length(p) \in Nat
      BY LengthFacts, ConsoleAssumption DEF ConsoleInv, ConsoleTypeOK
    <3>4. dr = [of |-> p, number |-> sent[p] + 1] /\ wire = Last(p, sent[p])
      BY <3>2 DEF InRegister
    <3>5. CASE sent[p] = 0
      BY <3>3, <3>4, <3>5 DEF Last
    <3>6. CASE sent[p] # 0
      <4>1. wire = [of |-> p, number |-> sent[p]]
        BY <3>2, <3>3, <3>4, <3>6 DEF Last
      <4>2. dr.number # 1 /\ [dr EXCEPT !.number = @ - 1] = [of |-> p, number |-> sent[p]]
        BY <3>3, <3>4, <3>6
      <4>3. QED
        BY <4>1, <4>2
    <3>7. QED
      BY <3>5, <3>6
  <2>3. QED
    BY <2>1, <2>2 DEF StringsWhole, ConsoleInv
<1>4. QED
  BY <1>1, <1>2, <1>3, PTL DEF Spec

-----------------------------------------------------------------------------
(* The demo: a task that waits is in exactly one of three places. *)

Queued(b) == \E i \in 1 .. Len(xUpdateQueue) : xUpdateQueue[i] = b

DemoInv ==
    /\ DemoTypeOK
    /\ update \in {"none", "receive"} => xTaskToNotify = NoBulb
    /\ \A i, j \in 1 .. Len(xUpdateQueue) :
          xUpdateQueue[i] = xUpdateQueue[j] /\ xUpdateQueue[i] # NoBulb => i = j
    /\ \A b \in Bulbs :
          /\ notified[b] \in {0, 1}
          /\ bulb[b] = "wait" <=> \/ Queued(b)
                                  \/ xTaskToNotify = b
                                  \/ notified[b] = 1
          /\ Queued(b) => xTaskToNotify # b /\ notified[b] = 0
          /\ xTaskToNotify = b => notified[b] = 0

LEMMA DemoInitInv == DemoInit => DemoInv
<1> SUFFICES ASSUME DemoInit PROVE DemoInv
  OBVIOUS
<1>1. xUpdateQueue = <<>> /\ Len(xUpdateQueue) = 0
  BY DEF DemoInit
<1>2. DemoTypeOK
  BY <1>1, LightBulbAssumption DEF DemoInit, DemoTypeOK
<1>3. \A i : i \notin 1 .. Len(xUpdateQueue)
  BY <1>1
<1>4. QED
  BY <1>2, <1>3, LightBulbAssumption DEF DemoInit, DemoInv, Queued

(* Steps that leave the updates and the notifications alone. *)
LEMMA DemoAsideInv ==
  ASSUME DemoInv, DemoTypeOK', UNCHANGED <<xTaskToNotify, xUpdateQueue, notified>>,
         update' \in {"none", "receive"} => update \in {"none", "receive"},
         \A b \in Bulbs : bulb'[b] = "wait" <=> bulb[b] = "wait"
  PROVE  DemoInv'
<1>1. \A b : Queued(b)' <=> Queued(b)
  BY DEF Queued
<1>2. QED
  BY <1>1 DEF DemoInv

(* xQueueSendToBack of an update: of a task that does not wait yet, or of   *)
(* nobody.                                                                  *)
LEMMA QueueSendFacts ==
  ASSUME DemoInv, NEW item \in Bulbs \cup {NoBulb}, QueueSend(item),
         item \in Bulbs => bulb[item] # "wait"
  PROVE  /\ xUpdateQueue' \in Seq(Bulbs \cup {NoBulb}) /\ Len(xUpdateQueue') <= UpdateQueueLength
         /\ \A b \in Bulbs : Queued(b)' <=> Queued(b) \/ b = item
         /\ \A i, j \in 1 .. Len(xUpdateQueue') :
               xUpdateQueue'[i] = xUpdateQueue'[j] /\ xUpdateQueue'[i] # NoBulb => i = j
<1> DEFINE q == xUpdateQueue
           n == Len(q)
<1>1. q \in Seq(Bulbs \cup {NoBulb}) /\ n \in Nat /\ n < UpdateQueueLength /\ q' = Append(q, item)
  BY DEF DemoInv, DemoTypeOK, QueueSend
<1>2. /\ q' \in Seq(Bulbs \cup {NoBulb}) /\ Len(q') = n + 1 /\ q'[n + 1] = item
      /\ \A i \in 1 .. n : q'[i] = q[i]
  BY <1>1
<1>3. Len(q') <= UpdateQueueLength
  BY <1>1, <1>2, LightBulbAssumption
<1>4. \A i \in 1 .. Len(q') : i \in 1 .. n \/ i = n + 1
  BY <1>1, <1>2
<1>5. n + 1 \in 1 .. Len(q') /\ \A i \in 1 .. n : i \in 1 .. Len(q')
  BY <1>1, <1>2
<1>6. ASSUME NEW b \in Bulbs PROVE Queued(b)' <=> Queued(b) \/ b = item
  BY <1>2, <1>4, <1>5 DEF Queued
<1>7. item \in Bulbs => \A i \in 1 .. n : q[i] # item
  BY DEF DemoInv, Queued
<1>8. ASSUME NEW i \in 1 .. Len(q'), NEW j \in 1 .. Len(q'), q'[i] = q'[j], q'[i] # NoBulb
      PROVE  i = j
  <2>1. CASE i \in 1 .. n /\ j \in 1 .. n
    BY <1>2, <1>8, <2>1 DEF DemoInv
  <2>2. CASE i = n + 1 \/ j = n + 1
    <3>1. item \in Bulbs
      BY <1>2, <1>8, <2>2
    <3>2. QED
      BY <1>2, <1>4, <1>7, <1>8, <2>2, <3>1
  <2>3. QED
    BY <1>4, <2>1, <2>2
<1>9. QED
  BY <1>2, <1>3, <1>6, <1>8

LEMMA SendUpdateInv ==
  ASSUME DemoInv, NEW b \in Bulbs, SendUpdate(b)
  PROVE  DemoInv'
<1>1. /\ bulb[b] \in {"report", "change"} /\ QueueSend(b)
      /\ bulb' = [bulb EXCEPT ![b] = "wait"]
      /\ UNCHANGED <<init, update, xTaskToNotify, mqtt, notified>>
  BY DEF SendUpdate
<1>2. /\ bulb'[b] = "wait" /\ \A c \in Bulbs : c # b => bulb'[c] = bulb[c]
      /\ bulb' \in [Bulbs -> {"none", "report", "change", "wait", "delay", "assertion"}]
  BY <1>1 DEF DemoInv, DemoTypeOK
<1>3. /\ xUpdateQueue' \in Seq(Bulbs \cup {NoBulb}) /\ Len(xUpdateQueue') <= UpdateQueueLength
      /\ \A c \in Bulbs : Queued(c)' <=> Queued(c) \/ c = b
      /\ \A i, j \in 1 .. Len(xUpdateQueue') :
            xUpdateQueue'[i] = xUpdateQueue'[j] /\ xUpdateQueue'[i] # NoBulb => i = j
  BY <1>1, QueueSendFacts
<1>4. DemoTypeOK'
  BY <1>1, <1>2, <1>3 DEF DemoInv, DemoTypeOK
<1>5. ~ Queued(b) /\ xTaskToNotify # b /\ notified[b] = 0
  BY <1>1 DEF DemoInv
<1>6. QED
  BY <1>1, <1>2, <1>3, <1>4, <1>5 DEF DemoInv

(* prvDeltaCallback: the update of a delta notifies nobody. *)
LEMMA DeltaInv ==
  ASSUME DemoInv, prvDeltaCallback \/ DeltaWaits
  PROVE  DemoInv'
<1>1. /\ UNCHANGED <<init, bulb, update, xTaskToNotify, notified>>
      /\ mqtt' \in {"delta", "commands"}
      /\ UNCHANGED xUpdateQueue \/ QueueSend(NoBulb)
  BY DEF prvDeltaCallback, DeltaWaits
<1>2. CASE UNCHANGED xUpdateQueue
  <2>1. DemoTypeOK'
    BY <1>1, <1>2 DEF DemoInv, DemoTypeOK
  <2>2. QED
    BY <1>1, <1>2, <2>1, DemoAsideInv
<1>3. CASE QueueSend(NoBulb)
  <2>1. /\ xUpdateQueue' \in Seq(Bulbs \cup {NoBulb}) /\ Len(xUpdateQueue') <= UpdateQueueLength
        /\ \A c \in Bulbs : Queued(c)' <=> Queued(c) \/ c = NoBulb
        /\ \A i, j \in 1 .. Len(xUpdateQueue') :
              xUpdateQueue'[i] = xUpdateQueue'[j] /\ xUpdateQueue'[i] # NoBulb => i = j
    BY <1>3, LightBulbAssumption, QueueSendFacts
  <2>2. DemoTypeOK'
    BY <1>1, <2>1 DEF DemoInv, DemoTypeOK
  <2>3. QED
    BY <1>1, <2>1, <2>2, LightBulbAssumption DEF DemoInv
<1>4. QED
  BY <1>1, <1>2, <1>3

LEMMA QueueReceiveInv ==
  ASSUME DemoInv, QueueReceive
  PROVE  DemoInv'
<1> DEFINE q == xUpdateQueue
           n == Len(q)
<1>1. /\ update = "receive" /\ q # <<>> /\ xTaskToNotify' = Head(q) /\ q' = Tail(q)
      /\ update' = "agent" /\ UNCHANGED <<init, bulb, mqtt, notified>>
  BY DEF QueueReceive
<1>2. q \in Seq(Bulbs \cup {NoBulb}) /\ n \in Nat \ {0} /\ n <= UpdateQueueLength
  BY <1>1 DEF DemoInv, DemoTypeOK
<1>3. /\ q' \in Seq(Bulbs \cup {NoBulb}) /\ Len(q') = n - 1 /\ xTaskToNotify' = q[1]
      /\ \A i \in 1 .. Len(q') : q'[i] = q[i + 1]
  BY <1>1, <1>2
<1>4. q[1] \in Bulbs \cup {NoBulb} /\ xTaskToNotify = NoBulb
  BY <1>1, <1>2 DEF DemoInv
<1>5. DemoTypeOK'
  <2>1. Len(q') <= UpdateQueueLength
    BY <1>2, <1>3, LightBulbAssumption
  <2>2. QED
    BY <1>1, <1>3, <1>4, <2>1 DEF DemoInv, DemoTypeOK
<1>6. \A i \in 1 .. Len(q') : i + 1 \in 1 .. n /\ i + 1 # 1
  BY <1>2, <1>3
<1>7. \A i \in 1 .. n : i = 1 \/ (i - 1 \in 1 .. Len(q') /\ (i - 1) + 1 = i)
  BY <1>2, <1>3
<1>8. \A i, j \in 1 .. Len(q') : q'[i] = q'[j] /\ q'[i] # NoBulb => i = j
  <2> SUFFICES ASSUME NEW i \in 1 .. Len(q'), NEW j \in 1 .. Len(q'), q'[i] = q'[j], q'[i] # NoBulb
               PROVE  i = j
    OBVIOUS
  <2>1. i + 1 = j + 1
    BY <1>3, <1>6 DEF DemoInv
  <2>2. QED
    BY <1>2, <1>3, <2>1
<1>9. ASSUME NEW b \in Bulbs
      PROVE  Queued(b) <=> Queued(b)' \/ q[1] = b
  <2>1. 1 \in 1 .. n
    BY <1>2
  <2>2. ASSUME Queued(b)' PROVE Queued(b)
    <3>1. PICK i \in 1 .. Len(q') : q'[i] = b
      BY <2>2 DEF Queued
    <3>2. q[i + 1] = b /\ i + 1 \in 1 .. n
      BY <1>3, <1>6, <3>1
    <3>3. QED
      BY <3>2 DEF Queued
  <2>3. ASSUME Queued(b), q[1] # b PROVE Queued(b)'
    <3>1. PICK i \in 1 .. n : q[i] = b
      BY <2>3 DEF Queued
    <3>2. i - 1 \in 1 .. Len(q') /\ q'[i - 1] = b
      BY <1>3, <1>7, <2>3, <3>1
    <3>3. QED
      BY <3>2 DEF Queued
  <2>4. q[1] = b => Queued(b)
    BY <2>1 DEF Queued
  <2>5. QED
    BY <2>2, <2>3, <2>4
<1>10. ASSUME NEW b \in Bulbs, q[1] = b PROVE ~ Queued(b)'
  <2>1. ASSUME NEW i \in 1 .. Len(q') PROVE q'[i] # b
    <3>1. 1 \in 1 .. n /\ b # NoBulb
      BY <1>2, LightBulbAssumption
    <3>2. QED
      BY <1>3, <1>6, <1>10, <3>1 DEF DemoInv
  <2>2. QED
    BY <2>1 DEF Queued
<1>11. ASSUME NEW b \in Bulbs
       PROVE  /\ notified'[b] \in {0, 1}
              /\ bulb'[b] = "wait" <=> Queued(b)' \/ xTaskToNotify' = b \/ notified'[b] = 1
              /\ Queued(b)' => xTaskToNotify' # b /\ notified'[b] = 0
              /\ xTaskToNotify' = b => notified'[b] = 0
  BY <1>1, <1>3, <1>4, <1>9, <1>10, LightBulbAssumption DEF DemoInv
<1>12. QED
  BY <1>1, <1>5, <1>8, <1>11 DEF DemoInv

LEMMA NotifyGiveInv ==
  ASSUME DemoInv, NotifyGive
  PROVE  DemoInv'
<1>1. /\ notified' = [b \in Bulbs |-> IF b = xTaskToNotify THEN notified[b] + 1 ELSE notified[b]]
      /\ xTaskToNotify' = NoBulb /\ update' = "receive"
      /\ UNCHANGED <<init, bulb, mqtt, xUpdateQueue>>
  BY DEF NotifyGive
<1>2. \A b \in Bulbs : Queued(b)' <=> Queued(b)
  BY <1>1 DEF Queued
<1>3. \A b \in Bulbs : /\ b = xTaskToNotify => notified'[b] = 1
                       /\ b # xTaskToNotify => notified'[b] = notified[b]
  BY <1>1 DEF DemoInv
<1>4. DemoTypeOK'
  <2>1. notified' \in [Bulbs -> Nat]
    BY <1>1 DEF DemoInv, DemoTypeOK
  <2>2. QED
    BY <1>1, <2>1 DEF DemoInv, DemoTypeOK
<1>5. QED
  BY <1>1, <1>2, <1>3, <1>4, LightBulbAssumption DEF DemoInv

LEMMA NotifyTakeInv ==
  ASSUME DemoInv, NEW b \in Bulbs, NotifyTake(b)
  PROVE  DemoInv'
<1>1. /\ bulb[b] = "wait" /\ notified[b] > 0
      /\ bulb' = [bulb EXCEPT ![b] = IF notified[b] = 1 THEN "delay" ELSE "assertion"]
      /\ notified' = [notified EXCEPT ![b] = 0]
      /\ UNCHANGED <<init, update, xTaskToNotify, mqtt, xUpdateQueue>>
  BY DEF NotifyTake
<1>2. notified[b] = 1 /\ ~ Queued(b) /\ xTaskToNotify # b
  BY <1>1 DEF DemoInv
<1>3. /\ bulb'[b] = "delay" /\ notified'[b] = 0
      /\ \A c \in Bulbs : c # b => bulb'[c] = bulb[c] /\ notified'[c] = notified[c]
  BY <1>1, <1>2 DEF DemoInv, DemoTypeOK
<1>4. \A c \in Bulbs : Queued(c)' <=> Queued(c)
  BY <1>1 DEF Queued
<1>5. DemoTypeOK'
  BY <1>1 DEF DemoInv, DemoTypeOK
<1>6. QED
  BY <1>1, <1>2, <1>3, <1>4, <1>5 DEF DemoInv

LEMMA DemoNextInv == DemoInv /\ [DemoNext]_demoVars => DemoInv'
<1> SUFFICES ASSUME DemoInv, [DemoNext]_demoVars PROVE DemoInv'
  OBVIOUS
<1>1. CASE \/ prvShadowInitTask \/ CreateUpdateTask \/ ReplyTimesOut
           \/ PerformCommands \/ ReadSockets \/ UNCHANGED demoVars
  <2>1. /\ UNCHANGED <<bulb, xTaskToNotify, xUpdateQueue, notified>>
        /\ update' \in {"none", "receive", "agent", "reply", "notify"}
        /\ update' \in {"none", "receive"} => update \in {"none", "receive"}
        /\ init' \in {"connect", "delete", "register", "create", "failed"}
        /\ mqtt' \in {"commands", "sockets", "delta"}
    BY <1>1 DEF prvShadowInitTask, CreateUpdateTask, ReplyTimesOut, PerformCommands, ReadSockets,
                demoVars, DemoInv, DemoTypeOK
  <2>2. DemoTypeOK'
    BY <2>1 DEF DemoInv, DemoTypeOK
  <2>3. QED
    BY <2>1, <2>2, DemoAsideInv
<1>2. ASSUME NEW b \in Bulbs, CreateBulbTask(b) \/ SendTimesOut(b) \/ Delayed(b) PROVE DemoInv'
  <2>1. /\ UNCHANGED <<init, update, xTaskToNotify, mqtt, xUpdateQueue, notified>>
        /\ bulb[b] \in {"none", "report", "change", "delay"}
        /\ \E place \in {"report", "assertion", "delay", "change"} : bulb' = [bulb EXCEPT ![b] = place]
    BY <1>2 DEF CreateBulbTask, SendTimesOut, Delayed, DemoInv, DemoTypeOK
  <2>2. DemoTypeOK' /\ \A c \in Bulbs : bulb'[c] = "wait" <=> bulb[c] = "wait"
    BY <2>1 DEF DemoInv, DemoTypeOK
  <2>3. QED
    BY <2>1, <2>2, DemoAsideInv
<1>3. QED
  BY <1>1, <1>2, SendUpdateInv, NotifyTakeInv, QueueReceiveInv, NotifyGiveInv, DeltaInv
     DEF DemoNext, BulbStep, UpdateStep, MqttStep

(* A task of the demo that waits in ulTaskNotifyTake is owed exactly one    *)
(* notification, and one that does not wait is owed none, so that the value *)
(* it is notified with is the 1 its assertion asks for.                     *)
THEOREM DemoNotifiedOnce == Spec => []NotifiedOnce
<1>1. Init => DemoInv
  BY DemoInitInv DEF Init
<1>2. DemoInv /\ [Next]_vars => DemoInv'
  BY DemoNextInv DEF Next, vars
<1>3. DemoInv => NotifiedOnce
  <2> SUFFICES ASSUME DemoInv, NEW b \in Bulbs
               PROVE  Cardinality({i \in 1 .. Len(xUpdateQueue) : xUpdateQueue[i] = b})
                         + (IF xTaskToNotify = b THEN 1 ELSE 0) + notified[b]
                      = IF bulb[b] = "wait" THEN 1 ELSE 0
    BY DEF NotifiedOnce, DemoInv
  <2> DEFINE places == {i \in 1 .. Len(xUpdateQueue) : xUpdateQueue[i] = b}
  <2>1. CASE ~ Queued(b)
    <3>1. places = {}
      BY <2>1 DEF Queued
    <3>2. Cardinality(places) = 0
      BY <3>1, FS_EmptySet
    <3> HIDE DEF places
    <3>3. notified[b] \in {0, 1} /\ (xTaskToNotify = b => notified[b] = 0)
          /\ (bulb[b] = "wait" <=> xTaskToNotify = b \/ notified[b] = 1)
      BY <2>1 DEF DemoInv
    <3>4. Cardinality(places) + (IF xTaskToNotify = b THEN 1 ELSE 0) + notified[b]
             = IF bulb[b] = "wait" THEN 1 ELSE 0
      BY <3>2, <3>3
    <3>5. QED
      BY <3>4 DEF places
  <2>2. CASE Queued(b)
    <3>1. PICK i \in 1 .. Len(xUpdateQueue) : xUpdateQueue[i] = b
      BY <2>2 DEF Queued
    <3>2. places = {i}
      BY <3>1, LightBulbAssumption DEF DemoInv
    <3>3. Cardinality(places) = 1
      BY <3>2, FS_Singleton
    <3> HIDE DEF places
    <3>4. notified[b] = 0 /\ xTaskToNotify # b /\ bulb[b] = "wait"
      BY <2>2 DEF DemoInv
    <3>5. Cardinality(places) + (IF xTaskToNotify = b THEN 1 ELSE 0) + notified[b]
             = IF bulb[b] = "wait" THEN 1 ELSE 0
      BY <3>3, <3>4
    <3>6. QED
      BY <3>5 DEF places
  <2>3. QED
    BY <2>1, <2>2
<1>4. QED
  BY <1>1, <1>2, <1>3, PTL DEF Spec

-----------------------------------------------------------------------------
(* The clock.  OSUpdateCalendar against the calendar: the days before a     *)
(* month and a year, the day after a day, the second after a second.        *)

LEMMA MonthFacts ==
  /\ DaysBeforeMonth[1] = 0
  /\ \A m \in 1 .. 11 : DaysBeforeMonth[m + 1] = DaysBeforeMonth[m] + MonthLength[m]
  /\ \A m \in 1 .. 12 : DaysBeforeMonth[m] \in Nat
  /\ DaysBeforeMonth[12] = 334
<1> DEFINE P(g) == g = [m \in 1 .. 12 |-> IF m = 1 THEN 0 ELSE g[m - 1] + MonthLength[m - 1]]
           days == <<0, 31, 59, 90, 120, 151, 181, 212, 243, 273, 304, 334>>
           f == [m \in 1 .. 12 |-> days[m]]
<1>1. P(f)
  <2>1. \A m \in 1 .. 12 : days[m] = IF m = 1 THEN 0 ELSE days[m - 1] + MonthLength[m - 1]
    BY DEF MonthLength
  <2>2. \A m \in 1 .. 12 : m # 1 => m - 1 \in 1 .. 12
    OBVIOUS
  <2> HIDE DEF days
  <2>3. QED
    BY <2>1, <2>2
<1>2. DaysBeforeMonth = CHOOSE g : P(g)
  BY DEF DaysBeforeMonth
<1> HIDE DEF P, f
<1>3. P(DaysBeforeMonth)
  BY <1>1, <1>2
<1>4. \A m \in 1 .. 12 : DaysBeforeMonth[m] = IF m = 1 THEN 0 ELSE DaysBeforeMonth[m - 1] + MonthLength[m - 1]
  BY <1>3 DEF P
<1>5. DaysBeforeMonth[1] = 0
  BY <1>4
<1>6. \A m \in 1 .. 11 : DaysBeforeMonth[m + 1] = DaysBeforeMonth[m] + MonthLength[m]
  <2> SUFFICES ASSUME NEW m \in 1 .. 11 PROVE DaysBeforeMonth[m + 1] = DaysBeforeMonth[m] + MonthLength[m]
    OBVIOUS
  <2>1. m + 1 \in 1 .. 12 /\ m + 1 # 1 /\ (m + 1) - 1 = m
    OBVIOUS
  <2>2. QED
    BY <1>4, <2>1
<1>7. /\ DaysBeforeMonth[2] = 31 /\ DaysBeforeMonth[3] = 59 /\ DaysBeforeMonth[4] = 90
      /\ DaysBeforeMonth[5] = 120 /\ DaysBeforeMonth[6] = 151 /\ DaysBeforeMonth[7] = 181
      /\ DaysBeforeMonth[8] = 212 /\ DaysBeforeMonth[9] = 243 /\ DaysBeforeMonth[10] = 273
      /\ DaysBeforeMonth[11] = 304 /\ DaysBeforeMonth[12] = 334
  BY <1>4 DEF MonthLength
<1>8. \A m \in 1 .. 12 : m \in {1, 2, 3, 4, 5, 6, 7, 8, 9, 10, 11, 12}
  OBVIOUS
<1>9. QED
  BY <1>5, <1>6, <1>7, <1>8

LEMMA YearFacts ==
  ASSUME NEW y \in Nat \ {0}
  PROVE  y \div 4 - y \div 100 + y \div 400
           = (y - 1) \div 4 - (y - 1) \div 100 + (y - 1) \div 400 + IF IsLeap(y) THEN 1 ELSE 0
<1>1. y \div 4 = (y - 1) \div 4 + IF y % 4 = 0 THEN 1 ELSE 0
  OBVIOUS
<1>2. y \div 100 = (y - 1) \div 100 + IF y % 100 = 0 THEN 1 ELSE 0
  OBVIOUS
<1>3. y \div 400 = (y - 1) \div 400 + IF y % 400 = 0 THEN 1 ELSE 0
  OBVIOUS
<1>4. (y % 400 = 0 => y % 100 = 0) /\ (y % 100 = 0 => y % 4 = 0)
  OBVIOUS
<1>5. y \div 4 \in Int /\ y \div 100 \in Int /\ y \div 400 \in Int /\ (y - 1) \div 4 \in Int
      /\ (y - 1) \div 100 \in Int /\ (y - 1) \div 400 \in Int
  OBVIOUS
<1>6. QED
  BY <1>1, <1>2, <1>3, <1>4, <1>5 DEF IsLeap


LEMMA DateFacts ==
  ASSUME NEW rtc \in Dates
  PROVE  /\ rtc.Year \in Nat \ {0} /\ rtc.Month \in 1 .. 12 /\ rtc.Day \in 1 .. 31
         /\ rtc.Hour \in 0 .. 23 /\ rtc.Min \in 0 .. 59 /\ rtc.Sec \in 0 .. 59
  BY DEF Dates

LEMMA DayNumberFacts ==
  ASSUME NEW y \in Nat \ {0}, NEW m \in 1 .. 12, NEW d \in 1 .. 31
  PROVE  DayNumber(y, m, d) \in Nat
<1>1. DaysBeforeMonth[m] \in Nat
  BY MonthFacts
<1>2. DaysBefore(y, m) \in Nat
  BY <1>1 DEF DaysBefore
<1>3. /\ (y - 1) \div 4 \in Nat /\ (y - 1) \div 100 \in Nat /\ (y - 1) \div 400 \in Nat
      /\ (y - 1) \div 4 >= (y - 1) \div 100
  OBVIOUS
<1>4. 365 * (y - 1) \in Nat
  OBVIOUS
<1>5. QED
  BY <1>2, <1>3, <1>4 DEF DayNumber

LEMMA SecondFacts ==
  ASSUME NEW h \in 0 .. 23, NEW min \in 0 .. 59, NEW sec \in 0 .. 59
  PROVE  /\ SecondOfDay(h, min, sec) \in Nat /\ SecondOfDay(h, min, sec) < SecondsOfDay
         /\ SecondOfDay(h, min, sec + 1) = SecondOfDay(h, min, sec) + 1
         /\ SecondOfDay(h, min + 1, 0) = SecondOfDay(h, min, 59) + 1
         /\ SecondOfDay(h + 1, 0, 0) = SecondOfDay(h, 59, 59) + 1
         /\ SecondOfDay(0, 0, 0) = 0 /\ SecondOfDay(23, 59, 59) = SecondsOfDay - 1
  BY DEF SecondOfDay, SecondsOfDay

LEMMA SecondAfterFacts ==
  ASSUME NEW day \in Nat, NEW sec \in Nat, sec < SecondsOfDay
  PROVE  SecondAfter([day |-> day, sec |-> sec]) =
             IF sec = SecondsOfDay - 1 THEN [day |-> day + 1, sec |-> 0]
                                       ELSE [day |-> day, sec |-> sec + 1]
<1>1. CASE sec = SecondsOfDay - 1
  <2>1. (sec + 1) \div SecondsOfDay = 1 /\ (sec + 1) % SecondsOfDay = 0
    BY <1>1 DEF SecondsOfDay
  <2>2. QED
    BY <1>1, <2>1 DEF SecondAfter
<1>2. CASE sec # SecondsOfDay - 1
  <2>1. (sec + 1) \div SecondsOfDay = 0 /\ (sec + 1) % SecondsOfDay = sec + 1
    BY <1>2 DEF SecondsOfDay
  <2>2. QED
    BY <1>2, <2>1 DEF SecondAfter
<1>3. QED
  BY <1>1, <1>2

LEMMA MonthLengthFacts ==
  /\ \A m \in 1 .. 12 : MonthLength[m] \in 28 .. 31
  /\ MonthLength[12] = 31 /\ MonthLength[2] = 28
<1>1. \A m \in 1 .. 12 : m \in {1, 2, 3, 4, 5, 6, 7, 8, 9, 10, 11, 12}
  OBVIOUS
<1>2. QED
  BY <1>1 DEF MonthLength


LEMMA LimitFacts ==
  ASSUME NEW y \in Nat \ {0}, NEW m \in 1 .. 12
  PROVE  /\ DayLimit(y, m) \in 28 .. 31
         /\ DayLimit(y, m) = MonthLength[m] + (IF m = 2 /\ IsLeap(y) THEN 1 ELSE 0)
         /\ DayLimit(y, 12) = 31
  BY MonthLengthFacts DEF DayLimit

LEMMA DayAfter ==
  ASSUME NEW y \in Nat \ {0}, NEW m \in 1 .. 12, NEW d \in 1 .. 31, d <= DayLimit(y, m)
  PROVE  /\ d + 1 <= DayLimit(y, m) => DayNumber(y, m, d + 1) = DayNumber(y, m, d) + 1
         /\ d = DayLimit(y, m) /\ m < 12 => DayNumber(y, m + 1, 1) = DayNumber(y, m, d) + 1
         /\ d = DayLimit(y, m) /\ m = 12 => DayNumber(y + 1, 1, 1) = DayNumber(y, m, d) + 1
<1>1. PICK x \in Int : x = (y - 1) \div 4 - (y - 1) \div 100 + (y - 1) \div 400
  OBVIOUS
<1>2. PICK leap \in {0, 1} : leap = IF IsLeap(y) THEN 1 ELSE 0
  OBVIOUS
<1>3. PICK b \in Nat : b = DaysBeforeMonth[m]
  BY MonthFacts
<1>4. PICK c \in 28 .. 31 : c = MonthLength[m]
  BY MonthLengthFacts
<1>5. PICK z \in Nat : z = DaysBefore(y, m) /\ z = b + (IF m > 2 THEN leap ELSE 0)
  BY <1>2, <1>3 DEF DaysBefore
<1>6. DayNumber(y, m, d) = 365 * (y - 1) + x + z + d
  BY <1>1, <1>5 DEF DayNumber
<1>7. DayLimit(y, m) = c + (IF m = 2 THEN leap ELSE 0)
  BY <1>2, <1>4, LimitFacts
<1>8. ASSUME d + 1 <= DayLimit(y, m)
      PROVE  DayNumber(y, m, d + 1) = DayNumber(y, m, d) + 1
  <2>1. DayNumber(y, m, d + 1) = 365 * (y - 1) + x + z + (d + 1)
    BY <1>1, <1>5 DEF DayNumber
  <2>2. QED
    BY <1>6, <2>1
<1>9. ASSUME d = DayLimit(y, m), m < 12
      PROVE  DayNumber(y, m + 1, 1) = DayNumber(y, m, d) + 1
  <2>1. m \in 1 .. 11
    BY <1>9
  <2>2. DaysBeforeMonth[m + 1] = b + c
    BY <1>3, <1>4, <2>1, MonthFacts
  <2>3. DaysBefore(y, m + 1) = (b + c) + (IF m + 1 > 2 THEN leap ELSE 0)
    BY <1>2, <2>2 DEF DaysBefore
  <2>4. PICK w \in Nat : w = DaysBefore(y, m + 1) /\ w = z + d
    BY <1>5, <1>7, <1>9, <2>3
  <2>5. DayNumber(y, m + 1, 1) = 365 * (y - 1) + x + w + 1
    BY <1>1, <2>4 DEF DayNumber
  <2>6. QED
    BY <1>6, <2>4, <2>5
<1>10. ASSUME d = DayLimit(y, m), m = 12
       PROVE  DayNumber(y + 1, 1, 1) = DayNumber(y, m, d) + 1
  <2>1. d = 31 /\ z = 334 + leap
    BY <1>3, <1>5, <1>10, LimitFacts, MonthFacts
  <2>2. y \div 4 - y \div 100 + y \div 400 = x + leap
    BY <1>1, <1>2, YearFacts
  <2>3. (y + 1) - 1 = y /\ DaysBefore(y + 1, 1) = 0
    BY MonthFacts DEF DaysBefore
  <2>4. DayNumber(y + 1, 1, 1) = 365 * y + (y \div 4 - y \div 100 + y \div 400) + 0 + 1
    BY <2>3 DEF DayNumber
  <2>5. DayNumber(y + 1, 1, 1) = 365 * y + x + leap + 1
    BY <2>2, <2>4
  <2>6. QED
    BY <1>6, <2>1, <2>5
<1>11. QED
  BY <1>8, <1>9, <1>10

(* OSUpdateCalendar's change of the day. *)
LEMMA NextDayFacts ==
  ASSUME NEW rtc, Exists(rtc)
  PROVE  /\ Exists(NextDay(rtc))
         /\ NextDay(rtc).Hour = rtc.Hour /\ NextDay(rtc).Min = rtc.Min /\ NextDay(rtc).Sec = rtc.Sec
         /\ DayNumber(NextDay(rtc).Year, NextDay(rtc).Month, NextDay(rtc).Day)
              = DayNumber(rtc.Year, rtc.Month, rtc.Day) + 1
<1>1. rtc \in Dates
  BY DEF Exists
<1>2. PICK y \in Nat \ {0}, m \in 1 .. 12, d \in 1 .. 31 :
         y = rtc.Year /\ m = rtc.Month /\ d = rtc.Day
  BY <1>1, DateFacts
<1>3. d <= DayLimit(y, m)
  BY <1>2 DEF Exists
<1>4. MonthLength[rtc.Month] + LeapMonth(rtc) = DayLimit(y, m)
  <2>1. LeapMonth(rtc) = IF m = 2 /\ IsLeap(y) THEN 1 ELSE 0
    BY <1>2 DEF LeapMonth, IsLeap
  <2>2. QED
    BY <1>2, <2>1, LimitFacts
<1> DEFINE On(y2, m2, d2) == [rtc EXCEPT !.Year = y2, !.Month = m2, !.Day = d2]
<1> HIDE DEF On
<1>5. ASSUME NEW y2 \in Nat \ {0}, NEW m2 \in 1 .. 12, NEW d2 \in 1 .. 31,
             NextDay(rtc) = On(y2, m2, d2),
             d2 <= DayLimit(y2, m2), DayNumber(y2, m2, d2) = DayNumber(y, m, d) + 1
      PROVE  /\ Exists(NextDay(rtc))
             /\ NextDay(rtc).Hour = rtc.Hour /\ NextDay(rtc).Min = rtc.Min /\ NextDay(rtc).Sec = rtc.Sec
             /\ DayNumber(NextDay(rtc).Year, NextDay(rtc).Month, NextDay(rtc).Day)
                  = DayNumber(rtc.Year, rtc.Month, rtc.Day) + 1
  <2> DEFINE next == On(y2, m2, d2)
  <2>1. /\ next \in Dates /\ next.Year = y2 /\ next.Month = m2 /\ next.Day = d2
        /\ next.Hour = rtc.Hour /\ next.Min = rtc.Min /\ next.Sec = rtc.Sec
    BY <1>1, <1>5 DEF Dates, On
  <2> HIDE DEF next
  <2>2. NextDay(rtc) = next
    BY <1>5 DEF next
  <2>3. QED
    BY <1>2, <1>5, <2>1, <2>2 DEF Exists
<1>6. CASE d + 1 <= DayLimit(y, m)
  <2>1. NextDay(rtc) = [rtc EXCEPT !.Day = d + 1]
    BY <1>2, <1>4, <1>6 DEF NextDay
  <2>2. NextDay(rtc) = On(y, m, d + 1)
    BY <1>1, <1>2, <2>1 DEF Dates, On
  <2>3. d + 1 \in 1 .. 31
    BY <1>6, LimitFacts
  <2>4. DayNumber(y, m, d + 1) = DayNumber(y, m, d) + 1
    BY <1>3, <1>6, DayAfter
  <2>5. PICK d2 \in 1 .. 31 : d2 = d + 1
    BY <2>3
  <2>6. /\ NextDay(rtc) = On(y, m, d2)
        /\ d2 <= DayLimit(y, m) /\ DayNumber(y, m, d2) = DayNumber(y, m, d) + 1
    BY <1>6, <2>2, <2>4, <2>5
  <2>7. QED
    BY <1>5, <2>6
<1>7. CASE d = DayLimit(y, m) /\ m < 12
  <2>1. ~ (d + 1 <= DayLimit(y, m)) /\ m + 1 <= 12
    BY <1>7
  <2>2. NextDay(rtc) = [rtc EXCEPT !.Day = 1, !.Month = m + 1]
    BY <1>2, <1>4, <2>1 DEF NextDay
  <2>3. NextDay(rtc) = On(y, m + 1, 1)
    BY <1>1, <1>2, <2>2 DEF Dates, On
  <2>4. m + 1 \in 1 .. 12
    BY <1>7
  <2>5. 1 <= DayLimit(y, m + 1)
    BY <2>4, LimitFacts
  <2>6. DayNumber(y, m + 1, 1) = DayNumber(y, m, d) + 1
    BY <1>3, <1>7, DayAfter
  <2>7. PICK m2 \in 1 .. 12 : m2 = m + 1
    BY <2>4
  <2>8. /\ NextDay(rtc) = On(y, m2, 1)
        /\ 1 <= DayLimit(y, m2) /\ DayNumber(y, m2, 1) = DayNumber(y, m, d) + 1
    BY <2>3, <2>5, <2>6, <2>7
  <2>9. y \in Nat \ {0} /\ 1 \in 1 .. 31
    BY <1>3
  <2>10. QED
    BY <1>5, <2>7, <2>8, <2>9, ZenonT(40)
<1>8. CASE d = DayLimit(y, m) /\ m = 12
  <2>1. ~ (d + 1 <= DayLimit(y, m)) /\ ~ (m + 1 <= 12)
    BY <1>8
  <2>2. NextDay(rtc) = [rtc EXCEPT !.Day = 1, !.Month = 1, !.Year = y + 1]
    BY <1>2, <1>4, <2>1 DEF NextDay
  <2>3. NextDay(rtc) = On(y + 1, 1, 1)
    BY <1>1, <2>2 DEF Dates, On
  <2>4. 1 <= DayLimit(y + 1, 1) /\ y + 1 \in Nat \ {0}
    BY LimitFacts
  <2>5. DayNumber(y + 1, 1, 1) = DayNumber(y, m, d) + 1
    BY <1>3, <1>8, DayAfter
  <2>6. 1 \in 1 .. 12 /\ 1 \in 1 .. 31
    OBVIOUS
  <2>7. QED
    BY <1>5, <2>3, <2>4, <2>5, <2>6, ZenonT(40)
<1>9. QED
  <2>1. d + 1 <= DayLimit(y, m) \/ d = DayLimit(y, m)
    BY <1>3, LimitFacts
  <2>2. QED
    BY <1>6, <1>7, <1>8, <2>1

(* OSUpdateCalendar: the next second of the calendar, a date that exists. *)
LEMMA OSUpdateCalendarFacts ==
  ASSUME NEW rtc, Exists(rtc)
  PROVE  /\ Exists(OSUpdateCalendar(rtc))
         /\ Instant(OSUpdateCalendar(rtc)) = SecondAfter(Instant(rtc))
<1>1. rtc \in Dates /\ rtc.Day <= DayLimit(rtc.Year, rtc.Month)
  BY DEF Exists
<1>2. PICK y \in Nat \ {0}, m \in 1 .. 12, d \in 1 .. 31 :
         y = rtc.Year /\ m = rtc.Month /\ d = rtc.Day
  BY <1>1, DateFacts
<1>3. PICK h \in 0 .. 23, min \in 0 .. 59, sec \in 0 .. 59 :
         h = rtc.Hour /\ min = rtc.Min /\ sec = rtc.Sec
  BY <1>1, DateFacts
<1>4. PICK n \in Nat : n = DayNumber(y, m, d)
  BY DayNumberFacts
<1>5. PICK s \in Nat : s = SecondOfDay(h, min, sec) /\ s < SecondsOfDay
  BY SecondFacts
<1>6. Instant(rtc) = [day |-> n, sec |-> s]
  BY <1>2, <1>3, <1>4, <1>5 DEF Instant
<1> DEFINE At(h2, min2, sec2) == [rtc EXCEPT !.Hour = h2, !.Min = min2, !.Sec = sec2]
<1> HIDE DEF At
<1>6a. 0 \in 0 .. 23 /\ 0 \in 0 .. 59
  OBVIOUS
<1>7. ASSUME NEW h2 \in 0 .. 23, NEW min2 \in 0 .. 59, NEW sec2 \in 0 .. 59,
             OSUpdateCalendar(rtc) = At(h2, min2, sec2),
             SecondOfDay(h2, min2, sec2) = s + 1
      PROVE  /\ Exists(OSUpdateCalendar(rtc))
             /\ Instant(OSUpdateCalendar(rtc)) = SecondAfter(Instant(rtc))
  <2> DEFINE next == At(h2, min2, sec2)
  <2>1. /\ next \in Dates /\ next.Year = y /\ next.Month = m /\ next.Day = d
        /\ next.Hour = h2 /\ next.Min = min2 /\ next.Sec = sec2
    BY <1>1, <1>2, <1>7 DEF Dates, At
  <2> HIDE DEF next
  <2>2. OSUpdateCalendar(rtc) = next
    BY <1>7 DEF next
  <2>3. Exists(next)
    BY <1>1, <1>2, <2>1 DEF Exists
  <2>4. Instant(next) = [day |-> n, sec |-> s + 1]
    BY <1>4, <1>7, <2>1 DEF Instant
  <2>5. SecondOfDay(h2, min2, sec2) < SecondsOfDay
    BY <1>7, SecondFacts
  <2>6. s # SecondsOfDay - 1
    BY <1>7, <2>5 DEF SecondsOfDay
  <2>7. SecondAfter(Instant(rtc)) = [day |-> n, sec |-> s + 1]
    BY <1>5, <1>6, <2>6, SecondAfterFacts
  <2>8. QED
    BY <2>2, <2>3, <2>4, <2>7
<1>8. CASE sec < 59
  <2>1. PICK sec2 \in 0 .. 59 : sec2 = sec + 1
    BY <1>8
  <2>2. rtc.Sec + 1 < 60
    BY <1>3, <1>8
  <2>3. OSUpdateCalendar(rtc) = [rtc EXCEPT !.Sec = sec2]
    BY <1>3, <2>1, <2>2 DEF OSUpdateCalendar
  <2>4. OSUpdateCalendar(rtc) = At(h, min, sec2)
    BY <1>1, <1>3, <2>3 DEF Dates, At
  <2>5. SecondOfDay(h, min, sec2) = s + 1
    BY <1>5, <2>1, SecondFacts
  <2>6. QED
    BY <1>7, <2>4, <2>5
<1>9. CASE sec = 59 /\ min < 59
  <2>1. PICK min2 \in 0 .. 59 : min2 = min + 1
    BY <1>9
  <2>2. ~ (rtc.Sec + 1 < 60) /\ rtc.Sec + 1 = 60 /\ rtc.Min < 59
    BY <1>3, <1>9
  <2>3. OSUpdateCalendar(rtc) = [rtc EXCEPT !.Sec = 0, !.Min = min2]
    BY <1>3, <2>1, <2>2 DEF OSUpdateCalendar
  <2>4. OSUpdateCalendar(rtc) = At(h, min2, 0)
    BY <1>1, <1>3, <2>3 DEF Dates, At
  <2>5. SecondOfDay(h, min2, 0) = s + 1
    BY <1>5, <1>9, <2>1, SecondFacts
  <2>6. QED
    BY <1>7, <1>6a, <2>4, <2>5
<1>10. CASE sec = 59 /\ min = 59 /\ h < 23
  <2>1. PICK h2 \in 0 .. 23 : h2 = h + 1
    BY <1>10
  <2>2. /\ ~ (rtc.Sec + 1 < 60) /\ rtc.Sec + 1 = 60 /\ ~ (rtc.Min < 59)
        /\ rtc.Min >= 59 /\ rtc.Hour < 23
    BY <1>3, <1>10
  <2>3. OSUpdateCalendar(rtc) = [rtc EXCEPT !.Sec = 0, !.Min = 0, !.Hour = h2]
    BY <1>3, <2>1, <2>2 DEF OSUpdateCalendar
  <2>4. OSUpdateCalendar(rtc) = At(h2, 0, 0)
    BY <1>1, <1>3, <2>3 DEF Dates, At
  <2>5. SecondOfDay(h2, 0, 0) = s + 1
    BY <1>5, <1>10, <2>1, SecondFacts
  <2>6. QED
    BY <1>7, <1>6a, <2>4, <2>5
<1>11. CASE sec = 59 /\ min = 59 /\ h = 23
  <2> DEFINE night == At(0, 0, 0)
  <2>1. /\ ~ (rtc.Sec + 1 < 60) /\ ~ (rtc.Min < 59) /\ ~ (rtc.Hour < 23)
    BY <1>3, <1>11
  <2>2. OSUpdateCalendar(rtc) = NextDay(night)
    BY <1>1, <2>1 DEF OSUpdateCalendar, At, Dates
  <2>3. /\ night \in Dates
        /\ night.Year = y /\ night.Month = m /\ night.Day = d
        /\ night.Hour = 0 /\ night.Min = 0 /\ night.Sec = 0
    BY <1>1, <1>2, <1>6a DEF Dates, At
  <2> HIDE DEF night
  <2>4. Exists(night)
    BY <1>1, <1>2, <2>3 DEF Exists
  <2>5. /\ Exists(NextDay(night))
        /\ NextDay(night).Hour = 0 /\ NextDay(night).Min = 0 /\ NextDay(night).Sec = 0
        /\ DayNumber(NextDay(night).Year, NextDay(night).Month, NextDay(night).Day) = n + 1
    BY <1>4, <2>3, <2>4, NextDayFacts
  <2>6. Instant(NextDay(night)) = [day |-> n + 1, sec |-> 0]
    BY <2>5, SecondFacts DEF Instant
  <2>7. s = SecondsOfDay - 1
    BY <1>5, <1>11, SecondFacts
  <2>8. SecondAfter(Instant(rtc)) = [day |-> n + 1, sec |-> 0]
    BY <1>5, <1>6, <2>7, SecondAfterFacts
  <2>9. QED
    BY <2>2, <2>5, <2>6, <2>8
<1>12. QED
  BY <1>8, <1>9, <1>10, <1>11

(* The clock: until the second word is copied, the first one is what the    *)
(* server sent, unless a tick fell in between.                              *)

CalendarInv ==
    /\ ClockTypeOK
    /\ Armed(timers) <= TimeoutPool
    /\ Exists(OSRtc)
    /\ copying = NoDate /\ ~ torn => Instant(OSRtc) = wall
    /\ copying # NoDate /\ ~ torn =>
          IF copying.rest = "time"
          THEN /\ OSRtc.Year = copying.rtc.Year /\ OSRtc.Month = copying.rtc.Month
               /\ OSRtc.Day = copying.rtc.Day
          ELSE /\ OSRtc.Hour = copying.rtc.Hour /\ OSRtc.Min = copying.rtc.Min
               /\ OSRtc.Sec = copying.rtc.Sec

(* One word of the structure, and both. *)
LEMMA CopyWordFacts ==
  ASSUME NEW to, Exists(to), NEW from, Exists(from)
  PROVE  /\ Exists(CopyWord(to, from, "date")) /\ Exists(CopyWord(to, from, "time"))
         /\ LET date == CopyWord(to, from, "date")
            IN  date.Year = from.Year /\ date.Month = from.Month /\ date.Day = from.Day
         /\ LET time == CopyWord(to, from, "time")
            IN  time.Hour = from.Hour /\ time.Min = from.Min /\ time.Sec = from.Sec
         /\ to.Year = from.Year /\ to.Month = from.Month /\ to.Day = from.Day
              => CopyWord(to, from, "time") = from
         /\ to.Hour = from.Hour /\ to.Min = from.Min /\ to.Sec = from.Sec
              => CopyWord(to, from, "date") = from
<1>1. to \in Dates /\ from \in Dates
  BY DEF Exists
<1> DEFINE date == [to EXCEPT !.Year = from.Year, !.Month = from.Month, !.Day = from.Day]
           time == [to EXCEPT !.Hour = from.Hour, !.Min = from.Min, !.Sec = from.Sec]
<1>2. CopyWord(to, from, "date") = date /\ CopyWord(to, from, "time") = time
  BY DEF CopyWord
<1>3. /\ date \in Dates
      /\ date.Year = from.Year /\ date.Month = from.Month /\ date.Day = from.Day
      /\ to.Hour = from.Hour /\ to.Min = from.Min /\ to.Sec = from.Sec => date = from
  BY <1>1 DEF Dates
<1>4. /\ time \in Dates
      /\ time.Year = to.Year /\ time.Month = to.Month /\ time.Day = to.Day
      /\ time.Hour = from.Hour /\ time.Min = from.Min /\ time.Sec = from.Sec
      /\ to.Year = from.Year /\ to.Month = from.Month /\ to.Day = from.Day => time = from
  BY <1>1 DEF Dates
<1> HIDE DEF date, time
<1>5. Exists(date) /\ Exists(time)
  BY <1>3, <1>4 DEF Exists
<1>6. QED
  BY <1>2, <1>3, <1>4, <1>5

LEMMA InstantFacts ==
  ASSUME NEW rtc \in Dates
  PROVE  Instant(rtc) \in [day : Nat, sec : 0 .. SecondsOfDay - 1]
<1>1. PICK n \in Nat : n = DayNumber(rtc.Year, rtc.Month, rtc.Day)
  BY DateFacts, DayNumberFacts
<1>2. PICK s \in Nat : s = SecondOfDay(rtc.Hour, rtc.Min, rtc.Sec) /\ s < SecondsOfDay
  BY DateFacts, SecondFacts
<1>3. SecondsOfDay \in Nat
  BY DEF SecondsOfDay
<1>4. s \in 0 .. SecondsOfDay - 1
  BY <1>2, <1>3
<1>5. QED
  BY <1>1, <1>2, <1>4 DEF Instant

LEMMA DayFacts == SecondsOfDay \in Nat /\ 0 < SecondsOfDay
  BY DEF SecondsOfDay

LEMMA SecondAfterType ==
  ASSUME NEW t \in [day : Nat, sec : 0 .. SecondsOfDay - 1]
  PROVE  SecondAfter(t) \in [day : Nat, sec : 0 .. SecondsOfDay - 1]
<1>1. SecondsOfDay \in Nat /\ 0 < SecondsOfDay
  BY DayFacts
<1>2. PICK n \in Nat, s \in Nat : n = t.day /\ s = t.sec /\ s < SecondsOfDay
  BY <1>1
<1>3. t = [day |-> n, sec |-> s]
  BY <1>2
<1>4. SecondAfter(t) = IF s = SecondsOfDay - 1 THEN [day |-> n + 1, sec |-> 0]
                                               ELSE [day |-> n, sec |-> s + 1]
  BY <1>2, <1>3, SecondAfterFacts
<1>5. QED
  BY <1>1, <1>2, <1>4

(* The timers of the client never take more than the pool. *)
Timers == {t \in [{"request", "retry"} -> 0 .. TimeoutPool] : Armed(t) <= TimeoutPool}

LEMMA TimerFacts ==
  ASSUME NEW t \in Timers, NEW h \in {"request", "retry"}
  PROVE  sys_timeout(t, h) \in Timers /\ sys_untimeout(t, h) \in Timers
<1>1. TimeoutPool \in Nat
  BY ClockAssumption
<1>2. /\ t["request"] \in 0 .. TimeoutPool /\ t["retry"] \in 0 .. TimeoutPool
      /\ t["request"] + t["retry"] <= TimeoutPool
  BY DEF Timers, Armed
<1>3. sys_timeout(t, h) \in Timers
  BY <1>1, <1>2 DEF sys_timeout, Timers, Armed
<1>4. sys_untimeout(t, h) \in Timers
  BY <1>1, <1>2 DEF sys_untimeout, Timers, Armed
<1>5. QED
  BY <1>3, <1>4

(* A step of the SNTP client that leaves the calendar alone. *)
LEMMA CalendarAsideInv ==
  ASSUME CalendarInv, UNCHANGED calendarVars,
         sntp_pcb' \in BOOLEAN, timers' \in Timers, timerLost' \in BOOLEAN, dns' \in 0 .. DnsRequests,
         flight' \in 0 .. MaxFlight, sntp_retry_timeout' \in 1 .. RetryMax
  PROVE  CalendarInv'
<1>1. ClockTypeOK' /\ Armed(timers)' <= TimeoutPool
  BY DEF CalendarInv, ClockTypeOK, calendarVars, Timers, Armed
<1>2. QED
  BY <1>1 DEF CalendarInv, calendarVars

(* The handlers of the SNTP client, from timers within the pool. *)
LEMMA SntpFacts ==
  ASSUME CalendarInv, NEW t \in Timers
  PROVE  /\ sntp_retry(t) => timers' \in Timers /\ sntp_retry_timeout' \in 1 .. RetryMax
         /\ sntp_send_request(t) => timers' \in Timers /\ flight' \in 0 .. MaxFlight
         /\ sntp_request(t) => /\ timers' \in Timers /\ flight' \in 0 .. MaxFlight
                               /\ dns' \in 0 .. DnsRequests /\ sntp_retry_timeout' \in 1 .. RetryMax
<1>1. /\ flight \in 0 .. MaxFlight /\ MaxFlight \in Nat /\ dns \in 0 .. DnsRequests
      /\ DnsRequests \in Nat /\ sntp_retry_timeout \in 1 .. RetryMax /\ RetryMax \in Nat
  BY ClockAssumption DEF CalendarInv, ClockTypeOK
<1>2. sys_timeout(t, "request") \in Timers /\ sys_timeout(t, "retry") \in Timers
  BY TimerFacts
<1>3. sntp_retry(t) => timers' \in Timers /\ sntp_retry_timeout' \in 1 .. RetryMax
  BY <1>1, <1>2 DEF sntp_retry
<1>4. sntp_send_request(t) => timers' \in Timers /\ flight' \in 0 .. MaxFlight
  BY <1>1, <1>2 DEF sntp_send_request
<1>5. sntp_request(t) => /\ timers' \in Timers /\ flight' \in 0 .. MaxFlight
                         /\ dns' \in 0 .. DnsRequests /\ sntp_retry_timeout' \in 1 .. RetryMax
  BY <1>1, <1>2, <1>4 DEF sntp_request
<1>6. QED
  BY <1>3, <1>4, <1>5

LEMMA ClockInitInv == ClockInit => CalendarInv
<1> SUFFICES ASSUME ClockInit PROVE CalendarInv
  OBVIOUS
<1>1. Init_Calendar \in Dates /\ Init_Calendar.Month = 3 /\ Init_Calendar.Day = 28
  BY DEF Init_Calendar, Dates
<1>2. Exists(Init_Calendar)
  BY <1>1 DEF Exists, DayLimit, MonthLength
<1>3. Instant(Init_Calendar) \in [day : Nat, sec : 0 .. SecondsOfDay - 1]
  BY <1>1, InstantFacts
<1>4. ClockTypeOK
  <2>1. /\ OSRtc \in Dates /\ wall \in [day : Nat, sec : 0 .. SecondsOfDay - 1]
        /\ copying = NoDate /\ sntp_pcb = FALSE /\ timerLost = FALSE /\ torn = FALSE
    BY <1>1, <1>3 DEF ClockInit
  <2>2. /\ timers \in [{"request", "retry"} -> 0 .. TimeoutPool]
        /\ dns \in 0 .. DnsRequests /\ flight \in 0 .. MaxFlight
        /\ sntp_retry_timeout \in 1 .. RetryMax /\ ticks \in 0 .. MaxTicks
    BY ClockAssumption DEF ClockInit
  <2>3. QED
    BY <2>1, <2>2 DEF ClockTypeOK
<1>5. Armed(timers) <= TimeoutPool
  BY ClockAssumption DEF ClockInit, Armed
<1>6. QED
  BY <1>2, <1>4, <1>5 DEF ClockInit, CalendarInv

(* A second passes: the calendar keeps up, and stays a date even when it is *)
(* half set.                                                                *)
LEMMA SystemTimeInv == CalendarInv /\ System_Time => CalendarInv'
<1> SUFFICES ASSUME CalendarInv, System_Time PROVE CalendarInv'
  OBVIOUS
<1>1. /\ OSRtc' = OSUpdateCalendar(OSRtc) /\ wall' = SecondAfter(wall)
      /\ torn' = (torn \/ copying # NoDate) /\ UNCHANGED <<copying, sntpVars>>
      /\ ticks < MaxTicks /\ ticks' = ticks + 1
  BY DEF System_Time
<1>2. Exists(OSRtc) /\ wall \in [day : Nat, sec : 0 .. SecondsOfDay - 1]
  BY DEF CalendarInv, ClockTypeOK
<1>3. Exists(OSRtc') /\ Instant(OSRtc') = SecondAfter(Instant(OSRtc))
  BY <1>1, <1>2, OSUpdateCalendarFacts
<1>4. wall' \in [day : Nat, sec : 0 .. SecondsOfDay - 1]
  BY <1>1, <1>2, SecondAfterType
<1>5. ticks' \in 0 .. MaxTicks
  BY <1>1, ClockAssumption DEF CalendarInv, ClockTypeOK
<1>6. OSRtc' \in Dates /\ torn' \in BOOLEAN
  BY <1>1, <1>3 DEF Exists
<1>7. ClockTypeOK'
  BY <1>1, <1>4, <1>5, <1>6 DEF CalendarInv, ClockTypeOK, sntpVars
<1>8. Armed(timers)' <= TimeoutPool
  BY <1>1 DEF CalendarInv, sntpVars, Armed
<1>9. copying' = NoDate /\ ~ torn' => Instant(OSRtc)' = wall'
  BY <1>1, <1>3 DEF CalendarInv
<1>10. copying' # NoDate => torn'
  BY <1>1
<1>11. QED
  BY <1>3, <1>7, <1>8, <1>9, <1>10 DEF CalendarInv

(* The answer of the server: the first word, and the second. *)
LEMMA SntpRecvInv ==
  ASSUME CalendarInv, NEW rtc \in ServerDates, NEW word \in {"date", "time"}, sntp_recv(rtc, word)
  PROVE  CalendarInv'
<1>1. /\ flight > 0 /\ flight' = flight - 1 /\ sntp_retry_timeout' = 1
      /\ timers' = sys_untimeout(sys_untimeout(timers, "retry"), "request")
      /\ OSRtc' = CopyWord(OSRtc, rtc, word) /\ torn' = FALSE /\ ticks' = 0
      /\ copying' = [rtc |-> rtc, rest |-> IF word = "date" THEN "time" ELSE "date"]
      /\ UNCHANGED <<sntp_pcb, timerLost, dns, wall>>
  BY DEF sntp_recv
<1>2. Exists(rtc) /\ Exists(OSRtc)
  BY ClockAssumption DEF CalendarInv
<1>3. /\ Exists(OSRtc')
      /\ word = "date" => /\ OSRtc'.Year = rtc.Year /\ OSRtc'.Month = rtc.Month
                          /\ OSRtc'.Day = rtc.Day
      /\ word = "time" => /\ OSRtc'.Hour = rtc.Hour /\ OSRtc'.Min = rtc.Min
                          /\ OSRtc'.Sec = rtc.Sec
  BY <1>1, <1>2, CopyWordFacts
<1>4. timers \in Timers
  BY DEF CalendarInv, ClockTypeOK, Timers
<1>5. timers' \in Timers
  BY <1>1, <1>4, TimerFacts
<1>6. copying' \in [rtc : ServerDates, rest : {"date", "time"}]
  BY <1>1
<1>7. copying' # NoDate
  BY <1>6, ClockAssumption
<1>8. flight' \in 0 .. MaxFlight /\ 1 \in 1 .. RetryMax /\ 0 \in 0 .. MaxTicks
  BY <1>1, ClockAssumption DEF CalendarInv, ClockTypeOK
<1>9. ClockTypeOK'
  BY <1>1, <1>3, <1>5, <1>6, <1>8 DEF CalendarInv, ClockTypeOK, Timers, Exists
<1>10. Armed(timers)' <= TimeoutPool
  BY <1>5 DEF Timers, Armed
<1>11. copying'.rtc = rtc /\ copying'.rest = IF word = "date" THEN "time" ELSE "date"
  BY <1>1
<1>12. QED
  BY <1>3, <1>7, <1>9, <1>10, <1>11 DEF CalendarInv

LEMMA SetCalendarInv == CalendarInv /\ SetCalendar => CalendarInv'
<1> SUFFICES ASSUME CalendarInv, SetCalendar PROVE CalendarInv'
  OBVIOUS
<1>1. /\ copying # NoDate /\ OSRtc' = CopyWord(OSRtc, copying.rtc, copying.rest)
      /\ copying' = NoDate /\ wall' = Instant(copying.rtc)
      /\ timers' = sys_timeout(timers, "request")
      /\ UNCHANGED <<sntp_pcb, timerLost, dns, flight, sntp_retry_timeout, torn, ticks>>
  BY DEF SetCalendar, LwipIdle
<1>2. PICK rtc \in ServerDates, rest \in {"date", "time"} : rtc = copying.rtc /\ rest = copying.rest
  BY <1>1 DEF CalendarInv, ClockTypeOK
<1>3. Exists(rtc) /\ Exists(OSRtc)
  BY ClockAssumption DEF CalendarInv
<1>4. Exists(OSRtc') /\ (~ torn => OSRtc' = rtc)
  BY <1>1, <1>2, <1>3, CopyWordFacts DEF CalendarInv
<1>5. wall' \in [day : Nat, sec : 0 .. SecondsOfDay - 1]
  BY <1>1, <1>2, <1>3, InstantFacts DEF Exists
<1>6. timers \in Timers
  BY DEF CalendarInv, ClockTypeOK, Timers
<1>7. timers' \in Timers
  BY <1>1, <1>6, TimerFacts
<1>8. ClockTypeOK'
  BY <1>1, <1>4, <1>5, <1>7 DEF CalendarInv, ClockTypeOK, Timers, Exists
<1>9. Armed(timers)' <= TimeoutPool
  BY <1>7 DEF Timers, Armed
<1>10. QED
  BY <1>1, <1>2, <1>4, <1>8, <1>9 DEF CalendarInv

LEMMA ClockNextInv == CalendarInv /\ (ClockNext \/ UNCHANGED clockVars) => CalendarInv'
<1> SUFFICES ASSUME CalendarInv, ClockNext \/ UNCHANGED clockVars PROVE CalendarInv'
  OBVIOUS
<1>1. /\ timers \in Timers /\ sntp_pcb \in BOOLEAN /\ timerLost \in BOOLEAN
      /\ dns \in 0 .. DnsRequests /\ flight \in 0 .. MaxFlight
      /\ sntp_retry_timeout \in 1 .. RetryMax
  BY DEF CalendarInv, ClockTypeOK, Timers
<1>2. DnsRequests \in Nat /\ MaxFlight \in Nat
  BY ClockAssumption
<1>3. CASE sntp_init
  <2>1. timerLost' \in BOOLEAN /\ sntp_pcb' \in BOOLEAN /\ UNCHANGED calendarVars
    BY <1>1, <1>3 DEF sntp_init
  <2>2. sntp_request(timers) \/ UNCHANGED <<timers, dns, flight, sntp_retry_timeout>>
    BY <1>3 DEF sntp_init
  <2>3. QED
    BY <1>1, <2>1, <2>2, SntpFacts, CalendarAsideInv
<1>4. ASSUME NEW h \in {"request", "retry"}, TimerExpires(h) PROVE CalendarInv'
  <2>1. sys_untimeout(timers, h) \in Timers
    BY <1>1, TimerFacts
  <2>2. /\ UNCHANGED <<sntp_pcb, timerLost, calendarVars>>
        /\ \/ sntp_request(sys_untimeout(timers, h))
           \/ sntp_retry(sys_untimeout(timers, h)) /\ UNCHANGED <<dns, flight>>
    BY <1>4 DEF TimerExpires
  <2>3. QED
    BY <1>1, <2>1, <2>2, SntpFacts, CalendarAsideInv
<1>5. CASE sntp_dns_found
  <2>1. /\ UNCHANGED <<sntp_pcb, timerLost, calendarVars>>
        /\ \/ sntp_send_request(timers) /\ UNCHANGED sntp_retry_timeout
           \/ sntp_retry(timers) /\ UNCHANGED flight
    BY <1>5 DEF sntp_dns_found
  <2>2. dns' \in 0 .. DnsRequests
    BY <1>1, <1>2, <1>5 DEF sntp_dns_found
  <2>3. QED
    BY <1>1, <2>1, <2>2, SntpFacts, CalendarAsideInv
<1>6. CASE RefusedAnswer
  <2>1. sys_untimeout(sys_untimeout(timers, "retry"), "request") \in Timers
    BY <1>1, TimerFacts
  <2>2. /\ UNCHANGED <<sntp_pcb, timerLost, dns, calendarVars>>
        /\ sntp_retry(sys_untimeout(sys_untimeout(timers, "retry"), "request"))
    BY <1>6 DEF RefusedAnswer
  <2>3. flight' \in 0 .. MaxFlight
    BY <1>1, <1>2, <1>6 DEF RefusedAnswer
  <2>4. QED
    BY <1>1, <2>1, <2>2, <2>3, SntpFacts, CalendarAsideInv
<1>7. CASE AnswerLost \/ UNCHANGED clockVars
  <2>1. UNCHANGED <<sntp_pcb, timers, timerLost, dns, sntp_retry_timeout, calendarVars>>
    BY <1>7 DEF AnswerLost, clockVars, sntpVars
  <2>2. flight' \in 0 .. MaxFlight
    BY <1>1, <1>2, <1>7 DEF AnswerLost, clockVars, sntpVars
  <2>3. QED
    BY <1>1, <2>1, <2>2, CalendarAsideInv
<1>8. QED
  BY <1>3, <1>4, <1>5, <1>6, <1>7, SystemTimeInv, SntpRecvInv, SetCalendarInv DEF ClockNext

LEMMA ClockInvariant == Spec => []CalendarInv
<1>1. Init => CalendarInv
  BY ClockInitInv DEF Init
<1>2. CalendarInv /\ [Next]_vars => CalendarInv'
  BY ClockNextInv DEF Next, vars
<1>3. QED
  BY <1>1, <1>2, PTL DEF Spec

(* Between two answers of the server the calendar shows the last one plus   *)
(* the seconds System_Time has counted, for every date and every number of  *)
(* them, unless a second fell between the two words of SetCalendar.         *)
THEOREM ClockCalendarFollows == Spec => []CalendarFollows
<1>1. CalendarInv => CalendarFollows
  BY DEF CalendarInv, CalendarFollows
<1>2. QED
  BY <1>1, ClockInvariant, PTL

(* Even a calendar that is half set is a date that exists: the index and    *)
(* the limits OSUpdateCalendar takes from it are within MonthLength, and    *)
(* the timers, lookups and delays of the client within their bounds.        *)
THEOREM ClockCalendarExists == Spec => []CalendarExists
<1>1. CalendarInv => CalendarExists
  BY DEF CalendarInv, CalendarExists
<1>2. QED
  BY <1>1, ClockInvariant, PTL
==============================================================================

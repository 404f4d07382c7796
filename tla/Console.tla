------------------------------- MODULE Console -------------------------------
(***************************************************************************)
(* The serial console of the board (tarefas.c): the task Terminal, which    *)
(* creates it and echoes what is typed, UARTPutString and UARTPutChar,      *)
(* which any task may call, and the interrupt handler of the UART.          *)
(*                                                                          *)
(* A writer holds the mutex, stores a character in the data register,       *)
(* enables the transmit interrupt and waits without a time limit for the    *)
(* semaphore that the interrupt handler gives.  The UART's interrupt flags  *)
(* are those of the hardware with its FIFO disabled: the flag of the        *)
(* transmitter is set when a character leaves the data register and cleared *)
(* when one is stored.                                                      *)
(***************************************************************************)
EXTENDS Integers

CONSTANTS Writers,      \* tasks that print strings
          Terminal,     \* the task that echoes
          NoTask,
          StringLength, \* characters of a string
          RxQueueLength \* of qUART0

ASSUME ConsoleAssumption ==
    /\ Terminal \notin Writers
    /\ NoTask \notin Writers \cup {Terminal}
    /\ StringLength \in Nat \ {0}
    /\ RxQueueLength \in Nat \ {0}

Printers == Writers \cup {Terminal}

VARIABLES
    console,   \* "none", "ready", or what Terminal left when it gave up
    at,        \* where each task is in UARTPutString or UARTPutChar
    sent,      \* characters of the string it has sent
    echo,      \* characters Terminal has still to put
    mutexTx0,  \* who holds it
    sUART0,    \* the binary semaphore
    qUART0,    \* characters received and not yet taken
    dr,        \* the data register: NoTask, or whose character and which one
    txRaw,     \* the transmitter's interrupt flag
    txEnabled, \* UART_INT_TX is enabled
    rxRaw,     \* the receiver's interrupt flag: a character is there
    wire       \* ghost: the last character that went out, if more of its
               \* string is to come

consoleVars == <<console, at, sent, echo, mutexTx0, sUART0, qUART0, dr, txRaw,
          txEnabled, rxRaw, wire>>

Empty == [of |-> NoTask, number |-> 0]

ConsoleInit ==
    /\ console = "none"
    /\ at = [p \in Printers |-> "idle"]
    /\ sent = [p \in Printers |-> 0]
    /\ echo = 0
    /\ mutexTx0 = NoTask
    /\ sUART0 = 0
    /\ qUART0 = 0
    /\ dr = Empty
    /\ txRaw = FALSE
    /\ txEnabled = FALSE
    /\ rxRaw = FALSE
    /\ wire = Empty

(* Terminal creates a semaphore, the mutex and the queue; if one cannot be  *)
(* created it deletes the others and suspends itself.  The pointer to the   *)
(* mutex is left, so that afterwards it is "deleted" or, if the mutex never *)
(* existed, nobody prints: "without".                                       *)
CreateConsole ==
    /\ console = "none"
    /\ console' \in {"ready", "without", "deleted"}
    /\ UNCHANGED <<at, sent, echo, mutexTx0, sUART0, qUART0, dr, txRaw, txEnabled,
                   rxRaw, wire>>

-----------------------------------------------------------------------------
(* UARTPutString, and UARTPutChar as a string of one character.             *)

Length(p) == IF p = Terminal THEN 1 ELSE StringLength

(* The call: without a mutex it returns at once; a deleted one is used all  *)
(* the same, and nothing is known of what happens then.                     *)
Call(p) ==
    /\ console # "none"
    /\ at[p] = "idle"
    /\ at' = [at EXCEPT ![p] = CASE console = "ready"   -> "mutex"
                                 [] console = "without" -> "idle"
                                 [] console = "deleted" -> "undefined"]
    /\ UNCHANGED <<console, sent, mutexTx0, sUART0, qUART0, dr, txRaw, txEnabled,
                   rxRaw, wire>>

TakeMutex(p) ==
    /\ at[p] = "mutex"
    /\ mutexTx0 = NoTask
    /\ mutexTx0' = p
    /\ at' = [at EXCEPT ![p] = "store"]
    /\ UNCHANGED <<console, sent, echo, sUART0, qUART0, dr, txRaw, txEnabled, rxRaw, wire>>

(* The character is stored, which clears the flag of the transmitter. *)
Store(p) ==
    /\ at[p] = "store"
    /\ dr' = [of |-> p, number |-> sent[p] + 1]
    /\ txRaw' = FALSE
    /\ at' = [at EXCEPT ![p] = "enable"]
    /\ UNCHANGED <<console, sent, echo, mutexTx0, sUART0, qUART0, txEnabled, rxRaw, wire>>

EnableTx(p) ==
    /\ at[p] = "enable"
    /\ txEnabled' = TRUE
    /\ at' = [at EXCEPT ![p] = "wait"]
    /\ UNCHANGED <<console, sent, echo, mutexTx0, sUART0, qUART0, dr, txRaw, rxRaw, wire>>

(* Mutant: the mutex protects a character, not the string. *)
TakeSemaphorePerCharacter(p) ==
    /\ at[p] = "wait"
    /\ sUART0 = 1
    /\ sUART0' = 0
    /\ sent' = [sent EXCEPT ![p] = @ + 1]
    /\ IF sent[p] + 1 < Length(p)
       THEN at' = [at EXCEPT ![p] = "mutex"] /\ mutexTx0' = NoTask
       ELSE at' = [at EXCEPT ![p] = "give"] /\ UNCHANGED mutexTx0
    /\ UNCHANGED <<console, echo, qUART0, dr, txRaw, txEnabled, rxRaw, wire>>

(* The handler has seen the character go: the next one, or the end. *)
TakeSemaphore(p) ==
    /\ at[p] = "wait"
    /\ sUART0 = 1
    /\ sUART0' = 0
    /\ sent' = [sent EXCEPT ![p] = @ + 1]
    /\ at' = [at EXCEPT ![p] = IF sent[p] + 1 < Length(p) THEN "store" ELSE "give"]
    /\ UNCHANGED <<console, echo, mutexTx0, qUART0, dr, txRaw, txEnabled, rxRaw, wire>>

GiveMutex(p) ==
    /\ at[p] = "give"
    /\ mutexTx0' = NoTask
    /\ at' = [at EXCEPT ![p] = "idle"]
    /\ sent' = [sent EXCEPT ![p] = 0]
    /\ UNCHANGED <<console, echo, sUART0, qUART0, dr, txRaw, txEnabled, rxRaw, wire>>

(* Terminal takes a character and echoes it; a carriage return as two. *)
UARTGetChar ==
    /\ console = "ready"
    /\ at[Terminal] = "idle"
    /\ echo = 0
    /\ qUART0 > 0
    /\ qUART0' = qUART0 - 1
    /\ echo' \in {1, 2}
    /\ UNCHANGED <<console, at, sent, mutexTx0, sUART0, dr, txRaw, txEnabled, rxRaw, wire>>

Echo ==
    /\ echo > 0
    /\ Call(Terminal)
    /\ echo' = echo - 1

-----------------------------------------------------------------------------
(* The UART and its interrupt handler.                                      *)

(* The character leaves the data register. *)
Transmit ==
    /\ dr # Empty
    /\ wire' = IF dr.number < Length(dr.of) THEN dr ELSE Empty
    /\ dr' = Empty
    /\ txRaw' = TRUE
    /\ UNCHANGED <<console, at, sent, echo, mutexTx0, sUART0, qUART0, txEnabled, rxRaw>>

(* A character comes in; one that is not fetched in time is overwritten. *)
Receive ==
    /\ console = "ready"
    /\ ~ rxRaw
    /\ rxRaw' = TRUE
    /\ UNCHANGED <<console, at, sent, echo, mutexTx0, sUART0, qUART0, dr, txRaw,
                   txEnabled, wire>>

(* Mutant: the handler clears the flags of interrupts that are not enabled. *)
UARTIntHandlerClearsAll ==
    /\ rxRaw \/ (txRaw /\ txEnabled)
    /\ rxRaw' = FALSE
    /\ qUART0' = IF rxRaw /\ qUART0 < RxQueueLength THEN qUART0 + 1 ELSE qUART0
    /\ IF txRaw /\ txEnabled
       THEN txEnabled' = FALSE /\ sUART0' = 1
       ELSE UNCHANGED <<txEnabled, sUART0>>
    /\ txRaw' = FALSE
    /\ UNCHANGED <<console, at, sent, echo, mutexTx0, dr, wire>>

(* UARTIntHandler: the flags of the enabled interrupts are cleared; what    *)
(* was received goes to the queue, or is dropped if that is full; for the   *)
(* transmitter the interrupt is disabled and the semaphore given.           *)
UARTIntHandler ==
    /\ rxRaw \/ (txRaw /\ txEnabled)
    /\ rxRaw' = FALSE
    /\ qUART0' = IF rxRaw /\ qUART0 < RxQueueLength THEN qUART0 + 1 ELSE qUART0
    /\ IF txRaw /\ txEnabled
       THEN txRaw' = FALSE /\ txEnabled' = FALSE /\ sUART0' = 1
       ELSE UNCHANGED <<txRaw, txEnabled, sUART0>>
    /\ UNCHANGED <<console, at, sent, echo, mutexTx0, dr, wire>>

-----------------------------------------------------------------------------

(* What a task that is printing does next. *)
PrintStep(p) ==
    \/ TakeMutex(p)
    \/ Store(p)
    \/ EnableTx(p)
    \/ TakeSemaphore(p)
    \/ GiveMutex(p)

ConsoleNext ==
    \/ CreateConsole
    \/ \E w \in Writers : Call(w) /\ UNCHANGED echo
    \/ \E p \in Printers : PrintStep(p)
    \/ UARTGetChar
    \/ Echo
    \/ Transmit
    \/ Receive
    \/ UARTIntHandler

-----------------------------------------------------------------------------

Characters == [of : Printers \cup {NoTask}, number : 0 .. StringLength]

ConsoleTypeOK ==
    /\ console \in {"none", "ready", "without", "deleted"}
    /\ at \in [Printers -> {"idle", "mutex", "store", "enable", "wait", "give",
                            "undefined"}]
    /\ sent \in [Printers -> 0 .. StringLength]
    /\ echo \in 0 .. 2
    /\ mutexTx0 \in Printers \cup {NoTask}
    /\ sUART0 \in 0 .. 1
    /\ qUART0 \in 0 .. RxQueueLength
    /\ dr \in Characters
    /\ txRaw \in BOOLEAN
    /\ txEnabled \in BOOLEAN
    /\ rxRaw \in BOOLEAN
    /\ wire \in Characters

(* A string goes out whole: no character is overwritten, since one is       *)
(* stored when the one before it has left the data register and the         *)
(* semaphore has not been given for another one; the characters follow each *)
(* other, and none of another string comes between them.  The state is of   *)
(* its type.                                                                *)
StringsWhole ==
    /\ ConsoleTypeOK
    /\ \A p \in Printers : at[p] = "store" => dr = Empty /\ sUART0 = 0
    /\ dr # Empty => wire = IF dr.number = 1 THEN Empty
                            ELSE [dr EXCEPT !.number = @ - 1]

(* Who prints gets the console and is through some day, although the waits  *)
(* for the mutex and for the interrupt have no time limit.                  *)
EveryStringPrinted == \A p \in Printers : at[p] = "mutex" ~> at[p] = "idle"
==============================================================================

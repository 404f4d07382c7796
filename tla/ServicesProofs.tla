---------------------------- MODULE ServicesProofs ----------------------------
(***************************************************************************)
(* Proofs about the secure sockets and the mutexes and the heap of the      *)
(* kernel, as parts of Services, for any connections, lwIP sockets, tasks,  *)
(* mutexes, priorities and sizes.  The services have no state in common:    *)
(* each has an inductive invariant of its own, which the steps of the       *)
(* others leave alone.                                                      *)
(***************************************************************************)
EXTENDS Services, FiniteSetTheorems, SequenceTheorems, TLAPS

-----------------------------------------------------------------------------
(* The secure sockets.  What TLS_Connect leaves behind after n steps.       *)

Made(n) == UNION {LeftBy(Steps[i]) : i \in 1 .. n}

Session == TlsBlocks \cup SessionBlocks

Leftover(c) == IF Abandoned(c) THEN Made(reached[c]) ELSE {}

(* What the agent and the layers below it know of a connection agrees with  *)
(* what is there: a context that is marked as initialized has all its       *)
(* blocks, and one that is not has none, except after an abandoned          *)
(* TLS_Connect.                                                             *)
Consistent(c) ==
    /\ xSocket[c] <=> phase[c] # "idle"
    /\ xSocket[c] => Reaches(c) /\ "SSOCKETContext" \in blocks[c]
    /\ pvTLSContext[c] => xRequireTLS[c] /\ "TLSContext" \in blocks[c]
    /\ "TLSContext" \in blocks[c] => pvTLSContext[c]
    /\ phase[c] \in {"TLS_Connect", "handshake"} => pvTLSContext[c]
    /\ phase[c] \in {"idle", "options", "connect"} => ~ pvTLSContext[c]
    /\ phase[c] \in {"idle", "options", "connect", "TLS_Connect"} =>
          ~ xMbedInitialized[c] /\ ~ xP11Session[c] /\ reached[c] = 0
    /\ xMbedInitialized[c] \/ phase[c] = "handshake" =>
          pvTLSContext[c] /\ xP11Session[c] /\ Session \subseteq blocks[c] /\ reached[c] >= 8
    /\ phase[c] = "handshake" => ~ xMbedInitialized[c]
    /\ ~ xMbedInitialized[c] /\ phase[c] # "handshake" =>
          blocks[c] \cap Session \subseteq Leftover(c)

(* As long as SOCKETS_Socket has found memory, and once it has not: what it *)
(* opened then is the one socket without a handle, and the code stops.      *)
SocketInv ==
    /\ SocketTypeOK
    /\ \A f \in Fds : lwip[f] # NoOne => xSocket[lwip[f]] /\ fd[lwip[f]] = f
    /\ \A c \in Connections : Consistent(c)
    /\ fault \in {"none", "null host", "null socket"}

UnclosedInv ==
    /\ SocketTypeOK
    /\ \E f \in Fds : Unclosed = {f} /\ fault = NoMemoryFor(f)
    /\ \A c \in Connections : xSocket[c] => Reaches(c)

LEMMA OptionFacts ==
  /\ {Options[i] : i \in DOMAIN Options} = {"pcServerCertificate", "pcDestination", "ppcAlpnProtocols"}
  /\ \A n \in 0 .. Len(Options) : \A i \in 1 .. n : Options[i] \in {Options[j] : j \in DOMAIN Options}
  BY DEF Options

LEMMA StepFacts ==
  /\ Len(Steps) = 9
  /\ \A n \in 0 .. 8 : Made(n) \subseteq Session
  /\ Made(0) = {} /\ Made(1) = {} /\ Made(8) = Session
  /\ \A n \in 0 .. 8 : (\E i \in 1 .. n : Steps[i] = "C_OpenSession") <=> n >= 2
<1>1. /\ Len(Steps) = 9
      /\ Steps[1] = "root certificate" /\ Steps[2] = "C_OpenSession" /\ Steps[3] = "C_FindObjects"
      /\ Steps[4] = "parse key" /\ Steps[5] = "certificate" /\ Steps[6] = "own certificate"
      /\ Steps[7] = "mbedtls_ssl_setup" /\ Steps[8] = "hostname"
  BY DEF Steps
<1>2. /\ LeftBy(Steps[1]) = {} /\ LeftBy(Steps[2]) = {"P11Session"} /\ LeftBy(Steps[3]) = {"P11Key"}
      /\ LeftBy(Steps[4]) = {} /\ LeftBy(Steps[5]) = {} /\ LeftBy(Steps[6]) = {"mbedSslConfig"}
      /\ LeftBy(Steps[7]) = {"mbedSslCtx"} /\ LeftBy(Steps[8]) = {}
  BY <1>1 DEF LeftBy
<1>3. \A i \in 1 .. 8 : i \in {1, 2, 3, 4, 5, 6, 7, 8}
  OBVIOUS
<1>4. \A i \in 1 .. 8 : LeftBy(Steps[i]) \subseteq Session
  BY <1>2, <1>3 DEF Session, TlsBlocks, SessionBlocks
<1>5. \A n \in 0 .. 8 : \A i \in 1 .. n : i \in 1 .. 8
  OBVIOUS
<1>6. \A n \in 0 .. 8 : Made(n) \subseteq Session
  BY <1>4, <1>5 DEF Made
<1>7. Made(0) = {} /\ Made(1) = {}
  <2>1. \A i \in 1 .. 0 : FALSE
    OBVIOUS
  <2>2. \A i \in 1 .. 1 : i = 1
    OBVIOUS
  <2>3. QED
    BY <1>2, <2>1, <2>2 DEF Made
<1>8. Made(8) = Session
  <2>1. 2 \in 1 .. 8 /\ 3 \in 1 .. 8 /\ 6 \in 1 .. 8 /\ 7 \in 1 .. 8
    OBVIOUS
  <2>2. "P11Session" \in Made(8) /\ "P11Key" \in Made(8) /\ "mbedSslConfig" \in Made(8)
        /\ "mbedSslCtx" \in Made(8)
    BY <1>2, <2>1 DEF Made
  <2>3. QED
    BY <1>6, <2>2 DEF Session, TlsBlocks, SessionBlocks
<1>9. \A n \in 0 .. 8 : (\E i \in 1 .. n : Steps[i] = "C_OpenSession") <=> n >= 2
  <2>1. \A i \in 1 .. 8 : Steps[i] = "C_OpenSession" <=> i = 2
    BY <1>1, <1>3
  <2>2. QED
    BY <2>1
<1>10. QED
  BY <1>1, <1>6, <1>7, <1>8, <1>9

LEMMA BlockFacts ==
  /\ Session \subseteq Blocks
  /\ "SSOCKETContext" \in Blocks \ Session /\ "TLSContext" \in Blocks \ Session
  /\ {Options[i] : i \in DOMAIN Options} \subseteq Blocks \ (Session \cup {"SSOCKETContext", "TLSContext"})
  /\ \A b \in Blocks : \/ b \in {"SSOCKETContext", "TLSContext"} \cup Session
                       \/ b \in {Options[i] : i \in DOMAIN Options}
<1>1. Session = {"mbedSslCtx", "mbedSslConfig", "P11Session", "P11Key"}
  BY DEF Session, TlsBlocks, SessionBlocks
<1>2. Blocks = {"SSOCKETContext", "TLSContext"} \cup {"pcServerCertificate", "pcDestination", "ppcAlpnProtocols"}
                  \cup Session
  BY OptionFacts DEF Blocks, Session
<1>3. QED
  BY <1>1, <1>2, OptionFacts

(* Nothing of connection d changes. *)
Same(d) ==
    /\ phase'[d] = phase[d] /\ xSocket'[d] = xSocket[d] /\ fd'[d] = fd[d]
    /\ xRequireTLS'[d] = xRequireTLS[d] /\ pvTLSContext'[d] = pvTLSContext[d]
    /\ xMbedInitialized'[d] = xMbedInitialized[d] /\ xP11Session'[d] = xP11Session[d]
    /\ blocks'[d] = blocks[d] /\ reached'[d] = reached[d]

(* A step for connection c that gives or takes no lwIP socket but its own. *)
LEMMA OneConnectionInv ==
  ASSUME SocketInv, NEW c \in Connections, SocketTypeOK',
         \A d \in Connections \ {c} : Same(d),
         \A f \in Fds : lwip'[f] \notin {NoOne, c} => lwip'[f] = lwip[f],
         \A f \in Fds : lwip[f] \notin {NoOne, c} => lwip'[f] = lwip[f],
         \A f \in Fds : lwip'[f] = c => xSocket'[c] /\ fd'[c] = f,
         Consistent(c)', fault' \in {"none", "null host", "null socket"}
  PROVE  SocketInv'
<1>1. \A f \in Fds : lwip'[f] # NoOne => xSocket'[lwip'[f]] /\ fd'[lwip'[f]] = f
  <2> SUFFICES ASSUME NEW f \in Fds, lwip'[f] # NoOne, lwip'[f] # c
               PROVE  xSocket'[lwip'[f]] /\ fd'[lwip'[f]] = f
    OBVIOUS
  <2>1. PICK d \in Connections \ {c} : d = lwip'[f] /\ d = lwip[f]
    BY DEF SocketTypeOK
  <2>2. xSocket[d] /\ fd[d] = f
    BY <2>1 DEF SocketInv
  <2>3. xSocket'[d] = xSocket[d] /\ fd'[d] = fd[d]
    BY DEF Same
  <2>4. QED
    BY <2>1, <2>2, <2>3, Zenon
<1>2. ASSUME NEW d \in Connections \ {c} PROVE Consistent(d)'
  <2>1. Consistent(d) /\ Same(d)
    BY DEF SocketInv
  <2>2. Reaches(d) => Reaches(d)'
    <3>1. fd'[d] = fd[d] /\ d \notin {NoOne, c}
      BY <2>1, SocketAssumption DEF Same
    <3>2. QED
      BY <3>1 DEF Reaches
  <2>3. Leftover(d)' = Leftover(d)
    BY <2>1 DEF Leftover, Abandoned, Same
  <2>4. QED
    BY <2>1, <2>2, <2>3 DEF Consistent, Same
<1>3. QED
  BY <1>1, <1>2 DEF SocketInv

LEMMA SocketInitInv == SocketInit => SocketInv
<1> SUFFICES ASSUME SocketInit PROVE SocketInv
  OBVIOUS
<1>1. SocketTypeOK
  <2>1. reached \in [Connections -> 0 .. Len(Steps)]
    BY StepFacts DEF SocketInit
  <2>2. QED
    BY <2>1 DEF SocketInit, SocketTypeOK
<1>2. ASSUME NEW c \in Connections PROVE Consistent(c)
  BY DEF SocketInit, Consistent
<1>3. QED
  BY <1>1, <1>2 DEF SocketInit, SocketInv

(* A call through pointers to what is there is not a fault. *)
LEMMA CheckedFacts ==
  ASSUME NEW c \in Connections, Reaches(c), NEW used \in SUBSET blocks[c]
  PROVE  Checked(c, used) = fault
  BY DEF Checked, Accessed

LEMMA FreedFacts ==
  ASSUME SocketInv, NEW c \in Connections, xMbedInitialized[c] \/ phase[c] = "handshake"
  PROVE  FreedBy(c) = Session /\ FreedBy(c) \cup {"TLSContext"} \subseteq blocks[c]
  BY DEF SocketInv, Consistent, FreedBy, SessionOf, Session

(* The context is as it was, or it is closed and marked as unusable. *)
Outcome(c) ==
    \/ UNCHANGED <<blocks, xMbedInitialized>>
    \/ /\ xMbedInitialized[c] \/ phase[c] = "handshake"
       /\ blocks' = [blocks EXCEPT ![c] = @ \ Session]
       /\ xMbedInitialized' = [xMbedInitialized EXCEPT ![c] = FALSE]

LEMMA FreeContextFacts ==
  ASSUME SocketInv, NEW c \in Connections, xMbedInitialized[c] \/ phase[c] = "handshake",
         prvFreeContext(c)
  PROVE  fault' = fault /\ Outcome(c)
<1>1. phase[c] # "idle" /\ Reaches(c)
  BY DEF SocketInv, Consistent
<1>2. QED
  BY <1>1, FreedFacts, CheckedFacts DEF prvFreeContext, Outcome

LEMMA TransferFacts ==
  ASSUME SocketInv, NEW c \in Connections, NEW result, phase[c] # "idle", Transfer(c, result)
  PROVE  fault' = fault /\ Outcome(c)
<1>1. Reaches(c) /\ "SSOCKETContext" \in blocks[c]
  BY DEF SocketInv, Consistent
<1>2. CASE ~ xRequireTLS[c]
  <2>1. /\ fault' = Checked(c, {"SSOCKETContext"}) \/ fault' = fault
        /\ UNCHANGED <<blocks, xMbedInitialized>>
    BY <1>2 DEF Transfer
  <2>2. QED
    BY <1>1, <2>1, CheckedFacts DEF Outcome
<1>3. CASE xRequireTLS[c] /\ ~ (pvTLSContext[c] /\ xMbedInitialized[c])
  <2>1. /\ fault' = Accessed(c, {"SSOCKETContext"})
        /\ UNCHANGED <<blocks, xMbedInitialized>>
    BY <1>3 DEF Transfer
  <2>2. QED
    BY <1>1, <2>1 DEF Accessed, Outcome
<1>4. CASE xRequireTLS[c] /\ pvTLSContext[c] /\ xMbedInitialized[c]
  <2>1. CASE prvFreeContext(c)
    BY <1>4, <2>1, FreeContextFacts
  <2>2. CASE fault' = Checked(c, TlsBlocks \cup {"SSOCKETContext", "TLSContext"})
             /\ UNCHANGED <<blocks, xMbedInitialized>>
    <3>1. TlsBlocks \cup {"SSOCKETContext", "TLSContext"} \subseteq blocks[c]
      BY <1>1, <1>4 DEF SocketInv, Consistent, Session
    <3>2. QED
      BY <1>1, <2>2, <3>1, CheckedFacts DEF Outcome
  <2>3. QED
    BY <1>4, <2>1, <2>2 DEF Transfer
<1>5. QED
  BY <1>2, <1>3, <1>4

Later == {"connected", "disconnect", "shutdown", "drain", "close"}

(* Reads, writes and the steps of the close, once TLS_Connect is over. *)
LEMMA LaterInv ==
  ASSUME SocketInv, NEW c \in Connections, phase[c] \in Later \cup {"handshake"},
         NEW label \in Later, Goto(c, label), Outcome(c),
         phase[c] = "handshake" => xMbedInitialized' = [xMbedInitialized EXCEPT ![c] = FALSE]
                                   /\ blocks' = [blocks EXCEPT ![c] = @ \ Session],
         fault' = fault, UNCHANGED <<xSocket, fd, xRequireTLS, pvTLSContext, xP11Session, reached, lwip, lost>>
  PROVE  SocketInv'
<1>1. phase' = [phase EXCEPT ![c] = label]
  BY DEF Goto
<1>2. SocketTypeOK'
  <2>1. blocks' \in [Connections -> SUBSET Blocks]
    <3>1. blocks \in [Connections -> SUBSET Blocks]
      BY DEF SocketInv, SocketTypeOK
    <3>2. blocks[c] \ Session \in SUBSET Blocks
      BY <3>1
    <3>3. CASE UNCHANGED blocks
      BY <3>1, <3>3
    <3>4. CASE blocks' = [blocks EXCEPT ![c] = @ \ Session]
      BY <3>1, <3>2, <3>4
    <3>5. QED
      BY <3>3, <3>4 DEF Outcome
  <2>2. xMbedInitialized' \in [Connections -> BOOLEAN]
    BY DEF SocketInv, SocketTypeOK, Outcome
  <2>3. QED
    BY <1>1, <2>1, <2>2 DEF SocketInv, SocketTypeOK, Later
<1>3. phase'[c] = label /\ label \notin {"idle", "options", "connect", "TLS_Connect", "handshake"}
  BY <1>1 DEF SocketInv, SocketTypeOK, Later
<1>4. ASSUME NEW d \in Connections \ {c} PROVE Same(d)
  BY <1>1 DEF Outcome, Same, SocketInv, SocketTypeOK
<1>5. Consistent(c) /\ phase[c] \notin {"idle", "options", "connect", "TLS_Connect"}
  BY DEF SocketInv, Later
<1>6. Reaches(c)' = Reaches(c) /\ Leftover(c)' = Leftover(c)
  BY DEF Reaches, Leftover, Abandoned
<1>7. \/ /\ blocks'[c] = blocks[c] /\ xMbedInitialized'[c] = xMbedInitialized[c]
         /\ phase[c] # "handshake"
      \/ blocks'[c] = blocks[c] \ Session /\ ~ xMbedInitialized'[c]
  BY DEF Outcome, SocketInv, SocketTypeOK
<1>8. Consistent(c)'
  BY <1>3, <1>5, <1>6, <1>7, BlockFacts DEF Consistent
<1>9. \A f \in Fds : lwip[f] = c => xSocket[c] /\ fd[c] = f
  BY SocketAssumption DEF SocketInv
<1>10. QED
  BY <1>2, <1>4, <1>8, <1>9, OneConnectionInv DEF SocketInv

LEMMA TrafficInv ==
  ASSUME SocketInv, NEW c \in Connections, Traffic(c) \/ SOCKETS_Shutdown(c) \/ Drain(c)
  PROVE  SocketInv'
<1>1. CASE SOCKETS_Recv(c) \/ SOCKETS_Send(c) \/ MQTT_Disconnect(c) \/ Drain(c)
  <2>1. PICK label \in Later : Goto(c, label)
    BY <1>1 DEF SOCKETS_Recv, SOCKETS_Send, MQTT_Disconnect, Drain, Later
  <2>2. PICK result : Transfer(c, result)
    BY <1>1 DEF SOCKETS_Recv, SOCKETS_Send, MQTT_Disconnect, Drain
  <2>3. /\ UNCHANGED <<xSocket, fd, xRequireTLS, pvTLSContext, xP11Session, reached, lwip, lost>>
        /\ phase[c] \in Later
    BY <1>1 DEF SOCKETS_Recv, SOCKETS_Send, MQTT_Disconnect, Drain, Later
  <2>4. phase[c] \notin {"idle", "handshake"}
    BY <2>3 DEF Later
  <2>5. fault' = fault /\ Outcome(c)
    BY <2>2, <2>4, TransferFacts
  <2>6. QED
    BY <2>1, <2>3, <2>4, <2>5, LaterInv
<1>2. CASE prvProcessReceivedDisconnect(c) \/ SOCKETS_Shutdown(c)
  <2>1. PICK label \in Later : Goto(c, label)
    BY <1>2 DEF prvProcessReceivedDisconnect, SOCKETS_Shutdown, Later
  <2>2. /\ UNCHANGED <<xSocket, fd, xRequireTLS, pvTLSContext, xP11Session, reached, lwip, lost>>
        /\ UNCHANGED <<blocks, xMbedInitialized>>
        /\ phase[c] \in Later /\ phase[c] \notin {"idle", "handshake"}
        /\ fault' = fault \/ fault' = Checked(c, {"SSOCKETContext"})
    BY <1>2 DEF prvProcessReceivedDisconnect, SOCKETS_Shutdown, Later
  <2>3. Reaches(c) /\ "SSOCKETContext" \in blocks[c]
    BY <2>2 DEF SocketInv, Consistent
  <2>4. fault' = fault
    BY <2>2, <2>3, CheckedFacts
  <2>5. QED
    BY <2>1, <2>2, <2>4, LaterInv DEF Outcome
<1>3. QED
  BY <1>1, <1>2 DEF Traffic

LEMMA HandshakeInv ==
  ASSUME SocketInv, NEW c \in Connections, TLS_ConnectHandshake(c)
  PROVE  SocketInv'
<1>1. /\ phase[c] = "handshake"
      /\ UNCHANGED <<xSocket, fd, xRequireTLS, pvTLSContext, xP11Session, lwip, lost>>
  BY DEF TLS_ConnectHandshake
<1>2. CASE /\ prvFreeContext(c) /\ Goto(c, "shutdown") /\ UNCHANGED reached
  <2>1. fault' = fault /\ Outcome(c)
    BY <1>1, <1>2, FreeContextFacts
  <2>2. /\ xMbedInitialized' = [xMbedInitialized EXCEPT ![c] = FALSE]
        /\ blocks' = [blocks EXCEPT ![c] = @ \ Session]
    BY <1>1, <1>2, FreedFacts DEF prvFreeContext
  <2>3. "shutdown" \in Later
    BY DEF Later
  <2>4. QED
    BY <1>1, <1>2, <2>1, <2>2, <2>3, LaterInv
<1>3. CASE /\ fault' = Checked(c, Session) /\ reached' = [reached EXCEPT ![c] = Len(Steps)]
           /\ xMbedInitialized' = [xMbedInitialized EXCEPT ![c] = TRUE]
           /\ Goto(c, "connected") /\ UNCHANGED blocks
  <2>1. Consistent(c)
    BY DEF SocketInv
  <2>2. Session \subseteq blocks[c] /\ Reaches(c)
    BY <1>1, <2>1 DEF Consistent
  <2>3. fault' = fault
    BY <1>3, <2>2, CheckedFacts
  <2>4. phase' = [phase EXCEPT ![c] = "connected"]
    BY <1>3 DEF Goto
  <2>5. SocketTypeOK'
    <3>1. reached' \in [Connections -> 0 .. Len(Steps)]
      <4>1. Len(Steps) \in 0 .. Len(Steps)
        BY StepFacts
      <4>2. QED
        BY <1>3, <4>1 DEF SocketInv, SocketTypeOK
    <3>2. QED
      BY <1>1, <1>3, <2>3, <2>4, <3>1 DEF SocketInv, SocketTypeOK
  <2>6. ASSUME NEW d \in Connections \ {c} PROVE Same(d)
    BY <1>1, <1>3, <2>4 DEF Same, SocketInv, SocketTypeOK
  <2>7. phase'[c] = "connected" /\ xMbedInitialized'[c] /\ reached'[c] = 9 /\ blocks'[c] = blocks[c]
    BY <1>3, <2>4, StepFacts DEF SocketInv, SocketTypeOK
  <2>8. Reaches(c)' = Reaches(c)
    BY <1>1 DEF Reaches
  <2>9. Consistent(c)'
    BY <1>1, <2>1, <2>7, <2>8 DEF Consistent
  <2>10. \A f \in Fds : lwip[f] = c => xSocket[c] /\ fd[c] = f
    BY SocketAssumption DEF SocketInv
  <2>11. QED
    BY <1>1, <2>3, <2>5, <2>6, <2>9, <2>10, OneConnectionInv DEF SocketInv
<1>4. QED
  BY <1>2, <1>3 DEF TLS_ConnectHandshake, Session

(* The set up up to TLS_Connect. *)
LEMMA SocketsSocketInv ==
  ASSUME SocketInv, NEW c \in Connections, SOCKETS_Socket(c), fault = "none",
         fault' \notin {"unclosed socket", "wild pointer"}
  PROVE  SocketInv'
<1>1. /\ phase[c] = "idle" /\ ~ xSocket[c]
      /\ UNCHANGED <<xRequireTLS, pvTLSContext, xMbedInitialized, xP11Session, reached, lost>>
  BY DEF SOCKETS_Socket
<1>2. Consistent(c)
  BY DEF SocketInv
<1>3. \A f \in Fds : lwip[f] # c
  BY <1>1, SocketAssumption DEF SocketInv
<1>4. CASE /\ fault' \in {"null host", "null socket"}
           /\ UNCHANGED <<phase, lwip, fd, blocks, xSocket>>
  <2>1. SocketTypeOK'
    BY <1>1, <1>4 DEF SocketInv, SocketTypeOK, SetupFaults
  <2>2. Consistent(c)' /\ \A d \in Connections : Same(d)
    BY <1>1, <1>2, <1>4 DEF Consistent, Same, Reaches, Leftover, Abandoned
  <2>3. QED
    BY <1>3, <1>4, <2>1, <2>2, OneConnectionInv
<1>5. CASE \E f \in Fds :
              /\ lwip[f] = NoOne
              /\ lwip' = [lwip EXCEPT ![f] = c]
              /\ fd' = [fd EXCEPT ![c] = f]
              /\ blocks' = [blocks EXCEPT ![c] = {"SSOCKETContext"}]
              /\ xSocket' = [xSocket EXCEPT ![c] = TRUE]
              /\ Goto(c, "options")
              /\ UNCHANGED fault
  <2>1. PICK f \in Fds :
              /\ lwip[f] = NoOne
              /\ lwip' = [lwip EXCEPT ![f] = c]
              /\ fd' = [fd EXCEPT ![c] = f]
              /\ blocks' = [blocks EXCEPT ![c] = {"SSOCKETContext"}]
              /\ xSocket' = [xSocket EXCEPT ![c] = TRUE]
              /\ phase' = [phase EXCEPT ![c] = "options"]
              /\ UNCHANGED fault
    BY <1>5 DEF Goto
  <2>2. SocketTypeOK'
    <3>1. {"SSOCKETContext"} \in SUBSET Blocks
      BY BlockFacts
    <3>2. /\ blocks' \in [Connections -> SUBSET Blocks] /\ fd' \in [Connections -> Fds \cup {NoFd}]
          /\ lwip' \in [Fds -> Connections \cup {NoOne}]
      BY <2>1, <3>1 DEF SocketInv, SocketTypeOK
    <3>3. QED
      BY <1>1, <2>1, <3>2 DEF SocketInv, SocketTypeOK
  <2>3. ASSUME NEW d \in Connections \ {c} PROVE Same(d)
    BY <1>1, <2>1 DEF Same, SocketInv, SocketTypeOK
  <2>4. /\ phase'[c] = "options" /\ xSocket'[c] /\ fd'[c] = f /\ blocks'[c] = {"SSOCKETContext"}
        /\ lwip'[f] = c /\ \A g \in Fds \ {f} : lwip'[g] = lwip[g]
    BY <2>1 DEF SocketInv, SocketTypeOK
  <2>5. Reaches(c)'
    BY <2>4 DEF Reaches
  <2>6. "TLSContext" \notin blocks'[c] /\ blocks'[c] \cap Session = {} /\ ~ pvTLSContext'[c]
    BY <1>1, <1>2, <2>4, BlockFacts DEF Consistent
  <2>7. Consistent(c)'
    BY <1>1, <1>2, <2>4, <2>5, <2>6 DEF Consistent
  <2>8. /\ \A g \in Fds : lwip'[g] \notin {NoOne, c} => lwip'[g] = lwip[g]
        /\ \A g \in Fds : lwip[g] \notin {NoOne, c} => lwip'[g] = lwip[g]
        /\ \A g \in Fds : lwip'[g] = c => xSocket'[c] /\ fd'[c] = g
    BY <1>3, <2>1, <2>4
  <2>9. fault' \in {"none", "null host", "null socket"}
    BY <2>1 DEF SocketInv
  <2>10. QED
    BY <2>2, <2>3, <2>7, <2>8, <2>9, OneConnectionInv
<1>6. QED
  BY <1>4, <1>5 DEF SOCKETS_Socket, NoMemoryFor

(* There is no memory for the context of the lwIP socket. *)
LEMMA NoMemoryInv ==
  ASSUME SocketInv, NEW c \in Connections, SOCKETS_Socket(c), fault = "none",
         fault' \in {"unclosed socket", "wild pointer"}
  PROVE  UnclosedInv'
<1>1. PICK f \in Fds : /\ lwip[f] = NoOne
                       /\ lwip' = [lwip EXCEPT ![f] = c]
                       /\ fault' = NoMemoryFor(f)
                       /\ UNCHANGED <<phase, fd, blocks, xSocket>>
  BY DEF SOCKETS_Socket
<1>2. /\ ~ xSocket[c]
      /\ UNCHANGED <<xRequireTLS, pvTLSContext, xMbedInitialized, xP11Session, reached, lost>>
  BY DEF SOCKETS_Socket
<1>3. lwip'[f] = c /\ \A g \in Fds \ {f} : lwip'[g] = lwip[g]
  BY <1>1 DEF SocketInv, SocketTypeOK
<1>4. SocketTypeOK'
  <2>1. lwip' \in [Fds -> Connections \cup {NoOne}]
    BY <1>1 DEF SocketInv, SocketTypeOK
  <2>2. fault' \in {"none", "closed socket", "freed block"} \cup SetupFaults
    BY DEF SetupFaults
  <2>3. QED
    BY <1>1, <1>2, <2>1, <2>2 DEF SocketInv, SocketTypeOK
<1>5. Unclosed' = {f}
  <2>1. f \in Unclosed'
    BY <1>1, <1>2, <1>3, SocketAssumption DEF Unclosed
  <2>2. ASSUME NEW g \in Fds \ {f}, lwip'[g] # NoOne PROVE xSocket'[lwip'[g]] /\ fd'[lwip'[g]] = g
    BY <1>1, <1>3, <2>2 DEF SocketInv
  <2>3. QED
    BY <2>1, <2>2 DEF Unclosed
<1>6. ASSUME NEW d \in Connections, xSocket'[d] PROVE Reaches(d)'
  <2>1. Reaches(d) /\ fd'[d] = fd[d]
    BY <1>1, <1>6 DEF SocketInv, Consistent
  <2>2. fd[d] # f
    BY <1>1, <2>1, SocketAssumption DEF Reaches
  <2>3. QED
    BY <1>3, <2>1, <2>2 DEF Reaches
<1>7. QED
  BY <1>1, <1>4, <1>5, <1>6 DEF UnclosedInv, NoMemoryFor

(* A step that gives and takes no lwIP socket. *)
LEMMA SameSocketInv ==
  ASSUME SocketInv, NEW c \in Connections, SocketTypeOK', \A d \in Connections \ {c} : Same(d),
         UNCHANGED <<xSocket, fd, lwip, fault>>, Consistent(c)'
  PROVE  SocketInv'
<1>1. \A f \in Fds : lwip[f] = c => xSocket[c] /\ fd[c] = f
  BY SocketAssumption DEF SocketInv
<1>2. QED
  BY <1>1, OneConnectionInv DEF SocketInv

LEMMA SetSockOptInv ==
  ASSUME SocketInv, NEW c \in Connections, NEW wanted \in SUBSET {Options[i] : i \in DOMAIN Options},
         SOCKETS_SetSockOpt(c, wanted) \/ Unsecured(c)
  PROVE  SocketInv'
<1>1. /\ phase[c] = "options"
      /\ UNCHANGED <<xSocket, fd, pvTLSContext, xMbedInitialized, xP11Session, reached, lwip, lost,
                     fault>>
      /\ xRequireTLS' \in [Connections -> BOOLEAN]
      /\ \A d \in Connections \ {c} : xRequireTLS'[d] = xRequireTLS[d]
  BY DEF SOCKETS_SetSockOpt, Unsecured, SocketInv, SocketTypeOK
<1>2. PICK copied \in SUBSET {Options[i] : i \in DOMAIN Options} :
         blocks' = [blocks EXCEPT ![c] = @ \cup copied]
  <2>1. CASE Unsecured(c)
    <3>1. blocks' = [blocks EXCEPT ![c] = @ \cup {}]
      BY <2>1 DEF Unsecured, SocketInv, SocketTypeOK
    <3>2. QED
      BY <3>1
  <2>2. CASE SOCKETS_SetSockOpt(c, wanted)
    BY <2>2 DEF SOCKETS_SetSockOpt
  <2>3. QED
    BY <2>1, <2>2
<1>3. PICK label \in {"connect", "shutdown"} : phase' = [phase EXCEPT ![c] = label]
  BY DEF SOCKETS_SetSockOpt, Unsecured, Goto
<1>4. blocks[c] \in SUBSET Blocks /\ copied \in SUBSET Blocks
      /\ copied \cap (Session \cup {"SSOCKETContext", "TLSContext"}) = {}
  BY BlockFacts DEF SocketInv, SocketTypeOK
<1>5. SocketTypeOK'
  <2>1. blocks' \in [Connections -> SUBSET Blocks]
    <3>1. blocks[c] \cup copied \in SUBSET Blocks
      BY <1>4
    <3>2. QED
      BY <1>2, <3>1 DEF SocketInv, SocketTypeOK
  <2>2. QED
    BY <1>1, <1>3, <2>1 DEF SocketInv, SocketTypeOK
<1>6. ASSUME NEW d \in Connections \ {c} PROVE Same(d)
  BY <1>1, <1>2, <1>3 DEF Same, SocketInv, SocketTypeOK
<1>7. phase'[c] = label /\ blocks'[c] = blocks[c] \cup copied
  BY <1>2, <1>3 DEF SocketInv, SocketTypeOK
<1>8. Consistent(c)
  BY DEF SocketInv
<1>9. Reaches(c)' = Reaches(c) /\ Leftover(c)' = Leftover(c)
  BY <1>1 DEF Reaches, Leftover, Abandoned
<1>10. Consistent(c)'
  BY <1>1, <1>3, <1>4, <1>7, <1>8, <1>9 DEF Consistent
<1>11. QED
  BY <1>1, <1>5, <1>6, <1>10, SameSocketInv

LEMMA SocketsConnectInv ==
  ASSUME SocketInv, NEW c \in Connections, SOCKETS_Connect(c)
  PROVE  SocketInv'
<1>1. /\ phase[c] = "connect" /\ fault' = Checked(c, {"SSOCKETContext"})
      /\ UNCHANGED <<xSocket, fd, xRequireTLS, xMbedInitialized, xP11Session, reached, lwip, lost>>
  BY DEF SOCKETS_Connect
<1>2. Consistent(c) /\ blocks[c] \in SUBSET Blocks
  BY DEF SocketInv, SocketTypeOK
<1>3. fault' = fault
  BY <1>1, <1>2, CheckedFacts DEF Consistent
<1>4. \/ /\ xRequireTLS[c]
         /\ pvTLSContext' = [pvTLSContext EXCEPT ![c] = TRUE]
         /\ blocks' = [blocks EXCEPT ![c] = @ \cup {"TLSContext"}]
         /\ phase' = [phase EXCEPT ![c] = "TLS_Connect"]
      \/ /\ \E label \in {"connected", "shutdown"} : phase' = [phase EXCEPT ![c] = label]
         /\ UNCHANGED <<pvTLSContext, blocks>>
  BY DEF SOCKETS_Connect, Goto
<1>5. SocketTypeOK'
  <2>1. blocks' \in [Connections -> SUBSET Blocks]
    <3>1. blocks[c] \cup {"TLSContext"} \in SUBSET Blocks
      BY <1>2, BlockFacts
    <3>2. CASE blocks' = [blocks EXCEPT ![c] = @ \cup {"TLSContext"}]
      BY <3>1, <3>2 DEF SocketInv, SocketTypeOK
    <3>3. QED
      BY <1>4, <3>2 DEF SocketInv, SocketTypeOK
  <2>2. pvTLSContext' \in [Connections -> BOOLEAN]
    BY <1>4 DEF SocketInv, SocketTypeOK
  <2>3. phase' \in [Connections -> {"idle", "options", "connect", "TLS_Connect", "handshake", "connected",
                                    "disconnect", "shutdown", "drain", "close"}]
    BY <1>4 DEF SocketInv, SocketTypeOK
  <2>4. QED
    BY <1>1, <1>3, <2>1, <2>2, <2>3 DEF SocketInv, SocketTypeOK
<1>6. ASSUME NEW d \in Connections \ {c} PROVE Same(d)
  BY <1>1, <1>4 DEF Same, SocketInv, SocketTypeOK
<1>7. \/ /\ xRequireTLS[c] /\ pvTLSContext'[c] /\ blocks'[c] = blocks[c] \cup {"TLSContext"}
         /\ phase'[c] = "TLS_Connect"
      \/ /\ phase'[c] \in {"connected", "shutdown"}
         /\ pvTLSContext'[c] = pvTLSContext[c] /\ blocks'[c] = blocks[c]
  BY <1>4, ZenonT(40) DEF SocketInv, SocketTypeOK
<1>8. Reaches(c)' = Reaches(c) /\ Leftover(c)' = Leftover(c)
  BY <1>1 DEF Reaches, Leftover, Abandoned
<1>9. Consistent(c)'
  BY <1>1, <1>2, <1>7, <1>8, BlockFacts DEF Consistent
<1>10. QED
  BY <1>1, <1>3, <1>5, <1>6, <1>9, SameSocketInv

LEMMA PrepareInv ==
  ASSUME SocketInv, NEW c \in Connections, TLS_ConnectPrepare(c)
  PROVE  SocketInv'
<1>1. /\ phase[c] = "TLS_Connect"
      /\ UNCHANGED <<xSocket, fd, xRequireTLS, pvTLSContext, xMbedInitialized, lwip, lost, fault>>
  BY DEF TLS_ConnectPrepare
<1> DEFINE Opened(n) == \E i \in 1 .. n : Steps[i] = "C_OpenSession"
<1>2. PICK n \in 0 .. 8 :
         /\ reached' = [reached EXCEPT ![c] = n]
         /\ blocks' = [blocks EXCEPT ![c] = @ \cup Made(n)]
         /\ xP11Session' = [xP11Session EXCEPT ![c] = Opened(n)]
         /\ phase' = [phase EXCEPT ![c] = IF n = 8 THEN "handshake" ELSE "shutdown"]
  <2>1. Len(Steps) - 1 = 8
    BY StepFacts
  <2>2. QED
    BY <2>1, Zenon DEF TLS_ConnectPrepare, Made, Goto
<1>2a. Opened(n) \in BOOLEAN /\ (Opened(n) <=> n >= 2)
  BY StepFacts
<1> HIDE DEF Opened
<1>3. Consistent(c) /\ blocks[c] \in SUBSET Blocks
  BY DEF SocketInv, SocketTypeOK
<1>4. Made(n) \subseteq Session
  BY StepFacts
<1>5. SocketTypeOK'
  <2>1. blocks[c] \cup Made(n) \in SUBSET Blocks
    BY <1>3, <1>4, BlockFacts
  <2>2. blocks' \in [Connections -> SUBSET Blocks]
    BY <1>2, <2>1 DEF SocketInv, SocketTypeOK
  <2>3. n \in 0 .. Len(Steps)
    BY StepFacts
  <2>4. reached' \in [Connections -> 0 .. Len(Steps)]
    BY <1>2, <2>3 DEF SocketInv, SocketTypeOK
  <2>5. xP11Session' \in [Connections -> BOOLEAN]
    BY <1>2, <1>2a DEF SocketInv, SocketTypeOK
  <2>6. QED
    BY <1>1, <1>2, <2>2, <2>4, <2>5 DEF SocketInv, SocketTypeOK
<1>6. ASSUME NEW d \in Connections \ {c} PROVE Same(d)
  BY <1>1, <1>2 DEF Same, SocketInv, SocketTypeOK
<1>7. /\ phase'[c] = IF n = 8 THEN "handshake" ELSE "shutdown"
      /\ blocks'[c] = blocks[c] \cup Made(n) /\ reached'[c] = n /\ (xP11Session'[c] <=> n >= 2)
  BY <1>2, <1>2a DEF SocketInv, SocketTypeOK
<1>8. Reaches(c)' = Reaches(c)
  BY <1>1 DEF Reaches
<1>9. blocks[c] \cap Session = {}
  <2>1. Leftover(c) = {}
    BY <1>1, <1>3 DEF Consistent, Leftover, Abandoned
  <2>2. QED
    BY <1>1, <1>3, <2>1 DEF Consistent
<1>10. n # 8 => Leftover(c)' = Made(n)
  <2>1. n \in 2 .. 7 => Leftover(c)' = Made(n)
    BY <1>7, StepFacts DEF Leftover, Abandoned
  <2>2. n \in {0, 1} => Made(n) = {} /\ Leftover(c)' = {}
    BY <1>7, StepFacts DEF Leftover, Abandoned
  <2>3. QED
    BY <2>1, <2>2
<1>11. n = 8 => Session \subseteq blocks'[c]
  BY <1>7, StepFacts
<1>12. Consistent(c)'
  BY <1>1, <1>3, <1>4, <1>7, <1>8, <1>9, <1>10, <1>11, BlockFacts DEF Consistent
<1>13. QED
  BY <1>1, <1>5, <1>6, <1>12, SameSocketInv

(* What SOCKETS_Close frees is there, and is all that there is, except what *)
(* an abandoned TLS_Connect made.                                           *)
LEMMA CloseFacts ==
  ASSUME SocketInv, NEW c \in Connections, phase[c] = "close"
  PROVE  /\ Own(c) \cup TLS_Cleanup(c) \subseteq blocks[c]
         /\ blocks[c] \ (Own(c) \cup TLS_Cleanup(c)) \subseteq Leftover(c)
<1>1. Consistent(c) /\ blocks[c] \in SUBSET Blocks
  BY DEF SocketInv, SocketTypeOK
<1> DEFINE options == {Options[i] : i \in DOMAIN Options}
<1>2. Own(c) = {"SSOCKETContext"} \cup (blocks[c] \cap options)
  BY DEF Own
<1>3. TLS_Cleanup(c) = (IF pvTLSContext[c] THEN {"TLSContext"} ELSE {})
                          \cup (IF xMbedInitialized[c] THEN Session ELSE {})
  <2>1. CASE xMbedInitialized[c]
    BY <1>1, <2>1, FreedFacts DEF TLS_Cleanup, Consistent
  <2>2. CASE ~ xMbedInitialized[c]
    BY <1>1, <2>2 DEF TLS_Cleanup, Consistent
  <2>3. QED
    BY <2>1, <2>2
<1>4. \A b \in Blocks : b \in {"SSOCKETContext", "TLSContext"} \cup Session \/ b \in options
  BY BlockFacts
<1> HIDE DEF options
<1>5. Own(c) \cup TLS_Cleanup(c) \subseteq blocks[c]
  BY <1>1, <1>2, <1>3 DEF Consistent
<1>6. blocks[c] \ (Own(c) \cup TLS_Cleanup(c)) \subseteq Leftover(c)
  <2> SUFFICES ASSUME NEW b \in blocks[c], b \notin Own(c), b \notin TLS_Cleanup(c)
               PROVE  b \in Leftover(c)
    OBVIOUS
  <2>1. b \in Session
    BY <1>1, <1>2, <1>3, <1>4 DEF Consistent
  <2>2. ~ xMbedInitialized[c]
    BY <1>3, <2>1
  <2>3. QED
    BY <1>1, <2>1, <2>2 DEF Consistent
<1>7. QED
  BY <1>5, <1>6

LEMMA SocketsCloseInv ==
  ASSUME SocketInv, NEW c \in Connections, SOCKETS_Close(c)
  PROVE  SocketInv'
<1> DEFINE freed == Own(c) \cup TLS_Cleanup(c)
<1>1. /\ phase[c] = "close" /\ fault' = Checked(c, freed)
      /\ lwip' = [f \in Fds |-> IF f = fd[c] THEN NoOne ELSE lwip[f]]
      /\ Forget(c, freed) /\ phase' = [phase EXCEPT ![c] = "idle"]
  BY DEF SOCKETS_Close, Goto
<1>2. Consistent(c) /\ blocks[c] \in SUBSET Blocks
  BY DEF SocketInv, SocketTypeOK
<1>3. xSocket[c] /\ Reaches(c)
  BY <1>1, <1>2 DEF Consistent
<1>4. fault' = fault
  BY <1>1, <1>3, CloseFacts, CheckedFacts
<1> HIDE DEF freed
<1>5. SocketTypeOK'
  <2>1. lost' \subseteq Blocks
    BY <1>1, <1>2 DEF Forget, SocketInv, SocketTypeOK
  <2>2. blocks' \in [Connections -> SUBSET Blocks] /\ fd' \in [Connections -> Fds \cup {NoFd}]
        /\ reached' \in [Connections -> 0 .. Len(Steps)]
    <3>1. {} \in SUBSET Blocks /\ NoFd \in Fds \cup {NoFd} /\ 0 \in 0 .. Len(Steps)
      BY StepFacts
    <3>2. QED
      BY <1>1, <3>1 DEF Forget, SocketInv, SocketTypeOK
  <2>3. lwip' \in [Fds -> Connections \cup {NoOne}]
    BY <1>1 DEF SocketInv, SocketTypeOK
  <2>4. /\ xSocket' \in [Connections -> BOOLEAN] /\ xRequireTLS' \in [Connections -> BOOLEAN]
        /\ pvTLSContext' \in [Connections -> BOOLEAN] /\ xMbedInitialized' \in [Connections -> BOOLEAN]
        /\ xP11Session' \in [Connections -> BOOLEAN]
    BY <1>1 DEF Forget, SocketInv, SocketTypeOK
  <2>5. QED
    BY <1>1, <1>4, <2>1, <2>2, <2>3, <2>4 DEF SocketInv, SocketTypeOK
<1>6. ASSUME NEW d \in Connections \ {c} PROVE Same(d)
  BY <1>1 DEF Forget, Same, SocketInv, SocketTypeOK
<1>7. /\ phase'[c] = "idle" /\ ~ xSocket'[c] /\ ~ pvTLSContext'[c] /\ ~ xMbedInitialized'[c]
      /\ ~ xP11Session'[c] /\ reached'[c] = 0 /\ blocks'[c] = {}
  BY <1>1 DEF Forget, SocketInv, SocketTypeOK
<1>8. Consistent(c)'
  BY <1>7 DEF Consistent
<1>9. \A f \in Fds : lwip[f] = c <=> f = fd[c]
  BY <1>3, SocketAssumption DEF SocketInv, Reaches
<1>10. /\ \A f \in Fds : lwip'[f] \notin {NoOne, c} => lwip'[f] = lwip[f]
       /\ \A f \in Fds : lwip[f] \notin {NoOne, c} => lwip'[f] = lwip[f]
       /\ \A f \in Fds : lwip'[f] # c
  BY <1>1, <1>9, SocketAssumption
<1>11. QED
  BY <1>4, <1>5, <1>6, <1>8, <1>10, OneConnectionInv DEF SocketInv

LEMMA SocketNextInv ==
  ASSUME SocketInv \/ UnclosedInv, SocketNext \/ UNCHANGED socketVars
  PROVE  SocketInv' \/ UnclosedInv'
<1>1. ASSUME UNCHANGED socketVars PROVE SocketInv' \/ UnclosedInv'
  <2>1. SocketInv => SocketInv'
    BY <1>1 DEF SocketInv, SocketTypeOK, Consistent, Reaches, Leftover, Abandoned, socketVars
  <2>2. UnclosedInv => UnclosedInv'
    BY <1>1 DEF UnclosedInv, Unclosed, NoMemoryFor, SocketTypeOK, Reaches, socketVars
  <2>3. QED
    BY <2>1, <2>2
<1>2. ASSUME SocketNext PROVE SocketInv' \/ UnclosedInv'
  <2>1. PICK c \in Connections : Setup(c) \/ Traffic(c) \/ GracefulSocketClose(c)
    BY <1>2 DEF SocketNext
  <2>2. fault = "none" /\ SocketInv
    BY <1>2 DEF SocketNext, UnclosedInv, NoMemoryFor
  <2>3. CASE Setup(c)
    BY <2>2, <2>3, SocketsSocketInv, NoMemoryInv, SetSockOptInv, SocketsConnectInv, PrepareInv,
       HandshakeInv DEF Setup
  <2>4. CASE Traffic(c) \/ GracefulSocketClose(c)
    BY <2>2, <2>4, TrafficInv, SocketsCloseInv DEF GracefulSocketClose
  <2>5. QED
    BY <2>1, <2>3, <2>4
<1>3. QED
  BY <1>1, <1>2

LEMMA SocketInvariant == ServicesSpec => [](SocketInv \/ UnclosedInv)
<1>1. ServicesInit => SocketInv
  BY SocketInitInv DEF ServicesInit
<1>2. (SocketInv \/ UnclosedInv) /\ [ServicesNext]_serviceVars => (SocketInv \/ UnclosedInv)'
  BY SocketNextInv DEF ServicesNext, serviceVars
<1>3. QED
  BY <1>1, <1>2, PTL DEF ServicesSpec

(* However often a read, a write, the handshake or the close fail, no block *)
(* of a TLS or PKCS #11 session is used after it was freed and no lwIP      *)
(* socket after it was closed.  What is accessed and not there is the host  *)
(* that SOCKETS_GetHostByName did not find or the context SOCKETS_Socket    *)
(* did not make, and nothing else.                                          *)
THEOREM SocketCallsOnLiveObjects == ServicesSpec => []CallsOnLiveObjects
<1>1. SocketInv \/ UnclosedInv => CallsOnLiveObjects
  BY DEF SocketInv, UnclosedInv, NoMemoryFor, CallsOnLiveObjects, SetupFaults
<1>2. QED
  BY <1>1, SocketInvariant, PTL

(* Every open lwIP socket belongs to exactly one connection, whose agent    *)
(* still has the handle to close it, except the one that SOCKETS_Socket     *)
(* opened without memory for its context: SOCKETS_Close is called with its  *)
(* number in place of the context and does not close it.                    *)
THEOREM SocketSocketsAccounted == ServicesSpec => []SocketsAccounted
<1>1. SocketInv => SocketsAccounted
  BY DEF SocketInv, SocketsAccounted, Unclosed, Consistent
<1>2. UnclosedInv => SocketsAccounted
  BY DEF UnclosedInv, SocketsAccounted
<1>3. QED
  BY <1>1, <1>2, SocketInvariant, PTL

(* A step that ends SOCKETS_Close loses only what an abandoned TLS_Connect  *)
(* made.                                                                    *)
LEMMA CloseStep ==
  ASSUME SocketInv, SocketNext, NEW c \in Connections, phase[c] = "close", phase'[c] = "idle"
  PROVE  lost' \ lost \subseteq IF Abandoned(c) THEN UNION {LeftBy(Steps[i]) : i \in 1 .. reached[c]} ELSE {}
<1>1. PICK d \in Connections : Setup(d) \/ Traffic(d) \/ GracefulSocketClose(d)
  BY DEF SocketNext
<1>2. \E label : Goto(d, label) \/ UNCHANGED phase
  BY <1>1 DEF Setup, Traffic, GracefulSocketClose, SOCKETS_Socket, SOCKETS_SetSockOpt, Unsecured,
     SOCKETS_Connect, TLS_ConnectPrepare, TLS_ConnectHandshake, SOCKETS_Recv, SOCKETS_Send,
     MQTT_Disconnect, prvProcessReceivedDisconnect, SOCKETS_Shutdown, Drain, SOCKETS_Close
<1>3. d = c
  BY <1>2 DEF Goto, SocketInv, SocketTypeOK
<1>4. SOCKETS_Close(c)
  BY <1>1, <1>3 DEF Setup, Traffic, GracefulSocketClose, SOCKETS_Socket, SOCKETS_SetSockOpt, Unsecured,
     SOCKETS_Connect, TLS_ConnectPrepare, TLS_ConnectHandshake, SOCKETS_Recv, SOCKETS_Send,
     MQTT_Disconnect, prvProcessReceivedDisconnect, SOCKETS_Shutdown, Drain
<1>5. lost' = lost \cup (blocks[c] \ (Own(c) \cup TLS_Cleanup(c)))
  BY <1>4 DEF SOCKETS_Close, Forget
<1>6. QED
  BY <1>5, CloseFacts DEF Leftover, Made

(* SOCKETS_Close releases all that a connection had allocated, however it   *)
(* failed, except what a TLS_Connect made that failed after it had opened   *)
(* the PKCS #11 session and before the handshake.                           *)
THEOREM SocketCloseReleases == ServicesSpec => CloseReleases
<1> DEFINE Released == \A c \in Connections :
                          phase[c] = "close" /\ phase'[c] = "idle"
                          => lost' \ lost \subseteq
                                 IF Abandoned(c) THEN UNION {LeftBy(Steps[i]) : i \in 1 .. reached[c]} ELSE {}
<1>1. (SocketInv \/ UnclosedInv) /\ [ServicesNext]_serviceVars => [Released]_socketVars
  <2> SUFFICES ASSUME SocketInv \/ UnclosedInv, [ServicesNext]_serviceVars
               PROVE  [Released]_socketVars
    OBVIOUS
  <2>1. SocketNext \/ UNCHANGED socketVars
    BY DEF ServicesNext, serviceVars
  <2>2. CASE SocketNext
    <3>1. SocketInv
      BY <2>2 DEF SocketNext, UnclosedInv, NoMemoryFor
    <3>2. QED
      BY <2>2, <3>1, CloseStep
  <2>3. QED
    BY <2>1, <2>2
<1>2. QED
  BY <1>1, SocketInvariant, PTL DEF ServicesSpec, CloseReleases

-----------------------------------------------------------------------------
(* The mutexes.  The ready lists are those of a set of tasks under their    *)
(* priorities; no bit of a list that has a task is missing.                 *)

ReadyLists == [lists : [Priorities -> SUBSET (Tasks \cup {Idle})], top : SUBSET Priorities]

ListsOf(r, priority, tasks) ==
    /\ r \in ReadyLists
    /\ \A p \in Priorities : r.lists[p] = {t \in tasks : priority[t] = p}
                                             \cup IF p = tskIDLE_PRIORITY THEN {Idle} ELSE {}
    /\ \A p \in Priorities : r.lists[p] # {} => p \in r.top

(* The tasks that neither sleep nor wait. *)
Waiting(t) == \E m \in Mutexes : t \in Range(xTasksWaitingToReceive[m])
Runnable == {t \in Tasks : at[t] # "asleep" /\ ~ Waiting(t)}

Distinct(list) == \A i, j \in 1 .. Len(list) : list[i] = list[j] => i = j

(* In the order of the priorities. *)
Sorted(list, priority) ==
    \A i, j \in 1 .. Len(list) : i <= j => priority[list[i]] >= priority[list[j]]

(* A task waits in the list of the mutex that it is to take, once. *)
WaitersExact ==
    \A m \in Mutexes :
       /\ Distinct(xTasksWaitingToReceive[m])
       /\ \A t \in Range(xTasksWaitingToReceive[m]) : at[t] = "try" /\ xMutex[t] = m

HoldersExact ==
    /\ pxMutexHolder \in [Mutexes -> Tasks \cup {NoTask}]
    /\ uxPriority \in [Tasks -> Priorities]
    /\ uxMutexesHeld \in [Tasks -> Nat]
    /\ \A t \in Tasks : uxMutexesHeld[t] = Cardinality(Held(t))
    /\ PriorityRestored

MutexInv ==
    /\ at \in [Tasks -> Places]
    /\ expired \cup xInheritanceOccurred \subseteq Tasks
    /\ xTasksWaitingToReceive \in [Mutexes -> Seq(Tasks)]
    /\ xMutex \in [Tasks -> Mutexes \cup {NoMutex}]
    /\ \A t \in Tasks : at[t] \in {"try", "block", "lookAgain", "disinherit"} => xMutex[t] \in Mutexes
    /\ ListsOf(ready, uxPriority, Runnable)
    /\ WaitersExact
    /\ pxCurrentTCB \in Runnable \cup {Idle, NoTask}
    /\ HoldersExact

(* The greatest element of a set of naturals that has a bound. *)
LEMMA MaxFacts ==
  ASSUME NEW S \in SUBSET Nat, S # {}, NEW n \in Nat, \A k \in S : k <= n
  PROVE  Max(S) \in S /\ \A y \in S : Max(S) >= y
<1> DEFINE T == {n - k : k \in S}
           R == {ss \in Nat \X Nat : ss[1] < ss[2]}
<1>1. T \subseteq Nat /\ T # {}
  <2>1. \A k \in S : k \in Nat /\ n - k \in Nat
    OBVIOUS
  <2>2. QED
    BY <2>1
<1>2. IsWellFoundedOn(R, Nat)
  BY NatLessThanWellFounded DEF OpToRel
<1> HIDE DEF T, R
<1>3. PICK k \in T : \A y \in T : ~ (<<y, k>> \in R)
  BY <1>1, <1>2, WFMin
<1>4. \A y \in T : ~ (y < k)
  BY <1>1, <1>3 DEF R
<1>5. PICK z \in S : k = n - z
  BY DEF T
<1>6. ASSUME NEW y \in S PROVE z >= y
  <2>1. n - y \in T /\ n - y \in Nat
    BY <1>1 DEF T
  <2>2. ~ (n - y < n - z)
    BY <1>4, <1>5, <2>1
  <2>3. y \in Nat /\ z \in Nat
    OBVIOUS
  <2>4. QED
    BY <2>2, <2>3
<1>7. QED
  BY <1>6 DEF Max

LEMMA PriorityFacts ==
  /\ Priorities \subseteq Nat /\ tskIDLE_PRIORITY \in Priorities
  /\ \A t \in Tasks : uxBasePriority[t] \in Priorities /\ uxBasePriority[t] # tskIDLE_PRIORITY
  /\ \A p \in Priorities : p <= configMAX_PRIORITIES
<1>1. DOMAIN uxBasePriority = Tasks /\ configMAX_PRIORITIES \in Nat
      /\ \A t \in Tasks : uxBasePriority[t] \in 1 .. configMAX_PRIORITIES - 1
  BY MutexAssumption
<1>2. Range(uxBasePriority) = {uxBasePriority[t] : t \in Tasks}
  BY <1>1 DEF Range
<1>3. QED
  BY <1>1, <1>2 DEF Priorities, tskIDLE_PRIORITY

(* The two parts of a list. *)
LEMMA PartFacts ==
  ASSUME NEW list \in Seq(Tasks), NEW b \in 0 .. Len(list)
  PROVE  /\ SubSeq(list, 1, b) \in Seq(Tasks) /\ Len(SubSeq(list, 1, b)) = b
         /\ \A i \in 1 .. b : SubSeq(list, 1, b)[i] = list[i]
         /\ SubSeq(list, b + 1, Len(list)) \in Seq(Tasks)
         /\ Len(SubSeq(list, b + 1, Len(list))) = Len(list) - b
         /\ \A i \in 1 .. Len(list) - b : SubSeq(list, b + 1, Len(list))[i] = list[b + i]
<1>1. /\ Len(list) \in Nat /\ b \in Int /\ b + 1 \in Int /\ 1 \in Int /\ Len(list) \in Int
      /\ \A i \in 1 .. b : list[i] \in Tasks
      /\ \A i \in b + 1 .. Len(list) : list[i] \in Tasks
  OBVIOUS
<1>2. /\ SubSeq(list, 1, b) \in Seq(Tasks)
      /\ Len(SubSeq(list, 1, b)) = IF 1 <= b THEN b - 1 + 1 ELSE 0
      /\ \A i \in 1 .. b - 1 + 1 : SubSeq(list, 1, b)[i] = list[1 + i - 1]
  BY <1>1, SubSeqProperties
<1>3. /\ SubSeq(list, b + 1, Len(list)) \in Seq(Tasks)
      /\ Len(SubSeq(list, b + 1, Len(list))) = IF b + 1 <= Len(list) THEN Len(list) - (b + 1) + 1 ELSE 0
      /\ \A i \in 1 .. Len(list) - (b + 1) + 1 : SubSeq(list, b + 1, Len(list))[i] = list[b + 1 + i - 1]
  BY <1>1, SubSeqProperties
<1>4. Len(SubSeq(list, 1, b)) = b /\ \A i \in 1 .. b : SubSeq(list, 1, b)[i] = list[i]
  <2>1. b - 1 + 1 = b /\ \A i \in 1 .. b : 1 + i - 1 = i
    OBVIOUS
  <2>2. QED
    BY <1>1, <1>2, <2>1
<1>5. /\ Len(SubSeq(list, b + 1, Len(list))) = Len(list) - b
      /\ \A i \in 1 .. Len(list) - b : SubSeq(list, b + 1, Len(list))[i] = list[b + i]
  <2>1. Len(list) - (b + 1) + 1 = Len(list) - b /\ \A i \in 1 .. Len(list) - b : b + 1 + i - 1 = b + i
    BY <1>1
  <2>2. QED
    <3>1. Len(SubSeq(list, b + 1, Len(list))) = Len(list) - b
      BY <1>1, <1>3
    <3>2. ASSUME NEW i \in 1 .. Len(list) - b
          PROVE  SubSeq(list, b + 1, Len(list))[i] = list[b + i]
      <4>1. i \in 1 .. Len(list) - (b + 1) + 1 /\ b + 1 + i - 1 = b + i
        BY <2>1
      <4>2. SubSeq(list, b + 1, Len(list))[i] = list[b + 1 + i - 1]
        BY <1>3, <4>1
      <4>3. QED
        BY <4>1, <4>2
    <3>3. QED
      BY <3>1, <3>2
<1>6. QED
  BY <1>2, <1>3, <1>4, <1>5

(* Where vListInsert puts a task: somewhere in the list. *)
LEMMA InsertedFacts ==
  ASSUME NEW list \in Seq(Tasks), NEW t \in Tasks
  PROVE  /\ Inserted(list, t) \in Seq(Tasks)
         /\ Range(Inserted(list, t)) = Range(list) \cup {t}
         /\ Distinct(list) /\ t \notin Range(list) => Distinct(Inserted(list, t))
         /\ uxPriority \in [Tasks -> Nat] /\ Sorted(list, uxPriority)
               => Sorted(Inserted(list, t), uxPriority)
<1> DEFINE Passed(n) == \A i \in 1 .. n : uxPriority[list[i]] >= uxPriority[t]
           S == {n \in 0 .. Len(list) : Passed(n)}
           before == Max(S)
<1>1. before \in 0 .. Len(list) /\ before \in S /\ \A k \in S : k <= before
  <2>1. 0 \in S
    OBVIOUS
  <2>2. S \in SUBSET Nat /\ Len(list) \in Nat /\ \A k \in S : k <= Len(list)
    OBVIOUS
  <2> HIDE DEF S
  <2>3. Max(S) \in S /\ \A k \in S : Max(S) >= k
    BY <2>1, <2>2, MaxFacts
  <2>4. Max(S) \in Nat /\ \A k \in S : k \in Nat
    BY <2>2, <2>3
  <2>5. QED
    BY <2>3, <2>4 DEF S
<1>2. Inserted(list, t) = SubSeq(list, 1, before) \o <<t>> \o SubSeq(list, before + 1, Len(list))
  BY DEF Inserted
<1> HIDE DEF before
<1>3. PICK b \in 0 .. Len(list) : b = before
  BY <1>1
<1> DEFINE new == SubSeq(list, 1, b) \o <<t>> \o SubSeq(list, b + 1, Len(list))
<1>4. /\ new \in Seq(Tasks) /\ Len(new) = Len(list) + 1
      /\ \A i \in 1 .. Len(list) + 1 : new[i] = IF i <= b THEN list[i] ELSE IF i = b + 1 THEN t ELSE list[i - 1]
  <2>1. PICK left \in Seq(Tasks) : left = SubSeq(list, 1, b) /\ Len(left) = b
                                   /\ \A i \in 1 .. b : left[i] = list[i]
    BY PartFacts
  <2>2. PICK right \in Seq(Tasks) :
           right = SubSeq(list, b + 1, Len(list)) /\ Len(right) = Len(list) - b
           /\ \A i \in 1 .. Len(list) - b : right[i] = list[b + i]
    BY PartFacts
  <2>3. PICK middle \in Seq(Tasks) : middle = left \o <<t>> /\ Len(middle) = b + 1
                                     /\ \A i \in 1 .. b : middle[i] = list[i]
                                     /\ middle[b + 1] = t
    <3>1. <<t>> \in Seq(Tasks) /\ Len(<<t>>) = 1 /\ <<t>>[1] = t
      OBVIOUS
    <3>2. /\ left \o <<t>> \in Seq(Tasks) /\ Len(left \o <<t>>) = b + 1
          /\ \A i \in 1 .. b + 1 : (left \o <<t>>)[i] = IF i <= b THEN left[i] ELSE <<t>>[i - b]
      BY <2>1, <3>1, ConcatProperties
    <3>3. (left \o <<t>>)[b + 1] = <<t>>[1] /\ \A i \in 1 .. b : (left \o <<t>>)[i] = list[i]
      BY <2>1, <3>2
    <3>4. QED
      BY <3>1, <3>2, <3>3
  <2>4. new = middle \o right
    BY <2>1, <2>2, <2>3
  <2> HIDE DEF new
  <2>5. new \in Seq(Tasks) /\ Len(new) = Len(list) + 1
    <3>1. new \in Seq(Tasks) /\ Len(new) = Len(middle) + Len(right)
      BY <2>4, ConcatProperties
    <3>2. QED
      BY <2>2, <2>3, <3>1
  <2>6. ASSUME NEW i \in 1 .. Len(list) + 1
        PROVE  new[i] = IF i <= b THEN list[i] ELSE IF i = b + 1 THEN t ELSE list[i - 1]
    <3>1. new[i] = IF i <= b + 1 THEN middle[i] ELSE right[i - (b + 1)]
      <4>1. i \in 1 .. Len(middle) + Len(right)
        BY <2>2, <2>3
      <4>2. QED
        BY <2>3, <2>4, <4>1, ConcatProperties
    <3>2. CASE i <= b + 1
      BY <2>3, <3>1, <3>2
    <3>3. CASE i > b + 1
      <4>1. i - (b + 1) \in 1 .. Len(list) - b /\ b + (i - (b + 1)) = i - 1
        BY <3>3
      <4>2. QED
        BY <2>2, <3>1, <3>3, <4>1
    <3>4. QED
      BY <3>2, <3>3
  <2>7. QED
    BY <2>5, <2>6
<1> HIDE DEF new
<1>5. Inserted(list, t) = new
  BY <1>2, <1>3 DEF new
<1>6. Range(new) = Range(list) \cup {t}
  <2>1. DOMAIN new = 1 .. Len(list) + 1 /\ DOMAIN list = 1 .. Len(list)
    BY <1>4
  <2>2. ASSUME NEW i \in 1 .. Len(list) PROVE list[i] \in Range(new)
    <3>1. CASE i <= b
      BY <1>4, <2>1, <3>1 DEF Range
    <3>2. CASE i > b
      <4>1. i + 1 \in 1 .. Len(list) + 1 /\ new[i + 1] = list[i]
        BY <1>4, <3>2
      <4>2. QED
        BY <2>1, <4>1 DEF Range
    <3>3. QED
      BY <3>1, <3>2
  <2>3. t \in Range(new)
    <3>1. b + 1 \in 1 .. Len(list) + 1 /\ new[b + 1] = t
      BY <1>4
    <3>2. QED
      BY <2>1, <3>1 DEF Range
  <2>4. ASSUME NEW i \in 1 .. Len(list) + 1 PROVE new[i] \in Range(list) \cup {t}
    <3>1. i <= b => i \in 1 .. Len(list)
      OBVIOUS
    <3>2. i > b + 1 => i - 1 \in 1 .. Len(list)
      OBVIOUS
    <3>3. CASE i <= b
      BY <1>4, <2>1, <3>1, <3>3 DEF Range
    <3>4. CASE i > b + 1
      <4>1. new[i] = list[i - 1]
        BY <1>4, <3>4
      <4>2. QED
        BY <2>1, <3>2, <3>4, <4>1 DEF Range
    <3>5. CASE i = b + 1
      BY <1>4, <3>5
    <3>6. QED
      BY <3>3, <3>4, <3>5
  <2>5. QED
    BY <2>1, <2>2, <2>3, <2>4 DEF Range
<1>7. ASSUME Distinct(list), t \notin Range(list) PROVE Distinct(new)
  <2>1. \A i \in 1 .. Len(list) : list[i] # t
    BY <1>7 DEF Range
  <2>2. ASSUME NEW i \in 1 .. Len(list) + 1, NEW j \in 1 .. Len(list) + 1, new[i] = new[j], i < j
        PROVE  FALSE
    <3>1. CASE i = b + 1
      <4>1. new[i] = t /\ new[j] = list[j - 1] /\ j - 1 \in 1 .. Len(list)
        BY <1>4, <2>2, <3>1
      <4>2. QED
        BY <2>1, <2>2, <4>1
    <3>2. CASE i # b + 1 /\ j = b + 1
      <4>1. new[j] = t /\ new[i] = list[i] /\ i \in 1 .. Len(list)
        BY <1>4, <2>2, <3>2
      <4>2. QED
        BY <2>1, <2>2, <4>1
    <3>3. CASE i # b + 1 /\ j # b + 1
      <4>1. PICK k \in 1 .. Len(list), l \in 1 .. Len(list) : new[i] = list[k] /\ new[j] = list[l] /\ k < l
        <5>1. PICK k \in 1 .. Len(list) : new[i] = list[k] /\ k = IF i <= b THEN i ELSE i - 1
          BY <1>4, <2>2, <3>3
        <5>2. PICK l \in 1 .. Len(list) : new[j] = list[l] /\ l = IF j <= b THEN j ELSE j - 1
          BY <1>4, <2>2, <3>3
        <5>3. k < l
          BY <2>2, <3>3, <5>1, <5>2
        <5>4. QED
          BY <5>1, <5>2, <5>3
      <4>2. list[k] = list[l]
        BY <2>2, <4>1, Zenon
      <4>3. k = l
        BY <1>7, <4>2, Zenon DEF Distinct
      <4>4. k \in Nat /\ k < l
        BY <4>1
      <4>5. QED
        BY <4>3, <4>4
    <3>4. QED
      BY <3>1, <3>2, <3>3
  <2>3. QED
    <3>1. \A i, j \in 1 .. Len(new) : i \in Nat /\ j \in Nat
      BY <1>4
    <3>2. QED
      BY <1>4, <2>2, <3>1 DEF Distinct
<1>8. ASSUME uxPriority \in [Tasks -> Nat], Sorted(list, uxPriority)
      PROVE  Sorted(new, uxPriority)
  <2>1. \A i \in 1 .. b : uxPriority[list[i]] >= uxPriority[t]
    BY <1>1, <1>3
  <2>2. ASSUME NEW i \in b + 1 .. Len(list) PROVE uxPriority[t] >= uxPriority[list[i]]
    <3>1. b + 1 \in 0 .. Len(list) /\ ~ (b + 1 <= b)
      OBVIOUS
    <3>2. ~ Passed(b + 1)
      BY <1>1, <1>3, <3>1
    <3>3. PICK n \in 1 .. b + 1 : ~ (uxPriority[list[n]] >= uxPriority[t])
      BY <3>2
    <3>4. n = b + 1
      BY <2>1, <3>3
    <3>5. PICK hi, mid, lo \in Nat : /\ hi = uxPriority[list[n]] /\ mid = uxPriority[t]
                                     /\ lo = uxPriority[list[i]]
      <4>1. list[n] \in Tasks /\ list[i] \in Tasks
        BY <3>4
      <4>2. QED
        BY <1>8, <4>1
    <3>6. n <= i /\ n \in 1 .. Len(list) /\ i \in 1 .. Len(list)
      BY <3>4
    <3>7. hi >= lo
      BY <1>8, <3>5, <3>6 DEF Sorted
    <3>8. QED
      BY <3>3, <3>5, <3>7
  <2>3. ASSUME NEW i \in 1 .. Len(list) + 1, NEW j \in 1 .. Len(list) + 1, i <= j
        PROVE  uxPriority[new[i]] >= uxPriority[new[j]]
    <3>1. CASE i = b + 1
      <4>1. j = b + 1 => new[j] = t
        BY <1>4, <3>1
      <4>2. j # b + 1 => new[j] = list[j - 1] /\ j - 1 \in b + 1 .. Len(list)
        BY <1>4, <2>3, <3>1
      <4>3. new[i] = t /\ uxPriority[t] \in Nat
        BY <1>4, <1>8, <3>1
      <4>4. QED
        BY <2>2, <4>1, <4>2, <4>3
    <3>2. CASE i # b + 1 /\ j = b + 1
      <4>1. new[j] = t /\ new[i] = list[i] /\ i \in 1 .. b
        BY <1>4, <2>3, <3>2
      <4>2. QED
        BY <2>1, <4>1
    <3>3. CASE i # b + 1 /\ j # b + 1
      <4>1. PICK k \in 1 .. Len(list) : new[i] = list[k] /\ k = IF i <= b THEN i ELSE i - 1
        BY <1>4, <2>3, <3>3
      <4>2. PICK l \in 1 .. Len(list) : new[j] = list[l] /\ l = IF j <= b THEN j ELSE j - 1
        BY <1>4, <2>3, <3>3
      <4>3. k <= l
        BY <2>3, <3>3, <4>1, <4>2
      <4>4. QED
        BY <1>8, <4>1, <4>2, <4>3 DEF Sorted
    <3>4. QED
      BY <3>1, <3>2, <3>3
  <2>4. QED
    BY <1>4, <2>3 DEF Sorted
<1>9. QED
  BY <1>4, <1>5, <1>6, <1>7, <1>8

LEMMA UnlinkedFacts ==
  ASSUME NEW list \in Seq(Tasks), Distinct(list), NEW t \in Range(list)
  PROVE  /\ Unlinked(list, t) \in Seq(Tasks)
         /\ Range(Unlinked(list, t)) = Range(list) \ {t}
         /\ Distinct(Unlinked(list, t))
         /\ \A f : Sorted(list, f) => Sorted(Unlinked(list, t), f)
<1> DEFINE i == CHOOSE n \in 1 .. Len(list) : list[n] = t
<1>1. i \in 1 .. Len(list) /\ list[i] = t
  <2>1. \E n \in 1 .. Len(list) : list[n] = t
    BY DEF Range
  <2>2. QED
    BY <2>1
<1>2. Unlinked(list, t) = SubSeq(list, 1, i - 1) \o SubSeq(list, i + 1, Len(list))
  BY DEF Unlinked
<1> HIDE DEF i
<1>3. PICK b \in 1 .. Len(list) : b = i /\ list[b] = t
  BY <1>1
<1> DEFINE new == SubSeq(list, 1, b - 1) \o SubSeq(list, b + 1, Len(list))
<1>4. /\ new \in Seq(Tasks) /\ Len(new) = Len(list) - 1
      /\ \A n \in 1 .. Len(list) - 1 : new[n] = IF n < b THEN list[n] ELSE list[n + 1]
  <2>1. PICK left \in Seq(Tasks) : left = SubSeq(list, 1, b - 1) /\ Len(left) = b - 1
                                   /\ \A n \in 1 .. b - 1 : left[n] = list[n]
    <3>1. b - 1 \in 0 .. Len(list)
      OBVIOUS
    <3>2. QED
      BY <3>1, PartFacts
  <2>2. PICK right \in Seq(Tasks) :
           right = SubSeq(list, b + 1, Len(list)) /\ Len(right) = Len(list) - b
           /\ \A n \in 1 .. Len(list) - b : right[n] = list[b + n]
    <3>1. b \in 0 .. Len(list)
      OBVIOUS
    <3>2. QED
      BY <3>1, PartFacts
  <2>3. new = left \o right
    BY <2>1, <2>2
  <2> HIDE DEF new
  <2>4. new \in Seq(Tasks) /\ Len(new) = Len(list) - 1
    <3>1. new \in Seq(Tasks) /\ Len(new) = Len(left) + Len(right)
      BY <2>3, ConcatProperties
    <3>2. QED
      BY <2>1, <2>2, <3>1
  <2>5. ASSUME NEW n \in 1 .. Len(list) - 1
        PROVE  new[n] = IF n < b THEN list[n] ELSE list[n + 1]
    <3>1. new[n] = IF n <= b - 1 THEN left[n] ELSE right[n - (b - 1)]
      <4>1. Len(left) + Len(right) = Len(list) - 1
        <5>1. Len(left) = b - 1 /\ Len(right) = Len(list) - b /\ Len(list) \in Nat /\ b \in Nat
          BY <2>1, <2>2
        <5>2. QED
          BY <5>1
      <4>2. QED
        BY <2>1, <2>3, <4>1, ConcatProperties
    <3>2. CASE n < b
      BY <2>1, <3>1, <3>2
    <3>3. CASE n >= b
      <4>1. n - (b - 1) \in 1 .. Len(list) - b /\ b + (n - (b - 1)) = n + 1
        BY <3>3
      <4>2. QED
        BY <2>2, <3>1, <3>3, <4>1
    <3>4. QED
      BY <3>2, <3>3
  <2>6. QED
    BY <2>4, <2>5
<1> HIDE DEF new
<1>5. Unlinked(list, t) = new
  BY <1>2, <1>3 DEF new
<1>6. DOMAIN new = 1 .. Len(list) - 1 /\ DOMAIN list = 1 .. Len(list)
  BY <1>4
<1>7. Range(new) = Range(list) \ {t}
  <2>1. ASSUME NEW n \in 1 .. Len(list), list[n] # t PROVE list[n] \in Range(new)
    <3>1. CASE n < b
      BY <1>4, <1>6, <3>1, SMTT(30) DEF Range
    <3>2. CASE n > b
      <4>1. n - 1 \in 1 .. Len(list) - 1 /\ new[n - 1] = list[n]
        BY <1>4, <3>2
      <4>2. QED
        BY <1>6, <4>1 DEF Range
    <3>3. QED
      BY <1>3, <2>1, <3>1, <3>2
  <2>2. ASSUME NEW n \in 1 .. Len(list) - 1 PROVE new[n] \in Range(list) \ {t}
    <3>1. PICK k \in 1 .. Len(list) : k # b /\ new[n] = list[k]
      BY <1>4, SMTT(30)
    <3>2. list[k] # t
      BY <1>3, <3>1 DEF Distinct
    <3>3. QED
      BY <1>6, <3>1, <3>2 DEF Range
  <2>3. QED
    BY <1>6, <2>1, <2>2 DEF Range
<1>8. Distinct(new)
  BY <1>4, SMTT(30) DEF Distinct
<1>9. ASSUME NEW f, Sorted(list, f) PROVE Sorted(new, f)
  <2>1. ASSUME NEW k \in 1 .. Len(list) - 1, NEW l \in 1 .. Len(list) - 1, k <= l
        PROVE  f[new[k]] >= f[new[l]]
    <3>1. PICK c \in 1 .. Len(list) : new[k] = list[c] /\ c = IF k < b THEN k ELSE k + 1
      BY <1>4
    <3>2. PICK d \in 1 .. Len(list) : new[l] = list[d] /\ d = IF l < b THEN l ELSE l + 1
      BY <1>4
    <3>3. c <= d
      BY <2>1, <3>1, <3>2
    <3>4. QED
      BY <1>9, <3>1, <3>2, <3>3 DEF Sorted
  <2>2. Len(new) = Len(list) - 1
    BY <1>4
  <2>3. QED
    BY <2>1, <2>2 DEF Sorted
<1>10. QED
  BY <1>4, <1>5, <1>7, <1>8, <1>9

LEMMA TailFacts ==
  ASSUME NEW list \in Seq(Tasks), Distinct(list), list # <<>>
  PROVE  /\ Tail(list) \in Seq(Tasks) /\ Head(list) \in Range(list) /\ Head(list) \in Tasks
         /\ Range(Tail(list)) = Range(list) \ {Head(list)}
         /\ Distinct(Tail(list))
         /\ \A f : Sorted(list, f) => /\ Sorted(Tail(list), f)
                                     /\ \A u \in Range(list) : f[Head(list)] >= f[u]
<1>1. /\ Len(list) \in Nat \ {0} /\ Tail(list) \in Seq(Tasks) /\ Len(Tail(list)) = Len(list) - 1
      /\ Head(list) = list[1] /\ \A n \in 1 .. Len(list) - 1 : Tail(list)[n] = list[n + 1]
  OBVIOUS
<1>2. DOMAIN Tail(list) = 1 .. Len(list) - 1 /\ DOMAIN list = 1 .. Len(list)
  BY <1>1
<1>3. ASSUME NEW n \in 1 .. Len(list), list[n] # list[1] PROVE list[n] \in Range(Tail(list))
  <2>1. n - 1 \in 1 .. Len(list) - 1 /\ Tail(list)[n - 1] = list[n]
    BY <1>1, <1>3
  <2>2. QED
    BY <1>2, <2>1 DEF Range
<1>4. ASSUME NEW n \in 1 .. Len(list) - 1 PROVE Tail(list)[n] \in Range(list) \ {list[1]}
  <2>1. n + 1 \in 1 .. Len(list) /\ n + 1 # 1 /\ 1 \in 1 .. Len(list)
    BY <1>1
  <2>2. list[n + 1] # list[1]
    BY <2>1 DEF Distinct
  <2>3. QED
    BY <1>1, <1>2, <2>1, <2>2 DEF Range
<1>5. Range(Tail(list)) = Range(list) \ {Head(list)}
  BY <1>1, <1>2, <1>3, <1>4 DEF Range
<1>6. Distinct(Tail(list))
  BY <1>1 DEF Distinct
<1>7. Head(list) \in Range(list) /\ Head(list) \in Tasks
  BY <1>1, <1>2 DEF Range
<1>8. ASSUME NEW f, Sorted(list, f)
      PROVE  Sorted(Tail(list), f) /\ \A u \in Range(list) : f[Head(list)] >= f[u]
  <2>1. ASSUME NEW i \in 1 .. Len(list) - 1, NEW j \in 1 .. Len(list) - 1, i <= j
        PROVE  f[Tail(list)[i]] >= f[Tail(list)[j]]
    <3>1. /\ i + 1 \in 1 .. Len(list) /\ j + 1 \in 1 .. Len(list) /\ i + 1 <= j + 1
          /\ Tail(list)[i] = list[i + 1] /\ Tail(list)[j] = list[j + 1]
      BY <1>1, <2>1
    <3>2. QED
      BY <1>8, <3>1 DEF Sorted
  <2>2. ASSUME NEW i \in 1 .. Len(list) PROVE f[Head(list)] >= f[list[i]]
    <3>1. 1 \in 1 .. Len(list) /\ 1 <= i /\ Head(list) = list[1]
      BY <1>1
    <3>2. QED
      BY <1>8, <3>1 DEF Sorted
  <2>3. QED
    BY <1>1, <1>2, <2>1, <2>2 DEF Sorted, Range
<1>9. QED
  BY <1>1, <1>5, <1>6, <1>7, <1>8

(* The ready lists when a task is added, removed, or given a priority.      *)
LEMMA AddedFacts ==
  ASSUME NEW r, NEW priority \in [Tasks -> Priorities], NEW S \in SUBSET Tasks,
         ListsOf(r, priority, S), NEW t \in Tasks
  PROVE  ListsOf(Added(r, t, priority[t]), priority, S \cup {t})
<1> DEFINE new == Added(r, t, priority[t])
<1>1. r \in ReadyLists /\ priority[t] \in Priorities
  BY DEF ListsOf
<1>2. new = [r EXCEPT !.lists[priority[t]] = @ \cup {t}, !.top = @ \cup {priority[t]}]
  BY DEF Added
<1>3. /\ new \in ReadyLists /\ new.top = r.top \cup {priority[t]}
      /\ new.lists[priority[t]] = r.lists[priority[t]] \cup {t}
      /\ \A p \in Priorities \ {priority[t]} : new.lists[p] = r.lists[p]
  <2>1. PICK lists \in [Priorities -> SUBSET (Tasks \cup {Idle})], top \in SUBSET Priorities :
           r = [lists |-> lists, top |-> top] /\ lists = r.lists /\ top = r.top
    BY <1>1 DEF ReadyLists
  <2>2. new = [lists |-> [lists EXCEPT ![priority[t]] = @ \cup {t}], top |-> top \cup {priority[t]}]
    BY <1>2, <2>1
  <2>3. [lists EXCEPT ![priority[t]] = @ \cup {t}] \in [Priorities -> SUBSET (Tasks \cup {Idle})]
    BY <1>1
  <2>4. QED
    BY <1>1, <2>1, <2>2, <2>3 DEF ReadyLists
<1> HIDE DEF new
<1>4. ASSUME NEW p \in Priorities
      PROVE  /\ new.lists[p] = {u \in S \cup {t} : priority[u] = p}
                                  \cup IF p = tskIDLE_PRIORITY THEN {Idle} ELSE {}
             /\ new.lists[p] # {} => p \in new.top
  <2>1. /\ r.lists[p] = {u \in S : priority[u] = p} \cup IF p = tskIDLE_PRIORITY THEN {Idle} ELSE {}
        /\ r.lists[p] # {} => p \in r.top
    BY DEF ListsOf
  <2>2. CASE p = priority[t]
    BY <1>3, <2>1, <2>2
  <2>3. CASE p # priority[t]
    BY <1>3, <2>1, <2>3
  <2>4. QED
    BY <2>2, <2>3
<1>5. QED
  BY <1>3, <1>4 DEF ListsOf, new

LEMMA RemovedFacts ==
  ASSUME NEW r, NEW priority \in [Tasks -> Priorities], NEW S \in SUBSET Tasks,
         ListsOf(r, priority, S), NEW t \in Tasks, NEW q \in Priorities
  PROVE  ListsOf(Removed(r, t, priority[t], q), priority, S \ {t})
<1> DEFINE new == Removed(r, t, priority[t], q)
           less == [r EXCEPT !.lists[priority[t]] = @ \ {t}]
<1>1. r \in ReadyLists /\ priority[t] \in Priorities
  BY DEF ListsOf
<1>2. /\ less \in ReadyLists /\ less.top = r.top
      /\ less.lists[priority[t]] = r.lists[priority[t]] \ {t}
      /\ \A p \in Priorities \ {priority[t]} : less.lists[p] = r.lists[p]
  BY <1>1 DEF ReadyLists
<1>3. new = less \/ (less.lists[q] = {} /\ new = [less EXCEPT !.top = @ \ {q}])
  BY DEF Removed, Reset
<1> HIDE DEF less, new
<1>4. /\ new \in ReadyLists /\ new.lists = less.lists
      /\ \A p \in Priorities : p \in r.top /\ less.lists[p] # {} => p \in new.top
  BY <1>2, <1>3 DEF ReadyLists
<1>5. ASSUME NEW p \in Priorities
      PROVE  /\ new.lists[p] = {u \in S \ {t} : priority[u] = p}
                                  \cup IF p = tskIDLE_PRIORITY THEN {Idle} ELSE {}
             /\ new.lists[p] # {} => p \in new.top
  <2>1. /\ r.lists[p] = {u \in S : priority[u] = p} \cup IF p = tskIDLE_PRIORITY THEN {Idle} ELSE {}
        /\ r.lists[p] # {} => p \in r.top
    BY DEF ListsOf
  <2>2. t # Idle
    BY MutexAssumption
  <2>3. CASE p = priority[t]
    BY <1>2, <1>4, <2>1, <2>2, <2>3
  <2>4. CASE p # priority[t]
    BY <1>2, <1>4, <2>1, <2>4
  <2>5. QED
    BY <2>3, <2>4
<1>6. QED
  BY <1>4, <1>5 DEF ListsOf, new

LEMMA StayedFacts ==
  ASSUME NEW r, NEW priority \in [Tasks -> Priorities], NEW S \in SUBSET Tasks,
         ListsOf(r, priority, S), NEW t \in Tasks, t \notin S, NEW p \in Priorities
  PROVE  ListsOf(r, [priority EXCEPT ![t] = p], S)
<1>1. \A u \in S : [priority EXCEPT ![t] = p][u] = priority[u]
  OBVIOUS
<1>2. QED
  BY <1>1 DEF ListsOf

LEMMA MovedFacts ==
  ASSUME NEW r, NEW priority \in [Tasks -> Priorities], NEW S \in SUBSET Tasks,
         ListsOf(r, priority, S), NEW t \in S, NEW p \in Priorities, NEW q \in Priorities
  PROVE  ListsOf(Added(Removed(r, t, priority[t], q), t, p), [priority EXCEPT ![t] = p], S)
<1> DEFINE less == Removed(r, t, priority[t], q)
           changed == [priority EXCEPT ![t] = p]
<1>1. ListsOf(less, priority, S \ {t})
  BY RemovedFacts
<1>2. changed \in [Tasks -> Priorities] /\ changed[t] = p
  OBVIOUS
<1> HIDE DEF less
<1>3. S \ {t} \in SUBSET Tasks /\ t \notin S \ {t} /\ t \in Tasks
  OBVIOUS
<1>4. ListsOf(less, changed, S \ {t})
  BY <1>1, <1>3, StayedFacts
<1> HIDE DEF changed
<1>5. ListsOf(Added(less, t, changed[t]), changed, (S \ {t}) \cup {t})
  BY <1>2, <1>3, <1>4, AddedFacts
<1>6. (S \ {t}) \cup {t} = S
  OBVIOUS
<1>7. QED
  BY <1>2, <1>5, <1>6 DEF less, changed

LEMMA ReadyFacts ==
  ASSUME MutexInv, NEW t \in Tasks
  PROVE  IsReady(t) <=> t \in Runnable
<1>1. t # Idle /\ uxPriority[t] \in Priorities
  BY MutexAssumption DEF MutexInv, HoldersExact
<1>2. QED
  BY <1>1 DEF MutexInv, ListsOf, IsReady, PriorityOf, Runnable

(* The scheduler picks a task that is ready. *)
LEMMA SwitchFacts ==
  ASSUME NEW priority, NEW S \in SUBSET Tasks, ListsOf(ready', priority, S), vTaskSwitchContext
  PROVE  pxCurrentTCB' \in S \cup {Idle, NoTask}
<1>1. tskIDLE_PRIORITY \in Priorities
  BY PriorityFacts
<1>2. Idle \in ready'.lists[tskIDLE_PRIORITY]
  BY <1>1 DEF ListsOf
<1>3. ready'.top \in SUBSET Nat /\ ready'.top # {} /\ ready'.top \subseteq Priorities
      /\ \A p \in ready'.top : p <= configMAX_PRIORITIES
  BY <1>1, <1>2, PriorityFacts DEF ListsOf, ReadyLists
<1>4. Max(ready'.top) \in Priorities
  BY <1>3, MutexAssumption, MaxFacts
<1>5. pxCurrentTCB' = NoTask \/ pxCurrentTCB' \in ready'.lists[Max(ready'.top)]
  BY DEF vTaskSwitchContext
<1>6. QED
  BY <1>4, <1>5 DEF ListsOf

(* A step of the running task that leaves the event lists alone and in      *)
(* which the same tasks are ready, under priorities that may change.        *)
LEMMA RunningStepInv ==
  ASSUME MutexInv, NEW t \in Tasks, pxCurrentTCB = t,
         NEW place \in Places \ {"asleep"}, at' = [at EXCEPT ![t] = place],
         xMutex' \in [Tasks -> Mutexes \cup {NoMutex}], \A u \in Tasks \ {t} : xMutex'[u] = xMutex[u],
         place \in {"try", "block", "lookAgain", "disinherit"} => xMutex'[t] \in Mutexes,
         expired' \cup xInheritanceOccurred' \subseteq Tasks, UNCHANGED xTasksWaitingToReceive,
         ListsOf(ready', uxPriority', Runnable), pxCurrentTCB' \in {t, NoTask}, HoldersExact'
  PROVE  MutexInv'
<1>1. t \in Runnable
  BY MutexAssumption DEF MutexInv
<1>2. at' \in [Tasks -> Places] /\ at'[t] = place /\ \A u \in Tasks \ {t} : at'[u] = at[u]
  BY DEF MutexInv
<1>3. \A u \in Tasks : Waiting(u)' <=> Waiting(u)
  BY DEF Waiting
<1>4. Runnable' = Runnable
  BY <1>1, <1>2, <1>3 DEF Runnable
<1>5. WaitersExact'
  <2>1. \A m \in Mutexes : t \notin Range(xTasksWaitingToReceive[m])
    BY <1>1 DEF Runnable, Waiting
  <2>2. \A m \in Mutexes : Range(xTasksWaitingToReceive[m]) \subseteq Tasks
    BY RangeOfSeq DEF MutexInv
  <2>3. QED
    BY <1>2, <2>1, <2>2 DEF WaitersExact, MutexInv
<1>6. \A u \in Tasks : at'[u] \in {"try", "block", "lookAgain", "disinherit"} => xMutex'[u] \in Mutexes
  BY <1>2 DEF MutexInv
<1>7. QED
  BY <1>1, <1>2, <1>4, <1>5, <1>6 DEF MutexInv

LEMMA HeldFacts ==
  ASSUME NEW t \in Tasks
  PROVE  IsFiniteSet(Held(t)) /\ Cardinality(Held(t)) \in Nat /\ (Cardinality(Held(t)) = 0 <=> Held(t) = {})
<1>1. Held(t) \in SUBSET Mutexes
  BY DEF Held
<1>2. IsFiniteSet(Held(t))
  BY <1>1, MutexAssumption, FS_Subset
<1>3. QED
  BY <1>2, FS_CardinalityType, FS_EmptySet

LEMMA SameHoldersExact ==
  HoldersExact /\ UNCHANGED <<pxMutexHolder, uxMutexesHeld, uxPriority>> => HoldersExact'
  BY DEF HoldersExact, PriorityRestored, Held

(* A call that takes no mutex and changes no priority. *)
LEMMA CallInv ==
  ASSUME MutexInv, NEW t \in Tasks,
         \/ \E m \in Mutexes, ticks \in {"limited", "forever"} : Call(t, m, ticks)
         \/ TakeFails(t) \/ BlockTimeIsOver(t) \/ GivenMeanwhile(t) \/ LookAgain(t)
  PROVE  MutexInv'
<1>1. /\ pxCurrentTCB = t /\ UNCHANGED <<mutexes, uxMutexesHeld, uxPriority, ready>>
      /\ pxCurrentTCB' \in {pxCurrentTCB, NoTask}
  BY DEF Call, TakeFails, BlockTimeIsOver, GivenMeanwhile, LookAgain
<1>2. HoldersExact'
  BY <1>1, SameHoldersExact DEF mutexes, MutexInv
<1>3. ListsOf(ready', uxPriority', Runnable)
  BY <1>1 DEF MutexInv
<1>4. CASE \E m \in Mutexes, ticks \in {"limited", "forever"} : Call(t, m, ticks)
  <2>1. PICK m \in Mutexes : /\ at' = [at EXCEPT ![t] = "try"] /\ xMutex' = [xMutex EXCEPT ![t] = m]
                             /\ UNCHANGED <<expired, xInheritanceOccurred>>
    BY <1>4 DEF Call
  <2>2. /\ xMutex' \in [Tasks -> Mutexes \cup {NoMutex}] /\ xMutex'[t] \in Mutexes
        /\ \A u \in Tasks \ {t} : xMutex'[u] = xMutex[u]
    BY <2>1 DEF MutexInv
  <2>3. "try" \in Places \ {"asleep"} /\ expired' \cup xInheritanceOccurred' \subseteq Tasks
    BY <2>1 DEF Places, MutexInv
  <2>4. QED
    BY <1>1, <1>2, <1>3, <2>1, <2>2, <2>3, RunningStepInv DEF mutexes
<1>5. CASE Return(t)
  <2>1. /\ at' = [at EXCEPT ![t] = "elsewhere"] /\ xMutex' = [xMutex EXCEPT ![t] = NoMutex]
        /\ expired' \cup xInheritanceOccurred' \subseteq Tasks
    BY <1>5 DEF Return, MutexInv
  <2>2. /\ xMutex' \in [Tasks -> Mutexes \cup {NoMutex}]
        /\ \A u \in Tasks \ {t} : xMutex'[u] = xMutex[u]
    BY <2>1 DEF MutexInv
  <2>3. "elsewhere" \in Places \ {"asleep"}
    BY DEF Places
  <2>4. QED
    BY <1>1, <1>2, <1>3, <2>1, <2>2, <2>3, RunningStepInv DEF mutexes
<1>6. CASE \E place \in {"try", "block", "lookAgain", "disinherit", "assertion"} :
              /\ at[t] \in {"try", "block", "lookAgain"} /\ at' = [at EXCEPT ![t] = place]
              /\ UNCHANGED <<xMutex, expired, xInheritanceOccurred>>
  <2>1. PICK place \in Places \ {"asleep"} : at' = [at EXCEPT ![t] = place]
    BY <1>6 DEF Places
  <2>2. /\ xMutex' \in [Tasks -> Mutexes \cup {NoMutex}] /\ xMutex'[t] \in Mutexes
        /\ \A u \in Tasks \ {t} : xMutex'[u] = xMutex[u]
        /\ expired' \cup xInheritanceOccurred' \subseteq Tasks
    BY <1>6 DEF MutexInv
  <2>3. QED
    BY <1>1, <1>2, <1>3, <2>1, <2>2, RunningStepInv DEF mutexes
<1>7. QED
  BY <1>4, <1>5, <1>6 DEF TakeFails, BlockTimeIsOver, GivenMeanwhile, LookAgain, GoOn

LEMMA TakeInv ==
  ASSUME MutexInv, NEW t \in Tasks, Take(t)
  PROVE  MutexInv'
<1>1. PICK m \in Mutexes : m = xMutex[t]
  BY DEF Take, MutexInv
<1>2. /\ pxCurrentTCB = t /\ pxMutexHolder[m] = NoTask
      /\ pxMutexHolder' = [pxMutexHolder EXCEPT ![m] = t]
      /\ uxMutexesHeld' = [uxMutexesHeld EXCEPT ![t] = @ + 1]
      /\ UNCHANGED <<xTasksWaitingToReceive, uxPriority, ready, pxCurrentTCB>>
  BY <1>1 DEF Take
<1>3. Held(t)' = Held(t) \cup {m} /\ m \notin Held(t) /\ \A u \in Tasks \ {t} : Held(u)' = Held(u)
  BY <1>2, MutexAssumption DEF Held, MutexInv, HoldersExact
<1>4. HoldersExact'
  <2>1. HoldersExact
    BY DEF MutexInv
  <2>2. /\ pxMutexHolder' \in [Mutexes -> Tasks \cup {NoTask}] /\ uxPriority' \in [Tasks -> Priorities]
        /\ uxMutexesHeld' \in [Tasks -> Nat] /\ uxMutexesHeld'[t] = uxMutexesHeld[t] + 1
        /\ \A u \in Tasks \ {t} : uxMutexesHeld'[u] = uxMutexesHeld[u]
    BY <1>2, <2>1 DEF HoldersExact
  <2>3. Cardinality(Held(t) \cup {m}) = Cardinality(Held(t)) + 1
    BY <1>3, HeldFacts, FS_AddElement
  <2>4. \A u \in Tasks : uxMutexesHeld'[u] = Cardinality(Held(u)')
    BY <1>3, <2>1, <2>2, <2>3 DEF HoldersExact
  <2>5. \A u \in Tasks : uxPriority[u] \in Nat /\ uxBasePriority[u] \in Nat
    BY <2>1, PriorityFacts DEF HoldersExact
  <2>6. PriorityRestored'
    BY <1>2, <1>3, <2>1, <2>5 DEF HoldersExact, PriorityRestored
  <2>7. QED
    BY <2>2, <2>4, <2>6 DEF HoldersExact
<1>5. /\ at' = [at EXCEPT ![t] = "elsewhere"] /\ xMutex' = [xMutex EXCEPT ![t] = NoMutex]
      /\ expired' \cup xInheritanceOccurred' \subseteq Tasks
  BY DEF Take, Return, MutexInv
<1>6. /\ xMutex' \in [Tasks -> Mutexes \cup {NoMutex}]
      /\ \A u \in Tasks \ {t} : xMutex'[u] = xMutex[u]
  BY <1>5 DEF MutexInv
<1>7. "elsewhere" \in Places \ {"asleep"} /\ ListsOf(ready', uxPriority', Runnable)
  BY <1>2 DEF Places, MutexInv
<1>8. QED
  BY <1>2, <1>4, <1>5, <1>6, <1>7, RunningStepInv

(* The holder keeps the mutex and gets a priority that is not below its own.*)
LEMMA HolderChangedExact ==
  ASSUME HoldersExact, NEW h \in Tasks, Held(h) # {}, NEW p \in Priorities, p >= uxBasePriority[h],
         uxPriority' = [uxPriority EXCEPT ![h] = p], UNCHANGED <<pxMutexHolder, uxMutexesHeld>>
  PROVE  HoldersExact'
<1>1. \A u \in Tasks : Held(u)' = Held(u)
  BY DEF Held
<1>2. /\ uxPriority' \in [Tasks -> Priorities] /\ uxPriority'[h] = p
      /\ \A u \in Tasks \ {h} : uxPriority'[u] = uxPriority[u]
  BY DEF HoldersExact
<1>3. PriorityRestored'
  BY <1>1, <1>2 DEF HoldersExact, PriorityRestored
<1>4. QED
  BY <1>1, <1>2, <1>3 DEF HoldersExact

LEMMA DisinheritInv ==
  ASSUME MutexInv, NEW t \in Tasks, Disinherit(t)
  PROVE  MutexInv'
<1> DEFINE m == xMutex[t]
           h == pxMutexHolder[m]
           toUse == Max({uxBasePriority[h], DisinheritPriority(m)})
<1>1. /\ pxCurrentTCB = t /\ at[t] = "disinherit" /\ Return(t)
      /\ UNCHANGED <<mutexes, uxMutexesHeld, pxCurrentTCB>>
      /\ \/ /\ h # NoTask
            /\ uxPriority' = [uxPriority EXCEPT ![h] = toUse]
            /\ ready' = IF IsReady(h) THEN Added(Removed(ready, h, uxPriority[h], toUse), h, toUse)
                        ELSE ready
         \/ UNCHANGED <<uxPriority, ready>>
  BY DEF Disinherit
<1>2. m \in Mutexes
  BY <1>1 DEF MutexInv
<1>3. Runnable \in SUBSET Tasks
  BY DEF Runnable
<1>4. HoldersExact' /\ ListsOf(ready', uxPriority', Runnable)
  <2>1. CASE UNCHANGED <<uxPriority, ready>>
    BY <1>1, <2>1, SameHoldersExact DEF MutexInv, mutexes
  <2>2. CASE /\ h # NoTask
             /\ uxPriority' = [uxPriority EXCEPT ![h] = toUse]
             /\ ready' = IF IsReady(h) THEN Added(Removed(ready, h, uxPriority[h], toUse), h, toUse)
                         ELSE ready
    <3>1. h \in Tasks /\ m \in Held(h) /\ uxPriority \in [Tasks -> Priorities]
      BY <1>2, <2>2 DEF MutexInv, HoldersExact, Held
    <3>2. DisinheritPriority(m) \in Priorities
      <4>1. CASE xTasksWaitingToReceive[m] = <<>>
        BY <4>1, PriorityFacts DEF DisinheritPriority
      <4>2. CASE xTasksWaitingToReceive[m] # <<>>
        <5>1. xTasksWaitingToReceive[m] \in Seq(Tasks)
          BY <1>2 DEF MutexInv
        <5>2. Head(xTasksWaitingToReceive[m]) \in Tasks
          BY <4>2, <5>1
        <5>3. QED
          BY <3>1, <4>2, <5>2 DEF DisinheritPriority
      <4>3. QED
        BY <4>1, <4>2
    <3>3. PICK own \in Priorities : own = uxBasePriority[h]
      BY <3>1, PriorityFacts
    <3>4. PICK lent \in Priorities : lent = DisinheritPriority(m)
      BY <3>2
    <3>5. toUse \in {own, lent} /\ toUse >= own
      <4>1. {own, lent} \in SUBSET Nat /\ {own, lent} # {} /\ \A k \in {own, lent} : k <= configMAX_PRIORITIES
        BY PriorityFacts
      <4>2. Max({own, lent}) \in {own, lent} /\ Max({own, lent}) >= own
        BY <4>1, MutexAssumption, MaxFacts
      <4>3. QED
        BY <3>3, <3>4, <4>2
    <3> HIDE DEF toUse, h, m
    <3>6. PICK p \in Priorities : p = toUse /\ p >= uxBasePriority[h]
      BY <3>3, <3>5
    <3>7. HoldersExact'
      BY <1>1, <2>2, <3>1, <3>6, HolderChangedExact DEF MutexInv, mutexes
    <3>8. ListsOf(ready, uxPriority, Runnable)
      BY DEF MutexInv
    <3>9. CASE IsReady(h)
      <4>1. h \in Runnable
        BY <3>1, <3>9, ReadyFacts
      <4>2. ListsOf(Added(Removed(ready, h, uxPriority[h], p), h, p), [uxPriority EXCEPT ![h] = p], Runnable)
        BY <1>3, <3>1, <3>8, <4>1, MovedFacts
      <4>3. /\ ready' = Added(Removed(ready, h, uxPriority[h], p), h, p)
            /\ uxPriority' = [uxPriority EXCEPT ![h] = p]
        BY <2>2, <3>6, <3>9
      <4>4. QED
        BY <3>7, <4>2, <4>3
    <3>10. CASE ~ IsReady(h)
      <4>1. h \notin Runnable
        BY <3>1, <3>10, ReadyFacts
      <4>2. ListsOf(ready, [uxPriority EXCEPT ![h] = p], Runnable)
        BY <1>3, <3>1, <3>8, <4>1, StayedFacts
      <4>3. ready' = ready /\ uxPriority' = [uxPriority EXCEPT ![h] = p]
        BY <2>2, <3>6, <3>10
      <4>4. QED
        BY <3>7, <4>2, <4>3
    <3>11. QED
      BY <3>7, <3>9, <3>10
  <2>3. QED
    BY <1>1, <2>1, <2>2
<1>5. /\ at' = [at EXCEPT ![t] = "elsewhere"] /\ xMutex' = [xMutex EXCEPT ![t] = NoMutex]
      /\ expired' \cup xInheritanceOccurred' \subseteq Tasks
  BY <1>1 DEF Return, MutexInv
<1>6. /\ xMutex' \in [Tasks -> Mutexes \cup {NoMutex}]
      /\ \A u \in Tasks \ {t} : xMutex'[u] = xMutex[u]
  BY <1>5 DEF MutexInv
<1>7. "elsewhere" \in Places \ {"asleep"}
  BY DEF Places
<1>8. QED
  BY <1>1, <1>4, <1>5, <1>6, <1>7, RunningStepInv DEF mutexes

(* A task becomes ready, or stops being so: the event list of at most one   *)
(* mutex changes.                                                           *)
LEMMA ListStepInv ==
  ASSUME MutexInv, at' \in [Tasks -> Places], UNCHANGED xMutex,
         expired' \cup xInheritanceOccurred' \subseteq Tasks,
         xTasksWaitingToReceive' \in [Mutexes -> Seq(Tasks)],
         \A u \in Tasks : at'[u] \in {"try", "block", "lookAgain", "disinherit"} => xMutex[u] \in Mutexes,
         ListsOf(ready', uxPriority', Runnable'), WaitersExact',
         pxCurrentTCB' \in Runnable' \cup {Idle, NoTask}, HoldersExact'
  PROVE  MutexInv'
  BY DEF MutexInv

LEMMA DelayInv ==
  ASSUME MutexInv, NEW t \in Tasks, vTaskDelay(t)
  PROVE  MutexInv'
<1>1. /\ pxCurrentTCB = t /\ at[t] = "elsewhere" /\ at' = [at EXCEPT ![t] = "asleep"]
      /\ ready' = Removed(ready, t, uxPriority[t], uxPriority[t]) /\ vTaskSwitchContext
      /\ UNCHANGED <<pxMutexHolder, xTasksWaitingToReceive, uxMutexesHeld, uxPriority, xMutex, expired,
                     xInheritanceOccurred>>
  BY DEF vTaskDelay, mutexes
<1>2. at' \in [Tasks -> Places] /\ at'[t] = "asleep" /\ \A u \in Tasks \ {t} : at'[u] = at[u]
  BY <1>1 DEF MutexInv, Places
<1>3. \A u \in Tasks : Waiting(u)' <=> Waiting(u)
  BY <1>1 DEF Waiting
<1>4. Runnable' = Runnable \ {t}
  BY <1>2, <1>3 DEF Runnable
<1>5. Runnable \in SUBSET Tasks /\ uxPriority \in [Tasks -> Priorities] /\ ListsOf(ready, uxPriority, Runnable)
  BY DEF Runnable, MutexInv, HoldersExact
<1>6. ListsOf(ready', uxPriority, Runnable')
  BY <1>1, <1>4, <1>5, RemovedFacts
<1>7. pxCurrentTCB' \in Runnable' \cup {Idle, NoTask}
  BY <1>1, <1>4, <1>5, <1>6, SwitchFacts
<1>8. WaitersExact'
  <2>1. t \in Runnable
    BY <1>1, MutexAssumption DEF MutexInv
  <2>2. \A m \in Mutexes : t \notin Range(xTasksWaitingToReceive[m])
    BY <2>1 DEF Runnable, Waiting
  <2>3. \A m \in Mutexes : Range(xTasksWaitingToReceive[m]) \subseteq Tasks
    BY RangeOfSeq DEF MutexInv
  <2>4. QED
    BY <1>1, <1>2, <2>2, <2>3 DEF WaitersExact, MutexInv
<1>9. HoldersExact'
  BY <1>1, SameHoldersExact DEF MutexInv
<1>10. QED
  BY <1>1, <1>2, <1>6, <1>7, <1>8, <1>9, ListStepInv DEF MutexInv

(* xTaskIncrementTick wakes a task. *)
LEMMA UnblockFacts ==
  ASSUME MutexInv, NEW t \in Tasks, Unblock(t)
  PROVE  /\ ListsOf(ready', uxPriority, Runnable \cup {t})
         /\ pxCurrentTCB' \in Runnable \cup {t, Idle, NoTask}
<1>1. Runnable \in SUBSET Tasks /\ uxPriority \in [Tasks -> Priorities] /\ ListsOf(ready, uxPriority, Runnable)
  BY DEF Runnable, MutexInv, HoldersExact
<1>2. ListsOf(ready', uxPriority, Runnable \cup {t})
  BY <1>1, AddedFacts DEF Unblock
<1>3. pxCurrentTCB' = pxCurrentTCB \/ vTaskSwitchContext
  BY DEF Unblock, YieldIf
<1>4. Runnable \cup {t} \in SUBSET Tasks
  BY <1>1
<1>5. vTaskSwitchContext => pxCurrentTCB' \in Runnable \cup {t} \cup {Idle, NoTask}
  BY <1>2, <1>4, SwitchFacts
<1>6. QED
  BY <1>2, <1>3, <1>5 DEF MutexInv

LEMMA WakeUpInv ==
  ASSUME MutexInv, NEW t \in Tasks, WakeUp(t)
  PROVE  MutexInv'
<1>1. /\ at[t] = "asleep" /\ at' = [at EXCEPT ![t] = "elsewhere"] /\ Unblock(t)
      /\ UNCHANGED <<pxMutexHolder, xTasksWaitingToReceive, uxMutexesHeld, uxPriority, xMutex, expired,
                     xInheritanceOccurred>>
  BY DEF WakeUp, mutexes
<1>2. at' \in [Tasks -> Places] /\ at'[t] = "elsewhere" /\ \A u \in Tasks \ {t} : at'[u] = at[u]
  BY <1>1 DEF MutexInv, Places
<1>3. \A u \in Tasks : Waiting(u)' <=> Waiting(u)
  BY <1>1 DEF Waiting
<1>4. ~ Waiting(t)
  BY <1>1 DEF MutexInv, WaitersExact, Waiting
<1>5. Runnable' = Runnable \cup {t}
  BY <1>2, <1>3, <1>4 DEF Runnable
<1>6. ListsOf(ready', uxPriority, Runnable') /\ pxCurrentTCB' \in Runnable' \cup {Idle, NoTask}
  BY <1>1, <1>5, UnblockFacts
<1>7. WaitersExact'
  <2>1. \A m \in Mutexes : t \notin Range(xTasksWaitingToReceive[m])
    BY <1>4 DEF Waiting
  <2>2. \A m \in Mutexes : Range(xTasksWaitingToReceive[m]) \subseteq Tasks
    BY RangeOfSeq DEF MutexInv
  <2>3. QED
    BY <1>1, <1>2, <2>1, <2>2 DEF WaitersExact, MutexInv
<1>8. HoldersExact'
  BY <1>1, SameHoldersExact DEF MutexInv
<1>9. QED
  BY <1>1, <1>2, <1>6, <1>7, <1>8, ListStepInv DEF MutexInv

LEMMA BlockTimeOverInv ==
  ASSUME MutexInv, NEW t \in Tasks, BlockTimeOver(t)
  PROVE  MutexInv'
<1>1. /\ at[t] \in {"try", "block"} /\ expired' = expired \cup {t}
      /\ UNCHANGED <<pxMutexHolder, uxMutexesHeld, uxPriority, at, xMutex, xInheritanceOccurred>>
  BY DEF BlockTimeOver
<1>2. expired' \cup xInheritanceOccurred' \subseteq Tasks
  BY <1>1 DEF MutexInv
<1>3. HoldersExact'
  BY <1>1, SameHoldersExact DEF MutexInv
<1>4. CASE IsReady(t)
  <2>1. UNCHANGED <<ready, pxCurrentTCB, xTasksWaitingToReceive>>
    BY <1>4 DEF BlockTimeOver
  <2>2. Runnable' = Runnable /\ WaitersExact'
    BY <1>1, <2>1 DEF Runnable, Waiting, WaitersExact, MutexInv
  <2>3. QED
    BY <1>1, <1>2, <1>3, <2>1, <2>2 DEF MutexInv
<1>5. CASE ~ IsReady(t)
  <2> DEFINE m == xMutex[t]
             w == xTasksWaitingToReceive
  <2>1. w' = [w EXCEPT ![m] = Unlinked(@, t)] /\ Unblock(t)
    BY <1>5 DEF BlockTimeOver
  <2>2. Waiting(t)
    BY <1>1, <1>5, ReadyFacts DEF Runnable
  <2>3. m \in Mutexes /\ t \in Range(w[m]) /\ \A k \in Mutexes \ {m} : t \notin Range(w[k])
    BY <2>2 DEF Waiting, MutexInv, WaitersExact
  <2>4. w[m] \in Seq(Tasks) /\ Distinct(w[m])
    BY <2>3 DEF MutexInv, WaitersExact
  <2>5. /\ Unlinked(w[m], t) \in Seq(Tasks) /\ Distinct(Unlinked(w[m], t))
        /\ Range(Unlinked(w[m], t)) = Range(w[m]) \ {t}
    BY <2>3, <2>4, UnlinkedFacts
  <2>6. /\ w' \in [Mutexes -> Seq(Tasks)] /\ w'[m] = Unlinked(w[m], t)
        /\ \A k \in Mutexes \ {m} : w'[k] = w[k]
    BY <2>1, <2>3, <2>5 DEF MutexInv
  <2>7. WaitersExact'
    BY <1>1, <2>3, <2>5, <2>6, ZenonT(40) DEF WaitersExact, MutexInv
  <2>8. ~ Waiting(t)' /\ \A u \in Tasks \ {t} : Waiting(u)' <=> Waiting(u)
    BY <2>3, <2>5, <2>6 DEF Waiting
  <2>9. Runnable' = Runnable \cup {t}
    BY <1>1, <2>8 DEF Runnable
  <2>10. ListsOf(ready', uxPriority, Runnable') /\ pxCurrentTCB' \in Runnable' \cup {Idle, NoTask}
    BY <2>1, <2>9, UnblockFacts
  <2>11. QED
    BY <1>1, <1>2, <1>3, <2>6, <2>7, <2>10, ListStepInv DEF MutexInv
<1>6. QED
  BY <1>4, <1>5

LEMMA TimeSliceInv == MutexInv /\ TimeSlice => MutexInv'
<1> SUFFICES ASSUME MutexInv, TimeSlice PROVE MutexInv'
  OBVIOUS
<1>1. UNCHANGED <<mutexes, uxMutexesHeld, uxPriority, ready, calls>> /\ vTaskSwitchContext
  BY DEF TimeSlice
<1>2. Runnable' = Runnable /\ Runnable \in SUBSET Tasks /\ WaitersExact'
  BY <1>1 DEF Runnable, Waiting, WaitersExact, MutexInv, mutexes, calls
<1>3. ListsOf(ready', uxPriority, Runnable)
  BY <1>1 DEF MutexInv
<1>4. pxCurrentTCB' \in Runnable \cup {Idle, NoTask}
  BY <1>1, <1>2, <1>3, SwitchFacts
<1>5. HoldersExact'
  BY <1>1, SameHoldersExact DEF MutexInv, mutexes
<1>6. QED
  BY <1>1, <1>2, <1>3, <1>4, <1>5 DEF MutexInv, mutexes, calls

(* The giver's own part: it holds one mutex less, and with the last one it  *)
(* returns to its own priority.                                             *)
LEMMA GiverFacts ==
  ASSUME MutexInv, NEW t \in Tasks, NEW m \in Mutexes, Give(t, m), NEW priority,
         priority = IF Falls(t) THEN uxBasePriority[t] ELSE uxPriority[t], NEW fallen,
         fallen = IF Falls(t) THEN Added(Removed(ready, t, uxPriority[t], uxPriority[t]), t, priority)
                  ELSE ready
  PROVE  /\ ListsOf(fallen, uxPriority', Runnable) /\ HoldersExact'
         /\ \A u \in Tasks \ {t} : uxPriority'[u] = uxPriority[u]
<1>1. /\ pxCurrentTCB = t /\ pxMutexHolder[m] = t /\ pxMutexHolder' = [pxMutexHolder EXCEPT ![m] = NoTask]
      /\ uxMutexesHeld' = [uxMutexesHeld EXCEPT ![t] = @ - 1]
      /\ uxPriority' = [uxPriority EXCEPT ![t] = priority]
  BY DEF Give
<1>2. HoldersExact /\ t \in Runnable /\ Runnable \in SUBSET Tasks /\ uxPriority \in [Tasks -> Priorities]
      /\ ListsOf(ready, uxPriority, Runnable)
  BY <1>1, MutexAssumption DEF MutexInv, HoldersExact, Runnable
<1>3. priority \in Priorities /\ uxPriority[t] \in Priorities
  BY <1>2, PriorityFacts
<1>4. ListsOf(fallen, uxPriority', Runnable)
  <2>1. CASE Falls(t)
    <3>1. ListsOf(Added(Removed(ready, t, uxPriority[t], uxPriority[t]), t, priority),
                  [uxPriority EXCEPT ![t] = priority], Runnable)
      BY <1>2, <1>3, MovedFacts
    <3>2. QED
      BY <1>1, <2>1, <3>1
  <2>2. CASE ~ Falls(t)
    BY <1>1, <1>2, <2>2
  <2>3. QED
    BY <2>1, <2>2
<1>5. Held(t)' = Held(t) \ {m} /\ m \in Held(t) /\ \A u \in Tasks \ {t} : Held(u)' = Held(u)
  BY <1>1, <1>2, MutexAssumption DEF Held, HoldersExact
<1>6. Cardinality(Held(t) \ {m}) = Cardinality(Held(t)) - 1 /\ Cardinality(Held(t)) # 0
  BY <1>5, HeldFacts, FS_RemoveElement
<1>7. uxMutexesHeld[t] = Cardinality(Held(t)) /\ uxMutexesHeld[t] \in Nat /\ uxMutexesHeld[t] # 0
  BY <1>2, <1>6 DEF HoldersExact
<1>8. /\ pxMutexHolder' \in [Mutexes -> Tasks \cup {NoTask}] /\ uxPriority' \in [Tasks -> Priorities]
      /\ uxMutexesHeld' \in [Tasks -> Nat] /\ uxMutexesHeld'[t] = uxMutexesHeld[t] - 1
      /\ uxPriority'[t] = priority
      /\ \A u \in Tasks \ {t} : uxMutexesHeld'[u] = uxMutexesHeld[u] /\ uxPriority'[u] = uxPriority[u]
  BY <1>1, <1>2, <1>3, <1>7 DEF HoldersExact
<1>9. \A u \in Tasks : uxMutexesHeld'[u] = Cardinality(Held(u)')
  BY <1>2, <1>5, <1>6, <1>7, <1>8 DEF HoldersExact
<1>10. uxMutexesHeld[t] = 1 <=> Held(t)' = {}
  <2>1. IsFiniteSet(Held(t) \ {m})
    BY HeldFacts, FS_RemoveElement
  <2>2. Cardinality(Held(t) \ {m}) = 0 <=> Held(t) \ {m} = {}
    BY <2>1, FS_EmptySet
  <2>3. QED
    BY <1>5, <1>6, <1>7, <2>2
<1>11. IF Held(t)' = {} THEN priority = uxBasePriority[t] ELSE priority >= uxBasePriority[t]
  <2>1. CASE uxMutexesHeld[t] = 1
    BY <1>10, <2>1 DEF Falls
  <2>2. CASE uxMutexesHeld[t] # 1
    <3>1. priority = uxPriority[t]
      BY <2>2 DEF Falls
    <3>2. uxPriority[t] >= uxBasePriority[t]
      BY <1>2, <1>5 DEF HoldersExact, PriorityRestored
    <3>3. QED
      BY <1>10, <2>2, <3>1, <3>2
  <2>3. QED
    BY <2>1, <2>2
<1>12. PriorityRestored'
  BY <1>2, <1>5, <1>8, <1>11 DEF HoldersExact, PriorityRestored
<1>13. QED
  BY <1>4, <1>8, <1>9, <1>12 DEF HoldersExact

LEMMA GiveInv ==
  ASSUME MutexInv, NEW t \in Tasks, NEW m \in Mutexes, Give(t, m)
  PROVE  MutexInv'
<1>1. PICK priority : priority = IF Falls(t) THEN uxBasePriority[t] ELSE uxPriority[t]
  OBVIOUS
<1>2. PICK fallen : fallen = IF Falls(t) THEN Added(Removed(ready, t, uxPriority[t], uxPriority[t]), t, priority)
                             ELSE ready
  OBVIOUS
<1>3. /\ ListsOf(fallen, uxPriority', Runnable) /\ HoldersExact'
      /\ \A u \in Tasks \ {t} : uxPriority'[u] = uxPriority[u]
  BY <1>1, <1>2, GiverFacts
<1> DEFINE w == xTasksWaitingToReceive
<1>a. PICK woken : woken = Head(w[m])
  OBVIOUS
<1>4. /\ pxCurrentTCB = t /\ at[t] = "elsewhere"
      /\ UNCHANGED <<at, xMutex, xTicksToWait, expired, xInheritanceOccurred>>
      /\ pxCurrentTCB' = t \/ vTaskSwitchContext
      /\ w[m] # <<>> => ready' = Added(fallen, woken, uxPriority[woken]) /\ w' = [w EXCEPT ![m] = Tail(@)]
      /\ w[m] = <<>> => ready' = fallen /\ w' = w
  BY <1>1, <1>2, <1>a DEF Give, YieldIf, calls
<1>5. t \in Runnable /\ Runnable \in SUBSET Tasks /\ uxPriority' \in [Tasks -> Priorities]
  BY <1>3, <1>4, MutexAssumption DEF MutexInv, HoldersExact, Runnable
<1>6. CASE w[m] = <<>>
  <2>1. Runnable' = Runnable /\ WaitersExact'
    BY <1>4, <1>6 DEF Runnable, Waiting, WaitersExact, MutexInv
  <2>2. ListsOf(ready', uxPriority', Runnable')
    BY <1>3, <1>4, <1>6, <2>1
  <2>3. pxCurrentTCB' \in Runnable' \cup {Idle, NoTask}
    BY <1>4, <1>5, <2>1, <2>2, SwitchFacts
  <2>4. QED
    BY <1>3, <1>4, <1>6, <2>1, <2>2, <2>3 DEF MutexInv
<1>7. CASE w[m] # <<>>
  <2>1. w[m] \in Seq(Tasks) /\ Distinct(w[m])
    BY DEF MutexInv, WaitersExact
  <2>2. /\ Tail(w[m]) \in Seq(Tasks) /\ woken \in Range(w[m]) /\ woken \in Tasks
        /\ Range(Tail(w[m])) = Range(w[m]) \ {woken} /\ Distinct(Tail(w[m]))
    BY <1>a, <1>7, <2>1, TailFacts
  <2>3. /\ w' \in [Mutexes -> Seq(Tasks)] /\ w'[m] = Tail(w[m])
        /\ \A k \in Mutexes \ {m} : w'[k] = w[k]
    BY <1>4, <1>7, <2>2 DEF MutexInv
  <2>4. at[woken] = "try" /\ \A k \in Mutexes \ {m} : woken \notin Range(w[k])
    BY <2>2 DEF MutexInv, WaitersExact
  <2>5. WaitersExact'
    BY <1>4, <2>2, <2>3 DEF WaitersExact, MutexInv
  <2>6. ~ Waiting(woken)' /\ \A u \in Tasks \ {woken} : Waiting(u)' <=> Waiting(u)
    <3>1. \A k \in Mutexes : Range(w'[k]) = Range(w[k]) \ {woken}
      BY <2>2, <2>3, <2>4
    <3>2. QED
      BY <3>1 DEF Waiting
  <2>7. Runnable' = Runnable \cup {woken}
    <3>1. at' = at
      BY <1>4
    <3>2. QED
      BY <2>2, <2>4, <2>6, <3>1 DEF Runnable
  <2>8. woken # t
    BY <1>5, <2>2 DEF Runnable, Waiting
  <2>9. uxPriority'[woken] = uxPriority[woken]
    BY <1>3, <2>2, <2>8
  <2>10. ListsOf(ready', uxPriority', Runnable')
    <3>1. ListsOf(Added(fallen, woken, uxPriority'[woken]), uxPriority', Runnable \cup {woken})
      BY <1>3, <1>5, <2>2, AddedFacts
    <3>2. ready' = Added(fallen, woken, uxPriority'[woken])
      BY <1>4, <1>7, <2>9
    <3>3. QED
      BY <2>7, <3>1, <3>2
  <2>11. Runnable' \in SUBSET Tasks
    BY <1>5, <2>2, <2>7
  <2>12. pxCurrentTCB' \in Runnable' \cup {Idle, NoTask}
    BY <1>4, <1>5, <2>7, <2>10, <2>11, SwitchFacts
  <2>13. QED
    BY <1>3, <1>4, <2>3, <2>5, <2>10, <2>12, ListStepInv DEF MutexInv
<1>8. QED
  BY <1>6, <1>7

LEMMA BlockInv ==
  ASSUME MutexInv, NEW t \in Tasks, Block(t)
  PROVE  MutexInv'
<1> DEFINE w == xTasksWaitingToReceive
<1>1. PICK m \in Mutexes : m = xMutex[t]
  BY DEF Block, MutexInv
<1>2. PICK h \in Tasks : h = pxMutexHolder[m]
  BY <1>1 DEF Block, MutexInv, HoldersExact
<1> DEFINE raised == uxPriority[h] < uxPriority[t]
           inherited == IF raised THEN xTaskPriorityInherit(h, uxPriority[t]) ELSE ready
<1>3. /\ pxCurrentTCB = t /\ at[t] = "block" /\ at' = [at EXCEPT ![t] = "try"]
      /\ uxPriority' = IF raised THEN [uxPriority EXCEPT ![h] = uxPriority[t]] ELSE uxPriority
      /\ w' = [w EXCEPT ![m] = Inserted(@, t)]
      /\ ready' = Removed(inherited, t, uxPriority[t], uxPriority[t])
      /\ vTaskSwitchContext
      /\ UNCHANGED <<pxMutexHolder, uxMutexesHeld, xMutex, xTicksToWait, expired>>
      /\ xInheritanceOccurred' \subseteq xInheritanceOccurred \cup {t}
  BY <1>1, <1>2 DEF Block
<1>4. HoldersExact /\ t \in Runnable /\ Runnable \in SUBSET Tasks /\ uxPriority \in [Tasks -> Priorities]
      /\ ListsOf(ready, uxPriority, Runnable)
  BY <1>3, MutexAssumption DEF MutexInv, HoldersExact, Runnable
<1>5. PICK p \in Priorities : p = uxPriority[t]
  BY <1>4
<1>6. m \in Held(h)
  BY <1>2 DEF Held
<1>7. /\ HoldersExact' /\ ListsOf(inherited, uxPriority', Runnable) /\ uxPriority'[t] = p
  <2>1. CASE raised
    <3>1. uxPriority' = [uxPriority EXCEPT ![h] = p] /\ inherited = xTaskPriorityInherit(h, p) /\ h # t
      <4>1. uxPriority[h] \in Nat
        BY <1>4, PriorityFacts
      <4>2. QED
        BY <1>3, <1>5, <2>1, <4>1
    <3>2. p >= uxBasePriority[h]
      <4>1. uxPriority[h] >= uxBasePriority[h] /\ uxPriority[h] < p
        BY <1>4, <1>5, <1>6, <2>1 DEF HoldersExact, PriorityRestored
      <4>2. uxPriority[h] \in Nat /\ uxBasePriority[h] \in Nat /\ p \in Nat
        BY <1>4, PriorityFacts
      <4>3. QED
        BY <4>1, <4>2
    <3>3. HoldersExact'
      BY <1>3, <1>4, <1>6, <3>1, <3>2, HolderChangedExact
    <3>4. CASE IsReady(h)
      <4>1. h \in Runnable /\ uxPriority[h] \in Priorities
        BY <1>4, <3>4, ReadyFacts
      <4>2. inherited = Added(Removed(ready, h, uxPriority[h], uxPriority[h]), h, p)
        BY <3>1, <3>4 DEF xTaskPriorityInherit
      <4>3. ListsOf(Added(Removed(ready, h, uxPriority[h], uxPriority[h]), h, p),
                    [uxPriority EXCEPT ![h] = p], Runnable)
        BY <1>4, <4>1, MovedFacts
      <4>4. QED
        BY <1>4, <1>5, <3>1, <3>3, <4>2, <4>3
    <3>5. CASE ~ IsReady(h)
      <4>1. h \notin Runnable /\ inherited = ready
        BY <3>1, <3>5, ReadyFacts DEF xTaskPriorityInherit
      <4>2. ListsOf(ready, [uxPriority EXCEPT ![h] = p], Runnable)
        BY <1>4, <4>1, StayedFacts
      <4>3. QED
        BY <1>4, <1>5, <3>1, <3>3, <4>1, <4>2
    <3>6. QED
      BY <3>4, <3>5
  <2>2. CASE ~ raised
    BY <1>3, <1>4, <1>5, <2>2, SameHoldersExact
  <2>3. QED
    BY <2>1, <2>2
<1> HIDE DEF raised, inherited
<1>8. \A k \in Mutexes : t \notin Range(w[k])
  BY <1>4 DEF Runnable, Waiting
<1>9. w[m] \in Seq(Tasks) /\ Distinct(w[m])
  BY DEF MutexInv, WaitersExact
<1>10. /\ Inserted(w[m], t) \in Seq(Tasks) /\ Distinct(Inserted(w[m], t))
       /\ Range(Inserted(w[m], t)) = Range(w[m]) \cup {t}
  BY <1>8, <1>9, InsertedFacts
<1>11. /\ w' \in [Mutexes -> Seq(Tasks)] /\ w'[m] = Inserted(w[m], t)
       /\ \A k \in Mutexes \ {m} : w'[k] = w[k]
  BY <1>3, <1>10 DEF MutexInv
<1>12. at' \in [Tasks -> Places] /\ at'[t] = "try" /\ \A u \in Tasks \ {t} : at'[u] = at[u]
  BY <1>3 DEF MutexInv, Places
<1>13. WaitersExact'
  <2>1. \A k \in Mutexes : Range(w[k]) \subseteq Tasks
    BY RangeOfSeq DEF MutexInv
  <2>2. QED
    BY <1>1, <1>3, <1>8, <1>10, <1>11, <1>12, <2>1 DEF WaitersExact, MutexInv
<1>14. Waiting(t)' /\ \A u \in Tasks \ {t} : Waiting(u)' <=> Waiting(u)
  BY <1>10, <1>11 DEF Waiting
<1>15. Runnable' = Runnable \ {t}
  BY <1>12, <1>14 DEF Runnable
<1>16. ListsOf(ready', uxPriority', Runnable')
  <2>1. uxPriority' \in [Tasks -> Priorities]
    BY <1>7 DEF HoldersExact
  <2>2. ListsOf(Removed(inherited, t, uxPriority'[t], p), uxPriority', Runnable \ {t})
    BY <1>4, <1>7, <2>1, RemovedFacts
  <2>3. QED
    BY <1>3, <1>5, <1>7, <1>15, <2>2
<1>17. pxCurrentTCB' \in Runnable' \cup {Idle, NoTask}
  <2>1. Runnable' \in SUBSET Tasks
    BY <1>4, <1>15
  <2>2. QED
    BY <1>3, <1>16, <2>1, SwitchFacts
<1>18. expired' \cup xInheritanceOccurred' \subseteq Tasks
  BY <1>3 DEF MutexInv
<1>19. \A u \in Tasks : at'[u] \in {"try", "block", "lookAgain", "disinherit"} => xMutex[u] \in Mutexes
  BY <1>1, <1>12 DEF MutexInv
<1>20. QED
  BY <1>3, <1>7, <1>11, <1>12, <1>13, <1>16, <1>17, <1>18, <1>19, ListStepInv

LEMMA MutexInitInv == MutexInit => MutexInv
<1> SUFFICES ASSUME MutexInit PROVE MutexInv
  OBVIOUS
<1>1. \A m \in Mutexes : Range(xTasksWaitingToReceive[m]) = {} /\ Distinct(xTasksWaitingToReceive[m])
  BY DEF MutexInit, Range, Distinct
<1>2. Runnable = Tasks /\ WaitersExact
  BY <1>1 DEF MutexInit, Runnable, Waiting, WaitersExact
<1>3. uxPriority = uxBasePriority /\ uxPriority \in [Tasks -> Priorities]
  BY PriorityFacts, MutexAssumption DEF MutexInit
<1>4. ListsOf(ready, uxPriority, Tasks)
  <2>1. ready = [lists |-> [p \in Priorities |-> {t \in Tasks : uxBasePriority[t] = p}
                                                    \cup IF p = tskIDLE_PRIORITY THEN {Idle} ELSE {}],
                 top |-> Priorities]
    BY DEF MutexInit
  <2>2. ready \in ReadyLists
    BY <2>1 DEF ReadyLists
  <2>3. QED
    BY <1>3, <2>1, <2>2 DEF ListsOf
<1>5. \A t \in Tasks : Held(t) = {} /\ Cardinality(Held(t)) = 0
  <2>1. \A t \in Tasks : Held(t) = {}
    BY MutexAssumption DEF MutexInit, Held
  <2>2. QED
    BY <2>1, FS_EmptySet
<1>6. HoldersExact
  BY <1>3, <1>5 DEF MutexInit, HoldersExact, PriorityRestored
<1>7. QED
  BY <1>2, <1>4, <1>6 DEF MutexInit, MutexInv, Places

LEMMA MutexNextInv == MutexInv /\ (MutexNext \/ UNCHANGED mutexVars) => MutexInv'
<1>1. ASSUME MutexInv, UNCHANGED mutexVars PROVE MutexInv'
  <2>1. Runnable' = Runnable /\ WaitersExact' /\ HoldersExact'
    BY <1>1, SameHoldersExact DEF Runnable, Waiting, WaitersExact, MutexInv, mutexVars, mutexes, calls
  <2>2. QED
    BY <1>1, <2>1 DEF MutexInv, mutexVars, mutexes, calls
<1>2. ASSUME MutexInv, MutexNext PROVE MutexInv'
  BY <1>2, CallInv, TakeInv, BlockInv, DisinheritInv, GiveInv, DelayInv, WakeUpInv, BlockTimeOverInv,
     TimeSliceInv DEF MutexNext
<1>3. QED
  BY <1>1, <1>2

LEMMA MutexInvariant == ServicesSpec => []MutexInv
<1>1. ServicesInit => MutexInv
  BY MutexInitInv DEF ServicesInit
<1>2. MutexInv /\ [ServicesNext]_serviceVars => MutexInv'
  BY MutexNextInv DEF ServicesNext, serviceVars
<1>3. QED
  BY <1>1, <1>2, PTL DEF ServicesSpec

(* While priorities are inherited, taken back after a timeout and restored, *)
(* every task is in the ready list of its priority, and in none while it    *)
(* sleeps or waits; uxMutexesHeld counts the mutexes a task holds.          *)
THEOREM MutexReadyListsExact == ServicesSpec => []ReadyListsExact
<1>1. ASSUME MutexInv PROVE ReadyListsExact
  <2>1. MutexTypeOK
    BY <1>1 DEF MutexInv, HoldersExact, Runnable, MutexTypeOK
  <2>2. ASSUME NEW p \in Priorities, NEW t \in ready.lists[p] PROVE PriorityOf(t) = p
    <3>1. t \in {u \in Runnable : uxPriority[u] = p} \/ (t = Idle /\ p = tskIDLE_PRIORITY)
      BY <1>1 DEF MutexInv, ListsOf
    <3>2. QED
      BY <3>1, MutexAssumption DEF PriorityOf, Runnable
  <2>3. \A t \in Tasks : IsReady(t) <=> at[t] # "asleep"
                                        /\ \A m \in Mutexes : t \notin Range(xTasksWaitingToReceive[m])
    BY <1>1, ReadyFacts DEF Runnable, Waiting
  <2>4. QED
    BY <1>1, <2>1, <2>2, <2>3 DEF ReadyListsExact, MutexInv, HoldersExact
<1>2. QED
  BY <1>1, MutexInvariant, PTL

(* A priority is inherited only while a mutex is held: with the last one it *)
(* is given back, in whatever order mutexes are given and waits time out.   *)
THEOREM MutexPriorityRestored == ServicesSpec => []PriorityRestored
<1>1. MutexInv => PriorityRestored
  BY DEF MutexInv, HoldersExact
<1>2. QED
  BY <1>1, MutexInvariant, PTL

-----------------------------------------------------------------------------
(* With one mutex.  A task that asks for it holds none, so that it has its  *)
(* own priority; the list is in the order of these.                         *)

Only == CHOOSE m \in Mutexes : TRUE
Waiters(m) == Range(xTasksWaitingToReceive[m])
Asks == {"try", "block", "lookAgain", "disinherit"}

BitsExact(r) == \A p \in Priorities : p \in r.top <=> r.lists[p] # {}

(* The holder is as urgent as its waiters, those that are more urgent than  *)
(* itself will take back what they lent, and what it is lent is the priority*)
(* of one that will.                                                        *)
Lends(p) == p \in xInheritanceOccurred /\ at[p] \in Asks \cup {"assertion"}

HeldExact(m) ==
    LET h == pxMutexHolder[m]
    IN  h # NoTask =>
          /\ m = Only
          /\ at[h] \in {"elsewhere", "asleep"}
          /\ \A t \in Waiters(m) : /\ uxPriority[t] <= uxPriority[h]
                                   /\ uxPriority[t] > uxBasePriority[h] => t \in xInheritanceOccurred
          /\ uxPriority[h] # uxBasePriority[h]
                => \E p \in Tasks : Lends(p) /\ uxPriority[p] = uxPriority[h]

(* While a mutex is free one that is as urgent as those that still wait is  *)
(* about to take it, and so is the one that runs.                           *)
Bids(m) == \E r \in Tasks : /\ at[r] \in Asks \ {"disinherit"} /\ ~ Waiting(r)
                            /\ \A t \in Waiters(m) : uxPriority[t] <= uxPriority[r]

FreeExact(m) ==
    pxMutexHolder[m] = NoTask =>
      /\ Waiters(m) # {} => Bids(m)
      /\ pxCurrentTCB \in Tasks => \A t \in Waiters(m) : uxPriority[t] <= uxPriority[pxCurrentTCB]

OneInv ==
    /\ xMutex \in [Tasks -> {NoMutex, Only}]
    /\ BitsExact(ready)
    /\ \A m \in Mutexes : Sorted(xTasksWaitingToReceive[m], uxPriority) /\ HeldExact(m) /\ FreeExact(m)

LEMMA BitsAdded ==
  ASSUME NEW r \in ReadyLists, BitsExact(r), NEW t \in Tasks, NEW p \in Priorities
  PROVE  Added(r, t, p) \in ReadyLists /\ BitsExact(Added(r, t, p))
<1>1. PICK lists \in [Priorities -> SUBSET (Tasks \cup {Idle})], top \in SUBSET Priorities :
         r = [lists |-> lists, top |-> top] /\ lists = r.lists /\ top = r.top
  BY DEF ReadyLists
<1> DEFINE more == [lists EXCEPT ![p] = @ \cup {t}]
           s == [lists |-> more, top |-> top \cup {p}]
<1>2. Added(r, t, p) = s
  <2>1. [r EXCEPT !.lists[p] = @ \cup {t}] = [lists |-> more, top |-> top]
    BY <1>1, SMTT(30)
  <2> HIDE DEF more
  <2>2. Added(r, t, p) = [[r EXCEPT !.lists[p] = @ \cup {t}] EXCEPT !.top = @ \cup {p}]
    BY DEF Added
  <2>3. [[lists |-> more, top |-> top] EXCEPT !.top = @ \cup {p}] = s
    OBVIOUS
  <2>4. QED
    BY <2>1, <2>2, <2>3
<1>3. \A q \in Priorities : q \in top <=> lists[q] # {}
  BY <1>1 DEF BitsExact
<1>4. /\ more \in [Priorities -> SUBSET (Tasks \cup {Idle})] /\ more[p] = lists[p] \cup {t}
      /\ \A q \in Priorities \ {p} : more[q] = lists[q]
  OBVIOUS
<1> HIDE DEF more
<1>5. s \in ReadyLists /\ BitsExact(s)
  BY <1>3, <1>4 DEF BitsExact, ReadyLists
<1>6. QED
  BY <1>2, <1>5

(* The bit that is reset is that of the list, or the list is not empty.     *)
LEMMA BitsRemoved ==
  ASSUME NEW r \in ReadyLists, BitsExact(r), NEW t, NEW p \in Priorities, NEW q \in Priorities,
         q = p \/ r.lists[p] \ {t} # {}
  PROVE  Removed(r, t, p, q) \in ReadyLists /\ BitsExact(Removed(r, t, p, q))
<1>1. PICK lists \in [Priorities -> SUBSET (Tasks \cup {Idle})], top \in SUBSET Priorities :
         r = [lists |-> lists, top |-> top] /\ lists = r.lists /\ top = r.top
  BY DEF ReadyLists
<1> DEFINE less == [lists EXCEPT ![p] = @ \ {t}]
           s == [lists |-> less, top |-> top]
<1>2. [r EXCEPT !.lists[p] = @ \ {t}] = s
  BY <1>1
<1>3. s.lists = less /\ s.top = top
  OBVIOUS
<1>4. \A k \in Priorities : k \in top <=> lists[k] # {}
  BY <1>1 DEF BitsExact
<1>5. /\ less \in [Priorities -> SUBSET (Tasks \cup {Idle})] /\ less[p] = lists[p] \ {t}
      /\ \A k \in Priorities \ {p} : less[k] = lists[k]
  OBVIOUS
<1> HIDE DEF less
<1>6. CASE less[p] # {}
  <2>1. Removed(r, t, p, q) = s
    BY <1>2, <1>6 DEF Removed
  <2>2. s \in ReadyLists /\ BitsExact(s)
    BY <1>4, <1>5, <1>6 DEF BitsExact, ReadyLists
  <2>3. QED
    BY <2>1, <2>2
<1>7. CASE less[p] = {}
  <2>1. q = p
    BY <1>1, <1>5, <1>7
  <2>2. Removed(r, t, p, q) = [s EXCEPT !.top = @ \ {p}]
    BY <1>2, <1>7, <2>1 DEF Removed, Reset
  <2>3. [s EXCEPT !.top = @ \ {p}] = [lists |-> less, top |-> top \ {p}]
    OBVIOUS
  <2>4. [lists |-> less, top |-> top \ {p}] \in ReadyLists /\ BitsExact([lists |-> less, top |-> top \ {p}])
    BY <1>4, <1>5, <1>7 DEF BitsExact, ReadyLists
  <2>5. QED
    BY <2>2, <2>3, <2>4
<1>8. QED
  BY <1>6, <1>7

(* Then the scheduler picks a task that no other is more urgent than.       *)
LEMMA SwitchHighest ==
  ASSUME NEW priority, priority \in [Tasks -> Priorities], NEW S \in SUBSET Tasks,
         ListsOf(ready', priority, S), BitsExact(ready'), vTaskSwitchContext, pxCurrentTCB' \in Tasks
  PROVE  \A u \in S : priority[u] <= priority[pxCurrentTCB']
<1> DEFINE highest == Max(ready'.top)
<1>1. ready' \in ReadyLists /\ ready'.top \in SUBSET Nat /\ ready'.top \subseteq Priorities
  BY PriorityFacts DEF ListsOf, ReadyLists
<1>2. ready'.top # {}
  <2>1. tskIDLE_PRIORITY \in Priorities
    BY PriorityFacts
  <2>2. Idle \in ready'.lists[tskIDLE_PRIORITY]
    BY <2>1 DEF ListsOf
  <2>3. QED
    BY <2>1, <2>2 DEF ListsOf
<1>3. highest \in ready'.top /\ \A p \in ready'.top : highest >= p
  <2>1. \A p \in ready'.top : p <= configMAX_PRIORITIES
    BY <1>1, PriorityFacts
  <2>2. QED
    BY <1>1, <1>2, <2>1, MutexAssumption, MaxFacts
<1>4. pxCurrentTCB' \in ready'.lists[highest]
  BY MutexAssumption DEF vTaskSwitchContext
<1> HIDE DEF highest
<1>5. priority[pxCurrentTCB'] = highest
  <2>1. highest \in Priorities /\ pxCurrentTCB' # Idle
    BY <1>1, <1>3, MutexAssumption
  <2>2. QED
    BY <1>4, <2>1 DEF ListsOf
<1>6. ASSUME NEW u \in S PROVE priority[u] <= highest
  <2>1. priority[u] \in Priorities /\ u \in ready'.lists[priority[u]]
    BY DEF ListsOf
  <2>2. priority[u] \in ready'.top
    BY <2>1 DEF BitsExact
  <2>3. priority[u] \in Nat /\ highest \in Nat /\ highest >= priority[u]
    BY <1>1, <1>3, <2>2
  <2>4. QED
    BY <2>3
<1>7. QED
  BY <1>5, <1>6

LEMMA BitsMoved ==
  ASSUME NEW r \in ReadyLists, BitsExact(r), NEW t \in Tasks, NEW p \in Priorities, NEW q \in Priorities,
         q = p \/ r.lists[p] \ {t} # {}, NEW k \in Priorities
  PROVE  Added(Removed(r, t, p, q), t, k) \in ReadyLists /\ BitsExact(Added(Removed(r, t, p, q), t, k))
<1>1. Removed(r, t, p, q) \in ReadyLists /\ BitsExact(Removed(r, t, p, q))
  BY BitsRemoved
<1>2. QED
  BY <1>1, BitsAdded

LEMMA SortedKept ==
  ASSUME NEW list \in Seq(Tasks), NEW f, Sorted(list, f), NEW g, \A u \in Range(list) : g[u] = f[u]
  PROVE  Sorted(list, g)
<1>1. \A i \in 1 .. Len(list) : list[i] \in Range(list)
  BY DEF Range
<1>2. QED
  BY <1>1 DEF Sorted

(* Who asks for the mutex holds none; who waits does so for this one.       *)
LEMMA OneFacts ==
  ASSUME MutexInv, OneInv
  PROVE  /\ \A t \in Tasks : at[t] \in Asks => /\ xMutex[t] = Only /\ Only \in Mutexes
                                               /\ uxPriority[t] = uxBasePriority[t]
         /\ \A m \in Mutexes : \A t \in Waiters(m) : /\ t \in Tasks /\ at[t] = "try" /\ m = Only
                                                    /\ t \notin Runnable
         /\ \A m \in Mutexes : /\ pxMutexHolder[m] \in Tasks \cup {NoTask}
                               /\ pxMutexHolder[m] # NoTask => m = Only
         /\ \A t \in Tasks : /\ uxPriority[t] \in Priorities /\ uxPriority[t] \in Nat
                             /\ uxBasePriority[t] \in Nat /\ uxPriority[t] >= uxBasePriority[t]
<1>1. ASSUME NEW t \in Tasks
      PROVE  /\ uxPriority[t] \in Priorities /\ uxPriority[t] \in Nat
             /\ uxBasePriority[t] \in Nat /\ uxPriority[t] >= uxBasePriority[t]
  <2>1. uxPriority[t] \in Priorities /\ uxBasePriority[t] \in Priorities
    BY PriorityFacts DEF MutexInv, HoldersExact
  <2>2. uxPriority[t] = uxBasePriority[t] \/ uxPriority[t] >= uxBasePriority[t]
    BY DEF MutexInv, HoldersExact, PriorityRestored
  <2>3. uxPriority[t] \in Nat /\ uxBasePriority[t] \in Nat
    BY <2>1, PriorityFacts
  <2>4. QED
    BY <2>1, <2>2, <2>3
<1>2. ASSUME NEW t \in Tasks, at[t] \in Asks
      PROVE  xMutex[t] = Only /\ Only \in Mutexes /\ uxPriority[t] = uxBasePriority[t]
  <2>1. xMutex[t] \in Mutexes /\ xMutex[t] \in {NoMutex, Only}
    BY <1>2 DEF MutexInv, OneInv, Asks
  <2>2. NoMutex \notin Mutexes
    BY MutexAssumption DEF NoMutex
  <2>3. Held(t) = {}
    <3>1. t # NoTask /\ at[t] \notin {"elsewhere", "asleep"}
      BY <1>2, MutexAssumption DEF Asks
    <3>2. ASSUME NEW m \in Mutexes PROVE pxMutexHolder[m] # t
      BY <3>1 DEF OneInv, HeldExact
    <3>3. QED
      BY <3>2 DEF Held
  <2>4. QED
    BY <2>1, <2>2, <2>3 DEF MutexInv, HoldersExact, PriorityRestored
<1>3. ASSUME NEW m \in Mutexes, NEW t \in Waiters(m)
      PROVE  t \in Tasks /\ at[t] = "try" /\ m = Only /\ t \notin Runnable
  <2>1. t \in Tasks /\ t \notin Runnable
    BY RangeOfSeq DEF MutexInv, Waiters, Runnable, Waiting
  <2>2. at[t] = "try" /\ xMutex[t] = m
    BY DEF MutexInv, WaitersExact, Waiters
  <2>3. QED
    BY <1>2, <2>1, <2>2 DEF Asks
<1>4. \A m \in Mutexes : /\ pxMutexHolder[m] \in Tasks \cup {NoTask}
                         /\ pxMutexHolder[m] # NoTask => m = Only
  BY DEF MutexInv, HoldersExact, OneInv, HeldExact
<1>5. QED
  BY <1>1, <1>2, <1>3, <1>4

(* A step is to be judged by what it does to the one mutex.                 *)
LEMMA OneStep ==
  ASSUME MutexInv', xMutex' \in [Tasks -> {NoMutex, Only}], BitsExact(ready'),
         \A m \in Mutexes \ {Only} : pxMutexHolder'[m] = NoTask,
         Only \in Mutexes => /\ Sorted(xTasksWaitingToReceive'[Only], uxPriority')
                             /\ HeldExact(Only)' /\ FreeExact(Only)'
  PROVE  OneInv'
<1>1. ASSUME NEW m \in Mutexes \ {Only}
      PROVE  Sorted(xTasksWaitingToReceive'[m], uxPriority') /\ HeldExact(m)' /\ FreeExact(m)'
  <2>1. ASSUME NEW t \in Waiters(m)' PROVE FALSE
    <3>1. t \in Tasks
      BY RangeOfSeq DEF MutexInv, Waiters
    <3>2. xMutex'[t] = m
      BY DEF MutexInv, WaitersExact, Waiters
    <3>3. NoMutex \notin Mutexes
      BY MutexAssumption DEF NoMutex
    <3>4. QED
      BY <3>1, <3>2, <3>3
  <2>2. \A i \in 1 .. Len(xTasksWaitingToReceive'[m]) : FALSE
    <3>1. PICK list \in Seq(Tasks) : list = xTasksWaitingToReceive'[m]
      BY DEF MutexInv
    <3>2. \A i \in 1 .. Len(list) : list[i] \in Range(list)
      BY DEF Range
    <3>3. QED
      BY <2>1, <3>1, <3>2 DEF Waiters
  <2>3. QED
    BY <2>1, <2>2 DEF Sorted, HeldExact, FreeExact
<1>2. QED
  BY <1>1 DEF OneInv

(* A context switch while the mutex is free: one that bids is ready.        *)
LEMMA FreeSwitched ==
  ASSUME MutexInv', BitsExact(ready'), vTaskSwitchContext,
         pxMutexHolder'[Only] = NoTask /\ Waiters(Only)' # {} => Bids(Only)', Only \in Mutexes
  PROVE  FreeExact(Only)'
<1> SUFFICES ASSUME pxMutexHolder'[Only] = NoTask, pxCurrentTCB' \in Tasks, NEW t \in Waiters(Only)'
             PROVE  uxPriority'[t] <= uxPriority'[pxCurrentTCB']
  BY DEF FreeExact
<1>1. PICK r \in Tasks : /\ at'[r] \in Asks \ {"disinherit"} /\ ~ Waiting(r)'
                         /\ uxPriority'[t] <= uxPriority'[r]
  BY DEF Bids
<1>2. r \in Runnable' /\ Runnable' \in SUBSET Tasks
  BY <1>1 DEF Runnable, Asks
<1>3. uxPriority' \in [Tasks -> Priorities] /\ ListsOf(ready', uxPriority', Runnable')
  BY DEF MutexInv, HoldersExact
<1>4. uxPriority'[r] <= uxPriority'[pxCurrentTCB']
  BY <1>2, <1>3, SwitchHighest
<1>5. t \in Tasks
  BY RangeOfSeq DEF MutexInv, Waiters
<1>6. uxPriority'[t] \in Nat /\ uxPriority'[r] \in Nat /\ uxPriority'[pxCurrentTCB'] \in Nat
  BY <1>3, <1>5, PriorityFacts
<1>7. QED
  BY <1>1, <1>4, <1>6

(* A call of the running task that neither takes nor gives the mutex: it    *)
(* does not forget that it lends, nor that it bids.                         *)
LEMMA QuietOne ==
  ASSUME MutexInv, OneInv, MutexInv', xMutex' \in [Tasks -> {NoMutex, Only}], NEW t \in Tasks,
         pxCurrentTCB = t, pxCurrentTCB' \in {t, NoTask},
         UNCHANGED <<mutexes, uxPriority, ready>>, \A m \in Mutexes : pxMutexHolder[m] # t,
         \A u \in Tasks \ {t} : at'[u] = at[u] /\ (u \in xInheritanceOccurred' <=> u \in xInheritanceOccurred),
         Lends(t) => Lends(t)',
         Only \in Mutexes /\ pxMutexHolder[Only] = NoTask /\ at[t] \in Asks \ {"disinherit"}
            => at'[t] \in Asks \ {"disinherit"}
  PROVE  OneInv'
<1>1. UNCHANGED <<pxMutexHolder, xTasksWaitingToReceive, uxPriority, ready>> /\ t \in Runnable
  BY MutexAssumption DEF mutexes, MutexInv
<1>2. BitsExact(ready') /\ \A m \in Mutexes \ {Only} : pxMutexHolder'[m] = NoTask
  BY <1>1, OneFacts DEF OneInv
<1>3. ASSUME Only \in Mutexes
      PROVE  Sorted(xTasksWaitingToReceive'[Only], uxPriority') /\ HeldExact(Only)' /\ FreeExact(Only)'
  <2>1. Sorted(xTasksWaitingToReceive[Only], uxPriority) /\ HeldExact(Only) /\ FreeExact(Only)
    BY <1>3 DEF OneInv
  <2>2. Waiters(Only)' = Waiters(Only) /\ Waiters(Only) \subseteq Tasks \ {t}
    BY <1>1, <1>3, OneFacts DEF Waiters
  <2>3. \A u \in Tasks : Lends(u) => Lends(u)'
    BY DEF Lends
  <2>4. HeldExact(Only)'
    <3>1. pxMutexHolder[Only] # NoTask => pxMutexHolder[Only] \in Tasks \ {t}
      BY <1>3, OneFacts
    <3>2. QED
      BY <1>1, <2>1, <2>2, <2>3, <3>1 DEF HeldExact
  <2>5. Bids(Only) /\ pxMutexHolder[Only] = NoTask => Bids(Only)'
    <3>1. \A u \in Tasks : Waiting(u)' <=> Waiting(u)
      BY <1>1 DEF Waiting
    <3>2. \A u \in Tasks : pxMutexHolder[Only] = NoTask /\ at[u] \in Asks \ {"disinherit"}
                              => at'[u] \in Asks \ {"disinherit"}
      BY <1>3
    <3>3. QED
      BY <1>1, <2>2, <3>1, <3>2 DEF Bids
  <2>6. FreeExact(Only)'
    BY <1>1, <2>1, <2>2, <2>5, MutexAssumption DEF FreeExact
  <2>7. QED
    BY <1>1, <2>1, <2>4, <2>6
<1>4. QED
  BY <1>2, <1>3, OneStep

LEMMA CallOne ==
  ASSUME MutexInv, OneInv, MutexInv', xMutex' \in [Tasks -> {NoMutex, Only}], NEW t \in Tasks,
         \/ \E m \in Mutexes, ticks \in {"limited", "forever"} : Call(t, m, ticks)
         \/ TakeFails(t) \/ BlockTimeIsOver(t) \/ GivenMeanwhile(t) \/ LookAgain(t)
  PROVE  OneInv'
<1>1. /\ pxCurrentTCB = t /\ UNCHANGED <<mutexes, uxPriority, ready>> /\ pxCurrentTCB' \in {t, NoTask}
  BY DEF Call, TakeFails, BlockTimeIsOver, GivenMeanwhile, LookAgain
<1>2. at \in [Tasks -> Places] /\ xMutex \in [Tasks -> Mutexes \cup {NoMutex}]
  BY DEF MutexInv
<1>3. CASE \E m \in Mutexes, ticks \in {"limited", "forever"} : Call(t, m, ticks)
  <2>1. PICK m \in Mutexes : /\ at[t] = "elsewhere" /\ pxMutexHolder[m] # t
                             /\ at' = [at EXCEPT ![t] = "try"] /\ xMutex' = [xMutex EXCEPT ![t] = m]
                             /\ UNCHANGED xInheritanceOccurred
    BY <1>3 DEF Call
  <2>2. m = Only
    <3>1. xMutex'[t] = m /\ xMutex'[t] \in {NoMutex, Only} /\ NoMutex \notin Mutexes
      BY <1>2, <2>1, MutexAssumption DEF NoMutex
    <3>2. QED
      BY <3>1
  <2>3. \A k \in Mutexes : pxMutexHolder[k] # t
    BY <2>1, <2>2, OneFacts, MutexAssumption
  <2>4. at'[t] = "try" /\ \A u \in Tasks \ {t} : at'[u] = at[u]
    BY <1>2, <2>1
  <2>5. Lends(t) => Lends(t)'
    BY <2>1 DEF Lends, Asks
  <2>6. QED
    BY <1>1, <2>1, <2>3, <2>4, <2>5, QuietOne DEF Asks
<1>4. CASE TakeFails(t) \/ BlockTimeIsOver(t) \/ GivenMeanwhile(t) \/ LookAgain(t)
  <2>1. at[t] \in {"try", "block", "lookAgain"}
    BY <1>4 DEF TakeFails, BlockTimeIsOver, GivenMeanwhile, LookAgain
  <2>2. xMutex[t] = Only /\ Only \in Mutexes
    BY <2>1, OneFacts DEF Asks
  <2>3. \A m \in Mutexes : pxMutexHolder[m] # t
    <3>1. t # NoTask /\ at[t] \notin {"elsewhere", "asleep"}
      BY <2>1, MutexAssumption
    <3>2. QED
      BY <3>1 DEF OneInv, HeldExact
  <2>4. \/ /\ pxMutexHolder[Only] # NoTask /\ t \notin xInheritanceOccurred /\ Return(t)
        \/ \E place \in Asks \cup {"assertion"} :
              /\ at' = [at EXCEPT ![t] = place] /\ UNCHANGED xInheritanceOccurred
              /\ place \in Asks \ {"disinherit"} \/ pxMutexHolder[Only] # NoTask
    BY <1>4, <2>2, ZenonT(40) DEF TakeFails, BlockTimeIsOver, GivenMeanwhile, LookAgain, GoOn, Asks
  <2>5. CASE pxMutexHolder[Only] # NoTask /\ t \notin xInheritanceOccurred /\ Return(t)
    <3>1. \A u \in Tasks \ {t} : at'[u] = at[u] /\ (u \in xInheritanceOccurred' <=> u \in xInheritanceOccurred)
      BY <1>2, <2>5 DEF Return
    <3>2. Lends(t) => Lends(t)'
      BY <2>5 DEF Lends
    <3>3. QED
      BY <1>1, <2>3, <2>5, <3>1, <3>2, QuietOne
  <2>6. CASE \E place \in Asks \cup {"assertion"} :
              /\ at' = [at EXCEPT ![t] = place] /\ UNCHANGED xInheritanceOccurred
              /\ place \in Asks \ {"disinherit"} \/ pxMutexHolder[Only] # NoTask
    <3>1. PICK place \in Asks \cup {"assertion"} :
              /\ at' = [at EXCEPT ![t] = place] /\ UNCHANGED xInheritanceOccurred
              /\ place \in Asks \ {"disinherit"} \/ pxMutexHolder[Only] # NoTask
      BY <2>6
    <3>2. at'[t] = place /\ \A u \in Tasks \ {t} : at'[u] = at[u]
      BY <1>2, <3>1
    <3>3. Lends(t) => Lends(t)'
      BY <3>1, <3>2 DEF Lends
    <3>4. QED
      BY <1>1, <2>3, <3>1, <3>2, <3>3, QuietOne
  <2>7. QED
    BY <2>4, <2>5, <2>6
<1>5. QED
  BY <1>3, <1>4

(* The one that takes the free mutex is as urgent as those that wait.       *)
LEMMA TakeOne ==
  ASSUME MutexInv, OneInv, MutexInv', xMutex' \in [Tasks -> {NoMutex, Only}], NEW t \in Tasks, Take(t)
  PROVE  OneInv'
<1>1. /\ xMutex[t] = Only /\ Only \in Mutexes /\ uxPriority[t] = uxBasePriority[t]
      /\ pxCurrentTCB = t /\ pxMutexHolder[Only] = NoTask
      /\ pxMutexHolder' = [pxMutexHolder EXCEPT ![Only] = t]
      /\ at' = [at EXCEPT ![t] = "elsewhere"]
      /\ UNCHANGED <<xTasksWaitingToReceive, uxPriority, ready>>
  BY OneFacts DEF Take, Return, Asks
<1>2. pxMutexHolder'[Only] = t /\ \A m \in Mutexes \ {Only} : pxMutexHolder'[m] = NoTask
  BY <1>1, OneFacts DEF MutexInv, HoldersExact
<1>3. at'[t] = "elsewhere" /\ Waiters(Only)' = Waiters(Only)
  BY <1>1 DEF MutexInv, Waiters
<1>4. \A u \in Waiters(Only) : uxPriority[u] <= uxPriority[t]
  BY <1>1 DEF OneInv, FreeExact
<1>5. \A u \in Waiters(Only) : ~ (uxPriority[u] > uxBasePriority[t])
  <2>1. \A u \in Waiters(Only) : uxPriority[u] \in Nat /\ uxPriority[t] \in Nat
    BY <1>1, OneFacts
  <2>2. QED
    BY <1>1, <1>4, <2>1
<1>6. HeldExact(Only)' /\ FreeExact(Only)'
  BY <1>1, <1>2, <1>3, <1>4, <1>5, MutexAssumption DEF HeldExact, FreeExact
<1>7. BitsExact(ready') /\ Sorted(xTasksWaitingToReceive'[Only], uxPriority')
  BY <1>1 DEF OneInv
<1>8. QED
  BY <1>2, <1>6, <1>7, OneStep

(* Time passes: tasks fall asleep and wake up, or no longer wait.           *)
LEMMA TimeOne ==
  ASSUME MutexInv, OneInv, MutexInv', UNCHANGED <<pxMutexHolder, uxPriority, xMutex, xInheritanceOccurred>>,
         pxCurrentTCB' = pxCurrentTCB \/ vTaskSwitchContext, BitsExact(ready'),
         \A m \in Mutexes : /\ Waiters(m)' \subseteq Waiters(m)
                            /\ Sorted(xTasksWaitingToReceive'[m], uxPriority),
         \A u \in Tasks : at'[u] = at[u] \/ {at[u], at'[u]} = {"elsewhere", "asleep"}
  PROVE  OneInv'
<1>1. xMutex' \in [Tasks -> {NoMutex, Only}] /\ \A m \in Mutexes \ {Only} : pxMutexHolder'[m] = NoTask
  BY OneFacts DEF OneInv
<1>2. \A u \in Tasks : at[u] \in Asks \cup {"assertion"} => at'[u] = at[u]
  BY DEF Asks
<1>3. ASSUME Only \in Mutexes PROVE HeldExact(Only)' /\ FreeExact(Only)'
  <2>1. HeldExact(Only) /\ FreeExact(Only) /\ Waiters(Only)' \subseteq Waiters(Only)
    BY <1>3 DEF OneInv
  <2>2. HeldExact(Only)'
    <3>1. \A u \in Tasks : Lends(u) => Lends(u)'
      BY <1>2 DEF Lends
    <3>2. ASSUME NEW h \in Tasks, at[h] \in {"elsewhere", "asleep"} PROVE at'[h] \in {"elsewhere", "asleep"}
      <4>1. at'[h] = at[h] \/ {at[h], at'[h]} = {"elsewhere", "asleep"}
        OBVIOUS
      <4>2. QED
        BY <3>2, <4>1
    <3>3. pxMutexHolder[Only] # NoTask => pxMutexHolder[Only] \in Tasks
      BY <1>3, OneFacts
    <3>4. QED
      BY <2>1, <3>1, <3>2, <3>3 DEF HeldExact
  <2>3. pxMutexHolder'[Only] = NoTask /\ Waiters(Only)' # {} => Bids(Only)'
    <3>1. \A u \in Tasks : Waiting(u)' => Waiting(u)
      BY DEF Waiting, Waiters
    <3>2. QED
      BY <1>2, <2>1, <3>1 DEF Bids, FreeExact
  <2>4. FreeExact(Only)'
    <3>1. CASE vTaskSwitchContext
      BY <1>3, <2>3, <3>1, FreeSwitched
    <3>2. CASE pxCurrentTCB' = pxCurrentTCB
      BY <2>1, <2>3, <3>2 DEF FreeExact
    <3>3. QED
      BY <3>1, <3>2
  <2>5. QED
    BY <2>2, <2>4
<1>4. QED
  BY <1>1, <1>3, OneStep

LEMMA ReadyBits ==
  ASSUME MutexInv, OneInv
  PROVE  ready \in ReadyLists /\ BitsExact(ready)
  BY DEF MutexInv, ListsOf, OneInv

LEMMA DelayOne ==
  ASSUME MutexInv, OneInv, MutexInv', NEW t \in Tasks, vTaskDelay(t)
  PROVE  OneInv'
<1>1. /\ at[t] = "elsewhere" /\ at' = [at EXCEPT ![t] = "asleep"]
      /\ ready' = Removed(ready, t, uxPriority[t], uxPriority[t]) /\ vTaskSwitchContext
      /\ UNCHANGED <<pxMutexHolder, xTasksWaitingToReceive, uxPriority, xMutex, xInheritanceOccurred>>
  BY DEF vTaskDelay, mutexes
<1>2. BitsExact(ready')
  BY <1>1, OneFacts, ReadyBits, BitsRemoved
<1>3. \A u \in Tasks : at'[u] = at[u] \/ {at[u], at'[u]} = {"elsewhere", "asleep"}
  BY <1>1 DEF MutexInv
<1>4. \A m \in Mutexes : Waiters(m)' \subseteq Waiters(m) /\ Sorted(xTasksWaitingToReceive'[m], uxPriority)
  BY <1>1 DEF Waiters, OneInv
<1>5. QED
  BY <1>1, <1>2, <1>3, <1>4, TimeOne

LEMMA UnblockBits ==
  ASSUME MutexInv, OneInv, NEW t \in Tasks, Unblock(t)
  PROVE  BitsExact(ready') /\ (pxCurrentTCB' = pxCurrentTCB \/ vTaskSwitchContext)
<1>1. ready' = Added(ready, t, uxPriority[t]) /\ (pxCurrentTCB' = pxCurrentTCB \/ vTaskSwitchContext)
  BY DEF Unblock, YieldIf
<1>2. QED
  BY <1>1, OneFacts, ReadyBits, BitsAdded

LEMMA WakeUpOne ==
  ASSUME MutexInv, OneInv, MutexInv', NEW t \in Tasks, WakeUp(t)
  PROVE  OneInv'
<1>1. /\ at[t] = "asleep" /\ at' = [at EXCEPT ![t] = "elsewhere"] /\ Unblock(t)
      /\ UNCHANGED <<pxMutexHolder, xTasksWaitingToReceive, uxPriority, xMutex, xInheritanceOccurred>>
  BY DEF WakeUp, mutexes
<1>2. \A u \in Tasks : at'[u] = at[u] \/ {at[u], at'[u]} = {"elsewhere", "asleep"}
  BY <1>1 DEF MutexInv
<1>3. \A m \in Mutexes : Waiters(m)' \subseteq Waiters(m) /\ Sorted(xTasksWaitingToReceive'[m], uxPriority)
  BY <1>1 DEF Waiters, OneInv
<1>4. QED
  BY <1>1, <1>2, <1>3, UnblockBits, TimeOne

LEMMA BlockTimeOverOne ==
  ASSUME MutexInv, OneInv, MutexInv', NEW t \in Tasks, BlockTimeOver(t)
  PROVE  OneInv'
<1> DEFINE m == xMutex[t]
           w == xTasksWaitingToReceive
<1>1. /\ at[t] \in {"try", "block"}
      /\ UNCHANGED <<pxMutexHolder, uxPriority, at, xMutex, xInheritanceOccurred>>
      /\ IF IsReady(t) THEN UNCHANGED <<ready, pxCurrentTCB, w>>
         ELSE w' = [w EXCEPT ![m] = Unlinked(@, t)] /\ Unblock(t)
  BY DEF BlockTimeOver
<1>2. \A k \in Mutexes : Sorted(w[k], uxPriority)
  BY DEF OneInv
<1>3. BitsExact(ready') /\ (pxCurrentTCB' = pxCurrentTCB \/ vTaskSwitchContext)
  BY <1>1, UnblockBits, ReadyBits
<1>4. \A k \in Mutexes : Waiters(k)' \subseteq Waiters(k) /\ Sorted(w'[k], uxPriority)
  <2>1. CASE IsReady(t)
    BY <1>1, <1>2, <2>1 DEF Waiters
  <2>2. CASE ~ IsReady(t)
    <3>1. Waiting(t)
      BY <1>1, <2>2, ReadyFacts DEF Runnable
    <3>2. m \in Mutexes /\ t \in Range(w[m])
      BY <3>1 DEF Waiting, MutexInv, WaitersExact
    <3>3. w[m] \in Seq(Tasks) /\ Distinct(w[m])
      BY <3>2 DEF MutexInv, WaitersExact
    <3>4. Range(Unlinked(w[m], t)) = Range(w[m]) \ {t} /\ Sorted(Unlinked(w[m], t), uxPriority)
      BY <1>2, <3>2, <3>3, UnlinkedFacts
    <3>5. w'[m] = Unlinked(w[m], t) /\ \A k \in Mutexes \ {m} : w'[k] = w[k]
      BY <1>1, <2>2, <3>2 DEF MutexInv
    <3>6. QED
      BY <1>2, <3>4, <3>5 DEF Waiters
  <2>3. QED
    BY <2>1, <2>2
<1>5. QED
  BY <1>1, <1>3, <1>4, TimeOne

LEMMA TimeSliceOne ==
  ASSUME MutexInv, OneInv, MutexInv', TimeSlice
  PROVE  OneInv'
<1>1. UNCHANGED <<mutexes, uxPriority, ready, calls>> /\ vTaskSwitchContext
  BY DEF TimeSlice
<1>2. /\ UNCHANGED <<pxMutexHolder, xTasksWaitingToReceive, uxPriority, ready, at, xMutex, xInheritanceOccurred>>
      /\ vTaskSwitchContext
  BY <1>1 DEF mutexes, calls
<1>3. \A m \in Mutexes : Waiters(m)' \subseteq Waiters(m) /\ Sorted(xTasksWaitingToReceive'[m], uxPriority)
  BY <1>2 DEF Waiters, OneInv
<1>4. QED
  BY <1>2, <1>3, ReadyBits, TimeOne

(* A task begins to wait for the mutex, which is held: the holder gets at   *)
(* least its priority.                                                      *)
LEMMA BlockOne ==
  ASSUME MutexInv, OneInv, MutexInv', NEW t \in Tasks, Block(t)
  PROVE  OneInv'
<1> DEFINE list == xTasksWaitingToReceive[Only]
<1>1. /\ xMutex[t] = Only /\ Only \in Mutexes /\ at[t] = "block" /\ pxCurrentTCB = t
      /\ pxMutexHolder[Only] # NoTask
  BY OneFacts DEF Block, Asks
<1>2. PICK h \in Tasks : h = pxMutexHolder[Only]
  BY <1>1, OneFacts
<1>3. HeldExact(Only) /\ at[h] \in {"elsewhere", "asleep"} /\ h # t
  BY <1>1, <1>2, MutexAssumption DEF OneInv, HeldExact
<1> DEFINE raised == uxPriority[h] < uxPriority[t]
           inherited == IF raised THEN xTaskPriorityInherit(h, uxPriority[t]) ELSE ready
<1>4. /\ uxPriority' = IF raised THEN [uxPriority EXCEPT ![h] = uxPriority[t]] ELSE uxPriority
      /\ xInheritanceOccurred' = IF raised \/ uxBasePriority[h] < uxPriority[t]
                                 THEN xInheritanceOccurred \cup {t} ELSE xInheritanceOccurred \ {t}
      /\ xTasksWaitingToReceive' = [xTasksWaitingToReceive EXCEPT ![Only] = Inserted(@, t)]
      /\ ready' = Removed(inherited, t, uxPriority[t], uxPriority[t])
      /\ at' = [at EXCEPT ![t] = "try"]
      /\ UNCHANGED <<pxMutexHolder, xMutex>>
  BY <1>1, <1>2 DEF Block
<1>5. at'[t] = "try" /\ \A u \in Tasks \ {t} : at'[u] = at[u]
  BY <1>4 DEF MutexInv
<1>6. /\ uxPriority \in [Tasks -> Priorities]
      /\ \A u \in Tasks : uxPriority[u] \in Nat /\ uxBasePriority[u] \in Nat /\ uxPriority[u] >= uxBasePriority[u]
  BY OneFacts DEF MutexInv, HoldersExact
<1>7. list \in Seq(Tasks) /\ Sorted(list, uxPriority) /\ t \notin Waiters(Only) /\ h \notin Waiters(Only)
      /\ Waiters(Only) \subseteq Tasks
  BY <1>1, <1>3, OneFacts DEF MutexInv, OneInv
<1>8. Waiters(Only)' = Waiters(Only) \cup {t} /\ Sorted(xTasksWaitingToReceive'[Only], uxPriority')
  <2>1. xTasksWaitingToReceive'[Only] = Inserted(list, t)
    BY <1>1, <1>4 DEF MutexInv
  <2>2. uxPriority \in [Tasks -> Nat]
    BY <1>6
  <2>3. /\ Inserted(list, t) \in Seq(Tasks) /\ Range(Inserted(list, t)) = Range(list) \cup {t}
        /\ Sorted(Inserted(list, t), uxPriority)
    BY <1>7, <2>2, InsertedFacts
  <2>4. \A u \in Range(list) \cup {t} : uxPriority'[u] = uxPriority[u]
    BY <1>3, <1>4, <1>6, <1>7 DEF Waiters
  <2>5. Sorted(Inserted(list, t), uxPriority')
    BY <2>3, <2>4, SortedKept
  <2>6. QED
    BY <2>1, <2>3, <2>5 DEF Waiters
<1>9. BitsExact(ready')
  <2>1. inherited \in ReadyLists /\ BitsExact(inherited)
    BY <1>6, ReadyBits, BitsMoved DEF xTaskPriorityInherit
  <2>2. QED
    BY <1>4, <1>6, <2>1, BitsRemoved
<1>10. HeldExact(Only)'
  <2>1. pxMutexHolder'[Only] = h /\ at'[h] \in {"elsewhere", "asleep"}
    BY <1>2, <1>3, <1>4, <1>5
  <2>2. \A u \in Waiters(Only) : /\ uxPriority[u] <= uxPriority[h]
                                 /\ uxPriority[u] > uxBasePriority[h] => u \in xInheritanceOccurred
    BY <1>1, <1>2, <1>3 DEF HeldExact
  <2>3. CASE raised
    <3>1. /\ uxPriority'[h] = uxPriority[t] /\ \A u \in Tasks \ {h} : uxPriority'[u] = uxPriority[u]
          /\ xInheritanceOccurred' = xInheritanceOccurred \cup {t}
      BY <1>4, <1>6, <2>3
    <3>2. ASSUME NEW u \in Waiters(Only) \cup {t}
          PROVE  uxPriority'[u] <= uxPriority'[h] /\ (uxPriority'[u] > uxBasePriority[h] => u \in xInheritanceOccurred')
      <4>1. CASE u = t
        BY <1>3, <1>6, <3>1, <4>1
      <4>2. CASE u # t
        <5>1. u \in Waiters(Only) /\ u \in Tasks /\ u # h
          BY <1>7, <4>2
        <5>2. uxPriority[u] <= uxPriority[t]
          BY <1>6, <2>2, <2>3, <5>1
        <5>3. QED
          BY <1>6, <2>2, <3>1, <5>1, <5>2
      <4>3. QED
        BY <4>1, <4>2
    <3>3. Lends(t)' /\ uxPriority'[t] = uxPriority'[h]
      BY <1>3, <1>5, <3>1 DEF Lends, Asks
    <3>4. QED
      BY <1>8, <2>1, <3>2, <3>3 DEF HeldExact
  <2>4. CASE ~ raised
    <3>1. /\ uxPriority' = uxPriority
          /\ \A u \in Tasks \ {t} : u \in xInheritanceOccurred' <=> u \in xInheritanceOccurred
          /\ uxBasePriority[h] < uxPriority[t] => t \in xInheritanceOccurred'
      BY <1>4, <2>4
    <3>2. ASSUME NEW u \in Waiters(Only) \cup {t}
          PROVE  uxPriority[u] <= uxPriority[h] /\ (uxPriority[u] > uxBasePriority[h] => u \in xInheritanceOccurred')
      <4>1. CASE u = t
        BY <1>6, <2>4, <3>1, <4>1
      <4>2. CASE u # t
        BY <1>7, <2>2, <3>1, <4>2
      <4>3. QED
        BY <4>1, <4>2
    <3>3. ASSUME uxPriority[h] # uxBasePriority[h]
          PROVE  \E p \in Tasks : Lends(p)' /\ uxPriority[p] = uxPriority[h]
      <4>1. PICK p \in Tasks : Lends(p) /\ uxPriority[p] = uxPriority[h]
        BY <1>1, <1>2, <1>3, <3>3 DEF HeldExact
      <4>2. CASE p = t
        <5>1. uxBasePriority[h] < uxPriority[t]
          BY <1>6, <3>3, <4>1, <4>2
        <5>2. QED
          BY <1>5, <3>1, <4>1, <4>2, <5>1 DEF Lends, Asks
      <4>3. CASE p # t
        BY <1>5, <3>1, <4>1, <4>3 DEF Lends
      <4>4. QED
        BY <4>2, <4>3
    <3>4. QED
      BY <1>8, <2>1, <3>1, <3>2, <3>3 DEF HeldExact
  <2>5. QED
    BY <2>3, <2>4
<1>11. FreeExact(Only)'
  BY <1>1, <1>4 DEF FreeExact
<1>12. xMutex' \in [Tasks -> {NoMutex, Only}] /\ \A m \in Mutexes \ {Only} : pxMutexHolder'[m] = NoTask
  BY <1>4, OneFacts DEF OneInv
<1>13. QED
  BY <1>8, <1>9, <1>10, <1>11, <1>12, OneStep

(* The priority after a timeout is the higher of the holder's own and that  *)
(* of the most urgent task that still waits.                                *)
LEMMA DisinheritPriorityFacts ==
  ASSUME MutexInv, OneInv, Only \in Mutexes, NEW h \in Tasks, h = pxMutexHolder[Only], NEW toUse,
         toUse = Max({uxBasePriority[h], DisinheritPriority(Only)})
  PROVE  /\ toUse \in Priorities /\ toUse >= uxBasePriority[h] /\ toUse <= uxPriority[h]
         /\ \A u \in Waiters(Only) : uxPriority[u] <= toUse
         /\ toUse # uxBasePriority[h] => \E u \in Waiters(Only) : uxPriority[u] = toUse
<1> DEFINE list == xTasksWaitingToReceive[Only]
<1>1. HeldExact(Only) /\ h # NoTask
  BY MutexAssumption DEF OneInv
<1>2. PICK own \in Priorities, old \in Priorities : own = uxBasePriority[h] /\ old = uxPriority[h] /\ old >= own
  BY OneFacts, PriorityFacts
<1>3. PICK lent \in Priorities :
         /\ lent = DisinheritPriority(Only) /\ lent <= old
         /\ \A u \in Waiters(Only) : uxPriority[u] <= lent
         /\ lent = tskIDLE_PRIORITY \/ \E u \in Waiters(Only) : uxPriority[u] = lent
  <2>1. CASE list = <<>>
    <3>1. Waiters(Only) = {}
      BY <2>1 DEF Waiters, Range
    <3>2. DisinheritPriority(Only) = tskIDLE_PRIORITY /\ tskIDLE_PRIORITY \in Priorities /\ tskIDLE_PRIORITY <= old
      BY <1>2, <2>1, PriorityFacts DEF DisinheritPriority, tskIDLE_PRIORITY
    <3>3. QED
      BY <3>1, <3>2
  <2>2. CASE list # <<>>
    <3>1. list \in Seq(Tasks) /\ Distinct(list) /\ Sorted(list, uxPriority)
      BY DEF MutexInv, WaitersExact, OneInv
    <3>2. Head(list) \in Waiters(Only) /\ \A u \in Waiters(Only) : uxPriority[Head(list)] >= uxPriority[u]
      BY <2>2, <3>1, TailFacts DEF Waiters
    <3>3. DisinheritPriority(Only) = uxPriority[Head(list)]
      BY <2>2 DEF DisinheritPriority
    <3>4. uxPriority[Head(list)] \in Priorities /\ \A u \in Waiters(Only) : uxPriority[u] \in Nat
      BY <3>2, OneFacts
    <3>5. uxPriority[Head(list)] <= old
      BY <1>1, <1>2, <3>2 DEF HeldExact
    <3>6. \A u \in Waiters(Only) : uxPriority[u] <= uxPriority[Head(list)]
      BY <3>2, <3>4, PriorityFacts
    <3>7. QED
      BY <3>2, <3>3, <3>4, <3>5, <3>6
  <2>3. QED
    BY <2>1, <2>2
<1>4. toUse \in {own, lent} /\ toUse >= own /\ toUse >= lent
  <2>1. {own, lent} \in SUBSET Nat /\ {own, lent} # {} /\ \A k \in {own, lent} : k <= configMAX_PRIORITIES
    BY PriorityFacts
  <2>2. Max({own, lent}) \in {own, lent} /\ \A k \in {own, lent} : Max({own, lent}) >= k
    BY <2>1, MutexAssumption, MaxFacts
  <2>3. QED
    BY <1>2, <1>3, <2>2
<1>5. own \in Nat /\ old \in Nat /\ lent \in Nat /\ toUse \in Nat /\ \A u \in Waiters(Only) : uxPriority[u] \in Nat
  BY <1>4, OneFacts, PriorityFacts
<1>6. toUse # own => toUse = lent /\ lent # tskIDLE_PRIORITY
  BY <1>4, <1>5 DEF tskIDLE_PRIORITY
<1>7. QED
  <2>1. toUse \in Priorities /\ toUse >= own /\ toUse <= old
    BY <1>2, <1>3, <1>4, <1>5
  <2>2. \A u \in Waiters(Only) : uxPriority[u] <= toUse
    BY <1>3, <1>4, <1>5
  <2>3. QED
    BY <1>2, <1>3, <1>6, <2>1, <2>2

(* The bit that vTaskPriorityDisinheritAfterTimeout should have reset is    *)
(* that of a list with another task: the one that lent the old priority.    *)
LEMMA LenderStays ==
  ASSUME MutexInv, OneInv, Only \in Mutexes, NEW h \in Tasks, h = pxMutexHolder[Only], NEW toUse \in Nat,
         uxPriority[h] # uxBasePriority[h], toUse < uxPriority[h],
         \A u \in Waiters(Only) : uxPriority[u] <= toUse
  PROVE  ready.lists[uxPriority[h]] \ {h} # {}
<1>1. HeldExact(Only) /\ h # NoTask
  BY MutexAssumption DEF OneInv
<1>2. PICK p \in Tasks : Lends(p) /\ uxPriority[p] = uxPriority[h] /\ at[h] \in {"elsewhere", "asleep"}
  BY <1>1 DEF HeldExact
<1>3. p # h /\ at[p] # "asleep"
  BY <1>2 DEF Lends, Asks
<1>4. p \notin Waiters(Only)
  <2>1. uxPriority[p] \in Nat
    BY OneFacts
  <2>2. QED
    BY <1>2, <2>1
<1>5. ~ Waiting(p)
  BY <1>4, OneFacts DEF Waiting, Waiters
<1>6. p \in Runnable /\ uxPriority[h] \in Priorities
  BY <1>3, <1>5, OneFacts DEF Runnable
<1>7. p \in ready.lists[uxPriority[h]]
  BY <1>2, <1>6 DEF MutexInv, ListsOf
<1>8. QED
  BY <1>3, <1>7

LEMMA DisinheritOne ==
  ASSUME MutexInv, OneInv, MutexInv', NEW t \in Tasks, Disinherit(t)
  PROVE  OneInv'
<1>1. /\ xMutex[t] = Only /\ Only \in Mutexes /\ at[t] = "disinherit" /\ pxCurrentTCB = t /\ Return(t)
      /\ UNCHANGED <<pxMutexHolder, xTasksWaitingToReceive, pxCurrentTCB>>
  BY OneFacts DEF Disinherit, mutexes, Asks
<1>2. /\ at'[t] = "elsewhere" /\ \A u \in Tasks \ {t} : at'[u] = at[u]
      /\ xMutex' \in [Tasks -> {NoMutex, Only}]
      /\ \A u \in Tasks \ {t} : u \in xInheritanceOccurred' <=> u \in xInheritanceOccurred
  BY <1>1 DEF MutexInv, OneInv, Return
<1>3. /\ Waiters(Only)' = Waiters(Only) /\ t \notin Waiters(Only)
      /\ Sorted(xTasksWaitingToReceive[Only], uxPriority) /\ xTasksWaitingToReceive[Only] \in Seq(Tasks)
      /\ \A m \in Mutexes \ {Only} : pxMutexHolder'[m] = NoTask
  BY <1>1, OneFacts DEF Waiters, OneInv, MutexInv
<1>4. CASE pxMutexHolder[Only] = NoTask
  <2>1. UNCHANGED <<uxPriority, ready>>
    BY <1>1, <1>4 DEF Disinherit
  <2>2. HeldExact(Only)' /\ BitsExact(ready') /\ FreeExact(Only)
    BY <1>1, <1>4, <2>1 DEF HeldExact, OneInv
  <2>3. Bids(Only) => Bids(Only)'
    <3>1. \A u \in Tasks : Waiting(u)' <=> Waiting(u)
      BY <1>1 DEF Waiting
    <3>2. QED
      BY <1>1, <1>2, <1>3, <2>1, <3>1 DEF Bids
  <2>4. FreeExact(Only)'
    BY <1>1, <1>3, <2>1, <2>2, <2>3 DEF FreeExact
  <2>5. QED
    BY <1>1, <1>2, <1>3, <2>1, <2>2, <2>4, OneStep
<1>5. CASE pxMutexHolder[Only] # NoTask
  <2>1. PICK h \in Tasks : h = pxMutexHolder[Only]
    BY <1>1, <1>5, OneFacts
  <2>2. HeldExact(Only) /\ at[h] \in {"elsewhere", "asleep"} /\ h # t /\ h \notin Waiters(Only)
    BY <1>1, <1>5, <2>1, OneFacts DEF OneInv, HeldExact
  <2>3. uxMutexesHeld[h] = 1
    <3>1. Held(h) = {Only}
      BY <1>1, <2>1, OneFacts, MutexAssumption DEF Held
    <3>2. QED
      BY <3>1, FS_Singleton DEF MutexInv, HoldersExact
  <2>4. PICK toUse : toUse = Max({uxBasePriority[h], DisinheritPriority(Only)})
    OBVIOUS
  <2>5. /\ toUse \in Priorities /\ toUse >= uxBasePriority[h] /\ toUse <= uxPriority[h]
        /\ \A u \in Waiters(Only) : uxPriority[u] <= toUse
        /\ toUse # uxBasePriority[h] => \E u \in Waiters(Only) : uxPriority[u] = toUse
    BY <1>1, <2>1, <2>4, DisinheritPriorityFacts
  <2>6. IF uxPriority[h] # toUse
        THEN /\ uxPriority' = [uxPriority EXCEPT ![h] = toUse]
             /\ ready' = IF IsReady(h) THEN Added(Removed(ready, h, uxPriority[h], toUse), h, toUse) ELSE ready
        ELSE UNCHANGED <<uxPriority, ready>>
    BY <1>1, <1>5, <2>1, <2>3, <2>4 DEF Disinherit
  <2>7. uxPriority \in [Tasks -> Priorities] /\ uxPriority[h] \in Nat /\ toUse \in Nat /\ uxBasePriority[h] \in Nat
    BY <2>5, OneFacts, PriorityFacts DEF MutexInv, HoldersExact
  <2>8. uxPriority'[h] = toUse /\ \A u \in Tasks \ {h} : uxPriority'[u] = uxPriority[u]
    BY <2>6, <2>7
  <2>9. \A u \in Waiters(Only) : u \in Tasks \ {h, t} /\ at[u] = "try" /\ uxPriority'[u] = uxPriority[u]
    BY <1>1, <1>3, <2>2, <2>8, OneFacts
  <2>10. BitsExact(ready')
    <3>1. CASE uxPriority[h] # toUse /\ IsReady(h)
      <4>1. toUse < uxPriority[h] /\ uxPriority[h] # uxBasePriority[h]
        BY <2>5, <2>7, <3>1
      <4>2. ready.lists[uxPriority[h]] \ {h} # {}
        BY <1>1, <2>1, <2>5, <2>7, <4>1, LenderStays
      <4>3. uxPriority[h] \in Priorities
        BY <2>7
      <4>4. QED
        BY <2>5, <2>6, <3>1, <4>2, <4>3, ReadyBits, BitsMoved
    <3>2. CASE ~ (uxPriority[h] # toUse /\ IsReady(h))
      BY <2>6, <3>2, ReadyBits
    <3>3. QED
      BY <3>1, <3>2
  <2>11. Sorted(xTasksWaitingToReceive'[Only], uxPriority')
    BY <1>1, <1>3, <2>9, SortedKept DEF Waiters
  <2>12. HeldExact(Only)'
    <3>1. pxMutexHolder'[Only] = h /\ at'[h] \in {"elsewhere", "asleep"}
      BY <1>1, <1>2, <2>1, <2>2
    <3>2. ASSUME NEW u \in Waiters(Only)
          PROVE  uxPriority'[u] <= uxPriority'[h] /\ (uxPriority'[u] > uxBasePriority[h] => u \in xInheritanceOccurred')
      BY <1>2, <1>5, <2>1, <2>2, <2>5, <2>8, <2>9 DEF HeldExact
    <3>3. ASSUME toUse # uxBasePriority[h] PROVE \E p \in Tasks : Lends(p)' /\ uxPriority'[p] = toUse
      <4>1. PICK u \in Waiters(Only) : uxPriority[u] = toUse
        BY <2>5, <3>3
      <4>2. uxPriority[u] > uxBasePriority[h]
        BY <2>5, <2>7, <3>3, <4>1
      <4>3. u \in xInheritanceOccurred'
        BY <2>9, <3>2, <4>2
      <4>4. QED
        BY <1>2, <2>9, <4>1, <4>3 DEF Lends, Asks
    <3>4. QED
      BY <1>3, <2>8, <3>1, <3>2, <3>3 DEF HeldExact
  <2>13. FreeExact(Only)'
    BY <1>1, <1>5 DEF FreeExact
  <2>14. QED
    BY <1>2, <1>3, <2>10, <2>11, <2>12, <2>13, OneStep
<1>6. QED
  BY <1>4, <1>5

(* The giver returns to its own priority; the first of the tasks that wait, *)
(* the most urgent of them, is to take the mutex.                           *)
LEMMA GiveOne ==
  ASSUME MutexInv, OneInv, MutexInv', NEW t \in Tasks, NEW m \in Mutexes, Give(t, m)
  PROVE  OneInv'
<1> DEFINE list == xTasksWaitingToReceive[Only]
           priority == IF Falls(t) THEN uxBasePriority[t] ELSE uxPriority[t]
           fallen == IF Falls(t) THEN Added(Removed(ready, t, uxPriority[t], uxPriority[t]), t, priority)
                     ELSE ready
<1>1. m = Only /\ Only \in Mutexes /\ pxMutexHolder[Only] = t /\ t # NoTask
  BY OneFacts, MutexAssumption DEF Give
<1>2. PICK woken : woken = Head(list)
  OBVIOUS
<1>3. /\ pxCurrentTCB = t /\ at[t] = "elsewhere" /\ pxMutexHolder' = [pxMutexHolder EXCEPT ![Only] = NoTask]
      /\ uxPriority' = [uxPriority EXCEPT ![t] = priority]
      /\ UNCHANGED <<at, xMutex, xInheritanceOccurred>>
      /\ IF list # <<>>
         THEN /\ ready' = Added(fallen, woken, uxPriority[woken])
              /\ xTasksWaitingToReceive' = [xTasksWaitingToReceive EXCEPT ![Only] = Tail(@)]
              /\ YieldIf(uxPriority[woken] > priority)
         ELSE /\ ready' = fallen
              /\ UNCHANGED xTasksWaitingToReceive
              /\ YieldIf(Falls(t))
  BY <1>1, <1>2 DEF Give, calls
<1>4. /\ uxPriority \in [Tasks -> Priorities] /\ uxBasePriority[t] \in Priorities
      /\ \A u \in Tasks : uxPriority[u] \in Nat
  BY OneFacts, PriorityFacts DEF MutexInv, HoldersExact
<1>5. priority \in Priorities /\ priority \in Nat /\ fallen \in ReadyLists /\ BitsExact(fallen)
  <2>1. priority \in Priorities /\ uxPriority[t] \in Priorities
    BY <1>4
  <2> HIDE DEF priority
  <2>2. QED
    BY <2>1, ReadyBits, BitsMoved, PriorityFacts
<1> HIDE DEF priority, fallen
<1>6. /\ uxPriority'[t] = priority /\ \A u \in Tasks \ {t} : uxPriority'[u] = uxPriority[u]
      /\ pxMutexHolder'[Only] = NoTask /\ \A k \in Mutexes \ {Only} : pxMutexHolder'[k] = NoTask
      /\ xMutex' \in [Tasks -> {NoMutex, Only}]
  <2>1. uxPriority'[t] = priority /\ \A u \in Tasks \ {t} : uxPriority'[u] = uxPriority[u]
    BY <1>3, <1>4
  <2>2. pxMutexHolder \in [Mutexes -> Tasks \cup {NoTask}] /\ \A k \in Mutexes \ {Only} : pxMutexHolder[k] = NoTask
    BY OneFacts DEF MutexInv, HoldersExact
  <2>3. pxMutexHolder'[Only] = NoTask /\ \A k \in Mutexes \ {Only} : pxMutexHolder'[k] = NoTask
    BY <1>1, <1>3, <2>2
  <2>4. xMutex' \in [Tasks -> {NoMutex, Only}]
    BY <1>3 DEF OneInv
  <2>5. QED
    BY <2>1, <2>3, <2>4
<1>7. HeldExact(Only)'
  BY <1>6 DEF HeldExact
<1>8. /\ list \in Seq(Tasks) /\ Distinct(list) /\ Sorted(list, uxPriority)
      /\ \A u \in Range(list) : u \in Tasks \ {t} /\ at[u] = "try"
  BY <1>1, <1>3, OneFacts DEF MutexInv, WaitersExact, OneInv, Waiters
<1>9. CASE list = <<>>
  <2>1. Waiters(Only)' = {} /\ Sorted(xTasksWaitingToReceive'[Only], uxPriority') /\ BitsExact(ready')
    BY <1>3, <1>5, <1>9 DEF Waiters, Range, Sorted
  <2>2. FreeExact(Only)'
    BY <2>1 DEF FreeExact
  <2>3. QED
    BY <1>6, <1>7, <2>1, <2>2, OneStep
<1>10. CASE list # <<>>
  <2>1. /\ Tail(list) \in Seq(Tasks) /\ woken \in Range(list) /\ Range(Tail(list)) = Range(list) \ {woken}
        /\ Sorted(Tail(list), uxPriority) /\ \A u \in Range(list) : uxPriority[woken] >= uxPriority[u]
    BY <1>2, <1>8, <1>10, TailFacts
  <2>2. xTasksWaitingToReceive'[Only] = Tail(list) /\ Waiters(Only)' = Range(list) \ {woken}
    BY <1>1, <1>3, <1>10, <2>1 DEF MutexInv, Waiters
  <2>3. Sorted(xTasksWaitingToReceive'[Only], uxPriority')
    <3>1. \A u \in Range(Tail(list)) : uxPriority'[u] = uxPriority[u]
      BY <1>6, <1>8, <2>1
    <3>2. Sorted(Tail(list), uxPriority')
      BY <2>1, <3>1, SortedKept
    <3>3. QED
      BY <2>2, <3>2
  <2>4. BitsExact(ready')
    <3>1. woken \in Tasks /\ uxPriority[woken] \in Priorities
      BY <1>4, <1>8, <2>1
    <3>2. QED
      BY <1>3, <1>5, <1>10, <3>1, BitsAdded
  <2>5. woken \in Tasks \ {t} /\ at'[woken] = "try" /\ uxPriority'[woken] = uxPriority[woken]
    BY <1>3, <1>6, <1>8, <2>1
  <2>6. \A u \in Waiters(Only)' : u \in Tasks /\ uxPriority'[u] = uxPriority[u] /\ uxPriority[u] <= uxPriority[woken]
    BY <1>4, <1>6, <1>8, <2>1, <2>2, <2>5
  <2>7. Bids(Only)'
    <3>1. ~ Waiting(woken)'
      <4>1. \A k \in Mutexes : \A u \in Waiters(k)' : xMutex'[u] = k
        BY DEF MutexInv, WaitersExact, Waiters
      <4>2. xMutex'[woken] = Only
        BY <1>3, <2>5, OneFacts DEF Asks
      <4>3. QED
        BY <2>2, <4>1, <4>2 DEF Waiting, Waiters
    <3>2. QED
      BY <2>5, <2>6, <3>1 DEF Bids, Asks
  <2>8. FreeExact(Only)'
    <3>1. CASE vTaskSwitchContext
      BY <1>1, <2>4, <2>7, <3>1, FreeSwitched
    <3>2. CASE ~ vTaskSwitchContext
      <4>1. pxCurrentTCB' = t /\ ~ (uxPriority[woken] > priority)
        BY <1>3, <1>10, <3>2 DEF YieldIf
      <4>2. \A u \in Waiters(Only)' : uxPriority[u] <= priority
        BY <1>4, <1>5, <2>5, <2>6, <4>1
      <4>3. QED
        BY <1>6, <2>6, <2>7, <4>1, <4>2 DEF FreeExact
    <3>3. QED
      BY <3>1, <3>2
  <2>9. QED
    BY <1>6, <1>7, <2>3, <2>4, <2>8, OneStep
<1>11. QED
  BY <1>9, <1>10

LEMMA OneInit == MutexInit => OneInv
<1> SUFFICES ASSUME MutexInit PROVE OneInv
  OBVIOUS
<1>1. \A m \in Mutexes : /\ Waiters(m) = {} /\ Sorted(xTasksWaitingToReceive[m], uxPriority)
                         /\ pxMutexHolder[m] = NoTask
  BY DEF MutexInit, Waiters, Range, Sorted
<1>2. \A m \in Mutexes : HeldExact(m) /\ FreeExact(m)
  BY <1>1 DEF HeldExact, FreeExact
<1>3. BitsExact(ready)
  <2>1. ready.top = Priorities
    BY DEF MutexInit
  <2>2. ASSUME NEW p \in Priorities PROVE ready.lists[p] # {}
    <3>1. ready.lists[p] = {t \in Tasks : uxBasePriority[t] = p} \cup IF p = tskIDLE_PRIORITY THEN {Idle} ELSE {}
      BY DEF MutexInit
    <3>2. p = tskIDLE_PRIORITY \/ \E t \in Tasks : uxBasePriority[t] = p
      BY MutexAssumption DEF Priorities, Range
    <3>3. QED
      BY <3>1, <3>2
  <2>3. QED
    BY <2>1, <2>2 DEF BitsExact
<1>4. xMutex \in [Tasks -> {NoMutex, Only}]
  BY DEF MutexInit
<1>5. QED
  BY <1>1, <1>2, <1>3, <1>4 DEF OneInv

LEMMA OneNext ==
  ASSUME MutexInv, OneInv, MutexInv', (MutexNext /\ OneMutex) \/ UNCHANGED mutexVars
  PROVE  OneInv'
<1>1. CASE UNCHANGED mutexVars
  BY <1>1 DEF OneInv, BitsExact, Sorted, HeldExact, FreeExact, Waiters, Lends, Bids, Waiting, mutexVars,
              mutexes, calls
<1>2. CASE MutexNext /\ OneMutex
  <2>1. xMutex' \in [Tasks -> {NoMutex, Only}]
    BY <1>2 DEF OneMutex, Only
  <2>2. QED
    BY <1>2, <2>1, CallOne, TakeOne, BlockOne, DisinheritOne, GiveOne, DelayOne, WakeUpOne, BlockTimeOverOne,
       TimeSliceOne DEF MutexNext
<1>3. QED
  BY <1>1, <1>2

(* With one mutex priority inheritance is exact: nobody waits for a holder  *)
(* of a lower priority, whatever timeouts have taken back, and the bits of  *)
(* uxTopReadyPriority are those of the lists that have a task.              *)
THEOREM MutexOneMutexExact == ServicesSpec => []OneMutexExact
<1> DEFINE One == service = "one mutex" => OneInv
<1>1. ServicesInit => One
  BY OneInit DEF ServicesInit
<1>2. MutexInv /\ MutexInv' /\ One /\ [ServicesNext]_serviceVars => One'
  BY OneNext DEF ServicesNext, serviceVars
<1>3. MutexInv /\ One => OneMutexExact
  <2> SUFFICES ASSUME MutexInv, OneInv PROVE InheritanceExact
    BY DEF OneMutexExact
  <2>1. ASSUME NEW m \in Mutexes, NEW t \in Waiters(m), pxMutexHolder[m] # NoTask
        PROVE  uxPriority[pxMutexHolder[m]] >= uxPriority[t]
    <3>1. uxPriority[t] <= uxPriority[pxMutexHolder[m]]
      BY <2>1 DEF OneInv, HeldExact
    <3>2. uxPriority[t] \in Nat /\ uxPriority[pxMutexHolder[m]] \in Nat
      BY <2>1, OneFacts
    <3>3. QED
      BY <3>1, <3>2
  <2>2. QED
    BY <2>1 DEF InheritanceExact, OneInv, BitsExact, Waiters
<1>4. QED
  BY <1>1, <1>2, <1>3, MutexInvariant, PTL DEF ServicesSpec

-----------------------------------------------------------------------------
(* The heap.  Alignment.                                                    *)

(* Numbers that the alignment divides. *)
Aligned(n) == n % portBYTE_ALIGNMENT = 0

LEMMA HeapNumbers ==
  /\ portBYTE_ALIGNMENT \in Nat /\ portBYTE_ALIGNMENT > 1
  /\ xHeapStructSize \in Nat /\ xHeapStructSize > 0 /\ Aligned(xHeapStructSize)
  /\ portBYTE_ALIGNMENT <= xHeapStructSize
  /\ ucHeap \in Nat /\ ucHeap > 1 /\ configTOTAL_HEAP_SIZE \in Nat
  /\ configTOTAL_HEAP_SIZE >= 4 * xHeapStructSize
  /\ SizeMod \in Nat /\ configTOTAL_HEAP_SIZE < SizeMod \div 2
<1>1. /\ portBYTE_ALIGNMENT \in Nat /\ portBYTE_ALIGNMENT > 1
      /\ xHeapStructSize \in Nat /\ xHeapStructSize > 0 /\ Aligned(xHeapStructSize)
      /\ ucHeap \in Nat /\ ucHeap > 1 /\ SizeMod \in Nat
  BY HeapAssumption DEF Aligned, xStart
<1>2. SizeMod \div 2 \in Nat
  BY <1>1
<1>3. /\ configTOTAL_HEAP_SIZE \in Nat /\ configTOTAL_HEAP_SIZE >= 4 * xHeapStructSize
      /\ configTOTAL_HEAP_SIZE < SizeMod \div 2
  BY <1>1, <1>2, HeapAssumption DEF xBlockAllocatedBit
<1>4. portBYTE_ALIGNMENT <= xHeapStructSize
  BY <1>1 DEF Aligned
<1>5. QED
  BY <1>1, <1>3, <1>4

LEMMA AlignedFacts ==
  ASSUME NEW n \in Nat
  PROVE  Aligned(n) <=> \E k \in Nat : n = k * portBYTE_ALIGNMENT
<1>1. portBYTE_ALIGNMENT \in Nat \ {0}
  BY HeapNumbers
<1>2. ASSUME Aligned(n) PROVE \E k \in Nat : n = k * portBYTE_ALIGNMENT
  <2>1. PICK k \in Nat : k = n \div portBYTE_ALIGNMENT
    BY <1>1
  <2>2. n = portBYTE_ALIGNMENT * k + (n % portBYTE_ALIGNMENT)
    BY <1>1, <2>1
  <2>3. n = portBYTE_ALIGNMENT * k + 0
    BY <1>2, <2>2 DEF Aligned
  <2>4. portBYTE_ALIGNMENT * k = k * portBYTE_ALIGNMENT /\ k * portBYTE_ALIGNMENT \in Nat
    BY <1>1
  <2>5. QED
    BY <2>3, <2>4
<1>3. ASSUME NEW k \in Nat PROVE Aligned(k * portBYTE_ALIGNMENT)
  BY <1>1 DEF Aligned
<1>4. QED
  BY <1>2, <1>3

LEMMA AlignedSum ==
  ASSUME NEW m \in Nat, NEW n \in Nat, Aligned(m), Aligned(n)
  PROVE  Aligned(m + n)
<1>1. PICK k \in Nat, l \in Nat : m = k * portBYTE_ALIGNMENT /\ n = l * portBYTE_ALIGNMENT
  BY AlignedFacts
<1>2. m + n = (k + l) * portBYTE_ALIGNMENT /\ k + l \in Nat
  BY <1>1, HeapNumbers
<1>3. QED
  BY <1>2, AlignedFacts

LEMMA AlignedDifference ==
  ASSUME NEW m \in Nat, NEW n \in Nat, Aligned(m), Aligned(n), n <= m
  PROVE  m - n \in Nat /\ Aligned(m - n)
<1>1. PICK k \in Nat, l \in Nat : m = k * portBYTE_ALIGNMENT /\ n = l * portBYTE_ALIGNMENT
  BY AlignedFacts
<1>2. m - n = (k - l) * portBYTE_ALIGNMENT /\ m - n \in Nat
  BY <1>1, HeapNumbers
<1>3. l <= k
  <2>1. CASE k < l
    <3>1. k * portBYTE_ALIGNMENT + portBYTE_ALIGNMENT <= l * portBYTE_ALIGNMENT
      <4>1. k + 1 <= l /\ portBYTE_ALIGNMENT \in Nat
        BY <2>1, HeapNumbers
      <4>2. (k + 1) * portBYTE_ALIGNMENT <= l * portBYTE_ALIGNMENT
        BY <4>1
      <4>3. QED
        BY <4>1, <4>2
    <3>2. QED
      BY <1>1, <3>1, HeapNumbers
  <2>2. QED
    BY <2>1
<1>4. k - l \in Nat
  BY <1>3
<1>5. QED
  BY <1>2, <1>4, AlignedFacts

LEMMA AlignedDownFacts ==
  ASSUME NEW n \in Nat
  PROVE  /\ AlignedDown(n) \in Nat /\ Aligned(AlignedDown(n))
         /\ AlignedDown(n) <= n /\ n < AlignedDown(n) + portBYTE_ALIGNMENT
<1>1. portBYTE_ALIGNMENT \in Nat \ {0}
  BY HeapNumbers
<1>2. PICK k \in Nat : k = n \div portBYTE_ALIGNMENT
  BY <1>1
<1>3. /\ n = portBYTE_ALIGNMENT * k + (n % portBYTE_ALIGNMENT)
      /\ n % portBYTE_ALIGNMENT \in 0 .. portBYTE_ALIGNMENT - 1
  BY <1>1, <1>2
<1>4. k * portBYTE_ALIGNMENT \in Nat /\ k * portBYTE_ALIGNMENT = portBYTE_ALIGNMENT * k
  BY <1>1
<1>5. Aligned(k * portBYTE_ALIGNMENT)
  BY <1>4, AlignedFacts
<1>6. AlignedDown(n) = k * portBYTE_ALIGNMENT
  BY <1>2 DEF AlignedDown
<1>7. QED
  BY <1>1, <1>3, <1>4, <1>5, <1>6

LEMMA AlignedUpFacts ==
  ASSUME NEW n \in Nat
  PROVE  /\ AlignedUp(n) \in Nat /\ Aligned(AlignedUp(n))
         /\ AlignedUp(n) >= n /\ AlignedUp(n) < n + portBYTE_ALIGNMENT
<1>1. portBYTE_ALIGNMENT \in Nat \ {0} /\ n + portBYTE_ALIGNMENT - 1 \in Nat
  BY HeapNumbers
<1>2. AlignedUp(n) = AlignedDown(n + portBYTE_ALIGNMENT - 1)
  BY DEF AlignedUp, AlignedDown
<1>3. QED
  BY <1>1, <1>2, AlignedDownFacts

(* The least element of a set of naturals. *)
LEMMA MinFacts ==
  ASSUME NEW S \in SUBSET Nat, S # {}
  PROVE  Min(S) \in S /\ \A y \in S : Min(S) <= y
<1> DEFINE R == {ss \in Nat \X Nat : ss[1] < ss[2]}
<1>1. IsWellFoundedOn(R, Nat)
  BY NatLessThanWellFounded DEF OpToRel
<1> HIDE DEF R
<1>2. PICK z \in S : \A y \in S : ~ (<<y, z>> \in R)
  BY <1>1, WFMin
<1>3. \A y \in S : z <= y
  <2>1. ASSUME NEW y \in S PROVE z <= y
    <3>1. y \in Nat /\ z \in Nat
      OBVIOUS
    <3>2. <<y, z>> \in Nat \X Nat /\ ~ (<<y, z>> \in R)
      BY <1>2, <3>1
    <3>3. ~ (y < z)
      BY <3>2 DEF R
    <3>4. QED
      BY <3>1, <3>3
  <2>2. QED
    BY <2>1
<1>4. QED
  BY <1>3 DEF Min

-----------------------------------------------------------------------------
(* The list.  n is the first of S behind a.                                 *)
Follows(n, a, S) == n \in S /\ n > a /\ \A c \in S : c > a => n <= c

Chain(b, F) ==
    /\ F \subseteq Nat /\ EndOfHeap \in Nat /\ \A p \in F : xStart < p /\ p < EndOfHeap
    /\ xStart < EndOfHeap
    /\ Linked(b) = F \cup {xStart} /\ b[EndOfHeap].next = NULL
    /\ \A p \in F \cup {xStart} : Follows(b[p].next, p, F \cup {EndOfHeap})

IsWalk(g, b, C) == g = [p \in Linked(b) |-> IF p \in C THEN g[b[p].next] ELSE p]

(* A walk along the list ends at the first block that is not in C.          *)
LEMMA WalkExists ==
  ASSUME NEW b, NEW F, Chain(b, F), NEW C \in SUBSET Linked(b), \A p \in C : b[p].next # EndOfHeap
  PROVE  \E g : IsWalk(g, b, C)
<1> DEFINE D == F \cup {xStart}
           Ends(p) == {q \in D \ C : q >= p}
           g == [p \in D |-> Min(Ends(p))]
<1>1. D \in SUBSET Nat /\ D = Linked(b) /\ EndOfHeap \in Nat /\ \A p \in D : p <= EndOfHeap
  BY DEF Chain, xStart
<1>2. \A p \in D : b[p].next \in D \cup {EndOfHeap} /\ b[p].next > p /\ \A c \in D : c > p => b[p].next <= c
  <2>1. \A c \in D, p \in D : c > p => c \in F
    BY DEF Chain, xStart
  <2>2. QED
    BY <2>1 DEF Chain, Follows
<1>3. PICK last \in D : \A p \in D : last >= p
  <2>1. Max(D) \in D /\ \A p \in D : Max(D) >= p
    BY <1>1, MaxFacts
  <2>2. QED
    BY <2>1
<1>4. last \in D \ C
  <2>1. b[last].next \notin D
    BY <1>1, <1>2, <1>3
  <2>2. QED
    BY <1>2, <2>1
<1>5. ASSUME NEW p \in D PROVE Ends(p) \in SUBSET Nat /\ Ends(p) # {}
  BY <1>1, <1>3, <1>4
<1>6. ASSUME NEW p \in D \ C PROVE g[p] = p
  <2>1. p \in Ends(p) /\ \A q \in Ends(p) : q >= p
    BY <1>1
  <2>2. Min(Ends(p)) \in Ends(p) /\ Min(Ends(p)) <= p
    BY <1>5, <2>1, MinFacts
  <2>3. Min(Ends(p)) \in Nat /\ p \in Nat /\ Min(Ends(p)) >= p
    BY <1>1, <2>1, <2>2
  <2>4. QED
    BY <2>2, <2>3
<1>7. ASSUME NEW p \in C PROVE b[p].next \in D /\ Ends(p) = Ends(b[p].next)
  <2>1. b[p].next \in D /\ p \in D
    BY <1>1, <1>2
  <2>2. ASSUME NEW q \in D \ C PROVE q >= p <=> q >= b[p].next
    <3>1. q # p /\ q \in Nat /\ p \in Nat /\ b[p].next \in Nat /\ b[p].next > p
      BY <1>1, <1>2, <2>1
    <3>2. q > p => b[p].next <= q
      BY <1>2, <2>1
    <3>3. QED
      BY <3>1, <3>2
  <2>3. QED
    BY <2>1, <2>2
<1>8. ASSUME NEW p \in D PROVE g[p] = IF p \in C THEN g[b[p].next] ELSE p
  <2>1. CASE p \in C
    <3>1. g[p] = Min(Ends(p)) /\ g[b[p].next] = Min(Ends(b[p].next))
      BY <1>7, <2>1
    <3>2. QED
      BY <1>7, <2>1, <3>1
  <2>2. CASE p \notin C
    BY <1>6, <2>2
  <2>3. QED
    BY <2>1, <2>2
<1>9. g = [p \in D |-> g[p]]
  OBVIOUS
<1> HIDE DEF g
<1>10. g = [p \in D |-> IF p \in C THEN g[b[p].next] ELSE p]
  BY <1>8, <1>9
<1>11. QED
  BY <1>1, <1>10 DEF IsWalk

LEMMA WalkFacts ==
  ASSUME NEW b, NEW F, Chain(b, F), NEW C \in SUBSET Linked(b), \A p \in C : b[p].next # EndOfHeap,
         NEW g, IsWalk(g, b, C), NEW S \in SUBSET Linked(b), \A q \in S \cap C : b[q].next \in S
  PROVE  \A p \in S : g[p] \in S \ C
<1>1. Linked(b) \in SUBSET Nat /\ EndOfHeap \in Nat /\ \A p \in Linked(b) : p <= EndOfHeap
  <2>1. /\ Linked(b) = F \cup {xStart} /\ F \subseteq Nat /\ EndOfHeap \in Nat
        /\ \A p \in F : xStart < p /\ p < EndOfHeap
        /\ xStart < EndOfHeap /\ xStart \in Nat
    BY DEF Chain, xStart
  <2>2. ASSUME NEW p \in Linked(b) PROVE p \in Nat /\ p <= EndOfHeap
    <3>1. p \in Nat /\ p < EndOfHeap
      BY <2>1
    <3>2. QED
      BY <2>1, <3>1
  <2>3. QED
    BY <2>1, <2>2
<1> DEFINE Bad == {p \in S : g[p] \notin S \ C}
<1>2. ASSUME Bad # {} PROVE FALSE
  <2>1. Bad \in SUBSET Nat /\ \A p \in Bad : p <= EndOfHeap
    BY <1>1
  <2>2. PICK p \in Bad : \A q \in Bad : p >= q
    <3>1. Max(Bad) \in Bad /\ \A q \in Bad : Max(Bad) >= q
      BY <1>1, <1>2, <2>1, MaxFacts
    <3>2. QED
      BY <3>1
  <2>3. g[p] = IF p \in C THEN g[b[p].next] ELSE p
    BY DEF IsWalk
  <2>4. p \in C
    BY <2>3
  <2>5. b[p].next \in S /\ b[p].next > p
    BY <2>4 DEF Chain, Follows
  <2>6. b[p].next \in Bad
    BY <2>3, <2>4, <2>5
  <2>7. QED
    BY <1>1, <2>1, <2>2, <2>5, <2>6
<1>3. QED
  BY <1>2

LEMMA IteratorFacts ==
  ASSUME NEW b, NEW F, Chain(b, F), NEW a \in Nat, xStart < a, a < EndOfHeap, a \notin F
  PROVE  /\ Iterator(b, a) \in F \cup {xStart} /\ Iterator(b, a) < a
         /\ b[Iterator(b, a)].next > a
<1> DEFINE C == {p \in Linked(b) : b[p].next < a}
           S == {p \in Linked(b) : p < a}
           From == CHOOSE From : From = [p \in Linked(b) |-> IF b[p].next < a THEN From[b[p].next] ELSE p]
<1>1. \A g : IsWalk(g, b, C) <=> g = [p \in Linked(b) |-> IF b[p].next < a THEN g[b[p].next] ELSE p]
  <2>1. ASSUME NEW g
        PROVE  [p \in Linked(b) |-> IF p \in C THEN g[b[p].next] ELSE p]
               = [p \in Linked(b) |-> IF b[p].next < a THEN g[b[p].next] ELSE p]
    OBVIOUS
  <2>2. QED
    BY <2>1 DEF IsWalk
<1>2. /\ Linked(b) = F \cup {xStart} /\ F \subseteq Nat /\ EndOfHeap \in Nat /\ xStart \in Nat
      /\ \A p \in Linked(b) : b[p].next \in F \cup {EndOfHeap}
  BY DEF Chain, Follows, xStart
<1>3. /\ C \in SUBSET Linked(b) /\ \A p \in C : b[p].next # EndOfHeap
      /\ S \in SUBSET Linked(b) /\ \A q \in S \cap C : b[q].next \in S
  BY <1>2
<1>4. IsWalk(From, b, C)
  BY <1>1, <1>3, WalkExists
<1>5. Iterator(b, a) = From[xStart]
  BY DEF Iterator
<1>6. xStart \in S
  BY <1>2
<1> HIDE DEF From, C, S
<1>7. From[xStart] \in S \ C
  BY <1>3, <1>4, <1>6, WalkFacts
<1>8. /\ Iterator(b, a) \in Linked(b) /\ Iterator(b, a) < a
      /\ ~ (b[Iterator(b, a)].next < a)
  BY <1>5, <1>7 DEF S, C
<1>9. b[Iterator(b, a)].next \in Nat /\ b[Iterator(b, a)].next # a
  BY <1>2, <1>8
<1>10. QED
  BY <1>2, <1>8, <1>9

LEMMA FirstFitFacts ==
  ASSUME NEW b, NEW F, Chain(b, F), NEW size
  PROVE  /\ FirstFit(b, size) \in F \cup {xStart}
         /\ LET n == b[FirstFit(b, size)].next
            IN  n \in F \cup {EndOfHeap} /\ (b[n].next # NULL => ~ (b[n].size < size))
<1> DEFINE Passed(p) == b[b[p].next].size < size /\ b[b[p].next].next # NULL
           C == {p \in Linked(b) : Passed(p)}
           From == CHOOSE From : From = [p \in Linked(b) |-> IF Passed(p) THEN From[b[p].next] ELSE p]
<1>1. \A g : IsWalk(g, b, C) <=> g = [p \in Linked(b) |-> IF Passed(p) THEN g[b[p].next] ELSE p]
  <2>1. ASSUME NEW g
        PROVE  [p \in Linked(b) |-> IF p \in C THEN g[b[p].next] ELSE p]
               = [p \in Linked(b) |-> IF Passed(p) THEN g[b[p].next] ELSE p]
    OBVIOUS
  <2>2. QED
    BY <2>1 DEF IsWalk
<1>2. /\ Linked(b) = F \cup {xStart} /\ b[EndOfHeap].next = NULL
      /\ \A p \in Linked(b) : b[p].next \in F \cup {EndOfHeap}
  BY DEF Chain, Follows
<1>3. C \in SUBSET Linked(b) /\ \A p \in C : b[p].next # EndOfHeap /\ b[p].next \in Linked(b)
  BY <1>2
<1>4. IsWalk(From, b, C)
  BY <1>1, <1>3, WalkExists
<1>5. FirstFit(b, size) = From[xStart]
  BY DEF FirstFit
<1>6. xStart \in Linked(b)
  BY <1>2
<1> HIDE DEF From, C
<1>7. From[xStart] \in Linked(b) \ C
  BY <1>3, <1>4, <1>6, WalkFacts
<1>8. QED
  BY <1>2, <1>5, <1>7 DEF C

-----------------------------------------------------------------------------
(* The blocks, and a list of some of them.                                  *)
Headers == [next : Nat, size : Nat, allocated : BOOLEAN]

BlocksOf(b) == DOMAIN b \ {xStart, EndOfHeap}

(* The blocks lie side by side from the first aligned address to the end.   *)
Laid(b) ==
    /\ {xStart, StartOfHeap, EndOfHeap} \subseteq DOMAIN b
    /\ DOMAIN b \subseteq Nat
    /\ \A a \in DOMAIN b : b[a] \in Headers
    /\ b[xStart].size = 0 /\ b[EndOfHeap].next = NULL /\ b[EndOfHeap].size = 0
    /\ \A a \in BlocksOf(b) :
          /\ StartOfHeap <= a /\ a < EndOfHeap /\ Aligned(a)
          /\ b[a].size > xHeapStructSize /\ Aligned(b[a].size)
          /\ Follows(a + b[a].size, a, BlocksOf(b) \cup {EndOfHeap})

(* The blocks F are linked in the order of their addresses, and no others.  *)
ListOf(b, F) ==
    /\ F \subseteq BlocksOf(b)
    /\ \A a \in F : ~ b[a].allocated
    /\ \A a \in BlocksOf(b) \ F : b[a].next = NULL
    /\ \A p \in F \cup {xStart} : Follows(b[p].next, p, F \cup {EndOfHeap})

(* The blocks of F with a block of F right behind them.                     *)
Touching(b, F) == {q \in F : q + b[q].size \in F}

LEMMA HeapBounds ==
  /\ xStart \in Nat /\ StartOfHeap \in Nat /\ EndOfHeap \in Nat
  /\ xStart < StartOfHeap /\ StartOfHeap + xHeapStructSize < EndOfHeap
  /\ Aligned(StartOfHeap) /\ Aligned(EndOfHeap)
  /\ EndOfHeap + xHeapStructSize <= ucHeap + configTOTAL_HEAP_SIZE
  /\ EndOfHeap - StartOfHeap <= configTOTAL_HEAP_SIZE
<1> DEFINE top == ucHeap + configTOTAL_HEAP_SIZE - xHeapStructSize
<1>1. top \in Nat /\ top = ucHeap + configTOTAL_HEAP_SIZE - xHeapStructSize
  BY HeapNumbers
<1>2. EndOfHeap = AlignedDown(top) /\ StartOfHeap = AlignedUp(ucHeap)
  BY DEF EndOfHeap, StartOfHeap
<1> HIDE DEF top
<1>3. /\ EndOfHeap \in Nat /\ Aligned(EndOfHeap)
      /\ EndOfHeap <= top /\ top < EndOfHeap + portBYTE_ALIGNMENT
  BY <1>1, <1>2, AlignedDownFacts
<1>4. /\ StartOfHeap \in Nat /\ Aligned(StartOfHeap)
      /\ StartOfHeap >= ucHeap /\ StartOfHeap < ucHeap + portBYTE_ALIGNMENT
  BY <1>2, HeapNumbers, AlignedUpFacts
<1>5. QED
  BY <1>1, <1>3, <1>4, HeapNumbers DEF xStart

(* What the layout says of the blocks of b.                                 *)
LEMMA LaidFacts ==
  ASSUME NEW b, Laid(b)
  PROVE  /\ BlocksOf(b) \subseteq Nat /\ xStart \in DOMAIN b /\ EndOfHeap \in DOMAIN b
         /\ xStart \notin BlocksOf(b) /\ EndOfHeap \notin BlocksOf(b)
         /\ DOMAIN b = BlocksOf(b) \cup {xStart, EndOfHeap}
         /\ \A a \in DOMAIN b : /\ b[a] \in Headers /\ b[a].next \in Nat /\ b[a].size \in Nat
                                /\ a \in Nat
         /\ \A a \in BlocksOf(b) : xStart < a /\ a < EndOfHeap /\ b[a].size > 0
         /\ \A a, c \in BlocksOf(b) : a < c => a + b[a].size <= c
<1>1. /\ BlocksOf(b) \subseteq Nat /\ xStart \in DOMAIN b /\ EndOfHeap \in DOMAIN b
      /\ xStart \notin BlocksOf(b) /\ EndOfHeap \notin BlocksOf(b)
      /\ DOMAIN b = BlocksOf(b) \cup {xStart, EndOfHeap}
  BY DEF Laid, BlocksOf
<1>2. \A a \in DOMAIN b : b[a] \in Headers /\ a \in Nat
  BY DEF Laid
<1>3. \A a \in DOMAIN b : b[a].next \in Nat /\ b[a].size \in Nat
  BY <1>2 DEF Headers
<1>4. \A a \in BlocksOf(b) : xStart < a /\ a < EndOfHeap /\ b[a].size > 0
  <2>1. ASSUME NEW a \in BlocksOf(b) PROVE xStart < a /\ a < EndOfHeap /\ b[a].size > 0
    <3>1. StartOfHeap <= a /\ a < EndOfHeap /\ b[a].size > xHeapStructSize
      BY DEF Laid
    <3>2. a \in Nat /\ b[a].size \in Nat
      BY <1>1, <1>3
    <3>3. QED
      BY <3>1, <3>2, HeapBounds, HeapNumbers
  <2>2. QED
    BY <2>1
<1>5. \A a, c \in BlocksOf(b) : a < c => a + b[a].size <= c
  BY <1>1 DEF Laid, Follows
<1>6. QED
  BY <1>1, <1>2, <1>3, <1>4, <1>5

LEMMA LaidIsChain ==
  ASSUME NEW b, Laid(b), NEW F, ListOf(b, F)
  PROVE  Chain(b, F)
<1>1. F \subseteq BlocksOf(b) /\ F \subseteq Nat
  BY LaidFacts DEF ListOf
<1>2. \A p \in F : xStart < p /\ p < EndOfHeap
  BY <1>1, LaidFacts
<1>3. \A p \in F \cup {xStart} : b[p].next # NULL
  BY <1>1, LaidFacts, HeapBounds DEF ListOf, Follows, NULL
<1>4. Linked(b) = F \cup {xStart}
  <2>1. b[EndOfHeap].next = NULL /\ \A a \in BlocksOf(b) \ F : b[a].next = NULL
    BY DEF Laid, ListOf
  <2>2. QED
    BY <1>1, <1>3, <2>1, LaidFacts DEF Linked
<1>5. EndOfHeap \in Nat /\ xStart < EndOfHeap
  BY HeapBounds, HeapNumbers
<1>6. b[EndOfHeap].next = NULL /\ \A p \in F \cup {xStart} : Follows(b[p].next, p, F \cup {EndOfHeap})
  BY DEF Laid, ListOf
<1>7. QED
  BY <1>1, <1>2, <1>4, <1>5, <1>6 DEF Chain

-----------------------------------------------------------------------------
(* prvInsertBlockIntoFreeList in two steps: the block is linked, and blocks *)
(* that touch are joined.                                                   *)
LinkedIn(b, a, p) ==
    [q \in DOMAIN b |->
        IF q = a THEN Header(b[p].next, b[a].size)
          ELSE IF q = p THEN [next |-> a, size |-> b[p].size, allocated |-> b[p].allocated] ELSE b[q]]

Joined(b, a) ==
    [q \in DOMAIN b \ {b[a].next} |->
        IF q = a THEN Header(b[b[a].next].next, b[a].size + b[b[a].next].size) ELSE b[q]]

(* j is b with the block a of its list joined with n behind it.             *)
IsJoined(j, b, F, a, n) ==
    /\ n \in F /\ n # a
    /\ Laid(j) /\ ListOf(j, F \ {n}) /\ BlocksOf(j) = BlocksOf(b) \ {n}
    /\ Touching(j, F \ {n}) \subseteq Touching(b, F) \ {a}
    /\ BytesOf(j, F \ {n}) = BytesOf(b, F)

LEMMA JoinedFacts ==
  ASSUME NEW b, NEW F, NEW a, NEW n, Laid(b), ListOf(b, F), a \in Touching(b, F),
         n = b[a].next, n \notin Touching(b, F)
  PROVE  IsJoined(Joined(b, a), b, F, a, n)
<1> DEFINE j == Joined(b, a)
<1>a. /\ BlocksOf(b) \subseteq Nat /\ xStart \in DOMAIN b /\ EndOfHeap \in DOMAIN b
      /\ xStart \notin BlocksOf(b) /\ EndOfHeap \notin BlocksOf(b)
      /\ DOMAIN b = BlocksOf(b) \cup {xStart, EndOfHeap}
  BY LaidFacts
<1>b. \A q \in DOMAIN b : /\ b[q] \in Headers /\ b[q].next \in Nat /\ b[q].size \in Nat
                         /\ q \in Nat
  BY LaidFacts
<1>c. /\ \A q \in BlocksOf(b) : xStart < q /\ q < EndOfHeap /\ b[q].size > 0
      /\ \A q, d \in BlocksOf(b) : q < d => q + b[q].size <= d
  BY LaidFacts
<1>1. /\ F \subseteq BlocksOf(b) /\ F \subseteq Nat /\ a \in F /\ a + b[a].size \in F
      /\ a \in BlocksOf(b) /\ a \in DOMAIN b /\ a \in Nat /\ EndOfHeap \in Nat /\ xStart \in Nat
  BY <1>a, <1>b, <1>c, HeapBounds DEF ListOf, Touching
<1>2. n \in F /\ n = a + b[a].size /\ n > a
  <2>1. Follows(n, a, F \cup {EndOfHeap}) /\ Follows(a + b[a].size, a, BlocksOf(b) \cup {EndOfHeap})
    BY <1>1 DEF ListOf, Laid
  <2>2. n \in F \cup {EndOfHeap} /\ n > a /\ n <= a + b[a].size
    BY <1>1, <2>1 DEF Follows
  <2>3. n \in BlocksOf(b) \cup {EndOfHeap} /\ a + b[a].size <= n
    BY <1>1, <2>1, <2>2 DEF Follows
  <2>4. n = a + b[a].size
    <3>1. n \in Nat /\ a + b[a].size \in Nat
      BY <1>1, <1>a, <2>2
    <3>2. QED
      BY <2>2, <2>3, <3>1
  <2>5. QED
    BY <1>1, <2>2, <2>4
<1>3. /\ n \in BlocksOf(b) /\ n \in Nat /\ n # xStart /\ n # EndOfHeap /\ n \in DOMAIN b
      /\ a # xStart /\ a # EndOfHeap
      /\ b[n].next \in Nat /\ b[n].size \in Nat /\ b[a].size \in Nat
  BY <1>1, <1>2, <1>a, <1>b, <1>c
<1>4. /\ DOMAIN j = DOMAIN b \ {n}
      /\ j[a] = Header(b[n].next, b[a].size + b[n].size)
      /\ \A q \in DOMAIN b \ {n, a} : j[q] = b[q]
  BY <1>1, <1>2, <1>3 DEF Joined
<1>5. j[a].next = b[n].next /\ j[a].size = b[a].size + b[n].size /\ ~ j[a].allocated
  BY <1>4 DEF Header
<1>6. j[a] \in Headers
  BY <1>3, <1>4 DEF Header, Headers
<1> HIDE DEF j
<1>7. BlocksOf(j) = BlocksOf(b) \ {n}
  BY <1>4 DEF BlocksOf
<1>8. Laid(j)
  <2>1. {xStart, StartOfHeap, EndOfHeap} \subseteq DOMAIN j
    <3>1. StartOfHeap # n
      BY <1>1, <1>2, <1>a, <1>b, <1>c, HeapBounds DEF Laid
    <3>2. {xStart, StartOfHeap, EndOfHeap} \subseteq DOMAIN b
      BY DEF Laid
    <3>3. QED
      BY <1>3, <1>4, <3>1, <3>2
  <2>2. DOMAIN j \subseteq Nat /\ \A q \in DOMAIN j : j[q] \in Headers
    BY <1>4, <1>6, <1>a, <1>b, <1>c
  <2>3. j[xStart].size = 0 /\ j[EndOfHeap].next = NULL /\ j[EndOfHeap].size = 0
    BY <1>3, <1>4, <1>a, <1>b, <1>c DEF Laid
  <2>4. ASSUME NEW q \in BlocksOf(j)
        PROVE  /\ StartOfHeap <= q /\ q < EndOfHeap /\ Aligned(q)
               /\ j[q].size > xHeapStructSize /\ Aligned(j[q].size)
               /\ Follows(q + j[q].size, q, BlocksOf(j) \cup {EndOfHeap})
    <3>1. /\ StartOfHeap <= q /\ q < EndOfHeap /\ Aligned(q)
          /\ b[q].size > xHeapStructSize /\ Aligned(b[q].size)
          /\ Follows(q + b[q].size, q, BlocksOf(b) \cup {EndOfHeap})
      BY <1>7, <2>4 DEF Laid
    <3>2. CASE q = a
      <4>1. /\ b[n].size > xHeapStructSize /\ Aligned(b[n].size)
            /\ Follows(n + b[n].size, n, BlocksOf(b) \cup {EndOfHeap})
        BY <1>3 DEF Laid
      <4>2. Aligned(j[q].size) /\ j[q].size > xHeapStructSize
        <5>1. j[q].size = b[a].size + b[n].size /\ b[a].size \in Nat /\ b[n].size \in Nat
          BY <1>3, <1>5, <3>2
        <5>2. Aligned(b[a].size) /\ b[a].size > xHeapStructSize
          BY <3>1, <3>2
        <5>3. Aligned(b[a].size + b[n].size)
          BY <4>1, <5>1, <5>2, AlignedSum
        <5>4. b[a].size + b[n].size > xHeapStructSize
          BY <4>1, <5>1, <5>2, HeapNumbers
        <5>5. QED
          BY <5>1, <5>3, <5>4
      <4>3. q + j[q].size = n + b[n].size
        BY <1>1, <1>2, <1>3, <1>5, <3>2
      <4>4. /\ n + b[n].size \in BlocksOf(j) \cup {EndOfHeap}
            /\ n + b[n].size > a
        BY <1>1, <1>2, <1>3, <1>7, <4>1 DEF Follows
      <4>5. ASSUME NEW d \in BlocksOf(j) \cup {EndOfHeap}, d > a PROVE n + b[n].size <= d
        <5>1. d \in BlocksOf(b) \cup {EndOfHeap} /\ d # n /\ d \in Nat
          BY <1>3, <1>7, <1>a, <1>b, <1>c, HeapBounds
        <5>2. n <= d
          BY <1>2, <3>1, <3>2, <4>5, <5>1 DEF Follows
        <5>3. QED
          BY <1>3, <4>1, <5>1, <5>2 DEF Follows
      <4>6. QED
        BY <3>1, <3>2, <4>2, <4>3, <4>4, <4>5 DEF Follows
    <3>3. CASE q # a
      <4>1. j[q] = b[q] /\ q \in BlocksOf(b) /\ q # n
        BY <1>4, <1>7, <3>3, <2>4, <1>a, <1>b, <1>c
      <4>2. q + b[q].size # n
        <5>1. q \in Nat /\ b[q].size \in Nat /\ b[q].size > 0
          BY <4>1, <1>a, <1>b, <1>c
        <5>2. CASE q < a
          BY <1>1, <1>2, <4>1, <5>1, <5>2, <1>a, <1>b, <1>c
        <5>3. CASE q > a
          <6>1. a + b[a].size <= q
            BY <1>1, <4>1, <5>3, <1>a, <1>b, <1>c
          <6>2. QED
            BY <1>2, <1>3, <5>1, <6>1
        <5>4. QED
          BY <1>1, <3>3, <5>1, <5>2, <5>3
      <4>3. Follows(q + b[q].size, q, BlocksOf(j) \cup {EndOfHeap})
        BY <1>7, <3>1, <4>2 DEF Follows
      <4>4. QED
        BY <3>1, <4>1, <4>3
    <3>4. QED
      BY <3>2, <3>3
  <2>5. QED
    BY <2>1, <2>2, <2>3, <2>4 DEF Laid
<1>9. ListOf(j, F \ {n})
  <2>1. F \ {n} \subseteq BlocksOf(j)
    BY <1>1, <1>7
  <2>2. \A q \in F \ {n} : ~ j[q].allocated
    BY <1>1, <1>4, <1>5, <1>a, <1>b, <1>c DEF ListOf
  <2>3. \A q \in BlocksOf(j) \ (F \ {n}) : j[q].next = NULL
    <3>1. ASSUME NEW q \in BlocksOf(j) \ (F \ {n}) PROVE j[q].next = NULL
      <4>1. q \in BlocksOf(b) \ F /\ q # n /\ q # a
        BY <1>1, <1>7
      <4>2. j[q] = b[q]
        BY <1>4, <4>1, <1>a, <1>b, <1>c
      <4>3. QED
        BY <4>1, <4>2 DEF ListOf
    <3>2. QED
      BY <3>1
  <2>4. ASSUME NEW p \in (F \ {n}) \cup {xStart}
        PROVE  Follows(j[p].next, p, (F \ {n}) \cup {EndOfHeap})
    <3>1. Follows(b[p].next, p, F \cup {EndOfHeap}) /\ p \in Nat
      BY <1>1, <2>4 DEF ListOf
    <3>2. CASE p = a
      <4>1. Follows(b[n].next, n, F \cup {EndOfHeap})
        BY <1>2 DEF ListOf
      <4>2. b[n].next \in (F \ {n}) \cup {EndOfHeap} /\ b[n].next > a
        BY <1>1, <1>2, <1>3, <4>1 DEF Follows
      <4>3. ASSUME NEW d \in (F \ {n}) \cup {EndOfHeap}, d > a PROVE b[n].next <= d
        <5>1. d \in F \cup {EndOfHeap} /\ d # n /\ d \in Nat
          BY <1>1, <1>3
        <5>2. n <= d
          BY <3>1, <3>2, <4>3, <5>1 DEF Follows
        <5>3. QED
          BY <1>3, <4>1, <5>1, <5>2 DEF Follows
      <4>4. QED
        BY <1>5, <3>2, <4>2, <4>3 DEF Follows
    <3>3. CASE p # a
      <4>1. j[p] = b[p] /\ p # n
        BY <1>1, <1>3, <1>4, <3>3, <1>a, <1>b, <1>c
      <4>2. b[p].next # n
        <5>1. CASE p < a
          <6>1. b[p].next <= a
            BY <1>1, <3>1, <5>1 DEF Follows
          <6>2. QED
            BY <1>1, <1>2, <1>3, <6>1
        <5>2. CASE p > a
          <6>1. p \in F /\ n <= p
            <7>1. p \in F
              BY <1>1, <5>2, <1>a, <1>b, <1>c
            <7>2. Follows(n, a, F \cup {EndOfHeap})
              BY <1>1 DEF ListOf
            <7>3. QED
              BY <5>2, <7>1, <7>2 DEF Follows
          <6>2. b[p].next > p /\ b[p].next \in Nat
            BY <1>1, <3>1 DEF Follows
          <6>3. QED
            BY <1>3, <3>1, <6>1, <6>2
        <5>3. QED
          BY <1>1, <3>1, <3>3, <5>1, <5>2
      <4>3. QED
        BY <3>1, <4>1, <4>2 DEF Follows
    <3>4. QED
      BY <3>2, <3>3
  <2>5. QED
    BY <2>1, <2>2, <2>3, <2>4 DEF ListOf
<1>10. Touching(j, F \ {n}) \subseteq Touching(b, F) \ {a}
  <2>1. ASSUME NEW q \in Touching(j, F \ {n}) PROVE q \in Touching(b, F) /\ q # a
    <3>1. q \in F /\ q # n /\ q + j[q].size \in F
      BY DEF Touching
    <3>2. q # a
      <4>1. n + b[n].size \notin F
        BY <1>2 DEF Touching
      <4>2. a + j[a].size = n + b[n].size
        BY <1>1, <1>2, <1>3, <1>5
      <4>3. QED
        BY <3>1, <4>1, <4>2
    <3>3. j[q] = b[q]
      BY <1>1, <1>4, <3>1, <3>2, <1>a, <1>b, <1>c
    <3>4. QED
      BY <3>1, <3>2, <3>3 DEF Touching
  <2>2. QED
    BY <2>1
<1>11. BytesOf(j, F \ {n}) = BytesOf(b, F)
  <2>1. \A q \in F \ {n, a} : j[q].size = b[q].size
    BY <1>1, <1>4, <1>a, <1>b, <1>c
  <2>2. ASSUME NEW z PROVE z \in a .. a + j[a].size - 1 <=> z \in (a .. a + b[a].size - 1) \cup (n .. n + b[n].size - 1)
    BY <1>1, <1>2, <1>3, <1>5
  <2>3. ASSUME NEW z \in BytesOf(j, F \ {n}) PROVE z \in BytesOf(b, F)
    <3>1. PICK q \in F \ {n} : z \in q .. q + j[q].size - 1
      BY <2>3 DEF BytesOf
    <3>2. CASE q = a
      BY <1>1, <1>2, <2>2, <3>1, <3>2 DEF BytesOf
    <3>3. CASE q # a
      BY <2>1, <3>1, <3>3 DEF BytesOf
    <3>4. QED
      BY <3>2, <3>3
  <2>4. ASSUME NEW z \in BytesOf(b, F) PROVE z \in BytesOf(j, F \ {n})
    <3>1. PICK q \in F : z \in q .. q + b[q].size - 1
      BY <2>4 DEF BytesOf
    <3>2. CASE q \in {a, n}
      <4>1. z \in a .. a + j[a].size - 1
        BY <2>2, <3>1, <3>2
      <4>2. QED
        BY <1>1, <1>2, <4>1 DEF BytesOf
    <3>3. CASE q \notin {a, n}
      BY <2>1, <3>1, <3>3 DEF BytesOf
    <3>4. QED
      BY <3>2, <3>3
  <2>5. QED
    BY <2>3, <2>4
<1>12. QED
  BY <1>1, <1>2, <1>7, <1>8, <1>9, <1>10, <1>11 DEF j, IsJoined

LEMMA LinkedInFacts ==
  ASSUME NEW b, Laid(b), NEW F, ListOf(b, F), Touching(b, F) = {},
         NEW a \in BlocksOf(b) \ F, NEW p \in F \cup {xStart}, p < a, b[p].next > a
  PROVE  /\ Laid(LinkedIn(b, a, p)) /\ ListOf(LinkedIn(b, a, p), F \cup {a})
         /\ BlocksOf(LinkedIn(b, a, p)) = BlocksOf(b)
         /\ Touching(LinkedIn(b, a, p), F \cup {a}) \subseteq {a, p}
         /\ BytesOf(LinkedIn(b, a, p), F \cup {a}) = BytesOf(b, F \cup {a})
<1> DEFINE l == LinkedIn(b, a, p)
<1>a. /\ BlocksOf(b) \subseteq Nat /\ xStart \in DOMAIN b /\ EndOfHeap \in DOMAIN b
      /\ xStart \notin BlocksOf(b) /\ EndOfHeap \notin BlocksOf(b)
      /\ DOMAIN b = BlocksOf(b) \cup {xStart, EndOfHeap}
  BY LaidFacts
<1>b. \A q \in DOMAIN b : /\ b[q] \in Headers /\ b[q].next \in Nat /\ b[q].size \in Nat
                         /\ q \in Nat
  BY LaidFacts
<1>c. /\ \A q \in BlocksOf(b) : xStart < q /\ q < EndOfHeap /\ b[q].size > 0
      /\ \A q, d \in BlocksOf(b) : q < d => q + b[q].size <= d
  BY LaidFacts
<1>1. F \subseteq BlocksOf(b) /\ EndOfHeap \in Nat /\ xStart \in Nat /\ xStart # EndOfHeap
  BY HeapBounds, HeapNumbers DEF ListOf
<1>2. /\ a \in BlocksOf(b) /\ a \notin F /\ a \in Nat /\ a \in DOMAIN b
      /\ p \in Nat /\ p \in DOMAIN b /\ p # a /\ p # EndOfHeap
  BY <1>a, <1>b, <1>1
<1>3. /\ DOMAIN l = DOMAIN b
      /\ l[a] = Header(b[p].next, b[a].size)
      /\ l[p] = [next |-> a, size |-> b[p].size, allocated |-> b[p].allocated]
      /\ \A q \in DOMAIN b \ {a, p} : l[q] = b[q]
  BY <1>2 DEF LinkedIn
<1> HIDE DEF l
<1>4. /\ l[a] \in Headers /\ l[a].next = b[p].next /\ l[a].size = b[a].size /\ ~ l[a].allocated
      /\ l[p].next = a /\ l[p].size = b[p].size /\ l[p].allocated = b[p].allocated
  BY <1>b, <1>2, <1>3 DEF Header, Headers
<1>5. l[p] \in Headers
  <2>1. b[p].allocated \in BOOLEAN
    BY <1>b, <1>2 DEF Headers
  <2>2. QED
    BY <1>b, <1>2, <1>3, <2>1 DEF Headers
<1>6. BlocksOf(l) = BlocksOf(b) /\ \A q \in DOMAIN b : l[q].size = b[q].size
  BY <1>3, <1>4 DEF BlocksOf
<1>7. Laid(l)
  <2>1. {xStart, StartOfHeap, EndOfHeap} \subseteq DOMAIN l /\ DOMAIN l \subseteq Nat
    BY <1>3 DEF Laid
  <2>2. \A q \in DOMAIN l : l[q] \in Headers
    BY <1>b, <1>3, <1>4, <1>5
  <2>3. l[xStart].size = 0 /\ l[EndOfHeap].next = NULL /\ l[EndOfHeap].size = 0
    <3>1. l[EndOfHeap] = b[EndOfHeap]
      BY <1>a, <1>2, <1>3
    <3>2. QED
      BY <1>a, <1>6, <3>1 DEF Laid
  <2>4. \A q \in BlocksOf(l) :
          /\ StartOfHeap <= q /\ q < EndOfHeap /\ Aligned(q)
          /\ l[q].size > xHeapStructSize /\ Aligned(l[q].size)
          /\ Follows(q + l[q].size, q, BlocksOf(l) \cup {EndOfHeap})
    <3>1. \A q \in BlocksOf(l) : q \in DOMAIN b /\ l[q].size = b[q].size
      BY <1>a, <1>6
    <3>2. QED
      BY <1>6, <3>1 DEF Laid
  <2>5. QED
    BY <2>1, <2>2, <2>3, <2>4 DEF Laid
<1>8. ListOf(l, F \cup {a})
  <2>1. F \cup {a} \subseteq BlocksOf(l)
    BY <1>1, <1>2, <1>6
  <2>2. ASSUME NEW q \in F \cup {a} PROVE ~ l[q].allocated
    <3>1. CASE q = a
      BY <1>4, <3>1
    <3>2. CASE q # a /\ q = p
      BY <1>4, <2>2, <3>2 DEF ListOf
    <3>3. CASE q # a /\ q # p
      BY <1>a, <1>1, <1>3, <2>2, <3>3 DEF ListOf
    <3>4. QED
      BY <3>1, <3>2, <3>3
  <2>3. \A q \in BlocksOf(l) \ (F \cup {a}) : l[q].next = NULL
    <3>1. ASSUME NEW q \in BlocksOf(l) \ (F \cup {a}) PROVE l[q].next = NULL
      <4>1. q \in BlocksOf(b) \ F /\ q # a /\ q # p /\ q \in DOMAIN b
        BY <1>a, <1>6
      <4>2. QED
        BY <1>3, <4>1 DEF ListOf
    <3>2. QED
      BY <3>1
  <2>4. ASSUME NEW q \in (F \cup {a}) \cup {xStart}
        PROVE  Follows(l[q].next, q, (F \cup {a}) \cup {EndOfHeap})
    <3>1. Follows(b[p].next, p, F \cup {EndOfHeap})
      BY DEF ListOf
    <3>2. \A d \in F \cup {EndOfHeap} : d \in Nat
      BY <1>a, <1>1
    <3>3. CASE q = a
      <4>1. b[p].next \in F \cup {EndOfHeap} /\ \A d \in F \cup {EndOfHeap} : d > p => b[p].next <= d
        BY <3>1 DEF Follows
      <4>2. \A d \in F \cup {EndOfHeap} : d > a => b[p].next <= d
        BY <1>2, <3>2, <4>1
      <4>3. ~ (a > a)
        BY <1>2
      <4>4. QED
        BY <1>4, <3>3, <4>1, <4>2, <4>3 DEF Follows
    <3>4. CASE q = p
      <4>1. \A d \in F \cup {EndOfHeap} : d > p => b[p].next <= d
        BY <3>1 DEF Follows
      <4>2. b[p].next \in Nat
        BY <1>b, <1>2
      <4>3. \A d \in F \cup {EndOfHeap} : d > p => a <= d
        BY <1>2, <3>2, <4>1, <4>2
      <4>4. a <= a
        BY <1>2
      <4>5. QED
        BY <1>2, <1>4, <3>4, <4>3, <4>4 DEF Follows
    <3>5. CASE q # a /\ q # p
      <4>1. q \in F \cup {xStart} /\ q \in DOMAIN b /\ q \in Nat
        BY <1>a, <1>1, <2>4, <3>5
      <4>2. l[q] = b[q] /\ Follows(b[q].next, q, F \cup {EndOfHeap})
        BY <1>3, <3>5, <4>1 DEF ListOf
      <4>3. q < a => b[q].next <= a
        <5>1. CASE q < p
          <6>1. p \in F
            BY <1>a, <1>c, <1>1, <1>2, <4>1, <5>1
          <6>2. b[q].next <= p
            BY <4>2, <5>1, <6>1 DEF Follows
          <6>3. QED
            BY <1>b, <1>2, <4>1, <6>2
        <5>2. CASE q > p
          <6>1. q \in F
            BY <1>a, <1>c, <1>1, <1>2, <4>1, <5>2
          <6>2. b[p].next <= q
            BY <3>1, <5>2, <6>1 DEF Follows
          <6>3. QED
            BY <1>b, <1>2, <4>1, <6>2
        <5>3. QED
          BY <1>2, <3>5, <4>1, <5>1, <5>2
      <4>4. QED
        BY <4>2, <4>3, <1>2, <4>1 DEF Follows
    <3>6. QED
      BY <3>3, <3>4, <3>5
  <2>5. QED
    BY <2>1, <2>2, <2>3, <2>4 DEF ListOf
<1>9. Touching(l, F \cup {a}) \subseteq {a, p}
  <2>1. ASSUME NEW q \in Touching(l, F \cup {a}), q # a PROVE q = p
    <3>1. q \in F /\ q + b[q].size \in F \cup {a}
      BY <1>a, <1>1, <1>6, <2>1 DEF Touching
    <3>2. q + b[q].size = a
      BY <3>1 DEF Touching
    <3>3. q \in Nat /\ q \in DOMAIN b /\ b[q].size \in Nat /\ q \in BlocksOf(b)
      BY <1>a, <1>b, <1>1, <3>1
    <3>4. q < a
      BY <1>c, <1>2, <3>2, <3>3
    <3>5. ~ (q > p)
      <4>1. Follows(b[p].next, p, F \cup {EndOfHeap})
        BY DEF ListOf
      <4>2. q > p => b[p].next <= q
        BY <3>1, <4>1 DEF Follows
      <4>3. QED
        BY <1>b, <1>2, <3>3, <3>4, <4>2
    <3>6. ~ (q < p)
      <4>1. q < p => p \in BlocksOf(b)
        BY <1>a, <1>c, <1>1, <1>2, <3>3
      <4>2. q < p => q + b[q].size <= p
        BY <1>c, <3>3, <4>1
      <4>3. QED
        BY <1>2, <3>2, <3>3, <4>2
    <3>7. QED
      BY <1>2, <3>3, <3>5, <3>6
  <2>2. QED
    BY <2>1
<1>10. BytesOf(l, F \cup {a}) = BytesOf(b, F \cup {a})
  <2>1. \A q \in F \cup {a} : l[q].size = b[q].size
    BY <1>a, <1>1, <1>2, <1>6
  <2>2. QED
    BY <2>1 DEF BytesOf
<1>11. QED
  BY <1>6, <1>7, <1>8, <1>9, <1>10 DEF l

(* prvInsertBlockIntoFreeList is those steps: a free block is linked, then  *)
(* joined with the block behind it and the block before it joined with it.  *)
LEMMA InsertSteps ==
  ASSUME NEW b, Laid(b), NEW a \in BlocksOf(b), NEW p, p = Iterator(b, a),
         p \in BlocksOf(b) \cup {xStart}, p # a, NEW n, n = b[p].next, n \in DOMAIN b, n > a,
         n # p
  PROVE  LET joinsPrevious == p + b[p].size = a
             joinsNext == a + b[a].size = n /\ b[n].next # NULL
             l == LinkedIn(b, a, p)
         IN  /\ ~ joinsPrevious /\ ~ joinsNext => prvInsertBlockIntoFreeList(b, a) = l
             /\ ~ joinsPrevious /\ joinsNext => prvInsertBlockIntoFreeList(b, a) = Joined(l, a)
             /\ joinsPrevious /\ ~ joinsNext => prvInsertBlockIntoFreeList(b, a) = Joined(l, p)
             /\ joinsPrevious /\ joinsNext =>
                  prvInsertBlockIntoFreeList(b, a) = Joined(Joined(l, a), p)
<1> DEFINE joinsPrevious == p + b[p].size = a
           joinsNext == a + b[a].size = n /\ b[n].next # NULL
           l == LinkedIn(b, a, p)
           r == prvInsertBlockIntoFreeList(b, a)
           Linking(first) == [b EXCEPT ![p].next = first]
           With(first, whole) == [Linking(first) EXCEPT ![first] = whole]
<1>1. /\ a \in Nat /\ p \in Nat /\ n \in Nat /\ n # a
      /\ a \in DOMAIN b /\ p \in DOMAIN b /\ n \in DOMAIN b
      /\ b[a].size \in Nat /\ b[p].size \in Nat /\ b[n].size \in Nat
      /\ b[p] \in Headers
  <2>1. /\ BlocksOf(b) \subseteq Nat /\ xStart \in DOMAIN b
        /\ DOMAIN b = BlocksOf(b) \cup {xStart, EndOfHeap}
    BY LaidFacts
  <2>2. \A q \in DOMAIN b : b[q] \in Headers /\ b[q].size \in Nat /\ q \in Nat
    BY LaidFacts
  <2>3. QED
    BY <2>1, <2>2
<1>2. ASSUME NEW first \in {a, p}, NEW whole
      PROVE  With(first, whole)
             = [q \in DOMAIN b |->
                  IF q = first THEN whole
                    ELSE IF q = p THEN [next |-> first, size |-> b[p].size, allocated |-> b[p].allocated] ELSE b[q]]
  <2>1. [b[p] EXCEPT !.next = first]
        = [next |-> first, size |-> b[p].size, allocated |-> b[p].allocated]
    BY <1>1 DEF Headers
  <2>2. DOMAIN Linking(first) = DOMAIN b
    OBVIOUS
  <2>3. /\ Linking(first)[p] = [next |-> first, size |-> b[p].size, allocated |-> b[p].allocated]
        /\ \A q \in DOMAIN b \ {p} : Linking(first)[q] = b[q]
    BY <1>1, <2>1
  <2> HIDE DEF Linking
  <2>4. \A q \in DOMAIN b : (IF q = first THEN whole ELSE Linking(first)[q])
                            = IF q = first THEN whole
                                ELSE IF q = p THEN [next |-> first, size |-> b[p].size, allocated |-> b[p].allocated] ELSE b[q]
    BY <2>3
  <2>5. With(first, whole) = [q \in DOMAIN b |-> IF q = first THEN whole ELSE Linking(first)[q]]
    BY <1>1, <2>2
  <2>6. QED
    BY <2>4, <2>5
<1> HIDE DEF With
<1>3. l = [q \in DOMAIN b |->
             IF q = a THEN Header(n, b[a].size)
               ELSE IF q = p THEN [next |-> a, size |-> b[p].size, allocated |-> b[p].allocated] ELSE b[q]]
  BY DEF LinkedIn
<1>4. /\ DOMAIN l = DOMAIN b /\ l[a] = Header(n, b[a].size)
      /\ l[p] = [next |-> a, size |-> b[p].size, allocated |-> b[p].allocated]
      /\ \A q \in DOMAIN b \ {a, p} : l[q] = b[q]
  BY <1>1, <1>3
<1>5. l[a].next = n /\ l[a].size = b[a].size /\ l[p].next = a /\ l[p].size = b[p].size
  BY <1>4 DEF Header
<1> HIDE DEF l
<1>6. ASSUME ~ joinsPrevious, ~ joinsNext PROVE r = l
  <2>1. r = Restrict(With(a, Header(n, 0 + b[a].size)), DOMAIN b \ ({} \cup {}))
    BY <1>6 DEF prvInsertBlockIntoFreeList, With
  <2>2. 0 + b[a].size = b[a].size /\ DOMAIN b \ ({} \cup {}) = DOMAIN b
    BY <1>1
  <2>3. r = Restrict(With(a, Header(n, b[a].size)), DOMAIN b)
    BY <2>1, <2>2
  <2>4. With(a, Header(n, b[a].size)) = l
    BY <1>2, <1>3
  <2>5. QED
    BY <1>3, <2>3, <2>4 DEF Restrict
<1>7. ASSUME ~ joinsPrevious, joinsNext PROVE r = Joined(l, a)
  <2>1. r = Restrict(With(a, Header(b[n].next, 0 + b[a].size + b[n].size)), DOMAIN b \ ({} \cup {n}))
    BY <1>7 DEF prvInsertBlockIntoFreeList, With
  <2>2. 0 + b[a].size = b[a].size /\ DOMAIN b \ ({} \cup {n}) = DOMAIN b \ {n}
    BY <1>1
  <2>3. r = Restrict(With(a, Header(b[n].next, b[a].size + b[n].size)), DOMAIN b \ {n})
    BY <2>1, <2>2
  <2>4. Joined(l, a) = [q \in DOMAIN b \ {n} |->
                          IF q = a THEN Header(b[n].next, b[a].size + b[n].size) ELSE l[q]]
    BY <1>1, <1>4, <1>5 DEF Joined
  <2>5. \A q \in DOMAIN b \ {n} :
          With(a, Header(b[n].next, b[a].size + b[n].size))[q]
          = IF q = a THEN Header(b[n].next, b[a].size + b[n].size) ELSE l[q]
    BY <1>2, <1>3
  <2>6. QED
    BY <2>3, <2>4, <2>5 DEF Restrict
<1>8. ASSUME joinsPrevious, ~ joinsNext PROVE r = Joined(l, p)
  <2>1. r = Restrict(With(p, Header(n, b[p].size + b[a].size)), DOMAIN b \ ({a} \cup {}))
    BY <1>8 DEF prvInsertBlockIntoFreeList, With
  <2>2. DOMAIN b \ ({a} \cup {}) = DOMAIN b \ {a}
    OBVIOUS
  <2>3. r = Restrict(With(p, Header(n, b[p].size + b[a].size)), DOMAIN b \ {a})
    BY <2>1, <2>2
  <2>4. Joined(l, p) = [q \in DOMAIN b \ {a} |->
                          IF q = p THEN Header(n, b[p].size + b[a].size) ELSE l[q]]
    BY <1>1, <1>4, <1>5 DEF Joined
  <2>5. \A q \in DOMAIN b \ {a} :
          With(p, Header(n, b[p].size + b[a].size))[q]
          = IF q = p THEN Header(n, b[p].size + b[a].size) ELSE l[q]
    BY <1>2, <1>3
  <2>6. QED
    BY <2>3, <2>4, <2>5 DEF Restrict
<1>9. ASSUME joinsPrevious, joinsNext PROVE r = Joined(Joined(l, a), p)
  <2> DEFINE j == Joined(l, a)
  <2>1. r = Restrict(With(p, Header(b[n].next, b[p].size + b[a].size + b[n].size)),
                     DOMAIN b \ ({a} \cup {n}))
    BY <1>9 DEF prvInsertBlockIntoFreeList, With
  <2>2. /\ DOMAIN b \ ({a} \cup {n}) = (DOMAIN b \ {n}) \ {a}
        /\ b[p].size + b[a].size + b[n].size = b[p].size + (b[a].size + b[n].size)
    BY <1>1
  <2>3. r = Restrict(With(p, Header(b[n].next, b[p].size + (b[a].size + b[n].size))),
                     (DOMAIN b \ {n}) \ {a})
    BY <2>1, <2>2
  <2>4. j = [q \in DOMAIN b \ {n} |->
               IF q = a THEN Header(b[n].next, b[a].size + b[n].size) ELSE l[q]]
    BY <1>1, <1>4, <1>5 DEF Joined
  <2>5. /\ DOMAIN j = DOMAIN b \ {n}
        /\ j[a] = Header(b[n].next, b[a].size + b[n].size) /\ j[p] = l[p]
        /\ \A q \in DOMAIN b \ {n, a} : j[q] = l[q]
    BY <1>1, <2>4
  <2>6. j[a].next = b[n].next /\ j[a].size = b[a].size + b[n].size
        /\ j[p].next = a /\ j[p].size = b[p].size
    BY <1>5, <2>5 DEF Header
  <2> HIDE DEF j
  <2>7. Joined(j, p) = [q \in (DOMAIN b \ {n}) \ {a} |->
                          IF q = p THEN Header(b[n].next, b[p].size + (b[a].size + b[n].size))
                                   ELSE j[q]]
    BY <2>5, <2>6 DEF Joined
  <2>8. \A q \in (DOMAIN b \ {n}) \ {a} :
          With(p, Header(b[n].next, b[p].size + (b[a].size + b[n].size)))[q]
          = IF q = p THEN Header(b[n].next, b[p].size + (b[a].size + b[n].size)) ELSE j[q]
    <3>1. \A q \in (DOMAIN b \ {n}) \ {a, p} : j[q] = b[q]
      BY <1>4, <2>5
    <3>2. QED
      BY <1>2, <3>1
  <2>9. QED
    BY <2>3, <2>7, <2>8 DEF Restrict, j
<1>10. QED
  BY <1>6, <1>7, <1>8, <1>9 DEF l

(* r is b with the blocks L in its list; gone are the headers inside of a   *)
(* joined block.                                                            *)
IsInserted(r, b, L, gone) ==
    /\ Laid(r) /\ BlocksOf(r) = BlocksOf(b) \ gone
    /\ ListOf(r, L \ gone) /\ Touching(r, L \ gone) = {}
    /\ BytesOf(r, L \ gone) = BytesOf(b, L)
    /\ \A q \in BlocksOf(b) \ L : r[q] = b[q]

InsertedInto(r, b, F, a) ==
    \E gone \in SUBSET (F \cup {a}) : IsInserted(r, b, F \cup {a}, gone)

LEMMA InsertFacts ==
  ASSUME NEW b, NEW F, NEW a, Laid(b), ListOf(b, F), Touching(b, F) = {}, a \in BlocksOf(b) \ F
  PROVE  InsertedInto(prvInsertBlockIntoFreeList(b, a), b, F, a)
<1> DEFINE p == Iterator(b, a)
           n == b[p].next
           l == LinkedIn(b, a, p)
           L == F \cup {a}
           joinsPrevious == p + b[p].size = a
           joinsNext == a + b[a].size = n /\ b[n].next # NULL
           r == prvInsertBlockIntoFreeList(b, a)
<1>a. /\ BlocksOf(b) \subseteq Nat /\ xStart \in DOMAIN b /\ EndOfHeap \in DOMAIN b
      /\ xStart \notin BlocksOf(b) /\ EndOfHeap \notin BlocksOf(b)
      /\ DOMAIN b = BlocksOf(b) \cup {xStart, EndOfHeap}
  BY LaidFacts
<1>b. \A q \in DOMAIN b : /\ b[q] \in Headers /\ b[q].next \in Nat /\ b[q].size \in Nat
                         /\ q \in Nat
  BY LaidFacts
<1>c. /\ \A q \in BlocksOf(b) : xStart < q /\ q < EndOfHeap /\ b[q].size > 0
      /\ \A q, d \in BlocksOf(b) : q < d => q + b[q].size <= d
  BY LaidFacts
<1>1. /\ F \subseteq BlocksOf(b) /\ EndOfHeap \in Nat /\ xStart \in Nat /\ xStart # EndOfHeap
      /\ a \in Nat /\ a \in DOMAIN b /\ xStart < a /\ a < EndOfHeap
  BY <1>a, <1>c, HeapBounds, HeapNumbers DEF ListOf
<1>2. p \in F \cup {xStart} /\ p < a /\ n > a
  BY <1>1, LaidIsChain, IteratorFacts
<1> HIDE DEF p
<1>3. /\ p \in Nat /\ p \in DOMAIN b /\ p # a /\ p \in BlocksOf(b) \cup {xStart}
      /\ Follows(n, p, F \cup {EndOfHeap})
  BY <1>a, <1>b, <1>1, <1>2 DEF ListOf
<1>4. /\ n \in F \cup {EndOfHeap} /\ n \in DOMAIN b /\ n \in Nat /\ n # p /\ n # a
      /\ n \in BlocksOf(b) \cup {EndOfHeap}
  <2>1. n \in F \cup {EndOfHeap} /\ n > p
    BY <1>3 DEF Follows
  <2>2. n \in BlocksOf(b) \cup {EndOfHeap} /\ n \in DOMAIN b /\ n \in Nat
    BY <1>a, <1>1, <2>1
  <2>3. QED
    BY <1>1, <1>2, <1>3, <2>1, <2>2
<1>5. n \in F <=> b[n].next # NULL
  <2>1. b[EndOfHeap].next = NULL
    BY DEF Laid
  <2>2. ASSUME n \in F PROVE b[n].next # NULL
    <3>1. Follows(b[n].next, n, F \cup {EndOfHeap}) /\ b[n].next \in Nat
      BY <1>b, <1>4, <2>2 DEF ListOf
    <3>2. QED
      BY <1>4, <3>1 DEF Follows, NULL
  <2>3. QED
    BY <1>4, <2>1, <2>2
<1>6. /\ (~ joinsPrevious /\ ~ joinsNext) => r = l
      /\ (~ joinsPrevious /\ joinsNext) => r = Joined(l, a)
      /\ (joinsPrevious /\ ~ joinsNext) => r = Joined(l, p)
      /\ (joinsPrevious /\ joinsNext) => r = Joined(Joined(l, a), p)
  BY <1>2, <1>3, <1>4, InsertSteps DEF p
<1> HIDE DEF r
<1>7. /\ Laid(l) /\ ListOf(l, L) /\ BlocksOf(l) = BlocksOf(b)
      /\ Touching(l, L) \subseteq {a, p} /\ BytesOf(l, L) = BytesOf(b, L)
  BY <1>2, LinkedInFacts
<1>8. /\ l[a].next = n /\ l[a].size = b[a].size /\ l[p].next = a /\ l[p].size = b[p].size
      /\ \A q \in DOMAIN b \ {a, p} : l[q] = b[q]
  BY <1>1, <1>3 DEF LinkedIn, Header
<1>9. \A q \in BlocksOf(b) \ L : l[q] = b[q]
  BY <1>a, <1>2, <1>8
<1> HIDE DEF l
<1>10. joinsPrevious <=> p \in Touching(l, L)
  <2>1. ASSUME joinsPrevious PROVE p \in Touching(l, L)
    <3>1. b[xStart].size = 0 /\ xStart + 0 # a
      BY <1>1 DEF Laid
    <3>2. p # xStart
      BY <2>1, <3>1
    <3>3. QED
      BY <1>2, <1>8, <2>1, <3>2 DEF Touching
  <2>2. ASSUME p \in Touching(l, L) PROVE joinsPrevious
    <3>1. p \in F /\ p + b[p].size \in F \cup {a}
      BY <1>3, <1>8, <2>2 DEF Touching
    <3>2. p + b[p].size \notin F
      BY <3>1 DEF Touching
    <3>3. QED
      BY <3>1, <3>2
  <2>3. QED
    BY <2>1, <2>2
<1>11. joinsNext <=> a \in Touching(l, L)
  <2>1. ASSUME joinsNext PROVE a \in Touching(l, L)
    BY <1>5, <1>8, <2>1 DEF Touching
  <2>2. ASSUME a \in Touching(l, L) PROVE joinsNext
    <3>1. a + b[a].size \in F
      <4>1. a + b[a].size \in F \cup {a}
        BY <1>8, <2>2 DEF Touching
      <4>2. b[a].size \in Nat /\ b[a].size > 0
        BY <1>b, <1>c, <1>1
      <4>3. QED
        BY <1>1, <4>1, <4>2
    <3>2. n <= a + b[a].size
      <4>1. a + b[a].size > p
        BY <1>1, <1>2, <1>3, <1>b
      <4>2. QED
        BY <1>3, <3>1, <4>1 DEF Follows
    <3>3. a + b[a].size <= n
      BY <1>2, <1>4 DEF Laid, Follows
    <3>4. a + b[a].size \in Nat
      BY <1>b, <1>1
    <3>5. a + b[a].size = n
      BY <1>4, <3>2, <3>3, <3>4
    <3>6. QED
      BY <1>5, <3>1, <3>5
  <2>3. QED
    BY <2>1, <2>2
<1>12. CASE ~ joinsPrevious /\ ~ joinsNext
  <2>1. IsInserted(r, b, L, {})
    BY <1>6, <1>7, <1>9, <1>10, <1>11, <1>12 DEF IsInserted
  <2>2. QED
    BY <2>1 DEF r, InsertedInto
<1>13. CASE ~ joinsPrevious /\ joinsNext
  <2> DEFINE j == Joined(l, a)
  <2>1. a \in Touching(l, L) /\ n \notin Touching(l, L)
    BY <1>4, <1>7, <1>11, <1>13
  <2>a. Laid(l) /\ ListOf(l, L) /\ n = l[a].next
    BY <1>7, <1>8
  <2>2. /\ n \in L /\ n # a
        /\ Laid(j) /\ ListOf(j, L \ {n})
        /\ BlocksOf(j) = BlocksOf(l) \ {n}
        /\ Touching(j, L \ {n}) \subseteq Touching(l, L) \ {a}
        /\ BytesOf(j, L \ {n}) = BytesOf(l, L)
    <3>1. IsJoined(j, l, L, a, n)
      BY <2>a, <2>1, JoinedFacts
    <3>2. QED
      BY <3>1 DEF IsJoined
  <2>3. \A q \in BlocksOf(b) \ L : j[q] = b[q]
    <3>1. \A q \in BlocksOf(b) \ L : q \in DOMAIN l \ {n, a} /\ l[q] = b[q]
      BY <1>7, <1>9, <2>2 DEF BlocksOf
    <3>2. QED
      BY <1>8, <3>1 DEF Joined
  <2> HIDE DEF j
  <2>4. Touching(l, L) \ {a} = {}
    BY <1>7, <1>10, <1>13
  <2>5. IsInserted(r, b, L, {n})
    BY <1>6, <1>7, <1>13, <2>2, <2>3, <2>4 DEF j, IsInserted
  <2>6. QED
    BY <2>2, <2>5 DEF r, InsertedInto
<1>14. CASE joinsPrevious /\ ~ joinsNext
  <2>1. p \in Touching(l, L) /\ a \notin Touching(l, L)
    BY <1>10, <1>11, <1>14
  <2>a. Laid(l) /\ ListOf(l, L) /\ a = l[p].next
    BY <1>7, <1>8
  <2>2. /\ a \in L /\ a # p
        /\ Laid(Joined(l, p)) /\ ListOf(Joined(l, p), L \ {a})
        /\ BlocksOf(Joined(l, p)) = BlocksOf(l) \ {a}
        /\ Touching(Joined(l, p), L \ {a}) \subseteq Touching(l, L) \ {p}
        /\ BytesOf(Joined(l, p), L \ {a}) = BytesOf(l, L)
    <3>1. IsJoined(Joined(l, p), l, L, p, a)
      BY <2>a, <2>1, JoinedFacts
    <3>2. QED
      BY <3>1 DEF IsJoined
  <2>3. \A q \in BlocksOf(b) \ L : Joined(l, p)[q] = b[q]
    <3>1. \A q \in BlocksOf(b) \ L : q \in DOMAIN l \ {a, p} /\ l[q] = b[q]
      BY <1>a, <1>2, <1>7, <1>9 DEF BlocksOf
    <3>2. QED
      BY <1>8, <3>1 DEF Joined
  <2>4. Touching(l, L) \ {p} = {}
    BY <1>7, <2>1
  <2>5. IsInserted(r, b, L, {a})
    BY <1>6, <1>7, <1>14, <2>2, <2>3, <2>4 DEF IsInserted
  <2>6. QED
    BY <2>2, <2>5 DEF r, InsertedInto
<1>15. CASE joinsPrevious /\ joinsNext
  <2> DEFINE j == Joined(l, a)
  <2>1. a \in Touching(l, L) /\ p \in Touching(l, L) /\ n \notin Touching(l, L)
    BY <1>4, <1>7, <1>10, <1>11, <1>15
  <2>a. Laid(l) /\ ListOf(l, L) /\ n = l[a].next
    BY <1>7, <1>8
  <2>2. /\ n \in L /\ n # a
        /\ Laid(j) /\ ListOf(j, L \ {n})
        /\ BlocksOf(j) = BlocksOf(l) \ {n}
        /\ Touching(j, L \ {n}) \subseteq Touching(l, L) \ {a}
        /\ BytesOf(j, L \ {n}) = BytesOf(l, L)
    <3>1. IsJoined(j, l, L, a, n)
      BY <2>a, <2>1, JoinedFacts
    <3>2. QED
      BY <3>1 DEF IsJoined
  <2>3. \A q \in DOMAIN l \ {n, a} : j[q] = l[q]
    BY <1>8 DEF Joined
  <2>4. p \in DOMAIN l \ {n, a}
    <3>1. p \in L
      BY <2>1 DEF Touching
    <3>2. QED
      BY <1>3, <1>4, <1>7, <3>1 DEF BlocksOf, ListOf
  <2> HIDE DEF j
  <2>5. j[p].next = a /\ j[p].size = b[p].size
    BY <1>8, <2>3, <2>4
  <2>6. p \in Touching(j, L \ {n}) /\ a \notin Touching(j, L \ {n})
    <3>1. p \in L /\ p # n /\ p + j[p].size = a /\ a \in L /\ a # n
      BY <1>4, <1>15, <2>1, <2>5 DEF Touching
    <3>2. p \in Touching(j, L \ {n})
      BY <3>1 DEF Touching
    <3>3. QED
      BY <2>2, <3>2
  <2>b. Laid(j) /\ ListOf(j, L \ {n}) /\ a = j[p].next
    BY <2>2, <2>5
  <2>7. /\ Laid(Joined(j, p)) /\ ListOf(Joined(j, p), (L \ {n}) \ {a})
        /\ BlocksOf(Joined(j, p)) = BlocksOf(j) \ {a}
        /\ Touching(Joined(j, p), (L \ {n}) \ {a}) \subseteq Touching(j, L \ {n}) \ {p}
        /\ BytesOf(Joined(j, p), (L \ {n}) \ {a}) = BytesOf(j, L \ {n})
    <3>1. IsJoined(Joined(j, p), j, L \ {n}, p, a)
      BY <2>b, <2>6, JoinedFacts
    <3>2. QED
      BY <3>1 DEF IsJoined
  <2>8. \A q \in BlocksOf(b) \ L : Joined(j, p)[q] = b[q]
    <3>1. \A q \in BlocksOf(b) \ L : q \in DOMAIN l \ {n, a, p} /\ l[q] = b[q]
      BY <1>a, <1>2, <1>7, <1>9, <2>2 DEF BlocksOf
    <3>2. \A q \in BlocksOf(b) \ L : q \in DOMAIN j \ {a, p} /\ j[q] = b[q]
      <4>1. \A q \in BlocksOf(b) \ L : q \in BlocksOf(j)
        BY <1>7, <2>2
      <4>2. QED
        BY <2>3, <3>1, <4>1 DEF BlocksOf
    <3>3. QED
      BY <2>5, <3>2 DEF Joined
  <2>9. Touching(j, L \ {n}) \ {p} = {}
    BY <1>7, <2>2
  <2>10. (L \ {n}) \ {a} = L \ {a, n} /\ (BlocksOf(b) \ {n}) \ {a} = BlocksOf(b) \ {a, n}
    OBVIOUS
  <2>11. IsInserted(r, b, L, {a, n})
    BY <1>6, <1>7, <1>15, <2>2, <2>7, <2>8, <2>9, <2>10 DEF j, IsInserted
  <2>12. QED
    BY <2>2, <2>11 DEF r, InsertedInto
<1>16. QED
  BY <1>12, <1>13, <1>14, <1>15

-----------------------------------------------------------------------------
(* The bytes of some blocks, and how many they are.                         *)
LEMMA BytesFacts ==
  ASSUME NEW b, Laid(b), NEW F \in SUBSET BlocksOf(b)
  PROVE  /\ IsFiniteSet(BytesOf(b, F)) /\ Cardinality(BytesOf(b, F)) \in Nat
         /\ Cardinality(BytesOf(b, F)) <= EndOfHeap - StartOfHeap
<1>1. StartOfHeap \in Nat /\ EndOfHeap \in Nat /\ StartOfHeap < EndOfHeap
  BY HeapBounds, HeapNumbers
<1>2. BytesOf(b, F) \subseteq StartOfHeap .. EndOfHeap - 1
  <2>1. ASSUME NEW z \in BytesOf(b, F) PROVE z \in StartOfHeap .. EndOfHeap - 1
    <3>1. PICK q \in F : z \in q .. q + b[q].size - 1
      BY <2>1 DEF BytesOf
    <3>2. q \in BlocksOf(b) /\ q \in Nat /\ b[q].size \in Nat
      BY LaidFacts
    <3>3. StartOfHeap <= q /\ q < EndOfHeap /\ Follows(q + b[q].size, q, BlocksOf(b) \cup {EndOfHeap})
      BY <3>2 DEF Laid
    <3>4. q + b[q].size <= EndOfHeap
      BY <3>3 DEF Follows
    <3>5. QED
      BY <1>1, <3>1, <3>2, <3>3, <3>4
  <2>2. QED
    BY <2>1
<1>3. /\ IsFiniteSet(StartOfHeap .. EndOfHeap - 1)
      /\ Cardinality(StartOfHeap .. EndOfHeap - 1) = EndOfHeap - StartOfHeap
  <2>1. StartOfHeap \in Int /\ EndOfHeap - 1 \in Int /\ ~ (StartOfHeap > EndOfHeap - 1)
    BY <1>1
  <2>2. /\ IsFiniteSet(StartOfHeap .. EndOfHeap - 1)
        /\ Cardinality(StartOfHeap .. EndOfHeap - 1) = (EndOfHeap - 1) - StartOfHeap + 1
    BY <2>1, FS_Interval
  <2>3. QED
    BY <1>1, <2>2
<1>4. QED
  BY <1>2, <1>3, FS_Subset, FS_CardinalityType

LEMMA BytesAdded ==
  ASSUME NEW b, Laid(b), NEW F \in SUBSET BlocksOf(b), NEW a \in BlocksOf(b) \ F
  PROVE  Cardinality(BytesOf(b, F \cup {a})) = Cardinality(BytesOf(b, F)) + b[a].size
<1> DEFINE A == a .. a + b[a].size - 1
<1>1. a \in Nat /\ b[a].size \in Nat /\ b[a].size > 0
  <2>1. a \in DOMAIN b
    BY DEF BlocksOf
  <2>2. QED
    BY <2>1, LaidFacts
<1>2. IsFiniteSet(A) /\ Cardinality(A) = b[a].size
  <2>1. a \in Int /\ a + b[a].size - 1 \in Int /\ ~ (a > a + b[a].size - 1)
    BY <1>1
  <2>2. IsFiniteSet(A) /\ Cardinality(A) = (a + b[a].size - 1) - a + 1
    BY <2>1, FS_Interval
  <2>3. QED
    BY <1>1, <2>2
<1>3. BytesOf(b, F \cup {a}) = BytesOf(b, F) \cup A
  BY DEF BytesOf
<1>4. BytesOf(b, F) \cap A = {}
  <2>1. ASSUME NEW z \in BytesOf(b, F), z \in A PROVE FALSE
    <3>1. PICK q \in F : z \in q .. q + b[q].size - 1
      BY <2>1 DEF BytesOf
    <3>2. q \in BlocksOf(b) /\ q \in Nat /\ b[q].size \in Nat /\ q # a
      <4>1. q \in BlocksOf(b) /\ q \in DOMAIN b
        BY DEF BlocksOf
      <4>2. QED
        BY <4>1, LaidFacts
    <3>3. (q < a => q + b[q].size <= a) /\ (a < q => a + b[a].size <= q)
      BY <3>2, LaidFacts
    <3>4. QED
      BY <1>1, <2>1, <3>1, <3>2, <3>3
  <2>2. QED
    BY <2>1
<1>5. IsFiniteSet(BytesOf(b, F)) /\ Cardinality(BytesOf(b, F)) \in Nat
  BY BytesFacts
<1>6. IsFiniteSet({}) /\ Cardinality({}) = 0
  BY FS_EmptySet
<1> HIDE DEF A
<1>7. Cardinality(BytesOf(b, F) \cup A)
      = Cardinality(BytesOf(b, F)) + Cardinality(A) - Cardinality(BytesOf(b, F) \cap A)
  BY <1>2, <1>5, FS_Union
<1>8. Cardinality(BytesOf(b, F) \cap A) = 0
  BY <1>4, <1>6
<1>9. Cardinality(BytesOf(b, F) \cup A) = Cardinality(BytesOf(b, F)) + b[a].size
  BY <1>1, <1>2, <1>5, <1>7, <1>8
<1>10. QED
  BY <1>3, <1>9

-----------------------------------------------------------------------------
(* The block that pvPortMalloc takes: off the list, then divided.           *)
OffList(b, a, p) ==
    [q \in DOMAIN b |->
        IF q = a THEN [next |-> NULL, size |-> b[a].size, allocated |-> TRUE]
        ELSE IF q = p THEN [next |-> b[a].next, size |-> b[p].size, allocated |-> b[p].allocated]
        ELSE b[q]]

Divided(b, a, size) ==
    [q \in DOMAIN b \cup {a + size} |->
        IF q = a + size THEN Header(NULL, b[a].size - size)
        ELSE IF q = a THEN [next |-> NULL, size |-> size, allocated |-> TRUE]
        ELSE b[q]]

LEMMA TakenSteps ==
  ASSUME NEW b, Laid(b), NEW p \in BlocksOf(b) \cup {xStart}, NEW a \in BlocksOf(b), a = b[p].next,
         p # a, NEW size \in Nat, size > 0
  PROVE  Taken(b, p, size)
         = IF Splits(b[a].size - size)
           THEN prvInsertBlockIntoFreeList(Divided(OffList(b, a, p), a, size), a + size)
           ELSE OffList(b, a, p)
<1> DEFINE rest == b[a].size - size
           Off == [b EXCEPT ![p].next = b[a].next]
           Marked(s) == [Off EXCEPT ![a] = [next |-> NULL, size |-> s, allocated |-> TRUE]]
           Shape(s) == [q \in DOMAIN b |->
                          IF q = a THEN [next |-> NULL, size |-> s, allocated |-> TRUE]
                          ELSE IF q = p THEN [next |-> b[a].next, size |-> b[p].size,
                                              allocated |-> b[p].allocated]
                          ELSE b[q]]
           d == Divided(OffList(b, a, p), a, size)
           c == Extended(Marked(size), a + size, Header(NULL, rest))
<1>1. a \in Nat /\ a \in DOMAIN b /\ p \in DOMAIN b /\ b[p] \in Headers /\ b[a].size \in Nat
  <2>1. /\ BlocksOf(b) \subseteq Nat /\ xStart \in DOMAIN b
        /\ DOMAIN b = BlocksOf(b) \cup {xStart, EndOfHeap}
    BY LaidFacts
  <2>2. \A q \in DOMAIN b : b[q] \in Headers /\ b[q].size \in Nat /\ q \in Nat
    BY LaidFacts
  <2>3. QED
    BY <2>1, <2>2
<1>2. ASSUME NEW s PROVE Marked(s) = Shape(s)
  <2>1. [b[p] EXCEPT !.next = b[a].next]
        = [next |-> b[a].next, size |-> b[p].size, allocated |-> b[p].allocated]
    BY <1>1 DEF Headers
  <2>2. DOMAIN Off = DOMAIN b
    OBVIOUS
  <2>3. /\ Off[p] = [next |-> b[a].next, size |-> b[p].size, allocated |-> b[p].allocated]
        /\ \A q \in DOMAIN b \ {p} : Off[q] = b[q]
    BY <1>1, <2>1
  <2> HIDE DEF Off
  <2>4. Marked(s) = [q \in DOMAIN b |->
                       IF q = a THEN [next |-> NULL, size |-> s, allocated |-> TRUE] ELSE Off[q]]
    BY <2>2
  <2>5. QED
    BY <2>3, <2>4
<1>3. Taken(b, p, size) = IF Splits(rest) THEN prvInsertBlockIntoFreeList(c, a + size)
                          ELSE Marked(b[a].size)
  BY DEF Taken
<1> HIDE DEF Marked
<1>4. Marked(b[a].size) = OffList(b, a, p)
  BY <1>2 DEF OffList
<1>5. c = d
  <2>1. /\ DOMAIN OffList(b, a, p) = DOMAIN b
        /\ OffList(b, a, p)[a].size = b[a].size
        /\ \A q \in DOMAIN b \ {a} : OffList(b, a, p)[q] = Shape(size)[q]
    BY <1>1 DEF OffList
  <2>2. \A q \in DOMAIN b \cup {a + size} :
          (IF q = a + size THEN Header(NULL, OffList(b, a, p)[a].size - size)
           ELSE IF q = a THEN [next |-> NULL, size |-> size, allocated |-> TRUE]
           ELSE OffList(b, a, p)[q])
          = IF q = a + size THEN Header(NULL, rest) ELSE Shape(size)[q]
    BY <1>1, <2>1
  <2>4. DOMAIN Shape(size) = DOMAIN b
    OBVIOUS
  <2>3. d = [q \in DOMAIN b \cup {a + size} |->
               IF q = a + size THEN Header(NULL, rest) ELSE Shape(size)[q]]
    BY <2>1, <2>2 DEF Divided
  <2> HIDE DEF Shape
  <2>7. c = [q \in DOMAIN b \cup {a + size} |->
               IF q = a + size THEN Header(NULL, rest) ELSE Shape(size)[q]]
    BY <1>2, <2>4 DEF Extended
  <2>8. QED
    BY <2>3, <2>7
<1>6. QED
  BY <1>3, <1>4, <1>5

(* u is b without the block a in its list.                                  *)
IsOffList(u, b, F, a) ==
    /\ Laid(u) /\ BlocksOf(u) = BlocksOf(b) /\ ListOf(u, F \ {a})
    /\ Touching(u, F \ {a}) = {}
    /\ \A q \in BlocksOf(b) : u[q].size = b[q].size
    /\ \A q \in BlocksOf(b) \ F : u[q] = b[q]
    /\ u[a].allocated

LEMMA OffListFacts ==
  ASSUME NEW b, NEW F, NEW a, NEW p, Laid(b), ListOf(b, F), Touching(b, F) = {},
         p \in F \cup {xStart}, a \in F, a = b[p].next
  PROVE  IsOffList(OffList(b, a, p), b, F, a)
<1> DEFINE u == OffList(b, a, p)
<1>a. /\ BlocksOf(b) \subseteq Nat /\ xStart \in DOMAIN b /\ EndOfHeap \in DOMAIN b
      /\ xStart \notin BlocksOf(b) /\ EndOfHeap \notin BlocksOf(b)
      /\ DOMAIN b = BlocksOf(b) \cup {xStart, EndOfHeap}
  BY LaidFacts
<1>b. \A q \in DOMAIN b : /\ b[q] \in Headers /\ b[q].next \in Nat /\ b[q].size \in Nat
                         /\ q \in Nat
  BY LaidFacts
<1>1. F \subseteq BlocksOf(b) /\ EndOfHeap \in Nat /\ xStart \in Nat /\ xStart # EndOfHeap
  BY HeapBounds, HeapNumbers DEF ListOf
<1>2. /\ a \in Nat /\ a \in DOMAIN b /\ a # EndOfHeap /\ a # xStart
      /\ p \in Nat /\ p \in DOMAIN b /\ p # EndOfHeap
      /\ Follows(a, p, F \cup {EndOfHeap}) /\ Follows(b[a].next, a, F \cup {EndOfHeap})
  BY <1>a, <1>b, <1>1 DEF ListOf
<1>3. p < a /\ p # a
  BY <1>2 DEF Follows
<1>4. /\ DOMAIN u = DOMAIN b
      /\ u[a] = [next |-> NULL, size |-> b[a].size, allocated |-> TRUE]
      /\ u[p] = [next |-> b[a].next, size |-> b[p].size, allocated |-> b[p].allocated]
      /\ \A q \in DOMAIN b \ {a, p} : u[q] = b[q]
  BY <1>2, <1>3 DEF OffList
<1> HIDE DEF u
<1>5. /\ u[a].next = NULL /\ u[a].size = b[a].size /\ u[a].allocated
      /\ u[p].next = b[a].next /\ u[p].size = b[p].size /\ u[p].allocated = b[p].allocated
  BY <1>4
<1>6. u[a] \in Headers /\ u[p] \in Headers
  <2>1. b[p].allocated \in BOOLEAN
    BY <1>b, <1>2 DEF Headers
  <2>2. QED
    BY <1>b, <1>2, <1>4, <2>1 DEF Headers, NULL
<1>7. BlocksOf(u) = BlocksOf(b) /\ \A q \in DOMAIN b : u[q].size = b[q].size
  BY <1>4, <1>5 DEF BlocksOf
<1>8. Laid(u)
  <2>1. {xStart, StartOfHeap, EndOfHeap} \subseteq DOMAIN u /\ DOMAIN u \subseteq Nat
    BY <1>4 DEF Laid
  <2>2. \A q \in DOMAIN u : u[q] \in Headers
    BY <1>b, <1>4, <1>6
  <2>3. u[xStart].size = 0 /\ u[EndOfHeap].next = NULL /\ u[EndOfHeap].size = 0
    <3>1. u[EndOfHeap] = b[EndOfHeap]
      BY <1>a, <1>2, <1>4
    <3>2. QED
      BY <1>a, <1>7, <3>1 DEF Laid
  <2>4. \A q \in BlocksOf(u) :
          /\ StartOfHeap <= q /\ q < EndOfHeap /\ Aligned(q)
          /\ u[q].size > xHeapStructSize /\ Aligned(u[q].size)
          /\ Follows(q + u[q].size, q, BlocksOf(u) \cup {EndOfHeap})
    <3>1. \A q \in BlocksOf(u) : q \in DOMAIN b /\ u[q].size = b[q].size
      BY <1>a, <1>7
    <3>2. QED
      BY <1>7, <3>1 DEF Laid
  <2>5. QED
    BY <2>1, <2>2, <2>3, <2>4 DEF Laid
<1>9. ListOf(u, F \ {a})
  <2>1. F \ {a} \subseteq BlocksOf(u)
    BY <1>1, <1>7
  <2>2. ASSUME NEW q \in F \ {a} PROVE ~ u[q].allocated
    <3>1. q \in DOMAIN b /\ ~ b[q].allocated
      BY <1>a, <1>1 DEF ListOf
    <3>2. QED
      BY <1>4, <1>5, <3>1
  <2>3. ASSUME NEW q \in BlocksOf(u) \ (F \ {a}) PROVE u[q].next = NULL
    <3>1. q \in BlocksOf(b) /\ q \in DOMAIN b /\ (q = a \/ q \notin F)
      BY <1>a, <1>7
    <3>2. q # a => q # p /\ b[q].next = NULL
      BY <1>a, <3>1 DEF ListOf
    <3>3. QED
      BY <1>4, <1>5, <3>1, <3>2
  <2>4. ASSUME NEW q \in (F \ {a}) \cup {xStart}
        PROVE  Follows(u[q].next, q, (F \ {a}) \cup {EndOfHeap})
    <3>1. q \in DOMAIN b /\ q \in Nat /\ q # a /\ Follows(b[q].next, q, F \cup {EndOfHeap})
      BY <1>a, <1>b, <1>1, <1>2 DEF ListOf
    <3>2. \A d \in F \cup {EndOfHeap} : d \in Nat
      BY <1>a, <1>1
    <3>3. CASE q = p
      <4>1. /\ b[a].next \in F \cup {EndOfHeap} /\ b[a].next > a /\ b[a].next \in Nat
            /\ \A d \in F \cup {EndOfHeap} : d > a => b[a].next <= d
            /\ \A d \in F \cup {EndOfHeap} : d > p => a <= d
        BY <1>b, <1>2 DEF Follows
      <4>2. \A d \in (F \ {a}) \cup {EndOfHeap} : d > p => d > a
        BY <1>2, <3>2, <4>1
      <4>3. b[a].next # a /\ b[a].next > p
        BY <1>2, <1>3, <4>1
      <4>4. QED
        BY <1>5, <3>3, <4>1, <4>2, <4>3 DEF Follows
    <3>4. CASE q # p
      <4>1. u[q] = b[q]
        BY <1>4, <3>1, <3>4
      <4>2. b[q].next # a
        <5>1. CASE q < p
          <6>1. p \in F \cup {EndOfHeap}
            <7>1. p # xStart
              BY <1>a, <1>1, <3>1, <5>1, LaidFacts
            <7>2. QED
              BY <7>1
          <6>2. b[q].next <= p
            BY <3>1, <5>1, <6>1 DEF Follows
          <6>3. QED
            BY <1>2, <1>3, <6>2
        <5>2. CASE q > p
          <6>1. q \in F
            <7>1. q # xStart
              <8>1. \A e \in BlocksOf(b) : xStart < e
                BY LaidFacts
              <8>2. p = xStart \/ xStart < p
                BY <1>1, <8>1
              <8>3. QED
                BY <1>1, <1>2, <3>1, <5>2, <8>2
            <7>2. QED
              BY <7>1
          <6>2. a <= q
            BY <1>2, <5>2, <6>1 DEF Follows
          <6>3. b[q].next > q /\ b[q].next \in Nat
            BY <1>b, <3>1 DEF Follows
          <6>4. QED
            BY <1>2, <3>1, <6>2, <6>3
        <5>3. QED
          BY <1>2, <3>1, <3>4, <5>1, <5>2
      <4>3. QED
        BY <3>1, <4>1, <4>2 DEF Follows
    <3>5. QED
      BY <3>3, <3>4
  <2>5. QED
    BY <2>1, <2>2, <2>3, <2>4 DEF ListOf
<1>10. Touching(u, F \ {a}) = {}
  <2>1. \A q \in F : u[q].size = b[q].size
    BY <1>a, <1>1, <1>7
  <2>2. QED
    BY <2>1 DEF Touching
<1>11. \A q \in BlocksOf(b) : u[q].size = b[q].size
  BY <1>a, <1>7
<1>12. \A q \in BlocksOf(b) \ F : u[q] = b[q]
  BY <1>a, <1>4
<1>13. QED
  BY <1>5, <1>7, <1>8, <1>9, <1>10, <1>11, <1>12 DEF u, IsOffList

(* d is b with the allocated block a cut in two after size bytes.           *)
IsDivided(d, b, F, a, size) ==
    /\ Laid(d) /\ BlocksOf(d) = BlocksOf(b) \cup {a + size} /\ a + size \notin BlocksOf(b)
    /\ ListOf(d, F) /\ Touching(d, F) = {}
    /\ \A q \in BlocksOf(b) \ {a} : d[q] = b[q]
    /\ d[a].size = size /\ d[a].allocated /\ d[a + size].size = b[a].size - size

LEMMA DividedFacts ==
  ASSUME NEW b, NEW F, NEW a, NEW size, Laid(b), ListOf(b, F), Touching(b, F) = {},
         a \in BlocksOf(b) \ F, size \in Nat, Aligned(size), size > xHeapStructSize,
         b[a].size - size > 2 * xHeapStructSize
  PROVE  IsDivided(Divided(b, a, size), b, F, a, size)
<1> DEFINE c == a + size
           rest == b[a].size - size
           d == Divided(b, a, size)
<1>a. /\ BlocksOf(b) \subseteq Nat /\ xStart \in DOMAIN b /\ EndOfHeap \in DOMAIN b
      /\ xStart \notin BlocksOf(b) /\ EndOfHeap \notin BlocksOf(b)
      /\ DOMAIN b = BlocksOf(b) \cup {xStart, EndOfHeap}
  BY LaidFacts
<1>b. \A q \in DOMAIN b : /\ b[q] \in Headers /\ b[q].next \in Nat /\ b[q].size \in Nat
                         /\ q \in Nat
  BY LaidFacts
<1>c. /\ \A q \in BlocksOf(b) : xStart < q /\ q < EndOfHeap /\ b[q].size > 0
      /\ \A q, e \in BlocksOf(b) : q < e => q + b[q].size <= e
  BY LaidFacts
<1>1. /\ F \subseteq BlocksOf(b) /\ EndOfHeap \in Nat /\ xStart \in Nat /\ xStart # EndOfHeap
      /\ xHeapStructSize \in Nat
  BY HeapBounds, HeapNumbers DEF ListOf
<1>2. /\ a \in Nat /\ a \in DOMAIN b /\ a # EndOfHeap /\ a # xStart /\ b[a].size \in Nat
      /\ StartOfHeap <= a /\ a < EndOfHeap /\ Aligned(a) /\ Aligned(b[a].size)
      /\ Follows(a + b[a].size, a, BlocksOf(b) \cup {EndOfHeap})
  <2>1. /\ a \in Nat /\ a \in DOMAIN b /\ a # EndOfHeap /\ a # xStart /\ b[a].size \in Nat
    BY <1>a, <1>b
  <2>2. QED
    BY <2>1 DEF Laid
<1>3. rest \in Nat /\ rest > xHeapStructSize /\ Aligned(rest) /\ rest < b[a].size
  <2>1. size <= b[a].size /\ rest > xHeapStructSize /\ rest < b[a].size
    BY <1>1, <1>2
  <2>2. QED
    BY <1>2, <2>1, AlignedDifference
<1>4. c \in Nat /\ Aligned(c) /\ a < c /\ c + rest = a + b[a].size /\ c < a + b[a].size
  <2>1. c \in Nat /\ Aligned(c) /\ size \in Nat
    BY <1>2, AlignedSum
  <2>2. a < c /\ c + rest = a + b[a].size /\ c < a + b[a].size
    BY <1>1, <1>2, <1>3
  <2>3. QED
    BY <2>1, <2>2
<1> HIDE DEF c, rest
<1>5. c < EndOfHeap /\ StartOfHeap <= c
  <2>1. a + b[a].size <= EndOfHeap
    BY <1>2 DEF Follows
  <2>2. QED
    BY <1>1, <1>2, <1>4, <2>1, HeapBounds
<1>6. c \notin DOMAIN b
  <2>1. c \notin BlocksOf(b)
    <3>1. c > a /\ ~ (a + b[a].size <= c)
      BY <1>2, <1>4
    <3>2. QED
      BY <1>2, <3>1 DEF Follows
  <2>2. c # EndOfHeap /\ c # xStart
    BY <1>1, <1>2, <1>4, <1>5, HeapBounds
  <2>3. QED
    BY <1>a, <2>1, <2>2
<1>7. /\ DOMAIN d = DOMAIN b \cup {c}
      /\ d[c] = Header(NULL, rest)
      /\ d[a] = [next |-> NULL, size |-> size, allocated |-> TRUE]
      /\ \A q \in DOMAIN b \ {a} : d[q] = b[q]
  <2>1. c # a /\ \A q \in DOMAIN b : q # c
    BY <1>2, <1>6
  <2>2. d = [q \in DOMAIN b \cup {c} |->
               IF q = c THEN Header(NULL, rest)
               ELSE IF q = a THEN [next |-> NULL, size |-> size, allocated |-> TRUE]
               ELSE b[q]]
    BY DEF Divided, c, rest
  <2>3. QED
    BY <1>2, <2>1, <2>2
<1> HIDE DEF d
<1>8. /\ d[c].next = NULL /\ d[c].size = rest /\ ~ d[c].allocated /\ d[c] \in Headers
      /\ d[a].next = NULL /\ d[a].size = size /\ d[a].allocated /\ d[a] \in Headers
  BY <1>3, <1>7 DEF Header, Headers, NULL
<1>9. BlocksOf(d) = BlocksOf(b) \cup {c}
  BY <1>a, <1>6, <1>7 DEF BlocksOf
<1>10. Laid(d)
  <2>1. {xStart, StartOfHeap, EndOfHeap} \subseteq DOMAIN d /\ DOMAIN d \subseteq Nat
    BY <1>4, <1>7 DEF Laid
  <2>2. \A q \in DOMAIN d : d[q] \in Headers
    BY <1>b, <1>7, <1>8
  <2>3. d[xStart].size = 0 /\ d[EndOfHeap].next = NULL /\ d[EndOfHeap].size = 0
    <3>1. d[EndOfHeap] = b[EndOfHeap] /\ d[xStart] = b[xStart]
      BY <1>a, <1>2, <1>7
    <3>2. QED
      BY <3>1 DEF Laid
  <2>4. ASSUME NEW q \in BlocksOf(d)
        PROVE  /\ StartOfHeap <= q /\ q < EndOfHeap /\ Aligned(q)
               /\ d[q].size > xHeapStructSize /\ Aligned(d[q].size)
               /\ Follows(q + d[q].size, q, BlocksOf(d) \cup {EndOfHeap})
    <3>1. CASE q = a
      <4>1. ASSUME NEW e \in BlocksOf(b) \cup {c, EndOfHeap}, e > a PROVE c <= e
        <5>1. CASE e = c
          BY <1>4, <5>1
        <5>2. CASE e # c
          <6>1. a + b[a].size <= e /\ e \in Nat
            BY <1>a, <1>1, <1>2, <4>1, <5>2 DEF Follows
          <6>2. QED
            BY <1>2, <1>4, <6>1
        <5>3. QED
          BY <5>1, <5>2
      <4>2. Follows(c, a, BlocksOf(d) \cup {EndOfHeap})
        BY <1>4, <1>9, <4>1 DEF Follows
      <4>3. QED
        BY <1>2, <1>8, <3>1, <4>2 DEF c
    <3>2. CASE q = c
      <4>1. /\ a + b[a].size \in BlocksOf(b) \cup {EndOfHeap}
            /\ \A e \in BlocksOf(b) \cup {EndOfHeap} : e > a => a + b[a].size <= e
        BY <1>2 DEF Follows
      <4>2. ASSUME NEW e \in BlocksOf(d) \cup {EndOfHeap}, e > c PROVE a + b[a].size <= e
        <5>1. e \in BlocksOf(b) \cup {EndOfHeap} /\ e \in Nat
          BY <1>a, <1>1, <1>4, <1>9, <4>2
        <5>2. e > a
          BY <1>2, <1>4, <4>2, <5>1
        <5>3. QED
          BY <4>1, <5>1, <5>2
      <4>3. Follows(a + b[a].size, c, BlocksOf(d) \cup {EndOfHeap})
        BY <1>4, <1>9, <4>1, <4>2 DEF Follows
      <4>4. QED
        BY <1>3, <1>4, <1>5, <1>8, <3>2, <4>3
    <3>3. CASE q # a /\ q # c
      <4>1. q \in BlocksOf(b) /\ d[q] = b[q] /\ q \in Nat /\ b[q].size \in Nat
        BY <1>a, <1>b, <1>7, <1>9, <3>3
      <4>2. /\ StartOfHeap <= q /\ q < EndOfHeap /\ Aligned(q)
            /\ b[q].size > xHeapStructSize /\ Aligned(b[q].size)
            /\ Follows(q + b[q].size, q, BlocksOf(b) \cup {EndOfHeap})
        BY <4>1 DEF Laid
      <4>3. q < c => q + b[q].size <= c
        <5>1. CASE q < a
          BY <1>c, <1>2, <1>4, <4>1, <5>1
        <5>2. CASE q > a
          <6>1. a + b[a].size <= q
            BY <1>c, <4>1, <5>2
          <6>2. QED
            BY <1>2, <1>4, <4>1, <6>1
        <5>3. QED
          BY <1>2, <3>3, <4>1, <5>1, <5>2
      <4>4. Follows(q + b[q].size, q, BlocksOf(d) \cup {EndOfHeap})
        BY <1>4, <1>9, <4>1, <4>2, <4>3 DEF Follows
      <4>5. QED
        BY <4>1, <4>2, <4>4
    <3>4. QED
      BY <3>1, <3>2, <3>3
  <2>5. QED
    BY <2>1, <2>2, <2>3, <2>4 DEF Laid
<1>11. \A q \in F \cup {xStart} : d[q] = b[q] /\ q \in DOMAIN b
  BY <1>a, <1>1, <1>2, <1>7
<1>12. ListOf(d, F)
  <2>1. F \subseteq BlocksOf(d) /\ \A q \in F : ~ d[q].allocated
    BY <1>1, <1>9, <1>11 DEF ListOf
  <2>2. ASSUME NEW q \in BlocksOf(d) \ F PROVE d[q].next = NULL
    <3>1. q \notin {a, c} => q \in BlocksOf(b) \ F /\ d[q] = b[q]
      BY <1>a, <1>7, <1>9
    <3>2. QED
      BY <1>8, <3>1 DEF ListOf
  <2>3. \A q \in F \cup {xStart} : Follows(d[q].next, q, F \cup {EndOfHeap})
    BY <1>11 DEF ListOf
  <2>4. QED
    BY <2>1, <2>2, <2>3 DEF ListOf
<1>13. Touching(d, F) = {}
  BY <1>11 DEF Touching
<1>14. \A q \in BlocksOf(b) \ {a} : d[q] = b[q]
  BY <1>a, <1>7
<1>15. c \notin BlocksOf(b)
  BY <1>a, <1>6
<1>16. QED
  BY <1>8, <1>9, <1>10, <1>12, <1>13, <1>14, <1>15 DEF d, c, rest, IsDivided

(* t, with the list G, is b, with the list F, after size bytes or more were *)
(* taken from its block a.                                                  *)
IsTaken(t, G, b, F, a, size) ==
    /\ Laid(t) /\ ListOf(t, G) /\ Touching(t, G) = {}
    /\ BlocksOf(t) \ G = (BlocksOf(b) \ F) \cup {a}
    /\ \A q \in BlocksOf(b) \ F : t[q] = b[q]
    /\ t[a].allocated /\ t[a].size >= size /\ t[a].size \in Nat
    /\ Cardinality(BytesOf(t, G)) = Cardinality(BytesOf(b, F)) - t[a].size

LEMMA TakenFacts ==
  ASSUME NEW b, NEW F, NEW p, NEW a, NEW size, Laid(b), ListOf(b, F), Touching(b, F) = {},
         p \in F \cup {xStart}, a \in F, a = b[p].next,
         size \in Nat, Aligned(size), size > xHeapStructSize, ~ (b[a].size < size)
  PROVE  \E G : IsTaken(Taken(b, p, size), G, b, F, a, size)
<1> DEFINE u == OffList(b, a, p)
           E == F \ {a}
           t == Taken(b, p, size)
<1>1. /\ F \subseteq BlocksOf(b) /\ a \in BlocksOf(b) /\ a \in Nat /\ xHeapStructSize \in Nat
      /\ p \in BlocksOf(b) \cup {xStart}
  BY LaidFacts, HeapNumbers DEF ListOf
<1>2. p # a /\ b[a].size \in Nat
  <2>1. a > p /\ p \in Nat
    <3>1. Follows(a, p, F \cup {EndOfHeap})
      BY DEF ListOf
    <3>2. p \in Nat
      BY <1>1, LaidFacts, HeapBounds
    <3>3. QED
      BY <3>1, <3>2 DEF Follows
  <2>2. a \in DOMAIN b
    BY <1>1 DEF BlocksOf
  <2>3. b[a].size \in Nat
    BY <2>2, LaidFacts
  <2>4. QED
    BY <1>1, <2>1, <2>3
<1>3. t = IF Splits(b[a].size - size) THEN prvInsertBlockIntoFreeList(Divided(u, a, size), a + size)
          ELSE u
  BY <1>1, <1>2, TakenSteps, HeapNumbers
<1>4. /\ Laid(u) /\ BlocksOf(u) = BlocksOf(b) /\ ListOf(u, E) /\ Touching(u, E) = {}
      /\ \A q \in BlocksOf(b) : u[q].size = b[q].size
      /\ \A q \in BlocksOf(b) \ F : u[q] = b[q]
      /\ u[a].allocated
  <2>1. IsOffList(u, b, F, a)
    BY OffListFacts
  <2>2. QED
    BY <2>1 DEF IsOffList
<1> HIDE DEF u, t
<1>5. E \in SUBSET BlocksOf(u) /\ a \in BlocksOf(u) \ E /\ E \cup {a} = F /\ u[a].size = b[a].size
  BY <1>1, <1>4
<1>6. BytesOf(u, E) = BytesOf(b, E)
  <2>1. \A q \in E : u[q].size = b[q].size
    BY <1>1, <1>4
  <2>2. QED
    BY <2>1 DEF BytesOf
<1>7. /\ Cardinality(BytesOf(b, F)) = Cardinality(BytesOf(b, E)) + b[a].size
      /\ Cardinality(BytesOf(b, E)) \in Nat
  <2>1. E \in SUBSET BlocksOf(b) /\ a \in BlocksOf(b) \ E
    BY <1>1
  <2>2. Cardinality(BytesOf(b, E \cup {a})) = Cardinality(BytesOf(b, E)) + b[a].size
    BY <2>1, BytesAdded
  <2>3. Cardinality(BytesOf(b, E)) \in Nat
    BY <2>1, BytesFacts
  <2>4. QED
    BY <1>5, <2>2, <2>3
<1>8. CASE ~ Splits(b[a].size - size)
  <2>1. BlocksOf(u) \ E = (BlocksOf(b) \ F) \cup {a}
    BY <1>1, <1>4
  <2>2. u[a].size >= size /\ u[a].size \in Nat
    BY <1>2, <1>5
  <2>3. Cardinality(BytesOf(u, E)) = Cardinality(BytesOf(b, F)) - u[a].size
    BY <1>2, <1>5, <1>6, <1>7
  <2>4. IsTaken(u, E, b, F, a, size)
    BY <1>4, <2>1, <2>2, <2>3 DEF IsTaken
  <2>5. QED
    BY <1>3, <1>8, <2>4 DEF t
<1>9. CASE Splits(b[a].size - size)
  <2> DEFINE d == Divided(u, a, size)
             c == a + size
             L == E \cup {c}
  <2>1. u[a].size - size > 2 * xHeapStructSize
    BY <1>5, <1>9 DEF Splits, heapMINIMUM_BLOCK_SIZE
  <2>2. /\ Laid(d) /\ BlocksOf(d) = BlocksOf(u) \cup {c} /\ c \notin BlocksOf(u)
        /\ ListOf(d, E) /\ Touching(d, E) = {}
        /\ \A q \in BlocksOf(u) \ {a} : d[q] = u[q]
        /\ d[a].size = size /\ d[a].allocated /\ d[c].size = u[a].size - size
    <3>1. /\ Laid(u) /\ ListOf(u, E) /\ Touching(u, E) = {} /\ a \in BlocksOf(u) \ E
      BY <1>4, <1>5
    <3>2. IsDivided(d, u, E, a, size)
      BY <2>1, <3>1, DividedFacts
    <3>3. QED
      BY <3>2 DEF IsDivided
  <2> HIDE DEF c, d
  <2>3. c \in BlocksOf(d) \ E
    BY <1>5, <2>2
  <2>4. PICK gone \in SUBSET L :
          IsInserted(prvInsertBlockIntoFreeList(d, c), d, L, gone)
    <3>1. Laid(d) /\ ListOf(d, E) /\ Touching(d, E) = {}
      BY <2>2
    <3>2. InsertedInto(prvInsertBlockIntoFreeList(d, c), d, E, c)
      BY <2>3, <3>1, InsertFacts
    <3>3. QED
      BY <3>2 DEF InsertedInto
  <2>5. t = prvInsertBlockIntoFreeList(d, c)
    BY <1>3, <1>9 DEF c, d
  <2> DEFINE G == L \ gone
  <2>6. /\ Laid(t) /\ BlocksOf(t) = BlocksOf(d) \ gone
        /\ ListOf(t, G) /\ Touching(t, G) = {}
        /\ BytesOf(t, G) = BytesOf(d, L)
        /\ \A q \in BlocksOf(d) \ L : t[q] = d[q]
    BY <2>4, <2>5 DEF IsInserted
  <2>7. BlocksOf(t) \ G = (BlocksOf(b) \ F) \cup {a}
    <3>1. BlocksOf(t) = (BlocksOf(b) \cup {c}) \ gone /\ c \notin BlocksOf(b)
      BY <1>4, <2>2, <2>6
    <3>2. a \in BlocksOf(b) /\ a \in F /\ gone \subseteq (F \ {a}) \cup {c}
      BY <1>1, <2>4
    <3>3. QED
      BY <3>1, <3>2
  <2>8. \A q \in BlocksOf(b) \ F : t[q] = b[q]
    BY <1>1, <1>4, <1>5, <2>2, <2>6
  <2>9. t[a] = d[a]
    BY <1>5, <2>2, <2>6
  <2>10. Cardinality(BytesOf(t, G)) = Cardinality(BytesOf(b, F)) - t[a].size
    <3>1. Cardinality(BytesOf(d, L)) = Cardinality(BytesOf(d, E)) + d[c].size
      <4>1. E \in SUBSET BlocksOf(d)
        BY <1>5, <2>2
      <4>2. Laid(d)
        BY <2>2
      <4>3. QED
        BY <2>3, <4>1, <4>2, BytesAdded
    <3>2. BytesOf(d, E) = BytesOf(u, E)
      <4>1. \A q \in E : d[q].size = u[q].size
        BY <1>5, <2>2
      <4>2. QED
        BY <4>1 DEF BytesOf
    <3>3. Cardinality(BytesOf(t, G)) = Cardinality(BytesOf(b, E)) + (b[a].size - size)
      BY <1>5, <1>6, <2>2, <2>6, <3>1, <3>2
    <3>4. t[a].size = size
      BY <2>2, <2>9
    <3>5. QED
      BY <1>2, <1>7, <3>3, <3>4
  <2>11. t[a].size >= size /\ t[a].size \in Nat
    BY <2>2, <2>9
  <2>12. IsTaken(t, G, b, F, a, size)
    BY <2>2, <2>6, <2>7, <2>8, <2>9, <2>10, <2>11 DEF IsTaken
  <2>13. QED
    BY <2>12 DEF t
<1>10. QED
  BY <1>8, <1>9

(* The size that is looked for has room for the header and what was asked.  *)
LEMMA WantedFacts ==
  ASSUME NEW n \in Nat, n < xBlockAllocatedBit, WantedSize(n) > 0
  PROVE  /\ WantedSize(n) \in Nat /\ Aligned(WantedSize(n))
         /\ WantedSize(n) > xHeapStructSize /\ WantedSize(n) >= n + xHeapStructSize
<1>1. /\ xHeapStructSize \in Nat /\ portBYTE_ALIGNMENT \in Nat /\ SizeMod \in Nat
      /\ portBYTE_ALIGNMENT <= xHeapStructSize
      /\ 4 * xHeapStructSize < SizeMod \div 2 /\ xHeapStructSize > 0
  BY HeapNumbers
<1>2. n > 0
  BY DEF WantedSize
<1>3. PICK half \in Nat : half = SizeMod \div 2 /\ 2 * half <= SizeMod
  BY <1>1
<1>4. PICK up : up = AlignedUp(n + xHeapStructSize)
  OBVIOUS
<1>5. /\ up \in Nat /\ Aligned(up) /\ up >= n + xHeapStructSize
      /\ up < n + xHeapStructSize + portBYTE_ALIGNMENT
  <2>1. n + xHeapStructSize \in Nat
    BY <1>1
  <2>2. QED
    BY <1>4, <2>1, AlignedUpFacts
<1>6. n < half
  BY <1>3 DEF xBlockAllocatedBit
<1>7. up < SizeMod
  BY <1>1, <1>3, <1>5, <1>6
<1>8. up % SizeMod = up
  BY <1>1, <1>5, <1>7
<1>9. WantedSize(n) = up
  BY <1>2, <1>4, <1>8 DEF WantedSize
<1>10. QED
  BY <1>1, <1>2, <1>5, <1>9

-----------------------------------------------------------------------------
(* A heap whose used blocks are the program's and those that are on their   *)
(* way back, and whose list has the others.                                 *)
FreeOf(b, own, fr) == BlocksOf(b) \ (DOMAIN own \cup fr)

Whole(b, free, least, own, fr) ==
    /\ Laid(b) /\ DOMAIN own \cup fr \subseteq BlocksOf(b) /\ DOMAIN own \cap fr = {}
    /\ ListOf(b, FreeOf(b, own, fr)) /\ Touching(b, FreeOf(b, own, fr)) = {}
    /\ free = Cardinality(BytesOf(b, FreeOf(b, own, fr)))
    /\ least \in Nat /\ least <= free
    /\ \A a \in DOMAIN own : /\ b[a].allocated /\ own[a] \in Nat
                             /\ b[a].size >= own[a] + xHeapStructSize
    /\ \A a \in fr : ~ b[a].allocated

HeapInv ==
    /\ pxEnd \in {NULL, EndOfHeap}
    /\ pxEnd = NULL => /\ DOMAIN block = {} /\ DOMAIN owned = {} /\ freeing = {}
                       /\ xFreeBytesRemaining = 0
    /\ pxEnd # NULL => Whole(block, xFreeBytesRemaining, xMinimumEverFreeBytesRemaining,
                             owned, freeing)

LEMMA prvHeapInitWhole ==
  ASSUME NEW own, DOMAIN own = {}
  PROVE  Whole(prvHeapInit.block, prvHeapInit.free, prvHeapInit.least, own, {})
<1> DEFINE b == prvHeapInit.block
           size == EndOfHeap - StartOfHeap
           F == FreeOf(b, own, {})
<1>1. /\ xStart \in Nat /\ StartOfHeap \in Nat /\ EndOfHeap \in Nat
      /\ xStart < StartOfHeap /\ StartOfHeap < EndOfHeap /\ xHeapStructSize \in Nat
      /\ size \in Nat /\ size > xHeapStructSize /\ size > 0
  BY HeapBounds, HeapNumbers
<1>2. /\ prvHeapInit.free = size /\ prvHeapInit.least = size
      /\ b = Extended(Extended(Extended(NoBlocks, xStart, Header(StartOfHeap, 0)),
                               StartOfHeap, Header(EndOfHeap, size)),
                      EndOfHeap, Header(NULL, 0))
  BY DEF prvHeapInit
<1> HIDE DEF b
<1>3. /\ DOMAIN b = {xStart, StartOfHeap, EndOfHeap}
      /\ b[xStart] = Header(StartOfHeap, 0) /\ b[StartOfHeap] = Header(EndOfHeap, size)
      /\ b[EndOfHeap] = Header(NULL, 0)
  <2>1. DOMAIN NoBlocks = {}
    BY DEF NoBlocks
  <2>2. xStart # StartOfHeap /\ xStart # EndOfHeap /\ StartOfHeap # EndOfHeap
    BY <1>1
  <2> DEFINE e == Extended(NoBlocks, xStart, Header(StartOfHeap, 0))
             f == Extended(e, StartOfHeap, Header(EndOfHeap, size))
  <2>3. DOMAIN e = {xStart} /\ e[xStart] = Header(StartOfHeap, 0)
    BY <2>1 DEF Extended
  <2> HIDE DEF e
  <2>4. /\ DOMAIN f = {xStart, StartOfHeap} /\ f[xStart] = Header(StartOfHeap, 0)
        /\ f[StartOfHeap] = Header(EndOfHeap, size)
    BY <2>2, <2>3 DEF Extended
  <2> HIDE DEF f
  <2>5. b = Extended(f, EndOfHeap, Header(NULL, 0))
    BY <1>2 DEF e, f
  <2>6. QED
    BY <2>2, <2>4, <2>5 DEF Extended
<1>4. /\ b[xStart].next = StartOfHeap /\ b[xStart].size = 0 /\ b[xStart] \in Headers
      /\ b[StartOfHeap].next = EndOfHeap /\ b[StartOfHeap].size = size
      /\ ~ b[StartOfHeap].allocated /\ b[StartOfHeap] \in Headers
      /\ b[EndOfHeap].next = NULL /\ b[EndOfHeap].size = 0 /\ b[EndOfHeap] \in Headers
  BY <1>1, <1>3 DEF Header, Headers, NULL
<1>5. BlocksOf(b) = {StartOfHeap} /\ F = {StartOfHeap}
  BY <1>1, <1>3 DEF BlocksOf, FreeOf
<1>6. StartOfHeap + b[StartOfHeap].size = EndOfHeap
  BY <1>1, <1>4
<1>7. /\ Follows(EndOfHeap, StartOfHeap, {StartOfHeap} \cup {EndOfHeap})
      /\ Follows(StartOfHeap, xStart, {StartOfHeap} \cup {EndOfHeap})
  BY <1>1 DEF Follows
<1>8. Laid(b)
  <2>1. Aligned(StartOfHeap) /\ Aligned(size)
    BY <1>1, HeapBounds, AlignedDifference
  <2>2. /\ {xStart, StartOfHeap, EndOfHeap} \subseteq DOMAIN b /\ DOMAIN b \subseteq Nat
        /\ \A q \in DOMAIN b : b[q] \in Headers
    BY <1>1, <1>3, <1>4
  <2>3. \A q \in BlocksOf(b) :
          /\ StartOfHeap <= q /\ q < EndOfHeap /\ Aligned(q)
          /\ b[q].size > xHeapStructSize /\ Aligned(b[q].size)
          /\ Follows(q + b[q].size, q, BlocksOf(b) \cup {EndOfHeap})
    <3>1. /\ StartOfHeap <= StartOfHeap /\ StartOfHeap < EndOfHeap /\ Aligned(StartOfHeap)
          /\ b[StartOfHeap].size > xHeapStructSize /\ Aligned(b[StartOfHeap].size)
      BY <1>1, <1>4, <2>1
    <3>2. Follows(StartOfHeap + b[StartOfHeap].size, StartOfHeap, BlocksOf(b) \cup {EndOfHeap})
      BY <1>5, <1>6, <1>7
    <3>3. \A q \in BlocksOf(b) : q = StartOfHeap
      BY <1>5
    <3>4. QED
      BY <3>1, <3>2, <3>3
  <2>4. QED
    BY <1>4, <2>2, <2>3 DEF Laid
<1>9. ListOf(b, F)
  BY <1>4, <1>5, <1>7 DEF ListOf
<1>10. Touching(b, F) = {}
  BY <1>1, <1>5, <1>6 DEF Touching
<1>11. size = Cardinality(BytesOf(b, F))
  <2>1. BytesOf(b, {} \cup {StartOfHeap}) = BytesOf(b, F) /\ BytesOf(b, {}) = {}
    BY <1>5 DEF BytesOf
  <2>2. {} \in SUBSET BlocksOf(b) /\ StartOfHeap \in BlocksOf(b) \ {}
    BY <1>5
  <2>3. Cardinality(BytesOf(b, {} \cup {StartOfHeap})) = Cardinality(BytesOf(b, {})) + b[StartOfHeap].size
    BY <1>8, <2>2, BytesAdded
  <2>4. Cardinality({}) = 0
    BY FS_EmptySet
  <2>5. Cardinality(BytesOf(b, {})) = 0
    BY <2>1, <2>4
  <2>6. Cardinality(BytesOf(b, F)) = 0 + size
    BY <1>4, <2>1, <2>3, <2>5
  <2>7. QED
    BY <1>1, <2>6
<1>12. Whole(b, size, size, own, {})
  <2>1. size <= size
    BY <1>1
  <2>2. QED
    BY <1>1, <1>8, <1>9, <1>10, <1>11, <2>1 DEF Whole
<1>13. QED
  BY <1>2, <1>12 DEF b

LEMMA HeapIsWhole ==
  ASSUME HeapInv
  PROVE  Whole(Heap.block, Heap.free, Heap.least, owned, freeing)
<1>1. CASE pxEnd = NULL
  BY <1>1, prvHeapInitWhole DEF HeapInv, Heap
<1>2. CASE pxEnd # NULL
  BY <1>2 DEF HeapInv, Heap
<1>3. QED
  BY <1>1, <1>2

(* pvPortMalloc with a block found. *)
LEMMA WholeTaken ==
  ASSUME NEW b, NEW free, NEW least, NEW own, NEW fr, Whole(b, free, least, own, fr),
         NEW asked \in Nat, asked < xBlockAllocatedBit,
         NEW size, size = WantedSize(asked), size > 0,
         NEW p, p = FirstFit(b, size), NEW a, a = b[p].next, b[a].next # NULL,
         NEW t, t = Taken(b, p, size), NEW left, left = free - t[a].size
  PROVE  Whole(t, left, Min({left, least}), Extended(own, a, asked), fr)
<1> DEFINE F == FreeOf(b, own, fr)
           mine == Extended(own, a, asked)
<1>1. /\ Laid(b) /\ DOMAIN own \cup fr \subseteq BlocksOf(b) /\ DOMAIN own \cap fr = {}
      /\ ListOf(b, F) /\ Touching(b, F) = {}
      /\ free = Cardinality(BytesOf(b, F)) /\ least \in Nat
  BY DEF Whole
<1>2. /\ size \in Nat /\ Aligned(size) /\ size > xHeapStructSize
      /\ size >= asked + xHeapStructSize /\ xHeapStructSize \in Nat
  BY WantedFacts, HeapNumbers
<1>3. F \subseteq BlocksOf(b) /\ BlocksOf(b) \ F = DOMAIN own \cup fr
  BY <1>1 DEF FreeOf
<1> HIDE DEF F
<1>4. Chain(b, F)
  BY <1>1, LaidIsChain
<1>5. p \in F \cup {xStart} /\ a \in F \cup {EndOfHeap} /\ ~ (b[a].size < size)
  BY <1>4, FirstFitFacts
<1>6. a \in F
  BY <1>1, <1>5 DEF Laid
<1>7. PICK G : IsTaken(t, G, b, F, a, size)
  BY <1>1, <1>2, <1>5, <1>6, TakenFacts
<1>8. /\ Laid(t) /\ ListOf(t, G) /\ Touching(t, G) = {}
      /\ BlocksOf(t) \ G = DOMAIN own \cup fr \cup {a}
      /\ \A q \in DOMAIN own \cup fr : t[q] = b[q]
      /\ t[a].allocated /\ t[a].size >= size /\ t[a].size \in Nat
      /\ left = Cardinality(BytesOf(t, G))
  BY <1>1, <1>3, <1>7 DEF IsTaken
<1>9. a \notin DOMAIN own \cup fr
  BY <1>3, <1>6
<1>10. /\ DOMAIN mine = DOMAIN own \cup {a} /\ mine[a] = asked
       /\ \A q \in DOMAIN own : mine[q] = own[q]
  BY <1>9 DEF Extended
<1> HIDE DEF mine
<1>11. FreeOf(t, mine, fr) = G
  <2>1. G \subseteq BlocksOf(t)
    BY <1>8 DEF ListOf
  <2>2. QED
    BY <1>8, <1>10, <2>1 DEF FreeOf
<1>12. DOMAIN mine \cup fr \subseteq BlocksOf(t) /\ DOMAIN mine \cap fr = {}
  BY <1>1, <1>8, <1>9, <1>10
<1>13. Min({left, least}) \in Nat /\ Min({left, least}) <= left
  <2>1. left \in Nat
    <3>1. G \in SUBSET BlocksOf(t)
      BY <1>8 DEF ListOf
    <3>2. QED
      BY <1>8, <3>1, BytesFacts
  <2>2. {left, least} \in SUBSET Nat /\ {left, least} # {}
    BY <1>1, <2>1
  <2>3. Min({left, least}) \in {left, least} /\ \A y \in {left, least} : Min({left, least}) <= y
    BY <2>2, MinFacts
  <2>4. QED
    BY <2>2, <2>3
<1>14. ASSUME NEW q \in DOMAIN mine
       PROVE  t[q].allocated /\ mine[q] \in Nat /\ t[q].size >= mine[q] + xHeapStructSize
  <2>1. CASE q = a
    BY <1>2, <1>8, <1>10, <2>1
  <2>2. CASE q # a
    <3>1. q \in DOMAIN own /\ t[q] = b[q] /\ mine[q] = own[q]
      BY <1>8, <1>10, <2>2
    <3>2. QED
      BY <3>1 DEF Whole
  <2>3. QED
    BY <2>1, <2>2
<1>15. \A q \in fr : ~ t[q].allocated
  BY <1>8 DEF Whole
<1>16. QED
  BY <1>8, <1>11, <1>12, <1>13, <1>14, <1>15 DEF Whole, mine

(* vPortFree before it suspends the scheduler. *)
LEMMA WholeFreeing ==
  ASSUME NEW b, NEW free, NEW least, NEW own, NEW fr, Whole(b, free, least, own, fr),
         NEW a \in DOMAIN own
  PROVE  Whole([b EXCEPT ![a].allocated = FALSE], free, least,
               Restrict(own, DOMAIN own \ {a}), fr \cup {a})
<1> DEFINE F == FreeOf(b, own, fr)
           e == [b EXCEPT ![a].allocated = FALSE]
           mine == Restrict(own, DOMAIN own \ {a})
           returned == fr \cup {a}
<1>1. /\ Laid(b) /\ DOMAIN own \cup fr \subseteq BlocksOf(b) /\ DOMAIN own \cap fr = {}
      /\ ListOf(b, F) /\ Touching(b, F) = {}
      /\ free = Cardinality(BytesOf(b, F)) /\ least \in Nat /\ least <= free
  BY DEF Whole
<1>2. /\ BlocksOf(b) \subseteq Nat /\ DOMAIN b = BlocksOf(b) \cup {xStart, EndOfHeap}
      /\ xStart \notin BlocksOf(b) /\ EndOfHeap \notin BlocksOf(b)
      /\ \A q \in DOMAIN b : b[q] \in Headers
  BY <1>1, LaidFacts
<1>3. /\ a \in BlocksOf(b) /\ a \in DOMAIN b /\ a \notin F /\ a # xStart /\ a # EndOfHeap
      /\ a \notin fr /\ F \subseteq BlocksOf(b)
  BY <1>1, <1>2 DEF FreeOf
<1>4. /\ DOMAIN mine = DOMAIN own \ {a} /\ \A q \in DOMAIN mine : mine[q] = own[q]
  BY DEF Restrict
<1>5. /\ DOMAIN e = DOMAIN b /\ \A q \in DOMAIN b \ {a} : e[q] = b[q]
      /\ e[a] = [b[a] EXCEPT !.allocated = FALSE]
  BY <1>3
<1> HIDE DEF e, mine, F
<1>6. /\ e[a].next = b[a].next /\ e[a].size = b[a].size /\ ~ e[a].allocated /\ e[a] \in Headers
  BY <1>2, <1>3, <1>5 DEF Headers
<1>7. BlocksOf(e) = BlocksOf(b) /\ \A q \in DOMAIN b : e[q].next = b[q].next /\ e[q].size = b[q].size
  BY <1>5, <1>6 DEF BlocksOf
<1>8. FreeOf(e, mine, returned) = F
  BY <1>1, <1>3, <1>4, <1>7 DEF FreeOf, F
<1>9. Laid(e)
  <2>1. /\ {xStart, StartOfHeap, EndOfHeap} \subseteq DOMAIN e /\ DOMAIN e \subseteq Nat
        /\ \A q \in DOMAIN e : e[q] \in Headers
    BY <1>1, <1>2, <1>5, <1>6 DEF Laid
  <2>2. e[xStart].size = 0 /\ e[EndOfHeap].next = NULL /\ e[EndOfHeap].size = 0
    BY <1>1, <1>2, <1>7 DEF Laid
  <2>3. \A q \in BlocksOf(e) :
          /\ StartOfHeap <= q /\ q < EndOfHeap /\ Aligned(q)
          /\ e[q].size > xHeapStructSize /\ Aligned(e[q].size)
          /\ Follows(q + e[q].size, q, BlocksOf(e) \cup {EndOfHeap})
    <3>1. \A q \in BlocksOf(e) : q \in DOMAIN b /\ e[q].size = b[q].size
      BY <1>2, <1>7
    <3>2. QED
      BY <1>1, <1>7, <3>1 DEF Laid
  <2>4. QED
    BY <2>1, <2>2, <2>3 DEF Laid
<1>10. ListOf(e, F)
  <2>1. F \subseteq BlocksOf(e) /\ \A q \in F : ~ e[q].allocated
    BY <1>1, <1>2, <1>3, <1>5, <1>7 DEF ListOf
  <2>2. \A q \in BlocksOf(e) \ F : e[q].next = NULL
    BY <1>1, <1>2, <1>7 DEF ListOf
  <2>3. \A q \in F \cup {xStart} : e[q].next = b[q].next
    BY <1>2, <1>3, <1>7
  <2>4. \A q \in F \cup {xStart} : Follows(e[q].next, q, F \cup {EndOfHeap})
    BY <1>1, <2>3 DEF ListOf
  <2>5. QED
    BY <2>1, <2>2, <2>4 DEF ListOf
<1>11. \A q \in F : e[q].size = b[q].size
  BY <1>2, <1>3, <1>7
<1>12. Touching(e, F) = {}
  BY <1>1, <1>11 DEF Touching
<1>13. BytesOf(e, F) = BytesOf(b, F)
  BY <1>11 DEF BytesOf
<1>14. DOMAIN mine \cup returned \subseteq BlocksOf(e) /\ DOMAIN mine \cap returned = {}
  BY <1>1, <1>3, <1>4, <1>7
<1>15. ASSUME NEW q \in DOMAIN mine
       PROVE  e[q].allocated /\ mine[q] \in Nat /\ e[q].size >= mine[q] + xHeapStructSize
  <2>1. q \in DOMAIN own /\ q # a /\ q \in DOMAIN b /\ e[q] = b[q] /\ mine[q] = own[q]
    BY <1>1, <1>2, <1>4, <1>5
  <2>2. QED
    BY <2>1 DEF Whole
<1>16. \A q \in returned : ~ e[q].allocated
  BY <1>1, <1>2, <1>5, <1>6 DEF Whole
<1>17. QED
  BY <1>1, <1>8, <1>9, <1>10, <1>12, <1>13, <1>14, <1>15, <1>16 DEF Whole, e, mine

(* vPortFree with the scheduler suspended. *)
LEMMA WholeFreed ==
  ASSUME NEW b, NEW free, NEW least, NEW own, NEW fr, Whole(b, free, least, own, fr),
         NEW a \in fr
  PROVE  Whole(prvInsertBlockIntoFreeList(b, a), free + b[a].size, least, own, fr \ {a})
<1> DEFINE F == FreeOf(b, own, fr)
           L == F \cup {a}
           r == prvInsertBlockIntoFreeList(b, a)
           rest == fr \ {a}
<1>1. /\ Laid(b) /\ DOMAIN own \cup fr \subseteq BlocksOf(b) /\ DOMAIN own \cap fr = {}
      /\ ListOf(b, F) /\ Touching(b, F) = {}
      /\ free = Cardinality(BytesOf(b, F)) /\ least \in Nat /\ least <= free
  BY DEF Whole
<1>2. /\ F \in SUBSET BlocksOf(b) /\ a \in BlocksOf(b) \ F
      /\ BlocksOf(b) \ L = DOMAIN own \cup rest
  BY <1>1 DEF FreeOf
<1> HIDE DEF F, r
<1>3. InsertedInto(r, b, F, a)
  BY <1>1, <1>2, InsertFacts DEF r
<1>4. PICK gone \in SUBSET L : IsInserted(r, b, L, gone)
  BY <1>3 DEF InsertedInto
<1>5. /\ Laid(r) /\ BlocksOf(r) = BlocksOf(b) \ gone
      /\ ListOf(r, L \ gone) /\ Touching(r, L \ gone) = {}
      /\ BytesOf(r, L \ gone) = BytesOf(b, L)
      /\ \A q \in DOMAIN own \cup rest : r[q] = b[q]
  BY <1>2, <1>4 DEF IsInserted
<1>6. FreeOf(r, own, rest) = L \ gone
  <2>1. L \subseteq BlocksOf(b)
    BY <1>2
  <2>2. QED
    BY <1>2, <1>5, <2>1 DEF FreeOf
<1>7. DOMAIN own \cup rest \subseteq BlocksOf(r) /\ DOMAIN own \cap rest = {}
  BY <1>1, <1>2, <1>5
<1>8. /\ free + b[a].size = Cardinality(BytesOf(r, L \ gone))
      /\ least <= free + b[a].size
  <2>1. Cardinality(BytesOf(b, L)) = Cardinality(BytesOf(b, F)) + b[a].size
    BY <1>1, <1>2, BytesAdded
  <2>2. b[a].size \in Nat /\ free \in Nat
    <3>1. a \in DOMAIN b
      BY <1>2 DEF BlocksOf
    <3>2. QED
      BY <1>1, <1>2, <3>1, LaidFacts, BytesFacts
  <2>3. QED
    BY <1>1, <1>5, <2>1, <2>2
<1>9. /\ \A q \in DOMAIN own : /\ r[q].allocated /\ own[q] \in Nat
                               /\ r[q].size >= own[q] + xHeapStructSize
      /\ \A q \in rest : ~ r[q].allocated
  BY <1>5 DEF Whole
<1>10. QED
  BY <1>1, <1>5, <1>6, <1>7, <1>8, <1>9 DEF Whole, r

LEMMA HeapInvMade ==
  ASSUME pxEnd' = EndOfHeap,
         Whole(block', xFreeBytesRemaining', xMinimumEverFreeBytesRemaining', owned', freeing')
  PROVE  HeapInv'
<1>1. EndOfHeap # NULL
  BY HeapBounds, HeapNumbers DEF NULL
<1>2. QED
  BY <1>1 DEF HeapInv

LEMMA pvPortMallocInv ==
  ASSUME HeapInv, NEW asked \in Nat, pvPortMalloc(asked)
  PROVE  HeapInv'
<1> DEFINE h == Heap
           size == WantedSize(asked)
           p == FirstFit(h.block, size)
           a == h.block[p].next
           found == /\ asked < xBlockAllocatedBit /\ size > 0 /\ size <= h.free
                    /\ h.block[a].next # NULL
           t == Taken(h.block, p, size)
           left == h.free - t[a].size
<1>1. /\ pxEnd' = EndOfHeap /\ freeing' = freeing
      /\ found => /\ block' = t /\ xFreeBytesRemaining' = left
                  /\ xMinimumEverFreeBytesRemaining' = Min({left, h.least})
                  /\ owned' = Extended(owned, a, asked)
      /\ ~ found => /\ block' = h.block /\ xFreeBytesRemaining' = h.free
                    /\ xMinimumEverFreeBytesRemaining' = h.least /\ owned' = owned
  BY DEF pvPortMalloc
<1>2. Whole(h.block, h.free, h.least, owned, freeing)
  BY HeapIsWhole
<1>3. CASE ~ found
  BY <1>1, <1>2, <1>3, HeapInvMade
<1>4. CASE found
  <2>1. asked < xBlockAllocatedBit /\ size > 0 /\ h.block[a].next # NULL
    BY <1>4
  <2> HIDE DEF h, size, p, a, t, left, found
  <2>2. /\ size = WantedSize(asked) /\ p = FirstFit(h.block, size) /\ a = h.block[p].next
        /\ t = Taken(h.block, p, size) /\ left = h.free - t[a].size
    BY DEF size, p, a, t, left
  <2>3. Whole(t, left, Min({left, h.least}), Extended(owned, a, asked), freeing)
    BY <1>2, <2>1, <2>2, WholeTaken
  <2>4. QED
    BY <1>1, <1>4, <2>3, HeapInvMade
<1>5. QED
  BY <1>3, <1>4

LEMMA vPortFreeInv ==
  ASSUME HeapInv, NEW a, vPortFree(a)
  PROVE  HeapInv'
<1>1. /\ a \in DOMAIN owned
      /\ block' = [block EXCEPT ![a].allocated = FALSE]
      /\ owned' = Restrict(owned, DOMAIN owned \ {a})
      /\ freeing' = freeing \cup {a}
      /\ pxEnd' = pxEnd /\ xFreeBytesRemaining' = xFreeBytesRemaining
      /\ xMinimumEverFreeBytesRemaining' = xMinimumEverFreeBytesRemaining
  BY DEF vPortFree
<1>2. /\ pxEnd = EndOfHeap
      /\ Whole(block, xFreeBytesRemaining, xMinimumEverFreeBytesRemaining, owned, freeing)
  BY <1>1 DEF HeapInv
<1>3. Whole([block EXCEPT ![a].allocated = FALSE], xFreeBytesRemaining,
            xMinimumEverFreeBytesRemaining, Restrict(owned, DOMAIN owned \ {a}), freeing \cup {a})
  BY <1>1, <1>2, WholeFreeing
<1>4. QED
  BY <1>1, <1>2, <1>3, HeapInvMade

LEMMA FreeSuspendedInv ==
  ASSUME HeapInv, NEW a, FreeSuspended(a)
  PROVE  HeapInv'
<1>1. /\ a \in freeing
      /\ xFreeBytesRemaining' = xFreeBytesRemaining + block[a].size
      /\ block' = prvInsertBlockIntoFreeList(block, a)
      /\ freeing' = freeing \ {a}
      /\ pxEnd' = pxEnd /\ xMinimumEverFreeBytesRemaining' = xMinimumEverFreeBytesRemaining
      /\ owned' = owned
  BY DEF FreeSuspended
<1>2. /\ pxEnd = EndOfHeap
      /\ Whole(block, xFreeBytesRemaining, xMinimumEverFreeBytesRemaining, owned, freeing)
  BY <1>1 DEF HeapInv
<1>3. Whole(prvInsertBlockIntoFreeList(block, a), xFreeBytesRemaining + block[a].size,
            xMinimumEverFreeBytesRemaining, owned, freeing \ {a})
  BY <1>1, <1>2, WholeFreed
<1>4. QED
  BY <1>1, <1>2, <1>3, HeapInvMade

LEMMA HeapStep ==
  ASSUME HeapInv, HeapNext
  PROVE  HeapInv'
<1>1. SizeMod \in Nat /\ SizeMod > 0 /\ Requests \subseteq Nat /\ Items \subseteq Nat \X Nat
  <2>1. SizeMod \in Nat /\ SizeMod > 0
    <3>1. SizeMod \in Nat /\ 0 < SizeMod \div 2
      BY HeapNumbers
    <3>2. QED
      BY <3>1
  <2>2. Requests \subseteq 0 .. SizeMod - 1 /\ Items \subseteq Nat \X Nat
    BY HeapAssumption
  <2>3. QED
    BY <2>1, <2>2
<1>2. ASSUME NEW n \in Requests, pvPortMalloc(n) PROVE HeapInv'
  BY <1>1, <1>2, pvPortMallocInv
<1>3. ASSUME NEW i \in Items, vPortCalloc(i[1], i[2]) PROVE HeapInv'
  <2>1. i[1] \in Nat /\ i[2] \in Nat
    BY <1>1
  <2>2. i[2] * i[1] \in Nat
    BY <2>1
  <2>3. (i[2] * i[1]) % SizeMod \in Nat
    BY <1>1, <2>2
  <2>4. pvPortMalloc((i[2] * i[1]) % SizeMod)
    BY <1>3 DEF vPortCalloc
  <2>5. QED
    BY <2>3, <2>4, pvPortMallocInv
<1>4. QED
  BY <1>2, <1>3, vPortFreeInv, FreeSuspendedInv DEF HeapNext

(* The first of S behind a is the least of those behind a. *)
LEMMA FollowsIsMin ==
  ASSUME NEW S \in SUBSET Nat, NEW a, NEW n, Follows(n, a, S)
  PROVE  n = Min({c \in S : c > a})
<1> DEFINE T == {c \in S : c > a}
<1>1. T \in SUBSET Nat /\ n \in T /\ \A c \in T : n <= c
  BY DEF Follows
<1>2. Min(T) \in T /\ Min(T) <= n
  BY <1>1, MinFacts
<1> HIDE DEF T
<1>3. n \in Nat /\ Min(T) \in Nat /\ n <= Min(T)
  BY <1>1, <1>2
<1>4. n = Min(T)
  BY <1>2, <1>3
<1>5. QED
  BY <1>4 DEF T

LEMMA HeapInvExact ==
  ASSUME HeapInv
  PROVE  HeapExact
<1>1. CASE pxEnd = NULL
  <2>1. /\ pxEnd \in {NULL, EndOfHeap} /\ DOMAIN block = {} /\ DOMAIN owned = {} /\ freeing = {}
        /\ xFreeBytesRemaining = 0 /\ 0 \in 0 .. configTOTAL_HEAP_SIZE
    BY <1>1, HeapNumbers DEF HeapInv
  <2>2. HeapTypeOK
    BY <2>1 DEF HeapTypeOK
  <2>3. QED
    BY <1>1, <2>2 DEF HeapExact
<1>2. CASE pxEnd # NULL
  <2> DEFINE free == xFreeBytesRemaining
             least == xMinimumEverFreeBytesRemaining
  <2>1. pxEnd = EndOfHeap /\ Whole(block, free, least, owned, freeing)
    BY <1>2 DEF HeapInv
  <2>2. HeapBlocks = BlocksOf(block) /\ Free = FreeOf(block, owned, freeing)
    BY <2>1 DEF HeapBlocks, BlocksOf, FreeOf, Free, Used
  <2>3. /\ Laid(block) /\ DOMAIN owned \cup freeing \subseteq HeapBlocks
        /\ DOMAIN owned \cap freeing = {}
        /\ ListOf(block, Free) /\ Touching(block, Free) = {}
        /\ free = Cardinality(BytesOf(block, Free)) /\ least \in Nat /\ least <= free
        /\ \A a \in DOMAIN owned : block[a].allocated /\ block[a].size >= owned[a] + xHeapStructSize
        /\ \A a \in freeing : ~ block[a].allocated
    BY <2>1, <2>2 DEF Whole
  <2>4. /\ HeapBlocks \subseteq Nat /\ Free \subseteq HeapBlocks /\ Free = HeapBlocks \ (DOMAIN owned \cup freeing)
        /\ DOMAIN block = HeapBlocks \cup {xStart, EndOfHeap} /\ EndOfHeap \in Nat
    BY <2>2, <2>3, LaidFacts, HeapBounds DEF FreeOf
  <2>5. HeapTypeOK
    <3>1. free \in 0 .. configTOTAL_HEAP_SIZE
      <4>1. free \in Nat /\ free <= EndOfHeap - StartOfHeap
        BY <2>2, <2>3, <2>4, BytesFacts
      <4>2. EndOfHeap - StartOfHeap <= configTOTAL_HEAP_SIZE /\ EndOfHeap - StartOfHeap \in Nat
        BY HeapBounds, HeapNumbers
      <4>3. QED
        BY <4>1, <4>2, HeapNumbers
    <3>2. ASSUME NEW a \in DOMAIN block
          PROVE  block[a] \in [next : Nat, size : 0 .. SizeMod - 1, allocated : BOOLEAN]
      <4>1. block[a] \in Headers /\ block[a].size \in Nat
        BY <2>3, LaidFacts
      <4>2. block[a].size <= SizeMod - 1
        <5>1. SizeMod \in Nat /\ EndOfHeap \in Nat /\ StartOfHeap \in Nat /\ EndOfHeap - StartOfHeap < SizeMod \div 2
          BY HeapBounds, HeapNumbers
        <5>2. CASE a \in HeapBlocks
          <6>1. StartOfHeap <= a /\ Follows(a + block[a].size, a, HeapBlocks \cup {EndOfHeap}) /\ a < EndOfHeap
            BY <2>2, <2>3, <5>2 DEF Laid
          <6>2. a + block[a].size <= EndOfHeap
            BY <6>1 DEF Follows
          <6>3. a \in Nat
            BY <2>4, <5>2
          <6>4. block[a].size <= EndOfHeap - StartOfHeap
            BY <4>1, <5>1, <6>1, <6>2, <6>3
          <6>5. QED
            BY <4>1, <5>1, <6>4
        <5>3. CASE a \notin HeapBlocks
          <6>1. block[a].size = 0
            BY <2>3, <2>4, <5>3 DEF Laid
          <6>2. SizeMod > 0
            BY <5>1, HeapNumbers
          <6>3. QED
            BY <5>1, <6>1, <6>2
        <5>4. QED
          BY <5>2, <5>3
      <4>3. QED
        BY <4>1, <4>2, HeapNumbers DEF Headers
    <3>3. QED
      BY <2>1, <2>3, <2>4, <3>1, <3>2 DEF HeapTypeOK
  <2>6. Tiled
    <3>1. StartOfHeap = Min(HeapBlocks)
      <4>1. StartOfHeap \in HeapBlocks /\ \A c \in HeapBlocks : StartOfHeap <= c
        <5>1. StartOfHeap \in DOMAIN block /\ StartOfHeap # xStart /\ StartOfHeap # EndOfHeap
          BY <2>3, HeapBounds, HeapNumbers DEF Laid
        <5>2. QED
          BY <2>2, <2>3, <2>4, <5>1 DEF Laid
      <4>2. Min(HeapBlocks) \in HeapBlocks /\ Min(HeapBlocks) <= StartOfHeap
        BY <2>4, <4>1, MinFacts
      <4>3. StartOfHeap <= Min(HeapBlocks) /\ Min(HeapBlocks) \in Nat /\ StartOfHeap \in Nat
        BY <2>4, <4>1, <4>2
      <4>4. QED
        BY <4>2, <4>3
    <3>2. ASSUME NEW a \in HeapBlocks
          PROVE  /\ a % portBYTE_ALIGNMENT = 0
                 /\ block[a].size > xHeapStructSize
                 /\ a + block[a].size = Min({c \in HeapBlocks \cup {pxEnd} : c > a})
                 /\ block[a].allocated <=> a \in DOMAIN owned
      <4>1. /\ Aligned(a) /\ block[a].size > xHeapStructSize
            /\ Follows(a + block[a].size, a, HeapBlocks \cup {pxEnd})
        BY <2>1, <2>2, <2>3 DEF Laid
      <4>2. HeapBlocks \cup {pxEnd} \in SUBSET Nat
        BY <2>1, <2>4
      <4>3. a + block[a].size = Min({c \in HeapBlocks \cup {pxEnd} : c > a})
        BY <4>1, <4>2, FollowsIsMin
      <4>4. block[a].allocated <=> a \in DOMAIN owned
        <5>1. \A c \in Free : ~ block[c].allocated
          BY <2>3 DEF ListOf
        <5>2. a \in DOMAIN owned \/ a \in freeing \/ a \in Free
          BY <2>4
        <5>3. QED
          BY <2>3, <2>4, <5>1, <5>2
      <4>5. QED
        BY <4>1, <4>3, <4>4 DEF Aligned
    <3>3. pxEnd + xHeapStructSize <= ucHeap + configTOTAL_HEAP_SIZE
      BY <2>1, HeapBounds
    <3>4. \A a \in DOMAIN owned : block[a].size >= owned[a] + xHeapStructSize
      BY <2>3
    <3>5. QED
      BY <3>1, <3>2, <3>3, <3>4 DEF Tiled
  <2>7. FreeListExact
    <3>1. ASSUME NEW a \in Free \cup {xStart}
          PROVE  block[a].next = Min({c \in Free \cup {pxEnd} : c > a})
      <4>1. Follows(block[a].next, a, Free \cup {pxEnd})
        BY <2>1, <2>3 DEF ListOf
      <4>2. Free \cup {pxEnd} \in SUBSET Nat
        BY <2>1, <2>4
      <4>3. QED
        BY <4>1, <4>2, FollowsIsMin
    <3>2. \A a \in Free : a + block[a].size \notin Free
      BY <2>3 DEF Touching
    <3>3. QED
      BY <2>3, <3>1, <3>2 DEF FreeListExact
  <2>8. QED
    BY <2>5, <2>6, <2>7 DEF HeapExact
<1>3. QED
  BY <1>1, <1>2

LEMMA HeapInvInit == HeapInit => HeapInv
  BY DEF HeapInit, HeapInv, NoBlocks, NULL

(* The blocks cover the heap without gap or overlap, each with the mark if  *)
(* and only if the program has it and with room for what pvPortMalloc was   *)
(* asked for, and the list has the other blocks, in order and none of them  *)
(* touching, with xFreeBytesRemaining bytes: whatever is allocated and      *)
(* freed, also while the vPortFree of other tasks are half done.            *)
THEOREM HeapHeapExact == ServicesSpec => []HeapExact
<1>1. ServicesInit => HeapInv
  BY HeapInvInit DEF ServicesInit
<1>2. HeapInv /\ [ServicesNext]_serviceVars => HeapInv'
  <2> SUFFICES ASSUME HeapInv, [ServicesNext]_serviceVars PROVE HeapInv'
    OBVIOUS
  <2>1. CASE UNCHANGED heapVars
    BY <2>1 DEF HeapInv, Whole, Laid, ListOf, FreeOf, Touching, BytesOf, BlocksOf, Follows, heapVars
  <2>2. HeapNext \/ UNCHANGED heapVars
    BY DEF ServicesNext, serviceVars
  <2>3. QED
    BY <2>1, <2>2, HeapStep
<1>3. HeapInv => HeapExact
  BY HeapInvExact
<1>4. QED
  BY <1>1, <1>2, <1>3, PTL DEF ServicesSpec
=============================================================================

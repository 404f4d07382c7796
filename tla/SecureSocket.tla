----------------------------- MODULE SecureSocket -----------------------------
(***************************************************************************)
(* The life of the MQTT agent's sockets: prvSetupConnection and             *)
(* prvGracefulSocketClose of the agent, over the secure sockets             *)
(* (aws_secure_sockets.c), over TLS (aws_tls.c), over the PKCS #11 session  *)
(* that holds the client's key (aws_pkcs11_pal.c).  Only the MQTT task runs *)
(* this code, for one connection after the other.                           *)
(*                                                                          *)
(* Of the data only the heap blocks and the lwIP sockets are kept, with who *)
(* has a pointer to them; any allocation, parse or network call may fail.   *)
(* An access through a pointer to what is not there is a fault; what        *)
(* happens after one is undefined and the model stops.                      *)
(***************************************************************************)
EXTENDS Integers, Sequences, FiniteSets

CONSTANTS Connections,  \* xMQTTConnections
          NoOne,
          MaxSockets    \* lwIP sockets

ASSUME SocketAssumption == NoOne \notin Connections /\ MaxSockets \in Nat

Fds  == 0 .. MaxSockets - 1
NoFd == -1

(* The options that allocate, in the order in which the agent sets them. *)
Options == <<"pcServerCertificate", "pcDestination", "ppcAlpnProtocols">>

(* The blocks of prvFreeContext: mbedTLS's and those of the PKCS #11        *)
(* session.                                                                 *)
TlsBlocks     == {"mbedSslCtx", "mbedSslConfig"}
SessionBlocks == {"P11Session", "P11Key"}

Blocks == {"SSOCKETContext"} \cup {Options[i] : i \in DOMAIN Options}
              \cup {"TLSContext"} \cup TlsBlocks \cup SessionBlocks

(* What TLS_Connect does, in order, and the block each step leaves behind.  *)
(* The certificates it decodes on the way are freed at its end.             *)
Steps == <<"root certificate", "C_OpenSession", "C_FindObjects", "parse key", "certificate",
           "own certificate", "mbedtls_ssl_setup", "hostname", "handshake">>

LeftBy(step) ==
    CASE step = "C_OpenSession"     -> {"P11Session"}
      [] step = "C_FindObjects"     -> {"P11Key"}
      [] step = "own certificate"   -> {"mbedSslConfig"}
      [] step = "mbedtls_ssl_setup" -> {"mbedSslCtx"}
      [] OTHER                      -> {}

VARIABLES
    phase,                \* per connection: where the agent is
    xSocket,           \* per connection: does the agent have a socket
    fd,                \* per connection: the lwIP socket in its SSOCKETContext
    xRequireTLS,       \* per connection
    pvTLSContext,      \* per connection: not NULL
    xMbedInitialized,  \* per connection
    xP11Session,       \* per connection: the handle was assigned
    blocks,            \* per connection: allocated blocks
    reached,           \* per connection: steps TLS_Connect completed
    lwip,              \* per lwIP socket: the connection it was opened for
    lost,              \* blocks that are allocated and that nobody can free
    fault              \* an access to what is not there

socketVars == <<phase, xSocket, fd, xRequireTLS, pvTLSContext, xMbedInitialized, xP11Session, blocks,
          reached, lwip, lost, fault>>

SocketInit ==
    /\ phase = [c \in Connections |-> "idle"]
    /\ xSocket = [c \in Connections |-> FALSE]
    /\ fd = [c \in Connections |-> NoFd]
    /\ xRequireTLS = [c \in Connections |-> FALSE]
    /\ pvTLSContext = [c \in Connections |-> FALSE]
    /\ xMbedInitialized = [c \in Connections |-> FALSE]
    /\ xP11Session = [c \in Connections |-> FALSE]
    /\ blocks = [c \in Connections |-> {}]
    /\ reached = [c \in Connections |-> 0]
    /\ lwip = [f \in Fds |-> NoOne]
    /\ lost = {}
    /\ fault = "none"

Goto(c, label) == phase' = [phase EXCEPT ![c] = label]

-----------------------------------------------------------------------------
(* Faults. *)

(* Does an access of connection c to its lwIP socket reach that socket. *)
Reaches(c) == fd[c] \in Fds /\ lwip[fd[c]] = c

(* The outcome of a call that uses these blocks, and of one that uses the   *)
(* lwIP socket too.                                                         *)
Accessed(c, used) == IF used \subseteq blocks[c] THEN fault ELSE "freed block"
Checked(c, used)  == IF Reaches(c) THEN Accessed(c, used) ELSE "closed socket"

(* What SOCKETS_Socket ends in when it has opened lwIP socket f and there   *)
(* is no memory for its context: f is handed to SOCKETS_Close in place of   *)
(* the context.  Number 0 is NULL there and nothing is closed, any other is *)
(* taken for a pointer.                                                     *)
NoMemoryFor(f) == IF f = 0 THEN "unclosed socket" ELSE "wild pointer"
SetupFaults    == {"null host", "null socket", "unclosed socket", "wild pointer"}

(* prvFreeContext closes the TLS session, which sends a close notification, *)
(* and the PKCS #11 session: C_CloseSession frees the key and the session   *)
(* if its handle was assigned.  used is what it accesses, freed what is     *)
(* gone afterwards; the handle keeps its value.                             *)
SessionOf(c) == IF xP11Session[c] THEN SessionBlocks ELSE {}
FreedBy(c)   == TlsBlocks \cup SessionOf(c)

(* Mutant: the context is not marked as unusable. *)
prvFreeContextStaysInitialized(c) ==
    /\ blocks' = [blocks EXCEPT ![c] = @ \ FreedBy(c)]
    /\ fault' = Checked(c, FreedBy(c) \cup {"TLSContext"})
    /\ UNCHANGED xMbedInitialized

(* Mutant: the PKCS #11 session stays open. *)
prvFreeContextKeepsSession(c) ==
    /\ blocks' = [blocks EXCEPT ![c] = @ \ TlsBlocks]
    /\ fault' = Checked(c, FreedBy(c) \cup {"TLSContext"})
    /\ xMbedInitialized' = [xMbedInitialized EXCEPT ![c] = FALSE]

prvFreeContext(c) ==
    /\ blocks' = [blocks EXCEPT ![c] = @ \ FreedBy(c)]
    /\ fault' = Checked(c, FreedBy(c) \cup {"TLSContext"})
    /\ xMbedInitialized' = [xMbedInitialized EXCEPT ![c] = FALSE]

-----------------------------------------------------------------------------
(* prvSetupConnection. *)

(* SOCKETS_GetHostByName and SOCKETS_Socket.  A name that is not resolved,  *)
(* and the NULL that SOCKETS_Socket returns when there is no lwIP socket or *)
(* no memory, which the agent does not take for a failure, are accessed.    *)
SOCKETS_Socket(c) ==
    LET free == {f \in Fds : lwip[f] = NoOne} IN
    /\ phase[c] = "idle"
    /\ ~ xSocket[c]
    /\ \/ \E f \in {g \in free : \A h \in free : g <= h} :
             /\ lwip' = [lwip EXCEPT ![f] = c]
             /\ \/ /\ fd' = [fd EXCEPT ![c] = f]
                   /\ blocks' = [blocks EXCEPT ![c] = {"SSOCKETContext"}]
                   /\ xSocket' = [xSocket EXCEPT ![c] = TRUE]
                   /\ Goto(c, "options")
                   /\ UNCHANGED fault
                \/ /\ fault' = NoMemoryFor(f)
                   /\ UNCHANGED <<phase, fd, blocks, xSocket>>
       \/ /\ fault' \in {"null host", "null socket"}
          /\ UNCHANGED <<phase, lwip, fd, blocks, xSocket>>
    /\ UNCHANGED <<xRequireTLS, pvTLSContext, xMbedInitialized, xP11Session, reached, lost>>

(* SOCKETS_SetSockOpt, for a secured connection: each wanted option is a    *)
(* copy on the heap; after one that does not fit the others are not set.    *)
SOCKETS_SetSockOpt(c, wanted) ==
    /\ phase[c] = "options"
    /\ xRequireTLS' = [xRequireTLS EXCEPT ![c] = TRUE]
    /\ \E n \in 0 .. Len(Options) :
          LET copied == {Options[i] : i \in 1 .. n} \cap wanted IN
          /\ blocks' = [blocks EXCEPT ![c] = @ \cup copied]
          /\ Goto(c, IF copied = wanted THEN "connect" ELSE "shutdown")
    /\ UNCHANGED <<xSocket, fd, pvTLSContext, xMbedInitialized, xP11Session, reached, lwip, lost,
                   fault>>

(* A connection that is not secured has no options. *)
Unsecured(c) ==
    /\ phase[c] = "options"
    /\ Goto(c, "connect")
    /\ UNCHANGED <<xSocket, fd, xRequireTLS, pvTLSContext, xMbedInitialized, xP11Session, blocks,
                   reached, lwip, lost, fault>>

(* SOCKETS_Connect: the lwIP socket is connected and, for TLS, TLS_Init     *)
(* allocates the context; if one of these fails the socket is closed.       *)
SOCKETS_Connect(c) ==
    /\ phase[c] = "connect"
    /\ fault' = Checked(c, {"SSOCKETContext"})
    /\ \/ /\ xRequireTLS[c]
          /\ pvTLSContext' = [pvTLSContext EXCEPT ![c] = TRUE]
          /\ blocks' = [blocks EXCEPT ![c] = @ \cup {"TLSContext"}]
          /\ Goto(c, "TLS_Connect")
       \/ /\ ~ xRequireTLS[c]
          /\ Goto(c, "connected")
          /\ UNCHANGED <<pvTLSContext, blocks>>
       \/ /\ Goto(c, "shutdown")
          /\ UNCHANGED <<pvTLSContext, blocks>>
    /\ UNCHANGED <<xSocket, fd, xRequireTLS, xMbedInitialized, xP11Session, reached, lwip, lost>>

(* TLS_Connect up to the handshake, with prvInitializeClientCredential: n   *)
(* steps succeed; if that is not all of them, nothing is cleaned up.        *)
TLS_ConnectPrepare(c) ==
    /\ phase[c] = "TLS_Connect"
    /\ \E n \in 0 .. Len(Steps) - 1 :
          /\ reached' = [reached EXCEPT ![c] = n]
          /\ blocks' = [blocks EXCEPT ![c] = @ \cup UNION {LeftBy(Steps[i]) : i \in 1 .. n}]
          /\ xP11Session' = [xP11Session EXCEPT ![c] = \E i \in 1 .. n : Steps[i] = "C_OpenSession"]
          /\ Goto(c, IF n = Len(Steps) - 1 THEN "handshake" ELSE "shutdown")
    /\ UNCHANGED <<xSocket, fd, xRequireTLS, pvTLSContext, xMbedInitialized, lwip, lost, fault>>

(* The handshake signs with the key and takes random bytes from the         *)
(* session; an error frees the context.                                     *)
TLS_ConnectHandshake(c) ==
    /\ phase[c] = "handshake"
    /\ \/ /\ fault' = Checked(c, TlsBlocks \cup SessionBlocks)
          /\ reached' = [reached EXCEPT ![c] = Len(Steps)]
          /\ xMbedInitialized' = [xMbedInitialized EXCEPT ![c] = TRUE]
          /\ Goto(c, "connected")
          /\ UNCHANGED blocks
       \/ /\ prvFreeContext(c)
          /\ Goto(c, "shutdown")
          /\ UNCHANGED reached
    /\ UNCHANGED <<xSocket, fd, xRequireTLS, pvTLSContext, xP11Session, lwip, lost>>

-----------------------------------------------------------------------------
(* A read or a write: through TLS if it is required, and then only if the   *)
(* context is there and initialized; after a hard error it no longer is.    *)
Transfer(c, result) ==
    \/ /\ ~ xRequireTLS[c]
       /\ result \in {"ok", "error"}
       /\ fault' = Checked(c, {"SSOCKETContext"})
       /\ UNCHANGED <<blocks, xMbedInitialized>>
    \/ /\ xRequireTLS[c] /\ ~ (pvTLSContext[c] /\ xMbedInitialized[c])
       /\ result = "error"
       /\ fault' = Accessed(c, {"SSOCKETContext"})
       /\ UNCHANGED <<blocks, xMbedInitialized>>
    \/ /\ xRequireTLS[c] /\ pvTLSContext[c] /\ xMbedInitialized[c]
       /\ \/ /\ result = "ok"
             /\ fault' = Checked(c, TlsBlocks \cup {"SSOCKETContext", "TLSContext"})
             /\ UNCHANGED <<blocks, xMbedInitialized>>
          \/ /\ result = "error"
             /\ prvFreeContext(c)

(* prvManageConnections: after an error MQTT_Disconnect is called. *)
SOCKETS_Recv(c) ==
    /\ phase[c] = "connected"
    /\ \E result \in {"ok", "error"} :
          /\ Transfer(c, result)
          /\ Goto(c, IF result = "ok" THEN "connected" ELSE "disconnect")
    /\ UNCHANGED <<xSocket, fd, xRequireTLS, pvTLSContext, xP11Session, reached, lwip, lost>>

(* prvMQTTSendCallback: the MQTT library is told of an error and the        *)
(* socket stays as it is, except for a CONNECT, after which it is closed.   *)
SOCKETS_Send(c) ==
    /\ phase[c] = "connected"
    /\ \E result \in {"ok", "error"} :
          /\ Transfer(c, result)
          /\ \/ Goto(c, "connected")
             \/ result = "error" /\ Goto(c, "shutdown")
    /\ UNCHANGED <<xSocket, fd, xRequireTLS, pvTLSContext, xP11Session, reached, lwip, lost>>

(* MQTT_Disconnect, asked for by the application or after an error: the     *)
(* DISCONNECT is sent if that is still possible, and then                   *)
(* prvProcessReceivedDisconnect closes the socket.                          *)
MQTT_Disconnect(c) ==
    /\ phase[c] \in {"connected", "disconnect"}
    /\ \E result \in {"ok", "error"} : Transfer(c, result)
    /\ Goto(c, "shutdown")
    /\ UNCHANGED <<xSocket, fd, xRequireTLS, pvTLSContext, xP11Session, reached, lwip, lost>>

(* prvProcessReceivedDisconnect when the MQTT library ends the session. *)
prvProcessReceivedDisconnect(c) ==
    /\ phase[c] = "connected"
    /\ Goto(c, "shutdown")
    /\ UNCHANGED <<xSocket, fd, xRequireTLS, pvTLSContext, xMbedInitialized, xP11Session, blocks,
                   reached, lwip, lost, fault>>

-----------------------------------------------------------------------------
(* prvGracefulSocketClose. *)

SOCKETS_Shutdown(c) ==
    /\ phase[c] = "shutdown"
    /\ fault' = Checked(c, {"SSOCKETContext"})
    /\ Goto(c, "drain")
    /\ UNCHANGED <<xSocket, fd, xRequireTLS, pvTLSContext, xMbedInitialized, xP11Session, blocks,
                   reached, lwip, lost>>

(* Reads until an error or until the time is over. *)
Drain(c) ==
    /\ phase[c] = "drain"
    /\ \E result \in {"ok", "error"} :
          /\ Transfer(c, result)
          /\ \/ result = "ok" /\ Goto(c, "drain")
             \/ Goto(c, "close")
    /\ UNCHANGED <<xSocket, fd, xRequireTLS, pvTLSContext, xP11Session, reached, lwip, lost>>

(* TLS_Cleanup: what it frees, and whether it uses the context for that. *)
TLS_Cleanup(c) ==
    IF ~ (xRequireTLS[c] /\ pvTLSContext[c]) THEN {}
    ELSE {"TLSContext"} \cup (IF xMbedInitialized[c] THEN FreedBy(c) ELSE {})

(* The blocks the context of connection c has pointers to. *)
Own(c) == {"SSOCKETContext"} \cup {b \in blocks[c] : \E i \in DOMAIN Options : Options[i] = b}

(* The pointers are gone with the context, and the agent's handle with it:  *)
(* what is not freed by now never will be.                                  *)
Forget(c, freed) ==
    /\ lost' = lost \cup (blocks[c] \ freed)
    /\ blocks' = [blocks EXCEPT ![c] = {}]
    /\ fd' = [fd EXCEPT ![c] = NoFd]
    /\ xSocket' = [xSocket EXCEPT ![c] = FALSE]
    /\ xRequireTLS' = [xRequireTLS EXCEPT ![c] = FALSE]
    /\ pvTLSContext' = [pvTLSContext EXCEPT ![c] = FALSE]
    /\ xMbedInitialized' = [xMbedInitialized EXCEPT ![c] = FALSE]
    /\ xP11Session' = [xP11Session EXCEPT ![c] = FALSE]
    /\ reached' = [reached EXCEPT ![c] = 0]

(* Mutant: the lwIP socket stays open. *)
SOCKETS_CloseLeaksSocket(c) ==
    /\ phase[c] = "close"
    /\ fault' = Checked(c, Own(c) \cup TLS_Cleanup(c))
    /\ UNCHANGED lwip
    /\ Forget(c, Own(c) \cup TLS_Cleanup(c))
    /\ Goto(c, "idle")

(* SOCKETS_Close: the options, TLS, the lwIP socket and the context are     *)
(* freed, in this order.                                                    *)
SOCKETS_Close(c) ==
    /\ phase[c] = "close"
    /\ fault' = Checked(c, Own(c) \cup TLS_Cleanup(c))
    /\ lwip' = [f \in Fds |-> IF f = fd[c] THEN NoOne ELSE lwip[f]]
    /\ Forget(c, Own(c) \cup TLS_Cleanup(c))
    /\ Goto(c, "idle")

-----------------------------------------------------------------------------

Setup(c) ==
    \/ SOCKETS_Socket(c)
    \/ \E wanted \in SUBSET {Options[i] : i \in DOMAIN Options} : SOCKETS_SetSockOpt(c, wanted)
    \/ Unsecured(c)
    \/ SOCKETS_Connect(c)
    \/ TLS_ConnectPrepare(c)
    \/ TLS_ConnectHandshake(c)

Traffic(c) ==
    \/ SOCKETS_Recv(c)
    \/ SOCKETS_Send(c)
    \/ MQTT_Disconnect(c)
    \/ prvProcessReceivedDisconnect(c)

GracefulSocketClose(c) == SOCKETS_Shutdown(c) \/ Drain(c) \/ SOCKETS_Close(c)

(* One task: it finishes the set up or the close of a connection before it  *)
(* looks at another one.                                                    *)
SocketNext ==
    /\ fault = "none"
    /\ \E c \in Connections :
          /\ \A d \in Connections \ {c} : phase[d] \in {"idle", "connected"}
          /\ Setup(c) \/ Traffic(c) \/ GracefulSocketClose(c)

-----------------------------------------------------------------------------

SocketTypeOK ==
    /\ phase \in [Connections -> {"idle", "options", "connect", "TLS_Connect", "handshake", "connected",
                               "disconnect", "shutdown", "drain", "close"}]
    /\ xSocket \in [Connections -> BOOLEAN]
    /\ fd \in [Connections -> Fds \cup {NoFd}]
    /\ xRequireTLS \in [Connections -> BOOLEAN]
    /\ pvTLSContext \in [Connections -> BOOLEAN]
    /\ xMbedInitialized \in [Connections -> BOOLEAN]
    /\ xP11Session \in [Connections -> BOOLEAN]
    /\ blocks \in [Connections -> SUBSET Blocks]
    /\ reached \in [Connections -> 0 .. Len(Steps)]
    /\ lwip \in [Fds -> Connections \cup {NoOne}]
    /\ lost \subseteq Blocks
    /\ fault \in {"none", "closed socket", "freed block"} \cup SetupFaults

(* No block is used after it was freed or freed twice and no lwIP socket is *)
(* used after it was closed, however often a read, a write, a close         *)
(* notification or the end of the session fails: the comment in TLS_Connect *)
(* on prvFreeContext, "ensure that upstream clean-up code doesn't           *)
(* accidentally use a context that failed the handshake".  The accesses to  *)
(* what is not there are those of the set up, before there is a context: a  *)
(* host that was not found, a socket that was not made.                     *)
CallsOnLiveObjects == fault \in {"none"} \cup SetupFaults

(* The open lwIP sockets that no connection has the handle of. *)
Unclosed == {f \in Fds : lwip[f] # NoOne /\ ~ (xSocket[lwip[f]] /\ fd[lwip[f]] = f)}

(* lwIP has few sockets: each one that is open belongs to a connection      *)
(* whose agent still has the handle to close it, and no two share one,      *)
(* however connections fail, with one exception: the socket that            *)
(* SOCKETS_Socket opened when it found no memory for the context ("Need to  *)
(* close socket.") is open and nobody has its handle.  The state is of its  *)
(* type.                                                                    *)
SocketsAccounted ==
    /\ SocketTypeOK
    /\ \/ Unclosed = {} /\ fault \notin {"unclosed socket", "wild pointer"}
       \/ \E f \in Fds : Unclosed = {f} /\ fault = NoMemoryFor(f)
    /\ \A c \in Connections : xSocket[c] => Reaches(c)

(* A TLS_Connect that failed after it had opened the PKCS #11 session and   *)
(* before the handshake.                                                    *)
Abandoned(c) == reached[c] \in 2 .. Len(Steps) - 2

(* SOCKETS_Close releases all that a connection had allocated, however the  *)
(* connection failed, with one exception: prvFreeContext is called after a  *)
(* failed handshake and for an initialized context only, so what an         *)
(* abandoned TLS_Connect made is lost, and nothing else.                    *)
CloseReleases ==
    [][\A c \in Connections :
          phase[c] = "close" /\ phase'[c] = "idle"
          => lost' \ lost \subseteq
                 IF Abandoned(c) THEN UNION {LeftBy(Steps[i]) : i \in 1 .. reached[c]} ELSE {}]_socketVars
==============================================================================

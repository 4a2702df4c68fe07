------------------------------- MODULE Client -------------------------------
(***************************************************************************)
(* A linear client (TCPClientImpl, SSLClientImpl, WSClientImpl,            *)
(* WSSClientImpl) and who keeps the SocketImpl of each of its connections  *)
(* alive.  The application holds Client and Socket values, each a          *)
(* shared_ptr; a SocketImpl knows its client, the client knows the         *)
(* handler, and libtv knows the SocketImpl, only by weak_ptr.  Connect     *)
(* puts the socket into the client's pool, SocketImpl::OnDisconnect takes  *)
(* it out, so an application may let its own copy go while it is           *)
(* connected.  Who lets the last one go runs ~SocketImpl, which closes     *)
(* the connection, and nobody is told.                                     *)
(*                                                                         *)
(* Grain of atomicity: a critical section of the socket's state_mutex_ or  *)
(* of the pool's mutex, or one callback of the handler.  The contexts of   *)
(* the four kinds, and what happens inside a connection, are left out; a   *)
(* DIGEST retry (CheckRetryAuth) may or may not happen, Digest has it in   *)
(* detail.                                                                 *)
(***************************************************************************)
EXTENDS FiniteSets

CONSTANT ClientSockets     \* the sockets the application creates, one after the other

VARIABLES
    retries,       \* the client's sockets are WSSocket or WSSSocket
    clientHeld,    \* the application holds the Client
    handlerHeld,   \* the application holds the Handler
    kept,          \* sockets the application holds
    retained,      \* SocketPool::pool_ of the client
    link,          \* each socket's connection, "gone" when there is no SocketImpl
    turn,          \* the callback of the event loop: where it is, on which socket, and
                   \* whether it holds the client (delegate_.lock() succeeded)
    \* history, for the property
    early,         \* sockets that connected before the last OnDisconnect released them
    silent         \* sockets whose connection ended because they had no owner, although
                   \* their client lived and they were not early

clientVars == <<retries, clientHeld, handlerHeld, kept, retained, link, turn, early, silent>>
holders == <<retries, clientHeld, handlerHeld>>

NobodysTurn == [at |-> "none", on |-> {}, locked |-> FALSE]
Connected == {"open", "closing"}
Living == Connected \cup {"idle"}

ClientInit ==
    /\ retries \in BOOLEAN
    /\ clientHeld = TRUE /\ handlerHeld = TRUE
    /\ kept = {} /\ retained = {} /\ early = {} /\ silent = {}
    /\ link = [s \in ClientSockets |-> "none"]
    /\ turn = NobodysTurn

----------------------------------------------------------------------------
(* Owners.                                                                 *)

\* delegate_.lock() finds the client
ClientLives == clientHeld \/ turn.locked

Owned(s) == s \in kept \cup retained \cup turn.on

\* "pool" and "links" are the pool and the connections after the step.  A client without
\* owner takes its pool with it, a SocketImpl without owner closes its connection.
Settle(pool, links) ==
    /\ retained' = IF ClientLives' THEN pool ELSE {}
    /\ link' = [s \in ClientSockets |->
                    IF links[s] \in Living /\ ~Owned(s)' THEN "gone" ELSE links[s]]
    /\ silent' = silent \cup {s \in ClientSockets \ early' :
                                links[s] \in Connected /\ ~Owned(s)' /\ ClientLives'}

\* mutant: Connect leaves it to the application to keep the socket
MutRetain(s) == retained

\* The pool after HandlerDelegate::Retain, if there is a client.
Retain(s) == IF ClientLives THEN retained \cup {s} ELSE retained

----------------------------------------------------------------------------
(* Calls of the application, on any thread.                                *)

\* new WSSSocketImpl (and so on), handed to the application.
NewSocket(s) ==
    /\ kept' = kept \cup {s}
    /\ UNCHANGED <<holders, turn, early>>
    /\ Settle(retained, [link EXCEPT ![s] = "idle"])

CreateSocket(s) == clientHeld /\ link[s] = "none" /\ NewSocket(s)

LetSocketGo(s) ==
    /\ s \in kept /\ kept' = kept \ {s}
    /\ UNCHANGED <<holders, turn, early>>
    /\ Settle(retained, link)

LetClientGo ==
    /\ clientHeld /\ clientHeld' = FALSE
    /\ UNCHANGED <<retries, handlerHeld, kept, turn, early>>
    /\ Settle(retained, link)

LetHandlerGo ==
    /\ handlerHeld /\ handlerHeld' = FALSE
    /\ UNCHANGED <<retries, clientHeld, kept, turn, early, retained, link, silent>>

\* The application has a Socket value: its own, or the argument of the running callback.
AtHand(s) == s \in kept \/ (turn.at = "handler" /\ s \in turn.on)

\* OnDisconnect has unlocked the state and not yet come to Release.
Unreleased(s) == turn.at = "release" /\ s \in turn.on

\* SocketImpl::Connect when the socket is DISCONNECTED and the transport takes the address.
Connects(s) ==
    /\ early' = IF Unreleased(s) THEN early \cup {s} ELSE early \ {s}
    /\ Settle(Retain(s), [link EXCEPT ![s] = "open"])

ConnectSocket(s) ==
    /\ AtHand(s) /\ link[s] = "idle"
    /\ UNCHANGED <<holders, kept, turn>>
    /\ Connects(s)

\* The transport refuses: what Retain has added, or found, is released again.
ConnectSocketFails(s) ==
    /\ AtHand(s) /\ link[s] = "idle"
    /\ UNCHANGED <<holders, kept, turn, early>>
    /\ Settle(IF ClientLives THEN retained \ {s} ELSE retained, link)

DisconnectSocket(s) ==
    /\ AtHand(s) /\ link[s] = "open"
    /\ link' = [link EXCEPT ![s] = "closing"]
    /\ UNCHANGED <<holders, kept, turn, early, retained, silent>>

\* A callback's argument is copied.
KeepSocket(s) ==
    /\ turn.at = "handler" /\ s \in turn.on \ kept
    /\ kept' = kept \cup {s}
    /\ UNCHANGED <<holders, turn, early, retained, link, silent>>

----------------------------------------------------------------------------
(* The event loop.                                                         *)

\* The peer ends the connection, or an error does.
PeerDisconnects(s) ==
    /\ turn.at = "none" /\ link[s] = "open"
    /\ link' = [link EXCEPT ![s] = "closing"]
    /\ UNCHANGED <<holders, kept, turn, early, retained, silent>>

\* Handler::OnConnect, OnMessage or OnError, called for an open connection.
HandlerCalled(s) ==
    /\ turn.at = "none" /\ link[s] = "open" /\ ClientLives /\ handlerHeld
    /\ turn' = [at |-> "handler", on |-> {s}, locked |-> TRUE]
    /\ UNCHANGED <<holders, kept, early, retained, link, silent>>

\* The callback returns and lets its socket and its client go.
TurnEnds(pool, links) ==
    /\ turn' = NobodysTurn
    /\ UNCHANGED <<holders, kept>>
    /\ Settle(pool, links)

HandlerReturns ==
    /\ turn.at = "handler"
    /\ UNCHANGED early
    /\ TurnEnds(retained, link)

\* EventLoopImpl::OnClose finds the socket; OnDisconnect sets DISCONNECTED and unlocks.
SocketClosed(s) ==
    /\ turn.at = "none" /\ link[s] = "closing"
    /\ turn' = [at |-> "release", on |-> {s}, locked |-> FALSE]
    /\ link' = [link EXCEPT ![s] = "idle"]
    /\ UNCHANGED <<holders, kept, early, retained, silent>>

\* It locks the client and releases the socket.
ReleaseSocket(s) ==
    /\ Unreleased(s)
    /\ turn' = [turn EXCEPT !.at = "released", !.locked = ClientLives]
    /\ UNCHANGED <<holders, kept, early>>
    /\ Settle(IF ClientLives THEN retained \ {s} ELSE retained, link)

\* CheckRetryAuth: OnDisconnect connects once more, unless the application has done so, or
\* fails to, and returns.
RetryConnect(s) ==
    /\ turn.at = "released" /\ s \in turn.on /\ retries
    /\ \/ /\ link[s] = "idle" /\ early' = early \ {s}
          /\ TurnEnds(Retain(s), [link EXCEPT ![s] = "open"])
       \/ link[s] = "idle" /\ UNCHANGED early /\ TurnEnds(retained \ {s}, link)
       \/ link[s] # "idle" /\ UNCHANGED early /\ TurnEnds(retained, link)

ReportDisconnect(s) ==
    /\ turn.at = "released" /\ s \in turn.on
    /\ UNCHANGED early
    /\ IF turn.locked /\ handlerHeld
       THEN /\ turn' = [turn EXCEPT !.at = "handler"]
            /\ UNCHANGED <<holders, kept, retained, link, silent>>
       ELSE TurnEnds(retained, link)

ClientNext ==
    \/ LetClientGo \/ LetHandlerGo \/ HandlerReturns
    \/ \E s \in ClientSockets :
        \/ CreateSocket(s) \/ LetSocketGo(s) \/ KeepSocket(s)
        \/ ConnectSocket(s) \/ ConnectSocketFails(s) \/ DisconnectSocket(s)
        \/ PeerDisconnects(s) \/ HandlerCalled(s)
        \/ SocketClosed(s) \/ ReleaseSocket(s) \/ RetryConnect(s) \/ ReportDisconnect(s)

ClientSpec == ClientInit /\ [][ClientNext]_clientVars

----------------------------------------------------------------------------
(* Properties.                                                             *)

\* Type correctness.
ClientTypeOK ==
    /\ retries \in BOOLEAN /\ clientHeld \in BOOLEAN /\ handlerHeld \in BOOLEAN
    /\ kept \subseteq ClientSockets /\ retained \subseteq ClientSockets
    /\ early \subseteq ClientSockets /\ silent \subseteq ClientSockets
    /\ link \in [ClientSockets -> Living \cup {"none", "gone"}]
    /\ turn \in [at : {"none", "release", "released", "handler"},
                 on : SUBSET ClientSockets, locked : BOOLEAN]

(***************************************************************************)
(* As long as its client lives, no connection ends because its SocketImpl  *)
(* has lost its last owner, whatever copies the application, its callbacks *)
(* and its threads let go: it ends with a close callback that finds the    *)
(* socket and can report OnDisconnect.  The exception is the code's: a     *)
(* Connect of another thread, made after OnDisconnect has unlocked the     *)
(* state and before it has released the socket (socket_impl.cpp:413-416),  *)
(* finds the socket in the pool, and then loses it.                        *)
(***************************************************************************)
NoSilentEnd == silent = {}
=============================================================================

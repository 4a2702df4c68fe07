------------------------------- MODULE Server -------------------------------
(***************************************************************************)
(* A linear server (TCPServerImpl, SSLServerImpl, WSServerImpl and         *)
(* WSSServerImpl), its SocketPool with the limit on the number of clients, *)
(* the process-wide groups, and who keeps each accepted SocketImpl alive.  *)
(* A SocketImpl lives as long as a shared_ptr to it exists: in the pool,   *)
(* in a group, in a copy of the application, in the set a running          *)
(* Notify::Send(group) works on, or in the callback the event loop runs.   *)
(* The last one to let go runs ~SocketImpl, which closes the connection;   *)
(* the close callback then finds no socket and nobody is told.             *)
(*                                                                         *)
(* Grain of atomicity: one critical section of the server's mutex_, of the *)
(* pool's or of the groups' mutex.  OnAccept keeps mutex_ while it calls   *)
(* the handler's OnConnect ("onconnect"); Stop() keeps it, and the pool's, *)
(* while it takes the sockets out of the groups one by one ("stopping").   *)
(* The inside of a connection is LinearSocket's subject.  A call that      *)
(* finds nothing to change (a Join of a member, say) is a stuttering step. *)
(***************************************************************************)
EXTENDS Naturals, FiniteSets

CONSTANTS
    Kinds,         \* kinds of server to consider: "TCP" (also SSL), "WS" (also WSS)
    Sockets,       \* connections, each made at most once
    Groups,        \* group names of the application
    Broadcast,     \* LINEAR_BROADCAST_GROUP
    Limits         \* arguments of SetMaxClients

AllGroups == Groups \cup {Broadcast}
NoSocket == "no socket"

ASSUME KindsAssumption == Kinds \subseteq {"TCP", "WS"}
ASSUME SocketsAssumption == IsFiniteSet(Sockets) /\ NoSocket \notin Sockets
ASSUME GroupsAssumption == Broadcast \notin Groups
ASSUME LimitsAssumption == Limits \subseteq Nat

VARIABLES
    kind,          \* the class of the server
    state,         \* ServerImpl::state_
    max,           \* SocketPool::max_
    pool,          \* SocketPool::pool_
    groups,        \* group::Pool::pool_
    sock,          \* the connection of each socket
    handshaking,   \* sockets whose handshaking_ is set
    shaking,       \* WebSocket handshakes that libtv has not completed
    held,          \* sockets the application keeps a copy of
    cast,          \* the set of sockets of the running Notify::Send(group)
    stopping,      \* Stop() is inside SocketPool::Clear
    stopLeft,      \* sockets Clear() still has to take out of the groups
    loop, cur,     \* the callback of the event loop, and the socket it is about
    \* history, for the properties
    told,          \* sockets whose OnConnect was called
    untold,        \* sockets whose OnDisconnect was called
    cleared,       \* sockets some Stop() removed from the pool
    left,          \* sockets that Group::LeaveAll took out of the groups
    late           \* sockets the application put into a group after that

vars == <<kind, state, max, pool, groups, sock, handshaking, shaking, held, cast,
          stopping, stopLeft, loop, cur, told, untold, cleared, left, late>>
serverVars == <<kind, state, max, stopping, stopLeft>>
loopVars   == <<loop, cur>>
tellVars   == <<told, untold, cleared>>
leftVars   == <<left, late>>

SockStates == {"none", "ignored", "handshaking", "connected", "closing", "closed", "dropped"}
Alive == {"handshaking", "connected", "closing", "closed"}
Open == {"handshaking", "connected"}

----------------------------------------------------------------------------

Init ==
    /\ kind \in Kinds /\ state = "STOP"
    /\ max = Cardinality(Sockets) + 1     \* (size_t)-1: more than any number of sockets
    /\ pool = {} /\ groups = [g \in AllGroups |-> {}]
    /\ sock = [s \in Sockets |-> "none"] /\ handshaking = {} /\ shaking = {}
    /\ held = {} /\ cast = {}
    /\ stopping = FALSE /\ stopLeft = {}
    /\ loop = "idle" /\ cur = NoSocket
    /\ told = {} /\ untold = {} /\ cleared = {} /\ left = {} /\ late = {}

----------------------------------------------------------------------------
(* Helpers.                                                                *)

\* Some shared_ptr to the SocketImpl exists.
Referenced(s) ==
    \/ s \in pool \/ s \in held \/ s \in cast \/ s = cur
    \/ \E g \in AllGroups : s \in groups[g]

\* "f" is the state of the connections after the step; a SocketImpl that the step leaves
\* without owner is destroyed: ~SocketImpl calls Disconnect(false), and the close callback
\* will not find it.
Reap(f) ==
    sock' = [s \in Sockets |-> IF f[s] \in Alive /\ ~Referenced(s)' THEN "dropped" ELSE f[s]]

\* mutex_ is free: OnAccept is not calling the handler, Stop() is not clearing the pool.
ServerMutexFree == loop # "onconnect" /\ ~stopping

\* SocketPool::Add answers ENOSPC.
Full == max > 0 /\ max <= Cardinality(pool)

\* mutant: Leave(socket) forgets a group
MutLeaveAll(s) ==
    /\ groups' = [groups EXCEPT ![Broadcast] = @ \ {s}]
    /\ left' = left \cup {s} /\ UNCHANGED late

\* Group::LeaveAll
LeaveAll(s) ==
    /\ groups' = [g \in AllGroups |-> groups[g] \ {s}]
    /\ left' = left \cup {s} /\ UNCHANGED late

\* SocketImpl::Disconnect(hs): the state of the connection, and handshaking_, which is
\* assigned before Disconnect() finds out that the connection is already closing.
Closing(from) == IF from \in Open THEN "closing" ELSE from

Disconnected(s, hs) == handshaking' = IF hs THEN handshaking \cup {s} ELSE handshaking \ {s}

----------------------------------------------------------------------------
(* Calls of the application.                                               *)

Start ==
    /\ ServerMutexFree /\ state = "STOP" /\ state' = "START"
    /\ UNCHANGED <<kind, max, pool, groups, sock, handshaking, shaking, held, cast,
                   stopping, stopLeft, loopVars, tellVars, leftVars>>

\* SetMaxClients, at any time and without a mutex.
SetMaxClients(n) ==
    /\ n # max /\ max' = n
    /\ UNCHANGED <<kind, state, pool, groups, sock, handshaking, shaking, held, cast,
                   stopping, stopLeft, loopVars, tellVars, leftVars>>

\* Stop(): STOP, close the listening handle, and SocketPool::Clear begins.
Stop ==
    /\ ServerMutexFree /\ state = "START" /\ state' = "STOP"
    /\ stopping' = TRUE /\ stopLeft' = pool
    /\ UNCHANGED <<kind, max, pool, groups, sock, handshaking, shaking, held, cast,
                   loopVars, tellVars, leftVars>>

StopLeave(s) ==
    /\ stopping /\ s \in stopLeft
    /\ stopLeft' = stopLeft \ {s}
    /\ LeaveAll(s)
    /\ UNCHANGED <<kind, state, max, pool, sock, handshaking, shaking, held, cast,
                   stopping, loopVars, tellVars>>

\* mutant: Clear() without pool_.clear()
MutStopClear ==
    /\ stopping /\ stopLeft = {} /\ stopping' = FALSE
    /\ UNCHANGED <<kind, state, max, pool, groups, sock, handshaking, shaking, held, cast,
                   stopLeft, loopVars, tellVars, leftVars>>

\* mutant: pool_.clear() while Clear() is still walking the pool
MutStopClearEarly ==
    /\ stopping /\ stopping' = (stopLeft # {})
    /\ cleared' = cleared \cup pool
    /\ pool' = {}
    /\ UNCHANGED <<kind, state, max, groups, handshaking, shaking, held, cast, stopLeft,
                   loopVars, told, untold, leftVars>>
    /\ Reap(sock)

\* pool_.clear(), and Stop() returns.
StopClear ==
    /\ stopping /\ stopLeft = {} /\ stopping' = FALSE
    /\ cleared' = cleared \cup pool
    /\ pool' = {}
    /\ UNCHANGED <<kind, state, max, groups, handshaking, shaking, held, cast, stopLeft,
                   loopVars, told, untold, leftVars>>
    /\ Reap(sock)

\* The application can use the socket: it is in OnConnect, or has kept a copy.
Has(s) == s \in held \/ (loop = "onconnect" /\ s = cur)

\* The application copies the Socket of an OnConnect or of Group::Get, and lets go of it
\* later.
Keep(s) ==
    /\ s \notin held
    /\ Has(s) \/ \E g \in AllGroups : s \in groups[g]
    /\ held' = held \cup {s}
    /\ UNCHANGED <<serverVars, pool, groups, sock, handshaking, shaking, cast, loopVars,
                   tellVars, leftVars>>

Drop(s) ==
    /\ s \in held /\ held' = held \ {s}
    /\ UNCHANGED <<serverVars, pool, groups, handshaking, shaking, cast, loopVars,
                   tellVars, leftVars>>
    /\ Reap(sock)

\* Socket::Disconnect() by the handler or by any thread that has a copy.
Disconnect(s) ==
    /\ Has(s)
    /\ sock' = [sock EXCEPT ![s] = Closing(@)]
    /\ Disconnected(s, FALSE)
    /\ UNCHANGED <<serverVars, pool, groups, shaking, held, cast, loopVars, tellVars,
                   leftVars>>

Join(g, s) ==
    /\ Has(s) /\ s \notin groups[g]
    /\ groups' = [groups EXCEPT ![g] = @ \cup {s}]
    /\ late' = IF s \in left THEN late \cup {s} ELSE late
    /\ UNCHANGED <<serverVars, pool, sock, handshaking, shaking, held, cast, loopVars,
                   tellVars, left>>

Leave(g, s) ==
    /\ s \in groups[g]
    /\ groups' = [groups EXCEPT ![g] = @ \ {s}]
    /\ UNCHANGED <<serverVars, pool, handshaking, shaking, held, cast, loopVars, tellVars,
                   leftVars>>
    /\ Reap(sock)

\* Notify::Send(group_name [, except_socket]): Group::Get copies the set, the sockets of the
\* set are sent to without a lock (the outcome of each Send is LinearSocket's) ...
Send(g) ==
    /\ cast = {} /\ groups[g] # {}
    /\ cast' = groups[g]
    /\ UNCHANGED <<serverVars, pool, groups, sock, handshaking, shaking, held, loopVars,
                   tellVars, leftVars>>

\* ... and the set is destroyed.
SendReturns ==
    /\ cast # {} /\ cast' = {}
    /\ UNCHANGED <<serverVars, pool, groups, handshaking, shaking, held, loopVars,
                   tellVars, leftVars>>
    /\ Reap(sock)

----------------------------------------------------------------------------
(* The event loop.                                                         *)

\* OnAccept of a stopped server returns at once: no SocketImpl is made for the stream.
AcceptStopped(s) ==
    /\ loop = "idle" /\ ~stopping /\ sock[s] = "none" /\ state = "STOP"
    /\ sock' = [sock EXCEPT ![s] = "ignored"]
    /\ UNCHANGED <<serverVars, pool, groups, handshaking, shaking, held, cast, loopVars,
                   tellVars, leftVars>>

\* OnAccept refuses the connection: the pool is full, StartRead fails or (WS) the request
\* is malformed.  The only shared_ptr goes out of scope.
AcceptRefused(s) ==
    /\ loop = "idle" /\ ~stopping /\ sock[s] = "none" /\ state = "START"
    /\ sock' = [sock EXCEPT ![s] = "dropped"]
    /\ UNCHANGED <<serverVars, pool, groups, handshaking, shaking, held, cast, loopVars,
                   tellVars, leftVars>>

\* OnAccept of a WebSocket server that asks for (another) authorization: the socket stays
\* in the pool until its handshake has failed.
AcceptUnauthorized(s) ==
    /\ loop = "idle" /\ ~stopping /\ sock[s] = "none" /\ state = "START"
    /\ kind = "WS" /\ ~Full
    /\ pool' = pool \cup {s}
    /\ sock' = [sock EXCEPT ![s] = "handshaking"]
    /\ handshaking' = handshaking \cup {s} /\ shaking' = shaking \cup {s}
    /\ UNCHANGED <<serverVars, groups, held, cast, loopVars, tellVars, leftVars>>

\* OnAccept: Retain, join the broadcast group, and the handler's OnConnect.
Accept(s) ==
    /\ loop = "idle" /\ ~stopping /\ sock[s] = "none" /\ state = "START" /\ ~Full
    /\ pool' = pool \cup {s}
    /\ groups' = [groups EXCEPT ![Broadcast] = @ \cup {s}]
    /\ sock' = [sock EXCEPT ![s] = IF kind = "WS" THEN "handshaking" ELSE "connected"]
    /\ handshaking' = IF kind = "WS" THEN handshaking \cup {s} ELSE handshaking
    /\ shaking' = IF kind = "WS" THEN shaking \cup {s} ELSE shaking
    /\ told' = told \cup {s}
    /\ loop' = "onconnect" /\ cur' = s
    /\ UNCHANGED <<serverVars, held, cast, untold, cleared, leftVars>>

OnConnectReturns ==
    /\ loop = "onconnect" /\ loop' = "idle" /\ cur' = NoSocket
    /\ UNCHANGED <<serverVars, pool, groups, handshaking, shaking, held, cast, tellVars,
                   leftVars>>
    /\ Reap(sock)

\* libtv calls OnHandshakeComplete: the handshake is not completed and the handle not closed,
\* though the application may have called Disconnect().
Completes(s) == loop = "idle" /\ s \in shaking /\ sock[s] \in {"handshaking", "closing"}

\* mutant: handshaking_ stays set, as if only the failing path reset it
MutHandshakeDone(s) ==
    /\ Completes(s) /\ s \in told
    /\ sock' = [sock EXCEPT ![s] = IF @ = "handshaking" THEN "connected" ELSE @]
    /\ shaking' = shaking \ {s}
    /\ UNCHANGED <<serverVars, pool, groups, handshaking, held, cast, loopVars, tellVars,
                   leftVars>>

\* OnHandshakeComplete, status 0.
HandshakeDone(s) ==
    /\ Completes(s) /\ s \in told
    /\ sock' = [sock EXCEPT ![s] = IF @ = "handshaking" THEN "connected" ELSE @]
    /\ handshaking' = handshaking \ {s} /\ shaking' = shaking \ {s}
    /\ UNCHANGED <<serverVars, pool, groups, held, cast, loopVars, tellVars, leftVars>>

\* OnHandshakeComplete with an error: Disconnect(true), without a look at state_, so also
\* when the application has called Disconnect() before.
HandshakeFailed(s) ==
    /\ Completes(s)
    /\ sock' = [sock EXCEPT ![s] = Closing(@)]
    /\ Disconnected(s, TRUE)
    /\ UNCHANGED <<serverVars, pool, groups, shaking, held, cast, loopVars, tellVars,
                   leftVars>>

\* OnRead: end of file, an error or an invalid message.  The socket is open, mutex_ is
\* released, and handshaking_ is read as the argument of Disconnect() ...
PeerCloses(s) ==
    /\ loop = "idle" /\ sock[s] \in Open
    /\ loop' = IF s \in handshaking THEN "eof_handshaking" ELSE "eof"
    /\ cur' = s
    /\ UNCHANGED <<serverVars, pool, groups, sock, handshaking, shaking, held, cast,
                   tellVars, leftVars>>

\* ... which may come after a Disconnect() of the application.
OnReadDisconnect ==
    /\ loop \in {"eof", "eof_handshaking"} /\ loop' = "idle" /\ cur' = NoSocket
    /\ Disconnected(cur, loop = "eof_handshaking")
    /\ UNCHANGED <<serverVars, pool, groups, shaking, held, cast, tellVars, leftVars>>
    /\ Reap([sock EXCEPT ![cur] = Closing(@)])

\* OnClose of a socket that still exists: OnDisconnect begins.
OnClose(s) ==
    /\ loop = "idle" /\ sock[s] = "closing"
    /\ sock' = [sock EXCEPT ![s] = "closed"]
    /\ loop' = "leaveall" /\ cur' = s
    /\ UNCHANGED <<serverVars, pool, groups, handshaking, shaking, held, cast, tellVars,
                   leftVars>>

\* ServerImpl::Release: Group::LeaveAll ...
ReleaseLeave ==
    /\ loop = "leaveall" /\ loop' = "remove"
    /\ LeaveAll(cur)
    /\ UNCHANGED <<serverVars, pool, sock, handshaking, shaking, held, cast, cur, tellVars>>

\* ... and HandlerDelegate::Release, which waits for SocketPool::Clear.
ReleaseRemove ==
    /\ loop = "remove" /\ ~stopping /\ loop' = "ondisconnect"
    /\ pool' = pool \ {cur}
    /\ UNCHANGED <<serverVars, groups, sock, handshaking, shaking, held, cast, cur,
                   tellVars, leftVars>>

\* The handler's OnDisconnect, unless the handshake never finished.
OnDisconnect ==
    /\ loop = "ondisconnect" /\ loop' = "idle" /\ cur' = NoSocket
    /\ untold' = IF cur \in handshaking THEN untold ELSE untold \cup {cur}
    /\ UNCHANGED <<serverVars, pool, groups, handshaking, shaking, held, cast, told,
                   cleared, leftVars>>
    /\ Reap(sock)

----------------------------------------------------------------------------

AppNext ==
    \/ Start \/ Stop
    \/ \E n \in Limits : SetMaxClients(n)
    \/ \E s \in Sockets : Keep(s) \/ Drop(s) \/ Disconnect(s)
    \/ \E g \in AllGroups, s \in Sockets : Join(g, s) \/ Leave(g, s)
    \/ \E g \in AllGroups : Send(g)

StopReturns == StopClear \/ \E s \in Sockets : StopLeave(s)

LoopReturns ==
    \/ OnConnectReturns \/ OnReadDisconnect \/ ReleaseLeave \/ ReleaseRemove
    \/ OnDisconnect

LoopNext ==
    \E s \in Sockets :
        \/ AcceptStopped(s) \/ AcceptRefused(s) \/ AcceptUnauthorized(s) \/ Accept(s)
        \/ HandshakeDone(s) \/ HandshakeFailed(s) \/ PeerCloses(s)

CloseNext == \E s \in Sockets : OnClose(s)

Next == AppNext \/ StopReturns \/ SendReturns \/ LoopReturns \/ LoopNext \/ CloseNext

Spec == Init /\ [][Next]_vars

\* Threads inside a call or a callback go on, and libtv calls back for a closed handle.
\* Nothing is assumed of the application or of the peers.
FairSpec == Spec /\ WF_vars(StopReturns) /\ WF_vars(SendReturns)
                 /\ WF_vars(LoopReturns) /\ \A s \in Sockets : SF_vars(OnClose(s))

----------------------------------------------------------------------------

\* The types of everything but the flag "stopping".
DataTypes ==
    /\ kind \in Kinds /\ state \in {"STOP", "START"} /\ max \in Nat
    /\ pool \subseteq Sockets /\ groups \in [AllGroups -> SUBSET Sockets]
    /\ sock \in [Sockets -> SockStates] /\ handshaking \subseteq Sockets
    /\ shaking \subseteq Sockets
    /\ held \subseteq Sockets /\ cast \subseteq Sockets
    /\ stopLeft \subseteq pool
    /\ loop \in {"idle", "onconnect", "eof", "eof_handshaking", "leaveall", "remove",
                "ondisconnect"}
    /\ cur \in Sockets \cup {NoSocket}
    /\ told \subseteq Sockets /\ untold \subseteq Sockets /\ cleared \subseteq Sockets
    /\ left \subseteq Sockets /\ late \subseteq Sockets

\* The pool, the groups, the sockets and the callbacks stay in their types, and Clear()
\* walks over sockets that are in the pool.
TypeOK == stopping \in BOOLEAN /\ DataTypes

\* The connections the handler knows of, but for those that a Stop() let go of.
Clients == {s \in told \ cleared : sock[s] \in Open \cup {"closing"}}

\* SetMaxClients bounds the connections the handler knows of: a connection between its
\* OnConnect and its OnClose is counted in the pool, unless a Stop() took it out, so
\* OnConnect is never called for one too many, whatever is being closed, challenged or
\* refused meanwhile.  (A limit of 0 is no limit.)
LimitRespected == [][told' # told /\ max > 0 => Cardinality(Clients') <= max]_vars

\* A connection that is closed and reported is in no group, so groups do not keep dead
\* sockets alive, except where the application itself joined a group after Release or
\* Stop() had called LeaveAll, which nothing ever undoes.
ClosedLeavesGroups ==
    loop = "idle" =>
        \A s \in Sockets \ late :
            sock[s] = "closed" => \A g \in AllGroups : s \notin groups[g]

\* When Stop() has returned and until the next Start(), the pool is empty and the groups
\* hold at most sockets that the application joined after LeaveAll, also if connections
\* were being accepted or closed while Stop() ran.
StopEmpties ==
    state = "STOP" /\ ~stopping => pool = {} /\ \A g \in AllGroups : groups[g] \subseteq late

\* The handler hears OnDisconnect only of sockets it heard OnConnect of: not of refused
\* ones, not of those that a WebSocket server answered with a challenge.
DisconnectAfterConnect == untold \subseteq told

\* Stop() ends every connection of the pool that the application does not keep for ever,
\* with a copy of the Socket or by a late Join: a broadcast under way, a callback or a
\* Group::Get only delays the end.
StopDisconnects ==
    \A s \in Sockets :
        (stopping /\ s \in stopLeft)
            ~> (sock[s] \notin Open \/ s \in late \/ [](s \in held))

----------------------------------------------------------------------------
(* What the handler sees, in the terms of Hosting.                         *)

\* The connection is closing, or its OnClose is running.
Ending(s) == sock[s] = "closing" \/ (sock[s] = "closed" /\ s = cur)

\* A socket that OnClose is done with, or that its last owner destroyed, is over; so a
\* second OnClose of a socket would be a step of Hosting that does not exist.
ConnOf(s) ==
    CASE s \notin told -> "new"
      [] s \in told /\ sock[s] = "handshaking" -> "opening"
      [] s \in told /\ sock[s] = "connected" -> "open"
      [] s \in told /\ Ending(s) -> IF s \in handshaking THEN "failing"
                                   ELSE IF s \in shaking THEN "aborted" ELSE "ended"
      [] OTHER -> IF s \in untold THEN "reported" ELSE "silent"

Host == INSTANCE Hosting WITH
            Connections <- Sockets,
            serving <- state = "START" \/ stopping,
            limit <- max,
            conn <- [s \in Sockets |-> ConnOf(s)],
            released <- cleared \cap told

\* Pool, groups, callbacks and owners together keep the contract of Hosting: to the handler
\* Stop() is one step that lets go of every open connection, OnConnect stays within the
\* limit, and a connection that was established and that no Stop() let go of does not end
\* without OnDisconnect, whoever keeps or drops copies of its socket.  (A connection that the
\* application disconnects during its handshake may: a failing OnHandshakeComplete or an end
\* of file that comes after that Disconnect() sets handshaking_ again.)
ImplementsHosting == Host!Spec
=============================================================================

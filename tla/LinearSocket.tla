---------------------------- MODULE LinearSocket ----------------------------
(***************************************************************************)
(* One linear::SocketImpl (src/src/socket_impl.cpp), the object behind     *)
(* every client and server socket of the library, as seen by any number of *)
(* application threads and by the one event-loop thread that runs all of   *)
(* its callbacks.                                                          *)
(*                                                                         *)
(* Grain of atomicity.  A step is one critical section of state_mutex_ or  *)
(* of request_timer_mutex_, or the code between two of them.  Application  *)
(* threads keep no state between two calls, so they need no identity: a    *)
(* call is one step, except Send() of a request, which holds state_mutex_  *)
(* over three steps ("sending") because the event loop can report the      *)
(* outcome of its tv_write() between them.  The event loop runs one        *)
(* callback at a time; "loop" says where it is inside that callback.  A    *)
(* handler that calls the socket from a callback does what an application  *)
(* thread can do at that moment, so it adds no behaviour, except where the *)
(* event loop calls it with a mutex held (onerror_held).                   *)
(*                                                                         *)
(* Calls that only return an error (EINVAL, EALREADY, EBUSY, ENOTCONN, a   *)
(* failed tv_write) change nothing and are stuttering steps.               *)
(*                                                                         *)
(* libtv (an empty submodule of the repository) is external: it is         *)
(* modelled from the way EventLoopImpl uses its callbacks.                 *)
(***************************************************************************)
EXTENDS Integers, Sequences, FiniteSets

CONSTANTS
    Kinds,         \* the kinds of socket to consider, see AllKinds
    Requests,      \* requests the application may send, each at most once
    Notifies,      \* notifies and responses: messages without a request timer
    Timeouts,      \* the choices of "timeout > 0" in Connect(timeout)
    AnyTime,       \* TRUE: Connect() is called at any time
                   \* FALSE: only after OnDisconnect of the previous attempt
    CallsBack,     \* TRUE: the handler's OnError calls socket.Disconnect()
    MaxConnects,   \* bound: connection attempts in a behaviour
    NcWrap         \* the 0xfffd of WSSocketImpl::OnConnect

AllKinds == {"TCPClient", "WSClient", "TCPServer", "WSServer"}
Messages == Requests \cup Notifies

ASSUME KindsAssumption == Kinds \subseteq AllKinds
ASSUME MessagesAssumption == Requests \cap Notifies = {}
ASSUME FlagsAssumption ==
    Timeouts \subseteq BOOLEAN /\ AnyTime \in BOOLEAN /\ CallsBack \in BOOLEAN
ASSUME BoundsAssumption == MaxConnects \in Nat /\ NcWrap \in Nat \ {0}

VARIABLES
    \* members of SocketImpl (and of WSSocketImpl: nc)
    kind,               \* type_ and connectable_; SSL is as TCP and WSS as WS
    state,              \* state_
    handshaking,        \* handshaking_
    last_error,         \* last_error_
    connect_timeout,    \* connect_timeout_ > 0
    connect_timer,      \* connect_timer_: TimerImpl::state_ is START
    pending_messages,   \* pending_messages_
    request_timers,     \* requests with an entry in request_timers_
    running,            \* requests whose RequestTimer has been started
    inPool,             \* HandlerDelegate::pool_ holds this socket
    nc,                 \* authenticate_context_.nc
    \* libtv
    stream,             \* what libtv does with the handle stream_ points to
    tvTimer,            \* the connect timer's handle may still expire
    writes,             \* the write request of each message
    \* threads
    loop,               \* the event-loop thread
    readBuffer,         \* responses still to unpack in the running OnRead
    sending, current,   \* the Send() that holds state_mutex_, and its request
    \* history, for the properties
    connects,           \* connection attempts so far
    closes,             \* who called tv_close on the present handle
    owed,               \* attempts whose OnDisconnect has not been called yet
    up,                 \* OnConnect called, its OnDisconnect not yet
    retries,            \* automatic reconnections since the last Connect()
    clock,              \* numbers the Send() and tv_write calls
    route,              \* how Send() accepted each message
    sentAt, wireAt,     \* the times of its Send() and of its tv_write
    unarmed,            \* requests in request_timers_ whose timer could not be started
    settled,            \* reports by response, timeout or cancellation
    writeErrors         \* reports by OnWrite

memberVars == <<kind, state, handshaking, last_error, connect_timeout, connect_timer,
                pending_messages, request_timers, running, inPool, nc>>
tvVars     == <<stream, tvTimer, writes>>
threadVars == <<loop, readBuffer, sending, current>>
ghostVars  == <<connects, closes, owed, up, retries,
                clock, route, sentAt, wireAt, unarmed, settled, writeErrors>>
msgVars    == <<pending_messages, request_timers, running, writes, sending, current,
                clock, route, sentAt, wireAt, unarmed, settled, writeErrors>>
orderVars  == <<clock, route, sentAt, wireAt>>
linkVars   == <<state, handshaking, last_error, connect_timeout, connect_timer, inPool,
                nc, stream, tvTimer, connects, closes, owed, up, retries>>
vars == <<memberVars, tvVars, threadVars, ghostVars>>

NoMessage == "no message"
States == {"DISCONNECTED", "CONNECTING", "CONNECTED", "DISCONNECTING"}
Errors == {"OK", "EOF", "ECONN", "ETIMEDOUT", "EWS"}
Streams == {"none", "connecting", "cancelling", "open", "failed", "closing", "closed"}
LoopPoints == {"idle", "onaccept", "connect_timeout", "close", "onconnect", "flush",
               "unpack", "eof", "eof_handshaking", "onerror_held",
               "release", "retry", "discard", "cancel", "ondisconnect", "returning"}
Closers == {"application", "peer", "connect", "handshake"}

Client == kind \in {"TCPClient", "WSClient"}
SentSet == {m \in Messages : route[m] # "none"}
PendingSet == {pending_messages[i] : i \in 1..Len(pending_messages)}

----------------------------------------------------------------------------
(* The client constructor, and a server's accepted socket as OnAccept has  *)
(* set it up (constructor, StartRead, Retain) when it calls the handler's  *)
(* OnConnect.                                                              *)

ClientInit ==
    /\ kind \in Kinds \cap {"TCPClient", "WSClient"}
    /\ state = "DISCONNECTED" /\ handshaking = FALSE
    /\ stream = "none" /\ inPool = FALSE /\ loop = "idle"
    /\ owed = 0 /\ up = FALSE

ServerInit ==
    /\ kind \in Kinds \cap {"TCPServer", "WSServer"}
    /\ state = IF kind = "WSServer" THEN "CONNECTING" ELSE "CONNECTED"
    /\ handshaking = (kind = "WSServer")
    /\ stream = IF kind = "WSServer" THEN "connecting" ELSE "open"
    /\ inPool = TRUE /\ loop = "onaccept"
    /\ owed = 1 /\ up = TRUE

Init ==
    /\ ClientInit \/ ServerInit
    /\ last_error = "OK" /\ connect_timeout = FALSE /\ connect_timer = FALSE /\ nc = 0
    /\ pending_messages = <<>> /\ request_timers = {} /\ running = {}
    /\ tvTimer = FALSE /\ writes = [m \in Messages |-> "none"]
    /\ readBuffer = {} /\ sending = "none" /\ current = NoMessage
    /\ connects = 0 /\ closes = <<>> /\ retries = 0
    /\ clock = 0 /\ route = [m \in Messages |-> "none"]
    /\ sentAt = [m \in Messages |-> 0] /\ wireAt = [m \in Messages |-> 0]
    /\ unarmed = {} /\ settled = [m \in Messages |-> 0]
    /\ writeErrors = [m \in Messages |-> 0]

----------------------------------------------------------------------------
(* Helpers.                                                                *)

\* state_mutex_ is free: no Send() of a request is between tv_write and its end.
StateMutexFree == sending = "none"

\* KeepAlive, SetSockOpt, Send and OnRead touch the handle only in these states.
UsesStream == state \in {"CONNECTING", "CONNECTED"}

\* connect_timer_.Stop() on the event loop also closes the libtv timer at once;
\* from another thread libtv may already be running the timer's callback.
StopTimerOnLoop == connect_timer' = FALSE /\ tvTimer' = FALSE

\* tv_close(stream_, EventLoopImpl::OnClose)
TvClose(who) ==
    /\ closes' = Append(closes, who)
    /\ stream' = IF stream \in {"connecting", "cancelling"} THEN "cancelling" ELSE "closing"

\* The body of SocketImpl::Disconnect(handshaking), mutex held.
DisconnectBody(hs, who) ==
    /\ handshaking' = hs
    /\ IF state \in {"DISCONNECTING", "DISCONNECTED"}
         THEN UNCHANGED <<state, closes, stream>>
         ELSE state' = "DISCONNECTING" /\ TvClose(who)
    /\ connect_timer' = IF state \in {"DISCONNECTING", "DISCONNECTED"}
                        THEN connect_timer ELSE FALSE

\* mutant: the result of a late Disconnect() is kept as the error
MutDisconnectError ==
    IF state \in {"DISCONNECTING", "DISCONNECTED"} THEN "EALREADY" ELSE "OK"

\* last_error_ as Disconnect leaves it
DisconnectError ==
    IF state \in {"DISCONNECTING", "DISCONNECTED"} THEN last_error ELSE "OK"

\* reports to the handler: OnMessage(response), OnError(ETIMEDOUT), OnError(ECANCELED)
Settle(ms) == settled' = [m \in Messages |-> settled[m] + (IF m \in ms THEN 1 ELSE 0)]

\* mutant: the entry is erased and the timer not deleted
MutEraseTimers(ms) ==
    /\ request_timers' = request_timers \ ms
    /\ UNCHANGED <<running, unarmed>>

\* delete *it; request_timers_.erase(it): deleting a RequestTimer stops it.
EraseTimers(ms) ==
    /\ request_timers' = request_timers \ ms
    /\ running' = running \ (ms \cap request_timers)
    /\ unarmed' = unarmed \ ms

\* authenticate_context_.nc after WSSocketImpl::OnConnect; "challenge" says that the
\* answer carried a www-authenticate header.
NextNc(challenge) ==
    IF kind # "WSClient" \/ ~challenge THEN 0
    ELSE (IF nc > NcWrap THEN 0 ELSE nc) + 1

\* mutant: any error is tried again
MutCheckRetryAnyError == last_error # "OK"

\* mutant: no limit on the nonce count
MutCheckRetryNoLimit == last_error = "EWS" /\ nc > 0

\* CheckRetryAuth(): nc > 0 records that the last answer carried a challenge.  The code asks
\* besides for the code 401 and the type DIGEST, which the Connect() of another thread may
\* replace before OnDisconnect looks: the model retries in more cases than the code.
CheckRetryAuth == last_error = "EWS" /\ nc > 0 /\ nc < 2

----------------------------------------------------------------------------
(* Calls of the application: Connect, Disconnect, Send.                    *)

\* connect_timer_.Start, whose error (no memory, tv_timer_init, tv_timer_start) nobody
\* looks at: the attempt then goes on without a timer.
StartConnectTimer(timed) ==
    \/ timed /\ connect_timer' = TRUE /\ tvTimer' = TRUE
    \/ UNCHANGED <<connect_timer, tvTimer>>

\* mutant: Connect() without Retain
MutConnectBody(timed) ==
    /\ state' = "CONNECTING"
    /\ stream' = "connecting"
    /\ closes' = <<>>
    /\ connect_timeout' = timed
    /\ StartConnectTimer(timed)
    /\ connects' = connects + 1
    /\ UNCHANGED inPool

\* Connect(): Retain in the pool, the transport's Connect(), the connect timer.
ConnectBody(timed) ==
    /\ state' = "CONNECTING"
    /\ inPool' = TRUE
    /\ stream' = "connecting"
    /\ closes' = <<>>
    /\ connect_timeout' = timed
    /\ StartConnectTimer(timed)
    /\ connects' = connects + 1

\* mutant: a failed Connect() without Release
MutConnectFailsBody ==
    /\ inPool' = TRUE
    /\ UNCHANGED <<state, stream, closes, connect_timeout, connect_timer, tvTimer, connects>>

\* The transport's Connect() fails (no memory, tv_*_init, tv_bindtodevice): Release.
ConnectFailsBody ==
    /\ inPool' = FALSE
    /\ UNCHANGED <<state, stream, closes, connect_timeout, connect_timer, tvTimer, connects>>

MayConnect == StateMutexFree /\ Client /\ state = "DISCONNECTED" /\ connects < MaxConnects

Connect(timed) ==
    /\ MayConnect /\ (AnyTime \/ owed = 0)
    /\ ConnectBody(timed)
    /\ owed' = owed + 1 /\ retries' = 0
    /\ UNCHANGED <<kind, handshaking, last_error, nc, up, msgVars, loop, readBuffer>>

ConnectFails ==
    /\ MayConnect /\ (AnyTime \/ owed = 0)
    /\ ConnectFailsBody
    /\ UNCHANGED <<kind, handshaking, last_error, nc, owed, up, retries, msgVars, loop,
                   readBuffer>>

Disconnect ==
    /\ StateMutexFree
    /\ DisconnectBody(FALSE, "application")
    /\ last_error' = DisconnectError
    /\ UNCHANGED <<kind, connect_timeout, inPool, nc, tvTimer, connects, owed, up,
                   retries, msgVars, loop, readBuffer>>

\* Send() while CONNECTING: the message waits in pending_messages_.
SendPending(m) ==
    /\ StateMutexFree /\ state = "CONNECTING" /\ m \notin SentSet
    /\ pending_messages' = Append(pending_messages, m)
    /\ clock' = clock + 1
    /\ route' = [route EXCEPT ![m] = "pending"]
    /\ sentAt' = [sentAt EXCEPT ![m] = clock']
    /\ UNCHANGED <<kind, linkVars, request_timers, running, unarmed, writes, sending,
                   current, wireAt, settled, writeErrors, loop, readBuffer>>

\* The same while _DiscardMessages of the previous connection swaps pending_messages_
\* without state_mutex_: a data race on the vector, in which the message can get lost.
SendTorn(m) ==
    /\ StateMutexFree /\ state = "CONNECTING" /\ m \notin SentSet
    /\ loop = "discard"
    /\ clock' = clock + 1
    /\ route' = [route EXCEPT ![m] = "torn"]
    /\ sentAt' = [sentAt EXCEPT ![m] = clock']
    /\ UNCHANGED <<kind, linkVars, pending_messages, request_timers, running, unarmed,
                   writes, sending, current, wireAt, settled, writeErrors, loop,
                   readBuffer>>

\* Send() while CONNECTED, up to and including a successful tv_write in _Send().
\* A request keeps state_mutex_ until its timer was started.
SendDirect(m) ==
    /\ StateMutexFree /\ state = "CONNECTED" /\ m \notin SentSet
    /\ writes' = [writes EXCEPT ![m] = "queued"]
    /\ clock' = clock + 1
    /\ route' = [route EXCEPT ![m] = "direct"]
    /\ sentAt' = [sentAt EXCEPT ![m] = clock']
    /\ wireAt' = [wireAt EXCEPT ![m] = clock']
    /\ sending' = IF m \in Requests THEN "push" ELSE "none"
    /\ current' = IF m \in Requests THEN m ELSE NoMessage
    /\ UNCHANGED <<kind, linkVars, pending_messages, request_timers, running, unarmed,
                   settled, writeErrors, loop, readBuffer>>

\* _Send(): request_timers_.push_back under request_timer_mutex_, which OnWrite may hold.
PushTimer ==
    /\ sending = "push" /\ loop # "onerror_held"
    /\ request_timers' = request_timers \cup {current}
    /\ sending' = "start"
    /\ UNCHANGED <<kind, linkVars, pending_messages, running, unarmed, writes, current,
                   orderVars, settled, writeErrors, loop, readBuffer>>

\* mutant: the timer is never started
MutStartTimer ==
    /\ sending = "start"
    /\ sending' = "none" /\ current' = NoMessage
    /\ UNCHANGED <<kind, linkVars, pending_messages, request_timers, running, unarmed,
                   writes, orderVars, settled, writeErrors, loop, readBuffer>>

\* _Send(): request_timer->Start(), and Send() returns.  RequestTimer::Start drops the
\* error of Timer::Start: the request may be left with a timer that does not run.  If OnWrite
\* deleted the timer in the meantime this is a call on freed memory: it may start a timer or
\* do nothing.
StartTimer ==
    /\ sending = "start"
    /\ \/ running' = running \cup {current} /\ UNCHANGED unarmed
       \/ UNCHANGED running /\ unarmed' = unarmed \cup ({current} \cap request_timers)
    /\ sending' = "none" /\ current' = NoMessage
    /\ UNCHANGED <<kind, linkVars, pending_messages, request_timers, writes, orderVars,
                   settled, writeErrors, loop, readBuffer>>

----------------------------------------------------------------------------
(* The event loop: the end of a connection attempt.                        *)

\* mutant: only the first of the two early returns of OnConnect
MutAttemptOpen == state # "CONNECTED"

\* OnConnect goes on only with the attempt it belongs to; a cancelled one returns.
AttemptOpen == state = "CONNECTING"

OnAcceptReturns ==
    /\ loop = "onaccept" /\ loop' = "idle"
    /\ UNCHANGED <<kind, linkVars, msgVars, readBuffer>>

\* OnConnect with an error status: DISCONNECTING, unlock; tv_close follows in CloseFailed.
FailAttempt(error, challenge) ==
    /\ state' = "DISCONNECTING"
    /\ last_error' = error
    /\ nc' = NextNc(challenge)
    /\ loop' = "close"

\* OnConnect(status # 0) of an attempt that was not cancelled.
OnConnectError(error, challenge) ==
    /\ loop = "idle" /\ Client /\ stream = "connecting" /\ StateMutexFree
    /\ challenge => error = "EWS"
    /\ error = "EWS" => kind = "WSClient"
    /\ AttemptOpen
    /\ FailAttempt(error, challenge)
    /\ stream' = "failed" /\ StopTimerOnLoop
    /\ UNCHANGED <<kind, connect_timeout, handshaking, inPool, connects, closes, owed,
                   up, retries, msgVars, readBuffer>>

\* OnConnect of a cancelled attempt ("connect is cancelled"): only the timer is stopped.
OnConnectCancelled ==
    /\ loop = "idle" /\ Client /\ stream = "cancelling" /\ StateMutexFree
    /\ ~AttemptOpen
    /\ nc' = NextNc(FALSE)
    /\ stream' = "closing" /\ StopTimerOnLoop
    /\ UNCHANGED <<kind, connect_timeout, state, handshaking, last_error, inPool,
                   connects, closes, owed, up, retries, msgVars, loop, readBuffer>>

\* OnConnect(0): StartRead (the code asserts that it does not fail), then the handler's
\* OnConnect without the mutex.
OnConnectOk ==
    /\ loop = "idle" /\ Client /\ stream = "connecting" /\ StateMutexFree
    /\ AttemptOpen
    /\ last_error' = "OK" /\ nc' = NextNc(FALSE)
    /\ stream' = "open" /\ StopTimerOnLoop
    /\ up' = TRUE /\ loop' = "onconnect"
    /\ UNCHANGED <<kind, connect_timeout, state, handshaking, inPool, connects, closes,
                   owed, retries, msgVars, readBuffer>>

\* mutant: CONNECTED without looking at state_ again
MutStateAfterOnConnect == "CONNECTED"

\* state_ after the handler's OnConnect returned: the handler, or another thread,
\* may have disconnected.
StateAfterOnConnect == IF state = "CONNECTING" THEN "CONNECTED" ELSE state

OnConnectReturns ==
    /\ loop = "onconnect" /\ StateMutexFree
    /\ state' = StateAfterOnConnect
    /\ loop' = "flush"
    /\ UNCHANGED <<kind, connect_timeout, handshaking, last_error, connect_timer, inPool,
                   nc, stream, tvTimer, connects, closes, owed, up, retries, msgVars,
                   readBuffer>>

\* mutant: a failed OnConnect forgets tv_close
MutCloseFailed ==
    /\ loop = "close" /\ loop' = "idle"
    /\ UNCHANGED <<kind, linkVars, msgVars, readBuffer>>

\* tv_close after a failed OnConnect, outside the mutex.
CloseFailed ==
    /\ loop = "close" /\ loop' = "idle"
    /\ TvClose("connect")
    /\ UNCHANGED <<kind, connect_timeout, state, handshaking, last_error, connect_timer,
                   inPool, nc, tvTimer, connects, owed, up, retries, msgVars,
                   readBuffer>>

\* libtv runs the connect timer's callback: TimerImpl::OnTimer stops the timer and goes
\* on to its callback even when another thread has stopped the timer before.
ConnectTimerExpires ==
    /\ loop = "idle" /\ tvTimer
    /\ StopTimerOnLoop /\ loop' = "connect_timeout"
    /\ UNCHANGED <<kind, connect_timeout, state, handshaking, last_error, inPool, nc,
                   stream, connects, closes, owed, up, retries, msgVars, readBuffer>>

\* OnConnectTimeout: OnConnect(TV_ETIMEDOUT) on whatever the socket is now.
OnConnectTimeout ==
    /\ loop = "connect_timeout" /\ StateMutexFree
    /\ IF AttemptOpen
         THEN FailAttempt("ETIMEDOUT", FALSE)
         ELSE nc' = NextNc(FALSE) /\ loop' = "idle" /\ UNCHANGED <<state, last_error>>
    /\ StopTimerOnLoop
    /\ UNCHANGED <<kind, connect_timeout, handshaking, inPool, stream, connects, closes,
                   owed, up, retries, msgVars, readBuffer>>

\* OnHandshakeComplete of a WebSocket server socket, status # 0: Disconnect(true).
OnHandshakeFailed ==
    /\ loop = "idle" /\ kind = "WSServer" /\ stream \in {"connecting", "cancelling"}
    /\ StateMutexFree
    /\ DisconnectBody(TRUE, "handshake")
    /\ last_error' = DisconnectError
    /\ UNCHANGED <<kind, connect_timeout, inPool, nc, tvTimer, connects, owed, up,
                   retries, msgVars, loop, readBuffer>>

\* OnHandshakeComplete, status 0: CONNECTED whatever state_ was.
OnHandshakeComplete ==
    /\ loop = "idle" /\ kind = "WSServer" /\ stream \in {"connecting", "cancelling"}
    /\ StateMutexFree
    /\ handshaking' = FALSE /\ state' = "CONNECTED"
    /\ stream' = IF stream = "connecting" THEN "open" ELSE "closing"
    /\ loop' = "flush"
    /\ UNCHANGED <<kind, connect_timeout, last_error, connect_timer, inPool, nc, tvTimer,
                   connects, closes, owed, up, retries, msgVars, readBuffer>>

----------------------------------------------------------------------------
(* The event loop: messages.                                               *)

\* mutant: pending_messages_ walked from the back
MutFlushPosition(m) ==
    Len(pending_messages) + 1
      - (CHOOSE i \in 1..Len(pending_messages) : pending_messages[i] = m)

\* _SendPendingMessages walks pending_messages_ from the front.
FlushPosition(m) ==
    CHOOSE i \in 1..Len(pending_messages) : pending_messages[i] = m

\* _SendPendingMessages: one critical section.  tv_write fails for the messages of
\* "failed"; when the socket is not CONNECTED all of them fail.  OnError(ECANCELED).  Of the
\* requests that are sent, those of "started" get a timer that runs (see StartTimer).
Flush(failed) ==
    /\ loop = "flush" /\ StateMutexFree
    /\ failed \subseteq PendingSet /\ (state # "CONNECTED" => failed = PendingSet)
    /\ LET ok == PendingSet \ failed
       IN /\ wireAt' = [m \in Messages |->
                          IF m \in ok THEN clock + FlushPosition(m) ELSE wireAt[m]]
          /\ writes' = [m \in Messages |-> IF m \in ok THEN "queued" ELSE writes[m]]
          /\ request_timers' = request_timers \cup (ok \cap Requests)
          /\ \E started \in SUBSET (ok \cap Requests) :
                /\ running' = running \cup started
                /\ unarmed' = unarmed \cup ((ok \cap Requests) \ started)
    /\ clock' = clock + Len(pending_messages)
    /\ pending_messages' = <<>>
    /\ Settle(failed)
    /\ loop' = "idle"
    /\ UNCHANGED <<kind, linkVars, sending, current, route, sentAt, writeErrors,
                   readBuffer>>

\* libtv hands the bytes of a queued write to the peer.
Written(m) ==
    /\ stream = "open" /\ writes[m] = "queued"
    /\ writes' = [writes EXCEPT ![m] = "written"]
    /\ UNCHANGED <<kind, linkVars, pending_messages, request_timers, running, unarmed,
                   sending, current, orderVars, settled, writeErrors, loop, readBuffer>>

\* OnWrite(0): the message is deleted.
OnWriteOk(m) ==
    /\ loop = "idle" /\ writes[m] = "written"
    /\ writes' = [writes EXCEPT ![m] = "done"]
    /\ UNCHANGED <<kind, linkVars, pending_messages, request_timers, running, unarmed,
                   sending, current, orderVars, settled, writeErrors, loop, readBuffer>>

\* OnWrite(status # 0): the request's timer, if there is one, is deleted; OnError.  When
\* a request has no timer request_timer_mutex_ stays locked during the handler's OnError.
OnWriteError(m) ==
    /\ loop = "idle" /\ writes[m] = "queued"
    /\ writes' = [writes EXCEPT ![m] = "failed"]
    /\ writeErrors' = [writeErrors EXCEPT ![m] = @ + 1]
    /\ EraseTimers({m})
    /\ loop' = IF m \in Requests /\ m \notin request_timers THEN "onerror_held" ELSE "idle"
    /\ UNCHANGED <<kind, linkVars, pending_messages, sending, current, orderVars,
                   settled, readBuffer>>

\* The handler's OnError of that OnWrite, which may call socket.Disconnect().
OnErrorHeldReturns ==
    /\ loop = "onerror_held" /\ loop' = "idle"
    /\ IF CallsBack
         THEN /\ StateMutexFree
              /\ DisconnectBody(FALSE, "application")
              /\ last_error' = DisconnectError
         ELSE UNCHANGED <<state, handshaking, last_error, connect_timer, stream, closes>>
    /\ UNCHANGED <<kind, connect_timeout, inPool, nc, tvTimer, connects, owed, up,
                   retries, msgVars, readBuffer>>

\* A request timer expires: OnRequestTimeout, OnError(ETIMEDOUT), delete.
OnRequestTimeout(r) ==
    /\ loop = "idle" /\ r \in running
    /\ running' = running \ {r}
    /\ request_timers' = request_timers \ {r}
    /\ Settle({r})
    /\ UNCHANGED <<kind, linkVars, pending_messages, unarmed, writes, sending, current,
                   orderVars, writeErrors, loop, readBuffer>>

\* OnRead does nothing unless the socket is CONNECTING or CONNECTED.
Readable ==
    /\ loop = "idle" /\ StateMutexFree
    /\ UsesStream

\* OnRead(nread > 0): the buffer holds responses to some of the written requests, and
\* requests and notifies of the peer, which only reach the handler.
OnReadData(responses) ==
    /\ Readable /\ stream \in {"open", "closing"}
    /\ responses \subseteq {r \in Requests : writes[r] \in {"written", "done"}}
    /\ readBuffer' = responses /\ loop' = "unpack"
    /\ UNCHANGED <<kind, linkVars, msgVars>>

\* A response whose request has a timer: the timer is deleted; OnMessage.
RecvResponse(r) ==
    /\ loop = "unpack" /\ r \in readBuffer
    /\ readBuffer' = readBuffer \ {r}
    /\ EraseTimers({r})
    /\ Settle({r} \cap request_timers)
    /\ UNCHANGED <<kind, linkVars, pending_messages, writes, sending, current, orderVars,
                   writeErrors, loop>>

OnReadReturns ==
    /\ loop = "unpack" /\ readBuffer = {} /\ loop' = "idle"
    /\ UNCHANGED <<kind, linkVars, msgVars, readBuffer>>

\* An invalid, malformed or too big message: the rest is dropped and Disconnect().
OnReadInvalid ==
    /\ loop = "unpack" /\ StateMutexFree /\ loop' = "idle"
    /\ readBuffer' = {}
    /\ DisconnectBody(FALSE, "peer")
    /\ last_error' = DisconnectError
    /\ UNCHANGED <<kind, connect_timeout, inPool, nc, tvTimer, connects, owed, up,
                   retries, msgVars>>

\* OnRead(nread < 0), up to the evaluation of the argument of Disconnect(handshaking_).
OnReadError ==
    /\ Readable
    /\ stream \in {"open", "closing"} \/ kind = "WSServer"
    /\ loop' = IF handshaking THEN "eof_handshaking" ELSE "eof"
    /\ UNCHANGED <<kind, linkVars, msgVars, readBuffer>>

\* Disconnect(handshaking_); last_error_ = e, also when Disconnect returned EALREADY.
OnReadErrorDisconnect ==
    /\ loop \in {"eof", "eof_handshaking"} /\ StateMutexFree /\ loop' = "idle"
    /\ DisconnectBody(loop = "eof_handshaking", "peer")
    /\ last_error' = "EOF"
    /\ UNCHANGED <<kind, connect_timeout, inPool, nc, tvTimer, connects, owed, up,
                   retries, msgVars, readBuffer>>

----------------------------------------------------------------------------
(* The event loop: the end of a connection.                                *)

\* EventLoopImpl::OnClose, which libtv calls after the callbacks of all writes:
\* OnDisconnect's critical section.
OnClose ==
    /\ loop = "idle" /\ stream \in {"closing", "cancelling"} /\ StateMutexFree
    /\ \A m \in Messages : writes[m] \notin {"queued", "written"}
    /\ StopTimerOnLoop
    /\ stream' = "closed"
    /\ state' = "DISCONNECTED"
    /\ loop' = IF state = "DISCONNECTED" THEN "idle" ELSE "release"
    /\ UNCHANGED <<kind, connect_timeout, handshaking, last_error, inPool, nc, connects,
                   closes, owed, up, retries, msgVars, readBuffer>>

\* mutant: messages are discarded only if the socket was connected
MutAfterRelease == IF kind = "WSClient" /\ CheckRetryAuth THEN "retry"
                   ELSE IF up THEN "discard" ELSE "ondisconnect"

\* OnDisconnect of a client WebSocket socket tries the digest authentication again.
AfterRelease == IF kind = "WSClient" /\ CheckRetryAuth THEN "retry" ELSE "discard"

\* OnDisconnect, mutex released: delegate->Release(socket), then the choice to retry.
Release ==
    /\ loop = "release"
    /\ inPool' = FALSE
    /\ loop' = AfterRelease
    /\ UNCHANGED <<kind, connect_timeout, state, handshaking, last_error, connect_timer,
                   nc, stream, tvTimer, connects, closes, owed, up, retries, msgVars,
                   readBuffer>>

\* mutant: the return after the retry is missing
MutRetry ==
    /\ loop = "retry" /\ MayConnect /\ loop' = "discard"
    /\ ConnectBody(connect_timeout)
    /\ retries' = retries + 1
    /\ UNCHANGED <<kind, handshaking, last_error, nc, owed, up, msgVars, readBuffer>>

\* "retry to connect for WebSocket DigestAuth": Connect(connect_timeout_, ev), and return
\* whatever it returned.
Retry ==
    /\ loop = "retry" /\ MayConnect /\ loop' = "idle"
    /\ ConnectBody(connect_timeout)
    /\ retries' = retries + 1
    /\ UNCHANGED <<kind, handshaking, last_error, nc, owed, up, msgVars, readBuffer>>

RetryFails ==
    /\ loop = "retry" /\ StateMutexFree /\ loop' = "idle"
    /\ IF state = "DISCONNECTED"
         THEN ConnectFailsBody
         ELSE UNCHANGED <<state, inPool, stream, closes, connect_timeout, connect_timer,
                          tvTimer, connects>>
    /\ UNCHANGED <<kind, handshaking, last_error, nc, owed, up, retries, msgVars,
                   readBuffer>>

\* mutant: pending messages are freed without OnError
MutDiscard ==
    /\ loop = "discard" /\ loop' = "cancel"
    /\ pending_messages' = <<>>
    /\ UNCHANGED <<kind, linkVars, request_timers, running, unarmed, writes, sending,
                   current, orderVars, settled, writeErrors, readBuffer>>

\* _DiscardMessages, first half: pending_messages_ is taken without a mutex;
\* OnError(ECANCELED) for each.
Discard ==
    /\ loop = "discard" /\ loop' = "cancel"
    /\ pending_messages' = <<>>
    /\ Settle(PendingSet)
    /\ UNCHANGED <<kind, linkVars, request_timers, running, unarmed, writes, sending,
                   current, orderVars, writeErrors, readBuffer>>

\* _DiscardMessages, second half: OnError(ECANCELED) for each request still waiting.
Cancel ==
    /\ loop = "cancel" /\ loop' = "ondisconnect"
    /\ EraseTimers(request_timers)
    /\ Settle(request_timers)
    /\ UNCHANGED <<kind, linkVars, pending_messages, writes, sending, current, orderVars,
                   writeErrors, readBuffer>>

\* mutant: only a connection that came up is reported
MutReportsDisconnect == ~handshaking /\ up

\* The handler's OnDisconnect is called unless a server's handshake never finished.
ReportsDisconnect == ~handshaking

OnDisconnect ==
    /\ loop = "ondisconnect" /\ loop' = "returning"
    /\ owed' = IF ReportsDisconnect THEN owed - 1 ELSE owed
    /\ up' = IF ReportsDisconnect THEN FALSE ELSE up
    /\ UNCHANGED <<kind, connect_timeout, state, handshaking, last_error, connect_timer,
                   inPool, nc, stream, tvTimer, connects, closes, retries, msgVars,
                   readBuffer>>

OnCloseReturns ==
    /\ loop = "returning" /\ loop' = "idle"
    /\ UNCHANGED <<kind, linkVars, msgVars, readBuffer>>

----------------------------------------------------------------------------

AppNext ==
    \/ \E timed \in Timeouts : Connect(timed)
    \/ ConnectFails
    \/ Disconnect
    \/ \E m \in Messages : SendPending(m)
    \/ \E m \in Messages : SendTorn(m)
    \/ \E m \in Messages : SendDirect(m)

SendNext == PushTimer \/ StartTimer

LoopReturns ==
    \/ OnAcceptReturns
    \/ CloseFailed
    \/ OnConnectReturns
    \/ OnConnectTimeout
    \/ \E failed \in SUBSET Messages : Flush(failed)
    \/ \E r \in Requests : RecvResponse(r)
    \/ OnReadReturns
    \/ OnReadErrorDisconnect
    \/ OnErrorHeldReturns
    \/ Release
    \/ Retry
    \/ RetryFails
    \/ Discard
    \/ Cancel
    \/ OnDisconnect
    \/ OnCloseReturns

PeerNext ==
    \/ \E error \in Errors \ {"OK", "EOF", "ETIMEDOUT"}, challenge \in BOOLEAN :
          OnConnectError(error, challenge)
    \/ OnConnectOk
    \/ OnHandshakeFailed
    \/ OnHandshakeComplete
    \/ \E m \in Messages : Written(m)
    \/ \E responses \in SUBSET Requests : OnReadData(responses)
    \/ OnReadInvalid
    \/ OnReadError

TvNext ==
    \/ OnConnectCancelled
    \/ ConnectTimerExpires
    \/ \E m \in Messages : OnWriteOk(m)
    \/ \E m \in Messages : OnWriteError(m)
    \/ \E r \in Requests : OnRequestTimeout(r)
    \/ OnClose

Next == AppNext \/ SendNext \/ LoopReturns \/ PeerNext \/ TvNext

Spec == Init /\ [][Next]_vars

----------------------------------------------------------------------------

\* The Boolean members and flags.
FlagTypes ==
    /\ handshaking \in BOOLEAN /\ connect_timeout \in BOOLEAN
    /\ connect_timer \in BOOLEAN /\ tvTimer \in BOOLEAN
    /\ inPool \in BOOLEAN /\ up \in BOOLEAN

\* The connection: what Connect, Disconnect and the stream's callbacks assign.
LinkTypes ==
    /\ kind \in Kinds /\ state \in States /\ last_error \in Errors
    /\ nc \in Nat /\ stream \in Streams
    /\ connects \in Nat /\ closes \in Seq(Closers) /\ owed \in Int /\ retries \in Nat

\* The messages: what Send, the write and timer callbacks and OnRead assign.
MessageTypes ==
    /\ pending_messages \in Seq(Messages)
    /\ request_timers \subseteq Requests /\ running \subseteq Requests
    /\ unarmed \subseteq Requests
    /\ writes \in [Messages -> {"none", "queued", "written", "done", "failed"}]
    /\ sending \in {"none", "push", "start"} /\ current \in Requests \cup {NoMessage}
    /\ clock \in Nat /\ route \in [Messages -> {"none", "pending", "direct", "torn"}]
    /\ sentAt \in [Messages -> Nat] /\ wireAt \in [Messages -> Nat]
    /\ settled \in [Messages -> Nat] /\ writeErrors \in [Messages -> Nat]

\* The event-loop thread.
LoopTypes == loop \in LoopPoints /\ readBuffer \subseteq Requests

\* Every member, handle, thread and history variable stays in its type; in particular
\* last_error_ only ever holds what OnDisconnect may report.
TypeOK == FlagTypes /\ LinkTypes /\ MessageTypes /\ LoopTypes

\* A handle is closed once: Disconnect() of any thread, a failed OnConnect, a connect
\* timeout that fires late, end of file and an invalid message never call tv_close on
\* the same handle twice (a second tv_close on a libtv handle is an error).  The sockets
\* of a WebSocket server are left out: see OnHandshakeComplete.
CloseOnce == kind # "WSServer" => Len(closes) <= 1

\* The states in which KeepAlive, SetSockOpt, Send and OnRead use stream_ are states in
\* which nobody has closed it (OnConnect must not overwrite a concurrent Disconnect()).
LiveStream ==
    kind # "WSServer" /\ UsesStream => stream \in {"connecting", "open"} /\ closes = <<>>

\* A message gets at most one of: a response (OnMessage), OnError(ETIMEDOUT) from its
\* timer, OnError(ECANCELED) from _SendPendingMessages or _DiscardMessages.
AtMostOneSettlement == \A m \in Messages : settled[m] <= 1

\* No accepted message is lost: until the handler hears of it, it is pending, or (a
\* request) its timer is in request_timers_ or is just being put there by Send(), or (a
\* notify) it has been given to tv_write.  A message of SendTorn may be lost; see
\* DiscardExclusive for when that does not happen.
NoLostMessage ==
    \A m \in SentSet :
        route[m] # "torn" /\ settled[m] = 0 /\ writeErrors[m] = 0 =>
            \/ m \in PendingSet
            \/ m \in Notifies /\ writes[m] # "none"
            \/ m \in request_timers
            \/ sending = "push" /\ m = current

\* When OnDisconnect is over, a disconnected socket holds no message and no request
\* timer of the past connection.
NothingLeftBehind ==
    loop = "idle" /\ state = "DISCONNECTED" /\ kind # "WSClient" =>
        pending_messages = <<>> /\ request_timers = {}

\* Between two callbacks the handler is owed one OnDisconnect when the socket is in use
\* and none when it is not: every attempt that Connect() started, or OnAccept, ends in
\* exactly one OnDisconnect, even if Connect() is called again before it arrives.
EveryAttemptReported ==
    loop = "idle" /\ kind \in {"TCPClient", "TCPServer"} =>
        owed = IF state = "DISCONNECTED" THEN 0 ELSE 1

\* A disconnected socket is not kept in its delegate's pool, so it is not kept alive and
\* does not count against the limit of a server.
PoolNoLeak == loop = "idle" /\ state = "DISCONNECTED" => ~inPool

\* A client's handler never gets OnConnect twice without OnDisconnect in between.
CallbackAlternation == [][loop # "onconnect" /\ loop' = "onconnect" => ~up]_vars

\* Messages reach tv_write in the order of the Send() calls, with one exception: a
\* message sent right after OnConnect set CONNECTED overtakes the pending ones.
OnlyFlushReorders ==
    \A a, b \in SentSet :
        0 < wireAt[b] /\ wireAt[b] < wireAt[a] /\ sentAt[a] < sentAt[b] =>
            route[a] = "pending" /\ route[b] = "direct"

\* OnDisconnect reconnects by itself at most once for each Connect() of the application,
\* however often the server answers with a digest challenge.
RetryOncePerConnect == retries <= 1

\* If the application waits for OnDisconnect before it calls Connect() again, the pool
\* holds the socket from Connect() to the end of the connection.
PoolHoldsLive == ~AnyTime /\ state # "DISCONNECTED" => inPool

\* Under the same condition _DiscardMessages, which takes pending_messages_ without
\* state_mutex_, runs only while Send() refuses messages: there is no SendTorn.
DiscardExclusive == ~AnyTime /\ loop = "discard" => state = "DISCONNECTED"

----------------------------------------------------------------------------
(* Fairness.  Threads that hold a mutex or run a callback go on; due       *)
(* timers, cancelled writes and closed handles get their callbacks.        *)
(* Nothing is assumed of the peer or of the application: no connection,    *)
(* response, end of file or Disconnect() need ever come.                   *)

CancelWrite(m) == stream \in {"closing", "cancelling"} /\ (OnWriteOk(m) \/ OnWriteError(m))

Fairness ==
    /\ WF_vars(LoopReturns)
    /\ WF_vars(SendNext)
    /\ SF_vars(ConnectTimerExpires)
    /\ \A r \in Requests : SF_vars(OnRequestTimeout(r))
    /\ \A m \in Messages : SF_vars(CancelWrite(m))
    /\ SF_vars(OnClose)

FairSpec == Spec /\ Fairness

\* Nothing bounds the attempt: Connect() was given no timeout, or its timer did not start.
Unbounded == state = "CONNECTING" /\ ~connect_timer

\* The handler eventually hears of every accepted request of a TCP client, whatever the peer
\* does, unless Timer::Start failed for the request, or the request waits for ever in an
\* attempt that has no connect timer.
RequestSettles ==
    \A r \in Requests :
        (r \in SentSet /\ route[r] # "torn")
            ~> (settled[r] + writeErrors[r] > 0 \/ r \in unarmed \/ []Unbounded)

\* A disconnection, once begun, reaches the handler's OnDisconnect.
DisconnectCompletes == (state = "DISCONNECTING") ~> (loop = "returning")

----------------------------------------------------------------------------
(* What the handler sees of the socket is what Rpc promises.               *)

R == INSTANCE Rpc WITH accepted <- SentSet,
                       lost <- {m \in Messages : route[m] = "torn"},
                       reports <- settled,
                       failures <- writeErrors

\* The socket, with its threads, timers and races, implements the contract of Rpc: the
\* callbacks come in an order, and as often, as Rpc allows.  In particular the last
\* OnDisconnect owed to the handler comes after a report of every accepted request, and
\* nothing is reported after it (but a request whose write had failed).
ImplementsRpc == R!Spec
=============================================================================

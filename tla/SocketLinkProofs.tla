-------------------------- MODULE SocketLinkProofs --------------------------
(***************************************************************************)
(* The life of the connection: the handle is closed once and not used      *)
(* after it, every attempt is reported once, OnConnect and OnDisconnect    *)
(* alternate, and the pool holds the socket exactly while it is in use.    *)
(* LinkInv is the inductive invariant; its parts say what each point of    *)
(* the event loop's callbacks may rely on.                                 *)
(***************************************************************************)
EXTENDS SocketTypeProofs

\* OnDisconnect has begun and has not called the handler yet.
Ending == {"release", "retry", "discard", "cancel", "ondisconnect"}

\* Whoever leaves CONNECTING or CONNECTED is the one that calls tv_close, at once or
\* (a failed OnConnect) at the next step of the event loop.
CloseInv ==
    kind # "WSServer" =>
        /\ UsesStream => closes = <<>> /\ stream \in {"connecting", "open"}
        /\ loop = "close" => state = "DISCONNECTING" /\ closes = <<>>
        /\ Len(closes) <= 1

\* handshaking_ is only ever set on the sockets of a WebSocket server.
HandshakeInv == kind # "WSServer" => handshaking = FALSE /\ loop # "eof_handshaking"

\* The socket of a server has no connect timer and is never connected again.
ServerInv ==
    ~Client =>
        /\ tvTimer = FALSE /\ loop \notin {"connect_timeout", "close", "retry"}
        /\ state = "DISCONNECTED" => stream = "closed"

\* OnDisconnect runs outside the mutex, but it is the event loop that sets CONNECTED.
EndingInv == loop \in Ending => state # "CONNECTED"

\* A disconnected socket stays in the pool only until OnDisconnect releases it.
PoolInv == state = "DISCONNECTED" /\ loop # "release" => ~inPool

\* The OnDisconnect calls still to come: one for the present attempt, one for the
\* attempt whose OnDisconnect is running (the application may connect again meanwhile).
ReportInv ==
    kind \in {"TCPClient", "TCPServer"} =>
        /\ loop # "retry"
        /\ owed = (IF state # "DISCONNECTED" THEN 1 ELSE 0)
                  + (IF loop \in Ending THEN 1 ELSE 0)

\* After OnConnect the attempt cannot fail any more, until OnDisconnect.
UpInv ==
    Client /\ up =>
        /\ last_error # "EWS" /\ loop # "retry"
        /\ loop \in Ending \/ (state # "DISCONNECTED" /\ stream # "connecting")

\* An application that waits for OnDisconnect cannot meddle with a running OnDisconnect.
WaitInv ==
    ~AnyTime =>
        /\ state # "DISCONNECTED" => inPool /\ owed >= 1
        /\ loop \in Ending => state = "DISCONNECTED" /\ owed >= 1

LinkInv == /\ CloseInv /\ HandshakeInv /\ ServerInv /\ EndingInv
           /\ PoolInv /\ ReportInv /\ UpInv /\ WaitInv

----------------------------------------------------------------------------

\* The points of the event loop that LinkInv says nothing about.
Neutral == LoopPoints \ (Ending \cup {"close", "retry", "connect_timeout", "eof_handshaking"})

\* A step that leaves the connection alone and moves the event loop between neutral
\* points keeps LinkInv.
LEMMA QuietStep ==
  ASSUME LinkInv, UNCHANGED <<kind, linkVars>>,
         loop' = loop \/ (loop \in Neutral /\ loop' \in Neutral)
  PROVE  LinkInv'
BY DEF LinkInv, CloseInv, HandshakeInv, ServerInv, EndingInv, PoolInv, ReportInv, UpInv,
       WaitInv, UsesStream, Client, Neutral, LoopPoints, Ending, linkVars

\* What SocketImpl::Disconnect() does to the connection, at any neutral point and while
\* OnDisconnect runs.
LEMMA DisconnectStep ==
  ASSUME LinkInv, DataInv, NEW hs, NEW who \in Closers, DisconnectBody(hs, who),
         kind # "WSServer" => hs = FALSE,
         last_error' \in {DisconnectError, "EOF"},
         loop' = loop \/ (loop \in Neutral \cup {"eof_handshaking"} /\ loop' = "idle"),
         UNCHANGED <<kind, inPool, tvTimer, owed, up>>
  PROVE  LinkInv'
<1> USE DEF Client, UsesStream, Ending
<1>1. CASE state \in {"DISCONNECTING", "DISCONNECTED"}
  <2>1. UNCHANGED <<state, closes, stream>> /\ handshaking' = hs
    BY <1>1 DEF DisconnectBody
  <2>2. last_error' = last_error \/ last_error' = "EOF"
    BY <1>1 DEF DisconnectError
  <2> QED
    BY <1>1, <2>1, <2>2 DEF LinkInv, CloseInv, HandshakeInv, ServerInv, EndingInv, PoolInv,
       ReportInv, UpInv, WaitInv, Neutral, LoopPoints
<1>2. CASE state \notin {"DISCONNECTING", "DISCONNECTED"}
  <2>1. state' = "DISCONNECTING" /\ TvClose(who) /\ handshaking' = hs
    BY <1>2 DEF DisconnectBody
  <2>2. UsesStream
    BY <1>2 DEF DataInv, LinkTypes, States
  <2>3. last_error' \in {"OK", "EOF"}
    BY <1>2 DEF DisconnectError
  <2>4. CloseInv'
    <3>1. ASSUME kind # "WSServer" PROVE Len(closes') <= 1 /\ loop' # "close"
      <4>1. closes = <<>> /\ loop # "close"
        BY <1>2, <2>2, <3>1 DEF LinkInv, CloseInv
      <4> QED
        BY <2>1, <4>1 DEF TvClose
    <3>2. ~UsesStream' /\ kind' = kind
      BY <2>1
    <3> QED
      BY <3>1, <3>2 DEF CloseInv
  <2> QED
    BY <1>2, <2>1, <2>3, <2>4 DEF LinkInv, HandshakeInv, ServerInv, EndingInv, PoolInv,
       ReportInv, UpInv, WaitInv, TvClose, Neutral, LoopPoints
<1> QED
  BY <1>1, <1>2

\* LinkInv is inductive.
LEMMA LinkStep == DataInv /\ LinkInv /\ [Next]_vars => LinkInv'
<1> SUFFICES ASSUME DataInv, LinkInv, [Next]_vars PROVE LinkInv'
  OBVIOUS
<1>types. state \in States /\ loop \in LoopPoints /\ owed \in Int /\ closes \in Seq(Closers)
  BY DEF DataInv, LinkTypes, LoopTypes
<1>Connect. ASSUME NEW timed \in Timeouts, Connect(timed) PROVE LinkInv'
  BY <1>types, <1>Connect
    DEF Connect, MayConnect, ConnectBody, StartConnectTimer, LinkInv, CloseInv, HandshakeInv, ServerInv,
        EndingInv, PoolInv, ReportInv, UpInv, WaitInv, UsesStream, Client, Ending,
        linkVars
<1>ConnectFails. CASE ConnectFails
  BY <1>types, <1>ConnectFails
    DEF ConnectFails, MayConnect, ConnectFailsBody, LinkInv, CloseInv, HandshakeInv,
        ServerInv, EndingInv, PoolInv, ReportInv, UpInv, WaitInv, UsesStream, Client,
        Ending, linkVars
<1>Disconnect. CASE Disconnect
  BY <1>Disconnect, DisconnectStep DEF Disconnect, Closers, Neutral, LoopPoints, Ending
<1>SendPending. ASSUME NEW m \in Messages, SendPending(m) PROVE LinkInv'
  BY <1>SendPending, QuietStep DEF SendPending, linkVars, Neutral, LoopPoints, Ending
<1>SendTorn. ASSUME NEW m \in Messages, SendTorn(m) PROVE LinkInv'
  BY <1>SendTorn, QuietStep DEF SendTorn, linkVars, Neutral, LoopPoints, Ending
<1>SendDirect. ASSUME NEW m \in Messages, SendDirect(m) PROVE LinkInv'
  BY <1>SendDirect, QuietStep DEF SendDirect, linkVars, Neutral, LoopPoints, Ending
<1>PushTimer. CASE PushTimer
  BY <1>PushTimer, QuietStep DEF PushTimer, linkVars, Neutral, LoopPoints, Ending
<1>StartTimer. CASE StartTimer
  BY <1>StartTimer, QuietStep DEF StartTimer, linkVars, Neutral, LoopPoints, Ending
<1>OnAcceptReturns. CASE OnAcceptReturns
  BY <1>OnAcceptReturns, QuietStep
    DEF OnAcceptReturns, linkVars, Neutral, LoopPoints, Ending
<1>CloseFailed. CASE CloseFailed
  BY <1>types, <1>CloseFailed
    DEF CloseFailed, TvClose, LinkInv, CloseInv, HandshakeInv, ServerInv, EndingInv,
        PoolInv, ReportInv, UpInv, WaitInv, UsesStream, Client, Ending, linkVars
<1>OnConnectReturns. CASE OnConnectReturns
  BY <1>types, <1>OnConnectReturns
    DEF OnConnectReturns, StateAfterOnConnect, LinkInv, CloseInv, HandshakeInv,
        ServerInv, EndingInv, PoolInv, ReportInv, UpInv, WaitInv, UsesStream, Client,
        Ending, linkVars
<1>OnConnectTimeout. CASE OnConnectTimeout
  BY <1>types, <1>OnConnectTimeout
    DEF OnConnectTimeout, FailAttempt, AttemptOpen, StopTimerOnLoop, NextNc, LinkInv,
        CloseInv, HandshakeInv, ServerInv, EndingInv, PoolInv, ReportInv, UpInv,
        WaitInv, UsesStream, Client, Ending, linkVars
<1>Flush. ASSUME NEW failed \in SUBSET Messages, Flush(failed) PROVE LinkInv'
  BY <1>Flush, QuietStep DEF Flush, linkVars, Neutral, LoopPoints, Ending
<1>RecvResponse. ASSUME NEW r \in Requests, RecvResponse(r) PROVE LinkInv'
  BY <1>RecvResponse, QuietStep DEF RecvResponse, linkVars, Neutral, LoopPoints, Ending
<1>OnReadReturns. CASE OnReadReturns
  BY <1>OnReadReturns, QuietStep
    DEF OnReadReturns, linkVars, Neutral, LoopPoints, Ending
<1>OnReadErrorDisconnect. CASE OnReadErrorDisconnect
  <2>1. DisconnectBody(loop = "eof_handshaking", "peer") /\ UNCHANGED <<kind, inPool, tvTimer, owed, up>>
    BY <1>OnReadErrorDisconnect DEF OnReadErrorDisconnect
  <2>2. kind # "WSServer" => (loop = "eof_handshaking") = FALSE
    BY DEF LinkInv, HandshakeInv
  <2>3. loop \in Neutral \cup {"eof_handshaking"} /\ loop' = "idle" /\ last_error' = "EOF"
    BY <1>OnReadErrorDisconnect DEF OnReadErrorDisconnect, Neutral, LoopPoints, Ending
  <2> QED
    BY <2>1, <2>2, <2>3, DisconnectStep DEF Closers
<1>OnErrorHeldReturns. CASE OnErrorHeldReturns
  <2>1. CASE CallsBack
    BY <1>OnErrorHeldReturns, <2>1, DisconnectStep
      DEF OnErrorHeldReturns, Closers, Neutral, LoopPoints, Ending
  <2>2. CASE ~CallsBack
    BY <1>OnErrorHeldReturns, <2>2, QuietStep
      DEF OnErrorHeldReturns, linkVars, Neutral, LoopPoints, Ending
  <2> QED
    BY <2>1, <2>2
<1>Release. CASE Release
  BY <1>types, <1>Release
    DEF Release, AfterRelease, CheckRetryAuth, LinkInv, CloseInv, HandshakeInv,
        ServerInv, EndingInv, PoolInv, ReportInv, UpInv, WaitInv, UsesStream, Client,
        Ending, linkVars
<1>Retry. CASE Retry
  BY <1>types, <1>Retry
    DEF Retry, MayConnect, ConnectBody, StartConnectTimer, LinkInv, CloseInv, HandshakeInv, ServerInv,
        EndingInv, PoolInv, ReportInv, UpInv, WaitInv, UsesStream, Client, Ending,
        linkVars
<1>RetryFails. CASE RetryFails
  BY <1>types, <1>RetryFails
    DEF RetryFails, ConnectFailsBody, LinkInv, CloseInv, HandshakeInv, ServerInv,
        EndingInv, PoolInv, ReportInv, UpInv, WaitInv, UsesStream, Client, Ending,
        linkVars
<1>Discard. CASE Discard
  BY <1>types, <1>Discard
    DEF Discard, Settle, LinkInv, CloseInv, HandshakeInv, ServerInv, EndingInv,
        PoolInv, ReportInv, UpInv, WaitInv, UsesStream, Client, Ending, linkVars
<1>Cancel. CASE Cancel
  BY <1>types, <1>Cancel
    DEF Cancel, Settle, EraseTimers, LinkInv, CloseInv, HandshakeInv, ServerInv,
        EndingInv, PoolInv, ReportInv, UpInv, WaitInv, UsesStream, Client, Ending,
        linkVars
<1>OnDisconnect. CASE OnDisconnect
  BY <1>types, <1>OnDisconnect
    DEF OnDisconnect, ReportsDisconnect, LinkInv, CloseInv, HandshakeInv, ServerInv,
        EndingInv, PoolInv, ReportInv, UpInv, WaitInv, UsesStream, Client, Ending,
        linkVars
<1>OnCloseReturns. CASE OnCloseReturns
  BY <1>OnCloseReturns, QuietStep
    DEF OnCloseReturns, linkVars, Neutral, LoopPoints, Ending
<1>OnConnectError. ASSUME NEW error \in Errors, NEW challenge \in BOOLEAN,
                         OnConnectError(error, challenge)
                  PROVE LinkInv'
  BY <1>types, <1>OnConnectError
    DEF OnConnectError, FailAttempt, AttemptOpen, StopTimerOnLoop, NextNc, LinkInv,
        CloseInv, HandshakeInv, ServerInv, EndingInv, PoolInv, ReportInv, UpInv,
        WaitInv, UsesStream, Client, Ending, linkVars
<1>OnConnectOk. CASE OnConnectOk
  BY <1>types, <1>OnConnectOk
    DEF OnConnectOk, AttemptOpen, StopTimerOnLoop, NextNc, LinkInv, CloseInv,
        HandshakeInv, ServerInv, EndingInv, PoolInv, ReportInv, UpInv, WaitInv,
        UsesStream, Client, Ending, linkVars
<1>OnHandshakeFailed. CASE OnHandshakeFailed
  BY <1>OnHandshakeFailed, DisconnectStep
    DEF OnHandshakeFailed, Closers, Neutral, LoopPoints, Ending
<1>OnHandshakeComplete. CASE OnHandshakeComplete
  BY <1>types, <1>OnHandshakeComplete
    DEF OnHandshakeComplete, LinkInv, CloseInv, HandshakeInv, ServerInv, EndingInv,
        PoolInv, ReportInv, UpInv, WaitInv, UsesStream, Client, Ending, linkVars
<1>Written. ASSUME NEW m \in Messages, Written(m) PROVE LinkInv'
  BY <1>Written, QuietStep DEF Written, linkVars, Neutral, LoopPoints, Ending
<1>OnReadData. ASSUME NEW responses \in SUBSET Requests, OnReadData(responses)
              PROVE LinkInv'
  BY <1>OnReadData, QuietStep
    DEF OnReadData, Readable, linkVars, Neutral, LoopPoints, Ending
<1>OnReadInvalid. CASE OnReadInvalid
  BY <1>OnReadInvalid, DisconnectStep
    DEF OnReadInvalid, Closers, Neutral, LoopPoints, Ending
<1>OnReadError. CASE OnReadError
  BY <1>types, <1>OnReadError
    DEF OnReadError, Readable, LinkInv, CloseInv, HandshakeInv, ServerInv, EndingInv,
        PoolInv, ReportInv, UpInv, WaitInv, UsesStream, Client, Ending, linkVars
<1>OnConnectCancelled. CASE OnConnectCancelled
  BY <1>types, <1>OnConnectCancelled
    DEF OnConnectCancelled, AttemptOpen, StopTimerOnLoop, NextNc, LinkInv, CloseInv,
        HandshakeInv, ServerInv, EndingInv, PoolInv, ReportInv, UpInv, WaitInv,
        UsesStream, Client, Ending, linkVars
<1>ConnectTimerExpires. CASE ConnectTimerExpires
  BY <1>types, <1>ConnectTimerExpires
    DEF ConnectTimerExpires, StopTimerOnLoop, LinkInv, CloseInv, HandshakeInv,
        ServerInv, EndingInv, PoolInv, ReportInv, UpInv, WaitInv, UsesStream, Client,
        Ending, linkVars
<1>OnWriteOk. ASSUME NEW m \in Messages, OnWriteOk(m) PROVE LinkInv'
  BY <1>OnWriteOk, QuietStep DEF OnWriteOk, linkVars, Neutral, LoopPoints, Ending
<1>OnWriteError. ASSUME NEW m \in Messages, OnWriteError(m) PROVE LinkInv'
  BY <1>OnWriteError, QuietStep DEF OnWriteError, linkVars, Neutral, LoopPoints, Ending
<1>OnRequestTimeout. ASSUME NEW r \in Requests, OnRequestTimeout(r) PROVE LinkInv'
  BY <1>OnRequestTimeout, QuietStep
    DEF OnRequestTimeout, linkVars, Neutral, LoopPoints, Ending
<1>OnClose. CASE OnClose
  BY <1>types, <1>OnClose
    DEF OnClose, StopTimerOnLoop, LinkInv, CloseInv, HandshakeInv, ServerInv,
        EndingInv, PoolInv, ReportInv, UpInv, WaitInv, UsesStream, Client, Ending,
        linkVars
<1>stutter. CASE UNCHANGED vars
  BY <1>stutter, QuietStep DEF vars, memberVars, tvVars, threadVars, ghostVars,
     linkVars
<1> QED
  BY <1>Connect, <1>ConnectFails, <1>Disconnect, <1>SendPending, <1>SendTorn, <1>SendDirect,
     <1>PushTimer, <1>StartTimer, <1>OnAcceptReturns, <1>CloseFailed,
     <1>OnConnectReturns, <1>OnConnectTimeout, <1>Flush, <1>RecvResponse,
     <1>OnReadReturns, <1>OnReadErrorDisconnect, <1>OnErrorHeldReturns, <1>Release,
     <1>Retry, <1>RetryFails, <1>Discard, <1>Cancel, <1>OnDisconnect,
     <1>OnCloseReturns, <1>OnConnectError, <1>OnConnectOk, <1>OnHandshakeFailed,
     <1>OnHandshakeComplete, <1>Written, <1>OnReadData, <1>OnReadInvalid,
     <1>OnReadError, <1>OnConnectCancelled, <1>ConnectTimerExpires, <1>OnWriteOk,
     <1>OnWriteError, <1>OnRequestTimeout, <1>OnClose, <1>stutter
     DEF Next, AppNext, SendNext, LoopReturns, PeerNext, TvNext

\* A new client socket, and a socket as OnAccept hands it to the handler, satisfy LinkInv.
LEMMA LinkInit == Init => LinkInv
<1> SUFFICES ASSUME Init PROVE LinkInv
  OBVIOUS
<1> USE DEF Init, LinkInv, CloseInv, HandshakeInv, ServerInv, EndingInv, PoolInv, ReportInv,
        UpInv, WaitInv, UsesStream, Client, Ending
<1>1. CASE ClientInit
  BY <1>1 DEF ClientInit
<1>2. CASE ServerInit
  <2>1. kind # "WSServer" => handshaking = FALSE
    BY <1>2, Zenon DEF ServerInit
  <2> QED
    BY <1>2, <2>1 DEF ServerInit
<1> QED
  BY <1>1, <1>2

\* LinkInv holds in every reachable state.
THEOREM LinkInvariant == Spec => [](DataInv /\ LinkInv)
<1>1. Init => DataInv /\ LinkInv
  BY TypeInit, LinkInit
<1>2. DataInv /\ LinkInv /\ [Next]_vars => (DataInv /\ LinkInv)'
  BY DataStep, LinkStep
<1> QED
  BY <1>1, <1>2, PTL DEF Spec

\* No interleaving of Disconnect() calls, a failed OnConnect, a late connect timeout, end
\* of file and invalid messages calls tv_close twice on a handle.
THEOREM ClosedOnce == Spec => []CloseOnce
<1>1. LinkInv => CloseOnce
  BY DEF LinkInv, CloseInv, CloseOnce
<1> QED
  BY LinkInvariant, <1>1, PTL

\* Whenever KeepAlive, SetSockOpt, Send or OnRead may use stream_, it is not closed.
THEOREM StreamIsLive == Spec => []LiveStream
<1>1. LinkInv => LiveStream
  BY DEF LinkInv, CloseInv, LiveStream
<1> QED
  BY LinkInvariant, <1>1, PTL

\* Every attempt of a TCP or SSL socket ends in exactly one OnDisconnect, for any number of
\* attempts, also when Connect() is called while the previous OnDisconnect is running.
THEOREM AttemptsReported == Spec => []EveryAttemptReported
<1>1. LinkInv => EveryAttemptReported
  BY DEF LinkInv, ReportInv, EveryAttemptReported, Ending
<1> QED
  BY LinkInvariant, <1>1, PTL

\* Retain and Release are balanced: no path leaves a disconnected socket in the pool.
THEOREM PoolIsReleased == Spec => []PoolNoLeak
<1>1. LinkInv => PoolNoLeak
  BY DEF LinkInv, PoolInv, PoolNoLeak
<1> QED
  BY LinkInvariant, <1>1, PTL

\* A patient application never finds its connected socket missing from the pool.
THEOREM PoolHolds == Spec => []PoolHoldsLive
<1>1. LinkInv => PoolHoldsLive
  BY DEF LinkInv, WaitInv, PoolHoldsLive
<1> QED
  BY LinkInvariant, <1>1, PTL

\* A patient application never races with the unlocked swap in _DiscardMessages.
THEOREM DiscardIsExclusive == Spec => []DiscardExclusive
<1>1. LinkInv => DiscardExclusive
  BY DEF LinkInv, WaitInv, DiscardExclusive, Ending
<1> QED
  BY LinkInvariant, <1>1, PTL

\* A client's OnConnect and OnDisconnect callbacks alternate: only OnConnect(0) of an open
\* attempt reaches the handler, and then no earlier connection is still up.
THEOREM CallbacksAlternate == Spec => CallbackAlternation
<1>1. LinkInv /\ [Next]_vars => [loop # "onconnect" /\ loop' = "onconnect" => ~up]_vars
  <2> SUFFICES ASSUME LinkInv, Next, loop # "onconnect", loop' = "onconnect" PROVE ~up
    OBVIOUS
  <2>1. OnConnectOk
    BY DEF Next, AppNext, SendNext, LoopReturns, PeerNext, TvNext, Connect, ConnectFails,
       Disconnect, SendPending, SendTorn, SendDirect, PushTimer, StartTimer, OnAcceptReturns,
       CloseFailed, OnConnectReturns, OnConnectTimeout, FailAttempt, Flush, RecvResponse,
       OnReadReturns, OnReadErrorDisconnect, OnErrorHeldReturns, Release, AfterRelease,
       Retry, RetryFails, Discard, Cancel, OnDisconnect, OnCloseReturns, OnConnectError,
       OnHandshakeFailed, OnHandshakeComplete, Written, OnReadData, OnReadInvalid,
       OnReadError, OnConnectCancelled, ConnectTimerExpires, OnWriteOk, OnWriteError,
       OnRequestTimeout, OnClose
  <2> QED
    BY <2>1 DEF OnConnectOk, AttemptOpen, LinkInv, UpInv, Ending
<1> QED
  BY LinkInvariant, <1>1, PTL DEF Spec, CallbackAlternation

----------------------------------------------------------------------------
(* The digest retry.  nc, which the code keeps over connections, counts    *)
(* the challenges; last_error_ is the error of the connection that ended.  *)

\* Only a WebSocket client reconnects by itself, and only after its first challenge.
WaitingRetry ==
    /\ kind # "WSClient" => retries = 0 /\ loop # "retry"
    /\ loop = "retry" => retries = 0 /\ nc = 1

\* The second attempt begins with the count at one, so its challenge would be the second.
SecondAttempt ==
    retries # 0 /\ state = "CONNECTING" /\ stream = "connecting" => nc = 1

\* While the outcome of the second attempt is open, and only then, last_error_ and nc still
\* look as they did when the first one was refused.
LastAttempt ==
    retries # 0 /\ last_error = "EWS" /\ nc = 1 =>
        /\ state = "CONNECTING" /\ stream = "connecting"
        /\ loop \notin Ending \cup {"onconnect"}

RetryInv == RetryOncePerConnect /\ WaitingRetry /\ SecondAttempt /\ LastAttempt

\* A step that leaves the connection alone and neither begins nor ends OnConnect or
\* OnDisconnect keeps RetryInv.
LEMMA RetryQuiet ==
  ASSUME RetryInv, UNCHANGED <<kind, linkVars>>,
         loop' = loop \/ loop' \notin Ending \cup {"onconnect"}
  PROVE  RetryInv'
BY DEF RetryInv, RetryOncePerConnect, WaitingRetry, SecondAttempt, LastAttempt, linkVars,
       Ending

\* Disconnect() of an attempt that is open leaves another error than that of a challenge.
LEMMA RetryDisconnect ==
  ASSUME RetryInv, DataInv, NEW hs, NEW who \in Closers, DisconnectBody(hs, who),
         last_error' \in {DisconnectError, "EOF"},
         loop' = loop \/ loop' \notin Ending \cup {"onconnect"},
         UNCHANGED <<kind, nc, retries>>
  PROVE  RetryInv'
<1> USE DEF RetryInv, RetryOncePerConnect, WaitingRetry, SecondAttempt, LastAttempt, Ending
<1>1. CASE state \in {"DISCONNECTING", "DISCONNECTED"}
  BY <1>1 DEF DisconnectBody, DisconnectError
<1>2. CASE state \notin {"DISCONNECTING", "DISCONNECTED"}
  BY <1>2 DEF DisconnectBody, DisconnectError, TvClose
<1> QED
  BY <1>1, <1>2

\* RetryInv is inductive.
LEMMA RetryStep == DataInv /\ LinkInv /\ RetryInv /\ [Next]_vars => RetryInv'
<1> SUFFICES ASSUME DataInv, LinkInv, RetryInv, [Next]_vars PROVE RetryInv'
  OBVIOUS
<1>types. /\ nc \in Nat /\ NcWrap \in Nat \ {0} /\ retries \in Nat
          /\ kind \in AllKinds /\ CloseInv /\ ServerInv /\ EndingInv /\ ReportInv
  BY BoundsAssumption, KindsAssumption DEF DataInv, LinkTypes, LinkInv
<1> USE DEF RetryInv, RetryOncePerConnect, WaitingRetry, SecondAttempt, LastAttempt, Ending,
        Closers, CloseInv, ServerInv, EndingInv, ReportInv, UsesStream, Client, AllKinds
<1>Connect. ASSUME NEW timed \in Timeouts, Connect(timed) PROVE RetryInv'
  BY <1>types, <1>Connect DEF Connect, MayConnect, ConnectBody, StartConnectTimer
<1>ConnectFails. CASE ConnectFails
  BY <1>types, <1>ConnectFails DEF ConnectFails, ConnectFailsBody, MayConnect, linkVars
<1>Disconnect. CASE Disconnect
  BY <1>Disconnect, RetryDisconnect DEF Disconnect
<1>SendPending. ASSUME NEW m \in Messages, SendPending(m) PROVE RetryInv'
  BY <1>SendPending, RetryQuiet DEF SendPending, linkVars, Ending
<1>SendTorn. ASSUME NEW m \in Messages, SendTorn(m) PROVE RetryInv'
  BY <1>SendTorn, RetryQuiet DEF SendTorn, linkVars, Ending
<1>SendDirect. ASSUME NEW m \in Messages, SendDirect(m) PROVE RetryInv'
  BY <1>SendDirect, RetryQuiet DEF SendDirect, linkVars, Ending
<1>PushTimer. CASE PushTimer
  BY <1>PushTimer, RetryQuiet DEF PushTimer, linkVars, Ending
<1>StartTimer. CASE StartTimer
  BY <1>StartTimer, RetryQuiet DEF StartTimer, linkVars, Ending
<1>OnAcceptReturns. CASE OnAcceptReturns
  BY <1>OnAcceptReturns, RetryQuiet DEF OnAcceptReturns, linkVars, Ending
<1>CloseFailed. CASE CloseFailed
  BY <1>types, <1>CloseFailed DEF CloseFailed, TvClose, linkVars
<1>OnConnectReturns. CASE OnConnectReturns
  BY <1>types, <1>OnConnectReturns DEF OnConnectReturns, StateAfterOnConnect, linkVars
<1>OnConnectTimeout. CASE OnConnectTimeout
  BY <1>types, <1>OnConnectTimeout DEF OnConnectTimeout, FailAttempt, AttemptOpen, NextNc, StopTimerOnLoop, linkVars
<1>Flush. ASSUME NEW failed \in SUBSET Messages, Flush(failed) PROVE RetryInv'
  BY <1>Flush, RetryQuiet DEF Flush, linkVars, Ending
<1>RecvResponse. ASSUME NEW r \in Requests, RecvResponse(r) PROVE RetryInv'
  BY <1>RecvResponse, RetryQuiet DEF RecvResponse, linkVars, Ending
<1>OnReadReturns. CASE OnReadReturns
  BY <1>OnReadReturns, RetryQuiet DEF OnReadReturns, linkVars, Ending
<1>OnReadErrorDisconnect. CASE OnReadErrorDisconnect
  BY <1>OnReadErrorDisconnect, RetryDisconnect DEF OnReadErrorDisconnect, Ending
<1>OnErrorHeldReturns. CASE OnErrorHeldReturns
  <2>1. CASE CallsBack
    BY <1>OnErrorHeldReturns, <2>1, RetryDisconnect DEF OnErrorHeldReturns, Ending
  <2>2. CASE ~CallsBack
    BY <1>OnErrorHeldReturns, <2>2, RetryQuiet DEF OnErrorHeldReturns, linkVars, Ending
  <2> QED
    BY <2>1, <2>2
<1>Release. CASE Release
  BY <1>types, <1>Release DEF Release, AfterRelease, CheckRetryAuth, linkVars
<1>Retry. CASE Retry
  BY <1>types, <1>Retry DEF Retry, MayConnect, ConnectBody, StartConnectTimer, linkVars
<1>RetryFails. CASE RetryFails
  BY <1>types, <1>RetryFails DEF RetryFails, ConnectFailsBody, linkVars
<1>Discard. CASE Discard
  BY <1>types, <1>Discard DEF Discard, Settle, linkVars
<1>Cancel. CASE Cancel
  BY <1>types, <1>Cancel DEF Cancel, Settle, EraseTimers, linkVars
<1>OnDisconnect. CASE OnDisconnect
  BY <1>types, <1>OnDisconnect DEF OnDisconnect, ReportsDisconnect, linkVars
<1>OnCloseReturns. CASE OnCloseReturns
  BY <1>OnCloseReturns, RetryQuiet DEF OnCloseReturns, linkVars, Ending
<1>OnConnectError. ASSUME NEW error \in Errors, NEW challenge \in BOOLEAN,
                         OnConnectError(error, challenge)
                  PROVE RetryInv'
  BY <1>types, <1>OnConnectError
    DEF OnConnectError, FailAttempt, AttemptOpen, StopTimerOnLoop, NextNc
<1>OnConnectOk. CASE OnConnectOk
  BY <1>types, <1>OnConnectOk DEF OnConnectOk, AttemptOpen, StopTimerOnLoop, NextNc, linkVars
<1>OnHandshakeFailed. CASE OnHandshakeFailed
  BY <1>OnHandshakeFailed, RetryDisconnect DEF OnHandshakeFailed
<1>OnHandshakeComplete. CASE OnHandshakeComplete
  BY <1>types, <1>OnHandshakeComplete DEF OnHandshakeComplete, Client, linkVars
<1>Written. ASSUME NEW m \in Messages, Written(m) PROVE RetryInv'
  BY <1>Written, RetryQuiet DEF Written, linkVars, Ending
<1>OnReadData. ASSUME NEW responses \in SUBSET Requests, OnReadData(responses) PROVE RetryInv'
  BY <1>OnReadData, RetryQuiet DEF OnReadData, Readable, linkVars, Ending
<1>OnReadInvalid. CASE OnReadInvalid
  BY <1>OnReadInvalid, RetryDisconnect DEF OnReadInvalid, Ending
<1>OnReadError. CASE OnReadError
  BY <1>types, <1>OnReadError DEF OnReadError, Readable, linkVars
<1>OnConnectCancelled. CASE OnConnectCancelled
  BY <1>types, <1>OnConnectCancelled DEF OnConnectCancelled, AttemptOpen, StopTimerOnLoop, NextNc, linkVars
<1>ConnectTimerExpires. CASE ConnectTimerExpires
  BY <1>types, <1>ConnectTimerExpires DEF ConnectTimerExpires, StopTimerOnLoop, linkVars
<1>OnWriteOk. ASSUME NEW m \in Messages, OnWriteOk(m) PROVE RetryInv'
  BY <1>OnWriteOk, RetryQuiet DEF OnWriteOk, linkVars, Ending
<1>OnWriteError. ASSUME NEW m \in Messages, OnWriteError(m) PROVE RetryInv'
  BY <1>OnWriteError, RetryQuiet DEF OnWriteError, linkVars, Ending
<1>OnRequestTimeout. ASSUME NEW r \in Requests, OnRequestTimeout(r) PROVE RetryInv'
  BY <1>OnRequestTimeout, RetryQuiet DEF OnRequestTimeout, linkVars, Ending
<1>OnClose. CASE OnClose
  BY <1>types, <1>OnClose DEF OnClose, StopTimerOnLoop, linkVars
<1>stutter. CASE UNCHANGED vars
  BY <1>stutter, RetryQuiet DEF vars, memberVars, tvVars, threadVars, ghostVars, linkVars
<1> QED
  BY <1>Connect, <1>ConnectFails, <1>Disconnect, <1>SendPending, <1>SendTorn,
     <1>SendDirect, <1>PushTimer, <1>StartTimer, <1>OnAcceptReturns, <1>CloseFailed,
     <1>OnConnectReturns, <1>OnConnectTimeout, <1>Flush, <1>RecvResponse,
     <1>OnReadReturns, <1>OnReadErrorDisconnect, <1>OnErrorHeldReturns, <1>Release,
     <1>Retry, <1>RetryFails, <1>Discard, <1>Cancel, <1>OnDisconnect,
     <1>OnCloseReturns, <1>OnConnectError, <1>OnConnectOk, <1>OnHandshakeFailed,
     <1>OnHandshakeComplete, <1>Written, <1>OnReadData, <1>OnReadInvalid,
     <1>OnReadError, <1>OnConnectCancelled, <1>ConnectTimerExpires, <1>OnWriteOk,
     <1>OnWriteError, <1>OnRequestTimeout, <1>OnClose, <1>stutter
     DEF Next, AppNext, SendNext, LoopReturns, PeerNext, TvNext

\* RetryInv holds in every reachable state.
THEOREM RetryInvariant == Spec => []RetryInv
<1>1. Init => RetryInv
  BY DEF Init, ClientInit, ServerInit, RetryInv, RetryOncePerConnect, WaitingRetry,
     SecondAttempt, LastAttempt
<1>2. DataInv /\ LinkInv /\ RetryInv /\ [Next]_vars => RetryInv'
  BY RetryStep
<1> QED
  BY <1>1, <1>2, LinkInvariant, PTL DEF Spec

\* OnDisconnect of a WebSocket client reconnects by itself at most once for each Connect(),
\* whatever the peer answers and whatever other threads do in between.
THEOREM RetriesOnce == Spec => []RetryOncePerConnect
<1>1. RetryInv => RetryOncePerConnect
  BY DEF RetryInv
<1> QED
  BY RetryInvariant, <1>1, PTL
=============================================================================

-------------------------- MODULE SocketTypeProofs --------------------------
(***************************************************************************)
(* Type correctness of LinearSocket, for every set of messages and every   *)
(* value of the other constants.  The flags and the other members are      *)
(* treated in two lemmas, because Boolean-valued variables are proved by   *)
(* Zenon and everything else by SMT.                                       *)
(***************************************************************************)
EXTENDS LinearSocket, TLAPS

\* "current" is a request whenever a Send() is between its tv_write and its end.
MessageInv == MessageTypes /\ (sending # "none" => current \in Requests)

DataInv == LinkTypes /\ MessageInv /\ LoopTypes

\* The position at which _SendPendingMessages meets a pending message is one of the
\* vector's.
LEMMA FlushPositionType ==
  ASSUME NEW m \in PendingSet, pending_messages \in Seq(Messages)
  PROVE  /\ FlushPosition(m) \in 1..Len(pending_messages)
         /\ pending_messages[FlushPosition(m)] = m
BY DEF FlushPosition, PendingSet

\* SocketImpl::Disconnect() keeps the types of what it assigns.
LEMMA DisconnectBodyTypes ==
  ASSUME NEW hs, NEW who \in Closers, DataInv, DisconnectBody(hs, who)
  PROVE  /\ state' \in States /\ closes' \in Seq(Closers) /\ stream' \in Streams
         /\ DisconnectError \in Errors
<1>1. CASE state \in {"DISCONNECTING", "DISCONNECTED"}
  BY <1>1 DEF DisconnectBody, DataInv, LinkTypes, DisconnectError, Errors
<1>2. CASE state \notin {"DISCONNECTING", "DISCONNECTED"}
  <2>1. state' = "DISCONNECTING" /\ TvClose(who)
    BY <1>2 DEF DisconnectBody
  <2> QED
    BY <1>2, <2>1
      DEF TvClose, DataInv, LinkTypes, DisconnectError, States, Errors, Streams
<1> QED
  BY <1>1, <1>2

\* Every action keeps the flags Boolean.
LEMMA FlagStep == FlagTypes /\ [Next]_vars => FlagTypes'
<1> SUFFICES ASSUME FlagTypes, [Next]_vars PROVE FlagTypes'
  OBVIOUS
<1> USE DEF FlagTypes, linkVars
<1>Connect. ASSUME NEW timed \in Timeouts, Connect(timed) PROVE FlagTypes'
  BY <1>Connect, FlagsAssumption, Zenon DEF Connect, MayConnect, ConnectBody, StartConnectTimer
<1>ConnectFails. CASE ConnectFails
  BY <1>ConnectFails, Zenon DEF ConnectFails, MayConnect, ConnectFailsBody
<1>Disconnect. CASE Disconnect
  BY <1>Disconnect, Zenon DEF Disconnect, DisconnectBody, DisconnectError, TvClose
<1>SendPending. ASSUME NEW m \in Messages, SendPending(m) PROVE FlagTypes'
  BY <1>SendPending, Zenon DEF SendPending
<1>SendTorn. ASSUME NEW m \in Messages, SendTorn(m) PROVE FlagTypes'
  BY <1>SendTorn, Zenon DEF SendTorn
<1>SendDirect. ASSUME NEW m \in Messages, SendDirect(m) PROVE FlagTypes'
  BY <1>SendDirect, Zenon DEF SendDirect
<1>PushTimer. CASE PushTimer
  BY <1>PushTimer, Zenon DEF PushTimer
<1>StartTimer. CASE StartTimer
  BY <1>StartTimer, Zenon DEF StartTimer
<1>OnAcceptReturns. CASE OnAcceptReturns
  BY <1>OnAcceptReturns, Zenon DEF OnAcceptReturns
<1>CloseFailed. CASE CloseFailed
  BY <1>CloseFailed, Zenon DEF CloseFailed, TvClose
<1>OnConnectReturns. CASE OnConnectReturns
  BY <1>OnConnectReturns, Zenon DEF OnConnectReturns, StateAfterOnConnect
<1>OnConnectTimeout. CASE OnConnectTimeout
  BY <1>OnConnectTimeout, Zenon
    DEF OnConnectTimeout, FailAttempt, AttemptOpen, StopTimerOnLoop, NextNc
<1>Flush. ASSUME NEW failed \in SUBSET Messages, Flush(failed) PROVE FlagTypes'
  BY <1>Flush, Zenon DEF Flush, Settle
<1>RecvResponse. ASSUME NEW r \in Requests, RecvResponse(r) PROVE FlagTypes'
  BY <1>RecvResponse, Zenon DEF RecvResponse, EraseTimers, Settle
<1>OnReadReturns. CASE OnReadReturns
  BY <1>OnReadReturns, Zenon DEF OnReadReturns
<1>OnReadErrorDisconnect. CASE OnReadErrorDisconnect
  BY <1>OnReadErrorDisconnect, Zenon DEF OnReadErrorDisconnect, DisconnectBody, TvClose
<1>OnErrorHeldReturns. CASE OnErrorHeldReturns
  BY <1>OnErrorHeldReturns, Zenon
    DEF OnErrorHeldReturns, DisconnectBody, DisconnectError, TvClose
<1>Release. CASE Release
  BY <1>Release, Zenon DEF Release, AfterRelease
<1>Retry. CASE Retry
  BY <1>Retry, Zenon DEF Retry, MayConnect, ConnectBody, StartConnectTimer
<1>RetryFails. CASE RetryFails
  BY <1>RetryFails, Zenon DEF RetryFails, ConnectFailsBody
<1>Discard. CASE Discard
  BY <1>Discard, Zenon DEF Discard, Settle
<1>Cancel. CASE Cancel
  BY <1>Cancel, Zenon DEF Cancel, Settle, EraseTimers
<1>OnDisconnect. CASE OnDisconnect
  BY <1>OnDisconnect, Zenon DEF OnDisconnect, ReportsDisconnect
<1>OnCloseReturns. CASE OnCloseReturns
  BY <1>OnCloseReturns, Zenon DEF OnCloseReturns
<1>OnConnectError. ASSUME NEW error \in Errors, NEW challenge \in BOOLEAN,
                         OnConnectError(error, challenge)
                  PROVE FlagTypes'
  BY <1>OnConnectError, Zenon
    DEF OnConnectError, FailAttempt, AttemptOpen, StopTimerOnLoop, NextNc
<1>OnConnectOk. CASE OnConnectOk
  BY <1>OnConnectOk, Zenon DEF OnConnectOk, AttemptOpen, StopTimerOnLoop, NextNc
<1>OnHandshakeFailed. CASE OnHandshakeFailed
  BY <1>OnHandshakeFailed, Zenon
    DEF OnHandshakeFailed, DisconnectBody, DisconnectError, TvClose
<1>OnHandshakeComplete. CASE OnHandshakeComplete
  BY <1>OnHandshakeComplete, Zenon DEF OnHandshakeComplete
<1>Written. ASSUME NEW m \in Messages, Written(m) PROVE FlagTypes'
  BY <1>Written, Zenon DEF Written
<1>OnReadData. ASSUME NEW responses \in SUBSET Requests, OnReadData(responses)
              PROVE FlagTypes'
  BY <1>OnReadData, Zenon DEF OnReadData
<1>OnReadInvalid. CASE OnReadInvalid
  BY <1>OnReadInvalid, Zenon DEF OnReadInvalid, DisconnectBody, DisconnectError, TvClose
<1>OnReadError. CASE OnReadError
  BY <1>OnReadError, Zenon DEF OnReadError
<1>OnConnectCancelled. CASE OnConnectCancelled
  BY <1>OnConnectCancelled, Zenon DEF OnConnectCancelled, AttemptOpen, StopTimerOnLoop, NextNc
<1>ConnectTimerExpires. CASE ConnectTimerExpires
  BY <1>ConnectTimerExpires, Zenon DEF ConnectTimerExpires, StopTimerOnLoop
<1>OnWriteOk. ASSUME NEW m \in Messages, OnWriteOk(m) PROVE FlagTypes'
  BY <1>OnWriteOk, Zenon DEF OnWriteOk
<1>OnWriteError. ASSUME NEW m \in Messages, OnWriteError(m) PROVE FlagTypes'
  BY <1>OnWriteError, Zenon DEF OnWriteError, EraseTimers
<1>OnRequestTimeout. ASSUME NEW r \in Requests, OnRequestTimeout(r) PROVE FlagTypes'
  BY <1>OnRequestTimeout, Zenon DEF OnRequestTimeout, Settle
<1>OnClose. CASE OnClose
  BY <1>OnClose, Zenon DEF OnClose, StopTimerOnLoop
<1>stutter. CASE UNCHANGED vars
  BY <1>stutter DEF vars, memberVars, tvVars, threadVars, ghostVars
<1> QED
  BY <1>Connect, <1>ConnectFails, <1>Disconnect, <1>SendPending, <1>SendTorn, <1>SendDirect,
     <1>PushTimer, <1>StartTimer, <1>OnAcceptReturns, <1>CloseFailed,
     <1>OnConnectReturns, <1>OnConnectTimeout, <1>Flush, <1>RecvResponse,
     <1>OnReadReturns, <1>OnReadErrorDisconnect, <1>OnErrorHeldReturns, <1>Release,
     <1>Retry, <1>RetryFails, <1>Discard, <1>Cancel, <1>OnDisconnect,
     <1>OnCloseReturns, <1>OnConnectError, <1>OnConnectOk, <1>OnHandshakeFailed,
     <1>OnHandshakeComplete, <1>Written, <1>OnReadData, <1>OnReadInvalid,
     <1>OnReadError, <1>OnConnectCancelled, <1>ConnectTimerExpires, <1>OnWriteOk,
     <1>OnWriteError, <1>OnRequestTimeout, <1>OnClose, <1>stutter
     DEF Next, AppNext, SendNext, LoopReturns, PeerNext, TvNext

\* What leaves one part of the state alone keeps its types.
LEMMA LinkTypesKept ==
  ASSUME LinkTypes, UNCHANGED <<kind, linkVars>> PROVE LinkTypes'
BY DEF LinkTypes, linkVars

LEMMA MessageTypesKept ==
  ASSUME MessageInv, UNCHANGED msgVars PROVE MessageInv'
BY DEF MessageInv, MessageTypes, msgVars

\* Every action keeps the other types.
LEMMA DataStep == DataInv /\ [Next]_vars => DataInv'
<1> SUFFICES ASSUME DataInv, [Next]_vars PROVE DataInv'
  OBVIOUS
<1>Connect. ASSUME NEW timed \in Timeouts, Connect(timed) PROVE DataInv'
  <2>1. LinkTypes' /\ LoopTypes'
    BY <1>Connect
      DEF Connect, MayConnect, ConnectBody, StartConnectTimer, DataInv, LinkTypes, LoopTypes, States,
        Errors, Streams, LoopPoints, Closers, linkVars
  <2>2. UNCHANGED msgVars
    BY <1>Connect DEF Connect
  <2> QED
    BY <2>1, <2>2, MessageTypesKept DEF DataInv
<1>ConnectFails. CASE ConnectFails
  <2>1. LinkTypes' /\ LoopTypes'
    BY <1>ConnectFails
      DEF ConnectFails, MayConnect, ConnectFailsBody, DataInv, LinkTypes, LoopTypes,
        States, Errors, Streams, LoopPoints, Closers, linkVars
  <2>2. UNCHANGED msgVars
    BY <1>ConnectFails DEF ConnectFails
  <2> QED
    BY <2>1, <2>2, MessageTypesKept DEF DataInv
<1>Disconnect. CASE Disconnect
  <2>1. DisconnectBody(FALSE, "application")
    BY <1>Disconnect DEF Disconnect
  <2>2. LinkTypes' /\ LoopTypes'
    BY <1>Disconnect, <2>1, DisconnectBodyTypes
      DEF Disconnect, DataInv, LinkTypes, LoopTypes, LoopPoints, Closers, Errors
  <2>3. UNCHANGED msgVars
    BY <1>Disconnect DEF Disconnect
  <2> QED
    BY <2>2, <2>3, MessageTypesKept DEF DataInv
<1>SendPending. ASSUME NEW m \in Messages, SendPending(m) PROVE DataInv'
  <2>1. pending_messages' \in Seq(Messages)
    BY <1>SendPending DEF SendPending, DataInv, MessageInv, MessageTypes
  <2>2. /\ clock' \in Nat /\ sentAt' \in [Messages -> Nat]
        /\ route' \in [Messages -> {"none", "pending", "direct", "torn"}]
    BY <1>SendPending DEF SendPending, DataInv, MessageInv, MessageTypes, Messages
  <2>3. UNCHANGED <<request_timers, running, unarmed, writes, sending, current, wireAt,
                    settled, writeErrors, loop, readBuffer>>
    BY <1>SendPending DEF SendPending
  <2>4. MessageInv' /\ LoopTypes'
    BY <2>1, <2>2, <2>3 DEF DataInv, MessageInv, MessageTypes, LoopTypes
  <2>5. UNCHANGED <<kind, linkVars>>
    BY <1>SendPending DEF SendPending
  <2> QED
    BY <2>4, <2>5, LinkTypesKept DEF DataInv
<1>SendTorn. ASSUME NEW m \in Messages, SendTorn(m) PROVE DataInv'
  <2>1. MessageInv' /\ LoopTypes'
    BY <1>SendTorn
      DEF SendTorn, DataInv, MessageInv, MessageTypes, LoopTypes, LoopPoints, Messages,
        orderVars
  <2>2. UNCHANGED <<kind, linkVars>>
    BY <1>SendTorn DEF SendTorn
  <2> QED
    BY <2>1, <2>2, LinkTypesKept DEF DataInv
<1>SendDirect. ASSUME NEW m \in Messages, SendDirect(m) PROVE DataInv'
  <2>1. MessageInv' /\ LoopTypes'
    BY <1>SendDirect
      DEF SendDirect, DataInv, MessageInv, MessageTypes, LoopTypes, LoopPoints, Messages,
        orderVars
  <2>2. UNCHANGED <<kind, linkVars>>
    BY <1>SendDirect DEF SendDirect
  <2> QED
    BY <2>1, <2>2, LinkTypesKept DEF DataInv
<1>PushTimer. CASE PushTimer
  <2>1. MessageInv' /\ LoopTypes'
    BY <1>PushTimer
      DEF PushTimer, DataInv, MessageInv, MessageTypes, LoopTypes, LoopPoints, Messages,
        orderVars
  <2>2. UNCHANGED <<kind, linkVars>>
    BY <1>PushTimer DEF PushTimer
  <2> QED
    BY <2>1, <2>2, LinkTypesKept DEF DataInv
<1>StartTimer. CASE StartTimer
  <2>1. MessageInv' /\ LoopTypes'
    BY <1>StartTimer
      DEF StartTimer, DataInv, MessageInv, MessageTypes, LoopTypes, LoopPoints, Messages,
        orderVars
  <2>2. UNCHANGED <<kind, linkVars>>
    BY <1>StartTimer DEF StartTimer
  <2> QED
    BY <2>1, <2>2, LinkTypesKept DEF DataInv
<1>OnAcceptReturns. CASE OnAcceptReturns
  <2>1. LoopTypes'
    BY <1>OnAcceptReturns DEF OnAcceptReturns, DataInv, LoopTypes, LoopPoints
  <2>2. UNCHANGED <<kind, linkVars, msgVars>>
    BY <1>OnAcceptReturns DEF OnAcceptReturns
  <2> QED
    BY <2>1, <2>2, LinkTypesKept, MessageTypesKept DEF DataInv
<1>CloseFailed. CASE CloseFailed
  <2>1. LinkTypes' /\ LoopTypes'
    BY <1>CloseFailed
      DEF CloseFailed, TvClose, DataInv, LinkTypes, LoopTypes, States, Errors, Streams,
        LoopPoints, Closers, linkVars
  <2>2. UNCHANGED msgVars
    BY <1>CloseFailed DEF CloseFailed
  <2> QED
    BY <2>1, <2>2, MessageTypesKept DEF DataInv
<1>OnConnectReturns. CASE OnConnectReturns
  <2>1. LinkTypes' /\ LoopTypes'
    BY <1>OnConnectReturns
      DEF OnConnectReturns, StateAfterOnConnect, DataInv, LinkTypes, LoopTypes, States,
        Errors, Streams, LoopPoints, Closers, linkVars
  <2>2. UNCHANGED msgVars
    BY <1>OnConnectReturns DEF OnConnectReturns
  <2> QED
    BY <2>1, <2>2, MessageTypesKept DEF DataInv
<1>OnConnectTimeout. CASE OnConnectTimeout
  <2>1. LinkTypes' /\ LoopTypes'
    BY <1>OnConnectTimeout
      DEF OnConnectTimeout, FailAttempt, AttemptOpen, StopTimerOnLoop, NextNc, DataInv,
        LinkTypes, LoopTypes, States, Errors, Streams, LoopPoints, Closers, linkVars
  <2>2. UNCHANGED msgVars
    BY <1>OnConnectTimeout DEF OnConnectTimeout
  <2> QED
    BY <2>1, <2>2, MessageTypesKept DEF DataInv
<1>Flush. ASSUME NEW failed \in SUBSET Messages, Flush(failed) PROVE DataInv'
  <2>1. ASSUME NEW m \in PendingSet PROVE clock + FlushPosition(m) \in Nat
    <3>1. clock \in Nat /\ pending_messages \in Seq(Messages)
      BY DEF DataInv, MessageInv, MessageTypes
    <3>2. FlushPosition(m) \in 1..Len(pending_messages)
      BY <3>1, FlushPositionType
    <3> QED
      BY <3>1, <3>2
  <2>2. wireAt' \in [Messages -> Nat]
    BY <1>Flush, <2>1 DEF Flush, DataInv, MessageInv, MessageTypes, Messages
  <2>3. /\ request_timers' \subseteq Requests /\ running' \subseteq Requests
        /\ unarmed' \subseteq Requests
    BY <1>Flush DEF Flush, DataInv, MessageInv, MessageTypes, Messages
  <2>4. writes' \in [Messages -> {"none", "queued", "written", "done", "failed"}]
    BY <1>Flush DEF Flush, DataInv, MessageInv, MessageTypes, Messages
  <2>5. settled' \in [Messages -> Nat]
    BY <1>Flush DEF Flush, Settle, DataInv, MessageInv, MessageTypes, Messages
  <2>6. clock' \in Nat /\ pending_messages' = <<>> /\ loop' = "idle"
    BY <1>Flush DEF Flush, DataInv, MessageInv, MessageTypes, Messages
  <2>7. UNCHANGED <<sending, current, route, sentAt, writeErrors, readBuffer>>
    BY <1>Flush DEF Flush
  <2>8. MessageInv' /\ LoopTypes'
    BY <2>2, <2>3, <2>4, <2>5, <2>6, <2>7
      DEF DataInv, MessageInv, MessageTypes, LoopTypes, LoopPoints
  <2>9. UNCHANGED <<kind, linkVars>>
    BY <1>Flush DEF Flush
  <2> QED
    BY <2>8, <2>9, LinkTypesKept DEF DataInv
<1>RecvResponse. ASSUME NEW r \in Requests, RecvResponse(r) PROVE DataInv'
  <2>1. MessageInv' /\ LoopTypes'
    BY <1>RecvResponse
      DEF RecvResponse, EraseTimers, Settle, DataInv, MessageInv, MessageTypes,
        LoopTypes, LoopPoints, Messages, orderVars
  <2>2. UNCHANGED <<kind, linkVars>>
    BY <1>RecvResponse DEF RecvResponse
  <2> QED
    BY <2>1, <2>2, LinkTypesKept DEF DataInv
<1>OnReadReturns. CASE OnReadReturns
  <2>1. LoopTypes'
    BY <1>OnReadReturns DEF OnReadReturns, DataInv, LoopTypes, LoopPoints
  <2>2. UNCHANGED <<kind, linkVars, msgVars>>
    BY <1>OnReadReturns DEF OnReadReturns
  <2> QED
    BY <2>1, <2>2, LinkTypesKept, MessageTypesKept DEF DataInv
<1>OnReadErrorDisconnect. CASE OnReadErrorDisconnect
  <2>1. DisconnectBody(loop = "eof_handshaking", "peer")
    BY <1>OnReadErrorDisconnect DEF OnReadErrorDisconnect
  <2>2. LinkTypes' /\ LoopTypes'
    BY <1>OnReadErrorDisconnect, <2>1, DisconnectBodyTypes
      DEF OnReadErrorDisconnect, DataInv, LinkTypes, LoopTypes, LoopPoints, Closers, Errors
  <2>3. UNCHANGED msgVars
    BY <1>OnReadErrorDisconnect DEF OnReadErrorDisconnect
  <2> QED
    BY <2>2, <2>3, MessageTypesKept DEF DataInv
<1>OnErrorHeldReturns. CASE OnErrorHeldReturns
  <2>1. UNCHANGED msgVars
    BY <1>OnErrorHeldReturns DEF OnErrorHeldReturns
  <2>2. CASE CallsBack
    <3>1. DisconnectBody(FALSE, "application")
      BY <1>OnErrorHeldReturns, <2>2 DEF OnErrorHeldReturns
    <3>2. LinkTypes' /\ LoopTypes'
      BY <1>OnErrorHeldReturns, <2>2, <3>1, DisconnectBodyTypes
        DEF OnErrorHeldReturns, DataInv, LinkTypes, LoopTypes, LoopPoints, Closers, Errors
    <3> QED
      BY <2>1, <3>2, MessageTypesKept DEF DataInv
  <2>3. CASE ~CallsBack
    <3>1. LinkTypes' /\ LoopTypes'
      BY <1>OnErrorHeldReturns, <2>3
        DEF OnErrorHeldReturns, DataInv, LinkTypes, LoopTypes, LoopPoints
    <3> QED
      BY <2>1, <3>1, MessageTypesKept DEF DataInv
  <2> QED
    BY <2>2, <2>3
<1>Release. CASE Release
  <2>1. LinkTypes' /\ LoopTypes'
    BY <1>Release
      DEF Release, AfterRelease, DataInv, LinkTypes, LoopTypes, States, Errors, Streams,
        LoopPoints, Closers, linkVars
  <2>2. UNCHANGED msgVars
    BY <1>Release DEF Release
  <2> QED
    BY <2>1, <2>2, MessageTypesKept DEF DataInv
<1>Retry. CASE Retry
  <2>1. LinkTypes' /\ LoopTypes'
    BY <1>Retry
      DEF Retry, MayConnect, ConnectBody, StartConnectTimer, DataInv, LinkTypes, LoopTypes, States, Errors,
        Streams, LoopPoints, Closers, linkVars
  <2>2. UNCHANGED msgVars
    BY <1>Retry DEF Retry
  <2> QED
    BY <2>1, <2>2, MessageTypesKept DEF DataInv
<1>RetryFails. CASE RetryFails
  <2>1. LinkTypes' /\ LoopTypes'
    BY <1>RetryFails
      DEF RetryFails, ConnectFailsBody, DataInv, LinkTypes, LoopTypes, States, Errors,
        Streams, LoopPoints, Closers, linkVars
  <2>2. UNCHANGED msgVars
    BY <1>RetryFails DEF RetryFails
  <2> QED
    BY <2>1, <2>2, MessageTypesKept DEF DataInv
<1>Discard. CASE Discard
  <2>1. MessageInv' /\ LoopTypes'
    BY <1>Discard
      DEF Discard, Settle, DataInv, MessageInv, MessageTypes, LoopTypes, LoopPoints,
        Messages, orderVars
  <2>2. UNCHANGED <<kind, linkVars>>
    BY <1>Discard DEF Discard
  <2> QED
    BY <2>1, <2>2, LinkTypesKept DEF DataInv
<1>Cancel. CASE Cancel
  <2>1. MessageInv' /\ LoopTypes'
    BY <1>Cancel
      DEF Cancel, Settle, EraseTimers, DataInv, MessageInv, MessageTypes, LoopTypes,
        LoopPoints, Messages, orderVars
  <2>2. UNCHANGED <<kind, linkVars>>
    BY <1>Cancel DEF Cancel
  <2> QED
    BY <2>1, <2>2, LinkTypesKept DEF DataInv
<1>OnDisconnect. CASE OnDisconnect
  <2>1. LinkTypes' /\ LoopTypes'
    BY <1>OnDisconnect
      DEF OnDisconnect, DataInv, LinkTypes, LoopTypes, States, Errors, Streams,
        LoopPoints, Closers, linkVars
  <2>2. UNCHANGED msgVars
    BY <1>OnDisconnect DEF OnDisconnect
  <2> QED
    BY <2>1, <2>2, MessageTypesKept DEF DataInv
<1>OnCloseReturns. CASE OnCloseReturns
  <2>1. LoopTypes'
    BY <1>OnCloseReturns DEF OnCloseReturns, DataInv, LoopTypes, LoopPoints
  <2>2. UNCHANGED <<kind, linkVars, msgVars>>
    BY <1>OnCloseReturns DEF OnCloseReturns
  <2> QED
    BY <2>1, <2>2, LinkTypesKept, MessageTypesKept DEF DataInv
<1>OnConnectError. ASSUME NEW error \in Errors, NEW challenge \in BOOLEAN,
                         OnConnectError(error, challenge)
                  PROVE DataInv'
  <2>1. LinkTypes' /\ LoopTypes'
    BY <1>OnConnectError, BoundsAssumption
      DEF OnConnectError, FailAttempt, AttemptOpen, StopTimerOnLoop, NextNc, DataInv,
        LinkTypes, LoopTypes, States, Errors, Streams, LoopPoints, Closers, linkVars
  <2>2. UNCHANGED msgVars
    BY <1>OnConnectError DEF OnConnectError
  <2> QED
    BY <2>1, <2>2, MessageTypesKept DEF DataInv
<1>OnConnectOk. CASE OnConnectOk
  <2>1. LinkTypes' /\ LoopTypes'
    BY <1>OnConnectOk
      DEF OnConnectOk, AttemptOpen, StopTimerOnLoop, NextNc, DataInv, LinkTypes,
        LoopTypes, States, Errors, Streams, LoopPoints, Closers, linkVars
  <2>2. UNCHANGED msgVars
    BY <1>OnConnectOk DEF OnConnectOk
  <2> QED
    BY <2>1, <2>2, MessageTypesKept DEF DataInv
<1>OnHandshakeFailed. CASE OnHandshakeFailed
  <2>1. DisconnectBody(TRUE, "handshake")
    BY <1>OnHandshakeFailed DEF OnHandshakeFailed
  <2>2. LinkTypes' /\ LoopTypes'
    BY <1>OnHandshakeFailed, <2>1, DisconnectBodyTypes
      DEF OnHandshakeFailed, DataInv, LinkTypes, LoopTypes, LoopPoints, Closers, Errors
  <2>3. UNCHANGED msgVars
    BY <1>OnHandshakeFailed DEF OnHandshakeFailed
  <2> QED
    BY <2>2, <2>3, MessageTypesKept DEF DataInv
<1>OnHandshakeComplete. CASE OnHandshakeComplete
  <2>1. LinkTypes' /\ LoopTypes'
    BY <1>OnHandshakeComplete
      DEF OnHandshakeComplete, DataInv, LinkTypes, LoopTypes, States, Errors, Streams,
        LoopPoints, Closers, linkVars
  <2>2. UNCHANGED msgVars
    BY <1>OnHandshakeComplete DEF OnHandshakeComplete
  <2> QED
    BY <2>1, <2>2, MessageTypesKept DEF DataInv
<1>Written. ASSUME NEW m \in Messages, Written(m) PROVE DataInv'
  <2>1. MessageInv' /\ LoopTypes'
    BY <1>Written
      DEF Written, DataInv, MessageInv, MessageTypes, LoopTypes, LoopPoints, Messages,
        orderVars
  <2>2. UNCHANGED <<kind, linkVars>>
    BY <1>Written DEF Written
  <2> QED
    BY <2>1, <2>2, LinkTypesKept DEF DataInv
<1>OnReadData. ASSUME NEW responses \in SUBSET Requests, OnReadData(responses)
              PROVE DataInv'
  <2>1. LoopTypes'
    BY <1>OnReadData DEF OnReadData, DataInv, LoopTypes, LoopPoints
  <2>2. UNCHANGED <<kind, linkVars, msgVars>>
    BY <1>OnReadData DEF OnReadData
  <2> QED
    BY <2>1, <2>2, LinkTypesKept, MessageTypesKept DEF DataInv
<1>OnReadInvalid. CASE OnReadInvalid
  <2>1. DisconnectBody(FALSE, "peer")
    BY <1>OnReadInvalid DEF OnReadInvalid
  <2>2. LinkTypes' /\ LoopTypes'
    BY <1>OnReadInvalid, <2>1, DisconnectBodyTypes
      DEF OnReadInvalid, DataInv, LinkTypes, LoopTypes, LoopPoints, Closers, Errors
  <2>3. UNCHANGED msgVars
    BY <1>OnReadInvalid DEF OnReadInvalid
  <2> QED
    BY <2>2, <2>3, MessageTypesKept DEF DataInv
<1>OnReadError. CASE OnReadError
  <2>1. LoopTypes'
    BY <1>OnReadError DEF OnReadError, DataInv, LoopTypes, LoopPoints
  <2>2. UNCHANGED <<kind, linkVars, msgVars>>
    BY <1>OnReadError DEF OnReadError
  <2> QED
    BY <2>1, <2>2, LinkTypesKept, MessageTypesKept DEF DataInv
<1>OnConnectCancelled. CASE OnConnectCancelled
  <2>1. LinkTypes' /\ LoopTypes'
    BY <1>OnConnectCancelled
      DEF OnConnectCancelled, AttemptOpen, StopTimerOnLoop, NextNc, DataInv, LinkTypes,
        LoopTypes, States, Errors, Streams, LoopPoints, Closers, linkVars
  <2>2. UNCHANGED msgVars
    BY <1>OnConnectCancelled DEF OnConnectCancelled
  <2> QED
    BY <2>1, <2>2, MessageTypesKept DEF DataInv
<1>ConnectTimerExpires. CASE ConnectTimerExpires
  <2>1. LinkTypes' /\ LoopTypes'
    BY <1>ConnectTimerExpires
      DEF ConnectTimerExpires, StopTimerOnLoop, DataInv, LinkTypes, LoopTypes, States,
        Errors, Streams, LoopPoints, Closers, linkVars
  <2>2. UNCHANGED msgVars
    BY <1>ConnectTimerExpires DEF ConnectTimerExpires
  <2> QED
    BY <2>1, <2>2, MessageTypesKept DEF DataInv
<1>OnWriteOk. ASSUME NEW m \in Messages, OnWriteOk(m) PROVE DataInv'
  <2>1. MessageInv' /\ LoopTypes'
    BY <1>OnWriteOk
      DEF OnWriteOk, DataInv, MessageInv, MessageTypes, LoopTypes, LoopPoints, Messages,
        orderVars
  <2>2. UNCHANGED <<kind, linkVars>>
    BY <1>OnWriteOk DEF OnWriteOk
  <2> QED
    BY <2>1, <2>2, LinkTypesKept DEF DataInv
<1>OnWriteError. ASSUME NEW m \in Messages, OnWriteError(m) PROVE DataInv'
  <2>1. /\ writes' \in [Messages -> {"none", "queued", "written", "done", "failed"}]
        /\ writeErrors' \in [Messages -> Nat]
        /\ loop' \in {"idle", "onerror_held"}
    BY <1>OnWriteError DEF OnWriteError, DataInv, MessageInv, MessageTypes, Messages
  <2>2. /\ request_timers' \subseteq Requests /\ running' \subseteq Requests
        /\ unarmed' \subseteq Requests
    BY <1>OnWriteError DEF OnWriteError, EraseTimers, DataInv, MessageInv, MessageTypes
  <2>3. UNCHANGED <<pending_messages, sending, current, orderVars, settled, readBuffer>>
    BY <1>OnWriteError DEF OnWriteError
  <2>4. MessageInv' /\ LoopTypes'
    BY <2>1, <2>2, <2>3
      DEF DataInv, MessageInv, MessageTypes, LoopTypes, LoopPoints, orderVars
  <2>5. UNCHANGED <<kind, linkVars>>
    BY <1>OnWriteError DEF OnWriteError
  <2> QED
    BY <2>4, <2>5, LinkTypesKept DEF DataInv
<1>OnRequestTimeout. ASSUME NEW r \in Requests, OnRequestTimeout(r) PROVE DataInv'
  <2>1. MessageInv' /\ LoopTypes'
    BY <1>OnRequestTimeout
      DEF OnRequestTimeout, Settle, DataInv, MessageInv, MessageTypes, LoopTypes,
        LoopPoints, Messages, orderVars
  <2>2. UNCHANGED <<kind, linkVars>>
    BY <1>OnRequestTimeout DEF OnRequestTimeout
  <2> QED
    BY <2>1, <2>2, LinkTypesKept DEF DataInv
<1>OnClose. CASE OnClose
  <2>1. LinkTypes' /\ LoopTypes'
    BY <1>OnClose
      DEF OnClose, StopTimerOnLoop, DataInv, LinkTypes, LoopTypes, States, Errors,
        Streams, LoopPoints, Closers, linkVars
  <2>2. UNCHANGED msgVars
    BY <1>OnClose DEF OnClose
  <2> QED
    BY <2>1, <2>2, MessageTypesKept DEF DataInv
<1>stutter. CASE UNCHANGED vars
  <2>1. UNCHANGED <<kind, linkVars, msgVars, loop, readBuffer>>
    BY <1>stutter
      DEF vars, memberVars, tvVars, threadVars, ghostVars, linkVars, msgVars
  <2> QED
    BY <2>1, LinkTypesKept, MessageTypesKept DEF DataInv, LoopTypes
<1> QED
  BY <1>Connect, <1>ConnectFails, <1>Disconnect, <1>SendPending, <1>SendTorn, <1>SendDirect,
     <1>PushTimer, <1>StartTimer, <1>OnAcceptReturns, <1>CloseFailed,
     <1>OnConnectReturns, <1>OnConnectTimeout, <1>Flush, <1>RecvResponse,
     <1>OnReadReturns, <1>OnReadErrorDisconnect, <1>OnErrorHeldReturns, <1>Release,
     <1>Retry, <1>RetryFails, <1>Discard, <1>Cancel, <1>OnDisconnect,
     <1>OnCloseReturns, <1>OnConnectError, <1>OnConnectOk, <1>OnHandshakeFailed,
     <1>OnHandshakeComplete, <1>Written, <1>OnReadData, <1>OnReadInvalid,
     <1>OnReadError, <1>OnConnectCancelled, <1>ConnectTimerExpires, <1>OnWriteOk,
     <1>OnWriteError, <1>OnRequestTimeout, <1>OnClose, <1>stutter
     DEF Next, AppNext, SendNext, LoopReturns, PeerNext, TvNext

\* The initial states are well typed.
LEMMA TypeInit == Init => FlagTypes /\ DataInv
<1> SUFFICES ASSUME Init PROVE FlagTypes /\ DataInv
  OBVIOUS
<1>1. FlagTypes
  BY Zenon DEF Init, ClientInit, ServerInit, FlagTypes
<1>2. CASE ClientInit
  <2>1. /\ kind \in Kinds /\ state \in States /\ stream \in Streams
        /\ loop \in LoopPoints /\ owed \in Int
    BY <1>2 DEF ClientInit, States, Streams, LoopPoints
  <2> QED
    BY <1>1, <2>1 DEF Init, DataInv, LinkTypes, MessageInv, MessageTypes, LoopTypes, Errors
<1>3. CASE ServerInit
  <2>1. /\ kind \in Kinds /\ state \in States /\ stream \in Streams
        /\ loop \in LoopPoints /\ owed \in Int
    BY <1>3 DEF ServerInit, States, Streams, LoopPoints
  <2> QED
    BY <1>1, <2>1 DEF Init, DataInv, LinkTypes, MessageInv, MessageTypes, LoopTypes, Errors
<1> QED
  BY <1>1, <1>2, <1>3 DEF Init

\* The strengthened type invariant, for the proofs about LinearSocket.
THEOREM TypeInvariant == Spec => [](FlagTypes /\ DataInv)
<1>1. FlagTypes /\ DataInv /\ [Next]_vars => (FlagTypes /\ DataInv)'
  BY FlagStep, DataStep
<1> QED
  BY TypeInit, <1>1, PTL DEF Spec

\* Every member of SocketImpl stays in its type, whatever the application threads, the
\* peer and the event loop do.
THEOREM TypeCorrect == Spec => []TypeOK
<1>1. FlagTypes /\ DataInv => TypeOK
  BY DEF TypeOK, DataInv, MessageInv
<1> QED
  BY TypeInvariant, <1>1, PTL
=============================================================================

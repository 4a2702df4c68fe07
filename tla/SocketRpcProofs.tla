-------------------------- MODULE SocketRpcProofs --------------------------
(***************************************************************************)
(* LinearSocket implements Rpc.  RpcInv is what the step simulation needs  *)
(* beyond LinkInv and MsgInv: an OnDisconnect is still owed at every point *)
(* where the socket accepts, writes or reports a message.                  *)
(***************************************************************************)
EXTENDS SocketMessageProofs

\* One OnDisconnect is owed for an attempt in use, and one for the attempt whose
\* OnDisconnect is running (kept for every kind of socket; ReportInv is the exact count).
OwedInv ==
    owed >= (IF state # "DISCONNECTED" THEN 1 ELSE 0) + (IF loop \in Ending THEN 1 ELSE 0)

\* The handler's OnConnect and the flush after it come before OnClose.
OpenInv == loop \in {"onconnect", "flush"} => state # "DISCONNECTED"

\* A message lost by the race of SendTorn is nowhere.
TornInv ==
    \A m \in Messages : route[m] = "torn" =>
        /\ m \notin PendingSet /\ m \notin request_timers /\ m \notin running
        /\ m \notin readBuffer /\ writes[m] = "none"
        /\ m = current => sending = "none"

\* libtv calls OnClose after the callbacks of all writes.
FlightInv == \A m \in Messages : writes[m] \in {"queued", "written"} => state # "DISCONNECTED"

\* A write fails once.
FailedInv == \A m \in Messages : writeErrors[m] = IF writes[m] = "failed" THEN 1 ELSE 0

\* A timer that runs is in request_timers_, unless OnWrite deleted it before it started.
RunInv ==
    /\ \A r \in running : r \in request_timers \/ writeErrors[r] = 1
    /\ sending = "start" => current \in request_timers \/ writeErrors[current] = 1

\* Request timers exist only while an OnDisconnect is owed.
TimersInv == request_timers # {} => owed >= 1

\* When OnDisconnect calls the handler, _DiscardMessages has left nothing but what was
\* sent for a new attempt.
EmptyInv ==
    /\ loop = "ondisconnect" => request_timers = {}
    /\ loop \in {"cancel", "ondisconnect"} /\ PendingSet # {} => state # "DISCONNECTED"

RpcInv == /\ OwedInv /\ OpenInv /\ TornInv /\ FlightInv
          /\ FailedInv /\ RunInv /\ TimersInv /\ EmptyInv

----------------------------------------------------------------------------

\* A step on the connection alone keeps RpcInv if it neither ends the connection nor
\* calls OnDisconnect.
LEMMA RpcLinkStep ==
  ASSUME DataInv, RpcInv, UNCHANGED msgVars, readBuffer' \subseteq readBuffer, OwedInv', OpenInv',
         state' = "DISCONNECTED" => state = "DISCONNECTED",
         owed' = owed \/ owed' = owed + 1,
         loop' \in {"cancel", "ondisconnect"} => loop' = loop
  PROVE  RpcInv'
<1>1. UNCHANGED PendingSet
  BY PendingKept DEF msgVars
<1> USE DEF RpcInv, msgVars
<1>2. TornInv' /\ FlightInv' /\ FailedInv'
  BY <1>1 DEF TornInv, FlightInv, FailedInv
<1>3. RunInv'
  BY DEF RunInv
<1>4. TimersInv'
  BY DEF TimersInv, DataInv, LinkTypes
<1>5. EmptyInv'
  BY <1>1 DEF EmptyInv
<1> QED
  BY <1>2, <1>3, <1>4, <1>5

\* RpcInv is inductive.
LEMMA RpcStep == DataInv /\ LinkInv /\ MsgInv /\ RpcInv /\ [Next]_vars => RpcInv'
<1> SUFFICES ASSUME DataInv, LinkInv, MsgInv, RpcInv, [Next]_vars PROVE RpcInv'
  OBVIOUS
<1> USE DEF DataInv, MessageInv, MessageTypes, LinkTypes, RpcInv, Messages
<1>Connect. ASSUME NEW timed \in Timeouts, Connect(timed) PROVE RpcInv'
  <2>1. OwedInv' /\ OpenInv'
    BY <1>Connect DEF Connect, MayConnect, ConnectBody, StartConnectTimer, StateMutexFree, OwedInv,
       OpenInv, Ending
  <2> QED
    BY <1>Connect, <2>1, RpcLinkStep DEF Connect, MayConnect, ConnectBody, StartConnectTimer,
       StateMutexFree
<1>ConnectFails. CASE ConnectFails
  <2>1. OwedInv' /\ OpenInv'
    BY <1>ConnectFails DEF ConnectFails, MayConnect, ConnectFailsBody, OwedInv, OpenInv,
       Ending
  <2> QED
    BY <1>ConnectFails, <2>1, RpcLinkStep DEF ConnectFails, MayConnect, ConnectFailsBody
<1>Disconnect. CASE Disconnect
  <2>1. OwedInv' /\ OpenInv'
    BY <1>Disconnect DEF Disconnect, DisconnectBody, DisconnectError, TvClose, OwedInv,
       OpenInv, Ending
  <2> QED
    BY <1>Disconnect, <2>1, RpcLinkStep DEF Disconnect, DisconnectBody, DisconnectError,
       TvClose
<1>SendPending. ASSUME NEW m \in Messages, SendPending(m) PROVE RpcInv'
  <2>1. PendingSet' = PendingSet \cup {m}
    BY <1>SendPending, PendingAppend DEF SendPending
  <2>2. OwedInv'
    BY <1>SendPending, <2>1 DEF SendPending, linkVars, StateMutexFree, OwedInv, Ending
  <2>3. OpenInv'
    BY <1>SendPending, <2>1 DEF SendPending, linkVars, StateMutexFree, OpenInv
  <2>4. TornInv'
    BY <1>SendPending, <2>1 DEF SendPending, linkVars, StateMutexFree, SentSet, TornInv
  <2>5. FlightInv'
    BY <1>SendPending, <2>1 DEF SendPending, linkVars, StateMutexFree, FlightInv
  <2>6. FailedInv'
    BY <1>SendPending, <2>1 DEF SendPending, linkVars, StateMutexFree, FailedInv
  <2>7. RunInv'
    BY <1>SendPending, <2>1 DEF SendPending, linkVars, StateMutexFree, RunInv
  <2>8. TimersInv'
    BY <1>SendPending, <2>1 DEF SendPending, linkVars, StateMutexFree, TimersInv
  <2>9. EmptyInv'
    BY <1>SendPending, <2>1 DEF SendPending, linkVars, StateMutexFree, EmptyInv
  <2> QED
    BY <2>2, <2>3, <2>4, <2>5, <2>6, <2>7, <2>8, <2>9
<1>SendTorn. ASSUME NEW m \in Messages, SendTorn(m) PROVE RpcInv'
  <2>1. UNCHANGED PendingSet
    BY <1>SendTorn, PendingKept DEF SendTorn
  <2>2. OwedInv'
    BY <1>SendTorn, <2>1 DEF SendTorn, linkVars, StateMutexFree, OwedInv, Ending
  <2>3. OpenInv'
    BY <1>SendTorn, <2>1 DEF SendTorn, linkVars, StateMutexFree, OpenInv
  <2>4. TornInv'
    BY <1>SendTorn, <2>1 DEF SendTorn, linkVars, StateMutexFree, SentSet, MsgInv, Fresh,
       TornInv
  <2>5. FlightInv'
    BY <1>SendTorn, <2>1 DEF SendTorn, linkVars, StateMutexFree, FlightInv
  <2>6. FailedInv'
    BY <1>SendTorn, <2>1 DEF SendTorn, linkVars, StateMutexFree, FailedInv
  <2>7. RunInv'
    BY <1>SendTorn, <2>1 DEF SendTorn, linkVars, StateMutexFree, RunInv
  <2>8. TimersInv'
    BY <1>SendTorn, <2>1 DEF SendTorn, linkVars, StateMutexFree, TimersInv
  <2>9. EmptyInv'
    BY <1>SendTorn, <2>1 DEF SendTorn, linkVars, StateMutexFree, EmptyInv
  <2> QED
    BY <2>2, <2>3, <2>4, <2>5, <2>6, <2>7, <2>8, <2>9
<1>SendDirect. ASSUME NEW m \in Messages, SendDirect(m) PROVE RpcInv'
  <2>1. UNCHANGED PendingSet
    BY <1>SendDirect, PendingKept DEF SendDirect
  <2>2. OwedInv'
    BY <1>SendDirect, <2>1 DEF SendDirect, linkVars, StateMutexFree, OwedInv, Ending
  <2>3. OpenInv'
    BY <1>SendDirect, <2>1 DEF SendDirect, linkVars, StateMutexFree, OpenInv
  <2>4. TornInv'
    BY <1>SendDirect, <2>1 DEF SendDirect, linkVars, StateMutexFree, SentSet, TornInv
  <2>5. FlightInv'
    BY <1>SendDirect, <2>1 DEF SendDirect, linkVars, StateMutexFree, FlightInv
  <2>6. FailedInv'
    BY <1>SendDirect, <2>1 DEF SendDirect, linkVars, StateMutexFree, SentSet, MsgInv,
       Fresh, FailedInv
  <2>7. RunInv'
    BY <1>SendDirect, <2>1 DEF SendDirect, linkVars, StateMutexFree, RunInv
  <2>8. TimersInv'
    BY <1>SendDirect, <2>1 DEF SendDirect, linkVars, StateMutexFree, TimersInv
  <2>9. EmptyInv'
    BY <1>SendDirect, <2>1 DEF SendDirect, linkVars, StateMutexFree, EmptyInv
  <2> QED
    BY <2>2, <2>3, <2>4, <2>5, <2>6, <2>7, <2>8, <2>9
<1>PushTimer. CASE PushTimer
  <2>1. UNCHANGED PendingSet
    BY <1>PushTimer, PendingKept DEF PushTimer
  <2>2. OwedInv'
    BY <1>PushTimer, <2>1 DEF PushTimer, linkVars, orderVars, OwedInv, Ending
  <2>3. OpenInv'
    BY <1>PushTimer, <2>1 DEF PushTimer, linkVars, orderVars, OpenInv
  <2>4. TornInv'
    BY <1>PushTimer, <2>1 DEF PushTimer, linkVars, orderVars, TornInv
  <2>5. FlightInv'
    BY <1>PushTimer, <2>1 DEF PushTimer, linkVars, orderVars, FlightInv
  <2>6. FailedInv'
    BY <1>PushTimer, <2>1 DEF PushTimer, linkVars, orderVars, FailedInv
  <2>7. RunInv'
    BY <1>PushTimer, <2>1 DEF PushTimer, linkVars, orderVars, RunInv
  <2>8. TimersInv'
    BY <1>PushTimer, <2>1 DEF PushTimer, linkVars, orderVars, MsgInv, Holding, OwedInv,
       TimersInv
  <2>9. EmptyInv'
    BY <1>PushTimer, <2>1 DEF PushTimer, linkVars, orderVars, MsgInv, Holding, LinkInv,
       EndingInv, Ending, EmptyInv
  <2> QED
    BY <2>2, <2>3, <2>4, <2>5, <2>6, <2>7, <2>8, <2>9
<1>StartTimer. CASE StartTimer
  <2>1. UNCHANGED PendingSet
    BY <1>StartTimer, PendingKept DEF StartTimer
  <2>2. OwedInv'
    BY <1>StartTimer, <2>1 DEF StartTimer, linkVars, orderVars, OwedInv, Ending
  <2>3. OpenInv'
    BY <1>StartTimer, <2>1 DEF StartTimer, linkVars, orderVars, OpenInv
  <2>4. TornInv'
    BY <1>StartTimer, <2>1 DEF StartTimer, linkVars, orderVars, TornInv
  <2>5. FlightInv'
    BY <1>StartTimer, <2>1 DEF StartTimer, linkVars, orderVars, FlightInv
  <2>6. FailedInv'
    BY <1>StartTimer, <2>1 DEF StartTimer, linkVars, orderVars, FailedInv
  <2>7. RunInv'
    BY <1>StartTimer, <2>1 DEF StartTimer, linkVars, orderVars, RunInv
  <2>8. TimersInv'
    BY <1>StartTimer, <2>1 DEF StartTimer, linkVars, orderVars, TimersInv
  <2>9. EmptyInv'
    BY <1>StartTimer, <2>1 DEF StartTimer, linkVars, orderVars, EmptyInv
  <2> QED
    BY <2>2, <2>3, <2>4, <2>5, <2>6, <2>7, <2>8, <2>9
<1>OnAcceptReturns. CASE OnAcceptReturns
  <2>1. OwedInv' /\ OpenInv'
    BY <1>OnAcceptReturns DEF OnAcceptReturns, linkVars, OwedInv, OpenInv, Ending
  <2> QED
    BY <1>OnAcceptReturns, <2>1, RpcLinkStep DEF OnAcceptReturns, linkVars
<1>CloseFailed. CASE CloseFailed
  <2>1. OwedInv' /\ OpenInv'
    BY <1>CloseFailed DEF CloseFailed, TvClose, OwedInv, OpenInv, Ending
  <2> QED
    BY <1>CloseFailed, <2>1, RpcLinkStep DEF CloseFailed, TvClose
<1>OnConnectReturns. CASE OnConnectReturns
  <2>1. OwedInv' /\ OpenInv'
    BY <1>OnConnectReturns DEF OnConnectReturns, StateAfterOnConnect, OwedInv, OpenInv,
       Ending
  <2> QED
    BY <1>OnConnectReturns, <2>1, RpcLinkStep DEF OnConnectReturns, StateAfterOnConnect
<1>OnConnectTimeout. CASE OnConnectTimeout
  <2>1. OwedInv' /\ OpenInv'
    BY <1>OnConnectTimeout DEF OnConnectTimeout, FailAttempt, AttemptOpen,
       StopTimerOnLoop, NextNc, OwedInv, OpenInv, Ending
  <2> QED
    BY <1>OnConnectTimeout, <2>1, RpcLinkStep DEF OnConnectTimeout, FailAttempt,
       AttemptOpen, StopTimerOnLoop, NextNc
<1>Flush. ASSUME NEW failed \in SUBSET Messages, Flush(failed) PROVE RpcInv'
  <2>1. PendingSet' = {}
    BY <1>Flush, PendingEmpty DEF Flush
  <2>2. OwedInv'
    BY <1>Flush, <2>1 DEF Flush, linkVars, StateMutexFree, OwedInv, Ending
  <2>3. OpenInv'
    BY <1>Flush, <2>1 DEF Flush, linkVars, StateMutexFree, OpenInv
  <2>4. TornInv'
    BY <1>Flush, <2>1, PendingType DEF Flush, linkVars, StateMutexFree, Settle, TornInv
  <2>5. FlightInv'
    BY <1>Flush, <2>1, PendingType DEF Flush, linkVars, StateMutexFree, OpenInv,
       FlightInv
  <2>6. FailedInv'
    BY <1>Flush, <2>1, PendingType DEF Flush, linkVars, StateMutexFree, MsgInv, Waiting,
       FailedInv
  <2>7. RunInv'
    BY <1>Flush, <2>1, PendingType DEF Flush, linkVars, StateMutexFree, RunInv
  <2>8. TimersInv'
    BY <1>Flush, <2>1 DEF Flush, linkVars, StateMutexFree, OwedInv, OpenInv, TimersInv
  <2>9. EmptyInv'
    BY <1>Flush, <2>1 DEF Flush, linkVars, StateMutexFree, EmptyInv
  <2> QED
    BY <2>2, <2>3, <2>4, <2>5, <2>6, <2>7, <2>8, <2>9
<1>RecvResponse. ASSUME NEW r \in Requests, RecvResponse(r) PROVE RpcInv'
  <2>1. UNCHANGED PendingSet
    BY <1>RecvResponse, PendingKept DEF RecvResponse
  <2>2. OwedInv'
    BY <1>RecvResponse, <2>1 DEF RecvResponse, EraseTimers, linkVars, orderVars,
       OwedInv, Ending
  <2>3. OpenInv'
    BY <1>RecvResponse, <2>1 DEF RecvResponse, EraseTimers, linkVars, orderVars, OpenInv
  <2>4. TornInv'
    BY <1>RecvResponse, <2>1 DEF RecvResponse, EraseTimers, linkVars, orderVars, TornInv
  <2>5. FlightInv'
    BY <1>RecvResponse, <2>1 DEF RecvResponse, EraseTimers, linkVars, orderVars,
       FlightInv
  <2>6. FailedInv'
    BY <1>RecvResponse, <2>1 DEF RecvResponse, EraseTimers, linkVars, orderVars,
       FailedInv
  <2>7. RunInv'
    BY <1>RecvResponse, <2>1 DEF RecvResponse, EraseTimers, linkVars, orderVars, MsgInv,
       Starting, RunInv
  <2>8. TimersInv'
    BY <1>RecvResponse, <2>1 DEF RecvResponse, EraseTimers, linkVars, orderVars,
       TimersInv
  <2>9. EmptyInv'
    BY <1>RecvResponse, <2>1 DEF RecvResponse, EraseTimers, linkVars, orderVars,
       EmptyInv
  <2> QED
    BY <2>2, <2>3, <2>4, <2>5, <2>6, <2>7, <2>8, <2>9
<1>OnReadReturns. CASE OnReadReturns
  <2>1. OwedInv' /\ OpenInv'
    BY <1>OnReadReturns DEF OnReadReturns, linkVars, OwedInv, OpenInv, Ending
  <2> QED
    BY <1>OnReadReturns, <2>1, RpcLinkStep DEF OnReadReturns, linkVars
<1>OnReadErrorDisconnect. CASE OnReadErrorDisconnect
  <2>1. OwedInv' /\ OpenInv'
    BY <1>OnReadErrorDisconnect DEF OnReadErrorDisconnect, DisconnectBody, TvClose,
       OwedInv, OpenInv, Ending
  <2> QED
    BY <1>OnReadErrorDisconnect, <2>1, RpcLinkStep DEF OnReadErrorDisconnect,
       DisconnectBody, TvClose
<1>OnErrorHeldReturns. CASE OnErrorHeldReturns
  <2>1. OwedInv' /\ OpenInv'
    BY <1>OnErrorHeldReturns DEF OnErrorHeldReturns, DisconnectBody, DisconnectError,
       TvClose, OwedInv, OpenInv, Ending
  <2> QED
    BY <1>OnErrorHeldReturns, <2>1, RpcLinkStep DEF OnErrorHeldReturns, DisconnectBody,
       DisconnectError, TvClose
<1>Release. CASE Release
  <2>1. OwedInv' /\ OpenInv'
    BY <1>Release DEF Release, AfterRelease, OwedInv, OpenInv, Ending
  <2> QED
    BY <1>Release, <2>1, RpcLinkStep DEF Release, AfterRelease
<1>Retry. CASE Retry
  <2>1. OwedInv' /\ OpenInv'
    BY <1>Retry DEF Retry, MayConnect, ConnectBody, StartConnectTimer, OwedInv, OpenInv, Ending
  <2> QED
    BY <1>Retry, <2>1, RpcLinkStep DEF Retry, MayConnect, ConnectBody, StartConnectTimer
<1>RetryFails. CASE RetryFails
  <2>1. OwedInv' /\ OpenInv'
    BY <1>RetryFails DEF RetryFails, ConnectFailsBody, OwedInv, OpenInv, Ending
  <2> QED
    BY <1>RetryFails, <2>1, RpcLinkStep DEF RetryFails, ConnectFailsBody
<1>Discard. CASE Discard
  <2>1. PendingSet' = {}
    BY <1>Discard, PendingEmpty DEF Discard
  <2>2. OwedInv'
    BY <1>Discard, <2>1 DEF Discard, linkVars, orderVars, OwedInv, Ending
  <2>3. OpenInv'
    BY <1>Discard, <2>1 DEF Discard, linkVars, orderVars, OpenInv
  <2>4. TornInv'
    BY <1>Discard, <2>1, PendingType DEF Discard, linkVars, orderVars, TornInv
  <2>5. FlightInv'
    BY <1>Discard, <2>1, PendingType DEF Discard, linkVars, orderVars, FlightInv
  <2>6. FailedInv'
    BY <1>Discard, <2>1, PendingType DEF Discard, linkVars, orderVars, FailedInv
  <2>7. RunInv'
    BY <1>Discard, <2>1, PendingType DEF Discard, linkVars, orderVars, RunInv
  <2>8. TimersInv'
    BY <1>Discard, <2>1 DEF Discard, linkVars, orderVars, TimersInv
  <2>9. EmptyInv'
    BY <1>Discard, <2>1 DEF Discard, linkVars, orderVars, EmptyInv
  <2> QED
    BY <2>2, <2>3, <2>4, <2>5, <2>6, <2>7, <2>8, <2>9
<1>Cancel. CASE Cancel
  <2>1. UNCHANGED PendingSet
    BY <1>Cancel, PendingKept DEF Cancel
  <2>2. OwedInv'
    BY <1>Cancel, <2>1 DEF Cancel, EraseTimers, linkVars, orderVars, OwedInv, Ending
  <2>3. OpenInv'
    BY <1>Cancel, <2>1 DEF Cancel, EraseTimers, linkVars, orderVars, OpenInv
  <2>4. TornInv'
    BY <1>Cancel, <2>1 DEF Cancel, EraseTimers, linkVars, orderVars, TornInv
  <2>5. FlightInv'
    BY <1>Cancel, <2>1 DEF Cancel, EraseTimers, linkVars, orderVars, FlightInv
  <2>6. FailedInv'
    BY <1>Cancel, <2>1 DEF Cancel, EraseTimers, linkVars, orderVars, FailedInv
  <2>7. RunInv'
    BY <1>Cancel, <2>1 DEF Cancel, EraseTimers, linkVars, orderVars, MsgInv, Holding,
       LinkInv, EndingInv, Ending, RunInv
  <2>8. TimersInv'
    BY <1>Cancel, <2>1 DEF Cancel, EraseTimers, linkVars, orderVars, TimersInv
  <2>9. EmptyInv'
    BY <1>Cancel, <2>1 DEF Cancel, EraseTimers, linkVars, orderVars, EmptyInv
  <2> QED
    BY <2>2, <2>3, <2>4, <2>5, <2>6, <2>7, <2>8, <2>9
<1>OnDisconnect. CASE OnDisconnect
  <2>1. UNCHANGED PendingSet
    BY <1>OnDisconnect, PendingKept DEF OnDisconnect, msgVars
  <2>2. OwedInv'
    BY <1>OnDisconnect, <2>1 DEF OnDisconnect, msgVars, OwedInv, Ending
  <2>3. OpenInv'
    BY <1>OnDisconnect, <2>1 DEF OnDisconnect, msgVars, OpenInv
  <2>4. TornInv'
    BY <1>OnDisconnect, <2>1 DEF OnDisconnect, msgVars, TornInv
  <2>5. FlightInv'
    BY <1>OnDisconnect, <2>1 DEF OnDisconnect, msgVars, FlightInv
  <2>6. FailedInv'
    BY <1>OnDisconnect, <2>1 DEF OnDisconnect, msgVars, FailedInv
  <2>7. RunInv'
    BY <1>OnDisconnect, <2>1 DEF OnDisconnect, msgVars, RunInv
  <2>8. TimersInv'
    BY <1>OnDisconnect, <2>1 DEF OnDisconnect, msgVars, EmptyInv, TimersInv
  <2>9. EmptyInv'
    BY <1>OnDisconnect, <2>1 DEF OnDisconnect, msgVars, EmptyInv
  <2> QED
    BY <2>2, <2>3, <2>4, <2>5, <2>6, <2>7, <2>8, <2>9
<1>OnCloseReturns. CASE OnCloseReturns
  <2>1. OwedInv' /\ OpenInv'
    BY <1>OnCloseReturns DEF OnCloseReturns, linkVars, OwedInv, OpenInv, Ending
  <2> QED
    BY <1>OnCloseReturns, <2>1, RpcLinkStep DEF OnCloseReturns, linkVars
<1>OnConnectError. ASSUME NEW error \in Errors, NEW challenge \in BOOLEAN,
                         OnConnectError(error, challenge)
                  PROVE RpcInv'
  <2>1. OwedInv' /\ OpenInv'
    BY <1>OnConnectError DEF OnConnectError, FailAttempt, AttemptOpen, StopTimerOnLoop,
       NextNc, OwedInv, OpenInv, Ending
  <2> QED
    BY <1>OnConnectError, <2>1, RpcLinkStep DEF OnConnectError, FailAttempt,
       AttemptOpen, StopTimerOnLoop, NextNc
<1>OnConnectOk. CASE OnConnectOk
  <2>1. OwedInv' /\ OpenInv'
    BY <1>OnConnectOk DEF OnConnectOk, AttemptOpen, StopTimerOnLoop, NextNc, OwedInv,
       OpenInv, Ending
  <2> QED
    BY <1>OnConnectOk, <2>1, RpcLinkStep DEF OnConnectOk, AttemptOpen, StopTimerOnLoop,
       NextNc
<1>OnHandshakeFailed. CASE OnHandshakeFailed
  <2>1. OwedInv' /\ OpenInv'
    BY <1>OnHandshakeFailed DEF OnHandshakeFailed, DisconnectBody, DisconnectError,
       TvClose, OwedInv, OpenInv, Ending
  <2> QED
    BY <1>OnHandshakeFailed, <2>1, RpcLinkStep DEF OnHandshakeFailed, DisconnectBody,
       DisconnectError, TvClose
<1>OnHandshakeComplete. CASE OnHandshakeComplete
  <2>1. OwedInv' /\ OpenInv'
    BY <1>OnHandshakeComplete DEF OnHandshakeComplete, LinkInv, ServerInv, Client,
       linkVars, OwedInv, OpenInv, Ending
  <2> QED
    BY <1>OnHandshakeComplete, <2>1, RpcLinkStep DEF OnHandshakeComplete, LinkInv,
       ServerInv, Client, linkVars
<1>Written. ASSUME NEW m \in Messages, Written(m) PROVE RpcInv'
  <2>1. UNCHANGED PendingSet
    BY <1>Written, PendingKept DEF Written
  <2>2. OwedInv'
    BY <1>Written, <2>1 DEF Written, linkVars, orderVars, OwedInv, Ending
  <2>3. OpenInv'
    BY <1>Written, <2>1 DEF Written, linkVars, orderVars, OpenInv
  <2>4. TornInv'
    BY <1>Written, <2>1 DEF Written, linkVars, orderVars, TornInv
  <2>5. FlightInv'
    BY <1>Written, <2>1 DEF Written, linkVars, orderVars, FlightInv
  <2>6. FailedInv'
    BY <1>Written, <2>1 DEF Written, linkVars, orderVars, FailedInv
  <2>7. RunInv'
    BY <1>Written, <2>1 DEF Written, linkVars, orderVars, RunInv
  <2>8. TimersInv'
    BY <1>Written, <2>1 DEF Written, linkVars, orderVars, TimersInv
  <2>9. EmptyInv'
    BY <1>Written, <2>1 DEF Written, linkVars, orderVars, EmptyInv
  <2> QED
    BY <2>2, <2>3, <2>4, <2>5, <2>6, <2>7, <2>8, <2>9
<1>OnReadData. ASSUME NEW responses \in SUBSET Requests, OnReadData(responses) PROVE RpcInv'
  <2>1. UNCHANGED PendingSet
    BY <1>OnReadData, PendingKept DEF OnReadData, msgVars
  <2>2. OwedInv'
    BY <1>OnReadData, <2>1 DEF OnReadData, linkVars, msgVars, OwedInv, Ending
  <2>3. OpenInv'
    BY <1>OnReadData, <2>1 DEF OnReadData, linkVars, msgVars, OpenInv
  <2>4. TornInv'
    BY <1>OnReadData, <2>1 DEF OnReadData, linkVars, msgVars, TornInv
  <2>5. FlightInv'
    BY <1>OnReadData, <2>1 DEF OnReadData, linkVars, msgVars, FlightInv
  <2>6. FailedInv'
    BY <1>OnReadData, <2>1 DEF OnReadData, linkVars, msgVars, FailedInv
  <2>7. RunInv'
    BY <1>OnReadData, <2>1 DEF OnReadData, linkVars, msgVars, RunInv
  <2>8. TimersInv'
    BY <1>OnReadData, <2>1 DEF OnReadData, linkVars, msgVars, TimersInv
  <2>9. EmptyInv'
    BY <1>OnReadData, <2>1 DEF OnReadData, linkVars, msgVars, EmptyInv
  <2> QED
    BY <2>2, <2>3, <2>4, <2>5, <2>6, <2>7, <2>8, <2>9
<1>OnReadInvalid. CASE OnReadInvalid
  <2>1. OwedInv' /\ OpenInv'
    BY <1>OnReadInvalid DEF OnReadInvalid, DisconnectBody, DisconnectError, TvClose,
       OwedInv, OpenInv, Ending
  <2> QED
    BY <1>OnReadInvalid, <2>1, RpcLinkStep DEF OnReadInvalid, DisconnectBody,
       DisconnectError, TvClose
<1>OnReadError. CASE OnReadError
  <2>1. OwedInv' /\ OpenInv'
    BY <1>OnReadError DEF OnReadError, Readable, linkVars, OwedInv, OpenInv, Ending
  <2> QED
    BY <1>OnReadError, <2>1, RpcLinkStep DEF OnReadError, Readable, linkVars
<1>OnConnectCancelled. CASE OnConnectCancelled
  <2>1. OwedInv' /\ OpenInv'
    BY <1>OnConnectCancelled DEF OnConnectCancelled, AttemptOpen, StopTimerOnLoop,
       NextNc, OwedInv, OpenInv, Ending
  <2> QED
    BY <1>OnConnectCancelled, <2>1, RpcLinkStep DEF OnConnectCancelled, AttemptOpen,
       StopTimerOnLoop, NextNc
<1>ConnectTimerExpires. CASE ConnectTimerExpires
  <2>1. OwedInv' /\ OpenInv'
    BY <1>ConnectTimerExpires DEF ConnectTimerExpires, StopTimerOnLoop, OwedInv,
       OpenInv, Ending
  <2> QED
    BY <1>ConnectTimerExpires, <2>1, RpcLinkStep DEF ConnectTimerExpires,
       StopTimerOnLoop
<1>OnWriteOk. ASSUME NEW m \in Messages, OnWriteOk(m) PROVE RpcInv'
  <2>1. UNCHANGED PendingSet
    BY <1>OnWriteOk, PendingKept DEF OnWriteOk
  <2>2. OwedInv'
    BY <1>OnWriteOk, <2>1 DEF OnWriteOk, linkVars, orderVars, OwedInv, Ending
  <2>3. OpenInv'
    BY <1>OnWriteOk, <2>1 DEF OnWriteOk, linkVars, orderVars, OpenInv
  <2>4. TornInv'
    BY <1>OnWriteOk, <2>1 DEF OnWriteOk, linkVars, orderVars, TornInv
  <2>5. FlightInv'
    BY <1>OnWriteOk, <2>1 DEF OnWriteOk, linkVars, orderVars, FlightInv
  <2>6. FailedInv'
    BY <1>OnWriteOk, <2>1 DEF OnWriteOk, linkVars, orderVars, FailedInv
  <2>7. RunInv'
    BY <1>OnWriteOk, <2>1 DEF OnWriteOk, linkVars, orderVars, RunInv
  <2>8. TimersInv'
    BY <1>OnWriteOk, <2>1 DEF OnWriteOk, linkVars, orderVars, TimersInv
  <2>9. EmptyInv'
    BY <1>OnWriteOk, <2>1 DEF OnWriteOk, linkVars, orderVars, EmptyInv
  <2> QED
    BY <2>2, <2>3, <2>4, <2>5, <2>6, <2>7, <2>8, <2>9
<1>OnWriteError. ASSUME NEW m \in Messages, OnWriteError(m) PROVE RpcInv'
  <2>1. UNCHANGED PendingSet
    BY <1>OnWriteError, PendingKept DEF OnWriteError
  <2>2. OwedInv'
    BY <1>OnWriteError, <2>1 DEF OnWriteError, EraseTimers, linkVars, orderVars,
       OwedInv, Ending
  <2>3. OpenInv'
    BY <1>OnWriteError, <2>1 DEF OnWriteError, EraseTimers, linkVars, orderVars, OpenInv
  <2>4. TornInv'
    BY <1>OnWriteError, <2>1 DEF OnWriteError, EraseTimers, linkVars, orderVars, TornInv
  <2>5. FlightInv'
    BY <1>OnWriteError, <2>1 DEF OnWriteError, EraseTimers, linkVars, orderVars,
       FlightInv
  <2>6. FailedInv'
    BY <1>OnWriteError, <2>1 DEF OnWriteError, EraseTimers, linkVars, orderVars,
       FailedInv
  <2>7. RunInv'
    <3>1. /\ running' = running \ ({m} \cap request_timers)
          /\ request_timers' = request_timers \ {m}
          /\ UNCHANGED <<sending, current>>
      BY <1>OnWriteError DEF OnWriteError, EraseTimers
    <3>2. writeErrors'[m] = 1 /\ \A r \in Messages \ {m} : writeErrors'[r] = writeErrors[r]
      <4>1. writeErrors[m] = 0
        BY <1>OnWriteError DEF OnWriteError, FailedInv
      <4>2. writeErrors \in [Messages -> Nat]
        BY DEF DataInv, MessageInv, MessageTypes
      <4>3. writeErrors' = [writeErrors EXCEPT ![m] = @ + 1]
        BY <1>OnWriteError DEF OnWriteError
      <4> QED
        BY <4>1, <4>2, <4>3
    <3> QED
      BY <3>1, <3>2 DEF RunInv, DataInv, MessageInv, MessageTypes, Messages
  <2>8. TimersInv'
    BY <1>OnWriteError, <2>1 DEF OnWriteError, EraseTimers, linkVars, orderVars,
       TimersInv
  <2>9. EmptyInv'
    BY <1>OnWriteError, <2>1 DEF OnWriteError, EraseTimers, linkVars, orderVars,
       EmptyInv
  <2> QED
    BY <2>2, <2>3, <2>4, <2>5, <2>6, <2>7, <2>8, <2>9
<1>OnRequestTimeout. ASSUME NEW r \in Requests, OnRequestTimeout(r) PROVE RpcInv'
  <2>1. UNCHANGED PendingSet
    BY <1>OnRequestTimeout, PendingKept DEF OnRequestTimeout
  <2>2. OwedInv'
    BY <1>OnRequestTimeout, <2>1 DEF OnRequestTimeout, linkVars, orderVars, OwedInv,
       Ending
  <2>3. OpenInv'
    BY <1>OnRequestTimeout, <2>1 DEF OnRequestTimeout, linkVars, orderVars, OpenInv
  <2>4. TornInv'
    BY <1>OnRequestTimeout, <2>1 DEF OnRequestTimeout, linkVars, orderVars, TornInv
  <2>5. FlightInv'
    BY <1>OnRequestTimeout, <2>1 DEF OnRequestTimeout, linkVars, orderVars, FlightInv
  <2>6. FailedInv'
    BY <1>OnRequestTimeout, <2>1 DEF OnRequestTimeout, linkVars, orderVars, FailedInv
  <2>7. RunInv'
    BY <1>OnRequestTimeout, <2>1 DEF OnRequestTimeout, linkVars, orderVars, MsgInv,
       Starting, RunInv
  <2>8. TimersInv'
    BY <1>OnRequestTimeout, <2>1 DEF OnRequestTimeout, linkVars, orderVars, TimersInv
  <2>9. EmptyInv'
    BY <1>OnRequestTimeout, <2>1 DEF OnRequestTimeout, linkVars, orderVars, EmptyInv
  <2> QED
    BY <2>2, <2>3, <2>4, <2>5, <2>6, <2>7, <2>8, <2>9
<1>OnClose. CASE OnClose
  <2>1. UNCHANGED PendingSet
    BY <1>OnClose, PendingKept DEF OnClose, msgVars
  <2>2. OwedInv'
    BY <1>OnClose, <2>1 DEF OnClose, StopTimerOnLoop, msgVars, OwedInv, Ending
  <2>3. OpenInv'
    BY <1>OnClose, <2>1 DEF OnClose, StopTimerOnLoop, msgVars, OpenInv
  <2>4. TornInv'
    BY <1>OnClose, <2>1 DEF OnClose, StopTimerOnLoop, msgVars, TornInv
  <2>5. FlightInv'
    BY <1>OnClose, <2>1 DEF OnClose, StopTimerOnLoop, msgVars, FlightInv
  <2>6. FailedInv'
    BY <1>OnClose, <2>1 DEF OnClose, StopTimerOnLoop, msgVars, FailedInv
  <2>7. RunInv'
    BY <1>OnClose, <2>1 DEF OnClose, StopTimerOnLoop, msgVars, RunInv
  <2>8. TimersInv'
    BY <1>OnClose, <2>1 DEF OnClose, StopTimerOnLoop, msgVars, TimersInv
  <2>9. EmptyInv'
    BY <1>OnClose, <2>1 DEF OnClose, StopTimerOnLoop, msgVars, EmptyInv
  <2> QED
    BY <2>2, <2>3, <2>4, <2>5, <2>6, <2>7, <2>8, <2>9
<1>stutter. CASE UNCHANGED vars
  <2>1. OwedInv' /\ OpenInv'
    BY <1>stutter DEF vars, memberVars, threadVars, ghostVars, OwedInv, OpenInv
  <2> QED
    BY <1>stutter, <2>1, RpcLinkStep
      DEF vars, memberVars, tvVars, threadVars, ghostVars, msgVars
<1> QED
  BY <1>Connect, <1>ConnectFails, <1>Disconnect, <1>SendPending, <1>SendTorn,
     <1>SendDirect, <1>PushTimer, <1>StartTimer, <1>OnAcceptReturns, <1>CloseFailed,
     <1>OnConnectReturns, <1>OnConnectTimeout, <1>Flush, <1>RecvResponse,
     <1>OnReadReturns, <1>OnReadErrorDisconnect, <1>OnErrorHeldReturns, <1>Release,
     <1>Retry, <1>RetryFails, <1>Discard, <1>Cancel, <1>OnDisconnect, <1>OnCloseReturns,
     <1>OnConnectError, <1>OnConnectOk, <1>OnHandshakeFailed, <1>OnHandshakeComplete,
     <1>Written, <1>OnReadData, <1>OnReadInvalid, <1>OnReadError, <1>OnConnectCancelled,
     <1>ConnectTimerExpires, <1>OnWriteOk, <1>OnWriteError, <1>OnRequestTimeout,
     <1>OnClose, <1>stutter
     DEF Next, AppNext, SendNext, LoopReturns, PeerNext, TvNext

\* RpcInv holds of a new socket.
LEMMA RpcInit == Init => RpcInv
<1>1. Init => PendingSet = {}
  BY DEF Init, PendingSet
<1> QED
  BY <1>1 DEF Init, ClientInit, ServerInit, RpcInv, OwedInv, OpenInv, TornInv, FlightInv,
     FailedInv, RunInv, TimersInv, EmptyInv, Ending

\* The invariant of the refinement holds in every reachable state.
THEOREM RpcInvariant == Spec => []DataInv /\ []LinkInv /\ []MsgInv /\ []RpcInv
<1>1. DataInv /\ LinkInv /\ MsgInv /\ RpcInv /\ [Next]_vars => RpcInv'
  BY RpcStep
<1> QED
  BY MessageInvariant, RpcInit, <1>1, PTL DEF Spec

----------------------------------------------------------------------------
(* The step simulation.                                                    *)

Lost == {m \in Messages : route[m] = "torn"}

\* Reports of accepted messages, none reported before, are what Rpc allows.
LEMMA ReportStep ==
  ASSUME DataInv, NEW ms \in SUBSET Messages, Settle(ms),
         UNCHANGED <<owed, up, route, writeErrors>>,
         \A m \in ms : m \in SentSet \ Lost /\ settled[m] = 0,
         \A m \in ms : owed > 0 \/ writeErrors[m] = 1
  PROVE  [R!Next]_(R!vars)
<1>1. UNCHANGED <<SentSet, Lost>>
  BY DEF SentSet, Lost
<1>2. R!Report(ms)
  BY <1>1 DEF Settle, R!Report, R!Messages, Messages, Lost
<1> QED
  BY <1>2 DEF R!Next, R!Messages, Messages

\* Every step of the socket is a step of Rpc or leaves what the handler sees alone.
LEMMA RpcSimulation ==
  DataInv /\ LinkInv /\ MsgInv /\ RpcInv /\ [Next]_vars => [R!Next]_(R!vars)
<1> SUFFICES ASSUME DataInv, LinkInv, MsgInv, RpcInv, [Next]_vars PROVE [R!Next]_(R!vars)
  OBVIOUS
<1> USE DEF DataInv, MessageInv, MessageTypes, LinkTypes, RpcInv, Messages, Lost
<1>same. UNCHANGED route => UNCHANGED <<SentSet, Lost>>
  BY DEF SentSet
<1>Connect. ASSUME NEW timed \in Timeouts, Connect(timed) PROVE [R!Next]_(R!vars)
  <2>1. R!Attempt
    BY <1>Connect, <1>same DEF Connect, msgVars, R!Attempt
  <2> QED
    BY <2>1 DEF R!Next
<1>ConnectFails. CASE ConnectFails
  BY <1>ConnectFails, <1>same DEF ConnectFails, linkVars, msgVars, R!vars
<1>Disconnect. CASE Disconnect
  BY <1>Disconnect, <1>same DEF Disconnect, linkVars, msgVars, R!vars
<1>SendPending. ASSUME NEW m \in Messages, SendPending(m) PROVE [R!Next]_(R!vars)
  <2>1. SentSet' = SentSet \cup {m} /\ Lost' = Lost
    BY <1>SendPending DEF SendPending, SentSet
  <2>2. R!Accept(m)
    BY <1>SendPending, <2>1 DEF SendPending, linkVars, OwedInv, R!Accept
  <2> QED
    BY <2>2 DEF R!Next, R!Messages
<1>SendTorn. ASSUME NEW m \in Messages, SendTorn(m) PROVE [R!Next]_(R!vars)
  <2>1. SentSet' = SentSet \cup {m} /\ Lost' = Lost \cup {m}
    BY <1>SendTorn DEF SendTorn, SentSet
  <2>2. owed > 1
    BY <1>SendTorn DEF SendTorn, OwedInv, Ending
  <2>3. R!Lose(m)
    BY <1>SendTorn, <2>1, <2>2 DEF SendTorn, linkVars, R!Lose
  <2> QED
    BY <2>3 DEF R!Next, R!Messages
<1>SendDirect. ASSUME NEW m \in Messages, SendDirect(m) PROVE [R!Next]_(R!vars)
  <2>1. SentSet' = SentSet \cup {m} /\ Lost' = Lost
    BY <1>SendDirect DEF SendDirect, SentSet
  <2>2. R!Accept(m)
    BY <1>SendDirect, <2>1 DEF SendDirect, linkVars, OwedInv, R!Accept
  <2> QED
    BY <2>2 DEF R!Next, R!Messages
<1>PushTimer. CASE PushTimer
  BY <1>PushTimer, <1>same DEF PushTimer, linkVars, orderVars, R!vars
<1>StartTimer. CASE StartTimer
  BY <1>StartTimer, <1>same DEF StartTimer, linkVars, orderVars, R!vars
<1>OnAcceptReturns. CASE OnAcceptReturns
  BY <1>OnAcceptReturns, <1>same DEF OnAcceptReturns, linkVars, msgVars, R!vars
<1>CloseFailed. CASE CloseFailed
  BY <1>CloseFailed, <1>same DEF CloseFailed, linkVars, msgVars, R!vars
<1>OnConnectReturns. CASE OnConnectReturns
  BY <1>OnConnectReturns, <1>same DEF OnConnectReturns, linkVars, msgVars, R!vars
<1>OnConnectTimeout. CASE OnConnectTimeout
  BY <1>OnConnectTimeout, <1>same DEF OnConnectTimeout, linkVars, msgVars, R!vars
<1>Flush. ASSUME NEW failed \in SUBSET Messages, Flush(failed) PROVE [R!Next]_(R!vars)
  <2>1. UNCHANGED <<owed, up, route, writeErrors>> /\ Settle(failed)
    BY <1>Flush DEF Flush, linkVars
  <2>2. owed > 0
    BY <1>Flush DEF Flush, OwedInv, OpenInv
  <2>3. ASSUME NEW m \in failed PROVE m \in SentSet \ Lost /\ settled[m] = 0
    BY <1>Flush, PendingType DEF Flush, MsgInv, Waiting, SentSet, TornInv
  <2> QED
    BY <2>1, <2>2, <2>3, ReportStep
<1>RecvResponse. ASSUME NEW r \in Requests, RecvResponse(r) PROVE [R!Next]_(R!vars)
  <2>1. UNCHANGED <<owed, up, route, writeErrors>> /\ Settle({r} \cap request_timers)
    BY <1>RecvResponse DEF RecvResponse, linkVars, orderVars
  <2>2. request_timers # {} => owed > 0
    BY DEF TimersInv
  <2>3. ASSUME NEW m \in {r} \cap request_timers PROVE m \in SentSet \ Lost /\ settled[m] = 0
    BY DEF MsgInv, Timed, Fresh, SentSet, TornInv
  <2> QED
    BY <2>1, <2>2, <2>3, ReportStep
<1>OnReadReturns. CASE OnReadReturns
  BY <1>OnReadReturns, <1>same DEF OnReadReturns, linkVars, msgVars, R!vars
<1>OnReadErrorDisconnect. CASE OnReadErrorDisconnect
  BY <1>OnReadErrorDisconnect, <1>same DEF OnReadErrorDisconnect, linkVars, msgVars,
     R!vars
<1>OnErrorHeldReturns. CASE OnErrorHeldReturns
  BY <1>OnErrorHeldReturns, <1>same DEF OnErrorHeldReturns, linkVars, msgVars, R!vars
<1>Release. CASE Release
  BY <1>Release, <1>same DEF Release, linkVars, msgVars, R!vars
<1>Retry. CASE Retry
  BY <1>Retry, <1>same DEF Retry, linkVars, msgVars, R!vars
<1>RetryFails. CASE RetryFails
  BY <1>RetryFails, <1>same DEF RetryFails, linkVars, msgVars, R!vars
<1>Discard. CASE Discard
  <2>1. UNCHANGED <<owed, up, route, writeErrors>> /\ Settle(PendingSet)
    BY <1>Discard DEF Discard, linkVars, orderVars
  <2>2. owed > 0
    BY <1>Discard DEF Discard, OwedInv, Ending
  <2>3. ASSUME NEW m \in PendingSet PROVE m \in SentSet \ Lost /\ settled[m] = 0
    BY PendingType DEF MsgInv, Waiting, SentSet, TornInv
  <2> QED
    BY <2>1, <2>2, <2>3, PendingType, ReportStep
<1>Cancel. CASE Cancel
  <2>1. UNCHANGED <<owed, up, route, writeErrors>> /\ Settle(request_timers)
    BY <1>Cancel DEF Cancel, linkVars, orderVars
  <2>2. owed > 0
    BY <1>Cancel DEF Cancel, OwedInv, Ending
  <2>3. ASSUME NEW m \in request_timers PROVE m \in SentSet \ Lost /\ settled[m] = 0
    BY DEF MsgInv, Timed, Fresh, SentSet, TornInv
  <2> QED
    BY <2>1, <2>2, <2>3, ReportStep
<1>OnDisconnect. CASE OnDisconnect
  <2>1. UNCHANGED <<route, settled, writeErrors>>
    BY <1>OnDisconnect DEF OnDisconnect, msgVars
  <2>2. CASE ~ReportsDisconnect
    BY <1>OnDisconnect, <2>1, <2>2, <1>same DEF OnDisconnect, R!vars
  <2>3. CASE ReportsDisconnect
    <3>1. owed > 0
      BY <1>OnDisconnect DEF OnDisconnect, OwedInv, Ending
    <3>2. ASSUME owed = 1, NEW r \in (SentSet \cap Requests) \ Lost
          PROVE  settled[r] + writeErrors[r] > 0
      <4>1. state = "DISCONNECTED" /\ sending = "none"
        BY <1>OnDisconnect, <3>2
          DEF OnDisconnect, OwedInv, Ending, LinkInv, EndingInv, MsgInv, Holding
      <4>2. PendingSet = {} /\ request_timers = {}
        BY <1>OnDisconnect, <4>1 DEF OnDisconnect, EmptyInv
      <4>3. r \notin Notifies
        BY MessagesAssumption
      <4>4. settled[r] # 0 \/ writeErrors[r] # 0
        BY <4>1, <4>2, <4>3 DEF MsgInv, NoLostMessage, SentSet
      <4> QED
        BY <4>4
    <3>3. owed' = owed - 1 /\ up' = FALSE
      BY <1>OnDisconnect, <2>3 DEF OnDisconnect
    <3>4. R!OnDisconnect
      BY <2>1, <3>1, <3>2, <3>3, <1>same DEF R!OnDisconnect
    <3> QED
      BY <3>4 DEF R!Next
  <2> QED
    BY <2>2, <2>3
<1>OnCloseReturns. CASE OnCloseReturns
  BY <1>OnCloseReturns, <1>same DEF OnCloseReturns, linkVars, msgVars, R!vars
<1>OnConnectError. ASSUME NEW error \in Errors, NEW challenge \in BOOLEAN,
                         OnConnectError(error, challenge)
                  PROVE [R!Next]_(R!vars)
  BY <1>OnConnectError, <1>same DEF OnConnectError, linkVars, msgVars, R!vars
<1>OnConnectOk. CASE OnConnectOk
  <2>1. owed > 0 /\ ~up
    BY <1>OnConnectOk DEF OnConnectOk, AttemptOpen, OwedInv, LinkInv, UpInv, Ending
  <2>2. R!OnConnect
    BY <1>OnConnectOk, <2>1, <1>same DEF OnConnectOk, msgVars, R!OnConnect
  <2> QED
    BY <2>2 DEF R!Next
<1>OnHandshakeFailed. CASE OnHandshakeFailed
  BY <1>OnHandshakeFailed, <1>same DEF OnHandshakeFailed, linkVars, msgVars, R!vars
<1>OnHandshakeComplete. CASE OnHandshakeComplete
  BY <1>OnHandshakeComplete, <1>same DEF OnHandshakeComplete, linkVars, msgVars, R!vars
<1>Written. ASSUME NEW m \in Messages, Written(m) PROVE [R!Next]_(R!vars)
  BY <1>Written, <1>same DEF Written, linkVars, orderVars, R!vars
<1>OnReadData. ASSUME NEW responses \in SUBSET Requests, OnReadData(responses) PROVE [R!Next]_(R!vars)
  BY <1>OnReadData, <1>same DEF OnReadData, linkVars, msgVars, R!vars
<1>OnReadInvalid. CASE OnReadInvalid
  BY <1>OnReadInvalid, <1>same DEF OnReadInvalid, linkVars, msgVars, R!vars
<1>OnReadError. CASE OnReadError
  BY <1>OnReadError, <1>same DEF OnReadError, linkVars, msgVars, R!vars
<1>OnConnectCancelled. CASE OnConnectCancelled
  BY <1>OnConnectCancelled, <1>same DEF OnConnectCancelled, linkVars, msgVars, R!vars
<1>ConnectTimerExpires. CASE ConnectTimerExpires
  BY <1>ConnectTimerExpires, <1>same DEF ConnectTimerExpires, linkVars, msgVars, R!vars
<1>OnWriteOk. ASSUME NEW m \in Messages, OnWriteOk(m) PROVE [R!Next]_(R!vars)
  BY <1>OnWriteOk, <1>same DEF OnWriteOk, linkVars, orderVars, R!vars
<1>OnWriteError. ASSUME NEW m \in Messages, OnWriteError(m) PROVE [R!Next]_(R!vars)
  <2>1. m \in SentSet \ Lost /\ writeErrors[m] = 0 /\ owed > 0
    BY <1>OnWriteError
      DEF OnWriteError, MsgInv, Fresh, SentSet, TornInv, FailedInv, FlightInv, OwedInv
  <2>2. /\ writeErrors' = [writeErrors EXCEPT ![m] = 1]
        /\ UNCHANGED <<owed, up, route, settled>>
    BY <1>OnWriteError, <2>1 DEF OnWriteError, linkVars, orderVars
  <2>3. R!Fail(m)
    BY <2>1, <2>2, <1>same DEF R!Fail
  <2> QED
    BY <2>3 DEF R!Next, R!Messages
<1>OnRequestTimeout. ASSUME NEW r \in Requests, OnRequestTimeout(r) PROVE [R!Next]_(R!vars)
  <2>1. UNCHANGED <<owed, up, route, writeErrors>> /\ Settle({r})
    BY <1>OnRequestTimeout DEF OnRequestTimeout, linkVars, orderVars
  <2>2. owed > 0 \/ writeErrors[r] = 1
    BY <1>OnRequestTimeout DEF OnRequestTimeout, RunInv, TimersInv
  <2>3. r \in SentSet \ Lost /\ settled[r] = 0
    BY <1>OnRequestTimeout DEF OnRequestTimeout, MsgInv, Timed, Fresh, SentSet, TornInv
  <2> QED
    BY <2>1, <2>2, <2>3, ReportStep
<1>OnClose. CASE OnClose
  BY <1>OnClose, <1>same DEF OnClose, linkVars, msgVars, R!vars
<1>stutter. CASE UNCHANGED vars
  BY <1>stutter, <1>same DEF vars, ghostVars, R!vars
<1> QED
  BY <1>Connect, <1>ConnectFails, <1>Disconnect, <1>SendPending, <1>SendTorn,
     <1>SendDirect, <1>PushTimer, <1>StartTimer, <1>OnAcceptReturns, <1>CloseFailed,
     <1>OnConnectReturns, <1>OnConnectTimeout, <1>Flush, <1>RecvResponse,
     <1>OnReadReturns, <1>OnReadErrorDisconnect, <1>OnErrorHeldReturns, <1>Release,
     <1>Retry, <1>RetryFails, <1>Discard, <1>Cancel, <1>OnDisconnect, <1>OnCloseReturns,
     <1>OnConnectError, <1>OnConnectOk, <1>OnHandshakeFailed, <1>OnHandshakeComplete,
     <1>Written, <1>OnReadData, <1>OnReadInvalid, <1>OnReadError, <1>OnConnectCancelled,
     <1>ConnectTimerExpires, <1>OnWriteOk, <1>OnWriteError, <1>OnRequestTimeout,
     <1>OnClose, <1>stutter
     DEF Next, AppNext, SendNext, LoopReturns, PeerNext, TvNext

\* LinearSocket implements Rpc, for every set of messages, every kind of socket and every
\* application: however Send(), Connect(), Disconnect(), timers, writes and closes
\* interleave, the handler sees only what the contract allows.
THEOREM SocketImplementsRpc == Spec => ImplementsRpc
<1>1. Init => R!Init
  BY DEF Init, ClientInit, ServerInit, R!Init, SentSet, R!Messages, Messages
<1>2. DataInv /\ LinkInv /\ MsgInv /\ RpcInv /\ [Next]_vars => [R!Next]_(R!vars)
  BY RpcSimulation
<1> QED
  BY RpcInvariant, <1>1, <1>2, PTL DEF Spec, ImplementsRpc, R!Spec
============================================================================

------------------------- MODULE SocketMessageProofs -------------------------
(***************************************************************************)
(* The life of a message: no accepted message is lost, none is settled     *)
(* twice, none is left behind by OnDisconnect.  MsgInv is the inductive    *)
(* invariant.  It needs LinkInv at one point: OnDisconnect cancels the     *)
(* request timers while no Send() is putting one there.                    *)
(***************************************************************************)
EXTENDS SocketLinkProofs

\* A Send() that holds state_mutex_ keeps the socket CONNECTED.
Holding == sending # "none" => state = "CONNECTED"

\* Nothing is known of a message that was not sent.
Fresh ==
    \A m \in Messages : route[m] = "none" =>
        /\ m \notin PendingSet /\ m \notin request_timers /\ m \notin running
        /\ m \notin readBuffer /\ writes[m] = "none" /\ settled[m] = 0
        /\ m = current => sending = "none"

\* A pending message is only pending.
Waiting ==
    \A m \in PendingSet :
        /\ route[m] # "none" /\ settled[m] = 0 /\ writes[m] = "none"
        /\ m \notin request_timers /\ m \notin running /\ m \notin readBuffer
        /\ m = current => sending = "none"

\* A request with a timer, in request_timers_ or running, is not settled.
Timed == \A r \in request_timers \cup running : settled[r] = 0

\* Neither is the request of a Send() that is just going to start its timer.
Starting ==
    sending # "none" =>
        /\ settled[current] = 0 /\ current \notin readBuffer /\ current \notin running
        /\ sending = "push" => current \notin request_timers

MsgInv == /\ Holding /\ Fresh /\ Waiting /\ Timed /\ Starting
          /\ AtMostOneSettlement /\ NoLostMessage

----------------------------------------------------------------------------

\* push_back adds one message to the pending ones.
LEMMA PendingAppend ==
  ASSUME pending_messages \in Seq(Messages), NEW m \in Messages,
         pending_messages' = Append(pending_messages, m)
  PROVE  PendingSet' = PendingSet \cup {m}
<1>1. /\ Len(pending_messages') = Len(pending_messages) + 1
      /\ \A i \in 1..Len(pending_messages) : pending_messages'[i] = pending_messages[i]
      /\ pending_messages'[Len(pending_messages) + 1] = m
  OBVIOUS
<1>2. ASSUME NEW x \in PendingSet' PROVE x \in PendingSet \cup {m}
  BY <1>1, <1>2 DEF PendingSet
<1>3. ASSUME NEW x \in PendingSet \cup {m} PROVE x \in PendingSet'
  BY <1>1, <1>3 DEF PendingSet
<1> QED
  BY <1>2, <1>3

\* The swap with an empty vector leaves none.
LEMMA PendingEmpty == ASSUME pending_messages' = <<>> PROVE PendingSet' = {}
BY DEF PendingSet

LEMMA PendingKept == ASSUME UNCHANGED pending_messages PROVE PendingSet' = PendingSet
BY DEF PendingSet

\* The pending messages are messages.
LEMMA PendingType == ASSUME DataInv PROVE PendingSet \subseteq Messages
BY DEF PendingSet, DataInv, MessageInv, MessageTypes

\* A step on the connection alone keeps MsgInv if no Send() is under way or the state stays.
LEMMA LinkOnlyStep ==
  ASSUME MsgInv, UNCHANGED msgVars, readBuffer' \subseteq readBuffer,
         sending = "none" \/ state' = state
  PROVE  MsgInv'
<1>1. UNCHANGED PendingSet
  BY PendingKept DEF msgVars
<1> QED
  BY <1>1 DEF MsgInv, Holding, Fresh, Waiting, Timed, Starting, AtMostOneSettlement,
     NoLostMessage, SentSet, msgVars

\* MsgInv is inductive.
LEMMA MsgStep == DataInv /\ LinkInv /\ MsgInv /\ [Next]_vars => MsgInv'
<1> SUFFICES ASSUME DataInv, LinkInv, MsgInv, [Next]_vars PROVE MsgInv'
  OBVIOUS
<1> USE DEF DataInv, MessageInv, MessageTypes, MsgInv, Messages

<1>Connect. ASSUME NEW timed \in Timeouts, Connect(timed) PROVE MsgInv'
  BY <1>Connect, LinkOnlyStep
    DEF Connect, MayConnect, ConnectBody, StartConnectTimer, linkVars, StateMutexFree
<1>ConnectFails. CASE ConnectFails
  BY <1>ConnectFails, LinkOnlyStep
    DEF ConnectFails, MayConnect, ConnectFailsBody, linkVars, StateMutexFree
<1>Disconnect. CASE Disconnect
  BY <1>Disconnect, LinkOnlyStep
    DEF Disconnect, DisconnectBody, DisconnectError, TvClose, linkVars, StateMutexFree
<1>SendPending. ASSUME NEW m \in Messages, SendPending(m) PROVE MsgInv'
  <2>1. PendingSet' = PendingSet \cup {m}
    BY <1>SendPending, PendingAppend
      DEF SendPending, DataInv, MessageInv, MessageTypes
  <2>2. Holding'
    BY <1>SendPending, <2>1 DEF SendPending, StateMutexFree, linkVars, Holding
  <2>3. Fresh'
    BY <1>SendPending, <2>1 DEF SendPending, StateMutexFree, SentSet, Fresh
  <2>4. Waiting'
    BY <1>SendPending, <2>1 DEF SendPending, StateMutexFree, SentSet, Waiting, Fresh
  <2>5. Timed'
    BY <1>SendPending, <2>1 DEF SendPending, SentSet, Timed
  <2>6. Starting'
    BY <1>SendPending, <2>1 DEF SendPending, StateMutexFree, SentSet, Starting
  <2>7. AtMostOneSettlement'
    BY <1>SendPending, <2>1 DEF SendPending, SentSet, AtMostOneSettlement
  <2>8. NoLostMessage'
    BY <1>SendPending, <2>1 DEF SendPending, SentSet, NoLostMessage
  <2> QED
    BY <2>2, <2>3, <2>4, <2>5, <2>6, <2>7, <2>8 DEF MsgInv
<1>SendTorn. ASSUME NEW m \in Messages, SendTorn(m) PROVE MsgInv'
  <2>1. UNCHANGED PendingSet
    BY <1>SendTorn, PendingKept DEF SendTorn
  <2>2. Holding'
    BY <1>SendTorn, <2>1 DEF SendTorn, StateMutexFree, linkVars, Holding
  <2>3. Fresh'
    BY <1>SendTorn, <2>1 DEF SendTorn, StateMutexFree, SentSet, Fresh
  <2>4. Waiting'
    BY <1>SendTorn, <2>1 DEF SendTorn, StateMutexFree, SentSet, Waiting, Fresh
  <2>5. Timed'
    BY <1>SendTorn, <2>1 DEF SendTorn, SentSet, Timed
  <2>6. Starting'
    BY <1>SendTorn, <2>1 DEF SendTorn, StateMutexFree, SentSet, Starting
  <2>7. AtMostOneSettlement'
    BY <1>SendTorn, <2>1 DEF SendTorn, SentSet, AtMostOneSettlement
  <2>8. NoLostMessage'
    BY <1>SendTorn, <2>1 DEF SendTorn, SentSet, NoLostMessage
  <2> QED
    BY <2>2, <2>3, <2>4, <2>5, <2>6, <2>7, <2>8 DEF MsgInv
<1>SendDirect. ASSUME NEW m \in Messages, SendDirect(m) PROVE MsgInv'
  <2>1. UNCHANGED PendingSet
    BY <1>SendDirect, PendingKept DEF SendDirect
  <2>2. Holding'
    BY <1>SendDirect, <2>1 DEF SendDirect, StateMutexFree, linkVars, Holding
  <2>3. Fresh'
    BY <1>SendDirect, <2>1 DEF SendDirect, StateMutexFree, SentSet, Fresh
  <2>4. Waiting'
    BY <1>SendDirect, <2>1 DEF SendDirect, StateMutexFree, SentSet, Waiting
  <2>5. Timed'
    BY <1>SendDirect, <2>1 DEF SendDirect, SentSet, Timed
  <2>6. Starting'
    BY <1>SendDirect, <2>1 DEF SendDirect, StateMutexFree, SentSet, Starting, Fresh
  <2>7. AtMostOneSettlement'
    BY <1>SendDirect, <2>1 DEF SendDirect, SentSet, AtMostOneSettlement
  <2>8. NoLostMessage'
    BY <1>SendDirect, <2>1 DEF SendDirect, StateMutexFree, SentSet, NoLostMessage
  <2> QED
    BY <2>2, <2>3, <2>4, <2>5, <2>6, <2>7, <2>8 DEF MsgInv
<1>PushTimer. CASE PushTimer
  <2>1. UNCHANGED PendingSet
    BY <1>PushTimer, PendingKept DEF PushTimer
  <2>2. Holding'
    BY <1>PushTimer, <2>1 DEF PushTimer, linkVars, Holding
  <2>3. Fresh'
    BY <1>PushTimer, <2>1 DEF PushTimer, orderVars, Fresh
  <2>4. Waiting'
    BY <1>PushTimer, <2>1 DEF PushTimer, orderVars, Waiting
  <2>5. Timed'
    BY <1>PushTimer, <2>1 DEF PushTimer, Timed, Starting
  <2>6. Starting'
    BY <1>PushTimer, <2>1 DEF PushTimer, orderVars, Starting
  <2>7. AtMostOneSettlement'
    BY <1>PushTimer, <2>1 DEF PushTimer, AtMostOneSettlement
  <2>8. NoLostMessage'
    BY <1>PushTimer, <2>1 DEF PushTimer, orderVars, SentSet, NoLostMessage
  <2> QED
    BY <2>2, <2>3, <2>4, <2>5, <2>6, <2>7, <2>8 DEF MsgInv
<1>StartTimer. CASE StartTimer
  <2>1. UNCHANGED PendingSet
    BY <1>StartTimer, PendingKept DEF StartTimer
  <2>2. Holding'
    BY <1>StartTimer, <2>1 DEF StartTimer, linkVars, Holding
  <2>3. Fresh'
    BY <1>StartTimer, <2>1 DEF StartTimer, orderVars, Fresh
  <2>4. Waiting'
    BY <1>StartTimer, <2>1 DEF StartTimer, orderVars, Waiting
  <2>5. Timed'
    BY <1>StartTimer, <2>1 DEF StartTimer, Timed, Starting
  <2>6. Starting'
    BY <1>StartTimer, <2>1 DEF StartTimer, orderVars, Starting
  <2>7. AtMostOneSettlement'
    BY <1>StartTimer, <2>1 DEF StartTimer, AtMostOneSettlement
  <2>8. NoLostMessage'
    BY <1>StartTimer, <2>1 DEF StartTimer, orderVars, SentSet, NoLostMessage
  <2> QED
    BY <2>2, <2>3, <2>4, <2>5, <2>6, <2>7, <2>8 DEF MsgInv
<1>OnAcceptReturns. CASE OnAcceptReturns
  BY <1>OnAcceptReturns, LinkOnlyStep DEF OnAcceptReturns, linkVars, StateMutexFree
<1>CloseFailed. CASE CloseFailed
  BY <1>CloseFailed, LinkOnlyStep DEF CloseFailed, TvClose, linkVars, StateMutexFree
<1>OnConnectReturns. CASE OnConnectReturns
  BY <1>OnConnectReturns, LinkOnlyStep
    DEF OnConnectReturns, StateAfterOnConnect, linkVars, StateMutexFree
<1>OnConnectTimeout. CASE OnConnectTimeout
  BY <1>OnConnectTimeout, LinkOnlyStep
    DEF OnConnectTimeout, FailAttempt, AttemptOpen, StopTimerOnLoop, NextNc, linkVars,
        StateMutexFree
<1>Flush. ASSUME NEW failed \in SUBSET Messages, Flush(failed) PROVE MsgInv'
  <2>1. PendingSet' = {}
    BY <1>Flush, PendingEmpty DEF Flush
  <2>2. Holding'
    BY <1>Flush, <2>1, PendingType DEF Flush, StateMutexFree, linkVars, Holding
  <2>3. Fresh'
    BY <1>Flush, <2>1, PendingType DEF Flush, Settle, StateMutexFree, Fresh
  <2>4. Waiting'
    BY <1>Flush, <2>1, PendingType DEF Flush, Settle, StateMutexFree, Waiting
  <2>5. Timed'
    BY <1>Flush, <2>1, PendingType DEF Flush, Settle, Timed, Waiting
  <2>6. Starting'
    BY <1>Flush, <2>1, PendingType DEF Flush, Settle, StateMutexFree, Starting
  <2>7. AtMostOneSettlement'
    BY <1>Flush, <2>1, PendingType DEF Flush, Settle, AtMostOneSettlement, Waiting
  <2>8. NoLostMessage'
    <3>1. SentSet' = SentSet /\ UNCHANGED <<route, sending, current, writeErrors>>
      BY <1>Flush DEF Flush, SentSet
    <3>2. ASSUME NEW m \in Messages \ PendingSet, settled'[m] = 0
          PROVE  /\ settled[m] = 0 /\ writes'[m] = writes[m]
                 /\ m \in request_timers => m \in request_timers'
      BY <1>Flush, <3>2 DEF Flush, Settle
    <3>3. ASSUME NEW m \in PendingSet, settled'[m] = 0
          PROVE  writes'[m] # "none" /\ (m \in Requests => m \in request_timers')
      BY <1>Flush, <3>3, PendingType DEF Flush, Settle
    <3> QED
      BY <3>1, <3>2, <3>3 DEF NoLostMessage, SentSet
  <2> QED
    BY <2>2, <2>3, <2>4, <2>5, <2>6, <2>7, <2>8 DEF MsgInv
<1>RecvResponse. ASSUME NEW r \in Requests, RecvResponse(r) PROVE MsgInv'
  <2>1. UNCHANGED PendingSet
    BY <1>RecvResponse, PendingKept DEF RecvResponse
  <2>2. Holding'
    BY <1>RecvResponse, <2>1 DEF RecvResponse, linkVars, Holding
  <2>3. Fresh'
    BY <1>RecvResponse, <2>1 DEF RecvResponse, EraseTimers, Settle, orderVars, Fresh
  <2>4. Waiting'
    BY <1>RecvResponse, <2>1, PendingType
      DEF RecvResponse, EraseTimers, Settle, orderVars, Waiting
  <2>5. Timed'
    BY <1>RecvResponse, <2>1 DEF RecvResponse, EraseTimers, Settle, Timed
  <2>6. Starting'
    BY <1>RecvResponse, <2>1 DEF RecvResponse, EraseTimers, Settle, orderVars, Starting
  <2>7. AtMostOneSettlement'
    BY <1>RecvResponse, <2>1 DEF RecvResponse, Settle, AtMostOneSettlement, Timed
  <2>8. NoLostMessage'
    <3> SUFFICES ASSUME NEW m \in SentSet', route'[m] # "torn",
                        settled'[m] = 0, writeErrors'[m] = 0
                 PROVE  \/ m \in PendingSet'
                        \/ m \in Notifies /\ writes'[m] # "none"
                        \/ m \in request_timers'
                        \/ sending' = "push" /\ m = current'
      BY DEF NoLostMessage
    <3>1. m \in SentSet /\ route[m] # "torn" /\ writeErrors[m] = 0
          /\ UNCHANGED <<writes, sending, current>>
      BY <1>RecvResponse DEF RecvResponse, SentSet, orderVars
    <3>2. CASE m \in request_timers
      <4>1. m # r
        BY <1>RecvResponse, <3>2 DEF RecvResponse, Settle
      <4> QED
        BY <1>RecvResponse, <3>2, <4>1 DEF RecvResponse, EraseTimers
    <3>3. CASE m \notin request_timers
      <4>1. settled[m] = 0
        BY <1>RecvResponse, <3>1, <3>3 DEF RecvResponse, Settle, SentSet
      <4> QED
        BY <2>1, <3>1, <3>3, <4>1 DEF NoLostMessage
    <3> QED
      BY <3>2, <3>3
  <2> QED
    BY <2>2, <2>3, <2>4, <2>5, <2>6, <2>7, <2>8 DEF MsgInv
<1>OnReadReturns. CASE OnReadReturns
  BY <1>OnReadReturns, LinkOnlyStep DEF OnReadReturns, linkVars, StateMutexFree
<1>OnReadErrorDisconnect. CASE OnReadErrorDisconnect
  BY <1>OnReadErrorDisconnect, LinkOnlyStep
    DEF OnReadErrorDisconnect, DisconnectBody, TvClose, linkVars, StateMutexFree
<1>OnErrorHeldReturns. CASE OnErrorHeldReturns
  BY <1>OnErrorHeldReturns, LinkOnlyStep
    DEF OnErrorHeldReturns, DisconnectBody, DisconnectError, TvClose, linkVars,
        StateMutexFree
<1>Release. CASE Release
  BY <1>Release, LinkOnlyStep DEF Release, AfterRelease, linkVars, StateMutexFree
<1>Retry. CASE Retry
  BY <1>Retry, LinkOnlyStep DEF Retry, MayConnect, ConnectBody, StartConnectTimer, linkVars, StateMutexFree
<1>RetryFails. CASE RetryFails
  BY <1>RetryFails, LinkOnlyStep
    DEF RetryFails, ConnectFailsBody, linkVars, StateMutexFree
<1>Discard. CASE Discard
  <2>1. PendingSet' = {}
    BY <1>Discard, PendingEmpty DEF Discard
  <2>2. Holding'
    BY <1>Discard, <2>1, PendingType DEF Discard, linkVars, Holding
  <2>3. Fresh'
    BY <1>Discard, <2>1, PendingType DEF Discard, Settle, orderVars, Fresh
  <2>4. Waiting'
    BY <1>Discard, <2>1, PendingType DEF Discard, Settle, orderVars, Waiting
  <2>5. Timed'
    BY <1>Discard, <2>1, PendingType DEF Discard, Settle, Timed, Waiting
  <2>6. Starting'
    BY <1>Discard, <2>1, PendingType
      DEF Discard, Settle, orderVars, LinkInv, EndingInv, Ending, Starting, Waiting
  <2>7. AtMostOneSettlement'
    BY <1>Discard, <2>1, PendingType DEF Discard, Settle, AtMostOneSettlement, Waiting
  <2>8. NoLostMessage'
    BY <1>Discard, <2>1, PendingType
      DEF Discard, Settle, orderVars, SentSet, NoLostMessage, Waiting
  <2> QED
    BY <2>2, <2>3, <2>4, <2>5, <2>6, <2>7, <2>8 DEF MsgInv
<1>Cancel. CASE Cancel
  <2>1. UNCHANGED PendingSet
    BY <1>Cancel, PendingKept DEF Cancel
  <2>2. Holding'
    BY <1>Cancel, <2>1 DEF Cancel, linkVars, Holding
  <2>3. Fresh'
    BY <1>Cancel, <2>1 DEF Cancel, Settle, EraseTimers, orderVars, Fresh
  <2>4. Waiting'
    BY <1>Cancel, <2>1, PendingType DEF Cancel, Settle, EraseTimers, orderVars, Waiting
  <2>5. Timed'
    BY <1>Cancel, <2>1 DEF Cancel, Settle, EraseTimers, Timed
  <2>6. Starting'
    BY <1>Cancel, <2>1
      DEF Cancel, Settle, EraseTimers, orderVars, LinkInv, EndingInv, Ending, Starting, Holding
  <2>7. AtMostOneSettlement'
    BY <1>Cancel, <2>1 DEF Cancel, Settle, AtMostOneSettlement, Timed
  <2>8. NoLostMessage'
    BY <1>Cancel, <2>1
      DEF Cancel, Settle, EraseTimers, orderVars, SentSet, NoLostMessage
  <2> QED
    BY <2>2, <2>3, <2>4, <2>5, <2>6, <2>7, <2>8 DEF MsgInv
<1>OnDisconnect. CASE OnDisconnect
  BY <1>OnDisconnect, LinkOnlyStep DEF OnDisconnect, linkVars, StateMutexFree
<1>OnCloseReturns. CASE OnCloseReturns
  BY <1>OnCloseReturns, LinkOnlyStep DEF OnCloseReturns, linkVars, StateMutexFree
<1>OnConnectError. ASSUME NEW error \in Errors, NEW challenge \in BOOLEAN,
                         OnConnectError(error, challenge)
                  PROVE MsgInv'
  BY <1>OnConnectError, LinkOnlyStep
    DEF OnConnectError, FailAttempt, AttemptOpen, StopTimerOnLoop, NextNc, linkVars,
        StateMutexFree
<1>OnConnectOk. CASE OnConnectOk
  BY <1>OnConnectOk, LinkOnlyStep
    DEF OnConnectOk, AttemptOpen, StopTimerOnLoop, NextNc, linkVars, StateMutexFree
<1>OnHandshakeFailed. CASE OnHandshakeFailed
  BY <1>OnHandshakeFailed, LinkOnlyStep
    DEF OnHandshakeFailed, DisconnectBody, DisconnectError, TvClose, linkVars,
        StateMutexFree
<1>OnHandshakeComplete. CASE OnHandshakeComplete
  BY <1>OnHandshakeComplete, LinkOnlyStep
    DEF OnHandshakeComplete, linkVars, StateMutexFree
<1>Written. ASSUME NEW m \in Messages, Written(m) PROVE MsgInv'
  <2>1. UNCHANGED PendingSet
    BY <1>Written, PendingKept DEF Written
  <2>2. Holding'
    BY <1>Written, <2>1 DEF Written, linkVars, Holding
  <2>3. Fresh'
    BY <1>Written, <2>1 DEF Written, orderVars, Fresh
  <2>4. Waiting'
    BY <1>Written, <2>1 DEF Written, orderVars, Waiting
  <2>5. Timed'
    BY <1>Written, <2>1 DEF Written, Timed
  <2>6. Starting'
    BY <1>Written, <2>1 DEF Written, orderVars, Starting
  <2>7. AtMostOneSettlement'
    BY <1>Written, <2>1 DEF Written, AtMostOneSettlement
  <2>8. NoLostMessage'
    BY <1>Written, <2>1 DEF Written, orderVars, SentSet, NoLostMessage
  <2> QED
    BY <2>2, <2>3, <2>4, <2>5, <2>6, <2>7, <2>8 DEF MsgInv
<1>OnReadData. ASSUME NEW responses \in SUBSET Requests, OnReadData(responses)
              PROVE MsgInv'
  <2>1. UNCHANGED PendingSet
    BY <1>OnReadData, PendingKept DEF OnReadData, msgVars
  <2>2. Holding'
    BY <1>OnReadData, <2>1 DEF OnReadData, StateMutexFree, linkVars, msgVars, Holding
  <2>3. Fresh'
    BY <1>OnReadData, <2>1 DEF OnReadData, StateMutexFree, msgVars, Fresh
  <2>4. Waiting'
    BY <1>OnReadData, <2>1 DEF OnReadData, StateMutexFree, msgVars, Waiting
  <2>5. Timed'
    BY <1>OnReadData, <2>1 DEF OnReadData, msgVars, Timed
  <2>6. Starting'
    BY <1>OnReadData, <2>1 DEF OnReadData, StateMutexFree, Readable, msgVars, Starting
  <2>7. AtMostOneSettlement'
    BY <1>OnReadData, <2>1 DEF OnReadData, msgVars, AtMostOneSettlement
  <2>8. NoLostMessage'
    BY <1>OnReadData, <2>1 DEF OnReadData, SentSet, msgVars, NoLostMessage
  <2> QED
    BY <2>2, <2>3, <2>4, <2>5, <2>6, <2>7, <2>8 DEF MsgInv
<1>OnReadInvalid. CASE OnReadInvalid
  BY <1>OnReadInvalid, LinkOnlyStep
    DEF OnReadInvalid, DisconnectBody, DisconnectError, TvClose, linkVars,
        StateMutexFree
<1>OnReadError. CASE OnReadError
  BY <1>OnReadError, LinkOnlyStep DEF OnReadError, linkVars, StateMutexFree, Readable
<1>OnConnectCancelled. CASE OnConnectCancelled
  BY <1>OnConnectCancelled, LinkOnlyStep
    DEF OnConnectCancelled, AttemptOpen, StopTimerOnLoop, NextNc, linkVars,
        StateMutexFree
<1>ConnectTimerExpires. CASE ConnectTimerExpires
  BY <1>ConnectTimerExpires, LinkOnlyStep
    DEF ConnectTimerExpires, StopTimerOnLoop, linkVars, StateMutexFree
<1>OnWriteOk. ASSUME NEW m \in Messages, OnWriteOk(m) PROVE MsgInv'
  <2>1. UNCHANGED PendingSet
    BY <1>OnWriteOk, PendingKept DEF OnWriteOk
  <2>2. Holding'
    BY <1>OnWriteOk, <2>1 DEF OnWriteOk, linkVars, Holding
  <2>3. Fresh'
    BY <1>OnWriteOk, <2>1 DEF OnWriteOk, orderVars, Fresh
  <2>4. Waiting'
    BY <1>OnWriteOk, <2>1 DEF OnWriteOk, orderVars, Waiting
  <2>5. Timed'
    BY <1>OnWriteOk, <2>1 DEF OnWriteOk, Timed
  <2>6. Starting'
    BY <1>OnWriteOk, <2>1 DEF OnWriteOk, orderVars, Starting
  <2>7. AtMostOneSettlement'
    BY <1>OnWriteOk, <2>1 DEF OnWriteOk, AtMostOneSettlement
  <2>8. NoLostMessage'
    BY <1>OnWriteOk, <2>1 DEF OnWriteOk, orderVars, SentSet, NoLostMessage
  <2> QED
    BY <2>2, <2>3, <2>4, <2>5, <2>6, <2>7, <2>8 DEF MsgInv
<1>OnWriteError. ASSUME NEW m \in Messages, OnWriteError(m) PROVE MsgInv'
  <2>1. UNCHANGED PendingSet
    BY <1>OnWriteError, PendingKept DEF OnWriteError
  <2>2. Holding'
    BY <1>OnWriteError, <2>1 DEF OnWriteError, linkVars, Holding
  <2>3. Fresh'
    BY <1>OnWriteError, <2>1 DEF OnWriteError, EraseTimers, orderVars, Fresh
  <2>4. Waiting'
    BY <1>OnWriteError, <2>1 DEF OnWriteError, EraseTimers, orderVars, Waiting
  <2>5. Timed'
    BY <1>OnWriteError, <2>1 DEF OnWriteError, EraseTimers, Timed
  <2>6. Starting'
    BY <1>OnWriteError, <2>1 DEF OnWriteError, EraseTimers, orderVars, Starting
  <2>7. AtMostOneSettlement'
    BY <1>OnWriteError, <2>1 DEF OnWriteError, AtMostOneSettlement
  <2>8. NoLostMessage'
    BY <1>OnWriteError, <2>1
      DEF OnWriteError, EraseTimers, orderVars, SentSet, NoLostMessage
  <2> QED
    BY <2>2, <2>3, <2>4, <2>5, <2>6, <2>7, <2>8 DEF MsgInv
<1>OnRequestTimeout. ASSUME NEW r \in Requests, OnRequestTimeout(r) PROVE MsgInv'
  <2>1. UNCHANGED PendingSet
    BY <1>OnRequestTimeout, PendingKept DEF OnRequestTimeout
  <2>2. Holding'
    BY <1>OnRequestTimeout, <2>1 DEF OnRequestTimeout, linkVars, Holding
  <2>3. Fresh'
    BY <1>OnRequestTimeout, <2>1 DEF OnRequestTimeout, Settle, orderVars, Fresh
  <2>4. Waiting'
    <3>1. ASSUME NEW m \in PendingSet PROVE m # r /\ settled'[m] = settled[m]
      BY <1>OnRequestTimeout, PendingType DEF OnRequestTimeout, Settle, Waiting
    <3> QED
      BY <1>OnRequestTimeout, <2>1, <3>1 DEF OnRequestTimeout, orderVars, Waiting
  <2>5. Timed'
    BY <1>OnRequestTimeout, <2>1 DEF OnRequestTimeout, Settle, Timed
  <2>6. Starting'
    BY <1>OnRequestTimeout, <2>1 DEF OnRequestTimeout, Settle, orderVars, Starting
  <2>7. AtMostOneSettlement'
    BY <1>OnRequestTimeout, <2>1
      DEF OnRequestTimeout, Settle, AtMostOneSettlement, Timed
  <2>8. NoLostMessage'
    BY <1>OnRequestTimeout, <2>1
      DEF OnRequestTimeout, Settle, orderVars, SentSet, NoLostMessage
  <2> QED
    BY <2>2, <2>3, <2>4, <2>5, <2>6, <2>7, <2>8 DEF MsgInv
<1>OnClose. CASE OnClose
  BY <1>OnClose, LinkOnlyStep DEF OnClose, StopTimerOnLoop, linkVars, StateMutexFree
<1>stutter. CASE UNCHANGED vars
  BY <1>stutter, LinkOnlyStep DEF vars, memberVars, tvVars, threadVars, ghostVars, msgVars
<1> QED
  BY <1>Connect, <1>ConnectFails, <1>Disconnect, <1>SendPending, <1>SendTorn, <1>SendDirect,
     <1>PushTimer, <1>StartTimer, <1>OnAcceptReturns, <1>CloseFailed,
     <1>OnConnectReturns, <1>OnConnectTimeout, <1>Flush, <1>RecvResponse,
     <1>OnReadReturns, <1>OnReadErrorDisconnect, <1>OnErrorHeldReturns, <1>Release,
     <1>Retry, <1>RetryFails, <1>Discard, <1>Cancel, <1>OnDisconnect,
     <1>OnCloseReturns, <1>OnConnectError, <1>OnConnectOk, <1>OnHandshakeFailed,
     <1>OnHandshakeComplete, <1>Written, <1>OnReadData, <1>OnReadInvalid,
     <1>OnReadError, <1>OnConnectCancelled, <1>ConnectTimerExpires, <1>OnWriteOk,
     <1>OnWriteError, <1>OnRequestTimeout, <1>OnClose, <1>stutter
     DEF Next, AppNext, SendNext, LoopReturns, PeerNext, TvNext

\* MsgInv holds of a new socket.
LEMMA MsgInit == Init => MsgInv
<1> SUFFICES ASSUME Init PROVE MsgInv
  OBVIOUS
<1>1. PendingSet = {}
  BY DEF Init, PendingSet
<1> QED
  BY <1>1 DEF Init, MsgInv, Holding, Fresh, Waiting, Timed, Starting, AtMostOneSettlement,
     NoLostMessage, SentSet

----------------------------------------------------------------------------
(* What OnDisconnect leaves behind.                                        *)

\* _DiscardMessages empties pending_messages_ and then request_timers_; nobody fills them
\* again until the next Connect().
LeftInv ==
    kind # "WSClient" /\ state = "DISCONNECTED" =>
        /\ loop \notin {"release", "discard", "cancel"} => request_timers = {}
        /\ loop \notin {"release", "discard"} => pending_messages = <<>>

\* LeftInv is inductive.
LEMMA LeftStep == DataInv /\ LinkInv /\ MsgInv /\ LeftInv /\ [Next]_vars => LeftInv'
<1> SUFFICES ASSUME DataInv, LinkInv, MsgInv, LeftInv, [Next]_vars PROVE LeftInv'
  OBVIOUS
<1> USE DEF LeftInv, linkVars, msgVars
<1>Connect. ASSUME NEW timed \in Timeouts, Connect(timed) PROVE LeftInv'
  BY <1>Connect DEF Connect, MayConnect, ConnectBody, StartConnectTimer
<1>ConnectFails. CASE ConnectFails
  BY <1>ConnectFails DEF ConnectFails, MayConnect, ConnectFailsBody
<1>Disconnect. CASE Disconnect
  BY <1>Disconnect DEF Disconnect, DisconnectBody, DisconnectError, TvClose
<1>SendPending. ASSUME NEW m \in Messages, SendPending(m) PROVE LeftInv'
  BY <1>SendPending DEF SendPending
<1>SendTorn. ASSUME NEW m \in Messages, SendTorn(m) PROVE LeftInv'
  BY <1>SendTorn DEF SendTorn
<1>SendDirect. ASSUME NEW m \in Messages, SendDirect(m) PROVE LeftInv'
  BY <1>SendDirect DEF SendDirect
<1>PushTimer. CASE PushTimer
  BY <1>PushTimer DEF PushTimer, MsgInv, Holding
<1>StartTimer. CASE StartTimer
  BY <1>StartTimer DEF StartTimer
<1>OnAcceptReturns. CASE OnAcceptReturns
  BY <1>OnAcceptReturns DEF OnAcceptReturns
<1>CloseFailed. CASE CloseFailed
  BY <1>CloseFailed DEF CloseFailed, TvClose
<1>OnConnectReturns. CASE OnConnectReturns
  BY <1>OnConnectReturns DEF OnConnectReturns, StateAfterOnConnect
<1>OnConnectTimeout. CASE OnConnectTimeout
  BY <1>OnConnectTimeout
    DEF OnConnectTimeout, FailAttempt, AttemptOpen, StopTimerOnLoop, NextNc
<1>Flush. ASSUME NEW failed \in SUBSET Messages, Flush(failed) PROVE LeftInv'
  BY <1>Flush DEF Flush, Settle
<1>RecvResponse. ASSUME NEW r \in Requests, RecvResponse(r) PROVE LeftInv'
  BY <1>RecvResponse DEF RecvResponse, EraseTimers, Settle
<1>OnReadReturns. CASE OnReadReturns
  BY <1>OnReadReturns DEF OnReadReturns
<1>OnReadErrorDisconnect. CASE OnReadErrorDisconnect
  BY <1>OnReadErrorDisconnect DEF OnReadErrorDisconnect, DisconnectBody, TvClose
<1>OnErrorHeldReturns. CASE OnErrorHeldReturns
  BY <1>OnErrorHeldReturns
    DEF OnErrorHeldReturns, DisconnectBody, DisconnectError, TvClose
<1>Release. CASE Release
  BY <1>Release DEF Release, AfterRelease, CheckRetryAuth
<1>Retry. CASE Retry
  BY <1>Retry DEF Retry, MayConnect, ConnectBody, StartConnectTimer
<1>RetryFails. CASE RetryFails
  BY <1>RetryFails DEF RetryFails, ConnectFailsBody
<1>Discard. CASE Discard
  BY <1>Discard DEF Discard, Settle
<1>Cancel. CASE Cancel
  BY <1>Cancel DEF Cancel, Settle, EraseTimers
<1>OnDisconnect. CASE OnDisconnect
  BY <1>OnDisconnect DEF OnDisconnect
<1>OnCloseReturns. CASE OnCloseReturns
  BY <1>OnCloseReturns DEF OnCloseReturns
<1>OnConnectError. ASSUME NEW error \in Errors, NEW challenge \in BOOLEAN,
                         OnConnectError(error, challenge)
                  PROVE LeftInv'
  BY <1>OnConnectError
    DEF OnConnectError, FailAttempt, AttemptOpen, StopTimerOnLoop, NextNc
<1>OnConnectOk. CASE OnConnectOk
  BY <1>OnConnectOk DEF OnConnectOk, AttemptOpen, StopTimerOnLoop, NextNc
<1>OnHandshakeFailed. CASE OnHandshakeFailed
  BY <1>OnHandshakeFailed
    DEF OnHandshakeFailed, DisconnectBody, DisconnectError, TvClose
<1>OnHandshakeComplete. CASE OnHandshakeComplete
  BY <1>OnHandshakeComplete DEF OnHandshakeComplete
<1>Written. ASSUME NEW m \in Messages, Written(m) PROVE LeftInv'
  BY <1>Written DEF Written
<1>OnReadData. ASSUME NEW responses \in SUBSET Requests, OnReadData(responses)
              PROVE LeftInv'
  BY <1>OnReadData DEF OnReadData, Readable
<1>OnReadInvalid. CASE OnReadInvalid
  BY <1>OnReadInvalid DEF OnReadInvalid, DisconnectBody, DisconnectError, TvClose
<1>OnReadError. CASE OnReadError
  BY <1>OnReadError DEF OnReadError, Readable
<1>OnConnectCancelled. CASE OnConnectCancelled
  BY <1>OnConnectCancelled DEF OnConnectCancelled, AttemptOpen, StopTimerOnLoop, NextNc
<1>ConnectTimerExpires. CASE ConnectTimerExpires
  BY <1>ConnectTimerExpires DEF ConnectTimerExpires, StopTimerOnLoop
<1>OnWriteOk. ASSUME NEW m \in Messages, OnWriteOk(m) PROVE LeftInv'
  BY <1>OnWriteOk DEF OnWriteOk
<1>OnWriteError. ASSUME NEW m \in Messages, OnWriteError(m) PROVE LeftInv'
  BY <1>OnWriteError DEF OnWriteError, EraseTimers
<1>OnRequestTimeout. ASSUME NEW r \in Requests, OnRequestTimeout(r) PROVE LeftInv'
  BY <1>OnRequestTimeout DEF OnRequestTimeout, Settle
<1>OnClose. CASE OnClose
  BY <1>OnClose DEF OnClose, StopTimerOnLoop
<1>stutter. CASE UNCHANGED vars
  BY <1>stutter DEF vars, memberVars, tvVars, threadVars, ghostVars
<1> QED
  BY <1>Connect, <1>ConnectFails, <1>Disconnect, <1>SendPending, <1>SendTorn, <1>SendDirect,
     <1>PushTimer, <1>StartTimer, <1>OnAcceptReturns, <1>CloseFailed,
     <1>OnConnectReturns, <1>OnConnectTimeout, <1>Flush, <1>RecvResponse,
     <1>OnReadReturns, <1>OnReadErrorDisconnect, <1>OnErrorHeldReturns, <1>Release,
     <1>Retry, <1>RetryFails, <1>Discard, <1>Cancel, <1>OnDisconnect,
     <1>OnCloseReturns, <1>OnConnectError, <1>OnConnectOk, <1>OnHandshakeFailed,
     <1>OnHandshakeComplete, <1>Written, <1>OnReadData, <1>OnReadInvalid,
     <1>OnReadError, <1>OnConnectCancelled, <1>ConnectTimerExpires, <1>OnWriteOk,
     <1>OnWriteError, <1>OnRequestTimeout, <1>OnClose, <1>stutter
     DEF Next, AppNext, SendNext, LoopReturns, PeerNext, TvNext

----------------------------------------------------------------------------

\* The invariant of the messages holds in every reachable state.
THEOREM MessageInvariant == Spec => []DataInv /\ []LinkInv /\ []MsgInv /\ []LeftInv
<1>1. Init => MsgInv /\ LeftInv
  BY MsgInit DEF Init, LeftInv
<1>2. DataInv /\ LinkInv /\ MsgInv /\ LeftInv /\ [Next]_vars => (MsgInv /\ LeftInv)'
  BY MsgStep, LeftStep
<1> QED
  BY LinkInvariant, <1>1, <1>2, PTL DEF Spec

\* No message, request or notify, is settled twice: the response, the request timeout, the
\* failure of _SendPendingMessages and the cancellation by _DiscardMessages exclude each
\* other in every interleaving of Send(), OnWrite, OnRead and OnDisconnect.
THEOREM SettledAtMostOnce == Spec => []AtMostOneSettlement
<1>1. MsgInv => AtMostOneSettlement
  BY DEF MsgInv
<1> QED
  BY MessageInvariant, <1>1, PTL

\* No accepted message is lost, however Send(), the flush of OnConnect, OnWrite and
\* OnDisconnect interleave.
THEOREM NothingIsLost == Spec => []NoLostMessage
<1>1. MsgInv => NoLostMessage
  BY DEF MsgInv
<1> QED
  BY MessageInvariant, <1>1, PTL

\* A disconnected socket at rest holds neither messages nor request timers.
THEOREM NothingIsLeft == Spec => []NothingLeftBehind
<1>1. LeftInv => NothingLeftBehind
  BY DEF LeftInv, NothingLeftBehind
<1> QED
  BY MessageInvariant, <1>1, PTL

----------------------------------------------------------------------------
(* The order on the wire.  The times of the Send() and tv_write calls come *)
(* from one clock, so an order of messages is an order of numbers.         *)

\* What the times of a message say about the way it took: none before Send(), a tv_write
\* inside Send() for a direct one, a later one or none for a pending one.
Stamped ==
    \A m \in Messages :
        /\ sentAt[m] <= clock /\ wireAt[m] <= clock
        /\ route[m] \in {"none", "torn"} => wireAt[m] = 0
        /\ route[m] = "direct" => wireAt[m] = sentAt[m]
        /\ m \in PendingSet => route[m] = "pending" /\ wireAt[m] = 0

\* pending_messages_ is in the order of the Send() calls.
Sorted ==
    \A i, j \in 1..Len(pending_messages) :
        i < j => sentAt[pending_messages[i]] < sentAt[pending_messages[j]]

\* What an earlier _SendPendingMessages has written was sent before all that is pending now.
Flushed ==
    \A m \in PendingSet, n \in Messages :
        route[n] = "pending" /\ 0 < wireAt[n] => sentAt[n] < sentAt[m]

OrderInv == Stamped /\ Sorted /\ Flushed /\ OnlyFlushReorders

\* A step that sends, flushes and discards nothing keeps OrderInv.
LEMMA OrderQuiet ==
  ASSUME OrderInv, UNCHANGED <<orderVars, pending_messages>> PROVE OrderInv'
BY PendingKept DEF OrderInv, Stamped, Sorted, Flushed, OnlyFlushReorders, SentSet, orderVars

\* OrderInv is inductive.
LEMMA OrderStep == DataInv /\ OrderInv /\ [Next]_vars => OrderInv'
<1> SUFFICES ASSUME DataInv, OrderInv, [Next]_vars PROVE OrderInv'
  OBVIOUS
<1>types. /\ pending_messages \in Seq(Messages) /\ clock \in Nat
          /\ route \in [Messages -> {"none", "pending", "direct", "torn"}]
          /\ sentAt \in [Messages -> Nat] /\ wireAt \in [Messages -> Nat]
          /\ Stamped /\ Sorted /\ Flushed /\ OnlyFlushReorders
  BY DEF DataInv, MessageInv, MessageTypes, OrderInv
<1>Connect. ASSUME NEW timed \in Timeouts, Connect(timed) PROVE OrderInv'
  BY <1>Connect, OrderQuiet DEF Connect, msgVars, orderVars
<1>ConnectFails. CASE ConnectFails
  BY <1>ConnectFails, OrderQuiet DEF ConnectFails, msgVars, orderVars
<1>Disconnect. CASE Disconnect
  BY <1>Disconnect, OrderQuiet DEF Disconnect, msgVars, orderVars
<1>SendPending. ASSUME NEW m \in Messages, SendPending(m) PROVE OrderInv'
  <2> USE <1>SendPending DEF SendPending, SentSet
  <2>1. PendingSet' = PendingSet \cup {m}
    BY PendingAppend DEF DataInv, MessageInv, MessageTypes
  <2>2. Stamped' /\ Flushed'
    BY <1>types, <2>1 DEF Stamped, Flushed
  <2>3. Sorted'
    <3>1. m \notin PendingSet
      BY <1>types DEF Stamped
    <3>2. ASSUME NEW i \in 1..Len(pending_messages)
          PROVE  pending_messages[i] \in PendingSet
      BY DEF PendingSet
    <3>3. ASSUME NEW i \in 1..Len(pending_messages'), NEW j \in 1..Len(pending_messages'), i < j
          PROVE  sentAt'[pending_messages'[i]] < sentAt'[pending_messages'[j]]
      <4>1. /\ i \in 1..Len(pending_messages)
            /\ pending_messages'[i] = pending_messages[i]
            /\ sentAt'[pending_messages[i]] = sentAt[pending_messages[i]]
        BY <1>types, <3>1, <3>2, <3>3
      <4>2. CASE j \in 1..Len(pending_messages)
        <5>1. /\ pending_messages'[j] = pending_messages[j]
              /\ sentAt'[pending_messages[j]] = sentAt[pending_messages[j]]
          BY <1>types, <3>1, <3>2, <4>2
        <5>2. sentAt[pending_messages[i]] < sentAt[pending_messages[j]]
          BY <1>types, <3>3, <4>1, <4>2 DEF Sorted
        <5> QED
          BY <4>1, <5>1, <5>2
      <4>3. CASE j = Len(pending_messages) + 1
        <5>1. pending_messages'[j] = m /\ sentAt'[m] = clock + 1
          BY <1>types, <4>3
        <5>2. sentAt[pending_messages[i]] <= clock
          BY <1>types, <4>1, <3>2 DEF Stamped
        <5> QED
          BY <1>types, <3>2, <4>1, <5>1, <5>2
      <4> QED
        BY <1>types, <4>2, <4>3
    <3> QED
      BY <3>3 DEF Sorted
  <2>4. OnlyFlushReorders'
    <3>1. wireAt[m] = 0
      BY <1>types DEF Stamped
    <3> QED
      BY <1>types, <3>1 DEF OnlyFlushReorders
  <2> QED
    BY <2>2, <2>3, <2>4 DEF OrderInv
<1>SendTorn. ASSUME NEW m \in Messages, SendTorn(m) PROVE OrderInv'
  <2> USE <1>SendTorn DEF SendTorn, SentSet
  <2>1. UNCHANGED PendingSet
    BY PendingKept
  <2>2. m \notin PendingSet /\ wireAt[m] = 0
    BY <1>types DEF Stamped
  <2>3. Stamped' /\ Flushed'
    BY <1>types, <2>1 DEF Stamped, Flushed
  <2>4. Sorted'
    BY <1>types, <2>2 DEF Sorted, PendingSet
  <2>5. OnlyFlushReorders'
    BY <1>types, <2>2 DEF OnlyFlushReorders
  <2> QED
    BY <2>3, <2>4, <2>5 DEF OrderInv
<1>SendDirect. ASSUME NEW m \in Messages, SendDirect(m) PROVE OrderInv'
  <2> USE <1>SendDirect DEF SendDirect, SentSet
  <2>1. UNCHANGED PendingSet
    BY PendingKept
  <2>2. m \notin PendingSet
    BY <1>types DEF Stamped
  <2>3. Stamped' /\ Flushed'
    BY <1>types, <2>1, <2>2 DEF Stamped, Flushed
  <2>4. Sorted'
    BY <1>types, <2>2 DEF Sorted, PendingSet
  <2>5. OnlyFlushReorders'
    <3> SUFFICES ASSUME NEW a \in SentSet', NEW b \in SentSet',
                        0 < wireAt'[b], wireAt'[b] < wireAt'[a], sentAt'[a] < sentAt'[b]
                 PROVE  route'[a] = "pending" /\ route'[b] = "direct"
      BY DEF OnlyFlushReorders
    <3>1. a # m
      BY <1>types DEF Stamped
    <3>2. b # m
      BY <1>types, <3>1 DEF Stamped
    <3> QED
      BY <1>types, <3>1, <3>2 DEF OnlyFlushReorders
  <2> QED
    BY <2>3, <2>4, <2>5 DEF OrderInv
<1>PushTimer. CASE PushTimer
  BY <1>PushTimer, OrderQuiet DEF PushTimer, msgVars, orderVars
<1>StartTimer. CASE StartTimer
  BY <1>StartTimer, OrderQuiet DEF StartTimer, msgVars, orderVars
<1>OnAcceptReturns. CASE OnAcceptReturns
  BY <1>OnAcceptReturns, OrderQuiet DEF OnAcceptReturns, msgVars, orderVars
<1>CloseFailed. CASE CloseFailed
  BY <1>CloseFailed, OrderQuiet DEF CloseFailed, msgVars, orderVars
<1>OnConnectReturns. CASE OnConnectReturns
  BY <1>OnConnectReturns, OrderQuiet DEF OnConnectReturns, msgVars, orderVars
<1>OnConnectTimeout. CASE OnConnectTimeout
  BY <1>OnConnectTimeout, OrderQuiet DEF OnConnectTimeout, FailAttempt, msgVars, orderVars
<1>Flush. ASSUME NEW failed \in SUBSET Messages, Flush(failed) PROVE OrderInv'
  <2> DEFINE ok == PendingSet \ failed
  <2> USE <1>Flush DEF Flush, SentSet
  <2>1. PendingSet' = {}
    BY PendingEmpty
  <2>2. \A m \in PendingSet : FlushPosition(m) \in 1..Len(pending_messages)
                               /\ pending_messages[FlushPosition(m)] = m
    BY FlushPositionType DEF DataInv, MessageInv, MessageTypes
  <2>3. ok \subseteq PendingSet /\ PendingSet \subseteq Messages
    BY PendingType
  <2>4. /\ UNCHANGED <<route, sentAt>> /\ pending_messages' = <<>>
        /\ clock' = clock + Len(pending_messages)
        /\ \A m \in Messages :
              wireAt'[m] = IF m \in ok THEN clock + FlushPosition(m) ELSE wireAt[m]
    BY DEF Flush
  <2> HIDE <1>Flush DEF ok, Flush
  <2>5. \A m \in Messages : m \in ok => clock < wireAt'[m] /\ wireAt'[m] <= clock'
    BY <1>types, <2>2, <2>3, <2>4
  <2>6. Stamped'
    BY <1>types, <2>1, <2>3, <2>4, <2>5 DEF Stamped
  <2>7. Sorted' /\ Flushed'
    BY <2>1, <2>4 DEF Sorted, Flushed
  <2>8. OnlyFlushReorders'
    <3> SUFFICES ASSUME NEW a \in SentSet, NEW b \in SentSet,
                        0 < wireAt'[b], wireAt'[b] < wireAt'[a], sentAt[a] < sentAt[b]
                 PROVE  route[a] = "pending" /\ route[b] = "direct"
      BY <2>4 DEF OnlyFlushReorders
    <3>1. CASE a \in ok /\ b \in ok
      <4>1. FlushPosition(b) < FlushPosition(a)
        BY <1>types, <2>2, <2>3, <2>4, <3>1
      <4>2. sentAt[b] < sentAt[a]
        BY <1>types, <2>2, <2>3, <3>1, <4>1 DEF Sorted
      <4> QED
        BY <1>types, <4>2
    <3>2. CASE a \notin ok /\ b \in ok
      <4>1. wireAt'[b] = clock + FlushPosition(b) /\ FlushPosition(b) \in 1..Len(pending_messages)
        BY <2>2, <2>3, <2>4, <3>2
      <4>2. wireAt'[a] = wireAt[a] /\ wireAt[a] <= clock
        BY <1>types, <2>4, <3>2 DEF Stamped
      <4> QED
        BY <1>types, <4>1, <4>2
    <3>3. CASE a \in ok /\ b \notin ok
      <4>1. route[a] = "pending" /\ a \in PendingSet /\ 0 < wireAt[b]
        BY <1>types, <2>3, <2>4, <3>3 DEF Stamped
      <4>2. route[b] # "pending"
        BY <1>types, <4>1 DEF Flushed
      <4> QED
        BY <1>types, <4>1, <4>2 DEF Stamped
    <3>4. CASE a \notin ok /\ b \notin ok
      BY <1>types, <2>4, <3>4 DEF OnlyFlushReorders
    <3> QED
      BY <3>1, <3>2, <3>3, <3>4
  <2> QED
    BY <2>6, <2>7, <2>8 DEF OrderInv
<1>RecvResponse. ASSUME NEW r \in Requests, RecvResponse(r) PROVE OrderInv'
  BY <1>RecvResponse, OrderQuiet DEF RecvResponse, msgVars, orderVars
<1>OnReadReturns. CASE OnReadReturns
  BY <1>OnReadReturns, OrderQuiet DEF OnReadReturns, msgVars, orderVars
<1>OnReadErrorDisconnect. CASE OnReadErrorDisconnect
  BY <1>OnReadErrorDisconnect, OrderQuiet DEF OnReadErrorDisconnect, msgVars, orderVars
<1>OnErrorHeldReturns. CASE OnErrorHeldReturns
  BY <1>OnErrorHeldReturns, OrderQuiet DEF OnErrorHeldReturns, msgVars, orderVars
<1>Release. CASE Release
  BY <1>Release, OrderQuiet DEF Release, msgVars, orderVars
<1>Retry. CASE Retry
  BY <1>Retry, OrderQuiet DEF Retry, msgVars, orderVars
<1>RetryFails. CASE RetryFails
  BY <1>RetryFails, OrderQuiet DEF RetryFails, msgVars, orderVars
<1>Discard. CASE Discard
  <2>1. PendingSet' = {}
    BY <1>Discard, PendingEmpty DEF Discard
  <2>2. UNCHANGED orderVars /\ pending_messages' = <<>>
    BY <1>Discard DEF Discard
  <2> QED
    BY <2>1, <2>2 DEF OrderInv, Stamped, Sorted, Flushed, OnlyFlushReorders, SentSet, orderVars
<1>Cancel. CASE Cancel
  BY <1>Cancel, OrderQuiet DEF Cancel, msgVars, orderVars
<1>OnDisconnect. CASE OnDisconnect
  BY <1>OnDisconnect, OrderQuiet DEF OnDisconnect, msgVars, orderVars
<1>OnCloseReturns. CASE OnCloseReturns
  BY <1>OnCloseReturns, OrderQuiet DEF OnCloseReturns, msgVars, orderVars
<1>OnConnectError. ASSUME NEW error \in Errors, NEW challenge \in BOOLEAN, OnConnectError(error, challenge) PROVE OrderInv'
  BY <1>OnConnectError, OrderQuiet DEF OnConnectError, msgVars, orderVars
<1>OnConnectOk. CASE OnConnectOk
  BY <1>OnConnectOk, OrderQuiet DEF OnConnectOk, msgVars, orderVars
<1>OnHandshakeFailed. CASE OnHandshakeFailed
  BY <1>OnHandshakeFailed, OrderQuiet DEF OnHandshakeFailed, msgVars, orderVars
<1>OnHandshakeComplete. CASE OnHandshakeComplete
  BY <1>OnHandshakeComplete, OrderQuiet DEF OnHandshakeComplete, msgVars, orderVars
<1>Written. ASSUME NEW m \in Messages, Written(m) PROVE OrderInv'
  BY <1>Written, OrderQuiet DEF Written, msgVars, orderVars
<1>OnReadData. ASSUME NEW responses \in SUBSET Requests, OnReadData(responses) PROVE OrderInv'
  BY <1>OnReadData, OrderQuiet DEF OnReadData, msgVars, orderVars
<1>OnReadInvalid. CASE OnReadInvalid
  BY <1>OnReadInvalid, OrderQuiet DEF OnReadInvalid, msgVars, orderVars
<1>OnReadError. CASE OnReadError
  BY <1>OnReadError, OrderQuiet DEF OnReadError, msgVars, orderVars
<1>OnConnectCancelled. CASE OnConnectCancelled
  BY <1>OnConnectCancelled, OrderQuiet DEF OnConnectCancelled, msgVars, orderVars
<1>ConnectTimerExpires. CASE ConnectTimerExpires
  BY <1>ConnectTimerExpires, OrderQuiet DEF ConnectTimerExpires, msgVars, orderVars
<1>OnWriteOk. ASSUME NEW m \in Messages, OnWriteOk(m) PROVE OrderInv'
  BY <1>OnWriteOk, OrderQuiet DEF OnWriteOk, msgVars, orderVars
<1>OnWriteError. ASSUME NEW m \in Messages, OnWriteError(m) PROVE OrderInv'
  BY <1>OnWriteError, OrderQuiet DEF OnWriteError, msgVars, orderVars
<1>OnRequestTimeout. ASSUME NEW r \in Requests, OnRequestTimeout(r) PROVE OrderInv'
  BY <1>OnRequestTimeout, OrderQuiet DEF OnRequestTimeout, msgVars, orderVars
<1>OnClose. CASE OnClose
  BY <1>OnClose, OrderQuiet DEF OnClose, msgVars, orderVars
<1>stutter. CASE UNCHANGED vars
  BY <1>stutter, OrderQuiet DEF vars, memberVars, ghostVars, orderVars
<1> QED
  BY <1>Connect, <1>ConnectFails, <1>Disconnect, <1>SendPending, <1>SendTorn,
     <1>SendDirect, <1>PushTimer, <1>StartTimer, <1>OnAcceptReturns, <1>CloseFailed,
     <1>OnConnectReturns, <1>OnConnectTimeout, <1>Flush, <1>RecvResponse,
     <1>OnReadReturns, <1>OnReadErrorDisconnect, <1>OnErrorHeldReturns, <1>Release,
     <1>Retry, <1>RetryFails, <1>Discard, <1>Cancel, <1>OnDisconnect,
     <1>OnCloseReturns, <1>OnConnectError, <1>OnConnectOk, <1>OnHandshakeFailed,
     <1>OnHandshakeComplete, <1>Written, <1>OnReadData, <1>OnReadInvalid,
     <1>OnReadError, <1>OnConnectCancelled, <1>ConnectTimerExpires, <1>OnWriteOk,
     <1>OnWriteError, <1>OnRequestTimeout, <1>OnClose, <1>stutter
     DEF Next, AppNext, SendNext, LoopReturns, PeerNext, TvNext

\* OrderInv holds in every reachable state.
THEOREM OrderInvariant == Spec => []OrderInv
<1>1. Init => OrderInv
  BY DEF Init, OrderInv, Stamped, Sorted, Flushed, OnlyFlushReorders, SentSet, PendingSet
<1>2. DataInv /\ OrderInv /\ [Next]_vars => OrderInv'
  BY OrderStep
<1> QED
  BY <1>1, <1>2, LinkInvariant, PTL DEF Spec

\* Messages reach tv_write in the order of the Send() calls, for any number of messages,
\* threads and connections; only a direct message may overtake pending ones.
THEOREM OrderKept == Spec => []OnlyFlushReorders
<1>1. OrderInv => OnlyFlushReorders
  BY DEF OrderInv
<1> QED
  BY OrderInvariant, <1>1, PTL
=============================================================================

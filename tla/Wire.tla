-------------------------------- MODULE Wire --------------------------------
(***************************************************************************)
(* Requests on the wire: message ids, the list of RequestTimers that finds *)
(* the request of a response, and the unpacker that cuts the bytes of a    *)
(* connection into messages and survives a reconnection.  LinearSocket     *)
(* takes each request to have an id of its own and each read to be whole   *)
(* messages; this module is about what happens when they are not.          *)
(*                                                                         *)
(* Every Send of a Request makes one RequestTimer, the "call".  A message  *)
(* arrives as two fragments, and a read may take any number of fragments.  *)
(* Grain of atomicity: one callback of the event loop, but each message of *)
(* one OnRead is a step, since the application goes on meanwhile; and      *)
(* Send() is three steps, since the event loop goes on meanwhile: it may   *)
(* answer, fail or time out calls, with request_timer_mutex_, as long as   *)
(* it does not need the state_mutex_ that Send() holds.                    *)
(***************************************************************************)
EXTENDS Integers, Sequences, FiniteSets

CONSTANTS
    MaxRequests,   \* bound on the number of Request objects; one may be sent again
    MaxCalls,      \* bound on the number of Sends
    IdMod,         \* 2^32: message ids are counted modulo it
    MaxOthers,     \* bound on the messages of the peer that are no responses
    MaxConns       \* bound on the number of connections

Requests == 1 .. MaxRequests      \* numbered in the order of their construction
Calls == 1 .. MaxCalls
Ids == 0 .. IdMod - 1
NoId == -1
NoRequest == 0
NoCall == 0

ASSUME WireAssumption ==
    /\ MaxRequests \in Nat /\ MaxCalls \in Nat /\ IdMod \in Nat \ {0}
    /\ MaxOthers \in Nat /\ MaxConns \in Nat

VARIABLES
    id,            \* the counter of GetId
    msgid,         \* Request::msgid, NoId before the Request is constructed
    request,       \* the Request of each call
    sending,       \* where the Send() is that holds state_mutex_
    current,       \* its call
    mem,           \* the memory of each RequestTimer: "none", "live" or "freed"
    armed,         \* calls whose timer runs
    timers,        \* SocketImpl::request_timers_
    conn, state,   \* number of the connection, and its state
    toPeer,        \* calls that the peer has not answered
    net,           \* fragments on their way from the peer
    unpacker,      \* fragments in unpacker_
    reading,       \* OnRead is in its loop
    others,        \* messages of the peer so far that are no responses
    crashed,       \* a RequestTimer was used after it had been deleted
    \* history, for the properties
    clash,         \* a request was sent whose id an unfinished call has
    hasty,         \* a write failed after its Send() had listed the timer, not yet started it
    torn,          \* a connection ended with bytes left in unpacker_
    strange,       \* a message was delivered that is garbled or of another connection
    answers,       \* whose responses each call was given
    reports        \* how often each call was reported (2: more than once)

callVars == <<id, msgid, request, sending, current>>
timerVars == <<mem, armed, timers, crashed>>
connVars == <<conn, state>>
peerVars == <<toPeer, net, others>>
readVars == <<unpacker, reading>>
historyVars == <<clash, hasty, torn, strange, answers, reports>>
wireVars == <<callVars, timerVars, connVars, peerVars, readVars, historyVars>>

Garbled == -1

WireInit ==
    /\ id = 0 /\ msgid = [r \in Requests |-> NoId]
    /\ request = [k \in Calls |-> NoRequest] /\ sending = "none" /\ current = NoCall
    /\ mem = [k \in Calls |-> "none"] /\ armed = {} /\ timers = <<>> /\ crashed = FALSE
    /\ conn = 0 /\ state = "down"
    /\ toPeer = {} /\ net = <<>> /\ others = 0
    /\ unpacker = <<>> /\ reading = FALSE
    /\ clash = FALSE /\ hasty = FALSE /\ torn = FALSE /\ strange = FALSE
    /\ answers = [k \in Calls |-> {}] /\ reports = [k \in Calls |-> 0]

----------------------------------------------------------------------------
(* Helpers.                                                                *)

IdOf(k) == msgid[request[k]]

\* Some timer of request_timers_ has the id.
Matches(i) == \E p \in DOMAIN timers : IdOf(timers[p]) = i

\* mutant: the search takes the first timer there is
MutFirstMatch(i) == 1

\* The position where the searches of OnRead, OnWrite and OnRequestTimeout end.
FirstMatch(i) ==
    CHOOSE p \in DOMAIN timers :
        IdOf(timers[p]) = i /\ \A q \in 1 .. p - 1 : IdOf(timers[q]) # i

\* The search reads a RequestTimer that has been deleted.
SearchCrashes(i) ==
    \E p \in DOMAIN timers :
        mem[timers[p]] = "freed" /\ (Matches(i) => p <= FirstMatch(i))

\* vector::erase
Erase(p) == SubSeq(timers, 1, p - 1) \o SubSeq(timers, p + 1, Len(timers))

\* delete RequestTimer: its destructor stops the timer.
Delete(ks) ==
    /\ mem' = [k \in Calls |-> IF k \in ks THEN "freed" ELSE mem[k]]
    /\ armed' = armed \ ks

Twice(n) == IF n < 2 THEN n + 1 ELSE n

Report(ks) == reports' = [k \in Calls |-> IF k \in ks THEN Twice(reports[k]) ELSE reports[k]]

\* A deleted RequestTimer is used.  What the process does from here on is not modelled.
Crash == crashed' = TRUE /\ UNCHANGED <<mem, armed, timers, answers, reports>>

\* state_mutex_ is free.
StateMutexFree == sending = "none"

Fragments(m) == <<[msg |-> m, half |-> 1], [msg |-> m, half |-> 2]>>

----------------------------------------------------------------------------
(* The application.                                                        *)

GetId == (id + 1) % IdMod

\* Request::Request
Construct(r) ==
    /\ msgid[r] = NoId /\ \A q \in 1 .. r - 1 : msgid[q] # NoId
    /\ id' = GetId /\ msgid' = [msgid EXCEPT ![r] = id']
    /\ UNCHANGED <<request, sending, current, timerVars, connVars, peerVars, readVars,
                   historyVars>>

\* The id can still turn up: in the list of timers or on the wire.
Unfinished(i) ==
    \/ Matches(i)
    \/ \E k \in toPeer \cup armed : IdOf(k) = i
    \/ \E p \in DOMAIN (unpacker \o net) : (unpacker \o net)[p].msg.id = i

\* Request::Send on a connected socket, up to and including tv_write.
Send(r) ==
    LET k == Cardinality({j \in Calls : mem[j] # "none"}) + 1 IN
    /\ StateMutexFree /\ state = "up" /\ msgid[r] # NoId /\ k \in Calls
    /\ request' = [request EXCEPT ![k] = r]
    /\ mem' = [mem EXCEPT ![k] = "live"]
    /\ toPeer' = toPeer \cup {k}
    /\ sending' = "push" /\ current' = k
    /\ clash' = (clash \/ Unfinished(msgid[r]))
    /\ UNCHANGED <<id, msgid, armed, timers, crashed, connVars, net, others, readVars, hasty,
                   torn, strange, answers, reports>>

\* _Send: request_timers_.push_back
PushTimer ==
    /\ sending = "push" /\ sending' = "start"
    /\ timers' = Append(timers, current)
    /\ UNCHANGED <<id, msgid, request, current, mem, armed, crashed, connVars, peerVars, readVars,
                   historyVars>>

\* _Send: request_timer->Start(), which ignores an error of the timer, and Send() returns.
StartTimer(started) ==
    /\ sending = "start" /\ sending' = "none" /\ current' = NoCall
    /\ crashed' = (crashed \/ mem[current] = "freed")
    /\ armed' = IF started /\ mem[current] = "live" THEN armed \cup {current} ELSE armed
    /\ UNCHANGED <<id, msgid, request, mem, timers, connVars, peerVars, readVars, historyVars>>

Connect ==
    /\ StateMutexFree /\ state = "down" /\ conn < MaxConns
    /\ state' = "up" /\ conn' = conn + 1
    /\ UNCHANGED <<callVars, timerVars, peerVars, readVars, historyVars>>

\* Socket::Disconnect, by any thread or by the handler in the middle of OnRead.
Disconnect ==
    /\ StateMutexFree /\ state = "up" /\ state' = "closing"
    /\ UNCHANGED <<callVars, timerVars, conn, peerVars, readVars, historyVars>>

----------------------------------------------------------------------------
(* The peer.                                                               *)

PeerAnswers(k) ==
    /\ state = "up" /\ k \in toPeer
    /\ toPeer' = toPeer \ {k}
    /\ net' = net \o Fragments([kind |-> "response", id |-> IdOf(k), call |-> k, conn |-> conn])
    /\ UNCHANGED <<callVars, timerVars, connVars, others, readVars, historyVars>>

\* A notify, an object that is no message, or a message that is larger than the receive
\* buffer may become.
PeerSends(kind) ==
    /\ state = "up" /\ others < MaxOthers
    /\ others' = others + 1
    /\ net' = net \o Fragments([kind |-> kind, id |-> NoId, call |-> NoCall, conn |-> conn])
    /\ UNCHANGED <<callVars, timerVars, connVars, toPeer, readVars, historyVars>>

----------------------------------------------------------------------------
(* The event loop.                                                         *)

\* OnRead: n fragments have come.
OnRead(n) ==
    /\ StateMutexFree /\ state = "up" /\ ~reading
    /\ unpacker' = unpacker \o SubSeq(net, 1, n)
    /\ net' = SubSeq(net, n + 1, Len(net))
    /\ reading' = TRUE
    /\ UNCHANGED <<callVars, timerVars, connVars, toPeer, others, historyVars>>

\* OnRead of an error or of the end of the stream.
OnReadError == ~reading /\ Disconnect

Drop(n) == unpacker' = SubSeq(unpacker, n + 1, Len(unpacker))

\* The bytes begin with a whole message.
Whole ==
    /\ Len(unpacker) >= 2
    /\ unpacker[1].half = 1 /\ unpacker[2] = [unpacker[1] EXCEPT !.half = 2]

\* The bytes do not begin where a message begins, or the first one does not go on.
Broken ==
    /\ unpacker # <<>> /\ ~Whole
    /\ unpacker[1].half = 2 \/ Len(unpacker) >= 2

First == unpacker[1].msg

Deliver(odd) == strange' = (strange \/ odd)

\* A response is given to the first call with its id, or ignored.
Respond(i, from) ==
    CASE SearchCrashes(i) -> Crash
      [] ~SearchCrashes(i) /\ Matches(i) ->
            LET k == timers[FirstMatch(i)] IN
            /\ answers' = [answers EXCEPT ![k] = @ \cup {from}]
            /\ Report({k}) /\ Delete({k}) /\ timers' = Erase(FirstMatch(i))
            /\ UNCHANGED crashed
      [] OTHER -> UNCHANGED <<mem, armed, timers, crashed, answers, reports>>

RecvResponse ==
    /\ reading /\ Whole /\ First.kind = "response"
    /\ Drop(2) /\ Deliver(First.conn # conn) /\ Respond(First.id, First.call)
    /\ UNCHANGED <<callVars, connVars, peerVars, reading, clash, hasty, torn>>

\* A notify, or a large message all of which came with one read.
RecvNotify ==
    /\ reading /\ Whole /\ First.kind \in {"notify", "big"}
    /\ Drop(2) /\ Deliver(First.conn # conn)
    /\ UNCHANGED <<callVars, timerVars, connVars, peerVars, reading, clash, hasty, torn,
                   answers, reports>>

\* Disconnect() in the catch clauses of OnRead.
Throw ==
    /\ StateMutexFree /\ reading' = FALSE
    /\ state' = IF state = "up" THEN "closing" ELSE state
    /\ UNCHANGED <<callVars, timerVars, conn, peerVars, historyVars>>

RecvInvalid == reading /\ Whole /\ First.kind = "invalid" /\ Drop(2) /\ Throw

\* Bytes that are taken for something else: a notify, a response with any id, or nothing
\* that can be read.
RecvBroken(n) ==
    /\ reading /\ Broken /\ n <= Len(unpacker) /\ Drop(n)
    /\ \/ Throw
       \/ /\ Deliver(TRUE)
          /\ \/ UNCHANGED <<mem, armed, timers, crashed, answers, reports>>
             \/ \E i \in Ids : Respond(i, Garbled)
          /\ UNCHANGED <<callVars, connVars, peerVars, reading, clash, hasty, torn>>

\* mutant: what is left of the read is dropped
MutOnReadReturns ==
    /\ reading /\ ~Whole /\ Len(unpacker) <= 1
    /\ unpacker' = <<>>
    /\ reading' = FALSE
    /\ UNCHANGED <<callVars, timerVars, connVars, peerVars, historyVars>>

\* No message is complete any more: OnRead returns, and the rest waits for the next read ...
OnReadReturns ==
    /\ reading /\ ~Whole /\ Len(unpacker) <= 1
    /\ unpacker # <<>> => First.kind # "big"
    /\ reading' = FALSE
    /\ UNCHANGED <<callVars, timerVars, connVars, peerVars, unpacker, historyVars>>

\* ... or the rest is too large.
RecvTooBig ==
    /\ reading /\ Len(unpacker) = 1 /\ First.kind = "big"
    /\ Throw /\ UNCHANGED unpacker

\* OnWrite of a call with an error.
OnWriteError(k) ==
    /\ ~reading /\ state \in {"up", "closing"} /\ k \in toPeer
    /\ toPeer' = toPeer \ {k}
    /\ CASE SearchCrashes(IdOf(k)) -> Crash
         [] ~SearchCrashes(IdOf(k)) /\ Matches(IdOf(k)) ->
                /\ Delete({timers[FirstMatch(IdOf(k))]}) /\ timers' = Erase(FirstMatch(IdOf(k)))
                /\ Report({k}) /\ UNCHANGED <<crashed, answers>>
         [] OTHER -> Report({k}) /\ UNCHANGED <<mem, armed, timers, crashed, answers>>
    /\ hasty' = (hasty \/ (sending = "start" /\ k = current))
    /\ UNCHANGED <<callVars, connVars, net, others, readVars, clash, torn, strange>>

\* mutant: the timer that has fired stays in the list
MutOnRequestTimeout(k) ==
    /\ ~reading /\ k \in armed
    /\ Report({k}) /\ Delete({k}) /\ UNCHANGED <<timers, crashed, answers>>
    /\ UNCHANGED <<callVars, connVars, peerVars, readVars, clash, hasty, torn, strange>>

\* OnRequestTimeout: the first timer with the id is taken out of the list, the one that has
\* fired is deleted.
OnRequestTimeout(k) ==
    /\ ~reading /\ k \in armed
    /\ IF SearchCrashes(IdOf(k)) THEN Crash
       ELSE /\ timers' = IF Matches(IdOf(k)) THEN Erase(FirstMatch(IdOf(k))) ELSE timers
            /\ Report({k}) /\ Delete({k}) /\ UNCHANGED <<crashed, answers>>
    /\ UNCHANGED <<callVars, connVars, peerVars, readVars, clash, hasty, torn, strange>>

\* mutant: the timers are dropped without OnError
MutDiscardMessages == timers' = <<>> /\ armed' = {} /\ UNCHANGED <<mem, crashed, answers, reports>>

\* _DiscardMessages: every call of the list is reported and deleted.
DiscardMessages ==
    LET ks == {timers[p] : p \in DOMAIN timers} IN
    IF \E k \in ks : mem[k] = "freed" THEN Crash
    ELSE /\ Report(ks) /\ Delete(ks) /\ timers' = <<>>
         /\ UNCHANGED <<crashed, answers>>

\* OnDisconnect.  unpacker_ is left as it is.
OnDisconnect ==
    /\ StateMutexFree /\ ~reading /\ state = "closing" /\ state' = "down"
    /\ DiscardMessages
    /\ toPeer' = {} /\ net' = <<>>
    /\ torn' = (torn \/ unpacker # <<>>)
    /\ UNCHANGED <<callVars, conn, others, readVars, clash, hasty, strange>>

----------------------------------------------------------------------------

ReadStep ==
    \/ RecvResponse \/ RecvNotify \/ RecvInvalid \/ RecvTooBig \/ OnReadReturns
    \/ \E n \in {1, 2} : RecvBroken(n)

SendStep == PushTimer \/ \E started \in BOOLEAN : StartTimer(started)

WireNext ==
    /\ ~crashed
    /\ \/ Connect \/ Disconnect
       \/ \E r \in Requests : Construct(r) \/ Send(r)
       \/ SendStep
       \/ \E kind \in {"notify", "invalid", "big"} : PeerSends(kind)
       \/ \E n \in 1 .. Len(net) : OnRead(n)
       \/ OnReadError \/ ReadStep \/ OnDisconnect
       \/ \E k \in Calls : PeerAnswers(k) \/ OnWriteError(k) \/ OnRequestTimeout(k)

WireSpec == WireInit /\ [][WireNext]_wireVars

\* A Send() and the event loop go on with what they have begun; the loop closes the
\* connections it is told to close and fires the timers.  Nothing is assumed of the peer or
\* of the application.
WireFairness ==
    /\ WF_wireVars(~crashed /\ SendStep)
    /\ WF_wireVars(~crashed /\ ReadStep) /\ WF_wireVars(~crashed /\ OnDisconnect)
    /\ \A k \in Calls : SF_wireVars(~crashed /\ OnRequestTimeout(k))

----------------------------------------------------------------------------

\* The response a call is given is the response to that call, although the wire carries
\* only an id that wraps around, answers come in any order and after a timeout, and a read
\* ends anywhere.  It takes the reuse of an id that is not finished, or a connection that
\* ended inside a message, to confuse two calls.
AnswersItsCall == ~clash /\ ~torn => \A k \in Calls : answers[k] \subseteq {k}

\* request_timers_ has no entry that is deleted, unless a request was sent again, or an id
\* came round, before the earlier call had finished: OnRequestTimeout then removes one timer
\* from the list and deletes another.  And nobody uses a deleted timer, but for two more
\* ways: a write that fails before its Send() has started the timer, and a connection that
\* reads the rest of the last one's bytes as a response to the call being sent.
NoDanglingTimer ==
    /\ ~clash => \A p \in DOMAIN timers : mem[timers[p]] = "live"
    /\ crashed => clash \/ hasty \/ torn

\* What the handler is given are the messages of this connection as they were sent.  Only
\* a connection that ended with bytes left in unpacker_ (inside a message, or after an
\* invalid one) spoils the next one.
DeliversWhole == strange => torn

\* Every call whose timer was started is reported, by its response, the end of the
\* connection or its timeout, whatever the peer does, if its id is not reused too early and
\* no deleted timer is used.
CallReported ==
    \A k \in Calls : k \in armed ~> reports[k] > 0 \/ clash \/ crashed
=============================================================================

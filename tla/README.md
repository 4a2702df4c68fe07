# A TLA+ model of linear-cpp

linear-cpp is a MessagePack-RPC library: clients and servers over TCP, SSL, WebSocket and
secure WebSocket exchange requests, responses and notifies. Its difficulty is concurrency.
Any application thread may call `Connect`, `Disconnect`, `Send`, `Stop`, `Join` and the rest
at any moment, while one event-loop thread per `EventLoop` runs all callbacks of libtv, and
user handlers are called from those callbacks, sometimes with a mutex held.

Source paths below are relative to the repository (`src/socket_impl.cpp` is the library's
`src` directory).

## Inventory

| Component | State | Operations | Interacts with | Must be right |
|---|---|---|---|---|
| `SocketImpl` (`src/socket_impl.cpp`) | `state_`, `handshaking_`, `last_error_`, `stream_`, `pending_messages_`, `request_timers_`, connect timer | `Connect`, `Disconnect`, `Send`, `OnConnect`, `OnHandshakeComplete`, `OnRead`, `OnWrite`, `OnConnectTimeout`, `OnRequestTimeout`, `OnDisconnect` | libtv, `HandlerDelegate`, timers | handles closed once; every accepted message reported once; callbacks paired |
| Transports (`tcp_`, `ssl_`, `ws_`, `wss_socket_impl.cpp`) | digest nonce count | `Connect`, `OnConnect`, `CheckRetryAuth` | `SocketImpl` | at most one automatic retry |
| Servers (`*_server_impl.cpp`, `server_impl.h`) | `state_`, listening handle | `Start`, `Stop`, `OnAccept`, `Release` | pool, groups, sockets, nonces | the limit; a stopped server keeps nothing |
| `SocketPool`, `HandlerDelegate` | sockets kept alive, limit | `Add`, `Remove`, `Clear`, `On*` | every socket, the user's `Handler` | no leak, no early release |
| `Group` (`src/group.cpp`) | name -> set of sockets, process-wide | `Join`, `Leave`, `LeaveAll`, `Get` | servers, `Notify::Send(group)` | no dead members |
| `EventLoopImpl` | libtv loop | dispatch to a weak reference | libtv, sockets, servers, timers | callbacks of dead objects are dropped |
| `TimerImpl` (`src/timer_impl.cpp`) | `state_`, libtv handle | `Start`, `Stop`, `OnTimer` | sockets, nonces, applications | a stopped timer may already be expiring |
| `NoncePool`, authentication contexts | nonces with timers | `Add`, `Remove`, `IsValid`; header building and parsing | WebSocket servers and sockets | a nonce authorises once and expires; a client that answers the challenge is admitted |
| Messages (`src/message.cpp`) | message ids | `GetId`, `Send` | sockets, groups | ids distinguish outstanding requests |
| Clients (`*_client.cpp`, `*_client_impl.h`) | the pool, a weak reference to the handler | `CreateSocket`, destructor | sockets, pool, log | a connection does not end because a copy was let go |
| Values (`any.h`, `optional.h`, `binary.h`, `nil.h`) | an object and its msgpack zone | assignment, copy, unpacking, comparison | the unpacker, messages | value semantics; the order agrees with equality |
| Logging (`src/log*.cpp`) | three flags, three sinks with a mutex each | `Enable*`, `Disable*`, `Print` | every thread, `~HandlerDelegate` | no write to a closed or withdrawn target |
| Errors, addresses, SSL context, certificates | - | - | - | not modelled |

The hard behaviours are listed in `PROJECT.json` under `hazards`, each at its line: steps of
`Send` interleaved with `OnWrite`, state read before a mutex is released and used after it,
connect timers that expire after they were stopped, a reconnection inside the end of the
previous connection, lock order across user callbacks, and the ownership of sockets by
`shared_ptr`s in the pool, in groups, in broadcasts and in the application.

## Modules

* `LinearSocket` - one socket of any kind, with all application threads and the event loop.
* `MCLinearSocket` - its model-checking instances and four statements of tests and docs that
  the code does not keep.
* `Rpc` - what a socket promises to the application, without threads, timers or handles.
  `LinearSocket` implements it (`ImplementsRpc`).
* `SocketTypeProofs`, `SocketLinkProofs`, `SocketMessageProofs`, `SocketRpcProofs` - theorems
  about `LinearSocket`.
* `Server` - a server, its pool with the limit, the groups and the owners of each accepted
  socket. `MCServer` instantiates it.
* `Hosting` - what a server promises to its handler, without pool, groups, callbacks or owners.
  `Server` implements it (`ImplementsHosting`).
* `ServerProofs` - theorems about it.
* `Client` - a client and the owners of its sockets. `Log` - the sinks of the log.
  `ProcessProofs` - theorems about both; `MCProcess` checks `Server`, `Client` and `Log` in one
  run.
* `NoncePool` - the nonces of a server and their timers. `Digest` extends it with the
  handshake of a WS or WSS socket with a WS or WSS server; `MCDigest` instantiates it and
  `DigestProofs` proves its safety.
* `Admission` - what the authentication of a server promises, without headers, hashes, timers
  or steps of `OnAccept`. `Digest` implements it (`ImplementsAdmission`).
* `Wire` - message ids, the list of request timers, the unpacker across reads and connections.
* `Values` - the values messages carry. `Printing` extends it with their printed forms and the
  order these give them.
* `Timer` - `Timer` and `TimerImpl`. `MessagesProofs` - theorems about `Wire`, `Values` and
  `Timer`; `MCMessages` checks `Wire`, `Printing` and `Timer` in one run.

Modules that share no variable are checked together (`MCProcess`, `MCMessages`): each is
explored while the others are in their initial state, so the runs ask each module's questions
and no product of unrelated states is built.

### LinearSocket

The first group of variables are the members of `SocketImpl` under their own names. `kind`
stands for `type_` and `connectable_`; SSL behaves as TCP and WSS as WS. `stream`, `tvTimer`
and `writes` are libtv's side: the handle, whether the connect timer may still expire, and
the fate of each `tv_write`. `loop` is the program counter of the event-loop thread inside
the callback it runs, `sending`/`current` the program counter of the `Send()` that holds
`state_mutex_`. The rest are history variables that only properties read.

A step is one critical section, or the code between two. Application threads carry nothing
between calls, so they have no identity. `Send()` of a request takes three steps (tv_write,
insertion of the timer, start of the timer) because `OnWrite` takes only
`request_timer_mutex_` and can come in between; if it deletes the timer, `StartTimer` is a
call on freed memory and both outcomes are allowed. `OnDisconnect` takes up to six steps,
because it releases the mutex before it leaves the pool, retries, discards and reports; in
this window another thread may connect again. `_DiscardMessages` swaps
`pending_messages_` without the mutex; a `Send()` at that moment races with it and may lose
its message (`SendTorn`). A connect timer that another thread has stopped may still
expire (`TimerImpl::OnTimer` does not look at its state). A timer may also fail to start:
`RequestTimer::Start` and `Connect` drop the error of `Timer::Start`. The attempt or the request
then goes on without one; `unarmed` remembers the requests in `request_timers_` to which that
has happened. `CheckRetryAuth` is wider than the code's: it leaves out the code 401 and the type
of the challenge (another thread's `Connect` may replace what it reads), so the model retries in
more cases.

libtv is external (an empty submodule). Assumed of it, from how `EventLoopImpl` uses it: the
callbacks run one at a time; `tv_close` makes each outstanding `tv_write` call back before
the close callback; a cancelled connect calls back before the close callback, or not at all.
Whether a server handshake completes on a handle that is already closing cannot be read from
this repository, so the model allows it, and `CloseOnce` and `LiveStream` leave WebSocket
server sockets out. The delegate (the `Client` or `Server` object) lives as long as the socket.

### Server

`pool`, `max`, `groups`, `state` are the code's; `sock` says what became of each connection.
`held`, `cast` and `cur` are the other owners of a socket: copies of the application, the set
a running `Notify::Send(group)` works on, the callback of the event loop. `Reap` is the
destructor: a step that leaves a socket without owner destroys it, and its close callback
finds no socket. `Stop()` holds the server's and the pool's mutex over several steps
(`StopLeave`, `StopClear`); `OnAccept` holds the server's over the handler's `OnConnect`. The
application may join, leave, broadcast, disconnect, copy a socket (also out of `Group::Get`)
and let go of it at any time. `OnRead` reads `handshaking_` in one step (`PeerCloses`) and calls
`Disconnect()` with it in another (`OnReadDisconnect`), and a failing `OnHandshakeComplete`
calls `Disconnect(true)` whatever the state; `Disconnect()` assigns `handshaking_` even when it
answers `EALREADY`. So a `Disconnect()` of the application during the handshake may be
followed by one that sets `handshaking_` again, and its `OnDisconnect` does not come. `shaking`
has the handshakes that libtv has not completed; as in `LinearSocket`, libtv may complete one on
a handle that is closing. What `state_` is then is `LinearSocket`'s matter; to `Server` the
connection goes on closing. A group may be joined after `LeaveAll`; `late` remembers that.

### Hosting

The state the handler of a server can see: whether the server serves, the limit, what each
connection is to the handler and which connections a `Stop()` let go of. The mapping in `Server`
(`ConnOf`) reads a connection off `sock`, `told`, `untold`, `handshaking` and `shaking`;
`Stop()`, several steps in `Server`, is the one step that clears the pool (`StopClear`). The contract says when
the handler may miss the end of a connection: its handshake did not complete, or a `Stop()` let
go of it. It is as weak as the code there (`StopUnreported`): a connection that the application
disconnects during the handshake is `aborted` and due an `OnDisconnect`, until the handshake
fails or the peer goes away (`failing`); then it is due one no more. No other connection is over
before its `OnDisconnect`, none has two, and none comes for a connection the handler was never
told of; the limit counts what the handler has and no `Stop()` let go of, so connections that a
`Stop()` forgot do not take places after the next `Start()`.

### Rpc

The state an application can see: the attempts whose `OnDisconnect` is owed, whether
`OnConnect` was called, and for each message whether it was accepted, reported (response,
timeout, cancellation) and reported by a failed write. The refinement mapping in
`LinearSocket` reads the history variables of the detailed model; a message is `lost` once
`SendTorn` has raced with `_DiscardMessages`. Every step of the detailed model is then a call
or a callback the contract allows at that moment, or a stutter: a message is not reported
before it was accepted or after its `OnDisconnect`, nothing is accepted when no `OnDisconnect`
is owed, and `OnDisconnect` is not called while accepted messages are still to be reported.
The contract is as weak as the code: a message may be reported once and fail once more
(`RequestReportedTwice`), and an application that connects before the previous `OnDisconnect`
may lose one.

### Client

`clientHeld`, `handlerHeld` and `kept` are the `shared_ptr`s of the application, `retained` the
client's pool, `turn` the callback of the event loop with the socket and the client it has
locked. `Settle` is the end of a step: a client without owner takes its pool with it, a
`SocketImpl` without owner closes its connection and nobody is told. The one connection of a
living client that can end this way is one made by another thread after `OnDisconnect` has set
DISCONNECTED and before it calls `Release`: `Retain` finds the socket still in the pool,
`Release` then removes it, and the application's copy is the only owner.

### Log

Every `Enable` has a target of its own. The flags are read and written without a mutex, as in
the code; each sink's members are read and written under its mutex. `DisableBegins` with all
three sinks is `~HandlerDelegate`, which switches off the log of the whole process.
`EnableFile` on an open file loses the old `FILE*`, which is a leak and no misuse. The callback
of `LogFunction` runs with that sink's mutex held, so a callback that logs blocks itself; the
model's callbacks do not log.

### NoncePool and Digest

A hash is the tuple of what was hashed; a header is the record of its fields. Strings are the few
that the code tells apart, and the tables `Parse` and `ColonParts` say what becomes of those with
a separator: a field of a digest (the name of the user or the uri) whose value contains an `=` is
dropped and one with a comma is cut off there; "user:password" of basic is read back only if it
has two parts, so not if there is another colon or the password is empty, but a colon at the very
end is lost without a trace. `OnAccept`
takes several steps (`IsValid`, `RemoveNonce`, the handler, the challenge) between which nonces
expire:
the expiry runs on the default event loop, the server perhaps on another. The expiry reads the
context of its nonce without the pool's mutex; a read after `Remove` has deleted it is
recorded in `stale`. A timer may fail to start, after which the nonce stays in the pool.

`Admission` is the contract behind the handshake. A client is challenged with a nonce that
nobody has, redeems it, at most once, and is let in or refused; nonces lapse, and clients forget
them. Only a client that knows the password of a user is let in (by basic: the password the
server reads, which lacks a colon at its end), and by digest only one that has redeemed a nonce
it was told itself. Under the mapping a nonce is valid if it is in the pool and a client has a
copy of it, except that `OnAccept` takes it with `IsValid`, not with the later `RemoveNonce`
(`Presented`): an expiry between the two changes nothing. The client that has redeemed it is the
one `OnAccept` is dealing with while `valid_nonce` holds, and a client is inside from the answer
101 on. A nonce that is in the pool because its challenge failed is not valid here: nobody was
told it.

`RefusedForCause` lists the causes for which a client with the right password is refused. By
digest: its nonce expired before it came back; a WS client is not configured for digest; the name
of the user or the uri does not survive `Parse`. The uri is the path, for WS with the query. By
basic: the client is not configured for it; the name and the password do not survive `Split`; or a
WSS client makes its first `Connect`, with which it sends no password (`wss_socket_impl.cpp:62`
asks for BASIC *or* a DIGEST challenge and builds the answer to a challenge that has not come).
`RefusalsHaveACause` proves the list complete for the strings of the tables.

### Wire

A `Send` of a `Request` makes a `RequestTimer`, the call. The wire carries only the id, which
is counted modulo `IdMod` for 2^32, and a `Request` may be sent again with the same id. A
message arrives in two fragments and a read takes any number of them, so messages are split
and merged by reads; the unpacker keeps its bytes over the end of a connection. A response is
given to the first timer with its id. `OnRequestTimeout` removes the first timer with the id
and deletes the one that fired; when two calls share an id these differ, and the next use of
the deleted one ends the exploration (`Crash`: undefined behaviour). `Send()` takes three steps,
as in `LinearSocket`, and holds `state_mutex_` over them; the event loop meanwhile gives out the
messages it has read and reports writes, which need only `request_timer_mutex_`. The properties
say exactly when no deleted timer is used: `clash` records that an id was in use twice, `hasty`
that a write failed before its `Send()` had started the timer, `torn` that a connection ended
with bytes in the unpacker (a rest of them may be read as a response to the call being sent).

### Values

An object is a tree, kept as a function from paths to cells (type, scalar or bytes, and the zone
these lie in), so that copying needs no recursion: `copy_msgpack_object` calls itself for every
part, and each call is a `CopyCell`. Assignment clears the zone of the target first, so a value
assigned from itself or from one of its elements is copied from freed memory (`readDead`); any
other sequence of receptions, copies and assignments keeps value semantics. In `Printing`,
`operator<` compares printed forms; `Stringify` models the quoting and escaping by what they do
to the characters that matter. The comparison of `nil` with an `optional` is constant and not
modelled.

### Timer

The n-th `Start` stands for its callback, argument and libtv handle. `Start` assigns `args_`
last and `OnTimer` reads `callback_` and `args_` after it has released the mutex, so a `Start`
of another thread in between may give it the new callback with the old argument (`mixed`).

## Runs

| Run | Expect | Instance | Shows |
|---|---|---|---|
| `SocketSafety` | pass | 4 kinds, 2 requests, 1 notify, 2 connections, calls at any time (3.7 M states) | types; `CloseOnce`; `LiveStream`; `AtMostOneSettlement`; `NoLostMessage`; `NothingLeftBehind`; `EveryAttemptReported`; `PoolNoLeak`; `OnlyFlushReorders`; `CallbackAlternation`; `ImplementsRpc` |
| `SocketReconnect` | pass | clients, 1 request, 5 attempts, `Connect` only after `OnDisconnect` | `PoolHoldsLive`; `DiscardExclusive`; `RetryOncePerConnect` |
| `SocketLiveness` | pass | TCP client, 1 request, 1 notify, 2 attempts with or without timeout, timers that may not start (91 000 states) | `RequestSettles`; `DisconnectCompletes` |
| `ServerSafety` | pass | TCP and WS, 2 connections, 1 group and the broadcast group, no limit and a limit of 1; a client with 2 sockets; 3 threads and 2 `Enable`s of the log (2.1 M states) | types; `ClosedLeavesGroups`; `StopEmpties`; `ImplementsHosting`; `NoSilentEnd`; `LogTargetsLive` |
| `ServerLiveness` | pass | TCP and WS, 2 connections, broadcast group (0.6 M states) | `StopDisconnects` |
| `Digest` | pass | 3 servers, 1 client of 5 sorts with each, of 6 more with BASIC and 6 more with DIGEST, 3 nonces, 1 failed timer (0.19 M states) | types; `NoStaleExpiry`; `AnnouncedExpires`; `AuthorisesOnce`; `RefusedForCause`; `ImplementsAdmission`; `ConnectReported`; `NonceLapses` |
| `Messages` | pass | 3 requests, 2 calls, ids modulo 2, 1 other message, 2 connections; 2 anys, 11 contents; 3 starts of a timer (0.8 M states) | `AnswersItsCall`; `NoDanglingTimer`; `DeliversWhole`; `CallReported`; `ValueSemantics`; `OrderAgrees`; `OptionalShowsLast`; `TimerHandles`; `OneShot` |
| `ReasonOverwritten` | violation | 1 TCP client | a `Disconnect()` of another thread is reported with the error of an end of file that raced with it, where a test expects `LNR_OK` |
| `RequestReportedTwice` | violation | 1 TCP client, 1 request | a request reported as timed out is reported again when its write is cancelled |
| `RetryUnreported` | violation | 1 WS client | a digest retry that cannot start ends the connection without `OnDisconnect` |
| `HandlerBlocked` | violation | handler that disconnects in `OnError` | `OnWrite` calls the handler with `request_timer_mutex_` held; together with a `Send()` this is a lock cycle |
| `StopUnreported` | violation | 1 connection | `Stop()` destroys a connected socket, and its `OnDisconnect` never comes |

Bounds. `MaxConnects` caps the attempts: two are enough for everything one connection can do to
the next; five let the digest retry happen after each of two user connections. `NcWrap` stands
for 0xfffd (any value from 1 on: the code's is one); every message is sent at most once. Two
requests and a notify make every pair of routes (pending, direct, torn) and of outcomes occur.
Two connections are enough for a limit of one to be met, exceeded and freed again; before the
first `SetMaxClients` there is none, and 0 means the same. One broadcast runs at a time. In
`Digest` three nonces are the one in use, the one just announced and one that leaks, and a name
is used again when nobody has the nonce any more, so the client may connect for ever; `NcLimit`
stands for 0xfffd. In `Wire` two calls with three requests give equal ids by sending again and
by wrap-around; a third call adds no new pair. Three starts of a timer are one that expires, one
that races with it and one after. Two `Enable`s let a file be replaced while a third thread
writes. `CHECK_DEADLOCK` is off because a socket or server that nobody uses may rest.

Fairness (`FairSpec`). Threads inside a critical section or a callback go on; libtv runs due
timers, cancelled writes and close callbacks (strong fairness, since other callbacks keep taking
the loop). Nothing is assumed of the peer or of the application, nor that a timer starts:
`RequestSettles` exempts the request whose timer did not (`unarmed`) and one that waits for ever
in an attempt without a connect timer (`Unbounded`), and only these. `CallReported`, of `Wire`,
is likewise about the calls whose timer runs. In `Digest` the server and the client go on with a
handshake they have begun, the listening socket is served (`SF` of `Accept`, since one callback
at a time takes the loop) and a running timer fires. In `Wire` a `Send()` and a read that have
begun end, a close callback comes and a running request timer fires; the peer may never answer.

Each property has a mutant in `PROJECT.json`: a plausible bug in one definition (a dropped
guard, a missing `Release`, a missing `return`), under which the property fails.

## Proofs

All theorems hold for every set of messages, sockets, clients, nonces or threads and every
bound; the assumptions are the `ASSUME`s of the modules, which the runs evaluate: constants
are of their type, a value that stands for "none" is not a member of its set, the set of
sockets of a server is finite, and the wrap-around of a counter is not zero.

* `SocketTypeProofs`: `TypeCorrect`. `TypeOK` is split into `FlagTypes` (Boolean members,
  which Zenon handles), `LinkTypes`, `MessageTypes` and `LoopTypes`; `MessageInv` adds that
  a `Send()` under way has a request. One step per action.
* `SocketLinkProofs`: `LinkInv`, an inductive invariant that relates `state_`, the handle,
  the position of the event loop, the pool and the callbacks owed. Its parts: who has closed
  the handle in which state (`CloseInv`), where in a callback which states are possible
  (`EndingInv`, `WaitInv`, `UpInv`), what a client never is (`HandshakeInv`), what a server
  socket never does again (`ServerInv`), `PoolInv` and `ReportInv`. From it follow
  `ClosedOnce`, `StreamIsLive`, `AttemptsReported`, `PoolIsReleased`, `PoolHolds`,
  `DiscardIsExclusive` and the action property `CallbacksAlternate`. The invariants alone are
  not inductive: `CloseOnce`, for example, needs to know that `OnConnect` is between its
  unlock and its `tv_close` only in a state in which nobody else closes.
  `RetryInv`, inductive under `LinkInv`, yields `RetriesOnce`. That `OnDisconnect` retries at
  most once follows from no member of the socket alone: the count `nc` of the challenges is
  kept over connections, and wraps around. What rules out a second retry is that the second
  attempt begins with `nc = 1` (`SecondAttempt`), so its challenge makes it 2, and that
  `last_error_` and `nc` look like the first refusal only while the outcome of the second is
  open (`LastAttempt`).
* `SocketMessageProofs`: `MsgInv` says where a message can be in each phase of its life
  (`Fresh`, `Waiting`, `Timed`, `Starting`); it needs `LinkInv` where `OnDisconnect` cancels
  timers. It yields `SettledAtMostOnce`, `NothingIsLost`, `NothingIsLeft`.
  `OrderInv` is about the times of `Send()` and `tv_write`: what they say of the way a message
  took (`Stamped`), that `pending_messages_` is in the order of the calls (`Sorted`), and that
  all that an earlier flush has written was sent before all that is pending (`Flushed`). It
  yields `OrderKept`.
* `ServerProofs`: `ServerInv`. At its heart is `OwnedInv`: a socket in a group or in the hands
  of the application is in the pool or has gone through `LeaveAll`, and after `LeaveAll` it is
  in a group only if the application joined it again. `ClearInv` and `ClosedInv` carry it over
  `pool_.clear()` and over the removal in `Release`; `UnmadeInv`, `ToldInv`, `ChallengedInv` and
  `CountInv` say what is known of a socket before its `OnConnect` and that the pool counts the
  handler's connections; `ShakenInv` that `handshaking_` is set only while libtv has not
  completed the handshake. They yield `ServerTypeCorrect`, `StopLeavesNothing`, `ClosedIsLeft`,
  `ToldBeforeUntold` and, with the cardinality of finite sets, the action property `LimitHolds`.
  Assumed: the set of sockets is finite and limits are natural numbers. No run lists the
  properties of the last two (`DisconnectAfterConnect`, `LimitRespected`): `ImplementsHosting`
  says the same of the contract. `ServerImplementsHosting` is the refinement `Spec =>
  ImplementsHosting`. Under `ServerInv` and `HostInv` each action maps to a step of `Hosting` or
  a stutter. `HostInv` adds what the callbacks leave behind: a reported socket is over and no
  callback is about it (`ReportedInv`), an idle loop is about no socket (`IdleInv`), the pool
  has a closed socket only inside its `Release` (`PoolInv`), between the two steps of `OnRead`
  the connection does not finish, and what was read of `handshaking_` tells if it was
  established (`EofInv`), and every live socket has an owner (`ReferencedInv`). From the last it
  follows that a `Reap` takes only what the step itself has let go of; from `PoolInv`, that a
  `Stop()` lets go only of connections that are not over yet; and from `CountInv` and `IdleInv`,
  that what the contract's limit counts is in the pool when a connection is accepted.

* `SocketRpcProofs`: `SocketImplementsRpc`, the refinement `Spec => ImplementsRpc`. Initial
  states map to initial states, and each action maps to a step of `Rpc` or a stutter under
  `LinkInv`, `MsgInv` and `RpcInv`. `RpcInv` adds that an `OnDisconnect` is owed wherever the
  socket accepts, writes or reports a message (`OwedInv`, `FlightInv`, `TimersInv`), where a
  torn message is not (`TornInv`), and that nothing is left when the handler is told
  (`EmptyInv`).
* `MessagesProofs`. `ValuesInv`: as long as nothing was read from a cleared zone, every any lies
  in its own zone and reads as what it was last given, and the received object lies in the
  unpacker's (`OwnZones`). Burying another zone does not touch such an any (`BuryKeeps`), and a
  copy into a zone lies in that zone and has the content of its source (`CopyKeeps`), however
  deep the object is. It yields `AnysAreValues` and `OptionalIsLast`; assumed is only that an any
  is not one of the markers for the other zones (`AnysAssumption`).
  `TimerInv` relates `state_`, the handle, what `callback_` and `args_` hold
  and the position of an expiry (`CallbackInv`, `CancelledInv`, `OnceInv`). It yields
  `TimerHandlesOwned` and `TimerOneShot`.
  `WireInv` has two halves. `CallInv` holds as long as no id clashes: two calls that are open
  (in the list, armed, with the peer or in a response on the wire) have different ids
  (`DistinctIds`), a response carries the id of its call (`ResponseInv`), the calls sent so far
  are numbered without a gap (`SentInv`), and the list has each call once and alive
  (`ListInv`). So the first timer with an id is the only one, and what `OnRequestTimeout` takes
  out of the list is what it deletes. `StreamInv` holds as long as no connection is torn: the
  fragments in the unpacker followed by those on their way are whole messages of this
  connection, wherever a read has cut them. They yield `CallsGetTheirAnswers` and
  `MessagesAreWhole`. `UseInv`, inductive under `WireInv`, follows the timer of a `Send()` under
  way: `OnRead` waits for the mutex that `Send()` holds, so what has been read before it holds no
  response to the call (`UnreadInv`), a timer that fires is another one (`SendingInv`), and so only
  the write of the call itself, or garbled bytes, can delete the timer that is about to be started
  (`AliveInv`). It yields `ListedTimersLive`.
* `ProcessProofs`. `ClientInv`: a connection keeps an owner because the client's pool has it
  (`RetainInv`), and keeps it there because a socket that is connected when `OnDisconnect`
  comes to `Release` is one that connected early (`ReleaseInv`). It yields `ClientRetains`.
  `LogInv`: no two sinks share a target (`TargetInv`), and the flag of a sink, which `Print`
  and `Disable*` read without its mutex, agrees with its target outside of the two steps of a
  change (`AgreeInv`) unless two threads change it at the same time, which has been noticed
  (`ContendedInv`). It yields `LogTargetsAreLive`.
* `DigestProofs`: `DigestInv`. The pool has the contexts of its nonces, and on one event loop
  no authorization runs while a nonce expires (`PoolInv`); no two clients are told the same
  nonce (`UniqueInv`); a nonce that has authorised is not in the pool (`SpentInv`). For a client
  that knows the password `ChallengedInv` follows the nonce of its last challenge from the
  answer to the next header and back to the server: it can be used until it comes back or
  expires. `BasicInv` says the same of a password. They yield `DigestTypes`,
  `NoExpiryIsStale`, `AnnouncedNoncesExpire` and the action properties
  `NoncesAuthoriseOnce` and `RefusalsHaveACause`.
  `DigestImplementsAdmission` is the refinement `Spec => ImplementsAdmission`: under
  `DigestInv` and `GateInv` each action maps to a step of `Admission` or a stutter. `GateInv` adds
  where a header comes from: it was made with the name and the password of the client's own
  configuration, also one that an earlier connection has left behind (`Made`), and the handler
  is only shown a header of the type the server asks for (`VerdictInv`). From the first follows
  that a verdict of `VALID` means a known user (`OnlyKnown`); from the second that `valid_nonce`
  was part of the verdict (`DigestVerdict`).

The invariants were model-checked before they were proved. Only model-checked: liveness
(`RequestSettles`, `DisconnectCompletes`, `StopDisconnects`, `ConnectReported`, `NonceLapses`,
`CallReported`), since it rests on fairness, which the prover does not handle; and
`OrderAgrees`, whose proof would be an induction over the printed tree.

## Not modelled, and the plan

Not modelled: addresses, error codes and their texts, the SSL context and certificates (calls
into OpenSSL or the resolver, no control of their own); socket options and the limits of
libtv's send buffer; the level and format of a log line; `condition_variable`, which the
library does not use; libtv and msgpack (external); the samples. Noted as hazards without a
property: `OnAccept` calls the handler with the server's mutex held, so a handler that calls
`Stop()` from `OnConnect` blocks itself; a connection that arrives while the server is being
stopped is left to libtv; a WebSocket server socket whose handshake completes after a
`Disconnect()` is CONNECTED again and may close its handle twice. Not covered either: `SetMaxSendBufferSize` uses `stream_` without
the mutex, and `stream_` is not reset when the handle is freed.

The plan is carried out. What would come next is a model of the sending side of the message
layer down to the bytes of msgpack, which needs a model of that library.

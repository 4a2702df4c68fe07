--------------------------- MODULE ProcessProofs ---------------------------
(***************************************************************************)
(* Proofs about Client and Log, for any number of sockets and of threads:  *)
(* no connection of a living client ends without a report (NoSilentEnd),   *)
(* and no line is written to a target that was closed or withdrawn         *)
(* (LogTargetsLive).                                                       *)
(***************************************************************************)
EXTENDS Client, Log, TLAPS

----------------------------------------------------------------------------
(* The client.  A connection keeps an owner because the client's pool has  *)
(* it (RetainInv), and the pool keeps it because Release never takes out a *)
(* connected socket: one that is connected while OnDisconnect has still to *)
(* release it is one that connected early (ReleaseInv).                    *)

\* Who is connected when OnDisconnect comes to Release has connected in between.
ReleaseInv == \A s \in ClientSockets : Unreleased(s) /\ link[s] \in Connected => s \in early

\* The pool of a living client has every socket with a connection.
RetainInv ==
    ClientLives => \A s \in ClientSockets \ early : link[s] \in Connected => s \in retained

ClientInv == ClientTypeOK /\ NoSilentEnd /\ RetainInv /\ ReleaseInv

\* Type correctness is kept by what Settle assigns.
LEMMA SettleTypes ==
    ASSUME NEW pool \in SUBSET ClientSockets,
           NEW links \in [ClientSockets -> Living \cup {"none", "gone"}],
           silent \subseteq ClientSockets, Settle(pool, links)
    PROVE  /\ retained' \subseteq ClientSockets /\ silent' \subseteq ClientSockets
           /\ link' \in [ClientSockets -> Living \cup {"none", "gone"}]
BY DEF Settle

\* Every step of the client keeps the invariant.
LEMMA ClientStepInv ==
    ASSUME ClientInv, [ClientNext]_clientVars
    PROVE  ClientInv'
<1> USE DEF Living, Connected
<1>0. ClientTypeOK /\ NoSilentEnd /\ RetainInv /\ ReleaseInv
  BY DEF ClientInv
<1>1. CASE UNCHANGED clientVars
  BY <1>1 DEF ClientInv, ClientTypeOK, RetainInv, NoSilentEnd, ReleaseInv, clientVars,
              ClientLives, Unreleased
<1>2. CASE LetClientGo
  <2>1. ClientTypeOK'
    BY <1>0, <1>2, SettleTypes DEF LetClientGo, ClientTypeOK
  <2>2. (RetainInv /\ NoSilentEnd)'
    BY <1>0, <1>2 DEF Settle, Owned, LetClientGo, ClientTypeOK, RetainInv, NoSilentEnd, ClientLives
  <2>3. ReleaseInv'
    BY <1>0, <1>2 DEF Settle, LetClientGo, ClientTypeOK, ReleaseInv, Unreleased
  <2> QED BY <2>1, <2>2, <2>3 DEF ClientInv
<1>3. CASE LetHandlerGo
  BY <1>0, <1>3 DEF LetHandlerGo, ClientInv, ClientTypeOK, RetainInv, NoSilentEnd, ReleaseInv,
                    ClientLives, Unreleased
<1>4. CASE HandlerReturns
  <2>0. /\ turn' = NobodysTurn /\ UNCHANGED <<retries, clientHeld, handlerHeld, kept, early>>
        /\ Settle(retained, link)
    BY <1>4 DEF HandlerReturns, TurnEnds, holders
  <2>1. ClientTypeOK'
    BY <1>0, <2>0, SettleTypes DEF ClientTypeOK, NobodysTurn
  <2>2. (RetainInv /\ NoSilentEnd)'
    BY <1>0, <2>0 DEF Settle, Owned, ClientTypeOK, RetainInv, NoSilentEnd, ClientLives, NobodysTurn
  <2>3. ReleaseInv'
    BY <2>0 DEF ReleaseInv, Unreleased, NobodysTurn
  <2> QED BY <2>1, <2>2, <2>3 DEF ClientInv
<1>5. ASSUME NEW s \in ClientSockets, CreateSocket(s)
      PROVE  ClientInv'
  <2>0. /\ link[s] = "none" /\ kept' = kept \cup {s}
        /\ UNCHANGED <<retries, clientHeld, handlerHeld, turn, early>>
        /\ Settle(retained, [link EXCEPT ![s] = "idle"])
    BY <1>5 DEF CreateSocket, NewSocket, holders
  <2>1. ClientTypeOK'
    BY <1>0, <2>0, SettleTypes DEF ClientTypeOK
  <2>2. (RetainInv /\ NoSilentEnd)'
    BY <1>0, <2>0 DEF Settle, Owned, ClientTypeOK, RetainInv, NoSilentEnd, ClientLives
  <2>3. ReleaseInv'
    BY <1>0, <2>0 DEF Settle, ClientTypeOK, ReleaseInv, Unreleased
  <2> QED BY <2>1, <2>2, <2>3 DEF ClientInv
<1>6. ASSUME NEW s \in ClientSockets, LetSocketGo(s)
      PROVE  ClientInv'
  <2>0. /\ kept' = kept \ {s} /\ Settle(retained, link)
        /\ UNCHANGED <<retries, clientHeld, handlerHeld, turn, early>>
    BY <1>6 DEF LetSocketGo, holders
  <2>1. ClientTypeOK'
    BY <1>0, <2>0, SettleTypes DEF ClientTypeOK
  <2>2. (RetainInv /\ NoSilentEnd)'
    BY <1>0, <2>0 DEF Settle, Owned, ClientTypeOK, RetainInv, NoSilentEnd, ClientLives
  <2>3. ReleaseInv'
    BY <1>0, <2>0 DEF Settle, ClientTypeOK, ReleaseInv, Unreleased
  <2> QED BY <2>1, <2>2, <2>3 DEF ClientInv
<1>7. ASSUME NEW s \in ClientSockets, KeepSocket(s)
      PROVE  ClientInv'
  BY <1>0, <1>7 DEF KeepSocket, holders, ClientInv, ClientTypeOK, RetainInv, NoSilentEnd,
                    ReleaseInv, ClientLives, Unreleased
<1>8. ASSUME NEW s \in ClientSockets, ConnectSocket(s)
      PROVE  ClientInv'
  <2>0. /\ link[s] = "idle"
        /\ UNCHANGED <<retries, clientHeld, handlerHeld, kept, turn>>
        /\ Settle(Retain(s), [link EXCEPT ![s] = "open"])
        /\ early' = IF Unreleased(s) THEN early \cup {s} ELSE early \ {s}
    BY <1>8 DEF ConnectSocket, Connects, holders
  <2>1. ClientTypeOK'
    <3>1. Retain(s) \in SUBSET ClientSockets
      BY <1>0 DEF Retain, ClientTypeOK
    <3>2. [link EXCEPT ![s] = "open"] \in [ClientSockets -> Living \cup {"none", "gone"}]
      BY <1>0 DEF ClientTypeOK
    <3> QED BY <1>0, <2>0, <3>1, <3>2, SettleTypes DEF ClientTypeOK
  <2>2. (RetainInv /\ NoSilentEnd)'
    BY <1>0, <2>0 DEF Settle, Owned, ClientTypeOK, RetainInv, NoSilentEnd, ClientLives, Retain
  <2>3. ReleaseInv'
    BY <1>0, <2>0 DEF Settle, ClientTypeOK, ReleaseInv, Unreleased
  <2> QED BY <2>1, <2>2, <2>3 DEF ClientInv
<1>9. ASSUME NEW s \in ClientSockets, ConnectSocketFails(s)
      PROVE  ClientInv'
  <2>0. /\ link[s] = "idle"
        /\ UNCHANGED <<retries, clientHeld, handlerHeld, kept, turn, early>>
        /\ Settle(IF ClientLives THEN retained \ {s} ELSE retained, link)
    BY <1>9 DEF ConnectSocketFails, holders
  <2>1. ClientTypeOK'
    BY <1>0, <2>0, SettleTypes DEF ClientTypeOK
  <2>2. (RetainInv /\ NoSilentEnd)'
    BY <1>0, <2>0 DEF Settle, Owned, ClientTypeOK, RetainInv, NoSilentEnd, ClientLives
  <2>3. ReleaseInv'
    BY <1>0, <2>0 DEF Settle, ClientTypeOK, ReleaseInv, Unreleased
  <2> QED BY <2>1, <2>2, <2>3 DEF ClientInv
<1>10. ASSUME NEW s \in ClientSockets, DisconnectSocket(s) \/ PeerDisconnects(s)
       PROVE  ClientInv'
  BY <1>0, <1>10 DEF DisconnectSocket, PeerDisconnects, holders, ClientInv, ClientTypeOK,
                     RetainInv, NoSilentEnd, ReleaseInv, ClientLives, Unreleased
<1>11. ASSUME NEW s \in ClientSockets, HandlerCalled(s)
       PROVE  ClientInv'
  BY <1>0, <1>11 DEF HandlerCalled, holders, ClientInv, ClientTypeOK,
                     RetainInv, NoSilentEnd, ReleaseInv, ClientLives, Unreleased
<1>12. ASSUME NEW s \in ClientSockets, SocketClosed(s)
       PROVE  ClientInv'
  BY <1>0, <1>12 DEF SocketClosed, holders, ClientInv, ClientTypeOK,
                     RetainInv, NoSilentEnd, ReleaseInv, ClientLives, Unreleased
<1>13. ASSUME NEW s \in ClientSockets, ReleaseSocket(s)
       PROVE  ClientInv'
  <2>0. /\ Unreleased(s) /\ UNCHANGED <<retries, clientHeld, handlerHeld, kept, early>>
        /\ turn' = [turn EXCEPT !.at = "released", !.locked = ClientLives]
        /\ Settle(IF ClientLives THEN retained \ {s} ELSE retained, link)
    BY <1>13 DEF ReleaseSocket, holders
  <2>1. ClientTypeOK'
    BY <1>0, <2>0, SettleTypes DEF ClientTypeOK, ClientLives
  <2>2. (RetainInv /\ NoSilentEnd)'
    <3>1. ClientLives' => ClientLives
      BY <1>0, <2>0 DEF ClientLives, ClientTypeOK
    <3> QED BY <1>0, <2>0, <3>1
               DEF Settle, Owned, ClientTypeOK, RetainInv, NoSilentEnd, ReleaseInv
  <2>3. ReleaseInv'
    BY <1>0, <2>0 DEF ClientTypeOK, ReleaseInv, Unreleased
  <2> QED BY <2>1, <2>2, <2>3 DEF ClientInv
<1>14. ASSUME NEW s \in ClientSockets, RetryConnect(s)
       PROVE  ClientInv'
  <2>0. PICK pool, links :
          /\ turn' = NobodysTurn /\ UNCHANGED <<retries, clientHeld, handlerHeld, kept>>
          /\ Settle(pool, links)
          /\ \/ /\ pool = Retain(s) /\ links = [link EXCEPT ![s] = "open"]
                /\ early' = early \ {s}
             \/ link[s] = "idle" /\ pool = retained \ {s} /\ links = link /\ early' = early
             \/ pool = retained /\ links = link /\ early' = early
    BY <1>14 DEF RetryConnect, TurnEnds, holders
  <2>1. ClientTypeOK'
    <3>1. pool \in SUBSET ClientSockets /\ links \in [ClientSockets -> Living \cup {"none", "gone"}]
      BY <1>0, <2>0 DEF ClientTypeOK, Retain
    <3> QED BY <1>0, <2>0, <3>1, SettleTypes DEF ClientTypeOK, NobodysTurn
  <2>2. (RetainInv /\ NoSilentEnd)'
    <3>1. ClientLives' => ClientLives
      BY <2>0 DEF ClientLives, NobodysTurn
    <3> QED BY <1>0, <2>0, <3>1 DEF Settle, Owned, ClientTypeOK, RetainInv, NoSilentEnd, Retain
  <2>3. ReleaseInv'
    BY <2>0 DEF ReleaseInv, Unreleased, NobodysTurn
  <2> QED BY <2>1, <2>2, <2>3 DEF ClientInv
<1>15. ASSUME NEW s \in ClientSockets, ReportDisconnect(s)
       PROVE  ClientInv'
  <2>1. CASE turn.locked /\ handlerHeld
    BY <1>0, <1>15, <2>1 DEF ReportDisconnect, holders, ClientInv, ClientTypeOK,
                     RetainInv, NoSilentEnd, ReleaseInv, ClientLives, Unreleased
  <2>2. CASE ~(turn.locked /\ handlerHeld)
    <3>0. /\ turn' = NobodysTurn /\ UNCHANGED <<retries, clientHeld, handlerHeld, kept, early>>
          /\ Settle(retained, link)
      BY <1>15, <2>2 DEF ReportDisconnect, TurnEnds, holders
    <3>1. ClientTypeOK'
      BY <1>0, <3>0, SettleTypes DEF ClientTypeOK, NobodysTurn
    <3>2. (RetainInv /\ NoSilentEnd)'
      BY <1>0, <3>0 DEF Settle, Owned, ClientTypeOK, RetainInv, NoSilentEnd, ClientLives, NobodysTurn
    <3>3. ReleaseInv'
      BY <3>0 DEF ReleaseInv, Unreleased, NobodysTurn
    <3> QED BY <3>1, <3>2, <3>3 DEF ClientInv
  <2> QED BY <2>1, <2>2
<1> QED
  BY <1>1, <1>2, <1>3, <1>4, <1>5, <1>6, <1>7, <1>8, <1>9, <1>10, <1>11, <1>12, <1>13, <1>14,
     <1>15 DEF ClientNext

\* The invariant of the client, its types and the retained sockets together.
THEOREM ClientInvariant == ClientSpec => []ClientInv
<1>1. ClientInit => ClientInv
  BY DEF ClientInit, ClientInv, ClientTypeOK, RetainInv, NoSilentEnd, ReleaseInv, Unreleased,
         NobodysTurn, Living, Connected
<1> QED BY <1>1, ClientStepInv, PTL DEF ClientSpec

\* HandlerDelegate::Retain and Release keep an owner for every connected socket of a living
\* client, whatever the application lets go and on whichever thread, except for one that
\* connects between OnDisconnect's unlock and its Release.
THEOREM ClientRetains == ClientSpec => []NoSilentEnd
<1>1. ClientInv => NoSilentEnd
  BY DEF ClientInv
<1> QED BY <1>1, ClientInvariant, PTL

----------------------------------------------------------------------------
(* The log.                                                                *)

\* Thread t changes sink s, or is going to in the same call.
Alters(t, s) == call[t].op \in Changing /\ \E i \in DOMAIN call[t].rest : call[t].rest[i] = s

\* The types of the log.
LogTypeOK ==
    /\ flag \in [Sinks -> BOOLEAN] /\ target \in [Sinks -> Nat] /\ enables \in Nat
    /\ call = [t \in Threads |-> call[t]]
    /\ \A t \in Threads :
        /\ call[t].op \in {"idle", "enable", "disable", "cleared", "print", "write"}
        /\ call[t].op # "idle" => call[t].rest \in Seq(Sinks) /\ Len(call[t].rest) >= 1
        /\ call[t].op = "enable" => Len(call[t].rest) = 1 /\ call[t].enabled \in BOOLEAN

\* Every target is used by one sink at most, and the closed ones by none.
TargetInv ==
    /\ \A s \in Sinks : target[s] <= enables /\ target[s] \notin closed
    /\ \A s, u \in Sinks : s # u /\ target[s] # NoTarget => target[s] # target[u]
    /\ closed \subseteq 1 .. enables /\ withdrawn \subseteq 1 .. enables

\* Two threads that change a sink at the same time have been noticed when the second began.
ContendedInv ==
    \A t, u \in Threads : \A s \in Sinks :
        t # u /\ Alters(t, s) /\ Alters(u, s) => s \in contended

\* Thread t has changed the target of sink s and not yet its flag.
Halfway(t, s) ==
    Alters(t, s) /\ Current(t) = s /\ call[t].op \in {"enable", "cleared"}

\* The flag of a sink that no two threads have changed at the same time says whether it has
\* a target, except between the two steps of a change, and so what a Disable lets be has no
\* target.
AgreeInv ==
    \A s \in Sinks \ contended :
        /\ target[s] \notin withdrawn
        /\ (\A t \in Threads : ~Halfway(t, s)) => (flag[s] <=> target[s] # NoTarget)
        /\ \A t \in Threads : Halfway(t, s) =>
            /\ call[t].op = "enable" => (call[t].enabled <=> target[s] # NoTarget)
            /\ call[t].op = "cleared" => target[s] = NoTarget

LogInv == LogTypeOK /\ TargetInv /\ ContendedInv /\ AgreeInv /\ LogTargetsLive

\* The invariant holds of a new process.
LEMMA LogInitInv == LogInit => LogInv
<1> SUFFICES ASSUME LogInit
             PROVE  LogInv
  OBVIOUS
<1>1. LogTypeOK
  BY DEF LogInit, LogTypeOK, NoTarget, Idle
<1>2. TargetInv /\ LogTargetsLive
  BY DEF LogInit, TargetInv, LogTargetsLive, NoTarget
<1>3. \A t \in Threads : \A s \in Sinks : ~Alters(t, s)
  BY DEF LogInit, Alters, Idle, Changing
<1>4. ContendedInv
  BY <1>3 DEF ContendedInv
<1>5. AgreeInv
  BY <1>3 DEF AgreeInv, LogInit, Halfway
<1> QED
  BY <1>1, <1>2, <1>4, <1>5 DEF LogInv

\* A thread in a call has a sink to deal with.
LEMMA CurrentSink ==
  ASSUME LogTypeOK, NEW t \in Threads, call[t].op # "idle"
  PROVE  /\ Current(t) \in Sinks
         /\ call[t].op \in Changing => Alters(t, Current(t))
BY DEF LogTypeOK, Current, Alters

\* A call that goes on, or returns, alters no sink that it did not alter before.
LEMMA AdvanceKeeps ==
  ASSUME LogTypeOK, NEW t \in Threads, NEW op \in {"enable", "disable", "print"},
         call[t].op # "idle", call[t].op \in Changing <=> op \in Changing,
         op = "enable" => call[t].op = "enable", Advance(t, op)
  PROVE  /\ call' = [u \in Threads |-> call'[u]]
         /\ \A u \in Threads \ {t} : call'[u] = call[u]
         /\ \A s \in Sinks : Alters(t, s)' => Alters(t, s)
         /\ call'[t].op \in {"idle", op} \ {"enable"}
         /\ call'[t].op # "idle" => call'[t].rest \in Seq(Sinks) /\ Len(call'[t].rest) >= 1
<1>1. CASE Len(call[t].rest) = 1
  BY <1>1 DEF Advance, LogTypeOK, Idle, Alters, Changing
<1>2. CASE Len(call[t].rest) # 1
  <2> DEFINE r == call[t].rest
  <2>1. r \in Seq(Sinks) /\ Len(r) >= 2
    <3>1. r \in Seq(Sinks) /\ Len(r) >= 1
      BY DEF LogTypeOK
    <3>2. Len(r) # 1
      BY <1>2
    <3> HIDE DEF r
    <3>3. Len(r) \in Nat
      BY <3>1
    <3>4. \A n \in Nat : n >= 1 /\ n # 1 => n >= 2
      OBVIOUS
    <3> QED
      BY <3>1, <3>2, <3>3, <3>4, Zenon
  <2>2. /\ Tail(r) \in Seq(Sinks) /\ Len(Tail(r)) = Len(r) - 1
        /\ \A i \in 1 .. Len(r) - 1 : Tail(r)[i] = r[i + 1]
    BY <2>1
  <2>3. call' = [call EXCEPT ![t] = [op |-> op, rest |-> Tail(r)]]
    BY <1>2 DEF Advance, Goes, LogTypeOK
  <2>4. call'[t].op = op /\ call'[t].rest = Tail(r)
    BY <2>3 DEF LogTypeOK
  <2>5. op # "enable"
    BY <1>2 DEF LogTypeOK
  <2>6. ASSUME NEW s \in Sinks, Alters(t, s)'
        PROVE  Alters(t, s)
    <3> PICK i \in 1 .. Len(r) - 1 : Tail(r)[i] = s
      BY <2>1, <2>2, <2>4, <2>6 DEF Alters
    <3>1. i + 1 \in DOMAIN r /\ r[i + 1] = s
      BY <2>1, <2>2
    <3> QED
      BY <2>4, <2>6, <3>1 DEF Alters
  <2> HIDE DEF r
  <2>7. /\ call' = [u \in Threads |-> call'[u]]
        /\ \A u \in Threads \ {t} : call'[u] = call[u]
    BY <2>3 DEF LogTypeOK
  <2> QED
    BY <2>1, <2>2, <2>4, <2>5, <2>6, <2>7
<1> QED
  BY <1>1, <1>2

\* A step that changes no target and leaves no sink half changed by more threads, or fewer,
\* than before, unless the flag agrees.
LEMMA CallKeeps ==
  ASSUME LogInv, NEW t \in Threads, UNCHANGED <<target, closed, enables>>,
         call' = [u \in Threads |-> call'[u]],
         \A u \in Threads \ {t} : call'[u] = call[u],
         contended \subseteq contended',
         \A s \in Sinks \ contended' : Alters(t, s)' =>
            Alters(t, s) \/ \A u \in Threads \ {t} : ~Alters(u, s)
  PROVE  /\ (withdrawn' \subseteq 1 .. enables) => TargetInv'
         /\ ContendedInv'
         /\ \A u \in Threads \ {t} : \A s \in Sinks :
                (Alters(u, s)' <=> Alters(u, s)) /\ (Halfway(u, s)' <=> Halfway(u, s))
<1>1. (withdrawn' \subseteq 1 .. enables) => TargetInv'
  BY DEF LogInv, TargetInv
<1>2. \A u \in Threads \ {t} : \A s \in Sinks :
         (Alters(u, s)' <=> Alters(u, s)) /\ (Halfway(u, s)' <=> Halfway(u, s))
  BY DEF Alters, Halfway, Current
<1>3. ContendedInv'
  <2> SUFFICES ASSUME NEW u \in Threads, NEW v \in Threads, NEW s \in Sinks, u # v,
                      Alters(u, s)', Alters(v, s)'
               PROVE  s \in contended'
    BY DEF ContendedInv
  <2>1. CASE u # t /\ v # t
    BY <1>2, <2>1 DEF LogInv, ContendedInv
  <2>2. CASE u = t
    BY <1>2, <2>2 DEF LogInv, ContendedInv
  <2>3. CASE v = t
    BY <1>2, <2>3 DEF LogInv, ContendedInv
  <2> QED
    BY <2>1, <2>2, <2>3
<1> QED
  BY <1>1, <1>2, <1>3

\* A sink is given a new target.
LEMMA EnableSinkInv ==
  ASSUME LogInv, NEW t \in Threads, NEW s \in Sinks, NEW new \in {enables + 1, NoTarget},
         EnableSink(t, s, new)
  PROVE  LogInv'
<1>1. /\ call[t].op = "idle" /\ enables' = enables + 1
      /\ target' = [target EXCEPT ![s] = new]
      /\ call' = [call EXCEPT ![t] = [op |-> "enable", rest |-> <<s>>, enabled |-> new # NoTarget]]
      /\ Changes(t, <<s>>)
      /\ UNCHANGED <<flag, closed, withdrawn, misused, surprising>>
  BY DEF EnableSink
<1>2. /\ call'[t].op = "enable" /\ call'[t].rest = <<s>>
      /\ call'[t].enabled \in BOOLEAN /\ (call'[t].enabled <=> new # NoTarget)
      /\ call' = [u \in Threads |-> call'[u]]
      /\ \A u \in Threads \ {t} : call'[u] = call[u]
  BY <1>1 DEF LogInv, LogTypeOK
<1>3. /\ \A u \in Threads \ {t} : \A x \in Sinks :
            (Alters(u, x)' <=> Alters(u, x)) /\ (Halfway(u, x)' <=> Halfway(u, x))
      /\ \A x \in Sinks : (Alters(t, x)' <=> x = s) /\ ~Alters(t, x) /\ ~Halfway(t, x)
      /\ Halfway(t, s)' /\ \A x \in Sinks : Halfway(t, x)' => x = s
  BY <1>1, <1>2 DEF Alters, Halfway, Current, Changing
<1>4. contended \subseteq contended' /\ \A u \in Threads \ {t} : Alters(u, s) => s \in contended'
  BY <1>1 DEF Changes, Alters
<1>5. LogTypeOK'
  <2>1. enables' \in Nat /\ flag' \in [Sinks -> BOOLEAN] /\ target' \in [Sinks -> Nat]
    BY <1>1 DEF LogInv, LogTypeOK, NoTarget
  <2>2. /\ call'[t].rest \in Seq(Sinks) /\ Len(call'[t].rest) = 1
        /\ Len(call'[t].rest) >= 1
    BY <1>2
  <2>3. ASSUME NEW u \in Threads
        PROVE  /\ call'[u].op \in {"idle", "enable", "disable", "cleared", "print", "write"}
               /\ call'[u].op # "idle" => call'[u].rest \in Seq(Sinks) /\ Len(call'[u].rest) >= 1
               /\ call'[u].op = "enable" => Len(call'[u].rest) = 1 /\ call'[u].enabled \in BOOLEAN
    <3>1. CASE u = t
      BY <1>2, <2>2, <3>1, Zenon
    <3>2. CASE u # t
      BY <1>2, <3>2 DEF LogInv, LogTypeOK
    <3> QED
      BY <3>1, <3>2
  <2> QED
    BY <1>2, <2>1, <2>3 DEF LogTypeOK
<1>6. TargetInv'
  BY <1>1 DEF LogInv, LogTypeOK, TargetInv, NoTarget
<1>7. ContendedInv'
  BY <1>3, <1>4 DEF LogInv, ContendedInv
<1>8. AgreeInv'
  <2> SUFFICES ASSUME NEW x \in Sinks \ contended'
               PROVE  /\ target'[x] \notin withdrawn'
                      /\ (\A u \in Threads : ~Halfway(u, x)') => (flag'[x] <=> target'[x] # NoTarget)
                      /\ \A u \in Threads : Halfway(u, x)' =>
                          /\ call'[u].op = "enable" => (call'[u].enabled <=> target'[x] # NoTarget)
                          /\ call'[u].op = "cleared" => target'[x] = NoTarget
    BY DEF AgreeInv
  <2>1. CASE x = s
    <3>1. target'[x] = new /\ new \notin withdrawn
      BY <1>1, <2>1 DEF LogInv, LogTypeOK, TargetInv, NoTarget
    <3>2. \A u \in Threads \ {t} : ~Halfway(u, x)'
      BY <1>3, <1>4, <2>1 DEF Halfway
    <3> QED
      BY <1>1, <1>2, <1>3, <2>1, <3>1, <3>2
  <2>2. CASE x # s
    <3>1. x \notin contended /\ target'[x] = target[x] /\ flag'[x] = flag[x]
      BY <1>1, <1>4, <2>2 DEF LogInv, LogTypeOK
    <3>2. \A u \in Threads : Halfway(u, x)' => u # t /\ Halfway(u, x)
      BY <1>3, <2>2
    <3>3. (\A u \in Threads : ~Halfway(u, x)') => \A u \in Threads : ~Halfway(u, x)
      BY <1>3
    <3> QED
      BY <1>1, <1>2, <3>1, <3>2, <3>3 DEF LogInv, AgreeInv
  <2> QED
    BY <2>1, <2>2
<1>9. LogTargetsLive'
  BY <1>1, <1>4 DEF LogInv, LogTargetsLive
<1> QED
  BY <1>5, <1>6, <1>7, <1>8, <1>9 DEF LogInv

\* A flag is set to what Enable has returned.
LEMMA EnableReturnsInv ==
  ASSUME LogInv, NEW t \in Threads, EnableReturns(t)
  PROVE  LogInv'
<1> DEFINE s == Current(t)
<1>1. /\ call[t].op = "enable" /\ flag' = [flag EXCEPT ![s] = call[t].enabled]
      /\ Advance(t, "enable")
      /\ UNCHANGED <<target, closed, enables, contended, withdrawn, misused, surprising>>
  BY DEF EnableReturns, logHistory
<1>2. s \in Sinks /\ Halfway(t, s) /\ call[t].enabled \in BOOLEAN
  BY <1>1, CurrentSink DEF LogInv, LogTypeOK, Halfway, Changing
<1> HIDE DEF s
<1>3. /\ call' = [u \in Threads |-> call'[u]]
      /\ \A u \in Threads \ {t} : call'[u] = call[u]
      /\ \A x \in Sinks : Alters(t, x)' => Alters(t, x)
      /\ call'[t].op = "idle"
  BY <1>1, AdvanceKeeps DEF LogInv, Changing
<1>4. TargetInv' /\ ContendedInv'
      /\ \A u \in Threads \ {t} : \A x \in Sinks :
            (Alters(u, x)' <=> Alters(u, x)) /\ (Halfway(u, x)' <=> Halfway(u, x))
  BY <1>1, <1>3, CallKeeps DEF LogInv, TargetInv
<1>5. LogTypeOK'
  BY <1>1, <1>2, <1>3 DEF LogInv, LogTypeOK
<1>6. AgreeInv'
  <2> SUFFICES ASSUME NEW x \in Sinks \ contended
               PROVE  /\ target[x] \notin withdrawn
                      /\ (\A u \in Threads : ~Halfway(u, x)') => (flag'[x] <=> target[x] # NoTarget)
                      /\ \A u \in Threads : Halfway(u, x)' =>
                          /\ call'[u].op = "enable" => (call'[u].enabled <=> target[x] # NoTarget)
                          /\ call'[u].op = "cleared" => target[x] = NoTarget
    BY <1>1 DEF AgreeInv
  <2>1. \A u \in Threads : Halfway(u, x)' => u # t /\ Halfway(u, x) /\ call'[u] = call[u]
    BY <1>3, <1>4 DEF Halfway
  <2>2. CASE x = s
    BY <1>1, <1>2, <2>1, <2>2 DEF LogInv, LogTypeOK, AgreeInv
  <2>3. CASE x # s
    <3>1. flag'[x] = flag[x] /\ ~Halfway(t, x)
      BY <1>1, <2>3 DEF LogInv, LogTypeOK, Halfway, s
    <3> QED
      BY <1>4, <2>1, <3>1 DEF LogInv, AgreeInv
  <2> QED
    BY <2>2, <2>3
<1>7. LogTargetsLive'
  BY <1>1 DEF LogInv, LogTargetsLive
<1> QED
  BY <1>4, <1>5, <1>6, <1>7 DEF LogInv

\* A call of Disable begins.
LEMMA DisableBeginsInv ==
  ASSUME LogInv, NEW t \in Threads, NEW sinks \in Seq(Sinks), Len(sinks) >= 1,
         DisableBegins(t, sinks)
  PROVE  LogInv'
<1>1. /\ call[t].op = "idle" /\ call' = [call EXCEPT ![t] = [op |-> "disable", rest |-> sinks]]
      /\ Changes(t, sinks)
      /\ UNCHANGED <<flag, target, closed, enables, withdrawn, misused, surprising>>
  BY DEF DisableBegins, Goes
<1>2. /\ call'[t].op = "disable" /\ call'[t].rest = sinks
      /\ call' = [u \in Threads |-> call'[u]]
      /\ \A u \in Threads \ {t} : call'[u] = call[u]
  BY <1>1 DEF LogInv, LogTypeOK
<1>3. /\ contended \subseteq contended'
      /\ \A x \in Sinks \ contended' : Alters(t, x)' => \A u \in Threads \ {t} : ~Alters(u, x)
  BY <1>1, <1>2 DEF Changes, Alters
<1>4. TargetInv' /\ ContendedInv'
      /\ \A u \in Threads \ {t} : \A x \in Sinks :
            (Alters(u, x)' <=> Alters(u, x)) /\ (Halfway(u, x)' <=> Halfway(u, x))
  BY <1>1, <1>2, <1>3, CallKeeps DEF LogInv, TargetInv
<1>5. LogTypeOK'
  BY <1>1, <1>2 DEF LogInv, LogTypeOK
<1>6. \A u \in Threads : \A x \in Sinks : (Halfway(u, x)' <=> Halfway(u, x)) /\ (Halfway(u, x) => u # t)
  BY <1>1, <1>2, <1>4 DEF Halfway
<1>7. AgreeInv'
  BY <1>1, <1>2, <1>3, <1>6 DEF LogInv, AgreeInv
<1>8. LogTargetsLive'
  BY <1>1, <1>3 DEF LogInv, LogTargetsLive
<1> QED
  BY <1>4, <1>5, <1>7, <1>8 DEF LogInv

\* Disable finds that the sink is not enabled.
LEMMA DisableNothingInv ==
  ASSUME LogInv, NEW t \in Threads, DisableNothing(t)
  PROVE  LogInv'
<1> DEFINE s == Current(t)
<1>1. /\ call[t].op = "disable" /\ ~flag[s] /\ Advance(t, "disable")
      /\ withdrawn' = withdrawn \cup ({target[s]} \ {NoTarget})
      /\ UNCHANGED <<flag, target, closed, enables, contended, misused, surprising>>
  BY DEF DisableNothing
<1>2. s \in Sinks /\ Alters(t, s)
  BY <1>1, CurrentSink DEF LogInv, Changing
<1> HIDE DEF s
<1>3. /\ call' = [u \in Threads |-> call'[u]]
      /\ \A u \in Threads \ {t} : call'[u] = call[u]
      /\ \A x \in Sinks : Alters(t, x)' => Alters(t, x)
      /\ call'[t].op \in {"idle", "disable"}
      /\ call'[t].op # "idle" => call'[t].rest \in Seq(Sinks) /\ Len(call'[t].rest) >= 1
  BY <1>1, AdvanceKeeps DEF LogInv, Changing
<1>4. withdrawn' \subseteq 1 .. enables
  BY <1>1, <1>2 DEF LogInv, LogTypeOK, TargetInv, NoTarget
<1>5. TargetInv' /\ ContendedInv'
      /\ \A u \in Threads \ {t} : \A x \in Sinks :
            (Alters(u, x)' <=> Alters(u, x)) /\ (Halfway(u, x)' <=> Halfway(u, x))
  BY <1>1, <1>3, <1>4, CallKeeps
<1>6. LogTypeOK'
  BY <1>1, <1>3 DEF LogInv, LogTypeOK
<1>7. \A u \in Threads : \A x \in Sinks : (Halfway(u, x)' <=> Halfway(u, x)) /\ (Halfway(u, x) => u # t)
  BY <1>1, <1>3, <1>5 DEF Halfway
<1>8. \A x \in Sinks \ contended : target[x] \notin withdrawn'
  <2>1. s \notin contended => target[s] = NoTarget
    BY <1>1, <1>2 DEF LogInv, ContendedInv, AgreeInv, Halfway
  <2> QED
    BY <1>1, <1>2, <2>1 DEF LogInv, TargetInv, AgreeInv
<1>9. AgreeInv'
  BY <1>1, <1>3, <1>7, <1>8 DEF LogInv, AgreeInv
<1>10. LogTargetsLive'
  BY <1>1 DEF LogInv, LogTargetsLive
<1> QED
  BY <1>5, <1>6, <1>9, <1>10 DEF LogInv

\* The sink loses its target under its mutex.
LEMMA DisableSinkInv ==
  ASSUME LogInv, NEW t \in Threads, DisableSink(t)
  PROVE  LogInv'
<1> PICK s \in Sinks : s = Current(t)
  BY CurrentSink DEF DisableSink, LogInv
<1>1. /\ call[t].op = "disable" /\ flag[s]
      /\ call' = [call EXCEPT ![t] = [op |-> "cleared", rest |-> call[t].rest]]
      /\ UNCHANGED <<flag, enables, contended, withdrawn, misused, surprising>>
  BY DEF DisableSink, Goes, logHistory
<1>2. s \in Sinks /\ Alters(t, s)
  BY <1>1, CurrentSink DEF LogInv, Changing
<1>3. /\ target' = [target EXCEPT ![s] = NoTarget]
      /\ closed \subseteq closed' /\ closed' \subseteq closed \cup ({target[s]} \ {NoTarget})
  BY DEF DisableSink, CloseFile, ForgetStderr, ForgetCallback
<1>4. /\ call'[t].op = "cleared" /\ call'[t].rest = call[t].rest
      /\ call' = [u \in Threads |-> call'[u]]
      /\ \A u \in Threads \ {t} : call'[u] = call[u]
  BY <1>1 DEF LogInv, LogTypeOK
<1>5. /\ \A u \in Threads : \A x \in Sinks : Alters(u, x)' <=> Alters(u, x)
      /\ \A u \in Threads \ {t} : \A x \in Sinks : Halfway(u, x)' <=> Halfway(u, x)
  BY <1>1, <1>4 DEF Alters, Halfway, Current, Changing
<1>6. Halfway(t, s)' /\ \A x \in Sinks : ~Halfway(t, x) /\ (Halfway(t, x)' => x = s)
  BY <1>1, <1>2, <1>4, <1>5 DEF Halfway, Current
<1>7. LogTypeOK'
  BY <1>1, <1>3, <1>4 DEF LogInv, LogTypeOK, NoTarget
<1>8. TargetInv'
  <2>1. \A x \in Sinks : target'[x] = IF x = s THEN NoTarget ELSE target[x]
    BY <1>3 DEF LogInv, LogTypeOK
  <2>2. NoTarget \notin closed'
    BY <1>3 DEF LogInv, TargetInv, NoTarget
  <2> QED
    BY <1>1, <1>2, <1>3, <2>1, <2>2 DEF LogInv, LogTypeOK, TargetInv, NoTarget
<1>9. ContendedInv'
  BY <1>1, <1>5 DEF LogInv, ContendedInv
<1>10. AgreeInv'
  <2> SUFFICES ASSUME NEW x \in Sinks \ contended
               PROVE  /\ target'[x] \notin withdrawn
                      /\ (\A u \in Threads : ~Halfway(u, x)') => (flag[x] <=> target'[x] # NoTarget)
                      /\ \A u \in Threads : Halfway(u, x)' =>
                          /\ call'[u].op = "enable" => (call'[u].enabled <=> target'[x] # NoTarget)
                          /\ call'[u].op = "cleared" => target'[x] = NoTarget
    BY <1>1 DEF AgreeInv
  <2>1. CASE x = s
    <3>1. \A u \in Threads \ {t} : ~Halfway(u, x)'
      BY <1>2, <1>5, <2>1 DEF LogInv, ContendedInv, Halfway
    <3>2. target'[x] = NoTarget /\ NoTarget \notin withdrawn
      BY <1>3, <2>1 DEF LogInv, LogTypeOK, TargetInv, NoTarget
    <3>3. ~(\A u \in Threads : ~Halfway(u, x)')
      BY <1>6, <2>1, Zenon
    <3>4. \A u \in Threads : Halfway(u, x)' => u = t
      BY <3>1
    <3> QED
      BY <1>4, <3>2, <3>3, <3>4
  <2>2. CASE x # s
    <3>1. target'[x] = target[x]
      BY <1>3, <2>2 DEF LogInv, LogTypeOK
    <3>2. \A u \in Threads : Halfway(u, x)' => u # t /\ Halfway(u, x) /\ call'[u] = call[u]
      BY <1>4, <1>5, <1>6, <2>2
    <3>3. (\A u \in Threads : ~Halfway(u, x)') => \A u \in Threads : ~Halfway(u, x)
      BY <1>5, <1>6
    <3> QED
      BY <3>1, <3>2, <3>3 DEF LogInv, AgreeInv
  <2> QED
    BY <2>1, <2>2
<1>11. LogTargetsLive'
  BY <1>1 DEF LogInv, LogTargetsLive
<1> QED
  BY <1>7, <1>8, <1>9, <1>10, <1>11 DEF LogInv

\* The flag of the sink is cleared.
LEMMA DisableReturnsInv ==
  ASSUME LogInv, NEW t \in Threads, DisableReturns(t)
  PROVE  LogInv'
<1> DEFINE s == Current(t)
<1>1. /\ call[t].op = "cleared" /\ flag' = [flag EXCEPT ![s] = FALSE] /\ Advance(t, "disable")
      /\ withdrawn' = withdrawn \cup ({target[s]} \ {NoTarget})
      /\ UNCHANGED <<target, closed, enables, contended, misused, surprising>>
  BY DEF DisableReturns
<1>2. s \in Sinks /\ Halfway(t, s) /\ Alters(t, s)
  BY <1>1, CurrentSink DEF LogInv, Halfway, Changing
<1>3. \A x \in Sinks : Halfway(t, x) => x = s
  BY DEF Halfway
<1> HIDE DEF s
<1>4. /\ call' = [u \in Threads |-> call'[u]]
      /\ \A u \in Threads \ {t} : call'[u] = call[u]
      /\ \A x \in Sinks : Alters(t, x)' => Alters(t, x)
      /\ call'[t].op \in {"idle", "disable"}
      /\ call'[t].op # "idle" => call'[t].rest \in Seq(Sinks) /\ Len(call'[t].rest) >= 1
  BY <1>1, AdvanceKeeps DEF LogInv, Changing
<1>5. withdrawn' \subseteq 1 .. enables
  BY <1>1, <1>2 DEF LogInv, LogTypeOK, TargetInv, NoTarget
<1>6. TargetInv' /\ ContendedInv'
      /\ \A u \in Threads \ {t} : \A x \in Sinks :
            (Alters(u, x)' <=> Alters(u, x)) /\ (Halfway(u, x)' <=> Halfway(u, x))
  BY <1>1, <1>4, <1>5, CallKeeps
<1>7. LogTypeOK'
  BY <1>1, <1>4 DEF LogInv, LogTypeOK
<1>8. s \notin contended => target[s] = NoTarget
  BY <1>1, <1>2 DEF LogInv, AgreeInv
<1>9. \A x \in Sinks \ contended : target[x] \notin withdrawn'
  BY <1>1, <1>2, <1>8 DEF LogInv, TargetInv, AgreeInv
<1>10. AgreeInv'
  <2> SUFFICES ASSUME NEW x \in Sinks \ contended
               PROVE  /\ (\A u \in Threads : ~Halfway(u, x)') => (flag'[x] <=> target[x] # NoTarget)
                      /\ \A u \in Threads : Halfway(u, x)' =>
                          /\ call'[u].op = "enable" => (call'[u].enabled <=> target[x] # NoTarget)
                          /\ call'[u].op = "cleared" => target[x] = NoTarget
    BY <1>1, <1>9 DEF AgreeInv
  <2>1. \A u \in Threads : Halfway(u, x)' => u # t /\ Halfway(u, x) /\ call'[u] = call[u]
    BY <1>4, <1>6 DEF Halfway
  <2>2. CASE x = s
    BY <1>1, <1>2, <1>8, <2>1, <2>2 DEF LogInv, LogTypeOK, AgreeInv
  <2>3. CASE x # s
    <3>1. flag'[x] = flag[x] /\ ~Halfway(t, x)
      BY <1>1, <1>3, <2>3 DEF LogInv, LogTypeOK
    <3> QED
      BY <1>6, <2>1, <3>1 DEF LogInv, AgreeInv
  <2> QED
    BY <2>2, <2>3
<1>11. LogTargetsLive'
  BY <1>1 DEF LogInv, LogTargetsLive
<1> QED
  BY <1>6, <1>7, <1>10, <1>11 DEF LogInv

\* A line is printed: its sink has a target that is open, and not withdrawn.
LEMMA PrintInv ==
  ASSUME LogInv, NEW t \in Threads, DoPrint(t) \/ PrintChecks(t) \/ Write(t)
  PROVE  LogInv'
<1>1. call[t].op \in {"idle", "print", "write"}
      /\ UNCHANGED <<flag, target, closed, enables, contended, withdrawn>>
  BY DEF DoPrint, PrintChecks, Write, logHistory
<1>2. /\ call' = [u \in Threads |-> call'[u]]
      /\ \A u \in Threads \ {t} : call'[u] = call[u]
      /\ call'[t].op \in {"idle", "print", "write"}
      /\ call'[t].op # "idle" => call'[t].rest \in Seq(Sinks) /\ Len(call'[t].rest) >= 1
  <2>1. CASE DoPrint(t)
    <3>1. call' = [call EXCEPT ![t] = [op |-> "print", rest |-> SinkOrder]]
      BY <2>1 DEF DoPrint, Goes
    <3>2. SinkOrder \in Seq(Sinks) /\ Len(SinkOrder) >= 1
      BY DEF SinkOrder, Sinks
    <3>3. call'[t].op = "print" /\ call'[t].rest = SinkOrder
      BY <3>1 DEF LogInv, LogTypeOK
    <3>4. /\ call' = [u \in Threads |-> call'[u]]
          /\ \A u \in Threads \ {t} : call'[u] = call[u]
      BY <3>1 DEF LogInv, LogTypeOK
    <3> QED
      BY <3>2, <3>3, <3>4, Zenon
  <2>2. CASE PrintChecks(t) /\ flag[Current(t)]
    <3>1. call' = [call EXCEPT ![t] = [op |-> "write", rest |-> call[t].rest]]
      BY <2>2 DEF PrintChecks, Goes
    <3> QED
      BY <2>2, <3>1 DEF PrintChecks, LogInv, LogTypeOK
  <2>3. CASE (PrintChecks(t) /\ ~flag[Current(t)]) \/ Write(t)
    <3>1. call[t].op \in {"print", "write"} /\ Advance(t, "print")
      BY <2>3 DEF PrintChecks, Write
    <3> QED
      BY <3>1, AdvanceKeeps DEF LogInv, Changing
  <2> QED
    BY <2>1, <2>2, <2>3
<1>3. \A x \in Sinks : ~Alters(t, x) /\ ~Alters(t, x)'
  BY <1>1, <1>2 DEF Alters, Changing
<1>4. TargetInv' /\ ContendedInv'
      /\ \A u \in Threads \ {t} : \A x \in Sinks :
            (Alters(u, x)' <=> Alters(u, x)) /\ (Halfway(u, x)' <=> Halfway(u, x))
  BY <1>1, <1>2, <1>3, CallKeeps DEF LogInv, TargetInv
<1>5. LogTypeOK'
  BY <1>1, <1>2 DEF LogInv, LogTypeOK
<1>6. \A u \in Threads : \A x \in Sinks : (Halfway(u, x)' <=> Halfway(u, x)) /\ (Halfway(u, x) => u # t)
  BY <1>3, <1>4 DEF Halfway
<1>7. AgreeInv'
  BY <1>1, <1>2, <1>6 DEF LogInv, AgreeInv
<1>8. LogTargetsLive'
  <2>1. CASE Write(t)
    <3>1. Current(t) \in Sinks
      BY <2>1, CurrentSink DEF Write, LogInv
    <3>2. /\ target[Current(t)] \notin closed
          /\ Current(t) \notin contended => target[Current(t)] \notin withdrawn
      BY <3>1 DEF LogInv, TargetInv, AgreeInv
    <3> QED
      BY <1>1, <2>1, <3>2 DEF Write, LogInv, LogTargetsLive
  <2>2. CASE DoPrint(t) \/ PrintChecks(t)
    BY <2>2 DEF DoPrint, PrintChecks, logHistory, LogInv, LogTargetsLive
  <2> QED
    BY <2>1, <2>2
<1> QED
  BY <1>4, <1>5, <1>7, <1>8 DEF LogInv

LEMMA LogStepInv == LogInv /\ [LogNext]_logVars => LogInv'
<1> SUFFICES ASSUME LogInv, [LogNext]_logVars
             PROVE  LogInv'
  OBVIOUS
<1>1. ASSUME NEW t \in Threads, EnableStderr(t) \/ EnableFile(t) \/ EnableCallback(t)
      PROVE  LogInv'
  <2>1. {"stderr", "file", "function"} \subseteq Sinks
    BY DEF Sinks
  <2> QED
    BY <1>1, <2>1, EnableSinkInv DEF EnableStderr, EnableFile, EnableCallback
<1>2. ASSUME NEW t \in Threads, NEW s \in Sinks, DisableBegins(t, <<s>>)
      PROVE  LogInv'
  <2>1. <<s>> \in Seq(Sinks) /\ Len(<<s>>) >= 1
    OBVIOUS
  <2> QED
    BY <1>2, <2>1, DisableBeginsInv
<1>3. ASSUME NEW t \in Threads, DisableBegins(t, SinkOrder)
      PROVE  LogInv'
  <2>1. SinkOrder \in Seq(Sinks) /\ Len(SinkOrder) >= 1
    BY DEF SinkOrder, Sinks
  <2> QED
    BY <1>3, <2>1, DisableBeginsInv
<1>4. ASSUME NEW t \in Threads,
             EnableReturns(t) \/ DisableNothing(t) \/ DisableSink(t) \/ DisableReturns(t)
      PROVE  LogInv'
  BY <1>4, EnableReturnsInv, DisableNothingInv, DisableSinkInv, DisableReturnsInv
<1>5. ASSUME NEW t \in Threads, DoPrint(t) \/ PrintChecks(t) \/ Write(t)
      PROVE  LogInv'
  BY <1>5, PrintInv
<1>6. CASE UNCHANGED logVars
  <2>1. UNCHANGED <<flag, target, call, closed, enables>>
        /\ UNCHANGED <<contended, withdrawn, misused, surprising>>
    BY <1>6 DEF logVars
  <2>2. \A u, x : (Alters(u, x)' <=> Alters(u, x)) /\ (Halfway(u, x)' <=> Halfway(u, x))
    BY <2>1 DEF Alters, Halfway, Current
  <2> QED
    BY <2>1, <2>2 DEF LogInv, LogTypeOK, TargetInv, ContendedInv, AgreeInv, LogTargetsLive
<1> QED
  BY <1>1, <1>2, <1>3, <1>4, <1>5, <1>6 DEF LogNext

\* LogInv holds in every state.
THEOREM LogInvariant == LogSpec => []LogInv
<1> QED
  BY LogInitInv, LogStepInv, PTL DEF LogSpec

\* No line is written to a file after fclose(), nor to a target for which a call of Disable
\* has returned, whatever number of threads print, unless two of them change the sink at the
\* same time: only between the two steps of a change does the flag say other than the sink
\* (log.cpp).
THEOREM LogTargetsAreLive == LogSpec => []LogTargetsLive
<1>1. LogInv => LogTargetsLive
  BY DEF LogInv
<1> QED
  BY <1>1, LogInvariant, PTL
=============================================================================

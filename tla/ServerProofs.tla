---------------------------- MODULE ServerProofs ----------------------------
(***************************************************************************)
(* Theorems about Server, for any set of connections, groups and limits.   *)
(* ServerInv is the inductive invariant.  At its heart is OwnedInv: a      *)
(* socket in a group, or in the hands of the application, is in the pool   *)
(* or has gone through LeaveAll, and one that went through LeaveAll is in  *)
(* a group only if the application joined it again.  It survives           *)
(* pool_.clear() because Clear() has by then taken every socket of the     *)
(* pool out of the groups (ClearInv), and the removal in Release because   *)
(* LeaveAll comes first (ClosedInv).                                       *)
(*                                                                         *)
(* HostInv is what the contract of Hosting needs besides.  Its heart is    *)
(* PoolInv with CountInv: the pool holds a connection from its OnConnect   *)
(* to its Release and no longer, so only a Stop() can leave it to the      *)
(* destructor, which tells nobody.                                         *)
(***************************************************************************)
EXTENDS Server, FiniteSetTheorems, TLAPS

\* Nothing refers to a connection that was not made.
UnmadeInv ==
    \A s \in Sockets : sock[s] = "none" =>
        /\ s \notin pool /\ s \notin left /\ s \notin held /\ s \notin told
        /\ s # cur

\* A stopped server has an empty pool, unless Stop() is still clearing it; Stop() and
\* OnAccept exclude each other.
StoppedInv ==
    /\ stopping => state = "STOP" /\ loop # "onconnect"
    /\ state = "STOP" /\ ~stopping => pool = {}

\* Clear() has taken the sockets it is done with out of the groups.
ClearInv ==
    /\ ~stopping => stopLeft = {}
    /\ stopping => pool \ stopLeft \subseteq left

OwnedInv ==
    /\ late \subseteq left
    /\ \A g \in AllGroups : groups[g] \subseteq pool \cup left
    /\ \A g \in AllGroups : groups[g] \cap left \subseteq late
    /\ held \subseteq pool \cup left
    /\ loop = "onconnect" => cur \in pool

\* What the application has, it was told of; and a connection that ends otherwise than in
\* its handshake.
ToldInv ==
    /\ held \subseteq told /\ \A g \in AllGroups : groups[g] \subseteq told
    /\ loop \in {"onconnect", "eof"} => cur \in told

\* OnDisconnect is about a closed socket; LeaveAll is its first action.
ClosedInv ==
    /\ loop # "idle" => cur \in Sockets
    /\ loop \in {"leaveall", "remove", "ondisconnect"} => sock[cur] = "closed"
    /\ \A s \in Sockets : sock[s] = "closed" =>
          s \in left \/ (loop = "leaveall" /\ s = cur)

\* A socket of which the handler knows nothing has not finished its handshake.
ChallengedInv ==
    \A s \in Sockets : sock[s] \in Alive /\ s \notin told => s \in handshaking

\* The pool counts the connections of the handler.
CountInv == Clients \subseteq pool

ServerInv ==
    /\ DataTypes /\ UnmadeInv /\ StoppedInv /\ ClearInv /\ OwnedInv /\ ToldInv /\ ClosedInv
    /\ ChallengedInv /\ CountInv /\ DisconnectAfterConnect

----------------------------------------------------------------------------

\* A destructor only turns live sockets that nobody refers to into dropped ones.
LEMMA ReapFacts ==
  ASSUME DataTypes, Reap(sock)
  PROVE  /\ sock' \in [Sockets -> SockStates]
         /\ \A s \in Sockets : \/ sock'[s] = sock[s]
                               \/ sock[s] \in Alive /\ sock'[s] = "dropped" /\ s # cur'
BY DEF DataTypes, Reap, Referenced, SockStates, Alive

\* What the Disconnect() of OnRead does to the connections.
LEMMA ReadEnds ==
  ASSUME DataTypes, cur \in Sockets, OnReadDisconnect
  PROVE  /\ sock' \in [Sockets -> SockStates]
         /\ \A s \in Sockets :
              \/ sock'[s] = IF s = cur THEN Closing(sock[s]) ELSE sock[s]
              \/ sock[s] \in Alive /\ sock'[s] = "dropped" /\ s \notin pool'
<1> DEFINE f == [sock EXCEPT ![cur] = Closing(@)]
<1>1. \A s \in Sockets : f[s] = IF s = cur THEN Closing(sock[s]) ELSE sock[s]
  BY DEF DataTypes
<1>2. \A s \in Sockets : f[s] \in SockStates /\ (f[s] \in Alive => sock[s] \in Alive)
  BY <1>1 DEF DataTypes, Closing, SockStates, Open, Alive
<1>3. sock' = [s \in Sockets |-> IF f[s] \in Alive /\ ~Referenced(s)' THEN "dropped"
                                 ELSE f[s]]
  BY DEF OnReadDisconnect, Reap
<1>4. \A s \in Sockets :
         \/ sock'[s] = f[s]
         \/ f[s] \in Alive /\ sock'[s] = "dropped" /\ s \notin pool'
  BY <1>3 DEF Referenced
<1>5. sock' \in [Sockets -> SockStates]
  BY <1>2, <1>3 DEF SockStates
<1> QED
  BY <1>1, <1>2, <1>4, <1>5

\* ServerInv holds of a new server.
LEMMA ServerInit == Init => ServerInv
<1> SUFFICES ASSUME Init PROVE ServerInv
  OBVIOUS
<1> USE DEF Init
<1>1. Cardinality(Sockets) \in Nat
  BY SocketsAssumption, FS_CardinalityType
<1>2. DataTypes
  BY <1>1 DEF DataTypes, SockStates
<1>3. UnmadeInv /\ StoppedInv /\ ClearInv /\ OwnedInv /\ ToldInv /\ ClosedInv
  BY SocketsAssumption
    DEF UnmadeInv, StoppedInv, ClearInv, OwnedInv, ToldInv, ClosedInv
<1>4. ChallengedInv /\ CountInv /\ DisconnectAfterConnect
  BY DEF ChallengedInv, CountInv, DisconnectAfterConnect, Clients, Alive
<1> QED
  BY <1>2, <1>3, <1>4 DEF ServerInv

\* ServerInv is inductive.
LEMMA ServerStep == ServerInv /\ [Next]_vars => ServerInv'
<1> SUFFICES ASSUME ServerInv, [Next]_vars PROVE ServerInv'
  OBVIOUS
<1> USE DEF ServerInv, serverVars, loopVars, tellVars, leftVars
<1>Start. CASE Start
  <2>1. DataTypes'
    BY <1>Start DEF Start, DataTypes
  <2>2. StoppedInv'
    BY <1>Start DEF Start, StoppedInv, ServerMutexFree
  <2>3. /\ UnmadeInv' /\ ClearInv' /\ OwnedInv' /\ ToldInv' /\ ClosedInv'
        /\ ChallengedInv' /\ CountInv' /\ DisconnectAfterConnect'
    BY <1>Start
      DEF Start, UnmadeInv, ClearInv, OwnedInv, ToldInv, ClosedInv, ChallengedInv,
          CountInv, DisconnectAfterConnect, Clients
  <2> QED
    BY <2>1, <2>2, <2>3
<1>Stop. CASE Stop
  <2>1. DataTypes'
    BY <1>Stop DEF Stop, DataTypes
  <2>2. StoppedInv'
    BY <1>Stop DEF Stop, StoppedInv, ServerMutexFree
  <2>3. ClearInv'
    BY <1>Stop DEF Stop, ClearInv
  <2>4. /\ UnmadeInv' /\ OwnedInv' /\ ToldInv' /\ ClosedInv' /\ ChallengedInv'
        /\ CountInv' /\ DisconnectAfterConnect'
    BY <1>Stop
      DEF Stop, UnmadeInv, OwnedInv, ToldInv, ClosedInv, ChallengedInv, CountInv,
          DisconnectAfterConnect, Clients
  <2> QED
    BY <2>1, <2>2, <2>3, <2>4
<1>SetMaxClients. ASSUME NEW n \in Limits, SetMaxClients(n) PROVE ServerInv'
  <2>1. DataTypes'
    BY <1>SetMaxClients, LimitsAssumption DEF SetMaxClients, DataTypes
  <2>2. /\ UnmadeInv' /\ StoppedInv' /\ ClearInv' /\ OwnedInv' /\ ToldInv'
        /\ ClosedInv' /\ ChallengedInv' /\ CountInv' /\ DisconnectAfterConnect'
    BY <1>SetMaxClients
      DEF SetMaxClients, UnmadeInv, StoppedInv, ClearInv, OwnedInv, ToldInv, ClosedInv,
          ChallengedInv, CountInv, DisconnectAfterConnect, Clients
  <2> QED
    BY <2>1, <2>2
<1>Keep. ASSUME NEW s \in Sockets, Keep(s) PROVE ServerInv'
  <2>1. DataTypes'
    BY <1>Keep DEF Keep, DataTypes
  <2>2. UnmadeInv'
    BY <1>Keep DEF Keep, Has, UnmadeInv, ToldInv
  <2>3. OwnedInv'
    BY <1>Keep DEF Keep, Has, OwnedInv
  <2>4. ToldInv'
    BY <1>Keep DEF Keep, Has, ToldInv
  <2>5. /\ StoppedInv' /\ ClearInv' /\ ClosedInv' /\ ChallengedInv' /\ CountInv'
        /\ DisconnectAfterConnect'
    BY <1>Keep
      DEF Keep, StoppedInv, ClearInv, ClosedInv, ChallengedInv, CountInv,
          DisconnectAfterConnect, Clients
  <2> QED
    BY <2>1, <2>2, <2>3, <2>4, <2>5
<1>Drop. ASSUME NEW s \in Sockets, Drop(s) PROVE ServerInv'
  <2>1. /\ sock' \in [Sockets -> SockStates]
        /\ \A x \in Sockets : \/ sock'[x] = sock[x]
                              \/ sock[x] \in Alive /\ sock'[x] = "dropped" /\ x # cur'
    BY <1>Drop, ReapFacts DEF Drop
  <2>2. DataTypes'
    BY <1>Drop, <2>1 DEF Drop, DataTypes
  <2>3. UnmadeInv'
    BY <1>Drop, <2>1 DEF Drop, UnmadeInv
  <2>4. OwnedInv'
    BY <1>Drop DEF Drop, OwnedInv
  <2>5. ToldInv'
    BY <1>Drop DEF Drop, ToldInv
  <2>6. ClosedInv'
    BY <1>Drop, <2>1 DEF Drop, ClosedInv
  <2>7. ChallengedInv'
    BY <1>Drop, <2>1 DEF Drop, ChallengedInv
  <2>8. CountInv'
    BY <1>Drop, <2>1 DEF Drop, CountInv, DataTypes, Clients, Open
  <2>9. StoppedInv' /\ ClearInv' /\ DisconnectAfterConnect'
    BY <1>Drop DEF Drop, StoppedInv, ClearInv, DisconnectAfterConnect
  <2> QED
    BY <2>2, <2>3, <2>4, <2>5, <2>6, <2>7, <2>8, <2>9
<1>Disconnect. ASSUME NEW s \in Sockets, Disconnect(s) PROVE ServerInv'
  <2>1. DataTypes'
    BY <1>Disconnect DEF Disconnect, Disconnected, Closing, DataTypes, SockStates
  <2>2. UnmadeInv'
    BY <1>Disconnect DEF Disconnect, Closing, UnmadeInv
  <2>3. ClosedInv'
    BY <1>Disconnect DEF Disconnect, Closing, ClosedInv, Open
  <2>4. ChallengedInv'
    BY <1>Disconnect DEF Disconnect, Has, Closing, Disconnected, ChallengedInv, ToldInv
  <2>5. CountInv'
    BY <1>Disconnect DEF Disconnect, Closing, CountInv, Clients, Open, DataTypes
  <2>6. StoppedInv' /\ ClearInv' /\ OwnedInv' /\ ToldInv' /\ DisconnectAfterConnect'
    BY <1>Disconnect
      DEF Disconnect, StoppedInv, ClearInv, OwnedInv, ToldInv, DisconnectAfterConnect
  <2> QED
    BY <2>1, <2>2, <2>3, <2>4, <2>5, <2>6
<1>Join. ASSUME NEW g \in AllGroups, NEW s \in Sockets, Join(g, s) PROVE ServerInv'
  <2>1. DataTypes'
    BY <1>Join DEF Join, DataTypes
  <2>2. OwnedInv'
    BY <1>Join DEF Join, Has, OwnedInv
  <2>3. ToldInv'
    BY <1>Join DEF Join, Has, ToldInv
  <2>4. /\ UnmadeInv' /\ StoppedInv' /\ ClearInv' /\ ClosedInv' /\ ChallengedInv'
        /\ CountInv' /\ DisconnectAfterConnect'
    BY <1>Join
      DEF Join, UnmadeInv, StoppedInv, ClearInv, ClosedInv, ChallengedInv, CountInv,
          DisconnectAfterConnect, Clients
  <2> QED
    BY <2>1, <2>2, <2>3, <2>4
<1>Leave. ASSUME NEW g \in AllGroups, NEW s \in Sockets, Leave(g, s) PROVE ServerInv'
  <2>1. /\ sock' \in [Sockets -> SockStates]
        /\ \A x \in Sockets : \/ sock'[x] = sock[x]
                              \/ sock[x] \in Alive /\ sock'[x] = "dropped" /\ x # cur'
    BY <1>Leave, ReapFacts DEF Leave
  <2>2. DataTypes'
    BY <1>Leave, <2>1 DEF Leave, DataTypes
  <2>3. UnmadeInv'
    BY <1>Leave, <2>1 DEF Leave, UnmadeInv
  <2>4. OwnedInv'
    BY <1>Leave DEF Leave, OwnedInv
  <2>5. ToldInv'
    BY <1>Leave DEF Leave, ToldInv
  <2>6. ClosedInv'
    BY <1>Leave, <2>1 DEF Leave, ClosedInv
  <2>7. ChallengedInv'
    BY <1>Leave, <2>1 DEF Leave, ChallengedInv
  <2>8. CountInv'
    BY <1>Leave, <2>1 DEF Leave, CountInv, DataTypes, Clients, Open
  <2>9. StoppedInv' /\ ClearInv' /\ DisconnectAfterConnect'
    BY <1>Leave DEF Leave, StoppedInv, ClearInv, DisconnectAfterConnect
  <2> QED
    BY <2>2, <2>3, <2>4, <2>5, <2>6, <2>7, <2>8, <2>9
<1>Send. ASSUME NEW g \in AllGroups, Send(g) PROVE ServerInv'
  <2>1. DataTypes'
    BY <1>Send DEF Send, DataTypes
  <2>2. /\ UnmadeInv' /\ StoppedInv' /\ ClearInv' /\ OwnedInv' /\ ToldInv'
        /\ ClosedInv' /\ ChallengedInv' /\ CountInv' /\ DisconnectAfterConnect'
    BY <1>Send
      DEF Send, UnmadeInv, StoppedInv, ClearInv, OwnedInv, ToldInv, ClosedInv,
          ChallengedInv, CountInv, DisconnectAfterConnect, Clients
  <2> QED
    BY <2>1, <2>2
<1>StopClear. CASE StopClear
  <2>1. /\ sock' \in [Sockets -> SockStates]
        /\ \A x \in Sockets : \/ sock'[x] = sock[x]
                              \/ sock[x] \in Alive /\ sock'[x] = "dropped" /\ x # cur'
    BY <1>StopClear, ReapFacts DEF StopClear
  <2>2. DataTypes'
    BY <1>StopClear, <2>1 DEF StopClear, DataTypes
  <2>3. UnmadeInv'
    BY <1>StopClear, <2>1 DEF StopClear, UnmadeInv
  <2>4. StoppedInv'
    BY <1>StopClear DEF StopClear, StoppedInv
  <2>5. ClearInv'
    BY <1>StopClear DEF StopClear, ClearInv
  <2>6. OwnedInv'
    BY <1>StopClear DEF StopClear, OwnedInv, ClearInv, StoppedInv
  <2>7. ClosedInv'
    BY <1>StopClear, <2>1 DEF StopClear, ClosedInv
  <2>8. ChallengedInv'
    BY <1>StopClear, <2>1 DEF StopClear, ChallengedInv
  <2>9. CountInv'
    BY <1>StopClear, <2>1 DEF StopClear, CountInv, DataTypes, Clients, Open
  <2>10. ToldInv' /\ DisconnectAfterConnect'
    BY <1>StopClear DEF StopClear, ToldInv, DisconnectAfterConnect
  <2> QED
    BY <2>2, <2>3, <2>4, <2>5, <2>6, <2>7, <2>8, <2>9, <2>10
<1>StopLeave. ASSUME NEW s \in Sockets, StopLeave(s) PROVE ServerInv'
  <2>1. DataTypes'
    BY <1>StopLeave DEF StopLeave, LeaveAll, DataTypes
  <2>2. UnmadeInv'
    BY <1>StopLeave DEF StopLeave, LeaveAll, UnmadeInv, DataTypes
  <2>3. ClearInv'
    BY <1>StopLeave DEF StopLeave, LeaveAll, ClearInv
  <2>4. OwnedInv'
    BY <1>StopLeave DEF StopLeave, LeaveAll, OwnedInv
  <2>5. ToldInv'
    BY <1>StopLeave DEF StopLeave, LeaveAll, ToldInv
  <2>6. ClosedInv'
    BY <1>StopLeave DEF StopLeave, LeaveAll, ClosedInv
  <2>7. StoppedInv' /\ ChallengedInv' /\ CountInv' /\ DisconnectAfterConnect'
    BY <1>StopLeave
      DEF StopLeave, StoppedInv, ChallengedInv, CountInv, DisconnectAfterConnect,
          Clients
  <2> QED
    BY <2>1, <2>2, <2>3, <2>4, <2>5, <2>6, <2>7
<1>SendReturns. CASE SendReturns
  <2>1. /\ sock' \in [Sockets -> SockStates]
        /\ \A x \in Sockets : \/ sock'[x] = sock[x]
                              \/ sock[x] \in Alive /\ sock'[x] = "dropped" /\ x # cur'
    BY <1>SendReturns, ReapFacts DEF SendReturns
  <2>2. DataTypes'
    BY <1>SendReturns, <2>1 DEF SendReturns, DataTypes
  <2>3. UnmadeInv'
    BY <1>SendReturns, <2>1 DEF SendReturns, UnmadeInv
  <2>4. ClosedInv'
    BY <1>SendReturns, <2>1 DEF SendReturns, ClosedInv
  <2>5. ChallengedInv'
    BY <1>SendReturns, <2>1 DEF SendReturns, ChallengedInv
  <2>6. CountInv'
    BY <1>SendReturns, <2>1 DEF SendReturns, CountInv, DataTypes, Clients, Open
  <2>7. StoppedInv' /\ ClearInv' /\ OwnedInv' /\ ToldInv' /\ DisconnectAfterConnect'
    BY <1>SendReturns
      DEF SendReturns, StoppedInv, ClearInv, OwnedInv, ToldInv, DisconnectAfterConnect
  <2> QED
    BY <2>2, <2>3, <2>4, <2>5, <2>6, <2>7
<1>OnConnectReturns. CASE OnConnectReturns
  <2>1. /\ sock' \in [Sockets -> SockStates]
        /\ \A x \in Sockets : \/ sock'[x] = sock[x]
                              \/ sock[x] \in Alive /\ sock'[x] = "dropped" /\ x # cur'
    BY <1>OnConnectReturns, ReapFacts DEF OnConnectReturns
  <2>2. DataTypes'
    BY <1>OnConnectReturns, <2>1 DEF OnConnectReturns, DataTypes
  <2>3. UnmadeInv'
    BY <1>OnConnectReturns, <2>1, SocketsAssumption DEF OnConnectReturns, UnmadeInv
  <2>4. StoppedInv'
    BY <1>OnConnectReturns DEF OnConnectReturns, StoppedInv
  <2>5. OwnedInv'
    BY <1>OnConnectReturns DEF OnConnectReturns, OwnedInv
  <2>6. ToldInv'
    BY <1>OnConnectReturns DEF OnConnectReturns, ToldInv
  <2>7. ClosedInv'
    BY <1>OnConnectReturns, <2>1 DEF OnConnectReturns, ClosedInv
  <2>8. ChallengedInv'
    BY <1>OnConnectReturns, <2>1 DEF OnConnectReturns, ChallengedInv
  <2>9. CountInv'
    BY <1>OnConnectReturns, <2>1
      DEF OnConnectReturns, CountInv, DataTypes, Clients, Open
  <2>10. ClearInv' /\ DisconnectAfterConnect'
    BY <1>OnConnectReturns DEF OnConnectReturns, ClearInv, DisconnectAfterConnect
  <2> QED
    BY <2>2, <2>3, <2>4, <2>5, <2>6, <2>7, <2>8, <2>9, <2>10
<1>OnReadDisconnect. CASE OnReadDisconnect
  <2>1. cur \in Sockets
    BY <1>OnReadDisconnect DEF OnReadDisconnect, ClosedInv
  <2>2. /\ sock' \in [Sockets -> SockStates]
        /\ \A x \in Sockets :
              \/ sock'[x] = IF x = cur THEN Closing(sock[x]) ELSE sock[x]
              \/ sock[x] \in Alive /\ sock'[x] = "dropped" /\ x \notin pool'
    BY <1>OnReadDisconnect, <2>1, ReadEnds
  <2>3. DataTypes'
    BY <1>OnReadDisconnect, <2>1, <2>2 DEF OnReadDisconnect, Disconnected, DataTypes
  <2>4. UnmadeInv'
    BY <1>OnReadDisconnect, <2>2, SocketsAssumption
      DEF OnReadDisconnect, UnmadeInv, Closing
  <2>5. OwnedInv'
    BY <1>OnReadDisconnect DEF OnReadDisconnect, OwnedInv
  <2>6. ToldInv'
    BY <1>OnReadDisconnect DEF OnReadDisconnect, ToldInv
  <2>7. ClosedInv'
    BY <1>OnReadDisconnect, <2>2 DEF OnReadDisconnect, ClosedInv, Closing
  <2>8. ChallengedInv'
    <3>1. CASE loop = "eof"
      <4>1. cur \in told /\ handshaking' = handshaking \ {cur} /\ told' = told
        BY <1>OnReadDisconnect, <3>1 DEF OnReadDisconnect, Disconnected, ToldInv
      <4> QED
        BY <2>2, <4>1 DEF ChallengedInv, Alive
    <3>2. CASE loop = "eof_handshaking"
      <4>1. handshaking' = handshaking \cup {cur} /\ told' = told
        BY <1>OnReadDisconnect, <3>2 DEF OnReadDisconnect, Disconnected
      <4> QED
        BY <2>2, <4>1 DEF ChallengedInv, Alive
    <3> QED
      BY <1>OnReadDisconnect, <3>1, <3>2 DEF OnReadDisconnect
  <2>9. CountInv'
    BY <1>OnReadDisconnect, <2>2
      DEF OnReadDisconnect, CountInv, Clients, Open, Closing, DataTypes
  <2>10. StoppedInv' /\ ClearInv' /\ DisconnectAfterConnect'
    BY <1>OnReadDisconnect
      DEF OnReadDisconnect, StoppedInv, ClearInv, DisconnectAfterConnect
  <2> QED
    BY <2>3, <2>4, <2>5, <2>6, <2>7, <2>8, <2>9, <2>10
<1>ReleaseLeave. CASE ReleaseLeave
  <2>1. DataTypes'
    BY <1>ReleaseLeave DEF ReleaseLeave, LeaveAll, DataTypes, ClosedInv
  <2>2. UnmadeInv'
    BY <1>ReleaseLeave DEF ReleaseLeave, LeaveAll, UnmadeInv
  <2>3. StoppedInv'
    BY <1>ReleaseLeave DEF ReleaseLeave, StoppedInv
  <2>4. ClearInv'
    BY <1>ReleaseLeave DEF ReleaseLeave, LeaveAll, ClearInv
  <2>5. OwnedInv'
    BY <1>ReleaseLeave DEF ReleaseLeave, LeaveAll, OwnedInv
  <2>6. ToldInv'
    BY <1>ReleaseLeave DEF ReleaseLeave, LeaveAll, ToldInv
  <2>7. ClosedInv'
    BY <1>ReleaseLeave DEF ReleaseLeave, LeaveAll, ClosedInv
  <2>8. ChallengedInv' /\ CountInv' /\ DisconnectAfterConnect'
    BY <1>ReleaseLeave
      DEF ReleaseLeave, ChallengedInv, CountInv, DisconnectAfterConnect, Clients
  <2> QED
    BY <2>1, <2>2, <2>3, <2>4, <2>5, <2>6, <2>7, <2>8
<1>ReleaseRemove. CASE ReleaseRemove
  <2>1. DataTypes'
    BY <1>ReleaseRemove DEF ReleaseRemove, DataTypes, ClearInv
  <2>2. UnmadeInv'
    BY <1>ReleaseRemove DEF ReleaseRemove, UnmadeInv
  <2>3. StoppedInv'
    BY <1>ReleaseRemove DEF ReleaseRemove, StoppedInv
  <2>4. ClearInv'
    BY <1>ReleaseRemove DEF ReleaseRemove, ClearInv
  <2>5. OwnedInv'
    BY <1>ReleaseRemove DEF ReleaseRemove, OwnedInv, ClosedInv
  <2>6. ToldInv'
    BY <1>ReleaseRemove DEF ReleaseRemove, ToldInv
  <2>7. ClosedInv'
    BY <1>ReleaseRemove DEF ReleaseRemove, ClosedInv
  <2>8. CountInv'
    BY <1>ReleaseRemove DEF ReleaseRemove, CountInv, Clients, Open, ClosedInv
  <2>9. ChallengedInv' /\ DisconnectAfterConnect'
    BY <1>ReleaseRemove DEF ReleaseRemove, ChallengedInv, DisconnectAfterConnect
  <2> QED
    BY <2>1, <2>2, <2>3, <2>4, <2>5, <2>6, <2>7, <2>8, <2>9
<1>OnDisconnect. CASE OnDisconnect
  <2>1. /\ sock' \in [Sockets -> SockStates]
        /\ \A x \in Sockets : \/ sock'[x] = sock[x]
                              \/ sock[x] \in Alive /\ sock'[x] = "dropped" /\ x # cur'
    BY <1>OnDisconnect, ReapFacts DEF OnDisconnect
  <2>2. DataTypes'
    BY <1>OnDisconnect, <2>1 DEF OnDisconnect, DataTypes, ClosedInv
  <2>3. UnmadeInv'
    BY <1>OnDisconnect, <2>1, SocketsAssumption DEF OnDisconnect, UnmadeInv
  <2>4. StoppedInv'
    BY <1>OnDisconnect DEF OnDisconnect, StoppedInv
  <2>5. OwnedInv'
    BY <1>OnDisconnect DEF OnDisconnect, OwnedInv
  <2>6. ToldInv'
    BY <1>OnDisconnect DEF OnDisconnect, ToldInv
  <2>7. ClosedInv'
    BY <1>OnDisconnect, <2>1 DEF OnDisconnect, ClosedInv
  <2>8. ChallengedInv'
    BY <1>OnDisconnect, <2>1 DEF OnDisconnect, ChallengedInv
  <2>9. CountInv'
    BY <1>OnDisconnect, <2>1 DEF OnDisconnect, CountInv, DataTypes, Clients, Open
  <2>10. DisconnectAfterConnect'
    BY <1>OnDisconnect
      DEF OnDisconnect, DisconnectAfterConnect, ChallengedInv, ClosedInv, Alive
  <2>11. ClearInv'
    BY <1>OnDisconnect DEF OnDisconnect, ClearInv
  <2> QED
    BY <2>2, <2>3, <2>4, <2>5, <2>6, <2>7, <2>8, <2>9, <2>10, <2>11
<1>AcceptStopped. ASSUME NEW s \in Sockets, AcceptStopped(s) PROVE ServerInv'
  <2>1. DataTypes'
    BY <1>AcceptStopped DEF AcceptStopped, DataTypes, SockStates
  <2>2. UnmadeInv'
    BY <1>AcceptStopped DEF AcceptStopped, UnmadeInv
  <2>3. ClosedInv'
    BY <1>AcceptStopped DEF AcceptStopped, ClosedInv
  <2>4. ChallengedInv'
    BY <1>AcceptStopped DEF AcceptStopped, ChallengedInv, Alive
  <2>5. CountInv'
    BY <1>AcceptStopped DEF AcceptStopped, CountInv, Clients, UnmadeInv
  <2>6. StoppedInv' /\ ClearInv' /\ OwnedInv' /\ ToldInv' /\ DisconnectAfterConnect'
    BY <1>AcceptStopped
      DEF AcceptStopped, StoppedInv, ClearInv, OwnedInv, ToldInv, DisconnectAfterConnect
  <2> QED
    BY <2>1, <2>2, <2>3, <2>4, <2>5, <2>6
<1>AcceptRefused. ASSUME NEW s \in Sockets, AcceptRefused(s) PROVE ServerInv'
  <2>1. DataTypes'
    BY <1>AcceptRefused DEF AcceptRefused, DataTypes, SockStates
  <2>2. UnmadeInv'
    BY <1>AcceptRefused DEF AcceptRefused, UnmadeInv
  <2>3. ClosedInv'
    BY <1>AcceptRefused DEF AcceptRefused, ClosedInv
  <2>4. ChallengedInv'
    BY <1>AcceptRefused DEF AcceptRefused, ChallengedInv, Alive
  <2>5. CountInv'
    BY <1>AcceptRefused DEF AcceptRefused, CountInv, Clients, UnmadeInv
  <2>6. StoppedInv' /\ ClearInv' /\ OwnedInv' /\ ToldInv' /\ DisconnectAfterConnect'
    BY <1>AcceptRefused
      DEF AcceptRefused, StoppedInv, ClearInv, OwnedInv, ToldInv, DisconnectAfterConnect
  <2> QED
    BY <2>1, <2>2, <2>3, <2>4, <2>5, <2>6
<1>AcceptUnauthorized. ASSUME NEW s \in Sockets, AcceptUnauthorized(s) PROVE ServerInv'
  <2>1. DataTypes'
    BY <1>AcceptUnauthorized DEF AcceptUnauthorized, DataTypes, SockStates
  <2>2. UnmadeInv'
    BY <1>AcceptUnauthorized DEF AcceptUnauthorized, UnmadeInv, DataTypes
  <2>3. StoppedInv'
    BY <1>AcceptUnauthorized DEF AcceptUnauthorized, StoppedInv
  <2>4. ClearInv'
    BY <1>AcceptUnauthorized DEF AcceptUnauthorized, ClearInv
  <2>5. OwnedInv'
    BY <1>AcceptUnauthorized DEF AcceptUnauthorized, OwnedInv
  <2>6. ClosedInv'
    BY <1>AcceptUnauthorized DEF AcceptUnauthorized, ClosedInv
  <2>7. ChallengedInv'
    BY <1>AcceptUnauthorized DEF AcceptUnauthorized, ChallengedInv
  <2>8. CountInv'
    BY <1>AcceptUnauthorized DEF AcceptUnauthorized, CountInv, Clients
  <2>9. ToldInv' /\ DisconnectAfterConnect'
    BY <1>AcceptUnauthorized DEF AcceptUnauthorized, ToldInv, DisconnectAfterConnect
  <2> QED
    BY <2>1, <2>2, <2>3, <2>4, <2>5, <2>6, <2>7, <2>8, <2>9
<1>Accept. ASSUME NEW s \in Sockets, Accept(s) PROVE ServerInv'
  <2>1. DataTypes'
    BY <1>Accept DEF Accept, DataTypes, SockStates
  <2>2. UnmadeInv'
    BY <1>Accept DEF Accept, UnmadeInv, DataTypes
  <2>3. StoppedInv'
    BY <1>Accept DEF Accept, StoppedInv
  <2>4. ClearInv'
    BY <1>Accept DEF Accept, ClearInv
  <2>5. OwnedInv'
    BY <1>Accept DEF Accept, OwnedInv, UnmadeInv
  <2>6. ToldInv'
    BY <1>Accept DEF Accept, ToldInv
  <2>7. ClosedInv'
    BY <1>Accept DEF Accept, ClosedInv
  <2>8. ChallengedInv'
    BY <1>Accept DEF Accept, ChallengedInv
  <2>9. CountInv'
    BY <1>Accept DEF Accept, CountInv, Clients
  <2>10. DisconnectAfterConnect'
    BY <1>Accept DEF Accept, DisconnectAfterConnect
  <2> QED
    BY <2>1, <2>2, <2>3, <2>4, <2>5, <2>6, <2>7, <2>8, <2>9, <2>10
<1>HandshakeDone. ASSUME NEW s \in Sockets, HandshakeDone(s) PROVE ServerInv'
  <2>1. DataTypes'
    BY <1>HandshakeDone DEF HandshakeDone, Completes, DataTypes, SockStates
  <2>2. UnmadeInv'
    BY <1>HandshakeDone DEF HandshakeDone, Completes, UnmadeInv
  <2>3. ClosedInv'
    BY <1>HandshakeDone DEF HandshakeDone, Completes, ClosedInv
  <2>4. ChallengedInv'
    BY <1>HandshakeDone DEF HandshakeDone, Completes, ChallengedInv
  <2>5. CountInv'
    BY <1>HandshakeDone DEF HandshakeDone, Completes, CountInv, Clients, Open
  <2>6. StoppedInv' /\ ClearInv' /\ OwnedInv' /\ ToldInv' /\ DisconnectAfterConnect'
    BY <1>HandshakeDone
      DEF HandshakeDone, StoppedInv, ClearInv, OwnedInv, ToldInv, DisconnectAfterConnect
  <2> QED
    BY <2>1, <2>2, <2>3, <2>4, <2>5, <2>6
<1>HandshakeFailed. ASSUME NEW s \in Sockets, HandshakeFailed(s) PROVE ServerInv'
  <2>1. DataTypes'
    BY <1>HandshakeFailed
      DEF HandshakeFailed, Completes, Closing, Disconnected, DataTypes, SockStates
  <2>2. UnmadeInv'
    BY <1>HandshakeFailed DEF HandshakeFailed, Completes, Closing, UnmadeInv
  <2>3. ClosedInv'
    BY <1>HandshakeFailed DEF HandshakeFailed, Completes, Closing, ClosedInv
  <2>4. ChallengedInv'
    BY <1>HandshakeFailed
      DEF HandshakeFailed, Completes, Closing, Disconnected, ChallengedInv
  <2>5. CountInv'
    BY <1>HandshakeFailed DEF HandshakeFailed, Completes, Closing, CountInv, Clients, Open
  <2>6. StoppedInv' /\ ClearInv' /\ OwnedInv' /\ ToldInv' /\ DisconnectAfterConnect'
    BY <1>HandshakeFailed
      DEF HandshakeFailed, StoppedInv, ClearInv, OwnedInv, ToldInv,
          DisconnectAfterConnect
  <2> QED
    BY <2>1, <2>2, <2>3, <2>4, <2>5, <2>6
<1>PeerCloses. ASSUME NEW s \in Sockets, PeerCloses(s) PROVE ServerInv'
  <2>1. DataTypes'
    BY <1>PeerCloses DEF PeerCloses, DataTypes
  <2>2. UnmadeInv'
    BY <1>PeerCloses DEF PeerCloses, UnmadeInv, Open
  <2>3. StoppedInv'
    BY <1>PeerCloses DEF PeerCloses, StoppedInv
  <2>4. OwnedInv'
    BY <1>PeerCloses DEF PeerCloses, OwnedInv
  <2>5. ToldInv'
    BY <1>PeerCloses DEF PeerCloses, ToldInv, ChallengedInv, Alive, Open
  <2>6. ClosedInv'
    BY <1>PeerCloses DEF PeerCloses, ClosedInv
  <2>7. ClearInv' /\ ChallengedInv' /\ CountInv' /\ DisconnectAfterConnect'
    BY <1>PeerCloses
      DEF PeerCloses, ClearInv, ChallengedInv, CountInv, Clients, DisconnectAfterConnect
  <2> QED
    BY <2>1, <2>2, <2>3, <2>4, <2>5, <2>6, <2>7
<1>OnClose. ASSUME NEW s \in Sockets, OnClose(s) PROVE ServerInv'
  <2>1. DataTypes'
    BY <1>OnClose DEF OnClose, DataTypes, SockStates
  <2>2. UnmadeInv'
    BY <1>OnClose DEF OnClose, UnmadeInv
  <2>3. StoppedInv'
    BY <1>OnClose DEF OnClose, StoppedInv
  <2>4. OwnedInv'
    BY <1>OnClose DEF OnClose, OwnedInv
  <2>5. ToldInv'
    BY <1>OnClose DEF OnClose, ToldInv
  <2>6. ClosedInv'
    BY <1>OnClose DEF OnClose, ClosedInv, DataTypes
  <2>7. ChallengedInv'
    BY <1>OnClose DEF OnClose, ChallengedInv, Alive
  <2>8. CountInv'
    BY <1>OnClose DEF OnClose, CountInv, Clients
  <2>9. ClearInv' /\ DisconnectAfterConnect'
    BY <1>OnClose DEF OnClose, ClearInv, DisconnectAfterConnect
  <2> QED
    BY <2>1, <2>2, <2>3, <2>4, <2>5, <2>6, <2>7, <2>8, <2>9
<1>stutter. CASE UNCHANGED vars
  BY <1>stutter
    DEF vars, DataTypes, UnmadeInv, StoppedInv, ClearInv, OwnedInv, ToldInv, ClosedInv,
        ChallengedInv, CountInv, Clients, DisconnectAfterConnect
<1> QED
  BY <1>Start, <1>Stop, <1>SetMaxClients, <1>Keep, <1>Drop, <1>Disconnect, <1>Join,
     <1>Leave, <1>Send, <1>StopClear, <1>StopLeave, <1>SendReturns,
     <1>OnConnectReturns, <1>OnReadDisconnect, <1>ReleaseLeave, <1>ReleaseRemove,
     <1>OnDisconnect, <1>AcceptStopped, <1>AcceptRefused, <1>AcceptUnauthorized, <1>Accept,
     <1>HandshakeDone, <1>HandshakeFailed, <1>PeerCloses, <1>OnClose, <1>stutter
     DEF Next, AppNext, StopReturns, LoopReturns, LoopNext, CloseNext

\* "stopping" stays Boolean: only Stop() and the end of Clear() assign it.
LEMMA StoppingType == stopping \in BOOLEAN /\ [Next]_vars => (stopping \in BOOLEAN)'
<1> SUFFICES ASSUME stopping \in BOOLEAN, Next PROVE stopping' \in BOOLEAN
  BY DEF vars
<1> USE DEF serverVars
<1>1. CASE AppNext
  BY <1>1, Zenon
    DEF AppNext, Start, Stop, SetMaxClients, Keep, Drop, Disconnect, Join, Leave, Send
<1>2. CASE StopReturns
  BY <1>2, Zenon DEF StopReturns, StopClear, StopLeave
<1>3. CASE SendReturns
  BY <1>3, Zenon DEF SendReturns
<1>4. CASE LoopReturns
  BY <1>4, Zenon
    DEF LoopReturns, OnConnectReturns, OnReadDisconnect, ReleaseLeave, ReleaseRemove,
        OnDisconnect
<1>5. CASE LoopNext
  BY <1>5, Zenon
    DEF LoopNext, AcceptStopped, AcceptRefused, AcceptUnauthorized, Accept,
        HandshakeDone, HandshakeFailed, PeerCloses
<1>6. CASE CloseNext
  BY <1>6, Zenon DEF CloseNext, OnClose
<1> QED
  BY <1>1, <1>2, <1>3, <1>4, <1>5, <1>6 DEF Next

----------------------------------------------------------------------------

\* The inductive invariant holds in every reachable state of a server.
THEOREM ServerInvariant == Spec => []ServerInv
<1> QED
  BY ServerInit, ServerStep, PTL DEF Spec

\* The pool, the groups and the sockets of a server stay in their types; in particular
\* SocketPool::Clear never meets a socket that has left the pool meanwhile.
THEOREM ServerTypeCorrect == Spec => []TypeOK
<1>1. Init => stopping \in BOOLEAN
  BY Zenon DEF Init
<1>2. Spec => [](stopping \in BOOLEAN)
  BY <1>1, StoppingType, PTL DEF Spec
<1>3. stopping \in BOOLEAN /\ ServerInv => TypeOK
  BY DEF TypeOK, ServerInv
<1> QED
  BY <1>2, <1>3, ServerInvariant, PTL

\* After Stop() the pool is empty and the groups hold nothing the application did not put
\* there after LeaveAll, whatever was accepted, closed or joined while Stop() ran.
THEOREM StopLeavesNothing == Spec => []StopEmpties
<1>1. ServerInv => StopEmpties
  BY DEF ServerInv, DataTypes, StoppedInv, OwnedInv, StopEmpties
<1> QED
  BY <1>1, ServerInvariant, PTL

\* Between two callbacks no group holds a closed socket, unless the application joined it
\* to the group after LeaveAll.
THEOREM ClosedIsLeft == Spec => []ClosedLeavesGroups
<1>1. ServerInv => ClosedLeavesGroups
  BY DEF ServerInv, DataTypes, OwnedInv, ClosedInv, ClosedLeavesGroups
<1> QED
  BY <1>1, ServerInvariant, PTL

\* OnDisconnect is called only for a socket that OnConnect was called for.
THEOREM ToldBeforeUntold == Spec => []DisconnectAfterConnect
<1>1. ServerInv => DisconnectAfterConnect
  BY DEF ServerInv
<1> QED
  BY <1>1, ServerInvariant, PTL

\* OnConnect is only called in OnAccept, which has just found room in the pool.
LEMMA AcceptTells ==
  ASSUME Next, told' # told
  PROVE  \E s \in Sockets : Accept(s)
<1> USE DEF tellVars
<1>1. CASE AppNext
  BY <1>1
    DEF AppNext, Start, Stop, SetMaxClients, Keep, Drop, Disconnect, Join, Leave, Send
<1>2. CASE StopReturns
  BY <1>2 DEF StopReturns, StopClear, StopLeave
<1>3. CASE SendReturns
  BY <1>3 DEF SendReturns
<1>4. CASE LoopReturns
  BY <1>4
    DEF LoopReturns, OnConnectReturns, OnReadDisconnect, ReleaseLeave, ReleaseRemove,
        OnDisconnect
<1>5. CASE LoopNext
  BY <1>5
    DEF LoopNext, AcceptStopped, AcceptRefused, AcceptUnauthorized, HandshakeDone,
        HandshakeFailed, PeerCloses
<1>6. CASE CloseNext
  BY <1>6 DEF CloseNext, OnClose
<1> QED
  BY <1>1, <1>2, <1>3, <1>4, <1>5, <1>6 DEF Next

\* OnConnect is never called for a connection beyond the limit of SetMaxClients: CountInv
\* says that the pool, whose size OnAccept compares with the limit, counts every
\* connection of the handler.
THEOREM LimitHolds == Spec => LimitRespected
<1>1. ASSUME ServerInv, ServerInv', Next, told' # told, max > 0
      PROVE  Cardinality(Clients') <= max
  <2>1. PICK s \in Sockets : Accept(s)
    BY <1>1, AcceptTells
  <2>2. IsFiniteSet(pool) /\ Cardinality(pool) \in Nat
    BY <1>1, SocketsAssumption, FS_Subset, FS_CardinalityType DEF ServerInv, DataTypes
  <2>3. s \notin pool /\ pool' = pool \cup {s}
    BY <1>1, <2>1 DEF Accept, ServerInv, UnmadeInv
  <2>4. IsFiniteSet(pool') /\ Cardinality(pool') = Cardinality(pool) + 1
    BY <2>2, <2>3, FS_AddElement
  <2>5. Cardinality(pool) < max
    BY <1>1, <2>1, <2>2 DEF Accept, Full, ServerInv, DataTypes
  <2>6. Clients' \subseteq pool'
    BY <1>1 DEF ServerInv, CountInv
  <2>7. Cardinality(Clients') <= Cardinality(pool') /\ Cardinality(Clients') \in Nat
    BY <2>4, <2>6, FS_Subset, FS_CardinalityType
  <2> QED
    BY <1>1, <2>2, <2>4, <2>5, <2>7 DEF ServerInv, DataTypes
<1>2. ServerInv /\ ServerInv' /\ [Next]_vars
        => [told' # told /\ max > 0 => Cardinality(Clients') <= max]_vars
  BY <1>1
<1> QED
  BY <1>2, ServerInvariant, PTL DEF Spec, LimitRespected

----------------------------------------------------------------------------
(* The contract of Hosting.                                                *)

\* handshaking_ is set only while libtv has not completed the handshake, so not of an
\* established connection; and nothing has happened to one that was not made yet.
ShakenInv ==
    /\ handshaking \subseteq shaking
    /\ \A s \in Sockets :
          /\ sock[s] = "handshaking" => s \in handshaking
          /\ sock[s] = "connected" => s \notin shaking
          /\ sock[s] = "none" => s \notin shaking \cup cleared

\* Between OnRead's look at the socket and its Disconnect() the connection may start to
\* close, but not finish, and what was read of handshaking_ tells if it was established.
EofInv ==
    /\ loop \in {"eof", "eof_handshaking"} => sock[cur] \in Open \cup {"closing"}
    /\ loop = "eof" => cur \notin shaking
    /\ loop = "eof_handshaking" => cur \in shaking

\* A reported socket is over, and OnClose is done with it.
ReportedInv == \A s \in untold : sock[s] \in {"closed", "dropped"} /\ s # cur

\* Between two callbacks the event loop is about no socket.
IdleInv == loop = "idle" => cur = NoSocket

\* The pool holds connections only until their Release, so none takes a place under the
\* limit for ever.
PoolInv ==
    \A s \in pool :
        \/ sock[s] \in Open \cup {"closing"}
        \/ sock[s] = "closed" /\ s = cur /\ loop \in {"leaveall", "remove"}

\* A SocketImpl that lives has an owner.
ReferencedInv == \A s \in Sockets : sock[s] \in Alive => Referenced(s)

HostInv == ShakenInv /\ EofInv /\ ReportedInv /\ IdleInv /\ PoolInv /\ ReferencedInv

\* A destructor takes sockets that are in no pool and that the loop is not about, and
\* leaves no live socket without owner.
LEMMA ReapEnds ==
  ASSUME DataTypes, Reap(sock)
  PROVE  /\ \A s \in Sockets :
              \/ sock'[s] = sock[s]
              \/ sock[s] \in Alive /\ sock'[s] = "dropped" /\ s \notin pool' /\ s # cur'
         /\ ReferencedInv'
BY DEF DataTypes, Reap, Referenced, ReferencedInv, SockStates, Alive

LEMMA HostInit == Init => HostInv
BY SocketsAssumption
  DEF Init, HostInv, ShakenInv, EofInv, ReportedInv, IdleInv, PoolInv, ReferencedInv, Alive

\* HostInv is inductive, given ServerInv.
LEMMA HostStep == ServerInv /\ HostInv /\ [Next]_vars => HostInv'
<1> SUFFICES ASSUME ServerInv, HostInv, [Next]_vars PROVE HostInv'
  OBVIOUS
<1> USE DEF ServerInv, HostInv, serverVars, loopVars, tellVars, leftVars
<1>Start. CASE Start
  BY <1>Start
    DEF Start, ShakenInv, EofInv, ReportedInv, IdleInv, PoolInv, ReferencedInv, Referenced
<1>Stop. CASE Stop
  BY <1>Stop
    DEF Stop, ShakenInv, EofInv, ReportedInv, IdleInv, PoolInv, ReferencedInv, Referenced
<1>SetMaxClients. ASSUME NEW n \in Limits, SetMaxClients(n) PROVE HostInv'
  BY <1>SetMaxClients
    DEF SetMaxClients, ShakenInv, EofInv, ReportedInv, IdleInv, PoolInv, ReferencedInv,
        Referenced
<1>Keep. ASSUME NEW s \in Sockets, Keep(s) PROVE HostInv'
  <2>1. ReferencedInv'
    BY <1>Keep DEF Keep, ReferencedInv, Referenced
  <2>2. ShakenInv' /\ EofInv' /\ ReportedInv' /\ IdleInv' /\ PoolInv'
    BY <1>Keep DEF Keep, ShakenInv, EofInv, ReportedInv, IdleInv, PoolInv
  <2> QED
    BY <2>1, <2>2
<1>Drop. ASSUME NEW s \in Sockets, Drop(s) PROVE HostInv'
  <2>1. /\ \A x \in Sockets :
              \/ sock'[x] = sock[x]
              \/ sock[x] \in Alive /\ sock'[x] = "dropped" /\ x \notin pool' /\ x # cur'
        /\ ReferencedInv'
    BY <1>Drop, ReapEnds DEF Drop
  <2>2. ShakenInv'
    BY <1>Drop, <2>1 DEF Drop, ShakenInv
  <2>3. ReportedInv'
    BY <1>Drop, <2>1 DEF Drop, ReportedInv, DataTypes
  <2>4. PoolInv'
    BY <1>Drop, <2>1 DEF Drop, PoolInv, DataTypes
  <2>5. IdleInv'
    BY <1>Drop DEF Drop, IdleInv
  <2>6. EofInv'
    BY <1>Drop, <2>1 DEF Drop, EofInv, ClosedInv
  <2> QED
    BY <2>1, <2>2, <2>3, <2>4, <2>5, <2>6
<1>Disconnect. ASSUME NEW s \in Sockets, Disconnect(s) PROVE HostInv'
  <2>1. ShakenInv'
    BY <1>Disconnect DEF Disconnect, Closing, ShakenInv, Disconnected, DataTypes, Open
  <2>2. ReportedInv'
    BY <1>Disconnect DEF Disconnect, Closing, ReportedInv, DataTypes, Open
  <2>3. PoolInv'
    BY <1>Disconnect DEF Disconnect, Closing, PoolInv, DataTypes, Open
  <2>4. ReferencedInv'
    BY <1>Disconnect
      DEF Disconnect, Closing, ReferencedInv, Referenced, DataTypes, Open, Alive
  <2>5. IdleInv'
    BY <1>Disconnect DEF Disconnect, IdleInv
  <2>6. EofInv'
    BY <1>Disconnect DEF Disconnect, EofInv, Closing, DataTypes, Open
  <2> QED
    BY <2>1, <2>2, <2>3, <2>4, <2>5, <2>6
<1>Join. ASSUME NEW g \in AllGroups, NEW s \in Sockets, Join(g, s) PROVE HostInv'
  <2>1. ReferencedInv'
    BY <1>Join DEF Join, ReferencedInv, Referenced, DataTypes
  <2>2. ShakenInv' /\ EofInv' /\ ReportedInv' /\ IdleInv' /\ PoolInv'
    BY <1>Join DEF Join, ShakenInv, EofInv, ReportedInv, IdleInv, PoolInv
  <2> QED
    BY <2>1, <2>2
<1>Leave. ASSUME NEW g \in AllGroups, NEW s \in Sockets, Leave(g, s) PROVE HostInv'
  <2>1. /\ \A x \in Sockets :
              \/ sock'[x] = sock[x]
              \/ sock[x] \in Alive /\ sock'[x] = "dropped" /\ x \notin pool' /\ x # cur'
        /\ ReferencedInv'
    BY <1>Leave, ReapEnds DEF Leave
  <2>2. ShakenInv'
    BY <1>Leave, <2>1 DEF Leave, ShakenInv
  <2>3. ReportedInv'
    BY <1>Leave, <2>1 DEF Leave, ReportedInv, DataTypes
  <2>4. PoolInv'
    BY <1>Leave, <2>1 DEF Leave, PoolInv, DataTypes
  <2>5. IdleInv'
    BY <1>Leave DEF Leave, IdleInv
  <2>6. EofInv'
    BY <1>Leave, <2>1 DEF Leave, EofInv, ClosedInv
  <2> QED
    BY <2>1, <2>2, <2>3, <2>4, <2>5, <2>6
<1>Send. ASSUME NEW g \in AllGroups, Send(g) PROVE HostInv'
  <2>1. ReferencedInv'
    BY <1>Send DEF Send, ReferencedInv, Referenced
  <2>2. ShakenInv' /\ EofInv' /\ ReportedInv' /\ IdleInv' /\ PoolInv'
    BY <1>Send DEF Send, ShakenInv, EofInv, ReportedInv, IdleInv, PoolInv
  <2> QED
    BY <2>1, <2>2
<1>StopClear. CASE StopClear
  <2>1. /\ \A x \in Sockets :
              \/ sock'[x] = sock[x]
              \/ sock[x] \in Alive /\ sock'[x] = "dropped" /\ x \notin pool' /\ x # cur'
        /\ ReferencedInv'
    BY <1>StopClear, ReapEnds DEF StopClear
  <2>2. ShakenInv'
    BY <1>StopClear, <2>1 DEF StopClear, ShakenInv, UnmadeInv
  <2>3. ReportedInv'
    BY <1>StopClear, <2>1 DEF StopClear, ReportedInv, DataTypes
  <2>4. PoolInv'
    BY <1>StopClear, <2>1 DEF StopClear, PoolInv, DataTypes
  <2>5. IdleInv'
    BY <1>StopClear DEF StopClear, IdleInv
  <2>6. EofInv'
    BY <1>StopClear, <2>1 DEF StopClear, EofInv, ClosedInv
  <2> QED
    BY <2>1, <2>2, <2>3, <2>4, <2>5, <2>6
<1>StopLeave. ASSUME NEW s \in Sockets, StopLeave(s) PROVE HostInv'
  <2>1. ReferencedInv'
    BY <1>StopLeave DEF StopLeave, ReferencedInv, LeaveAll, Referenced, DataTypes
  <2>2. ShakenInv' /\ EofInv' /\ ReportedInv' /\ IdleInv' /\ PoolInv'
    BY <1>StopLeave DEF StopLeave, ShakenInv, EofInv, ReportedInv, IdleInv, PoolInv, LeaveAll
  <2> QED
    BY <2>1, <2>2
<1>SendReturns. CASE SendReturns
  <2>1. /\ \A x \in Sockets :
              \/ sock'[x] = sock[x]
              \/ sock[x] \in Alive /\ sock'[x] = "dropped" /\ x \notin pool' /\ x # cur'
        /\ ReferencedInv'
    BY <1>SendReturns, ReapEnds DEF SendReturns
  <2>2. ShakenInv'
    BY <1>SendReturns, <2>1 DEF SendReturns, ShakenInv
  <2>3. ReportedInv'
    BY <1>SendReturns, <2>1 DEF SendReturns, ReportedInv, DataTypes
  <2>4. PoolInv'
    BY <1>SendReturns, <2>1 DEF SendReturns, PoolInv, DataTypes
  <2>5. IdleInv'
    BY <1>SendReturns DEF SendReturns, IdleInv
  <2>6. EofInv'
    BY <1>SendReturns, <2>1 DEF SendReturns, EofInv, ClosedInv
  <2> QED
    BY <2>1, <2>2, <2>3, <2>4, <2>5, <2>6
<1>OnConnectReturns. CASE OnConnectReturns
  <2>1. /\ \A x \in Sockets :
              \/ sock'[x] = sock[x]
              \/ sock[x] \in Alive /\ sock'[x] = "dropped" /\ x \notin pool' /\ x # cur'
        /\ ReferencedInv'
    BY <1>OnConnectReturns, ReapEnds DEF OnConnectReturns
  <2>2. ShakenInv'
    BY <1>OnConnectReturns, <2>1 DEF OnConnectReturns, ShakenInv
  <2>3. ReportedInv'
    BY <1>OnConnectReturns, <2>1, SocketsAssumption
      DEF OnConnectReturns, ReportedInv, DataTypes
  <2>4. PoolInv'
    BY <1>OnConnectReturns, <2>1
      DEF OnConnectReturns, PoolInv, DataTypes, ClosedInv, OwnedInv, Open
  <2>5. IdleInv'
    BY <1>OnConnectReturns DEF OnConnectReturns, IdleInv
  <2>6. EofInv'
    BY <1>OnConnectReturns, <2>1 DEF OnConnectReturns, EofInv
  <2> QED
    BY <2>1, <2>2, <2>3, <2>4, <2>5, <2>6
<1>OnReadDisconnect. CASE OnReadDisconnect
  <2>1. cur \in Sockets
    BY <1>OnReadDisconnect DEF OnReadDisconnect, ClosedInv
  <2>2. \A x \in Sockets :
           \/ sock'[x] = IF x = cur THEN Closing(sock[x]) ELSE sock[x]
           \/ sock[x] \in Alive /\ sock'[x] = "dropped" /\ x \notin pool'
    BY <1>OnReadDisconnect, <2>1, ReadEnds
  <2>3. ShakenInv'
    <3>1. /\ UNCHANGED <<shaking, cleared>>
          /\ handshaking' \subseteq handshaking \cup {cur}
          /\ cur \notin shaking => handshaking' \subseteq handshaking
          /\ \A x \in Sockets \ {cur} : x \in handshaking => x \in handshaking'
      BY <1>OnReadDisconnect DEF OnReadDisconnect, Disconnected, EofInv
    <3>2. sock'[cur] # "handshaking"
      BY <2>1, <2>2 DEF Closing, Open
    <3> QED
      BY <2>2, <3>1, <3>2 DEF ShakenInv, Closing, Open
  <2>4. ReportedInv'
    BY <1>OnReadDisconnect, <2>2, SocketsAssumption
      DEF OnReadDisconnect, ReportedInv, DataTypes, Closing, Open
  <2>5. PoolInv'
    BY <1>OnReadDisconnect, <2>2 DEF OnReadDisconnect, PoolInv, DataTypes, Closing, Open
  <2>6. ReferencedInv'
    <3>1. sock' = [x \in Sockets |->
                     IF [sock EXCEPT ![cur] = Closing(@)][x] \in Alive /\ ~Referenced(x)'
                     THEN "dropped" ELSE [sock EXCEPT ![cur] = Closing(@)][x]]
      BY <1>OnReadDisconnect DEF OnReadDisconnect, Reap
    <3> QED
      BY <3>1 DEF ReferencedInv, Alive
  <2>7. IdleInv' /\ EofInv'
    BY <1>OnReadDisconnect DEF OnReadDisconnect, IdleInv, EofInv
  <2> QED
    BY <2>3, <2>4, <2>5, <2>6, <2>7
<1>ReleaseLeave. CASE ReleaseLeave
  <2>1. PoolInv'
    BY <1>ReleaseLeave DEF ReleaseLeave, PoolInv
  <2>2. ReferencedInv'
    BY <1>ReleaseLeave DEF ReleaseLeave, ReferencedInv, LeaveAll, Referenced, DataTypes
  <2>3. IdleInv'
    BY <1>ReleaseLeave DEF ReleaseLeave, IdleInv
  <2>4. ShakenInv' /\ ReportedInv'
    BY <1>ReleaseLeave DEF ReleaseLeave, ShakenInv, ReportedInv, LeaveAll
  <2>5. EofInv'
    BY <1>ReleaseLeave DEF ReleaseLeave, EofInv
  <2> QED
    BY <2>1, <2>2, <2>3, <2>4, <2>5
<1>ReleaseRemove. CASE ReleaseRemove
  <2>1. PoolInv'
    BY <1>ReleaseRemove DEF ReleaseRemove, PoolInv, ClosedInv, Open
  <2>2. ReferencedInv'
    BY <1>ReleaseRemove DEF ReleaseRemove, ReferencedInv, Referenced
  <2>3. IdleInv'
    BY <1>ReleaseRemove DEF ReleaseRemove, IdleInv
  <2>4. ShakenInv' /\ ReportedInv'
    BY <1>ReleaseRemove DEF ReleaseRemove, ShakenInv, ReportedInv
  <2>5. EofInv'
    BY <1>ReleaseRemove DEF ReleaseRemove, EofInv
  <2> QED
    BY <2>1, <2>2, <2>3, <2>4, <2>5
<1>OnDisconnect. CASE OnDisconnect
  <2>1. /\ \A x \in Sockets :
              \/ sock'[x] = sock[x]
              \/ sock[x] \in Alive /\ sock'[x] = "dropped" /\ x \notin pool' /\ x # cur'
        /\ ReferencedInv'
    BY <1>OnDisconnect, ReapEnds DEF OnDisconnect
  <2>2. ShakenInv'
    BY <1>OnDisconnect, <2>1 DEF OnDisconnect, ShakenInv
  <2>3. ReportedInv'
    BY <1>OnDisconnect, <2>1, SocketsAssumption
      DEF OnDisconnect, ReportedInv, ClosedInv, DataTypes
  <2>4. PoolInv'
    BY <1>OnDisconnect, <2>1
      DEF OnDisconnect, PoolInv, DataTypes, ClosedInv, OwnedInv, Open
  <2>5. IdleInv'
    BY <1>OnDisconnect DEF OnDisconnect, IdleInv
  <2>6. EofInv'
    BY <1>OnDisconnect, <2>1 DEF OnDisconnect, EofInv
  <2> QED
    BY <2>1, <2>2, <2>3, <2>4, <2>5, <2>6
<1>AcceptStopped. ASSUME NEW s \in Sockets, AcceptStopped(s) PROVE HostInv'
  <2>1. ShakenInv'
    BY <1>AcceptStopped DEF AcceptStopped, ShakenInv, DataTypes
  <2>2. ReportedInv'
    BY <1>AcceptStopped DEF AcceptStopped, ReportedInv, DataTypes
  <2>3. PoolInv'
    BY <1>AcceptStopped DEF AcceptStopped, PoolInv, UnmadeInv, DataTypes
  <2>4. ReferencedInv'
    BY <1>AcceptStopped DEF AcceptStopped, ReferencedInv, Referenced, Alive, DataTypes
  <2>5. IdleInv'
    BY <1>AcceptStopped DEF AcceptStopped, IdleInv
  <2>6. EofInv'
    BY <1>AcceptStopped DEF AcceptStopped, EofInv
  <2> QED
    BY <2>1, <2>2, <2>3, <2>4, <2>5, <2>6
<1>AcceptRefused. ASSUME NEW s \in Sockets, AcceptRefused(s) PROVE HostInv'
  <2>1. ShakenInv'
    BY <1>AcceptRefused DEF AcceptRefused, ShakenInv, DataTypes
  <2>2. ReportedInv'
    BY <1>AcceptRefused DEF AcceptRefused, ReportedInv, DataTypes
  <2>3. PoolInv'
    BY <1>AcceptRefused DEF AcceptRefused, PoolInv, UnmadeInv, DataTypes
  <2>4. ReferencedInv'
    BY <1>AcceptRefused DEF AcceptRefused, ReferencedInv, Referenced, Alive, DataTypes
  <2>5. IdleInv'
    BY <1>AcceptRefused DEF AcceptRefused, IdleInv
  <2>6. EofInv'
    BY <1>AcceptRefused DEF AcceptRefused, EofInv
  <2> QED
    BY <2>1, <2>2, <2>3, <2>4, <2>5, <2>6
<1>AcceptUnauthorized. ASSUME NEW s \in Sockets, AcceptUnauthorized(s) PROVE HostInv'
  <2>1. ShakenInv'
    BY <1>AcceptUnauthorized DEF AcceptUnauthorized, ShakenInv, DataTypes
  <2>2. ReportedInv'
    BY <1>AcceptUnauthorized DEF AcceptUnauthorized, ReportedInv, DataTypes
  <2>3. PoolInv'
    BY <1>AcceptUnauthorized DEF AcceptUnauthorized, PoolInv, UnmadeInv, DataTypes, Open
  <2>4. ReferencedInv'
    BY <1>AcceptUnauthorized
      DEF AcceptUnauthorized, ReferencedInv, Referenced, Alive, DataTypes
  <2>5. IdleInv'
    BY <1>AcceptUnauthorized DEF AcceptUnauthorized, IdleInv
  <2>6. EofInv'
    BY <1>AcceptUnauthorized DEF AcceptUnauthorized, EofInv
  <2> QED
    BY <2>1, <2>2, <2>3, <2>4, <2>5, <2>6
<1>Accept. ASSUME NEW s \in Sockets, Accept(s) PROVE HostInv'
  <2>1. ShakenInv'
    BY <1>Accept DEF Accept, ShakenInv, DataTypes
  <2>2. ReportedInv'
    BY <1>Accept DEF Accept, ReportedInv, DataTypes
  <2>3. IdleInv'
    BY <1>Accept DEF Accept, IdleInv
  <2>4. PoolInv'
    BY <1>Accept DEF Accept, PoolInv, UnmadeInv, DataTypes, Open
  <2>5. ReferencedInv'
    BY <1>Accept, SocketsAssumption
      DEF Accept, ReferencedInv, Referenced, DataTypes, IdleInv, AllGroups, Alive
  <2>6. EofInv'
    BY <1>Accept DEF Accept, EofInv, DataTypes, Open
  <2> QED
    BY <2>1, <2>2, <2>3, <2>4, <2>5, <2>6
<1>HandshakeDone. ASSUME NEW s \in Sockets, HandshakeDone(s) PROVE HostInv'
  <2>1. ShakenInv'
    BY <1>HandshakeDone DEF HandshakeDone, Completes, ShakenInv, DataTypes
  <2>2. ReportedInv'
    BY <1>HandshakeDone DEF HandshakeDone, Completes, ReportedInv, DataTypes
  <2>3. PoolInv'
    BY <1>HandshakeDone DEF HandshakeDone, Completes, PoolInv, DataTypes, Open
  <2>4. ReferencedInv'
    BY <1>HandshakeDone
      DEF HandshakeDone, Completes, ReferencedInv, Referenced, Alive, DataTypes
  <2>5. IdleInv'
    BY <1>HandshakeDone DEF HandshakeDone, IdleInv
  <2>6. EofInv'
    BY <1>HandshakeDone DEF HandshakeDone, Completes, EofInv
  <2> QED
    BY <2>1, <2>2, <2>3, <2>4, <2>5, <2>6
<1>HandshakeFailed. ASSUME NEW s \in Sockets, HandshakeFailed(s) PROVE HostInv'
  <2>1. ShakenInv'
    BY <1>HandshakeFailed
      DEF HandshakeFailed, Completes, Closing, ShakenInv, DataTypes, Disconnected
  <2>2. ReportedInv'
    BY <1>HandshakeFailed DEF HandshakeFailed, Completes, Closing, ReportedInv, DataTypes
  <2>3. PoolInv'
    BY <1>HandshakeFailed DEF HandshakeFailed, Completes, Closing, PoolInv, DataTypes, Open
  <2>4. ReferencedInv'
    BY <1>HandshakeFailed
      DEF HandshakeFailed, Completes, Closing, ReferencedInv, Referenced, Alive, DataTypes
  <2>5. IdleInv'
    BY <1>HandshakeFailed DEF HandshakeFailed, IdleInv
  <2>6. EofInv'
    BY <1>HandshakeFailed DEF HandshakeFailed, Completes, EofInv
  <2> QED
    BY <2>1, <2>2, <2>3, <2>4, <2>5, <2>6
<1>PeerCloses. ASSUME NEW s \in Sockets, PeerCloses(s) PROVE HostInv'
  <2>1. ShakenInv'
    BY <1>PeerCloses DEF PeerCloses, ShakenInv
  <2>2. ReportedInv'
    BY <1>PeerCloses DEF PeerCloses, ReportedInv, DataTypes, Open
  <2>3. PoolInv'
    BY <1>PeerCloses DEF PeerCloses, PoolInv, DataTypes, Open
  <2>4. ReferencedInv'
    BY <1>PeerCloses, SocketsAssumption
      DEF PeerCloses, ReferencedInv, Referenced, IdleInv
  <2>5. IdleInv'
    BY <1>PeerCloses DEF PeerCloses, IdleInv
  <2>6. EofInv'
    BY <1>PeerCloses DEF PeerCloses, EofInv, ShakenInv, Open
  <2> QED
    BY <2>1, <2>2, <2>3, <2>4, <2>5, <2>6
<1>OnClose. ASSUME NEW s \in Sockets, OnClose(s) PROVE HostInv'
  <2>1. ShakenInv'
    BY <1>OnClose DEF OnClose, ShakenInv, DataTypes
  <2>2. ReportedInv'
    BY <1>OnClose DEF OnClose, ReportedInv, DataTypes
  <2>3. IdleInv'
    BY <1>OnClose DEF OnClose, IdleInv
  <2>4. PoolInv'
    BY <1>OnClose DEF OnClose, PoolInv, DataTypes, Open, IdleInv
  <2>5. ReferencedInv'
    BY <1>OnClose, SocketsAssumption
      DEF OnClose, ReferencedInv, Referenced, Alive, DataTypes, IdleInv
  <2>6. EofInv'
    BY <1>OnClose DEF OnClose, EofInv
  <2> QED
    BY <2>1, <2>2, <2>3, <2>4, <2>5, <2>6
<1>stutter. CASE UNCHANGED vars
  BY <1>stutter
    DEF vars, ShakenInv, EofInv, ReportedInv, IdleInv, PoolInv, ReferencedInv, Referenced
<1> QED
  BY <1>Start, <1>Stop, <1>SetMaxClients, <1>Keep, <1>Drop, <1>Disconnect, <1>Join,
     <1>Leave, <1>Send, <1>StopClear, <1>StopLeave, <1>SendReturns,
     <1>OnConnectReturns, <1>OnReadDisconnect, <1>ReleaseLeave, <1>ReleaseRemove,
     <1>OnDisconnect, <1>AcceptStopped, <1>AcceptRefused, <1>AcceptUnauthorized, <1>Accept,
     <1>HandshakeDone, <1>HandshakeFailed, <1>PeerCloses, <1>OnClose, <1>stutter
     DEF Next, AppNext, StopReturns, LoopReturns, LoopNext, CloseNext

\* Hosting counts with the same operator.
LEMMA HostCardinality == \A S : Host!Cardinality(S) = Cardinality(S)
BY DEF Host!Cardinality, Cardinality

\* What the handler sees of a server: nothing, at first.
LEMMA HostedInit == Init => Host!Init
<1> SUFFICES ASSUME Init PROVE Host!Init
  OBVIOUS
<1>1. max \in Nat
  BY SocketsAssumption, FS_CardinalityType DEF Init
<1>2. (state = "START" \/ stopping) = FALSE
  BY DEF Init
<1>3. [s \in Sockets |-> ConnOf(s)] = [s \in Sockets |-> "new"]
  BY DEF Init, ConnOf
<1>4. cleared \cap told = {}
  BY DEF Init
<1> QED
  BY <1>1, <1>2, <1>3, <1>4 DEF Host!Init

\* A step after which every connection is to the handler what it was is a stutter.
LEMMA Unseen ==
  ASSUME UNCHANGED <<state, stopping, max, cleared, told>>,
         \A s \in Sockets : ConnOf(s)' = ConnOf(s)
  PROVE  UNCHANGED Host!vars
<1>1. UNCHANGED (state = "START" \/ stopping)
  OBVIOUS
<1>2. UNCHANGED [s \in Sockets |-> ConnOf(s)]
  OBVIOUS
<1>3. UNCHANGED (cleared \cap told)
  OBVIOUS
<1> QED
  BY <1>1, <1>2, <1>3 DEF Host!vars

\* A step after which one connection is in another state to the handler.
LEMMA Seen ==
  ASSUME NEW s \in Sockets, NEW c,
         UNCHANGED <<state, stopping, max>>, UNCHANGED (cleared \cap told),
         ConnOf(s)' = c, \A x \in Sockets \ {s} : ConnOf(x)' = ConnOf(x)
  PROVE  /\ UNCHANGED <<(state = "START" \/ stopping), max, (cleared \cap told)>>
         /\ Host!Become(s, c)
<1>1. UNCHANGED (state = "START" \/ stopping)
  OBVIOUS
<1>2. [x \in Sockets |-> ConnOf(x)]' = [[x \in Sockets |-> ConnOf(x)] EXCEPT ![s] = c]
  OBVIOUS
<1> QED
  BY <1>1, <1>2 DEF Host!Become

\* The destructor ends, unheard, only connections that a Stop() let go of: the others are
\* in the pool, or their OnClose is running.
LEMMA Vanishing ==
  ASSUME ServerInv, HostInv, UNCHANGED <<told, untold, handshaking, shaking>>,
         cleared \subseteq cleared', pool \subseteq pool' \cup cleared',
         cur' = cur \/ (cur' = NoSocket /\ cur \in pool' /\ sock[cur] # "closed"),
         \A x \in Sockets :
            \/ sock'[x] = sock[x]
            \/ sock[x] \in Alive /\ sock'[x] = "dropped" /\ x \notin pool' /\ x # cur'
  PROVE  \A x \in Sockets :
            \/ ConnOf(x)' = ConnOf(x)
            \/ /\ ConnOf(x)' = "silent" /\ x \in cleared' \cap told'
               /\ ConnOf(x) \in {"opening", "open", "failing", "aborted", "ended"}
<1> SUFFICES ASSUME NEW x \in Sockets, ConnOf(x)' # ConnOf(x)
             PROVE  /\ ConnOf(x)' = "silent" /\ x \in cleared' \cap told'
                    /\ ConnOf(x) \in {"opening", "open", "failing", "aborted", "ended"}
  OBVIOUS
<1>1. x \in told /\ x \in told'
  BY DEF ConnOf
<1>2. x # NoSocket
  BY SocketsAssumption
<1>3. sock[x] # sock'[x]
  BY <1>1, <1>2 DEF ConnOf, Ending
<1>4. sock[x] \in Alive /\ sock'[x] = "dropped" /\ x \notin pool' /\ x # cur'
  BY <1>3
<1>5. x \notin untold
  BY <1>1, <1>2, <1>4 DEF ConnOf, Ending, HostInv, ReportedInv, Alive
<1>6. ConnOf(x)' = "silent"
  BY <1>1, <1>4, <1>5 DEF ConnOf, Ending
<1>7. ConnOf(x) \in {"opening", "open", "failing", "aborted", "ended"}
  BY <1>1, <1>4, <1>5, <1>6 DEF ConnOf, Ending, Alive
<1>8. sock[x] \in Open \cup {"closing"}
  BY <1>1, <1>4, <1>5, <1>6, <1>7 DEF ConnOf, Ending, Alive, Open
<1>9. x \in pool \/ x \in cleared
  BY <1>1, <1>8 DEF ServerInv, CountInv, Clients, DataTypes
<1> QED
  BY <1>1, <1>4, <1>6, <1>7, <1>9

\* Such a step is one of Hosting.
LEMMA Forgotten ==
  ASSUME UNCHANGED <<state, stopping, max, cleared, told>>,
         \A x \in Sockets :
            \/ ConnOf(x)' = ConnOf(x)
            \/ /\ ConnOf(x)' = "silent"
               /\ \/ ConnOf(x) = "failing"
                  \/ /\ x \in cleared' \cap told'
                     /\ ConnOf(x) \in {"opening", "open", "failing", "aborted", "ended"}
  PROVE  Host!Next
<1> DEFINE over == {x \in Sockets : ConnOf(x)' # ConnOf(x)}
           conn == [x \in Sockets |-> ConnOf(x)]
<1>1. over \in SUBSET Sockets
  OBVIOUS
<1>2. over \subseteq Host!MayVanish(cleared \cap told)
  BY DEF Host!MayVanish, Host!Known
<1>3. conn' = [x \in Sockets |-> IF x \in over THEN "silent" ELSE conn[x]]
  OBVIOUS
<1>4. UNCHANGED (state = "START" \/ stopping)
  OBVIOUS
<1>5. Host!Forget(over)
  BY <1>2, <1>3, <1>4 DEF Host!Forget, Host!Vanish
<1> QED
  BY <1>1, <1>5 DEF Host!Next

\* Every step of a server is to the handler a step of Hosting, or no step.
LEMMA HostedStep ==
  ServerInv /\ ServerInv' /\ HostInv /\ HostInv' /\ [Next]_vars
    => Host!Next \/ UNCHANGED Host!vars
<1> SUFFICES ASSUME ServerInv, ServerInv', HostInv, HostInv', [Next]_vars
             PROVE  Host!Next \/ UNCHANGED Host!vars
  OBVIOUS
<1> USE DEF serverVars, loopVars, tellVars, leftVars
<1>Start. CASE Start
  <2>1. UNCHANGED [x \in Sockets |-> ConnOf(x)]
    BY <1>Start DEF Start, ConnOf, Ending
  <2>2. /\ (state = "START" \/ stopping) = FALSE /\ (state = "START" \/ stopping)' = TRUE
        /\ UNCHANGED <<max, (cleared \cap told)>>
    BY <1>Start DEF Start, ServerMutexFree
  <2> QED
    BY <2>1, <2>2 DEF Host!Next, Host!Start
<1>Stop. CASE Stop
  <2>1. UNCHANGED [x \in Sockets |-> ConnOf(x)]
    BY <1>Stop DEF Stop, ConnOf, Ending
  <2>2. /\ (state = "START" \/ stopping) = TRUE /\ (state = "START" \/ stopping)' = TRUE
        /\ UNCHANGED <<max, (cleared \cap told)>>
    BY <1>Stop DEF Stop
  <2> QED
    BY <2>1, <2>2 DEF Host!vars
<1>SetMaxClients. ASSUME NEW n \in Limits, SetMaxClients(n)
                  PROVE  Host!Next \/ UNCHANGED Host!vars
  <2>1. UNCHANGED [x \in Sockets |-> ConnOf(x)]
    BY <1>SetMaxClients DEF SetMaxClients, ConnOf, Ending
  <2>2. /\ UNCHANGED <<(state = "START" \/ stopping), (cleared \cap told)>>
        /\ max' \in Nat
    BY <1>SetMaxClients, LimitsAssumption DEF SetMaxClients
  <2> QED
    BY <2>1, <2>2 DEF Host!Next, Host!SetMaxClients
<1>Keep. ASSUME NEW s \in Sockets, Keep(s)
         PROVE  Host!Next \/ UNCHANGED Host!vars
  <2>1. \A x \in Sockets : ConnOf(x)' = ConnOf(x)
    BY <1>Keep DEF Keep, ConnOf, Ending
  <2>2. UNCHANGED <<state, stopping, max, cleared, told>>
    BY <1>Keep DEF Keep
  <2> QED
    BY <2>1, <2>2, Unseen
<1>Drop. ASSUME NEW s \in Sockets, Drop(s)
         PROVE  Host!Next \/ UNCHANGED Host!vars
  <2>1. \A x \in Sockets :
           \/ sock'[x] = sock[x]
           \/ sock[x] \in Alive /\ sock'[x] = "dropped" /\ x \notin pool' /\ x # cur'
    BY <1>Drop, ReapEnds DEF Drop, ServerInv
  <2>2. /\ UNCHANGED <<state, stopping, max, cleared, told, untold, handshaking, shaking,
                         pool>>
        /\ cur' = cur \/ (cur' = NoSocket /\ cur \in pool' /\ sock[cur] # "closed")
    BY <1>Drop DEF Drop
  <2> QED
    BY <2>1, <2>2, Vanishing, Forgotten
<1>Disconnect. ASSUME NEW s \in Sockets, Disconnect(s)
               PROVE  Host!Next \/ UNCHANGED Host!vars
  <2>1. /\ s \in told /\ UNCHANGED <<state, stopping, max, cleared, told>>
        /\ \A x \in Sockets \ {s} : ConnOf(x)' = ConnOf(x)
    BY <1>Disconnect
      DEF Disconnect, Disconnected, Has, ConnOf, Ending, ServerInv, ToldInv, DataTypes
  <2>2. CASE ConnOf(s) = "open"
    <3>1. ConnOf(s)' = "ended"
      BY <1>Disconnect, <2>1, <2>2
        DEF Disconnect, Closing, Disconnected, ConnOf, Ending, Open, ServerInv, DataTypes,
            HostInv, ShakenInv
    <3>2. Host!End(s)
      BY <2>1, <2>2, <3>1, Seen DEF Host!End
    <3> QED
      BY <3>2 DEF Host!Next
  <2>3. CASE ConnOf(s) \in {"opening", "failing"}
    <3>1. s \in shaking
      BY <2>1, <2>3 DEF ConnOf, HostInv, ShakenInv
    <3>2. ConnOf(s)' = "aborted"
      BY <1>Disconnect, <2>1, <2>3, <3>1
        DEF Disconnect, Closing, Disconnected, ConnOf, Ending, Open, ServerInv, DataTypes
    <3>3. Host!Abort(s)
      BY <2>1, <2>3, <3>2, Seen DEF Host!Abort
    <3> QED
      BY <3>3 DEF Host!Next
  <2>4. CASE ConnOf(s) \notin {"open", "opening", "failing"}
    <3>1. ConnOf(s)' = ConnOf(s)
      BY <1>Disconnect, <2>1, <2>4
        DEF Disconnect, Closing, Disconnected, ConnOf, Ending, Open, ServerInv, DataTypes
    <3> QED
      BY <2>1, <3>1, Unseen
  <2> QED
    BY <2>2, <2>3, <2>4
<1>Join. ASSUME NEW g \in AllGroups, NEW s \in Sockets, Join(g, s)
         PROVE  Host!Next \/ UNCHANGED Host!vars
  <2>1. \A x \in Sockets : ConnOf(x)' = ConnOf(x)
    BY <1>Join DEF Join, ConnOf, Ending
  <2>2. UNCHANGED <<state, stopping, max, cleared, told>>
    BY <1>Join DEF Join
  <2> QED
    BY <2>1, <2>2, Unseen
<1>Leave. ASSUME NEW g \in AllGroups, NEW s \in Sockets, Leave(g, s)
          PROVE  Host!Next \/ UNCHANGED Host!vars
  <2>1. \A x \in Sockets :
           \/ sock'[x] = sock[x]
           \/ sock[x] \in Alive /\ sock'[x] = "dropped" /\ x \notin pool' /\ x # cur'
    BY <1>Leave, ReapEnds DEF Leave, ServerInv
  <2>2. /\ UNCHANGED <<state, stopping, max, cleared, told, untold, handshaking, shaking,
                         pool>>
        /\ cur' = cur \/ (cur' = NoSocket /\ cur \in pool' /\ sock[cur] # "closed")
    BY <1>Leave DEF Leave
  <2> QED
    BY <2>1, <2>2, Vanishing, Forgotten
<1>Send. ASSUME NEW g \in AllGroups, Send(g)
         PROVE  Host!Next \/ UNCHANGED Host!vars
  <2>1. \A x \in Sockets : ConnOf(x)' = ConnOf(x)
    BY <1>Send DEF Send, ConnOf, Ending
  <2>2. UNCHANGED <<state, stopping, max, cleared, told>>
    BY <1>Send DEF Send
  <2> QED
    BY <2>1, <2>2, Unseen
<1>StopClear. CASE StopClear
  <2> DEFINE over == {x \in Sockets : ConnOf(x)' # ConnOf(x)}
             let == pool \cap told
             conn == [x \in Sockets |-> ConnOf(x)]
  <2>1. \A x \in Sockets :
           \/ sock'[x] = sock[x]
           \/ sock[x] \in Alive /\ sock'[x] = "dropped" /\ x \notin pool' /\ x # cur'
    BY <1>StopClear, ReapEnds DEF StopClear, ServerInv
  <2>2. \A x \in Sockets :
           \/ ConnOf(x)' = ConnOf(x)
           \/ /\ ConnOf(x)' = "silent" /\ x \in cleared' \cap told'
              /\ ConnOf(x) \in {"opening", "open", "failing", "aborted", "ended"}
    BY <1>StopClear, <2>1, Vanishing DEF StopClear
  <2>3. over \in SUBSET Sockets /\ let \in SUBSET Sockets
    BY DEF ServerInv, DataTypes
  <2>4. over \subseteq Host!MayVanish((cleared \cap told)')
    BY <2>2 DEF Host!MayVanish, Host!Known
  <2>5. conn' = [x \in Sockets |-> IF x \in over THEN "silent" ELSE conn[x]]
    BY <2>2
  <2>6. let \subseteq Host!Known
    BY SocketsAssumption
      DEF Host!Known, ConnOf, Ending, Open, HostInv, PoolInv, ReportedInv, ServerInv,
          DataTypes
  <2>7. \A x \in Sockets :
           conn[x] \in {"opening", "open"} => x \in (cleared \cap told) \cup let
    BY DEF ConnOf, ServerInv, CountInv, Clients, Open, DataTypes
  <2>8. (cleared \cap told)' = (cleared \cap told) \cup let
    BY <1>StopClear DEF StopClear
  <2>9. (state = "START" \/ stopping) = TRUE /\ (state = "START" \/ stopping)' = FALSE
    BY <1>StopClear DEF StopClear, ServerInv, StoppedInv
  <2>10. Host!Stop(let, over)
    BY <1>StopClear, <2>4, <2>5, <2>6, <2>7, <2>8, <2>9
      DEF StopClear, Host!Stop, Host!Vanish
  <2> QED
    BY <2>3, <2>10 DEF Host!Next
<1>StopLeave. ASSUME NEW s \in Sockets, StopLeave(s)
              PROVE  Host!Next \/ UNCHANGED Host!vars
  <2>1. \A x \in Sockets : ConnOf(x)' = ConnOf(x)
    BY <1>StopLeave DEF StopLeave, ConnOf, Ending, LeaveAll
  <2>2. UNCHANGED <<state, stopping, max, cleared, told>>
    BY <1>StopLeave DEF StopLeave
  <2> QED
    BY <2>1, <2>2, Unseen
<1>SendReturns. CASE SendReturns
  <2>1. \A x \in Sockets :
           \/ sock'[x] = sock[x]
           \/ sock[x] \in Alive /\ sock'[x] = "dropped" /\ x \notin pool' /\ x # cur'
    BY <1>SendReturns, ReapEnds DEF SendReturns, ServerInv
  <2>2. /\ UNCHANGED <<state, stopping, max, cleared, told, untold, handshaking, shaking,
                         pool>>
        /\ cur' = cur \/ (cur' = NoSocket /\ cur \in pool' /\ sock[cur] # "closed")
    BY <1>SendReturns DEF SendReturns
  <2> QED
    BY <2>1, <2>2, Vanishing, Forgotten
<1>OnConnectReturns. CASE OnConnectReturns
  <2>1. \A x \in Sockets :
           \/ sock'[x] = sock[x]
           \/ sock[x] \in Alive /\ sock'[x] = "dropped" /\ x \notin pool' /\ x # cur'
    BY <1>OnConnectReturns, ReapEnds DEF OnConnectReturns, ServerInv
  <2>2. /\ UNCHANGED <<state, stopping, max, cleared, told, untold, handshaking, shaking,
                         pool>>
        /\ cur' = cur \/ (cur' = NoSocket /\ cur \in pool' /\ sock[cur] # "closed")
    BY <1>OnConnectReturns DEF OnConnectReturns, ServerInv, OwnedInv, HostInv, PoolInv, Open
  <2> QED
    BY <2>1, <2>2, Vanishing, Forgotten
<1>OnReadDisconnect. CASE OnReadDisconnect
  <2>1. PICK s \in Sockets : s = cur
    BY <1>OnReadDisconnect DEF OnReadDisconnect, ServerInv, ClosedInv
  <2>2. /\ UNCHANGED <<state, stopping, max, cleared, told, untold, shaking, pool>>
        /\ cur' = NoSocket /\ s # NoSocket
        /\ sock[s] \in Open \cup {"closing"}
    BY <1>OnReadDisconnect, <2>1, SocketsAssumption DEF OnReadDisconnect, HostInv, EofInv
  <2>3. /\ \A x \in Sockets \ {s} : sock'[x] = sock[x]
        /\ sock'[s] \in {"closing", "dropped"}
        /\ sock'[s] = "dropped" => s \notin pool'
    <3>1. \A x \in Sockets :
             \/ sock'[x] = IF x = cur THEN Closing(sock[x]) ELSE sock[x]
             \/ sock[x] \in Alive /\ sock'[x] = "dropped" /\ x \notin pool'
      BY <1>OnReadDisconnect, <2>1, ReadEnds DEF ServerInv
    <3>2. \A x \in Sockets \ {s} : sock[x] \in Alive => Referenced(x)'
      BY <1>OnReadDisconnect, <2>1
        DEF OnReadDisconnect, HostInv, ReferencedInv, Referenced
    <3>3. \A x \in Sockets \ {s} : [sock EXCEPT ![cur] = Closing(@)][x] = sock[x]
      BY <2>1 DEF ServerInv, DataTypes
    <3>4. \A x \in Sockets \ {s} : sock'[x] = sock[x]
      BY <1>OnReadDisconnect, <3>2, <3>3 DEF OnReadDisconnect, Reap
    <3>5. sock'[s] = Closing(sock[s]) \/ (sock'[s] = "dropped" /\ s \notin pool')
      BY <2>1, <3>1
    <3> QED
      BY <2>2, <3>4, <3>5 DEF Closing, Open
  <2>4. handshaking' = IF s \in shaking THEN handshaking \cup {s} ELSE handshaking \ {s}
    BY <1>OnReadDisconnect, <2>1 DEF OnReadDisconnect, Disconnected, HostInv, EofInv
  <2>5. \A x \in Sockets \ {s} : ConnOf(x)' = ConnOf(x)
    BY <2>1, <2>2, <2>3, <2>4, SocketsAssumption DEF ConnOf, Ending
  <2>6. CASE s \notin told
    BY <2>2, <2>5, <2>6, Unseen DEF ConnOf
  <2>7. CASE s \in told /\ sock'[s] = "dropped"
    <3>1. s \notin untold
      BY <2>1 DEF HostInv, ReportedInv
    <3>2. ConnOf(s)' = "silent"
      BY <2>2, <2>7, <3>1 DEF ConnOf, Ending
    <3>3. ConnOf(s) \in {"opening", "open", "failing", "aborted", "ended"}
      BY <2>1, <2>2, <2>7 DEF ConnOf, Ending, Open
    <3>4. s \in cleared' \cap told'
      BY <2>2, <2>3, <2>7 DEF ServerInv, CountInv, Clients
    <3> QED
      BY <2>2, <2>5, <3>2, <3>3, <3>4, Forgotten
  <2>8. CASE s \in told /\ s \in shaking /\ sock'[s] = "closing"
    <3>1. ConnOf(s)' = "failing"
      BY <2>2, <2>4, <2>8 DEF ConnOf, Ending
    <3>2. ConnOf(s) \in {"opening", "failing", "aborted"}
      BY <2>1, <2>2, <2>8 DEF ConnOf, Ending, Open, HostInv, ShakenInv
    <3>3. CASE ConnOf(s) = "failing"
      BY <2>2, <2>5, <3>1, <3>3, Unseen
    <3>4. CASE ConnOf(s) \in {"opening", "aborted"}
      <4>1. Host!Fail(s)
        BY <2>2, <2>5, <3>1, <3>4, Seen DEF Host!Fail
      <4> QED
        BY <4>1 DEF Host!Next
    <3> QED
      BY <3>2, <3>3, <3>4
  <2>9. CASE s \in told /\ s \notin shaking /\ sock'[s] = "closing"
    <3>1. ConnOf(s)' = "ended"
      BY <2>2, <2>4, <2>9 DEF ConnOf, Ending
    <3>2. ConnOf(s) \in {"open", "ended"}
      BY <2>1, <2>2, <2>9 DEF ConnOf, Ending, Open, HostInv, ShakenInv
    <3>3. CASE ConnOf(s) = "ended"
      BY <2>2, <2>5, <3>1, <3>3, Unseen
    <3>4. CASE ConnOf(s) = "open"
      <4>1. Host!End(s)
        BY <2>2, <2>5, <3>1, <3>4, Seen DEF Host!End
      <4> QED
        BY <4>1 DEF Host!Next
    <3> QED
      BY <3>2, <3>3, <3>4
  <2> QED
    BY <2>3, <2>6, <2>7, <2>8, <2>9
<1>ReleaseLeave. CASE ReleaseLeave
  <2>1. \A x \in Sockets : ConnOf(x)' = ConnOf(x)
    BY <1>ReleaseLeave DEF ReleaseLeave, ConnOf, Ending, LeaveAll
  <2>2. UNCHANGED <<state, stopping, max, cleared, told>>
    BY <1>ReleaseLeave DEF ReleaseLeave
  <2> QED
    BY <2>1, <2>2, Unseen
<1>ReleaseRemove. CASE ReleaseRemove
  <2>1. \A x \in Sockets : ConnOf(x)' = ConnOf(x)
    BY <1>ReleaseRemove DEF ReleaseRemove, ConnOf, Ending
  <2>2. UNCHANGED <<state, stopping, max, cleared, told>>
    BY <1>ReleaseRemove DEF ReleaseRemove
  <2> QED
    BY <2>1, <2>2, Unseen
<1>OnDisconnect. CASE OnDisconnect
  <2>1. PICK s \in Sockets : s = cur
    BY <1>OnDisconnect DEF OnDisconnect, ServerInv, ClosedInv
  <2>2. \A x \in Sockets : sock'[x] = sock[x] \/ (x = s /\ sock'[x] = "dropped")
    BY <1>OnDisconnect, <2>1
      DEF OnDisconnect, Reap, Referenced, HostInv, ReferencedInv, ServerInv, DataTypes
  <2>3. /\ UNCHANGED <<state, stopping, max, cleared, told, handshaking, shaking>>
        /\ cur' = NoSocket /\ s \notin untold
        /\ untold' = IF s \in handshaking THEN untold ELSE untold \cup {s}
        /\ sock[s] = "closed" /\ sock'[s] \in {"closed", "dropped"}
    BY <1>OnDisconnect, <2>1, <2>2
      DEF OnDisconnect, HostInv, ReportedInv, ServerInv, ClosedInv
  <2>4. \A x \in Sockets \ {s} : ConnOf(x)' = ConnOf(x)
    BY <2>1, <2>2, <2>3, SocketsAssumption DEF ConnOf, Ending
  <2>5. CASE s \notin handshaking
    <3>1. s \in told
      BY <2>3, <2>5 DEF ServerInv, ChallengedInv, Alive
    <3>2. ConnOf(s) \in {"aborted", "ended"}
      BY <2>1, <2>3, <2>5, <3>1 DEF ConnOf, Ending
    <3>3. ConnOf(s)' = "reported"
      BY <2>3, <2>5, <3>1, SocketsAssumption DEF ConnOf, Ending
    <3>4. Host!Report(s)
      BY <2>3, <2>4, <3>2, <3>3, Seen DEF Host!Report
    <3> QED
      BY <3>4 DEF Host!Next
  <2>6. CASE s \in handshaking /\ s \in told
    <3>1. ConnOf(s) = "failing"
      BY <2>1, <2>3, <2>6 DEF ConnOf, Ending
    <3>2. ConnOf(s)' = "silent"
      BY <2>3, <2>6, SocketsAssumption DEF ConnOf, Ending
    <3> QED
      BY <2>3, <2>4, <3>1, <3>2, Forgotten
  <2>7. CASE s \in handshaking /\ s \notin told
    <3>1. ConnOf(s)' = ConnOf(s)
      BY <2>3, <2>7 DEF ConnOf
    <3> QED
      BY <2>3, <2>4, <3>1, Unseen
  <2> QED
    BY <2>5, <2>6, <2>7
<1>AcceptStopped. ASSUME NEW s \in Sockets, AcceptStopped(s)
                  PROVE  Host!Next \/ UNCHANGED Host!vars
  <2>1. \A x \in Sockets : ConnOf(x)' = ConnOf(x)
    BY <1>AcceptStopped DEF AcceptStopped, ConnOf, Ending, ServerInv, UnmadeInv, DataTypes
  <2>2. UNCHANGED <<state, stopping, max, cleared, told>>
    BY <1>AcceptStopped DEF AcceptStopped
  <2> QED
    BY <2>1, <2>2, Unseen
<1>AcceptRefused. ASSUME NEW s \in Sockets, AcceptRefused(s)
                  PROVE  Host!Next \/ UNCHANGED Host!vars
  <2>1. \A x \in Sockets : ConnOf(x)' = ConnOf(x)
    BY <1>AcceptRefused DEF AcceptRefused, ConnOf, Ending, ServerInv, UnmadeInv, DataTypes
  <2>2. UNCHANGED <<state, stopping, max, cleared, told>>
    BY <1>AcceptRefused DEF AcceptRefused
  <2> QED
    BY <2>1, <2>2, Unseen
<1>AcceptUnauthorized. ASSUME NEW s \in Sockets, AcceptUnauthorized(s)
                       PROVE  Host!Next \/ UNCHANGED Host!vars
  <2>1. \A x \in Sockets : ConnOf(x)' = ConnOf(x)
    BY <1>AcceptUnauthorized
      DEF AcceptUnauthorized, ConnOf, Ending, ServerInv, UnmadeInv, DataTypes
  <2>2. UNCHANGED <<state, stopping, max, cleared, told>>
    BY <1>AcceptUnauthorized DEF AcceptUnauthorized
  <2> QED
    BY <2>1, <2>2, Unseen
<1>Accept. ASSUME NEW s \in Sockets, Accept(s)
           PROVE  Host!Next \/ UNCHANGED Host!vars
  <2>1. /\ UNCHANGED <<state, stopping, max, cleared>>
        /\ s \notin told /\ s \notin cleared /\ told' = told \cup {s} /\ cur = NoSocket
    BY <1>Accept DEF Accept, ServerInv, UnmadeInv, HostInv, ShakenInv, IdleInv
  <2>2. \A x \in Sockets \ {s} : ConnOf(x)' = ConnOf(x)
    BY <1>Accept, <2>1, SocketsAssumption
      DEF Accept, ConnOf, Ending, ServerInv, DataTypes, ClosedInv
  <2>3. ConnOf(s) = "new"
    BY <2>1 DEF ConnOf
  <2>4. ConnOf(s)' \in {"opening", "open"}
    <3>1. sock'[s] \in {"handshaking", "connected"} /\ s \in told'
      BY <1>Accept, <2>1 DEF Accept, ServerInv, DataTypes
    <3> QED
      BY <3>1 DEF ConnOf, Ending
  <2>5. (cleared \cap told)' = cleared \cap told
    BY <2>1
  <2>6. max > 0 => Host!Cardinality(Host!Known \ (cleared \cap told)) < max
    <3>1. Host!Known \ (cleared \cap told) \subseteq pool
      BY <2>1, SocketsAssumption
        DEF Host!Known, ConnOf, Ending, ServerInv, CountInv, Clients, Open, DataTypes
    <3>2. IsFiniteSet(pool) /\ Cardinality(pool) \in Nat
      BY SocketsAssumption, FS_Subset, FS_CardinalityType DEF ServerInv, DataTypes
    <3>3. /\ Cardinality(Host!Known \ (cleared \cap told)) <= Cardinality(pool)
          /\ Cardinality(Host!Known \ (cleared \cap told)) \in Nat
      BY <3>1, <3>2, FS_Subset, FS_CardinalityType
    <3>4. max > 0 => Cardinality(pool) < max
      BY <1>Accept, <3>2 DEF Accept, Full, ServerInv, DataTypes
    <3>5. max \in Nat
      BY DEF ServerInv, DataTypes
    <3> QED
      BY <3>2, <3>3, <3>4, <3>5, HostCardinality
  <2>7. /\ UNCHANGED <<(state = "START" \/ stopping), max, (cleared \cap told)>>
        /\ Host!Become(s, "opening") \/ Host!Become(s, "open")
    BY <2>1, <2>2, <2>4, <2>5, Seen
  <2>8. Host!Connect(s)
    <3>1. state = "START" \/ stopping
      BY <1>Accept DEF Accept
    <3>2. [x \in Sockets |-> ConnOf(x)][s] = "new"
      BY <2>3
    <3> QED
      BY <2>6, <2>7, <3>1, <3>2 DEF Host!Connect
  <2> QED
    BY <2>8 DEF Host!Next
<1>HandshakeDone. ASSUME NEW s \in Sockets, HandshakeDone(s)
                  PROVE  Host!Next \/ UNCHANGED Host!vars
  <2>1. /\ UNCHANGED <<state, stopping, max, cleared, told>>
        /\ \A x \in Sockets \ {s} : ConnOf(x)' = ConnOf(x)
    BY <1>HandshakeDone DEF HandshakeDone, Completes, ConnOf, Ending, ServerInv, DataTypes
  <2>2. CASE sock[s] = "handshaking"
    <3>1. ConnOf(s) = "opening" /\ ConnOf(s)' = "open"
      BY <1>HandshakeDone, <2>2 DEF HandshakeDone, ConnOf, Ending, ServerInv, DataTypes
    <3>2. Host!Establish(s)
      BY <2>1, <3>1, Seen DEF Host!Establish
    <3> QED
      BY <3>2 DEF Host!Next
  <2>3. CASE sock[s] = "closing"
    <3>1. ConnOf(s) \in {"failing", "aborted"} /\ ConnOf(s)' = "ended"
      BY <1>HandshakeDone, <2>3
        DEF HandshakeDone, Completes, ConnOf, Ending, ServerInv, DataTypes
    <3>2. Host!Establish(s)
      BY <2>1, <3>1, Seen DEF Host!Establish
    <3> QED
      BY <3>2 DEF Host!Next
  <2> QED
    BY <1>HandshakeDone, <2>2, <2>3 DEF HandshakeDone, Completes
<1>HandshakeFailed. ASSUME NEW s \in Sockets, HandshakeFailed(s)
                    PROVE  Host!Next \/ UNCHANGED Host!vars
  <2>1. /\ UNCHANGED <<state, stopping, max, cleared, told>>
        /\ \A x \in Sockets \ {s} : ConnOf(x)' = ConnOf(x)
    BY <1>HandshakeFailed
      DEF HandshakeFailed, Completes, Disconnected, ConnOf, Ending, ServerInv, DataTypes
  <2>2. CASE s \in told
    <3>1. ConnOf(s)' = "failing"
      BY <1>HandshakeFailed, <2>2
        DEF HandshakeFailed, Completes, Closing, Open, Disconnected, ConnOf, Ending,
            ServerInv, DataTypes
    <3>2. ConnOf(s) \in {"opening", "aborted", "failing"}
      BY <1>HandshakeFailed, <2>2 DEF HandshakeFailed, Completes, ConnOf, Ending
    <3>3. CASE ConnOf(s) = "failing"
      BY <2>1, <3>1, <3>3, Unseen
    <3>4. CASE ConnOf(s) \in {"opening", "aborted"}
      <4>1. Host!Fail(s)
        BY <2>1, <3>1, <3>4, Seen DEF Host!Fail
      <4> QED
        BY <4>1 DEF Host!Next
    <3> QED
      BY <3>2, <3>3, <3>4
  <2>3. CASE s \notin told
    BY <2>1, <2>3, Unseen DEF ConnOf
  <2> QED
    BY <2>2, <2>3
<1>PeerCloses. ASSUME NEW s \in Sockets, PeerCloses(s)
               PROVE  Host!Next \/ UNCHANGED Host!vars
  <2>1. \A x \in Sockets : ConnOf(x)' = ConnOf(x)
    BY <1>PeerCloses, SocketsAssumption
      DEF PeerCloses, ConnOf, Ending, Open, HostInv, IdleInv
  <2>2. UNCHANGED <<state, stopping, max, cleared, told>>
    BY <1>PeerCloses DEF PeerCloses
  <2> QED
    BY <2>1, <2>2, Unseen
<1>OnClose. ASSUME NEW s \in Sockets, OnClose(s)
            PROVE  Host!Next \/ UNCHANGED Host!vars
  <2>1. \A x \in Sockets : ConnOf(x)' = ConnOf(x)
    BY <1>OnClose, SocketsAssumption
      DEF OnClose, ConnOf, Ending, ServerInv, DataTypes, HostInv, IdleInv
  <2>2. UNCHANGED <<state, stopping, max, cleared, told>>
    BY <1>OnClose DEF OnClose
  <2> QED
    BY <2>1, <2>2, Unseen
<1>stutter. CASE UNCHANGED vars
  BY <1>stutter, Unseen DEF vars, ConnOf, Ending
<1> QED
  BY <1>Start, <1>Stop, <1>SetMaxClients, <1>Keep, <1>Drop, <1>Disconnect, <1>Join,
     <1>Leave, <1>Send, <1>StopClear, <1>StopLeave, <1>SendReturns,
     <1>OnConnectReturns, <1>OnReadDisconnect, <1>ReleaseLeave, <1>ReleaseRemove,
     <1>OnDisconnect, <1>AcceptStopped, <1>AcceptRefused, <1>AcceptUnauthorized, <1>Accept,
     <1>HandshakeDone, <1>HandshakeFailed, <1>PeerCloses, <1>OnClose, <1>stutter
     DEF Next, AppNext, StopReturns, LoopReturns, LoopNext, CloseNext

\* The pool holds no connection after its Release, nobody's SocketImpl is left alive, and a
\* connection is reported once.
THEOREM HostInvariant == Spec => [](ServerInv /\ HostInv)
<1> QED
  BY ServerInit, ServerStep, HostInit, HostStep, PTL DEF Spec

\* To its handler a server behaves as Hosting says: Stop() is one step that lets go of every
\* open connection, OnConnect stays within the limit, and the only connections whose end is
\* not told, once, by OnDisconnect are those that failed in their handshake, also after a
\* Disconnect() of the application, and those that Stop() let go of.  No Disconnect() and no
\* late callback takes the OnDisconnect of an established connection back: handshaking_ is
\* set only while libtv has not completed the handshake (ShakenInv, EofInv).
THEOREM ServerImplementsHosting == Spec => ImplementsHosting
<1>1. ServerInv /\ ServerInv' /\ HostInv /\ HostInv' /\ [Next]_vars => [Host!Next]_Host!vars
  BY HostedStep
<1> QED
  BY <1>1, HostInvariant, HostedInit, PTL DEF Spec, ImplementsHosting, Host!Spec
=============================================================================

------------------------------ MODULE Hosting ------------------------------
(***************************************************************************)
(* What a server promises to its handler (server.h, handler.h): the        *)
(* contract behind Start, Stop, SetMaxClients, OnConnect and OnDisconnect. *)
(* There is no pool here, no group, no mutex, no callback and nobody who   *)
(* keeps a socket alive; Stop() is one step.  Server implements it         *)
(* (ImplementsHosting).                                                    *)
(***************************************************************************)
EXTENDS Naturals, FiniteSets

CONSTANT Connections

VARIABLES
    serving,    \* started, and no Stop() has returned since
    limit,      \* the limit on the connections of the handler, 0 for none
    conn,       \* each connection as the handler sees it
    released    \* connections that a Stop() let go of

vars == <<serving, limit, conn, released>>

\* "opening": OnConnect was called during the handshake; "failing": the handshake failed;
\* "aborted": the application ended it during the handshake; "ended": established and over,
\* and OnDisconnect is due; "reported": OnDisconnect was called; "silent": over, and the
\* handler will not hear of it.
States == {"new", "opening", "open", "failing", "aborted", "ended", "reported", "silent"}

\* The connections of the handler.
Known ==
    {s \in Connections : conn[s] \in {"opening", "open", "failing", "aborted", "ended"}}

\* The handler hears of the end of every connection, but for those whose handshake failed
\* and those a Stop() let go of, where "gone" is the set of the latter.
MayVanish(gone) == {s \in Known : conn[s] = "failing" \/ s \in gone}

Vanish(S) == conn' = [s \in Connections |-> IF s \in S THEN "silent" ELSE conn[s]]

Become(s, state) == conn' = [conn EXCEPT ![s] = state]

Init ==
    /\ serving = FALSE /\ limit \in Nat
    /\ conn = [s \in Connections |-> "new"] /\ released = {}

----------------------------------------------------------------------------

Start ==
    /\ ~serving /\ serving' = TRUE
    /\ UNCHANGED <<limit, conn, released>>

\* Stop() lets go of every connection that is open or opening, and perhaps of some that are
\* just being closed.
Stop(let, over) ==
    /\ serving /\ serving' = FALSE
    /\ let \subseteq Known
    /\ \A s \in Connections : conn[s] \in {"opening", "open"} => s \in released \cup let
    /\ released' = released \cup let
    /\ over \subseteq MayVanish(released') /\ Vanish(over)
    /\ UNCHANGED limit

SetMaxClients ==
    /\ limit' \in Nat
    /\ UNCHANGED <<serving, conn, released>>

\* OnConnect: while the server serves, and within the limit, which counts what the handler
\* has and no Stop() let go of.
Connect(s) ==
    /\ serving /\ conn[s] = "new"
    /\ limit > 0 => Cardinality(Known \ released) < limit
    /\ Become(s, "opening") \/ Become(s, "open")
    /\ UNCHANGED <<serving, limit, released>>

\* The handshake completes, of an open connection or of one that is being closed.
Establish(s) ==
    /\ \/ conn[s] = "opening" /\ Become(s, "open")
       \/ conn[s] \in {"failing", "aborted"} /\ Become(s, "ended")
    /\ UNCHANGED <<serving, limit, released>>

\* The handshake fails or the peer goes away before it completes; this may also take back
\* the OnDisconnect that an application is due which has just called Disconnect().
Fail(s) ==
    /\ conn[s] \in {"opening", "aborted"} /\ Become(s, "failing")
    /\ UNCHANGED <<serving, limit, released>>

\* The application calls Disconnect() during the handshake.
Abort(s) ==
    /\ conn[s] \in {"opening", "failing"} /\ Become(s, "aborted")
    /\ UNCHANGED <<serving, limit, released>>

\* The peer or the application ends an established connection; nothing can take the
\* OnDisconnect back that is due from then on.
End(s) ==
    /\ conn[s] = "open" /\ Become(s, "ended")
    /\ UNCHANGED <<serving, limit, released>>

\* OnDisconnect, once for each connection.
Report(s) ==
    /\ conn[s] \in {"aborted", "ended"} /\ Become(s, "reported")
    /\ UNCHANGED <<serving, limit, released>>

Forget(over) ==
    /\ over \subseteq MayVanish(released) /\ Vanish(over)
    /\ UNCHANGED <<serving, limit, released>>

Next ==
    \/ Start \/ SetMaxClients
    \/ \E let, over \in SUBSET Connections : Stop(let, over)
    \/ \E s \in Connections :
          Connect(s) \/ Establish(s) \/ Fail(s) \/ Abort(s) \/ End(s) \/ Report(s)
    \/ \E over \in SUBSET Connections : Forget(over)

Spec == Init /\ [][Next]_vars
=============================================================================

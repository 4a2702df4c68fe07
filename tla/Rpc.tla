-------------------------------- MODULE Rpc --------------------------------
(***************************************************************************)
(* What a socket promises to the application: the contract behind          *)
(* Handler::OnConnect, OnDisconnect, OnMessage and OnError (handler.h) and *)
(* Socket::Connect, Disconnect and Message::Send.  There are no threads,   *)
(* mutexes, timers or handles here, only the calls and callbacks the       *)
(* application sees.  LinearSocket implements it (ImplementsRpc).          *)
(***************************************************************************)
EXTENDS Naturals

CONSTANTS Requests, Notifies

Messages == Requests \cup Notifies

VARIABLES
    owed,       \* attempts whose OnDisconnect has not been called yet
    up,         \* OnConnect called, its OnDisconnect not yet
    accepted,   \* messages Send() has accepted
    lost,       \* accepted messages the socket may lose silently
    reports,    \* reports by response, timeout or cancellation, of each message
    failures    \* reports by a failed write, of each message

vars == <<owed, up, accepted, lost, reports, failures>>

\* A client that was never connected, or a server's socket given to OnConnect.
Init ==
    /\ \/ owed = 0 /\ up = FALSE
       \/ owed = 1 /\ up = TRUE
    /\ accepted = {} /\ lost = {}
    /\ reports = [m \in Messages |-> 0]
    /\ failures = [m \in Messages |-> 0]

\* Connect() returned LNR_OK: the handler will get an OnDisconnect for it.
Attempt ==
    /\ owed' = owed + 1
    /\ UNCHANGED <<up, accepted, lost, reports, failures>>

\* Send() accepts a message once, and only while an OnDisconnect is owed.
Accept(m) ==
    /\ m \notin accepted /\ owed > 0
    /\ accepted' = accepted \cup {m}
    /\ UNCHANGED <<owed, up, lost, reports, failures>>

\* Only an application that called Connect() before the OnDisconnect of the previous
\* attempt can have a message accepted and lost.
Lose(m) ==
    /\ m \notin accepted /\ owed > 1
    /\ accepted' = accepted \cup {m}
    /\ lost' = lost \cup {m}
    /\ UNCHANGED <<owed, up, reports, failures>>

\* OnConnect is for an attempt, and not repeated without an OnDisconnect.
OnConnect ==
    /\ owed > 0 /\ ~up
    /\ up' = TRUE
    /\ UNCHANGED <<owed, accepted, lost, reports, failures>>

\* OnMessage(response), OnError(ETIMEDOUT) or OnError(ECANCELED), each message once and
\* while an OnDisconnect is owed; one whose write failed may be reported later.
Report(ms) ==
    /\ \A m \in ms : /\ m \in accepted \ lost
                     /\ reports[m] = 0
                     /\ owed > 0 \/ failures[m] = 1
    /\ reports' = [m \in Messages |-> reports[m] + (IF m \in ms THEN 1 ELSE 0)]
    /\ UNCHANGED <<owed, up, accepted, lost, failures>>

\* OnError of a failed write, each message once and while an OnDisconnect is owed.
Fail(m) ==
    /\ m \in accepted \ lost /\ failures[m] = 0 /\ owed > 0
    /\ failures' = [failures EXCEPT ![m] = 1]
    /\ UNCHANGED <<owed, up, accepted, lost, reports>>

\* The last OnDisconnect comes after a report of every accepted request.
OnDisconnect ==
    /\ owed > 0
    /\ owed = 1 => \A r \in (accepted \cap Requests) \ lost : reports[r] + failures[r] > 0
    /\ owed' = owed - 1 /\ up' = FALSE
    /\ UNCHANGED <<accepted, lost, reports, failures>>

Next ==
    \/ Attempt
    \/ \E m \in Messages : Accept(m) \/ Lose(m)
    \/ OnConnect
    \/ \E ms \in SUBSET Messages : Report(ms)
    \/ \E m \in Messages : Fail(m)
    \/ OnDisconnect

Spec == Init /\ [][Next]_vars
=============================================================================

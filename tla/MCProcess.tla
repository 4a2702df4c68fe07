----------------------------- MODULE MCProcess -----------------------------
(***************************************************************************)
(* A model-checking instance of Server, Client and Log: what the threads   *)
(* of a process share.  The three share no variable, so each is explored   *)
(* while the others are in their initial state.                            *)
(***************************************************************************)
EXTENDS MCServer, Client, Log

ProcessSymmetry == SocketSymmetry \cup Permutations(Threads)

ProcessVars == <<vars, clientVars, logVars>>

ProcessInit == Init /\ ClientInit /\ LogInit

ProcessNext ==
    \/ ClientInit /\ retries /\ LogInit /\ Next /\ UNCHANGED <<clientVars, logVars>>
    \/ Init /\ kind = "TCP" /\ LogInit /\ ClientNext /\ UNCHANGED <<vars, logVars>>
    \/ Init /\ kind = "TCP" /\ ClientInit /\ retries /\ LogNext /\ UNCHANGED <<vars, clientVars>>

ProcessSpec == ProcessInit /\ [][ProcessNext]_ProcessVars
=============================================================================

------------------------------ MODULE MCServer ------------------------------
(***************************************************************************)
(* Model-checking instances of Server, and a statement of the              *)
(* documentation that the code does not keep.                              *)
(***************************************************************************)
EXTENDS Server, TLC

SocketSymmetry == Permutations(Sockets)

(***************************************************************************)
(* include/linear/handler.h: OnDisconnect is "called when socket is        *)
(* disconnected".  A connection that was reported by OnConnect and has     *)
(* completed its handshake does not end without OnDisconnect.              *)
(***************************************************************************)
StopReported ==
    \A s \in told : sock[s] = "dropped" => s \in untold \cup handshaking
=============================================================================

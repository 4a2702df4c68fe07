--------------------------- MODULE MCLinearSocket ---------------------------
(***************************************************************************)
(* Model-checking instances of LinearSocket, and the statements of the     *)
(* repository's tests and documentation that the code does not keep.       *)
(***************************************************************************)
EXTENDS LinearSocket, TLC

RequestSymmetry == Permutations(Requests)

(***************************************************************************)
(* test/tcp_client_server_connection_test.cpp, OnConnectAndDisconnectFrom- *)
(* OtherTherad: a Disconnect() of the application is reported to           *)
(* OnDisconnect as LNR_OK.                                                 *)
(***************************************************************************)
DisconnectReason ==
    loop = "ondisconnect" /\ closes = <<"application">> => last_error = "OK"

(***************************************************************************)
(* test/tcp_client_server_send_recv_test.cpp, RequestFromClientFTNot-      *)
(* ResponseFromServer: a request that times out is reported to OnError     *)
(* once.                                                                   *)
(***************************************************************************)
OneErrorPerRequest == \A r \in Requests : settled[r] + writeErrors[r] <= 1

(***************************************************************************)
(* include/linear/handler.h: OnDisconnect is "called when socket is        *)
(* disconnected".  A socket at rest in DISCONNECTED has reported the end   *)
(* of every attempt the application started.                               *)
(***************************************************************************)
DisconnectReported == loop = "idle" /\ state = "DISCONNECTED" => owed = 0

(***************************************************************************)
(* The same test and sample/lperf.cpp call socket.Disconnect() in OnError: *)
(* that call returns.  The event loop must not wait for state_mutex_ with  *)
(* request_timer_mutex_ held while Send() waits for the latter.            *)
(***************************************************************************)
NoLockCycle == ~(loop = "onerror_held" /\ CallsBack /\ sending = "push")
=============================================================================

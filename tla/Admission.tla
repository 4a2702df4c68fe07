----------------------------- MODULE Admission -----------------------------
(***************************************************************************)
(* What the authentication of a server promises (auth_context.h,           *)
(* nonce_pool.h): who is let in, and what a nonce is good for.             *)
(* There are no headers, no hashes, no timers and no steps of OnAccept     *)
(* here.  Digest implements it (ImplementsAdmission).                      *)
(***************************************************************************)
EXTENDS Naturals

CONSTANTS Clients, Nonces

VARIABLES
    scheme,        \* what the server asks for: "UNUSED", "BASIC" or "DIGEST"
    known,         \* the clients that have the name and the password of a user
    holds,         \* the nonces each client was told and still has
    valid,         \* the nonces that a client may still redeem
    redeemed,      \* the clients that have redeemed a nonce and await the verdict
    inside         \* the clients that were let in

vars == <<scheme, known, holds, valid, redeemed, inside>>

Told == UNION {holds[c] : c \in Clients}

Init ==
    /\ scheme \in {"UNUSED", "BASIC", "DIGEST"} /\ known \subseteq Clients
    /\ holds = [c \in Clients |-> {}]
    /\ valid = {} /\ redeemed = {} /\ inside = {}

----------------------------------------------------------------------------

\* A client is challenged: it is told a nonce that nobody has.
Challenge(c, n) ==
    /\ scheme = "DIGEST" /\ n \notin Told
    /\ holds' = [holds EXCEPT ![c] = @ \cup {n}]
    /\ valid' = valid \cup {n}
    /\ UNCHANGED <<scheme, known, redeemed, inside>>

\* A client redeems a nonce that it was told: nobody can do so again.
Redeem(c, n) ==
    /\ n \in holds[c] \cap valid
    /\ valid' = valid \ {n} /\ redeemed' = redeemed \cup {c}
    /\ UNCHANGED <<scheme, known, holds, inside>>

\* A client is let in if it knows the password, of a digest server only for a nonce.
Admit(c) ==
    /\ c \notin inside /\ inside' = inside \cup {c}
    /\ scheme # "UNUSED" => c \in known
    /\ scheme = "DIGEST" => c \in redeemed
    /\ redeemed' = redeemed \ {c}
    /\ UNCHANGED <<scheme, known, holds, valid>>

\* A client is turned away; the nonce was used up.
Refuse(c) ==
    /\ c \in redeemed /\ redeemed' = redeemed \ {c}
    /\ UNCHANGED <<scheme, known, holds, valid, inside>>

\* Nonces expire.
Lapse(S) ==
    /\ S \subseteq valid /\ valid' = valid \ S
    /\ UNCHANGED <<scheme, known, holds, redeemed, inside>>

\* A client goes on: it forgets nonces, and what it was let into may come to an end.  A
\* nonce that nobody has cannot be redeemed.
Forget(c, kept) ==
    /\ kept \subseteq holds[c] /\ holds' = [holds EXCEPT ![c] = kept]
    /\ valid' = valid \cap Told'
    /\ inside' \in {inside, inside \ {c}}
    /\ UNCHANGED <<scheme, known, redeemed>>

Next ==
    \/ \E c \in Clients :
        \/ \E n \in Nonces : Challenge(c, n) \/ Redeem(c, n)
        \/ Admit(c) \/ Refuse(c)
        \/ \E kept \in SUBSET holds[c] : Forget(c, kept)
    \/ \E S \in SUBSET valid : Lapse(S)

Spec == Init /\ [][Next]_vars
=============================================================================

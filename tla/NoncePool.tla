----------------------------- MODULE NoncePool -----------------------------
(***************************************************************************)
(* The nonces of a WebSocket server with digest authentication             *)
(* (NoncePool) and the timers that let them expire.  The timers run on the *)
(* default event loop.  A server that was given another event loop calls   *)
(* Add, IsValid and Remove from another thread, and ~NoncePool runs in     *)
(* whatever thread lets go of the server: the mutex of the pool orders the *)
(* calls, but not the read of a nonce's context (TimerCtx) by an expiry    *)
(* that has begun.                                                         *)
(*                                                                         *)
(* A nonce is 24 random bytes.  A name of the model stands for a nonce as  *)
(* long as somebody has it and may stand for another one afterwards.       *)
(***************************************************************************)
EXTENDS Naturals, FiniteSets

CONSTANTS
    Nonces,        \* names for the nonces that exist at a time
    NoNonce        \* the empty string

ASSUME NoncesAssumption == NoNonce \notin Nonces

VARIABLES
    pool,          \* NoncePool::pool_
    running,       \* nonces whose timer is in state START
    live,          \* nonces whose TimerCtx is allocated
    expiring,      \* the nonce whose TimerImpl::OnTimer runs, or NoNonce
    \* history, for a property
    stale          \* an expiry has read a TimerCtx that was already deleted

poolVars == <<pool, running, live, expiring, stale>>

PoolInit ==
    /\ pool = {} /\ running = {} /\ live = {} /\ expiring = NoNonce
    /\ stale = FALSE

----------------------------------------------------------------------------

\* Add: the nonce is in the pool before its timer is started, and stays there if the timer
\* cannot be started (no memory, or an error of libtv).
Add(n, started) ==
    /\ pool' = pool \cup {n} /\ live' = live \cup {n}
    /\ running' = IF started THEN running \cup {n} ELSE running
    /\ UNCHANGED <<expiring, stale>>

\* mutant: the context is deleted and the entry left to its timer
MutTakeOut(n) == live' = live \ {n} /\ UNCHANGED <<pool, running>>

\* Remove: stop the timer, delete the context and erase the entry, which also lets go of
\* the timer; nothing happens for a nonce that is not there.
TakeOut(n) ==
    /\ pool' = pool \ {n}
    /\ running' = running \ {n}
    /\ live' = live \ ({n} \cap pool)

Remove(n) == TakeOut(n) /\ UNCHANGED <<expiring, stale>>

IsValid(n) == n \in pool

\* libtv calls EventLoopImpl::OnTimer, which still finds the TimerImpl; TimerImpl::OnTimer
\* stops the timer.  From here on neither Stop() nor Remove() prevents the callback.
TimerFires(n) ==
    /\ expiring = NoNonce /\ n \in running /\ n \in pool
    /\ running' = running \ {n} /\ expiring' = n
    /\ UNCHANGED <<pool, live, stale>>

\* mutant: an expiry of a nonce stops its timer, but does not remove the nonce
MutOnTimer ==
    /\ expiring # NoNonce /\ expiring' = NoNonce
    /\ UNCHANGED <<pool, running, live, stale>>

\* NoncePool::OnTimer reads the nonce from the context and removes it.  If the context has
\* been deleted since TimerFires, its memory holds an unknown string, possibly another
\* nonce of the pool.
OnTimer ==
    /\ expiring # NoNonce /\ expiring' = NoNonce
    /\ IF expiring \in live
       THEN TakeOut(expiring) /\ UNCHANGED stale
       ELSE /\ stale' = TRUE
            /\ \/ UNCHANGED <<pool, running, live>>
               \/ \E n \in pool : TakeOut(n)

\* ~NoncePool
Destroy ==
    /\ pool' = {} /\ running' = {} /\ live' = live \ pool
    /\ UNCHANGED <<expiring, stale>>

----------------------------------------------------------------------------

PoolTypeOK ==
    /\ pool \subseteq Nonces /\ running \subseteq pool /\ live \subseteq Nonces
    /\ expiring \in Nonces \cup {NoNonce}
    /\ stale \in BOOLEAN
=============================================================================

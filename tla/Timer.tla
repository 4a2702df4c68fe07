------------------------------- MODULE Timer -------------------------------
(***************************************************************************)
(* A Timer: a handle that is shared by its copies, and its TimerImpl.      *)
(* Start and Stop may be called by any thread and are serialised by        *)
(* mutex_.  The expiry runs on the event loop: libtv calls                 *)
(* EventLoopImpl::OnTimer, which keeps the TimerImpl alive, and            *)
(* TimerImpl::OnTimer stops the timer under mutex_ and then reads          *)
(* callback_ and args_ without it.                                         *)
(*                                                                         *)
(* The n-th Start gives its own callback, argument, tv_timer_t and         *)
(* TimerEvent, and n stands for each of them.                              *)
(***************************************************************************)
EXTENDS Naturals

CONSTANT MaxStarts      \* bound on the number of calls of Start

ASSUME MaxStartsAssumption == MaxStarts \in Nat

Starts == 1 .. MaxStarts
NoStart == 0

VARIABLES
    state_,        \* TimerImpl::state_
    callback_,     \* TimerImpl::callback_
    args_,         \* TimerImpl::args_
    tv_timer_,     \* TimerImpl::tv_timer_
    handle,        \* the tv_timer_t and the TimerEvent of each Start
    starting,      \* a Start holds mutex_ and has not yet assigned args_
    expiry,        \* where the OnTimer of the event loop is
    loaded,        \* the callback it has read
    owned,         \* the application has a copy of the Timer
    \* history, for the properties
    starts,        \* calls of Start that were not refused
    calls,         \* how often each callback was called (2: at least twice)
    cancelled,     \* starts that Stop() ended while no expiry was under way
    late,          \* the callback of a cancelled start has been called
    mixed,         \* a callback has been called with the argument of another start
    raced          \* a Start succeeded while an expiry was under way

implVars == <<state_, callback_, args_, tv_timer_, starting>>
expiryVars == <<expiry, loaded>>
callHistory == <<calls, late, mixed>>
allTimerVars == <<implVars, handle, expiryVars, owned, starts, callHistory, cancelled, raced>>

TimerInit ==
    /\ state_ = "STOP" /\ callback_ = NoStart /\ args_ = NoStart /\ tv_timer_ = NoStart
    /\ handle = [n \in Starts |-> "none"]
    /\ starting = FALSE
    /\ expiry = "idle" /\ loaded = NoStart
    /\ owned = TRUE
    /\ starts = 0 /\ calls = [n \in Starts |-> 0]
    /\ cancelled = {} /\ late = FALSE /\ mixed = FALSE /\ raced = FALSE

----------------------------------------------------------------------------
(* Calls of the application.                                               *)

TimerMutexFree == ~starting

\* tv_timer_start has succeeded.
Started(n) ==
    /\ starts' = n /\ tv_timer_' = n
    /\ handle' = [handle EXCEPT ![n] = "active"]
    /\ state_' = "START" /\ callback_' = n /\ starting' = TRUE
    /\ raced' = (raced \/ expiry # "idle")
    /\ UNCHANGED <<args_, expiryVars, owned, callHistory, cancelled>>

\* mutant: a timer that runs is started once more
MutTimerStart(n) == owned /\ TimerMutexFree /\ n = starts + 1 /\ Started(n)

\* Start.  A timer that runs refuses it (LNR_EALREADY).
TimerStart(n) ==
    /\ owned /\ TimerMutexFree /\ state_ = "STOP" /\ n = starts + 1
    /\ Started(n)

\* The last assignment of Start.
SetArgs ==
    /\ starting /\ starting' = FALSE
    /\ args_' = callback_
    /\ UNCHANGED <<state_, callback_, tv_timer_, handle, expiryVars, owned, starts, callHistory,
                   cancelled, raced>>

\* tv_timer_init or tv_timer_start fails: the handle is freed, tv_timer_ goes on pointing to
\* it, and Timer::Start deletes the event.
TimerStartFails(n) ==
    /\ owned /\ TimerMutexFree /\ state_ = "STOP" /\ n = starts + 1
    /\ starts' = n /\ tv_timer_' = n
    /\ handle' = [handle EXCEPT ![n] = "freed"]
    /\ UNCHANGED <<state_, callback_, args_, starting, expiryVars, owned, callHistory, cancelled,
                   raced>>

\* mutant: a stopped timer is not marked as such
MutStopTimer ==
    /\ handle' = IF state_ = "START" THEN [handle EXCEPT ![tv_timer_] = "closing"] ELSE handle
    /\ UNCHANGED state_

\* TimerImpl::Stop
StopTimer ==
    /\ state_' = "STOP"
    /\ handle' = IF state_ = "START" THEN [handle EXCEPT ![tv_timer_] = "closing"] ELSE handle

\* Timer::Stop by the application, in any thread or inside a callback.
TimerStop ==
    /\ owned /\ TimerMutexFree /\ state_ = "START"
    /\ StopTimer
    /\ cancelled' = IF expiry = "idle" THEN cancelled \cup {callback_} ELSE cancelled
    /\ UNCHANGED <<callback_, args_, tv_timer_, starting, expiryVars, owned, starts,
                   callHistory, raced>>

\* The last copy of the Timer goes.  ~TimerImpl runs at once, or at the end of the expiry
\* that keeps the TimerImpl alive.
LetGo ==
    /\ owned /\ TimerMutexFree /\ owned' = FALSE
    /\ IF expiry = "idle" THEN StopTimer ELSE UNCHANGED <<state_, handle>>
    /\ UNCHANGED <<callback_, args_, tv_timer_, starting, expiryVars, starts, callHistory,
                   cancelled, raced>>

----------------------------------------------------------------------------
(* The event loop.                                                         *)

\* EventLoopImpl::OnTimer finds the TimerImpl; the timer is not repeated.
Expires(n) ==
    /\ expiry = "idle" /\ handle[n] = "active"
    /\ expiry' = "fired" /\ handle' = [handle EXCEPT ![n] = "fired"]
    /\ UNCHANGED <<implVars, loaded, owned, starts, callHistory, cancelled, raced>>

\* Stop() in TimerImpl::OnTimer stops whatever runs by now.
StopInOnTimer ==
    /\ expiry = "fired" /\ TimerMutexFree /\ StopTimer
    /\ expiry' = "stopped"
    /\ UNCHANGED <<callback_, args_, tv_timer_, starting, loaded, owned, starts, callHistory,
                   cancelled, raced>>

LoadCallback ==
    /\ expiry = "stopped" /\ expiry' = "loaded"
    /\ loaded' = callback_
    /\ UNCHANGED <<implVars, handle, owned, starts, callHistory, cancelled, raced>>

\* (*callback_)(args_), and ~TimerImpl if nobody has the timer any more.
CallBack ==
    /\ expiry = "loaded"
    /\ expiry' = "idle" /\ loaded' = NoStart
    /\ calls' = [calls EXCEPT ![loaded] = IF @ < 2 THEN @ + 1 ELSE @]
    /\ mixed' = (mixed \/ args_ # loaded)
    /\ late' = (late \/ loaded \in cancelled)
    /\ IF owned THEN UNCHANGED <<state_, handle>> ELSE StopTimer
    /\ UNCHANGED <<callback_, args_, tv_timer_, starting, owned, starts, cancelled, raced>>

\* EventLoopImpl::OnClose deletes the event and frees the handle.
OnTimerClosed(n) ==
    /\ expiry = "idle" /\ handle[n] = "closing"
    /\ handle' = [handle EXCEPT ![n] = "freed"]
    /\ UNCHANGED <<implVars, expiryVars, owned, starts, callHistory, cancelled, raced>>

----------------------------------------------------------------------------

TimerNext ==
    \/ \E n \in Starts :
        TimerStart(n) \/ TimerStartFails(n) \/ Expires(n) \/ OnTimerClosed(n)
    \/ SetArgs \/ TimerStop \/ LetGo
    \/ StopInOnTimer \/ LoadCallback \/ CallBack

TimerSpec == TimerInit /\ [][TimerNext]_allTimerVars

----------------------------------------------------------------------------

\* The types of the variables.
TimerTypeOK ==
    /\ state_ \in {"STOP", "START"}
    /\ callback_ \in 0 .. MaxStarts /\ args_ \in 0 .. MaxStarts /\ tv_timer_ \in 0 .. MaxStarts
    /\ loaded \in 0 .. MaxStarts /\ starts \in 0 .. MaxStarts
    /\ handle \in [Starts -> {"none", "active", "fired", "closing", "freed"}]
    /\ expiry \in {"idle", "fired", "stopped", "loaded"}
    /\ calls \in [Starts -> 0 .. 2] /\ cancelled \subseteq Starts
    /\ starting \in BOOLEAN /\ owned \in BOOLEAN
    /\ late \in BOOLEAN /\ mixed \in BOOLEAN /\ raced \in BOOLEAN

\* The tv_timer_t and the event that libtv may still use are those tv_timer_ points to
\* while state_ is START, and no others: whatever thread starts, stops or destroys the
\* timer during an expiry, every handle is closed once, none is closed after it was freed,
\* and none is left behind.
TimerHandles ==
    \A n \in Starts : handle[n] \in {"active", "fired"} <=> state_ = "START" /\ tv_timer_ = n

\* A oneshot timer calls the callback of a Start once at most, with the argument of that
\* Start, and a Stop() that finds no expiry under way is the end of it.  Only a Start that
\* another thread makes during an expiry breaks the first two.
OneShot ==
    /\ ~late
    /\ ~raced => ~mixed /\ \A n \in Starts : calls[n] <= 1
=============================================================================

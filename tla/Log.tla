-------------------------------- MODULE Log --------------------------------
(***************************************************************************)
(* The log of the library: three sinks (LogStderr, LogFile, LogFunction),  *)
(* each with a mutex of its own, and the flags g_log_stderr, g_log_file    *)
(* and g_log_function, which every thread reads and writes without one.    *)
(* Threads of the application enable and disable sinks, every thread       *)
(* prints, and the thread that destroys a client or a server disables all  *)
(* sinks (~HandlerDelegate).                                               *)
(*                                                                         *)
(* A target stands for what a sink writes to: the stream stderr, an open   *)
(* file, a callback.  Each Enable has a target of its own.  The text of a  *)
(* line, its colour and the level are left out.                            *)
(***************************************************************************)
EXTENDS Naturals, Sequences

CONSTANTS
    Threads,
    MaxEnables     \* bound on the number of calls of Enable

ASSUME MaxEnablesAssumption == MaxEnables \in Nat

Sinks == {"stderr", "file", "function"}
SinkOrder == <<"stderr", "file", "function">>
NoTarget == 0

VARIABLES
    flag,          \* g_log_stderr, g_log_file, g_log_function
    target,        \* fp_ of LogStderr and LogFile, callback_ of LogFunction
    call,          \* the call each thread is in
    closed,        \* files that are closed
    \* history, for the property
    enables,       \* calls of Enable
    contended,     \* sinks that two threads have changed at the same time
    withdrawn,     \* targets for which a call of Disable has returned
    misused,       \* sinks that have used a target after it was closed
    surprising     \* sinks that have used a target after it was withdrawn

logVars == <<flag, target, call, closed, enables, contended, withdrawn, misused, surprising>>
logHistory == <<enables, contended, withdrawn, misused, surprising>>

Idle == [op |-> "idle", rest |-> <<>>]

LogInit ==
    /\ flag = [s \in Sinks |-> FALSE] /\ target = [s \in Sinks |-> NoTarget]
    /\ call = [t \in Threads |-> Idle]
    /\ closed = {} /\ enables = 0
    /\ contended = {} /\ withdrawn = {} /\ misused = {} /\ surprising = {}

----------------------------------------------------------------------------

Changing == {"enable", "disable", "cleared"}

\* Thread t begins to change the sinks of a sequence.
Changes(t, sinks) ==
    contended' = contended \cup
        {s \in Sinks : \E u \in Threads \ {t} :
            /\ call[u].op \in Changing
            /\ \E i \in DOMAIN sinks : sinks[i] = s
            /\ \E i \in DOMAIN call[u].rest : call[u].rest[i] = s}

Goes(t, op, rest) == call' = [call EXCEPT ![t] = [op |-> op, rest |-> rest]]

\* The call goes on with the sinks after the first of rest, or returns.
Advance(t, op) ==
    IF Len(call[t].rest) = 1 THEN call' = [call EXCEPT ![t] = Idle]
    ELSE Goes(t, op, Tail(call[t].rest))

Current(t) == Head(call[t].rest)

\* Enable of a sink: it takes the new target under its mutex and drops the one it had.
EnableSink(t, s, new) ==
    /\ call[t].op = "idle" /\ enables < MaxEnables
    /\ enables' = enables + 1
    /\ target' = [target EXCEPT ![s] = new]
    /\ call' = [call EXCEPT ![t] = [op |-> "enable", rest |-> <<s>>, enabled |-> new # NoTarget]]
    /\ Changes(t, <<s>>)
    /\ UNCHANGED <<flag, closed, withdrawn, misused, surprising>>

EnableStderr(t) == EnableSink(t, "stderr", enables + 1)

\* A file that was open stays open, and the sink has none if the new one cannot be opened.
EnableFile(t) == \E new \in {enables + 1, NoTarget} : EnableSink(t, "file", new)

EnableCallback(t) == EnableSink(t, "function", enables + 1)

\* g_log_... = the result of Enable
EnableReturns(t) ==
    /\ call[t].op = "enable"
    /\ flag' = [flag EXCEPT ![Current(t)] = call[t].enabled]
    /\ Advance(t, "enable")
    /\ UNCHANGED <<target, closed, logHistory>>

\* DisableStderr, DisableFile, DisableCallback, or all of them in ~HandlerDelegate.
DisableBegins(t, sinks) ==
    /\ call[t].op = "idle"
    /\ Goes(t, "disable", sinks)
    /\ Changes(t, sinks)
    /\ UNCHANGED <<flag, target, closed, enables, withdrawn, misused, surprising>>

\* The flag says that the sink is not enabled: nothing is done.
DisableNothing(t) ==
    /\ call[t].op = "disable" /\ ~flag[Current(t)]
    /\ withdrawn' = withdrawn \cup ({target[Current(t)]} \ {NoTarget})
    /\ Advance(t, "disable")
    /\ UNCHANGED <<flag, target, closed, enables, contended, misused, surprising>>

\* mutant: the file is closed and fp_ keeps pointing to it
MutCloseFile == closed' = closed \cup {target["file"]} /\ UNCHANGED target

\* LogFile::Disable, LogStderr::Disable, LogFunction::Disable
CloseFile ==
    /\ closed' = closed \cup ({target["file"]} \ {NoTarget})
    /\ target' = [target EXCEPT !["file"] = NoTarget]

ForgetStderr == target' = [target EXCEPT !["stderr"] = NoTarget] /\ UNCHANGED closed

ForgetCallback == target' = [target EXCEPT !["function"] = NoTarget] /\ UNCHANGED closed

\* The sink is disabled under its mutex ...
DisableSink(t) ==
    /\ call[t].op = "disable" /\ flag[Current(t)]
    /\ \/ Current(t) = "file" /\ CloseFile
       \/ Current(t) = "stderr" /\ ForgetStderr
       \/ Current(t) = "function" /\ ForgetCallback
    /\ Goes(t, "cleared", call[t].rest)
    /\ UNCHANGED <<flag, logHistory>>

\* ... and then the flag is cleared.
DisableReturns(t) ==
    /\ call[t].op = "cleared"
    /\ flag' = [flag EXCEPT ![Current(t)] = FALSE]
    /\ withdrawn' = withdrawn \cup ({target[Current(t)]} \ {NoTarget})
    /\ Advance(t, "disable")
    /\ UNCHANGED <<target, closed, enables, contended, misused, surprising>>

\* LINEAR_LOG: DoPrint has found a level that is printed and a sink that is enabled.
DoPrint(t) ==
    /\ call[t].op = "idle" /\ \E s \in Sinks : flag[s]
    /\ Goes(t, "print", SinkOrder)
    /\ UNCHANGED <<flag, target, closed, logHistory>>

\* Print asks the flag of each sink in turn ...
PrintChecks(t) ==
    /\ call[t].op = "print"
    /\ IF flag[Current(t)] THEN Goes(t, "write", call[t].rest) ELSE Advance(t, "print")
    /\ UNCHANGED <<flag, target, closed, logHistory>>

\* ... and Write of the sink asks for the target again, under its mutex.
Write(t) ==
    /\ call[t].op = "write"
    /\ misused' = IF target[Current(t)] \in closed THEN misused \cup {Current(t)} ELSE misused
    /\ surprising' = IF target[Current(t)] \in withdrawn
                     THEN surprising \cup {Current(t)} ELSE surprising
    /\ Advance(t, "print")
    /\ UNCHANGED <<flag, target, closed, enables, contended, withdrawn>>

----------------------------------------------------------------------------

LogNext ==
    \E t \in Threads :
        \/ EnableStderr(t) \/ EnableFile(t) \/ EnableCallback(t)
        \/ \E s \in Sinks : DisableBegins(t, <<s>>)
        \/ DisableBegins(t, SinkOrder)
        \/ EnableReturns(t) \/ DisableNothing(t) \/ DisableSink(t) \/ DisableReturns(t)
        \/ DoPrint(t) \/ PrintChecks(t) \/ Write(t)

LogSpec == LogInit /\ [][LogNext]_logVars

----------------------------------------------------------------------------

\* A line is never written to a file after fclose(), although Print asks the flag before it
\* has the mutex of the sink.  And nothing more is written to a target once a call of
\* DisableFile, DisableCallback or ~HandlerDelegate has returned, also when the flag made it
\* do nothing, unless two threads have changed that sink at the same time.
LogTargetsLive ==
    /\ misused = {}
    /\ surprising \subseteq contended
=============================================================================

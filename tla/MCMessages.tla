----------------------------- MODULE MCMessages -----------------------------
(***************************************************************************)
(* A model-checking instance of Wire, Values with Printing, and Timer: the *)
(* messages, what they carry and the timers they are given.  The three     *)
(* share no variable, so each is explored while the others are in their    *)
(* initial state.                                                          *)
(***************************************************************************)
EXTENDS Wire, Printing, Timer

Scalar(type, token) == Leaf(type, <<token>>)
Str(chars) == Leaf("STR", chars)
Collection(type, parts) ==
    [p \in {<<>>} \cup UNION {{<<i>> \o q : q \in DOMAIN parts[i]} : i \in DOMAIN parts} |->
        IF p = <<>> THEN Cell(type, <<>>, "none") ELSE parts[p[1]][Tail(p)]]
Array(parts) == Collection("ARRAY", parts)
Map(parts) == Collection("MAP", parts)
One == Scalar("POSITIVE_INTEGER", "1")

\* Values that are alike when printed: a string that looks like two, an array in an array.
MCReceived ==
    {Nil, One, Scalar("BIN", "a"),
     Str(<<"newline">>), Str(<<"\\", "n">>), Str(<<"\"", ",", " ", "\"">>),
     Array(<<>>), Array(<<Str(<<>>), Str(<<>>)>>), Array(<<Str(<<"\"", ",", " ", "\"">>)>>),
     Array(<<Array(<<Str(<<"a">>)>>), One>>), Map(<<Str(<<"a">>), One>>)}

MCInit == WireInit /\ ValuesInit /\ TimerInit

MCNext ==
    \/ ValuesInit /\ TimerInit /\ WireNext /\ UNCHANGED <<valueVars, allTimerVars>>
    \/ WireInit /\ TimerInit /\ ValuesNext /\ UNCHANGED <<wireVars, allTimerVars>>
    \/ WireInit /\ ValuesInit /\ TimerNext /\ UNCHANGED <<wireVars, valueVars>>

MCSpec == MCInit /\ [][MCNext]_<<wireVars, valueVars, allTimerVars>> /\ WireFairness
=============================================================================

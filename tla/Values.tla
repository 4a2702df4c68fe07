------------------------------- MODULE Values -------------------------------
(***************************************************************************)
(* The values that messages carry: linear::type::any, optional, binary and *)
(* nil.  An any owns a msgpack zone and an object whose strings, arrays    *)
(* and maps must lie in that zone; optional is here an optional<binary>.   *)
(* The code promises value semantics: a copy does not depend on the object *)
(* it was made from, in particular not on the zone of the received         *)
(* message, which the unpacker gives up when it takes the next one.        *)
(*                                                                         *)
(* An object is a tree.  It is kept as a function from paths to cells:     *)
(* <<>> is the object itself, <<i>> its i-th part (the elements of an      *)
(* array, the keys and values of a map in turn), <<i, j>> the j-th part of *)
(* that one.  A cell has a type, a scalar or bytes, and the zone its bytes *)
(* or the array of its parts lie in: an any, "msg" or, once that zone was  *)
(* cleared, "dead".                                                        *)
(***************************************************************************)
EXTENDS Naturals, Sequences, FiniteSets

CONSTANTS
    Anys,          \* variables of type any
    Received       \* contents of the messages that may be received, Nil among them

ASSUME AnysAssumption == Anys \cap {"msg", "dead", "none"} = {}

VARIABLES
    obj,           \* any::object_
    msg,           \* the object in the object_handle of OnRead
    opt,           \* optional<binary>::initialized_ and value_
    readDead,      \* an object was copied after its zone was cleared
    \* history, for the properties
    meant,         \* the value each any was given last
    optMeant,      \* the value the optional was given last
    optFailed      \* since then an unpack into the optional has thrown

valueVars == <<obj, msg, opt, readDead, meant, optMeant, optFailed>>

Scalars == {"NIL", "BOOLEAN", "POSITIVE_INTEGER", "NEGATIVE_INTEGER", "FLOAT"}
Bytes == {"STR", "BIN", "EXT"}

Cell(type, val, home) == [type |-> type, val |-> val, home |-> home]

\* An object without parts that lies in no zone.
Leaf(type, val) == [p \in {<<>>} |-> Cell(type, val, "none")]
Nil == Leaf("NIL", <<>>)
Unreadable == Leaf("NIL", <<"?">>)

HasParts(o, p) == Append(p, 1) \in DOMAIN o

\* The i-th part of an object, as an object.
Part(o, i) == [p \in {Tail(q) : q \in {q \in DOMAIN o : q # <<>> /\ q[1] = i}} |-> o[<<i>> \o p]]

PartIndices(o) == {q[1] : q \in DOMAIN o \ {<<>>}}

\* The zones an object depends on.
Homes(o) == {o[p].home : p \in DOMAIN o} \ {"none"}

\* The object as a value: where it lies does not matter, but what lies in a cleared zone
\* cannot be read.
Content(o) ==
    [p \in DOMAIN o |-> IF o[p].home = "dead" THEN Unreadable[<<>>]
                        ELSE Cell(o[p].type, o[p].val, "none")]

\* The object after zone z was cleared.
Bury(o, z) ==
    [p \in DOMAIN o |-> IF o[p].home = z THEN Cell(o[p].type, o[p].val, "dead") ELSE o[p]]

\* The object that msgpack makes of a content in zone z.
Place(c, z) ==
    [p \in DOMAIN c |-> Cell(c[p].type, c[p].val,
                             IF c[p].type \in Bytes \/ HasParts(c, p) THEN z ELSE "none")]

\* mutant: an array takes over the parts of its source
MutCopyCell(o, p, z) == IF p = <<>> THEN Cell(o[p].type, o[p].val, z) ELSE o[p]

\* One call of copy_msgpack_object: bytes, and the array of the parts of an array or map
\* that is not empty, are allocated in z.
CopyCell(o, p, z) ==
    LET c == o[p] IN
    Cell(c.type, c.val,
         CASE c.type \in Scalars -> "none"
           [] c.type \in Bytes -> z
           [] OTHER -> IF HasParts(o, p) THEN z ELSE "none")

\* copy_msgpack_object calls itself for every part.
CopyObject(o, z) == [p \in DOMAIN o |-> CopyCell(o, p, z)]

----------------------------------------------------------------------------
(* Conversions.                                                            *)

\* binary::msgpack_unpack takes bytes and strings and throws type_error otherwise.
IsBinary(o) == o[<<>>].type \in {"BIN", "STR"}

\* mutant: the assignment of nil leaves the optional engaged
MutOptAssign(x, y) == [initialized |-> x.initialized \/ y.initialized, value |-> y.value]

\* optional::operator=(const optional&)
OptAssign(x, y) ==
    IF y.initialized THEN y ELSE [initialized |-> FALSE, value |-> x.value]

\* What an application sees of an optional.
OptValue(x) == IF x.initialized THEN x.value ELSE <<"nil">>

\* optional::msgpack_object of an optional<binary>: the value becomes an object in z, which
\* copy_msgpack_object then copies within z.
OptObject(x, z) ==
    IF x.initialized THEN CopyObject(Place(Leaf("BIN", x.value), z), z) ELSE Nil

NoOpt == [initialized |-> FALSE, value |-> <<"uninitialised">>]

----------------------------------------------------------------------------

ValuesInit ==
    /\ obj = [a \in Anys |-> Nil] /\ msg = Nil /\ opt = NoOpt /\ readDead = FALSE
    /\ meant = [a \in Anys |-> Nil] /\ optMeant = <<"nil">> /\ optFailed = FALSE

\* zone_.clear() of an any whose object becomes o, and all who depend on the zone.
Replace(a, o) ==
    /\ obj' = [b \in Anys |-> IF b = a THEN o ELSE Bury(obj[b], a)]
    /\ msg' = Bury(msg, a)

\* unpacker_.next(result): the zone of the message before is given up.
NextMessage(c) ==
    /\ msg' = Place(c, "msg")
    /\ obj' = [a \in Anys |-> Bury(obj[a], "msg")]
    /\ UNCHANGED <<opt, readDead, meant, optMeant, optFailed>>

\* msgpack_unpack, operator=(const msgpack::object&), any(const msgpack::object&) of the
\* received object.
Unpack(a) ==
    /\ Replace(a, CopyObject(msg, a))
    /\ meant' = [meant EXCEPT ![a] = Content(msg)]
    /\ UNCHANGED <<opt, readDead, optMeant, optFailed>>

\* any(const any&), operator=(const any&) and msgpack_object of another any.
Copy(a, b) ==
    /\ a # b
    /\ Replace(a, CopyObject(obj[b], a))
    /\ meant' = [meant EXCEPT ![a] = meant[b]]
    /\ UNCHANGED <<opt, readDead, optMeant, optFailed>>

\* An any is assigned itself, or a part of its own object(): the zone is cleared before the
\* object in it is copied, and what is copied is "gone" if it lay in the zone.
CopyOwn(a, o, gone) ==
    /\ \E c \in {CopyObject(o, a), Unreadable} : (c = Unreadable => gone) /\ Replace(a, c)
    /\ readDead' = (readDead \/ gone)
    /\ meant' = [meant EXCEPT ![a] = Content(o)]
    /\ UNCHANGED <<opt, optMeant, optFailed>>

\* optional = nil, optional = optional
SetOpt(y) ==
    /\ opt' = OptAssign(opt, y)
    /\ optMeant' = OptValue(y) /\ optFailed' = FALSE
    /\ UNCHANGED <<obj, msg, readDead, meant>>

\* optional::msgpack_unpack: the optional is engaged before the value is converted, so a
\* type_error leaves it engaged with what value_ was.
UnpackOpt ==
    /\ opt' = [initialized |-> msg[<<>>].type # "NIL",
               value |-> IF IsBinary(msg) THEN msg[<<>>].val ELSE opt.value]
    /\ optFailed' = (msg[<<>>].type # "NIL" /\ ~IsBinary(msg))
    /\ optMeant' = IF optFailed' THEN optMeant
                   ELSE IF msg[<<>>].type = "NIL" THEN <<"nil">> ELSE msg[<<>>].val
    /\ UNCHANGED <<obj, msg, readDead, meant>>

\* any = optional
AssignOpt(a) ==
    /\ Replace(a, OptObject(opt, a))
    /\ meant' = [meant EXCEPT ![a] = IF opt.initialized THEN Leaf("BIN", opt.value) ELSE Nil]
    /\ UNCHANGED <<opt, readDead, optMeant, optFailed>>

\* What becomes of the values once cleared memory was read is not modelled.
ValuesNext ==
    /\ ~readDead
    /\ \/ \E c \in Received : NextMessage(c)
       \/ \E a \in Anys :
           \/ Unpack(a) \/ AssignOpt(a) \/ \E b \in Anys : Copy(a, b)
           \/ CopyOwn(a, obj[a], Homes(obj[a]) # {})
           \/ \E i \in PartIndices(obj[a]) : CopyOwn(a, Part(obj[a], i), TRUE)
       \/ \E y \in {NoOpt, [initialized |-> TRUE, value |-> <<"b">>]} : SetOpt(y)
       \/ UnpackOpt

ValuesSpec == ValuesInit /\ [][ValuesNext]_valueVars

----------------------------------------------------------------------------

\* An any is a value: it keeps what it was last given, in its own zone, whatever becomes of
\* the message or the any it was copied from.  Only an assignment from itself or from a
\* part of itself can break it.
ValueSemantics ==
    ~readDead => \A a \in Anys : Homes(obj[a]) \subseteq {a} /\ Content(obj[a]) = meant[a]

\* An optional shows the value it was last given, unless an unpack of a value of another
\* type has thrown: that one leaves it engaged, with an older value or none at all.
OptionalShowsLast == ~optFailed => OptValue(opt) = optMeant
=============================================================================

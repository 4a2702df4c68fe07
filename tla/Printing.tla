------------------------------ MODULE Printing ------------------------------
(***************************************************************************)
(* How the values of Values are printed, and the order of anys, which is   *)
(* the order of their printed forms.  Only what separates or escapes is    *)
(* modelled character by character.                                        *)
(***************************************************************************)
EXTENDS Values

\* mutant: a quotation mark is printed as it is
MutEscape(c) == <<c>>

\* A character of a string in operator<<; "newline" stands for the control characters.
Escape(c) ==
    CASE c \in {"\\", "\"", "/"} -> <<"\\", c>>
      [] c = "newline" -> <<"\\", "n">>
      [] OTHER -> <<c>>

\* The parts of an object, in their order.
PartsOf(o) == [i \in 1..Cardinality(PartIndices(o)) |-> Part(o, i)]

RECURSIVE Stringify(_), Join(_, _), EscapeAll(_)

EscapeAll(s) == IF s = <<>> THEN <<>> ELSE Escape(Head(s)) \o EscapeAll(Tail(s))

\* The parts with their separators: ", " between elements, ':' between a key and its value.
Join(parts, ofMap) ==
    IF Len(parts) <= 1
    THEN IF parts = <<>> THEN <<>> ELSE Stringify(parts[1])
    ELSE Stringify(parts[1])
         \o (IF ofMap /\ Len(parts) % 2 = 0 THEN <<":">> ELSE <<",", " ">>)
         \o Join(Tail(parts), ofMap)

\* operator<< and stringify(); a scalar is printed as one token.
Stringify(o) ==
    LET root == o[<<>>] IN
    CASE root.type = "NIL" -> <<"null">>
      [] root.type \in Scalars \ {"NIL"} -> root.val
      [] root.type = "STR" -> <<"\"">> \o EscapeAll(root.val) \o <<"\"">>
      [] root.type = "BIN" -> <<"[BIN]">>
      [] root.type = "EXT" -> <<"[EXT]">>
      [] root.type = "ARRAY" -> <<"[">> \o Join(PartsOf(o), FALSE) \o <<"]">>
      [] root.type = "MAP" -> <<"{">> \o Join(PartsOf(o), TRUE) \o <<"}">>

\* any::operator== compares the objects, any::operator< what they are printed as; a and b
\* are incomparable when neither is less than the other.
AnyEqual(a, b) == Content(a) = Content(b)
AnyIncomparable(a, b) == Stringify(Content(a)) = Stringify(Content(b))

\* Nothing in the object is printed without its value.  (A float may look like an integer.)
Printable(o) == \A p \in DOMAIN o : o[p].type \notin {"BIN", "EXT", "FLOAT"}

----------------------------------------------------------------------------

\* The order of anys agrees with their equality, so that a set or a map of anys does not
\* merge different keys, as long as the anys hold no binary, ext or float.
OrderAgrees ==
    \A a, b \in Anys :
        ~readDead /\ Printable(obj[a]) /\ Printable(obj[b])
            => (AnyIncomparable(obj[a], obj[b]) <=> AnyEqual(obj[a], obj[b]))
=============================================================================

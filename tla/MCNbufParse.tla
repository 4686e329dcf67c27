----------------------------- MODULE MCNbufParse -----------------------------
(***************************************************************************)
(* Four inputs: messages that nest (M, E), messages with a field of every  *)
(* kind of value (K), floats of both sizes (F), and a message with two     *)
(* fields of one name (D).  The first value of a list of bool is lost      *)
(* (NbufWriter, FirstValueKept), so no schema here has such a list.        *)
(***************************************************************************)
EXTENDS NbufParse

Field(name, kind, list, sub) ==
    [name |-> name, tag0 |-> 0, kind |-> kind, list |-> list, sub |-> sub]
One(name, kind) == Field(name, kind, FALSE, "")
List(name, kind) == Field(name, kind, TRUE, "")
Names(S) == {<<"ID", n>> : n \in S}
Marks(S) == {Char(c) : c \in S}

\* Fields are placed in their order.
LaidOut(fields) == [i \in DOMAIN fields |-> [fields[i] EXCEPT !.tag0 = i]]

MCSchema ==
    [M |-> LaidOut(<<List("l", "INT"), One("i", "INT"),
                     Field("p", "PTR", FALSE, "M"), Field("q", "PTR", TRUE, "E")>>),
     E |-> LaidOut(<<One("i", "INT")>>),
     K |-> LaidOut(<<One("b", "BOOL"), One("e", "ENUM"), One("s", "STR"), List("t", "STR")>>),
     F |-> LaidOut(<<Field("f", "FLOAT", TRUE, "f32"), Field("g", "FLOAT", FALSE, "f64")>>),
     D |-> LaidOut(<<One("d", "INT"), List("d", "STR"), One("i", "INT")>>)]

Nesting ==
    [root |-> "M", max |-> 12,
     tokens |-> Names({"i", "l", "p", "q"}) \cup Marks({":", "{", "}", ","})
                  \cup {<<"INT", 1>>, <<"INT", 6>>}]
ValueKinds ==
    [root |-> "K", max |-> 7,
     tokens |-> Names({"b", "e", "s", "t", "true", "A", "B"}) \cup Marks({":", ";"})
                  \cup {<<"INT", 0>>, <<"INT", 2>>, <<"FLT", 2>>, <<"STR", "x">>}]
\* Numbers that are exact, that are not in one size or in print, that are out of
\* the range of f32 or infinite, and an integer of more than half of WordMod.
Floats ==
    [root |-> "F", max |-> 7,
     tokens |-> Names({"f", "g"}) \cup Marks({":"})
                  \cup {<<"INT", n>> : n \in {-2, 3, 60}}
                  \cup {<<"FLT", x>> : x \in {3, 5, 11, 21, 41, Inf, -Inf}}]
SameNames ==
    [root |-> "D", max |-> 7,
     tokens |-> Names({"d", "i"}) \cup Marks({":"}) \cup {<<"INT", 3>>, <<"STR", "x">>}]
MCInputs == {Nesting, ValueKinds, Floats, SameNames}

MCEnum == <<<<"A", 1>>, <<"B", 1>>>>

MCExact == [f32 |-> 8, f64 |-> 32]
MCDigits == [f32 |-> 4, f64 |-> 16]
MCLargest == [f32 |-> 40, f64 |-> 200]
=============================================================================

--------------------------- MODULE MCSchemaBuild ----------------------------
(***************************************************************************)
(* Small texts for SchemaBuild.                                            *)
(***************************************************************************)
EXTENDS SchemaBuild

CONSTANT
    MaxScalars        \* bound: fields of the message of scalars

Fld(t) == [tname |-> t, list |-> FALSE]
ListOf(t) == [tname |-> t, list |-> TRUE]

\* Three enums or messages that refer to each other in any order
References ==
    [pkg |-> "p", names |-> <<{"A"}, {"B"}, {"C"}>>,
     vals |-> {Default}, maxVals |-> 1,
     flds |-> {Fld("A"), Fld("B"), ListOf("B"), Fld("C"), Fld("bool"), ListOf("bool"),
               Fld("uint16"), Fld("string")},
     maxFlds |-> 3]

\* Names used twice, names of built-in types, unknown names, too many types
Mistakes ==
    [pkg |-> "", names |-> <<{"A"}, {"A", "B", "bool"}, {"B", "C"}, {"D"}>>,
     vals |-> {Default}, maxVals |-> 0,
     flds |-> {Fld("A"), Fld("C")}, maxFlds |-> 1]

\* One message, or two, of scalars and lists
Scalars ==
    [pkg |-> "", names |-> <<{"A"}, {"B"}>>,
     vals |-> {Default}, maxVals |-> 0,
     flds |-> {Fld("bool"), Fld("uint8"), Fld("int16"), Fld("float"), Fld("double"),
               ListOf("int64")},
     maxFlds |-> MaxScalars]

\* Enum fields and lists of them between other scalars
EnumFields ==
    [pkg |-> "", names |-> <<{"E"}, {"M"}>>,
     vals |-> {Default}, maxVals |-> 1,
     flds |-> {Fld("E"), ListOf("E"), Fld("uint8"), ListOf("string")}, maxFlds |-> 3]

\* Two enums, with values that wrap, repeat and are negative
EnumValues ==
    [pkg |-> "", names |-> <<{"E"}, {"F"}>>,
     vals |-> {Default, 0, 3, 4, 0 - 1}, maxVals |-> 3,
     flds |-> {}, maxFlds |-> 0]

MCInputs == {References, Mistakes, Scalars, EnumFields, EnumValues}
=============================================================================

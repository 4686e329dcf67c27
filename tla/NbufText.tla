------------------------------ MODULE NbufText ------------------------------
(***************************************************************************)
(* Messages seen through a schema, and their textual form as nbuf_print    *)
(* (lib/print.c) writes it, at the level of the lexer's tokens.            *)
(*                                                                         *)
(* A message is a sequence of objects, each [type, val] with val a         *)
(* function from the places (tag0) of its fields to values: a number, a    *)
(* string, the index of another object (0 for a null pointer), or for a    *)
(* list field a sequence of these.  An object's index is above that of the *)
(* one it hangs from.                                                      *)
(*                                                                         *)
(* A float is counted in halves, Inf and -Inf being infinite.  Where its   *)
(* bits, or the digits it is printed with, do not do for halves, they do   *)
(* for whole numbers.                                                      *)
(*                                                                         *)
(* A token is a pair: <<"ID", name>>, <<"INT", n>> with the number as it   *)
(* was written, <<"FLT", halves>>, <<"STR", s>>, or <<c, "">> for a        *)
(* character c or the end of the file.                                     *)
(***************************************************************************)
EXTENDS Integers, Sequences, SequencesExt

CONSTANTS
    Schema,           \* type -> sequence of [name, tag0, kind, list, sub], sub
                      \* being the type of a nested message or the size of a
                      \* float, "f32" or "f64" (tag1)
    EnumValues,       \* the enum type: sequence of <<name, value>>
    IntMod, EnumMod,  \* numbers of values of an integer field and of an enum
    WordMod,          \* number of values of the lexer's integer, 2^64
    Exact, Digits,    \* size of a float -> halves up to which it is exact, and
                      \* exact as it is printed (FLT_DIG or DBL_DIG digits)
    Largest,          \* size of a float -> the largest one
    Inf

Char(c) == <<c, "">>

FieldNames(T) == {Schema[T][i].name : i \in DOMAIN Schema[T]}
Places(T) == {Schema[T][i].tag0 : i \in DOMAIN Schema[T]}

Kinds == {"BOOL", "ENUM", "INT", "FLOAT", "STR", "PTR"}

\* Fields are laid out apart from each other (SchemaLayout, NoOverlap).
\* Nothing keeps a schema from giving two of them the same name.
ASSUME TextAssumption ==
    /\ IntMod \in Nat \ {0} /\ EnumMod \in Nat \ {0}
    /\ \A T \in DOMAIN Schema :
          /\ Schema[T] \in Seq([name : FieldNames(T), tag0 : Places(T), kind : Kinds,
                                list : BOOLEAN, sub : DOMAIN Schema \cup {"", "f32", "f64"}])
          /\ \A i, j \in DOMAIN Schema[T] :
               Schema[T][i].tag0 = Schema[T][j].tag0 => i = j
          /\ \A i \in DOMAIN Schema[T] :
               Schema[T][i].kind = "PTR" => Schema[T][i].sub \in DOMAIN Schema

\* nbuf_find_field: the first field of the name
FindField(T, name) == Schema[T][SelectInSeq(Schema[T], LAMBDA f : f.name = name)]

\* The field at a place
FieldAt(T, tag0) == Schema[T][CHOOSE i \in DOMAIN Schema[T] : Schema[T][i].tag0 = tag0]

\* nbuf_enum_value and nbuf_enum_name: the first entry that matches, if any
HasName(name) == \E i \in DOMAIN EnumValues : EnumValues[i][1] = name
EnumValue(name) == EnumValues[SelectInSeq(EnumValues, LAMBDA d : d[1] = name)][2]
HasValue(v) == \E i \in DOMAIN EnumValues : EnumValues[i][2] = v
EnumName(v) == EnumValues[SelectInSeq(EnumValues, LAMBDA d : d[2] = v)][1]

\* A field nobody wrote to
Unset(f) ==
    IF f.list THEN <<>>
    ELSE CASE f.kind = "BOOL" -> FALSE
           [] f.kind = "STR"  -> ""
           [] OTHER           -> 0

\* nbuf_create of one object of type T
Blank(T) == [type |-> T, val |-> [a \in Places(T) |-> Unset(FieldAt(T, a))]]

\* x, cut to whole numbers if halves cannot be told apart there.
Rounded(x, exact) == IF x \in {Inf, -Inf} \cup -exact .. exact THEN x ELSE 2 * (x \div 2)

-----------------------------------------------------------------------------
(* lib/print.c *)

\* do_print walks through a message: each value it comes to, and the begin and
\* end of each nested message, with the field.
Visit(mark, f, x) == [mark |-> mark, field |-> f, val |-> x]

\* One element of a field; inner[k] is the walk through object k.
WalkOne(f, x, inner) ==
    IF f.kind = "PTR"
    THEN <<Visit("{", f, 0)>> \o inner[x] \o <<Visit("}", f, 0)>>
    ELSE <<Visit(":", f, x)>>

\* A field: nothing for an empty list or a null pointer, all elements of a
\* list, and a scalar or a string in any case.
WalkField(f, v, inner) ==
    IF f.list THEN FlattenSeq([j \in DOMAIN v |-> WalkOne(f, v[j], inner)])
    ELSE IF f.kind = "PTR" /\ v = 0 THEN <<>>
    ELSE WalkOne(f, v, inner)

\* do_print: the fields in the order of the schema, nested objects within
Walk(objs) ==
    LET walk[k \in DOMAIN objs] ==
          LET fields == Schema[objs[k].type]
          IN  FlattenSeq([i \in DOMAIN fields |->
                 WalkField(fields[i], objs[k].val[fields[i].tag0], walk)])
    IN  walk[1]

\* printf of a float: an infinite one is a word, a whole one without exponent has
\* no point.
FloatText(x, digits) ==
    IF x = Inf THEN <<<<"ID", "inf">>>>
    ELSE IF x = -Inf THEN <<Char("-"), <<"ID", "inf">>>>
    ELSE IF x % 2 = 0 /\ x \in -digits .. digits THEN <<<<"INT", x \div 2>>>>
    ELSE <<<<"FLT", x>>>>

\* Mutant of ValueText: an enum is printed by name even if it has none.
ValueTextAlwaysNamed(f, x) ==
    CASE f.kind = "BOOL"  -> <<<<"ID", IF x THEN "true" ELSE "false">>>>
      [] f.kind = "INT"   -> <<<<"INT", x>>>>
      [] f.kind = "STR"   -> <<<<"STR", x>>>>
      [] f.kind = "ENUM"  -> <<<<"ID", IF HasValue(x) THEN EnumName(x) ELSE "null">>>>
      [] f.kind = "FLOAT" -> FloatText(Rounded(x, Digits[f.sub]), Digits[f.sub])

\* The value of a scalar or string field as it is printed, floats with as many
\* digits as any decimal keeps when it is read and printed again.
ValueText(f, x) ==
    CASE f.kind = "BOOL"  -> <<<<"ID", IF x THEN "true" ELSE "false">>>>
      [] f.kind = "INT"   -> <<<<"INT", x>>>>
      [] f.kind = "STR"   -> <<<<"STR", x>>>>
      [] f.kind = "ENUM"  -> IF HasValue(x) THEN <<<<"ID", EnumName(x)>>>> ELSE <<<<"INT", x>>>>
      [] f.kind = "FLOAT" -> FloatText(Rounded(x, Digits[f.sub]), Digits[f.sub])

VisitText(visit) ==
    CASE visit.mark = "{" -> <<<<"ID", visit.field.name>>, Char("{")>>
      [] visit.mark = "}" -> <<Char("}")>>
      [] visit.mark = ":" -> <<<<"ID", visit.field.name>>, Char(":")>>
                             \o ValueText(visit.field, visit.val)

\* nbuf_print of a message that is walked through like this
NbufPrint(walk) == FlattenSeq([j \in DOMAIN walk |-> VisitText(walk[j])])
=============================================================================

---------------------------- MODULE SchemaBuild -----------------------------
(***************************************************************************)
(* The schema compiler from the text of a schema to its binary form: the   *)
(* semantic actions of the grammar (nbufc/nbuf.y), the table of types and  *)
(* the output of enums and messages (nbufc/t2b.c), with the layout of each *)
(* message by SchemaLayout.  The binary schema is printed again            *)
(* (nbufc/b2t.c) and compiled a second time, and what the accessors that   *)
(* nbufc generates touch (b2h.c, b2hh.c) is taken from it.                 *)
(*                                                                         *)
(* The text is a choice of the productions to reduce, one step for each.   *)
(***************************************************************************)
EXTENDS Integers, Sequences, FiniteSets, SequencesExt

CONSTANTS
    Inputs,           \* texts: [pkg, names, vals, flds, maxVals, maxFlds] with,
                      \* for each declaration in turn, its possible names, and
                      \* the enum values and fields to choose from
    Default,          \* an enum name without a value
    EnumMod,          \* number of values of a uint16_t
    MaxTypes          \* MAX_TYPES

\* A field as its text declares it
FieldDcl == [tname : STRING, list : BOOLEAN]

ASSUME BuildAssumption ==
    /\ EnumMod \in Nat \ {0} /\ MaxTypes \in Nat
    /\ Default \notin Int
    /\ \A text \in Inputs :
          /\ text.pkg \in STRING
          /\ text.names \in Seq(SUBSET STRING)
          /\ text.vals \subseteq Int \cup {Default}
          /\ text.flds \subseteq FieldDcl

VARIABLES
    input,            \* member of Inputs
    phase,            \* where the compiler is
    pkgName,          \* schema.pkgName, "" for NULL
    enums, msgs,      \* schema.enums and schema.msgs, the syntax tree
    nextEnumVal,
    types,            \* the table of types: name -> [kind, size, id]
    bin,              \* the binary schema
    descs,            \* fields written so far of the message in work
    first             \* <<binary schema of the first round>>, <<>> before

\* The variables of SchemaLayout
VARIABLES fields, ssize, psize, alignment, pads, link, bitOffs, nmsgs, largest, done

layout == <<fields, ssize, psize, alignment, pads, link, bitOffs, nmsgs, largest, done>>
tree == <<pkgName, enums, msgs, nextEnumVal>>
output == <<types, bin, descs>>
vars == <<input, phase, tree, output, first, layout>>

\* MaxFields is SchemaLayout's bound, above any message here.
Layout == INSTANCE SchemaLayout WITH
    Sizes <- {0, 1, 2, 4, 8}, MaxFields <- 4000, MaxMsgs <- 4000

EmptySchema == [pkgName |-> "", enums |-> <<>>, msgs |-> <<>>]

Init ==
    /\ input \in Inputs
    /\ phase = "package_opt"
    /\ pkgName = ""
    /\ enums = <<>> /\ msgs = <<>>
    /\ nextEnumVal = 0
    /\ types = <<>>
    /\ bin = EmptySchema
    /\ descs = <<>>
    /\ first = <<>>
    /\ Layout!Init

-----------------------------------------------------------------------------
(* nbuf.y *)

PackageOpt ==
    /\ phase = "package_opt"
    /\ pkgName' = input.pkg
    /\ phase' = "dcl_list"
    /\ UNCHANGED <<input, enums, msgs, nextEnumVal, output, first, layout>>

\* Names for the next declaration; no more than the input has
Names ==
    LET k == Len(enums) + Len(msgs) + 1
    IN  IF k > Len(input.names) THEN {} ELSE input.names[k]

DclEnum(name) ==
    /\ phase = "dcl_list"
    /\ enums' = Append(enums, [name |-> name, vals |-> <<>>])
    /\ nextEnumVal' = 0
    /\ phase' = "enum"
    /\ UNCHANGED <<input, pkgName, msgs, output, first, layout>>

\* Mutant of EnumField: an explicit value does not set the counter.
EnumFieldKeepsNext(eq) ==
    /\ phase = "enum" /\ Len(Last(enums).vals) < input.maxVals
    /\ LET val == IF eq = Default THEN nextEnumVal ELSE eq IN
       enums' = [enums EXCEPT ![Len(enums)].vals =
                    Append(@, [eq |-> eq, val |-> val % EnumMod])]
    /\ nextEnumVal' = (nextEnumVal + 1) % EnumMod
    /\ UNCHANGED <<input, phase, pkgName, msgs, output, first, layout>>

\* A name with its eq_int_opt.  d->val and nextEnumVal are 16 bits wide.
EnumField(eq) ==
    /\ phase = "enum" /\ Len(Last(enums).vals) < input.maxVals
    /\ LET val == IF eq = Default THEN nextEnumVal ELSE eq IN
       /\ enums' = [enums EXCEPT ![Len(enums)].vals =
                       Append(@, [eq |-> eq, val |-> val % EnumMod])]
       /\ nextEnumVal' = (val + 1) % EnumMod
    /\ UNCHANGED <<input, phase, pkgName, msgs, output, first, layout>>

DclMessage(name) ==
    /\ phase = "dcl_list"
    /\ msgs' = Append(msgs, [name |-> name, flds |-> <<>>])
    /\ phase' = "message"
    /\ UNCHANGED <<input, pkgName, enums, nextEnumVal, output, first, layout>>

\* Fields of all messages so far
FieldCount == FoldLeft(LAMBDA a, m : a + Len(m.flds), 0, msgs)

MsgField(d) ==
    /\ phase = "message" /\ FieldCount < input.maxFlds
    /\ msgs' = [msgs EXCEPT ![Len(msgs)].flds = Append(@, d)]
    /\ UNCHANGED <<input, phase, pkgName, enums, nextEnumVal, output, first, layout>>

EndDcl ==
    /\ phase \in {"enum", "message"}
    /\ phase' = "dcl_list"
    /\ UNCHANGED <<input, tree, output, first, layout>>

\* The program exits, in yyerror or die.
Die ==
    /\ phase' = "died"
    /\ UNCHANGED <<input, tree, output, first, layout>>

SyntaxError == phase \in {"package_opt", "dcl_list", "enum", "message"} /\ Die

EndOfInput ==
    /\ phase = "dcl_list"
    /\ phase' = "makelookup"
    /\ UNCHANGED <<input, tree, output, first, layout>>

-----------------------------------------------------------------------------
(* t2b.c *)

Type(kind, size, id) == [kind |-> kind, size |-> size, id |-> id]

\* The table of built-in types
BuiltIn ==
    [name \in {"bool", "int8", "int16", "int32", "int64", "uint8", "uint16", "uint32",
               "uint64", "float", "double", "string"} |->
        CASE name = "bool" -> Type("BOOL", 0, 0)
          [] name = "int8" -> Type("INT", 1, 0)     [] name = "uint8" -> Type("UINT", 1, 0)
          [] name = "int16" -> Type("INT", 2, 0)    [] name = "uint16" -> Type("UINT", 2, 0)
          [] name = "int32" -> Type("INT", 4, 0)    [] name = "uint32" -> Type("UINT", 4, 0)
          [] name = "int64" -> Type("INT", 8, 0)    [] name = "uint64" -> Type("UINT", 8, 0)
          [] name = "float" -> Type("FLOAT", 4, 0)  [] name = "double" -> Type("FLOAT", 8, 0)
          [] name = "string" -> Type("STR", 1, 0)]

Declared == [i \in DOMAIN enums |-> enums[i].name] \o [i \in DOMAIN msgs |-> msgs[i].name]

\* Two types of one name, found next to each other after the sort
Redefined ==
    \/ \E i \in DOMAIN Declared : Declared[i] \in DOMAIN BuiltIn
    \/ ~IsInjective(Declared)

\* Mutant of UserTypes: ids are counted through enums and messages.
UserTypesOneCount ==
    [name \in Range(Declared) |->
        LET i == CHOOSE k \in DOMAIN Declared : Declared[k] = name
        IN  IF i <= Len(enums) THEN Type("ENUM", 2, i - 1) ELSE Type("PTR", 4, i - 1)]

\* The entries of makelookup's two loops; ids are counted in each.
UserTypes ==
    [name \in Range(Declared) |->
        LET i == CHOOSE k \in DOMAIN Declared : Declared[k] = name
        IN  IF i <= Len(enums) THEN Type("ENUM", 2, i - 1)
            ELSE Type("PTR", 4, i - 1 - Len(enums))]

\* The table that bsearch looks a type up in
Table ==
    [name \in DOMAIN BuiltIn \cup Range(Declared) |->
        IF name \in DOMAIN BuiltIn THEN BuiltIn[name] ELSE UserTypes[name]]

TooMany == Cardinality(DOMAIN BuiltIn) + Len(Declared) > MaxTypes

MakeLookup ==
    /\ phase = "makelookup"
    /\ \/ TooMany /\ Die
       \/ ~TooMany /\ Redefined /\ Die
       \/ /\ ~TooMany /\ ~Redefined
          /\ types' = Table
          /\ phase' = "outenums"
          /\ UNCHANGED <<input, tree, bin, descs, first, layout>>

\* makeschema and outenums
OutEnums ==
    /\ phase = "outenums"
    /\ bin' = [pkgName |-> pkgName,
               enums |-> [i \in DOMAIN enums |->
                            [name |-> enums[i].name,
                             vals |-> [j \in DOMAIN enums[i].vals |-> enums[i].vals[j].val]]],
               msgs |-> <<>>]
    /\ phase' = "outmsgs"
    /\ UNCHANGED <<input, tree, types, descs, first, layout>>

IsScalar(kind) == kind \in {"ENUM", "BOOL", "INT", "UINT", "FLOAT"}

\* tag1: which enum or message, or the size
Tag1(ent) == IF ent.kind \in {"ENUM", "PTR"} THEN ent.id ELSE ent.size

\* Mutant of Tag0: the place of a bool is a byte.
Tag0Bytes(ent, list) ==
    IF IsScalar(ent.kind) /\ ~list THEN Last(fields').lo \div 8 ELSE psize

\* tag0: a bit for a bool, a byte for other scalars, else the pointer's number
Tag0(ent, list) ==
    IF IsScalar(ent.kind) /\ ~list
    THEN Last(fields').lo \div (IF ent.kind = "BOOL" THEN 1 ELSE 8)
    ELSE psize

\* One iteration of outmsgs' inner loop
OutField ==
    /\ phase = "outmsgs" /\ nmsgs < Len(msgs)
    /\ Len(descs) < Len(msgs[nmsgs + 1].flds)
    /\ LET d == msgs[nmsgs + 1].flds[Len(descs) + 1] IN
       \/ d.tname \notin DOMAIN types /\ Die
       \/ /\ d.tname \in DOMAIN types
          /\ LET ent == types[d.tname] IN
             /\ IF IsScalar(ent.kind) /\ ~d.list THEN Layout!AddScalar(ent.size)
                ELSE Layout!AddPointer
             /\ descs' = Append(descs, [list |-> d.list, kind |-> ent.kind,
                                        tag0 |-> Tag0(ent, d.list), tag1 |-> Tag1(ent)])
          /\ UNCHANGED <<input, phase, tree, types, bin, first>>

\* The end of an iteration of the outer loop
OutMsg ==
    /\ phase = "outmsgs" /\ nmsgs < Len(msgs)
    /\ Len(descs) = Len(msgs[nmsgs + 1].flds)
    /\ Layout!EndMessage
    /\ bin' = [bin EXCEPT !.msgs = Append(@, [name |-> msgs[nmsgs + 1].name, flds |-> descs,
                                              ssize |-> done'.ssize, psize |-> done'.psize])]
    /\ descs' = <<>>
    /\ UNCHANGED <<input, phase, tree, types, first>>

Finish ==
    /\ phase = "outmsgs" /\ nmsgs = Len(msgs)
    /\ phase' = "out"
    /\ UNCHANGED <<input, tree, output, first, layout>>

-----------------------------------------------------------------------------
(* b2t.c *)

\* The name of the id-th enum or message; a handle past the end has none.
NameOf(declared, id) == IF id < Len(declared) THEN declared[id + 1].name ELSE ""

\* typestr: the name of a field's type
TypeStr(sch, d) ==
    CASE d.kind = "BOOL" -> "bool"
      [] d.kind = "INT" -> <<"int8", "int16", "", "int32", "", "", "", "int64">>[d.tag1]
      [] d.kind = "UINT" -> <<"uint8", "uint16", "", "uint32", "", "", "", "uint64">>[d.tag1]
      [] d.kind = "FLOAT" -> IF d.tag1 = 4 THEN "float" ELSE "double"
      [] d.kind = "STR" -> "string"
      [] d.kind = "ENUM" -> NameOf(sch.enums, d.tag1)
      [] d.kind = "PTR" -> NameOf(sch.msgs, d.tag1)

\* Mutant of PrintEnum: the values are left out.
PrintEnumNames(e) ==
    [name |-> e.name, vals |-> [j \in DOMAIN e.vals |-> [eq |-> Default, val |-> j - 1]]]

\* Every value is printed, and read by EnumField as an explicit one.
PrintEnum(e) ==
    [name |-> e.name,
     vals |-> [j \in DOMAIN e.vals |-> [eq |-> e.vals[j], val |-> e.vals[j] % EnumMod]]]

PrintMsgType(sch, m) ==
    [name |-> m.name,
     flds |-> [j \in DOMAIN m.flds |->
                 [tname |-> TypeStr(sch, m.flds[j]), list |-> m.flds[j].list]]]

\* The finished schema is printed and the text is read by a second compiler,
\* whose grammar leaves this tree.  nextEnumVal is the same again: one more
\* than the last value, or 0 without one.
PrintSchema ==
    /\ phase = "out" /\ first = <<>>
    /\ first' = <<bin>>
    /\ pkgName' = bin.pkgName
    /\ enums' = [i \in DOMAIN bin.enums |-> PrintEnum(bin.enums[i])]
    /\ msgs' = [i \in DOMAIN bin.msgs |-> PrintMsgType(bin, bin.msgs[i])]
    /\ phase' = "makelookup"
    /\ types' = <<>> /\ bin' = EmptySchema /\ descs' = <<>>
    /\ fields' = <<>> /\ ssize' = 0 /\ psize' = 0 /\ alignment' = 0
    /\ pads' = <<>> /\ link' = 0 /\ bitOffs' = 0
    /\ nmsgs' = 0 /\ largest' = 0 /\ done' = Layout!NoMessage
    /\ UNCHANGED <<input, nextEnumVal>>

Next ==
    \/ PackageOpt
    \/ \E name \in Names : DclEnum(name) \/ DclMessage(name)
    \/ \E eq \in input.vals : EnumField(eq)
    \/ \E d \in input.flds : MsgField(d)
    \/ EndDcl \/ EndOfInput \/ SyntaxError
    \/ MakeLookup \/ OutEnums \/ OutField \/ OutMsg \/ Finish
    \/ PrintSchema

Spec == Init /\ [][Next]_vars

-----------------------------------------------------------------------------
(* b2hh.c.  The accessors of b2h.c make the same calls. *)

Bits(lo, n) == {<<"bit", b>> : b \in lo .. lo + n - 1}
Pointer(p) == {<<"pointer", p>>}

\* _nbuf_get_size: the sizes of what an initialiser creates
GetSize(sch, d) ==
    CASE d.kind = "ENUM" -> [ssize |-> 2, psize |-> 0]
      [] d.kind = "STR" -> [ssize |-> 0, psize |-> 1]
      [] d.kind = "PTR" -> [ssize |-> sch.msgs[d.tag1 + 1].ssize,
                            psize |-> sch.msgs[d.tag1 + 1].psize]
      [] OTHER -> [ssize |-> d.tag1, psize |-> 0]

\* The switch of gengetter: what is read at tag0
Read(d, tag0) ==
    CASE d.kind = "BOOL" -> Bits(tag0, 1)
      [] d.kind \in {"INT", "UINT", "FLOAT"} -> Bits(8 * tag0, 8 * d.tag1)
      [] d.kind = "ENUM" -> Bits(8 * tag0, 16)
      [] OTHER -> Pointer(tag0)

\* The switch of gensetter; messages have no setter.
Written(d, tag0) ==
    CASE d.kind = "BOOL" -> Bits(tag0, 1)
      [] d.kind \in {"INT", "UINT", "FLOAT"} -> Bits(8 * tag0, 8 * d.tag1)
      [] d.kind = "ENUM" -> Bits(8 * tag0, 16)
      [] d.kind = "STR" -> Pointer(tag0)
      [] OTHER -> {}

\* In the message itself a list is its pointer: the getter follows it, and
\* the initialiser sets it.
Getter(d) == IF d.list THEN Pointer(d.tag0) ELSE Read(d, d.tag0)
Setter(d) == IF d.list THEN {} ELSE Written(d, d.tag0)
Initer(d) == IF d.list \/ d.kind = "PTR" THEN Pointer(d.tag0) ELSE {}

\* What an object of these sizes has
Cells(size) == Bits(0, 8 * size.ssize) \cup {<<"pointer", p>> : p \in 0 .. size.psize - 1}

\* An element of a list, as nbuf_get_elem returns it: of bits, their byte
ElemCells(size) ==
    IF size.ssize = 0 /\ size.psize = 0 THEN Bits(0, 8) ELSE Cells(size)

\* The places in it that accessors use: bit i % 8, or 0
ElemTags(d) == IF d.kind = "BOOL" THEN 0 .. 7 ELSE {0}

-----------------------------------------------------------------------------
\* The index of the last name up to the j-th that has a value of its own
LastExplicit(vals, j) ==
    LET given == {k \in 1 .. j : vals[k].eq # Default}
    IN  IF given = {} THEN 0 ELSE Max(given)

\* An enum's names count up from the last explicit value before them, or from
\* 0, in every enum afresh and around the end of a uint16_t (the counter
\* nextEnumVal, which lives through the whole text), and outenums stores them.
EnumsAsDeclared ==
    \A i \in DOMAIN bin.enums : \A j \in DOMAIN bin.enums[i].vals :
        LET vals == enums[i].vals
            k == LastExplicit(vals, j)
        IN  bin.enums[i].vals[j] = (IF k = 0 THEN j - 1 ELSE vals[k].eq + (j - k)) % EnumMod

Named(name) == CHOOSE m \in Range(bin.msgs) : m.name = name

\* The type of every field is the one its text names, wherever that was
\* declared (ids are counted separately for enums and messages, and a field may
\* refer to a later message), and init_ creates an object that has all fields
\* of the message the text names.
TypesResolve ==
    phase = "out" =>
        \A k \in DOMAIN msgs : \A i \in DOMAIN msgs[k].flds :
            LET d == bin.msgs[k].flds[i]
                text == msgs[k].flds[i]
            IN  /\ TypeStr(bin, d) = text.tname /\ d.list = text.list
                /\ d.kind = "PTR" =>
                      \A f \in Range(Named(text.tname).flds) :
                          Getter(f) \subseteq Cells(GetSize(bin, d))

\* The generated accessors of two fields of a message never touch each other:
\* whatever a setter or an initialiser changes, only its own getter reads, and
\* all of it lies inside the object that new_ or init_ creates; so do the
\* elements of lists.
AccessorsApart ==
    phase = "out" =>
        \A m \in Range(bin.msgs) :
            /\ \A i, j \in DOMAIN m.flds : i # j =>
                  (Setter(m.flds[i]) \cup Initer(m.flds[i])) \cap Getter(m.flds[j]) = {}
            /\ \A d \in Range(m.flds) :
                  /\ Setter(d) \subseteq Getter(d)
                  /\ Getter(d) \cup Setter(d) \cup Initer(d) \subseteq Cells(m)
                  /\ d.list /\ d.kind # "PTR" =>
                        \A tag \in ElemTags(d) :
                            Written(d, tag) \cup Read(d, tag) \subseteq ElemCells(GetSize(bin, d))

\* A schema the compiler accepted and printed again is accepted, and compiles
\* to the same binary schema: same ids, values, offsets and sizes.
SchemaReadsBack ==
    first # <<>> =>
        /\ phase # "died"
        /\ phase = "out" => bin = first[1]
=============================================================================

-------------------------- MODULE SchemaBuild_proofs --------------------------
(***************************************************************************)
(* Proofs about the schema compiler, for every text: enum values, the      *)
(* types of fields, and the places that the generated accessors touch.     *)
(* What SchemaLayout_proofs proves of the layout of one message is used    *)
(* here for all messages of a schema.  At the end, a schema that is        *)
(* printed and compiled again: its messages go through the layouts of the  *)
(* first compilation.                                                      *)
(***************************************************************************)
EXTENDS SchemaBuild, SequenceTheorems, TLAPS

-----------------------------------------------------------------------------
(* Enum values *)

\* A number is a multiple of M and its remainder.
LEMMA ModRange ==
    ASSUME NEW a \in Int, NEW M \in Nat \ {0}
    PROVE  a % M \in 0 .. M - 1 /\ a \div M \in Int /\ a = M * (a \div M) + (a % M)
OBVIOUS

\* There is one remainder.
LEMMA ModUnique ==
    ASSUME NEW q \in Int, NEW M \in Nat \ {0}, NEW r \in 0 .. M - 1
    PROVE  (M * q + r) % M = r
OBVIOUS

\* A number below M is its own remainder.
LEMMA ModSmall ==
    ASSUME NEW M \in Nat \ {0}, NEW r \in 0 .. M - 1
    PROVE  r % M = r
OBVIOUS

\* One more than a number, modulo M, depends on the number modulo M only.
LEMMA ModNext ==
    ASSUME NEW a \in Int, NEW M \in Nat \ {0}
    PROVE  ((a % M) + 1) % M = (a + 1) % M
<1>1. PICK q \in Int, r \in 0 .. M - 1 : a = M * q + r /\ a % M = r
    BY ModRange
<1>2. CASE r + 1 < M
  <2>1. (M * q + (r + 1)) % M = r + 1
      BY <1>2, ModUnique
  <2>2. (M * 0 + (r + 1)) % M = r + 1
      BY <1>2, ModUnique
  <2> QED
      BY <1>1, <2>1, <2>2
<1>3. CASE r + 1 = M
  <2>1. (M * (q + 1) + 0) % M = 0
      BY ModUnique
  <2>2. (M * 1 + 0) % M = 0
      BY ModUnique
  <2>3. M * (q + 1) = a + 1
      BY <1>1, <1>3
  <2> QED
      BY <1>1, <1>3, <2>1, <2>2, <2>3
<1> QED
    BY <1>2, <1>3

\* An enum's name with its value, and an enum, in the syntax tree
Entry == [eq : Int \cup {Default}, val : 0 .. EnumMod - 1]
EnumDcl == [name : STRING, vals : Seq(Entry)]

\* The k-th name is the last one up to the j-th with a value of its own.
Gives(vals, k, j) ==
    /\ k = 0 \/ vals[k].eq # Default
    /\ \A l \in k + 1 .. j : vals[l].eq = Default

\* What the j-th name counts to from there.
CountsTo(vals, k, j) == IF k = 0 THEN j - 1 ELSE vals[k].eq + (j - k)

Counted(vals) ==
    \A j \in 1 .. Len(vals) : \E k \in 0 .. j :
        Gives(vals, k, j) /\ vals[j].val = CountsTo(vals, k, j) % EnumMod

\* LastExplicit finds that name.
LEMMA LastExplicitIs ==
    ASSUME NEW vals, NEW j \in Nat, NEW k \in 0 .. j, Gives(vals, k, j)
    PROVE  LastExplicit(vals, j) = k
<1> DEFINE given == {l \in 1 .. j : vals[l].eq # Default}
<1>1. CASE k = 0
  <2>1. given = {}
      BY <1>1 DEF Gives
  <2> QED
      BY <1>1, <2>1 DEF LastExplicit
<1>2. CASE k > 0
  <2>1. k \in given /\ \A l \in given : k >= l
      BY <1>2 DEF Gives
  <2>2. \A x \in given : (\A l \in given : x >= l) => x = k
      BY <2>1
  <2>3. Max(given) = k
      BY <2>1, <2>2 DEF Max
  <2> QED
      BY <2>1, <2>3 DEF LastExplicit
<1> QED
    BY <1>1, <1>2

\* The counter is one past the last value of the enum in work.
NextFits(vals, next) ==
    next = IF vals = <<>> THEN 0 ELSE (vals[Len(vals)].val + 1) % EnumMod

\* Another name keeps the count.
LEMMA NameCounted ==
    ASSUME NEW vals \in Seq(Entry), Counted(vals), NEW next \in Int, NextFits(vals, next),
           NEW eq \in Int \cup {Default},
           NEW val \in Int, val = (IF eq = Default THEN next ELSE eq),
           NEW more, more = Append(vals, [eq |-> eq, val |-> val % EnumMod])
    PROVE  more \in Seq(Entry) /\ Counted(more) /\ NextFits(more, (val + 1) % EnumMod)
<1> DEFINE n == Len(vals)
           new == [eq |-> eq, val |-> val % EnumMod]
<1>0. EnumMod \in Nat \ {0} /\ Default \notin Int
    BY BuildAssumption
<1>1. val % EnumMod \in 0 .. EnumMod - 1
    BY <1>0, ModRange
<1>2. new \in Entry
    BY <1>1 DEF Entry
<1>3. /\ more \in Seq(Entry) /\ more # <<>> /\ Len(more) = n + 1 /\ n \in Nat
      /\ \A j \in 1 .. n : more[j] = vals[j]
      /\ more[n + 1] = new
    BY <1>2, AppendProperties
<1>4. NextFits(more, (val + 1) % EnumMod)
  <2>1. ((val % EnumMod) + 1) % EnumMod = (val + 1) % EnumMod
      BY <1>0, ModNext
  <2> QED
      BY <1>3, <2>1 DEF NextFits
<1>5. ASSUME NEW j \in 1 .. n, NEW k \in 0 .. j
      PROVE  /\ Gives(vals, k, j) => Gives(more, k, j)
             /\ CountsTo(vals, k, j) = CountsTo(more, k, j)
  <2>1. \A l \in k + 1 .. j : more[l] = vals[l]
      BY <1>3
  <2>2. k # 0 => more[k] = vals[k]
      BY <1>3
  <2> QED
      BY <2>1, <2>2 DEF Gives, CountsTo
<1>6. \A j \in 1 .. n : \E k \in 0 .. j :
         Gives(more, k, j) /\ more[j].val = CountsTo(more, k, j) % EnumMod
  <2> SUFFICES ASSUME NEW j \in 1 .. n
               PROVE  \E k \in 0 .. j :
                        Gives(more, k, j) /\ more[j].val = CountsTo(more, k, j) % EnumMod
      OBVIOUS
  <2>1. PICK k \in 0 .. j : Gives(vals, k, j) /\ vals[j].val = CountsTo(vals, k, j) % EnumMod
      BY DEF Counted
  <2> QED
      BY <1>3, <1>5, <2>1
<1>7. \E k \in 0 .. n + 1 :
         Gives(more, k, n + 1) /\ val % EnumMod = CountsTo(more, k, n + 1) % EnumMod
  <2>1. CASE eq # Default
    <3>1. Gives(more, n + 1, n + 1)
        BY <1>3, <2>1 DEF Gives
    <3>2. CountsTo(more, n + 1, n + 1) = val
        BY <1>0, <1>3, <2>1 DEF CountsTo
    <3> QED
        BY <1>3, <3>1, <3>2
  <2>2. CASE eq = Default /\ n = 0
    <3>1. vals = <<>> /\ val = 0
        BY <2>2, EmptySeq DEF NextFits
    <3>2. Gives(more, 0, n + 1)
        BY <1>3, <2>2 DEF Gives
    <3>3. CountsTo(more, 0, n + 1) = 0
        BY <2>2 DEF CountsTo
    <3> QED
        BY <2>2, <3>1, <3>2, <3>3
  <2>3. CASE eq = Default /\ n > 0
    <3>1. PICK k \in 0 .. n : Gives(vals, k, n) /\ vals[n].val = CountsTo(vals, k, n) % EnumMod
        BY <1>3, <2>3 DEF Counted
    <3>2. Gives(more, k, n) /\ CountsTo(vals, k, n) = CountsTo(more, k, n)
        BY <1>3, <1>5, <2>3, <3>1
    <3>3. Gives(more, k, n + 1)
        BY <1>3, <2>3, <3>2 DEF Gives
    <3>4. k # 0 => more[k].eq \in Int
      <4> SUFFICES ASSUME k # 0 PROVE more[k].eq \in Int
          OBVIOUS
      <4>1. more[k] \in Entry
          BY <1>3, ElementOfSeq
      <4>2. more[k].eq \in Int \cup {Default}
          BY <4>1 DEF Entry
      <4> QED
          BY <3>2, <4>2 DEF Gives
    <3>5. CountsTo(more, k, n) \in Int /\ CountsTo(more, k, n + 1) = CountsTo(more, k, n) + 1
        BY <1>3, <3>4 DEF CountsTo
    <3>6. val = (vals[n].val + 1) % EnumMod
        BY <1>3, <2>3, EmptySeq DEF NextFits
    <3>7. val = CountsTo(more, k, n + 1) % EnumMod
      <4>1. PICK x \in Int : x = CountsTo(more, k, n)
          BY <3>5
      <4>2. val = ((x % EnumMod) + 1) % EnumMod /\ CountsTo(more, k, n + 1) = x + 1
          BY <3>1, <3>2, <3>5, <3>6, <4>1
      <4> QED
          BY <1>0, <4>2, ModNext
    <3>8. val % EnumMod = val
      <4>1. PICK x \in Int : x = CountsTo(more, k, n + 1)
          BY <3>5
      <4>2. val \in 0 .. EnumMod - 1
          BY <1>0, <3>7, <4>1, ModRange
      <4> QED
          BY <1>0, <4>2, ModUnique
    <3> QED
        BY <1>3, <3>3, <3>7, <3>8
  <2> QED
      BY <1>3, <2>1, <2>2, <2>3
<1>8. Counted(more)
  <2>1. more[n + 1].val = val % EnumMod
      BY <1>3
  <2> QED
      BY <1>3, <1>6, <1>7, <2>1, SMTT(40) DEF Counted
<1> QED
    BY <1>3, <1>4, <1>8

-----------------------------------------------------------------------------
(* The table of types *)

MsgDcl == [name : STRING, flds : Seq(FieldDcl)]
Kinds == {"BOOL", "INT", "UINT", "FLOAT", "STR", "ENUM", "PTR"}

\* The sizes that go with the kinds
Ent == {e \in [kind : Kinds, size : {0, 1, 2, 4, 8}, id : Nat] :
          /\ e.kind = "BOOL" => e.size = 0
          /\ e.kind \in {"INT", "UINT"} => e.size \in {1, 2, 4, 8}
          /\ e.kind = "FLOAT" => e.size \in {4, 8}
          /\ e.kind = "ENUM" => e.size = 2}

\* The names that typestr has for the built-in types
LEMMA TypeStrs ==
    ASSUME NEW sch, NEW d
    PROVE  /\ d.kind = "BOOL" => TypeStr(sch, d) = "bool"
           /\ d.kind = "INT" => /\ d.tag1 = 1 => TypeStr(sch, d) = "int8"
                                /\ d.tag1 = 2 => TypeStr(sch, d) = "int16"
                                /\ d.tag1 = 4 => TypeStr(sch, d) = "int32"
                                /\ d.tag1 = 8 => TypeStr(sch, d) = "int64"
           /\ d.kind = "UINT" => /\ d.tag1 = 1 => TypeStr(sch, d) = "uint8"
                                 /\ d.tag1 = 2 => TypeStr(sch, d) = "uint16"
                                 /\ d.tag1 = 4 => TypeStr(sch, d) = "uint32"
                                 /\ d.tag1 = 8 => TypeStr(sch, d) = "uint64"
           /\ d.kind = "FLOAT" => TypeStr(sch, d) = IF d.tag1 = 4 THEN "float" ELSE "double"
           /\ d.kind = "STR" => TypeStr(sch, d) = "string"
           /\ d.kind = "ENUM" => TypeStr(sch, d) = NameOf(sch.enums, d.tag1)
           /\ d.kind = "PTR" => TypeStr(sch, d) = NameOf(sch.msgs, d.tag1)
<1>1. /\ d.kind = "INT" => TypeStr(sch, d) =
            <<"int8", "int16", "", "int32", "", "", "", "int64">>[d.tag1]
      /\ d.kind = "UINT" => TypeStr(sch, d) =
            <<"uint8", "uint16", "", "uint32", "", "", "", "uint64">>[d.tag1]
    BY Zenon DEF TypeStr
<1>2. /\ d.kind = "BOOL" => TypeStr(sch, d) = "bool"
      /\ d.kind = "FLOAT" => TypeStr(sch, d) = IF d.tag1 = 4 THEN "float" ELSE "double"
      /\ d.kind = "STR" => TypeStr(sch, d) = "string"
      /\ d.kind = "ENUM" => TypeStr(sch, d) = NameOf(sch.enums, d.tag1)
      /\ d.kind = "PTR" => TypeStr(sch, d) = NameOf(sch.msgs, d.tag1)
    BY Zenon DEF TypeStr
<1>3. LET t == <<"int8", "int16", "", "int32", "", "", "", "int64">>
      IN  t[1] = "int8" /\ t[2] = "int16" /\ t[4] = "int32" /\ t[8] = "int64"
    OBVIOUS
<1>4. LET t == <<"uint8", "uint16", "", "uint32", "", "", "", "uint64">>
      IN  t[1] = "uint8" /\ t[2] = "uint16" /\ t[4] = "uint32" /\ t[8] = "uint64"
    OBVIOUS
<1> QED
    BY <1>1, <1>2, <1>3, <1>4, Zenon

\* The built-in types, and that typestr gives their names back.
LEMMA BuiltInTypes ==
    ASSUME NEW n \in DOMAIN BuiltIn
    PROVE  /\ BuiltIn[n] \in Ent /\ BuiltIn[n].kind \in Kinds \ {"ENUM", "PTR"}
           /\ \A sch, d : d.kind = BuiltIn[n].kind /\ d.tag1 = BuiltIn[n].size
                            => TypeStr(sch, d) = n
<1>1. n \in {"bool", "int8", "int16", "int32", "int64", "uint8", "uint16", "uint32",
             "uint64", "float", "double", "string"}
    BY DEF BuiltIn
<1>2. CASE n = "bool"
  <2>1. BuiltIn[n] = Type("BOOL", 0, 0)
      BY <1>2, Zenon DEF BuiltIn
  <2>2. BuiltIn[n] \in Ent /\ BuiltIn[n].kind \in Kinds \ {"ENUM", "PTR"}
      BY <2>1 DEF Type, Ent, Kinds
  <2>3. ASSUME NEW sch, NEW d, d.kind = BuiltIn[n].kind, d.tag1 = BuiltIn[n].size
        PROVE  TypeStr(sch, d) = n
    <3>1. d.kind = "BOOL" /\ d.tag1 = 0
        BY <2>1, <2>3 DEF Type
    <3> QED
        BY <1>2, <3>1, TypeStrs
  <2> QED
      BY <2>2, <2>3
<1>3. CASE n = "int8"
  <2>1. BuiltIn[n] = Type("INT", 1, 0)
      BY <1>3, Zenon DEF BuiltIn
  <2>2. BuiltIn[n] \in Ent /\ BuiltIn[n].kind \in Kinds \ {"ENUM", "PTR"}
      BY <2>1 DEF Type, Ent, Kinds
  <2>3. ASSUME NEW sch, NEW d, d.kind = BuiltIn[n].kind, d.tag1 = BuiltIn[n].size
        PROVE  TypeStr(sch, d) = n
    <3>1. d.kind = "INT" /\ d.tag1 = 1
        BY <2>1, <2>3 DEF Type
    <3> QED
        BY <1>3, <3>1, TypeStrs
  <2> QED
      BY <2>2, <2>3
<1>4. CASE n = "int16"
  <2>1. BuiltIn[n] = Type("INT", 2, 0)
      BY <1>4, Zenon DEF BuiltIn
  <2>2. BuiltIn[n] \in Ent /\ BuiltIn[n].kind \in Kinds \ {"ENUM", "PTR"}
      BY <2>1 DEF Type, Ent, Kinds
  <2>3. ASSUME NEW sch, NEW d, d.kind = BuiltIn[n].kind, d.tag1 = BuiltIn[n].size
        PROVE  TypeStr(sch, d) = n
    <3>1. d.kind = "INT" /\ d.tag1 = 2
        BY <2>1, <2>3 DEF Type
    <3> QED
        BY <1>4, <3>1, TypeStrs
  <2> QED
      BY <2>2, <2>3
<1>5. CASE n = "int32"
  <2>1. BuiltIn[n] = Type("INT", 4, 0)
      BY <1>5, Zenon DEF BuiltIn
  <2>2. BuiltIn[n] \in Ent /\ BuiltIn[n].kind \in Kinds \ {"ENUM", "PTR"}
      BY <2>1 DEF Type, Ent, Kinds
  <2>3. ASSUME NEW sch, NEW d, d.kind = BuiltIn[n].kind, d.tag1 = BuiltIn[n].size
        PROVE  TypeStr(sch, d) = n
    <3>1. d.kind = "INT" /\ d.tag1 = 4
        BY <2>1, <2>3 DEF Type
    <3> QED
        BY <1>5, <3>1, TypeStrs
  <2> QED
      BY <2>2, <2>3
<1>6. CASE n = "int64"
  <2>1. BuiltIn[n] = Type("INT", 8, 0)
      BY <1>6, Zenon DEF BuiltIn
  <2>2. BuiltIn[n] \in Ent /\ BuiltIn[n].kind \in Kinds \ {"ENUM", "PTR"}
      BY <2>1 DEF Type, Ent, Kinds
  <2>3. ASSUME NEW sch, NEW d, d.kind = BuiltIn[n].kind, d.tag1 = BuiltIn[n].size
        PROVE  TypeStr(sch, d) = n
    <3>1. d.kind = "INT" /\ d.tag1 = 8
        BY <2>1, <2>3 DEF Type
    <3> QED
        BY <1>6, <3>1, TypeStrs
  <2> QED
      BY <2>2, <2>3
<1>7. CASE n = "uint8"
  <2>1. BuiltIn[n] = Type("UINT", 1, 0)
      BY <1>7, Zenon DEF BuiltIn
  <2>2. BuiltIn[n] \in Ent /\ BuiltIn[n].kind \in Kinds \ {"ENUM", "PTR"}
      BY <2>1 DEF Type, Ent, Kinds
  <2>3. ASSUME NEW sch, NEW d, d.kind = BuiltIn[n].kind, d.tag1 = BuiltIn[n].size
        PROVE  TypeStr(sch, d) = n
    <3>1. d.kind = "UINT" /\ d.tag1 = 1
        BY <2>1, <2>3 DEF Type
    <3> QED
        BY <1>7, <3>1, TypeStrs
  <2> QED
      BY <2>2, <2>3
<1>8. CASE n = "uint16"
  <2>1. BuiltIn[n] = Type("UINT", 2, 0)
      BY <1>8, Zenon DEF BuiltIn
  <2>2. BuiltIn[n] \in Ent /\ BuiltIn[n].kind \in Kinds \ {"ENUM", "PTR"}
      BY <2>1 DEF Type, Ent, Kinds
  <2>3. ASSUME NEW sch, NEW d, d.kind = BuiltIn[n].kind, d.tag1 = BuiltIn[n].size
        PROVE  TypeStr(sch, d) = n
    <3>1. d.kind = "UINT" /\ d.tag1 = 2
        BY <2>1, <2>3 DEF Type
    <3> QED
        BY <1>8, <3>1, TypeStrs
  <2> QED
      BY <2>2, <2>3
<1>9. CASE n = "uint32"
  <2>1. BuiltIn[n] = Type("UINT", 4, 0)
      BY <1>9, Zenon DEF BuiltIn
  <2>2. BuiltIn[n] \in Ent /\ BuiltIn[n].kind \in Kinds \ {"ENUM", "PTR"}
      BY <2>1 DEF Type, Ent, Kinds
  <2>3. ASSUME NEW sch, NEW d, d.kind = BuiltIn[n].kind, d.tag1 = BuiltIn[n].size
        PROVE  TypeStr(sch, d) = n
    <3>1. d.kind = "UINT" /\ d.tag1 = 4
        BY <2>1, <2>3 DEF Type
    <3> QED
        BY <1>9, <3>1, TypeStrs
  <2> QED
      BY <2>2, <2>3
<1>10. CASE n = "uint64"
  <2>1. BuiltIn[n] = Type("UINT", 8, 0)
      BY <1>10, Zenon DEF BuiltIn
  <2>2. BuiltIn[n] \in Ent /\ BuiltIn[n].kind \in Kinds \ {"ENUM", "PTR"}
      BY <2>1 DEF Type, Ent, Kinds
  <2>3. ASSUME NEW sch, NEW d, d.kind = BuiltIn[n].kind, d.tag1 = BuiltIn[n].size
        PROVE  TypeStr(sch, d) = n
    <3>1. d.kind = "UINT" /\ d.tag1 = 8
        BY <2>1, <2>3 DEF Type
    <3> QED
        BY <1>10, <3>1, TypeStrs
  <2> QED
      BY <2>2, <2>3
<1>11. CASE n = "float"
  <2>1. BuiltIn[n] = Type("FLOAT", 4, 0)
      BY <1>11, Zenon DEF BuiltIn
  <2>2. BuiltIn[n] \in Ent /\ BuiltIn[n].kind \in Kinds \ {"ENUM", "PTR"}
      BY <2>1 DEF Type, Ent, Kinds
  <2>3. ASSUME NEW sch, NEW d, d.kind = BuiltIn[n].kind, d.tag1 = BuiltIn[n].size
        PROVE  TypeStr(sch, d) = n
    <3>1. d.kind = "FLOAT" /\ d.tag1 = 4
        BY <2>1, <2>3 DEF Type
    <3> QED
        BY <1>11, <3>1, TypeStrs
  <2> QED
      BY <2>2, <2>3
<1>12. CASE n = "double"
  <2>1. BuiltIn[n] = Type("FLOAT", 8, 0)
      BY <1>12, Zenon DEF BuiltIn
  <2>2. BuiltIn[n] \in Ent /\ BuiltIn[n].kind \in Kinds \ {"ENUM", "PTR"}
      BY <2>1 DEF Type, Ent, Kinds
  <2>3. ASSUME NEW sch, NEW d, d.kind = BuiltIn[n].kind, d.tag1 = BuiltIn[n].size
        PROVE  TypeStr(sch, d) = n
    <3>1. d.kind = "FLOAT" /\ d.tag1 = 8
        BY <2>1, <2>3 DEF Type
    <3> QED
        BY <1>12, <3>1, TypeStrs
  <2> QED
      BY <2>2, <2>3
<1>13. CASE n = "string"
  <2>1. BuiltIn[n] = Type("STR", 1, 0)
      BY <1>13, Zenon DEF BuiltIn
  <2>2. BuiltIn[n] \in Ent /\ BuiltIn[n].kind \in Kinds \ {"ENUM", "PTR"}
      BY <2>1 DEF Type, Ent, Kinds
  <2>3. ASSUME NEW sch, NEW d, d.kind = BuiltIn[n].kind, d.tag1 = BuiltIn[n].size
        PROVE  TypeStr(sch, d) = n
    <3>1. d.kind = "STR" /\ d.tag1 = 1
        BY <2>1, <2>3 DEF Type
    <3> QED
        BY <1>13, <3>1, TypeStrs
  <2> QED
      BY <2>2, <2>3
<1> QED
    BY <1>1, <1>2, <1>3, <1>4, <1>5, <1>6, <1>7, <1>8, <1>9, <1>10,
       <1>11, <1>12, <1>13

\* A function on 1 .. n is a sequence.
LEMMA FunctionIsSeq ==
    ASSUME NEW S, NEW n \in Nat, NEW f, f \in [1 .. n -> S]
    PROVE  f \in Seq(S) /\ Len(f) = n /\ DOMAIN f = 1 .. n
OBVIOUS

\* The declared names, enums before messages
LEMMA DeclaredNames ==
    ASSUME enums \in Seq(EnumDcl), msgs \in Seq(MsgDcl)
    PROVE  /\ DOMAIN Declared = 1 .. Len(enums) + Len(msgs)
           /\ \A i \in 1 .. Len(enums) : Declared[i] = enums[i].name
           /\ \A i \in 1 .. Len(msgs) : Declared[Len(enums) + i] = msgs[i].name
<1>1. PICK es \in Seq(STRING) : es = [i \in DOMAIN enums |-> enums[i].name]
  <2>1. ASSUME NEW i \in 1 .. Len(enums) PROVE enums[i].name \in STRING
    <3>1. enums[i] \in EnumDcl
        BY ElementOfSeq
    <3> QED
        BY <3>1 DEF EnumDcl
  <2>2. DOMAIN enums = 1 .. Len(enums) /\ Len(enums) \in Nat
      BY LenProperties
  <2>3. [i \in DOMAIN enums |-> enums[i].name] \in [1 .. Len(enums) -> STRING]
      BY <2>1, <2>2
  <2> QED
      BY <2>2, <2>3, FunctionIsSeq
<1>2. PICK ms \in Seq(STRING) : ms = [i \in DOMAIN msgs |-> msgs[i].name]
  <2>1. ASSUME NEW i \in 1 .. Len(msgs) PROVE msgs[i].name \in STRING
    <3>1. msgs[i] \in MsgDcl
        BY ElementOfSeq
    <3> QED
        BY <3>1 DEF MsgDcl
  <2>2. DOMAIN msgs = 1 .. Len(msgs) /\ Len(msgs) \in Nat
      BY LenProperties
  <2>3. [i \in DOMAIN msgs |-> msgs[i].name] \in [1 .. Len(msgs) -> STRING]
      BY <2>1, <2>2
  <2> QED
      BY <2>2, <2>3, FunctionIsSeq
<1>3. Len(es) = Len(enums) /\ Len(ms) = Len(msgs) /\ Len(enums) \in Nat /\ Len(msgs) \in Nat
    BY <1>1, <1>2, LenProperties
<1>4. Declared = es \o ms
    BY <1>1, <1>2 DEF Declared
<1>5. /\ DOMAIN Declared = 1 .. Len(es) + Len(ms)
      /\ \A i \in 1 .. Len(es) + Len(ms) :
            Declared[i] = IF i <= Len(es) THEN es[i] ELSE ms[i - Len(es)]
    BY <1>4, ConcatProperties
<1>6. ASSUME NEW i \in 1 .. Len(enums)
      PROVE  Declared[i] = enums[i].name
  <2>1. Declared[i] = es[i]
      BY <1>3, <1>5
  <2> QED
      BY <1>1, <1>3, <2>1
<1>7. ASSUME NEW i \in 1 .. Len(msgs)
      PROVE  Declared[Len(enums) + i] = msgs[i].name
  <2>1. Declared[Len(enums) + i] = ms[i]
      BY <1>3, <1>5
  <2> QED
      BY <1>2, <1>3, <2>1
<1> QED
    BY <1>3, <1>5, <1>6, <1>7

\* What the table says of each name.
LEMMA TableSays ==
    ASSUME enums \in Seq(EnumDcl), msgs \in Seq(MsgDcl), ~Redefined
    PROVE  /\ \A n \in DOMAIN BuiltIn : n \in DOMAIN Table /\ Table[n] = BuiltIn[n]
           /\ \A i \in 1 .. Len(enums) : Table[enums[i].name] = Type("ENUM", 2, i - 1)
           /\ \A i \in 1 .. Len(msgs) : Table[msgs[i].name] = Type("PTR", 4, i - 1)
           /\ \A n \in DOMAIN Table :
                \/ n \in DOMAIN BuiltIn
                \/ \E i \in 1 .. Len(enums) : n = enums[i].name
                \/ \E i \in 1 .. Len(msgs) : n = msgs[i].name
           /\ \A i, j \in 1 .. Len(msgs) : msgs[i].name = msgs[j].name => i = j
<1>1. /\ Len(enums) \in Nat /\ Len(msgs) \in Nat
      /\ DOMAIN Declared = 1 .. Len(enums) + Len(msgs)
      /\ \A i \in 1 .. Len(enums) : Declared[i] = enums[i].name
      /\ \A i \in 1 .. Len(msgs) : Declared[Len(enums) + i] = msgs[i].name
    BY DeclaredNames, LenProperties
<1>2. /\ \A i \in DOMAIN Declared : Declared[i] \notin DOMAIN BuiltIn
      /\ \A i, j \in DOMAIN Declared : Declared[i] = Declared[j] => i = j
    BY DEF Redefined, IsInjective
<1>3. /\ DOMAIN Table = DOMAIN BuiltIn \cup Range(Declared)
      /\ \A n \in DOMAIN BuiltIn : Table[n] = BuiltIn[n]
      /\ \A n \in Range(Declared) : n \notin DOMAIN BuiltIn => Table[n] = UserTypes[n]
    BY DEF Table
<1>4. ASSUME NEW i \in DOMAIN Declared
      PROVE  Table[Declared[i]] = IF i <= Len(enums) THEN Type("ENUM", 2, i - 1)
                                  ELSE Type("PTR", 4, i - 1 - Len(enums))
  <2>1. Declared[i] \in Range(Declared) /\ Declared[i] \notin DOMAIN BuiltIn
      BY <1>2 DEF Range
  <2>2. (CHOOSE k \in DOMAIN Declared : Declared[k] = Declared[i]) = i
      BY <1>2
  <2>3. UserTypes[Declared[i]] = IF i <= Len(enums) THEN Type("ENUM", 2, i - 1)
                                 ELSE Type("PTR", 4, i - 1 - Len(enums))
      BY <2>1, <2>2 DEF UserTypes
  <2> QED
      BY <1>3, <2>1, <2>3
<1>5. ASSUME NEW i \in 1 .. Len(enums)
      PROVE  Table[enums[i].name] = Type("ENUM", 2, i - 1)
  <2>1. i \in DOMAIN Declared /\ i <= Len(enums)
      BY <1>1
  <2>2. Table[Declared[i]] = Type("ENUM", 2, i - 1)
      BY <1>4, <2>1
  <2> QED
      BY <1>1, <2>2
<1>6. ASSUME NEW i \in 1 .. Len(msgs)
      PROVE  Table[msgs[i].name] = Type("PTR", 4, i - 1)
  <2>1. Len(enums) + i \in DOMAIN Declared /\ ~(Len(enums) + i <= Len(enums))
      BY <1>1
  <2>2. Table[Declared[Len(enums) + i]] = Type("PTR", 4, Len(enums) + i - 1 - Len(enums))
      BY <1>4, <2>1
  <2>3. Len(enums) + i - 1 - Len(enums) = i - 1
      BY <1>1
  <2> QED
      BY <1>1, <2>2, <2>3
<1>7. ASSUME NEW n \in Range(Declared)
      PROVE  \/ \E i \in 1 .. Len(enums) : n = enums[i].name
             \/ \E i \in 1 .. Len(msgs) : n = msgs[i].name
  <2>1. PICK k \in DOMAIN Declared : n = Declared[k]
      BY DEF Range
  <2>2. CASE k <= Len(enums)
      BY <1>1, <2>1, <2>2
  <2>3. CASE k > Len(enums)
    <3>1. PICK i \in 1 .. Len(msgs) : k = Len(enums) + i
      <4>1. k - Len(enums) \in 1 .. Len(msgs) /\ k = Len(enums) + (k - Len(enums))
          BY <1>1, <2>3
      <4> QED
          BY <4>1
    <3> QED
        BY <1>1, <2>1, <3>1
  <2> QED
      BY <1>1, <2>2, <2>3
<1>8. ASSUME NEW i \in 1 .. Len(msgs), NEW j \in 1 .. Len(msgs), msgs[i].name = msgs[j].name
      PROVE  i = j
  <2>1. Len(enums) + i \in DOMAIN Declared /\ Len(enums) + j \in DOMAIN Declared
      BY <1>1
  <2>2. Len(enums) + i = Len(enums) + j
      BY <1>1, <1>2, <1>8, <2>1
  <2> QED
      BY <1>1, <2>2
<1> QED
    BY <1>3, <1>5, <1>6, <1>7, <1>8

\* Every entry of the table is one for its kind.
LEMMA TableTyped ==
    ASSUME enums \in Seq(EnumDcl), msgs \in Seq(MsgDcl), ~Redefined, NEW n \in DOMAIN Table
    PROVE  Table[n] \in Ent
<1>1. Len(enums) \in Nat /\ Len(msgs) \in Nat
    BY LenProperties
<1>2. \A i \in Nat \ {0} : Type("ENUM", 2, i - 1) \in Ent /\ Type("PTR", 4, i - 1) \in Ent
    BY DEF Type, Ent, Kinds
<1>3. CASE n \in DOMAIN BuiltIn
    BY <1>3, TableSays, BuiltInTypes
<1>4. CASE \E i \in 1 .. Len(enums) : n = enums[i].name
  <2>1. PICK i \in 1 .. Len(enums) : n = enums[i].name
      BY <1>4
  <2>2. Table[n] = Type("ENUM", 2, i - 1)
      BY <2>1, TableSays
  <2> QED
      BY <1>1, <1>2, <2>2
<1>5. CASE \E i \in 1 .. Len(msgs) : n = msgs[i].name
  <2>1. PICK i \in 1 .. Len(msgs) : n = msgs[i].name
      BY <1>5
  <2>2. Table[n] = Type("PTR", 4, i - 1)
      BY <2>1, TableSays
  <2> QED
      BY <1>1, <1>2, <2>2
<1> QED
    BY <1>3, <1>4, <1>5, TableSays

-----------------------------------------------------------------------------
(* The layout of a message *)

\* The proofs about the layout; the constants keep its LayoutAssumption.
LP == INSTANCE SchemaLayout_proofs WITH
    Sizes <- {0, 1, 2, 4, 8}, MaxFields <- 4000, MaxMsgs <- 4000

\* The two instances have the same actions.
LEMMA SameScalar ==
    ASSUME NEW size
    PROVE  LP!AddScalar(size) <=> Layout!AddScalar(size)
BY DEF LP!AddScalar, Layout!AddScalar, LP!HasRoom, Layout!HasRoom,
       LP!BoolInByte, Layout!BoolInByte, LP!BoolInPad, Layout!BoolInPad,
       LP!BoolAtEnd, Layout!BoolAtEnd, LP!ScalarInPad, Layout!ScalarInPad,
       LP!ScalarAtEnd, Layout!ScalarAtEnd, LP!Larger, Layout!Larger,
       LP!Unplaced, Layout!Unplaced, LP!Placed, Layout!Placed, LP!Field, Layout!Field,
       LP!Usable, Layout!Usable, LP!Skip, Layout!Skip, LP!RoundUp, Layout!RoundUp,
       LP!IsFirstUsable, Layout!IsFirstUsable, LP!TakePad, Layout!TakePad,
       LP!Cut, Layout!Cut, LP!InsertedAfter, Layout!InsertedAfter,
       LP!Removed, Layout!Removed, LP!Space, Layout!Space, LP!AddPad, Layout!AddPad

\* The two instances have the same pointer and message steps.
LEMMA SameOthers ==
    /\ LP!AddPointer <=> Layout!AddPointer
    /\ LP!EndMessage <=> Layout!EndMessage
BY DEF LP!AddPointer, Layout!AddPointer, LP!EndMessage, Layout!EndMessage,
       LP!HasRoom, Layout!HasRoom, LP!Larger, Layout!Larger, LP!WordSz, Layout!WordSz,
       LP!FinalSize, Layout!FinalSize, LP!RoundUp, Layout!RoundUp

\* A scalar is placed apart from the others, at a whole byte unless it is a bool.
LEMMA ScalarStep ==
    ASSUME LP!Inv, NEW size \in {0, 1, 2, 4, 8}, Layout!AddScalar(size)
    PROVE  /\ LP!Inv' /\ psize' = psize /\ nmsgs' = nmsgs
           /\ \/ /\ size = 0
                 /\ \E lo \in Nat : fields' = Append(fields, [lo |-> lo, hi |-> lo + 1])
              \/ /\ size # 0
                 /\ \E b \in Nat :
                      fields' = Append(fields, [lo |-> 8 * b, hi |-> 8 * b + 8 * size])
<1>1. LP!AddScalar(size)
    BY SameScalar
<1>2. LP!Inv'
    BY <1>1, LP!AddScalarKeeps
<1>3. psize' = psize /\ nmsgs' = nmsgs
    BY DEF Layout!AddScalar, Layout!Unplaced
<1>4. \/ size = 0 /\ \E lo \in Nat : LP!Placed(lo, 1)
      \/ size # 0 /\ \E b \in Nat : LP!Placed(8 * b, 8 * size)
    BY <1>1, LP!ScalarPlaced
<1> QED
    BY <1>2, <1>3, <1>4 DEF LP!Placed, LP!Field

\* A pointer counts, and moves no scalar.
LEMMA PointerStep ==
    ASSUME LP!Inv, Layout!AddPointer
    PROVE  LP!Inv' /\ psize' = psize + 1 /\ UNCHANGED <<fields, ssize, nmsgs>>
<1>1. LP!Inv'
    BY SameOthers, LP!OtherStepsKeep
<1> QED
    BY <1>1 DEF Layout!AddPointer

\* The message that is finished has at least the size of its fields.
LEMMA MessageStep ==
    ASSUME LP!Inv, Layout!EndMessage
    PROVE  /\ LP!Inv' /\ nmsgs' = nmsgs + 1
           /\ done'.ssize \in Nat /\ done'.ssize >= ssize /\ done'.psize = psize
<1>1. LP!Inv' /\ LP!EndMessage
    BY SameOthers, LP!OtherStepsKeep
<1>2. ssize \in Nat /\ psize \in Nat /\ alignment \in {0, 1, 2, 4, 8}
    BY DEF LP!Inv, LP!TypeOK
<1>3. LP!FinalSize(alignment) \in Nat /\ LP!FinalSize(alignment) >= ssize
    BY <1>2, LP!FinalSizeType
<1>4. done'.ssize = LP!FinalSize(alignment) /\ done'.psize = psize /\ nmsgs' = nmsgs + 1
    BY <1>1 DEF LP!EndMessage
<1> QED
    BY <1>1, <1>3, <1>4

\* What the layout keeps of the scalars of the message in work.
LEMMA ScalarsKept ==
    ASSUME LP!Inv
    PROVE  /\ Len(fields) \in Nat /\ ssize \in Nat /\ psize \in Nat /\ nmsgs \in Nat
           /\ fields \in Seq([lo : Nat, hi : Nat])
           /\ \A i \in 1 .. Len(fields) :
                fields[i].lo \in Nat /\ fields[i].hi \in Nat /\ fields[i].hi <= 8 * ssize
           /\ \A i, j \in 1 .. Len(fields) :
                i # j => fields[i].hi <= fields[j].lo \/ fields[j].hi <= fields[i].lo
<1>1. LP!Fld = [lo : Nat, hi : Nat]
    BY DEF LP!Fld
<1>2. fields \in Seq(LP!Fld)
    BY LP!ScalarsSound
<1>3. Len(fields) \in Nat /\ ssize \in Nat /\ psize \in Nat /\ nmsgs \in Nat
    BY LP!ScalarsSound
<1>4. \A i \in 1 .. Len(fields) :
         fields[i].lo \in Nat /\ fields[i].hi \in Nat /\ fields[i].hi <= 8 * ssize
    BY LP!ScalarsSound
<1>5. \A i, j \in 1 .. Len(fields) :
         i # j => fields[i].hi <= fields[j].lo \/ fields[j].hi <= fields[i].lo
    BY LP!ScalarsSound
<1> QED
    BY <1>1, <1>2, <1>3, <1>4, <1>5, Zenon

-----------------------------------------------------------------------------
(* The fields of a message *)

Desc == [list : BOOLEAN, kind : Kinds, tag0 : Nat, tag1 : Nat]

\* A field in the scalar part: the first of its bits, and their number
InScalars(d) == IsScalar(d.kind) /\ ~d.list
FirstBit(d) == IF d.kind = "BOOL" THEN d.tag0 ELSE 8 * d.tag0
Width(d) == IF d.kind = "BOOL" THEN 1 ELSE IF d.kind = "ENUM" THEN 16 ELSE 8 * d.tag1

\* Two fields use different bits, or different pointers.
Separate(d, e) ==
    /\ InScalars(d) /\ InScalars(e) =>
          FirstBit(d) + Width(d) <= FirstBit(e) \/ FirstBit(e) + Width(e) <= FirstBit(d)
    /\ ~InScalars(d) /\ ~InScalars(e) => d.tag0 # e.tag0

\* A field lies inside an object of s bytes and p pointers.
Inside(d, s, p) ==
    /\ InScalars(d) => FirstBit(d) + Width(d) <= 8 * s
    /\ ~InScalars(d) => d.tag0 < p

Laid(ds, s, p) ==
    /\ \A i \in 1 .. Len(ds) : Inside(ds[i], s, p)
    /\ \A i, j \in 1 .. Len(ds) : i # j => Separate(ds[i], ds[j])

\* The scalar is one that the layout placed.
Backed(d) ==
    InScalars(d) =>
        \E k \in 1 .. Len(fields) :
            fields[k].lo = FirstBit(d) /\ fields[k].hi = FirstBit(d) + Width(d)

\* The numbers of a field's description
LEMMA DescNumbers ==
    ASSUME NEW d \in Desc
    PROVE  d.tag0 \in Nat /\ d.tag1 \in Nat /\ FirstBit(d) \in Nat /\ Width(d) \in Nat
BY DEF Desc, FirstBit, Width

\* The fields of the message in work
InWork ==
    /\ descs \in Seq(Desc)
    /\ Laid(descs, ssize, psize)
    /\ \A i \in 1 .. Len(descs) : Backed(descs[i])

\* The layout's scalars as the message's size is now
PlacedApart ==
    /\ ssize \in Nat
    /\ \A i \in 1 .. Len(fields) : fields[i].hi <= 8 * ssize
    /\ \A i, j \in 1 .. Len(fields) :
          i # j => fields[i].hi <= fields[j].lo \/ fields[j].hi <= fields[i].lo

\* What AccessorsApart needs of SchemaLayout's invariant
LEMMA LayoutPlacesApart == LP!Inv => PlacedApart
BY ScalarsKept DEF PlacedApart

\* A scalar that the layout has placed joins the fields of the message.
LEMMA ScalarAppended ==
    ASSUME LP!Inv, LP!Inv', InWork, psize' = psize, NEW d \in Desc, InScalars(d),
           fields' = Append(fields, [lo |-> FirstBit(d), hi |-> FirstBit(d) + Width(d)]),
           descs' = Append(descs, d)
    PROVE  InWork'
<1> DEFINE new == [lo |-> FirstBit(d), hi |-> FirstBit(d) + Width(d)]
<1>0. PICK n, m : n = Len(descs) /\ m = Len(fields)
    OBVIOUS
<1>1. /\ descs' \in Seq(Desc) /\ Len(descs') = n + 1 /\ n \in Nat
      /\ \A i \in 1 .. n : descs'[i] = descs[i] /\ descs[i] \in Desc
      /\ descs'[n + 1] = d
    BY <1>0, AppendProperties, ElementOfSeq DEF InWork
<1>2. FirstBit(d) \in Nat /\ Width(d) \in Nat
    BY DescNumbers
<1>3. new \in [lo : Nat, hi : Nat]
    BY <1>2
<1>4. fields \in Seq([lo : Nat, hi : Nat]) /\ m \in Nat /\ psize \in Nat
    BY <1>0, ScalarsKept
<1>5. /\ Len(fields') = m + 1 /\ fields'[m + 1] = new
      /\ \A k \in 1 .. m : fields'[k] = fields[k]
    BY <1>0, <1>3, <1>4, AppendProperties
<1>6. /\ ssize' \in Nat
      /\ \A i \in 1 .. m + 1 : fields'[i].hi <= 8 * ssize'
      /\ \A i, j \in 1 .. m + 1 :
            i # j => fields'[i].hi <= fields'[j].lo \/ fields'[j].hi <= fields'[i].lo
  <2>1. PlacedApart'
      BY LayoutPlacesApart, PTL
  <2> QED
      BY <1>5, <2>1 DEF PlacedApart
<1>7. ASSUME NEW i \in 1 .. n, InScalars(descs[i])
      PROVE  \E k \in 1 .. m : /\ fields'[k].lo = FirstBit(descs[i])
                               /\ fields'[k].hi = FirstBit(descs[i]) + Width(descs[i])
    BY <1>0, <1>5, <1>7 DEF InWork, Backed
<1>8. \A i \in 1 .. n + 1 : Backed(descs[i])'
  <2>1. ASSUME NEW i \in 1 .. n PROVE Backed(descs[i])'
    <3> SUFFICES ASSUME InScalars(descs[i])
                 PROVE  \E k \in 1 .. Len(fields') :
                          /\ fields'[k].lo = FirstBit(descs[i])
                          /\ fields'[k].hi = FirstBit(descs[i]) + Width(descs[i])
        BY <1>1 DEF Backed
    <3>1. PICK k \in 1 .. m : /\ fields'[k].lo = FirstBit(descs[i])
                              /\ fields'[k].hi = FirstBit(descs[i]) + Width(descs[i])
        BY <1>7
    <3>2. k \in 1 .. Len(fields')
        BY <1>4, <1>5
    <3> QED
        BY <3>1, <3>2, Zenon
  <2>2. Backed(descs[n + 1])'
      BY <1>1, <1>4, <1>5 DEF Backed
  <2> QED
      BY <1>1, <2>1, <2>2
<1>9. ASSUME NEW i \in 1 .. n + 1 PROVE Inside(descs'[i], ssize', psize')
  <2>1. CASE i \in 1 .. n
    <3>1. Inside(descs[i], ssize, psize)
        BY <1>0, <2>1 DEF InWork, Laid
    <3>2. InScalars(descs[i]) => FirstBit(descs[i]) + Width(descs[i]) <= 8 * ssize'
      <4> SUFFICES ASSUME InScalars(descs[i])
                   PROVE  FirstBit(descs[i]) + Width(descs[i]) <= 8 * ssize'
          OBVIOUS
      <4>1. PICK k \in 1 .. m : fields'[k].hi = FirstBit(descs[i]) + Width(descs[i])
          BY <1>7, <2>1
      <4>2. k \in 1 .. m + 1
          BY <1>4
      <4>3. fields'[k].hi <= 8 * ssize'
          BY <1>6, <4>2
      <4> QED
          BY <4>1, <4>3
    <3> QED
        BY <1>1, <2>1, <3>1, <3>2 DEF Inside
  <2>2. CASE i = n + 1
      BY <1>1, <1>4, <1>5, <1>6, <2>2, SMTT(40) DEF Inside
  <2> QED
      BY <1>1, <2>1, <2>2
<1>10. ASSUME NEW i \in 1 .. n PROVE Separate(descs[i], d) /\ Separate(d, descs[i])
  <2>1. CASE InScalars(descs[i])
    <3>1. PICK k \in 1 .. m : /\ fields'[k].lo = FirstBit(descs[i])
                              /\ fields'[k].hi = FirstBit(descs[i]) + Width(descs[i])
        BY <1>7, <2>1
    <3>2. fields'[k].hi <= fields'[m + 1].lo \/ fields'[m + 1].hi <= fields'[k].lo
      <4>1. k \in 1 .. m + 1 /\ m + 1 \in 1 .. m + 1 /\ k # m + 1
          BY <1>4
      <4> QED
          BY <1>6, <4>1
    <3>3. fields'[m + 1].lo = FirstBit(d) /\ fields'[m + 1].hi = FirstBit(d) + Width(d)
        BY <1>5
    <3> QED
        BY <2>1, <3>1, <3>2, <3>3 DEF Separate
  <2>2. CASE ~InScalars(descs[i])
      BY <2>2 DEF Separate
  <2> QED
      BY <2>1, <2>2
<1>11. ASSUME NEW i \in 1 .. n + 1, NEW j \in 1 .. n + 1, i # j
       PROVE  Separate(descs'[i], descs'[j])
    BY <1>0, <1>1, <1>10, <1>11 DEF InWork, Laid
<1> QED
    BY <1>0, <1>1, <1>8, <1>9, <1>11 DEF InWork, Laid

\* A pointer joins them.
LEMMA PointerAppended ==
    ASSUME LP!Inv, InWork, psize' = psize + 1, UNCHANGED <<fields, ssize>>,
           NEW d \in Desc, ~InScalars(d), d.tag0 = psize, descs' = Append(descs, d)
    PROVE  InWork'
<1>0. PICK n : n = Len(descs)
    OBVIOUS
<1>1. /\ descs' \in Seq(Desc) /\ Len(descs') = n + 1 /\ n \in Nat
      /\ \A i \in 1 .. n : descs'[i] = descs[i] /\ descs[i] \in Desc
      /\ descs'[n + 1] = d
    BY <1>0, AppendProperties, ElementOfSeq DEF InWork
<1>2. psize \in Nat
    BY ScalarsKept
<1>3. ASSUME NEW i \in 1 .. n
      PROVE  Inside(descs[i], ssize, psize) /\ descs[i].tag0 \in Nat /\ Backed(descs[i])
    BY <1>0, <1>1, DescNumbers DEF InWork, Laid
<1>4. ASSUME NEW i \in 1 .. n + 1 PROVE Backed(descs[i])'
  <2>1. CASE i \in 1 .. n
      BY <1>1, <1>3, <2>1 DEF Backed
  <2>2. CASE i = n + 1
      BY <1>1, <2>2 DEF Backed
  <2> QED
      BY <1>1, <2>1, <2>2
<1>5. ASSUME NEW i \in 1 .. n + 1 PROVE Inside(descs'[i], ssize', psize')
  <2>1. CASE i \in 1 .. n
      BY <1>1, <1>2, <1>3, <2>1 DEF Inside
  <2>2. CASE i = n + 1
      BY <1>1, <1>2, <2>2 DEF Inside
  <2> QED
      BY <1>1, <2>1, <2>2
<1>6. ASSUME NEW i \in 1 .. n PROVE Separate(descs[i], d) /\ Separate(d, descs[i])
    BY <1>2, <1>3 DEF Inside, Separate
<1>7. ASSUME NEW i \in 1 .. n + 1, NEW j \in 1 .. n + 1, i # j
      PROVE  Separate(descs'[i], descs'[j])
    BY <1>0, <1>1, <1>6, <1>7 DEF InWork, Laid
<1> QED
    BY <1>0, <1>1, <1>4, <1>5, <1>7 DEF InWork, Laid

-----------------------------------------------------------------------------
(* The inductive invariant *)

\* The name of the package; "" for none
Package == STRING \cup {""}

BinEnum == [name : STRING, vals : Seq(0 .. EnumMod - 1)]
BinMsg == [name : STRING, flds : Seq(Desc), ssize : Nat, psize : Nat]
Binary == [pkgName : Package, enums : Seq(BinEnum), msgs : Seq(BinMsg)]

Reading == {"package_opt", "dcl_list", "enum", "message", "makelookup"}
Writing == {"outmsgs", "out"}

\* The syntax tree; an enum in work is the last one, and so is a message.
Tree ==
    /\ input \in Inputs /\ phase \in Reading \cup Writing \cup {"outenums", "died"}
    /\ pkgName \in Package /\ enums \in Seq(EnumDcl) /\ msgs \in Seq(MsgDcl)
    /\ phase = "enum" => Len(enums) >= 1
    /\ phase = "message" => Len(msgs) >= 1

\* The values that the names of the enums have, and the counter
Values ==
    /\ nextEnumVal \in Int
    /\ \A i \in 1 .. Len(enums) : Counted(enums[i].vals)
    /\ phase = "enum" => NextFits(enums[Len(enums)].vals, nextEnumVal)

TypesKnown == phase \in Writing \cup {"outenums"} => types = Table /\ ~Redefined

\* An enum of the binary schema and the one in the tree
Copied(b, e) ==
    /\ b.name = e.name /\ Len(b.vals) = Len(e.vals)
    /\ \A j \in 1 .. Len(b.vals) : b.vals[j] = e.vals[j].val

EnumsOut ==
    /\ bin \in Binary
    /\ phase \in Reading \cup {"outenums"} => bin.enums = <<>> /\ bin.msgs = <<>>
    /\ phase \in Writing => Len(bin.enums) = Len(enums)
    /\ Len(bin.enums) <= Len(enums)
    /\ \A i \in 1 .. Len(bin.enums) : Copied(bin.enums[i], enums[i])

\* A field of the binary schema and its text, with the table T of types
Resolved(T, d, f) ==
    /\ f.tname \in DOMAIN T
    /\ d.list = f.list /\ d.kind = T[f.tname].kind /\ d.tag1 = Tag1(T[f.tname])

Translated(T, ds, fs) ==
    /\ Len(ds) <= Len(fs)
    /\ \A i \in 1 .. Len(ds) : Resolved(T, ds[i], fs[i])

Finished(T, b, m) ==
    /\ b.name = m.name /\ Len(b.flds) = Len(m.flds)
    /\ Translated(T, b.flds, m.flds)
    /\ Laid(b.flds, b.ssize, b.psize)

MsgsOut ==
    /\ phase \in Reading \cup {"outenums"} => nmsgs = 0 /\ descs = <<>>
    /\ phase \in Writing =>
         /\ nmsgs = Len(bin.msgs) /\ nmsgs <= Len(msgs)
         /\ \A k \in 1 .. nmsgs : Finished(types, bin.msgs[k], msgs[k])
         /\ nmsgs < Len(msgs) => Translated(types, descs, msgs[nmsgs + 1].flds)
    /\ phase = "out" => nmsgs = Len(msgs)

Output == TypesKnown /\ EnumsOut /\ MsgsOut
BuildInv == LP!Inv /\ InWork /\ Tree /\ Values /\ Output

\* A message without fields
LEMMA EmptyWork == descs = <<>> => InWork
<1> HAVE descs = <<>>
<1>1. Len(descs) = 0 /\ descs \in Seq(Desc)
    OBVIOUS
<1> QED
    BY <1>1 DEF InWork, Laid

\* Nothing is written while the text is read.
LEMMA OutputKept ==
    ASSUME LP!Inv, InWork, Output, Tree, Tree', UNCHANGED <<output, layout>>,
           phase \in Reading, phase' \in Reading
    PROVE  LP!Inv' /\ InWork' /\ Output'
<1>1. LP!Inv'
  <2>1. UNCHANGED LP!vars
      BY DEF layout, LP!vars
  <2> QED
      BY <2>1, LP!OtherStepsKeep
<1>2. UNCHANGED <<descs, bin, nmsgs, ssize, psize, fields>>
    BY DEF output, layout
<1>3. InWork'
    BY <1>2 DEF InWork, Backed, Laid
<1>4. bin.enums = <<>> /\ bin.msgs = <<>> /\ nmsgs = 0 /\ descs = <<>> /\ bin \in Binary
    BY DEF Output, EnumsOut, MsgsOut
<1>5. Len(enums') \in Nat
    BY DEF Tree
<1>6. EnumsOut'
    BY <1>2, <1>4, <1>5 DEF EnumsOut, Reading, Writing
<1>7. MsgsOut' /\ TypesKnown'
    BY <1>2, <1>4 DEF MsgsOut, TypesKnown, Reading, Writing
<1> QED
    BY <1>1, <1>3, <1>6, <1>7 DEF Output

-----------------------------------------------------------------------------
(* The steps that read the text *)

\* The names that a declaration may have
LEMMA NamesAreStrings ==
    ASSUME Tree, NEW name \in Names
    PROVE  name \in STRING
<1>1. input.names \in Seq(SUBSET STRING)
    BY BuildAssumption DEF Tree
<1>2. PICK k : k = Len(enums) + Len(msgs) + 1
    OBVIOUS
<1>3. k \in Nat /\ k >= 1
    BY <1>2 DEF Tree
<1>4. k <= Len(input.names) /\ name \in input.names[k]
    BY <1>1, <1>2, <1>3 DEF Names
<1>5. input.names[k] \in SUBSET STRING
    BY <1>1, <1>3, <1>4, ElementOfSeq
<1> QED
    BY <1>4, <1>5

\* A step that leaves the declarations as they are.
LEMMA SameTree ==
    ASSUME Tree, Values, UNCHANGED <<input, enums, msgs, nextEnumVal>>, pkgName' \in Package,
           phase' \in Reading \cup Writing \cup {"outenums", "died"}, phase' \notin {"enum", "message"}
    PROVE  Tree' /\ Values'
BY DEF Tree, Values

\* One lemma for each step of the compiler: the syntax tree first.
LEMMA PackageOptKeeps ==
    ASSUME BuildInv, PackageOpt
    PROVE  BuildInv'
<1>1. input.pkg \in Package
    BY BuildAssumption DEF BuildInv, Tree, Package
<1>2. /\ phase = "package_opt" /\ phase' = "dcl_list" /\ pkgName' = input.pkg
      /\ UNCHANGED <<input, enums, msgs, nextEnumVal, output, layout>>
    BY DEF PackageOpt
<1>3. Tree' /\ Values'
    BY <1>1, <1>2, SameTree DEF BuildInv, Reading
<1> QED
    BY <1>2, <1>3, OutputKept DEF BuildInv, Reading

\* A new enum counts from 0.
LEMMA DclEnumKeeps ==
    ASSUME BuildInv, NEW name \in Names, DclEnum(name)
    PROVE  BuildInv'
<1>1. /\ phase = "dcl_list" /\ phase' = "enum" /\ nextEnumVal' = 0
      /\ UNCHANGED <<input, pkgName, msgs, output, layout>>
      /\ enums' = Append(enums, [name |-> name, vals |-> <<>>])
    BY DEF DclEnum
<1>2. [name |-> name, vals |-> <<>>] \in EnumDcl
    BY NamesAreStrings DEF EnumDcl, BuildInv
<1>3. PICK e \in EnumDcl : enums' = Append(enums, e) /\ e.vals = <<>>
    BY <1>1, <1>2
<1>4. enums \in Seq(EnumDcl) /\ Len(enums) \in Nat
    BY LenProperties DEF BuildInv, Tree
<1>5. /\ enums' \in Seq(EnumDcl) /\ Len(enums') = Len(enums) + 1
      /\ \A i \in 1 .. Len(enums) : enums'[i] = enums[i]
      /\ enums'[Len(enums) + 1] = e
    BY <1>3, <1>4, AppendProperties
<1>6. Tree'
    BY <1>1, <1>4, <1>5 DEF BuildInv, Tree, Reading
<1>7. Values'
  <2>1. Counted(<<>>) /\ NextFits(<<>>, 0)
      BY DEF Counted, NextFits
  <2>2. \A i \in 1 .. Len(enums') : Counted(enums'[i].vals)
      BY <1>3, <1>4, <1>5, <2>1 DEF BuildInv, Values
  <2> QED
      BY <1>1, <1>3, <1>4, <1>5, <2>1, <2>2 DEF Values
<1> QED
    BY <1>1, <1>6, <1>7, OutputKept DEF BuildInv, Reading

\* A name with or without a value
LEMMA EnumFieldKeeps ==
    ASSUME BuildInv, NEW eq \in input.vals, EnumField(eq)
    PROVE  BuildInv'
<1>1. PICK val : val = IF eq = Default THEN nextEnumVal ELSE eq
    OBVIOUS
<1>2. /\ phase = "enum" /\ UNCHANGED <<input, phase, pkgName, msgs, output, layout>>
      /\ enums' = [enums EXCEPT ![Len(enums)].vals =
                     Append(enums[Len(enums)].vals, [eq |-> eq, val |-> val % EnumMod])]
      /\ nextEnumVal' = (val + 1) % EnumMod
    BY <1>1 DEF EnumField
<1>3. enums \in Seq(EnumDcl) /\ Len(enums) \in Nat /\ Len(enums) >= 1
    BY <1>2, LenProperties DEF BuildInv, Tree
<1>4. PICK n \in 1 .. Len(enums) : n = Len(enums)
    BY <1>3
<1>5. enums[n] \in EnumDcl
    BY <1>3, ElementOfSeq
<1>6. PICK vals : vals = enums[n].vals
    OBVIOUS
<1>7. vals \in Seq(Entry) /\ enums[n].name \in STRING
    BY <1>5, <1>6 DEF EnumDcl
<1>8. Counted(vals) /\ NextFits(vals, nextEnumVal) /\ nextEnumVal \in Int
    BY <1>2, <1>4, <1>6 DEF BuildInv, Values
<1>9. eq \in Int \cup {Default} /\ EnumMod \in Nat \ {0}
    BY BuildAssumption DEF BuildInv, Tree
<1>10. val \in Int
    BY <1>1, <1>8, <1>9
<1>11. PICK more : more = Append(vals, [eq |-> eq, val |-> val % EnumMod])
    OBVIOUS
<1>12. more \in Seq(Entry) /\ Counted(more) /\ NextFits(more, (val + 1) % EnumMod)
    BY <1>1, <1>7, <1>8, <1>9, <1>10, <1>11, NameCounted
<1>13. PICK e : e = [enums[n] EXCEPT !.vals = more]
    OBVIOUS
<1>14. e \in EnumDcl /\ e.vals = more
    BY <1>5, <1>12, <1>13 DEF EnumDcl
<1>15. enums' = [enums EXCEPT ![n] = e]
    BY <1>2, <1>4, <1>6, <1>11, <1>13
<1>16. /\ enums' \in Seq(EnumDcl) /\ Len(enums') = Len(enums)
       /\ \A i \in 1 .. Len(enums) : enums'[i] = IF i = n THEN e ELSE enums[i]
    BY <1>3, <1>14, <1>15, ExceptSeq
<1>17. Tree'
    BY <1>2, <1>3, <1>16 DEF BuildInv, Tree
<1>18. nextEnumVal' \in Int
  <2>1. PICK x \in Int : x = val + 1
      BY <1>10
  <2>2. x % EnumMod \in Int
      BY <1>9, ModRange
  <2> QED
      BY <1>2, <2>1, <2>2
<1>19. Values'
  <2>1. \A i \in 1 .. Len(enums') : Counted(enums'[i].vals)
      BY <1>3, <1>4, <1>12, <1>14, <1>16 DEF BuildInv, Values
  <2>2. NextFits(enums'[Len(enums')].vals, nextEnumVal')
      BY <1>2, <1>3, <1>4, <1>12, <1>14, <1>16
  <2> QED
      BY <1>18, <2>1, <2>2 DEF Values
<1> QED
    BY <1>2, <1>17, <1>19, OutputKept DEF BuildInv, Reading

\* A new message has no fields.
LEMMA DclMessageKeeps ==
    ASSUME BuildInv, NEW name \in Names, DclMessage(name)
    PROVE  BuildInv'
<1>1. /\ phase = "dcl_list" /\ phase' = "message"
      /\ UNCHANGED <<input, pkgName, enums, nextEnumVal, output, layout>>
      /\ msgs' = Append(msgs, [name |-> name, flds |-> <<>>])
    BY DEF DclMessage
<1>2. [name |-> name, flds |-> <<>>] \in MsgDcl
    BY NamesAreStrings DEF MsgDcl, BuildInv
<1>3. msgs \in Seq(MsgDcl) /\ Len(msgs) \in Nat
    BY LenProperties DEF BuildInv, Tree
<1>4. msgs' \in Seq(MsgDcl) /\ Len(msgs') = Len(msgs) + 1
    BY <1>1, <1>2, <1>3, AppendProperties
<1>5. Tree' /\ Values'
    BY <1>1, <1>3, <1>4 DEF BuildInv, Tree, Values, Reading
<1> QED
    BY <1>1, <1>5, OutputKept DEF BuildInv, Reading

\* A field joins the last message.
LEMMA MsgFieldKeeps ==
    ASSUME BuildInv, NEW d \in input.flds, MsgField(d)
    PROVE  BuildInv'
<1>1. /\ phase = "message"
      /\ UNCHANGED <<input, phase, pkgName, enums, nextEnumVal, output, layout>>
      /\ msgs' = [msgs EXCEPT ![Len(msgs)].flds = Append(msgs[Len(msgs)].flds, d)]
    BY DEF MsgField
<1>2. msgs \in Seq(MsgDcl) /\ Len(msgs) \in Nat /\ Len(msgs) >= 1
    BY <1>1, LenProperties DEF BuildInv, Tree
<1>3. PICK n \in 1 .. Len(msgs) : n = Len(msgs)
    BY <1>2
<1>4. msgs[n] \in MsgDcl
    BY <1>2, ElementOfSeq
<1>5. d \in FieldDcl
    BY BuildAssumption DEF BuildInv, Tree
<1>6. Append(msgs[n].flds, d) \in Seq(FieldDcl)
    BY <1>4, <1>5, AppendProperties DEF MsgDcl
<1>7. PICK m : m = [msgs[n] EXCEPT !.flds = Append(msgs[n].flds, d)]
    OBVIOUS
<1>8. m \in MsgDcl
    BY <1>4, <1>6, <1>7 DEF MsgDcl
<1>9. msgs' = [msgs EXCEPT ![n] = m]
    BY <1>1, <1>3, <1>7
<1>10. msgs' \in Seq(MsgDcl) /\ Len(msgs') = Len(msgs)
    BY <1>2, <1>8, <1>9, ExceptSeq
<1>11. Tree' /\ Values'
    BY <1>1, <1>2, <1>10 DEF BuildInv, Tree, Values
<1> QED
    BY <1>1, <1>11, OutputKept DEF BuildInv, Reading

\* The end of a declaration, or of the text
LEMMA EndDclKeeps ==
    ASSUME BuildInv, EndDcl \/ EndOfInput
    PROVE  BuildInv'
<1>1. /\ phase \in Reading /\ phase' \in {"dcl_list", "makelookup"}
      /\ UNCHANGED <<input, pkgName, enums, msgs, nextEnumVal, output, layout>>
    BY DEF EndDcl, EndOfInput, tree, Reading
<1>2. Tree' /\ Values'
    BY <1>1, SameTree DEF BuildInv, Tree, Reading
<1> QED
    BY <1>1, <1>2, OutputKept DEF BuildInv, Reading

-----------------------------------------------------------------------------
(* The steps that write the binary schema *)

\* A step that changes the phase, and nothing that was read or laid out.
LEMMA SameLayout ==
    ASSUME LP!Inv, InWork, UNCHANGED <<descs, layout>>
    PROVE  LP!Inv' /\ InWork'
<1>1. UNCHANGED LP!vars
    BY DEF layout, LP!vars
<1>2. LP!Inv'
    BY <1>1, LP!OtherStepsKeep
<1>3. UNCHANGED <<ssize, psize, fields>>
    BY DEF layout
<1> QED
    BY <1>2, <1>3 DEF InWork, Backed, Laid

\* The tree stays as it was when the program exits.
LEMMA DieKeeps ==
    ASSUME BuildInv, Die
    PROVE  BuildInv'
<1>1. /\ phase' = "died"
      /\ UNCHANGED <<input, pkgName, enums, msgs, nextEnumVal, types, bin, descs, layout>>
    BY DEF Die, tree, output
<1>2. Tree' /\ Values'
    BY <1>1, SameTree DEF BuildInv, Tree
<1>3. LP!Inv' /\ InWork'
    BY <1>1, SameLayout DEF BuildInv
<1>4. Output'
    BY <1>1 DEF BuildInv, Output, TypesKnown, EnumsOut, MsgsOut, Reading, Writing
<1> QED
    BY <1>2, <1>3, <1>4 DEF BuildInv

\* The table of types is built from the tree, or the program exits.
LEMMA MakeLookupKeeps ==
    ASSUME BuildInv, MakeLookup
    PROVE  BuildInv'
<1>1. CASE Die
    BY <1>1, DieKeeps
<1>2. CASE ~Die
  <2>1. /\ phase = "makelookup" /\ phase' = "outenums" /\ ~Redefined /\ types' = Table
        /\ UNCHANGED <<input, pkgName, enums, msgs, nextEnumVal, bin, descs, layout>>
      BY <1>2 DEF MakeLookup, tree
  <2>2. Tree' /\ Values'
      BY <2>1, SameTree DEF BuildInv, Tree
  <2>3. LP!Inv' /\ InWork'
      BY <2>1, SameLayout DEF BuildInv
  <2>4. TypesKnown'
    <3>1. Table' = Table /\ Redefined' = Redefined
        BY <2>1, SMTT(40) DEF Table, UserTypes, Declared, Redefined
    <3> QED
        BY <2>1, <3>1 DEF TypesKnown
  <2>5. EnumsOut'
      BY <2>1 DEF BuildInv, Output, EnumsOut, Reading, Writing
  <2>6. MsgsOut'
    <3>1. nmsgs' = nmsgs
        BY <2>1 DEF layout
    <3> QED
        BY <2>1, <3>1 DEF BuildInv, Output, MsgsOut, Reading, Writing
  <2> QED
      BY <2>2, <2>3, <2>4, <2>5, <2>6 DEF BuildInv, Output
<1> QED
    BY <1>1, <1>2

\* outenums copies the names and the values.
LEMMA OutEnumsKeeps ==
    ASSUME BuildInv, OutEnums
    PROVE  BuildInv'
<1> DEFINE Out(e) == [name |-> e.name, vals |-> [j \in DOMAIN e.vals |-> e.vals[j].val]]
<1>1. /\ phase = "outenums" /\ phase' = "outmsgs"
      /\ UNCHANGED <<input, pkgName, enums, msgs, nextEnumVal, types, descs, layout>>
      /\ bin' = [pkgName |-> pkgName,
                 enums |-> [i \in DOMAIN enums |-> Out(enums[i])], msgs |-> <<>>]
    BY DEF OutEnums, tree
<1>2. enums \in Seq(EnumDcl) /\ DOMAIN enums = 1 .. Len(enums) /\ Len(enums) \in Nat
      /\ pkgName \in Package
    BY LenProperties DEF BuildInv, Tree
<1>3. ASSUME NEW e \in EnumDcl
      PROVE  Out(e) \in BinEnum /\ Copied(Out(e), e)
  <2>1. e.name \in STRING /\ e.vals \in Seq(Entry)
      BY <1>3 DEF EnumDcl
  <2>2. PICK vals \in Seq(Entry) : vals = e.vals
      BY <2>1
  <2>3. DOMAIN vals = 1 .. Len(vals) /\ Len(vals) \in Nat
      BY LenProperties
  <2>4. ASSUME NEW j \in 1 .. Len(vals) PROVE vals[j].val \in 0 .. EnumMod - 1
    <3>1. vals[j] \in Entry
        BY ElementOfSeq
    <3> QED
        BY <3>1 DEF Entry
  <2>5. PICK vs : vs = [j \in DOMAIN vals |-> vals[j].val]
      OBVIOUS
  <2>6. vs \in [1 .. Len(vals) -> 0 .. EnumMod - 1]
      BY <2>3, <2>4, <2>5
  <2>7. vs \in Seq(0 .. EnumMod - 1) /\ Len(vs) = Len(vals)
      BY <2>3, <2>6, FunctionIsSeq
  <2>8. Out(e) = [name |-> e.name, vals |-> vs]
      BY <2>2, <2>5
  <2>9. Out(e) \in BinEnum
      BY <2>1, <2>7, <2>8 DEF BinEnum
  <2>10. Copied(Out(e), e)
      BY <2>2, <2>3, <2>5, <2>7, <2>8 DEF Copied
  <2> QED
      BY <2>9, <2>10
<1> HIDE DEF Out
<1>4. PICK es : es = [i \in DOMAIN enums |-> Out(enums[i])]
    OBVIOUS
<1>5. /\ es \in Seq(BinEnum) /\ Len(es) = Len(enums)
      /\ \A i \in 1 .. Len(enums) : Copied(es[i], enums[i])
  <2>1. \A i \in 1 .. Len(enums) : enums[i] \in EnumDcl
      BY <1>2, ElementOfSeq
  <2>2. es \in [1 .. Len(enums) -> BinEnum]
      BY <1>2, <1>3, <1>4, <2>1
  <2>3. \A i \in 1 .. Len(enums) : Copied(es[i], enums[i])
      BY <1>2, <1>3, <1>4, <2>1
  <2> QED
      BY <1>2, <2>2, <2>3, FunctionIsSeq
<1>6. bin' = [pkgName |-> pkgName, enums |-> es, msgs |-> <<>>]
    BY <1>1, <1>4
<1>7. bin' \in Binary /\ bin'.enums = es /\ bin'.msgs = <<>>
    BY <1>2, <1>5, <1>6 DEF Binary
<1>8. Tree' /\ Values'
    BY <1>1, SameTree DEF BuildInv, Tree, Writing
<1>9. LP!Inv' /\ InWork'
    BY <1>1, SameLayout DEF BuildInv
<1>10. TypesKnown'
  <2>1. Table' = Table /\ Redefined' = Redefined
      BY <1>1 DEF Table, UserTypes, Declared, Redefined
  <2> QED
      BY <1>1, <2>1 DEF BuildInv, Output, TypesKnown, Writing
<1>11. EnumsOut'
    BY <1>1, <1>2, <1>5, <1>7 DEF EnumsOut, Reading, Writing
<1>12. MsgsOut'
  <2>1. nmsgs' = 0 /\ descs' = <<>>
      BY <1>1 DEF BuildInv, Output, MsgsOut, layout
  <2>2. Len(msgs') \in Nat
      BY <1>8 DEF Tree
  <2>3. ASSUME 0 < Len(msgs')
        PROVE  Translated(types', <<>>, msgs'[0 + 1].flds)
    <3>1. msgs'[1] \in MsgDcl
        BY <1>8, <2>3, ElementOfSeq DEF Tree
    <3>2. Len(msgs'[1].flds) \in Nat
        BY <3>1 DEF MsgDcl
    <3> QED
        BY <3>2 DEF Translated
  <2> QED
      BY <1>1, <1>7, <2>1, <2>2, <2>3 DEF MsgsOut, Reading, Writing
<1> QED
    BY <1>8, <1>9, <1>10, <1>11, <1>12 DEF BuildInv, Output

\* All messages are written.
LEMMA FinishKeeps ==
    ASSUME BuildInv, Finish
    PROVE  BuildInv'
<1>1. /\ phase = "outmsgs" /\ phase' = "out" /\ nmsgs = Len(msgs)
      /\ UNCHANGED <<input, pkgName, enums, msgs, nextEnumVal, types, bin, descs, layout>>
    BY DEF Finish, tree, output
<1>2. Tree' /\ Values'
    BY <1>1, SameTree DEF BuildInv, Tree, Writing
<1>3. LP!Inv' /\ InWork' /\ nmsgs' = nmsgs
    BY <1>1, SameLayout DEF BuildInv, layout
<1>4. TypesKnown'
  <2>1. Table' = Table /\ Redefined' = Redefined
      BY <1>1 DEF Table, UserTypes, Declared, Redefined
  <2> QED
      BY <1>1, <2>1 DEF BuildInv, Output, TypesKnown, Writing
<1>5. EnumsOut' /\ MsgsOut'
    BY <1>1, <1>3 DEF BuildInv, Output, EnumsOut, MsgsOut, Reading, Writing
<1> QED
    BY <1>2, <1>3, <1>4, <1>5 DEF BuildInv, Output

\* What outmsgs writes for a scalar is the place that the layout gave it.
LEMMA ScalarDesc ==
    ASSUME LP!Inv, NEW ent \in Ent, IsScalar(ent.kind), Layout!AddScalar(ent.size),
           NEW d, d = [list |-> FALSE, kind |-> ent.kind,
                       tag0 |-> Tag0(ent, FALSE), tag1 |-> Tag1(ent)]
    PROVE  /\ d \in Desc /\ InScalars(d)
           /\ fields' = Append(fields, [lo |-> FirstBit(d), hi |-> FirstBit(d) + Width(d)])
           /\ Last(fields').lo = FirstBit(d)
           /\ IF d.kind = "BOOL" THEN ent.size = 0 ELSE ent.size \in {1, 2, 4, 8}
           /\ d.kind \notin {"BOOL", "ENUM"} => d.tag1 = ent.size
           /\ d.kind = "ENUM" => ent.size = 2
           /\ psize' = psize /\ nmsgs' = nmsgs /\ LP!Inv'
<1>1. /\ ent.kind \in Kinds /\ ent.size \in {0, 1, 2, 4, 8} /\ ent.id \in Nat
      /\ ent.kind = "BOOL" => ent.size = 0
      /\ ent.kind \in {"INT", "UINT", "FLOAT", "ENUM"} => ent.size # 0
      /\ ent.kind = "ENUM" => ent.size = 2
    BY DEF Ent
<1>2. ent.kind \in {"ENUM", "BOOL", "INT", "UINT", "FLOAT"}
    BY DEF IsScalar
<1>3. /\ LP!Inv' /\ psize' = psize /\ nmsgs' = nmsgs
      /\ \/ /\ ent.size = 0
            /\ \E lo \in Nat : fields' = Append(fields, [lo |-> lo, hi |-> lo + 1])
         \/ /\ ent.size # 0
            /\ \E b \in Nat :
                 fields' = Append(fields, [lo |-> 8 * b, hi |-> 8 * b + 8 * ent.size])
    BY <1>1, ScalarStep
<1>4. fields \in Seq([lo : Nat, hi : Nat])
    BY ScalarsKept
<1>5. ASSUME NEW lo \in Nat, NEW hi \in Nat, fields' = Append(fields, [lo |-> lo, hi |-> hi])
      PROVE  Last(fields').lo = lo
  <2>1. PICK f : f = [lo |-> lo, hi |-> hi]
      OBVIOUS
  <2>2. f \in [lo : Nat, hi : Nat] /\ f.lo = lo
      BY <2>1
  <2>3. Len(fields') = Len(fields) + 1 /\ fields'[Len(fields) + 1] = f
      BY <1>4, <1>5, <2>1, <2>2, AppendProperties
  <2> QED
      BY <2>2, <2>3 DEF Last
<1>7. /\ d.list = FALSE /\ d.kind = ent.kind /\ d.tag0 = Tag0(ent, FALSE)
      /\ d.tag1 = Tag1(ent) /\ InScalars(d)
    BY DEF InScalars
<1>8. /\ Tag1(ent) \in Nat
      /\ ent.kind \in {"INT", "UINT", "FLOAT"} => Tag1(ent) = ent.size
    BY <1>1 DEF Tag1
<1>9. CASE ent.size = 0
  <2>1. PICK lo \in Nat : fields' = Append(fields, [lo |-> lo, hi |-> lo + 1])
      BY <1>3, <1>9
  <2>2. Last(fields').lo = lo /\ lo + 1 \in Nat
      BY <1>5, <2>1
  <2>3. ent.kind = "BOOL"
      BY <1>1, <1>2, <1>9
  <2>4. Tag0(ent, FALSE) = lo
      BY <2>2, <2>3 DEF Tag0, IsScalar
  <2>5. d \in Desc
      BY <1>1, <1>8, <2>4 DEF Desc
  <2>6. FirstBit(d) = lo /\ Width(d) = 1
      BY <1>7, <2>3, <2>4 DEF FirstBit, Width
  <2>7. fields' = Append(fields, [lo |-> FirstBit(d), hi |-> FirstBit(d) + Width(d)])
      BY <2>1, <2>6
  <2> QED
      BY <1>1, <1>3, <1>7, <1>8, <1>9, <2>2, <2>3, <2>5, <2>6, <2>7
<1>10. CASE ent.size # 0
  <2>1. PICK b \in Nat : fields' = Append(fields, [lo |-> 8 * b, hi |-> 8 * b + 8 * ent.size])
      BY <1>3, <1>10
  <2>2. Last(fields').lo = 8 * b
    <3>1. 8 * b \in Nat /\ 8 * b + 8 * ent.size \in Nat
        BY <1>1
    <3> QED
        BY <1>5, <2>1, <3>1
  <2>3. ent.kind \in {"ENUM", "INT", "UINT", "FLOAT"} /\ ent.kind # "BOOL"
      BY <1>1, <1>2, <1>10
  <2>4. Tag0(ent, FALSE) = b
      BY <2>2, <2>3 DEF Tag0, IsScalar
  <2>5. d \in Desc
      BY <1>1, <1>8, <2>4 DEF Desc
  <2>6. FirstBit(d) = 8 * b /\ Width(d) = 8 * ent.size
    <3>1. FirstBit(d) = 8 * b
        BY <1>7, <2>3, <2>4 DEF FirstBit
    <3>2. CASE ent.kind = "ENUM"
      <4>1. ent.size = 2 /\ d.kind = "ENUM"
          BY <1>1, <1>7, <3>2
      <4>2. Width(d) = 16
          BY <4>1 DEF Width
      <4> QED
          BY <3>1, <4>1, <4>2
    <3>3. CASE ent.kind # "ENUM"
      <4>1. d.tag1 = ent.size /\ d.kind # "ENUM" /\ d.kind # "BOOL"
          BY <1>7, <1>8, <2>3, <3>3
      <4>2. Width(d) = 8 * d.tag1
          BY <4>1 DEF Width
      <4> QED
          BY <3>1, <4>1, <4>2
    <3> QED
        BY <3>1, <3>2, <3>3
  <2>7. fields' = Append(fields, [lo |-> FirstBit(d), hi |-> FirstBit(d) + Width(d)])
      BY <2>1, <2>6
  <2>8. /\ ent.size \in {1, 2, 4, 8} /\ d.kind # "BOOL"
        /\ d.kind \notin {"BOOL", "ENUM"} => d.tag1 = ent.size
        /\ d.kind = "ENUM" => ent.size = 2
      BY <1>1, <1>7, <1>8, <1>10, <2>3
  <2> QED
      BY <1>3, <1>7, <2>2, <2>5, <2>6, <2>7, <2>8
<1> QED
    BY <1>9, <1>10

\* OutField for a scalar
LEMMA ScalarField ==
    ASSUME LP!Inv, InWork, NEW ent \in Ent, IsScalar(ent.kind), Layout!AddScalar(ent.size),
           descs' = Append(descs, [list |-> FALSE, kind |-> ent.kind,
                                   tag0 |-> Tag0(ent, FALSE), tag1 |-> Tag1(ent)])
    PROVE  LP!Inv' /\ InWork' /\ nmsgs' = nmsgs
<1>1. PICK d : d = [list |-> FALSE, kind |-> ent.kind,
                    tag0 |-> Tag0(ent, FALSE), tag1 |-> Tag1(ent)]
    OBVIOUS
<1>2. /\ d \in Desc /\ InScalars(d) /\ psize' = psize /\ nmsgs' = nmsgs /\ LP!Inv'
      /\ fields' = Append(fields, [lo |-> FirstBit(d), hi |-> FirstBit(d) + Width(d)])
    BY <1>1, ScalarDesc
<1> QED
    BY <1>1, <1>2, ScalarAppended

\* Every other field has the next pointer.
LEMMA PointerField ==
    ASSUME LP!Inv, InWork, NEW ent \in Ent, NEW list \in BOOLEAN, ~IsScalar(ent.kind) \/ list,
           Layout!AddPointer,
           descs' = Append(descs, [list |-> list, kind |-> ent.kind,
                                   tag0 |-> Tag0(ent, list), tag1 |-> Tag1(ent)])
    PROVE  LP!Inv' /\ InWork' /\ nmsgs' = nmsgs
<1>1. LP!Inv' /\ psize' = psize + 1 /\ UNCHANGED <<fields, ssize, nmsgs>>
    BY PointerStep
<1>2. PICK d : d = [list |-> list, kind |-> ent.kind,
                    tag0 |-> Tag0(ent, list), tag1 |-> Tag1(ent)]
    OBVIOUS
<1>3. Tag0(ent, list) = psize /\ psize \in Nat
    BY ScalarsKept DEF Tag0
<1>4. Tag1(ent) \in Nat /\ ent.kind \in Kinds
    BY DEF Tag1, Ent
<1>5. d \in Desc /\ d.tag0 = psize /\ ~InScalars(d)
    BY <1>2, <1>3, <1>4 DEF Desc, InScalars
<1> QED
    BY <1>1, <1>2, <1>5, PointerAppended

\* OutField, for each way of placing the field
LEMMA OutFieldKeeps ==
    ASSUME BuildInv, OutField
    PROVE  BuildInv'
<1>1. CASE Die
    BY <1>1, DieKeeps
<1>2. CASE ~Die
  <2>1. PICK k, n, d : k = nmsgs + 1 /\ n = Len(descs) /\ d = msgs[k].flds[n + 1]
      OBVIOUS
  <2>2. /\ phase = "outmsgs" /\ nmsgs < Len(msgs) /\ n < Len(msgs[k].flds)
        /\ d.tname \in DOMAIN types
        /\ UNCHANGED <<input, phase, pkgName, enums, msgs, nextEnumVal, types, bin>>
      BY <1>2, <2>1 DEF OutField, tree
  <2>3. PICK ent : ent = types[d.tname]
      OBVIOUS
  <2>4. PICK new : new = [list |-> d.list, kind |-> ent.kind,
                          tag0 |-> Tag0(ent, d.list), tag1 |-> Tag1(ent)]
      OBVIOUS
  <2>5. /\ IsScalar(ent.kind) /\ ~d.list => Layout!AddScalar(ent.size)
        /\ ~(IsScalar(ent.kind) /\ ~d.list) => Layout!AddPointer
        /\ descs' = Append(descs, new)
      BY <1>2, <2>1, <2>3, <2>4 DEF OutField
  <2>6. ent \in Ent
    <3>1. types = Table /\ ~Redefined /\ enums \in Seq(EnumDcl) /\ msgs \in Seq(MsgDcl)
        BY <2>2 DEF BuildInv, Output, TypesKnown, Writing, Tree
    <3> QED
        BY <2>2, <2>3, <3>1, TableTyped
  <2>7. nmsgs \in Nat /\ descs \in Seq(Desc) /\ n \in Nat
      BY <2>1, ScalarsKept, LenProperties DEF BuildInv, InWork
  <2>8. k \in 1 .. Len(msgs) /\ msgs \in Seq(MsgDcl) /\ Len(msgs) \in Nat
      BY <2>1, <2>2, <2>7, LenProperties DEF BuildInv, Tree
  <2>9. msgs[k].flds \in Seq(FieldDcl) /\ Len(msgs[k].flds) \in Nat
    <3>1. msgs[k] \in MsgDcl
        BY <2>8, ElementOfSeq
    <3> QED
        BY <3>1, LenProperties DEF MsgDcl
  <2>10. d.list \in BOOLEAN
    <3>1. d \in FieldDcl
        BY <2>1, <2>2, <2>7, <2>9, ElementOfSeq
    <3> QED
        BY <3>1 DEF FieldDcl
  <2>11. LP!Inv' /\ InWork' /\ nmsgs' = nmsgs
    <3>1. CASE IsScalar(ent.kind) /\ ~d.list
      <4>1. d.list = FALSE
          BY <2>10, <3>1
      <4> QED
          BY <2>4, <2>5, <2>6, <3>1, <4>1, ScalarField DEF BuildInv
    <3>2. CASE ~(IsScalar(ent.kind) /\ ~d.list)
        BY <2>4, <2>5, <2>6, <2>10, <3>2, PointerField DEF BuildInv
    <3> QED
        BY <3>1, <3>2
  <2>12. Translated(types, descs', msgs[k].flds)
    <3>1. Translated(types, descs, msgs[k].flds)
        BY <2>1, <2>2 DEF BuildInv, Output, MsgsOut, Writing
    <3>2. /\ Len(descs') = n + 1 /\ descs'[n + 1] = new
          /\ \A i \in 1 .. n : descs'[i] = descs[i]
        BY <2>1, <2>5, <2>7
    <3>3. Resolved(types, new, d)
        BY <2>2, <2>3, <2>4 DEF Resolved
    <3>4. ASSUME NEW i \in 1 .. n + 1 PROVE Resolved(types, descs'[i], msgs[k].flds[i])
      <4>1. CASE i \in 1 .. n
          BY <2>1, <3>1, <3>2, <4>1 DEF Translated
      <4>2. CASE i = n + 1
          BY <2>1, <3>2, <3>3, <4>2
      <4> QED
          BY <2>7, <4>1, <4>2
    <3> QED
        BY <2>2, <2>7, <2>9, <3>2, <3>4 DEF Translated
  <2>13. Tree' /\ Values'
      BY <2>2, SameTree DEF BuildInv, Tree
  <2>14. TypesKnown'
    <3>1. Table' = Table /\ Redefined' = Redefined
        BY <2>2 DEF Table, UserTypes, Declared, Redefined
    <3> QED
        BY <2>2, <3>1 DEF BuildInv, Output, TypesKnown, Writing
  <2>15. EnumsOut'
      BY <2>2 DEF BuildInv, Output, EnumsOut
  <2>16. MsgsOut'
      BY <2>1, <2>2, <2>11, <2>12 DEF BuildInv, Output, MsgsOut, Reading, Writing
  <2> QED
      BY <2>11, <2>13, <2>14, <2>15, <2>16 DEF BuildInv, Output
<1> QED
    BY <1>1, <1>2

\* A message is finished: its fields lie inside its final size.
LEMMA OutMsgKeeps ==
    ASSUME BuildInv, OutMsg
    PROVE  BuildInv'
<1>1. PICK k : k = nmsgs + 1
    OBVIOUS
<1>2. /\ phase = "outmsgs" /\ nmsgs < Len(msgs) /\ Len(descs) = Len(msgs[k].flds)
      /\ Layout!EndMessage /\ descs' = <<>>
      /\ UNCHANGED <<input, phase, pkgName, enums, msgs, nextEnumVal, types>>
    BY <1>1 DEF OutMsg, tree
<1>3. PICK b : b = [name |-> msgs[k].name, flds |-> descs,
                    ssize |-> done'.ssize, psize |-> done'.psize]
    OBVIOUS
<1>4. bin' = [bin EXCEPT !.msgs = Append(bin.msgs, b)]
    BY <1>1, <1>3 DEF OutMsg
<1>5. /\ LP!Inv' /\ nmsgs' = nmsgs + 1
      /\ done'.ssize \in Nat /\ done'.ssize >= ssize /\ done'.psize = psize
    BY <1>2, MessageStep DEF BuildInv
<1>6. nmsgs \in Nat /\ ssize \in Nat /\ psize \in Nat
    BY ScalarsKept DEF BuildInv
<1>7. k \in 1 .. Len(msgs) /\ msgs \in Seq(MsgDcl) /\ Len(msgs) \in Nat
    BY <1>1, <1>2, <1>6, LenProperties DEF BuildInv, Tree
<1>8. msgs[k] \in MsgDcl
    BY <1>7, ElementOfSeq
<1>9. b \in BinMsg
    BY <1>3, <1>5, <1>6, <1>8 DEF BinMsg, MsgDcl, BuildInv, InWork
<1>10. Finished(types, b, msgs[k])
  <2>1. b.name = msgs[k].name /\ b.flds = descs /\ b.ssize = done'.ssize /\ b.psize = psize
      BY <1>3, <1>5
  <2>2. Translated(types, descs, msgs[k].flds)
      BY <1>1, <1>2 DEF BuildInv, Output, MsgsOut, Writing
  <2>3. Laid(descs, done'.ssize, psize)
    <3>1. ASSUME NEW i \in 1 .. Len(descs) PROVE Inside(descs[i], done'.ssize, psize)
      <4>1. Inside(descs[i], ssize, psize)
          BY DEF BuildInv, InWork, Laid
      <4>2. descs[i] \in Desc
          BY ElementOfSeq DEF BuildInv, InWork
      <4>3. FirstBit(descs[i]) \in Nat /\ Width(descs[i]) \in Nat
          BY <4>2, DescNumbers
      <4> QED
          BY <1>5, <1>6, <4>1, <4>3 DEF Inside
    <3> QED
        BY <3>1 DEF Laid, BuildInv, InWork
  <2> QED
      BY <1>2, <2>1, <2>2, <2>3 DEF Finished
<1>11. bin \in Binary /\ nmsgs = Len(bin.msgs)
    BY <1>2 DEF BuildInv, Output, EnumsOut, MsgsOut, Writing
<1>12. bin.msgs \in Seq(BinMsg)
    BY <1>11 DEF Binary
<1>13. PICK ms : ms = Append(bin.msgs, b)
    OBVIOUS
<1>14. /\ ms \in Seq(BinMsg) /\ Len(ms) = nmsgs + 1 /\ ms[nmsgs + 1] = b
       /\ \A i \in 1 .. nmsgs : ms[i] = bin.msgs[i]
    BY <1>9, <1>11, <1>12, <1>13, AppendProperties
<1>15. /\ bin' \in Binary /\ bin'.msgs = ms /\ bin'.enums = bin.enums
    BY <1>4, <1>11, <1>13, <1>14 DEF Binary
<1>16. InWork'
  <2>1. (descs = <<>>)'
      BY <1>2
  <2> QED
      BY <2>1, EmptyWork, PTL
<1>17. Tree' /\ Values'
    BY <1>2, SameTree DEF BuildInv, Tree
<1>18. TypesKnown'
  <2>1. Table' = Table /\ Redefined' = Redefined
      BY <1>2 DEF Table, UserTypes, Declared, Redefined
  <2> QED
      BY <1>2, <2>1 DEF BuildInv, Output, TypesKnown, Writing
<1>19. EnumsOut'
    BY <1>2, <1>15 DEF BuildInv, Output, EnumsOut, Reading, Writing
<1>20. MsgsOut'
  <2>1. ASSUME NEW i \in 1 .. nmsgs + 1 PROVE Finished(types, ms[i], msgs[i])
    <3>1. CASE i \in 1 .. nmsgs
        BY <1>2, <1>14, <3>1 DEF BuildInv, Output, MsgsOut, Writing
    <3>2. CASE i = nmsgs + 1
        BY <1>1, <1>10, <1>14, <3>2
    <3> QED
        BY <1>6, <3>1, <3>2
  <2>2. ASSUME nmsgs + 1 < Len(msgs)
        PROVE  Translated(types, <<>>, msgs[nmsgs + 1 + 1].flds)
    <3>1. msgs[nmsgs + 1 + 1] \in MsgDcl
        BY <1>6, <1>7, <2>2, ElementOfSeq
    <3>2. Len(msgs[nmsgs + 1 + 1].flds) \in Nat
        BY <3>1 DEF MsgDcl
    <3> QED
        BY <3>2 DEF Translated
  <2>3. nmsgs + 1 <= Len(msgs)
      BY <1>1, <1>7
  <2> QED
      BY <1>2, <1>5, <1>14, <1>15, <2>1, <2>2, <2>3 DEF MsgsOut, Reading, Writing
<1> QED
    BY <1>5, <1>16, <1>17, <1>18, <1>19, <1>20 DEF BuildInv, Output

-----------------------------------------------------------------------------
(* The finished schema *)

\* The messages of the finished schema and their texts
LEMMA FinishedSchema ==
    ASSUME BuildInv, phase = "out"
    PROVE  /\ Len(msgs) \in Nat /\ Len(enums) \in Nat /\ bin \in Binary
           /\ Len(bin.msgs) = Len(msgs) /\ Len(bin.enums) = Len(enums)
           /\ \A k \in 1 .. Len(msgs) : Finished(Table, bin.msgs[k], msgs[k])
           /\ \A i \in 1 .. Len(enums) : Copied(bin.enums[i], enums[i])
           /\ \A k \in 1 .. Len(msgs) :
                bin.msgs[k] \in BinMsg /\ msgs[k] \in MsgDcl
           /\ \A i \in 1 .. Len(enums) : bin.enums[i] \in BinEnum
<1>1. enums \in Seq(EnumDcl) /\ msgs \in Seq(MsgDcl) /\ bin \in Binary
    BY DEF BuildInv, Tree, Output, EnumsOut
<1>2. bin.enums \in Seq(BinEnum) /\ bin.msgs \in Seq(BinMsg)
    BY <1>1 DEF Binary
<1>3. Len(enums) \in Nat /\ Len(msgs) \in Nat
    BY <1>1, LenProperties
<1>4. /\ Len(bin.msgs) = Len(msgs) /\ Len(bin.enums) = Len(enums)
      /\ \A k \in 1 .. Len(msgs) : Finished(Table, bin.msgs[k], msgs[k])
      /\ \A i \in 1 .. Len(enums) : Copied(bin.enums[i], enums[i])
    BY DEF BuildInv, Output, TypesKnown, EnumsOut, MsgsOut, Writing
<1>5. \A k \in 1 .. Len(msgs) : bin.msgs[k] \in BinMsg /\ msgs[k] \in MsgDcl
    BY <1>1, <1>2, <1>4, ElementOfSeq
<1>6. \A i \in 1 .. Len(enums) : bin.enums[i] \in BinEnum
    BY <1>2, <1>4, ElementOfSeq
<1> QED
    BY <1>1, <1>3, <1>4, <1>5, <1>6

\* A field's type is printed as the text names it, and the id of a message
\* type is its place among the messages.
LEMMA NamesResolve ==
    ASSUME BuildInv, phase = "out", NEW d, NEW f \in FieldDcl, Resolved(Table, d, f)
    PROVE  /\ TypeStr(bin, d) = f.tname /\ d.list = f.list
           /\ d.kind = "PTR" => \E p \in 1 .. Len(msgs) :
                                   d.tag1 = p - 1 /\ f.tname = msgs[p].name
<1>1. /\ f.tname \in DOMAIN Table /\ d.list = f.list
      /\ d.kind = Table[f.tname].kind /\ d.tag1 = Tag1(Table[f.tname])
    BY DEF Resolved
<1>2. enums \in Seq(EnumDcl) /\ msgs \in Seq(MsgDcl) /\ ~Redefined
    BY DEF BuildInv, Tree, Output, TypesKnown, Writing
<1>3. CASE f.tname \in DOMAIN BuiltIn
  <2>1. Table[f.tname] = BuiltIn[f.tname]
      BY <1>2, <1>3, TableSays
  <2>2. BuiltIn[f.tname].kind \in Kinds \ {"ENUM", "PTR"}
      BY <1>3, BuiltInTypes
  <2>3. d.kind = BuiltIn[f.tname].kind /\ d.tag1 = BuiltIn[f.tname].size /\ d.kind # "PTR"
      BY <1>1, <2>1, <2>2 DEF Tag1
  <2>4. TypeStr(bin, d) = f.tname
      BY <1>3, <2>3, BuiltInTypes
  <2> QED
      BY <1>1, <2>3, <2>4
<1>4. CASE \E i \in 1 .. Len(enums) : f.tname = enums[i].name
  <2>1. PICK i \in 1 .. Len(enums) : f.tname = enums[i].name
      BY <1>4
  <2>2. Table[f.tname] = Type("ENUM", 2, i - 1)
      BY <1>2, <2>1, TableSays
  <2>3. d.kind = "ENUM" /\ d.tag1 = i - 1
      BY <1>1, <2>2 DEF Type, Tag1
  <2>4. TypeStr(bin, d) = NameOf(bin.enums, i - 1)
      BY <2>3, TypeStrs
  <2>5. Len(bin.enums) = Len(enums) /\ Len(enums) \in Nat /\ bin.enums[i].name = enums[i].name
      BY FinishedSchema DEF Copied
  <2>6. NameOf(bin.enums, i - 1) = bin.enums[i].name
    <3>1. i - 1 < Len(bin.enums) /\ (i - 1) + 1 = i
        BY <2>5
    <3> QED
        BY <3>1 DEF NameOf
  <2> QED
      BY <1>1, <2>1, <2>3, <2>4, <2>5, <2>6
<1>5. CASE \E p \in 1 .. Len(msgs) : f.tname = msgs[p].name
  <2>1. PICK p \in 1 .. Len(msgs) : f.tname = msgs[p].name
      BY <1>5
  <2>2. Table[f.tname] = Type("PTR", 4, p - 1)
      BY <1>2, <2>1, TableSays
  <2>3. d.kind = "PTR" /\ d.tag1 = p - 1
      BY <1>1, <2>2 DEF Type, Tag1
  <2>4. TypeStr(bin, d) = NameOf(bin.msgs, p - 1)
      BY <2>3, TypeStrs
  <2>5. Len(bin.msgs) = Len(msgs) /\ Len(msgs) \in Nat /\ bin.msgs[p].name = msgs[p].name
      BY FinishedSchema DEF Finished
  <2>6. NameOf(bin.msgs, p - 1) = bin.msgs[p].name
    <3>1. p - 1 < Len(bin.msgs) /\ (p - 1) + 1 = p
        BY <2>5
    <3> QED
        BY <3>1 DEF NameOf
  <2> QED
      BY <1>1, <2>1, <2>3, <2>4, <2>5, <2>6
<1> QED
    BY <1>1, <1>2, <1>3, <1>4, <1>5, TableSays

\* The fields of a finished message are those of its text.
LEMMA FieldsResolve ==
    ASSUME BuildInv, phase = "out", NEW k \in 1 .. Len(msgs)
    PROVE  /\ Len(bin.msgs[k].flds) = Len(msgs[k].flds) /\ Len(msgs[k].flds) \in Nat
           /\ \A i \in 1 .. Len(msgs[k].flds) :
                /\ msgs[k].flds[i] \in FieldDcl
                /\ Resolved(Table, bin.msgs[k].flds[i], msgs[k].flds[i])
<1>1. Finished(Table, bin.msgs[k], msgs[k]) /\ msgs[k] \in MsgDcl
    BY FinishedSchema
<1>2. msgs[k].flds \in Seq(FieldDcl)
    BY <1>1 DEF MsgDcl
<1>3. Len(msgs[k].flds) \in Nat /\ \A i \in 1 .. Len(msgs[k].flds) : msgs[k].flds[i] \in FieldDcl
    BY <1>2, LenProperties, ElementOfSeq
<1> QED
    BY <1>1, <1>3 DEF Finished, Translated

\* An enum that is printed gives every name its value again.
LEMMA EnumPrinted ==
    ASSUME NEW e \in BinEnum
    PROVE  /\ PrintEnum(e) \in EnumDcl /\ PrintEnum(e).name = e.name
           /\ Counted(PrintEnum(e).vals)
<1>0. EnumMod \in Nat \ {0} /\ Default \notin Int
    BY BuildAssumption
<1>1. PICK vals : vals = e.vals
    OBVIOUS
<1>2. vals \in Seq(0 .. EnumMod - 1) /\ e.name \in STRING
    BY <1>1 DEF BinEnum
<1>3. DOMAIN vals = 1 .. Len(vals) /\ Len(vals) \in Nat
    BY <1>2, LenProperties
<1>4. PICK vs : vs = [j \in DOMAIN vals |-> [eq |-> vals[j], val |-> vals[j] % EnumMod]]
    OBVIOUS
<1>5. PrintEnum(e) = [name |-> e.name, vals |-> vs]
    BY <1>1, <1>4 DEF PrintEnum
<1>6. ASSUME NEW j \in 1 .. Len(vals)
      PROVE  /\ vs[j] \in Entry /\ vs[j].eq = vals[j] /\ vs[j].val = vals[j] % EnumMod
             /\ vals[j] \in Int
  <2>1. vals[j] \in 0 .. EnumMod - 1
      BY <1>2, <1>3, ElementOfSeq
  <2>2. PICK x \in Int : x = vals[j]
      BY <2>1
  <2>3. x % EnumMod \in 0 .. EnumMod - 1
      BY <1>0, ModRange
  <2>4. vs[j] = [eq |-> x, val |-> x % EnumMod]
      BY <1>3, <1>4, <2>2
  <2> QED
      BY <2>2, <2>3, <2>4 DEF Entry
<1>7. vs \in [1 .. Len(vals) -> Entry]
    BY <1>3, <1>4, <1>6
<1>8. vs \in Seq(Entry) /\ Len(vs) = Len(vals)
    BY <1>3, <1>7, FunctionIsSeq
<1>9. ASSUME NEW j \in 1 .. Len(vs)
      PROVE  \E k \in 0 .. j : Gives(vs, k, j) /\ vs[j].val = CountsTo(vs, k, j) % EnumMod
  <2>1. vs[j].eq = vals[j] /\ vs[j].val = vals[j] % EnumMod /\ vals[j] \in Int
      BY <1>6, <1>8
  <2>2. Gives(vs, j, j)
      BY <1>0, <1>3, <1>8, <2>1 DEF Gives
  <2>3. CountsTo(vs, j, j) = vals[j]
      BY <1>3, <1>8, <2>1 DEF CountsTo
  <2>4. j \in 0 .. j
      BY <1>3, <1>8
  <2> QED
      BY <2>1, <2>2, <2>3, <2>4
<1>10. Counted(vs)
    BY <1>9 DEF Counted
<1> QED
    BY <1>2, <1>5, <1>8, <1>10 DEF EnumDcl

\* A message that is printed is the text it came from.
LEMMA MessagePrinted ==
    ASSUME BuildInv, phase = "out", NEW k \in 1 .. Len(msgs)
    PROVE  PrintMsgType(bin, bin.msgs[k]) = msgs[k]
<1>1. PICK b, m : b = bin.msgs[k] /\ m = msgs[k]
    OBVIOUS
<1>2. b \in BinMsg /\ m \in MsgDcl /\ b.name = m.name
    BY <1>1, FinishedSchema DEF Finished
<1>3. /\ b.flds \in Seq(Desc) /\ m.flds \in Seq(FieldDcl)
      /\ m = [name |-> m.name, flds |-> m.flds]
    BY <1>2 DEF BinMsg, MsgDcl
<1>4. /\ Len(b.flds) = Len(m.flds)
      /\ \A i \in 1 .. Len(m.flds) :
            m.flds[i] \in FieldDcl /\ Resolved(Table, b.flds[i], m.flds[i])
    BY <1>1, FieldsResolve
<1>5. DOMAIN b.flds = 1 .. Len(m.flds) /\ DOMAIN m.flds = 1 .. Len(m.flds)
    BY <1>3, <1>4, LenProperties
<1>6. ASSUME NEW i \in 1 .. Len(m.flds)
      PROVE  [tname |-> TypeStr(bin, b.flds[i]), list |-> b.flds[i].list] = m.flds[i]
  <2>1. m.flds[i] \in FieldDcl /\ Resolved(Table, b.flds[i], m.flds[i])
      BY <1>4
  <2>2. TypeStr(bin, b.flds[i]) = m.flds[i].tname /\ b.flds[i].list = m.flds[i].list
      BY <2>1, NamesResolve
  <2> QED
      BY <2>1, <2>2 DEF FieldDcl
<1>7. PICK fs : fs = [i \in DOMAIN b.flds |->
                        [tname |-> TypeStr(bin, b.flds[i]), list |-> b.flds[i].list]]
    OBVIOUS
<1>8. fs = m.flds
  <2>1. DOMAIN fs = DOMAIN m.flds /\ \A i \in DOMAIN fs : fs[i] = m.flds[i]
      BY <1>5, <1>6, <1>7
  <2>2. fs = [i \in DOMAIN fs |-> fs[i]] /\ m.flds = [i \in DOMAIN m.flds |-> m.flds[i]]
      BY <1>3, <1>7
  <2> QED
      BY <2>1, <2>2
<1>9. PrintMsgType(bin, b) = [name |-> b.name, flds |-> fs]
    BY <1>7 DEF PrintMsgType
<1> QED
    BY <1>1, <1>2, <1>3, <1>8, <1>9

\* What the compiler starts with
LEMMA EmptyBinary ==
    EmptySchema \in Binary /\ EmptySchema.enums = <<>> /\ EmptySchema.msgs = <<>>
<1>1. "" \in Package
    BY DEF Package
<1>2. <<>> \in Seq(BinEnum) /\ <<>> \in Seq(BinMsg)
    OBVIOUS
<1> QED
    BY <1>1, <1>2 DEF EmptySchema, Binary

\* The layout of no message
LEMMA EmptyLayout == LP!Init => LP!Inv
BY LP!InitialLayout

\* The text that is printed is the tree again, and the output starts afresh.
LEMMA PrintSchemaKeeps ==
    ASSUME BuildInv, PrintSchema
    PROVE  BuildInv'
<1>1. /\ phase = "out" /\ phase' = "makelookup" /\ pkgName' = bin.pkgName
      /\ enums' = [i \in DOMAIN bin.enums |-> PrintEnum(bin.enums[i])]
      /\ msgs' = [i \in DOMAIN bin.msgs |-> PrintMsgType(bin, bin.msgs[i])]
      /\ bin' = EmptySchema /\ descs' = <<>> /\ nmsgs' = 0
      /\ UNCHANGED <<input, nextEnumVal>>
    BY DEF PrintSchema
<1>2. /\ Len(msgs) \in Nat /\ Len(enums) \in Nat /\ bin \in Binary
      /\ Len(bin.msgs) = Len(msgs) /\ Len(bin.enums) = Len(enums)
      /\ \A k \in 1 .. Len(msgs) : msgs[k] \in MsgDcl
      /\ \A i \in 1 .. Len(enums) : bin.enums[i] \in BinEnum
    BY <1>1, FinishedSchema
<1>3. bin.pkgName \in Package /\ bin.enums \in Seq(BinEnum) /\ bin.msgs \in Seq(BinMsg)
    BY <1>2 DEF Binary
<1>4. DOMAIN bin.enums = 1 .. Len(enums) /\ DOMAIN bin.msgs = 1 .. Len(msgs)
    BY <1>2, <1>3, LenProperties
<1>5. \A i \in 1 .. Len(enums) : enums'[i] \in EnumDcl /\ Counted(enums'[i].vals)
    BY <1>1, <1>2, <1>4, EnumPrinted
<1>6. enums' \in Seq(EnumDcl) /\ Len(enums') = Len(enums)
  <2>1. enums' \in [1 .. Len(enums) -> EnumDcl]
      BY <1>1, <1>4, <1>5
  <2> QED
      BY <1>2, <2>1, FunctionIsSeq
<1>7. msgs' \in Seq(MsgDcl)
  <2>1. \A k \in 1 .. Len(msgs) : PrintMsgType(bin, bin.msgs[k]) \in MsgDcl
      BY <1>1, <1>2, MessagePrinted
  <2>2. msgs' \in [1 .. Len(msgs) -> MsgDcl]
      BY <1>1, <1>4, <2>1
  <2> QED
      BY <1>2, <2>2, FunctionIsSeq
<1>8. Tree' /\ Values'
    BY <1>1, <1>3, <1>5, <1>6, <1>7 DEF BuildInv, Tree, Values, Reading
<1>9. LP!Inv'
  <2>1. LP!Init'
      BY DEF PrintSchema, LP!Init, LP!NoMessage, Layout!NoMessage
  <2> QED
      BY <2>1, EmptyLayout, PTL
<1>10. InWork'
  <2>1. (descs = <<>>)'
      BY <1>1
  <2> QED
      BY <2>1, EmptyWork, PTL
<1>11. EnumsOut'
  <2>1. bin' \in Binary /\ bin'.enums = <<>> /\ bin'.msgs = <<>>
      BY <1>1, EmptyBinary
  <2> QED
      BY <1>1, <1>2, <1>6, <2>1 DEF EnumsOut, Reading, Writing
<1>12. MsgsOut' /\ TypesKnown'
    BY <1>1 DEF MsgsOut, TypesKnown, Reading, Writing
<1> QED
    BY <1>8, <1>9, <1>10, <1>11, <1>12 DEF BuildInv, Output

-----------------------------------------------------------------------------
(* The theorems *)

\* Before the text is read
LEMMA InitialBuild == Init => BuildInv
<1> HAVE Init
<1>1. LP!Inv
  <2>1. LP!Init
      BY DEF Init, Layout!Init, LP!Init, LP!NoMessage, Layout!NoMessage
  <2> QED
      BY <2>1, EmptyLayout
<1>2. InWork
    BY EmptyWork DEF Init
<1>3. Tree /\ Values
  <2>1. /\ enums = <<>> /\ msgs = <<>> /\ phase = "package_opt"
        /\ input \in Inputs /\ nextEnumVal = 0
      BY DEF Init
  <2>2. pkgName \in Package
      BY Zenon DEF Init, Package
  <2>3. enums \in Seq(EnumDcl) /\ msgs \in Seq(MsgDcl) /\ Len(enums) = 0
      BY <2>1
  <2> QED
      BY <2>1, <2>2, <2>3 DEF Tree, Values, Reading
<1>4. /\ bin \in Binary /\ bin.enums = <<>> /\ bin.msgs = <<>>
      /\ nmsgs = 0 /\ enums = <<>> /\ phase = "package_opt" /\ descs = <<>>
    BY EmptyBinary DEF Init, Layout!Init
<1>5. Output
    BY <1>4 DEF Output, TypesKnown, EnumsOut, MsgsOut, Reading, Writing
<1> QED
    BY <1>1, <1>2, <1>3, <1>5 DEF BuildInv

\* Every step keeps the invariant.
LEMMA StepKeepsBuild ==
    ASSUME BuildInv, [Next]_vars
    PROVE  BuildInv'
<1>1. CASE PackageOpt
    BY <1>1, PackageOptKeeps
<1>2. CASE \E name \in Names : DclEnum(name) \/ DclMessage(name)
    BY <1>2, DclEnumKeeps, DclMessageKeeps
<1>3. CASE \E eq \in input.vals : EnumField(eq)
    BY <1>3, EnumFieldKeeps
<1>4. CASE \E d \in input.flds : MsgField(d)
    BY <1>4, MsgFieldKeeps
<1>5. CASE EndDcl \/ EndOfInput
    BY <1>5, EndDclKeeps
<1>6. CASE SyntaxError
    BY <1>6, DieKeeps DEF SyntaxError
<1>7. CASE MakeLookup
    BY <1>7, MakeLookupKeeps
<1>8. CASE OutEnums
    BY <1>8, OutEnumsKeeps
<1>9. CASE OutField
    BY <1>9, OutFieldKeeps
<1>10. CASE OutMsg
    BY <1>10, OutMsgKeeps
<1>11. CASE Finish
    BY <1>11, FinishKeeps
<1>12. CASE PrintSchema
    BY <1>12, PrintSchemaKeeps
<1>13. CASE UNCHANGED vars
  <2>1. /\ UNCHANGED <<input, phase, pkgName, enums, msgs, nextEnumVal, types, bin, descs>>
        /\ UNCHANGED layout
      BY <1>13 DEF vars, tree, output
  <2>2. LP!Inv' /\ InWork' /\ nmsgs' = nmsgs
      BY <2>1, SameLayout DEF BuildInv, layout
  <2>3. Tree' /\ Values'
      BY <2>1 DEF BuildInv, Tree, Values
  <2>4. TypesKnown'
    <3>1. Table' = Table /\ Redefined' = Redefined
        BY <2>1 DEF Table, UserTypes, Declared, Redefined
    <3> QED
        BY <2>1, <3>1 DEF BuildInv, Output, TypesKnown
  <2>5. EnumsOut' /\ MsgsOut'
      BY <2>1, <2>2 DEF BuildInv, Output, EnumsOut, MsgsOut
  <2> QED
      BY <2>2, <2>3, <2>4, <2>5 DEF BuildInv, Output
<1> QED
    BY <1>1, <1>2, <1>3, <1>4, <1>5, <1>6, <1>7, <1>8, <1>9, <1>10, <1>11, <1>12, <1>13
    DEF Next

\* The invariant holds in every state of the compiler.
THEOREM BuildInvariant == Spec => []BuildInv
<1>1. Init => BuildInv
    BY InitialBuild
<1>2. BuildInv /\ [Next]_vars => BuildInv'
    BY StepKeepsBuild
<1> QED
    BY <1>1, <1>2, PTL DEF Spec

\* Enum values in the binary schema count up from the last explicit value of
\* their own enum, around the end of a uint16_t, for every text (EnumField's
\* counter nextEnumVal and outenums).
THEOREM BuildEnumsAsDeclared == Spec => []EnumsAsDeclared
<1>1. ASSUME BuildInv PROVE EnumsAsDeclared
  <2> SUFFICES ASSUME NEW i \in DOMAIN bin.enums, NEW j \in DOMAIN bin.enums[i].vals,
                      NEW vals, vals = enums[i].vals
               PROVE  bin.enums[i].vals[j] =
                        (IF LastExplicit(vals, j) = 0 THEN j - 1
                         ELSE vals[LastExplicit(vals, j)].eq
                                + (j - LastExplicit(vals, j))) % EnumMod
      BY DEF EnumsAsDeclared
  <2>1. bin.enums \in Seq(BinEnum) /\ Len(bin.enums) <= Len(enums)
      BY <1>1 DEF BuildInv, Output, EnumsOut, Binary
  <2>2. i \in 1 .. Len(bin.enums)
      BY <2>1, LenProperties
  <2>3. bin.enums[i] \in BinEnum /\ Copied(bin.enums[i], enums[i])
      BY <1>1, <2>1, <2>2, ElementOfSeq DEF BuildInv, Output, EnumsOut
  <2>4. bin.enums[i].vals \in Seq(0 .. EnumMod - 1)
      BY <2>3 DEF BinEnum
  <2>5. j \in 1 .. Len(vals) /\ j \in Nat /\ bin.enums[i].vals[j] = vals[j].val
      BY <2>3, <2>4, LenProperties DEF Copied
  <2>6. Counted(vals)
    <3>1. Len(enums) \in Nat /\ Len(bin.enums) \in Nat
        BY <1>1, <2>1, LenProperties DEF BuildInv, Tree
    <3>2. i \in 1 .. Len(enums)
        BY <2>1, <2>2, <3>1
    <3> QED
        BY <1>1, <3>2 DEF BuildInv, Values
  <2>7. PICK k \in 0 .. j : Gives(vals, k, j) /\ vals[j].val = CountsTo(vals, k, j) % EnumMod
      BY <2>5, <2>6 DEF Counted
  <2>8. LastExplicit(vals, j) = k
      BY <2>5, <2>7, LastExplicitIs
  <2> QED
      BY <2>5, <2>7, <2>8 DEF CountsTo
<1> QED
    BY <1>1, BuildInvariant, PTL

\* What the accessors touch, kind by kind
LEMMA ReadsByKind ==
    ASSUME NEW d, NEW t
    PROVE  /\ d.kind = "BOOL" => Read(d, t) = Bits(t, 1)
           /\ d.kind \in {"INT", "UINT", "FLOAT"} => Read(d, t) = Bits(8 * t, 8 * d.tag1)
           /\ d.kind = "ENUM" => Read(d, t) = Bits(8 * t, 16)
           /\ d.kind \in {"STR", "PTR"} => Read(d, t) = Pointer(t)
BY Zenon DEF Read

\* What a setter writes its getter reads.
LEMMA WritesByKind ==
    ASSUME NEW d, NEW t, d.kind \in Kinds
    PROVE  Written(d, t) = Read(d, t) \/ Written(d, t) = {}
<1>1. CASE d.kind = "BOOL"
    BY <1>1, ReadsByKind, Zenon DEF Written
<1>2. CASE d.kind \in {"INT", "UINT", "FLOAT"}
    BY <1>2, ReadsByKind, Zenon DEF Written
<1>3. CASE d.kind = "ENUM"
    BY <1>3, ReadsByKind, Zenon DEF Written
<1>4. CASE d.kind = "STR"
    BY <1>4, ReadsByKind, Zenon DEF Written
<1>5. CASE d.kind = "PTR"
    BY <1>5, Zenon DEF Written
<1> QED
    BY <1>1, <1>2, <1>3, <1>4, <1>5 DEF Kinds

\* The object that an initialiser creates
LEMMA SizesByKind ==
    ASSUME NEW sch, NEW d
    PROVE  /\ d.kind = "ENUM" => GetSize(sch, d) = [ssize |-> 2, psize |-> 0]
           /\ d.kind = "STR" => GetSize(sch, d) = [ssize |-> 0, psize |-> 1]
           /\ d.kind = "PTR" => GetSize(sch, d) = [ssize |-> sch.msgs[d.tag1 + 1].ssize,
                                                   psize |-> sch.msgs[d.tag1 + 1].psize]
           /\ d.kind \in {"BOOL", "INT", "UINT", "FLOAT"} =>
                 GetSize(sch, d) = [ssize |-> d.tag1, psize |-> 0]
BY Zenon DEF GetSize

\* A getter reads the place of its field, and nothing else writes there.
LEMMA GetterReads ==
    ASSUME NEW d \in Desc
    PROVE  /\ InScalars(d) => Getter(d) = Bits(FirstBit(d), Width(d))
           /\ ~InScalars(d) => Getter(d) = Pointer(d.tag0)
           /\ Setter(d) \subseteq Getter(d) /\ Initer(d) \subseteq Getter(d)
<1>1. d.kind \in Kinds /\ d.list \in BOOLEAN
    BY DEF Desc
<1>2. CASE d.list
    BY <1>2 DEF InScalars, Getter, Setter, Initer
<1>3. CASE ~d.list
  <2>1. Getter(d) = Read(d, d.tag0) /\ Setter(d) = Written(d, d.tag0)
      BY <1>3 DEF Getter, Setter
  <2>2. Setter(d) \subseteq Getter(d)
      BY <1>1, <2>1, WritesByKind
  <2>3. CASE d.kind = "BOOL"
    <3>1. FirstBit(d) = d.tag0 /\ Width(d) = 1 /\ Initer(d) = {} /\ InScalars(d)
        BY <1>3, <2>3 DEF FirstBit, Width, Initer, InScalars, IsScalar
    <3> QED
        BY <2>1, <2>2, <2>3, <3>1, ReadsByKind
  <2>4. CASE d.kind = "ENUM"
    <3>1. FirstBit(d) = 8 * d.tag0 /\ Width(d) = 16 /\ Initer(d) = {} /\ InScalars(d)
        BY <1>3, <2>4 DEF FirstBit, Width, Initer, InScalars, IsScalar
    <3> QED
        BY <2>1, <2>2, <2>4, <3>1, ReadsByKind
  <2>5. CASE d.kind \in {"INT", "UINT", "FLOAT"}
    <3>1. FirstBit(d) = 8 * d.tag0 /\ Width(d) = 8 * d.tag1 /\ Initer(d) = {} /\ InScalars(d)
        BY <1>3, <2>5 DEF FirstBit, Width, Initer, InScalars, IsScalar
    <3> QED
        BY <2>1, <2>2, <2>5, <3>1, ReadsByKind
  <2>6. CASE d.kind \in {"STR", "PTR"}
    <3>1. ~InScalars(d) /\ Initer(d) \subseteq Pointer(d.tag0)
        BY <2>6 DEF InScalars, IsScalar, Initer
    <3> QED
        BY <2>1, <2>2, <2>6, <3>1, ReadsByKind
  <2> QED
      BY <1>1, <2>3, <2>4, <2>5, <2>6 DEF Kinds
<1> QED
    BY <1>1, <1>2, <1>3

\* Bits and pointers of an object
LEMMA BitsOfObject ==
    ASSUME NEW size, size.ssize \in Nat, NEW a \in Nat, NEW n \in Nat, a + n <= 8 * size.ssize
    PROVE  Bits(a, n) \subseteq Cells(size)
BY DEF Bits, Cells

\* A pointer lies inside the object that has it.
LEMMA PointerOfObject ==
    ASSUME NEW size, size.psize \in Nat, NEW p \in Nat, p < size.psize
    PROVE  Pointer(p) \subseteq Cells(size)
BY DEF Pointer, Cells

\* So a field that is inside is so for its getter.
LEMMA InsideObject ==
    ASSUME NEW d \in Desc, NEW size, size.ssize \in Nat, size.psize \in Nat,
           Inside(d, size.ssize, size.psize)
    PROVE  Getter(d) \subseteq Cells(size)
<1>1. d.tag0 \in Nat /\ FirstBit(d) \in Nat /\ Width(d) \in Nat
    BY DescNumbers
<1>2. CASE InScalars(d)
    BY <1>1, <1>2, GetterReads, BitsOfObject DEF Inside
<1>3. CASE ~InScalars(d)
    BY <1>1, <1>3, GetterReads, PointerOfObject DEF Inside
<1> QED
    BY <1>2, <1>3

\* Getters of separate fields share nothing.
LEMMA GettersApart ==
    ASSUME NEW d \in Desc, NEW e \in Desc, Separate(d, e)
    PROVE  Getter(d) \cap Getter(e) = {}
<1>1. /\ d.tag0 \in Nat /\ FirstBit(d) \in Nat /\ Width(d) \in Nat
      /\ e.tag0 \in Nat /\ FirstBit(e) \in Nat /\ Width(e) \in Nat
    BY DescNumbers
<1>2. ASSUME NEW a \in Nat, NEW n \in Nat, NEW p PROVE Bits(a, n) \cap Pointer(p) = {}
    BY DEF Bits, Pointer
<1>3. CASE InScalars(d) /\ InScalars(e)
  <2>1. Getter(d) = Bits(FirstBit(d), Width(d)) /\ Getter(e) = Bits(FirstBit(e), Width(e))
      BY <1>3, GetterReads
  <2>2. FirstBit(d) + Width(d) <= FirstBit(e) \/ FirstBit(e) + Width(e) <= FirstBit(d)
      BY <1>3 DEF Separate
  <2>3. ASSUME NEW a \in Nat, NEW n \in Nat, NEW b \in Nat, NEW m \in Nat,
               a + n <= b \/ b + m <= a
        PROVE  Bits(a, n) \cap Bits(b, m) = {}
      BY <2>3 DEF Bits
  <2> QED
      BY <1>1, <2>1, <2>2, <2>3
<1>4. CASE InScalars(d) /\ ~InScalars(e)
    BY <1>1, <1>2, <1>4, GetterReads
<1>5. CASE ~InScalars(d) /\ InScalars(e)
    BY <1>1, <1>2, <1>5, GetterReads
<1>6. CASE ~InScalars(d) /\ ~InScalars(e)
  <2>1. Getter(d) = Pointer(d.tag0) /\ Getter(e) = Pointer(e.tag0) /\ d.tag0 # e.tag0
      BY <1>6, GetterReads DEF Separate
  <2> QED
      BY <2>1 DEF Pointer
<1> QED
    BY <1>3, <1>4, <1>5, <1>6

\* An element of a list of scalars or strings has the place that is used of it.
LEMMA ElementInside ==
    ASSUME NEW sch, NEW d \in Desc, d.kind # "PTR", NEW tag \in ElemTags(d)
    PROVE  Read(d, tag) \subseteq ElemCells(GetSize(sch, d))
<1>1. d.kind \in Kinds /\ d.tag1 \in Nat
    BY DEF Desc
<1>2. CASE d.kind = "BOOL"
  <2>1. tag \in 0 .. 7 /\ Read(d, tag) = Bits(tag, 1)
      BY <1>2, ReadsByKind DEF ElemTags
  <2>2. Bits(tag, 1) \subseteq Bits(0, 8)
      BY <2>1 DEF Bits
  <2>3. PICK size : size = GetSize(sch, d)
      OBVIOUS
  <2>4. size.ssize = d.tag1 /\ size.psize = 0
      BY <1>2, <2>3, SizesByKind
  <2>5. CASE d.tag1 = 0
      BY <2>1, <2>2, <2>3, <2>4, <2>5 DEF ElemCells
  <2>6. CASE d.tag1 # 0
    <3>1. tag \in Nat /\ tag + 1 <= 8 * size.ssize /\ size.ssize \in Nat
        BY <1>1, <2>1, <2>4, <2>6
    <3>2. Bits(tag, 1) \subseteq Cells(size)
        BY <3>1, BitsOfObject
    <3> QED
        BY <2>1, <2>3, <2>4, <2>6, <3>2 DEF ElemCells
  <2> QED
      BY <2>5, <2>6
<1>3. CASE d.kind \in {"INT", "UINT", "FLOAT", "ENUM"}
  <2>1. tag = 0
      BY <1>3 DEF ElemTags
  <2>2. PICK size, n : size = GetSize(sch, d) /\ n = IF d.kind = "ENUM" THEN 2 ELSE d.tag1
      OBVIOUS
  <2>3. n \in Nat /\ size.ssize = n /\ size.psize = 0
      BY <1>1, <1>3, <2>2, SizesByKind
  <2>4. Read(d, tag) = Bits(0, 8 * n)
      BY <1>3, <2>1, <2>2, ReadsByKind
  <2>5. CASE n = 0
    <3>1. Bits(0, 8 * n) = {}
        BY <2>5 DEF Bits
    <3> QED
        BY <2>4, <3>1
  <2>6. CASE n # 0
    <3>1. Bits(0, 8 * n) \subseteq Cells(size)
        BY <2>3, BitsOfObject
    <3> QED
        BY <2>2, <2>3, <2>4, <2>6, <3>1 DEF ElemCells
  <2> QED
      BY <2>5, <2>6
<1>4. CASE d.kind = "STR"
  <2>1. tag = 0 /\ Read(d, tag) = Pointer(0)
      BY <1>4, ReadsByKind DEF ElemTags
  <2>2. PICK size : size = GetSize(sch, d)
      OBVIOUS
  <2>3. size.ssize = 0 /\ size.psize = 1
      BY <1>4, <2>2, SizesByKind
  <2>4. Pointer(0) \subseteq Cells(size)
      BY <2>3, PointerOfObject
  <2> QED
      BY <2>1, <2>2, <2>3, <2>4 DEF ElemCells
<1> QED
    BY <1>1, <1>2, <1>3, <1>4 DEF Kinds

\* The fields of the finished messages, and their places
LEMMA FieldsLaid ==
    ASSUME BuildInv, phase = "out", NEW k \in 1 .. Len(msgs)
    PROVE  /\ bin.msgs[k].ssize \in Nat /\ bin.msgs[k].psize \in Nat
           /\ DOMAIN bin.msgs[k].flds = 1 .. Len(bin.msgs[k].flds)
           /\ \A i \in DOMAIN bin.msgs[k].flds :
                /\ bin.msgs[k].flds[i] \in Desc
                /\ Getter(bin.msgs[k].flds[i]) \subseteq Cells(bin.msgs[k])
           /\ \A i, j \in DOMAIN bin.msgs[k].flds : i # j =>
                Getter(bin.msgs[k].flds[i]) \cap Getter(bin.msgs[k].flds[j]) = {}
<1>1. PICK b : b = bin.msgs[k]
    OBVIOUS
<1>2. b \in BinMsg /\ Laid(b.flds, b.ssize, b.psize)
    BY <1>1, FinishedSchema DEF Finished
<1>3. b.flds \in Seq(Desc) /\ b.ssize \in Nat /\ b.psize \in Nat
    BY <1>2 DEF BinMsg
<1>4. DOMAIN b.flds = 1 .. Len(b.flds) /\ \A i \in DOMAIN b.flds : b.flds[i] \in Desc
    BY <1>3, LenProperties, ElementOfSeq
<1>5. ASSUME NEW i \in DOMAIN b.flds PROVE Getter(b.flds[i]) \subseteq Cells(b)
  <2>1. Inside(b.flds[i], b.ssize, b.psize) /\ b.flds[i] \in Desc
      BY <1>2, <1>4 DEF Laid
  <2> QED
      BY <1>3, <2>1, InsideObject
<1>6. ASSUME NEW i \in DOMAIN b.flds, NEW j \in DOMAIN b.flds, i # j
      PROVE  Getter(b.flds[i]) \cap Getter(b.flds[j]) = {}
  <2>1. Separate(b.flds[i], b.flds[j]) /\ b.flds[i] \in Desc /\ b.flds[j] \in Desc
      BY <1>2, <1>4, <1>6 DEF Laid
  <2> QED
      BY <2>1, GettersApart
<1> QED
    BY <1>1, <1>3, <1>4, <1>5, <1>6

\* A name of a message is that of one message only.
LEMMA NamedIs ==
    ASSUME BuildInv, phase = "out", NEW p \in 1 .. Len(msgs)
    PROVE  Named(msgs[p].name) = bin.msgs[p]
<1>1. enums \in Seq(EnumDcl) /\ msgs \in Seq(MsgDcl) /\ ~Redefined
    BY DEF BuildInv, Tree, Output, TypesKnown, Writing
<1>2. \A q \in 1 .. Len(msgs) : msgs[q].name = msgs[p].name => q = p
    BY <1>1, TableSays
<1>3. bin.msgs \in Seq(BinMsg) /\ Len(bin.msgs) = Len(msgs)
    BY FinishedSchema DEF Binary
<1>4. DOMAIN bin.msgs = 1 .. Len(msgs)
    BY <1>3, LenProperties
<1>5. \A q \in 1 .. Len(msgs) : bin.msgs[q].name = msgs[q].name
    BY FinishedSchema DEF Finished
<1>6. bin.msgs[p] \in Range(bin.msgs) /\ bin.msgs[p].name = msgs[p].name
    BY <1>4, <1>5 DEF Range
<1>7. ASSUME NEW m \in Range(bin.msgs), m.name = msgs[p].name PROVE m = bin.msgs[p]
  <2>1. PICK q \in DOMAIN bin.msgs : m = bin.msgs[q]
      BY DEF Range
  <2> QED
      BY <1>2, <1>4, <1>5, <1>7, <2>1
<1> QED
    BY <1>6, <1>7 DEF Named

\* The type of every field is the one that its text names, and init_ creates
\* an object with all fields of that message, for every text: makelookup's ids
\* and what outmsgs writes as tag1.
THEOREM BuildTypesResolve == Spec => []TypesResolve
<1>1. ASSUME BuildInv PROVE TypesResolve
  <2> SUFFICES ASSUME phase = "out", NEW k \in DOMAIN msgs, NEW i \in DOMAIN msgs[k].flds,
                      NEW d, d = bin.msgs[k].flds[i], NEW text, text = msgs[k].flds[i]
               PROVE  /\ TypeStr(bin, d) = text.tname /\ d.list = text.list
                      /\ d.kind = "PTR" =>
                            \A f \in Range(Named(text.tname).flds) :
                                Getter(f) \subseteq Cells(GetSize(bin, d))
      BY DEF TypesResolve
  <2>1. msgs \in Seq(MsgDcl)
      BY <1>1 DEF BuildInv, Tree
  <2>2. k \in 1 .. Len(msgs)
      BY <2>1, LenProperties
  <2>3. msgs[k] \in MsgDcl
      BY <2>1, <2>2, ElementOfSeq
  <2>4. i \in 1 .. Len(msgs[k].flds)
      BY <2>3, LenProperties DEF MsgDcl
  <2>5. text \in FieldDcl /\ Resolved(Table, d, text)
      BY <1>1, <2>2, <2>4, FieldsResolve
  <2>6. /\ TypeStr(bin, d) = text.tname /\ d.list = text.list
        /\ d.kind = "PTR" => \E p \in 1 .. Len(msgs) :
                                d.tag1 = p - 1 /\ text.tname = msgs[p].name
      BY <1>1, <2>5, NamesResolve
  <2>7. ASSUME d.kind = "PTR", NEW f \in Range(Named(text.tname).flds)
        PROVE  Getter(f) \subseteq Cells(GetSize(bin, d))
    <3>1. PICK p \in 1 .. Len(msgs) : d.tag1 = p - 1 /\ text.tname = msgs[p].name
        BY <2>6, <2>7
    <3>2. Named(text.tname) = bin.msgs[p]
        BY <1>1, <3>1, NamedIs
    <3>3. PICK j \in DOMAIN bin.msgs[p].flds : f = bin.msgs[p].flds[j]
        BY <2>7, <3>2 DEF Range
    <3>4. Getter(f) \subseteq Cells(bin.msgs[p])
        BY <1>1, <3>3, FieldsLaid
    <3>5. d.tag1 + 1 = p
        BY <3>1
    <3>6. PICK size : size = GetSize(bin, d)
        OBVIOUS
    <3>7. size.ssize = bin.msgs[p].ssize /\ size.psize = bin.msgs[p].psize
        BY <2>7, <3>5, <3>6, SizesByKind
    <3>8. Cells(size) = Cells(bin.msgs[p])
        BY <3>7 DEF Cells
    <3> QED
        BY <3>4, <3>6, <3>8
  <2> QED
      BY <2>6, <2>7
<1> QED
    BY <1>1, BuildInvariant, PTL

\* No setter or initialiser of a field changes what the getter of another
\* field reads, and every accessor stays inside its object or list element,
\* for every text: the offsets of outmsgs and the calls of b2h.c and b2hh.c.
THEOREM BuildAccessorsApart == Spec => []AccessorsApart
<1>1. ASSUME BuildInv PROVE AccessorsApart
  <2> SUFFICES ASSUME phase = "out", NEW m \in Range(bin.msgs)
               PROVE  /\ \A i, j \in DOMAIN m.flds : i # j =>
                           (Setter(m.flds[i]) \cup Initer(m.flds[i])) \cap Getter(m.flds[j]) = {}
                      /\ \A d \in Range(m.flds) :
                           /\ Setter(d) \subseteq Getter(d)
                           /\ Getter(d) \cup Setter(d) \cup Initer(d) \subseteq Cells(m)
                           /\ d.list /\ d.kind # "PTR" =>
                                 \A tag \in ElemTags(d) :
                                     Written(d, tag) \cup Read(d, tag)
                                        \subseteq ElemCells(GetSize(bin, d))
      BY DEF AccessorsApart
  <2>1. PICK k \in 1 .. Len(msgs) : m = bin.msgs[k]
    <3>1. bin.msgs \in Seq(BinMsg) /\ Len(bin.msgs) = Len(msgs)
        BY <1>1, FinishedSchema DEF Binary
    <3>2. DOMAIN bin.msgs = 1 .. Len(msgs)
        BY <3>1, LenProperties
    <3> QED
        BY <3>2 DEF Range
  <2>2. /\ \A i \in DOMAIN m.flds : m.flds[i] \in Desc /\ Getter(m.flds[i]) \subseteq Cells(m)
        /\ \A i, j \in DOMAIN m.flds : i # j => Getter(m.flds[i]) \cap Getter(m.flds[j]) = {}
      BY <1>1, <2>1, FieldsLaid
  <2>3. ASSUME NEW i \in DOMAIN m.flds, NEW j \in DOMAIN m.flds, i # j
        PROVE  (Setter(m.flds[i]) \cup Initer(m.flds[i])) \cap Getter(m.flds[j]) = {}
    <3>1. /\ Setter(m.flds[i]) \subseteq Getter(m.flds[i])
          /\ Initer(m.flds[i]) \subseteq Getter(m.flds[i])
        BY <2>2, GetterReads
    <3>2. Getter(m.flds[i]) \cap Getter(m.flds[j]) = {}
        BY <2>2, <2>3
    <3> QED
        BY <3>1, <3>2
  <2>4. ASSUME NEW d \in Range(m.flds)
        PROVE  /\ Setter(d) \subseteq Getter(d)
               /\ Getter(d) \cup Setter(d) \cup Initer(d) \subseteq Cells(m)
               /\ d \in Desc
    <3>1. PICK i \in DOMAIN m.flds : d = m.flds[i]
        BY DEF Range
    <3>2. d \in Desc /\ Getter(d) \subseteq Cells(m)
        BY <2>2, <3>1
    <3>3. Setter(d) \subseteq Getter(d) /\ Initer(d) \subseteq Getter(d)
        BY <3>2, GetterReads
    <3> QED
        BY <3>2, <3>3
  <2>5. ASSUME NEW d \in Range(m.flds), d.kind # "PTR", NEW tag \in ElemTags(d)
        PROVE  Written(d, tag) \cup Read(d, tag) \subseteq ElemCells(GetSize(bin, d))
    <3>1. d \in Desc
        BY <2>4
    <3>2. Read(d, tag) \subseteq ElemCells(GetSize(bin, d))
        BY <2>5, <3>1, ElementInside
    <3>3. Written(d, tag) = Read(d, tag) \/ Written(d, tag) = {}
        BY <3>1, WritesByKind DEF Desc
    <3> QED
        BY <3>2, <3>3
  <2> QED
      BY <2>3, <2>4, <2>5
<1> QED
    BY <1>1, BuildInvariant, PTL

-----------------------------------------------------------------------------
(* The second round *)

\* The layout of the message in work, as a value
At(s, p, a, ps, l, b) ==
    [ssize |-> s, psize |-> p, alignment |-> a, pads |-> ps, link |-> l, bitOffs |-> b]

Now == At(ssize, psize, alignment, pads, link, bitOffs)
Start == At(0, 0, 0, <<>>, 0, 0)

\* The padding spaces and pad_link after Cut
CutTo(ps, l, i, offset, pad, size, remain) ==
    IF pad > 0 /\ remain > 0
    THEN [pads |-> [j \in 1 .. Len(ps) + 1 |->
                      IF j = i THEN Layout!Space(offset, pad)
                      ELSE IF j = i + 1 THEN Layout!Space(offset + pad + size, remain)
                      ELSE IF j <= i THEN ps[j] ELSE ps[j - 1]],
          link |-> IF l > i THEN l + 1 ELSE l]
    ELSE IF pad > 0
    THEN [pads |-> [ps EXCEPT ![i] = Layout!Space(offset, pad)], link |-> l]
    ELSE IF remain > 0
    THEN [pads |-> [ps EXCEPT ![i] = Layout!Space(offset + size, remain)], link |-> l]
    ELSE [pads |-> [j \in 1 .. Len(ps) - 1 |-> IF j < i THEN ps[j] ELSE ps[j + 1]],
          link |-> IF l >= i THEN l - 1 ELSE l]

TakenFrom(ps, l, i, size) ==
    CutTo(ps, l, i, ps[i].offset, Layout!Skip(ps[i], size), size,
          ps[i].size - Layout!Skip(ps[i], size) - size)

Fits(ps, size) == {i \in DOMAIN ps : ps[i].size >= Layout!Skip(ps[i], size) + size}
FirstFit(ps, size, i) == i \in Fits(ps, size) /\ \A j \in Fits(ps, size) : i <= j

\* The padding spaces and pad_link when a space may be hooked on
HookedOn(ps, l, from, to) ==
    IF to > from
    THEN [pads |-> [j \in 1 .. l + 1 |->
                      IF j <= l THEN ps[j] ELSE Layout!Space(from, to - from)],
          link |-> l + 1]
    ELSE [pads |-> ps, link |-> l]

\* A bool goes to bit lo, and the layout x becomes y.
BoolMove(x, lo, y) ==
    LET a == Layout!Larger(x.alignment, 0) IN
    \/ /\ x.bitOffs % 8 # 0
       /\ lo = x.bitOffs
       /\ y = At(x.ssize, x.psize, a, x.pads, x.link, x.bitOffs + 1)
    \/ /\ x.bitOffs % 8 = 0
       /\ \E i : /\ FirstFit(x.pads, 1, i)
                 /\ lo = 8 * x.pads[i].offset
                 /\ LET t == TakenFrom(x.pads, x.link, i, 1)
                    IN  y = At(x.ssize, x.psize, a, t.pads, t.link, lo + 1)
    \/ /\ x.bitOffs % 8 = 0
       /\ Fits(x.pads, 1) = {}
       /\ lo = 8 * x.ssize
       /\ y = At(x.ssize + 1, x.psize, a, x.pads, x.link, lo + 1)

\* So does another scalar.
ScalarMove(x, size, lo, y) ==
    LET a == Layout!Larger(x.alignment, size)
        end == Layout!RoundUp(x.ssize, size)
    IN
    \/ \E i : /\ FirstFit(x.pads, size, i)
              /\ lo = 8 * Layout!RoundUp(x.pads[i].offset, size)
              /\ LET t == TakenFrom(x.pads, x.link, i, size)
                 IN  y = At(x.ssize, x.psize, a, t.pads, t.link, x.bitOffs)
    \/ /\ Fits(x.pads, size) = {}
       /\ lo = 8 * end
       /\ LET t == HookedOn(x.pads, x.link, x.ssize, end)
          IN  y = At(end + size, x.psize, a, t.pads, t.link, x.bitOffs)

\* The steps of SchemaLayout are such moves.
LEMMA TakePadMoves ==
    ASSUME NEW i, NEW size, Layout!TakePad(i, size)
    PROVE  /\ pads' = TakenFrom(pads, link, i, size).pads
           /\ link' = TakenFrom(pads, link, i, size).link
<1>1. PICK o, p, r : /\ o = pads[i].offset /\ p = Layout!Skip(pads[i], size)
                     /\ r = pads[i].size - Layout!Skip(pads[i], size) - size
    OBVIOUS
<1>2. Layout!Cut(i, o, p, size, r)
    BY <1>1 DEF Layout!TakePad
<1>3. TakenFrom(pads, link, i, size) = CutTo(pads, link, i, o, p, size, r)
    BY <1>1 DEF TakenFrom
<1>4. CASE p > 0 /\ r > 0
    BY <1>2, <1>3, <1>4 DEF Layout!Cut, CutTo, Layout!InsertedAfter
<1>5. CASE p > 0 /\ r = 0
    BY <1>2, <1>3, <1>5 DEF Layout!Cut, CutTo
<1>6. CASE p = 0 /\ r > 0
    BY <1>2, <1>3, <1>6 DEF Layout!Cut, CutTo
<1>7. CASE p = 0 /\ r = 0
    BY <1>2, <1>3, <1>7 DEF Layout!Cut, CutTo, Layout!Removed
<1> QED
    BY <1>2, <1>4, <1>5, <1>6, <1>7 DEF Layout!Cut

\* The first space that fits is the one the search finds.
LEMMA FirstUsableFits ==
    ASSUME NEW size
    PROVE  /\ Layout!Usable(size) = Fits(pads, size)
           /\ \A i \in Layout!Usable(size) :
                 Layout!IsFirstUsable(i, size) => FirstFit(pads, size, i)
BY DEF Layout!Usable, Layout!IsFirstUsable, Fits, FirstFit

\* AddScalar is such a move, for a bool
LEMMA BoolMoves ==
    ASSUME NEW lo, Layout!AddScalar(0), Last(fields').lo = lo,
           fields \in Seq([lo : Nat, hi : Nat]), bitOffs \in Nat, ssize \in Nat,
           pads \in Seq([offset : Nat, size : Nat])
    PROVE  BoolMove(Now, lo, Now')
<1>0. ASSUME NEW l \in Nat, Layout!Placed(l, 1) PROVE Last(fields').lo = l
  <2>1. PICK f : f = [lo |-> l, hi |-> l + 1]
      OBVIOUS
  <2>2. f \in [lo : Nat, hi : Nat] /\ f.lo = l
      BY <2>1
  <2>3. fields' = Append(fields, f)
      BY <1>0, <2>1 DEF Layout!Placed, Layout!Field
  <2>4. Len(fields') = Len(fields) + 1 /\ fields'[Len(fields) + 1] = f
      BY <2>2, <2>3, AppendProperties
  <2> QED
      BY <2>2, <2>4 DEF Last
<1>1. PICK a : a = Layout!Larger(alignment, 0)
    OBVIOUS
<1>2. /\ alignment' = a /\ psize' = psize
      /\ Layout!BoolInByte \/ Layout!BoolInPad \/ Layout!BoolAtEnd
    BY <1>1 DEF Layout!AddScalar, Layout!Unplaced
<1>3. /\ Now.ssize = ssize /\ Now.psize = psize /\ Now.alignment = alignment
      /\ Now.pads = pads /\ Now.link = link /\ Now.bitOffs = bitOffs
    BY DEF Now, At
<1>4. Now' = At(ssize', psize, a, pads', link', bitOffs')
    BY <1>2 DEF Now, At
<1>5. CASE Layout!BoolInByte
  <2>1. /\ bitOffs % 8 # 0 /\ lo = bitOffs /\ bitOffs' = bitOffs + 1
        /\ UNCHANGED <<ssize, pads, link>>
      BY <1>0, <1>5 DEF Layout!BoolInByte
  <2> QED
      BY <1>1, <1>3, <1>4, <2>1 DEF BoolMove
<1>6. CASE Layout!BoolInPad
  <2>1. PICK i \in Layout!Usable(1) :
           /\ Layout!IsFirstUsable(i, 1) /\ Layout!TakePad(i, 1)
           /\ Layout!Placed(8 * pads[i].offset, 1) /\ bitOffs' = 8 * pads[i].offset + 1
      BY <1>6 DEF Layout!BoolInPad
  <2>2. pads[i].offset \in Nat
    <3>1. pads[i] \in [offset : Nat, size : Nat]
        BY LenProperties, ElementOfSeq DEF Layout!Usable
    <3> QED
        BY <3>1
  <2>3. lo = 8 * pads[i].offset
      BY <1>0, <2>1, <2>2, SMTT(40)
  <2>4. PICK t : t = TakenFrom(pads, link, i, 1)
      OBVIOUS
  <2>5. /\ bitOffs % 8 = 0 /\ ssize' = ssize /\ pads' = t.pads /\ link' = t.link
        /\ FirstFit(pads, 1, i)
      BY <1>6, <2>1, <2>4, TakePadMoves, FirstUsableFits DEF Layout!BoolInPad
  <2>6. bitOffs' = lo + 1
      BY <2>1, <2>3
  <2>7. Now' = At(ssize, psize, a, t.pads, t.link, lo + 1)
      BY <1>4, <2>5, <2>6, Zenon
  <2> QED
      BY <1>1, <1>3, <2>3, <2>4, <2>5, <2>7 DEF BoolMove
<1>7. CASE Layout!BoolAtEnd
  <2>1. /\ bitOffs % 8 = 0 /\ lo = 8 * ssize /\ bitOffs' = 8 * ssize + 1
        /\ ssize' = ssize + 1 /\ UNCHANGED <<pads, link>> /\ Fits(pads, 1) = {}
      BY <1>0, <1>7, FirstUsableFits DEF Layout!BoolAtEnd
  <2> QED
      BY <1>1, <1>3, <1>4, <2>1 DEF BoolMove
<1> QED
    BY <1>2, <1>5, <1>6, <1>7

\* and for a scalar of whole bytes.
LEMMA ScalarMoves ==
    ASSUME NEW size \in {1, 2, 4, 8}, NEW lo, Layout!AddScalar(size), Last(fields').lo = lo,
           fields \in Seq([lo : Nat, hi : Nat]), ssize \in Nat,
           pads \in Seq([offset : Nat, size : Nat])
    PROVE  ScalarMove(Now, size, lo, Now')
<1>0. ASSUME NEW l \in Nat, Layout!Placed(l, 8 * size) PROVE Last(fields').lo = l
  <2>1. PICK f : f = [lo |-> l, hi |-> l + 8 * size]
      OBVIOUS
  <2>2. f \in [lo : Nat, hi : Nat] /\ f.lo = l
      BY <2>1
  <2>3. fields' = Append(fields, f)
      BY <1>0, <2>1 DEF Layout!Placed, Layout!Field
  <2>4. Len(fields') = Len(fields) + 1 /\ fields'[Len(fields) + 1] = f
      BY <2>2, <2>3, AppendProperties
  <2> QED
      BY <2>2, <2>4 DEF Last
<1>1. PICK a, end : a = Layout!Larger(alignment, size) /\ end = Layout!RoundUp(ssize, size)
    OBVIOUS
<1>2. /\ alignment' = a /\ psize' = psize
      /\ Layout!ScalarInPad(size) \/ Layout!ScalarAtEnd(size)
    BY <1>1 DEF Layout!AddScalar, Layout!Unplaced
<1>3. /\ Now.ssize = ssize /\ Now.psize = psize /\ Now.alignment = alignment
      /\ Now.pads = pads /\ Now.link = link /\ Now.bitOffs = bitOffs
    BY DEF Now, At
<1>4. Now' = At(ssize', psize, a, pads', link', bitOffs')
    BY <1>2 DEF Now, At
<1>5. \A x \in Nat : Layout!RoundUp(x, size) \in Nat
    BY DEF Layout!RoundUp
<1>6. CASE Layout!ScalarInPad(size)
  <2>1. PICK i \in Layout!Usable(size) :
           /\ Layout!IsFirstUsable(i, size) /\ Layout!TakePad(i, size)
           /\ Layout!Placed(8 * Layout!RoundUp(pads[i].offset, size), 8 * size)
      BY <1>6 DEF Layout!ScalarInPad
  <2>2. pads[i].offset \in Nat
    <3>1. pads[i] \in [offset : Nat, size : Nat]
        BY LenProperties, ElementOfSeq DEF Layout!Usable
    <3> QED
        BY <3>1
  <2>3. lo = 8 * Layout!RoundUp(pads[i].offset, size)
    <3>1. 8 * Layout!RoundUp(pads[i].offset, size) \in Nat
        BY <1>5, <2>2
    <3> QED
        BY <1>0, <2>1, <3>1
  <2>4. PICK t : t = TakenFrom(pads, link, i, size)
      OBVIOUS
  <2>5. /\ UNCHANGED <<ssize, bitOffs>> /\ pads' = t.pads /\ link' = t.link
        /\ FirstFit(pads, size, i)
      BY <1>6, <2>1, <2>4, TakePadMoves, FirstUsableFits DEF Layout!ScalarInPad
  <2>6. Now' = At(ssize, psize, a, t.pads, t.link, bitOffs)
      BY <1>4, <2>5, Zenon
  <2> QED
      BY <1>1, <1>3, <2>3, <2>4, <2>5, <2>6 DEF ScalarMove
<1>7. CASE Layout!ScalarAtEnd(size)
  <2>1. /\ Fits(pads, size) = {} /\ ssize' = end + size /\ bitOffs' = bitOffs
        /\ Layout!Placed(8 * end, 8 * size)
        /\ IF end > ssize THEN Layout!AddPad(ssize, end - ssize) ELSE UNCHANGED <<pads, link>>
      BY <1>1, <1>7, FirstUsableFits DEF Layout!ScalarAtEnd
  <2>2. lo = 8 * end
    <3>1. end \in Nat
        BY <1>1, <1>5
    <3>2. 8 * end \in Nat
        BY <3>1
    <3> QED
        BY <1>0, <2>1, <3>2
  <2>3. PICK t : t = HookedOn(pads, link, ssize, end)
      OBVIOUS
  <2>4. pads' = t.pads /\ link' = t.link
      BY <2>1, <2>3 DEF HookedOn, Layout!AddPad
  <2>5. Now' = At(end + size, psize, a, t.pads, t.link, bitOffs)
      BY <1>4, <2>1, <2>4, Zenon
  <2> QED
      BY <1>1, <1>3, <2>1, <2>2, <2>3, <2>5 DEF ScalarMove
<1> QED
    BY <1>2, <1>6, <1>7

\* Such moves leave no choice.
LEMMA OneFirstFit ==
    ASSUME NEW S, NEW ps \in Seq(S), NEW size, NEW i, NEW j,
           FirstFit(ps, size, i), FirstFit(ps, size, j)
    PROVE  i = j
<1>1. i \in 1 .. Len(ps) /\ j \in 1 .. Len(ps)
    BY LenProperties DEF FirstFit, Fits
<1>2. i <= j /\ j <= i
    BY DEF FirstFit
<1> QED
    BY <1>1, <1>2

\* A move leaves no choice.
LEMMA OneBoolMove ==
    ASSUME NEW S, NEW x, x.pads \in Seq(S), NEW lo, NEW y, NEW lo2, NEW y2,
           BoolMove(x, lo, y), BoolMove(x, lo2, y2)
    PROVE  lo = lo2 /\ y = y2
<1>1. CASE x.bitOffs % 8 # 0
    BY <1>1 DEF BoolMove
<1>2. CASE x.bitOffs % 8 = 0 /\ Fits(x.pads, 1) = {}
    BY <1>2 DEF BoolMove, FirstFit
<1>3. CASE x.bitOffs % 8 = 0 /\ Fits(x.pads, 1) # {}
  <2>1. PICK i : /\ FirstFit(x.pads, 1, i) /\ lo = 8 * x.pads[i].offset
                 /\ y = At(x.ssize, x.psize, Layout!Larger(x.alignment, 0),
                           TakenFrom(x.pads, x.link, i, 1).pads,
                           TakenFrom(x.pads, x.link, i, 1).link, lo + 1)
      BY <1>3 DEF BoolMove
  <2>2. PICK j : /\ FirstFit(x.pads, 1, j) /\ lo2 = 8 * x.pads[j].offset
                 /\ y2 = At(x.ssize, x.psize, Layout!Larger(x.alignment, 0),
                            TakenFrom(x.pads, x.link, j, 1).pads,
                            TakenFrom(x.pads, x.link, j, 1).link, lo2 + 1)
      BY <1>3 DEF BoolMove
  <2>3. i = j
      BY <2>1, <2>2, OneFirstFit
  <2> QED
      BY <2>1, <2>2, <2>3
<1> QED
    BY <1>1, <1>2, <1>3

\* Nor does one of whole bytes.
LEMMA OneScalarMove ==
    ASSUME NEW S, NEW x, x.pads \in Seq(S), NEW size, NEW lo, NEW y, NEW lo2, NEW y2,
           ScalarMove(x, size, lo, y), ScalarMove(x, size, lo2, y2)
    PROVE  lo = lo2 /\ y = y2
<1>1. CASE Fits(x.pads, size) = {}
    BY <1>1 DEF ScalarMove, FirstFit
<1>2. CASE Fits(x.pads, size) # {}
  <2>1. PICK i : /\ FirstFit(x.pads, size, i)
                 /\ lo = 8 * Layout!RoundUp(x.pads[i].offset, size)
                 /\ y = At(x.ssize, x.psize, Layout!Larger(x.alignment, size),
                           TakenFrom(x.pads, x.link, i, size).pads,
                           TakenFrom(x.pads, x.link, i, size).link, x.bitOffs)
      BY <1>2 DEF ScalarMove
  <2>2. PICK j : /\ FirstFit(x.pads, size, j)
                 /\ lo2 = 8 * Layout!RoundUp(x.pads[j].offset, size)
                 /\ y2 = At(x.ssize, x.psize, Layout!Larger(x.alignment, size),
                            TakenFrom(x.pads, x.link, j, size).pads,
                            TakenFrom(x.pads, x.link, j, size).link, x.bitOffs)
      BY <1>2 DEF ScalarMove
  <2>3. i = j
      BY <2>1, <2>2, OneFirstFit
  <2> QED
      BY <2>1, <2>2, <2>3
<1> QED
    BY <1>1, <1>2

\* A field of a message is placed; a message is finished.
SizeOf(d) == IF d.kind = "ENUM" THEN 2 ELSE d.tag1

FieldMove(x, d, y) ==
    IF InScalars(d)
    THEN IF d.kind = "BOOL" THEN BoolMove(x, FirstBit(d), y)
         ELSE ScalarMove(x, SizeOf(d), FirstBit(d), y)
    ELSE /\ d.tag0 = x.psize
         /\ y = At(x.ssize, x.psize + 1, Layout!Larger(x.alignment, Layout!WordSz),
                   x.pads, x.link, x.bitOffs)

MessageMove(x, m, y) ==
    /\ m.ssize = (IF x.alignment > 1
                  THEN Layout!RoundUp(x.ssize + x.psize * Layout!WordSz, x.alignment)
                          - x.psize * Layout!WordSz
                  ELSE x.ssize)
    /\ m.psize = x.psize
    /\ y = At(0, 0, x.alignment, <<>>, 0, 0)

\* The types of the layout's variables
LEMMA LayoutTyped ==
    ASSUME LP!Inv
    PROVE  /\ fields \in Seq([lo : Nat, hi : Nat]) /\ bitOffs \in Nat /\ ssize \in Nat
           /\ pads \in Seq([offset : Nat, size : Nat])
BY DEF LP!Inv, LP!TypeOK

\* The fields of the layout now
LEMMA NowIs ==
    /\ Now.ssize = ssize /\ Now.psize = psize /\ Now.alignment = alignment
    /\ Now.pads = pads /\ Now.link = link /\ Now.bitOffs = bitOffs
BY DEF Now, At

\* What OutField writes for a field that is not the last step of the program
LEMMA FieldMoves ==
    ASSUME BuildInv, OutField, ~Die
    PROVE  \E d \in Desc :
             /\ descs' = Append(descs, d) /\ FieldMove(Now, d, Now')
             /\ Resolved(types, d, msgs[nmsgs + 1].flds[Len(descs) + 1])
             /\ UNCHANGED <<first, bin, nmsgs>>
<1>1. PICK k, n, f : k = nmsgs + 1 /\ n = Len(descs) /\ f = msgs[k].flds[n + 1]
    OBVIOUS
<1>2. /\ phase = "outmsgs" /\ nmsgs < Len(msgs) /\ n < Len(msgs[k].flds)
      /\ f.tname \in DOMAIN types /\ UNCHANGED <<first, bin>>
    BY <1>1 DEF OutField
<1>3. PICK ent : ent = types[f.tname]
    OBVIOUS
<1>4. PICK d : d = [list |-> f.list, kind |-> ent.kind,
                    tag0 |-> Tag0(ent, f.list), tag1 |-> Tag1(ent)]
    OBVIOUS
<1>5. /\ IsScalar(ent.kind) /\ ~f.list => Layout!AddScalar(ent.size)
      /\ ~(IsScalar(ent.kind) /\ ~f.list) => Layout!AddPointer
      /\ descs' = Append(descs, d)
    BY <1>1, <1>3, <1>4 DEF OutField
<1>6. ent \in Ent
  <2>1. types = Table /\ ~Redefined /\ enums \in Seq(EnumDcl) /\ msgs \in Seq(MsgDcl)
      BY <1>2 DEF BuildInv, Output, TypesKnown, Writing, Tree
  <2> QED
      BY <1>2, <1>3, <2>1, TableTyped
<1>7. f.list \in BOOLEAN
  <2>1. nmsgs \in Nat /\ descs \in Seq(Desc) /\ n \in Nat
      BY <1>1, ScalarsKept, LenProperties DEF BuildInv, InWork
  <2>2. k \in 1 .. Len(msgs) /\ msgs \in Seq(MsgDcl)
      BY <1>1, <1>2, <2>1, LenProperties DEF BuildInv, Tree
  <2>3. msgs[k] \in MsgDcl
      BY <2>2, ElementOfSeq
  <2>4. msgs[k].flds \in Seq(FieldDcl) /\ Len(msgs[k].flds) \in Nat
      BY <2>3, LenProperties DEF MsgDcl
  <2>5. f \in FieldDcl
      BY <1>1, <1>2, <2>1, <2>4, ElementOfSeq
  <2> QED
      BY <2>5 DEF FieldDcl
<1>8. Resolved(types, d, f)
    BY <1>2, <1>3, <1>4 DEF Resolved
<1>9. /\ fields \in Seq([lo : Nat, hi : Nat]) /\ bitOffs \in Nat /\ ssize \in Nat
      /\ pads \in Seq([offset : Nat, size : Nat]) /\ psize \in Nat
    BY LayoutTyped, ScalarsKept DEF BuildInv
<1>10. CASE IsScalar(ent.kind) /\ ~f.list
  <2>1. f.list = FALSE
      BY <1>7, <1>10
  <2>2. /\ d \in Desc /\ InScalars(d) /\ Last(fields').lo = FirstBit(d) /\ nmsgs' = nmsgs
        /\ IF d.kind = "BOOL" THEN ent.size = 0 ELSE ent.size \in {1, 2, 4, 8}
        /\ d.kind \notin {"BOOL", "ENUM"} => d.tag1 = ent.size
        /\ d.kind = "ENUM" => ent.size = 2
      BY <1>4, <1>5, <1>6, <1>10, <2>1, ScalarDesc DEF BuildInv
  <2>3. FieldMove(Now, d, Now')
    <3>1. CASE d.kind = "BOOL"
      <4>1. Layout!AddScalar(0)
          BY <1>5, <1>10, <2>2, <3>1
      <4>2. BoolMove(Now, FirstBit(d), Now')
          BY <1>9, <2>2, <4>1, BoolMoves
      <4> QED
          BY <2>2, <3>1, <4>2 DEF FieldMove
    <3>2. CASE d.kind # "BOOL"
      <4>1. Layout!AddScalar(ent.size) /\ ent.size \in {1, 2, 4, 8}
          BY <1>5, <1>10, <2>2, <3>2
      <4>2. ScalarMove(Now, ent.size, FirstBit(d), Now')
          BY <1>9, <2>2, <4>1, ScalarMoves
      <4>3. SizeOf(d) = ent.size
          BY <2>2, <3>2 DEF SizeOf
      <4> QED
          BY <2>2, <3>2, <4>2, <4>3 DEF FieldMove
    <3> QED
        BY <3>1, <3>2
  <2> QED
      BY <1>1, <1>2, <1>5, <1>8, <2>2, <2>3
<1>11. CASE ~(IsScalar(ent.kind) /\ ~f.list)
  <2>1. Tag0(ent, f.list) = psize
      BY <1>11 DEF Tag0
  <2>2. Tag1(ent) \in Nat /\ ent.kind \in Kinds
      BY <1>6 DEF Tag1, Ent
  <2>3. d \in Desc /\ d.tag0 = psize /\ ~InScalars(d)
      BY <1>4, <1>7, <1>9, <1>11, <2>1, <2>2 DEF Desc, InScalars
  <2>4. /\ psize' = psize + 1 /\ alignment' = Layout!Larger(alignment, Layout!WordSz)
        /\ UNCHANGED <<ssize, pads, link, bitOffs, nmsgs>>
      BY <1>5, <1>11 DEF Layout!AddPointer
  <2>5. Now' = At(ssize, psize + 1, Layout!Larger(alignment, Layout!WordSz), pads, link, bitOffs)
      BY <2>4 DEF Now
  <2>6. FieldMove(Now, d, Now')
      BY <2>3, <2>5, NowIs DEF FieldMove
  <2> QED
      BY <1>1, <1>2, <1>5, <1>8, <2>3, <2>4, <2>6
<1> QED
    BY <1>10, <1>11

\* EndMessage finishes a message as MessageMove says.
LEMMA MessageMoves ==
    ASSUME Layout!EndMessage, NEW m, m.ssize = done'.ssize, m.psize = done'.psize
    PROVE  MessageMove(Now, m, Now')
<1>1. /\ done'.ssize = Layout!FinalSize(alignment) /\ done'.psize = psize
      /\ ssize' = 0 /\ psize' = 0 /\ alignment' = alignment /\ pads' = <<>>
      /\ link' = 0 /\ bitOffs' = 0
    BY DEF Layout!EndMessage
<1>2. Now' = At(0, 0, alignment, <<>>, 0, 0)
    BY <1>1 DEF Now
<1> QED
    BY <1>1, <1>2, NowIs DEF MessageMove, Layout!FinalSize

\* Two descriptions of the same field with the same layout are the same.
LEMMA OneFieldMove ==
    ASSUME NEW S, NEW x, x.pads \in Seq(S), NEW d \in Desc, NEW e \in Desc, NEW y, NEW z,
           NEW T, NEW f, Resolved(T, d, f), Resolved(T, e, f),
           FieldMove(x, d, y), FieldMove(x, e, z)
    PROVE  d = e /\ y = z
<1>1. d.list = e.list /\ d.kind = e.kind /\ d.tag1 = e.tag1
    BY DEF Resolved
<1>2. d.tag0 \in Nat /\ e.tag0 \in Nat
    BY DEF Desc
<1>3. d.tag0 = e.tag0 => d = e
    BY <1>1 DEF Desc
<1>4. InScalars(d) = InScalars(e) /\ SizeOf(d) = SizeOf(e)
    BY <1>1 DEF InScalars, SizeOf
<1>5. CASE InScalars(d) /\ d.kind = "BOOL"
  <2>1. BoolMove(x, FirstBit(d), y) /\ BoolMove(x, FirstBit(e), z)
      BY <1>1, <1>4, <1>5 DEF FieldMove
  <2>2. FirstBit(d) = FirstBit(e) /\ y = z
      BY <2>1, OneBoolMove
  <2> QED
      BY <1>1, <1>3, <1>5, <2>2 DEF FirstBit
<1>6. CASE InScalars(d) /\ d.kind # "BOOL"
  <2>1. ScalarMove(x, SizeOf(d), FirstBit(d), y) /\ ScalarMove(x, SizeOf(d), FirstBit(e), z)
      BY <1>1, <1>4, <1>6 DEF FieldMove
  <2>2. FirstBit(d) = FirstBit(e) /\ y = z
      BY <2>1, OneScalarMove
  <2>3. 8 * d.tag0 = 8 * e.tag0
      BY <1>1, <1>6, <2>2 DEF FirstBit
  <2>4. d.tag0 = e.tag0
      BY <1>2, <2>3
  <2> QED
      BY <1>3, <2>2, <2>4
<1>7. CASE ~InScalars(d)
    BY <1>3, <1>4, <1>7 DEF FieldMove
<1> QED
    BY <1>5, <1>6, <1>7

\* H has the layouts that the messages ms and the fields ds of one more
\* message went through: before the i-th field of the k-th message, H[k - 1, i - 1].
Replayed(H, ms, ds) ==
    /\ H[<<0, 0>>] = Start
    /\ \A k \in 1 .. Len(ms) : \A i \in 1 .. Len(ms[k].flds) :
          FieldMove(H[<<k - 1, i - 1>>], ms[k].flds[i], H[<<k - 1, i>>])
    /\ \A k \in 1 .. Len(ms) :
          MessageMove(H[<<k - 1, Len(ms[k].flds)>>], ms[k], H[<<k, 0>>])
    /\ \A i \in 1 .. Len(ds) : FieldMove(H[<<Len(ms), i - 1>>], ds[i], H[<<Len(ms), i>>])

\* They went through layouts that lead to x.
LeadTo(ms, ds, x) == \E H : Replayed(H, ms, ds) /\ x = H[<<Len(ms), Len(ds)>>]

\* One more field, or one more message, leads further.
LEMMA FieldReplayed ==
    ASSUME NEW ms \in Seq(BinMsg), NEW ds \in Seq(Desc), NEW x, LeadTo(ms, ds, x),
           NEW d \in Desc, NEW y, FieldMove(x, d, y)
    PROVE  LeadTo(ms, Append(ds, d), y)
<1>0. PICK H : Replayed(H, ms, ds) /\ FieldMove(H[<<Len(ms), Len(ds)>>], d, y)
    BY DEF LeadTo
<1>1. PICK m, n : m = Len(ms) /\ n = Len(ds)
    OBVIOUS
<1>2. m \in Nat /\ n \in Nat
    BY <1>1, LenProperties
<1>3. PICK G : G = [q \in Nat \X Nat |-> IF q = <<m, n + 1>> THEN y ELSE H[q]]
    OBVIOUS
<1>4. \A k, i \in Nat : G[<<k, i>>] = IF k = m /\ i = n + 1 THEN y ELSE H[<<k, i>>]
    BY <1>2, <1>3
<1>5. PICK more : more = Append(ds, d)
    OBVIOUS
<1>6. Len(more) = n + 1 /\ more[n + 1] = d /\ \A i \in 1 .. n : more[i] = ds[i]
    BY <1>1, <1>5, AppendProperties
<1>7. G[<<0, 0>>] = Start
    BY <1>0, <1>2, <1>4 DEF Replayed
<1>8. ASSUME NEW k \in 1 .. m
      PROVE  /\ \A i \in 1 .. Len(ms[k].flds) :
                  FieldMove(G[<<k - 1, i - 1>>], ms[k].flds[i], G[<<k - 1, i>>])
             /\ MessageMove(G[<<k - 1, Len(ms[k].flds)>>], ms[k], G[<<k, 0>>])
  <2>1. ms[k] \in BinMsg
      BY <1>1, ElementOfSeq
  <2>2. Len(ms[k].flds) \in Nat
      BY <2>1, LenProperties DEF BinMsg
  <2>3. k - 1 \in Nat /\ k \in Nat /\ k - 1 # m
      BY <1>2
  <2>4. \A i \in Nat : G[<<k - 1, i>>] = H[<<k - 1, i>>]
      BY <1>4, <2>3
  <2>5. G[<<k, 0>>] = H[<<k, 0>>]
      BY <1>2, <1>4, <2>3
  <2>6. \A i \in 1 .. Len(ms[k].flds) : i \in Nat /\ i - 1 \in Nat
      BY <2>2
  <2> QED
      BY <1>0, <1>1, <2>2, <2>4, <2>5, <2>6 DEF Replayed
<1>9. ASSUME NEW i \in 1 .. n + 1 PROVE FieldMove(G[<<m, i - 1>>], more[i], G[<<m, i>>])
  <2>1. i \in Nat /\ i - 1 \in Nat /\ i - 1 # n + 1
      BY <1>2
  <2>2. G[<<m, i - 1>>] = H[<<m, i - 1>>]
      BY <1>2, <1>4, <2>1
  <2>3. CASE i = n + 1
    <3>1. G[<<m, i>>] = y /\ i - 1 = n /\ more[i] = d
        BY <1>2, <1>4, <1>6, <2>1, <2>3
    <3> QED
        BY <1>0, <1>1, <2>2, <3>1
  <2>4. CASE i \in 1 .. n
    <3>1. G[<<m, i>>] = H[<<m, i>>] /\ more[i] = ds[i]
        BY <1>2, <1>4, <1>6, <2>1, <2>4
    <3> QED
        BY <1>0, <1>1, <2>2, <2>4, <3>1 DEF Replayed
  <2> QED
      BY <1>2, <2>3, <2>4
<1>10. Replayed(G, ms, more)
    BY <1>1, <1>6, <1>7, <1>8, <1>9 DEF Replayed
<1>11. y = G[<<m, n + 1>>]
    BY <1>2, <1>4
<1> QED
    BY <1>1, <1>5, <1>6, <1>10, <1>11 DEF LeadTo

\* The fields of the message in work become a message.
LEMMA MessageReplayed ==
    ASSUME NEW ms \in Seq(BinMsg), NEW b \in BinMsg, NEW x, LeadTo(ms, b.flds, x),
           NEW y, MessageMove(x, b, y), NEW none, Len(none) = 0
    PROVE  LeadTo(Append(ms, b), none, y)
<1> PICK ds \in Seq(Desc) : b.flds = ds
    BY DEF BinMsg
<1>0. PICK H : Replayed(H, ms, ds) /\ MessageMove(H[<<Len(ms), Len(ds)>>], b, y)
    BY DEF LeadTo
<1>1. PICK m, n : m = Len(ms) /\ n = Len(ds)
    OBVIOUS
<1>2. m \in Nat /\ n \in Nat
    BY <1>1, LenProperties
<1>3. PICK G : G = [q \in Nat \X Nat |-> IF q = <<m + 1, 0>> THEN y ELSE H[q]]
    OBVIOUS
<1>4. \A k, i \in Nat : G[<<k, i>>] = IF k = m + 1 /\ i = 0 THEN y ELSE H[<<k, i>>]
    BY <1>2, <1>3
<1>5. PICK more : more = Append(ms, b)
    OBVIOUS
<1>6. /\ Len(more) = m + 1 /\ more[m + 1] = b /\ \A k \in 1 .. m : more[k] = ms[k]
      /\ more \in Seq(BinMsg)
    BY <1>1, <1>5, AppendProperties
<1>7. G[<<0, 0>>] = Start
    BY <1>0, <1>2, <1>4 DEF Replayed
<1>8. ASSUME NEW k \in 1 .. m + 1
      PROVE  /\ \A i \in 1 .. Len(more[k].flds) :
                  FieldMove(G[<<k - 1, i - 1>>], more[k].flds[i], G[<<k - 1, i>>])
             /\ MessageMove(G[<<k - 1, Len(more[k].flds)>>], more[k], G[<<k, 0>>])
  <2>1. more[k] \in BinMsg
      BY <1>6, ElementOfSeq
  <2>2. Len(more[k].flds) \in Nat
      BY <2>1, LenProperties DEF BinMsg
  <2>3. k - 1 \in Nat /\ k \in Nat /\ k - 1 # m + 1
      BY <1>2
  <2>4. \A i \in Nat : G[<<k - 1, i>>] = H[<<k - 1, i>>]
      BY <1>4, <2>3
  <2>5. \A i \in 1 .. Len(more[k].flds) : i \in Nat /\ i - 1 \in Nat
      BY <2>2
  <2>6. CASE k \in 1 .. m
    <3>1. G[<<k, 0>>] = H[<<k, 0>>]
        BY <1>2, <1>4, <2>3, <2>6
    <3>2. more[k] = ms[k]
        BY <1>6, <2>6
    <3> QED
        BY <1>0, <1>1, <2>2, <2>4, <2>5, <2>6, <3>1, <3>2 DEF Replayed
  <2>7. CASE k = m + 1
    <3>1. G[<<k, 0>>] = y /\ more[k] = b /\ k - 1 = m
        BY <1>2, <1>4, <1>6, <2>3, <2>7
    <3>2. MessageMove(G[<<m, n>>], b, G[<<k, 0>>])
        BY <1>0, <1>1, <1>2, <2>4, <3>1
    <3>3. \A i \in 1 .. Len(ds) : FieldMove(H[<<m, i - 1>>], ds[i], H[<<m, i>>])
        BY <1>0, <1>1 DEF Replayed
    <3>4. \A i \in 1 .. Len(ds) : FieldMove(G[<<m, i - 1>>], ds[i], G[<<m, i>>])
        BY <2>4, <2>5, <3>1, <3>3
    <3> QED
        BY <1>0, <1>1, <3>1, <3>2, <3>4
  <2> QED
      BY <1>2, <2>6, <2>7
<1>9. Replayed(G, more, none)
  <2>1. /\ \A k \in 1 .. Len(more) : \A i \in 1 .. Len(more[k].flds) :
              FieldMove(G[<<k - 1, i - 1>>], more[k].flds[i], G[<<k - 1, i>>])
        /\ \A k \in 1 .. Len(more) :
              MessageMove(G[<<k - 1, Len(more[k].flds)>>], more[k], G[<<k, 0>>])
      BY <1>6, <1>8
  <2> QED
      BY <1>7, <2>1 DEF Replayed
<1>10. y = G[<<m + 1, 0>>]
    BY <1>2, <1>4
<1> QED
    BY <1>1, <1>5, <1>6, <1>9, <1>10 DEF LeadTo

\* In the first round, the layouts so far lead to the one now.
FirstRound == first = <<>> => LeadTo(bin.msgs, descs, Now)

\* In the second round the tree is the text of the binary schema b of the first.
Reread(b) ==
    /\ pkgName = b.pkgName
    /\ Len(b.enums) = Len(enums) /\ \A i \in 1 .. Len(enums) : Copied(b.enums[i], enums[i])
    /\ Len(b.msgs) = Len(msgs)
    /\ \A k \in 1 .. Len(msgs) : Finished(Table, b.msgs[k], msgs[k])

\* The output follows b, through the layouts of the first round.
Rewritten(b, H) ==
    /\ Now = H[<<Len(bin.msgs), Len(descs)>>]
    /\ phase \in Writing => bin.pkgName = b.pkgName /\ bin.enums = b.enums
    /\ \A k \in 1 .. Len(bin.msgs) : bin.msgs[k] = b.msgs[k]
    /\ Len(bin.msgs) < Len(msgs) =>
          \A i \in 1 .. Len(descs) : descs[i] = b.msgs[Len(bin.msgs) + 1].flds[i]

Accepted == ~TooMany /\ ~Redefined

SecondRound ==
    first # <<>> =>
        /\ phase \in Writing \cup {"makelookup", "outenums"} /\ Accepted
        /\ \E b, H : /\ b \in Binary /\ first = <<b>> /\ Reread(b)
                     /\ Replayed(H, b.msgs, <<>>) /\ Rewritten(b, H)

Rounds ==
    /\ FirstRound /\ SecondRound
    /\ phase \in Writing \cup {"outenums"} => Accepted

\* A step that writes nothing, in the first round
LEMMA FirstRoundKept ==
    ASSUME Rounds, first = <<>>, UNCHANGED <<first, bin, descs>>, UNCHANGED layout,
           phase' \in Writing \cup {"outenums"} => Accepted'
    PROVE  Rounds'
<1>1. Now' = Now
    BY DEF Now, layout
<1>2. FirstRound'
    BY <1>1 DEF Rounds, FirstRound
<1> QED
    BY <1>2 DEF Rounds, SecondRound

\* A step that changes the phase only, in either round
LEMMA RoundsKept ==
    ASSUME Rounds, UNCHANGED <<first, bin, descs, pkgName, enums, msgs>>, UNCHANGED layout,
           phase' \in Writing \cup {"outenums"} => Accepted,
           first # <<>> => /\ phase' \in Writing \cup {"makelookup", "outenums"}
                           /\ phase' \in Writing => phase \in Writing
    PROVE  Rounds'
<1>1. Now' = Now
    BY DEF Now, layout
<1>2. Table' = Table /\ Accepted' = Accepted
    BY DEF Table, UserTypes, Declared, Redefined, Accepted, TooMany
<1>3. FirstRound'
    BY <1>1 DEF Rounds, FirstRound
<1>4. SecondRound'
  <2> SUFFICES ASSUME first # <<>>
               PROVE  SecondRound'
      BY DEF SecondRound
  <2>1. PICK b, H : /\ b \in Binary /\ first = <<b>> /\ Reread(b)
                    /\ Replayed(H, b.msgs, <<>>) /\ Rewritten(b, H)
      BY DEF Rounds, SecondRound
  <2>2. Reread(b)'
      BY <1>2, <2>1 DEF Reread
  <2>3. Rewritten(b, H)'
      BY <1>1, <2>1 DEF Rewritten
  <2>4. Accepted
      BY DEF Rounds, SecondRound
  <2>5. first' = <<b>>
      BY <2>1
  <2> QED
      BY <1>2, <2>1, <2>2, <2>3, <2>4, <2>5, Zenon DEF SecondRound
<1> QED
    BY <1>2, <1>3, <1>4 DEF Rounds

\* Before the first step
LEMMA InitialRounds == Init => Rounds
<1> HAVE Init
<1>1. Now = Start
    BY DEF Init, Layout!Init, Now, Start
<1>2. bin.msgs = <<>> /\ descs = <<>> /\ first = <<>> /\ phase = "package_opt"
    BY EmptyBinary DEF Init
<1>3. PICK ms, ds : ms = bin.msgs /\ ds = descs
    OBVIOUS
<1>4. Len(ms) = 0 /\ Len(ds) = 0
    BY <1>2, <1>3
<1>5. PICK H : H = [x \in Nat \X Nat |-> Start]
    OBVIOUS
<1>6. H[<<0, 0>>] = Start
    BY <1>5
<1>7. Replayed(H, ms, ds) /\ Now = H[<<Len(ms), Len(ds)>>]
    BY <1>1, <1>4, <1>6 DEF Replayed
<1>8. FirstRound
    BY <1>3, <1>7 DEF FirstRound, LeadTo
<1> QED
    BY <1>2, <1>8 DEF Rounds, SecondRound, Writing

\* While the text is read nothing has been written.
LEMMA ReadingKeepsRounds ==
    ASSUME Rounds, phase \in {"package_opt", "dcl_list", "enum", "message"},
           phase' \notin Writing \cup {"outenums"}, UNCHANGED <<first, output, layout>>
    PROVE  Rounds'
<1>1. first = <<>>
    BY DEF Rounds, SecondRound, Writing
<1>2. UNCHANGED <<bin, descs>>
    BY DEF output
<1> QED
    BY <1>1, <1>2, FirstRoundKept

\* A text that was accepted in the first round is so in the second.
LEMMA MakeLookupKeepsRounds ==
    ASSUME Rounds, MakeLookup
    PROVE  Rounds'
<1>1. CASE TooMany \/ Redefined
  <2>1. first = <<>>
      BY <1>1 DEF Rounds, SecondRound, Accepted
  <2>2. phase' = "died" /\ UNCHANGED <<first, bin, descs, layout>>
      BY <1>1 DEF MakeLookup, Die, output
  <2> QED
      BY <2>1, <2>2, FirstRoundKept DEF Writing
<1>2. CASE Accepted
  <2>1. /\ phase' = "outenums"
        /\ UNCHANGED <<first, bin, descs, pkgName, enums, msgs, layout>>
      BY <1>2 DEF MakeLookup, Accepted, tree
  <2> QED
      BY <1>2, <2>1, RoundsKept DEF Writing
<1> QED
    BY <1>1, <1>2 DEF Accepted

\* Nothing is written at the end.
LEMMA FinishKeepsRounds ==
    ASSUME Rounds, Finish \/ UNCHANGED vars
    PROVE  Rounds'
<1>1. CASE Finish
  <2>1. /\ phase = "outmsgs" /\ phase' = "out"
        /\ UNCHANGED <<first, bin, descs, pkgName, enums, msgs, layout>>
      BY <1>1 DEF Finish, tree, output
  <2> QED
      BY <2>1, RoundsKept DEF Rounds, Writing
<1>2. CASE UNCHANGED vars
  <2>1. UNCHANGED <<phase, first, bin, descs, pkgName, enums, msgs, layout>>
      BY <1>2 DEF vars, tree, output
  <2> QED
      BY <2>1, RoundsKept DEF Rounds, SecondRound
<1> QED
    BY <1>1, <1>2

\* Two copies of the same enums are the same.
LEMMA OneCopy ==
    ASSUME NEW es \in Seq(EnumDcl), NEW x \in Seq(BinEnum), NEW y \in Seq(BinEnum),
           Len(x) = Len(es), Len(y) = Len(es),
           \A i \in 1 .. Len(es) : Copied(x[i], es[i]) /\ Copied(y[i], es[i])
    PROVE  x = y
<1>1. Len(es) \in Nat
    BY LenProperties
<1>2. ASSUME NEW i \in 1 .. Len(es) PROVE x[i] = y[i]
  <2>1. PICK p, q : p = x[i] /\ q = y[i]
      OBVIOUS
  <2>2. p \in BinEnum /\ q \in BinEnum
      BY <1>1, <2>1, ElementOfSeq
  <2>3. p.vals \in Seq(0 .. EnumMod - 1) /\ q.vals \in Seq(0 .. EnumMod - 1)
      BY <2>2 DEF BinEnum
  <2>4. /\ p.name = q.name /\ Len(p.vals) = Len(q.vals)
        /\ \A j \in 1 .. Len(p.vals) : p.vals[j] = q.vals[j]
      BY <2>1 DEF Copied
  <2>5. p.vals = q.vals
      BY <2>3, <2>4, SeqEqual
  <2>6. p = [name |-> p.name, vals |-> p.vals] /\ q = [name |-> q.name, vals |-> q.vals]
      BY <2>2 DEF BinEnum
  <2> QED
      BY <2>1, <2>4, <2>5, <2>6
<1> QED
    BY <1>1, <1>2, SeqEqual

\* The steps that write keep the text, and whether it is accepted.
LEMMA SameText ==
    ASSUME UNCHANGED <<enums, msgs>>
    PROVE  Table' = Table /\ Accepted' = Accepted
BY DEF Table, UserTypes, Declared, Redefined, Accepted, TooMany

\* The enums of the second round are those of the first.
LEMMA OutEnumsKeepsRounds ==
    ASSUME BuildInv, BuildInv', Rounds, OutEnums
    PROVE  Rounds'
<1>1. /\ phase = "outenums" /\ phase' = "outmsgs" /\ bin'.pkgName = pkgName
      /\ bin'.msgs = <<>> /\ UNCHANGED <<pkgName, enums, msgs, first, descs, layout>>
    BY DEF OutEnums, tree
<1>2. bin.msgs = <<>>
    BY <1>1 DEF BuildInv, Output, EnumsOut
<1>3. bin'.msgs = bin.msgs /\ Now' = Now
    BY <1>1, <1>2 DEF Now, layout
<1>4. Table' = Table /\ Accepted' = Accepted
    BY <1>1, SameText
<1>5. FirstRound'
    BY <1>1, <1>3 DEF Rounds, FirstRound
<1>6. SecondRound'
  <2> SUFFICES ASSUME first # <<>>
               PROVE  SecondRound'
      BY <1>1 DEF SecondRound
  <2>1. PICK b, H : /\ b \in Binary /\ first = <<b>> /\ Reread(b)
                    /\ Replayed(H, b.msgs, <<>>) /\ Rewritten(b, H)
      BY DEF Rounds, SecondRound
  <2>2. Reread(b)'
      BY <1>1, <1>4, <2>1 DEF Reread
  <2>3. bin'.enums = b.enums
    <3>1. enums \in Seq(EnumDcl)
        BY DEF BuildInv, Tree
    <3>2. /\ bin' \in Binary /\ Len(bin'.enums) = Len(enums)
          /\ \A i \in 1 .. Len(enums) : Copied(bin'.enums[i], enums[i])
        BY <1>1 DEF BuildInv, Output, EnumsOut, Writing
    <3>3. bin'.enums \in Seq(BinEnum) /\ b.enums \in Seq(BinEnum)
        BY <2>1, <3>2 DEF Binary
    <3>4. Len(b.enums) = Len(enums) /\ \A i \in 1 .. Len(enums) : Copied(b.enums[i], enums[i])
        BY <2>1 DEF Reread
    <3>5. \A i \in 1 .. Len(enums) : Copied(bin'.enums[i], enums[i]) /\ Copied(b.enums[i], enums[i])
        BY <3>2, <3>4
    <3> QED
        BY <3>1, <3>2, <3>3, <3>4, <3>5, OneCopy
  <2>4. bin'.pkgName = b.pkgName
      BY <1>1, <2>1 DEF Reread
  <2>5. Rewritten(b, H)'
      BY <1>1, <1>3, <2>1, <2>3, <2>4 DEF Rewritten
  <2>6. Accepted /\ phase' \in Writing
      BY <1>1 DEF Rounds, SecondRound, Writing
  <2>7. first' = <<b>>
      BY <1>1, <2>1
  <2> QED
      BY <1>4, <2>1, <2>2, <2>5, <2>6, <2>7, Zenon DEF SecondRound
<1> QED
    BY <1>1, <1>4, <1>5, <1>6 DEF Rounds

\* The k-th message of the second round is to become that of the first.
LEMMA RereadMessage ==
    ASSUME BuildInv, NEW b \in Binary, Reread(b), NEW k \in 1 .. Len(msgs)
    PROVE  /\ b.msgs[k] \in BinMsg /\ b.msgs[k].name = msgs[k].name
           /\ Len(b.msgs[k].flds) = Len(msgs[k].flds) /\ Len(msgs[k].flds) \in Nat
           /\ Len(b.msgs) = Len(msgs) /\ Len(msgs) \in Nat
           /\ \A i \in 1 .. Len(msgs[k].flds) :
                /\ b.msgs[k].flds[i] \in Desc
                /\ Resolved(Table, b.msgs[k].flds[i], msgs[k].flds[i])
<1>1. b.msgs \in Seq(BinMsg)
    BY DEF Binary
<1>2. Len(b.msgs) = Len(msgs) /\ Finished(Table, b.msgs[k], msgs[k])
    BY DEF Reread
<1>3. Len(msgs) \in Nat
    BY LenProperties DEF BuildInv, Tree
<1>4. b.msgs[k] \in BinMsg
    BY <1>1, <1>2, ElementOfSeq
<1>5. b.msgs[k].flds \in Seq(Desc)
    BY <1>4 DEF BinMsg
<1>6. /\ b.msgs[k].name = msgs[k].name /\ Len(b.msgs[k].flds) = Len(msgs[k].flds)
      /\ \A i \in 1 .. Len(msgs[k].flds) : Resolved(Table, b.msgs[k].flds[i], msgs[k].flds[i])
    BY <1>2 DEF Finished, Translated
<1>7. Len(b.msgs[k].flds) \in Nat
    BY <1>5, LenProperties
<1>8. \A i \in 1 .. Len(msgs[k].flds) : b.msgs[k].flds[i] \in Desc
    BY <1>5, <1>6, ElementOfSeq
<1> QED
    BY <1>2, <1>3, <1>4, <1>6, <1>7, <1>8

\* A field is one more move in the first round, and the same one in the second.
LEMMA OutFieldKeepsRounds ==
    ASSUME BuildInv, Rounds, OutField
    PROVE  Rounds'
<1>1. PICK k, n, f : k = nmsgs + 1 /\ n = Len(descs) /\ f = msgs[k].flds[n + 1]
    OBVIOUS
<1>2. /\ phase = "outmsgs" /\ nmsgs < Len(msgs) /\ n < Len(msgs[k].flds)
      /\ UNCHANGED <<pkgName, enums, msgs, first, bin>>
    BY <1>1 DEF OutField, Die, tree, output
<1>3. types = Table /\ nmsgs = Len(bin.msgs) /\ bin \in Binary /\ descs \in Seq(Desc)
    BY <1>2 DEF BuildInv, Output, TypesKnown, EnumsOut, MsgsOut, Writing, InWork
<1>4. nmsgs \in Nat /\ n \in Nat /\ Len(msgs) \in Nat /\ bin.msgs \in Seq(BinMsg)
    BY <1>1, <1>3, ScalarsKept, LenProperties DEF BuildInv, Tree, Binary
<1>5. k \in 1 .. Len(msgs) /\ k - 1 = nmsgs
    BY <1>1, <1>2, <1>4
<1>6. ASSUME NEW b \in Binary, Reread(b)
      PROVE  /\ n + 1 \in 1 .. Len(b.msgs[k].flds) /\ k \in 1 .. Len(b.msgs)
             /\ b.msgs[k].flds[n + 1] \in Desc
             /\ Resolved(types, b.msgs[k].flds[n + 1], f)
  <2>1. /\ Len(b.msgs[k].flds) = Len(msgs[k].flds) /\ Len(msgs[k].flds) \in Nat
        /\ Len(b.msgs) = Len(msgs)
        /\ \A i \in 1 .. Len(msgs[k].flds) :
             b.msgs[k].flds[i] \in Desc /\ Resolved(Table, b.msgs[k].flds[i], msgs[k].flds[i])
      BY <1>5, <1>6, RereadMessage
  <2>2. n + 1 \in 1 .. Len(msgs[k].flds)
      BY <1>2, <1>4, <2>1
  <2> QED
      BY <1>1, <1>3, <1>5, <2>1, <2>2
<1>7. CASE Die
  <2>1. phase' = "died" /\ UNCHANGED <<bin, descs, layout>>
      BY <1>7 DEF Die, output
  <2>2. f.tname \notin DOMAIN types
      BY <1>1, <1>2, <2>1 DEF OutField
  <2>3. first = <<>>
    <3> SUFFICES ASSUME first # <<>> PROVE FALSE
        OBVIOUS
    <3>1. PICK b \in Binary : Reread(b)
        BY DEF Rounds, SecondRound
    <3> QED
        BY <1>6, <2>2, <3>1 DEF Resolved
  <2> QED
      BY <1>2, <2>1, <2>3, FirstRoundKept DEF Writing
<1>8. CASE ~Die
  <2>1. PICK d \in Desc : /\ descs' = Append(descs, d) /\ FieldMove(Now, d, Now')
                          /\ Resolved(types, d, f) /\ UNCHANGED <<first, bin, nmsgs>>
      BY <1>1, <1>8, FieldMoves
  <2>2. phase' = phase
      BY <1>8 DEF OutField
  <2>3. Table' = Table /\ Accepted' = Accepted
      BY <1>2, SameText
  <2>4. /\ Len(descs') = n + 1 /\ descs'[n + 1] = d /\ \A i \in 1 .. n : descs'[i] = descs[i]
      BY <1>1, <1>3, <2>1, AppendProperties
  <2>5. FirstRound'
    <3> SUFFICES ASSUME first = <<>>
                 PROVE  FirstRound'
        BY <1>2 DEF FirstRound
    <3>1. PICK ms \in Seq(BinMsg), ds \in Seq(Desc) : ms = bin.msgs /\ ds = descs
        BY <1>3, <1>4
    <3>2. PICK x, y : x = Now /\ y = Now'
        OBVIOUS
    <3>3. LeadTo(ms, ds, x) /\ d \in Desc /\ FieldMove(x, d, y)
        BY <2>1, <3>1, <3>2 DEF Rounds, FirstRound
    <3>4. LeadTo(ms, Append(ds, d), y)
        BY <3>3, FieldReplayed
    <3> QED
        BY <1>2, <2>1, <3>1, <3>2, <3>4 DEF FirstRound
  <2>6. SecondRound'
    <3> SUFFICES ASSUME first # <<>>
                 PROVE  SecondRound'
        BY <1>2 DEF SecondRound
    <3>1. PICK b, H : /\ b \in Binary /\ first = <<b>> /\ Reread(b)
                      /\ Replayed(H, b.msgs, <<>>) /\ Rewritten(b, H)
        BY DEF Rounds, SecondRound
    <3>2. PICK e : e = b.msgs[k].flds[n + 1]
        OBVIOUS
    <3>3. /\ n + 1 \in 1 .. Len(b.msgs[k].flds) /\ k \in 1 .. Len(b.msgs)
          /\ e \in Desc /\ Resolved(types, e, f)
        BY <1>6, <3>1, <3>2
    <3>4. PICK j : j = n + 1
        OBVIOUS
    <3>5. j \in 1 .. Len(b.msgs[k].flds) /\ j - 1 = n /\ e = b.msgs[k].flds[j]
        BY <1>4, <3>2, <3>3, <3>4
    <3>6. Now = H[<<k - 1, j - 1>>]
        BY <1>1, <1>3, <1>5, <3>1, <3>5 DEF Rewritten
    <3>7. FieldMove(Now, e, H[<<k - 1, j>>])
      <4>1. \A m \in 1 .. Len(b.msgs) : \A i \in 1 .. Len(b.msgs[m].flds) :
               FieldMove(H[<<m - 1, i - 1>>], b.msgs[m].flds[i], H[<<m - 1, i>>])
          BY <3>1, Zenon DEF Replayed
      <4>2. FieldMove(H[<<k - 1, j - 1>>], b.msgs[k].flds[j], H[<<k - 1, j>>])
          BY <3>3, <3>5, <4>1, Zenon
      <4> QED
          BY <3>5, <3>6, <4>2
    <3>8. Now.pads \in Seq([offset : Nat, size : Nat])
        BY LayoutTyped, NowIs DEF BuildInv
    <3>9. d = e /\ Now' = H[<<k - 1, j>>]
      <4>1. PICK x, y, z : x = Now /\ y = Now' /\ z = H[<<k - 1, j>>]
          OBVIOUS
      <4>2. FieldMove(x, d, y) /\ FieldMove(x, e, z) /\ x.pads \in Seq([offset : Nat, size : Nat])
          BY <2>1, <3>7, <3>8, <4>1
      <4>3. d \in Desc /\ e \in Desc /\ Resolved(types, d, f) /\ Resolved(types, e, f)
          BY <2>1, <3>3
      <4>4. d = e /\ y = z
          BY <4>2, <4>3, OneFieldMove
      <4> QED
          BY <4>1, <4>4
    <3>10. Reread(b)'
        BY <1>2, <2>3, <3>1 DEF Reread
    <3>11. \A i \in 1 .. n + 1 : descs'[i] = b.msgs[k].flds[i]
      <4>1. \A i \in 1 .. n : descs[i] = b.msgs[Len(bin.msgs) + 1].flds[i]
          BY <1>1, <1>2, <1>3, <3>1 DEF Rewritten
      <4>2. \A i \in 1 .. n : descs[i] = b.msgs[k].flds[i]
          BY <1>1, <1>3, <4>1
      <4> QED
          BY <1>4, <2>4, <3>2, <3>9, <4>2
    <3>12. Rewritten(b, H)'
      <4>1. Now' = H[<<Len(bin'.msgs), Len(descs')>>]
          BY <1>2, <1>3, <1>5, <2>4, <3>4, <3>9
      <4>2. \A i \in 1 .. Len(descs') : descs'[i] = b.msgs[Len(bin'.msgs) + 1].flds[i]
          BY <1>1, <1>2, <1>3, <2>4, <3>11
      <4> QED
          BY <1>2, <2>2, <3>1, <4>1, <4>2 DEF Rewritten
    <3>13. Accepted /\ phase' \in Writing \cup {"makelookup", "outenums"}
        BY <2>2 DEF Rounds, SecondRound
    <3>14. first' = <<b>>
        BY <1>2, <3>1
    <3> QED
        BY <2>3, <3>1, <3>10, <3>12, <3>13, <3>14, Zenon DEF SecondRound
  <2> QED
      BY <2>2, <2>3, <2>5, <2>6 DEF Rounds
<1> QED
    BY <1>7, <1>8

\* The size of a message leaves no choice either.
LEMMA OneMessageMove ==
    ASSUME NEW x, NEW m, NEW y, NEW n, NEW z, MessageMove(x, m, y), MessageMove(x, n, z)
    PROVE  m.ssize = n.ssize /\ m.psize = n.psize /\ y = z
BY DEF MessageMove

\* So a message of the second round is that of the first.
LEMMA OutMsgKeepsRounds ==
    ASSUME BuildInv, Rounds, OutMsg
    PROVE  Rounds'
<1>1. PICK k, n : k = nmsgs + 1 /\ n = Len(descs)
    OBVIOUS
<1>2. /\ phase = "outmsgs" /\ nmsgs < Len(msgs) /\ n = Len(msgs[k].flds)
      /\ Layout!EndMessage /\ descs' = <<>> /\ UNCHANGED <<phase, pkgName, enums, msgs, first>>
    BY <1>1 DEF OutMsg, tree
<1>3. nmsgs = Len(bin.msgs) /\ bin \in Binary /\ descs \in Seq(Desc)
    BY <1>2 DEF BuildInv, Output, EnumsOut, MsgsOut, Writing, InWork
<1>4. nmsgs \in Nat /\ n \in Nat /\ Len(msgs) \in Nat /\ bin.msgs \in Seq(BinMsg)
    BY <1>1, <1>3, ScalarsKept, LenProperties DEF BuildInv, Tree, Binary
<1>5. k \in 1 .. Len(msgs) /\ k - 1 = nmsgs /\ k \in Nat
    BY <1>1, <1>2, <1>4
<1>6. PICK new : new = [name |-> msgs[k].name, flds |-> descs,
                        ssize |-> done'.ssize, psize |-> done'.psize]
    OBVIOUS
<1>7. bin' = [bin EXCEPT !.msgs = Append(bin.msgs, new)]
    BY <1>1, <1>6 DEF OutMsg
<1>8. new \in BinMsg
  <2>1. done'.ssize \in Nat /\ done'.psize \in Nat
      BY <1>2, MessageStep, ScalarsKept DEF BuildInv
  <2>2. msgs[k] \in MsgDcl
      BY <1>5, ElementOfSeq DEF BuildInv, Tree
  <2> QED
      BY <1>3, <1>6, <2>1, <2>2 DEF BinMsg, MsgDcl
<1>9. MessageMove(Now, new, Now')
  <2>1. new.ssize = done'.ssize /\ new.psize = done'.psize
      BY <1>6
  <2> QED
      BY <1>2, <2>1, MessageMoves
<1>10. bin'.msgs = Append(bin.msgs, new) /\ bin'.pkgName = bin.pkgName /\ bin'.enums = bin.enums
    BY <1>3, <1>7 DEF Binary
<1>11. /\ Len(bin'.msgs) = k /\ bin'.msgs[k] = new
       /\ \A i \in 1 .. nmsgs : bin'.msgs[i] = bin.msgs[i]
    BY <1>1, <1>3, <1>4, <1>8, <1>10, AppendProperties
<1>12. Len(descs') = 0
    BY <1>2
<1>13. Table' = Table /\ Accepted' = Accepted
    BY <1>2, SameText
<1>14. FirstRound'
  <2> SUFFICES ASSUME first = <<>>
               PROVE  FirstRound'
      BY <1>2 DEF FirstRound
  <2>1. PICK ms \in Seq(BinMsg) : ms = bin.msgs
      BY <1>4
  <2>2. PICK x, y, none : x = Now /\ y = Now' /\ none = descs'
      OBVIOUS
  <2>3. LeadTo(ms, new.flds, x) /\ new \in BinMsg /\ MessageMove(x, new, y) /\ Len(none) = 0
      BY <1>6, <1>8, <1>9, <1>12, <2>1, <2>2 DEF Rounds, FirstRound
  <2>4. LeadTo(Append(ms, new), none, y)
      BY <2>3, MessageReplayed
  <2> QED
      BY <1>10, <2>1, <2>2, <2>4 DEF FirstRound
<1>15. SecondRound'
  <2> SUFFICES ASSUME first # <<>>
               PROVE  SecondRound'
      BY <1>2 DEF SecondRound
  <2>1. PICK b, H : /\ b \in Binary /\ first = <<b>> /\ Reread(b)
                    /\ Replayed(H, b.msgs, <<>>) /\ Rewritten(b, H)
      BY DEF Rounds, SecondRound
  <2>2. PICK e : e = b.msgs[k]
      OBVIOUS
  <2>3. /\ e \in BinMsg /\ e.name = msgs[k].name /\ Len(e.flds) = n
        /\ k \in 1 .. Len(b.msgs)
      BY <1>2, <1>5, <2>1, <2>2, RereadMessage
  <2>4. e.flds = descs
    <3>1. e.flds \in Seq(Desc)
        BY <2>3 DEF BinMsg
    <3>2. \A i \in 1 .. Len(descs) : descs[i] = b.msgs[Len(bin.msgs) + 1].flds[i]
        BY <1>2, <1>3, <2>1 DEF Rewritten
    <3>3. \A i \in 1 .. Len(e.flds) : e.flds[i] = descs[i]
        BY <1>1, <1>3, <2>2, <2>3, <3>2
    <3> QED
        BY <1>1, <1>3, <2>3, <3>1, <3>3, SeqEqual
  <2>5. Now = H[<<k - 1, n>>]
      BY <1>1, <1>3, <1>5, <2>1 DEF Rewritten
  <2>6. MessageMove(Now, e, H[<<k, 0>>])
    <3>1. \A m \in 1 .. Len(b.msgs) :
             MessageMove(H[<<m - 1, Len(b.msgs[m].flds)>>], b.msgs[m], H[<<m, 0>>])
        BY <2>1, Zenon DEF Replayed
    <3>2. MessageMove(H[<<k - 1, Len(b.msgs[k].flds)>>], b.msgs[k], H[<<k, 0>>])
        BY <2>3, <3>1, Zenon
    <3> QED
        BY <2>2, <2>3, <2>5, <3>2
  <2>7. e.ssize = new.ssize /\ e.psize = new.psize /\ Now' = H[<<k, 0>>]
    <3>1. PICK x, y, z : x = Now /\ y = Now' /\ z = H[<<k, 0>>]
        OBVIOUS
    <3>2. MessageMove(x, new, y) /\ MessageMove(x, e, z)
        BY <1>9, <2>6, <3>1
    <3>3. new.ssize = e.ssize /\ new.psize = e.psize /\ y = z
        BY <3>2, OneMessageMove
    <3> QED
        BY <3>1, <3>3
  <2>8. e = new
    <3>1. e = [name |-> e.name, flds |-> e.flds, ssize |-> e.ssize, psize |-> e.psize]
        BY <2>3 DEF BinMsg
    <3>2. new = [name |-> new.name, flds |-> new.flds, ssize |-> new.ssize, psize |-> new.psize]
        BY <1>8 DEF BinMsg
    <3>3. new.name = e.name /\ new.flds = e.flds
        BY <1>6, <2>3, <2>4
    <3> QED
        BY <2>7, <3>1, <3>2, <3>3
  <2>9. Reread(b)'
      BY <1>2, <1>13, <2>1 DEF Reread
  <2>10. Rewritten(b, H)'
    <3>1. Now' = H[<<Len(bin'.msgs), Len(descs')>>]
        BY <1>11, <1>12, <2>7
    <3>2. \A i \in 1 .. Len(bin'.msgs) : bin'.msgs[i] = b.msgs[i]
      <4>1. \A i \in 1 .. nmsgs : bin.msgs[i] = b.msgs[i]
          BY <1>3, <2>1 DEF Rewritten
      <4>2. bin'.msgs[k] = b.msgs[k]
          BY <1>11, <2>2, <2>8
      <4>3. \A i \in 1 .. k : i = k \/ i \in 1 .. nmsgs
          BY <1>4, <1>5
      <4> QED
          BY <1>11, <4>1, <4>2, <4>3
    <3>3. phase' = phase /\ bin'.pkgName = bin.pkgName /\ bin'.enums = bin.enums
        BY <1>2, <1>10
    <3> QED
        BY <1>12, <2>1, <3>1, <3>2, <3>3 DEF Rewritten
  <2>11. Accepted /\ phase' \in Writing \cup {"makelookup", "outenums"}
      BY <1>2 DEF Rounds, SecondRound
  <2>12. first' = <<b>>
      BY <1>2, <2>1
  <2> QED
      BY <1>13, <2>1, <2>9, <2>10, <2>11, <2>12, Zenon DEF SecondRound
<1> QED
    BY <1>2, <1>13, <1>14, <1>15 DEF Rounds

\* An enum that is printed and read has the values it had.
LEMMA EnumCopied ==
    ASSUME NEW e \in BinEnum
    PROVE  Copied(e, PrintEnum(e))
<1>0. EnumMod \in Nat \ {0}
    BY BuildAssumption
<1>1. PICK vals \in Seq(0 .. EnumMod - 1) : vals = e.vals
    BY DEF BinEnum
<1>2. DOMAIN vals = 1 .. Len(vals) /\ Len(vals) \in Nat
    BY LenProperties
<1>3. PICK vs : vs = [j \in DOMAIN vals |-> [eq |-> vals[j], val |-> vals[j] % EnumMod]]
    OBVIOUS
<1>4. PrintEnum(e) = [name |-> e.name, vals |-> vs]
    BY <1>1, <1>3 DEF PrintEnum
<1>5. ASSUME NEW j \in 1 .. Len(vals) PROVE vs[j].val = vals[j]
  <2>1. PICK x \in 0 .. EnumMod - 1 : x = vals[j]
      BY <1>2, ElementOfSeq
  <2>2. x % EnumMod = x
      BY <1>0, ModSmall
  <2> QED
      BY <1>2, <1>3, <2>1, <2>2
<1>6. Len(vs) = Len(vals)
  <2>1. vs \in [1 .. Len(vals) -> {vs[j] : j \in 1 .. Len(vals)}]
      BY <1>2, <1>3
  <2> QED
      BY <1>2, <2>1, FunctionIsSeq
<1> QED
    BY <1>1, <1>4, <1>5, <1>6 DEF Copied

\* The printed text declares the same names.
LEMMA PrintedText ==
    ASSUME BuildInv, BuildInv', PrintSchema
    PROVE  /\ msgs' = msgs /\ Table' = Table /\ Accepted' = Accepted
           /\ Len(enums') = Len(enums)
           /\ \A i \in 1 .. Len(enums) : Copied(bin.enums[i], enums'[i])
<1>1. /\ phase = "out"
      /\ enums' = [i \in DOMAIN bin.enums |-> PrintEnum(bin.enums[i])]
      /\ msgs' = [i \in DOMAIN bin.msgs |-> PrintMsgType(bin, bin.msgs[i])]
    BY DEF PrintSchema
<1>2. /\ Len(msgs) \in Nat /\ Len(enums) \in Nat /\ bin \in Binary
      /\ Len(bin.msgs) = Len(msgs) /\ Len(bin.enums) = Len(enums)
      /\ \A i \in 1 .. Len(enums) :
           bin.enums[i] \in BinEnum /\ Copied(bin.enums[i], enums[i])
    BY <1>1, FinishedSchema
<1>3. bin.enums \in Seq(BinEnum) /\ bin.msgs \in Seq(BinMsg)
    BY <1>2 DEF Binary
<1>4. DOMAIN bin.enums = 1 .. Len(enums) /\ DOMAIN bin.msgs = 1 .. Len(msgs)
    BY <1>2, <1>3, LenProperties
<1>5. /\ enums' \in Seq(EnumDcl) /\ msgs' \in Seq(MsgDcl)
      /\ enums \in Seq(EnumDcl) /\ msgs \in Seq(MsgDcl)
    BY DEF BuildInv, Tree
<1>6. DOMAIN enums' = 1 .. Len(enums) /\ DOMAIN msgs' = 1 .. Len(msgs)
    BY <1>1, <1>4
<1>7. /\ DOMAIN enums = 1 .. Len(enums) /\ DOMAIN msgs = 1 .. Len(msgs)
      /\ Len(enums') = Len(enums) /\ Len(msgs') = Len(msgs)
  <2>1. DOMAIN enums' = 1 .. Len(enums') /\ Len(enums') \in Nat
      BY <1>5, LenProperties
  <2>2. DOMAIN msgs' = 1 .. Len(msgs') /\ Len(msgs') \in Nat
      BY <1>5, LenProperties
  <2>3. DOMAIN enums = 1 .. Len(enums) /\ DOMAIN msgs = 1 .. Len(msgs)
      BY <1>5, LenProperties
  <2> QED
      BY <1>2, <1>6, <2>1, <2>2, <2>3
<1>8. msgs' = msgs
  <2>1. \A k \in 1 .. Len(msgs) : msgs'[k] = msgs[k]
      BY <1>1, <1>4, MessagePrinted
  <2> QED
      BY <1>5, <1>7, <2>1, SeqEqual
<1>9. \A i \in 1 .. Len(enums) : enums'[i] = PrintEnum(bin.enums[i])
    BY <1>1, <1>4
<1>10. \A i \in 1 .. Len(enums) : Copied(bin.enums[i], enums'[i])
    BY <1>2, <1>9, EnumCopied
<1>11. \A i \in 1 .. Len(enums) : enums'[i].name = enums[i].name
    BY <1>2, <1>10 DEF Copied
<1>12. Declared' = Declared
  <2>1. [i \in DOMAIN enums |-> enums[i].name]' = [i \in DOMAIN enums |-> enums[i].name]
      BY <1>6, <1>7, <1>11
  <2> QED
      BY <1>8, <2>1 DEF Declared
<1>13. Table' = Table /\ Accepted' = Accepted
    BY <1>7, <1>8, <1>12 DEF Table, UserTypes, Redefined, Accepted, TooMany
<1> QED
    BY <1>7, <1>8, <1>10, <1>13

\* The second round starts from the first binary schema.
LEMMA PrintSchemaKeepsRounds ==
    ASSUME BuildInv, BuildInv', Rounds, PrintSchema
    PROVE  Rounds'
<1>1. /\ phase = "out" /\ first = <<>> /\ first' = <<bin>> /\ phase' = "makelookup"
      /\ pkgName' = bin.pkgName /\ bin' = EmptySchema /\ descs' = <<>>
      /\ ssize' = 0 /\ psize' = 0 /\ alignment' = 0
      /\ pads' = <<>> /\ link' = 0 /\ bitOffs' = 0
    BY DEF PrintSchema
<1>2. /\ Len(msgs) \in Nat /\ bin \in Binary
      /\ Len(bin.msgs) = Len(msgs) /\ Len(bin.enums) = Len(enums)
      /\ \A k \in 1 .. Len(msgs) : Finished(Table, bin.msgs[k], msgs[k])
    BY <1>1, FinishedSchema
<1>3. /\ msgs' = msgs /\ Table' = Table /\ Accepted' = Accepted
      /\ Len(enums') = Len(enums)
      /\ \A i \in 1 .. Len(enums) : Copied(bin.enums[i], enums'[i])
    BY PrintedText
<1>4. Accepted
    BY <1>1 DEF Rounds, Writing
<1>5. PICK b \in Binary : b = bin
    BY <1>2
<1>6. PICK none, none2 : none = descs' /\ none2 = bin'.msgs
    OBVIOUS
<1>7. Len(none) = 0 /\ Len(none2) = 0
    BY <1>1, <1>6, EmptyBinary
<1>8. PICK H : Replayed(H, b.msgs, descs)
    BY <1>1, <1>5 DEF Rounds, FirstRound, LeadTo
<1>9. Replayed(H, b.msgs, none)
    BY <1>7, <1>8 DEF Replayed
<1>10. Now' = H[<<0, 0>>]
  <2>1. Now' = Start
      BY <1>1 DEF Now, Start
  <2> QED
      BY <1>8, <2>1 DEF Replayed
<1>11. Reread(b)'
    BY <1>1, <1>2, <1>3, <1>5 DEF Reread
<1>12. Rewritten(b, H)'
  <2>1. Now' = H[<<Len(bin'.msgs), Len(descs')>>]
      BY <1>6, <1>7, <1>10
  <2>2. Len(bin'.msgs) = 0 /\ Len(descs') = 0 /\ phase' \notin Writing
      BY <1>1, <1>6, <1>7 DEF Writing
  <2> QED
      BY <2>1, <2>2 DEF Rewritten
<1>13. Replayed(H, b.msgs, <<>>)
  <2>1. none = <<>>
      BY <1>1, <1>6
  <2> QED
      BY <1>9, <2>1
<1>14. first' = <<b>> /\ first' # <<>>
    BY <1>1, <1>5
<1>15. SecondRound'
    BY <1>1, <1>3, <1>4, <1>5, <1>11, <1>12, <1>13, <1>14, Zenon DEF SecondRound
<1> QED
    BY <1>1, <1>14, <1>15 DEF Rounds, FirstRound, Writing

\* Every step keeps the invariant.
LEMMA StepKeepsRounds ==
    ASSUME BuildInv, BuildInv', Rounds, [Next]_vars
    PROVE  Rounds'
<1>1. CASE \/ PackageOpt \/ EndDcl \/ EndOfInput \/ SyntaxError
           \/ \E name \in Names : DclEnum(name) \/ DclMessage(name)
           \/ \E eq \in input.vals : EnumField(eq)
           \/ \E d \in input.flds : MsgField(d)
  <2>1. /\ phase \in {"package_opt", "dcl_list", "enum", "message"}
        /\ phase' \notin Writing \cup {"outenums"} /\ UNCHANGED <<first, output, layout>>
      BY <1>1 DEF PackageOpt, EndDcl, EndOfInput, SyntaxError, Die, DclEnum, DclMessage,
                  EnumField, MsgField, Writing
  <2> QED
      BY <2>1, ReadingKeepsRounds
<1>2. CASE MakeLookup
    BY <1>2, MakeLookupKeepsRounds
<1>3. CASE OutEnums
    BY <1>3, OutEnumsKeepsRounds
<1>4. CASE OutField
    BY <1>4, OutFieldKeepsRounds
<1>5. CASE OutMsg
    BY <1>5, OutMsgKeepsRounds
<1>6. CASE Finish \/ UNCHANGED vars
    BY <1>6, FinishKeepsRounds
<1>7. CASE PrintSchema
    BY <1>7, PrintSchemaKeepsRounds
<1> QED
    BY <1>1, <1>2, <1>3, <1>4, <1>5, <1>6, <1>7 DEF Next

\* A schema the compiler accepted and printed again is accepted, and compiles
\* to the same binary schema (typestr, makelookup, outenums and outmsgs), for
\* every text.
THEOREM BuildReadsBack == Spec => []SchemaReadsBack
<1>1. ASSUME BuildInv, Rounds PROVE SchemaReadsBack
  <2> SUFFICES ASSUME first # <<>>
               PROVE  phase # "died" /\ (phase = "out" => bin = first[1])
      BY DEF SchemaReadsBack
  <2>1. phase # "died"
      BY <1>1 DEF Rounds, SecondRound, Writing
  <2>2. ASSUME phase = "out" PROVE bin = first[1]
    <3>1. PICK b, H : b \in Binary /\ first = <<b>> /\ Reread(b) /\ Rewritten(b, H)
        BY <1>1 DEF Rounds, SecondRound
    <3>2. bin \in Binary /\ Len(bin.msgs) = Len(msgs)
        BY <1>1, <2>2, FinishedSchema
    <3>3. bin.pkgName = b.pkgName /\ bin.enums = b.enums
        BY <2>2, <3>1 DEF Rewritten, Writing
    <3>4. bin.msgs = b.msgs
      <4>1. bin.msgs \in Seq(BinMsg) /\ b.msgs \in Seq(BinMsg)
          BY <3>1, <3>2 DEF Binary
      <4>2. Len(bin.msgs) = Len(b.msgs) /\ \A k \in 1 .. Len(bin.msgs) : bin.msgs[k] = b.msgs[k]
          BY <3>1, <3>2 DEF Reread, Rewritten
      <4> QED
          BY <4>1, <4>2, SeqEqual
    <3>5. bin = [pkgName |-> bin.pkgName, enums |-> bin.enums, msgs |-> bin.msgs]
        BY <3>2 DEF Binary
    <3>6. b = [pkgName |-> b.pkgName, enums |-> b.enums, msgs |-> b.msgs]
        BY <3>1 DEF Binary
    <3>7. bin = b
        BY <3>3, <3>4, <3>5, <3>6
    <3>8. first[1] = b
        BY <3>1
    <3> QED
        BY <3>7, <3>8
  <2> QED
      BY <2>1, <2>2
<1>2. Init => BuildInv /\ Rounds
    BY InitialBuild, InitialRounds
<1>3. BuildInv /\ Rounds /\ [Next]_vars => (BuildInv /\ Rounds)'
  <2> HAVE BuildInv /\ Rounds /\ [Next]_vars
  <2>1. BuildInv'
      BY StepKeepsBuild
  <2> QED
      BY <2>1, StepKeepsRounds
<1>4. BuildInv /\ Rounds => SchemaReadsBack
    BY <1>1
<1> QED
    BY <1>2, <1>3, <1>4, PTL DEF Spec
=============================================================================

----------------------------- MODULE NbufParse ------------------------------
(***************************************************************************)
(* nbuf_parse (lib/parse.c): the recursive descent parser that turns the   *)
(* textual form of a message into a message, one step for each token it    *)
(* asks the lexer for.  The recursion of parse_msg is a stack of frames.   *)
(* The strings that the lexer allocates for names and strings are known by *)
(* the place of their token in the text.                                   *)
(*                                                                         *)
(* In the first round the lexer may deliver any tokens of the input's set. *)
(* A message that was accepted is printed by nbuf_print and parsed again   *)
(* in the second round, as a decoder followed by an encoder does.          *)
(***************************************************************************)
EXTENDS NbufText

CONSTANT
    Inputs            \* what is parsed: records of the type (root) of the
                      \* message, the tokens the lexer may deliver and their
                      \* number at most (max)

ASSUME InputAssumption == \A I \in Inputs : I.root \in DOMAIN Schema

VARIABLES
    pc,               \* where the parser is
    token,            \* p->token
    read,             \* tokens delivered so far
    strs,             \* strings of tokens that are allocated
    us,               \* p->l->u.s.base: one of them, or 0 for NULL
    stack,            \* the active calls of parse_msg: [obj, type, field, name]
                      \* with name the string field_name points to, or 0
    objs,             \* the message under construction
    ok,               \* the result so far
    errors,           \* number of errors the parser reported
    round,            \* 1 or 2
    input,            \* member of Inputs
    printed,          \* the message that round 1 left, as nbuf_print walks it
    script            \* what it prints, which round 2 parses

heap == <<strs, us>>
vars == <<pc, token, read, heap, stack, objs, ok, errors, round, input,
          printed, script>>

Eof == Char("EOF")

\* nbuf_lex: what may come next.  After the end of the file it comes again.
NextTokens ==
    IF round = 2
    THEN {IF Len(read) < Len(script) THEN script[Len(read) + 1] ELSE Eof}
    ELSE IF Len(read) = input.max \/ (read # <<>> /\ Last(read) = Eof) THEN {Eof}
    ELSE input.tokens \cup {Eof}

HasString(t) == t[1] \in {"ID", "STR"}

\* The next token, with the strings kept and u.s.base as they are then.  A number
\* is stored over u.s.base, which is no string from then on.
NEXT(kept, base) ==
    \E t \in NextTokens :
        /\ token' = t /\ read' = Append(read, t)
        /\ strs' = IF HasString(t) THEN kept \cup {Len(read) + 1} ELSE kept
        /\ us' = IF HasString(t) THEN Len(read) + 1
                 ELSE IF t[1] \in {"INT", "FLT"} THEN 0 ELSE base

Frame(obj, type, field, name) ==
    [obj |-> obj, type |-> type, field |-> field, name |-> name]
NoField == [kind |-> "none"]

\* The strings free_tok frees
TokenString == IF HasString(token) THEN {us} ELSE {}

\* The field names of the k outermost calls
NamesOf(k) == {stack[d].name : d \in 1 .. k}

Top == stack[Len(stack)]
Kind == token[1]

\* The innermost call has field for its current field and name for field_name.
Working(field, name) ==
    [stack EXCEPT ![Len(stack)] = Frame(Top.obj, Top.type, field, name)]

Stay == UNCHANGED <<round, input, printed, script>>

\* nbuf_parse up to the first call of parse_msg; the first token is read.
Init ==
    /\ input \in Inputs
    /\ pc = "loop"
    /\ \E t \in input.tokens \cup {Eof} :
          /\ token = t /\ read = <<t>>
          /\ strs = IF HasString(t) THEN {1} ELSE {}
          /\ us = IF HasString(t) THEN 1 ELSE 0
    /\ stack = <<Frame(1, input.root, NoField, 0)>>
    /\ objs = <<Blank(input.root)>>
    /\ ok = TRUE
    /\ errors = 0
    /\ round = 1
    /\ printed = <<>> /\ script = <<>>

\* An error is reported and false returned, through every active call.  The
\* calls freed the given strings; EXPECT returns without freeing.
Fail(freed) ==
    /\ errors' = errors + 1
    /\ ok' = FALSE
    /\ pc' = "end"
    /\ strs' = strs \ freed
    /\ UNCHANGED <<token, read, us, stack, objs>> /\ Stay

\* Mutant of UnknownField: the rest of the message is skipped.
UnknownFieldSkip ==
    /\ pc = "loop" /\ Kind = "ID"
    /\ token[2] \notin FieldNames(Top.type)
    /\ errors' = errors + 1
    /\ pc' = "loop"
    /\ NEXT(strs \ {us}, 0)
    /\ UNCHANGED <<stack, objs, ok>> /\ Stay

\* Mutant of UnknownField: the name is not taken away from the lexer.
UnknownFieldShared ==
    /\ pc = "loop" /\ Kind = "ID"
    /\ token[2] \notin FieldNames(Top.type)
    /\ errors' = errors + 1
    /\ pc' = "return"
    /\ strs' = strs \ {us}
    /\ UNCHANGED <<token, read, us, stack, objs, ok>> /\ Stay

\* A name that is no field: the error is reported but ok stays true, and
\* parse_msg returns with the name still in p->token.  Its string was taken
\* from the lexer (steal) and is freed.
UnknownField ==
    /\ pc = "loop" /\ Kind = "ID"
    /\ token[2] \notin FieldNames(Top.type)
    /\ errors' = errors + 1
    /\ pc' = "return"
    /\ strs' = strs \ {us} /\ us' = 0
    /\ UNCHANGED <<token, read, stack, objs, ok>> /\ Stay

\* Whether the field is a pointer that was set before.
SetBefore(f) == f.kind = "PTR" /\ ~f.list /\ objs[Top.obj].val[f.tag0] # 0

DuplicateField ==
    /\ pc = "loop" /\ Kind = "ID"
    /\ token[2] \in FieldNames(Top.type)
    /\ SetBefore(FindField(Top.type, token[2]))
    /\ errors' = errors + 1
    /\ pc' = "return"
    /\ strs' = strs \ {us} /\ us' = 0
    /\ UNCHANGED <<token, read, stack, objs, ok>> /\ Stay

\* nbuf_ref_init_ptr: a list grows by one element (an object for a list of
\* messages), a pointer gets its object; in objects os, field f of object k.
InitPtr(os, k, f) ==
    LET grown == IF f.kind = "PTR" THEN Append(os, Blank(f.sub)) ELSE os
        elem == IF f.kind = "PTR" THEN Len(grown) ELSE Unset([f EXCEPT !.list = FALSE])
    IN  IF f.list THEN [grown EXCEPT ![k].val[f.tag0] = Append(@, elem)]
        ELSE IF f.kind = "PTR" THEN [grown EXCEPT ![k].val[f.tag0] = elem]
        ELSE grown

\* A field's name: the place for its value is made before the value is seen.
FieldName ==
    /\ pc = "loop" /\ Kind = "ID"
    /\ token[2] \in FieldNames(Top.type)
    /\ LET f == FindField(Top.type, token[2]) IN
       /\ ~SetBefore(f)
       /\ objs' = InitPtr(objs, Top.obj, f)
       /\ stack' = Working(f, us)
    /\ NEXT(strs, 0)
    /\ pc' = "colon"
    /\ UNCHANGED <<ok, errors>> /\ Stay

\* ':' is required unless the field is a message.
Colon ==
    /\ pc = "colon" /\ Kind = ":"
    /\ NEXT(strs, us)
    /\ pc' = "value"
    /\ UNCHANGED <<stack, objs, ok, errors>> /\ Stay

NoColon ==
    /\ pc = "colon" /\ Kind # ":"
    /\ \/ Top.field.kind # "PTR" /\ Fail(NamesOf(Len(stack) - 1))
       \/ /\ Top.field.kind = "PTR"
          /\ pc' = "value"
          /\ UNCHANGED <<token, read, heap, stack, objs, ok, errors>> /\ Stay

\* l->u.i after the lexer stored the number n with strtoll or strtoull: the
\* parser reads it as signed.
Signed(n) == IF n >= WordMod \div 2 THEN n - WordMod ELSE n

\* The integer of m values that is n cut to its width
Cut(n, m) == {x \in 0 .. m - 1 : (n - x) % m = 0}

\* nbuf_put_f32 or nbuf_put_f64 of x halves
Narrow(x, size) ==
    IF x > Largest[size] THEN Inf
    ELSE IF x < -Largest[size] THEN -Inf
    ELSE Rounded(x, Exact[size])

\* The values that parse_bool, parse_enum, parse_int, parse_float and
\* parse_str take from the token for field f: none, or one.
Parsed(f) ==
    CASE f.kind = "BOOL" ->
           IF Kind = "INT" THEN {Signed(token[2]) # 0}
           ELSE IF Kind = "ID" /\ token[2] \in {"true", "false"} THEN {token[2] = "true"}
           ELSE {}
      [] f.kind = "ENUM" ->
           IF Kind = "INT" THEN Cut(Signed(token[2]), EnumMod)
           ELSE IF Kind = "ID" /\ HasName(token[2]) THEN Cut(EnumValue(token[2]), EnumMod)
           ELSE {}
      [] f.kind = "INT" -> IF Kind = "INT" THEN Cut(Signed(token[2]), IntMod) ELSE {}
      [] f.kind = "FLOAT" ->
           IF Kind = "INT" THEN {Narrow(2 * Signed(token[2]), f.sub)}
           ELSE IF Kind = "FLT" THEN {Narrow(token[2], f.sub)}
           ELSE {}
      [] f.kind = "STR" -> IF Kind \in {"STR", "ID"} THEN {token[2]} ELSE {}
      [] OTHER -> {}

\* Mutant of Put: a value goes to the first element of a list.
PutFirst(os, k, f, v) ==
    IF f.list THEN [os EXCEPT ![k].val[f.tag0][1] = v]
    ELSE [os EXCEPT ![k].val[f.tag0] = v]

\* nbuf_ref_put_...: into the element that nbuf_ref_init_ptr made.  The first
\* element of a list of bool is not stored (see NbufWriter, AppendFirst).
Put(os, k, f, v) ==
    IF ~f.list THEN [os EXCEPT ![k].val[f.tag0] = v]
    ELSE IF f.kind = "BOOL" /\ Len(os[k].val[f.tag0]) = 1 THEN os
    ELSE [os EXCEPT ![k].val[f.tag0][Len(os[k].val[f.tag0])] = v]

Value ==
    /\ pc = "value" /\ Top.field.kind # "PTR"
    /\ \E v \in Parsed(Top.field) : objs' = Put(objs, Top.obj, Top.field, v)
    /\ NEXT(strs \ TokenString, IF HasString(token) THEN 0 ELSE us)
    /\ pc' = "separator"
    /\ UNCHANGED <<stack, ok, errors>> /\ Stay

\* parse_str does not look at the token: the assertion that the lexer holds
\* a string fails, as no other token sets u.s.len, which steal made 0 when it
\* took the field's name.  parse_enum formats a token that is neither a number
\* nor a name with %s.
Stops ==
    \/ Top.field.kind = "STR"
    \/ Top.field.kind = "ENUM" /\ Kind \notin {"INT", "ID"}

BadValue ==
    /\ pc = "value" /\ Top.field.kind # "PTR"
    /\ Parsed(Top.field) = {}
    /\ \/ ~Stops /\ Fail(NamesOf(Len(stack)))
       \/ /\ Stops
          /\ pc' = "stopped"
          /\ UNCHANGED <<token, read, heap, stack, objs, ok, errors>> /\ Stay

\* Mutant of Open: the nested message is parsed as one of the outer type.
OpenSameType ==
    /\ pc = "value" /\ Top.field.kind = "PTR" /\ Kind = "{"
    /\ stack' = Append(stack, Frame(Len(objs), Top.type, NoField, 0))
    /\ NEXT(strs, us)
    /\ pc' = "loop"
    /\ UNCHANGED <<objs, ok, errors>> /\ Stay

\* '{' begins the nested message that InitPtr made last.
Open ==
    /\ pc = "value" /\ Top.field.kind = "PTR" /\ Kind = "{"
    /\ stack' = Append(stack, Frame(Len(objs), Top.field.sub, NoField, 0))
    /\ NEXT(strs, us)
    /\ pc' = "loop"
    /\ UNCHANGED <<objs, ok, errors>> /\ Stay

NoOpen ==
    /\ pc = "value" /\ Top.field.kind = "PTR" /\ Kind # "{"
    /\ Fail(NamesOf(Len(stack) - 1))

\* The end of an iteration of parse_msg's loop, where field_name is freed
Separator ==
    /\ pc = "separator"
    /\ \/ Kind \in {",", ";"} /\ NEXT(strs \ {Top.name}, us)
       \/ /\ Kind \notin {",", ";"}
          /\ strs' = strs \ {Top.name}
          /\ UNCHANGED <<token, read, us>>
    /\ stack' = Working(Top.field, 0)
    /\ pc' = "loop"
    /\ UNCHANGED <<objs, ok, errors>> /\ Stay

\* No more fields: parse_msg returns.
EndOfFields ==
    /\ pc = "loop" /\ Kind # "ID"
    /\ pc' = "return"
    /\ UNCHANGED <<token, read, heap, stack, objs, ok, errors>> /\ Stay

\* Back in the enclosing call, which requires '}'.
Return ==
    /\ pc = "return" /\ Len(stack) > 1
    /\ \/ /\ Kind = "}"
          /\ stack' = Front(stack)
          /\ NEXT(strs, us) /\ pc' = "separator"
          /\ UNCHANGED <<objs, ok, errors>> /\ Stay
       \/ Kind # "}" /\ Fail(NamesOf(Len(stack) - 2))

\* Back in nbuf_parse, which requires the end of the file.  nbuf_serialize, at
\* its end, changes nothing in the message (NbufBuilder, SerializeKeepsMessage).
ReturnToNbufParse ==
    /\ pc = "return" /\ Len(stack) = 1
    /\ \/ Kind # "EOF" /\ Fail(TokenString)
       \/ /\ Kind = "EOF"
          /\ pc' = "end"
          /\ UNCHANGED <<token, read, heap, stack, objs, ok, errors>> /\ Stay

\* The message is printed, and the text parsed.
PrintAndParse ==
    /\ pc = "end" /\ ok /\ round = 1
    /\ round' = 2
    /\ printed' = Walk(objs)
    /\ script' = NbufPrint(printed')
    /\ pc' = "loop"
    /\ LET t == IF script' = <<>> THEN Eof ELSE script'[1] IN
       /\ token' = t /\ read' = <<t>>
       /\ strs' = IF HasString(t) THEN {1} ELSE {}
       /\ us' = IF HasString(t) THEN 1 ELSE 0
    /\ stack' = <<Frame(1, input.root, NoField, 0)>>
    /\ objs' = <<Blank(input.root)>>
    /\ errors' = 0
    /\ UNCHANGED <<ok, input>>

Next ==
    \/ UnknownField \/ DuplicateField \/ FieldName
    \/ Colon \/ NoColon
    \/ Value \/ BadValue \/ Open \/ NoOpen
    \/ Separator \/ EndOfFields
    \/ Return \/ ReturnToNbufParse
    \/ PrintAndParse

Spec == Init /\ [][Next]_vars

-----------------------------------------------------------------------------
(* Properties *)

\* The objects are well typed, every pointer leads to an object of its
\* field's type that was made later, and the stack follows pointers.
TypeOK ==
    /\ pc \in {"loop", "colon", "value", "separator", "return", "end", "stopped"}
    /\ input \in Inputs
    /\ ok \in BOOLEAN /\ errors \in Nat /\ round \in {1, 2}
    /\ \A k \in DOMAIN objs : \A i \in DOMAIN Schema[objs[k].type] :
         LET f == Schema[objs[k].type][i]
             v == objs[k].val[f.tag0]
             targets == IF f.list THEN Range(v) ELSE {v} \ {0}
         IN  /\ f.kind = "PTR" => \A t \in targets :
                    t \in k + 1 .. Len(objs) /\ objs[t].type = f.sub
             /\ f.kind = "INT" => \A x \in targets : x \in 0 .. IntMod - 1
    /\ \A d \in DOMAIN stack :
         /\ stack[d].type = objs[stack[d].obj].type
         /\ d > 1 => stack[d].obj > stack[d - 1].obj

\* nbuf_parse returns false exactly if an error was reported, although
\* parse_msg returns true for an unknown or repeated field.
FailsIffReported == pc = "end" => (ok <=> errors = 0)

\* Every string the lexer allocated has one owner who will free it: the lexer
\* until its token is dealt with, or field_name of a call of parse_msg, which
\* stole it; no freed string is reachable from either.  So nothing is freed
\* twice, an accepted text leaves nothing allocated, and a rejected one at most
\* the field name and the token at which an EXPECT or a parse_ function gave up.
StringsOwned ==
    LET names == {d \in DOMAIN stack : stack[d].name # 0}
        owned == NamesOf(Len(stack)) \cup TokenString
    IN  /\ pc \notin {"end", "stopped"} =>
              /\ strs = owned \ {0}
              /\ Cardinality(strs) = Cardinality(names) + Cardinality(TokenString \ {0})
        /\ pc = "end" /\ ok => strs = {}
        /\ pc = "end" => Cardinality(strs) <= 2

\* The object that the token at i is written in, from the braces before it:
\* objects are numbered in the order of their '{'.
Opened(i) == Cardinality({j \in 1 .. i : read[j] = Char("{")})
Closed(i, j) == Cardinality({x \in i .. j : read[x] = Char("}")})
              >= Cardinality({x \in i .. j : read[x] = Char("{")})
Enclosing(i) ==
    {1} \cup {Opened(j) + 1 : j \in {x \in 1 .. i - 1 :
        read[x] = Char("{") /\ \A y \in x .. i - 1 : ~Closed(x, y)}}
OwnerOf(i) == Max(Enclosing(i))

\* Where a value of the field named n of object k is written.
WrittenAt(k, n) ==
    {i \in 1 .. Len(read) - 2 :
        read[i] = <<"ID", n>> /\ read[i + 1] = Char(":") /\ OwnerOf(i) = k}

\* x is a float of that size, and none is nearer to n halves.
Representable(x, size) ==
    /\ x \in -Exact[size] .. Exact[size] \/ x % 2 = 0
    /\ x \in -Largest[size] .. Largest[size]
Nearest(x, n, size) ==
    IF n \in -Largest[size] .. Largest[size]
    THEN /\ Representable(x, size)
         /\ \A y \in n - 1 .. n + 1 : Representable(y, size) => (x - n) ^ 2 <= (y - n) ^ 2
    ELSE x = IF n > 0 THEN Inf ELSE -Inf

\* Whether x is what the text at i says of field f.  (Of a float it says no more
\* if a whole number of 2^63 or more is written, which is stored unsigned and
\* taken for a negative one.)
Says(f, i, x) ==
    LET t == read[i + 2] IN
    CASE f.kind = "INT"   -> x = t[2] % IntMod
      [] f.kind = "BOOL"  -> x = (t = <<"ID", "true">> \/ (t[1] = "INT" /\ t[2] # 0))
      [] f.kind = "STR"   -> x = t[2]
      [] f.kind = "FLOAT" -> IF t[1] = "FLT" THEN Nearest(x, t[2], f.sub)
                             ELSE t[2] < WordMod \div 2 => Nearest(x, 2 * t[2], f.sub)
      [] f.kind = "ENUM"  -> x = (IF t[1] = "INT" THEN t[2] ELSE EnumValue(t[2])) % EnumMod

\* A message that was accepted holds what is written, where it is written:
\* user.md's description of the textual form.  A list has its values in the
\* order of the text, a scalar the last one, whatever was written between
\* them and however deep; nothing else is set, and of the fields that share a
\* name only the first one is.
AcceptedAsWritten ==
    pc = "end" /\ ok => \A k \in DOMAIN objs : \A i \in DOMAIN Schema[objs[k].type] :
        LET T == objs[k].type
            f == Schema[T][i]
            v == objs[k].val[f.tag0]
            at == IF f = FindField(T, f.name) THEN WrittenAt(k, f.name) ELSE {}
        IN  f.kind # "PTR" =>
              IF f.list
              THEN /\ Len(v) = Cardinality(at)
                   /\ \A j \in DOMAIN v : Says(f, SetToSortSeq(at, <)[j], v[j])
              ELSE IF at = {} THEN v = Unset(f) ELSE Says(f, Max(at), v)

NamedOnce(T) ==
    \A i, j \in DOMAIN Schema[T] : Schema[T][i].name = Schema[T][j].name => i = j

Infinite(visit) == visit.field.kind = "FLOAT" /\ visit.val \in {Inf, -Inf}

\* A float that is no decimal of the digits it is printed with.
LosesDigits(visit) ==
    /\ visit.field.kind = "FLOAT" /\ ~Infinite(visit)
    /\ visit.val % 2 # 0 /\ visit.val \notin -Digits[visit.field.sub] .. Digits[visit.field.sub]

\* What nbuf_print writes of an accepted message is accepted again, is the same
\* message but for floats that take more digits than are printed, and prints
\* alike: user.md, the compiler as "encoder / decoder".  (An infinite float is
\* printed as a word that no float field takes, so the text is refused.  In a
\* message with two fields of one name both are printed, and both values go
\* to the first.)
PrintedIsParsed ==
    round = 2 /\ pc \in {"end", "stopped"} /\ (\A k \in DOMAIN objs : NamedOnce(objs[k].type)) =>
        /\ pc = "end"
        /\ ok <=> \A j \in DOMAIN printed : ~Infinite(printed[j])
        /\ ok => \E again \in {Walk(objs)} :
             /\ Len(again) = Len(printed)
             /\ \A j \in DOMAIN printed : again[j] = printed[j] \/ LosesDigits(printed[j])
             /\ NbufPrint(again) = script
=============================================================================

-------------------------- MODULE NbufParse_proofs --------------------------
(***************************************************************************)
(* Proofs about nbuf_parse, for every schema, every set of inputs and      *)
(* every depth of nesting: which result it returns, who frees the strings  *)
(* that the lexer allocates, and that the message is well typed.           *)
(***************************************************************************)
EXTENDS NbufParse, FiniteSetTheorems, FunctionTheorems, SequenceTheorems,
        WellFoundedInduction, TLAPS

Labels == {"loop", "colon", "value", "separator", "return", "end", "stopped"}

\* Until the parser is at its end nothing has failed, and an error that was
\* reported without failing is an unknown or repeated name: its token is still
\* the current one when parse_msg returns, where no caller accepts a name.
ErrorsLeadToFailure ==
    /\ pc \in Labels /\ ok \in BOOLEAN /\ errors \in Nat
    /\ pc \notin {"end", "stopped"} => ok
    /\ errors # 0 => \/ pc = "return" /\ Kind = "ID"
                     \/ pc = "end" /\ ~ok
    /\ pc = "end" /\ ~ok => errors # 0

\* After a failure an error has been reported.
LEMMA FailReports ==
    ASSUME ErrorsLeadToFailure, NEW freed, Fail(freed)
    PROVE  ErrorsLeadToFailure'
<1>1. errors' \in Nat /\ errors' # 0
    BY DEF ErrorsLeadToFailure, Fail
<1>2. pc' = "end" /\ ok' = FALSE
    BY DEF Fail
<1> QED
    BY <1>1, <1>2, Zenon DEF ErrorsLeadToFailure, Labels

\* nbuf_parse returns false exactly if an error was reported, for every schema
\* and every text: ok stays true at an unknown or repeated field of parse_msg,
\* but the '}' of the enclosing call or the EOF of nbuf_parse is then missing.
THEOREM ParseFailsIffReported == Spec => []FailsIffReported
<1>1. Init => ErrorsLeadToFailure
    BY DEF Init, ErrorsLeadToFailure, Labels
<1>2. ErrorsLeadToFailure /\ [Next]_vars => ErrorsLeadToFailure'
  <2> SUFFICES ASSUME ErrorsLeadToFailure, [Next]_vars
               PROVE  ErrorsLeadToFailure'
      OBVIOUS
  <2> USE DEF ErrorsLeadToFailure, Labels, Kind
  <2>1. CASE UnknownField
      BY <2>1 DEF UnknownField
  <2>2. CASE DuplicateField
      BY <2>2 DEF DuplicateField
  <2>3. CASE FieldName
      BY <2>3 DEF FieldName
  <2>4. CASE Colon \/ NoColon
      BY <2>4, FailReports DEF Colon, NoColon
  <2>5. CASE Value \/ BadValue
      BY <2>5, FailReports DEF Value, BadValue
  <2>6. CASE Open \/ NoOpen
      BY <2>6, FailReports DEF Open, NoOpen
  <2>7. CASE Separator
      BY <2>7 DEF Separator
  <2>8. CASE EndOfFields
      BY <2>8 DEF EndOfFields
  <2>9. CASE Return \/ ReturnToNbufParse
      BY <2>9, FailReports DEF Return, ReturnToNbufParse
  <2>10. CASE PrintAndParse
      BY <2>10 DEF PrintAndParse
  <2>11. CASE UNCHANGED vars
      BY <2>11 DEF vars
  <2> QED
      BY <2>1, <2>2, <2>3, <2>4, <2>5, <2>6, <2>7, <2>8, <2>9, <2>10, <2>11 DEF Next
<1>3. ErrorsLeadToFailure => FailsIffReported
    BY DEF ErrorsLeadToFailure, FailsIffReported
<1> QED
    BY <1>1, <1>2, <1>3, PTL DEF Spec

-----------------------------------------------------------------------------
(* Who frees the strings of the tokens *)

Running == pc \notin {"end", "stopped"}

\* The names that the active calls hold, from the outermost one on.
Names == [d \in 1 .. Len(stack) |-> stack[d].name]
Held == {Names[d] : d \in 1 .. Len(stack)}

\* The calls of parse_msg, as far as the strings are concerned.
Calls ==
    /\ stack \in Seq(Range(stack)) /\ stack # <<>>
    /\ Names \in [1 .. Len(stack) -> 0 .. Len(read) - 1]
    /\ \A d, e \in 1 .. Len(stack) : d # e => Names[d] # Names[e] \/ Names[d] = 0
    /\ pc \in {"loop", "return"} => Names[Len(stack)] = 0

\* The lexer's string is the one of the last token, unless parse_msg stole it
\* and freed it when the name was none of a field.
Lexer ==
    /\ read \in Seq(Range(read)) /\ read # <<>>
    /\ HasString(token) => us = Len(read) \/ (us = 0 /\ pc = "return")

\* The names of the calls are strings of tokens before the last one and differ,
\* so each string has one owner.
Ownership ==
    /\ Running => Calls /\ Lexer /\ strs = (Held \cup TokenString) \ {0}
    /\ pc = "end" /\ ok => strs = {}
    /\ pc = "end" => \E a, b \in 0 .. Len(read) : strs \subseteq {a, b}

\* A sequence with another element behind it, whatever the element is.
LEMMA Appended ==
    ASSUME NEW S, NEW s \in Seq(S), NEW x
    PROVE  /\ Append(s, x) \in Seq(Range(Append(s, x))) /\ Append(s, x) # <<>>
           /\ Len(Append(s, x)) = Len(s) + 1
           /\ \A d \in DOMAIN s : Append(s, x)[d] = s[d]
           /\ Append(s, x)[Len(s) + 1] = x
<1>1. PICK T : T = S \cup {x}
    OBVIOUS
<1>2. s \in Seq(T) /\ x \in T /\ DOMAIN s = 1 .. Len(s)
    BY <1>1, SeqMonotonic
<1>3. /\ Append(s, x) \in Seq(T) /\ Append(s, x) # <<>>
      /\ Len(Append(s, x)) = Len(s) + 1
      /\ \A d \in 1 .. Len(s) : Append(s, x)[d] = s[d]
      /\ Append(s, x)[Len(s) + 1] = x
    BY <1>2, AppendProperties
<1>4. Append(s, x) \in Seq(Range(Append(s, x)))
    BY <1>3, SeqOfRange, Zenon
<1> QED
    BY <1>2, <1>3, <1>4, Zenon

\* What the lexer delivers: a string, if the token has one, that is newer than
\* all strings before it and belongs to the lexer.
LEMMA NextToken ==
    ASSUME read \in Seq(Range(read)), NEW kept, NEW base, NEXT(kept, base)
    PROVE  /\ read' \in Seq(Range(read')) /\ read' # <<>> /\ Len(read') = Len(read) + 1
           /\ HasString(token') => us' = Len(read')
           /\ strs' = kept \cup TokenString' /\ 0 \notin TokenString'
<1>1. PICK t \in NextTokens :
        /\ token' = t /\ read' = Append(read, t)
        /\ strs' = IF HasString(t) THEN kept \cup {Len(read) + 1} ELSE kept
        /\ us' = IF HasString(t) THEN Len(read) + 1
                 ELSE IF t[1] \in {"INT", "FLT"} THEN 0 ELSE base
    BY DEF NEXT
<1>2. read' \in Seq(Range(read')) /\ read' # <<>> /\ Len(read') = Len(read) + 1
    BY <1>1, Appended
<1>3. TokenString' = IF HasString(token') THEN {us'} ELSE {}
    BY DEF TokenString, HasString
<1>4. Len(read) \in Nat
    OBVIOUS
<1> QED
    BY <1>1, <1>2, <1>3, <1>4

\* The innermost call gets another name; the others keep theirs.
LEMMA Renamed ==
    ASSUME Calls, NEW f, NEW x, stack' = Working(f, x)
    PROVE  /\ stack' \in Seq(Range(stack')) /\ stack' # <<>> /\ Len(stack') = Len(stack)
           /\ Names' = [d \in 1 .. Len(stack) |-> IF d = Len(stack) THEN x ELSE Names[d]]
<1> DEFINE r == Frame(Top.obj, Top.type, f, x)
<1>1. stack \in Seq(Range(stack) \cup {r}) /\ r \in Range(stack) \cup {r}
    BY SeqMonotonic DEF Calls
<1>2. Len(stack) \in 1 .. Len(stack) /\ DOMAIN stack = 1 .. Len(stack) /\ Len(stack) \in Nat \ {0}
    BY <1>1, LenProperties, EmptySeq DEF Calls
<1>3. /\ stack' \in Seq(Range(stack) \cup {r}) /\ Len(stack') = Len(stack)
      /\ \A d \in 1 .. Len(stack) : stack'[d] = IF d = Len(stack) THEN r ELSE stack[d]
    BY <1>1, <1>2, ExceptSeq DEF Working
<1>4. stack' \in Seq(Range(stack')) /\ stack' # <<>>
    BY <1>2, <1>3, SeqOfRange, EmptySeq
<1>5. r.name = x
    BY DEF Frame
<1>6. \A d \in 1 .. Len(stack) :
         stack'[d].name = IF d = Len(stack) THEN x ELSE stack[d].name
    BY <1>3, <1>5
<1> QED
    BY <1>3, <1>4, <1>6 DEF Names

\* A call has at least one frame, and a text at least one token.
LEMMA SomeCall ==
    ASSUME Calls, Lexer
    PROVE  /\ DOMAIN stack = 1 .. Len(stack) /\ Len(stack) \in Nat /\ Len(stack) >= 1
           /\ Len(read) \in Nat /\ Len(read) >= 1
<1>1. DOMAIN stack = 1 .. Len(stack) /\ Len(stack) \in Nat \ {0}
    BY LenProperties, EmptySeq DEF Calls
<1>2. Len(read) \in Nat \ {0}
    BY EmptySeq DEF Lexer
<1> QED
    BY <1>1, <1>2

\* A failing step leaves what its calls did not free.
LEMMA FailLeaves ==
    ASSUME NEW freed, Fail(freed), NEW a \in 0 .. Len(read), NEW b \in 0 .. Len(read),
           strs \ freed \subseteq {a, b}
    PROVE  Ownership'
<1>1. pc' = "end" /\ ok' = FALSE /\ strs' = strs \ freed /\ read' = read
    BY DEF Fail
<1>2. ~Running'
    BY <1>1 DEF Running
<1> QED
    BY <1>1, <1>2, Zenon DEF Ownership

\* The strings of the calls are the ones that are not the token's.
LEMMA CallsOwnTheRest ==
    ASSUME Ownership, Running
    PROVE  /\ strs \ TokenString = Held \ {0}
           /\ ~HasString(token) => strs = Held \ {0}
           /\ pc # "return" /\ HasString(token) => TokenString = {us} /\ us = Len(read)
<1>1. Calls /\ Lexer /\ strs = (Held \cup TokenString) \ {0}
    BY DEF Ownership
<1>2. Len(read) \in Nat /\ Len(read) >= 1
    BY <1>1, SomeCall
<1>3. \A x \in Held : x # Len(read)
    BY <1>1, <1>2 DEF Held, Calls
<1>4. TokenString \subseteq {0, Len(read)}
    BY <1>1 DEF TokenString, Lexer
<1>5. strs \ TokenString = Held \ {0}
    BY <1>1, <1>3, <1>4
<1>6. ~HasString(token) => TokenString = {}
    BY DEF TokenString
<1>7. pc # "return" /\ HasString(token) => TokenString = {us} /\ us = Len(read)
    BY <1>1 DEF TokenString, Lexer
<1> QED
    BY <1>5, <1>6, <1>7

\* The calls stay as they are while the text is read on.
LEMMA SameCalls ==
    ASSUME Calls, Lexer, stack' = stack, Len(read') \in Nat, Len(read') >= Len(read),
           pc' \in {"loop", "return"} => Names[Len(stack)] = 0
    PROVE  Calls' /\ Held' = Held
<1>1. Len(read) \in Nat
    BY SomeCall
<1>2. Names' = Names
    BY DEF Names
<1>3. Held' = Held
    BY <1>2 DEF Held
<1>4. Names \in [1 .. Len(stack) -> 0 .. Len(read') - 1]
    BY <1>1 DEF Calls
<1> QED
    BY <1>2, <1>3, <1>4 DEF Calls

\* After a token was read the lexer owns its string and the calls the kept ones.
LEMMA AfterToken ==
    ASSUME Lexer, NEW kept, NEW base, NEXT(kept, base), pc' \notin {"end", "stopped"},
           Calls', kept = Held' \ {0}
    PROVE  Ownership'
<1>1. /\ read' \in Seq(Range(read')) /\ read' # <<>> /\ Len(read') = Len(read) + 1
      /\ HasString(token') => us' = Len(read')
      /\ strs' = kept \cup TokenString' /\ 0 \notin TokenString'
    BY NextToken DEF Lexer
<1>2. Lexer'
    BY <1>1 DEF Lexer, HasString
<1>3. strs' = (Held' \cup TokenString') \ {0}
    BY <1>1
<1> QED
    BY <1>2, <1>3 DEF Ownership

\* The name of a field passes from the lexer to the call.
LEMMA FieldNameOwned ==
    ASSUME Ownership, FieldName
    PROVE  Ownership'
<1>1. /\ pc = "loop" /\ HasString(token) /\ pc' = "colon"
      /\ \E f : stack' = Working(f, us)
      /\ NEXT(strs, 0)
    BY DEF FieldName, Kind, HasString
<1>2. Calls /\ Lexer /\ strs = (Held \cup {us}) \ {0} /\ us = Len(read)
    BY <1>1 DEF Ownership, Running, Lexer, TokenString
<1>3. /\ read' \in Seq(Range(read')) /\ read' # <<>> /\ Len(read') = Len(read) + 1
      /\ HasString(token') => us' = Len(read')
      /\ strs' = strs \cup TokenString' /\ 0 \notin TokenString'
    BY <1>1, <1>2, NextToken DEF Lexer
<1>4. /\ stack' \in Seq(Range(stack')) /\ stack' # <<>> /\ Len(stack') = Len(stack)
      /\ Names' = [d \in 1 .. Len(stack) |-> IF d = Len(stack) THEN us ELSE Names[d]]
    BY <1>1, <1>2, Renamed
<1>5. /\ Len(stack) \in Nat /\ Len(stack) >= 1
      /\ Len(read) \in Nat /\ Len(read) >= 1 /\ Names[Len(stack)] = 0
    BY <1>1, <1>2, SomeCall DEF Calls
<1>6. Calls'
  <2>1. Names' \in [1 .. Len(stack) -> 0 .. Len(read') - 1]
      BY <1>2, <1>3, <1>4, <1>5 DEF Calls
  <2>2. \A d, e \in 1 .. Len(stack) : d # e => Names'[d] # Names'[e] \/ Names'[d] = 0
      BY <1>2, <1>4, <1>5 DEF Calls
  <2> QED
      BY <1>1, <1>4, <2>1, <2>2 DEF Calls
<1>7. Held' \ {0} = (Held \cup {us}) \ {0}
    BY <1>4, <1>5 DEF Held
<1>8. strs = Held' \ {0}
    BY <1>2, <1>7
<1> QED
    BY <1>1, <1>2, <1>6, <1>8, AfterToken

\* The name of no field, or of a pointer that was set: its string is freed.
LEMMA NameRefused ==
    ASSUME Ownership, UnknownField \/ DuplicateField
    PROVE  Ownership'
<1>1. /\ pc = "loop" /\ HasString(token) /\ pc' = "return"
      /\ strs' = strs \ {us} /\ us' = 0 /\ UNCHANGED <<token, read, stack>>
    BY DEF UnknownField, DuplicateField, Kind, HasString
<1>2. Running /\ Running' /\ Calls /\ Lexer
    BY <1>1 DEF Running, Ownership
<1>3. TokenString = {us} /\ strs' = Held \ {0}
    BY <1>1, <1>2, CallsOwnTheRest
<1>4. Calls' /\ Held' = Held
    BY <1>1, <1>2, SameCalls, SomeCall DEF Calls
<1>5. Lexer'
    BY <1>1, <1>2 DEF Lexer
<1>6. TokenString' = {0}
    BY <1>1 DEF TokenString, HasString
<1>7. strs' = (Held' \cup TokenString') \ {0}
    BY <1>3, <1>4, <1>6
<1> QED
    BY <1>1, <1>4, <1>5, <1>7 DEF Ownership

\* ':' has no string, and the string of a value is freed when it was taken.
LEMMA ValueOwned ==
    ASSUME Ownership, Colon \/ Value
    PROVE  Ownership'
<1>1. /\ Running /\ pc' \in {"value", "separator"} /\ stack' = stack
      /\ \E base : NEXT(strs \ TokenString, base)
  <2>1. CASE Colon
    <3>1. pc = "colon" /\ token[1] = ":" /\ NEXT(strs, us) /\ pc' = "value" /\ stack' = stack
        BY <2>1 DEF Colon, Kind
    <3>2. strs \ TokenString = strs
        BY <3>1 DEF TokenString, HasString
    <3> QED
        BY <3>1, <3>2 DEF Running
  <2>2. CASE Value
    <3>1. /\ pc = "value" /\ pc' = "separator" /\ stack' = stack
          /\ NEXT(strs \ TokenString, IF HasString(token) THEN 0 ELSE us)
        BY <2>2 DEF Value
    <3> QED
        BY <3>1 DEF Running
  <2> QED
      BY <2>1, <2>2
<1>2. Calls /\ Lexer /\ strs \ TokenString = Held \ {0}
    BY <1>1, CallsOwnTheRest DEF Ownership
<1>3. Len(read') = Len(read) + 1
    BY <1>1, <1>2, NextToken DEF Lexer
<1>4. Calls' /\ Held' = Held
    BY <1>1, <1>2, <1>3, SameCalls, SomeCall
<1> QED
    BY <1>1, <1>2, <1>4, AfterToken

\* A nested message: its call begins without a name.
LEMMA OpenOwned ==
    ASSUME Ownership, Open
    PROVE  Ownership'
<1>1. /\ pc = "value" /\ ~HasString(token) /\ NEXT(strs, us) /\ pc' = "loop"
      /\ stack' = Append(stack, Frame(Len(objs), Top.field.sub, NoField, 0))
    BY DEF Open, Kind, HasString
<1>2. Running /\ Calls /\ Lexer
    BY <1>1 DEF Running, Ownership
<1>3. strs = Held \ {0}
    BY <1>1, <1>2, CallsOwnTheRest
<1>4. Len(read') = Len(read) + 1
    BY <1>1, <1>2, NextToken DEF Lexer
<1>5. /\ Len(stack) \in Nat /\ Len(stack) >= 1 /\ DOMAIN stack = 1 .. Len(stack)
      /\ Len(read) \in Nat /\ Len(read) >= 1
    BY <1>2, SomeCall
<1>6. PICK f : stack' = Append(stack, f) /\ f.name = 0
    BY <1>1 DEF Frame
<1>7. /\ stack' \in Seq(Range(stack')) /\ stack' # <<>> /\ Len(stack') = Len(stack) + 1
      /\ \A d \in 1 .. Len(stack) : stack'[d] = stack[d]
      /\ stack'[Len(stack) + 1] = f
    BY <1>2, <1>5, <1>6, Appended DEF Calls
<1>8. Names' = [d \in 1 .. Len(stack) + 1 |-> IF d = Len(stack) + 1 THEN 0 ELSE Names[d]]
    BY <1>5, <1>6, <1>7 DEF Names
<1>9. Calls'
  <2>1. Names' \in [1 .. Len(stack') -> 0 .. Len(read') - 1]
      BY <1>2, <1>4, <1>5, <1>7, <1>8 DEF Calls
  <2>2. \A d, e \in 1 .. Len(stack') : d # e => Names'[d] # Names'[e] \/ Names'[d] = 0
      BY <1>2, <1>5, <1>7, <1>8 DEF Calls
  <2>3. Names'[Len(stack')] = 0
      BY <1>5, <1>7, <1>8
  <2> QED
      BY <1>1, <1>7, <2>1, <2>2, <2>3 DEF Calls
<1>10. Held' \ {0} = Held \ {0}
    BY <1>5, <1>7, <1>8 DEF Held
<1> QED
    BY <1>1, <1>2, <1>3, <1>9, <1>10, AfterToken

\* A nested message ends: its call holds no name.
LEMMA ReturnOwned ==
    ASSUME Ownership, pc = "return", Len(stack) > 1, ~HasString(token),
           stack' = Front(stack),
           NEXT(strs, us), pc' = "separator"
    PROVE  Ownership'
<1>1. Running /\ Calls /\ Lexer
    BY DEF Running, Ownership
<1>2. strs = Held \ {0}
    BY <1>1, CallsOwnTheRest
<1>3. Len(read') = Len(read) + 1
    BY <1>1, NextToken DEF Lexer
<1>4. /\ Len(stack) \in Nat /\ Len(stack) >= 1 /\ DOMAIN stack = 1 .. Len(stack)
      /\ Len(read) \in Nat /\ Len(read) >= 1 /\ Names[Len(stack)] = 0
    BY <1>1, SomeCall DEF Calls
<1>5. PICK n \in Nat : n >= 1 /\ Len(stack) = n + 1
  <2>1. /\ Len(stack) - 1 \in Nat /\ Len(stack) - 1 >= 1
        /\ Len(stack) = (Len(stack) - 1) + 1
      BY <1>4
  <2> QED
      BY <2>1
<1>6. /\ stack' \in Seq(Range(stack)) /\ Len(stack') = n
      /\ \A d \in 1 .. n : stack'[d] = stack[d]
  <2>1. stack' = SubSeq(stack, 1, n)
      BY <1>5 DEF Front
  <2>2. \A d \in 1 .. n : stack[d] \in Range(stack)
      BY <1>5, <1>4 DEF Range
  <2> QED
      BY <2>1, <2>2, <1>5, SubSeqProperties
<1>7. stack' \in Seq(Range(stack')) /\ stack' # <<>>
    BY <1>5, <1>6, SeqOfRange, EmptySeq
<1>8. Names' = [d \in 1 .. n |-> Names[d]]
    BY <1>5, <1>6 DEF Names
<1>9. Calls'
  <2>1. Names' \in [1 .. Len(stack') -> 0 .. Len(read') - 1]
      BY <1>5, <1>1, <1>3, <1>4, <1>6, <1>8 DEF Calls
  <2>2. \A d, e \in 1 .. Len(stack') : d # e => Names'[d] # Names'[e] \/ Names'[d] = 0
      BY <1>5, <1>1, <1>4, <1>6, <1>8 DEF Calls
  <2> QED
      BY <1>7, <2>1, <2>2 DEF Calls
<1>10. Held' \ {0} = Held \ {0}
    BY <1>5, <1>4, <1>6, <1>8 DEF Held
<1> QED
    BY <1>1, <1>2, <1>9, <1>10, AfterToken

\* field_name is freed at the end of the iteration.
LEMMA SeparatorOwned ==
    ASSUME Ownership, Separator
    PROVE  Ownership'
<1>1. /\ pc = "separator" /\ pc' = "loop" /\ stack' = Working(Top.field, 0)
      /\ \/ ~HasString(token) /\ NEXT(strs \ {Top.name}, us)
         \/ strs' = strs \ {Top.name} /\ UNCHANGED <<token, read, us>>
    BY DEF Separator, Kind, HasString
<1>2. Running /\ Calls /\ Lexer
    BY <1>1 DEF Running, Ownership
<1>3. Len(stack) \in Nat /\ Len(stack) >= 1 /\ Len(read) \in Nat /\ Len(read) >= 1
    BY <1>2, SomeCall
<1>4. /\ stack' \in Seq(Range(stack')) /\ stack' # <<>> /\ Len(stack') = Len(stack)
      /\ Names' = [d \in 1 .. Len(stack) |-> IF d = Len(stack) THEN 0 ELSE Names[d]]
    BY <1>1, <1>2, Renamed
<1>5. Top.name = Names[Len(stack)]
    BY <1>3 DEF Top, Names
<1>6. ASSUME Len(read') \in Nat, Len(read') >= Len(read)
      PROVE  Calls'
  <2>1. Names' \in [1 .. Len(stack) -> 0 .. Len(read') - 1]
      BY <1>2, <1>3, <1>4, <1>6 DEF Calls
  <2>2. \A d, e \in 1 .. Len(stack) : d # e => Names'[d] # Names'[e] \/ Names'[d] = 0
      BY <1>2, <1>3, <1>4 DEF Calls
  <2>3. Names'[Len(stack)] = 0
      BY <1>3, <1>4
  <2> QED
      BY <1>1, <1>4, <2>1, <2>2, <2>3 DEF Calls
<1>7. Held' \ {0} = (Held \ {0}) \ {Names[Len(stack)]}
  <2>1. ASSUME NEW d \in 1 .. Len(stack), Names[d] # 0, Names[d] # Names[Len(stack)]
        PROVE  Names[d] \in Held'
      BY <1>3, <1>4, <2>1 DEF Held
  <2>2. ASSUME NEW d \in 1 .. Len(stack), Names'[d] # 0
        PROVE  Names'[d] \in (Held \ {0}) \ {Names[Len(stack)]}
    <3>1. d # Len(stack) /\ Names'[d] = Names[d]
        BY <1>4, <2>2
    <3>2. Names[d] # Names[Len(stack)]
        BY <1>2, <1>3, <2>2, <3>1 DEF Calls
    <3> QED
        BY <2>2, <3>1, <3>2 DEF Held
  <2> QED
      BY <1>4, <2>1, <2>2 DEF Held
<1>8. CASE ~HasString(token) /\ NEXT(strs \ {Top.name}, us)
  <2>1. Len(read') = Len(read) + 1
      BY <1>2, <1>8, NextToken DEF Lexer
  <2>2. Calls'
      BY <1>3, <1>6, <2>1
  <2>3. strs = Held \ {0}
      BY <1>2, <1>8, CallsOwnTheRest
  <2>4. strs \ {Top.name} = Held' \ {0}
      BY <1>5, <1>7, <2>3
  <2> QED
      BY <1>1, <1>2, <1>8, <2>2, <2>4, AfterToken
<1>9. CASE strs' = strs \ {Top.name} /\ UNCHANGED <<token, read, us>>
  <2>1. Calls'
      BY <1>3, <1>6, <1>9
  <2>2. Lexer'
      BY <1>1, <1>2, <1>9 DEF Lexer
  <2>3. TokenString' = TokenString
      BY <1>9 DEF TokenString, HasString
  <2>4. Names[Len(stack)] \notin TokenString
    <3>1. Names[Len(stack)] < Len(read)
        BY <1>2, <1>3 DEF Calls
    <3> QED
        BY <1>1, <1>2, <1>3, <3>1, CallsOwnTheRest DEF TokenString
  <2>5. strs' = (Held' \cup TokenString') \ {0}
      BY <1>2, <1>5, <1>7, <1>9, <2>3, <2>4 DEF Ownership
  <2> QED
      BY <1>1, <2>1, <2>2, <2>5 DEF Ownership
<1> QED
    BY <1>1, <1>8, <1>9

\* A failing step whose calls freed their names but for one leaves that one and
\* the token's string at most.
LEMMA FailOwned ==
    ASSUME Ownership, Running, NEW freed, Fail(freed), NEW i \in 1 .. Len(stack),
           \A d \in 1 .. Len(stack) : d # i => Names[d] \in freed \cup {0}
    PROVE  Ownership'
<1>1. Calls /\ Lexer /\ strs = (Held \cup TokenString) \ {0}
    BY DEF Ownership
<1>2. Len(read) \in Nat /\ Len(read) >= 1 /\ Names[i] \in 0 .. Len(read)
    BY <1>1, SomeCall DEF Calls
<1>3. PICK b \in 0 .. Len(read) : TokenString \subseteq {b}
    BY <1>1, <1>2 DEF TokenString, Lexer
<1>4. strs \ freed \subseteq {Names[i], b}
    BY <1>1, <1>3 DEF Held
<1> QED
    BY <1>2, <1>3, <1>4, FailLeaves

\* The names that a failing call's callers free, as numbers of the calls.
LEMMA FreedNames ==
    ASSUME Calls, NEW k \in Int, k <= Len(stack), NEW d \in 1 .. Len(stack), d <= k
    PROVE  Names[d] \in NamesOf(k)
BY DEF Names, NamesOf

\* The parser has read its first token.
Begun ==
    /\ pc = "loop" /\ read = <<token>>
    /\ strs = IF HasString(token) THEN {1} ELSE {}
    /\ us = IF HasString(token) THEN 1 ELSE 0
    /\ stack = <<Frame(1, input.root, NoField, 0)>>

\* Then the lexer owns its string.
LEMMA BegunOwned == Begun => Ownership
<1> SUFFICES ASSUME Begun PROVE Ownership
    OBVIOUS
<1>1. /\ stack \in Seq({stack[1]}) /\ Len(stack) = 1 /\ stack # <<>>
      /\ stack[1] = Frame(1, input.root, NoField, 0)
    BY DEF Begun
<1>2. /\ read \in Seq({token}) /\ Len(read) = 1 /\ read # <<>>
    BY DEF Begun
<1>3. stack \in Seq(Range(stack)) /\ read \in Seq(Range(read))
    BY <1>1, <1>2, SeqOfRange
<1>4. stack[1].name = 0
    BY <1>1 DEF Frame
<1>5. Names = [d \in 1 .. 1 |-> 0]
    BY <1>1, <1>4 DEF Names
<1>6. Held = {0}
    BY <1>1, <1>5 DEF Held
<1>7. Calls
    BY <1>1, <1>2, <1>3, <1>5 DEF Calls
<1>8. Lexer
    BY <1>2, <1>3 DEF Begun, Lexer
<1>9. strs = (Held \cup TokenString) \ {0}
    BY <1>6 DEF Begun, TokenString
<1> QED
    BY <1>7, <1>8, <1>9 DEF Begun, Ownership

\* A step that only moves the parser on.
LEMMA MovedOn ==
    ASSUME Ownership, Running, UNCHANGED <<token, read, strs, us, stack>>,
           pc # "return", pc' \in {"value", "return"}, pc' = "return" => pc = "loop"
    PROVE  Ownership'
<1>1. Calls /\ Lexer /\ strs = (Held \cup TokenString) \ {0}
    BY DEF Ownership
<1>2. Calls' /\ Held' = Held
    BY <1>1, SameCalls, SomeCall DEF Calls
<1>3. TokenString' = TokenString
    BY DEF TokenString, HasString
<1>4. Lexer'
    BY <1>1 DEF Lexer, HasString
<1> QED
    BY <1>1, <1>2, <1>3, <1>4 DEF Ownership

\* No step of the parser leaves a string without an owner or with two.
LEMMA StepKeepsOwnership ==
    ASSUME Ownership, [Next]_vars
    PROVE  Ownership'
<1>0. ASSUME Running
      PROVE  /\ Calls /\ Lexer
             /\ Len(stack) \in Nat /\ Len(stack) >= 1 /\ Len(read) \in Nat
    BY <1>0, SomeCall DEF Ownership
<1>1. CASE UnknownField \/ DuplicateField
    BY <1>1, NameRefused
<1>2. CASE FieldName
    BY <1>2, FieldNameOwned
<1>3. CASE Colon \/ Value
    BY <1>3, ValueOwned
<1>4. CASE Fail(NamesOf(Len(stack) - 1)) /\ Running
  <2>1. \A d \in 1 .. Len(stack) : d # Len(stack) => Names[d] \in NamesOf(Len(stack) - 1) \cup {0}
      BY <1>0, <1>4, FreedNames
  <2> QED
      BY <1>0, <1>4, <2>1, FailOwned
<1>5. CASE Fail(NamesOf(Len(stack))) /\ Running
  <2>1. \A d \in 1 .. Len(stack) : Names[d] \in NamesOf(Len(stack)) \cup {0}
      BY <1>0, <1>5, FreedNames
  <2> QED
      BY <1>0, <1>5, <2>1, FailOwned
<1>6. CASE Fail(NamesOf(Len(stack) - 2)) /\ pc = "return" /\ Len(stack) > 1
  <2>1. Running /\ Names[Len(stack)] = 0
      BY <1>0, <1>6 DEF Running, Calls
  <2>2. \A d \in 1 .. Len(stack) :
           d # Len(stack) - 1 => Names[d] \in NamesOf(Len(stack) - 2) \cup {0}
    <3>1. ASSUME NEW d \in 1 .. Len(stack), d # Len(stack) - 1, d # Len(stack)
          PROVE  Names[d] \in NamesOf(Len(stack) - 2)
        BY <1>0, <2>1, <3>1, FreedNames
    <3> QED
        BY <2>1, <3>1
  <2> QED
      BY <1>0, <1>6, <2>1, <2>2, FailOwned
<1>7. CASE Fail(TokenString) /\ pc = "return" /\ Len(stack) = 1
  <2>1. Running /\ Calls /\ Names[1] = 0
      BY <1>0, <1>7 DEF Running, Calls
  <2> QED
      BY <1>7, <2>1, FailOwned
<1>8. CASE NoColon
  <2>1. /\ pc = "colon"
        /\ \/ Fail(NamesOf(Len(stack) - 1))
           \/ pc' = "value" /\ UNCHANGED <<token, read, strs, us, stack>>
      BY <1>8 DEF NoColon, heap
  <2> QED
      BY <2>1, <1>4, MovedOn DEF Running
<1>9. CASE BadValue
  <2>1. /\ pc = "value"
        /\ \/ Fail(NamesOf(Len(stack)))
           \/ pc' = "stopped"
      BY <1>9 DEF BadValue
  <2>2. CASE pc' = "stopped"
      BY <2>2 DEF Ownership, Running
  <2> QED
      BY <2>1, <2>2, <1>5 DEF Running
<1>10. CASE Open
    BY <1>10, OpenOwned
<1>11. CASE NoOpen
  <2>1. pc = "value" /\ Fail(NamesOf(Len(stack) - 1))
      BY <1>11 DEF NoOpen
  <2> QED
      BY <2>1, <1>4 DEF Running
<1>12. CASE Separator
    BY <1>12, SeparatorOwned
<1>13. CASE EndOfFields
  <2>1. pc = "loop" /\ pc' = "return" /\ UNCHANGED <<token, read, strs, us, stack>>
      BY <1>13 DEF EndOfFields, heap
  <2> QED
      BY <2>1, MovedOn DEF Running
<1>14. CASE Return
  <2>1. /\ pc = "return" /\ Len(stack) > 1
        /\ \/ /\ ~HasString(token) /\ stack' = Front(stack)
              /\ NEXT(strs, us) /\ pc' = "separator"
           \/ Fail(NamesOf(Len(stack) - 2))
      BY <1>14 DEF Return, Kind, HasString
  <2> QED
      BY <2>1, <1>6, ReturnOwned
<1>15. CASE ReturnToNbufParse
  <2>1. CASE Kind # "EOF" /\ Fail(TokenString)
      BY <1>7, <1>15, <2>1 DEF ReturnToNbufParse
  <2>2. CASE Kind = "EOF" /\ pc' = "end" /\ UNCHANGED <<strs, read>>
    <3>1. pc = "return" /\ Len(stack) = 1
        BY <1>15 DEF ReturnToNbufParse
    <3>2. Running /\ Calls
        BY <1>0, <3>1 DEF Running
    <3>3. Held \subseteq {0}
        BY <3>1, <3>2 DEF Calls, Held
    <3>4. strs = {}
        BY <2>2, <3>2, <3>3, CallsOwnTheRest DEF Kind, HasString
    <3>5. 0 \in 0 .. Len(read)
        BY <1>0, <3>2
    <3>6. \E a, b \in 0 .. Len(read) : {} \subseteq {a, b}
        BY <3>5
    <3> QED
        BY <2>2, <3>4, <3>6 DEF Ownership, Running
  <2> QED
      BY <1>15, <2>1, <2>2 DEF ReturnToNbufParse, heap
<1>16. CASE PrintAndParse
  <2>1. Begun'
      BY <1>16 DEF PrintAndParse, Begun, HasString
  <2> QED
      BY <2>1, BegunOwned, PTL
<1>17. CASE UNCHANGED vars
  <2>1. UNCHANGED <<pc, token, read, strs, us, stack, ok>>
      BY <1>17 DEF vars, heap
  <2> QED
      BY <2>1 DEF Ownership, Running, Calls, Lexer, Held, Names, TokenString, HasString
<1> QED
    BY <1>1, <1>2, <1>3, <1>8, <1>9, <1>10, <1>11, <1>12, <1>13, <1>14, <1>15, <1>16, <1>17
    DEF Next

\* Different calls hold different names, so there are as many strings as owners.
LEMMA OwnersCounted ==
    ASSUME Ownership, Running
    PROVE  Cardinality(strs) = Cardinality({d \in DOMAIN stack : stack[d].name # 0})
                             + Cardinality(TokenString \ {0})
<1> DEFINE calls == {d \in 1 .. Len(stack) : Names[d] # 0}
           names == Held \ {0}
           F == [d \in calls |-> Names[d]]
<1>1. Calls /\ Lexer /\ strs = (Held \cup TokenString) \ {0}
    BY DEF Ownership
<1>2. Len(stack) \in Nat /\ DOMAIN stack = 1 .. Len(stack) /\ Len(read) \in Nat
    BY <1>1, SomeCall
<1>3. {d \in DOMAIN stack : stack[d].name # 0} = calls
    BY <1>2 DEF Names
<1>4. IsFiniteSet(calls)
  <2>1. IsFiniteSet(1 .. Len(stack)) /\ calls \in SUBSET (1 .. Len(stack))
      BY <1>2, FS_Interval
  <2> HIDE DEF calls
  <2> QED
      BY <2>1, FS_Subset
<1>5. F \in Bijection(calls, names)
  <2>1. F \in [calls -> names]
      BY DEF Held
  <2>2. \A a, b \in calls : F[a] = F[b] => a = b
      BY <1>1 DEF Calls
  <2>3. \A t \in names : \E d \in calls : F[d] = t
      BY DEF Held
  <2> QED
      BY <2>1, <2>2, <2>3, Fun_IsBij
<1>6. IsFiniteSet(names) /\ Cardinality(names) = Cardinality(calls)
    BY <1>4, <1>5, FS_Bijection DEF ExistsBijection
<1>7. IsFiniteSet(TokenString \ {0})
    BY FS_EmptySet, FS_Singleton, FS_Subset DEF TokenString
<1>8. strs = names \cup (TokenString \ {0}) /\ names \cap (TokenString \ {0}) = {}
    BY <1>1, CallsOwnTheRest
<1>9. /\ Cardinality(names) \in Nat /\ Cardinality(TokenString \ {0}) \in Nat
      /\ Cardinality(names \cap (TokenString \ {0})) = 0
    BY <1>6, <1>7, <1>8, FS_CardinalityType, FS_EmptySet
<1>10. Cardinality(names \cup (TokenString \ {0}))
         = Cardinality(names) + Cardinality(TokenString \ {0}) - 0
    BY <1>6, <1>7, <1>9, FS_Union
<1>11. Cardinality(strs) = Cardinality(calls) + Cardinality(TokenString \ {0})
  <2> HIDE DEF calls, names
  <2> QED
      BY <1>6, <1>8, <1>9, <1>10
<1> QED
    BY <1>3, <1>11, Zenon

\* Every string the lexer allocates has one owner at any time, for every schema,
\* text and depth of nesting: nothing is freed twice, an accepted text leaves
\* nothing allocated, and a rejected one at most the name and the token at
\* which the parser gave up.
THEOREM ParseStringsOwned == Spec => []StringsOwned
<1>1. Init => Ownership
  <2>1. Init => Begun
      BY DEF Init, Begun
  <2> QED
      BY <2>1, BegunOwned
<1>2. Ownership /\ [Next]_vars => Ownership'
    BY StepKeepsOwnership
<1>3. Ownership => StringsOwned
  <2> SUFFICES ASSUME Ownership PROVE StringsOwned
      OBVIOUS
  <2>1. ASSUME Running
        PROVE  /\ strs = (NamesOf(Len(stack)) \cup TokenString) \ {0}
               /\ Cardinality(strs) = Cardinality({d \in DOMAIN stack : stack[d].name # 0})
                                    + Cardinality(TokenString \ {0})
    <3>1. Calls /\ strs = (Held \cup TokenString) \ {0}
        BY <2>1 DEF Ownership
    <3>2. NamesOf(Len(stack)) = Held
        BY <3>1 DEF NamesOf, Held, Names
    <3> QED
        BY <2>1, <3>1, <3>2, OwnersCounted
  <2>2. ASSUME pc = "end"
        PROVE  Cardinality(strs) <= 2
    <3>1. PICK a, b : strs \subseteq {a, b}
        BY <2>2 DEF Ownership
    <3>2. IsFiniteSet({a, b}) /\ Cardinality({a, b}) <= 2
      <4>1. IsFiniteSet({a}) /\ Cardinality({a}) = 1
          BY FS_Singleton
      <4>2. /\ IsFiniteSet({a} \cup {b})
            /\ Cardinality({a} \cup {b}) = IF b \in {a} THEN 1 ELSE 1 + 1
          BY <4>1, FS_AddElement
      <4>3. {a, b} = {a} \cup {b}
          OBVIOUS
      <4> QED
          BY <4>2, <4>3
    <3> QED
        BY <3>1, <3>2, FS_Subset, FS_CardinalityType
  <2> QED
      BY <2>1, <2>2 DEF StringsOwned, Ownership, Running
<1> QED
    BY <1>1, <1>2, <1>3, PTL DEF Spec

-----------------------------------------------------------------------------
(* The message under construction is well typed *)

\* v is a value of field f of object k in the message os.
Suits(f, v, k, os) ==
    /\ f.list => v \in Seq(Range(v))
    /\ \A t \in (IF f.list THEN Range(v) ELSE {v} \ {0}) :
         /\ f.kind = "PTR" => t \in k + 1 .. Len(os) /\ os[t].type = f.sub
         /\ f.kind = "INT" => t \in 0 .. IntMod - 1

\* An object has a value for each field of its type.
Typed(os, k) ==
    /\ os[k].type \in DOMAIN Schema
    /\ os[k] = [type |-> os[k].type, val |-> os[k].val]
    /\ os[k].val = [a \in Places(os[k].type) |-> os[k].val[a]]
    /\ \A i \in DOMAIN Schema[os[k].type] :
         Suits(Schema[os[k].type][i], os[k].val[Schema[os[k].type][i].tag0], k, os)

Message(os) ==
    /\ os \in Seq(Range(os))
    /\ \A k \in 1 .. Len(os) : Typed(os, k)

\* A field of type T
FieldOf(T, f) == T \in DOMAIN Schema /\ \E i \in DOMAIN Schema[T] : f = Schema[T][i]

\* A field of a type: its kind, and its place, which no other field of it has.
LEMMA FieldFacts ==
    ASSUME NEW T, NEW f, FieldOf(T, f)
    PROVE  /\ f.tag0 \in Places(T) /\ f.kind \in Kinds /\ f.list \in BOOLEAN
           /\ f = [name |-> f.name, tag0 |-> f.tag0, kind |-> f.kind, list |-> f.list,
                   sub |-> f.sub]
           /\ f.kind = "PTR" => f.sub \in DOMAIN Schema
           /\ \A i \in DOMAIN Schema[T] : Schema[T][i].tag0 = f.tag0 => Schema[T][i] = f
           /\ FieldAt(T, f.tag0) = f
<1>1. PICK i \in DOMAIN Schema[T] : f = Schema[T][i]
    BY DEF FieldOf
<1>2. PICK S : S = [name : FieldNames(T), tag0 : Places(T), kind : Kinds, list : BOOLEAN,
                    sub : DOMAIN Schema \cup {"", "f32", "f64"}]
    OBVIOUS
<1>3. f \in S
  <2>1. Schema[T] \in Seq(S)
      BY <1>2, TextAssumption DEF FieldOf
  <2> QED
      BY <1>1, <2>1, LenProperties, ElementOfSeq
<1>4. /\ f.kind = "PTR" => f.sub \in DOMAIN Schema
      /\ \A j \in DOMAIN Schema[T] : Schema[T][j].tag0 = f.tag0 => Schema[T][j] = f
    BY <1>1, TextAssumption DEF FieldOf
<1>5. FieldAt(T, f.tag0) = f
  <2>1. \E j \in DOMAIN Schema[T] : Schema[T][j].tag0 = f.tag0
      BY <1>1
  <2> QED
      BY <1>4, <2>1 DEF FieldAt
<1> QED
    BY <1>2, <1>3, <1>4, <1>5

\* A set of natural numbers has a least one.
LEMMA LeastNumber ==
    ASSUME NEW T, T \subseteq Nat, T # {}
    PROVE  \E n \in T : \A m \in T : n <= m
<1> DEFINE R == {ss \in Nat \X Nat : ss[1] < ss[2]}
<1>1. IsWellFoundedOn(R, Nat)
    BY NatLessThanWellFounded DEF OpToRel
<1>2. \A m, n \in Nat : <<m, n>> \in R <=> m < n
    OBVIOUS
<1> HIDE DEF R
<1>3. PICK n \in T : \A m \in T : ~ (<<m, n>> \in R)
    BY <1>1, WFMin
<1>4. \A m \in T : ~ (m < n)
    BY <1>2, <1>3
<1>5. \A m \in T : n <= m
    BY <1>4
<1> QED
    BY <1>5

\* nbuf_find_field finds the field of a name.
LEMMA FieldFound ==
    ASSUME NEW T \in DOMAIN Schema, NEW n \in FieldNames(T)
    PROVE  FieldOf(T, FindField(T, n))
<1> DEFINE I == {i \in 1 .. Len(Schema[T]) : Schema[T][i].name = n}
<1>1. Len(Schema[T]) \in Nat /\ DOMAIN Schema[T] = 1 .. Len(Schema[T])
    BY TextAssumption, LenProperties
<1>2. I \subseteq Nat /\ I # {}
    BY <1>1 DEF FieldNames
<1>3. FindField(T, n) = Schema[T][IF I # {} THEN Min(I) ELSE 0]
    BY DEF FindField, SelectInSeq
<1>4. Min(I) \in I
  <2> HIDE DEF I
  <2>1. \E i \in I : \A j \in I : i <= j
      BY <1>2, LeastNumber
  <2> QED
      BY <2>1 DEF Min
<1> QED
    BY <1>1, <1>2, <1>3, <1>4 DEF FieldOf

\* The objects that were there keep their types.
Extends(os, ns) ==
    /\ Len(os) \in Nat /\ Len(ns) \in Nat /\ Len(os) <= Len(ns)
    /\ \A j \in 1 .. Len(os) : ns[j].type = os[j].type

\* What suits a field still does when objects are added and types stay.
LEMMA StillSuits ==
    ASSUME NEW os, NEW ns, Extends(os, ns), NEW f, NEW v, NEW k \in 1 .. Len(os), Suits(f, v, k, os)
    PROVE  Suits(f, v, k, ns)
<1>1. \A t \in k + 1 .. Len(os) : t \in k + 1 .. Len(ns) /\ ns[t].type = os[t].type
    BY DEF Extends
<1> QED
    BY <1>1 DEF Suits

\* A new object of type T has the value of a field nobody wrote to.
LEMMA BlankTyped ==
    ASSUME NEW os, NEW k, NEW T \in DOMAIN Schema, os[k] = Blank(T)
    PROVE  Typed(os, k) /\ os[k].type = T
<1>1. PICK o : o = Blank(T)
    OBVIOUS
<1>2. /\ o = [type |-> T, val |-> o.val] /\ o.type = T
      /\ o.val = [a \in Places(T) |-> Unset(FieldAt(T, a))]
    BY <1>1 DEF Blank
<1>3. ASSUME NEW i \in DOMAIN Schema[T]
      PROVE  Suits(Schema[T][i], o.val[Schema[T][i].tag0], k, os)
  <2>1. PICK f : f = Schema[T][i]
      OBVIOUS
  <2>2. FieldOf(T, f)
      BY <2>1 DEF FieldOf
  <2>3. f.tag0 \in Places(T) /\ FieldAt(T, f.tag0) = f
      BY <2>2, FieldFacts
  <2>4. o.val[f.tag0] = Unset(f)
      BY <1>2, <2>3
  <2>5. f.kind \in {"PTR", "INT"} /\ ~f.list => Unset(f) = 0
      BY DEF Unset
  <2>6. f.list => Unset(f) = <<>> /\ Range(Unset(f)) = {}
      BY DEF Unset, Range
  <2>7. <<>> \in Seq({})
      BY EmptySeq
  <2> QED
      BY <2>1, <2>4, <2>5, <2>6, <2>7 DEF Suits
<1> QED
    BY <1>1, <1>2, <1>3 DEF Typed

\* ns is os with another object, of type T.
Enlarged(os, ns, T) ==
    /\ Message(ns) /\ Extends(os, ns) /\ Len(ns) = Len(os) + 1
    /\ ns[Len(ns)].type = T
    /\ \A j \in 1 .. Len(os) : ns[j] = os[j]

\* nbuf_create adds an object.
LEMMA ObjectAdded ==
    ASSUME NEW os, Message(os), NEW T \in DOMAIN Schema
    PROVE  Enlarged(os, Append(os, Blank(T)), T)
<1>0. PICK ns : ns = Append(os, Blank(T))
    OBVIOUS
<1>1. os \in Seq(Range(os)) /\ Len(os) \in Nat /\ DOMAIN os = 1 .. Len(os)
    BY LenProperties DEF Message
<1>2. /\ ns \in Seq(Range(ns)) /\ Len(ns) = Len(os) + 1
      /\ \A j \in 1 .. Len(os) : ns[j] = os[j]
      /\ ns[Len(os) + 1] = Blank(T)
  <2>1. PICK S, x : S = Range(os) /\ x = Blank(T)
      OBVIOUS
  <2>2. os \in Seq(S)
      BY <1>1, <2>1
  <2>3. /\ Append(os, x) \in Seq(Range(Append(os, x))) /\ Len(Append(os, x)) = Len(os) + 1
        /\ \A j \in DOMAIN os : Append(os, x)[j] = os[j]
        /\ Append(os, x)[Len(os) + 1] = x
      BY <2>2, Appended
  <2> QED
      BY <1>0, <1>1, <2>1, <2>3
<1>3. Typed(ns, Len(os) + 1) /\ ns[Len(os) + 1].type = T
  <2>1. PICK k : k = Len(os) + 1
      OBVIOUS
  <2>2. ns[k] = Blank(T)
      BY <1>2, <2>1
  <2>3. Typed(ns, k) /\ ns[k].type = T
      BY <2>2, BlankTyped, Zenon
  <2> QED
      BY <2>1, <2>3, Zenon
<1>4. Extends(os, ns)
    BY <1>1, <1>2 DEF Extends
<1>5. ASSUME NEW j \in 1 .. Len(os)
      PROVE  Typed(ns, j)
  <2>1. Typed(os, j) /\ ns[j] = os[j]
      BY <1>2, <1>5 DEF Message
  <2>2. \A f, v : Suits(f, v, j, os) => Suits(f, v, j, ns)
      BY <1>4, <1>5, StillSuits, Zenon
  <2> QED
      BY <2>1, <2>2 DEF Typed
<1> QED
    BY <1>0, <1>1, <1>2, <1>3, <1>4, <1>5 DEF Message, Enlarged

\* The message os with w at the place a of object k.
WithValue(os, k, a, w) == [os EXCEPT ![k].val[a] = w]

\* ns is os with another value in some field.
Revalued(os, ns) == Message(ns) /\ Extends(os, ns) /\ Len(ns) = Len(os)

\* A field of an object gets a value that suits it.
LEMMA ValueSet ==
    ASSUME NEW os, Message(os), NEW k \in 1 .. Len(os), NEW f, FieldOf(os[k].type, f),
           NEW w, Suits(f, w, k, os)
    PROVE  Revalued(os, WithValue(os, k, f.tag0, w))
<1>0. PICK ns : ns = WithValue(os, k, f.tag0, w)
    OBVIOUS
<1>1. PICK o, n : o = os[k] /\ n = f.tag0
    OBVIOUS
<1>2. PICK c : c = [o EXCEPT !.val[n] = w]
    OBVIOUS
<1>3. os \in Seq(Range(os)) /\ Len(os) \in Nat /\ Typed(os, k)
    BY LenProperties DEF Message
<1>4. /\ c = [type |-> c.type, val |-> c.val] /\ c.type = o.type
      /\ c.val = [x \in Places(o.type) |-> IF x = n THEN w ELSE o.val[x]]
  <2>1. o = [type |-> o.type, val |-> o.val] /\ o.val = [x \in Places(o.type) |-> o.val[x]]
      BY <1>1, <1>3 DEF Typed
  <2>2. c = [type |-> o.type, val |-> [o.val EXCEPT ![n] = w]]
      BY <1>2, <2>1
  <2> QED
      BY <2>1, <2>2
<1>5. ns = [os EXCEPT ![k] = c]
    BY <1>0, <1>1, <1>2 DEF WithValue
<1>6. /\ ns \in Seq(Range(ns)) /\ Len(ns) = Len(os)
      /\ \A j \in 1 .. Len(os) : ns[j] = IF j = k THEN c ELSE os[j]
  <2>1. PICK S : S = Range(os) \cup {c}
      OBVIOUS
  <2>2. os \in Seq(S) /\ c \in S
      BY <1>3, <2>1, SeqMonotonic
  <2>3. /\ ns \in Seq(S) /\ Len(ns) = Len(os)
        /\ \A j \in 1 .. Len(os) : ns[j] = IF j = k THEN c ELSE os[j]
      BY <1>5, <2>2, ExceptSeq
  <2> QED
      BY <2>3, SeqOfRange, Zenon
<1>7. Extends(os, ns)
    BY <1>1, <1>3, <1>4, <1>6 DEF Extends
<1>8. ASSUME NEW j \in 1 .. Len(os), NEW g, NEW v, Suits(g, v, j, os)
      PROVE  Suits(g, v, j, ns)
    BY <1>7, <1>8, StillSuits, Zenon
<1>9. ASSUME NEW j \in 1 .. Len(os), j # k
      PROVE  Typed(ns, j)
  <2>1. Typed(os, j) /\ ns[j] = os[j]
      BY <1>6, <1>9 DEF Message
  <2> QED
      BY <1>8, <2>1 DEF Typed
<1>10. Typed(ns, k)
  <2>1. ASSUME NEW i \in DOMAIN Schema[o.type]
        PROVE  Suits(Schema[o.type][i], c.val[Schema[o.type][i].tag0], k, ns)
    <3>1. PICK g : g = Schema[o.type][i]
        OBVIOUS
    <3>2. g.tag0 \in Places(o.type) /\ (g.tag0 = n => g = f)
        BY <1>1, <2>1, <3>1, FieldFacts DEF Places
    <3>3. c.val[g.tag0] = IF g.tag0 = n THEN w ELSE o.val[g.tag0]
        BY <1>4, <3>2
    <3>4. Suits(g, o.val[g.tag0], k, os)
        BY <1>1, <1>3, <3>1 DEF Typed
    <3> QED
        BY <1>8, <3>1, <3>2, <3>3, <3>4
  <2>2. ns[k] = c /\ o.type \in DOMAIN Schema
      BY <1>1, <1>3, <1>6 DEF Typed
  <2>3. c.val = [x \in Places(c.type) |-> c.val[x]]
      BY <1>4
  <2> QED
      BY <1>4, <2>1, <2>2, <2>3, Zenon DEF Typed
<1>11. Message(ns)
    BY <1>6, <1>9, <1>10 DEF Message
<1> QED
    BY <1>0, <1>6, <1>7, <1>11, Zenon DEF Revalued

\* An integer field that is not set
LEMMA ZeroFits == 0 \in 0 .. IntMod - 1
<1>1. IntMod \in Nat \ {0}
    BY TextAssumption, Zenon
<1> QED
    BY <1>1

\* e may be an element of field f of object k, or its value.
ElementSuits(f, e, k, os) ==
    /\ f.kind = "PTR" => e \in k + 1 .. Len(os) /\ os[e].type = f.sub
    /\ f.kind = "INT" => e \in 0 .. IntMod - 1

\* A list grows by an element that suits it, or has one replaced.
LEMMA ListSuits ==
    ASSUME NEW f, f.list, NEW s, NEW k, NEW os, Suits(f, s, k, os),
           NEW e, ElementSuits(f, e, k, os), NEW i
    PROVE  Suits(f, Append(s, e), k, os) /\ Suits(f, [s EXCEPT ![i] = e], k, os)
<1>1. PICK S : S = Range(s) \cup {e}
    OBVIOUS
<1>2. \A t \in S : ElementSuits(f, t, k, os)
    BY <1>1 DEF Suits, ElementSuits
<1>3. s \in Seq(S) /\ e \in S
    BY <1>1, SeqMonotonic DEF Suits
<1>4. Append(s, e) \in Seq(S)
    BY <1>3
<1>5. [s EXCEPT ![i] = e] \in Seq(S)
  <2>1. CASE i \in 1 .. Len(s)
      BY <1>3, <2>1, ExceptSeq
  <2>2. CASE i \notin 1 .. Len(s)
      BY <1>3, <2>2, LenProperties
  <2> QED
      BY <2>1, <2>2
<1>6. ASSUME NEW r \in Seq(S)
      PROVE  Suits(f, r, k, os)
  <2>1. Range(r) \subseteq S /\ r \in Seq(Range(r))
      BY RangeOfSeq, SeqOfRange
  <2> QED
      BY <1>2, <2>1 DEF Suits, ElementSuits
<1> QED
    BY <1>4, <1>5, <1>6

\* ns is os with a place for a value of field f of object k.
PlaceFor(os, ns, k, f) ==
    /\ Message(ns) /\ Extends(os, ns)
    /\ f.kind = "PTR" => Len(ns) > k /\ ns[Len(ns)].type = f.sub

\* The place for a value is made: a message gets its object, a list an element.
LEMMA PointerMade ==
    ASSUME NEW os, Message(os), NEW k \in 1 .. Len(os), NEW f, FieldOf(os[k].type, f),
           NEW ns, ns = InitPtr(os, k, f)
    PROVE  PlaceFor(os, ns, k, f)
<1>1. PICK grown : grown = IF f.kind = "PTR" THEN Append(os, Blank(f.sub)) ELSE os
    OBVIOUS
<1>2. PICK e : e = IF f.kind = "PTR" THEN Len(grown) ELSE Unset([f EXCEPT !.list = FALSE])
    OBVIOUS
<1>3. ns = IF f.list THEN [grown EXCEPT ![k].val[f.tag0] = Append(grown[k].val[f.tag0], e)]
           ELSE IF f.kind = "PTR" THEN [grown EXCEPT ![k].val[f.tag0] = e]
           ELSE grown
    BY <1>1, <1>2 DEF InitPtr
<1>4. /\ f.list \in BOOLEAN /\ f.tag0 \in Places(os[k].type)
      /\ f = [name |-> f.name, tag0 |-> f.tag0, kind |-> f.kind, list |-> f.list,
              sub |-> f.sub]
      /\ f.kind = "PTR" => f.sub \in DOMAIN Schema
    BY FieldFacts
<1>5. Len(os) \in Nat
    BY LenProperties DEF Message
<1>6. /\ Message(grown) /\ Extends(os, grown) /\ grown[k] = os[k]
      /\ f.kind = "PTR" => Len(grown) = Len(os) + 1 /\ grown[Len(grown)].type = f.sub
  <2>1. CASE f.kind = "PTR"
    <3>1. grown = Append(os, Blank(f.sub)) /\ f.sub \in DOMAIN Schema
        BY <1>1, <1>4, <2>1
    <3>2. Enlarged(os, grown, f.sub)
        BY <3>1, ObjectAdded, Zenon
    <3> QED
        BY <3>2 DEF Enlarged
  <2>2. CASE f.kind # "PTR"
      BY <1>1, <1>5, <2>2 DEF Extends
  <2> QED
      BY <2>1, <2>2
<1>7. k \in 1 .. Len(grown) /\ FieldOf(grown[k].type, f) /\ Len(grown) \in Nat
    BY <1>6 DEF Extends
<1>8. ElementSuits(f, e, k, grown)
  <2>1. CASE f.kind = "PTR"
      BY <1>2, <1>5, <1>6, <2>1 DEF ElementSuits
  <2>2. CASE f.kind = "INT"
    <3>1. e = 0
        BY <1>2, <1>4, <2>2 DEF Unset
    <3> QED
        BY <2>2, <3>1, ZeroFits DEF ElementSuits
  <2> QED
      BY <2>1, <2>2 DEF ElementSuits
<1>9. Suits(f, grown[k].val[f.tag0], k, grown)
  <2>1. PICK i \in DOMAIN Schema[grown[k].type] : f = Schema[grown[k].type][i]
      BY <1>7 DEF FieldOf
  <2> QED
      BY <1>6, <1>7, <2>1 DEF Message, Typed
<1>10. CASE f.list
  <2>1. Suits(f, Append(grown[k].val[f.tag0], e), k, grown)
      BY <1>8, <1>9, <1>10, ListSuits
  <2>2. Revalued(grown, ns)
    <3>1. ns = WithValue(grown, k, f.tag0, Append(grown[k].val[f.tag0], e))
        BY <1>3, <1>10 DEF WithValue
    <3> QED
        BY <1>6, <1>7, <2>1, <3>1, ValueSet, Zenon
  <2> QED
      BY <1>5, <1>6, <2>2 DEF PlaceFor, Revalued, Extends
<1>11. CASE ~f.list /\ f.kind = "PTR"
  <2>1. Suits(f, e, k, grown)
      BY <1>8, <1>11 DEF Suits, ElementSuits
  <2>2. Revalued(grown, ns)
    <3>1. ns = WithValue(grown, k, f.tag0, e)
        BY <1>3, <1>11 DEF WithValue
    <3> QED
        BY <1>6, <1>7, <2>1, <3>1, ValueSet, Zenon
  <2> QED
      BY <1>5, <1>6, <2>2 DEF PlaceFor, Revalued, Extends
<1>12. CASE ~f.list /\ f.kind # "PTR"
    BY <1>3, <1>6, <1>12 DEF PlaceFor
<1> QED
    BY <1>4, <1>10, <1>11, <1>12, Zenon

\* A scalar, a string or an enum is put into the field or its last element.
LEMMA ValuePut ==
    ASSUME NEW os, Message(os), NEW k \in 1 .. Len(os), NEW f, FieldOf(os[k].type, f),
           f.kind # "PTR", NEW v, f.kind = "INT" => v \in 0 .. IntMod - 1,
           NEW ns, ns = Put(os, k, f, v)
    PROVE  Revalued(os, ns)
<1>1. PICK s, i : s = os[k].val[f.tag0] /\ i = Len(s)
    OBVIOUS
<1>2. \/ ns = os
      \/ ~f.list /\ ns = WithValue(os, k, f.tag0, v)
      \/ f.list /\ ns = WithValue(os, k, f.tag0, [s EXCEPT ![i] = v])
    BY <1>1 DEF Put, WithValue
<1>3. Suits(f, s, k, os)
  <2>1. PICK j \in DOMAIN Schema[os[k].type] : f = Schema[os[k].type][j]
      BY DEF FieldOf
  <2> QED
      BY <1>1, <2>1 DEF Message, Typed
<1>4. ElementSuits(f, v, k, os)
    BY DEF ElementSuits
<1>5. CASE ns = os
    BY <1>5, LenProperties DEF Message, Revalued, Extends
<1>6. CASE ~f.list /\ ns = WithValue(os, k, f.tag0, v)
  <2>1. Suits(f, v, k, os)
      BY <1>4, <1>6 DEF Suits, ElementSuits
  <2> QED
      BY <1>6, <2>1, ValueSet, Zenon
<1>7. CASE f.list /\ ns = WithValue(os, k, f.tag0, [s EXCEPT ![i] = v])
  <2>1. Suits(f, [s EXCEPT ![i] = v], k, os)
      BY <1>3, <1>4, <1>7, ListSuits
  <2> QED
      BY <1>7, <2>1, ValueSet, Zenon
<1> QED
    BY <1>2, <1>5, <1>6, <1>7

\* The calls of parse_msg work on objects that hang from each other.
Frames(st, os) ==
    /\ st \in Seq(Range(st)) /\ st # <<>>
    /\ \A d \in 1 .. Len(st) :
         st[d].obj \in 1 .. Len(os) /\ st[d].type = os[st[d].obj].type
    /\ \A d \in 2 .. Len(st) : st[d].obj > st[d - 1].obj

\* The calls when an object was added or a value was put
LEMMA FramesExtended ==
    ASSUME NEW st, NEW os, Frames(st, os), NEW ns, Extends(os, ns)
    PROVE  Frames(st, ns)
<1>1. \A j \in 1 .. Len(os) : j \in 1 .. Len(ns) /\ ns[j].type = os[j].type
    BY DEF Extends
<1> QED
    BY <1>1 DEF Frames

\* A call begins.
LEMMA FramePushed ==
    ASSUME NEW st, NEW os, Frames(st, os), Len(os) \in Nat, NEW o \in 1 .. Len(os),
           o > st[Len(st)].obj, NEW n
    PROVE  Frames(Append(st, Frame(o, os[o].type, n, 0)), os)
<1>1. PICK r : r = Frame(o, os[o].type, n, 0)
    OBVIOUS
<1>2. r.obj = o /\ r.type = os[o].type
    BY <1>1 DEF Frame
<1>3. Len(st) \in Nat /\ Len(st) >= 1 /\ DOMAIN st = 1 .. Len(st)
    BY EmptySeq, LenProperties DEF Frames
<1>4. /\ Append(st, r) \in Seq(Range(Append(st, r))) /\ Append(st, r) # <<>>
      /\ Len(Append(st, r)) = Len(st) + 1
      /\ \A d \in 1 .. Len(st) : Append(st, r)[d] = st[d]
      /\ Append(st, r)[Len(st) + 1] = r
    BY <1>3, Appended DEF Frames
<1>5. PICK q : q = Append(st, r)
    OBVIOUS
<1>6. \A d \in 1 .. Len(q) : q[d].obj \in 1 .. Len(os) /\ q[d].type = os[q[d].obj].type
    BY <1>2, <1>3, <1>4, <1>5 DEF Frames
<1>7. \A d \in 2 .. Len(q) : q[d].obj > q[d - 1].obj
  <2>1. ASSUME NEW d \in 2 .. Len(q)
        PROVE  q[d].obj > q[d - 1].obj
    <3>1. CASE d = Len(st) + 1
        BY <1>2, <1>3, <1>4, <1>5, <3>1
    <3>2. CASE d # Len(st) + 1
      <4>1. d \in 2 .. Len(st) /\ d \in 1 .. Len(st) /\ d - 1 \in 1 .. Len(st)
          BY <1>3, <1>4, <1>5, <3>2
      <4> QED
          BY <1>4, <1>5, <4>1 DEF Frames
    <3> QED
        BY <3>1, <3>2
  <2> QED
      BY <2>1
<1>8. Frames(q, os)
    BY <1>4, <1>5, <1>6, <1>7 DEF Frames
<1> QED
    BY <1>1, <1>5, <1>8

\* A call returns to the one around it.
LEMMA FramePopped ==
    ASSUME NEW st, NEW os, Frames(st, os), Len(st) > 1
    PROVE  Frames(Front(st), os)
<1>1. Len(st) \in Nat /\ st \in Seq(Range(st))
    BY LenProperties DEF Frames
<1>2. /\ Front(st) \in Seq(Range(st)) /\ Len(Front(st)) = Len(st) - 1
      /\ \A d \in 1 .. Len(st) - 1 : Front(st)[d] = st[d]
    BY <1>1, SubSeqProperties DEF Front
<1>3. PICK q : q = Front(st)
    OBVIOUS
<1>4. q \in Seq(Range(q)) /\ q # <<>>
    BY <1>1, <1>2, <1>3, SeqOfRange, EmptySeq
<1>5. \A d \in 1 .. Len(q) : q[d] = st[d] /\ d \in 1 .. Len(st)
    BY <1>1, <1>2, <1>3
<1>6. \A d \in 2 .. Len(q) : q[d].obj > q[d - 1].obj
  <2>1. ASSUME NEW d \in 2 .. Len(q)
        PROVE  q[d].obj > q[d - 1].obj
    <3>1. d \in 1 .. Len(q) /\ d - 1 \in 1 .. Len(q) /\ d \in 2 .. Len(st)
        BY <1>1, <1>2, <1>3, <2>1
    <3> QED
        BY <1>5, <3>1 DEF Frames
  <2> QED
      BY <2>1
<1> QED
    BY <1>3, <1>4, <1>5, <1>6 DEF Frames

\* The innermost call goes on with another field.
LEMMA FrameWorks ==
    ASSUME NEW os, Frames(stack, os), NEW f, NEW n
    PROVE  /\ Frames(Working(f, n), os) /\ Len(Working(f, n)) = Len(stack)
           /\ Working(f, n)[Len(stack)] = Frame(Top.obj, Top.type, f, n)
<1>1. PICK r : r = Frame(Top.obj, Top.type, f, n)
    OBVIOUS
<1>2. r.obj = stack[Len(stack)].obj /\ r.type = stack[Len(stack)].type
    BY <1>1 DEF Frame, Top
<1>3. stack \in Seq(Range(stack)) /\ Len(stack) \in Nat \ {0}
    BY EmptySeq DEF Frames
<1>4. PICK S : S = Range(stack) \cup {r}
    OBVIOUS
<1>5. stack \in Seq(S) /\ r \in S /\ Len(stack) \in 1 .. Len(stack)
    BY <1>3, <1>4, SeqMonotonic
<1>6. PICK q : q = Working(f, n)
    OBVIOUS
<1>7. q = [stack EXCEPT ![Len(stack)] = r]
    BY <1>1, <1>6 DEF Working
<1>8. /\ q \in Seq(S) /\ Len(q) = Len(stack)
      /\ \A d \in 1 .. Len(stack) : q[d] = IF d = Len(stack) THEN r ELSE stack[d]
    BY <1>5, <1>7, ExceptSeq
<1>9. q \in Seq(Range(q)) /\ q # <<>>
    BY <1>3, <1>8, SeqOfRange, EmptySeq
<1>10. \A d \in 1 .. Len(stack) : q[d].obj = stack[d].obj /\ q[d].type = stack[d].type
    BY <1>2, <1>8
<1>11. \A d \in 2 .. Len(stack) : d \in 1 .. Len(stack) /\ d - 1 \in 1 .. Len(stack)
    BY <1>3
<1>12. Frames(q, os)
    BY <1>3, <1>8, <1>9, <1>10, <1>11 DEF Frames
<1> QED
    BY <1>1, <1>3, <1>6, <1>8, <1>12

-----------------------------------------------------------------------------
(* The type invariant *)

\* After a field's name there is a place for its value: for a message, the
\* object that was made last.
Place ==
    pc \in {"colon", "value"} =>
        /\ FieldOf(Top.type, Top.field)
        /\ Top.field.kind = "PTR" => Len(objs) > Top.obj /\ objs[Len(objs)].type = Top.field.sub

\* What holds of the message and the calls
Building == Message(objs) /\ Frames(stack, objs) /\ Place

\* The labels, the results and the input
Setting ==
    /\ pc \in Labels /\ input \in Inputs
    /\ ok \in BOOLEAN /\ errors \in Nat /\ round \in {1, 2}

\* The first object and the first call
Started ==
    /\ input.root \in DOMAIN Schema /\ pc = "loop"
    /\ stack = <<Frame(1, input.root, NoField, 0)>> /\ objs = <<Blank(input.root)>>

\* They are well typed, and there is no field yet.
LEMMA StartedBuilding == Started => Building
<1> SUFFICES ASSUME Started PROVE Building
    OBVIOUS
<1>0. PICK T : T = input.root
    OBVIOUS
<1>1. /\ objs \in Seq({Blank(T)}) /\ Len(objs) = 1 /\ objs[1] = Blank(T)
      /\ stack \in Seq({Frame(1, T, NoField, 0)}) /\ Len(stack) = 1
      /\ stack[1] = Frame(1, T, NoField, 0) /\ stack # <<>>
    BY <1>0 DEF Started
<1>2. objs \in Seq(Range(objs)) /\ stack \in Seq(Range(stack))
    BY <1>1, SeqOfRange
<1>3. Typed(objs, 1) /\ objs[1].type = T
    BY <1>0, <1>1, BlankTyped DEF Started
<1>4. stack[1].obj = 1 /\ stack[1].type = T
    BY <1>1 DEF Frame
<1> QED
    BY <1>1, <1>2, <1>3, <1>4 DEF Building, Message, Frames, Place, Started

\* The innermost call
LEMMA TopCall ==
    ASSUME Building
    PROVE  /\ Len(stack) \in Nat /\ Len(stack) >= 1 /\ Len(objs) \in Nat
           /\ Top.obj \in 1 .. Len(objs) /\ Top.type = objs[Top.obj].type
           /\ Top.type \in DOMAIN Schema
<1>1. Len(stack) \in Nat \ {0} /\ Len(objs) \in Nat
    BY EmptySeq, LenProperties DEF Building, Frames, Message
<1>2. Top.obj \in 1 .. Len(objs) /\ Top.type = objs[Top.obj].type
    BY <1>1 DEF Building, Frames, Top
<1>3. \A k \in 1 .. Len(objs) : objs[k].type \in DOMAIN Schema
    BY DEF Building, Message, Typed
<1> QED
    BY <1>1, <1>2, <1>3

\* A step that leaves the message and the calls alone
LEMMA RestBuilding ==
    ASSUME Building, UNCHANGED <<stack, objs>>,
           pc' \in {"colon", "value"} => pc \in {"colon", "value"}
    PROVE  Building'
<1>1. Message(objs') /\ Frames(stack', objs')
    BY DEF Building
<1>2. Place'
    BY DEF Building, Place, Top
<1> QED
    BY <1>1, <1>2 DEF Building

\* The field is one of the innermost call's type, and there is a place for it.
LEMMA FieldNameBuilding ==
    ASSUME Building, FieldName
    PROVE  Building'
<1>1. PICK f : /\ f = FindField(Top.type, token[2]) /\ token[2] \in FieldNames(Top.type)
               /\ objs' = InitPtr(objs, Top.obj, f)
               /\ stack' = Working(f, us) /\ pc' = "colon"
    BY DEF FieldName
<1>2. PICK k : k = Top.obj
    OBVIOUS
<1>3. k \in 1 .. Len(objs) /\ FieldOf(objs[k].type, f) /\ Len(objs) \in Nat
    BY <1>1, <1>2, TopCall, FieldFound
<1>4. PlaceFor(objs, objs', k, f)
  <2>1. objs' = InitPtr(objs, k, f) /\ Message(objs)
      BY <1>1, <1>2 DEF Building
  <2> QED
      BY <1>3, <2>1, PointerMade, Zenon
<1>5. Message(objs') /\ Extends(objs, objs')
    BY <1>4 DEF PlaceFor
<1>6. Frames(stack, objs')
    BY <1>5, FramesExtended DEF Building
<1>7. /\ Frames(stack', objs') /\ Len(stack') = Len(stack)
      /\ stack'[Len(stack)] = Frame(k, Top.type, f, us)
    BY <1>1, <1>2, <1>6, FrameWorks
<1>8. Top' = Frame(k, Top.type, f, us)
    BY <1>7 DEF Top
<1>9. Top'.obj = k /\ Top'.type = objs[k].type /\ Top'.field = f
    BY <1>2, <1>8, TopCall DEF Frame
<1>10. Place'
    BY <1>3, <1>4, <1>9 DEF Place, PlaceFor
<1> QED
    BY <1>5, <1>7, <1>10 DEF Building

\* What parse_int takes is cut to the width of the field.
LEMMA ValueBuilding ==
    ASSUME Building, Value
    PROVE  Building'
<1>1. PICK v \in Parsed(Top.field) :
        /\ objs' = Put(objs, Top.obj, Top.field, v)
        /\ pc = "value" /\ Top.field.kind # "PTR"
        /\ pc' = "separator" /\ stack' = stack
    BY DEF Value
<1>2. PICK k, f : k = Top.obj /\ f = Top.field
    OBVIOUS
<1>3. k \in 1 .. Len(objs) /\ FieldOf(objs[k].type, f) /\ f.kind # "PTR"
    BY <1>1, <1>2, TopCall DEF Building, Place
<1>4. f.kind = "INT" => v \in 0 .. IntMod - 1
    BY <1>1, <1>2 DEF Parsed, Cut
<1>5. Revalued(objs, objs')
  <2>1. objs' = Put(objs, k, f, v) /\ Message(objs)
      BY <1>1, <1>2 DEF Building
  <2> QED
      BY <1>3, <1>4, <2>1, ValuePut, Zenon
<1>6. Message(objs') /\ Extends(objs, objs')
    BY <1>5 DEF Revalued
<1>7. Frames(stack', objs')
    BY <1>1, <1>6, FramesExtended DEF Building
<1>8. Place'
    BY <1>1 DEF Place
<1> QED
    BY <1>6, <1>7, <1>8 DEF Building

\* The nested call works on the object that was made last, whose type is the field's.
LEMMA OpenBuilding ==
    ASSUME Building, Open
    PROVE  Building'
<1>1. /\ pc = "value" /\ Top.field.kind = "PTR" /\ objs' = objs
      /\ stack' = Append(stack, Frame(Len(objs), Top.field.sub, NoField, 0))
      /\ pc' = "loop"
    BY DEF Open
<1>2. Len(objs) > Top.obj /\ objs[Len(objs)].type = Top.field.sub
    BY <1>1 DEF Building, Place
<1>3. Len(objs) \in 1 .. Len(objs) /\ Len(objs) \in Nat
    BY <1>2, TopCall
<1>4. Frames(stack', objs')
  <2>1. stack' = Append(stack, Frame(Len(objs), objs[Len(objs)].type, NoField, 0))
      BY <1>1, <1>2
  <2>2. Frames(stack, objs) /\ Len(objs) > stack[Len(stack)].obj
      BY <1>2 DEF Building, Top
  <2>3. Frames(Append(stack, Frame(Len(objs), objs[Len(objs)].type, NoField, 0)), objs)
      BY <1>3, <2>2, FramePushed, Zenon
  <2> QED
      BY <1>1, <2>1, <2>3
<1> QED
    BY <1>1, <1>4 DEF Building, Place

\* The steps that change the calls, not the message
LEMMA CallsBuilding ==
    ASSUME Building, objs' = objs,
           Frames(stack', objs), pc' \notin {"colon", "value"} \/ (stack' = stack /\ pc = "colon")
    PROVE  Building'
<1>1. Place'
    BY DEF Building, Place, Top
<1> QED
    BY <1>1 DEF Building

\* No step of the parser leaves the message or the calls ill typed.
LEMMA StepKeepsBuilding ==
    ASSUME Building, [Next]_vars, ~PrintAndParse
    PROVE  Building'
<1>0. Frames(stack, objs) /\ Len(stack) \in Nat
    BY TopCall DEF Building
<1>1. ASSUME NEW freed, Fail(freed)
      PROVE  Building'
    BY <1>1, RestBuilding DEF Fail
<1>2. CASE UnknownField
    BY <1>2, RestBuilding DEF UnknownField
<1>3. CASE DuplicateField
    BY <1>3, RestBuilding DEF DuplicateField
<1>4. CASE Colon
  <2>1. pc = "colon" /\ UNCHANGED <<stack, objs>>
      BY <1>4 DEF Colon
  <2> QED
      BY <1>0, <2>1, CallsBuilding
<1>5. CASE NoColon
  <2>1. CASE Fail(NamesOf(Len(stack) - 1))
      BY <1>1, <2>1
  <2>2. CASE pc = "colon" /\ pc' = "value" /\ UNCHANGED <<stack, objs>>
      BY <2>2, RestBuilding
  <2> QED
      BY <1>5, <2>1, <2>2 DEF NoColon
<1>6. CASE BadValue
  <2>1. CASE Fail(NamesOf(Len(stack)))
      BY <1>1, <2>1
  <2>2. CASE pc' = "stopped" /\ UNCHANGED <<stack, objs>>
      BY <2>2, RestBuilding
  <2> QED
      BY <1>6, <2>1, <2>2 DEF BadValue
<1>7. CASE NoOpen
    BY <1>1, <1>7 DEF NoOpen
<1>8. CASE Separator
  <2>1. pc' = "loop" /\ objs' = objs /\ stack' = Working(Top.field, 0)
      BY <1>8 DEF Separator
  <2>2. Frames(stack', objs)
      BY <1>0, <2>1, FrameWorks
  <2> QED
      BY <2>1, <2>2, CallsBuilding
<1>9. CASE EndOfFields
    BY <1>9, RestBuilding DEF EndOfFields
<1>10. CASE Return
  <2>1. CASE Fail(NamesOf(Len(stack) - 2))
      BY <1>1, <2>1
  <2>2. CASE stack' = Front(stack) /\ pc' = "separator" /\ objs' = objs
    <3>1. Frames(stack', objs)
        BY <1>0, <1>10, <2>2, FramePopped DEF Return
    <3> QED
        BY <2>2, <3>1, CallsBuilding
  <2> QED
      BY <1>10, <2>1, <2>2 DEF Return
<1>11. CASE ReturnToNbufParse
  <2>1. CASE Fail(TokenString)
      BY <1>1, <2>1
  <2>2. CASE pc' = "end" /\ UNCHANGED <<stack, objs>>
      BY <2>2, RestBuilding
  <2> QED
      BY <1>11, <2>1, <2>2 DEF ReturnToNbufParse
<1>12. CASE UNCHANGED vars
    BY <1>12, RestBuilding DEF vars
<1> QED
    BY <1>2, <1>3, <1>4, <1>5, <1>6, <1>7, <1>8, <1>9, <1>10, <1>11, <1>12,
       FieldNameBuilding, ValueBuilding, OpenBuilding DEF Next

\* The second round begins as the first one does.
LEMMA PrintBuilding ==
    ASSUME Setting, PrintAndParse
    PROVE  Building'
<1>1. Started'
    BY InputAssumption DEF Setting, PrintAndParse, Started
<1> QED
    BY <1>1, StartedBuilding, PTL

\* Only printing begins the second round.
LEMMA RoundKept ==
    ASSUME [Next]_vars, ~PrintAndParse
    PROVE  UNCHANGED <<round, input>>
BY DEF Next, vars, Stay, Fail, UnknownField, DuplicateField, FieldName, Colon, NoColon,
       Value, BadValue, Open, NoOpen, Separator, EndOfFields, Return, ReturnToNbufParse

\* No step changes what holds of them.
LEMMA SettingKept ==
    ASSUME Setting, [Next]_vars
    PROVE  Setting'
<1>1. CASE PrintAndParse
    BY <1>1 DEF PrintAndParse, Setting, Labels
<1>2. ASSUME NEW freed, Fail(freed)
      PROVE  pc' \in Labels /\ ok' \in BOOLEAN /\ errors' \in Nat
  <2>1. errors' \in Nat
      BY <1>2 DEF Fail, Setting
  <2>2. pc' = "end" /\ ok' = FALSE
      BY <1>2 DEF Fail
  <2> QED
      BY <2>1, <2>2, Zenon DEF Labels
<1>3. CASE ~PrintAndParse
  <2>1. UNCHANGED <<round, input>>
      BY <1>3, RoundKept
  <2> USE DEF Setting, Labels
  <2>2. CASE UnknownField \/ DuplicateField \/ FieldName
      BY <2>1, <2>2 DEF UnknownField, DuplicateField, FieldName
  <2>3. CASE Colon \/ NoColon
      BY <1>2, <2>1, <2>3 DEF Colon, NoColon
  <2>4. CASE Value \/ BadValue
      BY <1>2, <2>1, <2>4 DEF Value, BadValue
  <2>5. CASE Open \/ NoOpen
      BY <1>2, <2>1, <2>5 DEF Open, NoOpen
  <2>6. CASE Separator \/ EndOfFields
      BY <2>1, <2>6 DEF Separator, EndOfFields
  <2>7. CASE Return \/ ReturnToNbufParse
      BY <1>2, <2>1, <2>7 DEF Return, ReturnToNbufParse
  <2>8. CASE UNCHANGED vars
      BY <2>8 DEF vars
  <2> QED
      BY <1>3, <2>2, <2>3, <2>4, <2>5, <2>6, <2>7, <2>8 DEF Next
<1> QED
    BY <1>1, <1>3

\* For every schema, with names that repeat or not, and every text: the objects
\* are well typed, every pointer leads to an object of its field's type that was
\* made later (so no cycle can be built), integers are cut to the width of their
\* field, and the active calls of parse_msg work on objects that hang from each
\* other; again when the printed message is parsed.
THEOREM ParseTypeOK == Spec => []TypeOK
<1>1. Init => Setting /\ Building
  <2> SUFFICES ASSUME Init PROVE Setting /\ Building
      OBVIOUS
  <2>1. Setting
      BY DEF Init, Setting, Labels
  <2>2. Started
      BY InputAssumption DEF Init, Started
  <2> QED
      BY <2>1, <2>2, StartedBuilding
<1>2. Setting /\ Building /\ [Next]_vars => (Setting /\ Building)'
  <2> SUFFICES ASSUME Setting, Building, [Next]_vars
               PROVE  Setting' /\ Building'
      OBVIOUS
  <2>1. Setting'
      BY SettingKept
  <2>2. Building'
      BY PrintBuilding, StepKeepsBuilding
  <2> QED
      BY <2>1, <2>2
<1>3. Setting /\ Building => TypeOK
  <2> SUFFICES ASSUME Setting, Building PROVE TypeOK
      OBVIOUS
  <2>1. DOMAIN objs = 1 .. Len(objs) /\ DOMAIN stack = 1 .. Len(stack)
      BY LenProperties DEF Building, Message, Frames
  <2>2. ASSUME NEW k \in DOMAIN objs, NEW i \in DOMAIN Schema[objs[k].type]
        PROVE  LET f == Schema[objs[k].type][i]
                   v == objs[k].val[f.tag0]
                   targets == IF f.list THEN Range(v) ELSE {v} \ {0}
               IN  /\ f.kind = "PTR" => \A t \in targets :
                          t \in k + 1 .. Len(objs) /\ objs[t].type = f.sub
                   /\ f.kind = "INT" => \A x \in targets : x \in 0 .. IntMod - 1
    <3>1. Suits(Schema[objs[k].type][i], objs[k].val[Schema[objs[k].type][i].tag0], k, objs)
        BY <2>1, <2>2 DEF Building, Message, Typed
    <3> QED
        BY <3>1, Zenon DEF Suits
  <2>3. \A d \in DOMAIN stack :
          /\ stack[d].type = objs[stack[d].obj].type
          /\ d > 1 => stack[d].obj > stack[d - 1].obj
      BY <2>1, TopCall DEF Building, Frames
  <2>4. /\ pc \in {"loop", "colon", "value", "separator", "return", "end", "stopped"}
        /\ input \in Inputs
        /\ ok \in BOOLEAN /\ errors \in Nat /\ round \in {1, 2}
      BY DEF Setting, Labels
  <2> QED
      BY <2>2, <2>3, <2>4, Zenon DEF TypeOK
<1> QED
    BY <1>1, <1>2, <1>3, PTL DEF Spec
=============================================================================

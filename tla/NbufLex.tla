------------------------------ MODULE NbufLex -------------------------------
(***************************************************************************)
(* The lexer (lib/token.c) that the message parser and the schema compiler *)
(* read their text with, one step for each character it takes from the     *)
(* file, and the characters nbuf_print (lib/print.c) writes for a field.   *)
(*                                                                         *)
(* A character is its ASCII code, EOF is -1.  A source is either a text    *)
(* that is made up while it is read, from a small set of characters after  *)
(* a fixed beginning, or the printed form of some fields.                  *)
(*                                                                         *)
(* The bytes of a token are gathered in a buffer of InitCap bytes that     *)
(* doubles when it is full; where a source says so the memory for that, or *)
(* for the buffer itself, may be missing.                                  *)
(***************************************************************************)
EXTENDS Integers, Sequences, FiniteSets, FiniteSetsExt, SequencesExt

CONSTANTS
    Sources,          \* what is read: [fields, prefix, chars, max, oom]
    InitCap,          \* first capacity of a token's buffer
    UMax, IMax        \* ULLONG_MAX and LLONG_MAX

ASSUME LexAssumption == InitCap \in Nat \ {0} /\ UMax \in Nat /\ IMax \in Nat

VARIABLES
    source,           \* member of Sources
    file,             \* [script: what the file begins with, text: characters
                      \*  read so far, eof: the end was seen, back: the
                      \*  character ungetc put back, or None]
    pc,               \* where the lexer is
    ch,               \* the local variable ch of the active function
    buf,              \* bytes of the token so far
    n, x,             \* digits and value of an escape sequence
    lineno,           \* l->lineno
    errors,           \* number of errors reported
    start,            \* place in the text, and errors, where the token began
    tokens            \* returned so far: [kind, val, from, to, clean]

vars == <<source, file, pc, ch, buf, n, x, lineno, errors, start, tokens>>

EOF == -1
None == -2

NL == 10
SP == 32
QUOTE == 34
HASH == 35
STAR == 42
MINUS == 45
SLASH == 47
BSLASH == 92

IsSpace(c) == c \in (9 .. 13) \cup {SP}
\* Mutant of IsODigit: 8 is taken for an octal digit.
IsODigitEight(c) == c \in 48 .. 56

IsODigit(c) == c \in 48 .. 55
IsDigit(c) == c \in 48 .. 57
IsXDigit(c) == c \in (48 .. 57) \cup (65 .. 70) \cup (97 .. 102)
IsAlpha(c) == c \in (65 .. 90) \cup (97 .. 122)
IsAlnum(c) == IsAlpha(c) \/ IsDigit(c)
IsIdent(c) == IsAlnum(c) \/ c = 95
IsPrint(c) == c \in 32 .. 126

-----------------------------------------------------------------------------
(* lib/print.c *)

HexDigit(d) == IF d < 10 THEN 48 + d ELSE 87 + d

\* Mutant of DumpChar: quotes are printed as they are.
DumpCharBare(c) ==
    IF IsPrint(c) THEN <<c>> ELSE <<BSLASH, 120, HexDigit(c \div 16), HexDigit(c % 16)>>

\* One character of dumpstr: \x%02x for what cannot be printed
DumpChar(c) ==
    IF c = QUOTE THEN <<BSLASH, QUOTE>>
    ELSE IF IsPrint(c) THEN <<c>>
    ELSE <<BSLASH, 120, HexDigit(c \div 16), HexDigit(c % 16)>>

DumpStr(s) == <<QUOTE>> \o FlattenSeq([i \in DOMAIN s |-> DumpChar(s[i])]) \o <<QUOTE>>

\* A number between -99 and 99 as %d writes it
DumpInt(v) ==
    LET a == IF v < 0 THEN -v ELSE v IN
    (IF v < 0 THEN <<MINUS>> ELSE <<>>)
      \o (IF a < 10 THEN <<>> ELSE <<48 + (a \div 10)>>) \o <<48 + (a % 10)>>

\* A line of do_print: the indentation, the name, ": " and the value
DumpField(f) ==
    [i \in 1 .. f.indent |-> SP] \o f.name \o <<58, SP>>
      \o (IF f.kind = "STR" THEN DumpStr(f.val) ELSE DumpInt(f.val)) \o <<NL>>

DumpFields(fs) == FlattenSeq([i \in DOMAIN fs |-> DumpField(fs[i])])

-----------------------------------------------------------------------------
(* The file and the tokens *)

Init ==
    /\ source \in Sources
    /\ file = [script |-> source.prefix \o DumpFields(source.fields),
               text |-> <<>>, eof |-> FALSE, back |-> None]
    /\ pc = "lex"
    /\ ch = None
    /\ buf = <<>>
    /\ n = 0 /\ x = 0
    /\ lineno = 1
    /\ errors = 0
    /\ start = [at |-> 1, errors |-> 0]
    /\ tokens = <<>>

\* What getc may return
NextChars ==
    LET at == Len(file.text) + 1 IN
        IF file.back # None THEN {file.back}
        ELSE IF file.eof THEN {EOF}
        ELSE IF at <= Len(file.script) THEN {file.script[at]}
        ELSE IF at <= source.max THEN source.chars \cup {EOF}
        ELSE {EOF}

\* The file after getc returned c, and after ungetc(c)
Taken(c) ==
    [file EXCEPT !.text = IF file.back # None \/ c = EOF THEN @ ELSE Append(@, c),
                 !.eof = c = EOF, !.back = None]

PutBack(f, c) == [f EXCEPT !.back = IF c = EOF THEN None ELSE c]

\* ch = getc(l->fin)
GETC == \E c \in NextChars : ch' = c /\ file' = Taken(c)

\* Number of characters read and not put back
Consumed(f) == Len(f.text) - (IF f.back = None THEN 0 ELSE 1)

\* The token that ends with the last character consumed
Emit(kind, val) ==
    tokens' = Append(tokens, [kind |-> kind, val |-> val, from |-> start.at,
                              to |-> Consumed(file'), clean |-> errors' = start.errors])

\* nbuf_reserve needs memory for one byte more
IsFull == \E k \in 0 .. Len(buf) : Len(buf) = InitCap * 2 ^ k

\* The macro NEXT: addchr stores ch as a byte and the next character is read;
\* without memory the error is reported, ch is dropped and UNK returned.
NEXT(to) ==
    \/ /\ buf' = Append(buf, ch % 256)
       /\ GETC
       /\ pc' = to
       /\ UNCHANGED <<errors, tokens>>
    \/ /\ source.oom /\ IsFull
       /\ errors' = errors + 1
       /\ pc' = "lex"
       /\ UNCHANGED <<file, ch, buf>>
       /\ Emit("UNK", <<>>)

\* A scan begins with nbuf_init_write(&buf, NULL, InitCap).  If that found no
\* memory the first byte is stored all the same, at a null address.
Begin(to) ==
    /\ buf' = <<>>
    /\ pc' = to \/ (source.oom /\ pc' = "undefined")

\* The last addchr, of the NUL, and the return of the token.  Nobody looks at
\* whether the NUL was stored: what reads the token runs past its end.
Return(kind, val) ==
    \/ pc' = "lex" /\ Emit(kind, val)
    \/ source.oom /\ IsFull /\ pc' = "undefined" /\ UNCHANGED tokens

-----------------------------------------------------------------------------
(* White space and comments *)

\* skipspaces, called by nbuf_lex
SkipSpaces ==
    /\ pc = "lex"
    /\ GETC
    /\ lineno' = IF ch' = NL THEN lineno + 1 ELSE lineno
    /\ pc' = IF IsSpace(ch') THEN "lex" ELSE "switch"
    /\ start' = [at |-> Len(file'.text) + (IF ch' = EOF THEN 1 ELSE 0), errors |-> errors]
    /\ UNCHANGED <<source, buf, n, x, errors, tokens>>

\* The character after a slash.  Both are dropped if it begins no comment.
Slash ==
    /\ pc = "switch" /\ ch = SLASH
    /\ GETC
    /\ pc' = IF ch' = STAR THEN "enterlong" ELSE IF ch' = SLASH THEN "line" ELSE "lex"
    /\ UNCHANGED <<source, buf, n, x, lineno, errors, start, tokens>>

\* Mutant of SkipLine: the newline is not put back.
SkipLineEatsNewline ==
    /\ pc = "line" \/ (pc = "switch" /\ ch = HASH)
    /\ GETC
    /\ pc' = IF ch' \in {NL, EOF} THEN "lex" ELSE "line"
    /\ UNCHANGED <<source, buf, n, x, lineno, errors, start, tokens>>

\* skipline: the newline is left for skipspaces to count.
SkipLine ==
    /\ pc = "line" \/ (pc = "switch" /\ ch = HASH)
    /\ \E c \in NextChars :
       /\ ch' = c
       /\ \/ c \in {NL, EOF} /\ pc' = "lex" /\ file' = PutBack(Taken(c), c)
          \/ c \notin {NL, EOF} /\ pc' = "line" /\ file' = Taken(c)
    /\ UNCHANGED <<source, buf, n, x, lineno, errors, start, tokens>>


\* Mutant of SkipLong: the end of the file does not end a comment.
SkipLongForever ==
    /\ pc \in {"enterlong", "long"}
    /\ GETC
    /\ pc' = IF pc = "long" /\ ch = STAR /\ ch' = SLASH THEN "lex" ELSE "long"
    /\ UNCHANGED <<source, buf, n, x, lineno, errors, start, tokens>>

\* skiplong: newlines inside are not counted.
SkipLong ==
    /\ pc \in {"enterlong", "long"}
    /\ \/ /\ ch # EOF
          /\ GETC
          /\ pc' = IF pc = "long" /\ ch = STAR /\ ch' = SLASH THEN "lex" ELSE "long"
          /\ UNCHANGED errors
       \/ /\ ch = EOF
          /\ errors' = errors + 1
          /\ pc' = "lex"
          /\ UNCHANGED <<file, ch>>
    /\ UNCHANGED <<source, buf, n, x, lineno, start, tokens>>

-----------------------------------------------------------------------------
(* Numbers, names and single characters *)

\* scannum as an automaton: where it is after it took the character c, or
\* "end" if it takes no more.
NumStage(s, c) ==
    CASE s = "number" /\ c = MINUS -> "signed"
      [] s \in {"number", "signed"} -> IF c = 48 THEN "zero" ELSE "decimal"
      [] s = "zero" /\ c \in {88, 120} -> "hexadecimal"
      [] s = "hexadecimal" /\ IsXDigit(c) -> "hexadecimal"
      [] s \in {"zero", "octal"} /\ IsODigit(c) -> "octal"
      [] s = "decimal" /\ IsDigit(c) -> "decimal"
      [] s \in {"zero", "decimal"} /\ c = 46 -> "fraction"
      [] s = "fraction" /\ IsDigit(c) -> "fraction"
      [] s \in {"zero", "decimal", "fraction"} /\ c \in {69, 101} -> "e"
      [] s = "e" /\ c \in {43, MINUS} -> "exponent"
      [] s \in {"e", "exponent"} /\ IsDigit(c) -> "exponent"
      [] OTHER -> "end"

Float == {"fraction", "e", "exponent"}
NumStages == Float \cup {"number", "signed", "zero", "decimal", "octal", "hexadecimal"}

\* strtoull, or strtoll after a minus sign, of what was gathered
DigitValue(c) == IF IsDigit(c) THEN c - 48 ELSE IF c >= 97 THEN c - 87 ELSE c - 55
StrToInt ==
    LET base == IF pc = "hexadecimal" THEN 16 ELSE IF pc = "octal" THEN 8 ELSE 10
        sign == IF buf[1] = MINUS THEN 1 ELSE 0
        digits == SubSeq(buf, 1 + sign + (IF base = 16 THEN 2 ELSE 0), Len(buf))
        v == FoldLeft(LAMBDA a, c : a * base + DigitValue(c), 0, digits)
    IN  IF sign = 1 THEN (IF v > IMax + 1 THEN -IMax - 1 ELSE -v)
        ELSE IF v > UMax THEN UMax ELSE v

\* A minus sign begins a number only before a digit.
Minus ==
    /\ pc = "switch" /\ ch = MINUS
    /\ \E c \in NextChars :
       /\ file' = PutBack(Taken(c), c)
       /\ UNCHANGED errors
       /\ \/ IsDigit(c) /\ Begin("number") /\ UNCHANGED tokens
          \/ ~IsDigit(c) /\ pc' = "lex" /\ UNCHANGED buf /\ Emit("CHAR", ch)
    /\ UNCHANGED <<source, ch, n, x, lineno, start>>

\* A digit or a letter is the first character of what is scanned.
Word ==
    /\ pc = "switch"
    /\ \/ IsDigit(ch) /\ Begin("number")
       \/ IsIdent(ch) /\ ~IsDigit(ch) /\ Begin("ident")
    /\ UNCHANGED <<source, file, ch, n, x, lineno, errors, start, tokens>>

ScanNum ==
    /\ pc \in NumStages /\ NumStage(pc, ch) # "end"
    /\ NEXT(NumStage(pc, ch))
    /\ UNCHANGED <<source, n, x, lineno, start>>

\* The end of scannum: a letter right after the number is only reported.  A
\* floating point number stands for the text strtod is given.
ScanNumEnd ==
    /\ pc \in NumStages /\ NumStage(pc, ch) = "end"
    /\ errors' = IF IsAlnum(ch) THEN errors + 1 ELSE errors
    /\ file' = PutBack(file, ch)
    /\ \/ pc \in Float /\ Return("FLT", buf)
       \/ pc \notin Float /\ Return("INT", StrToInt)
    /\ UNCHANGED <<source, ch, buf, n, x, lineno, start>>

ScanIdent ==
    /\ pc = "ident" /\ IsIdent(ch)
    /\ NEXT("ident")
    /\ UNCHANGED <<source, n, x, lineno, start>>

ScanIdentEnd ==
    /\ pc = "ident" /\ ~IsIdent(ch)
    /\ file' = PutBack(file, ch)
    /\ UNCHANGED errors
    /\ Return("ID", buf)
    /\ UNCHANGED <<source, ch, buf, n, x, lineno, start>>

\* Any other character is a token; after EOF nobody calls nbuf_lex again.
Other ==
    /\ pc = "switch" /\ ch \notin {SLASH, HASH, QUOTE, MINUS} /\ ~IsIdent(ch)
    /\ pc' = IF ch = EOF THEN "end" ELSE "lex"
    /\ UNCHANGED <<file, errors>>
    /\ Emit("CHAR", ch)
    /\ UNCHANGED <<source, ch, buf, n, x, lineno, start>>

-----------------------------------------------------------------------------
(* Strings *)

\* After an opening quote (again: also that of a literal joined to another)
StrBegin ==
    /\ \/ pc = "switch" /\ ch = QUOTE /\ Begin("str")
       \/ pc = "again" /\ pc' = "str" /\ UNCHANGED buf
    /\ GETC
    /\ UNCHANGED <<source, n, x, lineno, errors, start, tokens>>

\* NEXT with a character as it is, or what an escape sequence stands for
StrAdd ==
    /\ pc = "add" \/ (pc = "str" /\ ch \notin {QUOTE, BSLASH, NL, EOF})
    /\ NEXT("str")
    /\ UNCHANGED <<source, n, x, lineno, start>>

StrNewline ==
    /\ pc = "str" /\ ch = NL
    /\ errors' = errors + 1
    /\ lineno' = lineno + 1
    /\ pc' = "add"
    /\ UNCHANGED <<source, file, ch, buf, n, x, start, tokens>>

StrEof ==
    /\ pc = "str" /\ ch = EOF
    /\ errors' = errors + 1
    /\ pc' = "after"
    /\ UNCHANGED <<source, file, ch, buf, n, x, lineno, start, tokens>>

Backslash ==
    /\ pc = "str" /\ ch = BSLASH
    /\ GETC
    /\ n' = 0 /\ x' = 0
    /\ pc' = "escape"
    /\ UNCHANGED <<source, buf, lineno, errors, start, tokens>>

\* The characters after a backslash that stand for one character
Named == {97, 98, 102, 110, 114, 116, 118, BSLASH, 39, QUOTE}
Meant(c) ==
    CASE c = 97 -> 7 [] c = 98 -> 8 [] c = 102 -> 12 [] c = 110 -> 10
      [] c = 114 -> 13 [] c = 116 -> 9 [] c = 118 -> 11 [] OTHER -> c

EscapeNamed ==
    /\ pc = "escape" /\ n = 0 /\ ch \in Named
    /\ ch' = Meant(ch)
    /\ pc' = "add"
    /\ UNCHANGED <<source, file, buf, n, x, lineno, errors, start, tokens>>

EscapeHex ==
    /\ pc = "escape" /\ n = 0 /\ ch = 120
    /\ GETC
    /\ pc' = "hexescape"
    /\ UNCHANGED <<source, buf, n, x, lineno, errors, start, tokens>>

\* Mutant of MoreDigits: hexadecimal escapes may have three digits.
MoreDigitsThree ==
    \/ pc = "hexescape" /\ IsXDigit(ch) /\ n < 3
    \/ pc = "escape" /\ IsODigit(ch) /\ n < 3

\* The conditions of the loops over hexadecimal and octal digits
MoreDigits ==
    \/ pc = "hexescape" /\ IsXDigit(ch) /\ n < 2
    \/ pc = "escape" /\ IsODigit(ch) /\ n < 3

\* A letter, too, counts with its distance to '0'.
EscapeDigit ==
    /\ MoreDigits
    /\ n' = n + 1
    /\ x' = x * (IF pc = "hexescape" THEN 16 ELSE 8) + (ch - 48)
    /\ GETC
    /\ UNCHANGED <<source, pc, buf, lineno, errors, start, tokens>>

\* The character after the digits is put back.  Without digits that is
\* reported, and the character is stored and then read again.
EscapeEnd ==
    /\ \/ pc = "hexescape"
       \/ pc = "escape" /\ (n > 0 \/ ch \notin Named \cup {120})
    /\ ~MoreDigits
    /\ file' = PutBack(file, ch)
    /\ \/ n > 0 /\ ch' = x /\ UNCHANGED errors
       \/ n = 0 /\ UNCHANGED ch /\ errors' = errors + 1
    /\ pc' = "add"
    /\ UNCHANGED <<source, buf, n, x, lineno, start, tokens>>

\* skipspaces after the closing quote: another literal is joined to this one.
StrAfter ==
    /\ pc = "after" \/ (pc = "str" /\ ch = QUOTE)
    /\ UNCHANGED errors
    /\ \E c \in NextChars :
       /\ ch' = c
       /\ lineno' = IF c = NL THEN lineno + 1 ELSE lineno
       /\ \/ IsSpace(c) /\ file' = Taken(c) /\ pc' = "after" /\ UNCHANGED tokens
          \/ c = QUOTE /\ file' = Taken(c) /\ pc' = "again" /\ UNCHANGED tokens
          \/ ~IsSpace(c) /\ c # QUOTE /\ file' = PutBack(Taken(c), c) /\ Return("STR", buf)
    /\ UNCHANGED <<source, buf, n, x, start>>

Next ==
    \/ SkipSpaces \/ Slash \/ SkipLine \/ SkipLong
    \/ Minus \/ Word \/ ScanNum \/ ScanNumEnd \/ ScanIdent \/ ScanIdentEnd \/ Other
    \/ StrBegin \/ StrAdd \/ StrNewline \/ StrEof \/ StrAfter
    \/ Backslash \/ EscapeNamed \/ EscapeHex \/ EscapeDigit \/ EscapeEnd

\* The program does not stop in the middle of a text.
Spec == Init /\ [][Next]_vars /\ WF_vars(Next)

-----------------------------------------------------------------------------
(* Properties *)

Newlines(s) == Cardinality({i \in DOMAIN s : s[i] = NL})

\* What the lexer skips before a token, piece by piece: the pieces begin with a
\* white space, with a line comment, with a long comment, or with a slash that
\* begins neither, which is skipped along with the character after it.
BeginsWith(s, i, c, d) == s[i] = c /\ i < Len(s) /\ s[i + 1] = d
IsLine(s, i) == s[i] = HASH \/ BeginsWith(s, i, SLASH, SLASH)
IsLong(s, i) == BeginsWith(s, i, SLASH, STAR)
IsLone(s, i) == s[i] = SLASH /\ ~IsLine(s, i) /\ ~IsLong(s, i)

\* Where a long comment may end, and where the piece that begins at i ends
Closings(s, i) == {j \in i + 3 .. Len(s) : s[j - 1] = STAR /\ s[j] = SLASH}
PieceEnd(s, i) ==
    CASE IsLine(s, i) -> Min({j \in i .. Len(s) : j = Len(s) \/ s[j + 1] = NL})
      [] IsLong(s, i) -> Min(Closings(s, i) \cup {Len(s)})
      [] IsLone(s, i) -> Min({i + 1, Len(s)})
      [] OTHER -> i

\* Where the pieces of s begin
Pieces(s) ==
    LET from[i \in 1 .. Len(s) + 1] ==
          IF i > Len(s) THEN {} ELSE {i} \cup from[PieceEnd(s, i) + 1]
    IN  from[1]

\* The text before token i and after the one before it, or after the last one
Gap(i) ==
    SubSeq(file.text, IF i = 1 THEN 1 ELSE tokens[i - 1].to + 1,
                      IF i > Len(tokens) THEN Consumed(file) ELSE tokens[i].from - 1)

\* The newlines of s that are in a long comment or right after a lone slash
Uncounted(s) ==
    {j \in DOMAIN s : s[j] = NL /\ \E i \in Pieces(s) :
        (IsLong(s, i) \/ IsLone(s, i)) /\ j \in i .. PieceEnd(s, i)}

\* The line number that errors carry: between two tokens every newline read was
\* counted once, by skipspaces (from two places), by scanstr or after skipline,
\* whatever was put back and read again.  Only those that are skipped in a long
\* comment, or right after a lone slash, are not counted.
LinesCounted ==
    pc \in {"lex", "switch", "end"} =>
        lineno = 1 + Newlines(SubSeq(file.text, 1, Consumed(file)))
                   - MapThenSumSet(LAMBDA i : Cardinality(Uncounted(Gap(i))),
                                   1 .. Len(tokens) + 1)

Lexeme(t) == SubSeq(file.text, t.from, t.to)


\* The value of digits from .. to of s in base b
Value(s, from, to, b) ==
    MapThenSumSet(LAMBDA i : DigitValue(s[i]) * b ^ (to - i), from .. to)

\* What a number stands for, read as C reads it, and whether it is one
NumberMeans(s, v) ==
    LET sign == IF s[1] = MINUS THEN 1 ELSE 0
        d == SubSeq(s, 1 + sign, Len(s))
        b == IF d[1] # 48 \/ Len(d) = 1 THEN 10 ELSE IF IsDigit(d[2]) THEN 8 ELSE 16
        from == IF b = 16 THEN 3 ELSE 1
        m == Value(d, from, Len(d), b)
    IN  /\ \A i \in from .. Len(d) : IsXDigit(d[i]) /\ DigitValue(d[i]) < b
        /\ IF sign = 1 THEN v = -m \/ (m > IMax /\ v = -IMax - 1)
           ELSE v = m \/ (m > UMax /\ v = UMax)

\* A number that is returned without a complaint is all of the number that is
\* written there, in the base its prefix says: no digit is left for the next
\* token, none of another base is taken in, and a point or an exponent makes
\* it a floating point number.
NumbersAsWritten ==
    tokens # <<>> =>
        LET t == Last(tokens) IN
        t.kind \in {"INT", "FLT"} /\ t.clean =>
            /\ t.to < Len(file.text) => ~IsAlnum(file.text[t.to + 1])
            /\ t.kind = "INT" => NumberMeans(Lexeme(t), t.val)
            /\ t.kind = "FLT" => /\ t.val = Lexeme(t)
                                 /\ \E j \in DOMAIN t.val : t.val[j] \in {46, 69, 101}

\* What the literals in s, joined, stand for: C's escape sequences with at
\* most two hexadecimal or three octal digits
StringMeant(s) ==
    LET m[i \in 1 .. Len(s) + 1, inside \in BOOLEAN] ==
          IF i > Len(s) THEN <<>>
          ELSE IF s[i] = QUOTE THEN m[i + 1, ~inside]
          ELSE IF ~inside THEN m[i + 1, FALSE]
          ELSE IF s[i] # BSLASH THEN <<s[i]>> \o m[i + 1, TRUE]
          ELSE IF s[i + 1] \in Named THEN <<Meant(s[i + 1])>> \o m[i + 2, TRUE]
          ELSE LET b == IF s[i + 1] = 120 THEN 16 ELSE 8
                   from == IF b = 16 THEN i + 2 ELSE i + 1
                   digit(j) == IsXDigit(s[j]) /\ DigitValue(s[j]) < b
                   most == IF b = 16 THEN 2 ELSE 3
                   to == CHOOSE k \in from .. from + most - 1 :
                            /\ \A j \in from .. k : digit(j)
                            /\ k = from + most - 1 \/ ~digit(k + 1)
               IN  <<Value(s, from, to, b) % 256>> \o m[to + 1, TRUE]
    IN  m[1, FALSE]

\* A hexadecimal escape with a letter among its digits
HasHexLetter(s) ==
    \E i \in 1 .. Len(s) - 2 :
        s[i] = BSLASH /\ s[i + 1] = 120
          /\ \E j \in i + 2 .. i + 3 : j <= Len(s) /\ IsAlpha(s[j])

\* A string that is returned without a complaint holds what is written, over
\* any mixture of literals joined to one another, escapes that end where the
\* next character is a digit too, and characters read twice.  Hexadecimal
\* escapes with letters are left out: those the code reads differently.
StringsAsWritten ==
    tokens # <<>> =>
        LET t == Last(tokens) IN
        t.kind = "STR" /\ t.clean /\ ~HasHexLetter(Lexeme(t)) => t.val = StringMeant(Lexeme(t))

\* The tokens that a printed message should be read as
Expected(fs) ==
    FlattenSeq([i \in DOMAIN fs |->
        <<<<"ID", fs[i].name>>, <<"CHAR", 58>>, <<fs[i].kind, fs[i].val>>>>])
      \o <<<<"CHAR", EOF>>>>

\* What nbuf_print writes and nbuf_lex reads (user.md, encoder and decoder):
\* the same fields, for every string.
PrintedReadsBack ==
    pc = "end" /\ source.fields # <<>> =>
        [i \in DOMAIN tokens |-> <<tokens[i].kind, tokens[i].val>>] = Expected(source.fields)

\* Strings that dumpstr writes in a form scanstr understands
Plain(s) ==
    \A i \in DOMAIN s :
        /\ s[i] # BSLASH
        /\ ~IsPrint(s[i]) => s[i] \div 16 < 10 /\ s[i] % 16 < 10

\* The same for strings without backslashes and without bytes that need a
\* letter in their escape, next to whatever other characters and fields.
PlainReadsBack ==
    (\A i \in DOMAIN source.fields :
        source.fields[i].kind = "STR" => Plain(source.fields[i].val)) => PrintedReadsBack

\* The lexer reaches the end of every text, in the middle of a comment, a
\* string, an escape sequence or a number too; unless memory ran out where
\* nobody looks.
ReadsToEnd == <>(pc \in {"end", "undefined"})
=============================================================================

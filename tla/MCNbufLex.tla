------------------------------ MODULE MCNbufLex ------------------------------
(***************************************************************************)
(* Texts of strings, comments, numbers and names, each made of the         *)
(* characters that matter there, and printed messages of two fields.       *)
(***************************************************************************)
EXTENDS NbufLex

Free(prefix, chars, max) ==
    [fields |-> <<>>, prefix |-> prefix, chars |-> chars, max |-> max, oom |-> FALSE]

\* " \ x 5 a newline space
Strings == Free(<<QUOTE>>, {QUOTE, BSLASH, 120, 53, 97, NL, SP}, 6)
\* "\ and then " \ x 5 8 f
Escapes == Free(<<QUOTE, BSLASH>>, {QUOTE, BSLASH, 120, 53, 56, 102}, 7)
\* / * # newline a
Comments == Free(<<>>, {SLASH, STAR, HASH, NL, 97}, 6)
\* Comments that begin inside a string: " / * newline
Quoted == Free(<<QUOTE, SLASH>>, {QUOTE, SLASH, STAR, NL}, 7)
\* - 0 7 8 . e x and space
Numbers == Free(<<>>, {MINUS, 48, 55, 56, 46, 101, 120, SP}, 5)
\* Names, strings and numbers without enough memory: a " 5 newline \
Starved == [Free(<<>>, {97, QUOTE, 53, NL, BSLASH}, 6) EXCEPT !.oom = TRUE]

String(s) == [kind |-> "STR", name |-> <<115>>, indent |-> 0, val |-> s]
Number(v) == [kind |-> "INT", name |-> <<105, 95, 49>>, indent |-> 2, val |-> v]
Printed(fs) == [Free(<<>>, {}, 0) EXCEPT !.fields = fs]

\* " 5 space 1 (printed as \x01)
Bytes == {QUOTE, 53, SP, 1}
Values == {String(s) : s \in SeqOf(Bytes, 2)} \cup {Number(v) : v \in {-12, -7, 0, 8, 12}}

MCSources ==
    {Strings, Escapes, Comments, Quoted, Numbers, Starved}
      \cup {Printed(<<f, g>>) : f \in Values, g \in Values}

\* Backslashes and bytes whose hexadecimal form has a letter, too
AllSources == {Printed(<<String(s)>>) : s \in SeqOf(Bytes \cup {BSLASH, 10}, 2)}
=============================================================================

---------------------------- MODULE MCNbufWriter ----------------------------
(***************************************************************************)
(* Instances of NbufWriter and NbufPython: messages with a 4-byte scalar   *)
(* and a pointer, lists of 4-byte scalars and of bits.  Every byte of      *)
(* fresh memory is 16#FF.                                                  *)
(***************************************************************************)
EXTENDS WriterMessage

Make(n, s, p) == [nelem |-> n, ssize |-> s, psize |-> p]

Node == Make(1, 4, 1)
Bits == Make(7, 0, 0)     \* a list of bits one short of a byte

\* One that writes a longer message, one that writes two in the same memory,
\* and a rough one.
Careful == [makes |-> {Node, Make(1, 4, 0), Bits}, cap |-> 56, clears |-> 0, rough |-> FALSE]
Reusing == [makes |-> {Node, Bits}, cap |-> 40, clears |-> 1, rough |-> FALSE]
Rough == [makes |-> {Node, Make(1, 4, 0), Bits}, cap |-> 40, clears |-> 0, rough |-> TRUE]
AllClients == {Careful, Reusing, Rough}
FewClients == {[Careful EXCEPT !.cap = 32]}

IntKinds == [kind \in {"INT"} |-> [ssize |-> 4, psize |-> 0]]
BoolKinds == [kind \in {"BOOL"} |-> [ssize |-> 0, psize |-> 0]]

AllBits == 0 .. 7
=============================================================================

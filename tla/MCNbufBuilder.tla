---------------------------- MODULE MCNbufBuilder ----------------------------
(***************************************************************************)
(* Instances of NbufBuilder: messages with a 4-byte scalar and a pointer,  *)
(* lists of bits one short of a byte, lists of 4-byte scalars.  Every byte *)
(* of fresh memory is 16#FF.                                               *)
(***************************************************************************)
EXTENDS BuilderMessage

Make(n, s, p) == [nelem |-> n, ssize |-> s, psize |-> p]

Linking == [makes |-> {Make(1, 4, 1)}, maxobjs |-> 3, rough |-> TRUE]
BitLists == [makes |-> {Make(1, 4, 1), Make(7, 0, 0)}, maxobjs |-> 2, rough |-> FALSE]
Rough == [makes |-> {Make(1, 4, 1), Make(3, 4, 0)}, maxobjs |-> 2, rough |-> TRUE]
AllClients == {Linking, BitLists, Rough}

IntKinds == [kind \in {"INT"} |-> [ssize |-> 4, psize |-> 0]]

\* An empty object, and one that reaches beyond any output.
AnySizes == {Make(0, 0, 0), Make(63, 4, 60)}

AllBits == 0 .. 7
=============================================================================

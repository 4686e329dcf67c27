------------------------------ MODULE MsgGraph ------------------------------
(***************************************************************************)
(* What the write API promises, whichever way it stores the message: a     *)
(* sequence of objects in the order of their creation, each a list of      *)
(* elements that have a scalar and psize pointers to other objects.  An    *)
(* object or an element that nobody wrote to reads as zeros and nulls, and *)
(* a call changes what its own arguments name and nothing else.            *)
(*                                                                         *)
(* k and t are numbers of objects, 0 being the null pointer's; elements e  *)
(* and pointers i count from 0, as in the calls.                           *)
(***************************************************************************)
EXTENDS Integers, Sequences

VARIABLE objs

Nulls(p) == [i \in 1 .. p |-> 0]

Blank(n, s, p) ==
    [ssize |-> s, psize |-> p,
     vals |-> [e \in 1 .. n |-> 0],
     ptrs |-> [e \in 1 .. n |-> Nulls(p)]]

\* A string of n characters, which are 1 here, and its NUL.
Text(n) ==
    [Blank(n + 1, 1, 0) EXCEPT !.vals = [e \in 1 .. n + 1 |-> IF e <= n THEN 1 ELSE 0]]

\* Object o with v in its first element.
Holding(o, v) == [o EXCEPT !.vals[1] = v]

\* A list created with its first value, which is not stored if it is a bit.
FirstOf(s, p, v) == IF s > 0 THEN Holding(Blank(1, s, p), v) ELSE Blank(1, s, p)

\* What an element of o shows when v was put into it: one that consists of
\* pointers holds no scalar.
Held(o, v) == IF o.ssize > 0 \/ o.psize = 0 THEN v ELSE 0

WithLink(os, k, e, i, t) == [os EXCEPT ![k].ptrs[e + 1][i + 1] = t]
WithValue(os, k, e, v) == [os EXCEPT ![k].vals[e + 1] = v]

\* Object o with one more element, blank but for its scalar.
Longer(o, v) ==
    [o EXCEPT !.vals = Append(@, Held(o, v)), !.ptrs = Append(@, Nulls(o.psize))]

Init == objs = <<>>

Create(o) == objs' = Append(objs, o)

\* An object created as the target of a pointer.
CreateAt(k, e, i, o) == objs' = WithLink(Append(objs, o), k, e, i, Len(objs) + 1)

Link(k, e, i, t) == objs' = WithLink(objs, k, e, i, t)

\* The list that a pointer leads to gets one more element.
Grow(k, e, i, v) ==
    \E t \in {objs[k].ptrs[e + 1][i + 1]} : objs' = [objs EXCEPT ![t] = Longer(@, v)]

Put(k, e, v) == objs' = WithValue(objs, k, e, v)

Clear == objs' = <<>>
=============================================================================

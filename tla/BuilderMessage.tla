--------------------------- MODULE BuilderMessage ---------------------------
(***************************************************************************)
(* The builder next to the message that its calls describe: graph is       *)
(* changed by each call as its own arguments say, the pool by what the     *)
(* code does.                                                              *)
(***************************************************************************)
EXTENDS NbufBuilder

VARIABLE graph

Message == INSTANCE MsgGraph WITH objs <- graph

MsgInit == Init /\ Message!Init

\* A call has this effect on the message; after a fault the message counts as
\* given up.
Does(effect) == IF faults' = {} THEN effect ELSE Message!Clear

MakesObjects ==
    \E m \in client.makes :
        /\ Create(m)
        /\ Does(Message!Create(Message!Blank(m.nelem, m.ssize, m.psize)))

\* The calls on pointer i of element e of object k.  A link to the root is a
\* null pointer.
UsesPointer(k, e, i) ==
    \/ \E m \in client.makes :
         /\ InitField(k, e, i, m)
         /\ Does(Message!CreateAt(k, e, i, Message!Blank(m.nelem, m.ssize, m.psize)))
    \/ \E t \in Objects :
         Link(k, e, i, t) /\ Does(Message!Link(k, e, i, IF t = 1 THEN 0 ELSE t))
    \/ \E n \in StrLens :
         PutStr(k, e, i, n) /\ Does(Message!CreateAt(k, e, i, Message!Text(n)))
    \/ \E v \in {0, 1} :
         AppendValue(k, e, i, v) /\ Does(Message!Grow(k, e, i, v))
    \/ \E kind \in DOMAIN KindShape, v \in {0, 1} :
         /\ AppendFirst(k, e, i, kind, v)
         /\ Does(Message!CreateAt(k, e, i,
                     Message!FirstOf(KindShape[kind].ssize, KindShape[kind].psize, v)))

PutsScalar(k, e) ==
    \E v \in {0, 1} : SetScalar(k, e, v) /\ Does(Message!Put(k, e, v))

\* The calls after which the message is gone from the pool
GivesUp ==
    /\ \/ CreateHalf
       \/ \E k \in Objects, n \in 1 .. MaxElems : Shrink(k, n)
       \/ Serialize
       \/ FreeBuilder
    /\ Message!Clear

MsgNext ==
    /\ "wrapped" \notin faults
    /\ \/ MakesObjects
       \/ \E k \in Objects : \E e \in Elements(k) :
            \/ \E i \in Pointers(k) : UsesPointer(k, e, i)
            \/ e \in EdgeElements(k) /\ PutsScalar(k, e)
       \/ GivesUp

MsgSpec == MsgInit /\ [][MsgNext]_<<vars, graph>>

-----------------------------------------------------------------------------
\* An object of the pool reads back as what the calls put in it: each call
\* changed the element, the pointer or the list that its own arguments name,
\* however many objects were created or grown meanwhile.  (The first value of
\* a list of bool is not stored, and after a fault no more is said.)
PoolReadsBack == faults = {} => PoolObjects = graph
=============================================================================

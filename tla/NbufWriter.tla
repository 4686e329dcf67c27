----------------------------- MODULE NbufWriter -----------------------------
(***************************************************************************)
(* The write API of include/nbuf.h on a plain buffer (buf->ops = NULL),    *)
(* with the setters and initialisers that nbufc generates and the append   *)
(* of include/libnbuf.h.  All objects share one buffer, so only the last   *)
(* one can grow, and pointers are relative to their own address.           *)
(*                                                                         *)
(* The client may do any operation on any object in any order; an object   *)
(* is named by its number k, e is an index of an element and i one of its  *)
(* pointers.  An operation that returns without an effect (no memory where *)
(* the caller tests it, an index out of range, a list that is not last) is *)
(* a stuttering step.                                                      *)
(***************************************************************************)
EXTENDS NbufWire

CONSTANTS
    Clients,          \* profiles of the clients (see below)
    StrLens,          \* lengths of strings
    KindShape,        \* kind of a list's elements -> [ssize, psize]
    Garbage,          \* the bits that are 1 in a byte of fresh memory
    MaxElems, MaxBits \* bounds on the length of a list

(* A client's profile is a record                                          *)
(*   [makes  |-> the [nelem, ssize, psize] of the objects it creates,      *)
(*    cap    |-> bytes beyond which nbuf_reserve gets no memory,           *)
(*    clears |-> how often it calls nbuf_clear,                            *)
(*    rough  |-> whether it runs out of memory under an initialiser and    *)
(*               makes lists shorter].                                     *)

\* The sizes a client asks for are ones that nbufc computes or that a list has:
\* aligned, and short of the length at which a vector of bits wraps.
ASSUME WriterAssumption ==
    /\ \A c \in Clients :
         /\ c.cap \in Nat /\ c.clears \in Nat
         /\ \A m \in c.makes : Shape(m.nelem, m.ssize, m.psize)
    /\ \A kind \in DOMAIN KindShape : Shape(1, KindShape[kind].ssize, KindShape[kind].psize)
    /\ StrLens \subseteq Nat /\ Garbage \subseteq 0 .. 7
    /\ MaxElems \in Nat /\ MaxBits \in Nat /\ MaxBits + 7 < NelemMod

VARIABLES
    w,                \* the buffer
    client,           \* the profile of this client
    clears,           \* number of calls of nbuf_clear so far
    faults            \* what went wrong: "linked" to an object that was not
                      \* made, "shortened" list, "wrapped" size of a memset

vars == <<w, client, clears, faults>>

Objects == DOMAIN w.objs

\* nbuf_reserve finds room for one more object.
Fits(n, s, p) == EndOf(NewObj(w, n, s, p)) <= client.cap

NewIndex == Len(w.objs) + 1
Elements(k) == 0 .. Obj(w, k).nelem - 1
EdgeElements(k) == {0, Obj(w, k).nelem - 1}    \* a bound on what is written
Pointers(k) == 0 .. Obj(w, k).psize - 1

Init ==
    /\ client \in Clients
    /\ w = EmptyWire(client.cap, 0, [a \in 0 .. client.cap - 1 |-> Garbage])
    /\ clears = 0
    /\ faults = {}

\* nbuf_create: <pkg>_new_<Msg> and direct calls
Create(m) ==
    /\ Fits(m.nelem, m.ssize, m.psize)
    /\ w' = CreateIn(w, m.nelem, m.ssize, m.psize)
    /\ UNCHANGED <<client, clears, faults>>

\* _nbuf_put_ptr: the asserted rel > 0 is a guard.
PutPtr(v, slot, hdr_base) ==
    /\ hdr_base > slot
    /\ w' = PutWord(v, slot, RelTo(slot, hdr_base))

\* Mutant of InitField: the distance is taken from the object's header.
InitFieldFromHeader(k, e, i, m) ==
    LET slot == Slot(Obj(w, k), e, i) IN
    /\ Fits(m.nelem, m.ssize, m.psize)
    /\ w' = PutWord(CreateIn(w, m.nelem, m.ssize, m.psize), slot, RelTo(w.objs[k].at, w.len))
    /\ UNCHANGED <<client, clears, faults>>

\* <pkg>_<Msg>_init_<field>: nbuf_create, then nbuf_put_ptr.  A create that
\* failed returns base = buf->len, which put_ptr takes for an object whose
\* header is in the last 8 bytes.
InitField(k, e, i, m) ==
    LET slot == Slot(Obj(w, k), e, i) IN
    /\ \/ /\ Fits(m.nelem, m.ssize, m.psize)
          /\ PutPtr(CreateIn(w, m.nelem, m.ssize, m.psize), slot, w.len)
          /\ UNCHANGED faults
       \/ /\ client.rough
          /\ PutPtr(w, slot, w.len - Align)
          /\ faults' = faults \cup {"linked"}
    /\ UNCHANGED <<client, clears>>

\* nbuf_put_ptr with an object created before
Link(k, e, i, t) ==
    /\ PutPtr(w, Slot(Obj(w, k), e, i), w.objs[t].at)
    /\ UNCHANGED <<client, clears, faults>>

\* nbuf_put_str: create, copy, terminate, link
PutStr(k, e, i, n) ==
    /\ Fits(n + 1, 1, 0)
    /\ PutPtr(PutChars(CreateIn(w, n + 1, 1, 0), w.len + HdrSz, n), Slot(Obj(w, k), e, i), w.len)
    /\ UNCHANGED <<client, clears, faults>>

\* nbuf_ref_init_ptr followed by nbuf_ref_put_int or nbuf_ref_put_bit, as
\* parse_msg calls them, for a list that has elements.  No client appends
\* through a pointer that a failed initialiser left (fault "linked"): what
\* lies where it leads is no header.
AppendValue(k, e, i, v) ==
    LET slot == Slot(Obj(w, k), e, i)
        list == TargetIn(w, slot)
        n == Obj(w, list).nelem
        grown == ResizeIn(w, list, n + 1)
    IN  /\ list \in Objects
        /\ n < IF ElemSz(Obj(w, list)) = 0 THEN MaxBits ELSE MaxElems
        /\ AtEnd(w, list)
        /\ EndOf(Resized(Obj(w, list), n + 1)) <= client.cap
        /\ w' = IF HasScalar(Obj(grown, list))
                THEN PutScalar(grown, Obj(grown, list), n, v)
                ELSE grown
        /\ UNCHANGED <<client, clears, faults>>

\* The same for the first element: the list is created with one element and
\* the handle of the whole list is used as the element's.  For bits its
\* ssize is 0 and nbuf_put_bit returns before it stores anything.  Without
\* memory it leaves what InitField leaves then.
AppendFirst(k, e, i, kind, v) ==
    LET slot == Slot(Obj(w, k), e, i)
        s == KindShape[kind]
        made == CreateIn(w, 1, s.ssize, s.psize)
    IN  /\ Fits(1, s.ssize, s.psize)
        /\ w.rel[slot] = 0
        /\ PutPtr(IF s.ssize > 0 THEN PutScalar(made, Obj(made, NewIndex), 0, v) ELSE made,
                  slot, w.len)
        /\ UNCHANGED <<client, clears, faults>>

\* nbuf_put_int or nbuf_put_bit through the handle of an element
SetScalar(k, e, v) ==
    /\ HasScalar(Obj(w, k))
    /\ w' = PutScalar(w, Obj(w, k), e, v)
    /\ UNCHANGED <<client, clears, faults>>

\* nbuf_resize to fewer elements: newend - end is 0, and the old elements stay
\* where they are, or it wraps to a huge size for memset.
Shrink(k, n) ==
    LET newend == EndOf(Resized(Obj(w, k), n)) IN
    /\ client.rough
    /\ n < Obj(w, k).nelem
    /\ AtEnd(w, k)
    /\ \/ /\ newend = w.len
          /\ w' = Wire(w.len, WithLength(w.objs, k, n), w.rel, w.bits)
          /\ faults' = faults \cup {"shortened"}
       \/ /\ newend # w.len
          /\ faults' = faults \cup {"wrapped"}
          /\ UNCHANGED w
    /\ UNCHANGED <<client, clears>>

\* nbuf_clear: the bytes stay where they are
Clear ==
    /\ clears < client.clears
    /\ w.len > 0
    /\ w' = Wire(0, <<>>, w.rel, w.bits)
    /\ clears' = clears + 1
    /\ UNCHANGED <<client, faults>>

Step ==
    \/ \E m \in client.makes : Create(m)
    \/ \E k \in Objects : \E e \in Elements(k) :
         \/ \E i \in Pointers(k) :
              \/ \E m \in client.makes : InitField(k, e, i, m)
              \/ \E t \in Objects : Link(k, e, i, t)
              \/ \E n \in StrLens : PutStr(k, e, i, n)
              \/ \E v \in {0, 1} : AppendValue(k, e, i, v)
              \/ \E kind \in DOMAIN KindShape, v \in {0, 1} :
                   AppendFirst(k, e, i, kind, v)
         \/ \E v \in {0, 1} : e \in EdgeElements(k) /\ SetScalar(k, e, v)
    \/ \E k \in Objects, n \in 1 .. MaxElems : Shrink(k, n)
    \/ Clear

\* A memset of a wrapped size ends the program.
Next == "wrapped" \notin faults /\ Step

Spec == Init /\ [][Next]_vars

-----------------------------------------------------------------------------
TypeOK ==
    /\ client \in Clients
    /\ w.len \in 0 .. client.cap
    /\ w.objs \in Seq([at : Nat, nelem : Nat, ssize : Nat, psize : Nat])
    /\ w.rel \in [0 .. client.cap - 1 -> Int]
    /\ w.bits \in [0 .. client.cap - 1 -> SUBSET (0 .. 7)]
    /\ clears \in 0 .. client.clears
    /\ faults \subseteq {"linked", "shortened", "wrapped"}

\* Objects lie back to back at multiples of 8 bytes and fill the buffer: the
\* layout spec.txt prescribes and _nbuf_create asserts of buf->len.  This holds
\* of rough clients too.
ObjectsTile == Tiled(w)

\* Whatever was written, no non-zero byte lies between an object's last
\* element and its end: spec.txt, and what nbuf_resize relies on when the
\* new elements still fit in the padding.  (A list that was made shorter is
\* the exception.)
PaddingZero == "shortened" \in faults \/ PaddingIsZero(w)

\* Every pointer leads forward to the header of an object, so reading and
\* walking a message that was written here always ends.  (Except after an
\* initialiser linked to an object that it could not make.)
PointersLeadToObjects == "linked" \in faults \/ PointersToObjects(w)

\* The first value put into a list is in it: libnbuf.h, "initialize
\* object/list or append to the list", as parse_msg uses it for an array
\* field (user.md, "field2: value2_1").
FirstValueKept ==
    [][\A k \in Objects : \A e \in Elements(k), i \in Pointers(k) :
         \A kind \in DOMAIN KindShape, v \in {0, 1} :
           AppendFirst(k, e, i, kind, v)
             => GetScalar(w', Obj(w', NewIndex), 0) = v]_vars
=============================================================================

----------------------------- MODULE NbufBuilder -----------------------------
(***************************************************************************)
(* The builder of lib/pool.c: each object has a buffer of its own, so that *)
(* any list can grow at any time; a pointer word holds the number (id) of  *)
(* the target, and nbuf_serialize copies all objects into one buffer and   *)
(* turns the ids into relative pointers.                                   *)
(*                                                                         *)
(* The pool is a sequence of buffers of the kind NbufWire describes.  The  *)
(* first MetaSz bytes of each hold struct objmeta; its one object follows. *)
(* The object at index k has id k - 1, so id 0, the null pointer, is the   *)
(* root's: a pointer that is made lead to the root is silently null.  The  *)
(* client may call anything on any object in any order.                    *)
(***************************************************************************)
EXTENDS NbufWire

CONSTANTS
    Clients,          \* profiles of the clients (see below)
    StrLens,          \* lengths of strings
    KindShape,        \* kind of a list's elements -> [ssize, psize]
    Garbage,          \* the bits that are 1 in a byte of fresh memory
    Cap,              \* bytes an object's buffer may grow to
    Junk,             \* sizes that 8 bytes which are no header may show
    MaxElems, MaxBits \* bounds on the length of a list

(* A client's profile is a record                                          *)
(*   [makes   |-> the [nelem, ssize, psize] of the objects it creates,     *)
(*    maxobjs |-> a bound on their number,                                 *)
(*    rough   |-> whether it runs out of memory for an object's bytes and  *)
(*                makes lists shorter].                                    *)

MetaSz == 16          \* sizeof (struct objmeta)

\* The sizes a client asks for are ones that nbufc computes or that a list has:
\* aligned, and short of the length at which a vector of bits wraps.
ASSUME BuilderAssumption ==
    /\ \A c \in Clients : \A m \in c.makes : Shape(m.nelem, m.ssize, m.psize)
    /\ \A kind \in DOMAIN KindShape : Shape(1, KindShape[kind].ssize, KindShape[kind].psize)
    /\ StrLens \subseteq Nat /\ Garbage \subseteq 0 .. 7
    /\ Junk \subseteq [nelem : Nat, ssize : Nat, psize : Nat]
    /\ Cap \in Nat /\ Cap >= MetaSz
    /\ MaxElems \in Nat /\ MaxBits \in Nat /\ MaxBits + 7 < NelemMod

VARIABLES
    pool,             \* the builder's buffers
    phase,            \* "build", then "wire" or "freed"
    wire,             \* the buffer nbuf_serialize leaves
    client,           \* the profile of this client
    faults            \* what went wrong: "shortened" list, "wrapped" size of a
                      \* memset, object without memory for its "header"

vars == <<pool, phase, wire, client, faults>>

NoWire == EmptyWire(0, 0, <<>>)
Fresh == EmptyWire(Cap, MetaSz, [a \in 0 .. Cap - 1 |-> Garbage])

\* getobj: the handle of the object in a buffer, the null handle if its
\* header could not be allocated.
TheObj(b) == IF b.objs = <<>> THEN NullObj ELSE Obj(b, 1)

Objects == DOMAIN pool
HasRoom == Len(pool) < client.maxobjs
Elements(k) == 0 .. TheObj(pool[k]).nelem - 1
EdgeElements(k) == {0, TheObj(pool[k]).nelem - 1}    \* a bound on what is written
Pointers(k) == 0 .. TheObj(pool[k]).psize - 1

Init ==               \* nbuf_init_builder
    /\ pool = <<>>
    /\ phase = "build"
    /\ wire = NoWire
    /\ client \in Clients
    /\ faults = {}

Rest == UNCHANGED <<phase, wire, client, faults>>

\* The buffer that create makes for an object once all memory was found.
NewBuffer(n, s, p) == CreateIn(Fresh, n, s, p)

Fits(n, s, p) == HasRoom /\ NewBuffer(n, s, p).len <= Cap

\* create, the object's buffer becoming the next of the pool
Create(m) ==
    /\ phase = "build"
    /\ Fits(m.nelem, m.ssize, m.psize)
    /\ pool' = Append(pool, NewBuffer(m.nelem, m.ssize, m.psize))
    /\ Rest

\* create when _nbuf_create finds no memory for an object larger than the
\* first allocation: the buffer joins the pool all the same, without a
\* header.
CreateHalf ==
    /\ phase = "build"
    /\ client.rough /\ HasRoom
    /\ pool' = Append(pool, Fresh)
    /\ faults' = faults \cup {"header"}
    /\ UNCHANGED <<phase, wire, client>>

\* Mutant of AppendValue: the value is put where the list's last element was.
AppendValueAtLast(k, e, i, v) ==
    LET t == pool[k].rel[Slot(TheObj(pool[k]), e, i)] + 1
        list == TheObj(pool[t])
        grown == ResizeIn(pool[t], 1, list.nelem + 1)
    IN  /\ t # 1
        /\ pool[t].objs # <<>>
        /\ list.nelem < IF ElemSz(list) = 0 THEN MaxBits ELSE MaxElems
        /\ grown.len <= Cap
        /\ pool' = [pool EXCEPT ![t] =
                      PutInt(grown, GetElem(list, list.nelem - 1).base, list.ssize, v)]
        /\ Rest

\* Mutant of PutPtr: the pool is taken to count its objects from 1.
PutPtrFromOne(bufs, k, e, i, t) ==
    [bufs EXCEPT ![k] = PutWord(@, Slot(TheObj(@), e, i), t)]

\* put_ptr: the word becomes the id of object t
PutPtr(bufs, k, e, i, t) ==
    [bufs EXCEPT ![k] = PutWord(@, Slot(TheObj(@), e, i), t - 1)]

\* <pkg>_<Msg>_init_<field>: nbuf_create, then nbuf_put_ptr
InitField(k, e, i, m) ==
    /\ Fits(m.nelem, m.ssize, m.psize)
    /\ pool' = PutPtr(Append(pool, NewBuffer(m.nelem, m.ssize, m.psize)),
                      k, e, i, Len(pool) + 1)
    /\ Rest

\* nbuf_put_ptr with an object created before; the root's id makes it null
Link(k, e, i, t) ==
    /\ pool' = PutPtr(pool, k, e, i, t)
    /\ Rest

\* nbuf_put_str: create, copy, terminate, link
PutStr(k, e, i, n) ==
    LET b == NewBuffer(n + 1, 1, 0)
        str == PutChars(b, MetaSz + HdrSz, n)
    IN  /\ Fits(n + 1, 1, 0)
        /\ pool' = PutPtr(Append(pool, str), k, e, i, Len(pool) + 1)
        /\ Rest

\* nbuf_ref_init_ptr and the put of the value, for a list that has elements:
\* nbuf_resize through a handle that get_ptr just made.
AppendValue(k, e, i, v) ==
    LET t == pool[k].rel[Slot(TheObj(pool[k]), e, i)] + 1
        list == TheObj(pool[t])
        grown == ResizeIn(pool[t], 1, list.nelem + 1)
    IN  /\ t # 1
        /\ pool[t].objs # <<>>
        /\ list.nelem < IF ElemSz(list) = 0 THEN MaxBits ELSE MaxElems
        /\ AtEnd(pool[t], 1)
        /\ grown.len <= Cap
        /\ pool' = [pool EXCEPT ![t] =
                      IF HasScalar(list) THEN PutScalar(grown, Obj(grown, 1), list.nelem, v)
                      ELSE grown]
        /\ Rest

\* The same for the first element, whose handle is the list's own: for bits
\* nbuf_put_bit finds ssize = 0 and stores nothing.
AppendFirst(k, e, i, kind, v) ==
    LET s == KindShape[kind]
        b == NewBuffer(1, s.ssize, s.psize)
    IN  /\ pool[k].rel[Slot(TheObj(pool[k]), e, i)] = 0
        /\ Fits(1, s.ssize, s.psize)
        /\ pool' = PutPtr(Append(pool, IF s.ssize > 0 THEN PutScalar(b, Obj(b, 1), 0, v) ELSE b),
                          k, e, i, Len(pool) + 1)
        /\ Rest

\* nbuf_put_int or nbuf_put_bit through the handle of an element
SetScalar(k, e, v) ==
    /\ HasScalar(TheObj(pool[k]))
    /\ pool' = [pool EXCEPT ![k] = PutScalar(@, TheObj(@), e, v)]
    /\ Rest

\* nbuf_resize to fewer elements: newend - end is 0, or wraps to a huge size
\* for memset.
Shrink(k, n) ==
    LET o == TheObj(pool[k])
        fits == EndOf(Resized(o, n)) = EndOf(o)
    IN  /\ client.rough
        /\ n < o.nelem
        /\ \/ /\ fits
              /\ pool' = [pool EXCEPT ![k] = Wire(@.len, WithLength(@.objs, 1, n), @.rel, @.bits)]
              /\ faults' = faults \cup {"shortened"}
           \/ /\ ~fits
              /\ faults' = faults \cup {"wrapped"}
              /\ UNCHANGED pool
        /\ UNCHANGED <<phase, wire, client>>

\* 1st pass of nbuf_serialize: where each object goes; the last entry is the
\* length of the output.
Placement(bufs) ==
    LET place[k \in 1 .. Len(bufs) + 1] ==
          IF k = 1 THEN 0
          ELSE RoundUp(place[k - 1] + HdrSz + TotalSz(TheObj(bufs[k - 1])), Align)
    IN  place

\* The objects whose elements hold the byte at a of the output: one or none.
Owners(bufs, place, a) ==
    {k \in DOMAIN bufs : a \in place[k] + HdrSz ..
                               place[k] + HdrSz + TotalSz(TheObj(bufs[k])) - 1}

Owner(bufs, place, a) == CHOOSE k \in Owners(bufs, place, a) : TRUE

\* Where object k's buffer has the byte that goes to a.
Source(bufs, place, k, a) == TheObj(bufs[k]).base + a - place[k] - HdrSz

\* Mutant of WordOut: the distance is taken from the object's header.
WordOutFromHeader(bufs, place, k, a) ==
    LET id == bufs[k].rel[Source(bufs, place, k, a)]
    IN  IF id = 0 THEN 0 ELSE RelTo(place[k], place[id + 1])

\* The pointer word at a: an id becomes the distance to the target's header.
WordOut(bufs, place, k, a) ==
    LET id == bufs[k].rel[Source(bufs, place, k, a)]
    IN  IF id = 0 THEN 0 ELSE RelTo(a, place[id + 1])

\* Mutant of ByteOut: the gap after an object keeps what malloc left there.
ByteOutDirtyGaps(bufs, place, a) ==
    IF Owners(bufs, place, a) = {} THEN 0 .. 7
    ELSE LET k == Owner(bufs, place, a) IN bufs[k].bits[Source(bufs, place, k, a)]

\* The scalar byte at a; the gaps between objects are cleared.
ByteOut(bufs, place, a) ==
    IF Owners(bufs, place, a) = {} THEN {}
    ELSE LET k == Owner(bufs, place, a) IN bufs[k].bits[Source(bufs, place, k, a)]

\* The header at an object's place.  That of an object without one is copied
\* from before its buffer: undefined, and junk says what is found there.
HeadOut(bufs, place, junk, k) ==
    LET o == IF bufs[k].objs = <<>> THEN junk[k] ELSE TheObj(bufs[k])
    IN  Header(place[k], o.nelem, o.ssize, o.psize)

\* 2nd pass of nbuf_serialize: headers and elements are copied to their place.
Serialized(bufs, place, junk) ==
    LET len == place[Len(bufs) + 1]
        objs == [k \in DOMAIN bufs |-> HeadOut(bufs, place, junk, k)]
        rel == [a \in 0 .. len - 1 |->
                  IF Owners(bufs, place, a) = {} THEN 0
                  ELSE WordOut(bufs, place, Owner(bufs, place, a), a)]
        bits == [a \in 0 .. len - 1 |-> ByteOut(bufs, place, a)]
    IN  Wire(len, objs, rel, bits)

\* The id in a pointer word is asserted to be above that of its own object.
IdsForward ==
    \A k \in Objects : \A e \in Elements(k), i \in Pointers(k) :
        LET id == pool[k].rel[Slot(TheObj(pool[k]), e, i)]
        IN  id # 0 => id > k - 1

\* The objects that have no header.
Headless == {k \in Objects : pool[k].objs = <<>>}

\* nbuf_serialize, and nbuf_free_builder at its end.
Serialize ==
    /\ Len(pool) > 0
    /\ IdsForward
    /\ pool' = <<>>
    /\ phase' = "wire"
    /\ \E junk \in [Headless -> Junk] : wire' = Serialized(pool, Placement(pool), junk)
    /\ UNCHANGED <<client, faults>>

\* nbuf_free_builder
FreeBuilder ==
    /\ phase = "build"
    /\ pool' = <<>>
    /\ phase' = "freed"
    /\ UNCHANGED <<wire, client, faults>>

Step ==
    \/ \E m \in client.makes : Create(m)
    \/ CreateHalf
    \/ \E k \in Objects : \E e \in Elements(k) :
         \/ \E i \in Pointers(k) :
              \/ \E m \in client.makes : InitField(k, e, i, m)
              \/ \E t \in Objects : Link(k, e, i, t)
              \/ \E n \in StrLens : PutStr(k, e, i, n)
              \/ \E v \in {0, 1} : AppendValue(k, e, i, v)
              \/ \E kind \in DOMAIN KindShape, v \in {0, 1} :
                   AppendFirst(k, e, i, kind, v)
         \/ \E v \in {0, 1} : e \in EdgeElements(k) /\ SetScalar(k, e, v)
    \/ \E k \in Objects, n \in 1 .. MaxElems : Shrink(k, n)
    \/ Serialize
    \/ FreeBuilder

\* A memset of a wrapped size ends the program.
Next == "wrapped" \notin faults /\ Step

Spec == Init /\ [][Next]_vars

-----------------------------------------------------------------------------
TypeOK ==
    /\ phase \in {"build", "wire", "freed"}
    /\ client \in Clients
    /\ faults \subseteq {"shortened", "wrapped", "header"}
    /\ \A k \in Objects :
         /\ pool[k].len \in MetaSz .. Cap
         /\ pool[k].rel \in [0 .. Cap - 1 -> 0 .. Len(pool) - 1]
         /\ pool[k].bits \in [0 .. Cap - 1 -> SUBSET (0 .. 7)]
    /\ wire.len \in Nat

\* Every object ends where its buffer ends, which is the condition nbuf_resize
\* asks for: libnbuf.h, "Each object has its own buffer, so it can always be
\* resized".  Growing never refuses, whatever was created or grown meanwhile.
AlwaysResizable == \A k \in Objects : pool[k].objs # <<>> => AtEnd(pool[k], 1)

\* What nbuf_serialize leaves is a wire message: objects back to back at
\* multiples of 8, zero padding, pointers that lead forward to objects.  (A
\* list that was made shorter leaves its old elements in the padding, and an
\* object without a header says anything of itself: with one of those only
\* SerializeKeepsMessage holds.)
WireWellFormed ==
    phase = "wire" /\ "header" \notin faults =>
        /\ Tiled(wire)
        /\ "shortened" \in faults \/ PaddingIsZero(wire)
        /\ PointersToObjects(wire)

\* The objects of the pool as get_ptr and the get functions show them.
PoolObjects ==
    [k \in Objects |->
       LET target == [slot \in DOMAIN pool[k].rel |->
                       IF pool[k].rel[slot] = 0 THEN 0 ELSE pool[k].rel[slot] + 1]
       IN  Shown(pool[k], TheObj(pool[k]), target)]

\* nbuf_serialize changes nothing in the message: read from the wire, each
\* object, scalar and pointer is what it was in the pool.  If the memory for an
\* object was not found (its buffer joined the pool without a header), that
\* holds of all the other objects, and pointers to it lead to its place.
SerializeKeepsMessage ==
    [][phase' = "wire" /\ faults \subseteq {"header"} =>
         LET target == [slot \in DOMAIN wire'.rel |-> TargetIn(wire', slot)]
             was == PoolObjects
         IN  /\ DOMAIN wire'.objs = Objects
             /\ \A k \in Objects \ Headless :
                  Shown(wire', Obj(wire', k), target) = was[k]]_vars
=============================================================================

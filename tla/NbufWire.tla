------------------------------ MODULE NbufWire ------------------------------
(***************************************************************************)
(* The bytes of a buffer that holds objects, and what _nbuf_create,        *)
(* nbuf_resize and the put and get functions of include/nbuf.h do to them. *)
(*                                                                         *)
(* A buffer is a record                                                    *)
(*   [len  |-> buf->len,                                                   *)
(*    objs |-> the objects in it, in the order they lie there: a sequence  *)
(*             of [at |-> offset of the header, nelem, ssize, psize],      *)
(*    rel  |-> offset -> pointer word there, 0 if null,                    *)
(*    bits |-> offset -> set of the bits that are 1 in the byte there],    *)
(* the offsets being those of the memory allocated, 0 .. cap-1.  A byte is *)
(* part of a scalar or of a pointer word, so it counts in bits or in rel.  *)
(* What is at or above len is what malloc, or a use before nbuf_clear,     *)
(* left there.  A scalar is 0 or 1; a bit of it that is not its lowest one *)
(* is set only by garbage.                                                 *)
(***************************************************************************)
EXTENDS NbufSizes, Sequences

\* Sizes that an object can have: elements with pointers take whole words, and
\* nelem + 7 does not wrap for a vector of bits.
Shape(n, s, p) ==
    /\ n \in Nat /\ s \in Nat /\ p \in Nat
    /\ p > 0 => s % WordSz = 0
    /\ s = 0 /\ p = 0 => n + 7 < NelemMod

Wire(len, objs, rel, bits) == [len |-> len, objs |-> objs, rel |-> rel, bits |-> bits]

\* A buffer of cap bytes, len of them in use, whose bytes hold what
\* garbage[offset] says.
EmptyWire(cap, len, garbage) ==
    Wire(len, <<>>, [a \in 0 .. cap - 1 |-> 0], garbage)

Header(at, n, s, p) == [at |-> at, nelem |-> n, ssize |-> s, psize |-> p]
Handle(base, n, s, p) == [base |-> base, nelem |-> n, ssize |-> s, psize |-> p]

\* The handle of the k-th object.
Obj(w, k) ==
    Handle(w.objs[k].at + HdrSz, w.objs[k].nelem, w.objs[k].ssize, w.objs[k].psize)

\* memset(base + a, 0, b - a), in what f gives for each byte
Cleared(f, a, b, zero) == [x \in DOMAIN f |-> IF x \in a .. b - 1 THEN zero ELSE f[x]]

\* The end of an object's elements, rounded up to NBUF_ALIGN.
EndOf(o) == RoundUp(o.base + TotalSz(o), Align)

\* The handle _nbuf_create returns.
NewObj(w, n, s, p) == Handle(w.len + HdrSz, n, s, p)

\* Mutant of CreateIn: the new object is not cleared.
CreateInNoClear(w, n, s, p) ==
    Wire(EndOf(NewObj(w, n, s, p)), Append(w.objs, Header(w.len, n, s, p)), w.rel, w.bits)

\* Mutant of CreateIn: an object's size is not rounded up.
CreateInNoRound(w, n, s, p) ==
    LET o == NewObj(w, n, s, p)
        end == o.base + TotalSz(o)
    IN  Wire(end, Append(w.objs, Header(w.len, n, s, p)),
             Cleared(w.rel, o.base, end, 0), Cleared(w.bits, o.base, end, {}))

\* _nbuf_create once room was made.
CreateIn(w, n, s, p) ==
    LET o == NewObj(w, n, s, p)
        end == EndOf(o)
    IN  Wire(end, Append(w.objs, Header(w.len, n, s, p)),
             Cleared(w.rel, o.base, end, 0), Cleared(w.bits, o.base, end, {}))

\* Whether nbuf_resize accepts the k-th object at all.
AtEnd(w, k) == EndOf(Obj(w, k)) = w.len

\* The handle of an object, and the headers, with another number of elements.
Resized(o, n) == Handle(o.base, n, o.ssize, o.psize)
WithLength(objs, k, n) == [objs EXCEPT ![k] = Header(@.at, n, @.ssize, @.psize)]

\* Mutant of ResizeIn: the room between the old and the new end is not cleared.
ResizeInNoClear(w, k, n) ==
    Wire(EndOf(Resized(Obj(w, k), n)), WithLength(w.objs, k, n), w.rel, w.bits)

\* nbuf_resize of an object at the end to n >= nelem elements once room was
\* made: only what lies beyond the old end is cleared.
ResizeIn(w, k, n) ==
    LET newend == EndOf(Resized(Obj(w, k), n))
    IN  Wire(newend, WithLength(w.objs, k, n),
             Cleared(w.rel, w.len, newend, 0), Cleared(w.bits, w.len, newend, {}))

\* The byte offset of the i-th pointer of element e.
Slot(o, e, i) == GetElem(o, e).base + PtrOffs(o, i)

HasScalar(o) == o.ssize > 0 \/ o.psize = 0

WithBits(w, bits) == Wire(w.len, w.objs, w.rel, bits)

\* nbuf_put_bit(r, j, v) on the byte at a
PutBit(w, a, j, v) ==
    WithBits(w, [w.bits EXCEPT ![a] = IF v = 1 THEN @ \cup {j} ELSE @ \ {j}])

\* nbuf_put_int(r, 0, sz, v): all bytes of the scalar are written
PutInt(w, a, sz, v) ==
    WithBits(w, [x \in DOMAIN w.bits |->
        IF x = a /\ v = 1 THEN {0} ELSE IF x \in a .. a + sz - 1 THEN {} ELSE w.bits[x]])

\* memcpy of n characters (bytes whose lowest bit is 1) to a
PutChars(w, a, n) ==
    WithBits(w, [x \in DOMAIN w.bits |-> IF x \in a .. a + n - 1 THEN {0} ELSE w.bits[x]])

\* Mutant of PutScalar: bit e of a vector is stored as if the handle were
\* that of the vector's first byte.
PutScalarFirstByte(w, o, e, v) ==
    IF ElemSz(o) = 0
    THEN PutBit(w, o.base, e % 8, v)
    ELSE PutInt(w, GetElem(o, e).base, o.ssize, v)

\* Mutant of PutScalar: the number of the bit is not taken within its byte.
PutScalarWrongBit(w, o, e, v) ==
    IF ElemSz(o) = 0
    THEN PutBit(w, GetElem(o, e).base, e, v)
    ELSE PutInt(w, GetElem(o, e).base, o.ssize, v)

\* A scalar is put through the handle of its element.
PutScalar(w, o, e, v) ==
    IF ElemSz(o) = 0
    THEN PutBit(w, GetElem(o, e).base, e % 8, v)
    ELSE PutInt(w, GetElem(o, e).base, o.ssize, v)

\* What nbuf_get_int or nbuf_get_bit returns; 2 is any value but 0 and 1.
GetScalar(w, o, e) ==
    LET a == GetElem(o, e).base
        high == \E x \in a + 1 .. a + o.ssize - 1 : w.bits[x] # {}
    IN  IF ElemSz(o) = 0
        THEN IF e % 8 \in w.bits[a] THEN 1 ELSE 0
        ELSE IF o.ssize = 0 \/ (w.bits[a] = {} /\ ~high) THEN 0
        ELSE IF w.bits[a] = {0} /\ ~high THEN 1
        ELSE 2

PutWord(w, slot, word) == Wire(w.len, w.objs, [w.rel EXCEPT ![slot] = word], w.bits)

\* The word _nbuf_put_ptr stores for a target whose header is at hdr_base.
RelTo(slot, hdr_base) == (hdr_base - slot) \div WordSz

\* The number of the object that _nbuf_get_ptr finds through the pointer word
\* at slot: 0 for a null pointer, -1 for one that leads to no object.
TargetIn(w, slot) ==
    LET p == slot + WordSz * w.rel[slot]
        found == {k \in DOMAIN w.objs : w.objs[k].at = p}
    IN  IF w.rel[slot] = 0 THEN 0
        ELSE IF found = {} THEN -1
        ELSE CHOOSE k \in found : TRUE

\* An object as the get functions show it, target[slot] naming the object a
\* pointer word leads to.
Shown(w, o, target) ==
    [ssize |-> o.ssize, psize |-> o.psize,
     vals  |-> [e \in 1 .. o.nelem |-> GetScalar(w, o, e - 1)],
     ptrs  |-> [e \in 1 .. o.nelem |->
                  [i \in 1 .. o.psize |-> target[Slot(o, e - 1, i - 1)]]]]

\* The whole buffer as the get functions show it.
ObjectsIn(w) ==
    LET target == [slot \in DOMAIN w.rel |-> TargetIn(w, slot)]
    IN  [k \in DOMAIN w.objs |-> Shown(w, Obj(w, k), target)]

-----------------------------------------------------------------------------
\* The objects tile the buffer: each starts where the one before it ends, at
\* a multiple of 8 bytes.
Tiled(w) ==
    \A k \in DOMAIN w.objs :
        /\ w.objs[k].at % Align = 0
        /\ k = 1 => w.objs[k].at = 0
        /\ EndOf(Obj(w, k)) = IF k = Len(w.objs) THEN w.len ELSE w.objs[k + 1].at

\* The bytes between an object's last element and its end are zero.
PaddingIsZero(w) ==
    \A k \in DOMAIN w.objs :
        LET o == Obj(w, k)
            last == o.base + (o.nelem \div 8)    \* a byte half used by bits
        IN  /\ \A a \in o.base + TotalSz(o) .. EndOf(o) - 1 : w.bits[a] = {}
            /\ ElemSz(o) = 0 /\ o.nelem % 8 # 0 => \A j \in w.bits[last] : j < o.nelem % 8

\* A pointer that is not null leads forward, to the header of an object.
PointersToObjects(w) ==
    \A k \in DOMAIN w.objs :
        LET o == Obj(w, k) IN
        \A e \in 0 .. o.nelem - 1, i \in 0 .. o.psize - 1 :
            w.rel[Slot(o, e, i)] # 0 => TargetIn(w, Slot(o, e, i)) > k
=============================================================================

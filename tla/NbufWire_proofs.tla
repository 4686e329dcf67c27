-------------------------- MODULE NbufWire_proofs --------------------------
(***************************************************************************)
(* What _nbuf_create, nbuf_resize and the put functions preserve in a      *)
(* buffer that holds objects: where the objects lie, the zeroes behind     *)
(* them and where their pointers lead; and what the get functions show of  *)
(* an object before and after, in the terms of MsgGraph.  The operators of *)
(* NbufWire are shared by the plain buffer and the builder, and so are     *)
(* these lemmas.                                                           *)
(***************************************************************************)
EXTENDS NbufWire, SequenceTheorems, TLAPS

Headers == [at : Nat, nelem : Nat, ssize : Nat, psize : Nat]

\* A handle of an object that starts at a multiple of 8 bytes
Placed(o) ==
    /\ o.base \in Nat /\ o.base % Align = 0
    /\ Shape(o.nelem, o.ssize, o.psize)

-----------------------------------------------------------------------------
(* Sizes *)

\* The i-th of n blocks of c bytes ends before the end of the n blocks.
LEMMA BlockBefore ==
    ASSUME NEW i \in Nat, NEW n \in Nat, NEW c \in Nat, i < n
    PROVE  i * c + c <= c * n /\ i * c \in Nat
<1>1. PICK k \in Nat : n = i + 1 + k
    <2>1. n - i - 1 \in Nat /\ n = i + 1 + (n - i - 1)
        OBVIOUS
    <2> QED
        BY <2>1
<1>2. c * n = c * i + c + c * k
    BY <1>1
<1>3. c * k \in Nat /\ i * c = c * i /\ i * c \in Nat
    OBVIOUS
<1> QED
    BY <1>2, <1>3

\* Rounding up to a multiple of 8
LEMMA RoundUpFacts ==
    ASSUME NEW x \in Nat
    PROVE  /\ RoundUp(x, Align) \in Nat /\ RoundUp(x, Align) % Align = 0
           /\ x <= RoundUp(x, Align) /\ RoundUp(x, Align) <= x + 7
  BY DEF RoundUp, Align

\* The sizes of an object are numbers and its end is a multiple of 8.
LEMMA SizeFacts ==
    ASSUME NEW o, Placed(o)
    PROVE  /\ ElemSz(o) \in Nat /\ ElemSz(o) = o.ssize + 4 * o.psize
           /\ ElemSz(o) = 0 <=> o.ssize = 0 /\ o.psize = 0
           /\ ElemSz(o) # 0 => TotalSz(o) = ElemSz(o) * o.nelem
           /\ ElemSz(o) = 0 => TotalSz(o) = (o.nelem + 7) \div 8
           /\ TotalSz(o) \in Nat
           /\ EndOf(o) \in Nat /\ EndOf(o) % 8 = 0
           /\ o.base + TotalSz(o) <= EndOf(o) /\ EndOf(o) <= o.base + TotalSz(o) + 7
<1>1. /\ o.base \in Nat /\ o.nelem \in Nat /\ o.ssize \in Nat /\ o.psize \in Nat
      /\ NelemMod \in Nat /\ NelemMod >= 8
    BY NelemModAssumption DEF Placed, Shape
<1>2. /\ ElemSz(o) \in Nat /\ ElemSz(o) = o.ssize + 4 * o.psize
      /\ ElemSz(o) = 0 <=> o.ssize = 0 /\ o.psize = 0
    BY <1>1 DEF ElemSz, PtrOffs, WordSz
<1>3. ElemSz(o) = 0 => TotalSz(o) = (o.nelem + 7) \div 8
  <2> HAVE ElemSz(o) = 0
  <2>1. o.nelem + 7 < NelemMod
      BY <1>2 DEF Placed, Shape
  <2>2. (o.nelem + 7) % NelemMod = o.nelem + 7
      BY <1>1, <2>1
  <2> QED
      BY <2>2 DEF TotalSz, BitBytes
<1>4. ElemSz(o) # 0 => TotalSz(o) = ElemSz(o) * o.nelem
    BY DEF TotalSz
<1>5. ElemSz(o) * o.nelem \in Nat /\ (o.nelem + 7) \div 8 \in Nat
    BY <1>1, <1>2
<1>6. TotalSz(o) \in Nat
    BY <1>3, <1>4, <1>5
<1>7. o.base + TotalSz(o) \in Nat
    BY <1>1, <1>6
<1>8. /\ EndOf(o) \in Nat /\ EndOf(o) % 8 = 0
      /\ o.base + TotalSz(o) <= EndOf(o) /\ EndOf(o) <= o.base + TotalSz(o) + 7
    BY <1>7, RoundUpFacts DEF EndOf, Align
<1> QED
    BY <1>2, <1>3, <1>4, <1>6, <1>8

\* An element lies inside its object; one of a vector of bits is the byte that
\* holds the bit.
LEMMA ElemFacts ==
    ASSUME NEW o, Placed(o), NEW e \in 0 .. o.nelem - 1
    PROVE  /\ GetElem(o, e).base \in Nat /\ o.base <= GetElem(o, e).base
           /\ GetElem(o, e).base < o.base + TotalSz(o)
           /\ ElemSz(o) = 0 => GetElem(o, e).base = o.base + (e \div 8)
           /\ ElemSz(o) # 0 => /\ GetElem(o, e).base = o.base + e * ElemSz(o)
                               /\ GetElem(o, e).base + ElemSz(o) <= o.base + TotalSz(o)
<1>1. o.base \in Nat /\ o.nelem \in Nat /\ e \in Nat /\ e < o.nelem
    BY DEF Placed, Shape
<1>2. GetElem(o, e).base = o.base + (IF ElemSz(o) = 0 THEN e \div 8 ELSE e * ElemSz(o))
    BY <1>1 DEF GetElem
<1>3. CASE ElemSz(o) = 0
  <2>1. TotalSz(o) = (o.nelem + 7) \div 8
      BY <1>3, SizeFacts
  <2>2. e \div 8 \in Nat /\ (e \div 8) < (o.nelem + 7) \div 8
      BY <1>1
  <2> QED
      BY <1>1, <1>2, <1>3, <2>1, <2>2
<1>4. CASE ElemSz(o) # 0
  <2>1. TotalSz(o) = ElemSz(o) * o.nelem /\ ElemSz(o) \in Nat
      BY <1>4, SizeFacts
  <2>2. PICK c \in Nat : c = ElemSz(o) /\ c > 0
      BY <1>4, <2>1
  <2>3. e * c + c <= c * o.nelem /\ e * c \in Nat
      BY <1>1, BlockBefore
  <2>4. TotalSz(o) = c * o.nelem /\ TotalSz(o) \in Nat
      BY <2>1, <2>2, SizeFacts
  <2>5. GetElem(o, e).base = o.base + e * c
      BY <1>2, <1>4, <2>2
  <2> QED
      BY <1>1, <1>4, <2>2, <2>3, <2>4, <2>5
<1> QED
    BY <1>3, <1>4

\* A pointer word lies inside its object, at a multiple of 4.
LEMMA SlotFacts ==
    ASSUME NEW o, Placed(o), NEW e \in 0 .. o.nelem - 1, NEW i \in 0 .. o.psize - 1
    PROVE  /\ Slot(o, e, i) \in Nat /\ o.base <= Slot(o, e, i)
           /\ Slot(o, e, i) + 4 <= o.base + TotalSz(o)
           /\ Slot(o, e, i) % 4 = 0
<1>1. /\ o.base \in Nat /\ o.base % 8 = 0 /\ o.nelem \in Nat /\ e \in Nat
      /\ o.ssize \in Nat /\ o.psize \in Nat /\ i \in Nat /\ i < o.psize /\ o.ssize % 4 = 0
    BY DEF Placed, Shape, Align, WordSz
<1>2. ElemSz(o) \in Nat /\ ElemSz(o) = o.ssize + 4 * o.psize /\ ElemSz(o) # 0
    BY <1>1, SizeFacts
<1>3. /\ GetElem(o, e).base = o.base + e * ElemSz(o)
      /\ GetElem(o, e).base + ElemSz(o) <= o.base + TotalSz(o)
      /\ TotalSz(o) \in Nat /\ GetElem(o, e).base \in Nat
    BY <1>2, ElemFacts, SizeFacts
<1>4. Slot(o, e, i) = GetElem(o, e).base + o.ssize + 4 * i
    BY <1>1, <1>3 DEF Slot, PtrOffs, WordSz
<1>5. PICK q \in Nat : ElemSz(o) = 4 * q
  <2>1. PICK t \in Nat : o.ssize = 4 * t
      BY <1>1
  <2>2. t + o.psize \in Nat /\ ElemSz(o) = 4 * (t + o.psize)
      BY <1>1, <1>2, <2>1
  <2> QED
      BY <2>2
<1>6. PICK r \in Nat : e * ElemSz(o) = 4 * r
  <2>1. e * q \in Nat /\ e * ElemSz(o) = 4 * (e * q)
      BY <1>1, <1>5
  <2> QED
      BY <2>1
<1>7. GetElem(o, e).base = o.base + 4 * r
    BY <1>3, <1>6
<1>8. Slot(o, e, i) = o.base + 4 * r + o.ssize + 4 * i
    BY <1>4, <1>7
<1>9. Slot(o, e, i) \in Nat /\ o.base <= Slot(o, e, i) /\ Slot(o, e, i) % 4 = 0
  <2>1. PICK b \in Nat : o.base = 4 * b
    <3>1. o.base = 4 * (o.base \div 4) /\ o.base \div 4 \in Nat
        BY <1>1
    <3> QED
        BY <3>1
  <2>2. PICK t \in Nat : o.ssize = 4 * t
      BY <1>1
  <2>3. Slot(o, e, i) = 4 * (b + r + t + i) /\ b + r + t + i \in Nat
      BY <1>1, <1>8, <2>1, <2>2
  <2>4. (4 * (b + r + t + i)) % 4 = 0
      BY <2>3
  <2> QED
      BY <1>1, <1>8, <2>3, <2>4
<1>10. Slot(o, e, i) + 4 <= o.base + TotalSz(o)
    BY <1>1, <1>2, <1>3, <1>4
<1> QED
    BY <1>9, <1>10

-----------------------------------------------------------------------------
(* Where the objects lie *)

\* Objects lie one after the other, from 0 to len: Tiled, and what follows from
\* it for objects that are not neighbours.
Laid(w) ==
    /\ w.len \in Nat /\ w.len % 8 = 0 /\ w.objs \in Seq(Headers)
    /\ w.objs = <<>> => w.len = 0
    /\ \A k \in 1 .. Len(w.objs) : Placed(Obj(w, k)) /\ EndOf(Obj(w, k)) <= w.len
    /\ \A j, k \in 1 .. Len(w.objs) : j < k => EndOf(Obj(w, j)) <= w.objs[k].at
    /\ \A k \in 1 .. Len(w.objs) :
         /\ k = 1 => w.objs[k].at = 0
         /\ k = Len(w.objs) => EndOf(Obj(w, k)) = w.len
         /\ k # Len(w.objs) => EndOf(Obj(w, k)) = w.objs[k + 1].at

\* The handle of an object has the fields of its header.
LEMMA ObjFields ==
    ASSUME NEW w, NEW k
    PROVE  /\ Obj(w, k).base = w.objs[k].at + 8 /\ Obj(w, k).nelem = w.objs[k].nelem
           /\ Obj(w, k).ssize = w.objs[k].ssize /\ Obj(w, k).psize = w.objs[k].psize
  BY DEF Obj, Handle, HdrSz

\* What a header holds
LEMMA HeaderFields ==
    ASSUME NEW s \in Seq(Headers), NEW k \in 1 .. Len(s)
    PROVE  s[k] \in Headers /\ s[k].at \in Nat
<1>1. s[k] \in Headers
    OBVIOUS
<1> QED
    BY <1>1 DEF Headers

\* The headers decide where objects lie, not the bytes.
LEMMA LaidSame ==
    ASSUME NEW w, NEW v, v.len = w.len, v.objs = w.objs, Laid(w)
    PROVE  Laid(v) /\ \A k \in 1 .. Len(w.objs) : Obj(v, k) = Obj(w, k)
<1>1. \A k : Obj(v, k) = Obj(w, k)
    BY DEF Obj
<1> QED
    BY <1>1, Zenon DEF Laid

\* Objects that are laid out tile the buffer.
LEMMA LaidTiled ==
    ASSUME NEW w, Laid(w)
    PROVE  Tiled(w)
<1>1. DOMAIN w.objs = 1 .. Len(w.objs)
    BY DEF Laid
<1>2. ASSUME NEW k \in 1 .. Len(w.objs)
      PROVE  w.objs[k].at % Align = 0
  <2>1. w.objs[k].at \in Nat
      BY HeaderFields DEF Laid
  <2>2. (w.objs[k].at + 8) % 8 = 0
      BY ObjFields DEF Laid, Placed, Align
  <2> QED
      BY <2>1, <2>2 DEF Align
<1> QED
    BY <1>1, <1>2 DEF Laid, Tiled

\* Only the last object ends where the buffer does: what nbuf_resize tests.
LEMMA AtEndIsLast ==
    ASSUME NEW w, Laid(w), NEW k \in 1 .. Len(w.objs), AtEnd(w, k)
    PROVE  k = Len(w.objs)
<1> SUFFICES ASSUME k # Len(w.objs) PROVE FALSE
    OBVIOUS
<1>1. PICK m \in Nat : m = Len(w.objs) /\ m \in 1 .. m /\ k \in 1 .. m /\ k < m
    BY DEF Laid
<1>2. EndOf(Obj(w, k)) <= w.objs[m].at /\ EndOf(Obj(w, k)) = w.len
    BY <1>1 DEF Laid, AtEnd
<1>3. /\ w.objs[m].at \in Nat /\ w.len \in Nat
      /\ Placed(Obj(w, m)) /\ EndOf(Obj(w, m)) <= w.len
    BY <1>1, HeaderFields DEF Laid
<1>4. w.objs[m].at + 8 <= EndOf(Obj(w, m)) /\ EndOf(Obj(w, m)) \in Nat
  <2>1. /\ Obj(w, m).base + TotalSz(Obj(w, m)) <= EndOf(Obj(w, m))
        /\ TotalSz(Obj(w, m)) \in Nat /\ EndOf(Obj(w, m)) \in Nat
      BY <1>3, SizeFacts
  <2>2. Obj(w, m).base = w.objs[m].at + 8
      BY ObjFields
  <2> QED
      BY <1>3, <2>1, <2>2, SMTT(20)
<1> QED
    BY <1>2, <1>3, <1>4

\* The ranges of two objects have no byte in common.
LEMMA ObjectsApart ==
    ASSUME NEW w, Laid(w), NEW j \in 1 .. Len(w.objs), NEW k \in 1 .. Len(w.objs), j # k,
           NEW a \in Int, Obj(w, j).base <= a, a < EndOf(Obj(w, j))
    PROVE  a < Obj(w, k).base \/ EndOf(Obj(w, k)) <= a
<1>1. /\ w.objs[j].at \in Nat /\ w.objs[k].at \in Nat
      /\ Obj(w, j).base = w.objs[j].at + 8 /\ Obj(w, k).base = w.objs[k].at + 8
    BY ObjFields, HeaderFields DEF Laid
<1>2. EndOf(Obj(w, j)) \in Nat /\ EndOf(Obj(w, k)) \in Nat
    BY SizeFacts DEF Laid
<1>3. EndOf(Obj(w, j)) <= w.objs[k].at \/ EndOf(Obj(w, k)) <= w.objs[j].at
  <2>1. j < k \/ k < j
      OBVIOUS
  <2> QED
      BY <2>1 DEF Laid
<1> QED
    BY <1>1, <1>2, <1>3, SMTT(20)

\* The bytes of an object are those of the buffer.
LEMMA ObjectInside ==
    ASSUME NEW w, Laid(w), NEW k \in 1 .. Len(w.objs)
    PROVE  /\ Placed(Obj(w, k)) /\ EndOf(Obj(w, k)) \in Nat /\ EndOf(Obj(w, k)) <= w.len
           /\ Obj(w, k).base \in Nat /\ Obj(w, k).base >= 8
           /\ Obj(w, k).base = w.objs[k].at + 8 /\ w.objs[k].at \in Nat
           /\ Obj(w, k).base <= EndOf(Obj(w, k))
           /\ w.len \in Nat
<1>1. Placed(Obj(w, k)) /\ EndOf(Obj(w, k)) <= w.len /\ w.objs[k].at \in Nat /\ w.len \in Nat
    BY HeaderFields DEF Laid
<1>2. /\ EndOf(Obj(w, k)) \in Nat /\ TotalSz(Obj(w, k)) \in Nat
      /\ Obj(w, k).base + TotalSz(Obj(w, k)) <= EndOf(Obj(w, k))
    BY <1>1, SizeFacts
<1>3. Obj(w, k).base = w.objs[k].at + 8
    BY ObjFields
<1> QED
    BY <1>1, <1>2, <1>3

-----------------------------------------------------------------------------
(* _nbuf_create and nbuf_resize, as far as the headers are concerned *)

\* The headers after a create
LEMMA CreateHeaders ==
    ASSUME NEW w, Laid(w), NEW n, NEW s, NEW p, Shape(n, s, p)
    PROVE  /\ CreateIn(w, n, s, p).objs \in Seq(Headers)
           /\ Len(CreateIn(w, n, s, p).objs) = Len(w.objs) + 1 /\ Len(w.objs) \in Nat
           /\ \A k \in 1 .. Len(w.objs) :
                /\ CreateIn(w, n, s, p).objs[k] = w.objs[k]
                /\ Obj(CreateIn(w, n, s, p), k) = Obj(w, k)
           /\ CreateIn(w, n, s, p).objs[Len(w.objs) + 1].at = w.len
           /\ Obj(CreateIn(w, n, s, p), Len(w.objs) + 1) = NewObj(w, n, s, p)
           /\ CreateIn(w, n, s, p).len = EndOf(NewObj(w, n, s, p))
<1> DEFINE v == CreateIn(w, n, s, p)
           h == Header(w.len, n, s, p)
<1>1. v.objs = Append(w.objs, h) /\ v.len = EndOf(NewObj(w, n, s, p))
    BY DEF CreateIn, Wire
<1>2. h \in Headers /\ h.at = w.len /\ h.nelem = n /\ h.ssize = s /\ h.psize = p
    BY DEF Header, Headers, Laid, Shape
<1>3. PICK objs \in Seq(Headers) : objs = w.objs
    BY DEF Laid
<1> HIDE DEF h
<1>4. /\ Append(objs, h) \in Seq(Headers) /\ Len(Append(objs, h)) = Len(objs) + 1
      /\ \A k \in 1 .. Len(objs) : Append(objs, h)[k] = objs[k]
      /\ Append(objs, h)[Len(objs) + 1] = h /\ Len(objs) \in Nat
    BY <1>2, AppendProperties
<1> HIDE DEF v
<1>5. /\ v.objs \in Seq(Headers) /\ Len(v.objs) = Len(w.objs) + 1 /\ Len(w.objs) \in Nat
      /\ \A k \in 1 .. Len(w.objs) : v.objs[k] = w.objs[k]
      /\ v.objs[Len(w.objs) + 1] = h
    BY <1>1, <1>3, <1>4, Zenon
<1>6. \A k \in 1 .. Len(w.objs) : Obj(v, k) = Obj(w, k)
    BY <1>5, Zenon DEF Obj
<1>7. Obj(v, Len(w.objs) + 1) = NewObj(w, n, s, p)
    BY <1>2, <1>5, Zenon DEF Obj, NewObj
<1>8. v.objs[Len(w.objs) + 1].at = w.len
    BY <1>2, <1>5, Zenon
<1> QED
    BY <1>1, <1>5, <1>6, <1>7, <1>8, Zenon DEF v

\* The object that a create makes
LEMMA NewPlaced ==
    ASSUME NEW w, Laid(w), NEW n, NEW s, NEW p, Shape(n, s, p)
    PROVE  /\ Placed(NewObj(w, n, s, p)) /\ NewObj(w, n, s, p).base = w.len + 8
           /\ NewObj(w, n, s, p).nelem = n
           /\ NewObj(w, n, s, p).ssize = s /\ NewObj(w, n, s, p).psize = p
           /\ EndOf(NewObj(w, n, s, p)) \in Nat /\ EndOf(NewObj(w, n, s, p)) % 8 = 0
           /\ w.len + 8 <= EndOf(NewObj(w, n, s, p)) /\ w.len \in Nat
<1>1. /\ NewObj(w, n, s, p).base = w.len + 8 /\ NewObj(w, n, s, p).nelem = n
      /\ NewObj(w, n, s, p).ssize = s /\ NewObj(w, n, s, p).psize = p
    BY DEF NewObj, Handle, HdrSz
<1>2. w.len \in Nat /\ w.len % 8 = 0
    BY DEF Laid
<1>3. (w.len + 8) % 8 = 0 /\ w.len + 8 \in Nat
    BY <1>2
<1>4. Placed(NewObj(w, n, s, p))
    BY <1>1, <1>3 DEF Placed, Align
<1>5. /\ TotalSz(NewObj(w, n, s, p)) \in Nat
      /\ EndOf(NewObj(w, n, s, p)) \in Nat /\ EndOf(NewObj(w, n, s, p)) % 8 = 0
      /\ NewObj(w, n, s, p).base + TotalSz(NewObj(w, n, s, p)) <= EndOf(NewObj(w, n, s, p))
    BY <1>4, SizeFacts
<1>6. w.len + 8 <= EndOf(NewObj(w, n, s, p))
    BY <1>1, <1>2, <1>5
<1> QED
    BY <1>1, <1>2, <1>4, <1>5, <1>6

\* A create puts the object where the last one ended.
LEMMA CreateLaid ==
    ASSUME NEW w, Laid(w), NEW n, NEW s, NEW p, Shape(n, s, p)
    PROVE  Laid(CreateIn(w, n, s, p))
<1>1. PICK v : v = CreateIn(w, n, s, p)
    OBVIOUS
<1>2. PICK m \in Nat : m = Len(w.objs)
    BY CreateHeaders
<1>3. PICK o : o = NewObj(w, n, s, p)
    OBVIOUS
<1>4. /\ v.objs \in Seq(Headers) /\ Len(v.objs) = m + 1
      /\ \A k \in 1 .. m : v.objs[k] = w.objs[k] /\ Obj(v, k) = Obj(w, k)
      /\ v.objs[m + 1].at = w.len /\ Obj(v, m + 1) = o /\ v.len = EndOf(o)
    BY <1>1, <1>2, <1>3, CreateHeaders
<1>5. /\ Placed(o) /\ EndOf(o) \in Nat /\ EndOf(o) % 8 = 0
      /\ w.len + 8 <= EndOf(o) /\ w.len \in Nat
    BY <1>3, NewPlaced
<1>6. /\ v.len \in Nat /\ v.len % 8 = 0 /\ w.len < v.len
    BY <1>4, <1>5
<1>7. v.objs # <<>>
    BY <1>4
<1>8. \A k \in 1 .. m + 1 : k \in 1 .. m \/ k = m + 1
    OBVIOUS
<1>9. ASSUME NEW k \in 1 .. m
      PROVE  /\ Placed(Obj(v, k)) /\ EndOf(Obj(v, k)) <= w.len /\ EndOf(Obj(v, k)) \in Nat
             /\ k = 1 => v.objs[k].at = 0
             /\ EndOf(Obj(v, k)) = v.objs[k + 1].at
  <2>1. Obj(v, k) = Obj(w, k) /\ v.objs[k] = w.objs[k]
      BY <1>4
  <2>2. /\ Placed(Obj(v, k)) /\ EndOf(Obj(v, k)) <= w.len /\ EndOf(Obj(v, k)) \in Nat
        /\ k = 1 => v.objs[k].at = 0
      BY <1>2, <2>1, ObjectInside DEF Laid
  <2>3. CASE k = m
    <3>1. EndOf(Obj(w, k)) = w.len
        BY <1>2, <2>3 DEF Laid
    <3> QED
        BY <1>4, <2>1, <2>2, <2>3, <3>1
  <2>4. CASE k # m
    <3>1. k + 1 \in 1 .. m
        BY <2>4
    <3>2. EndOf(Obj(w, k)) = w.objs[k + 1].at
        BY <1>2, <2>4 DEF Laid
    <3> QED
        BY <1>4, <2>1, <2>2, <3>1, <3>2
  <2> QED
      BY <2>3, <2>4
<1>10. \A k \in 1 .. m + 1 : Placed(Obj(v, k)) /\ EndOf(Obj(v, k)) <= v.len
  <2> TAKE k \in 1 .. m + 1
  <2>1. CASE k \in 1 .. m
      BY <2>1, <1>5, <1>6, <1>9
  <2>2. CASE k = m + 1
      BY <2>2, <1>4, <1>5
  <2> QED
      BY <1>8, <2>1, <2>2
<1>11. \A j, k \in 1 .. m + 1 : j < k => EndOf(Obj(v, j)) <= v.objs[k].at
  <2> TAKE j, k \in 1 .. m + 1
  <2> HAVE j < k
  <2>1. j \in 1 .. m
      OBVIOUS
  <2>2. CASE k = m + 1
      BY <2>1, <2>2, <1>4, <1>9
  <2>3. CASE k \in 1 .. m
    <3>1. EndOf(Obj(w, j)) <= w.objs[k].at
        BY <1>2, <2>1, <2>3 DEF Laid
    <3> QED
        BY <3>1, <2>1, <2>3, <1>4
  <2> QED
      BY <1>8, <2>2, <2>3
<1>12. m = 0 => w.len = 0
  <2>1. m = 0 => w.objs = <<>>
    <3>1. w.objs \in Seq(Headers)
        BY DEF Laid
    <3> QED
        BY <1>2, <3>1, EmptySeq
  <2> QED
      BY <2>1 DEF Laid
<1>13. \A k \in 1 .. m + 1 :
         /\ k = 1 => v.objs[k].at = 0
         /\ k = m + 1 => EndOf(Obj(v, k)) = v.len
         /\ k # m + 1 => EndOf(Obj(v, k)) = v.objs[k + 1].at
  <2> TAKE k \in 1 .. m + 1
  <2>1. CASE k \in 1 .. m
      BY <2>1, <1>9
  <2>2. CASE k = m + 1
      BY <2>2, <1>4, <1>12
  <2> QED
      BY <1>8, <2>1, <2>2
<1>14. Laid(v)
    BY <1>4, <1>6, <1>7, <1>10, <1>11, <1>13, Zenon DEF Laid
<1> QED
    BY <1>1, <1>14

\* The handle of an object with another number of elements
LEMMA ResizedFields ==
    ASSUME NEW o, NEW n
    PROVE  /\ Resized(o, n).base = o.base /\ Resized(o, n).nelem = n
           /\ Resized(o, n).ssize = o.ssize /\ Resized(o, n).psize = o.psize
           /\ ElemSz(Resized(o, n)) = ElemSz(o)
  BY DEF Resized, Handle, ElemSz, PtrOffs

\* The headers after a resize of the k-th object
LEMMA ResizeHeaders ==
    ASSUME NEW w, w.objs \in Seq(Headers), NEW k \in 1 .. Len(w.objs), NEW n \in Nat,
           NEW v, v.objs = WithLength(w.objs, k, n)
    PROVE  /\ v.objs \in Seq(Headers) /\ Len(v.objs) = Len(w.objs)
           /\ \A j \in 1 .. Len(w.objs) : v.objs[j].at = w.objs[j].at
           /\ \A j \in 1 .. Len(w.objs) : j # k => v.objs[j] = w.objs[j] /\ Obj(v, j) = Obj(w, j)
           /\ Obj(v, k) = Resized(Obj(w, k), n)
<1>1. PICK objs \in Seq(Headers) : objs = w.objs
    OBVIOUS
<1>2. PICK h : h = Header(objs[k].at, n, objs[k].ssize, objs[k].psize)
    OBVIOUS
<1>3. /\ h.at = objs[k].at /\ h.nelem = n /\ h.ssize = objs[k].ssize /\ h.psize = objs[k].psize
    BY <1>2 DEF Header
<1>4. h \in Headers
  <2>1. objs[k] \in Headers
      BY <1>1
  <2> QED
      BY <1>2, <2>1 DEF Header, Headers
<1>5. v.objs = [objs EXCEPT ![k] = h]
    BY <1>1, <1>2 DEF WithLength
<1>6. /\ [objs EXCEPT ![k] = h] \in Seq(Headers) /\ Len([objs EXCEPT ![k] = h]) = Len(objs)
      /\ [objs EXCEPT ![k] = h][k] = h
      /\ \A j \in 1 .. Len(objs) : j # k => [objs EXCEPT ![k] = h][j] = objs[j]
    BY <1>1, <1>4
<1>7. /\ v.objs \in Seq(Headers) /\ Len(v.objs) = Len(w.objs) /\ v.objs[k] = h
      /\ \A j \in 1 .. Len(w.objs) : j # k => v.objs[j] = w.objs[j]
    BY <1>1, <1>5, <1>6, Zenon
<1>8. \A j \in 1 .. Len(w.objs) : j # k => Obj(v, j) = Obj(w, j)
    BY <1>7, Zenon DEF Obj
<1>9. Obj(v, k) = Resized(Obj(w, k), n)
    BY <1>1, <1>3, <1>7 DEF Obj, Resized, Handle
<1>10. \A j \in 1 .. Len(w.objs) : v.objs[j].at = w.objs[j].at
    BY <1>1, <1>3, <1>7, Zenon
<1> QED
    BY <1>7, <1>8, <1>9, <1>10, Zenon

\* A resize of the last object moves the end of the buffer with it.
LEMMA ResizeLaid ==
    ASSUME NEW w, Laid(w), NEW k \in 1 .. Len(w.objs), k = Len(w.objs), NEW n \in Nat,
           Shape(n, Obj(w, k).ssize, Obj(w, k).psize),
           NEW v, v.objs = WithLength(w.objs, k, n), v.len = EndOf(Resized(Obj(w, k), n))
    PROVE  /\ Laid(v) /\ Placed(Resized(Obj(w, k), n)) /\ Len(v.objs) = Len(w.objs)
           /\ Obj(v, k) = Resized(Obj(w, k), n)
           /\ \A j \in 1 .. Len(w.objs) : v.objs[j].at = w.objs[j].at
           /\ \A j \in 1 .. Len(w.objs) : j # k => Obj(v, j) = Obj(w, j)
<1>1. w.objs \in Seq(Headers)
    BY DEF Laid
<1>2. PICK o : o = Resized(Obj(w, k), n)
    OBVIOUS
<1>3. /\ v.objs \in Seq(Headers) /\ Len(v.objs) = Len(w.objs)
      /\ \A j \in 1 .. Len(w.objs) : v.objs[j].at = w.objs[j].at
      /\ \A j \in 1 .. Len(w.objs) : j # k => v.objs[j] = w.objs[j] /\ Obj(v, j) = Obj(w, j)
      /\ Obj(v, k) = o
    BY <1>1, <1>2, ResizeHeaders
<1>4. /\ o.base = Obj(w, k).base /\ o.nelem = n
      /\ o.ssize = Obj(w, k).ssize /\ o.psize = Obj(w, k).psize
    BY <1>2, ResizedFields
<1>5. /\ Placed(Obj(w, k)) /\ Obj(w, k).base = w.objs[k].at + 8 /\ w.objs[k].at \in Nat
    BY ObjectInside
<1>6. Placed(o)
    BY <1>4, <1>5 DEF Placed
<1>7. /\ EndOf(o) \in Nat /\ EndOf(o) % 8 = 0 /\ w.objs[k].at + 8 <= EndOf(o)
  <2>1. /\ TotalSz(o) \in Nat /\ EndOf(o) \in Nat /\ EndOf(o) % 8 = 0
        /\ o.base + TotalSz(o) <= EndOf(o)
      BY <1>6, SizeFacts
  <2> QED
      BY <1>4, <1>5, <2>1
<1>8. v.len = EndOf(o)
    BY <1>2
<1>9. v.objs # <<>>
    BY <1>3
<1>10. ASSUME NEW j \in 1 .. Len(w.objs)
       PROVE  /\ Placed(Obj(v, j)) /\ EndOf(Obj(v, j)) <= v.len
              /\ j = 1 => v.objs[j].at = 0
              /\ j = Len(w.objs) => EndOf(Obj(v, j)) = v.len
              /\ j # Len(w.objs) => EndOf(Obj(v, j)) = v.objs[j + 1].at
  <2>1. j = 1 => v.objs[j].at = 0
      BY <1>3 DEF Laid
  <2>2. CASE j = k
      BY <1>3, <1>6, <1>7, <1>8, <2>1, <2>2
  <2>3. CASE j # k
    <3>1. Placed(Obj(w, j)) /\ EndOf(Obj(w, j)) <= w.objs[k].at /\ EndOf(Obj(w, j)) \in Nat
      <4>1. j < k
          BY <2>3
      <4> QED
          BY <4>1, ObjectInside DEF Laid
    <3>2. EndOf(Obj(w, j)) = w.objs[j + 1].at /\ j + 1 \in 1 .. Len(w.objs)
        BY <2>3 DEF Laid
    <3>3. Placed(Obj(v, j)) /\ EndOf(Obj(v, j)) <= v.len
        BY <1>3, <1>5, <1>7, <1>8, <2>3, <3>1, SMTT(20)
    <3> QED
        BY <1>3, <2>1, <2>3, <3>2, <3>3
  <2> QED
      BY <2>2, <2>3
<1>11. ASSUME NEW i \in 1 .. Len(w.objs), NEW j \in 1 .. Len(w.objs), i < j
       PROVE  EndOf(Obj(v, i)) <= v.objs[j].at
  <2>1. i # k /\ EndOf(Obj(w, i)) <= w.objs[j].at
      BY <1>11 DEF Laid
  <2> QED
      BY <1>3, <2>1
<1>12. Laid(v)
    BY <1>3, <1>7, <1>8, <1>9, <1>10, <1>11, Zenon DEF Laid
<1> QED
    BY <1>2, <1>3, <1>6, <1>12, Zenon

-----------------------------------------------------------------------------
(* The bytes *)

\* Bytes are sets of bits.
Bytes(cap) == [0 .. cap - 1 -> SUBSET (0 .. 7)]

\* The object's own part of PaddingIsZero
PadZero(bits, o) ==
    /\ \A a \in o.base + TotalSz(o) .. EndOf(o) - 1 : bits[a] = {}
    /\ ElemSz(o) = 0 /\ o.nelem % 8 # 0 =>
         \A j \in bits[o.base + (o.nelem \div 8)] : j < o.nelem % 8

LEMMA PaddingOfObjects ==
    ASSUME NEW w, w.objs \in Seq(Headers)
    PROVE  PaddingIsZero(w) <=> \A k \in 1 .. Len(w.objs) : PadZero(w.bits, Obj(w, k))
<1>1. DOMAIN w.objs = 1 .. Len(w.objs)
    OBVIOUS
<1> QED
    BY <1>1, Zenon DEF PaddingIsZero, PadZero

\* The byte that a vector of bits uses in part is one of its own.
LEMMA LastByte ==
    ASSUME NEW o, Placed(o), ElemSz(o) = 0, o.nelem % 8 # 0
    PROVE  /\ o.base + (o.nelem \div 8) \in Nat
           /\ o.base <= o.base + (o.nelem \div 8)
           /\ o.base + (o.nelem \div 8) < o.base + TotalSz(o)
           /\ o.base + (o.nelem \div 8) < EndOf(o)
<1>1. o.base \in Nat /\ o.nelem \in Nat
    BY DEF Placed, Shape
<1>2. /\ TotalSz(o) = (o.nelem + 7) \div 8 /\ EndOf(o) \in Nat
      /\ o.base + TotalSz(o) <= EndOf(o)
    BY SizeFacts
<1>3. (o.nelem \div 8) \in Nat /\ (o.nelem \div 8) < (o.nelem + 7) \div 8
    BY <1>1
<1> QED
    BY <1>1, <1>2, <1>3

\* Padding stays zero while no byte of the object changes.
LEMMA PadKept ==
    ASSUME NEW o, Placed(o), NEW bits, NEW new, PadZero(bits, o),
           \A a \in o.base .. EndOf(o) - 1 : new[a] = bits[a]
    PROVE  PadZero(new, o)
<1>1. o.base \in Nat /\ TotalSz(o) \in Nat /\ EndOf(o) \in Nat
    BY SizeFacts DEF Placed
<1>2. \A a \in o.base + TotalSz(o) .. EndOf(o) - 1 : new[a] = {}
  <2> TAKE a \in o.base + TotalSz(o) .. EndOf(o) - 1
  <2>1. a \in o.base .. EndOf(o) - 1
      BY <1>1
  <2> QED
      BY <2>1 DEF PadZero
<1>3. ASSUME ElemSz(o) = 0, o.nelem % 8 # 0
      PROVE  new[o.base + (o.nelem \div 8)] = bits[o.base + (o.nelem \div 8)]
  <2>1. o.base + (o.nelem \div 8) \in o.base .. EndOf(o) - 1
      BY <1>1, <1>3, LastByte
  <2> QED
      BY <2>1
<1> QED
    BY <1>2, <1>3, Zenon DEF PadZero

\* An object whose bytes were all cleared
LEMMA PadFresh ==
    ASSUME NEW o, Placed(o), NEW bits, \A a \in o.base .. EndOf(o) - 1 : bits[a] = {}
    PROVE  PadZero(bits, o)
<1>1. o.base \in Nat /\ TotalSz(o) \in Nat /\ EndOf(o) \in Nat
    BY SizeFacts DEF Placed
<1>2. \A a \in o.base + TotalSz(o) .. EndOf(o) - 1 : bits[a] = {}
  <2> TAKE a \in o.base + TotalSz(o) .. EndOf(o) - 1
  <2>1. a \in o.base .. EndOf(o) - 1
      BY <1>1
  <2> QED
      BY <2>1
<1>3. ASSUME ElemSz(o) = 0, o.nelem % 8 # 0
      PROVE  bits[o.base + (o.nelem \div 8)] = {}
  <2>1. o.base + (o.nelem \div 8) \in o.base .. EndOf(o) - 1
      BY <1>1, <1>3, LastByte
  <2> QED
      BY <2>1
<1> QED
    BY <1>2, <1>3, Zenon DEF PadZero

\* Elements that are not bits may change: the padding lies behind them.
LEMMA PadBehind ==
    ASSUME NEW o, Placed(o), ElemSz(o) # 0, NEW bits, NEW new, PadZero(bits, o),
           \A a \in o.base + TotalSz(o) .. EndOf(o) - 1 : new[a] = bits[a]
    PROVE  PadZero(new, o)
  BY Zenon DEF PadZero

\* What nbuf_resize leaves in the bytes of the object it makes larger
Grows(bits, new, o, grown) ==
    /\ \A a \in o.base .. EndOf(o) - 1 : new[a] = bits[a]
    /\ \A a \in EndOf(o) .. EndOf(grown) - 1 : new[a] = {}

\* An object that grew by one element: what was cleared beyond the old end and
\* the padding before it are enough for the padding of the new size.
LEMMA PadGrow ==
    ASSUME NEW o, Placed(o), NEW cap \in Nat, NEW bits \in Bytes(cap), EndOf(o) <= cap,
           NEW new, PadZero(bits, o), NEW grown, grown = Resized(o, o.nelem + 1), Placed(grown),
           Grows(bits, new, o, grown)
    PROVE  PadZero(new, grown)
<1>1. /\ grown.base = o.base /\ grown.nelem = o.nelem + 1 /\ ElemSz(grown) = ElemSz(o)
    BY ResizedFields
<1>2. o.base \in Nat /\ o.nelem \in Nat
    BY DEF Placed, Shape
<1>3. /\ TotalSz(o) \in Nat /\ EndOf(o) \in Nat /\ o.base + TotalSz(o) <= EndOf(o)
      /\ ElemSz(o) = 0 => TotalSz(o) = (o.nelem + 7) \div 8
      /\ ElemSz(o) # 0 => TotalSz(o) = ElemSz(o) * o.nelem
      /\ ElemSz(o) \in Nat
    BY SizeFacts
<1>4. /\ TotalSz(grown) \in Nat /\ EndOf(grown) \in Nat
      /\ o.base + TotalSz(grown) <= EndOf(grown)
      /\ ElemSz(o) = 0 => TotalSz(grown) = (o.nelem + 1 + 7) \div 8
      /\ ElemSz(o) # 0 => TotalSz(grown) = ElemSz(o) * (o.nelem + 1)
    BY <1>1, SizeFacts
<1>5. TotalSz(o) <= TotalSz(grown)
  <2>1. CASE ElemSz(o) = 0
      BY <2>1, <1>2, <1>3, <1>4
  <2>2. CASE ElemSz(o) # 0
    <3>1. ElemSz(o) * (o.nelem + 1) = ElemSz(o) * o.nelem + ElemSz(o)
        BY <1>2, <1>3
    <3> QED
        BY <2>2, <3>1, <1>3, <1>4
  <2> QED
      BY <2>1, <2>2
<1>6. \A a \in o.base + TotalSz(o) .. EndOf(grown) - 1 : new[a] = {}
  <2> TAKE a \in o.base + TotalSz(o) .. EndOf(grown) - 1
  <2>1. CASE a < EndOf(o)
    <3>1. a \in o.base .. EndOf(o) - 1 /\ a \in o.base + TotalSz(o) .. EndOf(o) - 1
        BY <2>1, <1>2, <1>3
    <3> QED
        BY <3>1 DEF PadZero, Grows
  <2>2. CASE a >= EndOf(o)
    <3>1. a \in EndOf(o) .. EndOf(grown) - 1
        BY <2>2, <1>2, <1>3, <1>4
    <3> QED
        BY <3>1 DEF Grows
  <2> QED
      BY <2>1, <2>2, <1>2, <1>3
<1>7. \A a \in grown.base + TotalSz(grown) .. EndOf(grown) - 1 : new[a] = {}
  <2> TAKE a \in grown.base + TotalSz(grown) .. EndOf(grown) - 1
  <2>1. a \in o.base + TotalSz(o) .. EndOf(grown) - 1
      BY <1>1, <1>2, <1>3, <1>4, <1>5
  <2> QED
      BY <2>1, <1>6
<1>8. ASSUME ElemSz(grown) = 0, grown.nelem % 8 # 0
      PROVE  \A j \in new[grown.base + (grown.nelem \div 8)] : j < grown.nelem % 8
  <2>1. PICK b \in Nat : b = grown.base + (grown.nelem \div 8) /\ b < EndOf(grown)
      BY <1>8, LastByte
  <2>2. b = o.base + (o.nelem \div 8)
      BY <2>1, <1>1, <1>2, <1>8
  <2>3. CASE o.nelem % 8 # 0
    <3>1. b \in o.base .. EndOf(o) - 1
        BY <2>2, <2>3, <1>1, <1>2, <1>3, <1>8, LastByte
    <3>2. \A j \in bits[b] : j < o.nelem % 8
        BY <2>2, <2>3, <1>1, <1>8, Zenon DEF PadZero
    <3>3. new[b] = bits[b]
        BY <3>1 DEF Grows
    <3>4. PICK q \in Nat : q = o.nelem % 8
        BY <1>2
    <3>5. grown.nelem % 8 = q + 1
        BY <3>4, <1>1, <1>2, <1>8
    <3>6. \A j \in new[b] : j < q /\ j \in 0 .. 7
      <4>1. b \in 0 .. cap - 1
          BY <3>1, <1>2, <1>3
      <4>2. bits[b] \in SUBSET (0 .. 7)
          BY <4>1 DEF Bytes
      <4> QED
          BY <3>2, <3>3, <3>4, <4>2, Zenon
    <3>7. \A j \in 0 .. 7 : j < q => j < q + 1
        OBVIOUS
    <3> QED
        BY <2>1, <3>5, <3>6, <3>7, Zenon
  <2>4. CASE o.nelem % 8 = 0
    <3>1. b \in o.base + TotalSz(o) .. EndOf(grown) - 1
      <4>1. b = o.base + TotalSz(o)
          BY <2>2, <2>4, <1>1, <1>2, <1>3, <1>8
      <4> QED
          BY <4>1, <2>1, <1>4
    <3>2. new[b] = {}
        BY <3>1, <1>6
    <3> QED
        BY <2>1, <3>2, Zenon
  <2> QED
      BY <2>3, <2>4
<1> QED
    BY <1>7, <1>8, Zenon DEF PadZero

\* A put of a scalar through the handle of an element changes bytes of the
\* object's elements and no other, and no bit behind the last one of a vector.
LEMMA PutScalarFacts ==
    ASSUME NEW cap \in Nat, NEW w, w.bits \in Bytes(cap),
           NEW o, Placed(o), EndOf(o) <= cap, NEW e \in 0 .. o.nelem - 1, HasScalar(o),
           NEW x \in {0, 1}, NEW v, v = PutScalar(w, o, e, x)
    PROVE  /\ v.len = w.len /\ v.objs = w.objs /\ v.rel = w.rel
           /\ v.bits \in Bytes(cap)
           /\ \A a \in 0 .. cap - 1 :
                a < o.base \/ o.base + TotalSz(o) <= a => v.bits[a] = w.bits[a]
           /\ PadZero(w.bits, o) => PadZero(v.bits, o)
<1>1. PICK b \in Nat : b = GetElem(o, e).base /\ o.base <= b /\ b < o.base + TotalSz(o)
    BY ElemFacts
<1>2. /\ o.base \in Nat /\ o.nelem \in Nat /\ o.ssize \in Nat /\ o.psize \in Nat
      /\ e \in Nat /\ e < o.nelem
    BY DEF Placed, Shape
<1>3. /\ TotalSz(o) \in Nat /\ EndOf(o) \in Nat /\ o.base + TotalSz(o) <= EndOf(o)
      /\ ElemSz(o) = o.ssize + 4 * o.psize /\ ElemSz(o) \in Nat
      /\ ElemSz(o) = 0 <=> o.ssize = 0 /\ o.psize = 0
    BY SizeFacts
<1>4. v.len = w.len /\ v.objs = w.objs /\ v.rel = w.rel
    BY DEF PutScalar, PutBit, PutInt, WithBits, Wire
<1>5. CASE ElemSz(o) = 0
  <2>1. PICK j \in 0 .. 7 : j = e % 8
      BY <1>2
  <2>2. PICK f \in Bytes(cap) : f = w.bits
      OBVIOUS
  <2>3. v.bits = [f EXCEPT ![b] = IF x = 1 THEN @ \cup {j} ELSE @ \ {j}]
      BY <1>1, <1>5, <2>1, <2>2 DEF PutScalar, PutBit, WithBits, Wire
  <2>4. b \in 0 .. cap - 1
      BY <1>1, <1>2, <1>3
  <2>5. PICK y \in SUBSET (0 .. 7) : y \subseteq f[b] \cup {j} /\ v.bits = [f EXCEPT ![b] = y]
    <3>1. f[b] \in SUBSET (0 .. 7)
        BY <2>4 DEF Bytes
    <3>2. (IF x = 1 THEN f[b] \cup {j} ELSE f[b] \ {j}) \in SUBSET (0 .. 7)
        BY <3>1
    <3> QED
        BY <2>3, <3>2
  <2>6. /\ v.bits \in Bytes(cap) /\ v.bits[b] = y
        /\ \A a \in 0 .. cap - 1 : a # b => v.bits[a] = f[a]
      BY <2>4, <2>5 DEF Bytes
  <2>7. ASSUME NEW a \in 0 .. cap - 1, a < o.base \/ o.base + TotalSz(o) <= a
        PROVE  v.bits[a] = w.bits[a]
      BY <2>2, <2>6, <2>7, <1>1, <1>2, <1>3
  <2>8. ASSUME PadZero(w.bits, o)
        PROVE  PadZero(v.bits, o)
    <3>1. \A a \in o.base + TotalSz(o) .. EndOf(o) - 1 : v.bits[a] = {}
      <4> TAKE a \in o.base + TotalSz(o) .. EndOf(o) - 1
      <4>1. a \in 0 .. cap - 1 /\ o.base + TotalSz(o) <= a
          BY <1>2, <1>3
      <4> QED
          BY <4>1, <2>7, <2>8 DEF PadZero
    <3>2. ASSUME o.nelem % 8 # 0
          PROVE  \A i \in v.bits[o.base + (o.nelem \div 8)] : i < o.nelem % 8
      <4>1. PICK c \in Nat : c = o.base + (o.nelem \div 8) /\ c < EndOf(o)
          BY <1>5, <3>2, LastByte
      <4>2. c \in 0 .. cap - 1
          BY <4>1, <1>3
      <4>3. \A i \in f[c] : i < o.nelem % 8
          BY <4>1, <2>2, <2>8, <1>5, <3>2, Zenon DEF PadZero
      <4>4. CASE c # b
          BY <4>1, <4>2, <4>3, <4>4, <2>6, Zenon
      <4>5. CASE c = b
        <5>1. b = o.base + (e \div 8)
            BY <1>1, <1>5, ElemFacts
        <5>2. e \div 8 = o.nelem \div 8
            BY <4>1, <4>5, <5>1, <1>2
        <5>3. j < o.nelem % 8
            BY <2>1, <5>2, <1>2
        <5>4. \A i \in v.bits[c] : i \in f[c] \/ i = j
            BY <4>5, <2>5, <2>6
        <5> QED
            BY <4>1, <4>3, <5>3, <5>4, Zenon
      <4> QED
          BY <4>4, <4>5
    <3> QED
        BY <3>1, <3>2, Zenon DEF PadZero
  <2> QED
      BY <1>4, <2>6, <2>7, <2>8
<1>6. CASE ElemSz(o) # 0
  <2>1. o.ssize > 0
      BY <1>2, <1>3, <1>6 DEF HasScalar
  <2>2. PICK f \in Bytes(cap) : f = w.bits
      OBVIOUS
  <2>3. v.bits = [a \in DOMAIN f |-> IF a = b /\ x = 1 THEN {0}
                                     ELSE IF a \in b .. b + o.ssize - 1 THEN {} ELSE f[a]]
      BY <1>1, <1>6, <2>2 DEF PutScalar, PutInt, WithBits, Wire
  <2>4. v.bits \in Bytes(cap)
    <3>1. {0} \in SUBSET (0 .. 7) /\ {} \in SUBSET (0 .. 7)
        OBVIOUS
    <3> QED
        BY <2>3, <3>1 DEF Bytes
  <2>5. b + o.ssize <= o.base + TotalSz(o)
    <3>1. GetElem(o, e).base + ElemSz(o) <= o.base + TotalSz(o)
        BY <1>6, ElemFacts
    <3> QED
        BY <3>1, <1>1, <1>2, <1>3
  <2>6. ASSUME NEW a \in 0 .. cap - 1, a < o.base \/ o.base + TotalSz(o) <= a
        PROVE  v.bits[a] = w.bits[a]
    <3>1. a # b /\ a \notin b .. b + o.ssize - 1
        BY <2>1, <2>5, <2>6, <1>1, <1>2, <1>3
    <3> QED
        BY <2>2, <2>3, <3>1 DEF Bytes
  <2>7. ASSUME PadZero(w.bits, o)
        PROVE  PadZero(v.bits, o)
    <3>1. \A a \in o.base + TotalSz(o) .. EndOf(o) - 1 : v.bits[a] = w.bits[a]
      <4> TAKE a \in o.base + TotalSz(o) .. EndOf(o) - 1
      <4>1. a \in 0 .. cap - 1 /\ o.base + TotalSz(o) <= a
          BY <1>2, <1>3
      <4> QED
          BY <4>1, <2>6
    <3> QED
        BY <1>6, <2>7, <3>1, PadBehind
  <2> QED
      BY <1>4, <2>4, <2>6, <2>7
<1> QED
    BY <1>5, <1>6

-----------------------------------------------------------------------------
(* The invariant of a buffer with objects *)

\* A pointer that is not null leads to an object that lies behind its own.
LeadsTo(w, k, slot) ==
    w.rel[slot] # 0 => \E j \in 1 .. Len(w.objs) : j > k /\ w.objs[j].at = slot + 4 * w.rel[slot]

PointersForward(w) ==
    \A k \in 1 .. Len(w.objs) :
        \A e \in 0 .. Obj(w, k).nelem - 1, i \in 0 .. Obj(w, k).psize - 1 :
            LeadsTo(w, k, Slot(Obj(w, k), e, i))

\* No pointer can lead forward from the last object: its bytes, the padding that
\* a resize makes elements of included, hold null pointers.
LastNull(w) ==
    \A k \in 1 .. Len(w.objs) : k = Len(w.objs) =>
        \A a \in Obj(w, k).base .. w.len - 1 : w.rel[a] = 0

Linked(w) == PointersForward(w) /\ LastNull(w)

Sized(w, cap) ==
    w.len <= cap /\ w.rel \in [0 .. cap - 1 -> Int] /\ w.bits \in Bytes(cap)

Padded(w) == \A k \in 1 .. Len(w.objs) : PadZero(w.bits, Obj(w, k))

Good(w, cap, padded, linked) ==
    Laid(w) /\ Sized(w, cap) /\ (padded => Padded(w)) /\ (linked => Linked(w))

\* A buffer with no objects
LEMMA EmptyGood ==
    ASSUME NEW cap \in Nat, NEW padded, NEW linked,
           NEW w, w.len = 0, w.objs = <<>>,
           w.rel \in [0 .. cap - 1 -> Int], w.bits \in Bytes(cap)
    PROVE  Good(w, cap, padded, linked)
<1>1. Len(w.objs) = 0 /\ w.objs \in Seq(Headers) /\ 1 .. Len(w.objs) = {}
    OBVIOUS
<1>2. w.len \in Nat /\ w.len % 8 = 0 /\ w.len <= cap
    OBVIOUS
<1>3. Laid(w)
    BY <1>1, <1>2, Zenon DEF Laid
<1>4. Padded(w) /\ Linked(w)
    BY <1>1, Zenon DEF Padded, Linked, PointersForward, LastNull
<1> QED
    BY <1>2, <1>3, <1>4, Zenon DEF Good, Sized

\* Scalars that change inside one object leave the rest as it is.
LEMMA BitsGood ==
    ASSUME NEW cap \in Nat, NEW padded, NEW linked, NEW w, Good(w, cap, padded, linked),
           NEW k \in 1 .. Len(w.objs),
           NEW v, v.len = w.len, v.objs = w.objs, v.rel = w.rel, v.bits \in Bytes(cap),
           \A a \in 0 .. cap - 1 :
              a < Obj(w, k).base \/ Obj(w, k).base + TotalSz(Obj(w, k)) <= a
                 => v.bits[a] = w.bits[a],
           PadZero(w.bits, Obj(w, k)) => PadZero(v.bits, Obj(w, k))
    PROVE  Good(v, cap, padded, linked)
<1>1. Laid(w) /\ w.len <= cap
    BY DEF Good, Sized
<1>2. Laid(v) /\ \A j \in 1 .. Len(w.objs) : Obj(v, j) = Obj(w, j)
    BY <1>1, LaidSame
<1>3. Sized(v, cap)
    BY DEF Good, Sized
<1>4. ASSUME padded
      PROVE  Padded(v)
  <2>1. SUFFICES ASSUME NEW j \in 1 .. Len(w.objs)
                 PROVE  PadZero(v.bits, Obj(v, j))
      BY Zenon DEF Padded
  <2>2. PadZero(w.bits, Obj(w, j)) /\ Obj(v, j) = Obj(w, j)
      BY <1>2, <1>4 DEF Good, Padded
  <2>3. CASE j = k
      BY <2>2, <2>3
  <2>4. CASE j # k
    <3>1. \A a \in Obj(w, j).base .. EndOf(Obj(w, j)) - 1 : v.bits[a] = w.bits[a]
      <4> TAKE a \in Obj(w, j).base .. EndOf(Obj(w, j)) - 1
      <4>1. /\ Obj(w, j).base \in Nat /\ EndOf(Obj(w, j)) \in Nat /\ EndOf(Obj(w, j)) <= w.len
            /\ Obj(w, k).base \in Nat /\ EndOf(Obj(w, k)) \in Nat /\ w.len \in Nat
            /\ Placed(Obj(w, k))
          BY <1>1, ObjectInside
      <4>2. a \in Int /\ Obj(w, j).base <= a /\ a < EndOf(Obj(w, j)) /\ a \in 0 .. cap - 1
          BY <1>1, <4>1
      <4>3. a < Obj(w, k).base \/ EndOf(Obj(w, k)) <= a
          BY <1>1, <2>4, <4>2, ObjectsApart
      <4>4. /\ TotalSz(Obj(w, k)) \in Nat
            /\ Obj(w, k).base + TotalSz(Obj(w, k)) <= EndOf(Obj(w, k))
          BY <4>1, SizeFacts
      <4>5. a < Obj(w, k).base \/ Obj(w, k).base + TotalSz(Obj(w, k)) <= a
          BY <4>1, <4>2, <4>3, <4>4
      <4> QED
          BY <4>2, <4>5
    <3>2. Placed(Obj(w, j))
        BY <1>1, ObjectInside
    <3> QED
        BY <2>2, <3>1, <3>2, PadKept
  <2> QED
      BY <2>3, <2>4
<1>5. ASSUME linked
      PROVE  Linked(v)
  <2>1. Linked(w)
      BY <1>5 DEF Good
  <2>2. ASSUME NEW j \in 1 .. Len(v.objs)
        PROVE  j \in 1 .. Len(w.objs) /\ Obj(v, j) = Obj(w, j)
      BY <1>2
  <2>3. PointersForward(v)
    <3>1. \A j, slot : LeadsTo(w, j, slot) => LeadsTo(v, j, slot)
        BY Zenon DEF LeadsTo
    <3> QED
        BY <2>1, <2>2, <3>1, Zenon DEF Linked, PointersForward
  <2>4. LastNull(v)
      BY <2>1, <2>2, Zenon DEF Linked, LastNull
  <2> QED
      BY <2>3, <2>4 DEF Linked
<1> QED
    BY <1>2, <1>3, <1>4, <1>5, Zenon DEF Good

\* nbuf_put_int and nbuf_put_bit through the handle of an element
LEMMA PutScalarGood ==
    ASSUME NEW cap \in Nat, NEW padded, NEW linked, NEW w, Good(w, cap, padded, linked),
           NEW k \in 1 .. Len(w.objs), NEW e \in 0 .. Obj(w, k).nelem - 1,
           HasScalar(Obj(w, k)), NEW x \in {0, 1}, NEW v, v = PutScalar(w, Obj(w, k), e, x)
    PROVE  Good(v, cap, padded, linked) /\ v.len = w.len /\ v.objs = w.objs /\ v.rel = w.rel
<1>1. Laid(w) /\ w.len <= cap /\ w.bits \in Bytes(cap)
    BY DEF Good, Sized
<1>2. PICK o : o = Obj(w, k)
    OBVIOUS
<1>3. Placed(o) /\ EndOf(o) \in Nat /\ EndOf(o) <= w.len /\ w.len \in Nat
    BY <1>1, <1>2, ObjectInside
<1>4. EndOf(o) <= cap
    BY <1>1, <1>3
<1>5. /\ v.len = w.len /\ v.objs = w.objs /\ v.rel = w.rel /\ v.bits \in Bytes(cap)
      /\ \A a \in 0 .. cap - 1 :
           a < o.base \/ o.base + TotalSz(o) <= a => v.bits[a] = w.bits[a]
      /\ PadZero(w.bits, o) => PadZero(v.bits, o)
    BY <1>1, <1>2, <1>3, <1>4, PutScalarFacts
<1>6. Good(v, cap, padded, linked)
    BY <1>2, <1>5, BitsGood
<1> QED
    BY <1>5, <1>6

\* Bytes of elements that are not bits are changed between lo and hi.
LEMMA PutBytesGood ==
    ASSUME NEW cap \in Nat, NEW padded, NEW linked, NEW w, Good(w, cap, padded, linked),
           NEW k \in 1 .. Len(w.objs), ElemSz(Obj(w, k)) # 0,
           NEW lo \in Int, NEW hi \in Int,
           Obj(w, k).base <= lo, hi <= Obj(w, k).base + TotalSz(Obj(w, k)),
           NEW v, v.len = w.len, v.objs = w.objs, v.rel = w.rel, v.bits \in Bytes(cap),
           \A a \in 0 .. cap - 1 : a < lo \/ hi <= a => v.bits[a] = w.bits[a]
    PROVE  Good(v, cap, padded, linked)
<1>1. Laid(w) /\ w.len <= cap /\ w.bits \in Bytes(cap)
    BY DEF Good, Sized
<1>2. PICK o : o = Obj(w, k)
    OBVIOUS
<1>3. /\ Placed(o) /\ EndOf(o) \in Nat /\ EndOf(o) <= w.len /\ w.len \in Nat
      /\ o.base \in Nat
    BY <1>1, <1>2, ObjectInside
<1>4. TotalSz(o) \in Nat /\ o.base + TotalSz(o) <= EndOf(o)
    BY <1>3, SizeFacts
<1>5. \A a \in 0 .. cap - 1 :
         a < o.base \/ o.base + TotalSz(o) <= a => v.bits[a] = w.bits[a]
    BY <1>2, <1>3, <1>4
<1>6. \A a \in o.base + TotalSz(o) .. EndOf(o) - 1 : v.bits[a] = w.bits[a]
  <2> TAKE a \in o.base + TotalSz(o) .. EndOf(o) - 1
  <2>1. a \in 0 .. cap - 1 /\ o.base + TotalSz(o) <= a
      BY <1>1, <1>3, <1>4
  <2> QED
      BY <2>1, <1>5
<1>7. PadZero(w.bits, o) => PadZero(v.bits, o)
    BY <1>2, <1>3, <1>6, PadBehind
<1> QED
    BY <1>2, <1>5, <1>7, BitsGood

\* The pointer words of an object lie inside it.
LEMMA SlotInside ==
    ASSUME NEW w, Laid(w), NEW k \in 1 .. Len(w.objs),
           NEW e \in 0 .. Obj(w, k).nelem - 1, NEW i \in 0 .. Obj(w, k).psize - 1
    PROVE  /\ Slot(Obj(w, k), e, i) \in Nat /\ Slot(Obj(w, k), e, i) % 4 = 0
           /\ Obj(w, k).base <= Slot(Obj(w, k), e, i)
           /\ Slot(Obj(w, k), e, i) < EndOf(Obj(w, k))
           /\ Slot(Obj(w, k), e, i) < w.len
<1>1. /\ Placed(Obj(w, k)) /\ EndOf(Obj(w, k)) \in Nat /\ EndOf(Obj(w, k)) <= w.len
      /\ Obj(w, k).base \in Nat /\ w.len \in Nat
    BY ObjectInside
<1>2. /\ TotalSz(Obj(w, k)) \in Nat
      /\ Obj(w, k).base + TotalSz(Obj(w, k)) <= EndOf(Obj(w, k))
    BY <1>1, SizeFacts
<1>3. /\ Slot(Obj(w, k), e, i) \in Nat /\ Slot(Obj(w, k), e, i) % 4 = 0
      /\ Obj(w, k).base <= Slot(Obj(w, k), e, i)
      /\ Slot(Obj(w, k), e, i) + 4 <= Obj(w, k).base + TotalSz(Obj(w, k))
    BY <1>1, SlotFacts
<1> QED
    BY <1>1, <1>2, <1>3

\* _nbuf_create: the new object is cleared, and nothing before it changes.
LEMMA CreateGood ==
    ASSUME NEW cap \in Nat, NEW padded, NEW linked, NEW w, Good(w, cap, padded, linked),
           NEW n, NEW s, NEW p, Shape(n, s, p), EndOf(NewObj(w, n, s, p)) <= cap
    PROVE  Good(CreateIn(w, n, s, p), cap, padded, linked)
<1>1. Laid(w) /\ w.len <= cap /\ w.bits \in Bytes(cap) /\ w.rel \in [0 .. cap - 1 -> Int]
    BY DEF Good, Sized
<1>2. PICK v : v = CreateIn(w, n, s, p)
    OBVIOUS
<1>3. PICK o : o = NewObj(w, n, s, p)
    OBVIOUS
<1>4. PICK m \in Nat : m = Len(w.objs)
    BY <1>1, CreateHeaders
<1>5. /\ Len(v.objs) = m + 1
      /\ \A k \in 1 .. m : v.objs[k] = w.objs[k] /\ Obj(v, k) = Obj(w, k)
      /\ Obj(v, m + 1) = o /\ v.len = EndOf(o)
    BY <1>1, <1>2, <1>3, <1>4, CreateHeaders
<1>6. /\ Placed(o) /\ o.base = w.len + 8 /\ EndOf(o) \in Nat /\ w.len + 8 <= EndOf(o)
      /\ w.len \in Nat /\ EndOf(o) <= cap
    BY <1>1, <1>3, NewPlaced
<1>7. /\ v.rel = Cleared(w.rel, o.base, EndOf(o), 0)
      /\ v.bits = Cleared(w.bits, o.base, EndOf(o), {})
    BY <1>2, <1>3 DEF CreateIn, Wire
<1>8. /\ v.rel \in [0 .. cap - 1 -> Int]
      /\ \A a \in 0 .. cap - 1 : a \in o.base .. EndOf(o) - 1 => v.rel[a] = 0
      /\ \A a \in 0 .. cap - 1 : a \notin o.base .. EndOf(o) - 1 => v.rel[a] = w.rel[a]
    BY <1>1, <1>7 DEF Cleared
<1>9. /\ v.bits \in [0 .. cap - 1 -> SUBSET (0 .. 7)]
      /\ \A a \in 0 .. cap - 1 : a \in o.base .. EndOf(o) - 1 => v.bits[a] = {}
      /\ \A a \in 0 .. cap - 1 : a \notin o.base .. EndOf(o) - 1 => v.bits[a] = w.bits[a]
  <2>1. w.bits \in [0 .. cap - 1 -> SUBSET (0 .. 7)] /\ {} \in SUBSET (0 .. 7)
      BY <1>1 DEF Bytes
  <2> QED
      BY <1>7, <2>1 DEF Cleared
<1>10. \A a \in Int : 0 <= a /\ a < w.len => /\ a \in 0 .. cap - 1 /\ a \notin o.base .. EndOf(o) - 1
                                            /\ v.rel[a] = w.rel[a] /\ v.bits[a] = w.bits[a]
    BY <1>1, <1>6, <1>8, <1>9, SMTT(20)
<1>11. \A a \in o.base .. EndOf(o) - 1 : a \in 0 .. cap - 1 /\ v.rel[a] = 0 /\ v.bits[a] = {}
    BY <1>6, <1>8, <1>9
<1>12. \A k \in 1 .. m + 1 : k \in 1 .. m \/ k = m + 1
    OBVIOUS
<1>13. Laid(v)
    BY <1>1, <1>2, CreateLaid
<1>14. Sized(v, cap)
    BY <1>5, <1>6, <1>8, <1>9 DEF Sized, Bytes
<1>15. ASSUME padded
       PROVE  Padded(v)
  <2>1. SUFFICES ASSUME NEW k \in 1 .. m + 1
                 PROVE  PadZero(v.bits, Obj(v, k))
      BY <1>5, Zenon DEF Padded
  <2>2. CASE k \in 1 .. m
    <3>1. PadZero(w.bits, Obj(w, k)) /\ Obj(v, k) = Obj(w, k)
        BY <1>4, <1>5, <1>15, <2>2 DEF Good, Padded
    <3>2. /\ Placed(Obj(w, k)) /\ EndOf(Obj(w, k)) \in Nat /\ EndOf(Obj(w, k)) <= w.len
          /\ Obj(w, k).base \in Nat
        BY <1>1, <1>4, <2>2, ObjectInside
    <3>3. \A a \in Obj(w, k).base .. EndOf(Obj(w, k)) - 1 : v.bits[a] = w.bits[a]
        BY <1>6, <1>10, <3>2
    <3> QED
        BY <3>1, <3>2, <3>3, PadKept
  <2>3. CASE k = m + 1
    <3>1. PadZero(v.bits, o)
        BY <1>6, <1>11, PadFresh
    <3> QED
        BY <1>5, <2>3, <3>1
  <2> QED
      BY <1>12, <2>2, <2>3
<1>16. ASSUME linked
       PROVE  Linked(v)
  <2>1. PointersForward(v)
    <3>1. SUFFICES ASSUME NEW k \in 1 .. m + 1,
                          NEW e \in 0 .. Obj(v, k).nelem - 1, NEW i \in 0 .. Obj(v, k).psize - 1
                   PROVE  LeadsTo(v, k, Slot(Obj(v, k), e, i))
        BY <1>5, Zenon DEF PointersForward
    <3>2. CASE k \in 1 .. m
      <4>1. Obj(v, k) = Obj(w, k)
          BY <1>5, <3>2
      <4>2. PICK slot \in Nat : slot = Slot(Obj(v, k), e, i) /\ slot < w.len
          BY <1>1, <1>4, <3>2, <4>1, SlotInside
      <4>3. LeadsTo(w, k, slot)
          BY <1>4, <1>16, <3>2, <4>1, <4>2, Zenon DEF Good, Linked, PointersForward
      <4>4. v.rel[slot] = w.rel[slot]
          BY <1>10, <4>2
      <4>5. ASSUME v.rel[slot] # 0
            PROVE  \E j \in 1 .. m + 1 : j > k /\ v.objs[j].at = slot + 4 * v.rel[slot]
        <5>1. PICK j \in 1 .. m : j > k /\ w.objs[j].at = slot + 4 * w.rel[slot]
            BY <1>4, <4>3, <4>4, <4>5, Zenon DEF LeadsTo
        <5>2. j \in 1 .. m + 1 /\ v.objs[j].at = w.objs[j].at
            BY <1>5
        <5> QED
            BY <4>4, <5>1, <5>2, Zenon
      <4> QED
          BY <1>5, <4>2, <4>5, Zenon DEF LeadsTo
    <3>3. CASE k = m + 1
      <4>1. k \in 1 .. Len(v.objs) /\ Obj(v, k) = o
          BY <1>5, <3>3
      <4>2. Slot(o, e, i) \in Nat /\ o.base <= Slot(o, e, i) /\ Slot(o, e, i) < EndOf(o)
          BY <1>13, <4>1, SlotInside
      <4>3. Slot(o, e, i) \in o.base .. EndOf(o) - 1
          BY <1>6, <4>2
      <4> QED
          BY <1>11, <4>1, <4>3, Zenon DEF LeadsTo
    <3> QED
        BY <1>12, <3>2, <3>3
  <2>2. LastNull(v)
      BY <1>5, <1>11, Zenon DEF LastNull
  <2> QED
      BY <2>1, <2>2 DEF Linked
<1>17. Good(v, cap, padded, linked)
    BY <1>13, <1>14, <1>15, <1>16, Zenon DEF Good
<1> QED
    BY <1>2, <1>17

\* The distance that put_ptr stores leads from the pointer word to the target.
LEMMA RelToFacts ==
    ASSUME NEW slot \in Int, NEW at \in Int
    PROVE  /\ RelTo(slot, at) \in Int
           /\ slot % 4 = 0 /\ at % 4 = 0 => slot + 4 * RelTo(slot, at) = at
  BY DEF RelTo, WordSz

\* An object that starts behind a byte of another one comes after it.
LEMMA StartsBehind ==
    ASSUME NEW w, Laid(w), NEW k \in 1 .. Len(w.objs), NEW t \in 1 .. Len(w.objs),
           NEW a \in Int, Obj(w, k).base <= a, w.objs[t].at > a
    PROVE  t > k
<1>1. /\ w.objs[k].at \in Nat /\ Obj(w, k).base = w.objs[k].at + 8
      /\ w.objs[t].at \in Nat /\ Obj(w, t).base = w.objs[t].at + 8
      /\ EndOf(Obj(w, t)) \in Nat /\ Obj(w, t).base <= EndOf(Obj(w, t))
    BY ObjectInside
<1>2. t < k => EndOf(Obj(w, t)) <= w.objs[k].at
    BY DEF Laid
<1>3. t = k => w.objs[t].at = w.objs[k].at
    OBVIOUS
<1> QED
    BY <1>1, <1>2, <1>3, SMTT(20)

\* A pointer word is stored: if pointers are to lead to objects, it must lead to
\* one that starts behind it.
LEMMA PutWordGood ==
    ASSUME NEW cap \in Nat, NEW padded, NEW linked, NEW w, Good(w, cap, padded, linked),
           NEW k \in 1 .. Len(w.objs),
           NEW e \in 0 .. Obj(w, k).nelem - 1, NEW i \in 0 .. Obj(w, k).psize - 1,
           NEW slot, slot = Slot(Obj(w, k), e, i), NEW word \in Int,
           linked => \E t \in 1 .. Len(w.objs) :
                        w.objs[t].at > slot /\ word = RelTo(slot, w.objs[t].at)
    PROVE  Good(PutWord(w, slot, word), cap, padded, linked)
<1>1. Laid(w) /\ w.len <= cap /\ w.bits \in Bytes(cap) /\ w.rel \in [0 .. cap - 1 -> Int]
    BY DEF Good, Sized
<1>2. PICK v : v = PutWord(w, slot, word)
    OBVIOUS
<1>3. v.len = w.len /\ v.objs = w.objs /\ v.bits = w.bits /\ v.rel = [w.rel EXCEPT ![slot] = word]
    BY <1>2 DEF PutWord, Wire
<1>4. Laid(v) /\ \A j \in 1 .. Len(w.objs) : Obj(v, j) = Obj(w, j)
    BY <1>1, <1>3, LaidSame
<1>5. /\ slot \in Nat /\ slot % 4 = 0 /\ Obj(w, k).base <= slot
      /\ slot < EndOf(Obj(w, k)) /\ slot < w.len
    BY <1>1, SlotInside
<1>6. w.len \in Nat /\ slot \in 0 .. cap - 1
    BY <1>1, <1>5 DEF Laid
<1>7. /\ v.rel \in [0 .. cap - 1 -> Int] /\ v.rel[slot] = word
      /\ \A a \in 0 .. cap - 1 : a # slot => v.rel[a] = w.rel[a]
    BY <1>1, <1>3, <1>6
<1>8. Sized(v, cap)
    BY <1>1, <1>3, <1>7 DEF Sized
<1>9. padded => Padded(v)
  <2>1. padded => Padded(w)
      BY DEF Good
  <2> QED
      BY <1>3, <1>4, <2>1, Zenon DEF Padded
<1>10. ASSUME linked
       PROVE  Linked(v)
  <2>1. PICK t \in 1 .. Len(w.objs) : w.objs[t].at > slot /\ word = RelTo(slot, w.objs[t].at)
      BY <1>10
  <2>2. t > k
      BY <1>1, <1>5, <2>1, StartsBehind
  <2>3. slot + 4 * word = w.objs[t].at
    <3>1. w.objs[t].at \in Nat /\ w.objs[t].at % 8 = 0
      <4>1. w.objs \in Seq(Headers) /\ w.objs[t].at \in Nat
          BY <1>1, ObjectInside DEF Laid
      <4>2. DOMAIN w.objs = 1 .. Len(w.objs) /\ Tiled(w)
          BY <1>1, <4>1, LaidTiled
      <4> QED
          BY <4>1, <4>2 DEF Tiled, Align
    <3>2. w.objs[t].at % 4 = 0
        BY <3>1
    <3>3. slot \in Int /\ w.objs[t].at \in Int
        BY <1>5, <3>1
    <3>4. slot + 4 * RelTo(slot, w.objs[t].at) = w.objs[t].at
        BY <1>5, <3>2, <3>3, RelToFacts
    <3> QED
        BY <2>1, <3>4
  <2>4. Linked(w)
      BY <1>10 DEF Good
  <2>5. PointersForward(v)
    <3>1. SUFFICES ASSUME NEW j \in 1 .. Len(w.objs),
                          NEW f \in 0 .. Obj(w, j).nelem - 1, NEW g \in 0 .. Obj(w, j).psize - 1
                   PROVE  LeadsTo(v, j, Slot(Obj(w, j), f, g))
      <4>1. \A j \in 1 .. Len(v.objs) : j \in 1 .. Len(w.objs) /\ Obj(v, j) = Obj(w, j)
          BY <1>3, <1>4
      <4> QED
          BY <4>1, Zenon DEF PointersForward
    <3>2. PICK a \in Nat : /\ a = Slot(Obj(w, j), f, g) /\ Obj(w, j).base <= a
                           /\ a < EndOf(Obj(w, j)) /\ a < w.len
        BY <1>1, SlotInside
    <3>3. CASE a = slot
      <4>1. j = k
        <5>1. j # k => a < Obj(w, k).base \/ EndOf(Obj(w, k)) <= a
            BY <1>1, <3>2, ObjectsApart
        <5>2. Obj(w, k).base \in Nat /\ EndOf(Obj(w, k)) \in Nat
            BY <1>1, ObjectInside
        <5> QED
            BY <1>5, <3>3, <5>1, <5>2, SMTT(20)
      <4>2. v.objs[t].at = a + 4 * v.rel[a] /\ t \in 1 .. Len(v.objs) /\ t > j
          BY <1>3, <1>7, <2>2, <2>3, <3>3, <4>1
      <4> QED
          BY <3>2, <4>2, Zenon DEF LeadsTo
    <3>4. CASE a # slot
      <4>1. v.rel[a] = w.rel[a]
          BY <1>1, <1>6, <1>7, <3>2, <3>4
      <4>2. LeadsTo(w, j, a)
          BY <2>4, <3>2, Zenon DEF Linked, PointersForward
      <4> QED
          BY <1>3, <3>2, <4>1, <4>2, Zenon DEF LeadsTo
    <3> QED
        BY <3>3, <3>4
  <2>6. LastNull(v)
    <3>1. SUFFICES ASSUME NEW j \in 1 .. Len(w.objs), j = Len(w.objs),
                          NEW a \in Obj(w, j).base .. w.len - 1
                   PROVE  v.rel[a] = 0
      <4>1. \A j \in 1 .. Len(v.objs) : j \in 1 .. Len(w.objs) /\ Obj(v, j) = Obj(w, j)
          BY <1>3, <1>4
      <4> QED
          BY <1>3, <4>1, Zenon DEF LastNull
    <3>2. j # k
        BY <2>2, <3>1
    <3>3. slot < Obj(w, j).base \/ EndOf(Obj(w, j)) <= slot
        BY <1>1, <1>5, <3>2, ObjectsApart
    <3>4. EndOf(Obj(w, j)) = w.len /\ Obj(w, j).base \in Nat
        BY <1>1, <3>1, ObjectInside DEF Laid
    <3>5. a # slot /\ a \in 0 .. cap - 1
        BY <1>1, <1>5, <1>6, <3>3, <3>4, SMTT(60)
    <3>6. w.rel[a] = 0
        BY <2>4, <3>1 DEF Linked, LastNull
    <3> QED
        BY <1>7, <3>5, <3>6
  <2> QED
      BY <2>5, <2>6 DEF Linked
<1>11. Good(v, cap, padded, linked)
    BY <1>4, <1>8, <1>9, <1>10, Zenon DEF Good
<1> QED
    BY <1>2, <1>11

\* A resize of the last object: its pointers were null, and so are those of the
\* elements that it gets.
LEMMA ResizeLinked ==
    ASSUME NEW cap \in Nat, NEW w, Laid(w), Sized(w, cap), Linked(w),
           NEW k \in 1 .. Len(w.objs), k = Len(w.objs), NEW n \in Nat,
           Shape(n, Obj(w, k).ssize, Obj(w, k).psize),
           NEW v, v.objs = WithLength(w.objs, k, n), v.len = EndOf(Resized(Obj(w, k), n)),
           v.len <= cap,
           \A a \in 0 .. cap - 1 : a < w.len => v.rel[a] = w.rel[a],
           \A a \in 0 .. cap - 1 : w.len <= a /\ a < v.len => v.rel[a] = 0
    PROVE  Linked(v)
<1>1. /\ Laid(v) /\ Len(v.objs) = Len(w.objs) /\ Obj(v, k) = Resized(Obj(w, k), n)
      /\ \A j \in 1 .. Len(w.objs) : v.objs[j].at = w.objs[j].at
      /\ \A j \in 1 .. Len(w.objs) : j # k => Obj(v, j) = Obj(w, j)
    BY ResizeLaid
<1>2. /\ Obj(v, k).base = Obj(w, k).base /\ Obj(w, k).base \in Nat
      /\ w.len \in Nat /\ v.len \in Nat /\ w.len <= cap
  <2>1. Obj(v, k).base = Obj(w, k).base
      BY <1>1, ResizedFields
  <2>2. Obj(w, k).base \in Nat /\ w.len \in Nat
      BY ObjectInside
  <2>3. v.len \in Nat
      BY <1>1 DEF Laid
  <2> QED
      BY <2>1, <2>2, <2>3 DEF Sized
<1>3. \A a \in Obj(v, k).base .. v.len - 1 : v.rel[a] = 0
  <2> TAKE a \in Obj(v, k).base .. v.len - 1
  <2>1. a \in 0 .. cap - 1 /\ a < v.len
      BY <1>2
  <2>2. CASE a < w.len
    <3>1. a \in Obj(w, k).base .. w.len - 1
        BY <1>2, <2>2
    <3>2. w.rel[a] = 0
        BY <3>1 DEF Linked, LastNull
    <3> QED
        BY <2>1, <2>2, <3>2
  <2>3. CASE ~(a < w.len)
      BY <1>2, <2>1, <2>3
  <2> QED
      BY <2>2, <2>3
<1>4. LastNull(v)
    BY <1>1, <1>3, Zenon DEF LastNull
<1>5. PointersForward(v)
  <2>1. SUFFICES ASSUME NEW j \in 1 .. Len(w.objs),
                        NEW e \in 0 .. Obj(v, j).nelem - 1, NEW i \in 0 .. Obj(v, j).psize - 1
                 PROVE  LeadsTo(v, j, Slot(Obj(v, j), e, i))
      BY <1>1, Zenon DEF PointersForward
  <2>2. PICK a \in Nat : /\ a = Slot(Obj(v, j), e, i) /\ Obj(v, j).base <= a
                         /\ a < EndOf(Obj(v, j)) /\ a < v.len
      BY <1>1, SlotInside
  <2>3. CASE j = k
    <3>1. a \in Obj(v, k).base .. v.len - 1
        BY <1>2, <2>2, <2>3
    <3> QED
        BY <1>3, <2>2, <3>1, Zenon DEF LeadsTo
  <2>4. CASE j # k
    <3>1. Obj(v, j) = Obj(w, j)
        BY <1>1, <2>4
    <3>2. LeadsTo(w, j, a)
        BY <2>2, <3>1, Zenon DEF Linked, PointersForward
    <3>3. a < w.len /\ a \in 0 .. cap - 1
      <4>1. EndOf(Obj(w, j)) \in Nat /\ EndOf(Obj(w, j)) <= w.len
          BY ObjectInside
      <4> QED
          BY <1>2, <2>2, <3>1, <4>1
    <3>4. v.rel[a] = w.rel[a]
        BY <3>3
    <3>5. ASSUME v.rel[a] # 0
          PROVE  \E t \in 1 .. Len(v.objs) : t > j /\ v.objs[t].at = a + 4 * v.rel[a]
      <4>1. PICK t \in 1 .. Len(w.objs) : t > j /\ w.objs[t].at = a + 4 * w.rel[a]
          BY <3>2, <3>4, <3>5, Zenon DEF LeadsTo
      <4>2. v.objs[t].at = w.objs[t].at
          BY <1>1
      <4> QED
          BY <1>1, <3>4, <4>1, <4>2, Zenon
    <3> QED
        BY <2>2, <3>5, Zenon DEF LeadsTo
  <2> QED
      BY <2>3, <2>4
<1> QED
    BY <1>4, <1>5 DEF Linked

\* The bytes of a buffer between lo and hi are cleared.
LEMMA ClearedBytes ==
    ASSUME NEW cap \in Nat, NEW rel \in [0 .. cap - 1 -> Int], NEW bits \in Bytes(cap),
           NEW lo \in Nat, NEW hi \in Nat
    PROVE  /\ Cleared(rel, lo, hi, 0) \in [0 .. cap - 1 -> Int]
           /\ Cleared(bits, lo, hi, {}) \in Bytes(cap)
           /\ \A a \in 0 .. cap - 1 : a < lo => /\ Cleared(rel, lo, hi, 0)[a] = rel[a]
                                                /\ Cleared(bits, lo, hi, {})[a] = bits[a]
           /\ \A a \in 0 .. cap - 1 : lo <= a /\ a < hi => /\ Cleared(rel, lo, hi, 0)[a] = 0
                                                           /\ Cleared(bits, lo, hi, {})[a] = {}
<1>1. Cleared(rel, lo, hi, 0) \in [0 .. cap - 1 -> Int]
    BY DEF Cleared
<1>2. bits \in [0 .. cap - 1 -> SUBSET (0 .. 7)] /\ {} \in SUBSET (0 .. 7)
    BY DEF Bytes
<1>3. Cleared(bits, lo, hi, {}) \in Bytes(cap)
    BY <1>2 DEF Cleared, Bytes
<1>4. ASSUME NEW a \in 0 .. cap - 1, a < lo
      PROVE  Cleared(rel, lo, hi, 0)[a] = rel[a] /\ Cleared(bits, lo, hi, {})[a] = bits[a]
  <2>1. a \notin lo .. hi - 1
      BY <1>4
  <2> QED
      BY <1>2, <2>1 DEF Cleared
<1>5. ASSUME NEW a \in 0 .. cap - 1, lo <= a, a < hi
      PROVE  Cleared(rel, lo, hi, 0)[a] = 0 /\ Cleared(bits, lo, hi, {})[a] = {}
  <2>1. a \in lo .. hi - 1
      BY <1>5
  <2> QED
      BY <1>2, <2>1 DEF Cleared
<1> QED
    BY <1>1, <1>3, <1>4, <1>5, Zenon

\* A resize by one element of the last object keeps zeroes behind every object:
\* what lies behind the old end is cleared, what lies before it was padding.
LEMMA GrowPadded ==
    ASSUME NEW cap \in Nat, NEW w, Laid(w), Sized(w, cap), Padded(w),
           NEW k \in 1 .. Len(w.objs), EndOf(Obj(w, k)) = w.len,
           NEW v, Len(v.objs) = Len(w.objs), v.len \in Nat,
           \A j \in 1 .. Len(w.objs) : j # k => Obj(v, j) = Obj(w, j),
           Obj(v, k) = Resized(Obj(w, k), Obj(w, k).nelem + 1),
           Placed(Obj(v, k)), EndOf(Obj(v, k)) = v.len, v.len <= cap,
           \A a \in 0 .. cap - 1 : a < w.len => v.bits[a] = w.bits[a],
           \A a \in 0 .. cap - 1 : w.len <= a /\ a < v.len => v.bits[a] = {}
    PROVE  Padded(v)
<1>1. SUFFICES ASSUME NEW j \in 1 .. Len(w.objs)
               PROVE  PadZero(v.bits, Obj(v, j))
    BY Zenon DEF Padded
<1>2. PadZero(w.bits, Obj(w, j))
    BY DEF Padded
<1>3. w.len \in Nat /\ w.len <= cap /\ w.bits \in Bytes(cap)
    BY DEF Laid, Sized
<1>4. PICK o : o = Obj(w, j)
    OBVIOUS
<1>5. Placed(o) /\ EndOf(o) \in Nat /\ EndOf(o) <= w.len /\ o.base \in Nat
    BY <1>4, ObjectInside
<1>6. \A a \in o.base .. EndOf(o) - 1 : v.bits[a] = w.bits[a]
  <2> TAKE a \in o.base .. EndOf(o) - 1
  <2>1. a \in 0 .. cap - 1 /\ a < w.len
      BY <1>3, <1>5
  <2> QED
      BY <2>1
<1>7. CASE j # k
  <2>1. Obj(v, j) = o
      BY <1>4, <1>7
  <2> QED
      BY <1>2, <1>4, <1>5, <1>6, <2>1, PadKept
<1>8. CASE j = k
  <2>1. PICK grown : grown = Obj(v, k)
      OBVIOUS
  <2>2. grown = Resized(o, o.nelem + 1) /\ Placed(grown) /\ EndOf(grown) = v.len
      BY <1>4, <1>8, <2>1
  <2>3. \A a \in EndOf(o) .. EndOf(grown) - 1 : v.bits[a] = {}
    <3> TAKE a \in EndOf(o) .. EndOf(grown) - 1
    <3>1. EndOf(o) = w.len
        BY <1>4, <1>8
    <3>2. a \in 0 .. cap - 1 /\ w.len <= a /\ a < v.len
        BY <1>3, <2>2, <3>1
    <3> QED
        BY <3>2
  <2>4. EndOf(o) <= cap
      BY <1>3, <1>5
  <2>5. PadZero(v.bits, grown)
    <3>1. PICK bits \in Bytes(cap) : bits = w.bits
        BY <1>3, Zenon
    <3>2. PICK new : new = v.bits
        OBVIOUS
    <3>3. Grows(bits, new, o, grown)
        BY <1>6, <2>3, <3>1, <3>2, Zenon DEF Grows
    <3>4. Placed(o) /\ PadZero(bits, o)
        BY <1>2, <1>4, <1>5, <3>1, Zenon
    <3>5. PadZero(new, grown)
        BY <2>2, <2>4, <3>3, <3>4, PadGrow, Zenon
    <3> QED
        BY <3>2, <3>5, Zenon
  <2> QED
      BY <1>8, <2>1, <2>5
<1> QED
    BY <1>7, <1>8

\* nbuf_resize by one element, the put of its value not included
LEMMA GrowGood ==
    ASSUME NEW cap \in Nat, NEW padded, NEW linked, NEW w, Good(w, cap, padded, linked),
           NEW k \in 1 .. Len(w.objs), AtEnd(w, k), NEW n, n = Obj(w, k).nelem + 1,
           Shape(n, Obj(w, k).ssize, Obj(w, k).psize),
           EndOf(Resized(Obj(w, k), n)) <= cap
    PROVE  /\ Good(ResizeIn(w, k, n), cap, padded, linked)
           /\ Len(ResizeIn(w, k, n).objs) = Len(w.objs)
           /\ Obj(ResizeIn(w, k, n), k) = Resized(Obj(w, k), n)
<1>1. Laid(w) /\ Sized(w, cap)
    BY DEF Good
<1>2. k = Len(w.objs)
    BY <1>1, AtEndIsLast
<1>3. PICK v : v = ResizeIn(w, k, n)
    OBVIOUS
<1>4. PICK end : end = EndOf(Resized(Obj(w, k), n))
    OBVIOUS
<1>5. /\ v.len = end /\ v.objs = WithLength(w.objs, k, n)
      /\ v.rel = Cleared(w.rel, w.len, end, 0) /\ v.bits = Cleared(w.bits, w.len, end, {})
    BY <1>3, <1>4 DEF ResizeIn, Wire
<1>6. n \in Nat
    BY DEF Shape
<1>7. /\ Laid(v) /\ Len(v.objs) = Len(w.objs) /\ Obj(v, k) = Resized(Obj(w, k), n)
      /\ \A j \in 1 .. Len(w.objs) : j # k => Obj(v, j) = Obj(w, j)
    BY <1>1, <1>2, <1>4, <1>5, <1>6, ResizeLaid
<1>8. /\ w.len \in Nat /\ w.rel \in [0 .. cap - 1 -> Int] /\ w.bits \in Bytes(cap)
      /\ end \in Nat /\ end <= cap
    BY <1>1, <1>4, <1>5, <1>7 DEF Laid, Sized
<1>9. /\ v.rel \in [0 .. cap - 1 -> Int] /\ v.bits \in Bytes(cap)
      /\ \A a \in 0 .. cap - 1 : a < w.len => v.rel[a] = w.rel[a] /\ v.bits[a] = w.bits[a]
      /\ \A a \in 0 .. cap - 1 : w.len <= a /\ a < v.len => v.rel[a] = 0 /\ v.bits[a] = {}
  <2>1. /\ Cleared(w.rel, w.len, end, 0) \in [0 .. cap - 1 -> Int]
        /\ Cleared(w.bits, w.len, end, {}) \in Bytes(cap)
        /\ \A a \in 0 .. cap - 1 : a < w.len => /\ Cleared(w.rel, w.len, end, 0)[a] = w.rel[a]
                                                /\ Cleared(w.bits, w.len, end, {})[a] = w.bits[a]
        /\ \A a \in 0 .. cap - 1 : w.len <= a /\ a < end =>
               Cleared(w.rel, w.len, end, 0)[a] = 0 /\ Cleared(w.bits, w.len, end, {})[a] = {}
      BY <1>8, ClearedBytes, ZenonT(60)
  <2> QED
      BY <1>5, <2>1, Zenon
<1>10. Sized(v, cap)
    BY <1>5, <1>8, <1>9, Zenon DEF Sized
<1>11. ASSUME padded
       PROVE  Padded(v)
  <2>1. Padded(w) /\ EndOf(Obj(w, k)) = w.len
      BY <1>11 DEF Good, AtEnd
  <2>2. /\ v.len \in Nat /\ v.len <= cap /\ Placed(Obj(v, k)) /\ EndOf(Obj(v, k)) = v.len
        /\ Obj(v, k) = Resized(Obj(w, k), Obj(w, k).nelem + 1)
      BY <1>4, <1>5, <1>7, <1>8 DEF Laid
  <2> QED
      BY <1>1, <1>7, <1>9, <2>1, <2>2, GrowPadded, Zenon
<1>12. ASSUME linked
       PROVE  Linked(v)
  <2>1. Linked(w)
      BY <1>12 DEF Good
  <2>2. v.len = EndOf(Resized(Obj(w, k), n)) /\ v.len <= cap
      BY <1>4, <1>5, <1>8
  <2>3. /\ \A a \in 0 .. cap - 1 : a < w.len => v.rel[a] = w.rel[a]
        /\ \A a \in 0 .. cap - 1 : w.len <= a /\ a < v.len => v.rel[a] = 0
      BY <1>9, Zenon
  <2> QED
      BY <1>1, <1>2, <1>5, <1>6, <2>1, <2>2, <2>3, ResizeLinked, Zenon
<1>13. Good(v, cap, padded, linked)
    BY <1>7, <1>10, <1>11, <1>12, Zenon DEF Good
<1> QED
    BY <1>3, <1>7, <1>13

\* nbuf_resize to fewer elements that end in the same 8 bytes.  The elements
\* that are gone stay where they are, so no more is said of the padding.
LEMMA ShrinkGood ==
    ASSUME NEW cap \in Nat, NEW padded, NEW linked, NEW w, Good(w, cap, padded, linked),
           NEW k \in 1 .. Len(w.objs), AtEnd(w, k),
           NEW n \in Nat, n < Obj(w, k).nelem, EndOf(Resized(Obj(w, k), n)) = w.len,
           NEW v, v = Wire(w.len, WithLength(w.objs, k, n), w.rel, w.bits)
    PROVE  Good(v, cap, FALSE, linked)
<1>1. Laid(w) /\ Sized(w, cap)
    BY DEF Good
<1>2. k = Len(w.objs)
    BY <1>1, AtEndIsLast
<1>3. /\ v.len = w.len /\ v.objs = WithLength(w.objs, k, n) /\ v.rel = w.rel /\ v.bits = w.bits
    BY DEF Wire
<1>4. Shape(n, Obj(w, k).ssize, Obj(w, k).psize)
  <2>1. Shape(Obj(w, k).nelem, Obj(w, k).ssize, Obj(w, k).psize)
      BY <1>1, ObjectInside DEF Placed
  <2> QED
      BY <2>1, NelemModAssumption DEF Shape
<1>5. Laid(v)
    BY <1>1, <1>2, <1>3, <1>4, ResizeLaid
<1>6. Sized(v, cap)
    BY <1>1, <1>3, Zenon DEF Sized
<1>7. ASSUME linked
      PROVE  Linked(v)
  <2>1. Linked(w)
      BY <1>7 DEF Good
  <2>2. v.len <= cap /\ v.len \in Nat
      BY <1>1, <1>3 DEF Laid, Sized
  <2>3. \A a \in 0 .. cap - 1 : w.len <= a /\ a < v.len => v.rel[a] = 0
      BY <1>3, <2>2
  <2> QED
      BY <1>1, <1>2, <1>3, <1>4, <2>1, <2>2, <2>3, ResizeLinked, SMTT(40)
<1> QED
    BY <1>5, <1>6, <1>7, Zenon DEF Good

-----------------------------------------------------------------------------
(* What a reader finds *)

\* No two objects start at the same place, so _nbuf_get_ptr finds the one whose
\* header the word leads to.
LEMMA TargetFound ==
    ASSUME NEW w, Laid(w), NEW slot, NEW j \in 1 .. Len(w.objs),
           w.rel[slot] # 0, w.objs[j].at = slot + 4 * w.rel[slot]
    PROVE  TargetIn(w, slot) = j
<1> DEFINE found == {k \in DOMAIN w.objs : w.objs[k].at = slot + WordSz * w.rel[slot]}
<1>1. w.objs \in Seq(Headers)
    BY DEF Laid
<1>2. ASSUME NEW k \in 1 .. Len(w.objs), w.objs[k].at = w.objs[j].at
      PROVE  k = j
  <2>1. /\ w.objs[k].at \in Nat /\ Obj(w, k).base = w.objs[k].at + 8
        /\ EndOf(Obj(w, k)) \in Nat /\ Obj(w, k).base <= EndOf(Obj(w, k))
        /\ w.objs[j].at \in Nat /\ Obj(w, j).base = w.objs[j].at + 8
        /\ EndOf(Obj(w, j)) \in Nat /\ Obj(w, j).base <= EndOf(Obj(w, j))
      BY ObjectInside
  <2>2. /\ k < j => EndOf(Obj(w, k)) <= w.objs[j].at
        /\ j < k => EndOf(Obj(w, j)) <= w.objs[k].at
      BY DEF Laid
  <2> QED
      BY <1>2, <2>1, <2>2
<1>3. found = {j}
    BY <1>1, <1>2 DEF WordSz
<1>4. (CHOOSE k \in found : TRUE) = j
    BY <1>3
<1>5. found # {}
    BY <1>3
<1> HIDE DEF found
<1>6. TargetIn(w, slot) = IF w.rel[slot] = 0 THEN 0
                          ELSE IF found = {} THEN -1 ELSE CHOOSE k \in found : TRUE
    BY Zenon DEF TargetIn, found
<1> QED
    BY <1>4, <1>5, <1>6, Zenon

\* Pointers that lead forward are found to.
LEMMA LinkedFound ==
    ASSUME NEW w, Laid(w), PointersForward(w)
    PROVE  PointersToObjects(w)
<1>1. DOMAIN w.objs = 1 .. Len(w.objs)
  <2>1. w.objs \in Seq(Headers)
      BY DEF Laid
  <2> QED
      BY <2>1
<1>2. ASSUME NEW k \in 1 .. Len(w.objs),
             NEW e \in 0 .. Obj(w, k).nelem - 1, NEW i \in 0 .. Obj(w, k).psize - 1,
             w.rel[Slot(Obj(w, k), e, i)] # 0
      PROVE  TargetIn(w, Slot(Obj(w, k), e, i)) > k
  <2>1. PICK slot : slot = Slot(Obj(w, k), e, i)
      OBVIOUS
  <2>2. LeadsTo(w, k, slot)
      BY <2>1, Zenon DEF PointersForward
  <2>3. PICK j \in 1 .. Len(w.objs) : j > k /\ w.objs[j].at = slot + 4 * w.rel[slot]
      BY <1>2, <2>1, <2>2, Zenon DEF LeadsTo
  <2>4. TargetIn(w, slot) = j
      BY <1>2, <2>1, <2>3, TargetFound
  <2> QED
      BY <2>1, <2>3, <2>4
<1> QED
    BY <1>1, <1>2, Zenon DEF PointersToObjects

-----------------------------------------------------------------------------
(* What the get functions show of an object, and how the put functions, which
   change bytes, change it in the terms of MsgGraph *)

\* The objects and the effects of MsgGraph, whatever its message is
Msg == INSTANCE MsgGraph WITH objs <- <<>>

\* The fields of an object as it is shown
LEMMA ShownFields ==
    ASSUME NEW w, NEW o, NEW f
    PROVE  /\ Shown(w, o, f).ssize = o.ssize /\ Shown(w, o, f).psize = o.psize
           /\ Shown(w, o, f).vals = [e \in 1 .. o.nelem |-> GetScalar(w, o, e - 1)]
           /\ Shown(w, o, f).ptrs = [e \in 1 .. o.nelem |->
                                       [i \in 1 .. o.psize |-> f[Slot(o, e - 1, i - 1)]]]
  BY DEF Shown

\* Two objects with the same sizes, scalars and pointers are shown alike.
LEMMA ShownAlike ==
    ASSUME NEW w, NEW o, NEW f, NEW v, NEW q, NEW g,
           o.nelem \in Nat, o.psize \in Nat,
           q.nelem = o.nelem, q.ssize = o.ssize, q.psize = o.psize,
           \A e \in 0 .. o.nelem - 1 : GetScalar(v, q, e) = GetScalar(w, o, e),
           \A e \in 0 .. o.nelem - 1, i \in 0 .. o.psize - 1 : g[Slot(q, e, i)] = f[Slot(o, e, i)]
    PROVE  Shown(v, q, g) = Shown(w, o, f)
<1>1. \A e \in 1 .. o.nelem : e - 1 \in 0 .. o.nelem - 1
    OBVIOUS
<1>2. \A i \in 1 .. o.psize : i - 1 \in 0 .. o.psize - 1
    OBVIOUS
<1>3. [e \in 1 .. o.nelem |-> GetScalar(v, q, e - 1)] = [e \in 1 .. o.nelem |-> GetScalar(w, o, e - 1)]
    BY <1>1, Zenon
<1>4. [e \in 1 .. o.nelem |-> [i \in 1 .. o.psize |-> g[Slot(q, e - 1, i - 1)]]]
        = [e \in 1 .. o.nelem |-> [i \in 1 .. o.psize |-> f[Slot(o, e - 1, i - 1)]]]
    BY <1>1, <1>2, Zenon
<1> QED
    BY <1>3, <1>4, Zenon DEF Shown

\* An object with another value in element e, and with pointer i of e at t
Rewritten(r, e, v) == [r EXCEPT !.vals[e + 1] = v]
Relinked(r, e, i, t) == [r EXCEPT !.ptrs[e + 1][i + 1] = t]

\* One scalar differs: the object is shown with that value.
LEMMA ShownRewritten ==
    ASSUME NEW w, NEW o, NEW f, NEW v, NEW g, NEW d \in 0 .. o.nelem - 1, NEW x,
           o.nelem \in Nat, o.psize \in Nat,
           GetScalar(v, o, d) = x,
           \A e \in 0 .. o.nelem - 1 : e # d => GetScalar(v, o, e) = GetScalar(w, o, e),
           \A e \in 0 .. o.nelem - 1, i \in 0 .. o.psize - 1 : g[Slot(o, e, i)] = f[Slot(o, e, i)]
    PROVE  Shown(v, o, g) = Rewritten(Shown(w, o, f), d, x)
<1> DEFINE old == [e \in 1 .. o.nelem |-> GetScalar(w, o, e - 1)]
           new == [e \in 1 .. o.nelem |-> GetScalar(v, o, e - 1)]
<1>1. \A e \in 1 .. o.nelem : e - 1 \in 0 .. o.nelem - 1 /\ (e # d + 1 => e - 1 # d)
    OBVIOUS
<1>2. \A i \in 1 .. o.psize : i - 1 \in 0 .. o.psize - 1
    OBVIOUS
<1>3. new = [old EXCEPT ![d + 1] = x]
  <2>1. d + 1 \in 1 .. o.nelem /\ (d + 1) - 1 = d
      OBVIOUS
  <2>2. new[d + 1] = x
      BY <2>1
  <2>3. \A e \in 1 .. o.nelem : e # d + 1 => new[e] = old[e]
      BY <1>1, Zenon
  <2> HIDE DEF new
  <2>4. new = [e \in 1 .. o.nelem |-> new[e]]
      BY DEF new
  <2> QED
      BY <2>1, <2>2, <2>3, <2>4
<1> HIDE DEF new, old
<1>4. PICK ptrs : ptrs = [e \in 1 .. o.nelem |-> [i \in 1 .. o.psize |-> f[Slot(o, e - 1, i - 1)]]]
    OBVIOUS
<1>5. ptrs = [e \in 1 .. o.nelem |-> [i \in 1 .. o.psize |-> g[Slot(o, e - 1, i - 1)]]]
    BY <1>1, <1>2, <1>4, Zenon
<1>6. /\ Shown(w, o, f) = [ssize |-> o.ssize, psize |-> o.psize, vals |-> old, ptrs |-> ptrs]
      /\ Shown(v, o, g) = [ssize |-> o.ssize, psize |-> o.psize, vals |-> new, ptrs |-> ptrs]
    BY <1>4, <1>5, Zenon DEF Shown, old, new
<1>7. [ssize |-> o.ssize, psize |-> o.psize, vals |-> new, ptrs |-> ptrs]
        = [[ssize |-> o.ssize, psize |-> o.psize, vals |-> old, ptrs |-> ptrs]
             EXCEPT !.vals[d + 1] = x]
    BY <1>3
<1> QED
    BY <1>6, <1>7, Zenon DEF Rewritten

\* One pointer word differs: the object is shown with that pointer set to t.
LEMMA ShownRelinked ==
    ASSUME NEW w, NEW o, NEW f, NEW v, NEW g,
           NEW d \in 0 .. o.nelem - 1, NEW j \in 0 .. o.psize - 1, NEW t,
           o.nelem \in Nat, o.psize \in Nat,
           \A e \in 0 .. o.nelem - 1 : GetScalar(v, o, e) = GetScalar(w, o, e),
           g[Slot(o, d, j)] = t,
           \A e \in 0 .. o.nelem - 1, i \in 0 .. o.psize - 1 :
              e # d \/ i # j => g[Slot(o, e, i)] = f[Slot(o, e, i)]
    PROVE  Shown(v, o, g) = Relinked(Shown(w, o, f), d, j, t)
<1> DEFINE row(e) == [i \in 1 .. o.psize |-> f[Slot(o, e - 1, i - 1)]]
           nrow(e) == [i \in 1 .. o.psize |-> g[Slot(o, e - 1, i - 1)]]
           old == [e \in 1 .. o.nelem |-> row(e)]
           new == [e \in 1 .. o.nelem |-> nrow(e)]
<1>1. \A e \in 1 .. o.nelem : e - 1 \in 0 .. o.nelem - 1 /\ (e # d + 1 => e - 1 # d)
    OBVIOUS
<1>2. \A i \in 1 .. o.psize : i - 1 \in 0 .. o.psize - 1 /\ (i # j + 1 => i - 1 # j)
    OBVIOUS
<1>3. /\ d + 1 \in 1 .. o.nelem /\ (d + 1) - 1 = d
      /\ j + 1 \in 1 .. o.psize /\ (j + 1) - 1 = j
    OBVIOUS
<1>4. nrow(d + 1) = [row(d + 1) EXCEPT ![j + 1] = t]
  <2>1. nrow(d + 1)[j + 1] = t
      BY <1>3
  <2>2. \A i \in 1 .. o.psize : i # j + 1 => nrow(d + 1)[i] = row(d + 1)[i]
      BY <1>2, <1>3, Zenon
  <2>3. PICK r, n : /\ r = row(d + 1) /\ n = nrow(d + 1)
                    /\ r = [i \in 1 .. o.psize |-> r[i]] /\ n = [i \in 1 .. o.psize |-> n[i]]
    <3>1. /\ row(d + 1) = [i \in 1 .. o.psize |-> row(d + 1)[i]]
          /\ nrow(d + 1) = [i \in 1 .. o.psize |-> nrow(d + 1)[i]]
        OBVIOUS
    <3> QED
        BY <3>1
  <2> HIDE DEF row, nrow
  <2>4. n = [r EXCEPT ![j + 1] = t]
      BY <1>3, <2>1, <2>2, <2>3
  <2> QED
      BY <2>3, <2>4
<1>5. \A e \in 1 .. o.nelem : e # d + 1 => nrow(e) = row(e)
    BY <1>1, <1>2, Zenon
<1> HIDE DEF row, nrow
<1>6. new = [old EXCEPT ![d + 1][j + 1] = t]
  <2>1. old[d + 1] = row(d + 1)
      BY <1>3
  <2>2. new = [old EXCEPT ![d + 1] = [row(d + 1) EXCEPT ![j + 1] = t]]
      BY <1>3, <1>4, <1>5
  <2> QED
      BY <2>1, <2>2
<1>7. PICK vals : vals = [e \in 1 .. o.nelem |-> GetScalar(w, o, e - 1)]
    OBVIOUS
<1>8. vals = [e \in 1 .. o.nelem |-> GetScalar(v, o, e - 1)]
    BY <1>1, <1>7, Zenon
<1>9. /\ Shown(w, o, f) = [ssize |-> o.ssize, psize |-> o.psize, vals |-> vals, ptrs |-> old]
      /\ Shown(v, o, g) = [ssize |-> o.ssize, psize |-> o.psize, vals |-> vals, ptrs |-> new]
    BY <1>7, <1>8, Zenon DEF Shown, row, nrow
<1> HIDE DEF old, new
<1>10. PICK r, q : r = Shown(w, o, f) /\ q = Shown(v, o, g)
    OBVIOUS
<1>11. q = [r EXCEPT !.ptrs[d + 1][j + 1] = t]
    BY <1>6, <1>9, <1>10
<1> QED
    BY <1>10, <1>11, Zenon DEF Relinked

\* What it takes for a sequence to be another one with an element appended
LEMMA AppendIs ==
    ASSUME NEW n \in Nat, NEW S, NEW s \in [1 .. n -> S], NEW r \in [1 .. n + 1 -> S], NEW x \in S,
           \A e \in 1 .. n : r[e] = s[e], r[n + 1] = x
    PROVE  r = Append(s, x) /\ Len(r) = n + 1 /\ Len(s) = n
<1>1. s \in Seq(S) /\ Len(s) = n
    OBVIOUS
<1>2. r \in Seq(S) /\ Len(r) = n + 1
    OBVIOUS
<1>3. /\ Append(s, x) \in Seq(S) /\ Len(Append(s, x)) = n + 1
      /\ \A e \in 1 .. n : Append(s, x)[e] = s[e]
      /\ Append(s, x)[n + 1] = x
    BY <1>1, AppendProperties
<1>4. PICK a \in Seq(S) : a = Append(s, x) /\ Len(a) = n + 1
    BY <1>3
<1>5. \A e \in 1 .. n + 1 : e \in 1 .. n \/ e = n + 1
    OBVIOUS
<1>6. \A e \in 1 .. n + 1 : r[e] = a[e]
    BY <1>3, <1>4, <1>5, Zenon
<1>7. r = a
    BY <1>2, <1>4, <1>6
<1> QED
    BY <1>1, <1>2, <1>4, <1>7, Zenon

\* One more element, blank but for its scalar
LEMMA ShownLonger ==
    ASSUME NEW w, NEW o, NEW f, NEW v, NEW q, NEW g, NEW x,
           o.nelem \in Nat, o.psize \in Nat,
           q.nelem = o.nelem + 1, q.ssize = o.ssize, q.psize = o.psize,
           \A e \in 0 .. o.nelem - 1 : GetScalar(v, q, e) = GetScalar(w, o, e),
           GetScalar(v, q, o.nelem) = IF o.ssize > 0 \/ o.psize = 0 THEN x ELSE 0,
           \A e \in 0 .. o.nelem - 1, i \in 0 .. o.psize - 1 : g[Slot(q, e, i)] = f[Slot(o, e, i)],
           \A i \in 0 .. o.psize - 1 : g[Slot(q, o.nelem, i)] = 0
    PROVE  Shown(v, q, g) = Msg!Longer(Shown(w, o, f), x)
<1>1. PICK n \in Nat : n = o.nelem
    OBVIOUS
<1>0. PICK y : y = IF o.ssize > 0 \/ o.psize = 0 THEN x ELSE 0
    OBVIOUS
<1>2. \A e \in 1 .. n : e - 1 \in 0 .. n - 1
    OBVIOUS
<1>3. \A i \in 1 .. o.psize : i - 1 \in 0 .. o.psize - 1
    OBVIOUS
<1>4. (n + 1) - 1 = n /\ \A e \in 1 .. n + 1 : e \in 1 .. n \/ e = n + 1
    OBVIOUS
<1> DEFINE vals == [e \in 1 .. n |-> GetScalar(w, o, e - 1)]
           nvals == [e \in 1 .. n + 1 |-> GetScalar(v, q, e - 1)]
           ptrs == [e \in 1 .. n |-> [i \in 1 .. o.psize |-> f[Slot(o, e - 1, i - 1)]]]
           nptrs == [e \in 1 .. n + 1 |-> [i \in 1 .. o.psize |-> g[Slot(q, e - 1, i - 1)]]]
           null == [i \in 1 .. o.psize |-> 0]
<1>5. nvals = Append(vals, y)
  <2>1. \A e \in 1 .. n : nvals[e] = vals[e]
    <3>1. \A e \in 1 .. n : e \in 1 .. n + 1
        OBVIOUS
    <3> QED
        BY <1>1, <1>2, <3>1, Zenon
  <2>2. nvals[n + 1] = y
    <3>1. n + 1 \in 1 .. n + 1
        OBVIOUS
    <3>2. nvals[n + 1] = GetScalar(v, q, n)
        BY <1>4, <3>1
    <3> QED
        BY <1>0, <1>1, <3>2, Zenon
  <2> HIDE DEF nvals
  <2>3. nvals = [e \in 1 .. n + 1 |-> nvals[e]]
      BY DEF nvals
  <2> HIDE DEF vals
  <2>4. vals = [e \in 1 .. n |-> vals[e]]
      BY DEF vals
  <2>5. PICK S : S = {nvals[e] : e \in 1 .. n + 1}
      OBVIOUS
  <2>6. nvals \in [1 .. n + 1 -> S] /\ y \in S
      BY <2>2, <2>3, <2>5
  <2>7. vals \in [1 .. n -> S]
      BY <2>1, <2>4, <2>5
  <2> QED
      BY <2>1, <2>2, <2>6, <2>7, AppendIs
<1>6. nptrs = Append(ptrs, null)
  <2>1. \A e \in 1 .. n : nptrs[e] = ptrs[e]
    <3>1. \A e \in 1 .. n : e \in 1 .. n + 1
        OBVIOUS
    <3> QED
        BY <1>1, <1>2, <1>3, <3>1, Zenon
  <2>2. nptrs[n + 1] = null
    <3>1. n + 1 \in 1 .. n + 1
        OBVIOUS
    <3>2. nptrs[n + 1] = [i \in 1 .. o.psize |-> g[Slot(q, n, i - 1)]]
        BY <1>4, <3>1
    <3> QED
        BY <1>1, <1>3, <3>2, Zenon
  <2> HIDE DEF nptrs, null
  <2>3. nptrs = [e \in 1 .. n + 1 |-> nptrs[e]]
      BY DEF nptrs
  <2> HIDE DEF ptrs
  <2>4. ptrs = [e \in 1 .. n |-> ptrs[e]]
      BY DEF ptrs
  <2>5. PICK S : S = {nptrs[e] : e \in 1 .. n + 1}
      OBVIOUS
  <2>6. nptrs \in [1 .. n + 1 -> S] /\ null \in S
      BY <2>2, <2>3, <2>5
  <2>7. ptrs \in [1 .. n -> S]
      BY <2>1, <2>4, <2>5
  <2> QED
      BY <2>1, <2>2, <2>6, <2>7, AppendIs
<1>7. /\ Shown(w, o, f) = [ssize |-> o.ssize, psize |-> o.psize, vals |-> vals, ptrs |-> ptrs]
      /\ Shown(v, q, g) = [ssize |-> o.ssize, psize |-> o.psize, vals |-> nvals, ptrs |-> nptrs]
    BY <1>1, Zenon DEF Shown
<1> HIDE DEF vals, ptrs, nvals, nptrs, null
<1>8. PICK r, q1 : r = Shown(w, o, f) /\ q1 = Shown(v, q, g)
    OBVIOUS
<1>9. q1 = [r EXCEPT !.vals = nvals, !.ptrs = nptrs]
  <2>1. [r EXCEPT !.vals = nvals, !.ptrs = nptrs]
          = [z \in DOMAIN r |-> IF z = "ptrs" THEN nptrs ELSE IF z = "vals" THEN nvals ELSE r[z]]
      BY Zenon
  <2> QED
      BY <1>7, <1>8, <2>1
<1>10. r.vals = vals /\ r.ptrs = ptrs /\ r.ssize = o.ssize /\ r.psize = o.psize
    BY <1>7, <1>8
<1>11. Msg!Held(r, x) = y /\ Msg!Nulls(r.psize) = null
    BY <1>0, <1>10, Zenon DEF Msg!Held, Msg!Nulls, null
<1>12. q1 = [r EXCEPT !.vals = Append(@, Msg!Held(r, x)), !.ptrs = Append(@, Msg!Nulls(r.psize))]
    BY <1>5, <1>6, <1>9, <1>10, <1>11, Zenon
<1> QED
    BY <1>8, <1>12, Zenon DEF Msg!Longer

\* An object with no pointers set reads as its scalars say.
LEMMA ShownUnset ==
    ASSUME NEW v, NEW q, NEW g, NEW n \in Nat, n = q.nelem, q.psize \in Nat,
           \A e \in 0 .. q.nelem - 1, i \in 0 .. q.psize - 1 : g[Slot(q, e, i)] = 0
    PROVE  Shown(v, q, g) = [ssize |-> q.ssize, psize |-> q.psize,
                             vals |-> [e \in 1 .. n |-> GetScalar(v, q, e - 1)],
                             ptrs |-> [e \in 1 .. n |-> Msg!Nulls(q.psize)]]
<1>1. \A e \in 1 .. n : e - 1 \in 0 .. n - 1
    OBVIOUS
<1>2. \A i \in 1 .. q.psize : i - 1 \in 0 .. q.psize - 1
    OBVIOUS
<1>3. [e \in 1 .. n |-> [i \in 1 .. q.psize |-> g[Slot(q, e - 1, i - 1)]]]
        = [e \in 1 .. n |-> Msg!Nulls(q.psize)]
    BY <1>1, <1>2, Zenon DEF Msg!Nulls
<1> QED
    BY <1>3, Zenon DEF Shown

\* One with no scalar set either is blank.
LEMMA ShownBlank ==
    ASSUME NEW v, NEW q, NEW g, q.nelem \in Nat, q.psize \in Nat,
           \A e \in 0 .. q.nelem - 1, i \in 0 .. q.psize - 1 : g[Slot(q, e, i)] = 0,
           \A e \in 0 .. q.nelem - 1 : GetScalar(v, q, e) = 0
    PROVE  Shown(v, q, g) = Msg!Blank(q.nelem, q.ssize, q.psize)
<1>1. PICK n \in Nat : n = q.nelem
    OBVIOUS
<1>2. \A e \in 1 .. n : e - 1 \in 0 .. n - 1
    OBVIOUS
<1>3. [e \in 1 .. n |-> GetScalar(v, q, e - 1)] = [e \in 1 .. n |-> 0]
    BY <1>1, <1>2, Zenon
<1>4. Shown(v, q, g) = [ssize |-> q.ssize, psize |-> q.psize,
                        vals |-> [e \in 1 .. n |-> GetScalar(v, q, e - 1)],
                        ptrs |-> [e \in 1 .. n |-> Msg!Nulls(q.psize)]]
    BY <1>1, ShownUnset, Zenon
<1> QED
    BY <1>1, <1>3, <1>4, Zenon DEF Msg!Blank

\* A string is shown as its characters and the NUL.
LEMMA ShownText ==
    ASSUME NEW v, NEW q, NEW g, NEW c \in Nat, q.nelem = c + 1, q.ssize = 1, q.psize = 0,
           \A e \in 0 .. q.nelem - 1 : GetScalar(v, q, e) = IF e + 1 < q.nelem THEN 1 ELSE 0
    PROVE  Shown(v, q, g) = Msg!Text(c)
<1>1. PICK n \in Nat : n = q.nelem /\ n = c + 1
    OBVIOUS
<1>2. \A e \in 1 .. n : e - 1 \in 0 .. n - 1 /\ ((e - 1) + 1 < n <=> e <= c)
    BY <1>1
<1>3. PICK vals : vals = [e \in 1 .. n |-> IF e <= c THEN 1 ELSE 0]
    OBVIOUS
<1>4. \A e \in 1 .. n : GetScalar(v, q, e - 1) = IF e <= c THEN 1 ELSE 0
    BY <1>1, <1>2
<1>5. [e \in 1 .. n |-> GetScalar(v, q, e - 1)] = vals
    BY <1>3, <1>4, Zenon
<1>6. PICK null : null = [e \in 1 .. n |-> Msg!Nulls(0)]
    OBVIOUS
<1>7. Shown(v, q, g) = [ssize |-> 1, psize |-> 0, vals |-> vals, ptrs |-> null]
  <2>1. q.psize \in Nat /\ \A e \in 0 .. q.nelem - 1, i \in 0 .. q.psize - 1 : g[Slot(q, e, i)] = 0
      OBVIOUS
  <2>2. Shown(v, q, g) = [ssize |-> q.ssize, psize |-> q.psize,
                          vals |-> [e \in 1 .. n |-> GetScalar(v, q, e - 1)],
                          ptrs |-> [e \in 1 .. n |-> Msg!Nulls(q.psize)]]
      BY <1>1, <2>1, ShownUnset
  <2> QED
      BY <1>5, <1>6, <2>2
<1>8. PICK zero : zero = [e \in 1 .. n |-> 0]
    OBVIOUS
<1>9. Msg!Blank(c + 1, 1, 0) = [ssize |-> 1, psize |-> 0, vals |-> zero, ptrs |-> null]
    BY <1>1, <1>6, <1>8, Zenon DEF Msg!Blank
<1>10. [ssize |-> 1, psize |-> 0, vals |-> vals, ptrs |-> null]
         = [[ssize |-> 1, psize |-> 0, vals |-> zero, ptrs |-> null] EXCEPT !.vals = vals]
    OBVIOUS
<1> QED
    BY <1>1, <1>3, <1>7, <1>9, <1>10, Zenon DEF Msg!Text

\* A list of one element with a value in it
LEMMA ShownFirst ==
    ASSUME NEW v, NEW q, NEW g, NEW x, q.nelem = 1, q.psize \in Nat,
           \A e \in 0 .. q.nelem - 1, i \in 0 .. q.psize - 1 : g[Slot(q, e, i)] = 0,
           GetScalar(v, q, 0) = x
    PROVE  Shown(v, q, g) = Msg!Holding(Msg!Blank(1, q.ssize, q.psize), x)
<1>1. 1 - 1 = 0 /\ \A e \in 1 .. 1 : e = 1
    OBVIOUS
<1>2. [e \in 1 .. 1 |-> GetScalar(v, q, e - 1)] = [e \in 1 .. 1 |-> x]
    BY <1>1, Zenon
<1>3. PICK null : null = [e \in 1 .. 1 |-> Msg!Nulls(q.psize)]
    OBVIOUS
<1>4. PICK vals, zero : vals = [e \in 1 .. 1 |-> x] /\ zero = [e \in 1 .. 1 |-> 0]
    OBVIOUS
<1>5. Shown(v, q, g) = [ssize |-> q.ssize, psize |-> q.psize, vals |-> vals, ptrs |-> null]
  <2>1. 1 \in Nat /\ 1 = q.nelem
      OBVIOUS
  <2>2. Shown(v, q, g) = [ssize |-> q.ssize, psize |-> q.psize,
                          vals |-> [e \in 1 .. 1 |-> GetScalar(v, q, e - 1)],
                          ptrs |-> [e \in 1 .. 1 |-> Msg!Nulls(q.psize)]]
      BY <2>1, ShownUnset, Zenon
  <2> QED
      BY <1>2, <1>3, <1>4, <2>2, Zenon
<1>6. vals = [zero EXCEPT ![1] = x]
    BY <1>1, <1>4
<1>7. PICK b : b = Msg!Blank(1, q.ssize, q.psize)
    OBVIOUS
<1>8. b = [ssize |-> q.ssize, psize |-> q.psize, vals |-> zero, ptrs |-> null]
    BY <1>3, <1>4, <1>7, Zenon DEF Msg!Blank
<1>9. [ssize |-> q.ssize, psize |-> q.psize, vals |-> vals, ptrs |-> null] = [b EXCEPT !.vals[1] = x]
    BY <1>6, <1>8
<1> QED
    BY <1>5, <1>7, <1>9, Zenon DEF Msg!Holding

\* Where an element lies in its object does not depend on where the object lies.
LEMMA ElemMoved ==
    ASSUME NEW o, Placed(o), NEW q, Placed(q),
           q.nelem = o.nelem, q.ssize = o.ssize, q.psize = o.psize, NEW e \in 0 .. o.nelem - 1
    PROVE  /\ ElemSz(q) = ElemSz(o)
           /\ \E d \in Nat : /\ GetElem(o, e).base = o.base + d /\ GetElem(q, e).base = q.base + d
                             /\ d < TotalSz(o)
                             /\ ElemSz(o) # 0 => d + o.ssize <= TotalSz(o)
<1>1. ElemSz(q) = ElemSz(o) /\ TotalSz(q) = TotalSz(o)
    BY DEF ElemSz, PtrOffs, TotalSz
<1>2. /\ o.base \in Nat /\ q.base \in Nat /\ TotalSz(o) \in Nat
      /\ o.ssize \in Nat /\ o.psize \in Nat /\ e \in 0 .. q.nelem - 1
    BY SizeFacts DEF Placed, Shape
<1>3. PICK c \in Nat : c = ElemSz(o) /\ c = o.ssize + 4 * o.psize
    BY SizeFacts
<1>4. PICK d \in Nat : d = (IF c = 0 THEN e \div 8 ELSE e * c)
  <2>1. e \in Nat /\ o.nelem \in Nat
      BY DEF Placed, Shape
  <2>2. e \div 8 \in Nat /\ e * c \in Nat
      BY <2>1
  <2> QED
      BY <2>2
<1>5. GetElem(o, e).base = o.base + d /\ GetElem(q, e).base = q.base + d
    BY <1>1, <1>2, <1>3, <1>4, ElemFacts
<1>6. /\ GetElem(o, e).base < o.base + TotalSz(o)
      /\ ElemSz(o) # 0 => GetElem(o, e).base + ElemSz(o) <= o.base + TotalSz(o)
    BY ElemFacts
<1>7. d < TotalSz(o) /\ (ElemSz(o) # 0 => d + o.ssize <= TotalSz(o))
    BY <1>2, <1>3, <1>5, <1>6
<1> QED
    BY <1>1, <1>5, <1>7

\* Whether a byte of a scalar behind its first one is not 0
High(bits, a, s) == \E x \in a + 1 .. a + s - 1 : bits[x] # {}

\* What the bytes of a scalar at a say
IntAt(bits, a, s) ==
    IF s = 0 \/ (bits[a] = {} /\ ~High(bits, a, s)) THEN 0
    ELSE IF bits[a] = {0} /\ ~High(bits, a, s) THEN 1
    ELSE 2

LEMMA ScalarRead ==
    ASSUME NEW w, NEW o, NEW e
    PROVE  /\ ElemSz(o) = 0 => GetScalar(w, o, e)
                                 = IF e % 8 \in w.bits[GetElem(o, e).base] THEN 1 ELSE 0
           /\ ElemSz(o) # 0 => GetScalar(w, o, e) = IntAt(w.bits, GetElem(o, e).base, o.ssize)
  BY Zenon DEF GetScalar, IntAt, High

\* n bytes of g from b on are those of f from a on.
SameBytes(f, a, g, b, n) == \A d \in 0 .. n - 1 : g[b + d] = f[a + d]

\* The same bytes elsewhere are the same scalar.
LEMMA IntMoved ==
    ASSUME NEW a \in Nat, NEW b \in Nat, NEW s \in Nat, NEW f, NEW g,
           SameBytes(f, a, g, b, s)
    PROVE  IntAt(g, b, s) = IntAt(f, a, s)
<1>1. CASE s = 0
    BY <1>1, Zenon DEF IntAt
<1>2. CASE s # 0
  <2>1. g[b] = f[a]
    <3>1. 0 \in 0 .. s - 1 /\ a + 0 = a /\ b + 0 = b
        BY <1>2
    <3> QED
        BY <3>1 DEF SameBytes
  <2>2. ASSUME High(f, a, s)
        PROVE  High(g, b, s)
    <3>1. PICK x \in a + 1 .. a + s - 1 : f[x] # {}
        BY <2>2 DEF High
    <3>2. PICK d \in 0 .. s - 1 : x = a + d /\ d > 0
      <4>1. x - a \in 0 .. s - 1 /\ x = a + (x - a) /\ x - a > 0
          OBVIOUS
      <4> QED
          BY <4>1
    <3>3. b + d \in b + 1 .. b + s - 1 /\ g[b + d] # {}
        BY <3>1, <3>2 DEF SameBytes
    <3> QED
        BY <3>3 DEF High
  <2>3. ASSUME High(g, b, s)
        PROVE  High(f, a, s)
    <3>1. PICK x \in b + 1 .. b + s - 1 : g[x] # {}
        BY <2>3 DEF High
    <3>2. PICK d \in 0 .. s - 1 : x = b + d /\ d > 0
      <4>1. x - b \in 0 .. s - 1 /\ x = b + (x - b) /\ x - b > 0
          OBVIOUS
      <4> QED
          BY <4>1
    <3>3. a + d \in a + 1 .. a + s - 1 /\ f[a + d] # {}
        BY <3>1, <3>2 DEF SameBytes
    <3> QED
        BY <3>3 DEF High
  <2> QED
      BY <2>1, <2>2, <2>3, Zenon DEF IntAt
<1> QED
    BY <1>1, <1>2

\* An object whose bytes were copied elsewhere has the scalars it had.
LEMMA ScalarMoved ==
    ASSUME NEW o, Placed(o), NEW q, Placed(q),
           q.nelem = o.nelem, q.ssize = o.ssize, q.psize = o.psize,
           NEW w, NEW v, SameBytes(w.bits, o.base, v.bits, q.base, TotalSz(o)),
           NEW e \in 0 .. o.nelem - 1
    PROVE  GetScalar(v, q, e) = GetScalar(w, o, e)
<1>1. /\ o.base \in Nat /\ q.base \in Nat /\ TotalSz(o) \in Nat /\ o.ssize \in Nat
    BY SizeFacts DEF Placed, Shape
<1>2. PICK d \in Nat : /\ GetElem(o, e).base = o.base + d /\ GetElem(q, e).base = q.base + d
                       /\ d < TotalSz(o)
                       /\ ElemSz(o) # 0 => d + o.ssize <= TotalSz(o)
    BY ElemMoved
<1>3. ElemSz(q) = ElemSz(o)
    BY ElemMoved
<1>4. CASE ElemSz(o) = 0
  <2>1. v.bits[q.base + d] = w.bits[o.base + d]
      BY <1>1, <1>2 DEF SameBytes
  <2>2. /\ GetScalar(w, o, e) = IF e % 8 \in w.bits[GetElem(o, e).base] THEN 1 ELSE 0
        /\ GetScalar(v, q, e) = IF e % 8 \in v.bits[GetElem(q, e).base] THEN 1 ELSE 0
      BY <1>3, <1>4, ScalarRead
  <2>3. v.bits[GetElem(q, e).base] = w.bits[GetElem(o, e).base]
      BY <1>2, <2>1, Zenon
  <2> QED
      BY <2>2, <2>3
<1>5. CASE ElemSz(o) # 0
  <2>1. PICK a \in Nat, b \in Nat : a = o.base + d /\ b = q.base + d
      BY <1>1
  <2>2. ASSUME NEW c \in 0 .. o.ssize - 1
        PROVE  v.bits[b + c] = w.bits[a + c]
    <3>1. d + c \in 0 .. TotalSz(o) - 1 /\ b + c = q.base + (d + c) /\ a + c = o.base + (d + c)
        BY <1>1, <1>2, <1>5, <2>1
    <3>2. v.bits[q.base + (d + c)] = w.bits[o.base + (d + c)]
        BY <3>1, Zenon DEF SameBytes
    <3> QED
        BY <3>1, <3>2, Zenon
  <2>3. PICK f, g : f = w.bits /\ g = v.bits
      OBVIOUS
  <2>4. PICK s \in Nat : s = o.ssize
      BY <1>1
  <2>6. SameBytes(f, a, g, b, s)
      BY <2>2, <2>3, <2>4, Zenon DEF SameBytes
  <2>7. IntAt(g, b, s) = IntAt(f, a, s)
      BY <2>6, IntMoved
  <2>5. /\ GetScalar(w, o, e) = IntAt(w.bits, GetElem(o, e).base, o.ssize)
        /\ GetScalar(v, q, e) = IntAt(v.bits, GetElem(q, e).base, q.ssize)
      BY <1>3, <1>5, ScalarRead
  <2> QED
      BY <1>2, <2>1, <2>3, <2>4, <2>5, <2>7, Zenon
<1> QED
    BY <1>4, <1>5

\* An object whose bytes did not change has the scalars it had.
LEMMA ScalarKept ==
    ASSUME NEW o, Placed(o), NEW w, NEW v,
           \A a \in o.base .. o.base + TotalSz(o) - 1 : v.bits[a] = w.bits[a],
           NEW e \in 0 .. o.nelem - 1
    PROVE  GetScalar(v, o, e) = GetScalar(w, o, e)
<1>1. o.base \in Nat /\ TotalSz(o) \in Nat
    BY SizeFacts DEF Placed
<1>2. SameBytes(w.bits, o.base, v.bits, o.base, TotalSz(o))
  <2> SUFFICES \A d \in 0 .. TotalSz(o) - 1 : v.bits[o.base + d] = w.bits[o.base + d]
      BY Zenon DEF SameBytes
  <2> TAKE d \in 0 .. TotalSz(o) - 1
  <2>1. o.base + d \in o.base .. o.base + TotalSz(o) - 1
      BY <1>1
  <2> QED
      BY <2>1
<1> QED
    BY <1>2, ScalarMoved

\* A scalar whose bytes are 0
LEMMA ScalarZero ==
    ASSUME NEW o, Placed(o), NEW w, NEW e \in 0 .. o.nelem - 1,
           \A a \in o.base .. o.base + TotalSz(o) - 1 : w.bits[a] = {}
    PROVE  GetScalar(w, o, e) = 0
<1>1. /\ o.base \in Nat /\ TotalSz(o) \in Nat /\ o.ssize \in Nat
    BY SizeFacts DEF Placed, Shape
<1>2. PICK d \in Nat : /\ GetElem(o, e).base = o.base + d /\ d < TotalSz(o)
                       /\ ElemSz(o) # 0 => d + o.ssize <= TotalSz(o)
    BY ElemMoved
<1>3. w.bits[GetElem(o, e).base] = {}
    BY <1>1, <1>2
<1>4. CASE ElemSz(o) = 0
    BY <1>3, <1>4, ScalarRead, Zenon
<1>5. CASE ElemSz(o) # 0
  <2>1. \A x \in GetElem(o, e).base + 1 .. GetElem(o, e).base + o.ssize - 1 : w.bits[x] = {}
    <3> TAKE x \in GetElem(o, e).base + 1 .. GetElem(o, e).base + o.ssize - 1
    <3>1. x \in o.base .. o.base + TotalSz(o) - 1
        BY <1>1, <1>2, <1>5
    <3> QED
        BY <3>1
  <2>2. GetScalar(w, o, e) = IntAt(w.bits, GetElem(o, e).base, o.ssize)
      BY <1>5, ScalarRead
  <2> QED
      BY <1>3, <2>1, <2>2, Zenon DEF IntAt, High
<1> QED
    BY <1>4, <1>5

\* Two blocks of c bytes do not overlap.
LEMMA BlocksApart ==
    ASSUME NEW i \in Nat, NEW j \in Nat, NEW c \in Nat, i # j
    PROVE  /\ i * c \in Nat /\ j * c \in Nat
           /\ i * c + c <= j * c \/ j * c + c <= i * c
<1>1. i * c = c * i /\ j * c = c * j /\ i * c \in Nat /\ j * c \in Nat
    OBVIOUS
<1>2. CASE i < j
    BY <1>1, <1>2, BlockBefore
<1>3. CASE j < i
    BY <1>1, <1>3, BlockBefore
<1> QED
    BY <1>2, <1>3

\* A scalar that was put is what it was set to, and no other one changes.
LEMMA ScalarPut ==
    ASSUME NEW cap \in Nat, NEW w, w.bits \in Bytes(cap),
           NEW o, Placed(o), EndOf(o) <= cap, NEW d \in 0 .. o.nelem - 1, HasScalar(o),
           NEW x \in {0, 1}, NEW v, v = PutScalar(w, o, d, x)
    PROVE  /\ GetScalar(v, o, d) = x
           /\ \A e \in 0 .. o.nelem - 1 : e # d => GetScalar(v, o, e) = GetScalar(w, o, e)
<1>1. /\ o.base \in Nat /\ o.nelem \in Nat /\ o.ssize \in Nat /\ o.psize \in Nat
      /\ d \in Nat /\ d < o.nelem
    BY DEF Placed, Shape
<1>2. /\ TotalSz(o) \in Nat /\ EndOf(o) \in Nat /\ o.base + TotalSz(o) <= EndOf(o)
      /\ ElemSz(o) = o.ssize + 4 * o.psize /\ ElemSz(o) \in Nat
    BY SizeFacts
<1>3. PICK f \in Bytes(cap) : f = w.bits
    OBVIOUS
<1>4. PICK b \in Nat : /\ b = GetElem(o, d).base /\ o.base <= b /\ b < o.base + TotalSz(o)
                       /\ ElemSz(o) = 0 => b = o.base + (d \div 8)
                       /\ ElemSz(o) # 0 => b = o.base + d * ElemSz(o)
    BY ElemFacts
<1>5. b \in 0 .. cap - 1
    BY <1>1, <1>2, <1>4
<1>6. CASE ElemSz(o) = 0
  <2>1. PICK j \in 0 .. 7 : j = d % 8
      BY <1>1
  <2>2. v.bits = [f EXCEPT ![b] = IF x = 1 THEN @ \cup {j} ELSE @ \ {j}]
      BY <1>3, <1>4, <1>6, <2>1 DEF PutScalar, PutBit, WithBits, Wire
  <2>3. /\ v.bits[b] = IF x = 1 THEN f[b] \cup {j} ELSE f[b] \ {j}
        /\ \A a \in 0 .. cap - 1 : a # b => v.bits[a] = f[a]
      BY <1>5, <2>2 DEF Bytes
  <2>4. GetScalar(v, o, d) = x
    <3>1. GetScalar(v, o, d) = IF d % 8 \in v.bits[GetElem(o, d).base] THEN 1 ELSE 0
        BY <1>6, ScalarRead
    <3>2. j \in v.bits[b] <=> x = 1
        BY <2>3
    <3> QED
        BY <1>4, <2>1, <3>1, <3>2
  <2>5. ASSUME NEW e \in 0 .. o.nelem - 1, e # d
        PROVE  GetScalar(v, o, e) = GetScalar(w, o, e)
    <3>1. /\ GetScalar(v, o, e) = IF e % 8 \in v.bits[GetElem(o, e).base] THEN 1 ELSE 0
          /\ GetScalar(w, o, e) = IF e % 8 \in w.bits[GetElem(o, e).base] THEN 1 ELSE 0
        BY <1>6, ScalarRead
    <3>2. PICK a \in Nat : /\ a = GetElem(o, e).base /\ a < o.base + TotalSz(o)
                           /\ a = o.base + (e \div 8)
        BY <1>6, ElemFacts
    <3>3. a \in 0 .. cap - 1
        BY <1>1, <1>2, <3>2
    <3>4. CASE a # b
        BY <1>3, <2>3, <3>1, <3>2, <3>3, <3>4
    <3>5. CASE a = b
      <4>1. PICK i \in 0 .. 7 : i = e % 8
          BY <1>1
      <4>2. i # j
          BY <1>1, <1>4, <1>6, <2>1, <2>5, <3>2, <3>5, <4>1
      <4>3. i \in v.bits[b] <=> i \in f[b]
          BY <2>3, <4>2
      <4> QED
          BY <1>3, <3>1, <3>2, <3>5, <4>1, <4>3, Zenon
    <3> QED
        BY <3>4, <3>5
  <2> QED
      BY <2>4, <2>5
<1>7. CASE ElemSz(o) # 0
  <2>1. o.ssize > 0
      BY <1>1, <1>2, <1>7 DEF HasScalar
  <2>2. PICK s \in Nat : s = o.ssize /\ s > 0
      BY <1>1, <2>1
  <2>3. v.bits = [a \in DOMAIN f |-> IF a = b /\ x = 1 THEN {0}
                                     ELSE IF a \in b .. b + s - 1 THEN {} ELSE f[a]]
      BY <1>3, <1>4, <1>7, <2>2 DEF PutScalar, PutInt, WithBits, Wire
  <2>4. PICK g : g = v.bits
      OBVIOUS
  <2>5. \A a \in 0 .. cap - 1 : g[a] = IF a = b /\ x = 1 THEN {0}
                                       ELSE IF a \in b .. b + s - 1 THEN {} ELSE f[a]
      BY <2>3, <2>4 DEF Bytes
  <2>6. PICK c \in Nat : c = ElemSz(o) /\ s <= c
      BY <1>1, <1>2, <2>2
  <2>7. ASSUME NEW e \in 0 .. o.nelem - 1
        PROVE  /\ GetScalar(v, o, e) = IntAt(g, GetElem(o, e).base, s)
               /\ GetScalar(w, o, e) = IntAt(f, GetElem(o, e).base, s)
      BY <1>3, <1>7, <2>2, <2>4, ScalarRead
  <2>8. ASSUME NEW e \in 0 .. o.nelem - 1
        PROVE  /\ GetElem(o, e).base \in Nat /\ GetElem(o, e).base = o.base + e * c
               /\ GetElem(o, e).base + s <= cap
    <3>1. /\ GetElem(o, e).base = o.base + e * c
          /\ GetElem(o, e).base + c <= o.base + TotalSz(o) /\ GetElem(o, e).base \in Nat
        BY <1>7, <2>6, ElemFacts
    <3> QED
        BY <1>1, <1>2, <2>6, <3>1
  <2>9. GetScalar(v, o, d) = x
    <3>1. b + s <= cap
        BY <1>4, <2>8
    <3>2. g[b] = (IF x = 1 THEN {0} ELSE {}) /\ ~High(g, b, s)
      <4>1. \A a \in b + 1 .. b + s - 1 : a \in 0 .. cap - 1 /\ a # b /\ a \in b .. b + s - 1
          BY <3>1
      <4>2. \A a \in b + 1 .. b + s - 1 : g[a] = {}
          BY <2>5, <4>1
      <4>3. b \in b .. b + s - 1
          BY <2>2
      <4>4. g[b] = IF x = 1 THEN {0} ELSE {}
          BY <1>5, <2>5, <4>3
      <4> QED
          BY <4>2, <4>4 DEF High
    <3>3. IntAt(g, b, s) = x
      <4>1. CASE x = 0
          BY <2>2, <3>2, <4>1 DEF IntAt
      <4>2. CASE x = 1
        <5>1. {0} # {}
            OBVIOUS
        <5> QED
            BY <2>2, <3>2, <4>2, <5>1 DEF IntAt
      <4> QED
          BY <4>1, <4>2
    <3> QED
        BY <1>4, <2>7, <3>3
  <2>10. ASSUME NEW e \in 0 .. o.nelem - 1, e # d
         PROVE  GetScalar(v, o, e) = GetScalar(w, o, e)
    <3>1. PICK a \in Nat : a = GetElem(o, e).base /\ a = o.base + e * c /\ a + s <= cap
        BY <2>8
    <3>2. /\ e * c \in Nat /\ d * c \in Nat
          /\ e * c + c <= d * c \/ d * c + c <= e * c
      <4>1. e \in Nat /\ d \in Nat
          BY <1>1
      <4> QED
          BY <2>10, <4>1, BlocksApart
    <3>3. a + s <= b \/ b + s <= a
        BY <1>1, <1>4, <1>7, <2>6, <3>1, <3>2
    <3>4. SameBytes(f, a, g, a, s)
      <4> SUFFICES ASSUME NEW z \in 0 .. s - 1
                   PROVE  g[a + z] = f[a + z]
          BY DEF SameBytes
      <4>1. a + z \in 0 .. cap - 1 /\ a + z # b /\ a + z \notin b .. b + s - 1
          BY <2>2, <3>1, <3>3
      <4> QED
          BY <2>5, <4>1
    <3>5. IntAt(g, a, s) = IntAt(f, a, s)
        BY <3>4, IntMoved
    <3> QED
        BY <2>7, <3>1, <3>5
  <2> QED
      BY <2>9, <2>10
<1> QED
    BY <1>6, <1>7

\* The pointer words of an object do not overlap.
LEMMA SlotsDiffer ==
    ASSUME NEW o, Placed(o),
           NEW e \in 0 .. o.nelem - 1, NEW i \in 0 .. o.psize - 1,
           NEW d \in 0 .. o.nelem - 1, NEW j \in 0 .. o.psize - 1, e # d \/ i # j
    PROVE  Slot(o, e, i) # Slot(o, d, j)
<1>1. /\ o.base \in Nat /\ o.nelem \in Nat /\ o.ssize \in Nat /\ o.psize \in Nat
      /\ e \in Nat /\ d \in Nat /\ i \in Nat /\ j \in Nat /\ i < o.psize /\ j < o.psize
    BY DEF Placed, Shape
<1>2. PICK c \in Nat : c = ElemSz(o) /\ c = o.ssize + 4 * o.psize /\ c # 0
    BY <1>1, SizeFacts
<1>3. GetElem(o, e).base = o.base + e * c /\ GetElem(o, d).base = o.base + d * c
    BY <1>2, ElemFacts
<1>4. PICK x \in Nat, y \in Nat : x = e * c /\ y = d * c
    BY <1>1
<1>5. /\ Slot(o, e, i) = o.base + x + o.ssize + 4 * i
      /\ Slot(o, d, j) = o.base + y + o.ssize + 4 * j
    BY <1>1, <1>3, <1>4 DEF Slot, PtrOffs, WordSz
<1>6. CASE e = d
    BY <1>1, <1>4, <1>5, <1>6
<1>7. CASE e # d
  <2>1. x + c <= y \/ y + c <= x
      BY <1>1, <1>4, <1>7, BlocksApart
  <2> QED
      BY <1>1, <1>2, <1>5, <2>1
<1> QED
    BY <1>6, <1>7

\* What lies between the elements of an object that grew and its new end is 0:
\* it was padding, or was cleared.
LEMMA GrownZero ==
    ASSUME NEW o, Placed(o), NEW bits, NEW new, PadZero(bits, o),
           NEW grown, Placed(grown), Grows(bits, new, o, grown)
    PROVE  \A a \in o.base + TotalSz(o) .. EndOf(grown) - 1 : new[a] = {}
<1>1. /\ o.base \in Nat /\ TotalSz(o) \in Nat /\ EndOf(o) \in Nat /\ o.base + TotalSz(o) <= EndOf(o)
      /\ EndOf(grown) \in Nat
    BY SizeFacts DEF Placed
<1> TAKE a \in o.base + TotalSz(o) .. EndOf(grown) - 1
<1>2. CASE a < EndOf(o)
  <2>1. a \in o.base .. EndOf(o) - 1 /\ a \in o.base + TotalSz(o) .. EndOf(o) - 1
      BY <1>1, <1>2
  <2> QED
      BY <2>1 DEF PadZero, Grows
<1>3. CASE a >= EndOf(o)
  <2>1. a \in EndOf(o) .. EndOf(grown) - 1
      BY <1>1, <1>3
  <2> QED
      BY <2>1 DEF Grows
<1> QED
    BY <1>1, <1>2, <1>3

\* An object that grew by one element shows the elements it had and one more,
\* which is 0 although the memory it lies in was used before.
LEMMA ScalarGrown ==
    ASSUME NEW o, Placed(o), NEW w, NEW v, PadZero(w.bits, o),
           NEW grown, grown = Resized(o, o.nelem + 1), Placed(grown),
           Grows(w.bits, v.bits, o, grown)
    PROVE  /\ \A e \in 0 .. o.nelem - 1 : GetScalar(v, grown, e) = GetScalar(w, o, e)
           /\ GetScalar(v, grown, o.nelem) = 0
           /\ \A e \in 0 .. o.nelem - 1, i \in 0 .. o.psize - 1 : Slot(grown, e, i) = Slot(o, e, i)
<1>1. /\ grown.base = o.base /\ grown.nelem = o.nelem + 1 /\ ElemSz(grown) = ElemSz(o)
      /\ grown.ssize = o.ssize /\ grown.psize = o.psize
    BY ResizedFields
<1>2. o.base \in Nat /\ o.nelem \in Nat /\ o.ssize \in Nat /\ o.psize \in Nat
    BY DEF Placed, Shape
<1>3. /\ TotalSz(o) \in Nat /\ EndOf(o) \in Nat /\ o.base + TotalSz(o) <= EndOf(o)
      /\ ElemSz(o) = 0 => TotalSz(o) = (o.nelem + 7) \div 8
      /\ ElemSz(o) # 0 => TotalSz(o) = ElemSz(o) * o.nelem
      /\ ElemSz(o) \in Nat /\ ElemSz(o) = o.ssize + 4 * o.psize
    BY SizeFacts
<1>4. /\ TotalSz(grown) \in Nat /\ EndOf(grown) \in Nat
      /\ o.base + TotalSz(grown) <= EndOf(grown)
    BY <1>1, SizeFacts
<1>5. \A a \in o.base + TotalSz(o) .. EndOf(grown) - 1 : v.bits[a] = {}
    BY GrownZero
<1>6. ASSUME NEW e \in 0 .. o.nelem - 1
      PROVE  GetElem(grown, e).base = GetElem(o, e).base
  <2>1. e \in 0 .. grown.nelem - 1
      BY <1>1, <1>2
  <2>2. CASE ElemSz(o) = 0
      BY <1>1, <2>1, <2>2, ElemFacts
  <2>3. CASE ElemSz(o) # 0
      BY <1>1, <2>1, <2>3, ElemFacts
  <2> QED
      BY <2>2, <2>3
<1>7. ASSUME NEW e \in 0 .. o.nelem - 1
      PROVE  GetScalar(v, grown, e) = GetScalar(w, o, e)
  <2>1. PICK b \in Nat : /\ b = GetElem(o, e).base /\ o.base <= b /\ b < o.base + TotalSz(o)
                         /\ ElemSz(o) # 0 => b + ElemSz(o) <= o.base + TotalSz(o)
      BY ElemFacts
  <2>2. CASE ElemSz(o) = 0
    <3>1. /\ GetScalar(v, grown, e) = IF e % 8 \in v.bits[GetElem(grown, e).base] THEN 1 ELSE 0
          /\ GetScalar(w, o, e) = IF e % 8 \in w.bits[GetElem(o, e).base] THEN 1 ELSE 0
        BY <1>1, <2>2, ScalarRead
    <3>2. v.bits[b] = w.bits[b]
      <4>1. b \in o.base .. EndOf(o) - 1
          BY <1>2, <1>3, <2>1
      <4> QED
          BY <4>1 DEF Grows
    <3> QED
        BY <1>6, <2>1, <3>1, <3>2
  <2>3. CASE ElemSz(o) # 0
    <3>1. /\ GetScalar(v, grown, e) = IntAt(v.bits, GetElem(grown, e).base, o.ssize)
          /\ GetScalar(w, o, e) = IntAt(w.bits, GetElem(o, e).base, o.ssize)
        BY <1>1, <2>3, ScalarRead
    <3>2. SameBytes(w.bits, b, v.bits, b, o.ssize)
      <4> SUFFICES ASSUME NEW z \in 0 .. o.ssize - 1
                   PROVE  v.bits[b + z] = w.bits[b + z]
          BY DEF SameBytes
      <4>1. b + z \in o.base .. EndOf(o) - 1
          BY <1>2, <1>3, <2>1, <2>3
      <4> QED
          BY <4>1 DEF Grows
    <3> QED
        BY <1>2, <1>6, <2>1, <3>1, <3>2, IntMoved
  <2> QED
      BY <2>2, <2>3
<1>8. GetScalar(v, grown, o.nelem) = 0
  <2>1. PICK n \in Nat : n = o.nelem /\ n \in 0 .. grown.nelem - 1
      BY <1>1, <1>2
  <2>2. PICK b \in Nat : /\ b = GetElem(grown, n).base /\ b < o.base + TotalSz(grown)
                         /\ ElemSz(o) = 0 => b = o.base + (n \div 8)
                         /\ ElemSz(o) # 0 => /\ b = o.base + n * ElemSz(o)
                                             /\ b + ElemSz(o) <= o.base + TotalSz(grown)
      BY <1>1, <2>1, ElemFacts
  <2>3. CASE ElemSz(o) = 0
    <3>1. GetScalar(v, grown, n) = IF n % 8 \in v.bits[b] THEN 1 ELSE 0
        BY <1>1, <2>2, <2>3, ScalarRead
    <3>2. n % 8 \notin v.bits[b]
      <4>1. CASE n % 8 # 0
        <5>1. b \in o.base .. EndOf(o) - 1
            BY <1>2, <1>3, <2>1, <2>2, <2>3, <4>1, LastByte
        <5>2. v.bits[b] = w.bits[b]
            BY <5>1 DEF Grows
        <5>3. \A j \in w.bits[b] : j < n % 8
            BY <2>1, <2>2, <2>3, <4>1 DEF PadZero
        <5>4. PICK q \in Nat : q = n % 8
            OBVIOUS
        <5>5. ~(q < q)
            OBVIOUS
        <5> QED
            BY <5>2, <5>3, <5>4, <5>5, Zenon
      <4>2. CASE n % 8 = 0
        <5>1. b \in o.base + TotalSz(o) .. EndOf(grown) - 1
          <6>1. (n + 7) \div 8 = n \div 8
              BY <4>2
          <6>2. PICK m \in Nat : m = n \div 8
              OBVIOUS
          <6>3. b = o.base + m /\ TotalSz(o) = m
              BY <1>3, <2>1, <2>2, <2>3, <6>1, <6>2
          <6> QED
              BY <1>2, <1>4, <2>2, <6>3
        <5> QED
            BY <1>5, <5>1
      <4> QED
          BY <4>1, <4>2
    <3> QED
        BY <2>1, <3>1, <3>2
  <2>4. CASE ElemSz(o) # 0
    <3>1. GetScalar(v, grown, n) = IntAt(v.bits, b, o.ssize)
        BY <1>1, <2>2, <2>4, ScalarRead
    <3>2. o.base + TotalSz(o) = b
      <4>1. n * ElemSz(o) = ElemSz(o) * n
          BY <1>3
      <4> QED
          BY <1>2, <1>3, <2>1, <2>2, <2>4, <4>1
    <3>3. \A a \in b .. b + o.ssize - 1 : v.bits[a] = {}
      <4> TAKE a \in b .. b + o.ssize - 1
      <4>1. a \in o.base + TotalSz(o) .. EndOf(grown) - 1
          BY <1>2, <1>3, <1>4, <2>2, <2>4, <3>2
      <4> QED
          BY <1>5, <4>1
    <3>4. IntAt(v.bits, b, o.ssize) = 0
      <4>1. CASE o.ssize = 0
          BY <4>1, Zenon DEF IntAt
      <4>2. CASE o.ssize # 0
        <5>1. b \in b .. b + o.ssize - 1 /\ \A a \in b + 1 .. b + o.ssize - 1 : a \in b .. b + o.ssize - 1
            BY <1>2, <4>2
        <5>2. v.bits[b] = {} /\ ~High(v.bits, b, o.ssize)
            BY <3>3, <5>1 DEF High
        <5> QED
            BY <5>2, Zenon DEF IntAt
      <4> QED
          BY <4>1, <4>2
    <3> QED
        BY <2>1, <3>1, <3>4
  <2> QED
      BY <2>3, <2>4
<1>9. ASSUME NEW e \in 0 .. o.nelem - 1, NEW i \in 0 .. o.psize - 1
      PROVE  Slot(grown, e, i) = Slot(o, e, i)
    BY <1>1, <1>6 DEF Slot, PtrOffs
<1> QED
    BY <1>7, <1>8, <1>9

\* The scalars of a string that was just made: its characters, then the NUL.
LEMMA ScalarChars ==
    ASSUME NEW cap \in Nat, NEW u, u.bits \in Bytes(cap), NEW o, Placed(o), EndOf(o) <= cap,
           NEW n \in Nat, o.nelem = n + 1, o.ssize = 1, o.psize = 0,
           \A a \in o.base .. EndOf(o) - 1 : u.bits[a] = {},
           NEW v, v = PutChars(u, o.base, n), NEW e \in 0 .. o.nelem - 1
    PROVE  GetScalar(v, o, e) = IF e + 1 < o.nelem THEN 1 ELSE 0
<1>1. /\ o.base \in Nat /\ ElemSz(o) = 1 /\ TotalSz(o) = n + 1 /\ EndOf(o) \in Nat
      /\ o.base + TotalSz(o) <= EndOf(o)
    BY SizeFacts DEF Placed
<1>2. PICK b \in Nat : b = GetElem(o, e).base /\ b = o.base + e
    BY <1>1, ElemFacts, SMTT(40)
<1>3. PICK f \in Bytes(cap) : f = u.bits
    OBVIOUS
<1>4. v.bits = [x \in DOMAIN f |-> IF x \in o.base .. o.base + n - 1 THEN {0} ELSE f[x]]
    BY <1>3 DEF PutChars, WithBits, Wire
<1>5. b \in 0 .. cap - 1 /\ b \in o.base .. EndOf(o) - 1
    BY <1>1, <1>2
<1>6. v.bits[b] = IF b \in o.base .. o.base + n - 1 THEN {0} ELSE {}
    BY <1>3, <1>4, <1>5 DEF Bytes
<1>7. GetScalar(v, o, e) = IntAt(v.bits, b, 1)
  <2>1. ElemSz(o) # 0
      BY <1>1
  <2>2. GetScalar(v, o, e) = IntAt(v.bits, GetElem(o, e).base, o.ssize)
      BY <2>1, ScalarRead, Zenon
  <2> QED
      BY <1>2, <2>2, Zenon
<1>8. ~High(v.bits, b, 1)
  <2>1. b + 1 .. b + 1 - 1 = {}
      OBVIOUS
  <2> QED
      BY <2>1, Zenon DEF High
<1>9. {0} # {} /\ 1 # 0
    OBVIOUS
<1>10. CASE e + 1 < o.nelem
  <2>1. v.bits[b] = {0}
      BY <1>1, <1>2, <1>6, <1>10
  <2>2. IntAt(v.bits, b, 1) = 1
      BY <1>8, <1>9, <2>1, Zenon DEF IntAt
  <2> QED
      BY <1>7, <1>10, <2>2
<1>11. CASE ~(e + 1 < o.nelem)
  <2>1. v.bits[b] = {}
      BY <1>1, <1>2, <1>6, <1>11
  <2>2. IntAt(v.bits, b, 1) = 0
      BY <1>8, <2>1, Zenon DEF IntAt
  <2> QED
      BY <1>7, <1>11, <2>2
<1> QED
    BY <1>10, <1>11
=============================================================================

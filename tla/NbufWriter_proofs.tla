------------------------- MODULE NbufWriter_proofs -------------------------
(***************************************************************************)
(* Proofs about the write API and the Python binding, for every set of     *)
(* clients, every capacity and every number of objects.  The Python calls  *)
(* that create and link are shown to be C calls; what each C call keeps is *)
(* in NbufWire_proofs.  Each call does to the buffer, read back, what its  *)
(* arguments say in the terms of MsgGraph.                                 *)
(***************************************************************************)
EXTENDS WriterMessage, NbufWire_proofs, FiniteSetTheorems

\* What the proofs know of the buffer, as far as it has not been given up by a
\* fault: padded and linked say which parts are claimed.
Inv ==
    /\ client \in Clients /\ clears \in 0 .. client.clears
    /\ faults \subseteq {"linked", "shortened", "wrapped"}
    /\ \A padded, linked \in BOOLEAN :
         (padded => "shortened" \notin faults) /\ (linked => "linked" \notin faults)
           => Good(w, client.cap, padded, linked)

\* Less can be claimed.
LEMMA GoodWeaker ==
    ASSUME NEW cap, NEW padded, NEW linked, NEW v, Good(v, cap, padded, linked)
    PROVE  Good(v, cap, padded, FALSE) /\ Good(v, cap, FALSE, linked)
  BY Zenon DEF Good

-----------------------------------------------------------------------------
(* Create and link *)

\* A pointer of an object there was is set to the object created last.
LEMMA LinkNewGood ==
    ASSUME NEW cap \in Nat, NEW padded, NEW linked, NEW u, Laid(u),
           NEW v, Good(v, cap, padded, linked), Len(v.objs) = Len(u.objs) + 1,
           \A j \in 1 .. Len(u.objs) : Obj(v, j) = Obj(u, j),
           v.objs[Len(u.objs) + 1].at = u.len,
           NEW k \in 1 .. Len(u.objs),
           NEW e \in 0 .. Obj(u, k).nelem - 1, NEW i \in 0 .. Obj(u, k).psize - 1,
           NEW slot, slot = Slot(Obj(u, k), e, i)
    PROVE  Good(PutWord(v, slot, RelTo(slot, u.len)), cap, padded, linked)
<1>1. slot \in Nat /\ slot < u.len /\ u.len \in Nat
    BY SlotInside DEF Laid
<1>2. Len(u.objs) \in Nat
  <2>1. u.objs \in Seq(Headers)
      BY DEF Laid
  <2> QED
      BY <2>1
<1>3. k \in 1 .. Len(v.objs) /\ Len(u.objs) + 1 \in 1 .. Len(v.objs)
    BY <1>2
<1>4. e \in 0 .. Obj(v, k).nelem - 1 /\ i \in 0 .. Obj(v, k).psize - 1 /\ slot = Slot(Obj(v, k), e, i)
    BY Zenon
<1>5. RelTo(slot, u.len) \in Int
  <2>1. slot \in Int /\ u.len \in Int
      BY <1>1
  <2> QED
      BY <2>1, RelToFacts, Zenon
<1>6. \E t \in 1 .. Len(v.objs) :
         v.objs[t].at > slot /\ RelTo(slot, u.len) = RelTo(slot, v.objs[t].at)
  <2>1. v.objs[Len(u.objs) + 1].at > slot
      BY <1>1
  <2> QED
      BY <1>3, <2>1, Zenon
<1> QED
    BY <1>3, <1>4, <1>5, <1>6, PutWordGood, Zenon

\* nbuf_create followed by nbuf_put_ptr: <pkg>_<Msg>_init_<field>
LEMMA InitFieldGood ==
    ASSUME NEW cap \in Nat, NEW padded, NEW linked, NEW u, Good(u, cap, padded, linked),
           NEW k \in 1 .. Len(u.objs),
           NEW e \in 0 .. Obj(u, k).nelem - 1, NEW i \in 0 .. Obj(u, k).psize - 1,
           NEW slot, slot = Slot(Obj(u, k), e, i),
           NEW n, NEW s, NEW p, Shape(n, s, p), EndOf(NewObj(u, n, s, p)) <= cap
    PROVE  Good(PutWord(CreateIn(u, n, s, p), slot, RelTo(slot, u.len)), cap, padded, linked)
<1>1. Laid(u)
    BY DEF Good
<1>2. PICK v : v = CreateIn(u, n, s, p)
    OBVIOUS
<1>3. /\ Len(v.objs) = Len(u.objs) + 1 /\ \A j \in 1 .. Len(u.objs) : Obj(v, j) = Obj(u, j)
      /\ v.objs[Len(u.objs) + 1].at = u.len
    BY <1>1, <1>2, CreateHeaders
<1>4. Good(v, cap, padded, linked)
    BY <1>2, CreateGood, Zenon
<1> QED
    BY <1>1, <1>2, <1>3, <1>4, LinkNewGood, Zenon

\* The string that nbuf_put_str makes: its characters end before its last byte.
LEMMA CharsGood ==
    ASSUME NEW cap \in Nat, NEW padded, NEW linked, NEW u, Good(u, cap, padded, linked),
           NEW n \in Nat, EndOf(NewObj(u, n + 1, 1, 0)) <= cap
    PROVE  /\ Good(PutChars(CreateIn(u, n + 1, 1, 0), u.len + HdrSz, n), cap, padded, linked)
           /\ PutChars(CreateIn(u, n + 1, 1, 0), u.len + HdrSz, n).objs
                = CreateIn(u, n + 1, 1, 0).objs
<1>1. PICK v : v = CreateIn(u, n + 1, 1, 0)
    OBVIOUS
<1>2. PICK x : x = PutChars(v, u.len + HdrSz, n)
    OBVIOUS
<1>3. Shape(n + 1, 1, 0)
    BY DEF Shape
<1>4. Good(v, cap, padded, linked)
    BY <1>1, <1>3, CreateGood, Zenon
<1>5. Laid(u) /\ u.len \in Nat
    BY DEF Good, Laid
<1>6. PICK o : o = NewObj(u, n + 1, 1, 0)
    OBVIOUS
<1>7. PICK m \in Nat : m = Len(u.objs)
    BY <1>3, <1>5, CreateHeaders
<1>8. Len(v.objs) = m + 1 /\ Obj(v, m + 1) = o
    BY <1>1, <1>3, <1>5, <1>7, <1>6, CreateHeaders
<1>9. Placed(o) /\ o.base = u.len + 8 /\ o.nelem = n + 1 /\ o.ssize = 1 /\ o.psize = 0
  <2>1. Placed(o)
      BY <1>3, <1>5, <1>6, NewPlaced, Zenon
  <2> QED
      BY <1>6, <2>1 DEF NewObj, Handle, HdrSz
<1>10. ElemSz(o) # 0 /\ o.base + TotalSz(o) = u.len + 8 + n + 1
  <2>1. /\ ElemSz(o) = o.ssize + 4 * o.psize
        /\ ElemSz(o) # 0 => TotalSz(o) = ElemSz(o) * o.nelem
      BY <1>9, SizeFacts, Zenon
  <2> QED
      BY <1>5, <1>9, <2>1
<1>11. /\ x.len = v.len /\ x.objs = v.objs /\ x.rel = v.rel
      /\ x.bits = [a \in DOMAIN v.bits |->
                     IF a \in u.len + 8 .. u.len + 8 + n - 1 THEN {0} ELSE v.bits[a]]
    BY <1>2 DEF PutChars, WithBits, Wire, HdrSz
<1>12. v.bits \in [0 .. cap - 1 -> SUBSET (0 .. 7)] /\ {0} \in SUBSET (0 .. 7)
    BY <1>4 DEF Good, Sized, Bytes
<1>13. x.bits \in Bytes(cap)
    BY <1>11, <1>12 DEF Bytes
<1>14. ASSUME NEW a \in 0 .. cap - 1, a < u.len + 8 \/ u.len + 8 + n <= a
       PROVE  x.bits[a] = v.bits[a]
  <2>1. a \notin u.len + 8 .. u.len + 8 + n - 1
      BY <1>5, <1>14
  <2> QED
      BY <1>11, <1>12, <2>1
<1>15. m + 1 \in 1 .. Len(v.objs) /\ u.len + 8 \in Int /\ u.len + 8 + n \in Int
    BY <1>5, <1>7, <1>8
<1>16. Obj(v, m + 1).base <= u.len + 8 /\ u.len + 8 + n <= Obj(v, m + 1).base + TotalSz(Obj(v, m + 1))
    BY <1>5, <1>8, <1>9, <1>10
<1>17. ElemSz(Obj(v, m + 1)) # 0
    BY <1>8, <1>10, Zenon
<1>18. Good(x, cap, padded, linked)
    BY <1>4, <1>11, <1>13, <1>14, <1>15, <1>16, <1>17, PutBytesGood, ZenonT(30)
<1> QED
    BY <1>1, <1>2, <1>11, <1>18, Zenon

\* nbuf_put_str
LEMMA PutStrGood ==
    ASSUME NEW cap \in Nat, NEW padded, NEW linked, NEW u, Good(u, cap, padded, linked),
           NEW k \in 1 .. Len(u.objs),
           NEW e \in 0 .. Obj(u, k).nelem - 1, NEW i \in 0 .. Obj(u, k).psize - 1,
           NEW slot, slot = Slot(Obj(u, k), e, i),
           NEW n \in Nat, EndOf(NewObj(u, n + 1, 1, 0)) <= cap
    PROVE  Good(PutWord(PutChars(CreateIn(u, n + 1, 1, 0), u.len + HdrSz, n),
                        slot, RelTo(slot, u.len)), cap, padded, linked)
<1>1. Laid(u)
    BY DEF Good
<1>2. PICK v : v = CreateIn(u, n + 1, 1, 0)
    OBVIOUS
<1>3. PICK x : x = PutChars(v, u.len + HdrSz, n)
    OBVIOUS
<1>4. Good(x, cap, padded, linked) /\ x.objs = v.objs
  <2>1. /\ Good(PutChars(CreateIn(u, n + 1, 1, 0), u.len + HdrSz, n), cap, padded, linked)
        /\ PutChars(CreateIn(u, n + 1, 1, 0), u.len + HdrSz, n).objs
             = CreateIn(u, n + 1, 1, 0).objs
      BY CharsGood
  <2> QED
      BY <1>2, <1>3, <2>1, Zenon
<1>5. Shape(n + 1, 1, 0)
    BY DEF Shape
<1>6. /\ Len(v.objs) = Len(u.objs) + 1 /\ \A j \in 1 .. Len(u.objs) : Obj(v, j) = Obj(u, j)
      /\ v.objs[Len(u.objs) + 1].at = u.len
    BY <1>1, <1>2, <1>5, CreateHeaders
<1>7. /\ Len(x.objs) = Len(u.objs) + 1 /\ \A j \in 1 .. Len(u.objs) : Obj(x, j) = Obj(u, j)
      /\ x.objs[Len(u.objs) + 1].at = u.len
    BY <1>4, <1>6, Zenon DEF Obj
<1> QED
    BY <1>1, <1>2, <1>3, <1>4, <1>7, LinkNewGood, Zenon

-----------------------------------------------------------------------------
(* Lists that grow *)

\* nbuf_ref_init_ptr for a list that has elements, and the put of the new one
LEMMA AppendGood ==
    ASSUME NEW cap \in Nat, NEW padded, NEW linked, NEW u, Good(u, cap, padded, linked),
           NEW k \in 1 .. Len(u.objs), AtEnd(u, k), NEW n, n = Obj(u, k).nelem,
           Shape(n + 1, Obj(u, k).ssize, Obj(u, k).psize),
           EndOf(Resized(Obj(u, k), n + 1)) <= cap, NEW x \in {0, 1}
    PROVE  LET v == ResizeIn(u, k, n + 1)
           IN  Good(IF HasScalar(Obj(v, k)) THEN PutScalar(v, Obj(v, k), n, x) ELSE v,
                    cap, padded, linked)
<1>1. PICK v : v = ResizeIn(u, k, n + 1)
    OBVIOUS
<1>2. Good(v, cap, padded, linked) /\ Len(v.objs) = Len(u.objs) /\ Obj(v, k) = Resized(Obj(u, k), n + 1)
  <2>1. PICK more : more = n + 1
      OBVIOUS
  <2>2. /\ more = Obj(u, k).nelem + 1 /\ Shape(more, Obj(u, k).ssize, Obj(u, k).psize)
        /\ EndOf(Resized(Obj(u, k), more)) <= cap
      BY <2>1, Zenon
  <2>3. /\ Good(ResizeIn(u, k, more), cap, padded, linked)
        /\ Len(ResizeIn(u, k, more).objs) = Len(u.objs)
        /\ Obj(ResizeIn(u, k, more), k) = Resized(Obj(u, k), more)
      BY <2>2, GrowGood, SMT
  <2> QED
      BY <1>1, <2>1, <2>3, Zenon
<1>3. n \in Nat /\ Obj(v, k).nelem = n + 1
  <2>1. Laid(u)
      BY DEF Good
  <2>2. Placed(Obj(u, k))
      BY <2>1, ObjectInside
  <2> QED
      BY <1>2, <2>2 DEF Placed, Shape, Resized, Handle
<1>4. k \in 1 .. Len(v.objs) /\ n \in 0 .. Obj(v, k).nelem - 1
    BY <1>2, <1>3
<1>5. ASSUME HasScalar(Obj(v, k))
      PROVE  Good(PutScalar(v, Obj(v, k), n, x), cap, padded, linked)
    BY <1>2, <1>4, <1>5, PutScalarGood, Zenon
<1> QED
    BY <1>1, <1>2, <1>5, Zenon

\* The same for the first element: create, put, link
LEMMA AppendFirstGood ==
    ASSUME NEW cap \in Nat, NEW padded, NEW linked, NEW u, Good(u, cap, padded, linked),
           NEW k \in 1 .. Len(u.objs),
           NEW e \in 0 .. Obj(u, k).nelem - 1, NEW i \in 0 .. Obj(u, k).psize - 1,
           NEW slot, slot = Slot(Obj(u, k), e, i), NEW x \in {0, 1},
           NEW s, NEW p, Shape(1, s, p), EndOf(NewObj(u, 1, s, p)) <= cap, s > 0
    PROVE  LET v == CreateIn(u, 1, s, p)
           IN  Good(PutWord(PutScalar(v, Obj(v, Len(u.objs) + 1), 0, x),
                            slot, RelTo(slot, u.len)), cap, padded, linked)
<1>1. Laid(u)
    BY DEF Good
<1>2. PICK v : v = CreateIn(u, 1, s, p)
    OBVIOUS
<1>3. PICK m \in Nat : m = Len(u.objs)
    BY <1>1, CreateHeaders
<1>4. /\ Len(v.objs) = m + 1 /\ \A j \in 1 .. m : Obj(v, j) = Obj(u, j)
      /\ v.objs[m + 1].at = u.len /\ Obj(v, m + 1) = NewObj(u, 1, s, p)
    BY <1>1, <1>2, <1>3, CreateHeaders
<1>5. Good(v, cap, padded, linked)
    BY <1>2, CreateGood, Zenon
<1>6. PICK y : y = PutScalar(v, Obj(v, m + 1), 0, x)
    OBVIOUS
<1>7. /\ m + 1 \in 1 .. Len(v.objs) /\ 0 \in 0 .. Obj(v, m + 1).nelem - 1
      /\ HasScalar(Obj(v, m + 1))
    BY <1>4 DEF NewObj, Handle, HasScalar
<1>8. Good(y, cap, padded, linked) /\ y.objs = v.objs
  <2>1. PICK new \in 1 .. Len(v.objs) : new = m + 1
      BY <1>7
  <2>2. PICK first \in 0 .. Obj(v, new).nelem - 1 : first = 0
      BY <1>7, <2>1
  <2>3. HasScalar(Obj(v, new)) /\ y = PutScalar(v, Obj(v, new), first, x)
      BY <1>6, <1>7, <2>1, <2>2, Zenon
  <2> QED
      BY <1>5, <2>3, PutScalarGood, SMT
<1>9. /\ Len(y.objs) = m + 1 /\ \A j \in 1 .. m : Obj(y, j) = Obj(u, j)
      /\ y.objs[m + 1].at = u.len
    BY <1>4, <1>8, Zenon DEF Obj
<1>10. Good(PutWord(y, slot, RelTo(slot, u.len)), cap, padded, linked)
    BY <1>1, <1>3, <1>8, <1>9, LinkNewGood, Zenon
<1> QED
    BY <1>2, <1>3, <1>6, <1>10, Zenon

-----------------------------------------------------------------------------
(* Pointers to what there was *)

\* nbuf_put_ptr with an object that lies behind the pointer word
LEMMA LinkGood ==
    ASSUME NEW cap \in Nat, NEW padded, NEW linked, NEW u, Good(u, cap, padded, linked),
           NEW k \in 1 .. Len(u.objs), NEW t \in 1 .. Len(u.objs),
           NEW e \in 0 .. Obj(u, k).nelem - 1, NEW i \in 0 .. Obj(u, k).psize - 1,
           NEW slot, slot = Slot(Obj(u, k), e, i), u.objs[t].at > slot
    PROVE  Good(PutWord(u, slot, RelTo(slot, u.objs[t].at)), cap, padded, linked)
<1>1. Laid(u)
    BY DEF Good
<1>2. slot \in Int /\ u.objs[t].at \in Int
  <2>1. slot \in Nat
      BY <1>1, SlotInside
  <2>2. u.objs[t].at \in Nat
      BY <1>1, ObjectInside
  <2> QED
      BY <2>1, <2>2
<1>3. RelTo(slot, u.objs[t].at) \in Int
    BY <1>2, RelToFacts, Zenon
<1> QED
    BY <1>3, PutWordGood, Zenon

\* nbuf_put_ptr with what a failed create returns: pointers are given up.
LEMMA FailedInitGood ==
    ASSUME NEW cap \in Nat, NEW padded, NEW linked, NEW u, Good(u, cap, padded, linked),
           NEW k \in 1 .. Len(u.objs),
           NEW e \in 0 .. Obj(u, k).nelem - 1, NEW i \in 0 .. Obj(u, k).psize - 1,
           NEW slot, slot = Slot(Obj(u, k), e, i)
    PROVE  Good(PutWord(u, slot, RelTo(slot, u.len - Align)), cap, padded, FALSE)
<1>1. Laid(u)
    BY DEF Good
<1>2. slot \in Int /\ u.len - Align \in Int
  <2>1. slot \in Nat
      BY <1>1, SlotInside
  <2>2. u.len \in Nat
      BY <1>1 DEF Laid
  <2> QED
      BY <2>1, <2>2 DEF Align
<1>3. RelTo(slot, u.len - Align) \in Int
    BY <1>2, RelToFacts, Zenon
<1>4. Good(u, cap, padded, FALSE)
    BY GoodWeaker, Zenon
<1> QED
    BY <1>3, <1>4, PutWordGood, Zenon

-----------------------------------------------------------------------------
(* The Python binding computes what the C library computes *)

\* A new object takes as many bytes, and they hold the same.
LEMMA PyNewAlike ==
    ASSUME NEW u, Laid(u), NEW n, NEW s, NEW p, Shape(n, s, p)
    PROVE  /\ u.len + PyTotalSz(n, s, p) = EndOf(NewObj(u, n, s, p))
           /\ PyNewIn(u, n, s, p) = CreateIn(u, n, s, p)
<1>1. PICK o : o = NewObj(u, n, s, p)
    OBVIOUS
<1>2. Placed(o) /\ o.base = u.len + 8 /\ o.nelem = n /\ o.ssize = s /\ o.psize = p
  <2>1. Placed(o)
      BY <1>1, NewPlaced, Zenon
  <2> QED
      BY <1>1, <2>1 DEF NewObj, Handle, HdrSz
<1>3. n \in Nat /\ s \in Nat /\ p \in Nat /\ u.len \in Nat /\ u.len % 8 = 0
    BY DEF Shape, Laid
<1>4. PICK size \in Nat : size = TotalSz(o)
    BY <1>2, SizeFacts
<1>5. size = IF s + 4 * p > 0 THEN (s + 4 * p) * n ELSE (n + 7) \div 8
  <2>1. /\ ElemSz(o) = s + 4 * p
        /\ ElemSz(o) # 0 => size = ElemSz(o) * n
        /\ ElemSz(o) = 0 => size = (n + 7) \div 8
      BY <1>2, <1>4, SizeFacts, Zenon
  <2>2. s + 4 * p \in Nat
      BY <1>3
  <2>3. CASE s + 4 * p = 0
      BY <2>1, <2>3
  <2>4. CASE s + 4 * p # 0
    <3>1. s + 4 * p > 0
        BY <2>2, <2>4
    <3> QED
        BY <2>1, <2>4, <3>1, Zenon
  <2> QED
      BY <2>3, <2>4
<1>6. PyTotalSz(n, s, p) = ((8 + size + 7) \div 8) * 8
    BY <1>5, Zenon DEF PyTotalSz
<1>7. EndOf(o) = ((u.len + 8 + size + 7) \div 8) * 8
    BY <1>2, <1>3, <1>4 DEF EndOf, RoundUp, Align
<1>8. u.len + PyTotalSz(n, s, p) = EndOf(o)
  <2>1. PICK q \in Nat : u.len = 8 * q
    <3>1. u.len = 8 * (u.len \div 8) /\ u.len \div 8 \in Nat
        BY <1>3
    <3> QED
        BY <3>1
  <2>2. PICK r \in Nat : r = 8 + size + 7
      BY <1>4
  <2>3. u.len + 8 + size + 7 = 8 * q + r
      BY <2>1, <2>2
  <2>4. (8 * q + r) \div 8 = q + r \div 8
      OBVIOUS
  <2> QED
      BY <1>6, <1>7, <2>1, <2>2, <2>3, <2>4
<1>9. PyNewIn(u, n, s, p) = CreateIn(u, n, s, p)
  <2>1. CreateIn(u, n, s, p) = Wire(EndOf(o), Append(u.objs, Header(u.len, n, s, p)),
                                    Cleared(u.rel, o.base, EndOf(o), 0),
                                    Cleared(u.bits, o.base, EndOf(o), {}))
      BY <1>1, Zenon DEF CreateIn
  <2> QED
      BY <1>2, <1>8, <2>1, Zenon DEF PyNewIn
<1> QED
    BY <1>1, <1>8, <1>9, Zenon

\* The fields of an element are where C finds them.
LEMMA PyElemAlike ==
    ASSUME NEW o, Placed(o), NEW e \in 0 .. o.nelem - 1, ElemSz(o) # 0
    PROVE  /\ PyItem(o, e).base = GetElem(o, e).base
           /\ PyItem(o, e).ssize = o.ssize
           /\ \A i \in 0 .. o.psize - 1 : PyPtrPtr(PyItem(o, e), i) = Slot(o, e, i)
<1>1. /\ o.base \in Nat /\ o.nelem \in Nat /\ o.ssize \in Nat /\ o.psize \in Nat
      /\ e \in Nat
    BY DEF Placed, Shape
<1>2. ElemSz(o) = o.ssize + 4 * o.psize /\ ElemSz(o) \in Nat
    BY SizeFacts
<1>3. PyElemSz(o) = ElemSz(o)
    BY <1>1, <1>2 DEF PyElemSz
<1>4. PyItem(o, e).base = o.base + e * ElemSz(o) /\ PyItem(o, e).ssize = o.ssize
    BY <1>3 DEF PyItem, Handle
<1>5. GetElem(o, e).base = o.base + e * ElemSz(o)
    BY ElemFacts
<1>6. ASSUME NEW i \in 0 .. o.psize - 1
      PROVE  PyPtrPtr(PyItem(o, e), i) = Slot(o, e, i)
  <2>1. PICK b : b = GetElem(o, e).base
      OBVIOUS
  <2>2. b \in Int
    <3>1. e * ElemSz(o) \in Int
        BY <1>1, <1>2
    <3> QED
        BY <1>1, <1>5, <2>1, <3>1
  <2>3. PyPtrPtr(PyItem(o, e), i) = b + o.ssize + 4 * i
      BY <1>4, <1>5, <2>1, Zenon DEF PyPtrPtr
  <2>4. Slot(o, e, i) = b + (o.ssize + i * 4)
      BY <2>1, Zenon DEF Slot, PtrOffs, WordSz
  <2> QED
      BY <1>1, <2>2, <2>3, <2>4
<1> QED
    BY <1>4, <1>5, <1>6

\* put_obj stores the same word, and only if C's assertion holds.
LEMMA PyPutObjAlike ==
    ASSUME NEW v, NEW ptr \in Int, NEW at \in Int, PyPutObj(v, ptr, at + 8)
    PROVE  PutPtr(v, ptr, at)
<1>1. (at + 8 - 8 - ptr) \div 4 = RelTo(ptr, at)
    BY DEF RelTo, WordSz
<1>2. RelTo(ptr, at) > 0 /\ w' = PutWord(v, ptr, RelTo(ptr, at))
  <2>1. PICK rel : rel = (at + 8 - 8 - ptr) \div 4
      OBVIOUS
  <2>2. rel > 0 /\ w' = PutWord(v, ptr, rel)
      BY <2>1 DEF PyPutObj
  <2> QED
      BY <1>1, <2>1, <2>2, Zenon
<1>3. at > ptr
    BY <1>2 DEF RelTo, WordSz
<1> QED
    BY <1>2, <1>3 DEF PutPtr

-----------------------------------------------------------------------------
(* Steps *)

LEMMA InvFacts ==
    ASSUME Inv
    PROVE  /\ client.cap \in Nat /\ Good(w, client.cap, FALSE, FALSE) /\ Laid(w)
           /\ Objects = 1 .. Len(w.objs)
           /\ \A m \in client.makes : Shape(m.nelem, m.ssize, m.psize)
<1>1. client \in Clients
    BY DEF Inv
<1>2. Good(w, client.cap, FALSE, FALSE)
    BY Zenon DEF Inv
<1>3. Laid(w)
    BY <1>2 DEF Good
<1>4. Objects = 1 .. Len(w.objs)
  <2>1. w.objs \in Seq(Headers)
      BY <1>3 DEF Laid
  <2> QED
      BY <2>1 DEF Objects
<1> QED
    BY <1>1, <1>2, <1>3, <1>4, WriterAssumption, Zenon

\* A step that loses nothing and goes wrong in no way
LEMMA KeepInv ==
    ASSUME Inv, UNCHANGED <<client, clears, faults>>,
           \A padded, linked \in BOOLEAN :
             Good(w, client.cap, padded, linked) => Good(w', client.cap, padded, linked)
    PROVE  Inv'
  BY Zenon DEF Inv

LEMMA CreateInv ==
    ASSUME Inv, NEW m \in client.makes, Create(m)
    PROVE  Inv'
<1>1. /\ Shape(m.nelem, m.ssize, m.psize) /\ client.cap \in Nat
      /\ EndOf(NewObj(w, m.nelem, m.ssize, m.psize)) <= client.cap
      /\ w' = CreateIn(w, m.nelem, m.ssize, m.psize)
    BY InvFacts DEF Create, Fits
<1>2. ASSUME NEW padded, NEW linked, Good(w, client.cap, padded, linked)
      PROVE  Good(w', client.cap, padded, linked)
    BY <1>1, <1>2, CreateGood, Zenon
<1> QED
    BY <1>2, KeepInv, Zenon DEF Create

LEMMA InitFieldInv ==
    ASSUME Inv, NEW k \in Objects, NEW e \in Elements(k), NEW i \in Pointers(k),
           NEW m \in client.makes, InitField(k, e, i, m)
    PROVE  Inv'
<1>1. PICK slot : slot = Slot(Obj(w, k), e, i)
    OBVIOUS
<1>2. /\ k \in 1 .. Len(w.objs) /\ client.cap \in Nat /\ Shape(m.nelem, m.ssize, m.psize)
      /\ e \in 0 .. Obj(w, k).nelem - 1 /\ i \in 0 .. Obj(w, k).psize - 1
    BY InvFacts, Zenon DEF Elements, Pointers
<1>3. CASE /\ Fits(m.nelem, m.ssize, m.psize) /\ UNCHANGED <<client, clears, faults>>
           /\ PutPtr(CreateIn(w, m.nelem, m.ssize, m.psize), slot, w.len)
  <2>1. /\ EndOf(NewObj(w, m.nelem, m.ssize, m.psize)) <= client.cap
        /\ w' = PutWord(CreateIn(w, m.nelem, m.ssize, m.psize), slot, RelTo(slot, w.len))
      BY <1>3 DEF Fits, PutPtr
  <2>2. ASSUME NEW padded, NEW linked, Good(w, client.cap, padded, linked)
        PROVE  Good(w', client.cap, padded, linked)
      BY <1>1, <1>2, <2>1, <2>2, InitFieldGood, Zenon
  <2> QED
      BY <1>3, <2>2, KeepInv, Zenon
<1>4. CASE /\ PutPtr(w, slot, w.len - Align) /\ faults' = faults \cup {"linked"}
           /\ UNCHANGED <<client, clears>>
  <2>1. w' = PutWord(w, slot, RelTo(slot, w.len - Align))
      BY <1>4 DEF PutPtr
  <2>2. ASSUME NEW padded \in BOOLEAN, NEW linked \in BOOLEAN,
               padded => "shortened" \notin faults', linked => "linked" \notin faults'
        PROVE  Good(w', client'.cap, padded, linked)
    <3>1. linked = FALSE
        BY <1>4, <2>2, Zenon
    <3>2. Good(w, client.cap, padded, FALSE)
      <4>1. padded => "shortened" \notin faults
          BY <1>4, <2>2, Zenon
      <4> QED
          BY <4>1, Zenon DEF Inv
    <3>3. Good(w', client.cap, padded, FALSE)
        BY <1>1, <1>2, <2>1, <3>2, FailedInitGood, Zenon
    <3> QED
        BY <1>4, <3>1, <3>3, Zenon
  <2>3. client' \in Clients /\ clears' \in 0 .. client'.clears
      BY <1>4, Zenon DEF Inv
  <2>4. faults' \subseteq {"linked", "shortened", "wrapped"}
      BY <1>4, Zenon DEF Inv
  <2> QED
      BY <2>2, <2>3, <2>4, Zenon DEF Inv
<1> QED
    BY <1>1, <1>3, <1>4, Zenon DEF InitField

LEMMA LinkInv ==
    ASSUME Inv, NEW k \in Objects, NEW e \in Elements(k), NEW i \in Pointers(k),
           NEW t \in Objects, Link(k, e, i, t)
    PROVE  Inv'
<1>1. PICK slot : slot = Slot(Obj(w, k), e, i)
    OBVIOUS
<1>2. /\ k \in 1 .. Len(w.objs) /\ t \in 1 .. Len(w.objs) /\ client.cap \in Nat
      /\ e \in 0 .. Obj(w, k).nelem - 1 /\ i \in 0 .. Obj(w, k).psize - 1
    BY InvFacts, Zenon DEF Elements, Pointers
<1>3. w.objs[t].at > slot /\ w' = PutWord(w, slot, RelTo(slot, w.objs[t].at))
    BY <1>1, Zenon DEF Link, PutPtr
<1>4. ASSUME NEW padded, NEW linked, Good(w, client.cap, padded, linked)
      PROVE  Good(w', client.cap, padded, linked)
    BY <1>1, <1>2, <1>3, <1>4, LinkGood, Zenon
<1> QED
    BY <1>4, KeepInv, Zenon DEF Link

LEMMA PutStrInv ==
    ASSUME Inv, NEW k \in Objects, NEW e \in Elements(k), NEW i \in Pointers(k),
           NEW n \in StrLens, PutStr(k, e, i, n)
    PROVE  Inv'
<1>1. PICK slot : slot = Slot(Obj(w, k), e, i)
    OBVIOUS
<1>2. /\ k \in 1 .. Len(w.objs) /\ n \in Nat /\ client.cap \in Nat
      /\ e \in 0 .. Obj(w, k).nelem - 1 /\ i \in 0 .. Obj(w, k).psize - 1
    BY InvFacts, WriterAssumption, Zenon DEF Elements, Pointers
<1>3. /\ EndOf(NewObj(w, n + 1, 1, 0)) <= client.cap
      /\ w' = PutWord(PutChars(CreateIn(w, n + 1, 1, 0), w.len + HdrSz, n),
                      slot, RelTo(slot, w.len))
    BY <1>1, Zenon DEF PutStr, Fits, PutPtr
<1>4. ASSUME NEW padded, NEW linked, Good(w, client.cap, padded, linked)
      PROVE  Good(w', client.cap, padded, linked)
    BY <1>1, <1>2, <1>3, <1>4, PutStrGood, Zenon
<1> QED
    BY <1>4, KeepInv, Zenon DEF PutStr

LEMMA AppendValueInv ==
    ASSUME Inv, NEW k \in Objects, NEW e \in Elements(k), NEW i \in Pointers(k),
           NEW x \in {0, 1}, AppendValue(k, e, i, x)
    PROVE  Inv'
<1>1. PICK list : list = TargetIn(w, Slot(Obj(w, k), e, i))
    OBVIOUS
<1>2. PICK n : n = Obj(w, list).nelem
    OBVIOUS
<1>3. PICK v : v = ResizeIn(w, list, n + 1)
    OBVIOUS
<1>4. /\ list \in 1 .. Len(w.objs) /\ AtEnd(w, list)
      /\ n < IF ElemSz(Obj(w, list)) = 0 THEN MaxBits ELSE MaxElems
      /\ EndOf(Resized(Obj(w, list), n + 1)) <= client.cap
      /\ w' = IF HasScalar(Obj(v, list)) THEN PutScalar(v, Obj(v, list), n, x) ELSE v
      /\ UNCHANGED <<client, clears, faults>>
    BY <1>1, <1>2, <1>3, InvFacts, Zenon DEF AppendValue
<1>5. Laid(w) /\ client.cap \in Nat
    BY InvFacts
<1>6. Shape(n + 1, Obj(w, list).ssize, Obj(w, list).psize)
  <2>1. PICK o : o = Obj(w, list)
      OBVIOUS
  <2>2. Placed(o)
      BY <1>4, <1>5, <2>1, ObjectInside
  <2>3. ElemSz(o) = 0 <=> o.ssize = 0 /\ o.psize = 0
      BY <2>2, SizeFacts
  <2>4. Shape(n, o.ssize, o.psize)
      BY <1>2, <2>1, <2>2, Zenon DEF Placed
  <2>5. ElemSz(o) = 0 => n < MaxBits
      BY <1>4, <2>1
  <2>6. Shape(n + 1, o.ssize, o.psize)
      BY <2>3, <2>4, <2>5, WriterAssumption, NelemModAssumption DEF Shape
  <2> QED
      BY <2>1, <2>6
<1>7. ASSUME NEW padded, NEW linked, Good(w, client.cap, padded, linked)
      PROVE  Good(w', client.cap, padded, linked)
    BY <1>2, <1>3, <1>4, <1>5, <1>6, <1>7, AppendGood, Zenon
<1> QED
    BY <1>4, <1>7, KeepInv, Zenon

LEMMA AppendFirstInv ==
    ASSUME Inv, NEW k \in Objects, NEW e \in Elements(k), NEW i \in Pointers(k),
           NEW kind \in DOMAIN KindShape, NEW x \in {0, 1}, AppendFirst(k, e, i, kind, x)
    PROVE  Inv'
<1>1. PICK slot : slot = Slot(Obj(w, k), e, i)
    OBVIOUS
<1>2. PICK s, p : s = KindShape[kind].ssize /\ p = KindShape[kind].psize
    OBVIOUS
<1>3. PICK v : v = CreateIn(w, 1, s, p)
    OBVIOUS
<1>4. /\ k \in 1 .. Len(w.objs) /\ client.cap \in Nat /\ Shape(1, s, p)
      /\ e \in 0 .. Obj(w, k).nelem - 1 /\ i \in 0 .. Obj(w, k).psize - 1
    BY <1>2, InvFacts, WriterAssumption, Zenon DEF Elements, Pointers
<1>5. /\ EndOf(NewObj(w, 1, s, p)) <= client.cap
      /\ w' = PutWord(IF s > 0 THEN PutScalar(v, Obj(v, Len(w.objs) + 1), 0, x) ELSE v,
                      slot, RelTo(slot, w.len))
      /\ UNCHANGED <<client, clears, faults>>
    BY <1>1, <1>2, <1>3, Zenon DEF AppendFirst, Fits, PutPtr, NewIndex
<1>6. ASSUME NEW padded, NEW linked, Good(w, client.cap, padded, linked)
      PROVE  Good(w', client.cap, padded, linked)
  <2>1. CASE s > 0
      BY <1>1, <1>3, <1>4, <1>5, <1>6, <2>1, AppendFirstGood, Zenon
  <2>2. CASE ~(s > 0)
    <3>1. w' = PutWord(CreateIn(w, 1, s, p), slot, RelTo(slot, w.len))
        BY <1>3, <1>5, <2>2, Zenon
    <3> QED
        BY <1>1, <1>4, <1>5, <1>6, <3>1, InitFieldGood, Zenon
  <2> QED
      BY <2>1, <2>2
<1> QED
    BY <1>5, <1>6, KeepInv, Zenon

LEMMA SetScalarInv ==
    ASSUME Inv, NEW k \in Objects, NEW e \in Elements(k), NEW x \in {0, 1}, SetScalar(k, e, x)
    PROVE  Inv'
<1>1. /\ k \in 1 .. Len(w.objs) /\ client.cap \in Nat /\ e \in 0 .. Obj(w, k).nelem - 1
      /\ HasScalar(Obj(w, k)) /\ w' = PutScalar(w, Obj(w, k), e, x)
    BY InvFacts, Zenon DEF Elements, SetScalar
<1>2. ASSUME NEW padded, NEW linked, Good(w, client.cap, padded, linked)
      PROVE  Good(w', client.cap, padded, linked)
    BY <1>1, <1>2, PutScalarGood, Zenon
<1> QED
    BY <1>2, KeepInv, Zenon DEF SetScalar

LEMMA ShrinkInv ==
    ASSUME Inv, NEW k \in Objects, NEW n \in 1 .. MaxElems, Shrink(k, n)
    PROVE  Inv'
<1>1. /\ k \in 1 .. Len(w.objs) /\ client.cap \in Nat /\ n \in Nat
      /\ n < Obj(w, k).nelem /\ AtEnd(w, k)
  <2>1. n \in Nat
      BY WriterAssumption
  <2> QED
      BY <2>1, InvFacts, Zenon DEF Shrink
<1>2. client' = client /\ clears' = clears
    BY Zenon DEF Shrink
<1>3. client' \in Clients /\ clears' \in 0 .. client'.clears
    BY <1>2, Zenon DEF Inv
<1>4. CASE /\ EndOf(Resized(Obj(w, k), n)) = w.len
           /\ w' = Wire(w.len, WithLength(w.objs, k, n), w.rel, w.bits)
           /\ faults' = faults \cup {"shortened"}
  <2>1. ASSUME NEW padded \in BOOLEAN, NEW linked \in BOOLEAN,
               padded => "shortened" \notin faults', linked => "linked" \notin faults'
        PROVE  Good(w', client'.cap, padded, linked)
    <3>1. padded = FALSE
        BY <1>4, <2>1, Zenon
    <3>2. linked => "linked" \notin faults
        BY <1>4, <2>1, Zenon
    <3>3. Good(w, client.cap, FALSE, linked)
        BY <3>2, Zenon DEF Inv
    <3>4. Good(w', client.cap, FALSE, linked)
        BY <1>1, <1>4, <3>3, ShrinkGood, Zenon
    <3> QED
        BY <1>2, <3>1, <3>4, Zenon
  <2>2. faults' \subseteq {"linked", "shortened", "wrapped"}
      BY <1>4, Zenon DEF Inv
  <2> QED
      BY <1>3, <2>1, <2>2, Zenon DEF Inv
<1>5. CASE faults' = faults \cup {"wrapped"} /\ w' = w
  <2>1. /\ "shortened" \notin faults' => "shortened" \notin faults
        /\ "linked" \notin faults' => "linked" \notin faults
      BY <1>5, Zenon
  <2>2. faults' \subseteq {"linked", "shortened", "wrapped"}
      BY <1>5, Zenon DEF Inv
  <2>3. ASSUME NEW padded \in BOOLEAN, NEW linked \in BOOLEAN,
               padded => "shortened" \notin faults', linked => "linked" \notin faults'
        PROVE  Good(w', client'.cap, padded, linked)
      BY <1>2, <1>5, <2>1, <2>3, Zenon DEF Inv
  <2> QED
      BY <1>3, <2>2, <2>3, Zenon DEF Inv
<1> QED
    BY <1>4, <1>5, Zenon DEF Shrink

LEMMA ClearInv ==
    ASSUME Inv, Clear
    PROVE  Inv'
<1>1. w' = Wire(0, <<>>, w.rel, w.bits) /\ client' = client /\ faults' = faults /\ clears' = clears + 1
    BY Zenon DEF Clear
<1>2. w'.len = 0 /\ w'.objs = <<>> /\ w'.rel = w.rel /\ w'.bits = w.bits
    BY <1>1 DEF Wire
<1>3. client.cap \in Nat /\ w.rel \in [0 .. client.cap - 1 -> Int] /\ w.bits \in Bytes(client.cap)
    BY InvFacts DEF Good, Sized
<1>4. \A padded, linked \in BOOLEAN : Good(w', client.cap, padded, linked)
    BY <1>2, <1>3, EmptyGood, Zenon
<1>5. clears' \in 0 .. client'.clears
  <2>1. clears \in 0 .. client.clears /\ client.clears \in Nat /\ clears < client.clears
      BY WriterAssumption DEF Inv, Clear
  <2> QED
      BY <1>1, <2>1
<1>6. client' \in Clients /\ faults' \subseteq {"linked", "shortened", "wrapped"}
    BY <1>1, Zenon DEF Inv
<1> QED
    BY <1>1, <1>4, <1>5, <1>6, Zenon DEF Inv

-----------------------------------------------------------------------------
(* Steps of a Python program: all but put_bool are steps of a C program *)

\* Where a Python call finds a pointer of an object
LEMMA PyPointer ==
    ASSUME Inv, NEW k \in Objects, NEW e \in Elements(k), NEW i \in Pointers(k)
    PROVE  /\ PyPtrPtr(PyItem(Obj(w, k), e), i) = Slot(Obj(w, k), e, i)
           /\ Slot(Obj(w, k), e, i) \in Int
<1>1. PICK o : o = Obj(w, k)
    OBVIOUS
<1>2. /\ Laid(w) /\ k \in 1 .. Len(w.objs)
      /\ e \in 0 .. Obj(w, k).nelem - 1 /\ i \in 0 .. Obj(w, k).psize - 1
    BY InvFacts, Zenon DEF Elements, Pointers
<1>3. Placed(o)
    BY <1>1, <1>2, ObjectInside
<1>4. ElemSz(o) # 0
  <2>1. ElemSz(o) = 0 <=> o.ssize = 0 /\ o.psize = 0
      BY <1>3, SizeFacts
  <2>2. i \in 0 .. o.psize - 1
      BY <1>1, <1>2
  <2> QED
      BY <2>1, <2>2
<1>5. PyPtrPtr(PyItem(o, e), i) = Slot(o, e, i)
    BY <1>1, <1>2, <1>3, <1>4, PyElemAlike, Zenon
<1>6. Slot(Obj(w, k), e, i) \in Nat
    BY <1>2, SlotInside
<1> QED
    BY <1>1, <1>5, <1>6

\* The room and the bytes of a new object
LEMMA PyRoom ==
    ASSUME Inv, NEW n, NEW s, NEW p, Shape(n, s, p)
    PROVE  /\ PyFits(n, s, p) => Fits(n, s, p)
           /\ PyNewIn(w, n, s, p) = CreateIn(w, n, s, p)
           /\ w.len \in Int
<1>1. Laid(w) /\ w.len \in Nat
    BY InvFacts DEF Laid
<1>2. /\ w.len + PyTotalSz(n, s, p) = EndOf(NewObj(w, n, s, p))
      /\ PyNewIn(w, n, s, p) = CreateIn(w, n, s, p)
    BY <1>1, PyNewAlike, Zenon
<1> QED
    BY <1>1, <1>2 DEF PyFits, Fits

LEMMA PyNewIsCreate ==
    ASSUME Inv, NEW m \in client.makes, PyNew(m)
    PROVE  Create(m)
<1>1. Shape(m.nelem, m.ssize, m.psize)
    BY InvFacts, Zenon
<1> QED
    BY <1>1, PyRoom, Zenon DEF PyNew, Create, PyKeep

LEMMA PyInitIsInit ==
    ASSUME Inv, NEW k \in Objects, NEW e \in Elements(k), NEW i \in Pointers(k),
           NEW m \in client.makes, PyInitField(k, e, i, m)
    PROVE  InitField(k, e, i, m)
<1>1. PICK slot \in Int : slot = Slot(Obj(w, k), e, i) /\ slot = PyPtrPtr(PyItem(Obj(w, k), e), i)
    BY PyPointer, Zenon
<1>2. Shape(m.nelem, m.ssize, m.psize)
    BY InvFacts, Zenon
<1>3. PICK v : v = CreateIn(w, m.nelem, m.ssize, m.psize)
    OBVIOUS
<1>4. /\ Fits(m.nelem, m.ssize, m.psize) /\ w.len \in Int
      /\ PyPutObj(v, slot, w.len + 8) /\ UNCHANGED <<client, clears, faults>>
    BY <1>1, <1>2, <1>3, PyRoom, Zenon DEF PyInitField, PyKeep
<1>5. PutPtr(v, slot, w.len)
    BY <1>4, PyPutObjAlike, Zenon
<1> QED
    BY <1>1, <1>3, <1>4, <1>5, Zenon DEF InitField

LEMMA PyLinkIsLink ==
    ASSUME Inv, NEW k \in Objects, NEW e \in Elements(k), NEW i \in Pointers(k),
           NEW t \in Objects, PyLink(k, e, i, t)
    PROVE  Link(k, e, i, t)
<1>1. PICK slot \in Int : slot = Slot(Obj(w, k), e, i) /\ slot = PyPtrPtr(PyItem(Obj(w, k), e), i)
    BY PyPointer, Zenon
<1>2. w.objs[t].at \in Int /\ Obj(w, t).base = w.objs[t].at + 8
  <2>1. Laid(w) /\ t \in 1 .. Len(w.objs)
      BY InvFacts, Zenon
  <2>2. w.objs[t].at \in Nat /\ Obj(w, t).base = w.objs[t].at + 8
      BY <2>1, ObjectInside
  <2> QED
      BY <2>2
<1>3. PyPutObj(w, slot, w.objs[t].at + 8) /\ UNCHANGED <<client, clears, faults>>
    BY <1>1, <1>2, Zenon DEF PyLink, PyKeep
<1>4. PutPtr(w, slot, w.objs[t].at)
    BY <1>2, <1>3, PyPutObjAlike, Zenon
<1> QED
    BY <1>1, <1>3, <1>4, Zenon DEF Link

LEMMA PyStrIsStr ==
    ASSUME Inv, NEW k \in Objects, NEW e \in Elements(k), NEW i \in Pointers(k),
           NEW n \in StrLens, PyPutStr(k, e, i, n)
    PROVE  PutStr(k, e, i, n)
<1>1. PICK slot \in Int : slot = Slot(Obj(w, k), e, i) /\ slot = PyPtrPtr(PyItem(Obj(w, k), e), i)
    BY PyPointer, Zenon
<1>2. Shape(n + 1, 1, 0)
    BY WriterAssumption DEF Shape
<1>3. PICK v : v = PutChars(CreateIn(w, n + 1, 1, 0), w.len + 8, n)
    OBVIOUS
<1>4. /\ Fits(n + 1, 1, 0) /\ w.len \in Int
      /\ PyPutObj(v, slot, w.len + 8) /\ UNCHANGED <<client, clears, faults>>
    BY <1>1, <1>2, <1>3, PyRoom, Zenon DEF PyPutStr, PyKeep
<1>5. PutPtr(v, slot, w.len)
    BY <1>4, PyPutObjAlike, Zenon
<1> QED
    BY <1>1, <1>3, <1>4, <1>5, Zenon DEF PutStr, HdrSz

LEMMA PyIntIsScalar ==
    ASSUME Inv, NEW k \in Objects, NEW e \in Elements(k), NEW x \in {0, 1}, PyPutInt(k, e, x)
    PROVE  SetScalar(k, e, x)
<1>1. PICK o : o = Obj(w, k)
    OBVIOUS
<1>2. Laid(w) /\ k \in 1 .. Len(w.objs) /\ e \in 0 .. o.nelem - 1
    BY <1>1, InvFacts, Zenon DEF Elements
<1>3. Placed(o)
    BY <1>1, <1>2, ObjectInside
<1>4. PyItem(o, e).ssize = o.ssize
    BY DEF PyItem, Handle
<1>5. o.ssize > 0 /\ w' = PutInt(w, PyItem(o, e).base + 0, o.ssize, x) /\ UNCHANGED <<client, clears, faults>>
    BY <1>1, <1>4, Zenon DEF PyPutInt, PyScalarPtr, PyKeep
<1>6. ElemSz(o) # 0
  <2>1. ElemSz(o) = 0 <=> o.ssize = 0 /\ o.psize = 0
      BY <1>3, SizeFacts
  <2> QED
      BY <1>5, <2>1
<1>7. PyItem(o, e).base + 0 = GetElem(o, e).base
  <2>1. PyItem(o, e).base = GetElem(o, e).base
      BY <1>2, <1>3, <1>6, PyElemAlike
  <2>2. GetElem(o, e).base \in Nat
      BY <1>2, <1>3, <1>6, ElemFacts
  <2> QED
      BY <2>1, <2>2
<1>8. w' = PutScalar(w, o, e, x)
    BY <1>5, <1>6, <1>7, Zenon DEF PutScalar
<1>9. HasScalar(o)
    BY <1>5 DEF HasScalar
<1> QED
    BY <1>1, <1>5, <1>8, <1>9, Zenon DEF SetScalar

LEMMA PyPutBoolInv ==
    ASSUME Inv, NEW k \in Objects, NEW e \in Elements(k), NEW x \in {0, 1}, PyPutBool(k, e, x)
    PROVE  Inv'
<1>1. PICK o : o = Obj(w, k)
    OBVIOUS
<1>2. /\ Laid(w) /\ k \in 1 .. Len(w.objs) /\ e \in 0 .. o.nelem - 1
      /\ client.cap \in Nat /\ Good(w, client.cap, FALSE, FALSE)
    BY <1>1, InvFacts, Zenon DEF Elements
<1>3. /\ Placed(o) /\ EndOf(o) \in Nat /\ EndOf(o) <= w.len /\ w.len \in Nat /\ o.base \in Nat
      /\ w.len <= client.cap /\ w.bits \in [0 .. client.cap - 1 -> SUBSET (0 .. 7)]
  <2>1. /\ Placed(o) /\ EndOf(o) \in Nat /\ EndOf(o) <= w.len /\ w.len \in Nat /\ o.base \in Nat
      BY <1>1, <1>2, ObjectInside
  <2> QED
      BY <1>2, <2>1 DEF Good, Sized, Bytes
<1>4. PICK a : a = PyItem(o, e).base + 0
    OBVIOUS
<1>5. /\ 0 + 1 <= o.ssize /\ w' = PutBit(w, a, 0, x) /\ UNCHANGED <<client, clears, faults>>
  <2>1. PyItem(o, e).ssize = o.ssize
      BY DEF PyItem, Handle
  <2> QED
      BY <1>1, <1>4, <2>1, Zenon DEF PyPutBool, PyInRange, PyScalarPtr, PyKeep
<1>6. o.ssize \in Nat /\ o.ssize >= 1
    BY <1>3, <1>5 DEF Placed, Shape
<1>7. ElemSz(o) # 0 /\ ElemSz(o) \in Nat /\ ElemSz(o) >= 1 /\ TotalSz(o) \in Nat
      /\ o.base + TotalSz(o) <= EndOf(o)
  <2>1. /\ ElemSz(o) = 0 <=> o.ssize = 0 /\ o.psize = 0
        /\ ElemSz(o) \in Nat /\ TotalSz(o) \in Nat /\ o.base + TotalSz(o) <= EndOf(o)
      BY <1>3, SizeFacts
  <2> QED
      BY <1>6, <2>1
<1>8. a = GetElem(o, e).base /\ a \in Nat /\ o.base <= a /\ a + 1 <= o.base + TotalSz(o)
  <2>1. PyItem(o, e).base = GetElem(o, e).base
      BY <1>2, <1>3, <1>7, PyElemAlike
  <2>2. /\ GetElem(o, e).base \in Nat /\ o.base <= GetElem(o, e).base
        /\ GetElem(o, e).base + ElemSz(o) <= o.base + TotalSz(o)
      BY <1>2, <1>3, <1>7, ElemFacts
  <2> QED
      BY <1>3, <1>4, <1>7, <2>1, <2>2
<1>9. PICK byte : byte = IF x = 1 THEN w.bits[a] \cup {0} ELSE w.bits[a] \ {0}
    OBVIOUS
<1>10. a \in 0 .. client.cap - 1
    BY <1>2, <1>3, <1>7, <1>8, SMTT(60)
<1>11. /\ w'.len = w.len /\ w'.objs = w.objs /\ w'.rel = w.rel
       /\ w'.bits = [w.bits EXCEPT ![a] = byte]
    BY <1>5, <1>9 DEF PutBit, WithBits, Wire
<1>12. byte \in SUBSET (0 .. 7)
  <2>1. w.bits[a] \in SUBSET (0 .. 7)
      BY <1>3, <1>10
  <2> QED
      BY <1>9, <2>1
<1>13. w'.bits \in Bytes(client.cap)
    BY <1>3, <1>11, <1>12 DEF Bytes
<1>14. \A b \in 0 .. client.cap - 1 : b < a \/ a + 1 <= b => w'.bits[b] = w.bits[b]
    BY <1>3, <1>8, <1>11
<1>15. ASSUME NEW padded, NEW linked, Good(w, client.cap, padded, linked)
       PROVE  Good(w', client.cap, padded, linked)
  <2>1. PICK hi \in Int : hi = a + 1
      BY <1>8
  <2>2. PICK v : v = w'
      OBVIOUS
  <2>3. /\ ElemSz(Obj(w, k)) # 0 /\ Obj(w, k).base <= a
        /\ hi <= Obj(w, k).base + TotalSz(Obj(w, k))
      BY <1>1, <1>7, <1>8, <2>1, Zenon
  <2>4. /\ v.len = w.len /\ v.objs = w.objs /\ v.rel = w.rel /\ v.bits \in Bytes(client.cap)
        /\ \A b \in 0 .. client.cap - 1 : b < a \/ hi <= b => v.bits[b] = w.bits[b]
      BY <1>11, <1>13, <1>14, <2>1, <2>2, Zenon
  <2>5. a \in Int
      BY <1>8
  <2>6. Good(v, client.cap, padded, linked)
      BY <1>2, <1>15, <2>3, <2>4, <2>5, PutBytesGood, SMT
  <2> QED
      BY <2>2, <2>6
<1> QED
    BY <1>5, <1>15, KeepInv, Zenon

\* A Python program does to a message what a C program can do, but for put_bool,
\* which changes one bit of a scalar that C stores as a whole.
PythonWritesAlike ==
    "wrapped" \notin faults /\ PyStep =>
        \/ Next
        \/ \E k \in Objects : \E e \in Elements(k), x \in {0, 1} : PyPutBool(k, e, x)

LEMMA PySteps ==
    ASSUME Inv
    PROVE  PythonWritesAlike
<1>1. SUFFICES ASSUME PyStep
               PROVE  \/ Step
                      \/ \E k \in Objects : \E e \in Elements(k), x \in {0, 1} : PyPutBool(k, e, x)
    BY Zenon DEF PythonWritesAlike, Next
<1>2. ASSUME NEW m \in client.makes, PyNew(m)
      PROVE  Step
    BY <1>2, PyNewIsCreate, Zenon DEF Step
<1>3. ASSUME NEW k \in Objects, NEW e \in Elements(k), NEW i \in Pointers(k)
      PROVE  /\ \A m \in client.makes : PyInitField(k, e, i, m) => Step
             /\ \A t \in Objects : PyLink(k, e, i, t) => Step
             /\ \A n \in StrLens : PyPutStr(k, e, i, n) => Step
  <2>1. ASSUME NEW m \in client.makes, PyInitField(k, e, i, m)
        PROVE  Step
      BY <2>1, PyInitIsInit, Zenon DEF Step
  <2>2. ASSUME NEW t \in Objects, PyLink(k, e, i, t)
        PROVE  Step
      BY <2>2, PyLinkIsLink, Zenon DEF Step
  <2>3. ASSUME NEW n \in StrLens, PyPutStr(k, e, i, n)
        PROVE  Step
      BY <2>3, PyStrIsStr, Zenon DEF Step
  <2> QED
      BY <2>1, <2>2, <2>3, Zenon
<1>4. ASSUME NEW k \in Objects, NEW e \in Elements(k), NEW x \in {0, 1},
             e \in EdgeElements(k), PyPutInt(k, e, x)
      PROVE  Step
    BY <1>4, PyIntIsScalar, Zenon DEF Step
<1> QED
    BY <1>1, <1>2, <1>3, <1>4, Zenon DEF PyStep

\* The invariant holds at first.
LEMMA InitInv == Init => Inv
<1> SUFFICES ASSUME Init
             PROVE  Inv
    OBVIOUS
<1>1. client \in Clients /\ client.cap \in Nat /\ client.clears \in Nat
    BY WriterAssumption, Zenon DEF Init
<1>2. /\ w = EmptyWire(client.cap, 0, [a \in 0 .. client.cap - 1 |-> Garbage])
      /\ clears = 0 /\ faults = {}
    BY Zenon DEF Init
<1>3. /\ w.len = 0 /\ w.objs = <<>> /\ w.rel = [a \in 0 .. client.cap - 1 |-> 0]
      /\ w.bits = [a \in 0 .. client.cap - 1 |-> Garbage]
    BY <1>2 DEF EmptyWire, Wire
<1>4. w.rel \in [0 .. client.cap - 1 -> Int]
    BY <1>3
<1>5. w.bits \in Bytes(client.cap)
    BY <1>3, WriterAssumption DEF Bytes
<1>6. \A padded, linked \in BOOLEAN : Good(w, client.cap, padded, linked)
    BY <1>1, <1>3, <1>4, <1>5, EmptyGood, Zenon
<1>7. clears \in 0 .. client.clears /\ faults \subseteq {"linked", "shortened", "wrapped"}
    BY <1>1, <1>2
<1> QED
    BY <1>1, <1>6, <1>7, Zenon DEF Inv

\* Every step keeps it.
LEMMA StepInv == Inv /\ [BothNext]_vars => Inv'
<1> SUFFICES ASSUME Inv, [BothNext]_vars
             PROVE  Inv'
    OBVIOUS
<1>1. CASE Next
  <2>1. ASSUME NEW k \in Objects, NEW e \in Elements(k), NEW i \in Pointers(k)
        PROVE  /\ \A m \in client.makes : InitField(k, e, i, m) => Inv'
               /\ \A t \in Objects : Link(k, e, i, t) => Inv'
               /\ \A n \in StrLens : PutStr(k, e, i, n) => Inv'
               /\ \A x \in {0, 1} : AppendValue(k, e, i, x) => Inv'
               /\ \A kind \in DOMAIN KindShape, x \in {0, 1} : AppendFirst(k, e, i, kind, x) => Inv'
    <3>1. \A m \in client.makes : InitField(k, e, i, m) => Inv'
        BY InitFieldInv, Zenon
    <3>2. \A t \in Objects : Link(k, e, i, t) => Inv'
        BY LinkInv, Zenon
    <3>3. \A n \in StrLens : PutStr(k, e, i, n) => Inv'
        BY PutStrInv, Zenon
    <3>4. \A x \in {0, 1} : AppendValue(k, e, i, x) => Inv'
        BY AppendValueInv, Zenon
    <3>5. \A kind \in DOMAIN KindShape, x \in {0, 1} : AppendFirst(k, e, i, kind, x) => Inv'
        BY AppendFirstInv, Zenon
    <3> QED
        BY <3>1, <3>2, <3>3, <3>4, <3>5
  <2>2. \A m \in client.makes : Create(m) => Inv'
      BY CreateInv, Zenon
  <2>3. \A k \in Objects : \A e \in Elements(k), x \in {0, 1} : SetScalar(k, e, x) => Inv'
      BY SetScalarInv, Zenon
  <2>4. \A k \in Objects, n \in 1 .. MaxElems : Shrink(k, n) => Inv'
      BY ShrinkInv, Zenon
  <2>5. Clear => Inv'
      BY ClearInv, Zenon
  <2> QED
      BY <1>1, <2>1, <2>2, <2>3, <2>4, <2>5, Zenon DEF Next, Step
<1>2. CASE "wrapped" \notin faults /\ PyStep
  <2>1. ASSUME NEW k \in Objects, NEW e \in Elements(k), NEW x \in {0, 1}, PyPutBool(k, e, x)
        PROVE  Inv'
      BY <2>1, PyPutBoolInv, Zenon
  <2> QED
      BY <1>1, <1>2, <2>1, PySteps, Zenon DEF PythonWritesAlike
<1>3. CASE UNCHANGED vars
    BY <1>3, Zenon DEF Inv, vars
<1> QED
    BY <1>1, <1>2, <1>3, Zenon DEF BothNext

LEMMA InvHolds == BothSpec => []Inv
    BY InitInv, StepInv, PTL DEF BothSpec

-----------------------------------------------------------------------------
(* Theorems *)

\* The buffer of the write API always has its type: its length is within the
\* memory that nbuf_reserve gets, and no header, pointer word or byte is out of
\* its range.
THEOREM WriterTypeOK == BothSpec => []TypeOK
<1>1. Inv => TypeOK
  <2> SUFFICES ASSUME Inv
               PROVE  TypeOK
      OBVIOUS
  <2>1. Laid(w) /\ Sized(w, client.cap) /\ client.cap \in Nat
      BY InvFacts DEF Good
  <2>2. w.len \in 0 .. client.cap
      BY <2>1 DEF Laid, Sized
  <2> QED
      BY <2>1, <2>2, Zenon DEF Inv, TypeOK, Laid, Sized, Bytes, Headers
<1> QED
    BY <1>1, InvHolds, PTL

\* Objects tile the buffer, whichever of nbuf_create, nbuf_resize, nbuf_clear and
\* obj.new of the Python binding made them, rough clients included.
THEOREM WriterObjectsTile == BothSpec => []ObjectsTile
<1>1. Inv => ObjectsTile
  <2> SUFFICES ASSUME Inv
               PROVE  Tiled(w)
      BY Zenon DEF ObjectsTile
  <2>1. Laid(w)
      BY InvFacts
  <2> QED
      BY <2>1, LaidTiled
<1> QED
    BY <1>1, InvHolds, PTL

\* The padding behind an object is zero until a list was made shorter, whatever
\* garbage was in the memory and whatever was written, in C or in Python.
THEOREM WriterPaddingZero == BothSpec => []PaddingZero
<1>1. Inv => PaddingZero
  <2> SUFFICES ASSUME Inv, "shortened" \notin faults
               PROVE  PaddingIsZero(w)
      BY Zenon DEF PaddingZero
  <2>1. Laid(w)
      BY InvFacts
  <2>2. Good(w, client.cap, TRUE, FALSE)
      BY Zenon DEF Inv
  <2>3. Padded(w)
      BY <2>2, Zenon DEF Good
  <2>4. w.objs \in Seq(Headers)
      BY <2>1 DEF Laid
  <2> QED
      BY <2>3, <2>4, PaddingOfObjects, Zenon DEF Padded
<1> QED
    BY <1>1, InvHolds, PTL

\* Pointers lead forward to headers of objects until an initialiser linked to an
\* object that it could not make.
THEOREM WriterPointersLead == BothSpec => []PointersLeadToObjects
<1>1. Inv => PointersLeadToObjects
  <2> SUFFICES ASSUME Inv, "linked" \notin faults
               PROVE  PointersToObjects(w)
      BY Zenon DEF PointersLeadToObjects
  <2>1. Laid(w)
      BY InvFacts
  <2>2. Good(w, client.cap, FALSE, TRUE)
      BY Zenon DEF Inv
  <2>3. Linked(w)
      BY <2>2, Zenon DEF Good
  <2> QED
      BY <2>1, <2>3, LinkedFound DEF Linked
<1> QED
    BY <1>1, InvHolds, PTL

\* Every call of the Python binding that stores something, put_bool apart, does
\* to the message exactly what a C call does.
THEOREM PythonCallsAreCCalls == BothSpec => [][PythonWritesAlike]_vars
    BY InvHolds, PySteps, PTL DEF BothSpec

-----------------------------------------------------------------------------
(* What Python reads *)

\* The scalar part of every object is one scalar.
Whole == \A k \in 1 .. Len(w.objs) : OneScalar(Obj(w, k).ssize, Obj(w, k).psize)

\* What a step can do to the headers: nothing, add that of an object it creates,
\* change the length of a list, or forget them all.
HeadersStep ==
    \/ w'.objs = w.objs
    \/ \E n, s, p : Shape(n, s, p) /\ OneScalar(s, p) /\ w'.objs = CreateIn(w, n, s, p).objs
    \/ \E k \in Objects, n \in Nat : w'.objs = WithLength(w.objs, k, n)
    \/ w'.objs = <<>>

LEMMA PutWordHeaders ==
    ASSUME NEW v, NEW slot, NEW word
    PROVE  PutWord(v, slot, word).objs = v.objs
  BY DEF PutWord, Wire

LEMMA PutCharsHeaders ==
    ASSUME NEW v, NEW a, NEW n
    PROVE  PutChars(v, a, n).objs = v.objs
  BY DEF PutChars, WithBits, Wire

LEMMA PutScalarHeaders ==
    ASSUME NEW v, NEW o, NEW e, NEW x
    PROVE  PutScalar(v, o, e, x).objs = v.objs
  BY DEF PutScalar, PutBit, PutInt, WithBits, Wire

LEMMA PutBitHeaders ==
    ASSUME NEW v, NEW a, NEW j, NEW x
    PROVE  PutBit(v, a, j, x).objs = v.objs
  BY DEF PutBit, WithBits, Wire

LEMMA HeadersChange ==
    ASSUME Inv, BothNext
    PROVE  HeadersStep
<1>1. \A m \in client.makes : Shape(m.nelem, m.ssize, m.psize) /\ OneScalar(m.ssize, m.psize)
    BY InvFacts, PythonAssumption, Zenon DEF Inv
<1>2. ASSUME NEW k \in Objects, NEW e \in Elements(k), NEW i \in Pointers(k)
      PROVE  /\ \A m \in client.makes : InitField(k, e, i, m) => HeadersStep
             /\ \A t \in Objects : Link(k, e, i, t) => HeadersStep
             /\ \A n \in StrLens : PutStr(k, e, i, n) => HeadersStep
             /\ \A x \in {0, 1} : AppendValue(k, e, i, x) => HeadersStep
             /\ \A kind \in DOMAIN KindShape, x \in {0, 1} :
                  AppendFirst(k, e, i, kind, x) => HeadersStep
  <2>1. ASSUME NEW m \in client.makes, InitField(k, e, i, m)
        PROVE  HeadersStep
    <3>1. \/ w'.objs = CreateIn(w, m.nelem, m.ssize, m.psize).objs
          \/ w'.objs = w.objs
        BY <2>1, PutWordHeaders, Zenon DEF InitField, PutPtr
    <3> QED
        BY <1>1, <3>1, Zenon DEF HeadersStep
  <2>2. ASSUME NEW t \in Objects, Link(k, e, i, t)
        PROVE  HeadersStep
      BY <2>2, PutWordHeaders, Zenon DEF Link, PutPtr, HeadersStep
  <2>3. ASSUME NEW n \in StrLens, PutStr(k, e, i, n)
        PROVE  HeadersStep
    <3>1. w'.objs = CreateIn(w, n + 1, 1, 0).objs
      <4>1. PICK slot, word, v, a :
               v = CreateIn(w, n + 1, 1, 0) /\ w' = PutWord(PutChars(v, a, n), slot, word)
          BY <2>3, Zenon DEF PutStr, PutPtr
      <4>2. w'.objs = PutChars(v, a, n).objs
          BY <4>1, PutWordHeaders
      <4> QED
          BY <4>1, <4>2, PutCharsHeaders, Zenon
    <3>2. Shape(n + 1, 1, 0) /\ OneScalar(1, 0)
        BY WriterAssumption DEF Shape, OneScalar
    <3> QED
        BY <3>1, <3>2, Zenon DEF HeadersStep
  <2>4. ASSUME NEW x \in {0, 1}, AppendValue(k, e, i, x)
        PROVE  HeadersStep
    <3>1. PICK list : list = TargetIn(w, Slot(Obj(w, k), e, i))
        OBVIOUS
    <3>2. PICK more : more = Obj(w, list).nelem + 1
        OBVIOUS
    <3>3. list \in Objects /\ w'.objs = ResizeIn(w, list, more).objs
      <4>1. PICK v : v = ResizeIn(w, list, more)
          OBVIOUS
      <4>2. list \in Objects /\ \/ w' = PutScalar(v, Obj(v, list), Obj(w, list).nelem, x)
                                \/ w' = v
          BY <2>4, <3>1, <3>2, <4>1, Zenon DEF AppendValue
      <4>3. w'.objs = v.objs
          BY <4>2, PutScalarHeaders
      <4> QED
          BY <4>1, <4>2, <4>3, Zenon
    <3>4. ResizeIn(w, list, more).objs = WithLength(w.objs, list, more)
        BY DEF ResizeIn, Wire
    <3>5. more \in Nat
      <4>1. Placed(Obj(w, list))
          BY <3>3, InvFacts, ObjectInside
      <4> QED
          BY <3>2, <4>1 DEF Placed, Shape
    <3> QED
        BY <3>3, <3>4, <3>5, Zenon DEF HeadersStep
  <2>5. ASSUME NEW kind \in DOMAIN KindShape, NEW x \in {0, 1}, AppendFirst(k, e, i, kind, x)
        PROVE  HeadersStep
    <3>1. PICK s, p : s = KindShape[kind].ssize /\ p = KindShape[kind].psize
        OBVIOUS
    <3>2. Shape(1, s, p) /\ OneScalar(s, p)
        BY <3>1, WriterAssumption, PythonAssumption, Zenon
    <3>3. w'.objs = CreateIn(w, 1, s, p).objs
      <4>1. PICK v : v = CreateIn(w, 1, s, p)
          OBVIOUS
      <4>2. PICK u, slot, word :
               /\ w' = PutWord(u, slot, word)
               /\ u = PutScalar(v, Obj(v, NewIndex), 0, x) \/ u = v
          BY <2>5, <3>1, <4>1, Zenon DEF AppendFirst, PutPtr
      <4>3. w'.objs = u.objs
          BY <4>2, PutWordHeaders
      <4>4. u.objs = v.objs
          BY <4>2, PutScalarHeaders
      <4> QED
          BY <4>1, <4>3, <4>4, Zenon
    <3> QED
        BY <3>2, <3>3, Zenon DEF HeadersStep
  <2> QED
      BY <2>1, <2>2, <2>3, <2>4, <2>5, Zenon
<1>3. ASSUME NEW m \in client.makes, Create(m)
      PROVE  HeadersStep
    BY <1>1, <1>3, Zenon DEF Create, HeadersStep
<1>4. ASSUME NEW k \in Objects, NEW e \in Elements(k), NEW x \in {0, 1}, SetScalar(k, e, x)
      PROVE  HeadersStep
  <2>1. w' = PutScalar(w, Obj(w, k), e, x)
      BY <1>4, Zenon DEF SetScalar
  <2>2. w'.objs = w.objs
      BY <2>1, PutScalarHeaders
  <2> QED
      BY <2>2, Zenon DEF HeadersStep
<1>5. ASSUME NEW k \in Objects, NEW n \in 1 .. MaxElems, Shrink(k, n)
      PROVE  HeadersStep
  <2>1. n \in Nat
      BY WriterAssumption
  <2>2. Wire(w.len, WithLength(w.objs, k, n), w.rel, w.bits).objs = WithLength(w.objs, k, n)
      BY DEF Wire
  <2> QED
      BY <1>5, <2>1, <2>2, Zenon DEF Shrink, HeadersStep
<1>6. ASSUME Clear
      PROVE  HeadersStep
  <2>1. Wire(0, <<>>, w.rel, w.bits).objs = <<>>
      BY DEF Wire
  <2> QED
      BY <1>6, <2>1, Zenon DEF Clear, HeadersStep
<1>7. ASSUME Next
      PROVE  HeadersStep
    BY <1>2, <1>3, <1>4, <1>5, <1>6, <1>7, Zenon DEF Next, Step
<1>8. ASSUME NEW k \in Objects, NEW e \in Elements(k), NEW x \in {0, 1}, PyPutBool(k, e, x)
      PROVE  HeadersStep
  <2>1. PICK a : w' = PutBit(w, a, 0, x)
      BY <1>8, Zenon DEF PyPutBool
  <2>2. w'.objs = w.objs
      BY <2>1, PutBitHeaders
  <2> QED
      BY <2>2, Zenon DEF HeadersStep
<1> QED
    BY <1>7, <1>8, PySteps, Zenon DEF BothNext, PythonWritesAlike

LEMMA WholeStep == Inv /\ Whole /\ [BothNext]_vars => Whole'
<1> SUFFICES ASSUME Inv, Whole, [BothNext]_vars
             PROVE  Whole'
    OBVIOUS
<1>1. Laid(w) /\ w.objs \in Seq(Headers) /\ Objects = 1 .. Len(w.objs)
    BY InvFacts DEF Laid
<1>2. PICK v : v = w'
    OBVIOUS
<1>3. SUFFICES \A j \in 1 .. Len(v.objs) : OneScalar(Obj(v, j).ssize, Obj(v, j).psize)
    BY <1>2, Zenon DEF Whole
<1>4. CASE v.objs = w.objs
    BY <1>4, Zenon DEF Whole, Obj
<1>5. ASSUME NEW n, NEW s, NEW p, Shape(n, s, p), OneScalar(s, p),
             v.objs = CreateIn(w, n, s, p).objs
      PROVE  \A j \in 1 .. Len(v.objs) : OneScalar(Obj(v, j).ssize, Obj(v, j).psize)
  <2>1. PICK u : u = CreateIn(w, n, s, p)
      OBVIOUS
  <2>2. PICK m \in Nat : m = Len(w.objs)
      BY <1>1, <1>5, CreateHeaders
  <2>3. /\ Len(u.objs) = m + 1 /\ \A j \in 1 .. m : Obj(u, j) = Obj(w, j)
        /\ Obj(u, m + 1) = NewObj(w, n, s, p)
      BY <1>1, <1>5, <2>1, <2>2, CreateHeaders
  <2>4. NewObj(w, n, s, p).ssize = s /\ NewObj(w, n, s, p).psize = p
      BY DEF NewObj, Handle
  <2>5. \A j : Obj(v, j) = Obj(u, j)
      BY <1>5, <2>1, Zenon DEF Obj
  <2>6. \A j \in 1 .. m + 1 : j \in 1 .. m \/ j = m + 1
      OBVIOUS
  <2>7. Len(v.objs) = m + 1
      BY <1>5, <2>1, <2>3, Zenon
  <2> QED
      BY <1>5, <2>2, <2>3, <2>4, <2>5, <2>6, <2>7, Zenon DEF Whole
<1>6. ASSUME NEW k \in Objects, NEW n \in Nat, v.objs = WithLength(w.objs, k, n)
      PROVE  \A j \in 1 .. Len(v.objs) : OneScalar(Obj(v, j).ssize, Obj(v, j).psize)
  <2>1. /\ Len(v.objs) = Len(w.objs) /\ Obj(v, k) = Resized(Obj(w, k), n)
        /\ \A j \in 1 .. Len(w.objs) : j # k => Obj(v, j) = Obj(w, j)
      BY <1>1, <1>6, ResizeHeaders, SMTT(20)
  <2>2. /\ Resized(Obj(w, k), n).ssize = Obj(w, k).ssize
        /\ Resized(Obj(w, k), n).psize = Obj(w, k).psize
      BY ResizedFields, Zenon
  <2> QED
      BY <2>1, <2>2, Zenon DEF Whole
<1>7. CASE v.objs = <<>>
  <2>1. 1 .. Len(v.objs) = {}
      BY <1>7
  <2> QED
      BY <2>1, Zenon
<1>8. HeadersStep \/ w' = w
    BY HeadersChange, Zenon DEF vars
<1> QED
    BY <1>2, <1>4, <1>5, <1>6, <1>7, <1>8, Zenon DEF HeadersStep

LEMMA WholeHolds == BothSpec => []Whole
<1>1. Init => Whole
  <2> SUFFICES ASSUME Init
               PROVE  Whole
      OBVIOUS
  <2>1. w.objs = <<>>
      BY DEF Init, EmptyWire, Wire
  <2>2. 1 .. Len(w.objs) = {}
      BY <2>1
  <2> QED
      BY <2>2, Zenon DEF Whole
<1> QED
    BY <1>1, WholeStep, InvHolds, PTL DEF BothSpec

ScalarSizes == {1, 2, 4, 8}

\* A scalar of 1, 2, 4 or 8 bytes is aligned in every element of an object that
\* starts at a multiple of 8.
LEMMA ScalarAligned ==
    ASSUME NEW base \in Nat, base % 8 = 0, NEW e \in Nat, NEW s \in ScalarSizes,
           NEW size \in Nat, size % s = 0
    PROVE  (base + e * size) % s = 0
<1>1. PICK q \in Nat : base = 8 * q
  <2>1. base = 8 * (base \div 8) /\ base \div 8 \in Nat
      OBVIOUS
  <2> QED
      BY <2>1
<1>2. PICK r \in Nat : size = s * r
  <2>1. size = s * (size \div s) /\ size \div s \in Nat
    <3>1. CASE s = 1
        BY <3>1
    <3>2. CASE s = 2
        BY <3>2
    <3>3. CASE s = 4
        BY <3>3
    <3>4. CASE s = 8
        BY <3>4
    <3> QED
        BY <3>1, <3>2, <3>3, <3>4 DEF ScalarSizes
  <2> QED
      BY <2>1
<1>3. PICK t \in Nat : t = e * r
    OBVIOUS
<1>4. e * size = s * t
    BY <1>2, <1>3 DEF ScalarSizes
<1>5. base + e * size = 8 * q + s * t
    BY <1>1, <1>4
<1>6. (8 * q + s * t) % s = 0
  <2>1. CASE s = 1
      BY <2>1
  <2>2. CASE s = 2
      BY <2>2
  <2>3. CASE s = 4
      BY <2>3
  <2>4. CASE s = 8
      BY <2>4
  <2> QED
      BY <2>1, <2>2, <2>3, <2>4 DEF ScalarSizes
<1> QED
    BY <1>5, <1>6

\* get_int
LEMMA PyScalarAlike ==
    ASSUME Inv, Whole, NEW k \in Objects, NEW e \in Elements(k),
           NEW o, o = Obj(w, k), o.ssize > 0
    PROVE  /\ PyScalarPtr(PyItem(o, e), 0) % o.ssize = 0
           /\ PyGetInt(PyItem(o, e)) = GetScalar(w, o, e)
<1>1. Laid(w) /\ k \in 1 .. Len(w.objs) /\ e \in 0 .. o.nelem - 1
    BY InvFacts, Zenon DEF Elements
<1>2. Placed(o) /\ o.base \in Nat
    BY <1>1, ObjectInside
<1>3. /\ o.base % 8 = 0 /\ o.nelem \in Nat /\ o.ssize \in Nat /\ o.psize \in Nat /\ e \in Nat
    BY <1>1, <1>2 DEF Placed, Shape, Align
<1>4. ElemSz(o) = o.ssize + 4 * o.psize /\ ElemSz(o) \in Nat /\ ElemSz(o) # 0
  <2>1. /\ ElemSz(o) = o.ssize + 4 * o.psize /\ ElemSz(o) \in Nat
        /\ ElemSz(o) = 0 <=> o.ssize = 0 /\ o.psize = 0
      BY <1>2, SizeFacts
  <2> QED
      BY <1>3, <2>1
<1>5. PICK a \in Nat : a = GetElem(o, e).base
    BY <1>1, <1>2, ElemFacts
<1>6. a = o.base + e * ElemSz(o)
    BY <1>1, <1>2, <1>4, <1>5, ElemFacts
<1>7. PyScalarPtr(PyItem(o, e), 0) = a /\ PyItem(o, e).ssize = o.ssize
  <2>1. PyItem(o, e).base = a /\ PyItem(o, e).ssize = o.ssize
      BY <1>1, <1>2, <1>4, <1>5, PyElemAlike, Zenon
  <2> QED
      BY <2>1 DEF PyScalarPtr
<1>8. a % o.ssize = 0
  <2>1. OneScalar(o.ssize, o.psize)
      BY <1>1, Zenon DEF Whole
  <2>2. o.ssize \in ScalarSizes /\ ElemSz(o) % o.ssize = 0
      BY <1>4, <2>1 DEF OneScalar, ScalarSizes
  <2>3. PICK s \in ScalarSizes, base \in Nat, size \in Nat :
           s = o.ssize /\ base = o.base /\ size = ElemSz(o)
      BY <1>2, <1>4, <2>2, Zenon
  <2>4. PICK i \in Nat : i = e
      BY <1>3
  <2>5. base % 8 = 0 /\ size % s = 0
      BY <1>3, <2>2, <2>3, Zenon
  <2>6. (base + i * size) % s = 0
      BY <2>5, ScalarAligned, Zenon
  <2> QED
      BY <1>6, <2>3, <2>4, <2>6, Zenon
<1>9. PICK byte : byte = w.bits[a]
    OBVIOUS
<1> DEFINE high == \E x \in a + 1 .. a + o.ssize - 1 : w.bits[x] # {}
<1> HIDE DEF high
<1>10. PyGetInt(PyItem(o, e)) =
          IF high \/ byte \notin {{}, {0}} THEN 2 ELSE Cardinality(byte)
    BY <1>7, <1>9, Zenon DEF PyGetInt, high
<1>11. GetScalar(w, o, e) =
          IF o.ssize = 0 \/ (byte = {} /\ ~high) THEN 0
          ELSE IF byte = {0} /\ ~high THEN 1 ELSE 2
    BY <1>4, <1>5, <1>9, Zenon DEF GetScalar, high
<1>12. Cardinality({}) = 0 /\ Cardinality({0}) = 1
    BY FS_EmptySet, FS_Singleton
<1>13. o.ssize # 0
    BY <1>3
<1>14. PyGetInt(PyItem(o, e)) = GetScalar(w, o, e)
  <2>1. CASE byte = {}
      BY <1>10, <1>11, <1>12, <1>13, <2>1, Zenon
  <2>2. CASE byte = {0}
    <3>1. byte # {}
        BY <2>2
    <3> QED
        BY <1>10, <1>11, <1>12, <1>13, <2>2, <3>1, Zenon
  <2>3. CASE byte # {} /\ byte # {0}
      BY <1>10, <1>11, <1>13, <2>3, Zenon
  <2> QED
      BY <2>1, <2>2, <2>3
<1> QED
    BY <1>7, <1>8, <1>14

\* get_obj: a pointer that leads to an object is positive, as the binding expects.
LEMMA PyTargetAlike ==
    ASSUME Inv, "linked" \notin faults,
           NEW k \in Objects, NEW e \in Elements(k), NEW i \in Pointers(k)
    PROVE  PyGetObj(PyItem(Obj(w, k), e), i) = TargetIn(w, Slot(Obj(w, k), e, i))
<1>1. PICK slot \in Int : slot = Slot(Obj(w, k), e, i) /\ slot = PyPtrPtr(PyItem(Obj(w, k), e), i)
    BY PyPointer, Zenon
<1>2. /\ Laid(w) /\ k \in 1 .. Len(w.objs)
      /\ e \in 0 .. Obj(w, k).nelem - 1 /\ i \in 0 .. Obj(w, k).psize - 1
    BY InvFacts, Zenon DEF Elements, Pointers
<1>3. ~(w.rel[slot] < 0)
  <2>1. SUFFICES ASSUME w.rel[slot] < 0
                 PROVE  FALSE
      OBVIOUS
  <2>2. Good(w, client.cap, FALSE, TRUE)
      BY Zenon DEF Inv
  <2>3. LeadsTo(w, k, slot)
      BY <1>1, <1>2, <2>2, Zenon DEF Good, Linked, PointersForward
  <2>4. slot < EndOf(Obj(w, k)) /\ EndOf(Obj(w, k)) \in Nat
      BY <1>1, <1>2, SlotInside, ObjectInside
  <2>5. w.rel[slot] \in Int
    <3>1. slot \in Nat /\ slot < w.len /\ w.len \in Nat
        BY <1>1, <1>2, SlotInside DEF Laid
    <3>2. /\ client.cap \in Nat /\ w.len <= client.cap /\ w.rel \in [0 .. client.cap - 1 -> Int]
        BY InvFacts DEF Good, Sized
    <3>3. slot \in 0 .. client.cap - 1
        BY <3>1, <3>2
    <3> QED
        BY <3>2, <3>3
  <2>6. w.rel[slot] # 0
      BY <2>1, <2>5
  <2>7. PICK j \in 1 .. Len(w.objs) : j > k /\ w.objs[j].at = slot + 4 * w.rel[slot]
      BY <2>3, <2>6, Zenon DEF LeadsTo
  <2>8. EndOf(Obj(w, k)) <= w.objs[j].at
      BY <1>2, <2>7 DEF Laid
  <2> QED
      BY <2>1, <2>4, <2>5, <2>7, <2>8
<1> DEFINE found == {j \in DOMAIN w.objs : w.objs[j].at = slot + WordSz * w.rel[slot]}
           ptr == PyPtrPtr(PyItem(Obj(w, k), e), i)
           pyfound == {j \in Objects : w.objs[j].at = ptr + 4 * w.rel[ptr]}
<1> HIDE DEF ptr
<1>4. ptr = slot
    BY <1>1 DEF ptr
<1>5. found = pyfound
    BY <1>4 DEF Objects, WordSz
<1> HIDE DEF found, pyfound
<1>6. TargetIn(w, slot) = IF w.rel[slot] = 0 THEN 0
                          ELSE IF found = {} THEN -1 ELSE CHOOSE j \in found : TRUE
    BY Zenon DEF TargetIn, found
<1>7. PyGetObj(PyItem(Obj(w, k), e), i) =
         IF w.rel[ptr] = 0 THEN 0
         ELSE IF w.rel[ptr] < 0 \/ pyfound = {} THEN -1 ELSE CHOOSE j \in pyfound : TRUE
    BY Zenon DEF PyGetObj, pyfound, ptr
<1>8. PyGetObj(PyItem(Obj(w, k), e), i) =
         IF w.rel[slot] = 0 THEN 0
         ELSE IF w.rel[slot] < 0 \/ found = {} THEN -1 ELSE CHOOSE j \in found : TRUE
    BY <1>4, <1>5, <1>7
<1>9. PyGetObj(PyItem(Obj(w, k), e), i) = TargetIn(w, slot)
    BY <1>3, <1>6, <1>8
<1> QED
    BY <1>1, <1>9, Zenon

\* Python reads every scalar and follows every pointer as C does, aligned and in
\* range, in a message that programs in both languages wrote.
THEOREM PythonReadsAsC == BothSpec => []PythonReadsAlike
<1>1. Inv /\ Whole => PythonReadsAlike
  <2> SUFFICES ASSUME Inv, Whole, "linked" \notin faults,
                      NEW k \in Objects, NEW e \in Elements(k)
               PROVE  LET o == Obj(w, k)
                          item == PyItem(o, e)
                      IN  /\ o.ssize > 0 => /\ PyScalarPtr(item, 0) % o.ssize = 0
                                            /\ PyGetInt(item) = GetScalar(w, o, e)
                          /\ \A i \in Pointers(k) : PyGetObj(item, i) = TargetIn(w, Slot(o, e, i))
      BY Zenon DEF PythonReadsAlike
  <2>1. PICK o : o = Obj(w, k)
      OBVIOUS
  <2>2. o.ssize > 0 => /\ PyScalarPtr(PyItem(o, e), 0) % o.ssize = 0
                       /\ PyGetInt(PyItem(o, e)) = GetScalar(w, o, e)
      BY <2>1, PyScalarAlike, Zenon
  <2>3. \A i \in Pointers(k) :
           PyGetObj(PyItem(Obj(w, k), e), i) = TargetIn(w, Slot(Obj(w, k), e, i))
      BY PyTargetAlike, Zenon
  <2> QED
      BY <2>1, <2>2, <2>3, Zenon
<1> QED
    BY <1>1, InvHolds, WholeHolds, PTL

-----------------------------------------------------------------------------
(* The buffer as a message *)

\* A buffer of a program that met no fault
Clean(u, cap) == Good(u, cap, TRUE, TRUE)

\* The object each pointer word leads to, and the k-th object as it is read
Targets(u) == [slot \in DOMAIN u.rel |-> TargetIn(u, slot)]
Seen(u, k) == Shown(u, Obj(u, k), Targets(u))

LEMMA CleanFacts ==
    ASSUME NEW cap, NEW u, Clean(u, cap)
    PROVE  /\ Laid(u) /\ u.len \in Nat /\ u.len <= cap /\ Padded(u)
           /\ PointersForward(u) /\ LastNull(u)
           /\ u.rel \in [0 .. cap - 1 -> Int] /\ DOMAIN u.rel = 0 .. cap - 1
           /\ u.bits \in Bytes(cap)
           /\ Len(u.objs) \in Nat /\ DOMAIN u.objs = 1 .. Len(u.objs)
<1>1. /\ Laid(u) /\ u.len <= cap /\ u.rel \in [0 .. cap - 1 -> Int] /\ u.bits \in Bytes(cap)
      /\ Padded(u) /\ PointersForward(u) /\ LastNull(u)
    BY DEF Clean, Good, Sized, Linked
<1>2. u.len \in Nat /\ u.objs \in Seq(Headers)
    BY <1>1, Zenon DEF Laid
<1>3. Len(u.objs) \in Nat /\ DOMAIN u.objs = 1 .. Len(u.objs)
    BY <1>2
<1>4. DOMAIN u.rel = 0 .. cap - 1
    BY <1>1
<1> QED
    BY <1>1, <1>2, <1>3, <1>4

LEMMA SeenAll ==
    ASSUME NEW cap, NEW u, Clean(u, cap)
    PROVE  /\ ObjectsIn(u) = [k \in 1 .. Len(u.objs) |-> Seen(u, k)]
           /\ Len(ObjectsIn(u)) = Len(u.objs) /\ DOMAIN ObjectsIn(u) = 1 .. Len(u.objs)
           /\ \A k \in 1 .. Len(u.objs) : ObjectsIn(u)[k] = Seen(u, k)
<1>1. PICK n \in Nat : n = Len(u.objs)
    BY CleanFacts
<1>2. DOMAIN u.objs = 1 .. n
    BY <1>1, CleanFacts, Zenon
<1>3. ObjectsIn(u) = [k \in 1 .. n |-> Seen(u, k)]
    BY <1>2, Zenon DEF ObjectsIn, Seen, Targets
<1>4. PICK S : S = {Seen(u, k) : k \in 1 .. n}
    OBVIOUS
<1>5. \A k \in 1 .. n : Seen(u, k) \in S
    BY <1>4
<1>6. ObjectsIn(u) \in [1 .. n -> S]
    BY <1>3, <1>5, Zenon
<1>7. Len(ObjectsIn(u)) = n
    BY <1>6
<1> QED
    BY <1>1, <1>3, <1>7, Zenon

\* The objects of u are among those of v, at the places where they were.
Extends(u, v) ==
    /\ Len(u.objs) <= Len(v.objs)
    /\ \A j \in 1 .. Len(u.objs) : v.objs[j].at = u.objs[j].at

\* A pointer word that is not written leads where it led.
LEMMA TargetKept ==
    ASSUME NEW cap \in Nat, NEW u, Clean(u, cap), NEW v, Clean(v, cap), Extends(u, v),
           NEW k \in 1 .. Len(u.objs),
           NEW e \in 0 .. Obj(u, k).nelem - 1, NEW i \in 0 .. Obj(u, k).psize - 1,
           NEW slot, slot = Slot(Obj(u, k), e, i), v.rel[slot] = u.rel[slot]
    PROVE  slot \in 0 .. cap - 1 /\ Targets(v)[slot] = Targets(u)[slot]
<1>1. /\ Laid(u) /\ Laid(v) /\ u.len \in Nat /\ u.len <= cap /\ PointersForward(u)
      /\ DOMAIN u.rel = 0 .. cap - 1 /\ DOMAIN v.rel = 0 .. cap - 1
      /\ Len(u.objs) \in Nat /\ Len(v.objs) \in Nat
    BY CleanFacts
<1>2. slot \in 0 .. cap - 1
  <2>1. slot \in Nat /\ slot < u.len
      BY <1>1, SlotInside
  <2> QED
      BY <1>1, <2>1
<1>3. Targets(v)[slot] = TargetIn(v, slot) /\ Targets(u)[slot] = TargetIn(u, slot)
    BY <1>1, <1>2, Zenon DEF Targets
<1>4. CASE u.rel[slot] = 0
    BY <1>2, <1>3, <1>4 DEF TargetIn
<1>5. CASE u.rel[slot] # 0
  <2>1. LeadsTo(u, k, slot)
      BY <1>1, Zenon DEF PointersForward
  <2>2. PICK j \in 1 .. Len(u.objs) : u.objs[j].at = slot + 4 * u.rel[slot]
      BY <1>5, <2>1, Zenon DEF LeadsTo
  <2>3. TargetIn(u, slot) = j
      BY <1>1, <1>5, <2>2, TargetFound, Zenon
  <2>4. j \in 1 .. Len(v.objs)
      BY <1>1 DEF Extends
  <2>5. v.objs[j].at = slot + 4 * v.rel[slot] /\ v.rel[slot] # 0
      BY <1>5, <2>2, Zenon DEF Extends
  <2>6. TargetIn(v, slot) = j
      BY <1>1, <2>4, <2>5, TargetFound, Zenon
  <2> QED
      BY <1>2, <1>3, <2>3, <2>6
<1> QED
    BY <1>4, <1>5

\* An object none of whose bytes is written reads as before.
SameAt(u, v, a) == v.bits[a] = u.bits[a] /\ v.rel[a] = u.rel[a]

LEMMA SeenKept ==
    ASSUME NEW cap \in Nat, NEW u, Clean(u, cap), NEW v, Clean(v, cap), Extends(u, v),
           NEW k \in 1 .. Len(u.objs), Obj(v, k) = Obj(u, k),
           \A a \in Obj(u, k).base .. EndOf(Obj(u, k)) - 1 : SameAt(u, v, a)
    PROVE  Seen(v, k) = Seen(u, k)
<1>1. PICK o : o = Obj(u, k)
    OBVIOUS
<1>2. Laid(u)
    BY CleanFacts
<1>3. Placed(o) /\ EndOf(o) \in Nat /\ o.base \in Nat
    BY <1>1, <1>2, ObjectInside
<1>4. TotalSz(o) \in Nat /\ o.base + TotalSz(o) <= EndOf(o)
    BY <1>3, SizeFacts
<1>5. \A a \in o.base .. o.base + TotalSz(o) - 1 : v.bits[a] = u.bits[a]
  <2> TAKE a \in o.base .. o.base + TotalSz(o) - 1
  <2>1. a \in o.base .. EndOf(o) - 1
      BY <1>3, <1>4
  <2> QED
      BY <1>1, <2>1, Zenon DEF SameAt
<1>6. \A e \in 0 .. o.nelem - 1 : GetScalar(v, o, e) = GetScalar(u, o, e)
    BY <1>3, <1>5, ScalarKept, ZenonT(60)
<1>7. ASSUME NEW e \in 0 .. o.nelem - 1, NEW i \in 0 .. o.psize - 1
      PROVE  Targets(v)[Slot(o, e, i)] = Targets(u)[Slot(o, e, i)]
  <2>1. PICK slot : slot = Slot(Obj(u, k), e, i)
      OBVIOUS
  <2>2. e \in 0 .. Obj(u, k).nelem - 1 /\ i \in 0 .. Obj(u, k).psize - 1
      BY <1>1
  <2>3. slot \in Nat /\ Obj(u, k).base <= slot /\ slot < EndOf(Obj(u, k))
      BY <1>2, <2>1, <2>2, SlotInside
  <2>4. slot \in Obj(u, k).base .. EndOf(Obj(u, k)) - 1
      BY <1>1, <1>3, <2>3
  <2>5. v.rel[slot] = u.rel[slot]
      BY <2>4, Zenon DEF SameAt
  <2>6. Targets(v)[slot] = Targets(u)[slot]
      BY <2>1, <2>2, <2>5, TargetKept
  <2> QED
      BY <1>1, <2>1, <2>6
<1>8. o.nelem \in Nat /\ o.psize \in Nat
    BY <1>3 DEF Placed, Shape
<1>9. Shown(v, o, Targets(v)) = Shown(u, o, Targets(u))
    BY <1>6, <1>7, <1>8, ShownAlike
<1> QED
    BY <1>1, <1>9, Zenon DEF Seen

\* So do all objects but the k-th when only its bytes are written.
LEMMA SeenOthers ==
    ASSUME NEW cap \in Nat, NEW u, Clean(u, cap), NEW v, Clean(v, cap), Extends(u, v),
           NEW k \in 1 .. Len(u.objs),
           \A a \in 0 .. u.len - 1 :
              a < Obj(u, k).base \/ EndOf(Obj(u, k)) <= a => SameAt(u, v, a),
           NEW j \in 1 .. Len(u.objs), j # k, Obj(v, j) = Obj(u, j)
    PROVE  Seen(v, j) = Seen(u, j)
<1>1. Laid(u)
    BY CleanFacts
<1>2. /\ EndOf(Obj(u, j)) \in Nat /\ EndOf(Obj(u, j)) <= u.len /\ Obj(u, j).base \in Nat
      /\ u.len \in Nat
    BY <1>1, ObjectInside
<1>3. ASSUME NEW a \in Obj(u, j).base .. EndOf(Obj(u, j)) - 1
      PROVE  SameAt(u, v, a)
  <2>1. a \in 0 .. u.len - 1 /\ a \in Int /\ Obj(u, j).base <= a /\ a < EndOf(Obj(u, j))
      BY <1>2
  <2>2. a < Obj(u, k).base \/ EndOf(Obj(u, k)) <= a
      BY <1>1, <2>1, ObjectsApart
  <2> QED
      BY <2>1, <2>2, Zenon
<1> QED
    BY <1>3, SeenKept, Zenon
\* The last object has null pointers only.
LEMMA LastTargets ==
    ASSUME NEW cap \in Nat, NEW v, Clean(v, cap), NEW k \in 1 .. Len(v.objs), k = Len(v.objs),
           NEW e \in 0 .. Obj(v, k).nelem - 1, NEW i \in 0 .. Obj(v, k).psize - 1
    PROVE  Targets(v)[Slot(Obj(v, k), e, i)] = 0
<1>1. /\ Laid(v) /\ v.len \in Nat /\ v.len <= cap /\ LastNull(v) /\ DOMAIN v.rel = 0 .. cap - 1
    BY CleanFacts
<1>2. PICK slot : slot = Slot(Obj(v, k), e, i)
    OBVIOUS
<1>3. slot \in Nat /\ Obj(v, k).base <= slot /\ slot < v.len
    BY <1>1, <1>2, SlotInside
<1>4. Obj(v, k).base \in Nat
    BY <1>1, ObjectInside
<1>5. slot \in Obj(v, k).base .. v.len - 1 /\ slot \in 0 .. cap - 1
    BY <1>1, <1>3, <1>4
<1>6. v.rel[slot] = 0
    BY <1>1, <1>5, Zenon DEF LastNull
<1>7. Targets(v)[slot] = TargetIn(v, slot)
    BY <1>1, <1>5, Zenon DEF Targets
<1>8. TargetIn(v, slot) = 0
    BY <1>6 DEF TargetIn
<1> QED
    BY <1>2, <1>7, <1>8

NullsAt(v, k) ==
    \A e \in 0 .. Obj(v, k).nelem - 1, i \in 0 .. Obj(v, k).psize - 1 :
        Targets(v)[Slot(Obj(v, k), e, i)] = 0

LEMMA LastNulls ==
    ASSUME NEW cap \in Nat, NEW v, Clean(v, cap), Len(v.objs) \in 1 .. Len(v.objs)
    PROVE  NullsAt(v, Len(v.objs))
  BY LastTargets DEF NullsAt

\* v is u with one more object, which reads as x.
Made(u, v, cap, x) ==
    /\ Clean(v, cap) /\ Len(v.objs) = Len(u.objs) + 1
    /\ \A j \in 1 .. Len(u.objs) : v.objs[j] = u.objs[j]
    /\ v.objs[Len(u.objs) + 1].at = u.len
    /\ \A a \in 0 .. u.len - 1 : SameAt(u, v, a)
    /\ Seen(v, Len(u.objs) + 1) = x

\* The objects there were read as before.
LEMMA MadeSeen ==
    ASSUME NEW cap \in Nat, NEW u, Clean(u, cap), NEW v, NEW x, Made(u, v, cap, x)
    PROVE  /\ Extends(u, v)
           /\ \A j \in 1 .. Len(u.objs) : Obj(v, j) = Obj(u, j) /\ Seen(v, j) = Seen(u, j)
<1>1. /\ Clean(v, cap) /\ Len(v.objs) = Len(u.objs) + 1
      /\ \A j \in 1 .. Len(u.objs) : v.objs[j] = u.objs[j]
      /\ \A a \in 0 .. u.len - 1 : SameAt(u, v, a)
    BY Zenon DEF Made
<1>2. Laid(u) /\ Len(u.objs) \in Nat
    BY CleanFacts
<1>3. Extends(u, v)
    BY <1>1, <1>2 DEF Extends
<1>4. ASSUME NEW j \in 1 .. Len(u.objs)
      PROVE  Obj(v, j) = Obj(u, j) /\ Seen(v, j) = Seen(u, j)
  <2>1. Obj(v, j) = Obj(u, j)
      BY <1>1, Zenon DEF Obj
  <2>2. /\ EndOf(Obj(u, j)) \in Nat /\ EndOf(Obj(u, j)) <= u.len /\ Obj(u, j).base \in Nat
        /\ u.len \in Nat
      BY <1>2, ObjectInside
  <2>3. ASSUME NEW a \in Obj(u, j).base .. EndOf(Obj(u, j)) - 1
        PROVE  SameAt(u, v, a)
    <3>1. a \in 0 .. u.len - 1
        BY <2>2
    <3> QED
        BY <1>1, <3>1, Zenon
  <2> QED
      BY <1>1, <1>3, <2>1, <2>3, SeenKept, Zenon
<1> QED
    BY <1>3, <1>4

\* Creation appends the object to the message.
LEMMA MadeNew ==
    ASSUME NEW cap \in Nat, NEW u, Clean(u, cap), NEW v, NEW x, Made(u, v, cap, x)
    PROVE  ObjectsIn(v) = Append(ObjectsIn(u), x)
<1>1. PICK n \in Nat : n = Len(u.objs)
    BY CleanFacts
<1>2. PICK os, ns : os = ObjectsIn(u) /\ ns = ObjectsIn(v)
    OBVIOUS
<1>3. Clean(v, cap) /\ Len(v.objs) = n + 1 /\ Seen(v, n + 1) = x
    BY <1>1, Zenon DEF Made
<1>4. \A j \in 1 .. n : Seen(v, j) = Seen(u, j)
  <2>1. \A j \in 1 .. Len(u.objs) : Obj(v, j) = Obj(u, j) /\ Seen(v, j) = Seen(u, j)
      BY MadeSeen, Zenon
  <2> QED
      BY <1>1, <2>1, Zenon
<1>5. os = [j \in 1 .. n |-> Seen(u, j)]
    BY <1>1, <1>2, SeenAll, Zenon
<1>6. ns = [j \in 1 .. n + 1 |-> Seen(v, j)]
    BY <1>2, <1>3, SeenAll, Zenon
<1>7. PICK S : S = {Seen(v, j) : j \in 1 .. n + 1}
    OBVIOUS
<1>8. n + 1 \in 1 .. n + 1 /\ \A j \in 1 .. n : j \in 1 .. n + 1
    OBVIOUS
<1>9. \A j \in 1 .. n + 1 : Seen(v, j) \in S
    BY <1>7
<1>10. ns \in [1 .. n + 1 -> S]
    BY <1>6, <1>9, Zenon
<1>11. os \in [1 .. n -> S]
    BY <1>4, <1>5, <1>8, <1>9, Zenon
<1>12. x \in S /\ ns[n + 1] = x /\ \A j \in 1 .. n : ns[j] = os[j]
    BY <1>3, <1>4, <1>5, <1>6, <1>8, <1>9, Zenon
<1>13. ns = Append(os, x)
    BY <1>10, <1>11, <1>12, AppendIs
<1> QED
    BY <1>2, <1>13, Zenon

\* The buffer in which pointer i of element e of object k leads to object t
LinkedTo(u, k, e, i, t) ==
    PutWord(u, Slot(Obj(u, k), e, i), RelTo(Slot(Obj(u, k), e, i), u.objs[t].at))

\* v is u but for what object k reads as.
SeenBut(u, v, k, cap) ==
    /\ Clean(v, cap) /\ Len(v.objs) = Len(u.objs)
    /\ \A j \in 1 .. Len(u.objs) : j # k => Seen(v, j) = Seen(u, j)

\* A link changes the pointer and nothing else.
LEMMA LinkSeen ==
    ASSUME NEW cap \in Nat, NEW u, Clean(u, cap),
           NEW k \in 1 .. Len(u.objs), NEW t \in 1 .. Len(u.objs),
           NEW e \in 0 .. Obj(u, k).nelem - 1, NEW i \in 0 .. Obj(u, k).psize - 1,
           u.objs[t].at > Slot(Obj(u, k), e, i)
    PROVE  /\ SeenBut(u, LinkedTo(u, k, e, i, t), k, cap)
           /\ Seen(LinkedTo(u, k, e, i, t), k) = Relinked(Seen(u, k), e, i, t)
<1>1. PICK o : o = Obj(u, k)
    OBVIOUS
<1>20. PICK slot : slot = Slot(Obj(u, k), e, i)
    OBVIOUS
<1>21. PICK v : v = LinkedTo(u, k, e, i, t)
    OBVIOUS
<1>2. PICK word : word = RelTo(slot, u.objs[t].at)
    OBVIOUS
<1>3. /\ Laid(u) /\ u.len \in Nat /\ u.len <= cap /\ DOMAIN u.rel = 0 .. cap - 1
      /\ u.rel \in [0 .. cap - 1 -> Int] /\ Len(u.objs) \in Nat
    BY CleanFacts
<1>4. v.objs = u.objs /\ v.bits = u.bits /\ v.len = u.len /\ v.rel = [u.rel EXCEPT ![slot] = word]
    BY <1>2, <1>20, <1>21 DEF LinkedTo, PutWord, Wire
<1>5. Clean(v, cap)
  <2>1. PICK yes : yes = TRUE
      OBVIOUS
  <2>2. Good(u, cap, yes, yes)
      BY <2>1, Zenon DEF Clean
  <2>3. Good(PutWord(u, slot, RelTo(slot, u.objs[t].at)), cap, yes, yes)
      BY <1>20, <2>2, LinkGood
  <2> QED
      BY <1>20, <1>21, <2>1, <2>3, Zenon DEF Clean, LinkedTo
<1>6. /\ slot \in Nat /\ slot % 4 = 0 /\ o.base <= slot /\ slot < EndOf(o) /\ slot < u.len
    BY <1>1, <1>3, <1>20, SlotInside
<1>7. slot \in 0 .. cap - 1
    BY <1>3, <1>6
<1>8. v.rel[slot] = word /\ \A a \in 0 .. cap - 1 : a # slot => v.rel[a] = u.rel[a]
    BY <1>3, <1>4, <1>7
<1>9. \A j : Obj(v, j) = Obj(u, j)
    BY <1>4, Zenon DEF Obj
<1>10. Extends(u, v)
    BY <1>3, <1>4 DEF Extends
<1>11. Targets(v)[slot] = t
  <2>1. u.objs[t].at \in Nat /\ u.objs[t].at % 4 = 0
    <3>1. u.objs[t].at \in Nat /\ Tiled(u) /\ t \in DOMAIN u.objs
        BY <1>3, ObjectInside, LaidTiled, CleanFacts
    <3>2. u.objs[t].at % 8 = 0
        BY <3>1 DEF Tiled, Align
    <3> QED
        BY <3>1, <3>2
  <2>7. PICK at \in Int : at = u.objs[t].at
      BY <2>1
  <2>8. slot \in Int /\ slot % 4 = 0 /\ at % 4 = 0 /\ word = RelTo(slot, at) /\ at > slot
      BY <1>2, <1>6, <1>20, <2>1, <2>7
  <2>9. slot + 4 * word = at /\ word \in Int
      BY <2>8, RelToFacts
  <2>2. slot + 4 * word = u.objs[t].at /\ word \in Int
      BY <2>7, <2>9
  <2>10. slot \in Int /\ at > slot
      BY <2>8, Zenon
  <2>3. word # 0
      BY <2>9, <2>10
  <2>4. v.rel[slot] # 0 /\ v.objs[t].at = slot + 4 * v.rel[slot] /\ t \in 1 .. Len(v.objs)
      BY <1>4, <1>8, <2>2, <2>3
  <2>5. Laid(v) /\ DOMAIN v.rel = 0 .. cap - 1
      BY <1>5, CleanFacts
  <2>6. TargetIn(v, slot) = t
      BY <2>4, <2>5, TargetFound, Zenon
  <2> QED
      BY <1>7, <2>5, <2>6, Zenon DEF Targets
<1>12. Placed(o) /\ EndOf(o) <= u.len /\ EndOf(o) \in Nat /\ o.base \in Nat
    BY <1>1, <1>3, ObjectInside
<1>13. o.nelem \in Nat /\ o.psize \in Nat
    BY <1>12 DEF Placed, Shape
<1>14. ASSUME NEW d \in 0 .. o.nelem - 1, NEW j \in 0 .. o.psize - 1, d # e \/ j # i
       PROVE  Targets(v)[Slot(o, d, j)] = Targets(u)[Slot(o, d, j)]
  <2>1. PICK s : s = Slot(Obj(u, k), d, j)
      OBVIOUS
  <2>2. d \in 0 .. Obj(u, k).nelem - 1 /\ j \in 0 .. Obj(u, k).psize - 1
      BY <1>1
  <2>3. s # slot
      BY <1>1, <1>12, <1>14, <1>20, <2>1, SlotsDiffer
  <2>4. s \in Nat /\ s < u.len
      BY <1>3, <2>1, <2>2, SlotInside
  <2>5. v.rel[s] = u.rel[s]
      BY <1>3, <1>8, <2>3, <2>4
  <2>6. Targets(v)[s] = Targets(u)[s]
      BY <1>5, <1>10, <2>1, <2>2, <2>5, TargetKept
  <2> QED
      BY <1>1, <2>1, <2>6
<1>15. Shown(v, o, Targets(v)) = Relinked(Shown(u, o, Targets(u)), e, i, t)
  <2>1. \A d \in 0 .. o.nelem - 1 : GetScalar(v, o, d) = GetScalar(u, o, d)
      BY <1>4, Zenon DEF GetScalar
  <2>2. e \in 0 .. o.nelem - 1 /\ i \in 0 .. o.psize - 1 /\ Targets(v)[Slot(o, e, i)] = t
      BY <1>1, <1>11, <1>20, Zenon
  <2>3. PICK f, g : f = Targets(u) /\ g = Targets(v)
      OBVIOUS
  <2>4. \A d \in 0 .. o.nelem - 1, j \in 0 .. o.psize - 1 :
           d # e \/ j # i => g[Slot(o, d, j)] = f[Slot(o, d, j)]
      BY <1>14, <2>3, Zenon
  <2>5. g[Slot(o, e, i)] = t
      BY <2>2, <2>3, Zenon
  <2>7. e \in 0 .. o.nelem - 1 /\ i \in 0 .. o.psize - 1
      BY <2>2, Zenon
  <2>6. Shown(v, o, g) = Relinked(Shown(u, o, f), e, i, t)
      BY <1>13, <2>1, <2>7, <2>4, <2>5, ShownRelinked, SMTT(60)
  <2> QED
      BY <2>3, <2>6, Zenon
<1>16. ASSUME NEW j \in 1 .. Len(u.objs), j # k
       PROVE  Seen(v, j) = Seen(u, j)
  <2>1. ASSUME NEW a \in 0 .. u.len - 1, a < o.base \/ EndOf(o) <= a
        PROVE  SameAt(u, v, a)
    <3>1. a \in 0 .. cap - 1 /\ a # slot
      <4>1. slot \in Nat /\ o.base <= slot /\ slot < EndOf(o) /\ u.len \in Nat /\ u.len <= cap
          BY <1>3, <1>6, Zenon
      <4>2. EndOf(o) \in Nat /\ o.base \in Nat
          BY <1>12, Zenon
      <4> QED
          BY <2>1, <4>1, <4>2
    <3> QED
        BY <1>4, <1>8, <3>1, Zenon DEF SameAt
  <2>2. \A a \in 0 .. u.len - 1 : a < Obj(u, k).base \/ EndOf(Obj(u, k)) <= a => SameAt(u, v, a)
      BY <1>1, <2>1, Zenon
  <2>3. Obj(v, j) = Obj(u, j)
      BY <1>9, Zenon
  <2> QED
      BY <1>5, <1>10, <1>16, <2>2, <2>3, SeenOthers, Zenon
<1> QED
    BY <1>1, <1>4, <1>5, <1>9, <1>15, <1>16, <1>21, Zenon DEF Seen, SeenBut

\* A change of one object
LEMMA SeenChange ==
    ASSUME NEW cap, NEW u, Clean(u, cap), NEW k \in 1 .. Len(u.objs), NEW v, SeenBut(u, v, k, cap),
           NEW x, Seen(v, k) = x
    PROVE  ObjectsIn(v) = [ObjectsIn(u) EXCEPT ![k] = x]
<1>1. PICK n : n = Len(u.objs)
    OBVIOUS
<1>2. PICK os, ns : os = ObjectsIn(u) /\ ns = ObjectsIn(v)
    OBVIOUS
<1>3. /\ Clean(v, cap) /\ Len(v.objs) = n
      /\ \A j \in 1 .. n : j # k => Seen(v, j) = Seen(u, j)
    BY <1>1, Zenon DEF SeenBut
<1>4. os = [j \in 1 .. n |-> Seen(u, j)]
    BY <1>1, <1>2, SeenAll, Zenon
<1>5. ns = [j \in 1 .. n |-> Seen(v, j)]
    BY <1>2, <1>3, SeenAll, Zenon
<1>6. k \in 1 .. n
    BY <1>1
<1>7. ns = [os EXCEPT ![k] = x]
    BY <1>3, <1>4, <1>5, <1>6
<1> QED
    BY <1>2, <1>7, Zenon

\* The effects of MsgGraph on one object
LEMMA LinkIs ==
    ASSUME NEW os, NEW k, NEW e, NEW i, NEW x
    PROVE  Msg!WithLink(os, k, e, i, x) = [os EXCEPT ![k] = Relinked(os[k], e, i, x)]
  BY DEF Msg!WithLink, Relinked

LEMMA ValueIs ==
    ASSUME NEW os, NEW k, NEW e, NEW x
    PROVE  Msg!WithValue(os, k, e, x) = [os EXCEPT ![k] = Rewritten(os[k], e, x)]
  BY DEF Msg!WithValue, Rewritten

\* A link is what the call says.
LEMMA LinkedReads ==
    ASSUME NEW cap \in Nat, NEW u, Clean(u, cap), NEW k \in 1 .. Len(u.objs),
           NEW e, NEW i, NEW t, NEW v, SeenBut(u, v, k, cap),
           Seen(v, k) = Relinked(Seen(u, k), e, i, t)
    PROVE  ObjectsIn(v) = Msg!WithLink(ObjectsIn(u), k, e, i, t)
<1>1. PICK os : os = ObjectsIn(u)
    OBVIOUS
<1>2. os[k] = Seen(u, k)
    BY <1>1, SeenAll, Zenon
<1>3. Seen(v, k) = Relinked(os[k], e, i, t)
    BY <1>2, Zenon
<1>4. ObjectsIn(v) = [os EXCEPT ![k] = Relinked(os[k], e, i, t)]
    BY <1>1, <1>3, SeenChange
<1> QED
    BY <1>1, <1>4, LinkIs

\* Creation of an object and the link to it
LEMMA MadeLinked ==
    ASSUME NEW cap \in Nat, NEW u, Clean(u, cap), NEW k \in 1 .. Len(u.objs),
           NEW e \in 0 .. Obj(u, k).nelem - 1, NEW i \in 0 .. Obj(u, k).psize - 1,
           NEW mid, NEW x, Made(u, mid, cap, x),
           NEW v, v = PutWord(mid, Slot(Obj(u, k), e, i), RelTo(Slot(Obj(u, k), e, i), u.len))
    PROVE  /\ ObjectsIn(v)
                = Msg!WithLink(Append(ObjectsIn(u), x), k, e, i, Len(ObjectsIn(u)) + 1)
           /\ Clean(mid, cap) /\ k \in 1 .. Len(mid.objs) /\ SeenBut(mid, v, k, cap)
           /\ Seen(v, k) = Relinked(Seen(mid, k), e, i, Len(u.objs) + 1)
<1>1. PICK n \in Nat : n = Len(u.objs)
    BY CleanFacts
<1>2. PICK t \in Nat : t = n + 1
    OBVIOUS
<1>3. k \in 1 .. n /\ k \in 1 .. t /\ t \in 1 .. t
    BY <1>1, <1>2
<1>4. Clean(mid, cap) /\ Len(mid.objs) = t /\ mid.objs[t].at = u.len
    BY <1>1, <1>2, Zenon DEF Made
<1>5. Obj(mid, k) = Obj(u, k)
  <2>1. \A j \in 1 .. Len(u.objs) : Obj(mid, j) = Obj(u, j) /\ Seen(mid, j) = Seen(u, j)
      BY MadeSeen
  <2> QED
      BY <2>1, Zenon
<1>6. PICK slot : slot = Slot(Obj(u, k), e, i)
    OBVIOUS
<1>7. u.len > slot
  <2>1. Laid(u) /\ u.len \in Nat
      BY CleanFacts
  <2>2. slot \in Nat /\ slot < u.len
      BY <1>6, <2>1, SlotInside
  <2> QED
      BY <2>1, <2>2
<1>8. slot = Slot(Obj(mid, k), e, i)
    BY <1>5, <1>6, Zenon
<1>9. v = LinkedTo(mid, k, e, i, t)
    BY <1>4, <1>6, <1>8, Zenon DEF LinkedTo
<1>10. SeenBut(mid, v, k, cap) /\ Seen(v, k) = Relinked(Seen(mid, k), e, i, t)
  <2>1. /\ k \in 1 .. Len(mid.objs) /\ t \in 1 .. Len(mid.objs)
        /\ e \in 0 .. Obj(mid, k).nelem - 1 /\ i \in 0 .. Obj(mid, k).psize - 1
        /\ mid.objs[t].at > Slot(Obj(mid, k), e, i)
      BY <1>3, <1>4, <1>5, <1>7, <1>8, Zenon
  <2> QED
      BY <1>4, <1>9, <2>1, LinkSeen
<1>11. ObjectsIn(v) = Msg!WithLink(ObjectsIn(mid), k, e, i, t)
    BY <1>3, <1>4, <1>10, LinkedReads
<1>12. ObjectsIn(mid) = Append(ObjectsIn(u), x)
    BY MadeNew
<1>13. t = Len(ObjectsIn(u)) + 1
    BY <1>1, <1>2, SeenAll, Zenon
<1> QED
    BY <1>1, <1>2, <1>3, <1>4, <1>10, <1>11, <1>12, <1>13, Zenon

\* v is u with the object o at its end, all of whose bytes are 0.
BlankAdded(u, v, o, cap) ==
    /\ Clean(v, cap) /\ Len(v.objs) = Len(u.objs) + 1 /\ Len(u.objs) \in Nat
    /\ \A j \in 1 .. Len(u.objs) : v.objs[j] = u.objs[j]
    /\ v.objs[Len(u.objs) + 1].at = u.len
    /\ Obj(v, Len(u.objs) + 1) = o
    /\ \A a \in 0 .. u.len - 1 : SameAt(u, v, a)
    /\ \A a \in u.len + 8 .. v.len - 1 : v.bits[a] = {}
    /\ v.len = EndOf(o)

\* What _nbuf_create leaves in the bytes
LEMMA CreateBytes ==
    ASSUME NEW cap \in Nat, NEW u, Clean(u, cap), NEW n, NEW s, NEW p, Shape(n, s, p),
           EndOf(NewObj(u, n, s, p)) <= cap, NEW v, v = CreateIn(u, n, s, p)
    PROVE  BlankAdded(u, v, NewObj(u, n, s, p), cap)
<1>1. Laid(u) /\ u.len \in Nat /\ u.len <= cap /\ u.rel \in [0 .. cap - 1 -> Int] /\ u.bits \in Bytes(cap)
    BY CleanFacts
<1>2. PICK lo \in Nat, hi \in Nat : lo = u.len + 8 /\ hi = EndOf(NewObj(u, n, s, p))
    BY <1>1, NewPlaced
<1>3. /\ v.rel = Cleared(u.rel, lo, hi, 0) /\ v.bits = Cleared(u.bits, lo, hi, {}) /\ v.len = hi
  <2>1. NewObj(u, n, s, p).base = u.len + 8
      BY <1>1, NewPlaced
  <2> QED
      BY <1>2, <2>1 DEF CreateIn, Wire
<1>4. /\ \A a \in 0 .. cap - 1 : a < lo => v.rel[a] = u.rel[a] /\ v.bits[a] = u.bits[a]
      /\ \A a \in 0 .. cap - 1 : lo <= a /\ a < hi => v.bits[a] = {}
  <2>1. PICK rel, bits : rel = u.rel /\ bits = u.bits
      OBVIOUS
  <2>2. rel \in [0 .. cap - 1 -> Int] /\ bits \in Bytes(cap)
      BY <1>1, <2>1, Zenon
  <2>3. /\ \A a \in 0 .. cap - 1 : a < lo => /\ Cleared(rel, lo, hi, 0)[a] = rel[a]
                                            /\ Cleared(bits, lo, hi, {})[a] = bits[a]
        /\ \A a \in 0 .. cap - 1 : lo <= a /\ a < hi => /\ Cleared(rel, lo, hi, 0)[a] = 0
                                                        /\ Cleared(bits, lo, hi, {})[a] = {}
      BY <2>2 DEF Cleared, Bytes
  <2> QED
      BY <1>3, <2>1, <2>3, Zenon
<1>5. \A a \in 0 .. u.len - 1 : a \in 0 .. cap - 1 /\ a < lo
    BY <1>1, <1>2
<1>6. \A a \in u.len + 8 .. v.len - 1 : a \in 0 .. cap - 1 /\ lo <= a /\ a < hi
    BY <1>1, <1>2, <1>3
<1>7. \A a \in 0 .. u.len - 1 : SameAt(u, v, a)
    BY <1>4, <1>5, Zenon DEF SameAt
<1>8. \A a \in u.len + 8 .. v.len - 1 : v.bits[a] = {}
    BY <1>4, <1>6, Zenon
<1>9. Clean(v, cap)
  <2>1. PICK yes : yes = TRUE
      OBVIOUS
  <2>2. Good(u, cap, yes, yes)
      BY <2>1, Zenon DEF Clean
  <2>3. Good(CreateIn(u, n, s, p), cap, yes, yes)
      BY <2>2, CreateGood, Zenon
  <2> QED
      BY <2>1, <2>3, Zenon DEF Clean
<1>10. /\ Len(v.objs) = Len(u.objs) + 1 /\ Len(u.objs) \in Nat
       /\ \A j \in 1 .. Len(u.objs) : v.objs[j] = u.objs[j]
       /\ v.objs[Len(u.objs) + 1].at = u.len
       /\ Obj(v, Len(u.objs) + 1) = NewObj(u, n, s, p)
    BY <1>1, CreateHeaders
<1> QED
    BY <1>2, <1>3, <1>7, <1>8, <1>9, <1>10, Zenon DEF BlankAdded
\* The object a client creates reads as zeros and nulls.
LEMMA MadeBlank ==
    ASSUME NEW cap \in Nat, NEW u, Clean(u, cap), NEW n, NEW s, NEW p, Shape(n, s, p),
           EndOf(NewObj(u, n, s, p)) <= cap
    PROVE  Made(u, CreateIn(u, n, s, p), cap, Msg!Blank(n, s, p))
<1>1. PICK v : v = CreateIn(u, n, s, p)
    OBVIOUS
<1>2. PICK t : t = Len(u.objs) + 1
    OBVIOUS
<1>3. /\ Clean(v, cap) /\ Len(v.objs) = t /\ Len(u.objs) \in Nat
      /\ \A j \in 1 .. Len(u.objs) : v.objs[j] = u.objs[j]
      /\ v.objs[t].at = u.len
      /\ Obj(v, t) = NewObj(u, n, s, p)
      /\ \A a \in 0 .. u.len - 1 : SameAt(u, v, a)
      /\ \A a \in u.len + 8 .. v.len - 1 : v.bits[a] = {}
      /\ v.len = EndOf(NewObj(u, n, s, p))
  <2>1. BlankAdded(u, v, NewObj(u, n, s, p), cap)
      BY <1>1, CreateBytes, Zenon
  <2> QED
      BY <1>2, <2>1, Zenon DEF BlankAdded
<1>4. PICK o : o = NewObj(u, n, s, p)
    OBVIOUS
<1>5. Placed(o) /\ o.base = u.len + 8 /\ o.nelem = n /\ o.ssize = s /\ o.psize = p
  <2>1. Laid(u)
      BY CleanFacts
  <2> QED
      BY <1>4, <2>1, NewPlaced
<1>6. TotalSz(o) \in Nat /\ EndOf(o) \in Nat /\ o.base + TotalSz(o) <= EndOf(o) /\ o.base \in Nat
    BY <1>5, SizeFacts DEF Placed
<1>7. \A a \in o.base .. o.base + TotalSz(o) - 1 : v.bits[a] = {}
  <2>1. \A a \in o.base .. o.base + TotalSz(o) - 1 : a \in o.base .. EndOf(o) - 1
      BY <1>6
  <2> QED
      BY <1>3, <1>4, <1>5, <2>1, Zenon
<1>8. \A e \in 0 .. o.nelem - 1 : GetScalar(v, o, e) = 0
    BY <1>5, <1>7, ScalarZero
<1>9. \A e \in 0 .. o.nelem - 1, i \in 0 .. o.psize - 1 : Targets(v)[Slot(o, e, i)] = 0
  <2>1. t \in 1 .. Len(v.objs) /\ t = Len(v.objs) /\ Obj(v, t) = o
      BY <1>2, <1>3, <1>4
  <2> QED
      BY <1>3, <2>1, LastTargets
<1>10. o.nelem \in Nat /\ o.psize \in Nat
    BY <1>5 DEF Placed, Shape
<1>11. Shown(v, o, Targets(v)) = Msg!Blank(n, s, p)
  <2>1. Shown(v, o, Targets(v)) = Msg!Blank(o.nelem, o.ssize, o.psize)
      BY <1>8, <1>9, <1>10, ShownBlank, Zenon
  <2> QED
      BY <1>5, <2>1, Zenon
<1>12. Seen(v, t) = Msg!Blank(n, s, p)
    BY <1>3, <1>4, <1>11, Zenon DEF Seen
<1> QED
    BY <1>1, <1>2, <1>3, <1>12, Zenon DEF Made

\* So does a scalar that is put into an element, and nothing else changes.
LEMMA ScalarSeen ==
    ASSUME NEW cap \in Nat, NEW u, Clean(u, cap), NEW k \in 1 .. Len(u.objs),
           NEW d \in 0 .. Obj(u, k).nelem - 1, HasScalar(Obj(u, k)), NEW x \in {0, 1}
    PROVE  LET v == PutScalar(u, Obj(u, k), d, x) IN
           /\ SeenBut(u, v, k, cap) /\ v.objs = u.objs /\ v.rel = u.rel /\ v.len = u.len
           /\ GetScalar(v, Obj(u, k), d) = x
           /\ \A e \in 0 .. Obj(u, k).nelem - 1 :
                e # d => GetScalar(v, Obj(u, k), e) = GetScalar(u, Obj(u, k), e)
           /\ \A a \in 0 .. cap - 1 :
                a < Obj(u, k).base \/ Obj(u, k).base + TotalSz(Obj(u, k)) <= a => SameAt(u, v, a)
           /\ Seen(v, k) = Rewritten(Seen(u, k), d, x)
<1>1. PICK o : o = Obj(u, k)
    OBVIOUS
<1>2. PICK v : v = PutScalar(u, o, d, x)
    OBVIOUS
<1>3. Laid(u) /\ u.len \in Nat /\ u.len <= cap /\ u.bits \in Bytes(cap) /\ Len(u.objs) \in Nat
    BY CleanFacts
<1>4. Placed(o) /\ EndOf(o) <= u.len /\ EndOf(o) \in Nat /\ o.base \in Nat
    BY <1>1, <1>3, ObjectInside
<1>5. EndOf(o) <= cap /\ d \in 0 .. o.nelem - 1 /\ HasScalar(o)
    BY <1>1, <1>3, <1>4
<1>6. /\ v.len = u.len /\ v.objs = u.objs /\ v.rel = u.rel
      /\ \A a \in 0 .. cap - 1 :
           a < o.base \/ o.base + TotalSz(o) <= a => v.bits[a] = u.bits[a]
    BY <1>2, <1>3, <1>4, <1>5, PutScalarFacts
<1>7. /\ GetScalar(v, o, d) = x
      /\ \A e \in 0 .. o.nelem - 1 : e # d => GetScalar(v, o, e) = GetScalar(u, o, e)
    BY <1>2, <1>3, <1>4, <1>5, ScalarPut
<1>8. Clean(v, cap)
  <2>1. PICK yes : yes = TRUE
      OBVIOUS
  <2>2. Good(u, cap, yes, yes)
      BY <2>1, Zenon DEF Clean
  <2>3. Good(v, cap, yes, yes)
      BY <1>1, <1>2, <2>2, PutScalarGood
  <2> QED
      BY <2>1, <2>3, Zenon DEF Clean
<1>9. \A j : Obj(v, j) = Obj(u, j)
    BY <1>6, Zenon DEF Obj
<1>11. Extends(u, v)
    BY <1>3, <1>6 DEF Extends
<1>12. \A a \in 0 .. cap - 1 : a < o.base \/ o.base + TotalSz(o) <= a => SameAt(u, v, a)
    BY <1>6, Zenon DEF SameAt
<1>13. ASSUME NEW j \in 1 .. Len(u.objs), j # k
       PROVE  Seen(v, j) = Seen(u, j)
  <2>1. ASSUME NEW a \in 0 .. u.len - 1, a < o.base \/ EndOf(o) <= a
        PROVE  SameAt(u, v, a)
    <3>1. o.base + TotalSz(o) <= EndOf(o) /\ TotalSz(o) \in Nat
        BY <1>4, SizeFacts
    <3>2. a \in 0 .. cap - 1 /\ (a < o.base \/ o.base + TotalSz(o) <= a)
        BY <1>3, <1>4, <2>1, <3>1
    <3> QED
        BY <1>12, <3>2, Zenon
  <2>2. \A a \in 0 .. u.len - 1 : a < Obj(u, k).base \/ EndOf(Obj(u, k)) <= a => SameAt(u, v, a)
      BY <1>1, <2>1, Zenon
  <2>3. Obj(v, j) = Obj(u, j)
      BY <1>9, Zenon
  <2> QED
      BY <1>8, <1>11, <1>13, <2>2, <2>3, SeenOthers, Zenon
<1>14. SeenBut(u, v, k, cap)
    BY <1>6, <1>8, <1>13, Zenon DEF SeenBut
<1>15. o.nelem \in Nat /\ o.psize \in Nat
    BY <1>4 DEF Placed, Shape
<1>16. Shown(v, o, Targets(v)) = Rewritten(Shown(u, o, Targets(u)), d, x)
  <2>1. PICK f, g : f = Targets(u) /\ g = Targets(v)
      OBVIOUS
  <2>2. ASSUME NEW e \in 0 .. o.nelem - 1, NEW i \in 0 .. o.psize - 1
        PROVE  g[Slot(o, e, i)] = f[Slot(o, e, i)]
    <3>1. PICK slot : slot = Slot(Obj(u, k), e, i)
        OBVIOUS
    <3>2. /\ e \in 0 .. Obj(u, k).nelem - 1 /\ i \in 0 .. Obj(u, k).psize - 1
          /\ v.rel[slot] = u.rel[slot]
        BY <1>1, <1>6, Zenon
    <3>3. Targets(v)[slot] = Targets(u)[slot]
        BY <1>8, <1>11, <3>1, <3>2, TargetKept
    <3> QED
        BY <1>1, <2>1, <3>1, <3>3, Zenon
  <2>3. Shown(v, o, g) = Rewritten(Shown(u, o, f), d, x)
      BY <1>5, <1>7, <1>15, <2>2, ShownRewritten
  <2> QED
      BY <2>1, <2>3, Zenon
<1>17. Seen(v, k) = Rewritten(Seen(u, k), d, x)
    BY <1>1, <1>9, <1>16, Zenon DEF Seen
<1> QED
    BY <1>1, <1>2, <1>6, <1>7, <1>12, <1>14, <1>17, Zenon
\* A string reads as its characters and the NUL.
LEMMA MadeString ==
    ASSUME NEW cap \in Nat, NEW u, Clean(u, cap), NEW n \in Nat, EndOf(NewObj(u, n + 1, 1, 0)) <= cap
    PROVE  Made(u, PutChars(CreateIn(u, n + 1, 1, 0), u.len + HdrSz, n), cap, Msg!Text(n))
<1>1. PICK mid : mid = CreateIn(u, n + 1, 1, 0)
    OBVIOUS
<1>2. PICK v : v = PutChars(mid, u.len + HdrSz, n)
    OBVIOUS
<1>3. PICK t : t = Len(u.objs) + 1
    OBVIOUS
<1>4. PICK o : o = NewObj(u, n + 1, 1, 0)
    OBVIOUS
<1>5. Shape(n + 1, 1, 0) /\ Laid(u) /\ u.len \in Nat
    BY CleanFacts DEF Shape
<1>6. /\ Clean(mid, cap) /\ Len(mid.objs) = t /\ Len(u.objs) \in Nat
      /\ \A j \in 1 .. Len(u.objs) : mid.objs[j] = u.objs[j]
      /\ mid.objs[t].at = u.len /\ Obj(mid, t) = o
      /\ \A a \in 0 .. u.len - 1 : SameAt(u, mid, a)
      /\ \A a \in u.len + 8 .. mid.len - 1 : mid.bits[a] = {}
      /\ mid.len = EndOf(o)
  <2>1. BlankAdded(u, mid, NewObj(u, n + 1, 1, 0), cap)
      BY <1>1, <1>5, CreateBytes, Zenon
  <2> QED
      BY <1>3, <1>4, <2>1, Zenon DEF BlankAdded
<1>7. /\ Placed(o) /\ o.base = u.len + 8 /\ o.nelem = n + 1 /\ o.ssize = 1 /\ o.psize = 0
    BY <1>4, <1>5, NewPlaced
<1>8. mid.bits \in Bytes(cap)
    BY <1>6, CleanFacts
<1>9. /\ v.objs = mid.objs /\ v.rel = mid.rel /\ v.len = mid.len
      /\ \A a \in 0 .. cap - 1 : a < u.len => v.bits[a] = mid.bits[a]
    BY <1>2, <1>5, <1>8 DEF PutChars, WithBits, Wire, Bytes, HdrSz
<1>10. Clean(v, cap)
  <2>1. PICK yes : yes = TRUE
      OBVIOUS
  <2>2. Good(u, cap, yes, yes)
      BY <2>1, Zenon DEF Clean
  <2>3. Good(PutChars(CreateIn(u, n + 1, 1, 0), u.len + HdrSz, n), cap, yes, yes)
      BY <2>2, CharsGood, Zenon
  <2> QED
      BY <1>1, <1>2, <2>1, <2>3, Zenon DEF Clean
<1>11. \A a \in 0 .. u.len - 1 : SameAt(u, v, a)
  <2> TAKE a \in 0 .. u.len - 1
  <2>1. a \in 0 .. cap - 1 /\ a < u.len
    <3>1. u.len <= cap
        BY CleanFacts
    <3> QED
        BY <1>5, <3>1
  <2>2. SameAt(u, mid, a)
      BY <1>6, Zenon
  <2> QED
      BY <1>9, <2>1, <2>2, Zenon DEF SameAt
<1>12. Obj(v, t) = o
    BY <1>6, <1>9, Zenon DEF Obj
<1>13. \A e \in 0 .. o.nelem - 1 : GetScalar(v, o, e) = IF e + 1 < o.nelem THEN 1 ELSE 0
  <2>1. EndOf(o) <= cap
      BY <1>4
  <2>2. v = PutChars(mid, o.base, n)
      BY <1>2, <1>7 DEF HdrSz
  <2>3. \A a \in o.base .. EndOf(o) - 1 : mid.bits[a] = {}
      BY <1>6, <1>7, Zenon
  <2> QED
      BY <1>7, <1>8, <2>1, <2>2, <2>3, ScalarChars
<1>14. Shown(v, o, Targets(v)) = Msg!Text(n)
    BY <1>7, <1>13, ShownText, Zenon
<1>15. Seen(v, t) = Msg!Text(n)
    BY <1>12, <1>14, Zenon DEF Seen
<1> QED
    BY <1>1, <1>2, <1>3, <1>6, <1>9, <1>10, <1>11, <1>15, Zenon DEF Made

\* The first element of a list reads as its value.
LEMMA MadeFirst ==
    ASSUME NEW cap \in Nat, NEW u, Clean(u, cap), NEW s, NEW p, Shape(1, s, p),
           EndOf(NewObj(u, 1, s, p)) <= cap, s > 0, NEW x \in {0, 1}
    PROVE  Made(u, PutScalar(CreateIn(u, 1, s, p), Obj(CreateIn(u, 1, s, p), Len(u.objs) + 1), 0, x),
                cap, Msg!FirstOf(s, p, x))
<1>1. PICK mid : mid = CreateIn(u, 1, s, p)
    OBVIOUS
<1>2. PICK t : t = Len(u.objs) + 1
    OBVIOUS
<1>3. PICK o : o = NewObj(u, 1, s, p)
    OBVIOUS
<1>4. PICK v : v = PutScalar(mid, Obj(mid, t), 0, x)
    OBVIOUS
<1>5. Laid(u) /\ u.len \in Nat /\ u.len <= cap
    BY CleanFacts
<1>6. /\ Clean(mid, cap) /\ Len(mid.objs) = t /\ Len(u.objs) \in Nat
      /\ \A j \in 1 .. Len(u.objs) : mid.objs[j] = u.objs[j]
      /\ mid.objs[t].at = u.len /\ Obj(mid, t) = o
      /\ \A a \in 0 .. u.len - 1 : SameAt(u, mid, a)
  <2>1. BlankAdded(u, mid, NewObj(u, 1, s, p), cap)
      BY <1>1, CreateBytes, Zenon
  <2> QED
      BY <1>2, <1>3, <2>1, Zenon DEF BlankAdded
<1>7. /\ Placed(o) /\ o.base = u.len + 8 /\ o.nelem = 1 /\ o.ssize = s /\ o.psize = p
    BY <1>3, <1>5, NewPlaced
<1>8. t \in 1 .. Len(mid.objs) /\ 0 \in 0 .. Obj(mid, t).nelem - 1 /\ HasScalar(Obj(mid, t))
    BY <1>2, <1>6, <1>7 DEF HasScalar
<1>9. /\ SeenBut(mid, v, t, cap) /\ v.objs = mid.objs
      /\ GetScalar(v, o, 0) = x
      /\ \A a \in 0 .. cap - 1 : a < o.base \/ o.base + TotalSz(o) <= a => SameAt(mid, v, a)
  <2>1. LET c == PutScalar(mid, Obj(mid, t), 0, x) IN
        /\ SeenBut(mid, c, t, cap) /\ c.objs = mid.objs
        /\ GetScalar(c, Obj(mid, t), 0) = x
        /\ \A a \in 0 .. cap - 1 :
             a < Obj(mid, t).base \/ Obj(mid, t).base + TotalSz(Obj(mid, t)) <= a => SameAt(mid, c, a)
      BY <1>6, <1>8, ScalarSeen
  <2> QED
      BY <1>4, <1>6, <2>1, Zenon
<1>10. Clean(v, cap) /\ Obj(v, t) = o
    BY <1>6, <1>9, Zenon DEF SeenBut, Obj
<1>11. \A a \in 0 .. u.len - 1 : SameAt(u, v, a)
  <2> TAKE a \in 0 .. u.len - 1
  <2>1. a \in 0 .. cap - 1 /\ a < o.base
      BY <1>5, <1>7
  <2>2. SameAt(u, mid, a) /\ SameAt(mid, v, a)
      BY <1>6, <1>9, <2>1, Zenon
  <2> QED
      BY <2>2, Zenon DEF SameAt
<1>12. \A e \in 0 .. o.nelem - 1, i \in 0 .. o.psize - 1 : Targets(v)[Slot(o, e, i)] = 0
  <2>1. t \in 1 .. Len(v.objs) /\ t = Len(v.objs) /\ Obj(v, t) = o
      BY <1>2, <1>6, <1>9, <1>10
  <2> QED
      BY <1>10, <2>1, LastTargets
<1>13. o.nelem \in Nat /\ o.psize \in Nat /\ o.nelem = 1
    BY <1>7 DEF Placed, Shape
<1>14. Shown(v, o, Targets(v)) = Msg!FirstOf(s, p, x)
  <2>1. Shown(v, o, Targets(v)) = Msg!Holding(Msg!Blank(1, o.ssize, o.psize), x)
    <3>1. PICK g : g = Targets(v)
        OBVIOUS
    <3>2. \A e \in 0 .. o.nelem - 1, i \in 0 .. o.psize - 1 : g[Slot(o, e, i)] = 0
        BY <1>12, <3>1, Zenon
    <3>3. Shown(v, o, g) = Msg!Holding(Msg!Blank(1, o.ssize, o.psize), x)
        BY <1>9, <1>13, <3>2, ShownFirst
    <3> QED
        BY <3>1, <3>3, Zenon
  <2> QED
      BY <1>7, <2>1, Zenon DEF Msg!FirstOf
<1>15. Seen(v, t) = Msg!FirstOf(s, p, x)
    BY <1>10, <1>14, Zenon DEF Seen
<1> QED
    BY <1>1, <1>2, <1>4, <1>6, <1>9, <1>10, <1>11, <1>15, Zenon DEF Made
\* What nbuf_resize leaves when the last object gets one more element
LEMMA ResizeSeen ==
    ASSUME NEW cap \in Nat, NEW u, Clean(u, cap), NEW k \in 1 .. Len(u.objs), AtEnd(u, k),
           NEW o, o = Obj(u, k), Shape(o.nelem + 1, o.ssize, o.psize),
           NEW q, q = Resized(o, o.nelem + 1), EndOf(q) <= cap,
           NEW g, g = ResizeIn(u, k, o.nelem + 1)
    PROVE  /\ Clean(g, cap) /\ Extends(u, g) /\ Len(g.objs) = Len(u.objs) /\ k = Len(u.objs)
           /\ Obj(g, k) = q /\ Placed(q) /\ Grows(u.bits, g.bits, o, q)
           /\ \A j \in 1 .. Len(u.objs) : j # k => Obj(g, j) = Obj(u, j)
           /\ \A a \in 0 .. u.len - 1 : SameAt(u, g, a)
           /\ EndOf(o) = u.len
<1>1. /\ Laid(u) /\ u.len \in Nat /\ u.len <= cap /\ u.rel \in [0 .. cap - 1 -> Int]
      /\ u.bits \in Bytes(cap) /\ Len(u.objs) \in Nat
    BY CleanFacts
<1>2. k = Len(u.objs)
    BY <1>1, AtEndIsLast
<1>3. EndOf(o) = u.len
    BY DEF AtEnd
<1>4. /\ g.objs = WithLength(u.objs, k, o.nelem + 1) /\ g.len = EndOf(q)
      /\ g.rel = Cleared(u.rel, u.len, EndOf(q), 0) /\ g.bits = Cleared(u.bits, u.len, EndOf(q), {})
    BY DEF ResizeIn, Wire
<1>5. o.nelem + 1 \in Nat
    BY DEF Shape
<1>6. /\ Laid(g) /\ Placed(q) /\ Len(g.objs) = Len(u.objs) /\ Obj(g, k) = q
      /\ \A j \in 1 .. Len(u.objs) : g.objs[j].at = u.objs[j].at
      /\ \A j \in 1 .. Len(u.objs) : j # k => Obj(g, j) = Obj(u, j)
    BY <1>1, <1>2, <1>4, <1>5, ResizeLaid
<1>7. Clean(g, cap)
  <2>1. PICK yes : yes = TRUE
      OBVIOUS
  <2>2. Good(u, cap, yes, yes)
      BY <2>1, Zenon DEF Clean
  <2>3. PICK n : n = o.nelem + 1
      OBVIOUS
  <2>4. Good(ResizeIn(u, k, n), cap, yes, yes)
      BY <2>2, <2>3, GrowGood
  <2> QED
      BY <2>1, <2>3, <2>4, Zenon DEF Clean
<1>8. Extends(u, g)
    BY <1>1, <1>6 DEF Extends
<1>9. EndOf(q) \in Nat
    BY <1>6, SizeFacts
<1>10. \A a \in 0 .. u.len - 1 : SameAt(u, g, a)
    BY <1>1, <1>4, <1>9 DEF SameAt, Cleared, Bytes
<1>11. Grows(u.bits, g.bits, o, q)
  <2>1. o.base \in Nat
      BY <1>1, ObjectInside
  <2>2. \A a \in o.base .. EndOf(o) - 1 : a \in 0 .. u.len - 1
      BY <1>1, <1>3, <2>1
  <2>3. \A a \in o.base .. EndOf(o) - 1 : g.bits[a] = u.bits[a]
      BY <1>10, <2>2, Zenon DEF SameAt
  <2>4. \A a \in EndOf(o) .. EndOf(q) - 1 : g.bits[a] = {}
    <3> TAKE a \in EndOf(o) .. EndOf(q) - 1
    <3>1. PICK lo \in Nat, hi \in Nat : lo = u.len /\ hi = EndOf(q)
        BY <1>1, <1>9
    <3>2. a \in lo .. hi - 1 /\ a \in 0 .. cap - 1
        BY <1>3, <3>1
    <3>3. a \in DOMAIN u.bits
        BY <1>1, <3>2 DEF Bytes
    <3>4. g.bits = Cleared(u.bits, lo, hi, {})
        BY <1>4, <3>1, Zenon
    <3> QED
        BY <3>2, <3>3, <3>4, Zenon DEF Cleared
  <2> QED
      BY <2>3, <2>4, Zenon DEF Grows
<1> QED
    BY <1>2, <1>3, <1>6, <1>7, <1>8, <1>10, <1>11, Zenon
\* The append of one element changes the list it is appended to, which is the
\* last object, and nothing else.
LEMMA AppendSeen ==
    ASSUME NEW cap \in Nat, NEW u, Clean(u, cap), NEW k \in 1 .. Len(u.objs), AtEnd(u, k),
           NEW n, n = Obj(u, k).nelem, Shape(n + 1, Obj(u, k).ssize, Obj(u, k).psize),
           EndOf(Resized(Obj(u, k), n + 1)) <= cap, NEW x \in {0, 1},
           NEW g, g = ResizeIn(u, k, n + 1),
           NEW v, v = IF HasScalar(Obj(g, k)) THEN PutScalar(g, Obj(g, k), n, x) ELSE g
    PROVE  SeenBut(u, v, k, cap) /\ Seen(v, k) = Msg!Longer(Seen(u, k), x)
<1>1. PICK o : o = Obj(u, k)
    OBVIOUS
<1>2. PICK q : q = Resized(o, o.nelem + 1)
    OBVIOUS
<1>3. /\ Clean(g, cap) /\ Extends(u, g) /\ Len(g.objs) = Len(u.objs) /\ k = Len(u.objs)
      /\ Obj(g, k) = q /\ Placed(q) /\ Grows(u.bits, g.bits, o, q)
      /\ \A j \in 1 .. Len(u.objs) : j # k => Obj(g, j) = Obj(u, j)
      /\ \A a \in 0 .. u.len - 1 : SameAt(u, g, a)
      /\ EndOf(o) = u.len
    BY <1>1, <1>2, ResizeSeen
<1>4. Laid(u) /\ Padded(u) /\ u.len \in Nat /\ u.len <= cap /\ Len(u.objs) \in Nat
    BY CleanFacts
<1>5. Placed(o) /\ o.base \in Nat /\ PadZero(u.bits, o)
  <2>1. Placed(o) /\ o.base \in Nat
      BY <1>1, <1>4, ObjectInside
  <2>2. PadZero(u.bits, o)
      BY <1>1, <1>4, Zenon DEF Padded
  <2> QED
      BY <2>1, <2>2
<1>6. o.nelem = n /\ n \in Nat /\ o.psize \in Nat
    BY <1>1, <1>5 DEF Placed, Shape
<1>7. q.base = o.base /\ q.nelem = n + 1 /\ q.ssize = o.ssize /\ q.psize = o.psize
  <2>1. PICK c : c = o.nelem + 1
      OBVIOUS
  <2>2. q = Resized(o, c)
      BY <1>2, <2>1, Zenon
  <2>3. q.base = o.base /\ q.nelem = c /\ q.ssize = o.ssize /\ q.psize = o.psize
      BY <2>2, ResizedFields, Zenon
  <2> QED
      BY <1>6, <2>1, <2>3, Zenon
<1>8. /\ \A e \in 0 .. o.nelem - 1 : GetScalar(g, q, e) = GetScalar(u, o, e)
      /\ GetScalar(g, q, o.nelem) = 0
      /\ \A e \in 0 .. o.nelem - 1, i \in 0 .. o.psize - 1 : Slot(q, e, i) = Slot(o, e, i)
    BY <1>2, <1>3, <1>5, ScalarGrown
<1>9. /\ Clean(v, cap) /\ v.objs = g.objs
      /\ \A a \in 0 .. cap - 1 : a < q.base => SameAt(g, v, a)
      /\ v.rel = g.rel
      /\ \A e \in 0 .. n - 1 : GetScalar(v, q, e) = GetScalar(u, o, e)
      /\ GetScalar(v, q, n) = IF HasScalar(q) THEN x ELSE 0
  <2>1. CASE ~ HasScalar(Obj(g, k))
    <3>1. v = g /\ ~ HasScalar(q)
        BY <1>3, <2>1, Zenon
    <3>2. \A a \in 0 .. cap - 1 : SameAt(g, g, a)
        BY DEF SameAt
    <3> QED
        BY <1>3, <1>6, <1>8, <3>1, <3>2
  <2>2. CASE HasScalar(Obj(g, k))
    <3>1. n \in 0 .. q.nelem - 1 /\ \A e \in 0 .. n - 1 : e \in 0 .. q.nelem - 1 /\ e # n
        BY <1>6, <1>7
    <3>2. v = PutScalar(g, q, n, x) /\ HasScalar(q)
        BY <1>3, <2>2, Zenon
    <3>3. LET c == PutScalar(g, Obj(g, k), n, x) IN
          /\ SeenBut(g, c, k, cap) /\ c.objs = g.objs /\ c.rel = g.rel
          /\ GetScalar(c, Obj(g, k), n) = x
          /\ \A e \in 0 .. Obj(g, k).nelem - 1 :
               e # n => GetScalar(c, Obj(g, k), e) = GetScalar(g, Obj(g, k), e)
          /\ \A a \in 0 .. cap - 1 :
               a < Obj(g, k).base \/ Obj(g, k).base + TotalSz(Obj(g, k)) <= a => SameAt(g, c, a)
      <4>1. k \in 1 .. Len(g.objs) /\ n \in 0 .. Obj(g, k).nelem - 1
          BY <1>3, <3>1, Zenon
      <4> QED
          BY <1>3, <2>2, <4>1, ScalarSeen, SMTT(60)
    <3>4. /\ SeenBut(g, v, k, cap) /\ v.objs = g.objs /\ v.rel = g.rel
          /\ GetScalar(v, q, n) = x
          /\ \A e \in 0 .. q.nelem - 1 : e # n => GetScalar(v, q, e) = GetScalar(g, q, e)
          /\ \A a \in 0 .. cap - 1 : a < q.base => SameAt(g, v, a)
      <4>1. Obj(g, k) = q /\ PutScalar(g, Obj(g, k), n, x) = v
          BY <1>3, <3>2, Zenon
      <4> QED
          BY <3>3, <4>1
    <3>5. \A e \in 0 .. n - 1 : GetScalar(v, q, e) = GetScalar(u, o, e)
        BY <1>6, <1>8, <3>1, <3>4
    <3>6. Clean(v, cap)
        BY <3>4, Zenon DEF SeenBut
    <3> QED
        BY <3>2, <3>4, <3>5, <3>6
  <2> QED
      BY <2>1, <2>2, Zenon
<1>10. Extends(u, v) /\ Len(v.objs) = Len(u.objs) /\ \A j : Obj(v, j) = Obj(g, j)
  <2>1. v.objs = g.objs /\ Len(g.objs) = Len(u.objs) /\ Extends(u, g)
      BY <1>3, <1>9
  <2>2. \A j : Obj(v, j) = Obj(g, j)
      BY <2>1, ZenonT(60) DEF Obj
  <2>3. Extends(u, v)
      BY <2>1 DEF Extends
  <2> QED
      BY <2>1, <2>2, <2>3
<1>11. GetScalar(v, q, n) = IF o.ssize > 0 \/ o.psize = 0 THEN x ELSE 0
    BY <1>7, <1>9, Zenon DEF HasScalar
<1>12. ASSUME NEW j \in 1 .. Len(u.objs), j # k
       PROVE  Seen(v, j) = Seen(u, j)
  <2>1. ASSUME NEW a \in 0 .. u.len - 1, a < o.base \/ EndOf(o) <= a
        PROVE  SameAt(u, v, a)
    <3>1. a \in 0 .. cap - 1 /\ a < q.base
        BY <1>3, <1>4, <1>5, <1>7, <2>1
    <3>2. SameAt(u, g, a) /\ SameAt(g, v, a)
        BY <1>3, <1>9, <3>1, Zenon
    <3> QED
        BY <3>2, Zenon DEF SameAt
  <2>2. \A a \in 0 .. u.len - 1 : a < Obj(u, k).base \/ EndOf(Obj(u, k)) <= a => SameAt(u, v, a)
      BY <1>1, <2>1, Zenon
  <2>3. Obj(v, j) = Obj(u, j)
      BY <1>3, <1>10, <1>12, Zenon
  <2> QED
      BY <1>9, <1>10, <1>12, <2>2, <2>3, SeenOthers
<1>13. ASSUME NEW e \in 0 .. n - 1, NEW i \in 0 .. o.psize - 1
       PROVE  Targets(v)[Slot(q, e, i)] = Targets(u)[Slot(o, e, i)]
  <2>1. PICK slot : slot = Slot(Obj(u, k), e, i)
      OBVIOUS
  <2>2. e \in 0 .. Obj(u, k).nelem - 1 /\ i \in 0 .. Obj(u, k).psize - 1 /\ e \in 0 .. o.nelem - 1
      BY <1>1, <1>6
  <2>3. slot \in Nat /\ slot < u.len
      BY <1>4, <2>1, <2>2, SlotInside
  <2>4. SameAt(u, g, slot)
      BY <1>3, <1>4, <2>3
  <2>5. v.rel[slot] = u.rel[slot]
      BY <1>9, <2>4, Zenon DEF SameAt
  <2>6. Targets(v)[slot] = Targets(u)[slot]
      BY <1>9, <1>10, <2>1, <2>2, <2>5, TargetKept
  <2>7. Slot(q, e, i) = slot /\ Slot(o, e, i) = slot
      BY <1>1, <1>8, <2>1, <2>2, Zenon
  <2> QED
      BY <2>6, <2>7, Zenon
<1>14. ASSUME NEW i \in 0 .. o.psize - 1
       PROVE  Targets(v)[Slot(q, n, i)] = 0
  <2>1. k \in 1 .. Len(v.objs) /\ k = Len(v.objs) /\ Obj(v, k) = q
      BY <1>3, <1>10, Zenon
  <2>2. n \in 0 .. q.nelem - 1 /\ i \in 0 .. q.psize - 1
      BY <1>6, <1>7
  <2>4. \A e \in 0 .. q.nelem - 1, j \in 0 .. q.psize - 1 : Targets(v)[Slot(q, e, j)] = 0
    <3>1. Clean(v, cap) /\ Len(v.objs) \in 1 .. Len(v.objs)
        BY <1>9, <2>1, Zenon
    <3>2. NullsAt(v, Len(v.objs))
        BY <3>1, LastNulls, Zenon
    <3>3. NullsAt(v, k) /\ Obj(v, k) = q
        BY <2>1, <3>2
    <3> QED
        BY <3>3 DEF NullsAt
  <2> QED
      BY <2>2, <2>4
<1>15. Shown(v, q, Targets(v)) = Msg!Longer(Shown(u, o, Targets(u)), x)
  <2>1. o.nelem \in Nat /\ o.psize \in Nat /\ q.nelem = o.nelem + 1 /\ q.ssize = o.ssize /\ q.psize = o.psize
      BY <1>6, <1>7, Zenon
  <2>2. \A e \in 0 .. o.nelem - 1 : GetScalar(v, q, e) = GetScalar(u, o, e)
      BY <1>6, <1>9, Zenon
  <2>3. GetScalar(v, q, o.nelem) = IF o.ssize > 0 \/ o.psize = 0 THEN x ELSE 0
      BY <1>6, <1>11, Zenon
  <2>4. \A e \in 0 .. o.nelem - 1, i \in 0 .. o.psize - 1 :
           Targets(v)[Slot(q, e, i)] = Targets(u)[Slot(o, e, i)]
      BY <1>6, <1>13, Zenon
  <2>5. \A i \in 0 .. o.psize - 1 : Targets(v)[Slot(q, o.nelem, i)] = 0
      BY <1>6, <1>14, Zenon
  <2> QED
      BY <2>1, <2>2, <2>3, <2>4, <2>5, ShownLonger
<1>16. Seen(v, k) = Msg!Longer(Seen(u, k), x)
  <2>1. Obj(v, k) = q
      BY <1>3, <1>10, Zenon
  <2> QED
      BY <1>1, <1>15, <2>1 DEF Seen
<1>17. SeenBut(u, v, k, cap)
    BY <1>9, <1>10, <1>12 DEF SeenBut
<1> QED
    BY <1>16, <1>17
\* Where a scalar is 0 or 1, put_bool of its first bit stores what C would store.
LEMMA BoolIsInt ==
    ASSUME NEW cap \in Nat, NEW u, u.bits \in Bytes(cap), NEW o, Placed(o), EndOf(o) <= cap,
           NEW e \in 0 .. o.nelem - 1, o.ssize >= 1, GetScalar(u, o, e) \in {0, 1},
           NEW x \in {0, 1}
    PROVE  PutBit(u, GetElem(o, e).base, 0, x) = PutScalar(u, o, e, x)
<1>1. PICK a : a = GetElem(o, e).base
    OBVIOUS
<1>2. PICK s : s = o.ssize
    OBVIOUS
<1>3. s \in Nat /\ s >= 1 /\ o.base \in Nat
    BY <1>2 DEF Placed, Shape
<1>4. ElemSz(o) # 0 /\ s <= ElemSz(o) /\ ElemSz(o) \in Nat /\ TotalSz(o) \in Nat
      /\ o.base + TotalSz(o) <= EndOf(o) /\ EndOf(o) \in Nat
  <2>1. o.psize \in Nat
      BY DEF Placed, Shape
  <2>2. /\ ElemSz(o) \in Nat /\ ElemSz(o) = o.ssize + 4 * o.psize /\ TotalSz(o) \in Nat
        /\ o.base + TotalSz(o) <= EndOf(o) /\ EndOf(o) \in Nat
      BY SizeFacts
  <2> QED
      BY <1>2, <1>3, <2>1, <2>2
<1>5. a \in Nat /\ a + s <= cap
  <2>1. /\ a \in Nat /\ a + ElemSz(o) <= o.base + TotalSz(o)
      BY <1>1, <1>4, ElemFacts
  <2> QED
      BY <1>3, <1>4, <2>1
<1>6. PICK bits : bits = u.bits
    OBVIOUS
<1>7. bits \in [0 .. cap - 1 -> SUBSET (0 .. 7)] /\ DOMAIN bits = 0 .. cap - 1
    BY <1>6 DEF Bytes
<1>8. IntAt(bits, a, s) \in {0, 1}
  <2>1. GetScalar(u, o, e) = IntAt(u.bits, GetElem(o, e).base, o.ssize)
      BY <1>4, ScalarRead, Zenon
  <2> QED
      BY <1>1, <1>2, <1>6, <2>1
<1>9. bits[a] \in {{}, {0}} /\ \A y \in a + 1 .. a + s - 1 : bits[y] = {}
  <2>1. ~ High(bits, a, s) /\ (bits[a] = {} \/ bits[a] = {0})
      BY <1>3, <1>8 DEF IntAt
  <2> QED
      BY <2>1 DEF High
<1>10. PICK byte : byte = IF x = 1 THEN bits[a] \cup {0} ELSE bits[a] \ {0}
    OBVIOUS
<1>11. byte = IF x = 1 THEN {0} ELSE {}
  <2>1. CASE bits[a] = {}
      BY <1>10, <2>1
  <2>2. CASE bits[a] = {0}
      BY <1>10, <2>2
  <2> QED
      BY <1>9, <2>1, <2>2
<1>12. PICK put : put = [y \in DOMAIN bits |->
                           IF y = a /\ x = 1 THEN {0} ELSE IF y \in a .. a + s - 1 THEN {} ELSE bits[y]]
    OBVIOUS
<1>13. [bits EXCEPT ![a] = byte] = put
  <2>1. ASSUME NEW y \in 0 .. cap - 1
        PROVE  [bits EXCEPT ![a] = byte][y] = put[y]
    <3>1. put[y] = IF y = a /\ x = 1 THEN {0} ELSE IF y \in a .. a + s - 1 THEN {} ELSE bits[y]
        BY <1>7, <1>12
    <3>2. CASE y = a
      <4>1. [bits EXCEPT ![a] = byte][y] = byte
          BY <1>7, <3>2
      <4>2. y \in a .. a + s - 1
          BY <1>3, <1>5, <3>2
      <4> QED
          BY <1>11, <3>1, <3>2, <4>1, <4>2, Zenon
    <3>3. CASE y # a
      <4>1. [bits EXCEPT ![a] = byte][y] = bits[y]
          BY <1>7, <3>3
      <4>2. y \in a .. a + s - 1 => bits[y] = {}
          BY <1>3, <1>5, <1>9, <3>3
      <4> QED
          BY <3>1, <3>3, <4>1, <4>2, Zenon
    <3> QED
        BY <3>2, <3>3
  <2>2. DOMAIN [bits EXCEPT ![a] = byte] = 0 .. cap - 1 /\ DOMAIN put = 0 .. cap - 1
      BY <1>7, <1>12
  <2>3. /\ [bits EXCEPT ![a] = byte] = [y \in 0 .. cap - 1 |-> [bits EXCEPT ![a] = byte][y]]
        /\ put = [y \in 0 .. cap - 1 |-> put[y]]
      BY <1>7, <1>12
  <2> QED
      BY <2>1, <2>3
<1>14. PutBit(u, a, 0, x) = WithBits(u, [bits EXCEPT ![a] = byte])
    BY <1>6, <1>10, Zenon DEF PutBit
<1>15. PutScalar(u, o, e, x) = WithBits(u, put)
    BY <1>1, <1>2, <1>4, <1>6, <1>12, Zenon DEF PutScalar, PutInt
<1> QED
    BY <1>1, <1>13, <1>14, <1>15, Zenon
-----------------------------------------------------------------------------
(* What the calls do to the message *)

\* All scalars of a message are 0 or 1: the values that are put.
Binary(o) == o.vals \in Seq({0, 1})
AllBinary(u) == \A k \in 1 .. Len(u.objs) : Binary(Seen(u, k))

LEMMA MadeBinary ==
    ASSUME NEW s, NEW p
    PROVE  /\ \A n \in Nat : Binary(Msg!Blank(n, s, p)) /\ Binary(Msg!Text(n))
           /\ \A x \in {0, 1} : Binary(Msg!FirstOf(s, p, x))
<1>1. \A n \in Nat : Msg!Blank(n, s, p).vals = [e \in 1 .. n |-> 0]
    BY DEF Msg!Blank
<1>2. ASSUME NEW n \in Nat
      PROVE  Binary(Msg!Blank(n, s, p))
  <2>1. PICK zero : zero = [e \in 1 .. n |-> 0]
      OBVIOUS
  <2>2. zero \in Seq({0, 1})
      BY <2>1
  <2>3. Msg!Blank(n, s, p).vals \in Seq({0, 1})
      BY <1>1, <2>1, <2>2, Zenon
  <2> QED
      BY <2>3 DEF Binary
<1>3. ASSUME NEW n \in Nat
      PROVE  Binary(Msg!Text(n))
  <2>1. PICK chars : chars = [e \in 1 .. n + 1 |-> IF e <= n THEN 1 ELSE 0]
      OBVIOUS
  <2>2. chars \in Seq({0, 1})
      BY <2>1
  <2>3. Msg!Text(n) = [Msg!Blank(n + 1, 1, 0) EXCEPT !.vals = chars]
      BY <2>1, Zenon DEF Msg!Text
  <2>4. Msg!Text(n).vals = chars
      BY <2>3 DEF Msg!Blank
  <2> QED
      BY <2>2, <2>4 DEF Binary
<1>4. ASSUME NEW x \in {0, 1}
      PROVE  Binary(Msg!FirstOf(s, p, x))
  <2>1. Binary(Msg!Blank(1, s, p))
      BY <1>2
  <2>2. Binary(Msg!Holding(Msg!Blank(1, s, p), x))
    <3>1. Msg!Holding(Msg!Blank(1, s, p), x).vals = [[e \in 1 .. 1 |-> 0] EXCEPT ![1] = x]
        BY DEF Msg!Holding, Msg!Blank
    <3>2. PICK m, vals : m = 1 /\ vals = [[e \in 1 .. 1 |-> 0] EXCEPT ![1] = x]
        OBVIOUS
    <3>3. m \in Nat /\ vals \in [1 .. m -> {0, 1}]
        BY <3>2
    <3>4. vals \in Seq({0, 1})
        BY <3>3
    <3> QED
        BY <3>1, <3>2, <3>4, Zenon DEF Binary
  <2> QED
      BY <2>1, <2>2, Zenon DEF Msg!FirstOf
<1> QED
    BY <1>2, <1>3, <1>4

\* An object as Shown makes it
IsObject(o) == \E s, p, vals, ptrs : o = [ssize |-> s, psize |-> p, vals |-> vals, ptrs |-> ptrs]

LEMMA ChangedBinary ==
    ASSUME NEW o, IsObject(o), Binary(o)
    PROVE  /\ \A e, i, t : Binary(Relinked(o, e, i, t))
           /\ \A e : \A x \in {0, 1} : Binary(Rewritten(o, e, x))
           /\ \A x \in {0, 1} : Binary(Msg!Longer(o, x))
<1>1. PICK s, p, vals, ptrs : o = [ssize |-> s, psize |-> p, vals |-> vals, ptrs |-> ptrs]
    BY DEF IsObject
<1>2. o.vals = vals /\ vals \in Seq({0, 1})
    BY <1>1 DEF Binary
<1>3. ASSUME NEW e, NEW i, NEW t
      PROVE  Binary(Relinked(o, e, i, t))
  <2>1. Relinked(o, e, i, t).vals = vals
      BY <1>1 DEF Relinked
  <2> QED
      BY <1>2, <2>1 DEF Binary
<1>4. ASSUME NEW e, NEW x \in {0, 1}
      PROVE  Binary(Rewritten(o, e, x))
  <2>1. Rewritten(o, e, x).vals = [vals EXCEPT ![e + 1] = x]
      BY <1>1 DEF Rewritten
  <2>2. PICK n \in Nat : vals \in [1 .. n -> {0, 1}]
      BY <1>2, LenProperties, Zenon
  <2>3. PICK at, new : at = e + 1 /\ new = [vals EXCEPT ![at] = x]
      OBVIOUS
  <2>4. new \in [1 .. n -> {0, 1}]
      BY <2>2, <2>3
  <2>5. new \in Seq({0, 1})
      BY <2>4
  <2> QED
      BY <2>1, <2>3, <2>5, Zenon DEF Binary
<1>5. ASSUME NEW x \in {0, 1}
      PROVE  Binary(Msg!Longer(o, x))
  <2>1. PICK y \in {0, 1} : y = Msg!Held(o, x)
      BY DEF Msg!Held
  <2>2. Msg!Longer(o, x).vals = Append(vals, y)
      BY <1>1, <2>1 DEF Msg!Longer
  <2> QED
      BY <1>2, <2>2 DEF Binary
<1> QED
    BY <1>3, <1>4, <1>5

LEMMA SeenIsObject == \A u, k : IsObject(Seen(u, k))
    BY DEF IsObject, Seen, Shown

\* The scalars of a binary message, read one by one
LEMMA BinaryScalar ==
    ASSUME NEW u, Laid(u), NEW k \in 1 .. Len(u.objs), Binary(Seen(u, k)),
           NEW e \in 0 .. Obj(u, k).nelem - 1
    PROVE  GetScalar(u, Obj(u, k), e) \in {0, 1}
<1>1. PICK o, f : o = Obj(u, k) /\ f = Targets(u)
    OBVIOUS
<1>2. PICK n \in Nat : n = o.nelem
  <2>1. Placed(o)
      BY <1>1, ObjectInside
  <2> QED
      BY <2>1 DEF Placed, Shape
<1>3. PICK vals : vals = [d \in 1 .. n |-> GetScalar(u, o, d - 1)]
    OBVIOUS
<1>4. Seen(u, k).vals = vals
  <2>1. Shown(u, o, f).vals = [d \in 1 .. o.nelem |-> GetScalar(u, o, d - 1)]
      BY DEF Shown
  <2> QED
      BY <1>1, <1>2, <1>3, <2>1 DEF Seen
<1>5. vals \in Seq({0, 1})
    BY <1>4 DEF Binary
<1>6. e + 1 \in 1 .. n /\ (e + 1) - 1 = e
    BY <1>1, <1>2
<1>7. Len(vals) = n
  <2>1. DOMAIN vals = 1 .. n /\ DOMAIN vals = 1 .. Len(vals) /\ Len(vals) \in Nat
      BY <1>3, <1>5
  <2> QED
      BY <2>1
<1>8. vals[e + 1] \in {0, 1}
    BY <1>5, <1>6, <1>7
<1>9. vals[e + 1] = GetScalar(u, o, e)
    BY <1>3, <1>6
<1> QED
    BY <1>1, <1>8, <1>9

LEMMA StaysBinary ==
    ASSUME NEW cap \in Nat, NEW u, Clean(u, cap), AllBinary(u)
    PROVE  /\ \A v, k : SeenBut(u, v, k, cap) /\ Binary(Seen(v, k)) => AllBinary(v)
           /\ \A v, x : Made(u, v, cap, x) /\ Binary(x) => AllBinary(v)
<1>1. ASSUME NEW v, NEW k, SeenBut(u, v, k, cap), Binary(Seen(v, k))
      PROVE  AllBinary(v)
    BY <1>1, Zenon DEF SeenBut, AllBinary
<1>2. ASSUME NEW v, NEW x, Made(u, v, cap, x), Binary(x)
      PROVE  AllBinary(v)
  <2>1. \A j \in 1 .. Len(u.objs) : Obj(v, j) = Obj(u, j) /\ Seen(v, j) = Seen(u, j)
      BY <1>2, MadeSeen, Zenon
  <2>2. Seen(v, Len(u.objs) + 1) = x /\ Len(v.objs) = Len(u.objs) + 1 /\ Len(u.objs) \in Nat
      BY <1>2, CleanFacts, Zenon DEF Made
  <2>3. ASSUME NEW j \in 1 .. Len(v.objs)
        PROVE  Binary(Seen(v, j))
    <3>1. j \in 1 .. Len(u.objs) \/ j = Len(u.objs) + 1
        BY <2>2
    <3> QED
        BY <1>2, <2>1, <2>2, <3>1, Zenon DEF AllBinary
  <2> QED
      BY <2>3, Zenon DEF AllBinary
<1> QED
    BY <1>1, <1>2

LEMMA CleanNow ==
    ASSUME Inv, faults = {}
    PROVE  Clean(w, client.cap) /\ client.cap \in Nat /\ Objects = 1 .. Len(w.objs)
<1>1. PICK yes \in BOOLEAN : yes = TRUE
    OBVIOUS
<1>2. "shortened" \notin faults /\ "linked" \notin faults
    OBVIOUS
<1>3. Good(w, client.cap, yes, yes)
    BY <1>2, Zenon DEF Inv
<1> QED
    BY <1>1, <1>3, InvFacts, Zenon DEF Clean

\* What a call without a fault makes of the message
LEMMA CreateReads ==
    ASSUME Inv, faults = {}, AllBinary(w), NEW m \in client.makes, Create(m)
    PROVE  /\ AllBinary(w')
           /\ ObjectsIn(w') = Append(ObjectsIn(w), Msg!Blank(m.nelem, m.ssize, m.psize))
<1>1. PICK x : x = Msg!Blank(m.nelem, m.ssize, m.psize)
    OBVIOUS
<1>2. PICK v : v = CreateIn(w, m.nelem, m.ssize, m.psize)
    OBVIOUS
<1>3. /\ Shape(m.nelem, m.ssize, m.psize)
      /\ EndOf(NewObj(w, m.nelem, m.ssize, m.psize)) <= client.cap
      /\ w' = v
    BY <1>2, InvFacts DEF Create, Fits
<1>4. Clean(w, client.cap) /\ client.cap \in Nat
    BY CleanNow
<1>5. Made(w, v, client.cap, x)
    BY <1>1, <1>2, <1>3, <1>4, MadeBlank, Zenon
<1>6. Binary(x)
  <2>1. m.nelem \in Nat
      BY <1>3 DEF Shape
  <2> QED
      BY <1>1, <2>1, MadeBinary, Zenon
<1>7. AllBinary(v)
    BY <1>4, <1>5, <1>6, StaysBinary, Zenon
<1>8. ObjectsIn(v) = Append(ObjectsIn(w), x)
    BY <1>4, <1>5, MadeNew, Zenon
<1> QED
    BY <1>1, <1>3, <1>7, <1>8, Zenon

\* Creation through a pointer
LEMMA MadeReads ==
    ASSUME Inv, faults = {}, AllBinary(w),
           NEW k \in Objects, NEW e \in Elements(k), NEW i \in Pointers(k),
           NEW mid, NEW x, Made(w, mid, client.cap, x), Binary(x),
           NEW slot, slot = Slot(Obj(w, k), e, i), w' = PutWord(mid, slot, RelTo(slot, w.len))
    PROVE  /\ AllBinary(w')
           /\ ObjectsIn(w') = Msg!WithLink(Append(ObjectsIn(w), x), k, e, i, Len(ObjectsIn(w)) + 1)
<1>1. PICK v : v = PutWord(mid, Slot(Obj(w, k), e, i), RelTo(Slot(Obj(w, k), e, i), w.len))
    OBVIOUS
<1>2. w' = v
    BY <1>1
<1>3. /\ k \in 1 .. Len(w.objs) /\ e \in 0 .. Obj(w, k).nelem - 1 /\ i \in 0 .. Obj(w, k).psize - 1
      /\ Clean(w, client.cap) /\ client.cap \in Nat
    BY CleanNow, Zenon DEF Elements, Pointers
<1>4. /\ ObjectsIn(v) = Msg!WithLink(Append(ObjectsIn(w), x), k, e, i, Len(ObjectsIn(w)) + 1)
      /\ Clean(mid, client.cap) /\ k \in 1 .. Len(mid.objs) /\ SeenBut(mid, v, k, client.cap)
      /\ Seen(v, k) = Relinked(Seen(mid, k), e, i, Len(w.objs) + 1)
    BY <1>1, <1>3, MadeLinked
<1>5. AllBinary(mid)
    BY <1>3, StaysBinary, Zenon
<1>6. Binary(Seen(v, k))
    BY <1>4, <1>5, SeenIsObject, ChangedBinary, Zenon DEF AllBinary
<1>7. AllBinary(v)
    BY <1>3, <1>4, <1>5, <1>6, StaysBinary, Zenon
<1> QED
    BY <1>2, <1>4, <1>7, Zenon

LEMMA InitFieldReads ==
    ASSUME Inv, faults = {}, AllBinary(w),
           NEW k \in Objects, NEW e \in Elements(k), NEW i \in Pointers(k),
           NEW m \in client.makes, InitField(k, e, i, m), faults' = {}
    PROVE  /\ AllBinary(w')
           /\ ObjectsIn(w') = Msg!WithLink(Append(ObjectsIn(w), Msg!Blank(m.nelem, m.ssize, m.psize)),
                                           k, e, i, Len(ObjectsIn(w)) + 1)
<1>1. PICK slot : slot = Slot(Obj(w, k), e, i)
    OBVIOUS
<1>2. PICK mid : mid = CreateIn(w, m.nelem, m.ssize, m.psize)
    OBVIOUS
<1>3. PICK x : x = Msg!Blank(m.nelem, m.ssize, m.psize)
    OBVIOUS
<1>4. /\ EndOf(NewObj(w, m.nelem, m.ssize, m.psize)) <= client.cap
      /\ w' = PutWord(mid, slot, RelTo(slot, w.len))
  <2>1. "linked" \notin faults'
      OBVIOUS
  <2>2. "linked" \in faults \cup {"linked"}
      OBVIOUS
  <2> QED
      BY <1>1, <1>2, <2>1, <2>2, Zenon DEF InitField, Fits, PutPtr
<1>5. Shape(m.nelem, m.ssize, m.psize)
    BY InvFacts, Zenon
<1>6. Made(w, mid, client.cap, x)
    BY <1>2, <1>3, <1>4, <1>5, CleanNow, MadeBlank, Zenon
<1>7. Binary(x)
  <2>1. m.nelem \in Nat
      BY <1>5 DEF Shape
  <2> QED
      BY <1>3, <2>1, MadeBinary, Zenon
<1>8. /\ AllBinary(w')
      /\ ObjectsIn(w') = Msg!WithLink(Append(ObjectsIn(w), x), k, e, i, Len(ObjectsIn(w)) + 1)
    BY <1>1, <1>4, <1>6, <1>7, MadeReads
<1> QED
    BY <1>3, <1>8, Zenon

LEMMA PutStrReads ==
    ASSUME Inv, faults = {}, AllBinary(w),
           NEW k \in Objects, NEW e \in Elements(k), NEW i \in Pointers(k),
           NEW n \in StrLens, PutStr(k, e, i, n)
    PROVE  /\ AllBinary(w')
           /\ ObjectsIn(w') = Msg!WithLink(Append(ObjectsIn(w), Msg!Text(n)),
                                           k, e, i, Len(ObjectsIn(w)) + 1)
<1>1. PICK slot : slot = Slot(Obj(w, k), e, i)
    OBVIOUS
<1>2. PICK mid : mid = PutChars(CreateIn(w, n + 1, 1, 0), w.len + HdrSz, n)
    OBVIOUS
<1>3. PICK x : x = Msg!Text(n)
    OBVIOUS
<1>4. /\ EndOf(NewObj(w, n + 1, 1, 0)) <= client.cap
      /\ w' = PutWord(mid, slot, RelTo(slot, w.len))
    BY <1>1, <1>2, Zenon DEF PutStr, Fits, PutPtr
<1>5. n \in Nat
    BY WriterAssumption
<1>6. Made(w, mid, client.cap, x)
    BY <1>2, <1>3, <1>4, <1>5, CleanNow, MadeString, Zenon
<1>7. Binary(x)
    BY <1>3, <1>5, MadeBinary, Zenon
<1>8. /\ AllBinary(w')
      /\ ObjectsIn(w') = Msg!WithLink(Append(ObjectsIn(w), x), k, e, i, Len(ObjectsIn(w)) + 1)
    BY <1>1, <1>4, <1>6, <1>7, MadeReads
<1> QED
    BY <1>3, <1>8, Zenon

LEMMA AppendFirstReads ==
    ASSUME Inv, faults = {}, AllBinary(w),
           NEW k \in Objects, NEW e \in Elements(k), NEW i \in Pointers(k),
           NEW kind \in DOMAIN KindShape, NEW y \in {0, 1}, AppendFirst(k, e, i, kind, y)
    PROVE  /\ AllBinary(w')
           /\ ObjectsIn(w')
                = Msg!WithLink(Append(ObjectsIn(w),
                                      Msg!FirstOf(KindShape[kind].ssize, KindShape[kind].psize, y)),
                               k, e, i, Len(ObjectsIn(w)) + 1)
<1>1. PICK slot : slot = Slot(Obj(w, k), e, i)
    OBVIOUS
<1>2. PICK s, p : s = KindShape[kind].ssize /\ p = KindShape[kind].psize
    OBVIOUS
<1>3. PICK v : v = CreateIn(w, 1, s, p)
    OBVIOUS
<1>4. PICK mid : mid = IF s > 0 THEN PutScalar(v, Obj(v, Len(w.objs) + 1), 0, y) ELSE v
    OBVIOUS
<1>5. PICK x : x = Msg!FirstOf(s, p, y)
    OBVIOUS
<1>6. /\ EndOf(NewObj(w, 1, s, p)) <= client.cap
      /\ w' = PutWord(mid, slot, RelTo(slot, w.len))
    BY <1>1, <1>2, <1>3, <1>4, Zenon DEF AppendFirst, Fits, PutPtr, NewIndex
<1>7. Shape(1, s, p)
    BY <1>2, WriterAssumption, Zenon
<1>8. Made(w, mid, client.cap, x)
  <2>1. CASE s > 0
      BY <1>3, <1>4, <1>5, <1>6, <1>7, <2>1, CleanNow, MadeFirst, Zenon
  <2>2. CASE ~(s > 0)
    <3>1. x = Msg!Blank(1, s, p) /\ mid = v
        BY <1>4, <1>5, <2>2, Zenon DEF Msg!FirstOf
    <3> QED
        BY <1>3, <1>6, <1>7, <3>1, CleanNow, MadeBlank, Zenon
  <2> QED
      BY <2>1, <2>2
<1>9. Binary(x)
    BY <1>5, MadeBinary, Zenon
<1>10. /\ AllBinary(w')
       /\ ObjectsIn(w') = Msg!WithLink(Append(ObjectsIn(w), x), k, e, i, Len(ObjectsIn(w)) + 1)
    BY <1>1, <1>6, <1>8, <1>9, MadeReads
<1> QED
    BY <1>2, <1>5, <1>10, Zenon

LEMMA LinkReads ==
    ASSUME Inv, faults = {}, AllBinary(w),
           NEW k \in Objects, NEW e \in Elements(k), NEW i \in Pointers(k),
           NEW t \in Objects, Link(k, e, i, t)
    PROVE  /\ AllBinary(w')
           /\ ObjectsIn(w') = Msg!WithLink(ObjectsIn(w), k, e, i, t)
<1>1. /\ k \in 1 .. Len(w.objs) /\ t \in 1 .. Len(w.objs)
      /\ e \in 0 .. Obj(w, k).nelem - 1 /\ i \in 0 .. Obj(w, k).psize - 1
      /\ Clean(w, client.cap) /\ client.cap \in Nat
    BY CleanNow, Zenon DEF Elements, Pointers
<1>2. PICK v : v = LinkedTo(w, k, e, i, t)
    OBVIOUS
<1>3. w.objs[t].at > Slot(Obj(w, k), e, i) /\ w' = v
    BY <1>2, Zenon DEF Link, PutPtr, LinkedTo
<1>4. SeenBut(w, v, k, client.cap) /\ Seen(v, k) = Relinked(Seen(w, k), e, i, t)
    BY <1>1, <1>2, <1>3, LinkSeen, Zenon
<1>5. ObjectsIn(v) = Msg!WithLink(ObjectsIn(w), k, e, i, t)
    BY <1>1, <1>4, LinkedReads
<1>6. Binary(Seen(v, k))
    BY <1>1, <1>4, SeenIsObject, ChangedBinary, Zenon DEF AllBinary
<1>7. AllBinary(v)
    BY <1>1, <1>4, <1>6, StaysBinary, Zenon
<1> QED
    BY <1>3, <1>5, <1>7, Zenon

LEMMA SetScalarReads ==
    ASSUME Inv, faults = {}, AllBinary(w), NEW k \in Objects, NEW e \in Elements(k),
           NEW x \in {0, 1}, SetScalar(k, e, x)
    PROVE  /\ AllBinary(w')
           /\ ObjectsIn(w') = Msg!WithValue(ObjectsIn(w), k, e, x)
<1>1. /\ k \in 1 .. Len(w.objs) /\ e \in 0 .. Obj(w, k).nelem - 1
      /\ Clean(w, client.cap) /\ client.cap \in Nat
      /\ HasScalar(Obj(w, k))
    BY CleanNow, Zenon DEF Elements, SetScalar
<1>2. PICK v : v = PutScalar(w, Obj(w, k), e, x)
    OBVIOUS
<1>3. SeenBut(w, v, k, client.cap) /\ Seen(v, k) = Rewritten(Seen(w, k), e, x)
    BY <1>1, <1>2, ScalarSeen
<1>4. PICK os : os = ObjectsIn(w)
    OBVIOUS
<1>5. os[k] = Seen(w, k)
    BY <1>1, <1>4, SeenAll, Zenon
<1>6. ObjectsIn(v) = [os EXCEPT ![k] = Rewritten(os[k], e, x)]
  <2>1. Seen(v, k) = Rewritten(os[k], e, x)
      BY <1>3, <1>5, Zenon
  <2> QED
      BY <1>1, <1>3, <1>4, <2>1, SeenChange
<1>7. ObjectsIn(v) = Msg!WithValue(os, k, e, x)
    BY <1>6, ValueIs
<1>8. Binary(Seen(v, k))
  <2>1. IsObject(Seen(w, k)) /\ Binary(Seen(w, k))
      BY <1>1, SeenIsObject, Zenon DEF AllBinary
  <2>2. Binary(Rewritten(Seen(w, k), e, x))
      BY <2>1, ChangedBinary
  <2> QED
      BY <1>3, <2>2
<1>9. AllBinary(v)
    BY <1>1, <1>3, <1>8, StaysBinary, Zenon
<1> QED
    BY <1>2, <1>4, <1>7, <1>9, Zenon DEF SetScalar

\* The list may have one more element.
LEMMA LongerShape ==
    ASSUME NEW u, Laid(u), NEW k \in 1 .. Len(u.objs), NEW n, n = Obj(u, k).nelem,
           n < IF ElemSz(Obj(u, k)) = 0 THEN MaxBits ELSE MaxElems
    PROVE  Shape(n + 1, Obj(u, k).ssize, Obj(u, k).psize)
<1>1. PICK o : o = Obj(u, k)
    OBVIOUS
<1>2. Placed(o)
    BY <1>1, ObjectInside
<1>3. ElemSz(o) = 0 <=> o.ssize = 0 /\ o.psize = 0
    BY <1>2, SizeFacts
<1>4. Shape(n, o.ssize, o.psize)
    BY <1>1, <1>2 DEF Placed
<1>5. ElemSz(o) = 0 => n < MaxBits
    BY <1>1
<1>6. Shape(n + 1, o.ssize, o.psize)
    BY <1>3, <1>4, <1>5, WriterAssumption, NelemModAssumption DEF Shape
<1> QED
    BY <1>1, <1>6

\* Where a pointer of the message leads
LEMMA PointerReads ==
    ASSUME NEW cap \in Nat, NEW u, Clean(u, cap), NEW k \in 1 .. Len(u.objs),
           NEW e \in 0 .. Obj(u, k).nelem - 1, NEW i \in 0 .. Obj(u, k).psize - 1
    PROVE  ObjectsIn(u)[k].ptrs[e + 1][i + 1] = TargetIn(u, Slot(Obj(u, k), e, i))
<1>1. PICK o, f : o = Obj(u, k) /\ f = Targets(u)
    OBVIOUS
<1>2. Laid(u) /\ u.len \in Nat /\ u.len <= cap /\ DOMAIN u.rel = 0 .. cap - 1
    BY CleanFacts
<1>3. ObjectsIn(u)[k] = Shown(u, o, f)
    BY <1>1, SeenAll, Zenon DEF Seen
<1>4. /\ e + 1 \in 1 .. o.nelem /\ (e + 1) - 1 = e
      /\ i + 1 \in 1 .. o.psize /\ (i + 1) - 1 = i
  <2>1. o.nelem \in Nat /\ o.psize \in Nat
    <3>1. Placed(o)
        BY <1>1, <1>2, ObjectInside
    <3> QED
        BY <3>1 DEF Placed, Shape
  <2> QED
      BY <1>1, <2>1
<1>5. ObjectsIn(u)[k].ptrs = [d \in 1 .. o.nelem |-> [j \in 1 .. o.psize |-> f[Slot(o, d - 1, j - 1)]]]
  <2>1. Shown(u, o, f).ptrs = [d \in 1 .. o.nelem |-> [j \in 1 .. o.psize |-> f[Slot(o, d - 1, j - 1)]]]
      BY DEF Shown
  <2> QED
      BY <1>3, <2>1, Zenon
<1>6. ObjectsIn(u)[k].ptrs[e + 1][i + 1] = f[Slot(o, e, i)]
    BY <1>4, <1>5
<1>7. Slot(o, e, i) \in 0 .. cap - 1
  <2>1. Slot(Obj(u, k), e, i) \in Nat /\ Slot(Obj(u, k), e, i) < u.len
      BY <1>2, SlotInside
  <2> QED
      BY <1>1, <1>2, <2>1
<1> QED
    BY <1>1, <1>2, <1>6, <1>7, Zenon DEF Targets

LEMMA AppendValueReads ==
    ASSUME Inv, faults = {}, AllBinary(w),
           NEW k \in Objects, NEW e \in Elements(k), NEW i \in Pointers(k),
           NEW x \in {0, 1}, AppendValue(k, e, i, x)
    PROVE  /\ AllBinary(w')
           /\ \E t \in {ObjectsIn(w)[k].ptrs[e + 1][i + 1]} :
                ObjectsIn(w') = [ObjectsIn(w) EXCEPT ![t] = Msg!Longer(ObjectsIn(w)[t], x)]
<1>1. PICK list : list = TargetIn(w, Slot(Obj(w, k), e, i))
    OBVIOUS
<1>2. PICK n : n = Obj(w, list).nelem
    OBVIOUS
<1>3. PICK g : g = ResizeIn(w, list, n + 1)
    OBVIOUS
<1>4. PICK v : v = IF HasScalar(Obj(g, list)) THEN PutScalar(g, Obj(g, list), n, x) ELSE g
    OBVIOUS
<1>5. /\ list \in 1 .. Len(w.objs) /\ AtEnd(w, list)
      /\ n < IF ElemSz(Obj(w, list)) = 0 THEN MaxBits ELSE MaxElems
      /\ EndOf(Resized(Obj(w, list), n + 1)) <= client.cap
      /\ w' = v
    BY <1>1, <1>2, <1>3, <1>4, InvFacts, Zenon DEF AppendValue
<1>6. Laid(w) /\ Clean(w, client.cap) /\ client.cap \in Nat
    BY InvFacts, CleanNow
<1>7. Shape(n + 1, Obj(w, list).ssize, Obj(w, list).psize)
    BY <1>2, <1>5, <1>6, LongerShape
<1>8. SeenBut(w, v, list, client.cap) /\ Seen(v, list) = Msg!Longer(Seen(w, list), x)
    BY <1>2, <1>3, <1>4, <1>5, <1>6, <1>7, AppendSeen
<1>9. PICK os : os = ObjectsIn(w)
    OBVIOUS
<1>10. os[list] = Seen(w, list)
    BY <1>5, <1>6, <1>9, SeenAll, Zenon
<1>11. ObjectsIn(v) = [os EXCEPT ![list] = Msg!Longer(os[list], x)]
  <2>1. Seen(v, list) = Msg!Longer(os[list], x)
      BY <1>8, <1>10, Zenon
  <2> QED
      BY <1>5, <1>6, <1>8, <1>9, <2>1, SeenChange
<1>12. list = os[k].ptrs[e + 1][i + 1]
  <2>1. k \in 1 .. Len(w.objs) /\ e \in 0 .. Obj(w, k).nelem - 1 /\ i \in 0 .. Obj(w, k).psize - 1
      BY CleanNow, Zenon DEF Elements, Pointers
  <2> QED
      BY <1>1, <1>6, <1>9, <2>1, PointerReads, Zenon
<1>13. Binary(Seen(v, list))
    BY <1>5, <1>8, SeenIsObject, ChangedBinary, Zenon DEF AllBinary
<1>14. AllBinary(v)
    BY <1>6, <1>8, <1>13, StaysBinary, Zenon
<1> QED
    BY <1>5, <1>9, <1>11, <1>12, <1>14, Zenon

\* put_bool in a message without faults is a step of C too.
LEMMA PyBoolIsScalar ==
    ASSUME Inv, faults = {}, AllBinary(w), NEW k \in Objects, NEW e \in Elements(k), NEW x \in {0, 1},
           PyPutBool(k, e, x)
    PROVE  SetScalar(k, e, x)
<1>1. PICK o : o = Obj(w, k)
    OBVIOUS
<1>2. /\ Clean(w, client.cap) /\ client.cap \in Nat /\ k \in 1 .. Len(w.objs)
      /\ e \in 0 .. o.nelem - 1
    BY <1>1, CleanNow, Zenon DEF Elements
<1>3. /\ Laid(w) /\ w.bits \in Bytes(client.cap) /\ w.len <= client.cap /\ w.len \in Nat
    BY <1>2, CleanFacts
<1>4. Placed(o) /\ EndOf(o) \in Nat /\ EndOf(o) <= w.len
    BY <1>1, <1>2, <1>3, ObjectInside
<1>5. EndOf(o) <= client.cap
    BY <1>2, <1>3, <1>4
<1>6. PICK a : a = PyItem(o, e).base + 0
    OBVIOUS
<1>7. /\ 0 + 1 <= o.ssize /\ w' = PutBit(w, a, 0, x) /\ UNCHANGED <<client, clears, faults>>
  <2>1. PyItem(o, e).ssize = o.ssize
      BY DEF PyItem, Handle
  <2> QED
      BY <1>1, <1>6, <2>1, Zenon DEF PyPutBool, PyInRange, PyScalarPtr, PyKeep
<1>8. o.ssize \in Nat /\ o.psize \in Nat /\ o.ssize >= 1 /\ HasScalar(o)
    BY <1>4, <1>7 DEF Placed, Shape, HasScalar
<1>9. ElemSz(o) # 0
  <2>1. ElemSz(o) = 0 <=> o.ssize = 0 /\ o.psize = 0
      BY <1>4, SizeFacts
  <2> QED
      BY <1>8, <2>1
<1>10. a = GetElem(o, e).base
  <2>1. PyItem(o, e).base = GetElem(o, e).base /\ GetElem(o, e).base \in Nat
      BY <1>2, <1>4, <1>9, PyElemAlike, ElemFacts
  <2> QED
      BY <1>6, <2>1
<1>11. GetScalar(w, o, e) \in {0, 1}
  <2>1. Binary(Seen(w, k))
      BY <1>2, Zenon DEF AllBinary
  <2> QED
      BY <1>1, <1>2, <1>3, <2>1, BinaryScalar
<1>12. PutBit(w, GetElem(o, e).base, 0, x) = PutScalar(w, o, e, x)
    BY <1>2, <1>3, <1>4, <1>5, <1>8, <1>11, BoolIsInt
<1> QED
    BY <1>1, <1>7, <1>8, <1>10, <1>12, Zenon DEF SetScalar

\* A buffer without objects is the empty message.
LEMMA EmptySeen ==
    ASSUME NEW cap, NEW u, Clean(u, cap), u.objs = <<>>
    PROVE  ObjectsIn(u) = <<>>
<1>1. PICK f : f = ObjectsIn(u)
    OBVIOUS
<1>2. Len(u.objs) = 0
    OBVIOUS
<1>3. DOMAIN f = 1 .. 0
    BY <1>1, <1>2, SeenAll
<1>4. 1 .. 0 = {}
    OBVIOUS
<1>5. f \in [1 .. 0 -> {}]
  <2>1. f = [k \in DOMAIN f |-> f[k]]
      BY <1>1, Zenon DEF ObjectsIn
  <2> QED
      BY <1>3, <1>4, <2>1, Zenon
<1>6. f \in Seq({}) /\ Len(f) = 0
    BY <1>5
<1> QED
    BY <1>1, <1>6

\* The calls change the buffer as they do without the message next to it.
LEMMA MsgSteps == MsgNext => BothNext
<1> SUFFICES ASSUME MsgNext
             PROVE  BothNext
    OBVIOUS
<1>1. "wrapped" \notin faults
    BY Zenon DEF MsgNext
<1>2. SUFFICES Step \/ PyStep
    BY <1>1, Zenon DEF BothNext, Next
<1>3. CASE MakesObjects
    BY <1>3, Zenon DEF MakesObjects, Step, PyStep
<1>4. ASSUME NEW k \in Objects, NEW e \in Elements(k), NEW i \in Pointers(k), UsesPointer(k, e, i)
      PROVE  Step \/ PyStep
  <2>1. ASSUME NEW m \in client.makes, InitField(k, e, i, m) \/ PyInitField(k, e, i, m)
        PROVE  Step \/ PyStep
      BY <2>1, Zenon DEF Step, PyStep
  <2>2. ASSUME NEW t \in Objects, Link(k, e, i, t) \/ PyLink(k, e, i, t)
        PROVE  Step \/ PyStep
      BY <2>2, Zenon DEF Step, PyStep
  <2>3. ASSUME NEW n \in StrLens, PutStr(k, e, i, n) \/ PyPutStr(k, e, i, n)
        PROVE  Step \/ PyStep
      BY <2>3, Zenon DEF Step, PyStep
  <2>4. ASSUME NEW x \in {0, 1}, AppendValue(k, e, i, x)
        PROVE  Step
      BY <2>4, Zenon DEF Step
  <2>5. ASSUME NEW kind \in DOMAIN KindShape, NEW x \in {0, 1}, AppendFirst(k, e, i, kind, x)
        PROVE  Step
      BY <2>5, Zenon DEF Step
  <2> QED
      BY <1>4, <2>1, <2>2, <2>3, <2>4, <2>5, Zenon DEF UsesPointer
<1>5. ASSUME NEW k \in Objects, NEW e \in Elements(k), e \in EdgeElements(k), PutsScalar(k, e)
      PROVE  Step \/ PyStep
  <2>1. ASSUME NEW x \in {0, 1}, SetScalar(k, e, x)
        PROVE  Step
      BY <1>5, <2>1, Zenon DEF Step
  <2>2. ASSUME NEW x \in {0, 1}, PyPutInt(k, e, x) \/ PyPutBool(k, e, x)
        PROVE  PyStep
      BY <1>5, <2>2, Zenon DEF PyStep
  <2> QED
      BY <1>5, <2>1, <2>2, Zenon DEF PutsScalar
<1>6. CASE GivesUp
    BY <1>6, Zenon DEF GivesUp, Step
<1> QED
    BY <1>3, <1>4, <1>5, <1>6, Zenon DEF MsgNext

LEMMA MsgInvHolds == MsgSpec => []Inv
<1>1. MsgInit => Inv
    BY InitInv, Zenon DEF MsgInit
<1>2. Inv /\ [MsgNext]_<<vars, graph>> => Inv'
    BY MsgSteps, StepInv, Zenon
<1> QED
    BY <1>1, <1>2, PTL DEF MsgSpec

\* The objects and effects of MsgGraph are the same for this message.
LEMMA SameMessage ==
    /\ \A n, s, p : Message!Blank(n, s, p) = Msg!Blank(n, s, p)
    /\ \A n : Message!Text(n) = Msg!Text(n)
    /\ \A s, p, x : Message!FirstOf(s, p, x) = Msg!FirstOf(s, p, x)
    /\ \A os, k, e, i, t : Message!WithLink(os, k, e, i, t) = Msg!WithLink(os, k, e, i, t)
    /\ \A os, k, e, x : Message!WithValue(os, k, e, x) = Msg!WithValue(os, k, e, x)
    /\ \A o, x : Message!Longer(o, x) = Msg!Longer(o, x)
<1>1. \A p : Message!Nulls(p) = Msg!Nulls(p)
    BY Zenon DEF Message!Nulls, Msg!Nulls
<1>2. \A n, s, p : Message!Blank(n, s, p) = Msg!Blank(n, s, p)
    BY <1>1, Zenon DEF Message!Blank, Msg!Blank
<1>3. \A n : Message!Text(n) = Msg!Text(n)
    BY <1>2, Zenon DEF Message!Text, Msg!Text
<1>4. \A s, p, x : Message!FirstOf(s, p, x) = Msg!FirstOf(s, p, x)
    BY <1>2, Zenon DEF Message!FirstOf, Msg!FirstOf, Message!Holding, Msg!Holding
<1>5. \A os, k, e, i, t : Message!WithLink(os, k, e, i, t) = Msg!WithLink(os, k, e, i, t)
    BY Zenon DEF Message!WithLink, Msg!WithLink
<1>6. \A os, k, e, x : Message!WithValue(os, k, e, x) = Msg!WithValue(os, k, e, x)
    BY Zenon DEF Message!WithValue, Msg!WithValue
<1>7. \A o, x : Message!Held(o, x) = Msg!Held(o, x)
    BY Zenon DEF Message!Held, Msg!Held
<1>8. \A o, x : Message!Longer(o, x) = Msg!Longer(o, x)
    BY <1>1, <1>7, Zenon DEF Message!Longer, Msg!Longer
<1> QED
    BY <1>2, <1>3, <1>4, <1>5, <1>6, <1>8

\* The buffer is the message, and all its scalars are bits, as long as there
\* was no fault.
Reads == faults = {} => ObjectsIn(w) = graph /\ AllBinary(w)

LEMMA MakesReads ==
    ASSUME Inv, Reads, MakesObjects
    PROVE  Reads'
<1>1. SUFFICES ASSUME faults' = {}
               PROVE  ObjectsIn(w') = graph' /\ AllBinary(w')
    BY Zenon DEF Reads
<1>2. PICK m \in client.makes :
          /\ Create(m) \/ PyNew(m)
          /\ Does(Message!Create(Message!Blank(m.nelem, m.ssize, m.psize)))
    BY Zenon DEF MakesObjects
<1>3. Create(m)
    BY <1>2, PyNewIsCreate, Zenon
<1>4. faults = {}
    BY <1>1, <1>3, Zenon DEF Create
<1>5. ObjectsIn(w) = graph /\ AllBinary(w)
    BY <1>4, Zenon DEF Reads
<1>6. /\ AllBinary(w')
      /\ ObjectsIn(w') = Append(ObjectsIn(w), Msg!Blank(m.nelem, m.ssize, m.psize))
    BY <1>3, <1>4, <1>5, CreateReads
<1>7. graph' = Append(graph, Msg!Blank(m.nelem, m.ssize, m.psize))
    BY <1>1, <1>2, SameMessage, Zenon DEF Does, Message!Create
<1> QED
    BY <1>5, <1>6, <1>7, Zenon

LEMMA PointerCallReads ==
    ASSUME Inv, Reads, NEW k \in Objects, NEW e \in Elements(k), NEW i \in Pointers(k),
           UsesPointer(k, e, i)
    PROVE  Reads'
<1>1. SUFFICES ASSUME faults' = {}
               PROVE  ObjectsIn(w') = graph' /\ AllBinary(w')
    BY Zenon DEF Reads
<1>2. faults = {} => ObjectsIn(w) = graph /\ AllBinary(w)
    BY Zenon DEF Reads
<1>3. ASSUME NEW m \in client.makes, InitField(k, e, i, m) \/ PyInitField(k, e, i, m),
             Does(Message!CreateAt(k, e, i, Message!Blank(m.nelem, m.ssize, m.psize)))
      PROVE  ObjectsIn(w') = graph' /\ AllBinary(w')
  <2>1. InitField(k, e, i, m)
      BY <1>3, PyInitIsInit, Zenon
  <2>2. faults = {}
    <3>1. \A f, g : g \in f \cup {g} /\ g \notin {}
        OBVIOUS
    <3> QED
        BY <1>1, <2>1, <3>1, Zenon DEF InitField
  <2>3. /\ AllBinary(w')
        /\ ObjectsIn(w') = Msg!WithLink(Append(ObjectsIn(w), Msg!Blank(m.nelem, m.ssize, m.psize)),
                                        k, e, i, Len(ObjectsIn(w)) + 1)
      BY <1>1, <1>2, <2>1, <2>2, InitFieldReads
  <2>4. graph' = Msg!WithLink(Append(graph, Msg!Blank(m.nelem, m.ssize, m.psize)),
                              k, e, i, Len(graph) + 1)
      BY <1>1, <1>3, SameMessage, Zenon DEF Does, Message!CreateAt
  <2> QED
      BY <1>2, <2>2, <2>3, <2>4, Zenon
<1>4. ASSUME NEW t \in Objects, Link(k, e, i, t) \/ PyLink(k, e, i, t),
             Does(Message!Link(k, e, i, t))
      PROVE  ObjectsIn(w') = graph' /\ AllBinary(w')
  <2>1. Link(k, e, i, t)
      BY <1>4, PyLinkIsLink, Zenon
  <2>2. faults = {}
      BY <1>1, <2>1, Zenon DEF Link
  <2>3. AllBinary(w') /\ ObjectsIn(w') = Msg!WithLink(ObjectsIn(w), k, e, i, t)
      BY <1>2, <2>1, <2>2, LinkReads
  <2>4. graph' = Msg!WithLink(graph, k, e, i, t)
      BY <1>1, <1>4, SameMessage, Zenon DEF Does, Message!Link
  <2> QED
      BY <1>2, <2>2, <2>3, <2>4, Zenon
<1>5. ASSUME NEW n \in StrLens, PutStr(k, e, i, n) \/ PyPutStr(k, e, i, n),
             Does(Message!CreateAt(k, e, i, Message!Text(n)))
      PROVE  ObjectsIn(w') = graph' /\ AllBinary(w')
  <2>1. PutStr(k, e, i, n)
      BY <1>5, PyStrIsStr, Zenon
  <2>2. faults = {}
      BY <1>1, <2>1, Zenon DEF PutStr
  <2>3. /\ AllBinary(w')
        /\ ObjectsIn(w') = Msg!WithLink(Append(ObjectsIn(w), Msg!Text(n)),
                                        k, e, i, Len(ObjectsIn(w)) + 1)
      BY <1>2, <2>1, <2>2, PutStrReads
  <2>4. graph' = Msg!WithLink(Append(graph, Msg!Text(n)), k, e, i, Len(graph) + 1)
      BY <1>1, <1>5, SameMessage, Zenon DEF Does, Message!CreateAt
  <2> QED
      BY <1>2, <2>2, <2>3, <2>4, Zenon
<1>6. ASSUME NEW x \in {0, 1}, AppendValue(k, e, i, x), Does(Message!Grow(k, e, i, x))
      PROVE  ObjectsIn(w') = graph' /\ AllBinary(w')
  <2>1. faults = {}
      BY <1>1, <1>6, Zenon DEF AppendValue
  <2>2. /\ AllBinary(w')
        /\ \E t \in {ObjectsIn(w)[k].ptrs[e + 1][i + 1]} :
             ObjectsIn(w') = [ObjectsIn(w) EXCEPT ![t] = Msg!Longer(ObjectsIn(w)[t], x)]
      BY <1>2, <1>6, <2>1, AppendValueReads
  <2>3. PICK t : t = graph[k].ptrs[e + 1][i + 1]
      OBVIOUS
  <2>4. ObjectsIn(w') = [graph EXCEPT ![t] = Msg!Longer(graph[t], x)]
      BY <1>2, <2>1, <2>2, <2>3
  <2>5. graph' = [graph EXCEPT ![t] = Message!Longer(graph[t], x)]
      BY <1>1, <1>6, <2>3 DEF Does, Message!Grow
  <2> QED
      BY <2>2, <2>4, <2>5, SameMessage, Zenon
<1>7. ASSUME NEW kind \in DOMAIN KindShape, NEW x \in {0, 1}, AppendFirst(k, e, i, kind, x),
             Does(Message!CreateAt(k, e, i,
                      Message!FirstOf(KindShape[kind].ssize, KindShape[kind].psize, x)))
      PROVE  ObjectsIn(w') = graph' /\ AllBinary(w')
  <2>1. faults = {}
      BY <1>1, <1>7, Zenon DEF AppendFirst
  <2>2. /\ AllBinary(w')
        /\ ObjectsIn(w')
             = Msg!WithLink(Append(ObjectsIn(w),
                                   Msg!FirstOf(KindShape[kind].ssize, KindShape[kind].psize, x)),
                            k, e, i, Len(ObjectsIn(w)) + 1)
      BY <1>2, <1>7, <2>1, AppendFirstReads
  <2>3. graph' = Msg!WithLink(Append(graph,
                                     Msg!FirstOf(KindShape[kind].ssize, KindShape[kind].psize, x)),
                              k, e, i, Len(graph) + 1)
      BY <1>1, <1>7, SameMessage, Zenon DEF Does, Message!CreateAt
  <2> QED
      BY <1>2, <2>1, <2>2, <2>3, Zenon
<1> QED
    BY <1>3, <1>4, <1>5, <1>6, <1>7, Zenon DEF UsesPointer

LEMMA ScalarCallReads ==
    ASSUME Inv, Reads, NEW k \in Objects, NEW e \in Elements(k), PutsScalar(k, e)
    PROVE  Reads'
<1>1. SUFFICES ASSUME faults' = {}
               PROVE  ObjectsIn(w') = graph' /\ AllBinary(w')
    BY Zenon DEF Reads
<1>2. PICK x \in {0, 1} :
          /\ SetScalar(k, e, x) \/ PyPutInt(k, e, x) \/ PyPutBool(k, e, x)
          /\ Does(Message!Put(k, e, x))
    BY Zenon DEF PutsScalar
<1>3. faults = {}
    BY <1>1, <1>2, Zenon DEF SetScalar, PyPutInt, PyPutBool, PyKeep
<1>4. ObjectsIn(w) = graph /\ AllBinary(w)
    BY <1>3, Zenon DEF Reads
<1>5. SetScalar(k, e, x)
    BY <1>2, <1>3, <1>4, PyIntIsScalar, PyBoolIsScalar, Zenon
<1>6. AllBinary(w') /\ ObjectsIn(w') = Msg!WithValue(ObjectsIn(w), k, e, x)
    BY <1>3, <1>4, <1>5, SetScalarReads
<1>7. graph' = Msg!WithValue(graph, k, e, x)
    BY <1>1, <1>2, SameMessage, Zenon DEF Does, Message!Put
<1> QED
    BY <1>4, <1>6, <1>7, Zenon

LEMMA GivesUpReads ==
    ASSUME Inv, Reads, GivesUp, Inv'
    PROVE  Reads'
<1>1. SUFFICES ASSUME faults' = {}
               PROVE  ObjectsIn(w') = graph' /\ AllBinary(w')
    BY Zenon DEF Reads
<1>2. Clear /\ graph' = <<>>
  <2>1. \A f, g : g \in f \cup {g} /\ g \notin {}
      OBVIOUS
  <2> QED
      BY <1>1, <2>1, Zenon DEF GivesUp, Message!Clear, Shrink
<1>3. w'.objs = <<>>
    BY <1>2 DEF Clear, Wire
<1>4. Clean(w', client'.cap)
  <2>1. PICK yes \in BOOLEAN : yes = TRUE
      OBVIOUS
  <2>2. "shortened" \notin faults' /\ "linked" \notin faults'
      BY <1>1
  <2>3. Good(w', client'.cap, yes, yes)
      BY <2>2, Zenon DEF Inv
  <2> QED
      BY <2>1, <2>3, Zenon DEF Clean
<1>5. ObjectsIn(w') = <<>>
    BY <1>3, <1>4, EmptySeen
<1>6. AllBinary(w')
    BY <1>3 DEF AllBinary
<1> QED
    BY <1>2, <1>5, <1>6

LEMMA NextReads ==
    ASSUME Inv, Reads, [MsgNext]_<<vars, graph>>
    PROVE  Reads'
<1>1. CASE UNCHANGED <<vars, graph>>
    BY <1>1, Zenon DEF vars, Reads, AllBinary
<1>2. CASE MsgNext
  <2>1. Inv'
      BY <1>2, MsgSteps, StepInv, Zenon
  <2> QED
      BY <1>2, <2>1, MakesReads, PointerCallReads, ScalarCallReads, GivesUpReads, Zenon DEF MsgNext
<1> QED
    BY <1>1, <1>2

\* What the write API is for, in C and in Python: a buffer that saw no fault
\* reads back as the message that the calls describe with their own arguments:
\* the object created, the element and the value, the pointer and its target,
\* the list that a pointer led to.  Nothing shows through from memory used
\* before nbuf_clear or from malloc, and no write through one handle reaches
\* another object.
THEOREM WriterReadsBack == MsgSpec => []ReadsBack
<1>1. MsgInit => Reads
  <2>1. ASSUME MsgInit
        PROVE  Reads
    <3>1. Init /\ graph = <<>>
        BY <2>1 DEF MsgInit, Message!Init
    <3>2. faults = {} /\ w.objs = <<>>
      <4>1. faults = {} /\ w = EmptyWire(client.cap, 0, [a \in 0 .. client.cap - 1 |-> Garbage])
          BY <3>1 DEF Init
      <4> QED
          BY <4>1 DEF EmptyWire, Wire
    <3>3. Clean(w, client.cap)
        BY <3>1, <3>2, InitInv, CleanNow
    <3>4. ObjectsIn(w) = <<>>
        BY <3>2, <3>3, EmptySeen
    <3>5. AllBinary(w)
        BY <3>2 DEF AllBinary
    <3> QED
        BY <3>1, <3>4, <3>5, Zenon DEF Reads
  <2> QED
      BY <2>1
<1>2. Inv /\ Reads /\ [MsgNext]_<<vars, graph>> => Reads'
    BY NextReads
<1>3. Reads => ReadsBack
    BY Zenon DEF Reads, ReadsBack
<1> QED
    BY <1>1, <1>2, <1>3, MsgInvHolds, PTL DEF MsgSpec
=============================================================================

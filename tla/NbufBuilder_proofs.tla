------------------------- MODULE NbufBuilder_proofs -------------------------
(***************************************************************************)
(* Proofs about the builder, for every set of clients, every capacity and  *)
(* every number of objects.  What the put functions and nbuf_resize do to  *)
(* the bytes of one buffer is in NbufWire_proofs; here, the pool, that it  *)
(* is the message the calls describe, and the two passes of                *)
(* nbuf_serialize, which keep the message.                                 *)
(***************************************************************************)
EXTENDS BuilderMessage, NbufWire_proofs, WellFoundedInduction

-----------------------------------------------------------------------------
(* One buffer *)

\* A buffer of the pool: memory for Cap bytes whose pointer words are ids of the
\* n objects there are.
Memory(b, n) ==
    /\ b.len \in Nat /\ MetaSz <= b.len /\ b.len <= Cap
    /\ b.rel \in [0 .. Cap - 1 -> 0 .. n - 1]
    /\ b.bits \in Bytes(Cap)

\* Its one object lies behind the objmeta and ends where the buffer ends.
OneObject(b) ==
    /\ b.objs \in Seq(Headers) /\ Len(b.objs) = 1
    /\ Obj(b, 1).base = MetaSz + HdrSz /\ Placed(Obj(b, 1))
    /\ EndOf(Obj(b, 1)) = b.len

\* A buffer without an object is there only if memory for one was missing
\* (whole is false), zeroes are behind an object unless it was made shorter
\* (padded is false).
Buffer(b, n, padded, whole) ==
    /\ Memory(b, n)
    /\ \/ b.objs = <<>> /\ ~whole
       \/ OneObject(b) /\ (padded => PadZero(b.bits, Obj(b, 1)))

LEMMA CapFacts == Cap \in Nat /\ MetaSz = 16 /\ HdrSz = 8 /\ Cap >= 16
  BY BuilderAssumption DEF MetaSz, HdrSz

\* What malloc returned
LEMMA FreshFacts ==
    /\ Fresh.len = 16 /\ Fresh.objs = <<>>
    /\ Fresh.rel = [a \in 0 .. Cap - 1 |-> 0] /\ Fresh.rel \in [0 .. Cap - 1 -> Int]
    /\ Fresh.bits \in Bytes(Cap)
<1>1. /\ Fresh.len = 16 /\ Fresh.objs = <<>> /\ Fresh.rel = [a \in 0 .. Cap - 1 |-> 0]
      /\ Fresh.bits = [a \in 0 .. Cap - 1 |-> Garbage]
    BY DEF Fresh, EmptyWire, Wire, MetaSz
<1>2. Fresh.bits \in Bytes(Cap)
    BY <1>1, BuilderAssumption DEF Bytes
<1>3. Fresh.rel \in [0 .. Cap - 1 -> Int]
    BY <1>1
<1> QED
    BY <1>1, <1>2, <1>3

\* create without memory for the object
LEMMA FreshBuffer ==
    ASSUME NEW n \in Nat, n > 0, NEW padded
    PROVE  Buffer(Fresh, n, padded, FALSE)
<1>1. Fresh.rel \in [0 .. Cap - 1 -> 0 .. n - 1]
    BY FreshFacts
<1>2. Memory(Fresh, n)
    BY <1>1, FreshFacts, CapFacts DEF Memory
<1> QED
    BY <1>2, FreshFacts, Zenon DEF Buffer

\* create
LEMMA NewBufferFacts ==
    ASSUME NEW n \in Nat, n > 0, NEW c, NEW s, NEW p, Shape(c, s, p),
           NewBuffer(c, s, p).len <= Cap, NEW padded, NEW whole
    PROVE  /\ Buffer(NewBuffer(c, s, p), n, padded, whole) /\ OneObject(NewBuffer(c, s, p))
           /\ Obj(NewBuffer(c, s, p), 1) = Handle(24, c, s, p)
<1>1. PICK o : o = NewObj(Fresh, c, s, p)
    OBVIOUS
<1>2. o = Handle(24, c, s, p)
    BY <1>1, FreshFacts DEF NewObj, HdrSz
<1>3. PICK b : b = NewBuffer(c, s, p)
    OBVIOUS
<1>4. PICK h : h = Header(16, c, s, p)
    OBVIOUS
<1>5. /\ b.len = EndOf(o) /\ b.objs = Append(<<>>, h)
      /\ b.rel = Cleared(Fresh.rel, o.base, EndOf(o), 0)
      /\ b.bits = Cleared(Fresh.bits, o.base, EndOf(o), {})
    BY <1>1, <1>3, <1>4, FreshFacts DEF NewBuffer, CreateIn, Wire
<1>6. h \in Headers /\ h.at = 16 /\ h.nelem = c /\ h.ssize = s /\ h.psize = p
    BY <1>4 DEF Header, Headers, Shape
<1>7. b.objs \in Seq(Headers) /\ Len(b.objs) = 1 /\ b.objs[1] = h
    BY <1>5, <1>6
<1>8. Obj(b, 1) = o
    BY <1>2, <1>6, <1>7 DEF Obj, HdrSz
<1>9. Placed(o) /\ o.base = 24
  <2>1. o.base = 24 /\ o.nelem = c /\ o.ssize = s /\ o.psize = p
      BY <1>2 DEF Handle
  <2> QED
      BY <2>1 DEF Placed, Align
<1>10. EndOf(o) \in Nat /\ 24 <= EndOf(o)
    BY <1>9, SizeFacts
<1>11. /\ b.rel \in [0 .. Cap - 1 -> Int] /\ b.bits \in Bytes(Cap)
       /\ \A a \in 0 .. Cap - 1 : a < 24 => b.rel[a] = Fresh.rel[a]
       /\ \A a \in 0 .. Cap - 1 : 24 <= a /\ a < EndOf(o) => b.bits[a] = {}
  <2>1. PICK lo \in Nat, hi \in Nat : lo = 24 /\ hi = EndOf(o)
      BY <1>10
  <2>2. b.rel = Cleared(Fresh.rel, lo, hi, 0) /\ b.bits = Cleared(Fresh.bits, lo, hi, {})
      BY <1>5, <1>9, <2>1, Zenon
  <2>3. /\ Cleared(Fresh.rel, lo, hi, 0) \in [0 .. Cap - 1 -> Int]
        /\ Cleared(Fresh.bits, lo, hi, {}) \in Bytes(Cap)
        /\ \A a \in 0 .. Cap - 1 : a < lo => /\ Cleared(Fresh.rel, lo, hi, 0)[a] = Fresh.rel[a]
                                             /\ Cleared(Fresh.bits, lo, hi, {})[a] = Fresh.bits[a]
        /\ \A a \in 0 .. Cap - 1 : lo <= a /\ a < hi =>
               Cleared(Fresh.rel, lo, hi, 0)[a] = 0 /\ Cleared(Fresh.bits, lo, hi, {})[a] = {}
      BY FreshFacts, CapFacts, ClearedBytes, ZenonT(60)
  <2> QED
      BY <2>1, <2>2, <2>3, Zenon
<1>12. b.rel = [a \in 0 .. Cap - 1 |-> 0]
    BY <1>5, FreshFacts DEF Cleared
<1>13. Memory(b, n)
  <2>1. b.rel \in [0 .. Cap - 1 -> 0 .. n - 1]
      BY <1>12
  <2>2. EndOf(o) <= Cap
      BY <1>3, <1>5
  <2> QED
      BY <1>5, <1>10, <1>11, <2>1, <2>2, CapFacts DEF Memory
<1>14. PadZero(b.bits, o)
  <2>1. \A a \in o.base .. EndOf(o) - 1 : b.bits[a] = {}
    <3> TAKE a \in o.base .. EndOf(o) - 1
    <3>1. a \in 0 .. Cap - 1 /\ 24 <= a /\ a < EndOf(o)
        BY <1>3, <1>5, <1>9, <1>10, CapFacts
    <3> QED
        BY <1>11, <3>1
  <2> QED
      BY <1>9, <2>1, PadFresh
<1>15. OneObject(b)
    BY <1>5, <1>7, <1>8, <1>9, CapFacts DEF OneObject
<1> QED
    BY <1>2, <1>3, <1>8, <1>13, <1>14, <1>15, Zenon DEF Buffer

LEMMA HasObject ==
    ASSUME NEW b, OneObject(b)
    PROVE  b.objs # <<>>
<1>1. Len(<<>>) = 0 /\ 1 # 0
    OBVIOUS
<1> QED
    BY <1>1, Zenon DEF OneObject

\* The header after a resize
LEMMA ResizedObject ==
    ASSUME NEW b, OneObject(b), NEW c \in Nat, NEW v, v.objs = WithLength(b.objs, 1, c)
    PROVE  v.objs \in Seq(Headers) /\ Len(v.objs) = 1 /\ Obj(v, 1) = Resized(Obj(b, 1), c)
<1>1. b.objs \in Seq(Headers) /\ Len(b.objs) = 1
    BY Zenon DEF OneObject
<1>2. PICK k \in 1 .. Len(b.objs) : k = 1
    BY <1>1
<1>3. v.objs = WithLength(b.objs, k, c)
    BY <1>2, Zenon
<1>4. v.objs \in Seq(Headers) /\ Len(v.objs) = Len(b.objs) /\ Obj(v, k) = Resized(Obj(b, k), c)
    BY <1>1, <1>3, ResizeHeaders, ZenonT(30)
<1> QED
    BY <1>1, <1>2, <1>4, Zenon

\* nbuf_put_ptr: the id of an object there is
LEMMA PutWordBuffer ==
    ASSUME NEW n \in Nat, NEW padded, NEW whole, NEW b, Buffer(b, n, padded, whole), OneObject(b),
           NEW e \in 0 .. Obj(b, 1).nelem - 1, NEW i \in 0 .. Obj(b, 1).psize - 1,
           NEW id \in 0 .. n - 1
    PROVE  LET v == PutWord(b, Slot(Obj(b, 1), e, i), id)
           IN  Buffer(v, n, padded, whole)
<1>1. PICK slot : slot = Slot(Obj(b, 1), e, i)
    OBVIOUS
<1>2. PICK v : v = PutWord(b, slot, id)
    OBVIOUS
<1>3. /\ v.len = b.len /\ v.objs = b.objs /\ v.bits = b.bits
      /\ v.rel = [b.rel EXCEPT ![slot] = id]
    BY <1>2 DEF PutWord, Wire
<1>4. b.rel \in [0 .. Cap - 1 -> 0 .. n - 1]
    BY DEF Buffer, Memory
<1>5. v.rel \in [0 .. Cap - 1 -> 0 .. n - 1]
    BY <1>3, <1>4
<1>6. Memory(v, n)
    BY <1>3, <1>5, Zenon DEF Buffer, Memory
<1>7. Obj(v, 1) = Obj(b, 1)
    BY <1>3, Zenon DEF Obj
<1>8. OneObject(v)
    BY <1>3, <1>7, Zenon DEF OneObject
<1>9. b.objs # <<>>
    BY HasObject, Zenon
<1>10. padded => PadZero(v.bits, Obj(v, 1))
    BY <1>3, <1>7, <1>9, Zenon DEF Buffer
<1> QED
    BY <1>1, <1>2, <1>6, <1>8, <1>10, Zenon DEF Buffer

\* nbuf_put_int and nbuf_put_bit
LEMMA PutScalarBuffer ==
    ASSUME NEW n \in Nat, NEW padded, NEW whole, NEW b, Buffer(b, n, padded, whole), OneObject(b),
           NEW e \in 0 .. Obj(b, 1).nelem - 1, HasScalar(Obj(b, 1)), NEW x \in {0, 1}
    PROVE  /\ Buffer(PutScalar(b, Obj(b, 1), e, x), n, padded, whole)
           /\ OneObject(PutScalar(b, Obj(b, 1), e, x))
           /\ Obj(PutScalar(b, Obj(b, 1), e, x), 1) = Obj(b, 1)
<1>1. PICK o : o = Obj(b, 1)
    OBVIOUS
<1>2. PICK v : v = PutScalar(b, o, e, x)
    OBVIOUS
<1>3. Placed(o) /\ EndOf(o) <= Cap /\ b.bits \in Bytes(Cap) /\ Cap \in Nat
    BY <1>1, CapFacts DEF Buffer, Memory, OneObject
<1>4. /\ v.len = b.len /\ v.objs = b.objs /\ v.rel = b.rel /\ v.bits \in Bytes(Cap)
      /\ PadZero(b.bits, o) => PadZero(v.bits, o)
    BY <1>1, <1>2, <1>3, PutScalarFacts
<1>5. Memory(v, n)
    BY <1>4, Zenon DEF Buffer, Memory
<1>6. Obj(v, 1) = o
    BY <1>1, <1>4, Zenon DEF Obj
<1>7. OneObject(v)
    BY <1>1, <1>4, <1>6, Zenon DEF OneObject
<1>8. b.objs # <<>>
    BY HasObject, Zenon
<1>9. padded => PadZero(v.bits, Obj(v, 1))
    BY <1>1, <1>4, <1>6, <1>8, Zenon DEF Buffer
<1> QED
    BY <1>1, <1>2, <1>5, <1>6, <1>7, <1>9, Zenon DEF Buffer

\* The string that nbuf_put_str makes
LEMMA PutCharsBuffer ==
    ASSUME NEW n \in Nat, n > 0, NEW padded, NEW whole, NEW c \in Nat,
           NewBuffer(c + 1, 1, 0).len <= Cap
    PROVE  /\ Buffer(PutChars(NewBuffer(c + 1, 1, 0), MetaSz + HdrSz, c), n, padded, whole)
           /\ OneObject(PutChars(NewBuffer(c + 1, 1, 0), MetaSz + HdrSz, c))
<1>1. Shape(c + 1, 1, 0)
    BY DEF Shape
<1>2. PICK b : b = NewBuffer(c + 1, 1, 0)
    OBVIOUS
<1>3. PICK v : v = PutChars(b, MetaSz + HdrSz, c)
    OBVIOUS
<1>4. Buffer(b, n, padded, whole) /\ OneObject(b) /\ Obj(b, 1) = Handle(24, c + 1, 1, 0)
    BY <1>1, <1>2, NewBufferFacts, Zenon
<1>5. PICK o : o = Obj(b, 1)
    OBVIOUS
<1>6. Placed(o) /\ o.base = 24 /\ o.nelem = c + 1 /\ o.ssize = 1 /\ o.psize = 0
    BY <1>4, <1>5 DEF OneObject, Handle
<1>7. ElemSz(o) # 0 /\ o.base + TotalSz(o) = 24 + c + 1
  <2>1. /\ ElemSz(o) = o.ssize + 4 * o.psize
        /\ ElemSz(o) # 0 => TotalSz(o) = ElemSz(o) * o.nelem
      BY <1>6, SizeFacts, Zenon
  <2> QED
      BY <1>6, <2>1
<1>8. /\ v.len = b.len /\ v.objs = b.objs /\ v.rel = b.rel
      /\ v.bits = [a \in DOMAIN b.bits |-> IF a \in 24 .. 24 + c - 1 THEN {0} ELSE b.bits[a]]
    BY <1>3 DEF PutChars, WithBits, Wire, MetaSz, HdrSz
<1>9. b.bits \in [0 .. Cap - 1 -> SUBSET (0 .. 7)] /\ {0} \in SUBSET (0 .. 7)
    BY <1>4 DEF Buffer, Memory, Bytes
<1>10. v.bits \in Bytes(Cap)
    BY <1>8, <1>9 DEF Bytes
<1>11. Memory(v, n)
    BY <1>4, <1>8, <1>10, Zenon DEF Buffer, Memory
<1>12. Obj(v, 1) = o
    BY <1>5, <1>8, Zenon DEF Obj
<1>13. OneObject(v)
    BY <1>4, <1>5, <1>8, <1>12, Zenon DEF OneObject
<1>14. padded => PadZero(v.bits, o)
  <2>1. \A a \in o.base + TotalSz(o) .. EndOf(o) - 1 : v.bits[a] = b.bits[a]
    <3> TAKE a \in o.base + TotalSz(o) .. EndOf(o) - 1
    <3>1. EndOf(o) = b.len /\ b.len <= Cap /\ b.len \in Nat
        BY <1>4, <1>5 DEF OneObject, Buffer, Memory
    <3>2. a \in 0 .. Cap - 1 /\ a \notin 24 .. 24 + c - 1
        BY <1>7, <3>1, CapFacts
    <3> QED
        BY <1>8, <1>9, <3>2
  <2>2. b.objs # <<>>
      BY <1>4, HasObject, Zenon
  <2>3. padded => PadZero(b.bits, o)
      BY <1>4, <1>5, <2>2, Zenon DEF Buffer
  <2> QED
      BY <1>6, <1>7, <2>1, <2>3, PadBehind, Zenon
<1> QED
    BY <1>2, <1>3, <1>11, <1>12, <1>13, <1>14, Zenon DEF Buffer

\* nbuf_resize by one element
LEMMA GrowBuffer ==
    ASSUME NEW n \in Nat, NEW padded, NEW whole, NEW b, Buffer(b, n, padded, whole), OneObject(b),
           Shape(Obj(b, 1).nelem + 1, Obj(b, 1).ssize, Obj(b, 1).psize),
           ResizeIn(b, 1, Obj(b, 1).nelem + 1).len <= Cap, n > 0
    PROVE  /\ Buffer(ResizeIn(b, 1, Obj(b, 1).nelem + 1), n, padded, whole)
           /\ OneObject(ResizeIn(b, 1, Obj(b, 1).nelem + 1))
           /\ Obj(ResizeIn(b, 1, Obj(b, 1).nelem + 1), 1) = Resized(Obj(b, 1), Obj(b, 1).nelem + 1)
<1>1. PICK o : o = Obj(b, 1)
    OBVIOUS
<1>2. PICK c \in Nat : c = o.nelem + 1
    BY <1>1 DEF Shape
<1>3. PICK grown : grown = Resized(o, c)
    OBVIOUS
<1>4. PICK v : v = ResizeIn(b, 1, c)
    OBVIOUS
<1>5. /\ v.len = EndOf(grown) /\ v.objs = WithLength(b.objs, 1, c)
      /\ v.rel = Cleared(b.rel, b.len, EndOf(grown), 0)
      /\ v.bits = Cleared(b.bits, b.len, EndOf(grown), {})
    BY <1>1, <1>3, <1>4 DEF ResizeIn, Wire
<1>6. v.objs \in Seq(Headers) /\ Len(v.objs) = 1 /\ Obj(v, 1) = grown
    BY <1>1, <1>3, <1>5, ResizedObject, Zenon
<1>7. /\ grown.base = o.base /\ grown.nelem = c /\ grown.ssize = o.ssize /\ grown.psize = o.psize
    BY <1>3, ResizedFields, Zenon
<1>8. Placed(o) /\ o.base = 24 /\ EndOf(o) = b.len
    BY <1>1, CapFacts DEF OneObject
<1>9. Placed(grown)
    BY <1>1, <1>2, <1>7, <1>8, Zenon DEF Placed
<1>10. EndOf(grown) \in Nat /\ 24 <= EndOf(grown) /\ EndOf(grown) <= Cap
  <2>1. EndOf(grown) <= Cap
      BY <1>1, <1>2, <1>4, <1>5, Zenon
  <2> QED
      BY <1>7, <1>8, <1>9, <2>1, SizeFacts
<1>11. b.len \in Nat /\ b.rel \in [0 .. Cap - 1 -> 0 .. n - 1] /\ b.bits \in Bytes(Cap) /\ b.len <= Cap
    BY DEF Buffer, Memory
<1>12. v.rel \in [0 .. Cap - 1 -> 0 .. n - 1]
  <2>1. PICK ids, hi : ids = 0 .. n - 1 /\ hi = EndOf(grown)
      OBVIOUS
  <2>2. 0 \in ids /\ b.rel \in [0 .. Cap - 1 -> ids] /\ v.rel = Cleared(b.rel, b.len, hi, 0)
      BY <1>5, <1>11, <2>1
  <2>3. v.rel \in [0 .. Cap - 1 -> ids]
      BY <2>2 DEF Cleared
  <2> QED
      BY <2>1, <2>3
<1>13. /\ v.bits \in Bytes(Cap)
       /\ \A a \in 0 .. Cap - 1 : a < b.len => v.bits[a] = b.bits[a]
       /\ \A a \in 0 .. Cap - 1 : b.len <= a /\ a < EndOf(grown) => v.bits[a] = {}
  <2>1. PICK lo \in Nat, hi \in Nat : lo = b.len /\ hi = EndOf(grown)
      BY <1>10, <1>11
  <2>2. v.bits = Cleared(b.bits, lo, hi, {})
      BY <1>5, <2>1, Zenon
  <2>3. b.bits \in [0 .. Cap - 1 -> SUBSET (0 .. 7)] /\ {} \in SUBSET (0 .. 7)
      BY <1>11 DEF Bytes
  <2>4. v.bits \in Bytes(Cap)
      BY <2>2, <2>3 DEF Cleared, Bytes
  <2>5. \A a \in 0 .. Cap - 1 : v.bits[a] = IF a \in lo .. hi - 1 THEN {} ELSE b.bits[a]
      BY <2>2, <2>3 DEF Cleared
  <2>6. /\ \A a \in 0 .. Cap - 1 : a < lo => a \notin lo .. hi - 1
        /\ \A a \in 0 .. Cap - 1 : lo <= a /\ a < hi => a \in lo .. hi - 1
      OBVIOUS
  <2> QED
      BY <2>1, <2>4, <2>5, <2>6, Zenon
<1>14. Memory(v, n)
    BY <1>5, <1>10, <1>12, <1>13, CapFacts DEF Memory
<1>15. OneObject(v)
    BY <1>5, <1>6, <1>7, <1>8, <1>9, CapFacts DEF OneObject
<1>16. ASSUME padded
       PROVE  PadZero(v.bits, grown)
  <2>1. b.objs # <<>>
      BY HasObject, Zenon
  <2>2. PadZero(b.bits, o)
      BY <1>1, <1>16, <2>1, Zenon DEF Buffer
  <2>3. \A a \in o.base .. EndOf(o) - 1 : v.bits[a] = b.bits[a]
    <3> TAKE a \in o.base .. EndOf(o) - 1
    <3>1. a \in 0 .. Cap - 1 /\ a < b.len
        BY <1>8, <1>11, CapFacts
    <3> QED
        BY <1>13, <3>1
  <2>4. \A a \in EndOf(o) .. EndOf(grown) - 1 : v.bits[a] = {}
    <3> TAKE a \in EndOf(o) .. EndOf(grown) - 1
    <3>1. a \in 0 .. Cap - 1 /\ b.len <= a /\ a < EndOf(grown)
        BY <1>8, <1>10, <1>11, CapFacts
    <3> QED
        BY <1>13, <3>1
  <2>5. EndOf(o) <= Cap /\ Cap \in Nat /\ grown = Resized(o, o.nelem + 1)
      BY <1>2, <1>3, <1>8, <1>11, CapFacts
  <2>6. b.bits \in Bytes(Cap) /\ Grows(b.bits, v.bits, o, grown)
      BY <1>11, <2>3, <2>4, Zenon DEF Grows
  <2> QED
      BY <1>8, <1>9, <2>2, <2>5, <2>6, PadGrow, Zenon
<1> QED
    BY <1>1, <1>2, <1>3, <1>4, <1>6, <1>14, <1>15, <1>16, Zenon DEF Buffer

\* nbuf_resize to fewer elements that end in the same 8 bytes
LEMMA ShrinkBuffer ==
    ASSUME NEW n \in Nat, NEW padded, NEW whole, NEW b, Buffer(b, n, padded, whole), OneObject(b),
           NEW c \in Nat, c < Obj(b, 1).nelem, EndOf(Resized(Obj(b, 1), c)) = EndOf(Obj(b, 1))
    PROVE  Buffer(Wire(b.len, WithLength(b.objs, 1, c), b.rel, b.bits), n, FALSE, whole)
<1>1. PICK o : o = Obj(b, 1)
    OBVIOUS
<1>2. PICK v : v = Wire(b.len, WithLength(b.objs, 1, c), b.rel, b.bits)
    OBVIOUS
<1>3. /\ v.len = b.len /\ v.objs = WithLength(b.objs, 1, c) /\ v.rel = b.rel /\ v.bits = b.bits
    BY <1>2 DEF Wire
<1>4. v.objs \in Seq(Headers) /\ Len(v.objs) = 1 /\ Obj(v, 1) = Resized(o, c)
    BY <1>1, <1>3, ResizedObject, Zenon
<1>5. Placed(o) /\ o.base = MetaSz + HdrSz /\ EndOf(o) = b.len
    BY <1>1 DEF OneObject
<1>6. Resized(o, c).base = o.base /\ Placed(Resized(o, c))
  <2>1. /\ Resized(o, c).base = o.base /\ Resized(o, c).nelem = c
        /\ Resized(o, c).ssize = o.ssize /\ Resized(o, c).psize = o.psize
      BY ResizedFields, Zenon
  <2>2. Shape(c, o.ssize, o.psize)
      BY <1>1, <1>5, NelemModAssumption DEF Placed, Shape
  <2> QED
      BY <1>5, <2>1, <2>2, Zenon DEF Placed
<1>7. OneObject(v)
    BY <1>1, <1>3, <1>4, <1>5, <1>6, Zenon DEF OneObject
<1>8. Memory(v, n)
    BY <1>3, Zenon DEF Buffer, Memory
<1> QED
    BY <1>2, <1>7, <1>8, Zenon DEF Buffer

-----------------------------------------------------------------------------
(* The pool *)

IsSeq(s) == \E S : s \in Seq(S)

LEMMA SeqAppend ==
    ASSUME NEW s, IsSeq(s), NEW b
    PROVE  /\ IsSeq(Append(s, b)) /\ Len(s) \in Nat /\ DOMAIN s = 1 .. Len(s)
           /\ Len(Append(s, b)) = Len(s) + 1
           /\ \A k \in 1 .. Len(s) : Append(s, b)[k] = s[k]
           /\ Append(s, b)[Len(s) + 1] = b
<1>1. PICK S : s \in Seq(S)
    BY DEF IsSeq
<1>2. PICK T : T = S \cup {b}
    OBVIOUS
<1>3. s \in Seq(T) /\ b \in T
    BY <1>1, <1>2
<1>4. /\ Append(s, b) \in Seq(T) /\ Len(Append(s, b)) = Len(s) + 1
      /\ \A k \in 1 .. Len(s) : Append(s, b)[k] = s[k]
      /\ Append(s, b)[Len(s) + 1] = b
    BY <1>3, AppendProperties
<1>5. Len(s) \in Nat /\ DOMAIN s = 1 .. Len(s)
    BY <1>1
<1> QED
    BY <1>4, <1>5, Zenon DEF IsSeq

Pool(bufs, padded, whole) ==
    IsSeq(bufs) /\ \A k \in 1 .. Len(bufs) : Buffer(bufs[k], Len(bufs), padded, whole)

\* More ids can be stored when there are more objects.
LEMMA BufferMore ==
    ASSUME NEW n \in Nat, NEW padded, NEW whole, NEW b, Buffer(b, n, padded, whole)
    PROVE  Buffer(b, n + 1, padded, whole)
<1>1. b.rel \in [0 .. Cap - 1 -> 0 .. n]
    BY DEF Buffer, Memory
<1>2. b.rel \in [0 .. Cap - 1 -> 0 .. (n + 1) - 1]
  <2>1. (n + 1) - 1 = n
      OBVIOUS
  <2> QED
      BY <1>1, <2>1, Zenon
<1>3. Memory(b, n + 1)
    BY <1>2, Zenon DEF Buffer, Memory
<1> QED
    BY <1>3, Zenon DEF Buffer

LEMMA PoolAppend ==
    ASSUME NEW bufs, NEW padded, NEW whole, Pool(bufs, padded, whole),
           NEW b, Buffer(b, Len(bufs) + 1, padded, whole)
    PROVE  Pool(Append(bufs, b), padded, whole) /\ Len(Append(bufs, b)) = Len(bufs) + 1
<1>1. PICK n \in Nat : n = Len(bufs)
    BY SeqAppend DEF Pool
<1>2. PICK v : v = Append(bufs, b)
    OBVIOUS
<1>3. /\ IsSeq(v) /\ Len(v) = n + 1 /\ \A k \in 1 .. n : v[k] = bufs[k]
    BY <1>1, <1>2, SeqAppend DEF Pool
<1>4. \A k \in 1 .. n : Buffer(v[k], n + 1, padded, whole)
    BY <1>1, <1>3, BufferMore, Zenon DEF Pool
<1>5. v[n + 1] = b
    BY <1>1, <1>2, SeqAppend DEF Pool
<1>6. \A k \in 1 .. n + 1 : k \in 1 .. n \/ k = n + 1
    OBVIOUS
<1>7. \A k \in 1 .. n + 1 : Buffer(v[k], n + 1, padded, whole)
    BY <1>1, <1>4, <1>5, <1>6, Zenon
<1> QED
    BY <1>1, <1>2, <1>3, <1>7, Zenon DEF Pool

LEMMA PoolReplace ==
    ASSUME NEW bufs, NEW padded, NEW whole, Pool(bufs, padded, whole),
           NEW k \in 1 .. Len(bufs), NEW b, Buffer(b, Len(bufs), padded, whole)
    PROVE  Pool([bufs EXCEPT ![k] = b], padded, whole)
<1>1. PICK S : bufs \in Seq(S)
    BY DEF Pool, IsSeq
<1>2. PICK T : T = S \cup {b}
    OBVIOUS
<1>3. bufs \in Seq(T) /\ b \in T
    BY <1>1, <1>2
<1>4. PICK v : v = [bufs EXCEPT ![k] = b]
    OBVIOUS
<1>5. /\ v \in Seq(T) /\ Len(v) = Len(bufs) /\ v[k] = b
      /\ \A j \in 1 .. Len(bufs) : j # k => v[j] = bufs[j]
    BY <1>3, <1>4
<1>6. IsSeq(v)
    BY <1>5, Zenon DEF IsSeq
<1>7. Pool(v, padded, whole)
    BY <1>5, <1>6, Zenon DEF Pool
<1> QED
    BY <1>4, <1>7

\* An element of an object: the object has a header.
LEMMA ElementOfObject ==
    ASSUME NEW n \in Nat, NEW padded, NEW whole, NEW b, Buffer(b, n, padded, whole),
           NEW e \in 0 .. TheObj(b).nelem - 1
    PROVE  OneObject(b) /\ TheObj(b) = Obj(b, 1)
<1>1. b.objs # <<>>
  <2>1. SUFFICES ASSUME b.objs = <<>>
                 PROVE  FALSE
      OBVIOUS
  <2>2. TheObj(b).nelem = 0
      BY <2>1 DEF TheObj, NullObj
  <2> QED
      BY <2>2
<1> QED
    BY <1>1, Zenon DEF Buffer, TheObj

\* put_ptr in the pool
LEMMA PoolLink ==
    ASSUME NEW bufs, NEW padded, NEW whole, Pool(bufs, padded, whole),
           NEW k \in 1 .. Len(bufs), NEW t \in 1 .. Len(bufs),
           NEW e \in 0 .. TheObj(bufs[k]).nelem - 1, NEW i \in 0 .. TheObj(bufs[k]).psize - 1
    PROVE  Pool(PutPtr(bufs, k, e, i, t), padded, whole)
<1>1. PICK n \in Nat : n = Len(bufs)
    BY SeqAppend DEF Pool
<1>2. PICK b : b = bufs[k]
    OBVIOUS
<1>3. Buffer(b, n, padded, whole)
    BY <1>1, <1>2, Zenon DEF Pool
<1>4. OneObject(b) /\ TheObj(b) = Obj(b, 1)
    BY <1>2, <1>3, ElementOfObject, Zenon
<1>5. PICK id \in 0 .. n - 1 : id = t - 1
    BY <1>1
<1>6. PICK v : v = PutWord(b, Slot(Obj(b, 1), e, i), id)
    OBVIOUS
<1>7. Buffer(v, n, padded, whole)
    BY <1>2, <1>3, <1>4, <1>6, PutWordBuffer, Zenon
<1>8. Pool([bufs EXCEPT ![k] = v], padded, whole)
    BY <1>1, <1>7, PoolReplace, Zenon
<1>9. PutPtr(bufs, k, e, i, t) = [bufs EXCEPT ![k] = v]
    BY <1>2, <1>4, <1>5, <1>6, Zenon DEF PutPtr
<1> QED
    BY <1>8, <1>9, Zenon

\* A buffer that joins the pool and is linked to
LEMMA PoolAppendLink ==
    ASSUME NEW bufs, NEW padded, NEW whole, Pool(bufs, padded, whole),
           NEW k \in 1 .. Len(bufs),
           NEW e \in 0 .. TheObj(bufs[k]).nelem - 1, NEW i \in 0 .. TheObj(bufs[k]).psize - 1,
           NEW b, Buffer(b, Len(bufs) + 1, padded, whole)
    PROVE  Pool(PutPtr(Append(bufs, b), k, e, i, Len(bufs) + 1), padded, whole)
<1>1. PICK n \in Nat : n = Len(bufs)
    BY SeqAppend DEF Pool
<1>2. PICK v : v = Append(bufs, b)
    OBVIOUS
<1>3. Pool(v, padded, whole) /\ Len(v) = n + 1
    BY <1>1, <1>2, PoolAppend, Zenon
<1>4. v[k] = bufs[k]
    BY <1>2, SeqAppend DEF Pool
<1>5. k \in 1 .. n + 1 /\ n + 1 \in 1 .. n + 1
    BY <1>1
<1>6. /\ e \in 0 .. TheObj(v[k]).nelem - 1 /\ i \in 0 .. TheObj(v[k]).psize - 1
    BY <1>4, Zenon
<1>7. Pool(PutPtr(v, k, e, i, n + 1), padded, whole)
    BY <1>3, <1>5, <1>6, PoolLink, Zenon
<1> QED
    BY <1>1, <1>2, <1>7, Zenon

-----------------------------------------------------------------------------
(* Where nbuf_serialize puts the objects: Placement is defined by recursion, and
   what it computes is proved by induction, as the absence of a least
   counterexample. *)

LEMMA LeastNumber ==
    ASSUME NEW T, T \subseteq Nat, T # {}
    PROVE  \E n \in T : \A m \in T : n <= m
<1> DEFINE R == {ss \in Nat \X Nat : ss[1] < ss[2]}
<1>1. IsWellFoundedOn(R, Nat)
    BY NatLessThanWellFounded DEF OpToRel
<1>2. \A m, n \in Nat : <<m, n>> \in R <=> m < n
    OBVIOUS
<1> HIDE DEF R
<1>3. PICK n \in T : \A m \in T : ~ (<<m, n>> \in R)
    BY <1>1, WFMin
<1>4. \A m \in T : ~ (m < n)
    BY <1>2, <1>3
<1>5. \A m \in T : n <= m
    BY <1>4
<1> QED
    BY <1>5

LEMMA Induction ==
    ASSUME NEW S, 0 \in S, \A n \in Nat : n \in S => n + 1 \in S
    PROVE  \A n \in Nat : n \in S
<1>1. SUFFICES ASSUME {n \in Nat : n \notin S} # {}
               PROVE  FALSE
    OBVIOUS
<1>2. PICK n \in {m \in Nat : m \notin S} : \A m \in {k \in Nat : k \notin S} : n <= m
    BY <1>1, LeastNumber
<1>3. n # 0
    BY <1>2
<1>4. n - 1 \in Nat
    BY <1>2, <1>3
<1>5. n - 1 \in S
    BY <1>2, <1>4
<1>6. (n - 1) + 1 \in S
    BY <1>4, <1>5
<1> QED
    BY <1>2, <1>6

\* Places of n objects whose elements take size bytes, one behind the other at
\* multiples of 8
Places(n, size, f) ==
    f = [k \in 1 .. n + 1 |-> IF k = 1 THEN 0 ELSE RoundUp(f[k - 1] + HdrSz + size[k - 1], Align)]

LEMMA PlacesAre ==
    ASSUME NEW n \in Nat, NEW size \in [1 .. n -> Nat], NEW f, Places(n, size, f)
    PROVE  /\ f \in [1 .. n + 1 -> Nat] /\ f[1] = 0
           /\ \A k \in 1 .. n : f[k + 1] = RoundUp(f[k] + HdrSz + size[k], Align)
<1> DEFINE S == {m \in Nat : m <= n => f[m + 1] \in Nat}
<1>1. DOMAIN f = 1 .. n + 1 /\ f[1] = 0
    BY DEF Places
<1>2. ASSUME NEW k \in 1 .. n
      PROVE  f[k + 1] = RoundUp(f[k] + HdrSz + size[k], Align)
  <2>1. k + 1 \in 1 .. n + 1 /\ k + 1 # 1 /\ (k + 1) - 1 = k
      OBVIOUS
  <2>2. f[k + 1] = RoundUp(f[(k + 1) - 1] + HdrSz + size[(k + 1) - 1], Align)
      BY <2>1 DEF Places
  <2> QED
      BY <2>1, <2>2, Zenon
<1>3. 0 \in S
    BY <1>1
<1>4. ASSUME NEW m \in Nat, m \in S
      PROVE  m + 1 \in S
  <2>1. SUFFICES ASSUME m + 1 <= n
                 PROVE  f[(m + 1) + 1] \in Nat
      OBVIOUS
  <2>2. m + 1 \in 1 .. n /\ f[m + 1] \in Nat
      BY <1>4, <2>1
  <2>3. f[m + 1] + HdrSz + size[m + 1] \in Nat
      BY <2>2 DEF HdrSz
  <2> QED
      BY <1>2, <2>2, <2>3, RoundUpFacts
<1> HIDE DEF S
<1>5. \A m \in Nat : m \in S
    BY <1>3, <1>4, Induction
<1>6. ASSUME NEW k \in 1 .. n + 1
      PROVE  f[k] \in Nat
  <2>1. k - 1 \in Nat /\ k - 1 <= n /\ (k - 1) + 1 = k
      OBVIOUS
  <2>2. f[(k - 1) + 1] \in Nat
      BY <1>5, <2>1 DEF S
  <2> QED
      BY <2>1, <2>2
<1>7. f = [k \in 1 .. n + 1 |-> f[k]]
    BY <1>1 DEF Places
<1>8. f \in [1 .. n + 1 -> Nat]
    BY <1>6, <1>7
<1> QED
    BY <1>1, <1>2, <1>8

LEMMA PlacesExist ==
    ASSUME NEW n \in Nat, NEW size \in [1 .. n -> Nat]
    PROVE  \E f : Places(n, size, f)
<1> DEFINE S == {m \in Nat : m <= n => \E f : Places(m, size, f)}
<1>1. 0 \in S
  <2>1. Places(0, size, [k \in 1 .. 1 |-> 0])
      BY DEF Places
  <2> QED
      BY <2>1
<1>2. ASSUME NEW m \in Nat, m \in S
      PROVE  m + 1 \in S
  <2>1. SUFFICES ASSUME m + 1 <= n
                 PROVE  \E f : Places(m + 1, size, f)
      OBVIOUS
  <2>2. PICK f : Places(m, size, f)
      BY <1>2, <2>1
  <2>3. PICK last : last = RoundUp(f[m + 1] + HdrSz + size[m + 1], Align)
      OBVIOUS
  <2>4. PICK g : g = [k \in 1 .. m + 2 |-> IF k = m + 2 THEN last ELSE f[k]]
      OBVIOUS
  <2>5. /\ g[m + 2] = last /\ \A k \in 1 .. m + 1 : g[k] = f[k]
        /\ DOMAIN g = 1 .. m + 2
      BY <2>4
  <2>6. ASSUME NEW k \in 1 .. m + 2
        PROVE  g[k] = IF k = 1 THEN 0 ELSE RoundUp(g[k - 1] + HdrSz + size[k - 1], Align)
    <3>1. CASE k = m + 2
      <4>1. k - 1 = m + 1 /\ m + 1 \in 1 .. m + 1 /\ k # 1
          BY <3>1
      <4>2. g[k - 1] = f[m + 1] /\ size[k - 1] = size[m + 1] /\ g[k] = last
          BY <2>5, <3>1, <4>1, Zenon
      <4> QED
          BY <2>3, <4>1, <4>2, Zenon
    <3>2. CASE k \in 1 .. m + 1
      <4>1. g[k] = f[k] /\ (k # 1 => g[k - 1] = f[k - 1])
          BY <2>5, <3>2
      <4>2. f[k] = IF k = 1 THEN 0 ELSE RoundUp(f[k - 1] + HdrSz + size[k - 1], Align)
          BY <2>2, <3>2 DEF Places
      <4> QED
          BY <4>1, <4>2, Zenon
    <3> QED
        BY <3>1, <3>2
  <2>7. (m + 1) + 1 = m + 2
      OBVIOUS
  <2>8. g = [k \in 1 .. m + 2 |-> g[k]]
      BY <2>4, <2>5
  <2>9. Places(m + 1, size, g)
      BY <2>6, <2>7, <2>8 DEF Places
  <2> QED
      BY <2>9
<1> HIDE DEF S
<1>3. n \in S
    BY <1>1, <1>2, Induction
<1> QED
    BY <1>3 DEF S

\* The bytes that an object's elements take
Sizes(bufs) == [k \in 1 .. Len(bufs) |-> TotalSz(TheObj(bufs[k]))]

LEMMA PlacementIs ==
    ASSUME NEW bufs, Len(bufs) \in Nat, \A k \in 1 .. Len(bufs) : TotalSz(TheObj(bufs[k])) \in Nat
    PROVE  Places(Len(bufs), Sizes(bufs), Placement(bufs)) /\ Sizes(bufs) \in [1 .. Len(bufs) -> Nat]
<1>1. Sizes(bufs) \in [1 .. Len(bufs) -> Nat]
    BY DEF Sizes
<1>2. PICK f : Places(Len(bufs), Sizes(bufs), f)
    BY <1>1, PlacesExist
<1> DEFINE Body(g) == [k \in 1 .. Len(bufs) + 1 |->
                         IF k = 1 THEN 0
                         ELSE RoundUp(g[k - 1] + HdrSz + TotalSz(TheObj(bufs[k - 1])), Align)]
<1>3. ASSUME NEW g
      PROVE  Places(Len(bufs), Sizes(bufs), g) <=> g = Body(g)
  <2>1. ASSUME NEW k \in 1 .. Len(bufs) + 1, k # 1
        PROVE  Sizes(bufs)[k - 1] = TotalSz(TheObj(bufs[k - 1]))
    <3>1. k - 1 \in 1 .. Len(bufs)
        BY <2>1
    <3> QED
        BY <3>1 DEF Sizes
  <2>2. \A k \in 1 .. Len(bufs) + 1 :
           (IF k = 1 THEN 0 ELSE RoundUp(g[k - 1] + HdrSz + Sizes(bufs)[k - 1], Align))
           = (IF k = 1 THEN 0
              ELSE RoundUp(g[k - 1] + HdrSz + TotalSz(TheObj(bufs[k - 1])), Align))
      BY <2>1, Zenon
  <2>3. [k \in 1 .. Len(bufs) + 1 |->
           IF k = 1 THEN 0 ELSE RoundUp(g[k - 1] + HdrSz + Sizes(bufs)[k - 1], Align)] = Body(g)
      BY <2>2, Zenon
  <2> QED
      BY <2>3 DEF Places
<1>4. f = Body(f)
    BY <1>2, <1>3
<1>5. Placement(bufs) = Body(Placement(bufs))
    BY <1>4 DEF Placement
<1> QED
    BY <1>1, <1>3, <1>5

-----------------------------------------------------------------------------
(* The invariant: the pool holds good buffers; each has an object unless memory
   for one was missing, and zeroes behind it unless a list was made shorter. *)

Inv ==
    /\ phase \in {"build", "wire", "freed"} /\ client \in Clients
    /\ faults \subseteq {"shortened", "wrapped", "header"}
    /\ wire.len \in Nat
    /\ \A padded, whole \in BOOLEAN :
         (padded => "shortened" \notin faults) /\ (whole => "header" \notin faults)
            => Pool(pool, padded, whole)

\* What every step may assume
LEMMA InvFacts ==
    ASSUME Inv
    PROVE  /\ Pool(pool, FALSE, FALSE) /\ Len(pool) \in Nat /\ Objects = 1 .. Len(pool)
           /\ \A m \in client.makes : Shape(m.nelem, m.ssize, m.psize)
<1>1. Pool(pool, FALSE, FALSE)
    BY Zenon DEF Inv
<1>2. Len(pool) \in Nat /\ Objects = 1 .. Len(pool)
    BY <1>1, SeqAppend DEF Pool, Objects
<1> QED
    BY <1>1, <1>2, BuilderAssumption, Zenon DEF Inv

\* Steps that only change the pool
LEMMA KeepInv ==
    ASSUME Inv, Rest,
           \A padded, whole \in BOOLEAN : Pool(pool, padded, whole) => Pool(pool', padded, whole)
    PROVE  Inv'
  BY Zenon DEF Inv, Rest

LEMMA CreateInv ==
    ASSUME Inv, NEW m \in client.makes, Create(m)
    PROVE  Inv'
<1>1. PICK b : b = NewBuffer(m.nelem, m.ssize, m.psize)
    OBVIOUS
<1>2. PICK n \in Nat : n = Len(pool) + 1 /\ n > 0
    BY InvFacts
<1>3. NewBuffer(m.nelem, m.ssize, m.psize).len <= Cap /\ pool' = Append(pool, b) /\ Rest
    BY <1>1 DEF Create, Fits
<1>4. Shape(m.nelem, m.ssize, m.psize)
    BY InvFacts, Zenon
<1>5. ASSUME NEW padded \in BOOLEAN, NEW whole \in BOOLEAN, Pool(pool, padded, whole)
      PROVE  Pool(pool', padded, whole)
  <2>1. Buffer(b, n, padded, whole)
      BY <1>1, <1>2, <1>3, <1>4, NewBufferFacts, Zenon
  <2> QED
      BY <1>2, <1>3, <1>5, <2>1, PoolAppend, Zenon
<1> QED
    BY <1>3, <1>5, KeepInv, Zenon

LEMMA CreateHalfInv ==
    ASSUME Inv, CreateHalf
    PROVE  Inv'
<1>1. PICK n \in Nat : n = Len(pool) + 1 /\ n > 0
    BY InvFacts
<1>2. /\ pool' = Append(pool, Fresh) /\ faults' = faults \cup {"header"}
      /\ phase' = phase /\ wire' = wire /\ client' = client
    BY DEF CreateHalf
<1>3. ASSUME NEW padded \in BOOLEAN, NEW whole \in BOOLEAN,
             padded => "shortened" \notin faults', whole => "header" \notin faults'
      PROVE  Pool(pool', padded, whole)
  <2>1. whole = FALSE
      BY <1>2, <1>3, Zenon
  <2>2. padded => "shortened" \notin faults
      BY <1>2, <1>3, Zenon
  <2>3. Pool(pool, padded, FALSE)
      BY <2>2, Zenon DEF Inv
  <2>4. Buffer(Fresh, n, padded, FALSE)
      BY <1>1, FreshBuffer, Zenon
  <2> QED
      BY <1>1, <1>2, <2>1, <2>3, <2>4, PoolAppend, Zenon
<1>4. faults' \subseteq {"shortened", "wrapped", "header"}
    BY <1>2 DEF Inv
<1> QED
    BY <1>2, <1>3, <1>4, Zenon DEF Inv

LEMMA InitFieldInv ==
    ASSUME Inv, NEW k \in Objects, NEW e \in Elements(k), NEW i \in Pointers(k),
           NEW m \in client.makes, InitField(k, e, i, m)
    PROVE  Inv'
<1>1. PICK b : b = NewBuffer(m.nelem, m.ssize, m.psize)
    OBVIOUS
<1>2. PICK n \in Nat : n = Len(pool) + 1 /\ n > 0
    BY InvFacts
<1>3. /\ NewBuffer(m.nelem, m.ssize, m.psize).len <= Cap /\ Rest
      /\ pool' = PutPtr(Append(pool, b), k, e, i, Len(pool) + 1)
    BY <1>1 DEF InitField, Fits
<1>4. Shape(m.nelem, m.ssize, m.psize) /\ k \in 1 .. Len(pool)
    BY InvFacts, Zenon
<1>5. /\ e \in 0 .. TheObj(pool[k]).nelem - 1 /\ i \in 0 .. TheObj(pool[k]).psize - 1
    BY Zenon DEF Elements, Pointers
<1>6. ASSUME NEW padded \in BOOLEAN, NEW whole \in BOOLEAN, Pool(pool, padded, whole)
      PROVE  Pool(pool', padded, whole)
  <2>1. Buffer(b, n, padded, whole)
      BY <1>1, <1>2, <1>3, <1>4, NewBufferFacts, Zenon
  <2>2. Buffer(b, Len(pool) + 1, padded, whole)
      BY <1>2, <2>1, Zenon
  <2> QED
      BY <1>3, <1>4, <1>5, <1>6, <2>2, PoolAppendLink, Zenon
<1> QED
    BY <1>3, <1>6, KeepInv, Zenon

LEMMA LinkInv ==
    ASSUME Inv, NEW k \in Objects, NEW e \in Elements(k), NEW i \in Pointers(k),
           NEW t \in Objects, Link(k, e, i, t)
    PROVE  Inv'
<1>1. pool' = PutPtr(pool, k, e, i, t) /\ Rest
    BY DEF Link
<1>2. k \in 1 .. Len(pool) /\ t \in 1 .. Len(pool)
    BY InvFacts, Zenon
<1>3. /\ e \in 0 .. TheObj(pool[k]).nelem - 1 /\ i \in 0 .. TheObj(pool[k]).psize - 1
    BY Zenon DEF Elements, Pointers
<1>4. ASSUME NEW padded \in BOOLEAN, NEW whole \in BOOLEAN, Pool(pool, padded, whole)
      PROVE  Pool(pool', padded, whole)
    BY <1>1, <1>2, <1>3, <1>4, PoolLink, Zenon
<1> QED
    BY <1>1, <1>4, KeepInv, Zenon

LEMMA PutStrInv ==
    ASSUME Inv, NEW k \in Objects, NEW e \in Elements(k), NEW i \in Pointers(k),
           NEW c \in StrLens, PutStr(k, e, i, c)
    PROVE  Inv'
<1>1. PICK b : b = PutChars(NewBuffer(c + 1, 1, 0), MetaSz + HdrSz, c)
    OBVIOUS
<1>2. PICK n \in Nat : n = Len(pool) + 1 /\ n > 0
    BY InvFacts
<1>3. /\ NewBuffer(c + 1, 1, 0).len <= Cap /\ Rest
      /\ pool' = PutPtr(Append(pool, b), k, e, i, Len(pool) + 1)
    BY <1>1 DEF PutStr, Fits
<1>4. c \in Nat /\ k \in 1 .. Len(pool)
    BY BuilderAssumption, InvFacts, Zenon
<1>5. /\ e \in 0 .. TheObj(pool[k]).nelem - 1 /\ i \in 0 .. TheObj(pool[k]).psize - 1
    BY Zenon DEF Elements, Pointers
<1>6. ASSUME NEW padded \in BOOLEAN, NEW whole \in BOOLEAN, Pool(pool, padded, whole)
      PROVE  Pool(pool', padded, whole)
  <2>1. Buffer(b, n, padded, whole)
      BY <1>1, <1>2, <1>3, <1>4, PutCharsBuffer, Zenon
  <2>2. Buffer(b, Len(pool) + 1, padded, whole)
      BY <1>2, <2>1, Zenon
  <2> QED
      BY <1>3, <1>4, <1>5, <1>6, <2>2, PoolAppendLink, Zenon
<1> QED
    BY <1>3, <1>6, KeepInv, Zenon

LEMMA AppendFirstInv ==
    ASSUME Inv, NEW k \in Objects, NEW e \in Elements(k), NEW i \in Pointers(k),
           NEW kind \in DOMAIN KindShape, NEW x \in {0, 1}, AppendFirst(k, e, i, kind, x)
    PROVE  Inv'
<1>1. PICK s, p : s = KindShape[kind].ssize /\ p = KindShape[kind].psize
    OBVIOUS
<1>2. PICK b : b = NewBuffer(1, s, p)
    OBVIOUS
<1>3. PICK v : v = IF s > 0 THEN PutScalar(b, Obj(b, 1), 0, x) ELSE b
    OBVIOUS
<1>4. PICK n \in Nat : n = Len(pool) + 1 /\ n > 0
    BY InvFacts
<1>5. /\ NewBuffer(1, s, p).len <= Cap /\ Rest
      /\ pool' = PutPtr(Append(pool, v), k, e, i, Len(pool) + 1)
    BY <1>1, <1>2, <1>3, Zenon DEF AppendFirst, Fits
<1>6. Shape(1, s, p) /\ k \in 1 .. Len(pool)
    BY <1>1, BuilderAssumption, InvFacts, Zenon
<1>7. /\ e \in 0 .. TheObj(pool[k]).nelem - 1 /\ i \in 0 .. TheObj(pool[k]).psize - 1
    BY Zenon DEF Elements, Pointers
<1>8. ASSUME NEW padded \in BOOLEAN, NEW whole \in BOOLEAN, Pool(pool, padded, whole)
      PROVE  Pool(pool', padded, whole)
  <2>1. Buffer(b, n, padded, whole) /\ OneObject(b) /\ Obj(b, 1) = Handle(24, 1, s, p)
      BY <1>2, <1>4, <1>5, <1>6, NewBufferFacts, ZenonT(60)
  <2>2. Buffer(v, n, padded, whole)
    <3>1. CASE s > 0
      <4>1. Obj(b, 1).nelem = 1 /\ Obj(b, 1).ssize = s
          BY <2>1 DEF Handle
      <4>2. 0 \in 0 .. Obj(b, 1).nelem - 1 /\ HasScalar(Obj(b, 1))
          BY <3>1, <4>1 DEF HasScalar
      <4> QED
          BY <1>3, <2>1, <3>1, <4>2, PutScalarBuffer, Zenon
    <3>2. CASE ~ (s > 0)
        BY <1>3, <2>1, <3>2, Zenon
    <3> QED
        BY <3>1, <3>2
  <2>3. Buffer(v, Len(pool) + 1, padded, whole)
      BY <1>4, <2>2, Zenon
  <2> QED
      BY <1>5, <1>6, <1>7, <1>8, <2>3, PoolAppendLink, Zenon
<1> QED
    BY <1>5, <1>8, KeepInv, Zenon

\* A pointer word leads to an object of the pool.
LEMMA WordIsId ==
    ASSUME NEW n \in Nat, NEW padded, NEW whole, NEW b, Buffer(b, n, padded, whole), OneObject(b),
           NEW e \in 0 .. Obj(b, 1).nelem - 1, NEW i \in 0 .. Obj(b, 1).psize - 1
    PROVE  b.rel[Slot(Obj(b, 1), e, i)] \in 0 .. n - 1
<1>1. PICK o : o = Obj(b, 1)
    OBVIOUS
<1>2. Placed(o) /\ EndOf(o) = b.len
    BY <1>1 DEF OneObject
<1>3. /\ b.len <= Cap /\ b.len \in Nat /\ b.rel \in [0 .. Cap - 1 -> 0 .. n - 1]
    BY DEF Buffer, Memory
<1>4. /\ Slot(o, e, i) \in Nat /\ Slot(o, e, i) + 4 <= o.base + TotalSz(o)
      /\ o.base + TotalSz(o) <= EndOf(o) /\ TotalSz(o) \in Nat /\ o.base \in Nat
    BY <1>1, <1>2, SlotFacts, SizeFacts DEF Placed
<1>5. Slot(o, e, i) \in 0 .. Cap - 1
    BY <1>2, <1>3, <1>4, CapFacts
<1> QED
    BY <1>1, <1>3, <1>5

LEMMA AppendValueInv ==
    ASSUME Inv, NEW k \in Objects, NEW e \in Elements(k), NEW i \in Pointers(k),
           NEW x \in {0, 1}, AppendValue(k, e, i, x)
    PROVE  Inv'
<1>1. PICK n \in Nat : n = Len(pool)
    BY InvFacts
<1>2. k \in 1 .. n /\ n > 0 /\ Pool(pool, FALSE, FALSE)
  <2>1. k \in 1 .. n /\ Pool(pool, FALSE, FALSE)
      BY <1>1, InvFacts, Zenon
  <2>2. n > 0
      BY <2>1
  <2> QED
      BY <2>1, <2>2
<1>3. /\ e \in 0 .. TheObj(pool[k]).nelem - 1 /\ i \in 0 .. TheObj(pool[k]).psize - 1
    BY Zenon DEF Elements, Pointers
<1>4. PICK t : t = pool[k].rel[Slot(TheObj(pool[k]), e, i)] + 1
    OBVIOUS
<1>5. t \in 1 .. n
  <2>1. PICK b : b = pool[k]
      OBVIOUS
  <2>2. Buffer(b, n, FALSE, FALSE)
      BY <1>1, <1>2, <2>1, Zenon DEF Pool
  <2>3. OneObject(b) /\ TheObj(b) = Obj(b, 1)
      BY <1>3, <2>1, <2>2, ElementOfObject, Zenon
  <2>4. b.rel[Slot(Obj(b, 1), e, i)] \in 0 .. n - 1
      BY <1>3, <2>1, <2>2, <2>3, WordIsId, Zenon
  <2>5. t = b.rel[Slot(Obj(b, 1), e, i)] + 1
      BY <1>4, <2>1, <2>3, Zenon
  <2> QED
      BY <2>4, <2>5
<1>6. PICK b : b = pool[t]
    OBVIOUS
<1>7. PICK o : o = Obj(b, 1)
    OBVIOUS
<1>8. PICK grown : grown = ResizeIn(b, 1, o.nelem + 1)
    OBVIOUS
<1>9. PICK v : v = IF HasScalar(o) THEN PutScalar(grown, Obj(grown, 1), o.nelem, x) ELSE grown
    OBVIOUS
<1>10. /\ b.objs # <<>> /\ o.nelem < IF ElemSz(o) = 0 THEN MaxBits ELSE MaxElems
       /\ grown.len <= Cap /\ pool' = [pool EXCEPT ![t] = v] /\ Rest
  <2>1. b.objs # <<>>
      BY <1>4, <1>6, Zenon DEF AppendValue
  <2>2. TheObj(b) = o
      BY <1>7, <2>1, Zenon DEF TheObj
  <2> QED
      BY <1>4, <1>6, <1>8, <1>9, <2>1, <2>2, Zenon DEF AppendValue
<1>11. Buffer(b, n, FALSE, FALSE)
    BY <1>1, <1>2, <1>5, <1>6, Zenon DEF Pool
<1>12. OneObject(b)
    BY <1>10, <1>11, Zenon DEF Buffer
<1>13. Shape(o.nelem + 1, o.ssize, o.psize)
  <2>1. Placed(o)
      BY <1>7, <1>12, Zenon DEF OneObject
  <2>2. ElemSz(o) = 0 <=> o.ssize = 0 /\ o.psize = 0
      BY <2>1, SizeFacts
  <2>3. Shape(o.nelem, o.ssize, o.psize)
      BY <2>1 DEF Placed
  <2> QED
      BY <1>10, <2>2, <2>3, BuilderAssumption, NelemModAssumption DEF Shape
<1>14. ASSUME NEW padded \in BOOLEAN, NEW whole \in BOOLEAN, Pool(pool, padded, whole)
       PROVE  Pool(pool', padded, whole)
  <2>1. Buffer(b, n, padded, whole)
      BY <1>1, <1>5, <1>6, <1>14, Zenon DEF Pool
  <2>2. /\ Buffer(grown, n, padded, whole) /\ OneObject(grown)
        /\ Obj(grown, 1) = Resized(o, o.nelem + 1)
      BY <1>2, <1>7, <1>8, <1>10, <1>12, <1>13, <2>1, GrowBuffer, Zenon
  <2>3. Buffer(v, n, padded, whole)
    <3>1. CASE HasScalar(o)
      <4>1. /\ Obj(grown, 1).nelem = o.nelem + 1 /\ Obj(grown, 1).ssize = o.ssize
            /\ Obj(grown, 1).psize = o.psize
        <5>1. PICK c : c = o.nelem + 1
            OBVIOUS
        <5> QED
            BY <2>2, <5>1, ResizedFields
      <4>2. o.nelem \in 0 .. Obj(grown, 1).nelem - 1
        <5>1. o.nelem \in Nat
            BY <1>7, <1>12 DEF OneObject, Placed, Shape
        <5> QED
            BY <4>1, <5>1
      <4>3. HasScalar(Obj(grown, 1))
          BY <3>1, <4>1, Zenon DEF HasScalar
      <4> QED
          BY <1>9, <2>2, <3>1, <4>2, <4>3, PutScalarBuffer, Zenon
    <3>2. CASE ~ HasScalar(o)
        BY <1>9, <2>2, <3>2, Zenon
    <3> QED
        BY <3>1, <3>2
  <2> QED
      BY <1>1, <1>5, <1>10, <1>14, <2>3, PoolReplace, Zenon
<1> QED
    BY <1>10, <1>14, KeepInv, Zenon

LEMMA SetScalarInv ==
    ASSUME Inv, NEW k \in Objects, NEW e \in Elements(k), NEW x \in {0, 1}, SetScalar(k, e, x)
    PROVE  Inv'
<1>1. PICK n \in Nat : n = Len(pool)
    BY InvFacts
<1>2. k \in 1 .. n
    BY <1>1, InvFacts, Zenon
<1>3. PICK b : b = pool[k]
    OBVIOUS
<1>4. PICK v : v = PutScalar(b, TheObj(b), e, x)
    OBVIOUS
<1>5. e \in 0 .. TheObj(b).nelem - 1 /\ HasScalar(TheObj(b)) /\ pool' = [pool EXCEPT ![k] = v] /\ Rest
    BY <1>3, <1>4, Zenon DEF SetScalar, Elements
<1>6. ASSUME NEW padded \in BOOLEAN, NEW whole \in BOOLEAN, Pool(pool, padded, whole)
      PROVE  Pool(pool', padded, whole)
  <2>1. Buffer(b, n, padded, whole)
      BY <1>1, <1>2, <1>3, <1>6, Zenon DEF Pool
  <2>2. OneObject(b) /\ TheObj(b) = Obj(b, 1)
      BY <1>5, <2>1, ElementOfObject, Zenon
  <2>3. e \in 0 .. Obj(b, 1).nelem - 1 /\ HasScalar(Obj(b, 1)) /\ v = PutScalar(b, Obj(b, 1), e, x)
      BY <1>4, <1>5, <2>2, Zenon
  <2>4. Buffer(v, n, padded, whole)
      BY <2>1, <2>2, <2>3, PutScalarBuffer, Zenon
  <2> QED
      BY <1>1, <1>2, <1>5, <1>6, <2>4, PoolReplace, Zenon
<1> QED
    BY <1>5, <1>6, KeepInv, Zenon

LEMMA ShrinkInv ==
    ASSUME Inv, NEW k \in Objects, NEW c \in 1 .. MaxElems, Shrink(k, c)
    PROVE  Inv'
<1>1. PICK n \in Nat : n = Len(pool)
    BY InvFacts
<1>2. k \in 1 .. n /\ c \in Nat
    BY <1>1, InvFacts
<1>3. PICK b : b = pool[k]
    OBVIOUS
<1>4. PICK v : v = Wire(b.len, WithLength(b.objs, 1, c), b.rel, b.bits)
    OBVIOUS
<1>5. /\ c < TheObj(b).nelem /\ wire' = wire /\ phase' = phase /\ client' = client
    BY <1>3, Zenon DEF Shrink
<1>6. CASE /\ EndOf(Resized(TheObj(b), c)) = EndOf(TheObj(b))
           /\ pool' = [pool EXCEPT ![k] = v] /\ faults' = faults \cup {"shortened"}
  <2>1. ASSUME NEW padded \in BOOLEAN, NEW whole \in BOOLEAN,
               padded => "shortened" \notin faults', whole => "header" \notin faults'
        PROVE  Pool(pool', padded, whole)
    <3>1. padded = FALSE
        BY <1>6, <2>1, Zenon
    <3>2. whole => "header" \notin faults
        BY <1>6, <2>1, Zenon
    <3>3. Pool(pool, FALSE, whole)
        BY <3>2, Zenon DEF Inv
    <3>4. Buffer(b, n, FALSE, whole)
        BY <1>1, <1>2, <1>3, <3>3, Zenon DEF Pool
    <3>5. c \in 0 .. TheObj(b).nelem - 1
      <4>1. TheObj(b).nelem \in Nat
        <5>1. CASE b.objs = <<>>
            BY <5>1 DEF TheObj, NullObj
        <5>2. CASE b.objs # <<>>
            BY <3>4, <5>2 DEF Buffer, OneObject, Placed, Shape, TheObj
        <5> QED
            BY <5>1, <5>2
      <4> QED
          BY <1>2, <1>5, <4>1
    <3>6. OneObject(b) /\ TheObj(b) = Obj(b, 1)
        BY <3>4, <3>5, ElementOfObject, Zenon
    <3>7. Buffer(v, n, FALSE, whole)
        BY <1>2, <1>4, <1>5, <1>6, <3>4, <3>6, ShrinkBuffer, Zenon
    <3> QED
        BY <1>1, <1>2, <1>6, <3>1, <3>3, <3>7, PoolReplace, Zenon
  <2>2. faults' \subseteq {"shortened", "wrapped", "header"}
      BY <1>6 DEF Inv
  <2> QED
      BY <1>5, <2>1, <2>2, Zenon DEF Inv
<1>7. CASE pool' = pool /\ faults' = faults \cup {"wrapped"}
  <2>1. faults' \subseteq {"shortened", "wrapped", "header"}
      BY <1>7 DEF Inv
  <2>2. faults \subseteq faults'
      BY <1>7
  <2> QED
      BY <1>5, <1>7, <2>1, <2>2, Zenon DEF Inv
<1> QED
    BY <1>3, <1>4, <1>6, <1>7, Zenon DEF Shrink

-----------------------------------------------------------------------------
(* What nbuf_serialize makes of a pool *)

\* Every place is a multiple of 8, behind the elements of the objects before.
LEMMA PlacesRise ==
    ASSUME NEW n \in Nat, NEW size \in [1 .. n -> Nat], NEW f, Places(n, size, f)
    PROVE  /\ \A k \in 1 .. n + 1 : f[k] % 8 = 0
           /\ \A k \in 1 .. n : f[k] + 8 + size[k] <= f[k + 1]
           /\ \A j \in 1 .. n, k \in 1 .. n + 1 : j < k => f[j + 1] <= f[k]
<1>1. /\ f \in [1 .. n + 1 -> Nat] /\ f[1] = 0
      /\ \A k \in 1 .. n : f[k + 1] = RoundUp(f[k] + HdrSz + size[k], Align)
    BY PlacesAre, Zenon
<1>2. ASSUME NEW k \in 1 .. n
      PROVE  f[k + 1] % 8 = 0 /\ f[k] + 8 + size[k] <= f[k + 1]
  <2>1. PICK x \in Nat : x = f[k] + HdrSz + size[k] /\ x = f[k] + 8 + size[k]
      BY <1>1 DEF HdrSz
  <2>2. RoundUp(x, Align) % Align = 0 /\ x <= RoundUp(x, Align)
      BY RoundUpFacts, Zenon
  <2>3. f[k + 1] = RoundUp(x, Align)
      BY <1>1, <2>1, Zenon
  <2> QED
      BY <2>1, <2>2, <2>3 DEF Align
<1>3. ASSUME NEW k \in 1 .. n + 1
      PROVE  f[k] % 8 = 0
  <2>1. CASE k = 1
      BY <1>1, <2>1
  <2>2. CASE k # 1
    <3>1. k - 1 \in 1 .. n /\ (k - 1) + 1 = k
        BY <2>2
    <3>2. f[(k - 1) + 1] % 8 = 0
        BY <1>2, <3>1, Zenon
    <3> QED
        BY <3>1, <3>2, Zenon
  <2> QED
      BY <2>1, <2>2
<1> DEFINE S == {d \in Nat : \A j \in 1 .. n + 1 : j + d <= n + 1 => f[j] <= f[j + d]}
<1>4. 0 \in S
    BY <1>1
<1>5. ASSUME NEW d \in Nat, d \in S
      PROVE  d + 1 \in S
  <2>1. SUFFICES ASSUME NEW j \in 1 .. n + 1, j + (d + 1) <= n + 1
                 PROVE  f[j] <= f[j + (d + 1)]
      OBVIOUS
  <2>2. PICK k \in 1 .. n : k = j + d /\ k + 1 = j + (d + 1)
      BY <2>1
  <2>3. j + d <= n + 1
      BY <2>1
  <2>4. f[j] <= f[k]
      BY <1>5, <2>2, <2>3
  <2>5. f[k] + 8 + size[k] <= f[k + 1]
      BY <1>2
  <2>6. f[j] \in Nat /\ f[k] \in Nat /\ f[k + 1] \in Nat /\ size[k] \in Nat
      BY <1>1
  <2>7. f[j] <= f[k + 1]
      BY <2>4, <2>5, <2>6, SMTT(40)
  <2> QED
      BY <2>2, <2>7
<1> HIDE DEF S
<1>6. \A d \in Nat : d \in S
    BY <1>4, <1>5, Induction
<1>7. ASSUME NEW j \in 1 .. n, NEW k \in 1 .. n + 1, j < k
      PROVE  f[j + 1] <= f[k]
  <2>1. PICK d \in Nat : d = k - (j + 1) /\ (j + 1) + d = k
      BY <1>7
  <2>2. j + 1 \in 1 .. n + 1 /\ (j + 1) + d <= n + 1
      BY <2>1
  <2>3. f[j + 1] <= f[(j + 1) + d]
      BY <1>6, <2>2 DEF S
  <2> QED
      BY <2>1, <2>3
<1> QED
    BY <1>2, <1>3, <1>7

\* What lies between an object's header and the next object is not among the
\* elements of another.
LEMMA PlacesApart ==
    ASSUME NEW n \in Nat, NEW size \in [1 .. n -> Nat], NEW f, Places(n, size, f),
           NEW k \in 1 .. n, NEW a \in Int, f[k] + 8 <= a, a < f[k + 1], NEW j \in 1 .. n, j # k
    PROVE  a \notin f[j] + 8 .. f[j] + 8 + size[j] - 1
<1>1. f \in [1 .. n + 1 -> Nat]
    BY PlacesAre, Zenon
<1>2. /\ f[j] + 8 + size[j] <= f[j + 1]
      /\ j < k => f[j + 1] <= f[k]
      /\ k < j => f[k + 1] <= f[j]
  <2>1. k \in 1 .. n + 1 /\ j \in 1 .. n + 1
      OBVIOUS
  <2> QED
      BY <2>1, PlacesRise, Zenon
<1>3. f[j] \in Nat /\ f[j + 1] \in Nat /\ size[j] \in Nat /\ f[k] \in Nat /\ f[k + 1] \in Nat
    BY <1>1, SMTT(20)
<1>4. CASE j < k
  <2>1. PICK x \in Nat, y \in Nat, z \in Nat, c \in Nat : x = f[j] /\ y = f[j + 1] /\ z = f[k] /\ c = size[j]
      BY <1>3, Zenon
  <2>2. x + 8 + c <= y /\ y <= z /\ z + 8 <= a
      BY <1>2, <1>4, <2>1, Zenon
  <2>3. a \notin x + 8 .. x + 8 + c - 1
      BY <2>2
  <2> QED
      BY <2>1, <2>3
<1>5. CASE k < j
    BY <1>2, <1>3, <1>5, SMTT(20)
<1> QED
    BY <1>4, <1>5

\* The pool that the second pass copies, and the places that the first one found
LEMMA AnyPlaces ==
    ASSUME NEW bufs, Pool(bufs, FALSE, FALSE)
    PROVE  /\ Len(bufs) \in Nat /\ DOMAIN bufs = 1 .. Len(bufs)
           /\ \A k \in 1 .. Len(bufs) :
                /\ Buffer(bufs[k], Len(bufs), FALSE, FALSE)
                /\ Sizes(bufs)[k] = TotalSz(TheObj(bufs[k]))
                /\ bufs[k].objs # <<>> => OneObject(bufs[k]) /\ TheObj(bufs[k]) = Obj(bufs[k], 1)
           /\ Places(Len(bufs), Sizes(bufs), Placement(bufs))
           /\ Sizes(bufs) \in [1 .. Len(bufs) -> Nat]
<1>1. Len(bufs) \in Nat /\ DOMAIN bufs = 1 .. Len(bufs)
    BY SeqAppend DEF Pool
<1>2. ASSUME NEW k \in 1 .. Len(bufs)
      PROVE  /\ Buffer(bufs[k], Len(bufs), FALSE, FALSE)
             /\ bufs[k].objs # <<>> => OneObject(bufs[k]) /\ TheObj(bufs[k]) = Obj(bufs[k], 1)
  <2>1. Buffer(bufs[k], Len(bufs), FALSE, FALSE)
      BY Zenon DEF Pool
  <2>2. ASSUME bufs[k].objs # <<>>
        PROVE  OneObject(bufs[k])
      BY <2>1, <2>2, Zenon DEF Buffer
  <2> QED
      BY <2>1, <2>2, Zenon DEF TheObj
<1>3. ASSUME NEW k \in 1 .. Len(bufs)
      PROVE  TotalSz(TheObj(bufs[k])) \in Nat
  <2>1. CASE bufs[k].objs = <<>>
    <3>1. TheObj(bufs[k]) = NullObj
        BY <2>1 DEF TheObj
    <3>2. TotalSz(NullObj) = 0
        BY NelemModAssumption DEF NullObj, TotalSz, ElemSz, PtrOffs, WordSz, BitBytes
    <3> QED
        BY <3>1, <3>2
  <2>2. CASE bufs[k].objs # <<>>
    <3>1. Placed(Obj(bufs[k], 1))
        BY <1>2, <2>2, Zenon DEF OneObject
    <3>2. TotalSz(Obj(bufs[k], 1)) \in Nat
        BY <3>1, SizeFacts
    <3> QED
        BY <1>2, <2>2, <3>2, Zenon
  <2> QED
      BY <2>1, <2>2, Zenon
<1>4. /\ Places(Len(bufs), Sizes(bufs), Placement(bufs))
      /\ Sizes(bufs) \in [1 .. Len(bufs) -> Nat]
    BY <1>1, <1>3, PlacementIs, Zenon
<1>5. ASSUME NEW k \in 1 .. Len(bufs)
      PROVE  Sizes(bufs)[k] = TotalSz(TheObj(bufs[k]))
    BY DEF Sizes
<1> QED
    BY <1>1, <1>2, <1>4, <1>5, Zenon

\* The same if all objects have headers
LEMMA PoolPlaces ==
    ASSUME NEW bufs, NEW padded, Pool(bufs, padded, TRUE)
    PROVE  /\ Pool(bufs, FALSE, FALSE)
           /\ Len(bufs) \in Nat /\ DOMAIN bufs = 1 .. Len(bufs)
           /\ \A k \in 1 .. Len(bufs) :
                /\ Buffer(bufs[k], Len(bufs), padded, TRUE) /\ OneObject(bufs[k])
                /\ TheObj(bufs[k]) = Obj(bufs[k], 1) /\ bufs[k].objs # <<>>
                /\ padded => PadZero(bufs[k].bits, Obj(bufs[k], 1))
           /\ Places(Len(bufs), Sizes(bufs), Placement(bufs))
           /\ Sizes(bufs) \in [1 .. Len(bufs) -> Nat]
           /\ \A k \in 1 .. Len(bufs) : Sizes(bufs)[k] = TotalSz(Obj(bufs[k], 1))
<1>1. ASSUME NEW k \in 1 .. Len(bufs)
      PROVE  /\ Buffer(bufs[k], Len(bufs), padded, TRUE) /\ Buffer(bufs[k], Len(bufs), FALSE, FALSE)
             /\ OneObject(bufs[k]) /\ bufs[k].objs # <<>>
             /\ padded => PadZero(bufs[k].bits, Obj(bufs[k], 1))
  <2>1. Buffer(bufs[k], Len(bufs), padded, TRUE)
      BY Zenon DEF Pool
  <2>2. OneObject(bufs[k]) /\ (padded => PadZero(bufs[k].bits, Obj(bufs[k], 1)))
      BY <2>1, Zenon DEF Buffer
  <2>3. bufs[k].objs # <<>>
      BY <2>2, HasObject, Zenon
  <2>4. Buffer(bufs[k], Len(bufs), FALSE, FALSE)
      BY <2>1, <2>2, Zenon DEF Buffer
  <2> QED
      BY <2>1, <2>2, <2>3, <2>4, Zenon
<1>2. Pool(bufs, FALSE, FALSE)
    BY <1>1, Zenon DEF Pool
<1>3. /\ Len(bufs) \in Nat /\ DOMAIN bufs = 1 .. Len(bufs)
      /\ Places(Len(bufs), Sizes(bufs), Placement(bufs))
      /\ Sizes(bufs) \in [1 .. Len(bufs) -> Nat]
    BY <1>2, AnyPlaces, Zenon
<1>4. ASSUME NEW k \in 1 .. Len(bufs)
      PROVE  TheObj(bufs[k]) = Obj(bufs[k], 1) /\ Sizes(bufs)[k] = TotalSz(Obj(bufs[k], 1))
  <2>1. bufs[k].objs # <<>>
      BY <1>1, Zenon
  <2>2. TheObj(bufs[k]) = Obj(bufs[k], 1) /\ Sizes(bufs)[k] = TotalSz(TheObj(bufs[k]))
      BY <1>2, <2>1, AnyPlaces, Zenon
  <2> QED
      BY <2>2, Zenon
<1> QED
    BY <1>1, <1>2, <1>3, <1>4, Zenon

\* A byte of an object's elements has that object as its only owner, and one
\* between an object's elements and the next object has none.
LEMMA OwnerIs ==
    ASSUME NEW bufs, Pool(bufs, FALSE, FALSE),
           NEW k \in 1 .. Len(bufs), NEW a \in Int,
           Placement(bufs)[k] + 8 <= a, a < Placement(bufs)[k + 1]
    PROVE  /\ a < Placement(bufs)[k] + 8 + Sizes(bufs)[k]
                => Owners(bufs, Placement(bufs), a) = {k} /\ Owner(bufs, Placement(bufs), a) = k
           /\ Placement(bufs)[k] + 8 + Sizes(bufs)[k] <= a => Owners(bufs, Placement(bufs), a) = {}
<1>1. PICK n \in Nat : n = Len(bufs) /\ DOMAIN bufs = 1 .. n /\ k \in 1 .. n
    BY AnyPlaces
<1>2. PICK f : f = Placement(bufs)
    OBVIOUS
<1>3. PICK size \in [1 .. n -> Nat] : size = Sizes(bufs)
    BY <1>1, AnyPlaces, Zenon
<1>4. Places(n, size, f)
    BY <1>1, <1>2, <1>3, AnyPlaces, Zenon
<1>5. /\ f \in [1 .. n + 1 -> Nat]
      /\ \A j \in 1 .. n : f[j] + 8 + size[j] <= f[j + 1]
      /\ \A j \in 1 .. n, l \in 1 .. n + 1 : j < l => f[j + 1] <= f[l]
    BY <1>4, PlacesAre, PlacesRise
<1>6. Owners(bufs, f, a) = {j \in 1 .. n : a \in f[j] + 8 .. f[j] + 8 + size[j] - 1}
  <2>1. \A j \in 1 .. n : size[j] = TotalSz(TheObj(bufs[j]))
      BY <1>1, <1>3, AnyPlaces, Zenon
  <2> QED
      BY <1>1, <2>1 DEF Owners, HdrSz
<1>7. ASSUME NEW j \in 1 .. n, j # k
      PROVE  a \notin f[j] + 8 .. f[j] + 8 + size[j] - 1
  <2>1. f[k] + 8 <= a /\ a < f[k + 1]
      BY <1>2, Zenon
  <2> QED
      BY <1>1, <1>4, <1>7, <2>1, PlacesApart, Zenon
<1>8. f[k] \in Nat /\ size[k] \in Nat /\ f[k] + 8 <= a
    BY <1>1, <1>2, <1>5
<1>9. ASSUME a < f[k] + 8 + size[k]
      PROVE  Owners(bufs, f, a) = {k} /\ Owner(bufs, f, a) = k
  <2>1. a \in f[k] + 8 .. f[k] + 8 + size[k] - 1
      BY <1>8, <1>9, SMTT(20)
  <2>2. Owners(bufs, f, a) = {k}
      BY <1>1, <1>6, <1>7, <2>1
  <2> QED
      BY <2>2 DEF Owner
<1>10. ASSUME f[k] + 8 + size[k] <= a
       PROVE  Owners(bufs, f, a) = {}
  <2>1. a \notin f[k] + 8 .. f[k] + 8 + size[k] - 1
      BY <1>8, <1>10, SMTT(20)
  <2> QED
      BY <1>6, <1>7, <2>1
<1> QED
    BY <1>2, <1>3, <1>9, <1>10, Zenon

\* Sizes do not depend on where an object lies.
LEMMA SameSizes ==
    ASSUME NEW o, Placed(o), NEW q, Placed(q),
           q.nelem = o.nelem, q.ssize = o.ssize, q.psize = o.psize
    PROVE  /\ ElemSz(q) = ElemSz(o) /\ TotalSz(q) = TotalSz(o)
           /\ \A e \in 0 .. o.nelem - 1, i \in 0 .. o.psize - 1 :
                Slot(q, e, i) = q.base + Slot(o, e, i) - o.base
<1>1. ElemSz(q) = ElemSz(o) /\ TotalSz(q) = TotalSz(o)
    BY DEF ElemSz, PtrOffs, TotalSz
<1>2. ASSUME NEW e \in 0 .. o.nelem - 1, NEW i \in 0 .. o.psize - 1
      PROVE  Slot(q, e, i) = q.base + Slot(o, e, i) - o.base
  <2>1. o.base \in Nat /\ q.base \in Nat /\ o.psize \in Nat /\ i \in Nat /\ ElemSz(o) # 0
      BY SizeFacts DEF Placed, Shape
  <2>2. PICK d \in Nat : d = e * ElemSz(o)
      BY SizeFacts
  <2>3. GetElem(o, e).base = o.base + d /\ GetElem(q, e).base = q.base + d
    <3>1. e \in 0 .. q.nelem - 1
        OBVIOUS
    <3> QED
        BY <1>1, <2>1, <2>2, <3>1, ElemFacts
  <2>4. PICK c \in Nat : c = PtrOffs(o, i) /\ c = PtrOffs(q, i)
      BY <2>1 DEF PtrOffs, WordSz, Placed, Shape
  <2> QED
      BY <2>1, <2>3, <2>4 DEF Slot
<1> QED
    BY <1>1, <1>2

\* What nbuf_serialize leaves, whatever it finds where there is no header
OutOf(w, bufs) == \E junk : w = Serialized(bufs, Placement(bufs), junk)

\* Every header of the output is at the place that the first pass found.
LEMMA SerializedPlace ==
    ASSUME NEW bufs, NEW out, OutOf(out, bufs), Pool(bufs, FALSE, FALSE)
    PROVE  /\ DOMAIN out.objs = 1 .. Len(bufs)
           /\ \A k \in 1 .. Len(bufs) : out.objs[k].at = Placement(bufs)[k]
           /\ DOMAIN out.rel = 0 .. out.len - 1
           /\ out.len = Placement(bufs)[Len(bufs) + 1]
<1>1. PICK n \in Nat : n = Len(bufs) /\ DOMAIN bufs = 1 .. n
    BY AnyPlaces
<1>2. PICK f : f = Placement(bufs)
    OBVIOUS
<1>3. PICK junk : out = Serialized(bufs, f, junk)
    BY <1>2, Zenon DEF OutOf
<1>4. /\ out.objs = [k \in 1 .. n |-> HeadOut(bufs, f, junk, k)]
      /\ DOMAIN out.rel = 0 .. out.len - 1 /\ out.len = f[n + 1]
    BY <1>1, <1>2, <1>3 DEF Serialized, Wire
<1>5. ASSUME NEW k \in 1 .. n
      PROVE  HeadOut(bufs, f, junk, k).at = f[k]
    BY DEF HeadOut, Header
<1>6. DOMAIN out.objs = 1 .. n /\ \A k \in 1 .. n : out.objs[k].at = f[k]
    BY <1>4, <1>5
<1> QED
    BY <1>1, <1>2, <1>4, <1>6, Zenon

\* Object k of the output
CopyOf(out, bufs, k) ==
    /\ out.objs[k] \in Headers /\ out.objs[k].at = Placement(bufs)[k]
    /\ Obj(out, k).base = Placement(bufs)[k] + 8 /\ Placed(Obj(out, k))
    /\ Obj(out, k).nelem = Obj(bufs[k], 1).nelem
    /\ Obj(out, k).ssize = Obj(bufs[k], 1).ssize
    /\ Obj(out, k).psize = Obj(bufs[k], 1).psize
    /\ ElemSz(Obj(out, k)) = ElemSz(Obj(bufs[k], 1))
    /\ TotalSz(Obj(out, k)) = Sizes(bufs)[k]
    /\ EndOf(Obj(out, k)) = Placement(bufs)[k + 1]

LEMMA SerializedObject ==
    ASSUME NEW bufs, NEW out, OutOf(out, bufs), Pool(bufs, FALSE, FALSE),
           NEW k \in 1 .. Len(bufs), bufs[k].objs # <<>>
    PROVE  CopyOf(out, bufs, k)
<1>1. PICK n \in Nat : n = Len(bufs) /\ DOMAIN bufs = 1 .. n /\ k \in 1 .. n
    BY AnyPlaces
<1>2. PICK f : f = Placement(bufs)
    OBVIOUS
<1>3. PICK size \in [1 .. n -> Nat] : size = Sizes(bufs)
    BY <1>1, AnyPlaces, Zenon
<1>4. PICK o : o = Obj(bufs[k], 1)
    OBVIOUS
<1>5. TheObj(bufs[k]) = o /\ Placed(o) /\ size[k] = TotalSz(o)
    BY <1>1, <1>3, <1>4, AnyPlaces, Zenon DEF OneObject
<1>6. /\ f[k] \in Nat /\ f[k] % 8 = 0 /\ f[k + 1] = RoundUp(f[k] + HdrSz + size[k], Align)
  <2>1. Places(n, size, f)
      BY <1>1, <1>2, <1>3, AnyPlaces, Zenon
  <2>2. k \in 1 .. n + 1
      BY <1>1
  <2>3. f \in [1 .. n + 1 -> Nat] /\ f[k + 1] = RoundUp(f[k] + HdrSz + size[k], Align)
      BY <1>1, <2>1, PlacesAre, ZenonT(60)
  <2>4. f[k] % 8 = 0
      BY <2>1, <2>2, PlacesRise, Zenon
  <2> QED
      BY <2>2, <2>3, <2>4, Zenon
<1>7. PICK w : w = out
    OBVIOUS
<1>8. PICK h : h = Header(f[k], o.nelem, o.ssize, o.psize)
    OBVIOUS
<1>9. /\ h.at = f[k] /\ h.nelem = o.nelem /\ h.ssize = o.ssize /\ h.psize = o.psize
    BY <1>8 DEF Header
<1>10. h \in Headers
    BY <1>5, <1>6, <1>8 DEF Header, Headers, Placed, Shape
<1>11. w.objs[k] = h
  <2> PICK junk : w = Serialized(bufs, f, junk)
      BY <1>2, <1>7, Zenon DEF OutOf
  <2>1. Serialized(bufs, f, junk).objs = [j \in DOMAIN bufs |-> HeadOut(bufs, f, junk, j)]
      BY DEF Serialized, Wire
  <2>2. Serialized(bufs, f, junk).objs[k] = HeadOut(bufs, f, junk, k)
      BY <1>1, <2>1
  <2>3. HeadOut(bufs, f, junk, k)
           = Header(f[k], TheObj(bufs[k]).nelem, TheObj(bufs[k]).ssize, TheObj(bufs[k]).psize)
      BY DEF HeadOut
  <2> QED
      BY <1>5, <1>8, <2>2, <2>3, Zenon
<1>12. PICK q : q = Obj(w, k)
    OBVIOUS
<1>13. /\ q.base = f[k] + 8 /\ q.nelem = o.nelem /\ q.ssize = o.ssize /\ q.psize = o.psize
    BY <1>9, <1>11, <1>12, ObjFields
<1>14. Placed(q)
  <2>1. PICK x \in Nat : x = f[k] /\ x % 8 = 0
      BY <1>6, Zenon
  <2>2. (x + 8) % 8 = 0 /\ x + 8 \in Nat
      BY <2>1, SMTT(60)
  <2> QED
      BY <1>5, <1>13, <2>1, <2>2, Zenon DEF Placed, Align
<1>15. ElemSz(q) = ElemSz(o) /\ TotalSz(q) = TotalSz(o)
    BY <1>5, <1>13, <1>14, SameSizes, Zenon
<1>16. EndOf(q) = f[k + 1]
    BY <1>5, <1>6, <1>13, <1>15, Zenon DEF EndOf, HdrSz
<1> QED
    BY <1>2, <1>3, <1>4, <1>5, <1>9, <1>10, <1>11, <1>12, <1>13, <1>14, <1>15, <1>16, <1>7, Zenon DEF CopyOf

\* The objects of the output lie one after the other.
LEMMA SerializedLaid ==
    ASSUME NEW bufs, NEW out, OutOf(out, bufs), NEW padded, Pool(bufs, padded, TRUE), Len(bufs) > 0
    PROVE  /\ Laid(out)
           /\ Len(out.objs) = Len(bufs)
<1>1. PICK n \in Nat : n = Len(bufs) /\ DOMAIN bufs = 1 .. n /\ n > 0
    BY PoolPlaces
<1>2. PICK f : f = Placement(bufs)
    OBVIOUS
<1>3. PICK size \in [1 .. n -> Nat] : size = Sizes(bufs)
    BY <1>1, PoolPlaces, Zenon
<1>4. PICK w, junk : w = out /\ w = Serialized(bufs, f, junk)
    BY <1>2, Zenon DEF OutOf
<1>5. Places(n, size, f)
    BY <1>1, <1>2, <1>3, PoolPlaces, Zenon
<1>6. /\ f \in [1 .. n + 1 -> Nat] /\ f[1] = 0
      /\ \A k \in 1 .. n + 1 : f[k] % 8 = 0
      /\ \A j \in 1 .. n, k \in 1 .. n + 1 : j < k => f[j + 1] <= f[k]
    BY <1>5, PlacesAre, PlacesRise, ZenonT(30)
<1>7. ASSUME NEW k \in 1 .. n
      PROVE  /\ w.objs[k] \in Headers /\ w.objs[k].at = f[k]
             /\ Placed(Obj(w, k)) /\ EndOf(Obj(w, k)) = f[k + 1]
  <2>1. /\ k \in 1 .. Len(bufs) /\ OutOf(w, bufs) /\ bufs[k].objs # <<>>
        /\ Pool(bufs, FALSE, FALSE)
      BY <1>1, <1>4, PoolPlaces, Zenon
  <2>2. CopyOf(w, bufs, k)
      BY <2>1, SerializedObject, Zenon
  <2> QED
      BY <1>2, <2>2, Zenon DEF CopyOf
<1>8. w.len = f[n + 1] /\ DOMAIN w.objs = 1 .. n /\ w.objs = [k \in 1 .. n |-> w.objs[k]]
    BY <1>1, <1>4 DEF Serialized, Wire
<1>9. w.objs \in Seq(Headers) /\ Len(w.objs) = n
  <2>1. w.objs \in [1 .. n -> Headers]
      BY <1>7, <1>8
  <2>2. w.objs \in Seq(Headers)
      BY <2>1, SeqDef
  <2> QED
      BY <1>8, <2>2
<1>10. w.objs # <<>>
    BY <1>1, <1>9
<1>11. n + 1 \in 1 .. n + 1 /\ \A k \in 1 .. n : k \in 1 .. n + 1 /\ k < n + 1
    BY <1>1
<1>12. w.len \in Nat /\ w.len % 8 = 0
    BY <1>6, <1>8, <1>11, Zenon
<1>13. \A k \in 1 .. n : Placed(Obj(w, k)) /\ EndOf(Obj(w, k)) <= w.len
    BY <1>6, <1>7, <1>8, <1>11, Zenon
<1>14. \A j, k \in 1 .. n : j < k => EndOf(Obj(w, j)) <= w.objs[k].at
    BY <1>6, <1>7, <1>11, Zenon
<1>15. ASSUME NEW k \in 1 .. n
       PROVE  /\ k = 1 => w.objs[k].at = 0
              /\ k = n => EndOf(Obj(w, k)) = w.len
              /\ k # n => EndOf(Obj(w, k)) = w.objs[k + 1].at
  <2>1. k # n => k + 1 \in 1 .. n
      BY <1>1
  <2> QED
      BY <1>6, <1>7, <1>8, <2>1, Zenon
<1>16. Laid(w)
    BY <1>9, <1>10, <1>12, <1>13, <1>14, <1>15, Zenon DEF Laid
<1> QED
    BY <1>1, <1>2, <1>4, <1>9, <1>16, Zenon

\* A byte of the output that lies in object k or behind it
ByteOf(out, bufs, k, a) ==
    /\ Placement(bufs)[k] + 8 + Sizes(bufs)[k] <= a => out.bits[a] = {}
    /\ a < Placement(bufs)[k] + 8 + Sizes(bufs)[k] =>
         /\ out.bits[a] = bufs[k].bits[Source(bufs, Placement(bufs), k, a)]
         /\ out.rel[a] = WordOut(bufs, Placement(bufs), k, a)

LEMMA OutByte ==
    ASSUME NEW bufs, NEW out, OutOf(out, bufs), Pool(bufs, FALSE, FALSE),
           NEW k \in 1 .. Len(bufs), NEW a \in Nat,
           Placement(bufs)[k] + 8 <= a, a < Placement(bufs)[k + 1]
    PROVE  ByteOf(out, bufs, k, a)
<1>1. PICK n \in Nat : n = Len(bufs) /\ k \in 1 .. n
    BY AnyPlaces
<1>2. PICK f : f = Placement(bufs)
    OBVIOUS
<1>3. PICK size \in [1 .. n -> Nat] : size = Sizes(bufs)
    BY <1>1, AnyPlaces, Zenon
<1>4. Places(n, size, f)
    BY <1>1, <1>2, <1>3, AnyPlaces, Zenon
<1>5. a \in 0 .. f[n + 1] - 1
  <2>1. k \in 1 .. n /\ k + 1 \in 1 .. n + 1 /\ n + 1 \in 1 .. n + 1 /\ k < n + 1
      BY <1>1
  <2>2. f[k + 1] <= f[n + 1] /\ f \in [1 .. n + 1 -> Nat]
      BY <1>4, <2>1, PlacesAre, PlacesRise, Zenon
  <2>3. PICK x \in Nat, y \in Nat : x = f[k + 1] /\ y = f[n + 1]
      BY <2>1, <2>2, Zenon
  <2>4. a < x /\ x <= y
      BY <1>2, <2>2, <2>3, Zenon
  <2>5. a \in 0 .. y - 1
      BY <2>4
  <2> QED
      BY <2>3, <2>5, Zenon
<1>6. /\ a < f[k] + 8 + size[k] => Owners(bufs, f, a) = {k} /\ Owner(bufs, f, a) = k
      /\ f[k] + 8 + size[k] <= a => Owners(bufs, f, a) = {}
  <2>1. a \in Int
      OBVIOUS
  <2> QED
      BY <1>2, <1>3, <2>1, OwnerIs, Zenon
<1>7. PICK w : w = out
    OBVIOUS
<1>8. /\ w.bits[a] = ByteOut(bufs, f, a)
      /\ w.rel[a] = IF Owners(bufs, f, a) = {} THEN 0 ELSE WordOut(bufs, f, Owner(bufs, f, a), a)
  <2>1. /\ w.bits = [x \in 0 .. f[n + 1] - 1 |-> ByteOut(bufs, f, x)]
        /\ w.rel = [x \in 0 .. f[n + 1] - 1 |->
                      IF Owners(bufs, f, x) = {} THEN 0 ELSE WordOut(bufs, f, Owner(bufs, f, x), x)]
    <3> PICK junk : w = Serialized(bufs, f, junk)
        BY <1>2, <1>7, Zenon DEF OutOf
    <3> QED
        BY <1>1, <1>2 DEF Serialized, Wire
  <2> QED
      BY <1>5, <2>1, Zenon
<1>9. {k} # {}
    OBVIOUS
<1>10. f[k] + 8 + size[k] <= a => w.bits[a] = {}
    BY <1>6, <1>8, Zenon DEF ByteOut
<1>11. ASSUME a < f[k] + 8 + size[k]
       PROVE  w.bits[a] = bufs[k].bits[Source(bufs, f, k, a)] /\ w.rel[a] = WordOut(bufs, f, k, a)
    BY <1>6, <1>8, <1>9, <1>11, Zenon DEF ByteOut
<1> QED
    BY <1>2, <1>3, <1>7, <1>10, <1>11, Zenon DEF ByteOf

\* The gaps of the output are zero, and so is the part of a byte that a vector of
\* bits does not use.
LEMMA SerializedPadded ==
    ASSUME NEW bufs, NEW out, OutOf(out, bufs), Pool(bufs, TRUE, TRUE), NEW k \in 1 .. Len(bufs)
    PROVE  PadZero(out.bits, Obj(out, k))
<1>1. PICK n \in Nat : n = Len(bufs) /\ k \in 1 .. n
    BY PoolPlaces
<1>2. PICK f : f = Placement(bufs)
    OBVIOUS
<1>3. PICK size \in [1 .. n -> Nat] : size = Sizes(bufs)
    BY <1>1, PoolPlaces, Zenon
<1>4. PICK b : b = bufs[k]
    OBVIOUS
<1>5. PICK o : o = Obj(b, 1)
    OBVIOUS
<1>6. /\ OneObject(b) /\ TheObj(bufs[k]) = o /\ PadZero(b.bits, o) /\ size[k] = TotalSz(o)
    BY <1>1, <1>3, <1>4, <1>5, PoolPlaces, Zenon
<1>7. o.base = 24 /\ Placed(o)
    BY <1>5, <1>6, CapFacts DEF OneObject
<1>8. PICK w, q : w = out /\ q = Obj(w, k)
    OBVIOUS
<1>9. /\ q.base = f[k] + 8 /\ Placed(q) /\ q.nelem = o.nelem /\ ElemSz(q) = ElemSz(o)
      /\ TotalSz(q) = size[k] /\ EndOf(q) = f[k + 1] /\ Pool(bufs, FALSE, FALSE)
  <2>1. bufs[k].objs # <<>> /\ Pool(bufs, FALSE, FALSE)
      BY PoolPlaces, Zenon
  <2>2. CopyOf(out, bufs, k)
      BY <2>1, SerializedObject, Zenon
  <2> QED
      BY <1>2, <1>3, <1>4, <1>5, <1>8, <2>1, <2>2, Zenon DEF CopyOf
<1>10. PICK at \in Nat, c \in Nat, next \in Nat :
         at = f[k] /\ c = size[k] /\ next = f[k + 1] /\ at + 8 + c <= next
  <2>1. Places(n, size, f)
      BY <1>1, <1>2, <1>3, PoolPlaces, Zenon
  <2>2. f \in [1 .. n + 1 -> Nat] /\ f[k] + 8 + size[k] <= f[k + 1]
      BY <1>1, <2>1, PlacesAre, PlacesRise, Zenon
  <2>3. k \in 1 .. n + 1 /\ k + 1 \in 1 .. n + 1
      BY <1>1
  <2> QED
      BY <1>1, <2>2, <2>3, Zenon
<1>11. ASSUME NEW a \in Nat, at + 8 <= a, a < next
       PROVE  /\ at + 8 + c <= a => w.bits[a] = {}
              /\ a < at + 8 + c => w.bits[a] = b.bits[Source(bufs, f, k, a)]
  <2>1. Pool(bufs, FALSE, FALSE) /\ Placement(bufs)[k] + 8 <= a /\ a < Placement(bufs)[k + 1]
      BY <1>2, <1>9, <1>10, <1>11, Zenon
  <2>2. ByteOf(out, bufs, k, a)
      BY <2>1, OutByte, Zenon
  <2> QED
      BY <1>2, <1>3, <1>4, <1>8, <1>10, <2>2, Zenon DEF ByteOf
<1>12. ASSUME NEW a \in at + 8 + c .. next - 1
       PROVE  w.bits[a] = {}
  <2>1. a \in Nat /\ at + 8 <= a /\ a < next /\ at + 8 + c <= a
      OBVIOUS
  <2> QED
      BY <1>11, <2>1
<1>13. ASSUME ElemSz(o) = 0, o.nelem % 8 # 0
       PROVE  w.bits[at + 8 + (o.nelem \div 8)] = b.bits[24 + (o.nelem \div 8)]
  <2>1. PICK d \in Nat : d = o.nelem \div 8 /\ d < c
    <3>1. o.base \in Nat /\ o.nelem \in Nat /\ o.base + (o.nelem \div 8) < o.base + TotalSz(o)
        BY <1>7, <1>13, LastByte DEF Placed, Shape
    <3>2. o.nelem \div 8 \in Nat
        BY <3>1
    <3> QED
        BY <1>6, <1>7, <1>10, <3>1, <3>2
  <2>2. PICK a \in Nat : a = at + 8 + d /\ at + 8 <= a /\ a < next /\ a < at + 8 + c
    <3>1. at + 8 + c <= next
        BY <1>10, Zenon
    <3>2. at + 8 + d \in Nat /\ at + 8 <= at + 8 + d /\ at + 8 + d < at + 8 + c /\ at + 8 + d < next
        BY <2>1, <3>1
    <3> QED
        BY <3>2, Zenon
  <2>3. w.bits[a] = b.bits[Source(bufs, f, k, a)]
      BY <1>11, <2>2, Zenon
  <2>4. Source(bufs, f, k, a) = 24 + d
    <3>1. Source(bufs, f, k, a) = o.base + a - at - 8
        BY <1>6, <1>10, Zenon DEF Source, HdrSz
    <3> QED
        BY <1>7, <2>2, <3>1
  <2> QED
      BY <2>1, <2>2, <2>3, <2>4, Zenon
<1>14. PadZero(w.bits, q)
  <2>1. \A a \in q.base + TotalSz(q) .. EndOf(q) - 1 : w.bits[a] = {}
      BY <1>9, <1>10, <1>12, Zenon
  <2>2. ElemSz(q) = 0 /\ q.nelem % 8 # 0 =>
          \A j \in w.bits[q.base + (q.nelem \div 8)] : j < q.nelem % 8
      BY <1>6, <1>7, <1>9, <1>10, <1>13, Zenon DEF PadZero
  <2> QED
      BY <2>1, <2>2, Zenon DEF PadZero
<1> QED
    BY <1>8, <1>14, Zenon

\* The ids in the object's pointer words are above its own.
Forward(b, k) ==
    \A e \in 0 .. Obj(b, 1).nelem - 1, i \in 0 .. Obj(b, 1).psize - 1 :
        b.rel[Slot(Obj(b, 1), e, i)] # 0 => b.rel[Slot(Obj(b, 1), e, i)] > k - 1

\* The distance to a target, counted in words, leads back to the target.
LEMMA WordsApart ==
    ASSUME NEW slot \in Nat, NEW to \in Nat, slot % 4 = 0, to % 8 = 0
    PROVE  to = slot + 4 * RelTo(slot, to)
<1>1. PICK x \in Nat : slot = 4 * x
    OBVIOUS
<1>2. PICK y \in Nat : to = 4 * y
  <2>1. to = 8 * (to \div 8) /\ to \div 8 \in Nat
      OBVIOUS
  <2>2. to = 4 * (2 * (to \div 8)) /\ 2 * (to \div 8) \in Nat
      BY <2>1
  <2> QED
      BY <2>2
<1>3. to - slot = 4 * (y - x)
    BY <1>1, <1>2
<1>4. (4 * (y - x)) \div 4 = y - x
    OBVIOUS
<1>5. RelTo(slot, to) = y - x
    BY <1>3, <1>4 DEF RelTo, WordSz
<1> QED
    BY <1>1, <1>2, <1>5

\* The ids became distances that lead forward to the objects they named.
LEMMA SerializedLinked ==
    ASSUME NEW bufs, NEW out, OutOf(out, bufs), Pool(bufs, FALSE, TRUE), Len(bufs) > 0,
           \A k \in 1 .. Len(bufs) : Forward(bufs[k], k)
    PROVE  PointersForward(out)
<1>1. PICK n \in Nat : n = Len(bufs)
    BY PoolPlaces
<1>2. PICK f : f = Placement(bufs)
    OBVIOUS
<1>3. PICK size \in [1 .. n -> Nat] : size = Sizes(bufs)
    BY <1>1, PoolPlaces, Zenon
<1>4. PICK w : w = out
    OBVIOUS
<1>5. Places(n, size, f)
    BY <1>1, <1>2, <1>3, PoolPlaces, Zenon
<1>6. /\ f \in [1 .. n + 1 -> Nat]
      /\ \A k \in 1 .. n + 1 : f[k] % 8 = 0
      /\ \A k \in 1 .. n : f[k] + 8 + size[k] <= f[k + 1]
      /\ \A j \in 1 .. n, k \in 1 .. n + 1 : j < k => f[j + 1] <= f[k]
  <2>1. f \in [1 .. n + 1 -> Nat]
      BY <1>5, PlacesAre, Zenon
  <2> QED
      BY <1>5, <2>1, PlacesRise, Zenon
<1>7. Len(w.objs) = n
    BY <1>1, <1>4, SerializedLaid, Zenon
<1>8. ASSUME NEW k \in 1 .. n,
             NEW e \in 0 .. Obj(w, k).nelem - 1, NEW i \in 0 .. Obj(w, k).psize - 1
      PROVE  LeadsTo(w, k, Slot(Obj(w, k), e, i))
  <2>1. PICK b, o, q : b = bufs[k] /\ o = Obj(b, 1) /\ q = Obj(w, k)
      OBVIOUS
  <2>2. /\ Buffer(b, n, FALSE, TRUE) /\ OneObject(b) /\ TheObj(b) = o /\ size[k] = TotalSz(o)
      BY <1>1, <1>3, <2>1, PoolPlaces, Zenon
  <2>3. o.base = 24 /\ Placed(o)
      BY <2>1, <2>2, CapFacts DEF OneObject
  <2>4. /\ q.base = f[k] + 8 /\ Placed(q)
        /\ q.nelem = o.nelem /\ q.ssize = o.ssize /\ q.psize = o.psize
        /\ TotalSz(q) = size[k]
    <3>1. k \in 1 .. Len(bufs) /\ bufs[k].objs # <<>> /\ Pool(bufs, FALSE, FALSE)
        BY <1>1, PoolPlaces, Zenon
    <3>2. CopyOf(out, bufs, k)
        BY <3>1, SerializedObject, Zenon
    <3> QED
        BY <1>2, <1>3, <1>4, <2>1, <3>2, Zenon DEF CopyOf
  <2>5. k \in 1 .. n + 1 /\ k + 1 \in 1 .. n + 1
      OBVIOUS
  <2>6. PICK at \in Nat, c \in Nat, next \in Nat : at = f[k] /\ c = size[k] /\ next = f[k + 1]
      BY <1>6, <2>5, Zenon
  <2>7. at + 8 + c <= next /\ q.base = at + 8 /\ TotalSz(q) = c
      BY <1>6, <2>4, <2>6, Zenon
  <2>8. /\ e \in 0 .. o.nelem - 1 /\ i \in 0 .. o.psize - 1
        /\ e \in 0 .. q.nelem - 1 /\ i \in 0 .. q.psize - 1
      BY <2>1, <2>4, Zenon
  <2>9. PICK slot \in Nat : /\ slot = Slot(q, e, i) /\ q.base <= slot
                            /\ slot + 4 <= q.base + TotalSz(q) /\ slot % 4 = 0
      BY <2>4, <2>8, SlotFacts, Zenon
  <2>10. PICK s \in Nat : s = Slot(o, e, i)
      BY <2>3, <2>8, SlotFacts, Zenon
  <2>11. slot = q.base + s - o.base
      BY <2>3, <2>4, <2>8, <2>9, <2>10, SameSizes, SMTT(60)
  <2>12. slot = at + 8 + s - 24 /\ at + 8 <= slot /\ slot + 4 <= at + 8 + c
      BY <2>3, <2>7, <2>9, <2>11, Zenon
  <2>13. slot < next /\ slot < at + 8 + c
      BY <2>7, <2>12
  <2>14. w.rel[slot] = WordOut(bufs, f, k, slot)
    <3>1. /\ k \in 1 .. Len(bufs) /\ Placement(bufs)[k] + 8 <= slot
          /\ slot < Placement(bufs)[k + 1] /\ slot < Placement(bufs)[k] + 8 + Sizes(bufs)[k]
          /\ Pool(bufs, FALSE, FALSE)
        BY <1>1, <1>2, <1>3, <2>6, <2>12, <2>13, PoolPlaces, Zenon
    <3>2. ByteOf(out, bufs, k, slot)
        BY <3>1, OutByte, Zenon
    <3> QED
        BY <1>2, <1>4, <3>1, <3>2, Zenon DEF ByteOf
  <2>15. Source(bufs, f, k, slot) = s
    <3>1. Source(bufs, f, k, slot) = o.base + slot - at - 8
        BY <2>1, <2>2, <2>6, Zenon DEF Source, HdrSz
    <3> QED
        BY <2>3, <2>12, <3>1
  <2>16. PICK id \in 0 .. n - 1 : id = b.rel[s]
      BY <2>1, <2>2, <2>8, <2>10, WordIsId, Zenon
  <2>17. w.rel[slot] = IF id = 0 THEN 0 ELSE RelTo(slot, f[id + 1])
      BY <2>1, <2>14, <2>15, <2>16, Zenon DEF WordOut
  <2>18. SUFFICES ASSUME w.rel[slot] # 0
                  PROVE  \E j \in 1 .. Len(w.objs) : j > k /\ w.objs[j].at = slot + 4 * w.rel[slot]
      BY <2>1, <2>9, Zenon DEF LeadsTo
  <2>19. id # 0 /\ w.rel[slot] = RelTo(slot, f[id + 1])
      BY <2>17, <2>18, Zenon
  <2>20. id > k - 1
      BY <1>1, <2>1, <2>8, <2>10, <2>16, <2>19, Zenon DEF Forward
  <2>21. PICK j \in 1 .. n : j = id + 1 /\ j > k
      BY <2>20
  <2>22. j \in 1 .. n + 1
      OBVIOUS
  <2>23. PICK to \in Nat : to = f[j] /\ to % 8 = 0
      BY <1>6, <2>22, Zenon
  <2>24. to = slot + 4 * RelTo(slot, to)
      BY <2>9, <2>23, WordsApart, Zenon
  <2>25. w.objs[j].at = f[j]
    <3>1. \A m \in 1 .. Len(bufs) : out.objs[m].at = Placement(bufs)[m]
      <4>1. Pool(bufs, FALSE, FALSE)
          BY PoolPlaces, Zenon
      <4> QED
          BY <4>1, SerializedPlace, Zenon
    <3> QED
        BY <1>1, <1>2, <1>4, <3>1, Zenon
  <2>26. w.objs[j].at = slot + 4 * w.rel[slot]
      BY <2>19, <2>21, <2>23, <2>24, <2>25, Zenon
  <2> QED
      BY <1>7, <2>21, <2>26, Zenon
<1>9. PointersForward(w)
    BY <1>7, <1>8, Zenon DEF PointersForward
<1> QED
    BY <1>4, <1>9, Zenon

-----------------------------------------------------------------------------
(* nbuf_serialize as a step *)

LEMMA SerializeInv ==
    ASSUME Inv, Serialize
    PROVE  Inv' /\ WireWellFormed'
<1>1. PICK w : /\ pool' = <<>> /\ phase' = "wire" /\ client' = client /\ faults' = faults
               /\ Len(pool) > 0 /\ IdsForward
               /\ wire' = w /\ OutOf(w, pool)
    BY Zenon DEF Serialize, OutOf
<1>2. \A padded, whole \in BOOLEAN : Pool(<<>>, padded, whole)
  <2>1. IsSeq(<<>>) /\ 1 .. Len(<<>>) = {}
      BY EmptySeq DEF IsSeq
  <2> QED
      BY <2>1, Zenon DEF Pool
<1>3. CASE "header" \notin faults
  <2>1. Pool(pool, FALSE, TRUE)
      BY <1>3, Zenon DEF Inv
  <2>2. Laid(w) /\ Len(w.objs) = Len(pool)
      BY <1>1, <2>1, SerializedLaid, Zenon
  <2>3. wire'.len \in Nat /\ Tiled(wire')
      BY <1>1, <2>2, LaidTiled, Zenon DEF Laid
  <2>4. PointersToObjects(wire')
    <3>1. ASSUME NEW k \in 1 .. Len(pool)
          PROVE  Forward(pool[k], k)
      <4>1. k \in Objects /\ TheObj(pool[k]) = Obj(pool[k], 1)
          BY <2>1, PoolPlaces, Zenon DEF Objects
      <4> QED
          BY <1>1, <4>1, Zenon DEF IdsForward, Forward, Elements, Pointers
    <3>2. PointersForward(w)
        BY <1>1, <2>1, <3>1, SerializedLinked, Zenon
    <3> QED
        BY <1>1, <2>2, <3>2, LinkedFound, Zenon
  <2>5. ASSUME "shortened" \notin faults
        PROVE  PaddingIsZero(wire')
    <3>1. Pool(pool, TRUE, TRUE)
        BY <1>3, <2>5, Zenon DEF Inv
    <3>2. \A k \in 1 .. Len(pool) : PadZero(w.bits, Obj(w, k))
        BY <1>1, <3>1, SerializedPadded, Zenon
    <3>3. w.objs \in Seq(Headers)
        BY <2>2, Zenon DEF Laid
    <3>4. PaddingIsZero(w)
        BY <2>2, <3>2, <3>3, PaddingOfObjects, Zenon
    <3> QED
        BY <1>1, <3>4, Zenon
  <2> QED
      BY <1>1, <1>2, <2>3, <2>4, <2>5, Zenon DEF Inv, WireWellFormed
<1>4. CASE "header" \in faults
  <2>1. Pool(pool, FALSE, FALSE)
      BY InvFacts, Zenon
  <2>2. PICK n, f, size :
          /\ n = Len(pool) /\ n \in Nat /\ f = Placement(pool)
          /\ size \in [1 .. n -> Nat] /\ Places(n, size, f)
      BY <2>1, AnyPlaces, Zenon
  <2>3. f \in [1 .. n + 1 -> Nat] /\ n + 1 \in 1 .. n + 1
      BY <2>2, PlacesAre
  <2>4. f[n + 1] \in Nat
      BY <2>3
  <2>5. wire'.len \in Nat
      BY <1>1, <2>1, <2>2, <2>4, SerializedPlace, Zenon
  <2> QED
      BY <1>1, <1>2, <1>4, <2>5, Zenon DEF Inv, WireWellFormed
<1> QED
    BY <1>3, <1>4, Zenon

LEMMA FreeInv ==
    ASSUME Inv, FreeBuilder
    PROVE  Inv' /\ WireWellFormed'
<1>1. pool' = <<>> /\ phase' = "freed" /\ client' = client /\ faults' = faults /\ wire' = wire
    BY DEF FreeBuilder
<1>2. \A padded, whole \in BOOLEAN : Pool(<<>>, padded, whole)
  <2>1. IsSeq(<<>>) /\ 1 .. Len(<<>>) = {}
      BY EmptySeq DEF IsSeq
  <2> QED
      BY <2>1, Zenon DEF Pool
<1>3. "freed" # "wire"
    OBVIOUS
<1> QED
    BY <1>1, <1>2, <1>3, Zenon DEF Inv, WireWellFormed

\* The other steps leave the output alone, and faults are not forgotten.
LEMMA WireKept ==
    ASSUME WireWellFormed, wire' = wire, phase' = phase, faults \subseteq faults'
    PROVE  WireWellFormed'
  BY Zenon DEF WireWellFormed

LEMMA InitInv ==
    ASSUME Init
    PROVE  Inv /\ WireWellFormed
<1>1. pool = <<>> /\ phase = "build" /\ wire = NoWire /\ client \in Clients /\ faults = {}
    BY DEF Init
<1>2. IsSeq(<<>>) /\ 1 .. Len(<<>>) = {}
    BY EmptySeq DEF IsSeq
<1>3. \A padded, whole \in BOOLEAN : Pool(<<>>, padded, whole)
    BY <1>2, Zenon DEF Pool
<1>4. wire.len \in Nat
    BY <1>1 DEF NoWire, EmptyWire, Wire
<1>5. "build" # "wire"
    OBVIOUS
<1> QED
    BY <1>1, <1>3, <1>4, <1>5, Zenon DEF Inv, WireWellFormed

\* One step per operation of the builder
LEMMA NextInv ==
    ASSUME Inv, WireWellFormed, [Next]_vars
    PROVE  Inv' /\ WireWellFormed'
<1>1. ASSUME Rest
      PROVE  WireWellFormed'
    BY <1>1, WireKept DEF Rest
<1>2. ASSUME NEW m \in client.makes, Create(m)
      PROVE  Inv' /\ WireWellFormed'
  <2>1. Rest
      BY <1>2, Zenon DEF Create
  <2> QED
      BY <1>1, <1>2, <2>1, CreateInv, Zenon
<1>3. ASSUME CreateHalf
      PROVE  Inv' /\ WireWellFormed'
  <2>1. wire' = wire /\ phase' = phase /\ faults \subseteq faults'
      BY <1>3 DEF CreateHalf
  <2> QED
      BY <1>3, <2>1, CreateHalfInv, WireKept, Zenon
<1>4. ASSUME NEW k \in Objects, NEW e \in Elements(k), NEW i \in Pointers(k),
             NEW m \in client.makes, InitField(k, e, i, m)
      PROVE  Inv' /\ WireWellFormed'
  <2>1. Rest
      BY <1>4, Zenon DEF InitField
  <2> QED
      BY <1>1, <1>4, <2>1, InitFieldInv, Zenon
<1>5. ASSUME NEW k \in Objects, NEW e \in Elements(k), NEW i \in Pointers(k),
             NEW t \in Objects, Link(k, e, i, t)
      PROVE  Inv' /\ WireWellFormed'
  <2>1. Rest
      BY <1>5, Zenon DEF Link
  <2> QED
      BY <1>1, <1>5, <2>1, LinkInv, Zenon
<1>6. ASSUME NEW k \in Objects, NEW e \in Elements(k), NEW i \in Pointers(k),
             NEW c \in StrLens, PutStr(k, e, i, c)
      PROVE  Inv' /\ WireWellFormed'
  <2>1. Rest
      BY <1>6, Zenon DEF PutStr
  <2> QED
      BY <1>1, <1>6, <2>1, PutStrInv, Zenon
<1>7. ASSUME NEW k \in Objects, NEW e \in Elements(k), NEW i \in Pointers(k),
             NEW x \in {0, 1}, AppendValue(k, e, i, x)
      PROVE  Inv' /\ WireWellFormed'
  <2>1. Rest
      BY <1>7, Zenon DEF AppendValue
  <2> QED
      BY <1>1, <1>7, <2>1, AppendValueInv, Zenon
<1>8. ASSUME NEW k \in Objects, NEW e \in Elements(k), NEW i \in Pointers(k),
             NEW kind \in DOMAIN KindShape, NEW x \in {0, 1}, AppendFirst(k, e, i, kind, x)
      PROVE  Inv' /\ WireWellFormed'
  <2>1. Rest
      BY <1>8, Zenon DEF AppendFirst
  <2> QED
      BY <1>1, <1>8, <2>1, AppendFirstInv, Zenon
<1>9. ASSUME NEW k \in Objects, NEW e \in Elements(k), NEW x \in {0, 1}, SetScalar(k, e, x)
      PROVE  Inv' /\ WireWellFormed'
  <2>1. Rest
      BY <1>9, Zenon DEF SetScalar
  <2> QED
      BY <1>1, <1>9, <2>1, SetScalarInv, Zenon
<1>10. ASSUME NEW k \in Objects, NEW c \in 1 .. MaxElems, Shrink(k, c)
       PROVE  Inv' /\ WireWellFormed'
  <2>1. wire' = wire /\ phase' = phase
      BY <1>10, Zenon DEF Shrink
  <2>2. faults' = faults \cup {"shortened"} \/ faults' = faults \cup {"wrapped"}
      BY <1>10, Zenon DEF Shrink
  <2>3. faults \subseteq faults'
      BY <2>2
  <2> QED
      BY <1>10, <2>1, <2>3, ShrinkInv, WireKept, Zenon
<1>11. ASSUME UNCHANGED vars
       PROVE  Inv' /\ WireWellFormed'
    BY <1>11, Zenon DEF vars, Inv, WireWellFormed
<1>12. CASE Step
    BY <1>2, <1>3, <1>4, <1>5, <1>6, <1>7, <1>8, <1>9, <1>10, <1>12, SerializeInv, FreeInv, Zenon
       DEF Step
<1> QED
    BY <1>11, <1>12, Zenon DEF Next

\* The inductive invariant, and what it gives for the output of nbuf_serialize
THEOREM BuilderInv == Spec => [](Inv /\ WireWellFormed)
<1>1. Init => Inv /\ WireWellFormed
    BY InitInv
<1>2. Inv /\ WireWellFormed /\ [Next]_vars => (Inv /\ WireWellFormed)'
    BY NextInv
<1> QED
    BY <1>1, <1>2, PTL DEF Spec

\* TypeOK: every buffer of the pool lies within the memory it was given, and a
\* pointer word never holds anything but the id of an object the pool has.
THEOREM BuilderTypeOK == Spec => []TypeOK
<1>1. ASSUME Inv
      PROVE  TypeOK
  <2>1. Pool(pool, FALSE, FALSE) /\ Objects = 1 .. Len(pool)
      BY <1>1, InvFacts, Zenon
  <2>2. ASSUME NEW k \in Objects
        PROVE  /\ pool[k].len \in MetaSz .. Cap
               /\ pool[k].rel \in [0 .. Cap - 1 -> 0 .. Len(pool) - 1]
               /\ pool[k].bits \in [0 .. Cap - 1 -> SUBSET (0 .. 7)]
    <3>1. Memory(pool[k], Len(pool))
        BY <2>1, Zenon DEF Pool, Buffer
    <3>2. \A x : x \in Nat /\ MetaSz <= x /\ x <= Cap => x \in MetaSz .. Cap
        BY CapFacts
    <3> QED
        BY <3>1, <3>2, Zenon DEF Memory, Bytes
  <2> QED
      BY <1>1, <2>2, Zenon DEF Inv, TypeOK
<1> QED
    BY <1>1, BuilderInv, PTL

\* AlwaysResizable: whatever was created, linked, grown or made shorter, every
\* object of the pool ends where its buffer ends, so nbuf_resize never refuses.
THEOREM BuilderAlwaysResizable == Spec => []AlwaysResizable
<1>1. ASSUME Inv
      PROVE  AlwaysResizable
  <2>1. SUFFICES ASSUME NEW k \in Objects, pool[k].objs # <<>>
                 PROVE  EndOf(Obj(pool[k], 1)) = pool[k].len
      BY DEF AlwaysResizable, AtEnd
  <2>2. Buffer(pool[k], Len(pool), FALSE, FALSE)
      BY <1>1, InvFacts, Zenon DEF Pool
  <2> QED
      BY <2>1, <2>2, Zenon DEF Buffer, OneObject
<1> QED
    BY <1>1, BuilderInv, PTL

\* WireWellFormed: what nbuf_serialize leaves is a wire message, for pools of any
\* number of objects of any sizes: objects tile the buffer, the gaps are zero and
\* every pointer leads forward to the header of an object.
THEOREM BuilderWireWellFormed == Spec => []WireWellFormed
  BY BuilderInv, PTL

-----------------------------------------------------------------------------
(* What the get functions show of a buffer of the pool *)

\* The words behind an object, which a resize makes elements of, are null pointers.
PadNull(b) ==
    \A a \in Obj(b, 1).base + TotalSz(Obj(b, 1)) .. EndOf(Obj(b, 1)) - 1 : b.rel[a] = 0

\* What the pointer words of a buffer lead to, and its object as the get functions show it
Leads(b) == [a \in DOMAIN b.rel |-> IF b.rel[a] = 0 THEN 0 ELSE b.rel[a] + 1]
ShownIn(b) == Shown(b, Obj(b, 1), Leads(b))

\* A buffer of a pool that saw no fault
Sound(b, n) == Buffer(b, n, TRUE, TRUE) /\ PadNull(b)

NoPointers(b) == b.rel = [a \in 0 .. Cap - 1 |-> 0]

LEMMA SoundFacts ==
    ASSUME NEW n \in Nat, NEW b, Sound(b, n)
    PROVE  /\ Buffer(b, n, TRUE, TRUE) /\ OneObject(b) /\ PadZero(b.bits, Obj(b, 1)) /\ PadNull(b)
           /\ Placed(Obj(b, 1)) /\ EndOf(Obj(b, 1)) = b.len /\ Obj(b, 1).base = 24
           /\ b.len <= Cap /\ b.len \in Nat /\ EndOf(Obj(b, 1)) <= Cap
           /\ b.rel \in [0 .. Cap - 1 -> 0 .. n - 1] /\ b.bits \in Bytes(Cap)
           /\ Obj(b, 1).nelem \in Nat /\ Obj(b, 1).psize \in Nat /\ Obj(b, 1).ssize \in Nat
<1>1. Buffer(b, n, TRUE, TRUE) /\ PadNull(b)
    BY DEF Sound
<1>2. OneObject(b) /\ PadZero(b.bits, Obj(b, 1)) /\ Memory(b, n)
    BY <1>1, Zenon DEF Buffer
<1>3. /\ Placed(Obj(b, 1)) /\ EndOf(Obj(b, 1)) = b.len /\ Obj(b, 1).base = 24
    BY <1>2, CapFacts DEF OneObject
<1>4. /\ b.len <= Cap /\ b.len \in Nat
      /\ b.rel \in [0 .. Cap - 1 -> 0 .. n - 1] /\ b.bits \in Bytes(Cap)
    BY <1>2, Zenon DEF Memory
<1>5. Obj(b, 1).nelem \in Nat /\ Obj(b, 1).psize \in Nat /\ Obj(b, 1).ssize \in Nat
    BY <1>3, Zenon DEF Placed, Shape
<1> QED
    BY <1>1, <1>2, <1>3, <1>4, <1>5, Zenon

\* Where a pointer leads
LEMMA LeadsAt ==
    ASSUME NEW n \in Nat, NEW b, b.rel \in [0 .. Cap - 1 -> 0 .. n - 1], NEW o, Placed(o), EndOf(o) <= Cap,
           NEW e \in 0 .. o.nelem - 1, NEW i \in 0 .. o.psize - 1
    PROVE  /\ Slot(o, e, i) \in 0 .. Cap - 1
           /\ Leads(b)[Slot(o, e, i)] = IF b.rel[Slot(o, e, i)] = 0 THEN 0 ELSE b.rel[Slot(o, e, i)] + 1
<1>1. /\ Slot(o, e, i) \in Nat /\ Slot(o, e, i) + 4 <= o.base + TotalSz(o)
      /\ o.base + TotalSz(o) <= EndOf(o) /\ TotalSz(o) \in Nat /\ o.base \in Nat /\ EndOf(o) \in Nat
    BY SlotFacts, SizeFacts DEF Placed
<1>2. PICK a : a = Slot(o, e, i)
    OBVIOUS
<1>3. a \in 0 .. Cap - 1
    BY <1>1, <1>2, CapFacts
<1>4. DOMAIN b.rel = 0 .. Cap - 1
    OBVIOUS
<1>5. Leads(b)[a] = IF b.rel[a] = 0 THEN 0 ELSE b.rel[a] + 1
    BY <1>3, <1>4, Zenon DEF Leads
<1> QED
    BY <1>2, <1>3, <1>5, Zenon

\* A new object: zeroes and null pointers
LEMMA NewSound ==
    ASSUME NEW n \in Nat, n > 0, NEW c, NEW s, NEW p, Shape(c, s, p), NewBuffer(c, s, p).len <= Cap
    PROVE  /\ Sound(NewBuffer(c, s, p), n) /\ Obj(NewBuffer(c, s, p), 1) = Handle(24, c, s, p)
           /\ NoPointers(NewBuffer(c, s, p))
           /\ \A a \in 24 .. EndOf(Handle(24, c, s, p)) - 1 : NewBuffer(c, s, p).bits[a] = {}
<1>1. PICK b : b = NewBuffer(c, s, p)
    OBVIOUS
<1>2. PICK o : o = Handle(24, c, s, p)
    OBVIOUS
<1>3. Buffer(b, n, TRUE, TRUE) /\ OneObject(b) /\ Obj(b, 1) = o
    BY <1>1, <1>2, NewBufferFacts, Zenon
<1>4. NewObj(Fresh, c, s, p) = o
    BY <1>2, FreshFacts DEF NewObj, HdrSz
<1>5. /\ b.len = EndOf(o) /\ b.rel = Cleared(Fresh.rel, o.base, EndOf(o), 0)
      /\ b.bits = Cleared(Fresh.bits, o.base, EndOf(o), {})
    BY <1>1, <1>4 DEF NewBuffer, CreateIn, Wire
<1>6. b.rel = [a \in 0 .. Cap - 1 |-> 0]
    BY <1>5, FreshFacts DEF Cleared
<1>7. Placed(o) /\ EndOf(o) = b.len /\ o.base = 24 /\ b.len <= Cap /\ b.len \in Nat
  <2>1. Placed(o) /\ EndOf(o) = b.len /\ o.base = 24
      BY <1>3, CapFacts DEF OneObject
  <2> QED
      BY <1>3, <2>1, Zenon DEF Buffer, Memory
<1>8. PadNull(b)
  <2>1. TotalSz(o) \in Nat
      BY <1>7, SizeFacts
  <2>2. \A a \in o.base + TotalSz(o) .. EndOf(o) - 1 : b.rel[a] = 0
      BY <1>6, <1>7, <2>1, CapFacts
  <2> QED
      BY <1>3, <2>2, Zenon DEF PadNull
<1>9. \A a \in 24 .. EndOf(o) - 1 : b.bits[a] = {}
  <2>1. Fresh.bits \in [0 .. Cap - 1 -> SUBSET (0 .. 7)]
      BY FreshFacts, Zenon DEF Bytes
  <2>2. PICK hi \in Nat : hi = EndOf(o) /\ hi <= Cap
      BY <1>7
  <2>3. b.bits = [x \in 0 .. Cap - 1 |-> IF x \in 24 .. hi - 1 THEN {} ELSE Fresh.bits[x]]
      BY <1>5, <1>7, <2>1, <2>2 DEF Cleared
  <2>4. \A a \in 24 .. hi - 1 : a \in 0 .. Cap - 1
      BY <2>2, CapFacts
  <2>5. \A a \in 24 .. hi - 1 : b.bits[a] = {}
      BY <2>3, <2>4, Zenon
  <2> QED
      BY <2>2, <2>5, Zenon
<1> QED
    BY <1>1, <1>2, <1>3, <1>6, <1>8, <1>9, Zenon DEF Sound, NoPointers

\* No pointer of a new object leads anywhere.
LEMMA NewLeads ==
    ASSUME NEW b, NoPointers(b), NEW o, Placed(o), EndOf(o) <= Cap
    PROVE  \A e \in 0 .. o.nelem - 1, i \in 0 .. o.psize - 1 : Leads(b)[Slot(o, e, i)] = 0
<1>1. PICK n \in Nat : n = 1
    OBVIOUS
<1>3. b.rel \in [0 .. Cap - 1 -> 0 .. n - 1]
    BY <1>1 DEF NoPointers
<1>2. ASSUME NEW e \in 0 .. o.nelem - 1, NEW i \in 0 .. o.psize - 1
      PROVE  Leads(b)[Slot(o, e, i)] = 0
  <2>1. /\ Slot(o, e, i) \in 0 .. Cap - 1
        /\ Leads(b)[Slot(o, e, i)] = IF b.rel[Slot(o, e, i)] = 0 THEN 0 ELSE b.rel[Slot(o, e, i)] + 1
      BY <1>3, LeadsAt, ZenonT(60)
  <2>2. b.rel[Slot(o, e, i)] = 0
      BY <2>1, Zenon DEF NoPointers
  <2> QED
      BY <2>1, <2>2, Zenon
<1> QED
    BY <1>2

\* So it is blank.
LEMMA BlankNew ==
    ASSUME NEW n \in Nat, n > 0, NEW c, NEW s, NEW p, Shape(c, s, p), NewBuffer(c, s, p).len <= Cap
    PROVE  ShownIn(NewBuffer(c, s, p)) = Msg!Blank(c, s, p)
<1>1. PICK b, o : b = NewBuffer(c, s, p) /\ o = Handle(24, c, s, p)
    OBVIOUS
<1>2. Sound(b, n) /\ Obj(b, 1) = o /\ NoPointers(b)
    BY <1>1, NewSound, Zenon
<1>3. \A a \in 24 .. EndOf(o) - 1 : b.bits[a] = {}
    BY <1>1, NewSound, Zenon
<1>4. /\ Placed(o) /\ EndOf(o) <= Cap /\ o.base = 24 /\ o.nelem \in Nat /\ o.psize \in Nat
    BY <1>2, SoundFacts, Zenon
<1>5. \A e \in 0 .. o.nelem - 1, i \in 0 .. o.psize - 1 : Leads(b)[Slot(o, e, i)] = 0
    BY <1>2, <1>4, NewLeads, ZenonT(60)
<1>6. \A a \in o.base .. o.base + TotalSz(o) - 1 : b.bits[a] = {}
  <2>1. TotalSz(o) \in Nat /\ EndOf(o) \in Nat /\ o.base + TotalSz(o) <= EndOf(o)
      BY <1>4, SizeFacts
  <2>2. \A a \in o.base .. o.base + TotalSz(o) - 1 : a \in 24 .. EndOf(o) - 1
      BY <1>4, <2>1
  <2> QED
      BY <1>3, <2>2, Zenon
<1>7. \A e \in 0 .. o.nelem - 1 : GetScalar(b, o, e) = 0
    BY <1>4, <1>6, ScalarZero
<1>8. Shown(b, o, Leads(b)) = Msg!Blank(o.nelem, o.ssize, o.psize)
    BY <1>4, <1>5, <1>7, ShownBlank, Zenon
<1>9. o.nelem = c /\ o.ssize = s /\ o.psize = p
    BY <1>1 DEF Handle
<1> QED
    BY <1>1, <1>2, <1>8, <1>9, Zenon DEF ShownIn

\* nbuf_put_str: the characters and the NUL behind them
LEMMA StrSound ==
    ASSUME NEW n \in Nat, n > 0, NEW c \in Nat, NewBuffer(c + 1, 1, 0).len <= Cap
    PROVE  LET v == PutChars(NewBuffer(c + 1, 1, 0), MetaSz + HdrSz, c)
           IN  Sound(v, n) /\ ShownIn(v) = Msg!Text(c)
<1>1. PICK m \in Nat : m = c + 1
    OBVIOUS
<1>2. Shape(m, 1, 0)
    BY <1>1 DEF Shape
<1>3. PICK b, o : b = NewBuffer(m, 1, 0) /\ o = Handle(24, m, 1, 0)
    OBVIOUS
<1>4. b.len <= Cap
    BY <1>1, <1>3, Zenon
<1>5. Sound(b, n) /\ Obj(b, 1) = o /\ NoPointers(b)
    BY <1>2, <1>3, <1>4, NewSound, ZenonT(60)
<1>6. \A a \in 24 .. EndOf(o) - 1 : b.bits[a] = {}
    BY <1>2, <1>3, <1>4, NewSound, Zenon
<1>7. /\ Placed(o) /\ EndOf(o) <= Cap /\ o.base = 24 /\ o.nelem \in Nat /\ o.psize \in Nat
      /\ b.bits \in Bytes(Cap) /\ PadNull(b)
    BY <1>5, SoundFacts, Zenon
<1>8. o.nelem = m /\ o.ssize = 1 /\ o.psize = 0
    BY <1>3 DEF Handle
<1>9. PICK v : v = PutChars(b, MetaSz + HdrSz, c)
    OBVIOUS
<1>10. v = PutChars(b, o.base, c)
    BY <1>7, <1>9, CapFacts
<1>11. v.objs = b.objs /\ v.rel = b.rel /\ v.len = b.len
    BY <1>9 DEF PutChars, WithBits, Wire
<1>12. Obj(v, 1) = o
    BY <1>5, <1>11, Zenon DEF Obj
<1>13. Sound(v, n)
  <2>1. Buffer(v, n, TRUE, TRUE)
      BY <1>1, <1>3, <1>4, <1>9, PutCharsBuffer, Zenon
  <2>2. PadNull(v)
      BY <1>5, <1>7, <1>11, <1>12, Zenon DEF PadNull
  <2> QED
      BY <2>1, <2>2, Zenon DEF Sound
<1>14. \A e \in 0 .. o.nelem - 1 : GetScalar(v, o, e) = IF e + 1 < o.nelem THEN 1 ELSE 0
  <2>1. \A a \in o.base .. EndOf(o) - 1 : b.bits[a] = {}
      BY <1>6, <1>7, Zenon
  <2>2. o.nelem = c + 1 /\ Cap \in Nat
      BY <1>1, <1>8, CapFacts, Zenon
  <2> QED
      BY <1>7, <1>8, <1>10, <2>1, <2>2, ScalarChars
<1>15. Shown(v, o, Leads(v)) = Msg!Text(c)
  <2>1. PICK g : g = Leads(v)
      OBVIOUS
  <2>2. o.nelem = c + 1 /\ o.ssize = 1 /\ o.psize = 0
      BY <1>1, <1>8, Zenon
  <2>3. Shown(v, o, g) = Msg!Text(c)
      BY <1>14, <2>2, ShownText, Zenon
  <2> QED
      BY <2>1, <2>3, Zenon
<1> QED
    BY <1>1, <1>3, <1>9, <1>12, <1>13, <1>15, Zenon DEF ShownIn

\* Writing a scalar
LEMMA ScalarSound ==
    ASSUME NEW n \in Nat, NEW b, Sound(b, n), NEW d \in 0 .. Obj(b, 1).nelem - 1,
           HasScalar(Obj(b, 1)), NEW x \in {0, 1}, NEW v, v = PutScalar(b, Obj(b, 1), d, x)
    PROVE  /\ Sound(v, n) /\ Obj(v, 1) = Obj(b, 1) /\ v.rel = b.rel
           /\ GetScalar(v, Obj(b, 1), d) = x
           /\ \A e \in 0 .. Obj(b, 1).nelem - 1 :
                e # d => GetScalar(v, Obj(b, 1), e) = GetScalar(b, Obj(b, 1), e)
           /\ ShownIn(v) = Rewritten(ShownIn(b), d, x)
<1>1. PICK o : o = Obj(b, 1)
    OBVIOUS
<1>2. /\ Buffer(b, n, TRUE, TRUE) /\ OneObject(b) /\ PadNull(b)
      /\ Placed(o) /\ EndOf(o) <= Cap /\ o.nelem \in Nat /\ o.psize \in Nat
      /\ b.bits \in Bytes(Cap)
    BY <1>1, SoundFacts, Zenon
<1>3. Buffer(v, n, TRUE, TRUE) /\ Obj(v, 1) = o
  <2>1. PICK yes : yes = TRUE
      OBVIOUS
  <2>2. Buffer(b, n, yes, yes) /\ OneObject(b)
      BY <1>2, <2>1, Zenon
  <2>3. /\ Buffer(PutScalar(b, Obj(b, 1), d, x), n, yes, yes)
        /\ Obj(PutScalar(b, Obj(b, 1), d, x), 1) = Obj(b, 1)
      BY <2>2, PutScalarBuffer
  <2> QED
      BY <1>1, <2>1, <2>3, Zenon
<1>4. d \in 0 .. o.nelem - 1 /\ HasScalar(o) /\ v = PutScalar(b, o, d, x) /\ Cap \in Nat
    BY <1>1, CapFacts, Zenon
<1>5. v.rel = b.rel
    BY <1>2, <1>4, PutScalarFacts
<1>6. /\ GetScalar(v, o, d) = x
      /\ \A e \in 0 .. o.nelem - 1 : e # d => GetScalar(v, o, e) = GetScalar(b, o, e)
    BY <1>2, <1>4, ScalarPut
<1>7. Sound(v, n)
    BY <1>1, <1>2, <1>3, <1>5, Zenon DEF Sound, PadNull
<1>8. Leads(v) = Leads(b)
    BY <1>5, Zenon DEF Leads
<1>9. Shown(v, o, Leads(b)) = Rewritten(Shown(b, o, Leads(b)), d, x)
  <2>1. PICK f : f = Leads(b)
      OBVIOUS
  <2>2. Shown(v, o, f) = Rewritten(Shown(b, o, f), d, x)
      BY <1>2, <1>4, <1>6, ShownRewritten
  <2> QED
      BY <2>1, <2>2, Zenon
<1> QED
    BY <1>1, <1>3, <1>5, <1>6, <1>7, <1>8, <1>9, Zenon DEF ShownIn

\* The first element of a list, put through the list's own handle
LEMMA FirstSound ==
    ASSUME NEW n \in Nat, n > 0, NEW s, NEW p, Shape(1, s, p), NewBuffer(1, s, p).len <= Cap,
           NEW x \in {0, 1}, NEW b, b = NewBuffer(1, s, p),
           NEW v, v = IF s > 0 THEN PutScalar(b, Obj(b, 1), 0, x) ELSE b
    PROVE  Sound(v, n) /\ ShownIn(v) = Msg!FirstOf(s, p, x)
<1>1. PICK o : o = Handle(24, 1, s, p)
    OBVIOUS
<1>2. Sound(b, n) /\ Obj(b, 1) = o /\ NoPointers(b)
  <2>1. PICK c : c = 1
      OBVIOUS
  <2>2. Shape(c, s, p) /\ NewBuffer(c, s, p).len <= Cap
      BY <2>1, Zenon
  <2>3. /\ Sound(NewBuffer(c, s, p), n) /\ Obj(NewBuffer(c, s, p), 1) = Handle(24, c, s, p)
        /\ NoPointers(NewBuffer(c, s, p))
      BY <2>2, NewSound, Zenon
  <2> QED
      BY <1>1, <2>1, <2>3, Zenon
<1>3. CASE ~ (s > 0)
  <2>1. ShownIn(b) = Msg!Blank(1, s, p)
    <3>1. PICK c : c = 1
        OBVIOUS
    <3>2. Shape(c, s, p) /\ NewBuffer(c, s, p).len <= Cap
        BY <3>1, Zenon
    <3>3. ShownIn(NewBuffer(c, s, p)) = Msg!Blank(c, s, p)
        BY <3>2, BlankNew, Zenon
    <3> QED
        BY <3>1, <3>3, Zenon
  <2> QED
      BY <1>2, <1>3, <2>1, Zenon DEF Msg!FirstOf
<1>4. CASE s > 0
  <2>1. o.nelem = 1 /\ o.ssize = s /\ o.psize = p
      BY <1>1 DEF Handle
  <2>2. 0 \in 0 .. o.nelem - 1 /\ HasScalar(o) /\ v = PutScalar(b, o, 0, x)
      BY <1>2, <1>4, <2>1 DEF HasScalar
  <2>3. Sound(v, n) /\ Obj(v, 1) = o /\ v.rel = b.rel /\ GetScalar(v, o, 0) = x
    <3>1. PICK d : d = 0
        OBVIOUS
    <3>2. d \in 0 .. Obj(b, 1).nelem - 1 /\ HasScalar(Obj(b, 1)) /\ v = PutScalar(b, Obj(b, 1), d, x)
        BY <1>2, <2>2, <3>1, Zenon
    <3>3. Sound(v, n) /\ Obj(v, 1) = Obj(b, 1) /\ v.rel = b.rel /\ GetScalar(v, Obj(b, 1), d) = x
        BY <1>2, <3>2, ScalarSound
    <3> QED
        BY <1>2, <3>1, <3>3, Zenon
  <2>4. /\ Placed(o) /\ EndOf(o) <= Cap /\ o.nelem \in Nat /\ o.psize \in Nat
      BY <2>3, SoundFacts, Zenon
  <2>5. NoPointers(v)
      BY <1>2, <2>3, Zenon DEF NoPointers
  <2>6. \A e \in 0 .. o.nelem - 1, i \in 0 .. o.psize - 1 : Leads(v)[Slot(o, e, i)] = 0
      BY <2>4, <2>5, NewLeads, Zenon
  <2>7. Shown(v, o, Leads(v)) = Msg!Holding(Msg!Blank(1, s, p), x)
    <3>1. PICK g : g = Leads(v)
        OBVIOUS
    <3>2. \A e \in 0 .. o.nelem - 1, i \in 0 .. o.psize - 1 : g[Slot(o, e, i)] = 0
        BY <2>6, <3>1, Zenon
    <3>3. Shown(v, o, g) = Msg!Holding(Msg!Blank(1, o.ssize, o.psize), x)
        BY <2>1, <2>3, <2>4, <3>2, ShownFirst
    <3> QED
        BY <2>1, <3>1, <3>3, Zenon
  <2> QED
      BY <1>4, <2>3, <2>7, Zenon DEF ShownIn, Msg!FirstOf
<1> QED
    BY <1>3, <1>4

\* Where a pointer leads once it was made to lead to object t: nowhere if that is the root
LedTo(t) == IF t = 1 THEN 0 ELSE t

\* put_ptr
LEMMA LinkSound ==
    ASSUME NEW n \in Nat, NEW b, Sound(b, n), NEW d \in 0 .. Obj(b, 1).nelem - 1,
           NEW j \in 0 .. Obj(b, 1).psize - 1, NEW t \in 1 .. n,
           NEW v, v = PutWord(b, Slot(Obj(b, 1), d, j), t - 1)
    PROVE  Sound(v, n) /\ ShownIn(v) = Relinked(ShownIn(b), d, j, LedTo(t))
<1>1. PICK o : o = Obj(b, 1)
    OBVIOUS
<1>2. /\ Buffer(b, n, TRUE, TRUE) /\ OneObject(b) /\ PadNull(b)
      /\ Placed(o) /\ EndOf(o) <= Cap /\ o.nelem \in Nat /\ o.psize \in Nat
      /\ b.rel \in [0 .. Cap - 1 -> 0 .. n - 1]
    BY <1>1, SoundFacts, Zenon
<1>3. PICK id \in 0 .. n - 1 : id = t - 1 /\ (id = 0 <=> t = 1) /\ id + 1 = t
    OBVIOUS
<1>4. PICK slot : slot = Slot(o, d, j)
    OBVIOUS
<1>5. d \in 0 .. o.nelem - 1 /\ j \in 0 .. o.psize - 1 /\ v = PutWord(b, slot, id)
    BY <1>1, <1>3, <1>4, Zenon
<1>6. Buffer(v, n, TRUE, TRUE)
    BY <1>1, <1>2, <1>4, <1>5, PutWordBuffer, Zenon
<1>7. v.objs = b.objs /\ v.bits = b.bits /\ v.rel = [b.rel EXCEPT ![slot] = id]
    BY <1>5 DEF PutWord, Wire
<1>8. Obj(v, 1) = o
    BY <1>1, <1>7, Zenon DEF Obj
<1>9. /\ slot \in Nat /\ slot + 4 <= o.base + TotalSz(o) /\ o.base \in Nat /\ TotalSz(o) \in Nat
      /\ o.base + TotalSz(o) <= EndOf(o) /\ EndOf(o) \in Nat
    BY <1>2, <1>4, <1>5, SlotFacts, SizeFacts DEF Placed
<1>10. /\ slot \in 0 .. Cap - 1 /\ v.rel \in [0 .. Cap - 1 -> 0 .. n - 1] /\ v.rel[slot] = id
       /\ \A a \in 0 .. Cap - 1 : a # slot => v.rel[a] = b.rel[a]
  <2>1. slot \in 0 .. Cap - 1
      BY <1>2, <1>9, CapFacts
  <2>2. PICK ids : ids = 0 .. n - 1
      OBVIOUS
  <2>3. PICK f \in [0 .. Cap - 1 -> ids] : f = b.rel
      BY <1>2, <2>2
  <2>4. id \in ids /\ v.rel = [f EXCEPT ![slot] = id]
      BY <1>7, <2>2, <2>3
  <2>5. /\ v.rel \in [0 .. Cap - 1 -> ids] /\ v.rel[slot] = id
        /\ \A a \in 0 .. Cap - 1 : a # slot => v.rel[a] = f[a]
      BY <2>1, <2>4
  <2> QED
      BY <2>1, <2>2, <2>3, <2>5
<1>11. PadNull(v)
  <2>1. \A a \in o.base + TotalSz(o) .. EndOf(o) - 1 : b.rel[a] = 0
      BY <1>1, <1>2, Zenon DEF PadNull
  <2>2. EndOf(o) <= Cap
      BY <1>2, Zenon
  <2>4. PICK lo \in Nat, hi \in Nat : lo = o.base + TotalSz(o) /\ hi = EndOf(o)
      BY <1>9
  <2>5. \A a \in lo .. hi - 1 : a \in 0 .. Cap - 1 /\ a # slot
      BY <1>9, <2>2, <2>4, CapFacts
  <2>3. \A a \in o.base + TotalSz(o) .. EndOf(o) - 1 : v.rel[a] = 0
      BY <1>10, <2>1, <2>4, <2>5, Zenon
  <2> QED
      BY <1>8, <2>3, Zenon DEF PadNull
<1>12. \A e \in 0 .. o.nelem - 1 : GetScalar(v, o, e) = GetScalar(b, o, e)
    BY <1>7, Zenon DEF GetScalar
<1>13. Leads(v)[Slot(o, d, j)] = LedTo(t)
  <2>1. /\ Slot(o, d, j) \in 0 .. Cap - 1
        /\ Leads(v)[Slot(o, d, j)] = IF v.rel[Slot(o, d, j)] = 0 THEN 0 ELSE v.rel[Slot(o, d, j)] + 1
      BY <1>2, <1>5, <1>10, LeadsAt, SMTT(40)
  <2> QED
      BY <1>3, <1>4, <1>10, <2>1, Zenon DEF LedTo
<1>14. ASSUME NEW e \in 0 .. o.nelem - 1, NEW i \in 0 .. o.psize - 1, e # d \/ i # j
       PROVE  Leads(v)[Slot(o, e, i)] = Leads(b)[Slot(o, e, i)]
  <2>0. v.rel \in [0 .. Cap - 1 -> 0 .. n - 1] /\ Placed(o) /\ EndOf(o) <= Cap
      BY <1>2, <1>10, Zenon
  <2>1. /\ Slot(o, e, i) \in 0 .. Cap - 1
        /\ Leads(v)[Slot(o, e, i)] = IF v.rel[Slot(o, e, i)] = 0 THEN 0 ELSE v.rel[Slot(o, e, i)] + 1
      BY <2>0, LeadsAt, SMTT(40)
  <2>2. Leads(b)[Slot(o, e, i)] = IF b.rel[Slot(o, e, i)] = 0 THEN 0 ELSE b.rel[Slot(o, e, i)] + 1
      BY <1>2, LeadsAt, SMTT(40)
  <2>3. Slot(o, e, i) # slot
      BY <1>2, <1>4, <1>5, <1>14, SlotsDiffer, Zenon
  <2>4. v.rel[Slot(o, e, i)] = b.rel[Slot(o, e, i)]
      BY <1>10, <2>1, <2>3, Zenon
  <2> QED
      BY <2>1, <2>2, <2>4, Zenon
<1>15. Shown(v, o, Leads(v)) = Relinked(Shown(b, o, Leads(b)), d, j, LedTo(t))
  <2>1. PICK f, g, to : f = Leads(b) /\ g = Leads(v) /\ to = LedTo(t)
      OBVIOUS
  <2>2. o.nelem \in Nat /\ o.psize \in Nat /\ d \in 0 .. o.nelem - 1 /\ j \in 0 .. o.psize - 1
      BY <1>2, <1>5, Zenon
  <2>3. \A e \in 0 .. o.nelem - 1, i \in 0 .. o.psize - 1 :
           e # d \/ i # j => g[Slot(o, e, i)] = f[Slot(o, e, i)]
      BY <1>14, <2>1, Zenon
  <2>4. g[Slot(o, d, j)] = to
      BY <1>13, <2>1, Zenon
  <2>5. /\ o.nelem \in Nat /\ o.psize \in Nat
        /\ \A e \in 0 .. o.nelem - 1 : GetScalar(v, o, e) = GetScalar(b, o, e)
        => Shown(v, o, g) = Relinked(Shown(b, o, f), d, j, to)
      BY <2>2, <2>3, <2>4, ShownRelinked, SMTT(40)
  <2> QED
      BY <1>12, <2>1, <2>2, <2>5, Zenon
<1> QED
    BY <1>1, <1>6, <1>8, <1>11, <1>15, Zenon DEF Sound, ShownIn

\* nbuf_resize by one element: what it does to the bytes
LEMMA GrowBytes ==
    ASSUME NEW n \in Nat, n > 0, NEW b, Sound(b, n), NEW o, o = Obj(b, 1),
           Shape(o.nelem + 1, o.ssize, o.psize), NEW q, q = Resized(o, o.nelem + 1),
           NEW g, g = ResizeIn(b, 1, o.nelem + 1), g.len <= Cap
    PROVE  /\ Sound(g, n) /\ Obj(g, 1) = q /\ Placed(q) /\ EndOf(q) <= Cap
           /\ Grows(b.bits, g.bits, o, q)
           /\ \A a \in 0 .. EndOf(o) - 1 : g.rel[a] = b.rel[a]
           /\ \A a \in o.base + TotalSz(o) .. EndOf(q) - 1 : g.rel[a] = 0
<1>1. /\ Buffer(b, n, TRUE, TRUE) /\ OneObject(b)
      /\ Placed(o) /\ EndOf(o) = b.len /\ o.base = 24 /\ b.len <= Cap /\ b.len \in Nat
    BY SoundFacts, Zenon
<1>2. /\ b.rel \in [0 .. Cap - 1 -> 0 .. n - 1] /\ b.bits \in Bytes(Cap) /\ PadNull(b)
    BY SoundFacts, Zenon
<1>3. Buffer(g, n, TRUE, TRUE) /\ OneObject(g) /\ Obj(g, 1) = q
  <2>1. PICK yes : yes = TRUE
      OBVIOUS
  <2>2. Buffer(b, n, yes, yes)
      BY <1>1, <2>1, Zenon
  <2>3. Buffer(g, n, yes, yes) /\ OneObject(g) /\ Obj(g, 1) = q
      BY <1>1, <2>2, GrowBuffer, Zenon
  <2> QED
      BY <2>1, <2>3, Zenon
<1>4. /\ g.rel = Cleared(b.rel, b.len, EndOf(q), 0) /\ g.bits = Cleared(b.bits, b.len, EndOf(q), {})
    BY DEF ResizeIn, Wire
<1>5. Placed(q) /\ EndOf(q) = g.len
    BY <1>3, Zenon DEF OneObject
<1>6. /\ EndOf(q) \in Nat /\ EndOf(q) <= Cap /\ q.base = o.base /\ q.base \in Nat
      /\ TotalSz(q) \in Nat /\ q.base + TotalSz(q) <= EndOf(q)
  <2>1. q.base = o.base /\ EndOf(q) <= Cap
      BY <1>5, ResizedFields, Zenon
  <2> QED
      BY <1>5, <2>1, SizeFacts DEF Placed
<1>7. PICK lo \in Nat, hi \in Nat : lo = b.len /\ hi = EndOf(q) /\ lo <= Cap /\ hi <= Cap /\ lo = EndOf(o)
    BY <1>1, <1>6
<1>8. \A a \in 0 .. Cap - 1 : /\ g.rel[a] = IF a \in lo .. hi - 1 THEN 0 ELSE b.rel[a]
                              /\ g.bits[a] = IF a \in lo .. hi - 1 THEN {} ELSE b.bits[a]
  <2>1. b.bits \in [0 .. Cap - 1 -> SUBSET (0 .. 7)]
      BY <1>2, Zenon DEF Bytes
  <2>2. DOMAIN b.bits = 0 .. Cap - 1 /\ DOMAIN b.rel = 0 .. Cap - 1
      BY <1>2, <2>1
  <2> QED
      BY <1>4, <1>7, <2>2, Zenon DEF Cleared
<1>9. \A a \in 0 .. lo - 1 : g.rel[a] = b.rel[a] /\ g.bits[a] = b.bits[a]
  <2>1. \A a \in 0 .. lo - 1 : a \in 0 .. Cap - 1 /\ a \notin lo .. hi - 1
      BY <1>7, CapFacts
  <2> QED
      BY <1>8, <2>1, Zenon
<1>10. \A a \in lo .. hi - 1 : g.rel[a] = 0 /\ g.bits[a] = {}
  <2>1. \A a \in lo .. hi - 1 : a \in 0 .. Cap - 1
      BY <1>7, CapFacts
  <2> QED
      BY <1>8, <2>1, Zenon
<1>11. PICK at \in Nat, c \in Nat : /\ at = o.base /\ c = TotalSz(o) /\ at + c <= lo
  <2>1. TotalSz(o) \in Nat /\ o.base + TotalSz(o) <= EndOf(o) /\ o.base \in Nat
      BY <1>1, SizeFacts DEF Placed
  <2> QED
      BY <1>7, <2>1, Zenon
<1>12. Grows(b.bits, g.bits, o, q)
  <2>1. \A a \in at .. lo - 1 : a \in 0 .. lo - 1
      OBVIOUS
  <2> QED
      BY <1>7, <1>9, <1>10, <1>11, <2>1, Zenon DEF Grows
<1>13. \A a \in at + c .. hi - 1 : g.rel[a] = 0
  <2> TAKE a \in at + c .. hi - 1
  <2>1. a \in at + c .. lo - 1 \/ a \in lo .. hi - 1
      BY <1>11
  <2>2. CASE a \in at + c .. lo - 1
    <3>1. b.rel[a] = 0
        BY <1>2, <1>7, <1>11, <2>2, Zenon DEF PadNull
    <3>2. a \in 0 .. lo - 1
        BY <2>2
    <3> QED
        BY <1>9, <3>1, <3>2, Zenon
  <2> QED
      BY <1>10, <2>1, <2>2, Zenon
<1>14. PadNull(g)
  <2>1. TotalSz(o) <= TotalSz(q)
    <3>1. /\ q.nelem = o.nelem + 1 /\ ElemSz(q) = ElemSz(o)
      <4>1. PICK m : m = o.nelem + 1
          OBVIOUS
      <4> QED
          BY <4>1, ResizedFields, ZenonT(60)
    <3>2. /\ ElemSz(o) \in Nat
          /\ ElemSz(o) # 0 => TotalSz(o) = ElemSz(o) * o.nelem
          /\ ElemSz(o) = 0 => TotalSz(o) = (o.nelem + 7) \div 8
        BY <1>1, SizeFacts
    <3>3. /\ ElemSz(q) # 0 => TotalSz(q) = ElemSz(q) * q.nelem
          /\ ElemSz(q) = 0 => TotalSz(q) = (q.nelem + 7) \div 8
        BY <1>5, SizeFacts
    <3>4. o.nelem \in Nat
        BY <1>1, Zenon DEF Placed, Shape
    <3>5. PICK m \in Nat, z \in Nat : m = o.nelem /\ z = ElemSz(o)
        BY <3>2, <3>4
    <3>6. z * (m + 1) = z * m + z /\ z * m \in Nat /\ (m + 7) \div 8 <= (m + 1 + 7) \div 8
        OBVIOUS
    <3>7. CASE z = 0
        BY <3>1, <3>2, <3>3, <3>5, <3>6, <3>7
    <3>8. CASE z # 0
      <4>1. TotalSz(o) = z * m /\ TotalSz(q) = z * (m + 1)
          BY <3>1, <3>2, <3>3, <3>5, <3>8, Zenon
      <4> QED
          BY <3>6, <4>1
    <3> QED
        BY <3>7, <3>8
  <2>2. \A a \in q.base + TotalSz(q) .. hi - 1 : a \in at + c .. hi - 1
      BY <1>6, <1>11, <2>1
  <2> QED
      BY <1>3, <1>7, <1>13, <2>2, Zenon DEF PadNull
<1>15. Sound(g, n)
    BY <1>3, <1>14, Zenon DEF Sound
<1>16. EndOf(q) <= Cap
    BY <1>6, Zenon
<1> QED
    BY <1>3, <1>5, <1>7, <1>9, <1>11, <1>12, <1>13, <1>15, <1>16, Zenon

\* nbuf_resize and the put of the new element's value
LEMMA LongerSound ==
    ASSUME NEW n \in Nat, n > 0, NEW b, Sound(b, n), NEW o, o = Obj(b, 1),
           Shape(o.nelem + 1, o.ssize, o.psize),
           NEW g, g = ResizeIn(b, 1, o.nelem + 1), g.len <= Cap, NEW x \in {0, 1},
           NEW v, v = IF HasScalar(o) THEN PutScalar(g, Obj(g, 1), o.nelem, x) ELSE g
    PROVE  Sound(v, n) /\ ShownIn(v) = Msg!Longer(ShownIn(b), x)
<1>1. PICK m \in Nat : m = o.nelem
    BY SoundFacts, Zenon
<1>2. PICK q : q = Resized(o, o.nelem + 1)
    OBVIOUS
<1>3. /\ Sound(g, n) /\ Obj(g, 1) = q /\ Placed(q) /\ EndOf(q) <= Cap
      /\ Grows(b.bits, g.bits, o, q)
    BY <1>2, GrowBytes
<1>4. /\ \A a \in 0 .. EndOf(o) - 1 : g.rel[a] = b.rel[a]
      /\ \A a \in o.base + TotalSz(o) .. EndOf(q) - 1 : g.rel[a] = 0
    BY <1>2, GrowBytes
<1>5. /\ Placed(o) /\ PadZero(b.bits, o) /\ o.psize \in Nat /\ o.ssize \in Nat /\ EndOf(o) <= Cap
      /\ b.rel \in [0 .. Cap - 1 -> 0 .. n - 1]
    BY SoundFacts, Zenon
<1>6. q.base = o.base /\ q.nelem = m + 1 /\ q.ssize = o.ssize /\ q.psize = o.psize /\ ElemSz(q) = ElemSz(o)
  <2>1. PICK c : c = m + 1
      OBVIOUS
  <2>2. q = Resized(o, c)
      BY <1>1, <1>2, <2>1, Zenon
  <2> QED
      BY <2>1, <2>2, ResizedFields, ZenonT(60)
<1>7. /\ \A e \in 0 .. m - 1 : GetScalar(g, q, e) = GetScalar(b, o, e)
      /\ GetScalar(g, q, m) = 0
      /\ \A e \in 0 .. m - 1, i \in 0 .. o.psize - 1 : Slot(q, e, i) = Slot(o, e, i)
  <2>1. /\ \A e \in 0 .. o.nelem - 1 : GetScalar(g, q, e) = GetScalar(b, o, e)
        /\ GetScalar(g, q, o.nelem) = 0
        /\ \A e \in 0 .. o.nelem - 1, i \in 0 .. o.psize - 1 : Slot(q, e, i) = Slot(o, e, i)
      BY <1>2, <1>3, <1>5, ScalarGrown
  <2> QED
      BY <1>1, <2>1, Zenon
<1>8. /\ Sound(v, n) /\ Obj(v, 1) = q /\ v.rel = g.rel
      /\ \A e \in 0 .. m - 1 : GetScalar(v, q, e) = GetScalar(b, o, e)
      /\ GetScalar(v, q, m) = IF HasScalar(o) THEN x ELSE 0
  <2>1. CASE ~ HasScalar(o)
      BY <1>3, <1>7, <2>1
  <2>2. CASE HasScalar(o)
    <3>1. HasScalar(q)
        BY <1>6, <2>2, Zenon DEF HasScalar
    <3>2. m \in 0 .. q.nelem - 1 /\ \A e \in 0 .. m - 1 : e \in 0 .. q.nelem - 1 /\ e # m
        BY <1>6
    <3>3. v = PutScalar(g, q, m, x)
        BY <1>1, <1>3, <2>2, Zenon
    <3>4. /\ Sound(v, n) /\ Obj(v, 1) = q /\ v.rel = g.rel /\ GetScalar(v, q, m) = x
          /\ \A e \in 0 .. q.nelem - 1 : e # m => GetScalar(v, q, e) = GetScalar(g, q, e)
      <4>1. Sound(g, n) /\ m \in 0 .. Obj(g, 1).nelem - 1 /\ HasScalar(Obj(g, 1))
            /\ v = PutScalar(g, Obj(g, 1), m, x)
          BY <1>3, <3>1, <3>2, <3>3, Zenon
      <4>2. /\ Sound(v, n) /\ Obj(v, 1) = Obj(g, 1) /\ v.rel = g.rel
            /\ GetScalar(v, Obj(g, 1), m) = x
            /\ \A e \in 0 .. Obj(g, 1).nelem - 1 :
                 e # m => GetScalar(v, Obj(g, 1), e) = GetScalar(g, Obj(g, 1), e)
          BY <4>1, ScalarSound, Z3T(60)
      <4> QED
          BY <1>3, <4>2, Zenon
    <3>5. \A e \in 0 .. m - 1 : GetScalar(v, q, e) = GetScalar(b, o, e)
        BY <1>7, <3>2, <3>4
    <3> QED
        BY <2>2, <3>4, <3>5, Zenon
  <2> QED
      BY <2>1, <2>2
<1>20. /\ Placed(o) /\ EndOf(o) \in Nat /\ TotalSz(o) \in Nat /\ o.base \in Nat
       /\ o.base + TotalSz(o) <= EndOf(o) /\ o.base + TotalSz(o) \in Nat
       /\ ElemSz(o) \in Nat /\ ElemSz(o) = o.ssize + 4 * o.psize
       /\ ElemSz(o) # 0 => TotalSz(o) = ElemSz(o) * m
  <2>1. Placed(o)
      BY <1>5, Zenon
  <2>2. o.base \in Nat
      BY <2>1, Zenon DEF Placed
  <2> QED
      BY <1>1, <2>1, <2>2, SizeFacts
<1>9. GetScalar(v, q, m) = IF o.ssize > 0 \/ o.psize = 0 THEN x ELSE 0
    BY <1>8, Zenon DEF HasScalar
<1>10. v.rel \in [0 .. Cap - 1 -> 0 .. n - 1]
    BY <1>8, SoundFacts, Zenon
<1>11. ASSUME NEW e \in 0 .. m - 1, NEW i \in 0 .. o.psize - 1
       PROVE  Leads(v)[Slot(q, e, i)] = Leads(b)[Slot(o, e, i)]
  <2>1. PICK s : s = Slot(o, e, i)
      OBVIOUS
  <2>2. e \in 0 .. o.nelem - 1
      BY <1>1
  <2>3. s \in Nat /\ s < EndOf(o) /\ EndOf(o) \in Nat
      BY <1>20, <2>1, <2>2, SlotFacts
  <2>4. v.rel[s] = b.rel[s]
      BY <1>4, <1>8, <2>3
  <2>5. s \in 0 .. Cap - 1
      BY <1>5, <2>3, CapFacts
  <2>6. DOMAIN v.rel = 0 .. Cap - 1 /\ DOMAIN b.rel = 0 .. Cap - 1
      BY <1>5, <1>10
  <2>7. Leads(v)[s] = Leads(b)[s]
      BY <2>4, <2>5, <2>6, Zenon DEF Leads
  <2> QED
      BY <1>7, <2>1, <2>7, Zenon
<1>12. ASSUME NEW i \in 0 .. o.psize - 1
       PROVE  Leads(v)[Slot(q, m, i)] = 0
  <2>1. m \in 0 .. q.nelem - 1 /\ i \in 0 .. q.psize - 1
      BY <1>6
  <2>2. PICK s : s = Slot(q, m, i)
      OBVIOUS
  <2>3. s \in Nat /\ s < EndOf(q) /\ EndOf(q) \in Nat
      BY <1>3, <2>1, <2>2, SlotFacts, SizeFacts DEF Placed
  <2>4. o.base + TotalSz(o) <= s
    <3>7. o.psize > 0 /\ o.psize \in Nat /\ o.ssize \in Nat
        BY <1>5, <1>20
    <3>1. ElemSz(q) # 0 /\ ElemSz(o) = o.ssize + 4 * o.psize /\ TotalSz(o) = ElemSz(o) * m
        BY <1>6, <1>20, <3>7
    <3>2. GetElem(q, m).base = q.base + m * ElemSz(q)
        BY <1>3, <2>1, <3>1, ElemFacts
    <3>3. s = GetElem(q, m).base + (q.ssize + i * 4)
        BY <2>2 DEF Slot, PtrOffs, WordSz
    <3>4. PICK z \in Nat : z = ElemSz(o)
        BY <1>20
    <3>5. m * z = z * m /\ z * m \in Nat
        OBVIOUS
    <3>6. o.base \in Nat
        BY <1>5, Zenon DEF Placed
    <3> QED
        BY <1>6, <3>1, <3>2, <3>3, <3>4, <3>5, <3>6, <3>7
  <2>5. o.base + TotalSz(o) \in Nat
      BY <1>20, Zenon
  <2>6. v.rel[s] = 0
      BY <1>4, <1>8, <2>3, <2>4, <2>5
  <2>7. s \in 0 .. Cap - 1 /\ DOMAIN v.rel = 0 .. Cap - 1
      BY <1>3, <1>10, <2>3, CapFacts
  <2>8. Leads(v)[s] = 0
      BY <2>6, <2>7, Zenon DEF Leads
  <2> QED
      BY <2>2, <2>8, Zenon
<1>13. Shown(v, q, Leads(v)) = Msg!Longer(Shown(b, o, Leads(b)), x)
  <2>0. PICK f, h : f = Leads(b) /\ h = Leads(v)
      OBVIOUS
  <2>1. o.nelem \in Nat /\ o.psize \in Nat /\ q.nelem = o.nelem + 1 /\ q.ssize = o.ssize /\ q.psize = o.psize
      BY <1>1, <1>5, <1>6, Zenon
  <2>2. \A e \in 0 .. o.nelem - 1 : GetScalar(v, q, e) = GetScalar(b, o, e)
      BY <1>1, <1>8, Zenon
  <2>3. GetScalar(v, q, o.nelem) = IF o.ssize > 0 \/ o.psize = 0 THEN x ELSE 0
      BY <1>1, <1>9, Zenon
  <2>4. \A e \in 0 .. o.nelem - 1, i \in 0 .. o.psize - 1 : h[Slot(q, e, i)] = f[Slot(o, e, i)]
      BY <1>1, <1>11, <2>0, ZenonT(40)
  <2>5. \A i \in 0 .. o.psize - 1 : h[Slot(q, o.nelem, i)] = 0
      BY <1>1, <1>12, <2>0, Zenon
  <2>6. Shown(v, q, h) = Msg!Longer(Shown(b, o, f), x)
      BY <2>1, <2>2, <2>3, <2>4, <2>5, ShownLonger
  <2> QED
      BY <2>0, <2>6, Zenon
<1> QED
    BY <1>8, <1>13, Zenon DEF ShownIn

-----------------------------------------------------------------------------
(* The pool as a message *)

PoolShown(bufs) == [k \in DOMAIN bufs |-> ShownIn(bufs[k])]

\* A pool that saw no fault
Clean(bufs) == IsSeq(bufs) /\ \A k \in 1 .. Len(bufs) : Sound(bufs[k], Len(bufs))

LEMMA ShownPool ==
    ASSUME NEW bufs, IsSeq(bufs)
    PROVE  /\ Len(bufs) \in Nat /\ Len(PoolShown(bufs)) = Len(bufs)
           /\ DOMAIN PoolShown(bufs) = 1 .. Len(bufs)
           /\ \A k \in 1 .. Len(bufs) : PoolShown(bufs)[k] = ShownIn(bufs[k])
<1>1. Len(bufs) \in Nat /\ DOMAIN bufs = 1 .. Len(bufs)
    BY SeqAppend, Zenon
<1>2. PICK n \in Nat : n = Len(bufs)
    BY <1>1
<1>3. PoolShown(bufs) = [k \in 1 .. n |-> ShownIn(bufs[k])]
    BY <1>1, <1>2, Zenon DEF PoolShown
<1>4. PICK S : S = {ShownIn(bufs[k]) : k \in 1 .. n}
    OBVIOUS
<1>5. \A k \in 1 .. n : ShownIn(bufs[k]) \in S
    BY <1>4
<1>6. PoolShown(bufs) \in [1 .. n -> S]
    BY <1>3, <1>5, Zenon
<1>7. Len(PoolShown(bufs)) = n
    BY <1>6
<1> QED
    BY <1>1, <1>2, <1>3, <1>7, Zenon

LEMMA SoundMore ==
    ASSUME NEW n \in Nat, NEW b, Sound(b, n)
    PROVE  Sound(b, n + 1)
<1>1. PICK yes : yes = TRUE
    OBVIOUS
<1>2. Buffer(b, n, yes, yes) /\ PadNull(b)
    BY <1>1, Zenon DEF Sound
<1>3. Buffer(b, n + 1, yes, yes)
    BY <1>2, BufferMore, Zenon
<1> QED
    BY <1>1, <1>2, <1>3, Zenon DEF Sound

LEMMA CleanAppend ==
    ASSUME NEW bufs, Clean(bufs), NEW b, Sound(b, Len(bufs) + 1)
    PROVE  /\ Clean(Append(bufs, b)) /\ Len(Append(bufs, b)) = Len(bufs) + 1
           /\ PoolShown(Append(bufs, b)) = Append(PoolShown(bufs), ShownIn(b))
<1>1. PICK new : new = Append(bufs, b)
    OBVIOUS
<1>2. IsSeq(bufs)
    BY DEF Clean
<1>3. PICK n \in Nat : n = Len(bufs)
    BY <1>2, SeqAppend, Zenon
<1>4. /\ IsSeq(new) /\ Len(new) = n + 1 /\ new[n + 1] = b
      /\ \A k \in 1 .. n : new[k] = bufs[k]
    BY <1>1, <1>2, <1>3, SeqAppend, ZenonT(60)
<1>5. ASSUME NEW k \in 1 .. n + 1
      PROVE  Sound(new[k], n + 1)
  <2>1. k = n + 1 \/ k \in 1 .. n
      OBVIOUS
  <2>2. CASE k \in 1 .. n
    <3>1. Sound(bufs[k], n)
        BY <1>3, <2>2, Zenon DEF Clean
    <3>2. Sound(bufs[k], n + 1)
        BY <3>1, SoundMore, Zenon
    <3> QED
        BY <1>4, <2>2, <3>2, Zenon
  <2> QED
      BY <1>3, <1>4, <2>1, <2>2, Zenon
<1>6. Clean(new)
    BY <1>4, <1>5, Zenon DEF Clean
<1>7. PICK os, ns : os = PoolShown(bufs) /\ ns = PoolShown(new)
    OBVIOUS
<1>8. os = [k \in 1 .. n |-> ShownIn(bufs[k])] /\ ns = [k \in 1 .. n + 1 |-> ShownIn(new[k])]
  <2>1. DOMAIN bufs = 1 .. n /\ DOMAIN new = 1 .. n + 1
      BY <1>2, <1>3, <1>4, SeqAppend, Zenon
  <2> QED
      BY <1>7, <2>1, Zenon DEF PoolShown
<1>9. PICK S : S = {ShownIn(new[k]) : k \in 1 .. n + 1}
    OBVIOUS
<1>10. n + 1 \in 1 .. n + 1 /\ \A k \in 1 .. n : k \in 1 .. n + 1
    OBVIOUS
<1>11. \A k \in 1 .. n + 1 : ShownIn(new[k]) \in S
    BY <1>9
<1>12. ns \in [1 .. n + 1 -> S] /\ os \in [1 .. n -> S]
    BY <1>4, <1>8, <1>10, <1>11, Zenon
<1>13. ShownIn(b) \in S /\ ns[n + 1] = ShownIn(b) /\ \A k \in 1 .. n : ns[k] = os[k]
    BY <1>4, <1>8, <1>10, <1>11, Zenon
<1>14. ns = Append(os, ShownIn(b))
  <2>1. PICK x \in S : x = ShownIn(b)
      BY <1>13
  <2>2. ns = Append(os, x)
      BY <1>12, <1>13, <2>1, AppendIs
  <2> QED
      BY <2>1, <2>2, Zenon
<1> QED
    BY <1>1, <1>3, <1>4, <1>6, <1>7, <1>14, Zenon

\* One buffer of the pool is another one.
Replaced(bufs, k, v) == [bufs EXCEPT ![k] = v]

CleanWith(bufs, k, v, new) ==
    /\ Clean(new) /\ Len(new) = Len(bufs) /\ new[k] = v
    /\ \A j \in 1 .. Len(bufs) : j # k => new[j] = bufs[j]

LEMMA CleanReplace ==
    ASSUME NEW bufs, Clean(bufs), NEW k \in 1 .. Len(bufs), NEW v, Sound(v, Len(bufs))
    PROVE  CleanWith(bufs, k, v, Replaced(bufs, k, v))
<1> DEFINE new == Replaced(bufs, k, v)
<1>1. PICK S : bufs \in Seq(S)
    BY DEF Clean, IsSeq
<1>2. PICK T : T = S \cup {v}
    OBVIOUS
<1>3. bufs \in Seq(T) /\ v \in T
    BY <1>1, <1>2
<1>4. /\ new \in Seq(T) /\ Len(new) = Len(bufs) /\ new[k] = v
      /\ \A j \in 1 .. Len(bufs) : j # k => new[j] = bufs[j]
    BY <1>3 DEF Replaced
<1>5. \A j \in 1 .. Len(new) : Sound(new[j], Len(new))
    BY <1>4, Zenon DEF Clean
<1> QED
    BY <1>4, <1>5, Zenon DEF Clean, IsSeq, CleanWith

LEMMA CleanChange ==
    ASSUME NEW bufs, Clean(bufs), NEW k \in 1 .. Len(bufs), NEW v, Sound(v, Len(bufs)),
           NEW x, ShownIn(v) = x
    PROVE  /\ Clean(Replaced(bufs, k, v)) /\ Len(Replaced(bufs, k, v)) = Len(bufs)
           /\ PoolShown(Replaced(bufs, k, v)) = [PoolShown(bufs) EXCEPT ![k] = x]
<1>1. PICK n : n = Len(bufs)
    OBVIOUS
<1>2. PICK new : new = Replaced(bufs, k, v)
    OBVIOUS
<1>3. /\ Clean(new) /\ Len(new) = n /\ new[k] = v
      /\ \A j \in 1 .. n : j # k => new[j] = bufs[j]
  <2>1. CleanWith(bufs, k, v, Replaced(bufs, k, v))
      BY CleanReplace, Zenon
  <2> QED
      BY <1>1, <1>2, <2>1, Zenon DEF CleanWith
<1>4. IsSeq(bufs) /\ IsSeq(new)
    BY <1>3, Zenon DEF Clean
<1>5. PICK os, ns : os = PoolShown(bufs) /\ ns = PoolShown(new)
    OBVIOUS
<1>6. os = [j \in 1 .. n |-> ShownIn(bufs[j])] /\ ns = [j \in 1 .. n |-> ShownIn(new[j])]
  <2>1. DOMAIN bufs = 1 .. n /\ DOMAIN new = 1 .. n
      BY <1>1, <1>3, <1>4, SeqAppend, Zenon
  <2> QED
      BY <1>5, <2>1, Zenon DEF PoolShown
<1>7. k \in 1 .. n
    BY <1>1
<1>8. ns = [os EXCEPT ![k] = x]
    BY <1>3, <1>6, <1>7
<1> QED
    BY <1>1, <1>2, <1>3, <1>5, <1>8, Zenon

\* The effects of MsgGraph on one object
LEMMA LinkIs ==
    ASSUME NEW os, NEW k, NEW e, NEW i, NEW x
    PROVE  Msg!WithLink(os, k, e, i, x) = [os EXCEPT ![k] = Relinked(os[k], e, i, x)]
  BY DEF Msg!WithLink, Relinked

LEMMA ValueIs ==
    ASSUME NEW os, NEW k, NEW e, NEW x
    PROVE  Msg!WithValue(os, k, e, x) = [os EXCEPT ![k] = Rewritten(os[k], e, x)]
  BY DEF Msg!WithValue, Rewritten

\* A link changes the pointer that it names.
LEMMA CleanLink ==
    ASSUME NEW bufs, Clean(bufs), NEW k \in 1 .. Len(bufs),
           NEW d \in 0 .. Obj(bufs[k], 1).nelem - 1, NEW j \in 0 .. Obj(bufs[k], 1).psize - 1,
           NEW t \in 1 .. Len(bufs)
    PROVE  /\ Clean(PutPtr(bufs, k, d, j, t)) /\ Len(PutPtr(bufs, k, d, j, t)) = Len(bufs)
           /\ PoolShown(PutPtr(bufs, k, d, j, t)) = Msg!WithLink(PoolShown(bufs), k, d, j, LedTo(t))
<1>1. PICK b : b = bufs[k]
    OBVIOUS
<1>2. PICK n \in Nat : n = Len(bufs)
    BY SeqAppend, Zenon DEF Clean
<1>3. Sound(b, n)
    BY <1>1, <1>2, Zenon DEF Clean
<1>4. TheObj(b) = Obj(b, 1)
  <2>1. OneObject(b)
      BY <1>3, SoundFacts, Zenon
  <2> QED
      BY <2>1, HasObject, Zenon DEF TheObj
<1>5. PICK v : v = PutWord(b, Slot(Obj(b, 1), d, j), t - 1)
    OBVIOUS
<1>6. /\ d \in 0 .. Obj(b, 1).nelem - 1 /\ j \in 0 .. Obj(b, 1).psize - 1 /\ t \in 1 .. n
    BY <1>1, <1>2, Zenon
<1>7. Sound(v, n) /\ ShownIn(v) = Relinked(ShownIn(b), d, j, LedTo(t))
    BY <1>3, <1>5, <1>6, LinkSound
<1>8. PutPtr(bufs, k, d, j, t) = Replaced(bufs, k, v)
    BY <1>1, <1>4, <1>5, Zenon DEF PutPtr, Replaced
<1>9. PICK os : os = PoolShown(bufs)
    OBVIOUS
<1>10. os[k] = ShownIn(b)
    BY <1>1, <1>9, ShownPool, Zenon DEF Clean
<1>11. PICK x : x = Relinked(os[k], d, j, LedTo(t))
    OBVIOUS
<1>12. ShownIn(v) = x
    BY <1>7, <1>10, <1>11, Zenon
<1>13. /\ Clean(Replaced(bufs, k, v)) /\ Len(Replaced(bufs, k, v)) = Len(bufs)
       /\ PoolShown(Replaced(bufs, k, v)) = [os EXCEPT ![k] = x]
  <2>1. Sound(v, Len(bufs))
      BY <1>2, <1>7, Zenon
  <2> QED
      BY <1>9, <1>12, <2>1, CleanChange
<1>14. Msg!WithLink(os, k, d, j, LedTo(t)) = [os EXCEPT ![k] = x]
    BY <1>11, LinkIs
<1> QED
    BY <1>8, <1>9, <1>13, <1>14, Zenon

\* Creation of an object and the link to it
LEMMA CleanAppendLink ==
    ASSUME NEW bufs, Clean(bufs), NEW k \in 1 .. Len(bufs),
           NEW d \in 0 .. Obj(bufs[k], 1).nelem - 1, NEW j \in 0 .. Obj(bufs[k], 1).psize - 1,
           NEW b, Sound(b, Len(bufs) + 1), NEW x, ShownIn(b) = x
    PROVE  /\ Clean(PutPtr(Append(bufs, b), k, d, j, Len(bufs) + 1))
           /\ PoolShown(PutPtr(Append(bufs, b), k, d, j, Len(bufs) + 1))
                = Msg!WithLink(Append(PoolShown(bufs), x), k, d, j, Len(PoolShown(bufs)) + 1)
<1>1. PICK mid : mid = Append(bufs, b)
    OBVIOUS
<1>2. IsSeq(bufs)
    BY DEF Clean
<1>3. PICK n \in Nat : n = Len(bufs) /\ n = Len(PoolShown(bufs))
    BY <1>2, SeqAppend, ShownPool, Zenon
<1>4. Clean(mid) /\ Len(mid) = n + 1 /\ PoolShown(mid) = Append(PoolShown(bufs), x)
    BY <1>1, <1>3, CleanAppend, Zenon
<1>5. \A i \in 1 .. n : mid[i] = bufs[i]
  <2>1. \A i \in 1 .. Len(bufs) : Append(bufs, b)[i] = bufs[i]
      BY <1>2, SeqAppend, ZenonT(60)
  <2> QED
      BY <1>1, <1>3, <2>1, Zenon
<1>6. PICK t \in Nat : t = n + 1
    OBVIOUS
<1>7. k \in 1 .. n /\ k \in 1 .. t /\ t \in 1 .. t /\ t # 1
    BY <1>3, <1>6
<1>8. /\ k \in 1 .. Len(mid) /\ t \in 1 .. Len(mid)
      /\ d \in 0 .. Obj(mid[k], 1).nelem - 1 /\ j \in 0 .. Obj(mid[k], 1).psize - 1
    BY <1>4, <1>5, <1>6, <1>7, Zenon
<1>9. /\ Clean(PutPtr(mid, k, d, j, t))
      /\ PoolShown(PutPtr(mid, k, d, j, t)) = Msg!WithLink(PoolShown(mid), k, d, j, LedTo(t))
    BY <1>4, <1>8, CleanLink, Zenon
<1>10. LedTo(t) = t
    BY <1>7, Zenon DEF LedTo
<1> QED
    BY <1>1, <1>3, <1>4, <1>6, <1>9, <1>10, Zenon

-----------------------------------------------------------------------------
(* The pool is the message that the calls describe *)

\* The bytes that a resize makes elements of hold no pointers, as long as no
\* list was made shorter.
NullInv == faults = {} => \A k \in Objects : PadNull(pool[k])

LEMMA CleanPool ==
    ASSUME Inv, NullInv, faults = {}
    PROVE  Clean(pool) /\ Objects = 1 .. Len(pool) /\ PoolObjects = PoolShown(pool)
<1>1. Pool(pool, TRUE, TRUE)
  <2>1. "shortened" \notin faults /\ "header" \notin faults
      OBVIOUS
  <2> QED
      BY <2>1, Zenon DEF Inv
<1>2. Objects = 1 .. Len(pool)
    BY InvFacts, Zenon
<1>3. Clean(pool)
    BY <1>1, <1>2, Zenon DEF Pool, Clean, Sound, NullInv
<1>4. \A k \in 1 .. Len(pool) : TheObj(pool[k]) = Obj(pool[k], 1)
    BY <1>1, PoolPlaces, Zenon
<1>5. PoolObjects = PoolShown(pool)
    BY <1>2, <1>4, Zenon DEF PoolObjects, PoolShown, ShownIn, Leads, Objects
<1> QED
    BY <1>2, <1>3, <1>5

\* A step that leaves a clean pool
LEMMA Shows ==
    ASSUME Clean(pool')
    PROVE  NullInv' /\ PoolObjects' = PoolShown(pool')
<1>1. (Objects)' = 1 .. Len(pool') /\ Len(pool') \in Nat
    BY SeqAppend, Zenon DEF Clean, Objects
<1>3. \A k \in 1 .. Len(pool') : OneObject(pool'[k]) /\ PadNull(pool'[k])
    BY <1>1, SoundFacts, Zenon DEF Clean
<1>4. \A k \in 1 .. Len(pool') : TheObj(pool'[k]) = Obj(pool'[k], 1)
    BY <1>3, HasObject, Zenon DEF TheObj
<1>5. NullInv'
    BY <1>1, <1>3, Zenon DEF NullInv
<1>6. PoolObjects' = PoolShown(pool')
    BY <1>1, <1>4, Zenon DEF PoolObjects, PoolShown, ShownIn, Leads, Objects
<1> QED
    BY <1>5, <1>6

\* The handle of an object of a clean pool
LEMMA CleanElement ==
    ASSUME Inv, Clean(pool), NEW k \in Objects
    PROVE  /\ k \in 1 .. Len(pool) /\ Len(pool) \in Nat /\ TheObj(pool[k]) = Obj(pool[k], 1)
           /\ Elements(k) = 0 .. Obj(pool[k], 1).nelem - 1
           /\ Pointers(k) = 0 .. Obj(pool[k], 1).psize - 1
           /\ Sound(pool[k], Len(pool)) /\ OneObject(pool[k])
<1>1. k \in 1 .. Len(pool) /\ Len(pool) \in Nat
    BY InvFacts, Zenon
<1>2. Sound(pool[k], Len(pool))
    BY <1>1, Zenon DEF Clean
<1>3. OneObject(pool[k])
    BY <1>1, <1>2, SoundFacts, Zenon
<1>4. TheObj(pool[k]) = Obj(pool[k], 1)
    BY <1>3, HasObject, Zenon DEF TheObj
<1> QED
    BY <1>1, <1>2, <1>3, <1>4, Zenon DEF Elements, Pointers

\* What a call without a fault makes of the message
LEMMA CreateReads ==
    ASSUME Inv, Clean(pool), NEW m \in client.makes, Create(m)
    PROVE  /\ Clean(pool')
           /\ PoolShown(pool') = Append(PoolShown(pool), Msg!Blank(m.nelem, m.ssize, m.psize))
<1>1. PICK b : b = NewBuffer(m.nelem, m.ssize, m.psize)
    OBVIOUS
<1>2. PICK n \in Nat : n = Len(pool) + 1 /\ n > 0
    BY InvFacts
<1>3. NewBuffer(m.nelem, m.ssize, m.psize).len <= Cap /\ pool' = Append(pool, b)
    BY <1>1 DEF Create, Fits
<1>4. Shape(m.nelem, m.ssize, m.psize)
    BY InvFacts, Zenon
<1>5. Sound(b, n) /\ ShownIn(b) = Msg!Blank(m.nelem, m.ssize, m.psize)
    BY <1>1, <1>2, <1>3, <1>4, NewSound, BlankNew, Zenon
<1>6. Sound(b, Len(pool) + 1)
    BY <1>2, <1>5, Zenon
<1> QED
    BY <1>3, <1>5, <1>6, CleanAppend, Zenon

\* Creation of an object that becomes the target of a pointer
LEMMA MadeReads ==
    ASSUME Inv, Clean(pool), NEW k \in Objects, NEW e \in Elements(k), NEW i \in Pointers(k),
           NEW b, Sound(b, Len(pool) + 1), NEW x, ShownIn(b) = x,
           pool' = PutPtr(Append(pool, b), k, e, i, Len(pool) + 1)
    PROVE  /\ Clean(pool')
           /\ PoolShown(pool')
                = Msg!WithLink(Append(PoolShown(pool), x), k, e, i, Len(PoolShown(pool)) + 1)
<1>1. /\ k \in 1 .. Len(pool)
      /\ e \in 0 .. Obj(pool[k], 1).nelem - 1 /\ i \in 0 .. Obj(pool[k], 1).psize - 1
    BY CleanElement, Zenon
<1>2. PICK new : new = PutPtr(Append(pool, b), k, e, i, Len(pool) + 1)
    OBVIOUS
<1>3. /\ Clean(new)
      /\ PoolShown(new)
           = Msg!WithLink(Append(PoolShown(pool), x), k, e, i, Len(PoolShown(pool)) + 1)
    BY <1>1, <1>2, CleanAppendLink
<1> QED
    BY <1>2, <1>3, Zenon

LEMMA InitFieldReads ==
    ASSUME Inv, Clean(pool), NEW k \in Objects, NEW e \in Elements(k), NEW i \in Pointers(k),
           NEW m \in client.makes, InitField(k, e, i, m)
    PROVE  /\ Clean(pool')
           /\ PoolShown(pool')
                = Msg!WithLink(Append(PoolShown(pool), Msg!Blank(m.nelem, m.ssize, m.psize)),
                               k, e, i, Len(PoolShown(pool)) + 1)
<1>1. PICK b : b = NewBuffer(m.nelem, m.ssize, m.psize)
    OBVIOUS
<1>2. PICK n \in Nat : n = Len(pool) + 1 /\ n > 0
    BY InvFacts
<1>3. /\ NewBuffer(m.nelem, m.ssize, m.psize).len <= Cap
      /\ pool' = PutPtr(Append(pool, b), k, e, i, Len(pool) + 1)
    BY <1>1 DEF InitField, Fits
<1>4. Shape(m.nelem, m.ssize, m.psize)
    BY InvFacts, Zenon
<1>5. PICK x : x = Msg!Blank(m.nelem, m.ssize, m.psize)
    OBVIOUS
<1>6. Sound(b, n) /\ ShownIn(b) = x
    BY <1>1, <1>2, <1>3, <1>4, <1>5, NewSound, BlankNew, Zenon
<1>7. /\ Clean(pool')
      /\ PoolShown(pool')
           = Msg!WithLink(Append(PoolShown(pool), x), k, e, i, Len(PoolShown(pool)) + 1)
    BY <1>2, <1>3, <1>6, MadeReads
<1> QED
    BY <1>5, <1>7, Zenon

LEMMA PutStrReads ==
    ASSUME Inv, Clean(pool), NEW k \in Objects, NEW e \in Elements(k), NEW i \in Pointers(k),
           NEW c \in StrLens, PutStr(k, e, i, c)
    PROVE  /\ Clean(pool')
           /\ PoolShown(pool') = Msg!WithLink(Append(PoolShown(pool), Msg!Text(c)),
                                              k, e, i, Len(PoolShown(pool)) + 1)
<1>1. PICK b : b = PutChars(NewBuffer(c + 1, 1, 0), MetaSz + HdrSz, c)
    OBVIOUS
<1>2. PICK n \in Nat : n = Len(pool) + 1 /\ n > 0
    BY InvFacts
<1>3. /\ NewBuffer(c + 1, 1, 0).len <= Cap
      /\ pool' = PutPtr(Append(pool, b), k, e, i, Len(pool) + 1)
    BY <1>1 DEF PutStr, Fits
<1>4. c \in Nat
    BY BuilderAssumption, Zenon
<1>5. PICK x : x = Msg!Text(c)
    OBVIOUS
<1>6. Sound(b, n) /\ ShownIn(b) = x
    BY <1>1, <1>2, <1>3, <1>4, <1>5, StrSound, Zenon
<1>7. /\ Clean(pool')
      /\ PoolShown(pool')
           = Msg!WithLink(Append(PoolShown(pool), x), k, e, i, Len(PoolShown(pool)) + 1)
    BY <1>2, <1>3, <1>6, MadeReads
<1> QED
    BY <1>5, <1>7, Zenon

LEMMA AppendFirstReads ==
    ASSUME Inv, Clean(pool), NEW k \in Objects, NEW e \in Elements(k), NEW i \in Pointers(k),
           NEW kind \in DOMAIN KindShape, NEW y \in {0, 1}, AppendFirst(k, e, i, kind, y)
    PROVE  /\ Clean(pool')
           /\ PoolShown(pool')
                = Msg!WithLink(Append(PoolShown(pool),
                                      Msg!FirstOf(KindShape[kind].ssize, KindShape[kind].psize, y)),
                               k, e, i, Len(PoolShown(pool)) + 1)
<1>1. PICK s, p : s = KindShape[kind].ssize /\ p = KindShape[kind].psize
    OBVIOUS
<1>2. PICK b : b = NewBuffer(1, s, p)
    OBVIOUS
<1>3. PICK v : v = IF s > 0 THEN PutScalar(b, Obj(b, 1), 0, y) ELSE b
    OBVIOUS
<1>4. PICK n \in Nat : n = Len(pool) + 1 /\ n > 0
    BY InvFacts
<1>5. /\ NewBuffer(1, s, p).len <= Cap
      /\ pool' = PutPtr(Append(pool, v), k, e, i, Len(pool) + 1)
    BY <1>1, <1>2, <1>3, Zenon DEF AppendFirst, Fits
<1>6. Shape(1, s, p)
    BY <1>1, BuilderAssumption, Zenon
<1>7. PICK x : x = Msg!FirstOf(s, p, y)
    OBVIOUS
<1>8. Sound(v, n) /\ ShownIn(v) = x
  <2>1. Sound(v, n) /\ ShownIn(v) = Msg!FirstOf(s, p, y)
      BY <1>2, <1>3, <1>4, <1>5, <1>6, FirstSound
  <2> QED
      BY <1>7, <2>1, Zenon
<1>9. /\ Clean(pool')
      /\ PoolShown(pool')
           = Msg!WithLink(Append(PoolShown(pool), x), k, e, i, Len(PoolShown(pool)) + 1)
    BY <1>4, <1>5, <1>8, MadeReads
<1> QED
    BY <1>1, <1>7, <1>9, Zenon

LEMMA LinkReads ==
    ASSUME Inv, Clean(pool), NEW k \in Objects, NEW e \in Elements(k), NEW i \in Pointers(k),
           NEW t \in Objects, Link(k, e, i, t)
    PROVE  /\ Clean(pool')
           /\ PoolShown(pool') = Msg!WithLink(PoolShown(pool), k, e, i, LedTo(t))
<1>1. PICK new : new = PutPtr(pool, k, e, i, t)
    OBVIOUS
<1>2. pool' = new
    BY <1>1 DEF Link
<1>3. /\ k \in 1 .. Len(pool) /\ t \in 1 .. Len(pool)
      /\ e \in 0 .. Obj(pool[k], 1).nelem - 1 /\ i \in 0 .. Obj(pool[k], 1).psize - 1
    BY CleanElement, InvFacts, Zenon
<1>4. Clean(new) /\ PoolShown(new) = Msg!WithLink(PoolShown(pool), k, e, i, LedTo(t))
    BY <1>1, <1>3, CleanLink
<1> QED
    BY <1>2, <1>4, Zenon

LEMMA SetScalarReads ==
    ASSUME Inv, Clean(pool), NEW k \in Objects, NEW e \in Elements(k), NEW x \in {0, 1},
           SetScalar(k, e, x)
    PROVE  Clean(pool') /\ PoolShown(pool') = Msg!WithValue(PoolShown(pool), k, e, x)
<1>1. PICK b, n : b = pool[k] /\ n = Len(pool)
    OBVIOUS
<1>2. /\ k \in 1 .. n /\ n \in Nat /\ Sound(b, n) /\ TheObj(b) = Obj(b, 1)
      /\ e \in 0 .. Obj(b, 1).nelem - 1
    BY <1>1, CleanElement, Zenon
<1>3. PICK v : v = PutScalar(b, Obj(b, 1), e, x)
    OBVIOUS
<1>4. HasScalar(Obj(b, 1)) /\ pool' = Replaced(pool, k, v)
    BY <1>1, <1>2, <1>3, Zenon DEF SetScalar, Replaced
<1>5. Sound(v, n) /\ ShownIn(v) = Rewritten(ShownIn(b), e, x)
    BY <1>2, <1>3, <1>4, ScalarSound
<1>6. PICK os : os = PoolShown(pool)
    OBVIOUS
<1>7. os[k] = ShownIn(b)
    BY <1>1, <1>2, <1>6, ShownPool, Zenon DEF Clean
<1>8. PICK y : y = Rewritten(os[k], e, x)
    OBVIOUS
<1>9. ShownIn(v) = y
    BY <1>5, <1>7, <1>8, Zenon
<1>10. Clean(Replaced(pool, k, v)) /\ PoolShown(Replaced(pool, k, v)) = [os EXCEPT ![k] = y]
  <2>1. Sound(v, Len(pool)) /\ k \in 1 .. Len(pool)
      BY <1>1, <1>2, <1>5, Zenon
  <2> QED
      BY <1>6, <1>9, <2>1, CleanChange
<1>11. Msg!WithValue(os, k, e, x) = [os EXCEPT ![k] = y]
    BY <1>8, ValueIs
<1> QED
    BY <1>4, <1>6, <1>10, <1>11, Zenon

\* Where a pointer of the message leads
LEMMA PointerReads ==
    ASSUME NEW bufs, Clean(bufs), NEW k \in 1 .. Len(bufs), NEW o, o = Obj(bufs[k], 1),
           NEW e \in 0 .. o.nelem - 1, NEW i \in 0 .. o.psize - 1
    PROVE  PoolShown(bufs)[k].ptrs[e + 1][i + 1] = Leads(bufs[k])[Slot(o, e, i)]
<1>1. PICK b, f : b = bufs[k] /\ f = Leads(bufs[k])
    OBVIOUS
<1>2. PICK n \in Nat : n = Len(bufs)
    BY SeqAppend, Zenon DEF Clean
<1>3. Sound(b, n)
    BY <1>1, <1>2, Zenon DEF Clean
<1>4. o.nelem \in Nat /\ o.psize \in Nat
    BY <1>1, <1>3, SoundFacts, Zenon
<1>5. /\ e + 1 \in 1 .. o.nelem /\ (e + 1) - 1 = e
      /\ i + 1 \in 1 .. o.psize /\ (i + 1) - 1 = i
    BY <1>4
<1>6. PoolShown(bufs)[k] = Shown(b, o, f)
    BY <1>1, ShownPool, Zenon DEF Clean, ShownIn
<1>7. PoolShown(bufs)[k].ptrs = [d \in 1 .. o.nelem |-> [j \in 1 .. o.psize |-> f[Slot(o, d - 1, j - 1)]]]
  <2>1. Shown(b, o, f).ptrs = [d \in 1 .. o.nelem |-> [j \in 1 .. o.psize |-> f[Slot(o, d - 1, j - 1)]]]
      BY DEF Shown
  <2> QED
      BY <1>6, <2>1, Zenon
<1>8. PICK rows : rows = PoolShown(bufs)[k].ptrs
    OBVIOUS
<1>9. rows[e + 1][i + 1] = f[Slot(o, e, i)]
    BY <1>5, <1>7, <1>8
<1> QED
    BY <1>1, <1>8, <1>9, Zenon

LEMMA AppendValueReads ==
    ASSUME Inv, Clean(pool), NEW k \in Objects, NEW e \in Elements(k), NEW i \in Pointers(k),
           NEW x \in {0, 1}, AppendValue(k, e, i, x)
    PROVE  /\ Clean(pool')
           /\ \E t \in {PoolShown(pool)[k].ptrs[e + 1][i + 1]} :
                PoolShown(pool') = [PoolShown(pool) EXCEPT ![t] = Msg!Longer(PoolShown(pool)[t], x)]
<1>1. PICK c, n : c = pool[k] /\ n = Len(pool)
    OBVIOUS
<1>2. /\ k \in 1 .. n /\ n \in Nat /\ Sound(c, n) /\ TheObj(c) = Obj(c, 1)
      /\ e \in 0 .. Obj(c, 1).nelem - 1 /\ i \in 0 .. Obj(c, 1).psize - 1
    BY <1>1, CleanElement, Zenon
<1>3. PICK id : id = c.rel[Slot(Obj(c, 1), e, i)]
    OBVIOUS
<1>4. PICK t : t = id + 1
    OBVIOUS
<1>5. id \in 0 .. n - 1
  <2>1. PICK yes : yes = TRUE
      OBVIOUS
  <2>2. Buffer(c, n, yes, yes)
      BY <1>2, <2>1, Zenon DEF Sound
  <2>3. OneObject(c)
      BY <1>2, SoundFacts, Zenon
  <2> QED
      BY <1>2, <1>3, <2>2, <2>3, WordIsId, Zenon
<1>6. t \in 1 .. n /\ n > 0
    BY <1>2, <1>4, <1>5
<1>7. PICK b : b = pool[t]
    OBVIOUS
<1>8. t \in Objects
    BY <1>1, <1>6, InvFacts, Zenon
<1>9. PICK o : o = Obj(b, 1)
    OBVIOUS
<1>10. Sound(b, n) /\ TheObj(b) = o /\ Placed(o)
    BY <1>1, <1>7, <1>8, <1>9, CleanElement, Zenon DEF OneObject
<1>11. PICK g : g = ResizeIn(b, 1, o.nelem + 1)
    OBVIOUS
<1>12. PICK v : v = IF HasScalar(o) THEN PutScalar(g, Obj(g, 1), o.nelem, x) ELSE g
    OBVIOUS
<1>13. /\ t # 1 /\ o.nelem < IF ElemSz(o) = 0 THEN MaxBits ELSE MaxElems
       /\ g.len <= Cap /\ pool' = Replaced(pool, t, v)
  <2>1. t = pool[k].rel[Slot(TheObj(pool[k]), e, i)] + 1
      BY <1>1, <1>2, <1>3, <1>4, Zenon
  <2> QED
      BY <1>7, <1>10, <1>11, <1>12, <2>1, Zenon DEF AppendValue, Replaced
<1>14. Shape(o.nelem + 1, o.ssize, o.psize)
  <2>1. ElemSz(o) = 0 <=> o.ssize = 0 /\ o.psize = 0
      BY <1>10, SizeFacts
  <2>2. Shape(o.nelem, o.ssize, o.psize)
      BY <1>10 DEF Placed
  <2> QED
      BY <1>13, <2>1, <2>2, BuilderAssumption, NelemModAssumption DEF Shape
<1>15. Sound(v, n) /\ ShownIn(v) = Msg!Longer(ShownIn(b), x)
  <2>1. g.len <= Cap /\ Sound(b, n) /\ n \in Nat /\ n > 0
      BY <1>2, <1>6, <1>10, <1>13, Zenon
  <2> QED
      BY <1>9, <1>11, <1>12, <1>14, <2>1, LongerSound
<1>16. PICK os : os = PoolShown(pool)
    OBVIOUS
<1>17. os[t] = ShownIn(b)
    BY <1>1, <1>6, <1>7, <1>16, ShownPool, Zenon DEF Clean
<1>18. PICK y : y = Msg!Longer(os[t], x)
    OBVIOUS
<1>19. ShownIn(v) = y
    BY <1>15, <1>17, <1>18, Zenon
<1>20. Clean(Replaced(pool, t, v)) /\ PoolShown(Replaced(pool, t, v)) = [os EXCEPT ![t] = y]
  <2>1. Sound(v, Len(pool)) /\ t \in 1 .. Len(pool)
      BY <1>1, <1>6, <1>15, Zenon
  <2> QED
      BY <1>16, <1>19, <2>1, CleanChange
<1>21. t = os[k].ptrs[e + 1][i + 1]
  <2>1. PICK q : q = Obj(c, 1)
      OBVIOUS
  <2>2. os[k].ptrs[e + 1][i + 1] = Leads(c)[Slot(q, e, i)]
    <3>1. /\ k \in 1 .. Len(pool) /\ q = Obj(pool[k], 1)
          /\ e \in 0 .. q.nelem - 1 /\ i \in 0 .. q.psize - 1
        BY <1>1, <1>2, <2>1, Zenon
    <3>2. PoolShown(pool)[k].ptrs[e + 1][i + 1] = Leads(pool[k])[Slot(q, e, i)]
        BY <3>1, PointerReads
    <3> QED
        BY <1>1, <1>16, <3>2, Zenon
  <2>3. /\ c.rel \in [0 .. Cap - 1 -> 0 .. n - 1] /\ Placed(q) /\ EndOf(q) <= Cap
        /\ e \in 0 .. q.nelem - 1 /\ i \in 0 .. q.psize - 1
      BY <1>2, <2>1, SoundFacts, Zenon
  <2>4. Leads(c)[Slot(q, e, i)] = IF c.rel[Slot(q, e, i)] = 0 THEN 0 ELSE c.rel[Slot(q, e, i)] + 1
      BY <1>2, <2>3, LeadsAt, SMTT(40)
  <2>5. id # 0
      BY <1>4, <1>5, <1>13
  <2> QED
      BY <1>3, <1>4, <2>1, <2>2, <2>4, <2>5, Zenon
<1> QED
    BY <1>13, <1>16, <1>18, <1>20, <1>21, Zenon

\* An empty pool
LEMMA NothingShown ==
    Clean(<<>>) /\ PoolShown(<<>>) = <<>>
<1>1. IsSeq(<<>>) /\ Len(<<>>) = 0
    BY EmptySeq DEF IsSeq
<1>2. 1 .. 0 = {}
    OBVIOUS
<1>3. Clean(<<>>)
    BY <1>1, <1>2, Zenon DEF Clean
<1>4. PICK f : f = PoolShown(<<>>)
    OBVIOUS
<1>5. DOMAIN f = 1 .. 0
    BY <1>1, <1>4, ShownPool, Zenon
<1>6. f \in [1 .. 0 -> {}]
  <2>1. f = [a \in DOMAIN f |-> f[a]]
      BY <1>4, Zenon DEF PoolShown
  <2> QED
      BY <1>2, <1>5, <2>1, Zenon
<1>7. f \in Seq({}) /\ Len(f) = 0
    BY <1>6
<1>8. f = <<>>
    BY <1>7, EmptySeq
<1> QED
    BY <1>3, <1>4, <1>8, Zenon

\* The calls change the pool as they do without the message next to it.
LEMMA MsgSteps == MsgNext => Next
<1> SUFFICES ASSUME MsgNext
             PROVE  Next
    OBVIOUS
<1>1. "wrapped" \notin faults
    BY Zenon DEF MsgNext
<1>2. SUFFICES Step
    BY <1>1, Zenon DEF Next
<1>3. CASE MakesObjects
    BY <1>3, Zenon DEF MakesObjects, Step
<1>4. ASSUME NEW k \in Objects, NEW e \in Elements(k), NEW i \in Pointers(k), UsesPointer(k, e, i)
      PROVE  Step
    BY <1>4, Zenon DEF UsesPointer, Step
<1>5. ASSUME NEW k \in Objects, NEW e \in Elements(k), e \in EdgeElements(k), PutsScalar(k, e)
      PROVE  Step
    BY <1>5, Zenon DEF PutsScalar, Step
<1>6. CASE GivesUp
    BY <1>6, Zenon DEF GivesUp, Step
<1> QED
    BY <1>3, <1>4, <1>5, <1>6, Zenon DEF MsgNext

LEMMA MsgInvHolds == MsgSpec => []Inv
<1>1. MsgInit => Init
    BY DEF MsgInit
<1>2. [MsgNext]_<<vars, graph>> => [Next]_vars
    BY MsgSteps, Zenon
<1>3. Inv /\ WireWellFormed => Inv
    OBVIOUS
<1> QED
    BY <1>1, <1>2, <1>3, BuilderInv, PTL DEF MsgSpec, Spec

\* The objects and effects of MsgGraph are the same for this message.
LEMMA SameMessage ==
    /\ \A n, s, p : Message!Blank(n, s, p) = Msg!Blank(n, s, p)
    /\ \A n : Message!Text(n) = Msg!Text(n)
    /\ \A s, p, x : Message!FirstOf(s, p, x) = Msg!FirstOf(s, p, x)
    /\ \A os, k, e, i, t : Message!WithLink(os, k, e, i, t) = Msg!WithLink(os, k, e, i, t)
    /\ \A os, k, e, x : Message!WithValue(os, k, e, x) = Msg!WithValue(os, k, e, x)
    /\ \A o, x : Message!Longer(o, x) = Msg!Longer(o, x)
<1>1. \A p : Message!Nulls(p) = Msg!Nulls(p)
    BY Zenon DEF Message!Nulls, Msg!Nulls
<1>2. \A n, s, p : Message!Blank(n, s, p) = Msg!Blank(n, s, p)
    BY <1>1, Zenon DEF Message!Blank, Msg!Blank
<1>3. \A n : Message!Text(n) = Msg!Text(n)
    BY <1>2, Zenon DEF Message!Text, Msg!Text
<1>4. \A s, p, x : Message!FirstOf(s, p, x) = Msg!FirstOf(s, p, x)
    BY <1>2, Zenon DEF Message!FirstOf, Msg!FirstOf, Message!Holding, Msg!Holding
<1>5. \A os, k, e, i, t : Message!WithLink(os, k, e, i, t) = Msg!WithLink(os, k, e, i, t)
    BY Zenon DEF Message!WithLink, Msg!WithLink
<1>6. \A os, k, e, x : Message!WithValue(os, k, e, x) = Msg!WithValue(os, k, e, x)
    BY Zenon DEF Message!WithValue, Msg!WithValue
<1>7. \A o, x : Message!Held(o, x) = Msg!Held(o, x)
    BY Zenon DEF Message!Held, Msg!Held
<1>8. \A o, x : Message!Longer(o, x) = Msg!Longer(o, x)
    BY <1>1, <1>7, Zenon DEF Message!Longer, Msg!Longer
<1> QED
    BY <1>2, <1>3, <1>4, <1>5, <1>6, <1>8

\* The pool is the message as long as there was no fault.
Reads == NullInv /\ (faults = {} => PoolObjects = graph)

LEMMA ReadsBefore ==
    ASSUME Inv, Reads, faults = {}
    PROVE  Clean(pool) /\ PoolShown(pool) = graph
  BY CleanPool, Zenon DEF Reads

LEMMA ReadsAfter ==
    ASSUME faults' = {} => Clean(pool') /\ PoolShown(pool') = graph'
    PROVE  Reads'
<1>1. CASE faults' # {}
    BY <1>1, Zenon DEF Reads, NullInv
<1>2. CASE faults' = {}
    BY <1>2, Shows, Zenon DEF Reads
<1> QED
    BY <1>1, <1>2

LEMMA MakesReads ==
    ASSUME Inv, Reads, MakesObjects
    PROVE  Reads'
<1>1. SUFFICES ASSUME faults' = {}
               PROVE  Clean(pool') /\ PoolShown(pool') = graph'
    BY ReadsAfter
<1>2. PICK m \in client.makes :
          /\ Create(m)
          /\ Does(Message!Create(Message!Blank(m.nelem, m.ssize, m.psize)))
    BY Zenon DEF MakesObjects
<1>3. faults = {}
    BY <1>1, <1>2, Zenon DEF Create, Rest
<1>4. Clean(pool) /\ PoolShown(pool) = graph
    BY <1>3, ReadsBefore
<1>5. /\ Clean(pool')
      /\ PoolShown(pool') = Append(PoolShown(pool), Msg!Blank(m.nelem, m.ssize, m.psize))
    BY <1>2, <1>4, CreateReads
<1>6. graph' = Append(graph, Msg!Blank(m.nelem, m.ssize, m.psize))
    BY <1>1, <1>2, SameMessage, Zenon DEF Does, Message!Create
<1> QED
    BY <1>4, <1>5, <1>6, Zenon

LEMMA PointerCallReads ==
    ASSUME Inv, Reads, NEW k \in Objects, NEW e \in Elements(k), NEW i \in Pointers(k),
           UsesPointer(k, e, i)
    PROVE  Reads'
<1>1. SUFFICES ASSUME faults' = {}
               PROVE  Clean(pool') /\ PoolShown(pool') = graph'
    BY ReadsAfter
<1>2. faults = {}
    BY <1>1, Zenon DEF UsesPointer, InitField, Link, PutStr, AppendValue, AppendFirst, Rest
<1>3. Clean(pool) /\ PoolShown(pool) = graph
    BY <1>2, ReadsBefore
<1>4. ASSUME NEW m \in client.makes, InitField(k, e, i, m),
             Does(Message!CreateAt(k, e, i, Message!Blank(m.nelem, m.ssize, m.psize)))
      PROVE  Clean(pool') /\ PoolShown(pool') = graph'
  <2>1. /\ Clean(pool')
        /\ PoolShown(pool') = Msg!WithLink(Append(PoolShown(pool), Msg!Blank(m.nelem, m.ssize, m.psize)),
                                           k, e, i, Len(PoolShown(pool)) + 1)
      BY <1>3, <1>4, InitFieldReads
  <2>2. graph' = Msg!WithLink(Append(graph, Msg!Blank(m.nelem, m.ssize, m.psize)),
                              k, e, i, Len(graph) + 1)
      BY <1>1, <1>4, SameMessage, Zenon DEF Does, Message!CreateAt
  <2> QED
      BY <1>3, <2>1, <2>2, Zenon
<1>5. ASSUME NEW t \in Objects, Link(k, e, i, t),
             Does(Message!Link(k, e, i, IF t = 1 THEN 0 ELSE t))
      PROVE  Clean(pool') /\ PoolShown(pool') = graph'
  <2>1. Clean(pool') /\ PoolShown(pool') = Msg!WithLink(PoolShown(pool), k, e, i, LedTo(t))
      BY <1>3, <1>5, LinkReads
  <2>2. graph' = Msg!WithLink(graph, k, e, i, LedTo(t))
      BY <1>1, <1>5, SameMessage, Zenon DEF Does, Message!Link, LedTo
  <2> QED
      BY <1>3, <2>1, <2>2, Zenon
<1>6. ASSUME NEW n \in StrLens, PutStr(k, e, i, n), Does(Message!CreateAt(k, e, i, Message!Text(n)))
      PROVE  Clean(pool') /\ PoolShown(pool') = graph'
  <2>1. /\ Clean(pool')
        /\ PoolShown(pool') = Msg!WithLink(Append(PoolShown(pool), Msg!Text(n)),
                                           k, e, i, Len(PoolShown(pool)) + 1)
      BY <1>3, <1>6, PutStrReads
  <2>2. graph' = Msg!WithLink(Append(graph, Msg!Text(n)), k, e, i, Len(graph) + 1)
      BY <1>1, <1>6, SameMessage, Zenon DEF Does, Message!CreateAt
  <2> QED
      BY <1>3, <2>1, <2>2, Zenon
<1>7. ASSUME NEW x \in {0, 1}, AppendValue(k, e, i, x), Does(Message!Grow(k, e, i, x))
      PROVE  Clean(pool') /\ PoolShown(pool') = graph'
  <2>1. /\ Clean(pool')
        /\ \E t \in {PoolShown(pool)[k].ptrs[e + 1][i + 1]} :
             PoolShown(pool') = [PoolShown(pool) EXCEPT ![t] = Msg!Longer(PoolShown(pool)[t], x)]
      BY <1>3, <1>7, AppendValueReads
  <2>2. PICK t : t = graph[k].ptrs[e + 1][i + 1]
      OBVIOUS
  <2>3. PoolShown(pool') = [graph EXCEPT ![t] = Msg!Longer(graph[t], x)]
      BY <1>3, <2>1, <2>2
  <2>4. graph' = [graph EXCEPT ![t] = Message!Longer(graph[t], x)]
      BY <1>1, <1>7, <2>2 DEF Does, Message!Grow
  <2> QED
      BY <2>1, <2>3, <2>4, SameMessage, Zenon
<1>8. ASSUME NEW kind \in DOMAIN KindShape, NEW x \in {0, 1}, AppendFirst(k, e, i, kind, x),
             Does(Message!CreateAt(k, e, i,
                      Message!FirstOf(KindShape[kind].ssize, KindShape[kind].psize, x)))
      PROVE  Clean(pool') /\ PoolShown(pool') = graph'
  <2>1. /\ Clean(pool')
        /\ PoolShown(pool')
             = Msg!WithLink(Append(PoolShown(pool),
                                   Msg!FirstOf(KindShape[kind].ssize, KindShape[kind].psize, x)),
                            k, e, i, Len(PoolShown(pool)) + 1)
      BY <1>3, <1>8, AppendFirstReads
  <2>2. graph' = Msg!WithLink(Append(graph,
                                     Msg!FirstOf(KindShape[kind].ssize, KindShape[kind].psize, x)),
                              k, e, i, Len(graph) + 1)
      BY <1>1, <1>8, SameMessage, Zenon DEF Does, Message!CreateAt
  <2> QED
      BY <1>3, <2>1, <2>2, Zenon
<1> QED
    BY <1>4, <1>5, <1>6, <1>7, <1>8, Zenon DEF UsesPointer

LEMMA ScalarCallReads ==
    ASSUME Inv, Reads, NEW k \in Objects, NEW e \in Elements(k), PutsScalar(k, e)
    PROVE  Reads'
<1>1. SUFFICES ASSUME faults' = {}
               PROVE  Clean(pool') /\ PoolShown(pool') = graph'
    BY ReadsAfter
<1>2. PICK x \in {0, 1} : SetScalar(k, e, x) /\ Does(Message!Put(k, e, x))
    BY Zenon DEF PutsScalar
<1>3. faults = {}
    BY <1>1, <1>2, Zenon DEF SetScalar, Rest
<1>4. Clean(pool) /\ PoolShown(pool) = graph
    BY <1>3, ReadsBefore
<1>5. Clean(pool') /\ PoolShown(pool') = Msg!WithValue(PoolShown(pool), k, e, x)
    BY <1>2, <1>4, SetScalarReads
<1>6. graph' = Msg!WithValue(graph, k, e, x)
    BY <1>1, <1>2, SameMessage, Zenon DEF Does, Message!Put
<1> QED
    BY <1>4, <1>5, <1>6, Zenon

\* After a fault, nbuf_serialize or nbuf_free_builder there is no message.
LEMMA GivesUpReads ==
    ASSUME GivesUp
    PROVE  Reads'
<1>1. CASE CreateHalf
  <2>1. faults' # {}
      BY <1>1 DEF CreateHalf
  <2> QED
      BY <2>1, ReadsAfter
<1>2. ASSUME NEW k \in Objects, NEW c \in 1 .. MaxElems, Shrink(k, c)
      PROVE  Reads'
  <2>1. faults' = faults \cup {"shortened"} \/ faults' = faults \cup {"wrapped"}
      BY <1>2, Zenon DEF Shrink
  <2>2. faults' # {}
      BY <2>1
  <2> QED
      BY <2>2, ReadsAfter
<1>3. CASE Serialize \/ FreeBuilder
  <2>1. pool' = <<>> /\ graph' = <<>>
      BY <1>3, Zenon DEF Serialize, FreeBuilder, GivesUp, Message!Clear
  <2> QED
      BY <2>1, NothingShown, ReadsAfter
<1> QED
    BY <1>1, <1>2, <1>3, Zenon DEF GivesUp

LEMMA NextReads ==
    ASSUME Inv, Reads, [MsgNext]_<<vars, graph>>
    PROVE  Reads'
<1>1. CASE UNCHANGED <<vars, graph>>
    BY <1>1, Zenon DEF vars, Reads, NullInv, Objects, PoolObjects
<1>2. CASE MsgNext
    BY <1>2, MakesReads, PointerCallReads, ScalarCallReads, GivesUpReads, Zenon DEF MsgNext
<1> QED
    BY <1>1, <1>2

\* What the builder is for: the pool reads back as the message that the calls
\* describe with their own arguments: the object created, the element and the
\* value, the pointer and its target, the list that a pointer led to, however
\* many objects were created or grown meanwhile.  Only a pointer that is made
\* lead to the root is null.
THEOREM BuilderReadsBack == MsgSpec => []PoolReadsBack
<1>1. MsgInit => Reads
  <2>1. ASSUME MsgInit
        PROVE  Reads
    <3>1. Init /\ graph = <<>>
        BY <2>1 DEF MsgInit, Message!Init
    <3>2. pool = <<>> /\ faults = {}
        BY <3>1, Zenon DEF Init
    <3>3. Objects = {}
        BY <3>2 DEF Objects
    <3>4. NullInv
        BY <3>3, Zenon DEF NullInv
    <3>5. PoolObjects = <<>>
        BY <3>1, <3>2, <3>4, InitInv, CleanPool, NothingShown, Zenon
    <3> QED
        BY <3>1, <3>4, <3>5, Zenon DEF Reads
  <2> QED
      BY <2>1
<1>2. Inv /\ Reads /\ [MsgNext]_<<vars, graph>> => Reads'
    BY NextReads
<1>3. Reads => PoolReadsBack
    BY Zenon DEF Reads, PoolReadsBack
<1> QED
    BY <1>1, <1>2, <1>3, MsgInvHolds, PTL DEF MsgSpec

-----------------------------------------------------------------------------
(* nbuf_serialize changes nothing in the message *)

\* The object at a place of the output is found there.
LEMMA PlaceFound ==
    ASSUME NEW bufs, NEW out, OutOf(out, bufs), Pool(bufs, FALSE, FALSE),
           NEW slot, NEW j \in 1 .. Len(bufs), out.rel[slot] # 0,
           out.objs[j].at = slot + 4 * out.rel[slot]
    PROVE  TargetIn(out, slot) = j
<1>1. PICK n, f, size, w :
        /\ n = Len(bufs) /\ n \in Nat /\ f = Placement(bufs) /\ w = out
        /\ size \in [1 .. n -> Nat] /\ Places(n, size, f)
    BY AnyPlaces, Zenon
<1>2. DOMAIN w.objs = 1 .. n /\ \A k \in 1 .. n : w.objs[k].at = f[k]
    BY <1>1, SerializedPlace, Zenon
<1>3. /\ f \in [1 .. n + 1 -> Nat]
      /\ \A k \in 1 .. n : f[k] + 8 + size[k] <= f[k + 1]
      /\ \A k \in 1 .. n, m \in 1 .. n + 1 : k < m => f[k + 1] <= f[m]
    BY <1>1, PlacesAre, PlacesRise, ZenonT(30)
<1>4. ASSUME NEW k \in 1 .. n, NEW m \in 1 .. n, k < m
      PROVE  f[k] # f[m]
  <2>1. k \in 1 .. n + 1 /\ k + 1 \in 1 .. n + 1 /\ m \in 1 .. n + 1
      BY <1>1
  <2>2. PICK x, y, z, c : /\ x = f[k] /\ y = f[k + 1] /\ z = f[m] /\ c = size[k]
                          /\ x \in Nat /\ y \in Nat /\ z \in Nat /\ c \in Nat
      BY <1>1, <1>3, <2>1
  <2>3. x + 8 + c <= y /\ y <= z
      BY <1>3, <1>4, <2>1, <2>2, Zenon
  <2>4. x # z
      BY <2>2, <2>3, SMTT(40)
  <2> QED
      BY <2>2, <2>4, Zenon
<1>5. ASSUME NEW k \in 1 .. n, w.objs[k].at = w.objs[j].at
      PROVE  k = j
  <2>1. j \in 1 .. n /\ f[k] = f[j]
      BY <1>1, <1>2, <1>5, Zenon
  <2>2. k < j \/ j < k \/ k = j
      BY <1>1
  <2> QED
      BY <1>4, <2>1, <2>2, Zenon
<1> DEFINE found == {k \in DOMAIN w.objs : w.objs[k].at = slot + WordSz * w.rel[slot]}
<1>6. found = {j}
  <2>1. w.objs[j].at = slot + 4 * w.rel[slot] /\ j \in 1 .. n
      BY <1>1, Zenon
  <2> QED
      BY <1>2, <1>5, <2>1 DEF WordSz
<1>7. (CHOOSE k \in found : TRUE) = j
    BY <1>6
<1>8. found # {}
    BY <1>6
<1> HIDE DEF found
<1>9. TargetIn(w, slot) = IF w.rel[slot] = 0 THEN 0
                          ELSE IF found = {} THEN -1 ELSE CHOOSE k \in found : TRUE
    BY Zenon DEF TargetIn, found
<1> QED
    BY <1>1, <1>7, <1>8, <1>9, Zenon

\* The words of the output: null, or the distance to the object with the id
LEMMA OutWord ==
    ASSUME NEW bufs, NEW out, OutOf(out, bufs), Pool(bufs, FALSE, FALSE), NEW k \in 1 .. Len(bufs),
           bufs[k].objs # <<>>, Forward(bufs[k], k),
           NEW e \in 0 .. Obj(bufs[k], 1).nelem - 1, NEW i \in 0 .. Obj(bufs[k], 1).psize - 1
    PROVE  /\ Slot(Obj(out, k), e, i) \in 0 .. out.len - 1
           /\ TargetIn(out, Slot(Obj(out, k), e, i))
                = Leads(bufs[k])[Slot(Obj(bufs[k], 1), e, i)]
<1>1. PICK n \in Nat : n = Len(bufs)
    BY AnyPlaces
<1>2. PICK f, size, w : f = Placement(bufs) /\ size = Sizes(bufs) /\ w = out
    OBVIOUS
<1>3. size \in [1 .. n -> Nat] /\ Places(n, size, f)
    BY <1>1, <1>2, AnyPlaces, Zenon
<1>4. /\ f \in [1 .. n + 1 -> Nat]
      /\ \A j \in 1 .. n + 1 : f[j] % 8 = 0
      /\ \A j \in 1 .. n : f[j] + 8 + size[j] <= f[j + 1]
      /\ \A j \in 1 .. n, m \in 1 .. n + 1 : j < m => f[j + 1] <= f[m]
  <2>1. f \in [1 .. n + 1 -> Nat]
      BY <1>3, PlacesAre, Zenon
  <2> QED
      BY <1>3, <2>1, PlacesRise, Zenon
<1>5. PICK b, o, q : b = bufs[k] /\ o = Obj(b, 1) /\ q = Obj(w, k)
    OBVIOUS
<1>6. /\ Buffer(b, n, FALSE, FALSE) /\ OneObject(b) /\ TheObj(b) = o /\ size[k] = TotalSz(o)
    BY <1>1, <1>2, <1>5, AnyPlaces, Zenon
<1>7. o.base = 24 /\ Placed(o) /\ EndOf(o) <= Cap /\ b.rel \in [0 .. Cap - 1 -> 0 .. n - 1]
  <2>1. o.base = 24 /\ Placed(o) /\ EndOf(o) = b.len
      BY <1>5, <1>6, CapFacts DEF OneObject
  <2> QED
      BY <1>6, <2>1, Zenon DEF Buffer, Memory
<1>8. /\ q.base = f[k] + 8 /\ Placed(q) /\ TotalSz(q) = size[k]
      /\ q.nelem = o.nelem /\ q.ssize = o.ssize /\ q.psize = o.psize
  <2>1. CopyOf(out, bufs, k)
      BY SerializedObject, Zenon
  <2> QED
      BY <1>2, <1>5, <2>1, Zenon DEF CopyOf
<1>9. k \in 1 .. n /\ k \in 1 .. n + 1 /\ k + 1 \in 1 .. n + 1
    BY <1>1
<1>10. PICK at \in Nat, c \in Nat, next \in Nat : at = f[k] /\ c = size[k] /\ next = f[k + 1]
    BY <1>3, <1>4, <1>9, Zenon
<1>11. at + 8 + c <= next /\ q.base = at + 8 /\ TotalSz(q) = c
    BY <1>4, <1>8, <1>9, <1>10, Zenon
<1>12. /\ e \in 0 .. o.nelem - 1 /\ i \in 0 .. o.psize - 1
       /\ e \in 0 .. q.nelem - 1 /\ i \in 0 .. q.psize - 1
    BY <1>5, <1>8, Zenon
<1>13. PICK slot \in Nat : /\ slot = Slot(q, e, i) /\ q.base <= slot
                           /\ slot + 4 <= q.base + TotalSz(q) /\ slot % 4 = 0
    BY <1>8, <1>12, SlotFacts, Zenon
<1>14. PICK s \in Nat : s = Slot(o, e, i)
    BY <1>7, <1>12, SlotFacts, Zenon
<1>15. slot = q.base + s - o.base
  <2>1. Placed(o) /\ Placed(q) /\ q.nelem = o.nelem /\ q.ssize = o.ssize /\ q.psize = o.psize
      BY <1>7, <1>8, Zenon
  <2> QED
      BY <1>12, <1>13, <1>14, <2>1, SameSizes, SMTT(20)
<1>16. slot = at + 8 + s - 24 /\ at + 8 <= slot /\ slot + 4 <= at + 8 + c
    BY <1>7, <1>11, <1>13, <1>15, Zenon
<1>17. slot < next /\ slot < at + 8 + c
  <2>1. at + 8 + c <= next /\ slot + 4 <= at + 8 + c
      BY <1>11, <1>16, Zenon
  <2> QED
      BY <2>1, Z3
<1>18. w.rel[slot] = WordOut(bufs, f, k, slot)
  <2>1. /\ Placement(bufs)[k] + 8 <= slot
        /\ slot < Placement(bufs)[k + 1] /\ slot < Placement(bufs)[k] + 8 + Sizes(bufs)[k]
      BY <1>2, <1>10, <1>16, <1>17, Zenon
  <2>2. ByteOf(out, bufs, k, slot)
      BY <2>1, OutByte, Zenon
  <2> QED
      BY <1>2, <2>1, <2>2, Zenon DEF ByteOf
<1>19. Source(bufs, f, k, slot) = s
  <2>1. Source(bufs, f, k, slot) = o.base + slot - at - 8
      BY <1>5, <1>6, <1>10, Zenon DEF Source, HdrSz
  <2> QED
      BY <1>7, <1>16, <2>1, SMTT(40)
<1>20. PICK id \in 0 .. n - 1 : id = b.rel[s]
    BY <1>5, <1>6, <1>12, <1>14, WordIsId, Zenon
<1>21. w.rel[slot] = IF id = 0 THEN 0 ELSE RelTo(slot, f[id + 1])
    BY <1>5, <1>18, <1>19, <1>20, Zenon DEF WordOut
<1>22. Leads(b)[s] = IF id = 0 THEN 0 ELSE id + 1
  <2>1. Placed(o) /\ EndOf(o) <= Cap
      BY <1>7, Zenon
  <2>2. s + 4 <= o.base + TotalSz(o) /\ o.base + TotalSz(o) <= EndOf(o) /\ EndOf(o) \in Nat
        /\ TotalSz(o) \in Nat /\ o.base \in Nat
      BY <1>12, <1>14, <2>1, SlotFacts, SizeFacts DEF Placed
  <2>3. s \in 0 .. Cap - 1
      BY <2>1, <2>2, CapFacts
  <2>4. DOMAIN b.rel = 0 .. Cap - 1
      BY <1>7
  <2> QED
      BY <1>20, <2>3, <2>4, Zenon DEF Leads
<1>23. TargetIn(w, slot) = Leads(b)[s]
  <2>1. CASE id = 0
      BY <1>21, <1>22, <2>1, Zenon DEF TargetIn
  <2>2. CASE id # 0
    <3>1. id > k - 1
        BY <1>1, <1>5, <1>12, <1>14, <1>20, <2>2, Zenon DEF Forward
    <3>2. PICK j \in 1 .. n : j = id + 1 /\ j > k
        BY <1>9, <3>1
    <3>3. j \in 1 .. n + 1 /\ k < j
        BY <1>9, <3>2
    <3>4. PICK to \in Nat : to = f[j] /\ to % 8 = 0 /\ next <= to
        BY <1>4, <1>9, <1>10, <3>3, Zenon
    <3>5. to = slot + 4 * RelTo(slot, to)
        BY <1>13, <3>4, WordsApart, Zenon
    <3>6. w.objs[j].at = f[j]
        BY <1>1, <1>2, SerializedPlace, Zenon
    <3>7. w.rel[slot] = RelTo(slot, to)
        BY <1>21, <2>2, <3>2, <3>4, Zenon
    <3>8. w.rel[slot] # 0
      <4>1. SUFFICES ASSUME w.rel[slot] = 0
                     PROVE  FALSE
          OBVIOUS
      <4>2. to = slot + 4 * 0
          BY <3>5, <3>7, <4>1, Zenon
      <4>3. next <= to
          BY <3>4, Zenon
      <4> QED
          BY <1>17, <4>2, <4>3
    <3>9. w.objs[j].at = slot + 4 * w.rel[slot]
        BY <3>4, <3>5, <3>6, <3>7, Zenon
    <3>10. Pool(bufs, FALSE, FALSE) /\ j \in 1 .. Len(bufs)
        BY <1>1, Zenon
    <3>11. TargetIn(w, slot) = j
        BY <1>2, <3>8, <3>9, <3>10, PlaceFound, Zenon
    <3> QED
        BY <1>22, <2>2, <3>2, <3>11, Zenon
  <2> QED
      BY <2>1, <2>2
<1>24. slot \in 0 .. w.len - 1
  <2>1. w.len = f[n + 1] /\ n + 1 \in 1 .. n + 1 /\ k < n + 1
    <3>1. n + 1 \in 1 .. n + 1 /\ k < n + 1
        BY <1>9
    <3> QED
        BY <1>1, <1>2, <3>1, SerializedPlace, Zenon
  <2>2. PICK last \in Nat : last = w.len /\ next <= last
      BY <1>4, <1>9, <1>10, <2>1, Zenon
  <2>3. slot < last
      BY <1>17, <2>2
  <2>4. slot \in 0 .. last - 1
      BY <2>3
  <2> QED
      BY <2>2, <2>4, Zenon
<1> QED
    BY <1>2, <1>5, <1>13, <1>14, <1>23, <1>24, Zenon

\* The bytes of an object are in the output as they were in its buffer.
LEMMA OutScalar ==
    ASSUME NEW bufs, NEW out, OutOf(out, bufs), Pool(bufs, FALSE, FALSE), NEW k \in 1 .. Len(bufs),
           bufs[k].objs # <<>>, NEW e \in 0 .. Obj(bufs[k], 1).nelem - 1
    PROVE  GetScalar(out, Obj(out, k), e) = GetScalar(bufs[k], Obj(bufs[k], 1), e)
<1>1. PICK n \in Nat : n = Len(bufs)
    BY AnyPlaces
<1>2. PICK f, size, w : f = Placement(bufs) /\ size = Sizes(bufs) /\ w = out
    OBVIOUS
<1>3. size \in [1 .. n -> Nat] /\ Places(n, size, f)
    BY <1>1, <1>2, AnyPlaces, Zenon
<1>4. f \in [1 .. n + 1 -> Nat] /\ \A j \in 1 .. n : f[j] + 8 + size[j] <= f[j + 1]
  <2>1. f \in [1 .. n + 1 -> Nat]
      BY <1>3, PlacesAre, Zenon
  <2> QED
      BY <1>3, <2>1, PlacesRise, Zenon
<1>5. PICK b, o, q : b = bufs[k] /\ o = Obj(b, 1) /\ q = Obj(w, k)
    OBVIOUS
<1>6. OneObject(b) /\ TheObj(b) = o /\ size[k] = TotalSz(o)
    BY <1>1, <1>2, <1>5, AnyPlaces, Zenon
<1>7. o.base = 24 /\ Placed(o)
    BY <1>5, <1>6, CapFacts DEF OneObject
<1>8. /\ q.base = f[k] + 8 /\ Placed(q)
      /\ q.nelem = o.nelem /\ q.ssize = o.ssize /\ q.psize = o.psize
  <2>1. CopyOf(out, bufs, k)
      BY SerializedObject, Zenon
  <2> QED
      BY <1>2, <1>5, <2>1, Zenon DEF CopyOf
<1>9. k \in 1 .. n /\ k \in 1 .. n + 1 /\ k + 1 \in 1 .. n + 1
    BY <1>1
<1>10. PICK at \in Nat, c \in Nat, next \in Nat : at = f[k] /\ c = size[k] /\ next = f[k + 1]
    BY <1>3, <1>4, <1>9, Zenon
<1>11. at + 8 + c <= next
    BY <1>4, <1>9, <1>10, Zenon
<1>12. ASSUME NEW d \in 0 .. c - 1
       PROVE  w.bits[q.base + d] = b.bits[o.base + d]
  <2>1. PICK a \in Nat : a = at + 8 + d
      OBVIOUS
  <2>2. at + 8 <= a /\ a < at + 8 + c /\ a < next
      BY <1>11, <2>1
  <2>3. /\ Placement(bufs)[k] + 8 <= a
        /\ a < Placement(bufs)[k + 1] /\ a < Placement(bufs)[k] + 8 + Sizes(bufs)[k]
      BY <1>2, <1>10, <2>2, Zenon
  <2>4. out.bits[a] = bufs[k].bits[Source(bufs, Placement(bufs), k, a)]
    <3>1. ByteOf(out, bufs, k, a)
        BY <2>3, OutByte, Zenon
    <3> QED
        BY <2>3, <3>1, Zenon DEF ByteOf
  <2>5. Source(bufs, f, k, a) = o.base + a - at - 8
      BY <1>5, <1>6, <1>10, Zenon DEF Source, HdrSz
  <2>6. Source(bufs, f, k, a) = o.base + d
      BY <1>7, <2>1, <2>5
  <2>7. q.base + d = a
      BY <1>8, <1>10, <2>1
  <2> QED
      BY <1>2, <1>5, <2>4, <2>6, <2>7, Zenon
<1>13. SameBytes(b.bits, o.base, w.bits, q.base, TotalSz(o))
    BY <1>6, <1>10, <1>12, Zenon DEF SameBytes
<1>14. e \in 0 .. o.nelem - 1
    BY <1>5, Zenon
<1>15. GetScalar(w, q, e) = GetScalar(b, o, e)
    BY <1>7, <1>8, <1>13, <1>14, ScalarMoved
<1> QED
    BY <1>2, <1>5, <1>15, Zenon

\* The output shows of an object what the pool showed.
LEMMA OutShown ==
    ASSUME NEW bufs, NEW out, OutOf(out, bufs), Pool(bufs, FALSE, FALSE), NEW k \in 1 .. Len(bufs),
           bufs[k].objs # <<>>, Forward(bufs[k], k), NEW target,
           \A a \in DOMAIN out.rel : target[a] = TargetIn(out, a)
    PROVE  Shown(out, Obj(out, k), target) = ShownIn(bufs[k])
<1>1. PICK w : w = out
    OBVIOUS
<1>2. DOMAIN w.rel = 0 .. w.len - 1
    BY <1>1, SerializedPlace, Zenon
<1>3. PICK b, o, q : b = bufs[k] /\ o = Obj(b, 1) /\ q = Obj(w, k)
    OBVIOUS
<1>4. OneObject(b)
    BY <1>3, AnyPlaces, Zenon
<1>5. o.nelem \in Nat /\ o.psize \in Nat
    BY <1>3, <1>4, Zenon DEF OneObject, Placed, Shape
<1>6. q.nelem = o.nelem /\ q.ssize = o.ssize /\ q.psize = o.psize
  <2>1. CopyOf(out, bufs, k)
      BY SerializedObject, Zenon
  <2> QED
      BY <1>1, <1>3, <2>1, Zenon DEF CopyOf
<1>7. \A e \in 0 .. o.nelem - 1 : GetScalar(w, q, e) = GetScalar(b, o, e)
    BY <1>1, <1>3, OutScalar, Zenon
<1>8. ASSUME NEW e \in 0 .. o.nelem - 1, NEW i \in 0 .. o.psize - 1
      PROVE  target[Slot(q, e, i)] = Leads(b)[Slot(o, e, i)]
  <2>1. /\ Slot(Obj(out, k), e, i) \in 0 .. out.len - 1
        /\ TargetIn(out, Slot(Obj(out, k), e, i))
             = Leads(bufs[k])[Slot(Obj(bufs[k], 1), e, i)]
      BY <1>3, OutWord, ZenonT(60)
  <2>2. /\ Slot(q, e, i) \in 0 .. w.len - 1
        /\ TargetIn(w, Slot(q, e, i)) = Leads(b)[Slot(o, e, i)]
      BY <1>1, <1>3, <2>1, Zenon
  <2> QED
      BY <1>1, <1>2, <2>2, Zenon
<1>9. Shown(w, q, target) = Shown(b, o, Leads(b))
    BY <1>5, <1>6, <1>7, <1>8, ShownAlike
<1> QED
    BY <1>1, <1>3, <1>9, Zenon DEF ShownIn

\* nbuf_serialize frees the builder.
Done == phase # "build" => pool = <<>>

\* What SerializeKeepsMessage says of a step
Kept ==
    LET target == [slot \in DOMAIN wire'.rel |-> TargetIn(wire', slot)]
    IN  /\ DOMAIN wire'.objs = Objects
        /\ \A k \in Objects \ Headless : Shown(wire', Obj(wire', k), target) = PoolObjects[k]

LEMMA SerializeShown ==
    ASSUME Inv, Serialize
    PROVE  Kept
<1>1. Len(pool) > 0 /\ IdsForward /\ OutOf(wire', pool)
    BY Zenon DEF Serialize, OutOf
<1>2. Pool(pool, FALSE, FALSE) /\ Objects = 1 .. Len(pool)
    BY InvFacts, Zenon
<1>3. PICK target : target = [a \in DOMAIN wire'.rel |-> TargetIn(wire', a)]
    OBVIOUS
<1>4. DOMAIN wire'.objs = Objects
    BY <1>1, <1>2, SerializedPlace, Zenon
<1>5. ASSUME NEW k \in Objects \ Headless
      PROVE  Shown(wire', Obj(wire', k), target) = PoolObjects[k]
  <2>1. k \in Objects /\ k \in 1 .. Len(pool) /\ pool[k].objs # <<>>
      BY <1>2 DEF Headless
  <2>2. TheObj(pool[k]) = Obj(pool[k], 1)
      BY <2>1, Zenon DEF TheObj
  <2>3. Forward(pool[k], k)
      BY <1>1, <2>1, <2>2, Zenon DEF IdsForward, Forward, Elements, Pointers
  <2>4. Shown(wire', Obj(wire', k), target) = ShownIn(pool[k])
    <3>1. \A a \in DOMAIN wire'.rel : target[a] = TargetIn(wire', a)
        BY <1>3, Zenon
    <3> QED
        BY <1>1, <1>2, <2>1, <2>3, <3>1, OutShown, Zenon
  <2>5. PoolObjects[k] = ShownIn(pool[k])
      BY <2>1, <2>2, Zenon DEF PoolObjects, ShownIn, Leads
  <2> QED
      BY <2>4, <2>5
<1> QED
    BY <1>3, <1>4, <1>5, Zenon DEF Kept

\* A step that ends in the phase "wire" is nbuf_serialize's.
LEMMA OnlySerialize ==
    ASSUME Inv, Done, [Next]_vars
    PROVE  Done' /\ (phase' = "wire" => UNCHANGED vars \/ Serialize)
<1>1. CASE UNCHANGED vars
    BY <1>1, Zenon DEF vars, Done
<1>2. CASE Serialize
    BY <1>2, Zenon DEF Serialize, Done
<1>3. CASE FreeBuilder
  <2>1. "freed" # "wire"
      OBVIOUS
  <2> QED
      BY <1>3, <2>1, Zenon DEF FreeBuilder, Done
<1>4. CASE Step /\ ~ Serialize /\ ~ FreeBuilder
  <2>1. phase = "build"
    <3>1. SUFFICES ASSUME phase # "build"
                   PROVE  FALSE
        OBVIOUS
    <3>2. Objects = {}
      <4>1. pool = <<>>
          BY <3>1, Zenon DEF Done
      <4> QED
          BY <4>1 DEF Objects
    <3> QED
        BY <1>4, <3>1, <3>2, Zenon DEF Step, Create, CreateHalf
  <2>2. phase' = phase
    <3>1. ASSUME Rest
          PROVE  phase' = phase
        BY <3>1 DEF Rest
    <3>2. ASSUME NEW m, Create(m)
          PROVE  phase' = phase
        BY <3>1, <3>2, Zenon DEF Create
    <3>3. ASSUME CreateHalf
          PROVE  phase' = phase
        BY <3>3 DEF CreateHalf
    <3>4. ASSUME NEW k, NEW e, NEW i, NEW m, InitField(k, e, i, m)
          PROVE  phase' = phase
        BY <3>1, <3>4, Zenon DEF InitField
    <3>5. ASSUME NEW k, NEW e, NEW i, NEW m, Link(k, e, i, m)
          PROVE  phase' = phase
        BY <3>1, <3>5, Zenon DEF Link
    <3>6. ASSUME NEW k, NEW e, NEW i, NEW m, PutStr(k, e, i, m)
          PROVE  phase' = phase
        BY <3>1, <3>6, Zenon DEF PutStr
    <3>7. ASSUME NEW k, NEW e, NEW i, NEW m, AppendValue(k, e, i, m)
          PROVE  phase' = phase
        BY <3>1, <3>7, Zenon DEF AppendValue
    <3>8. ASSUME NEW k, NEW e, NEW i, NEW kind, NEW m, AppendFirst(k, e, i, kind, m)
          PROVE  phase' = phase
        BY <3>1, <3>8, Zenon DEF AppendFirst
    <3>9. ASSUME NEW k, NEW e, NEW m, SetScalar(k, e, m)
          PROVE  phase' = phase
        BY <3>1, <3>9, Zenon DEF SetScalar
    <3>10. ASSUME NEW k, NEW m, Shrink(k, m)
           PROVE  phase' = phase
        BY <3>10, Zenon DEF Shrink
    <3> QED
        BY <1>4, <3>2, <3>3, <3>4, <3>5, <3>6, <3>7, <3>8, <3>9, <3>10, Zenon DEF Step
  <2>3. "build" # "wire"
      OBVIOUS
  <2> QED
      BY <2>1, <2>2, <2>3, Zenon DEF Done
<1> QED
    BY <1>1, <1>2, <1>3, <1>4, Zenon DEF Next

\* nbuf_serialize moves every object, turns every id into a relative pointer and
\* copies every scalar: read from the wire, the message is what it was in the
\* builder, whatever its objects, their sizes and the pointers between them.  An
\* object whose header was never allocated shows anything, all others what they
\* showed, and pointers to it lead to its place.
THEOREM BuilderKeepsMessage == Spec => SerializeKeepsMessage
<1>1. Init => Done
    BY Zenon DEF Init, Done
<1>2. Inv /\ Done /\ [Next]_vars => Done'
    BY OnlySerialize, Zenon
<1>3. Inv /\ Done /\ [Next]_vars
        => [phase' = "wire" /\ faults \subseteq {"header"} => Kept]_vars
    BY OnlySerialize, SerializeShown, Zenon
<1>4. Kept => LET target == [slot \in DOMAIN wire'.rel |-> TargetIn(wire', slot)]
                  was == PoolObjects
              IN  /\ DOMAIN wire'.objs = Objects
                  /\ \A k \in Objects \ Headless :
                       Shown(wire', Obj(wire', k), target) = was[k]
    BY Zenon DEF Kept
<1> QED
    BY <1>1, <1>2, <1>3, <1>4, BuilderInv, PTL DEF Spec, SerializeKeepsMessage
=============================================================================

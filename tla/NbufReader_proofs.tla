-------------------------- MODULE NbufReader_proofs --------------------------
(***************************************************************************)
(* For every buffer length and whatever bytes the buffer holds, a handle   *)
(* obtained through the read API that claims elements has them inside the  *)
(* buffer.  Also the buffer itself: nbuf_reserve is sound for every width  *)
(* of size_t, as long as capacities are the ones that doubling             *)
(* NBUF_ALLOC_MIN runs through.                                            *)
(***************************************************************************)
EXTENDS NbufReader, NbufBuffer, TLAPS

Handles == [base : Nat, nelem : 0 .. NelemMod - 1, ssize : Nat, psize : Nat]

\* A handle that claims elements takes some bytes, and they are in the buffer.
Inside(o) ==
    o.nelem > 0 => TotalSz(o) > 0 /\ o.base + TotalSz(o) <= BufLen

\* The inductive invariant: what nbuf_obj_init's last test establishes, and
\* nbuf_get_elem hands on to the element.
HandleInside == Inside(cur)

\* The i-th of n blocks of c bytes ends before the end of the n blocks.
LEMMA BlockEnd ==
    ASSUME NEW i \in Nat, NEW n \in Nat, NEW c \in Nat, i < n
    PROVE  i * c + c <= c * n /\ i * c \in Nat
<1> DEFINE k == n - i - 1
<1>1. k \in Nat /\ n = i + 1 + k
    BY DEF k
<1> HIDE DEF k
<1>2. c * n = c * i + c + c * k
    BY <1>1
<1>3. c * k \in Nat /\ i * c = c * i /\ i * c \in Nat
    BY <1>1
<1> QED
    BY <1>2, <1>3

\* The sizes computed from a handle are natural numbers.
LEMMA SizesNat ==
    ASSUME NEW o \in Handles
    PROVE  /\ ElemSz(o) \in Nat
           /\ ElemSz(o) # 0 => TotalSz(o) = ElemSz(o) * o.nelem
           /\ ElemSz(o) = 0 => o.ssize = 0 /\ o.psize = 0 /\ TotalSz(o) = BitBytes(o.nelem)
           /\ TotalSz(o) \in Nat
<1>0. o.ssize \in Nat /\ o.psize \in Nat /\ o.nelem \in Nat /\ NelemMod \in Nat /\ NelemMod > 0
    BY NelemModAssumption DEF Handles
<1>1. ElemSz(o) \in Nat /\ (ElemSz(o) = 0 => o.ssize = 0 /\ o.psize = 0)
    BY <1>0 DEF ElemSz, PtrOffs, WordSz
<1>2. BitBytes(o.nelem) \in Nat
    BY <1>0 DEF BitBytes
<1>3. ElemSz(o) * o.nelem \in Nat
    BY <1>0, <1>1
<1> QED
    BY <1>1, <1>2, <1>3 DEF TotalSz

\* A bit vector that takes any byte at all did not wrap in (nelem + 7), so the
\* byte of each of its bits is among the bytes it takes.
LEMMA BitsInside ==
    ASSUME NEW n \in 0 .. NelemMod - 1, BitBytes(n) > 0,
           NEW i \in 0 .. n - 1
    PROVE  i \div 8 \in Nat /\ (i \div 8) + 1 <= BitBytes(n)
<1>1. n + 7 < NelemMod
  <2> SUFFICES ASSUME n + 7 >= NelemMod PROVE FALSE
      BY NelemModAssumption
  <2>1. (n + 7) % NelemMod = n + 7 - NelemMod
      BY NelemModAssumption
  <2>2. n + 7 - NelemMod \in 0 .. 6
      BY NelemModAssumption
  <2> QED
      BY <2>1, <2>2 DEF BitBytes
<1>2. (n + 7) % NelemMod = n + 7
    BY <1>1, NelemModAssumption
<1> QED
    BY <1>2, NelemModAssumption DEF BitBytes

\* nbuf_get_elem preserves Inside, and every read through the element of a
\* handle that is Inside passes the bounds check.
LEMMA ElemInside ==
    ASSUME NEW o \in Handles, Inside(o), NEW i \in Nat
    PROVE  /\ GetElem(o, i) \in Handles
           /\ Inside(GetElem(o, i))
           /\ i < o.nelem => ReadsInside(GetElem(o, i))
<1>0. /\ o.base \in Nat /\ o.ssize \in Nat /\ o.psize \in Nat /\ o.nelem \in Nat
      /\ o.nelem <= NelemMod - 1 /\ BufLen \in Nat /\ NelemMod \in Nat /\ NelemMod >= 8
    BY NelemModAssumption, ReaderAssumption DEF Handles
<1>1. CASE i >= o.nelem
    BY <1>0, <1>1 DEF GetElem, NullObj, Handles, Inside
<1>2. CASE i < o.nelem /\ ElemSz(o) = 0
  <2>1. i \div 8 \in Nat /\ (i \div 8) + 1 <= TotalSz(o)
      BY <1>0, <1>2, SizesNat, BitsInside DEF Inside
  <2>2. o.psize = 0
      BY <1>2, SizesNat
  <2>3. GetElem(o, i) = [base |-> o.base + (i \div 8), nelem |-> 1, ssize |-> 1, psize |-> 0]
      BY <1>0, <1>2, <2>2 DEF GetElem
  <2>4. GetElem(o, i) \in Handles
      BY <1>0, <2>1, <2>3 DEF Handles
  <2>5. ElemSz(GetElem(o, i)) = 1
      BY <2>3 DEF ElemSz, PtrOffs, WordSz
  <2>6. TotalSz(GetElem(o, i)) = 1
      BY <2>3, <2>5 DEF TotalSz
  <2>7. o.base + (i \div 8) + 1 <= BufLen
      BY <1>0, <1>2, <2>1, SizesNat DEF Inside
  <2>8. Inside(GetElem(o, i))
      BY <1>0, <2>1, <2>3, <2>6, <2>7 DEF Inside
  <2>9. ReadsInside(GetElem(o, i))
      BY <1>0, <2>1, <2>3, <2>7 DEF ReadsInside, BoundsCheck
  <2> QED
      BY <2>4, <2>8, <2>9
<1>3. CASE i < o.nelem /\ ElemSz(o) # 0
  <2> DEFINE E == ElemSz(o)
  <2>1. E \in Nat /\ TotalSz(o) = E * o.nelem
      BY <1>3, SizesNat
  <2>2. i * E + E <= E * o.nelem /\ i * E \in Nat
    <3> HIDE DEF E
    <3> QED BY <1>0, <1>3, <2>1, BlockEnd
  <2>3. GetElem(o, i) = [base |-> o.base + i * E, nelem |-> 1,
                         ssize |-> o.ssize, psize |-> o.psize]
      BY <1>0, <1>3 DEF GetElem
  <2>4. ElemSz(GetElem(o, i)) = E /\ TotalSz(GetElem(o, i)) = E
      BY <1>3, <2>1, <2>3 DEF ElemSz, PtrOffs, TotalSz
  <2>5. o.base + i * E + E <= BufLen
    <3> HIDE DEF E
    <3> QED BY <1>0, <1>3, <2>1, <2>2, E * o.nelem \in Nat DEF Inside
  <2>6. GetElem(o, i) \in Handles /\ Inside(GetElem(o, i))
    <3>1. E # 0 BY <1>3
    <3> HIDE DEF E
    <3> QED BY <1>0, <2>1, <2>2, <2>3, <2>4, <2>5, <3>1 DEF Handles, Inside
  <2>7. E = o.ssize + o.psize * 4
      BY DEF ElemSz, PtrOffs, WordSz
  <2>8. ASSUME NEW k \in 0 .. o.psize - 1
        PROVE  o.ssize + k * 4 + 4 <= E
      BY <1>0, <2>7
  <2>9. ReadsInside(GetElem(o, i))
    <3> HIDE DEF E
    <3> QED BY <1>0, <2>1, <2>2, <2>3, <2>5, <2>7, <2>8
            DEF ReadsInside, BoundsCheck, PtrOffs, WordSz
  <2> QED
      BY <2>6, <2>9
<1> QED
    BY <1>0, <1>1, <1>2, <1>3

\* nbuf_obj_init leaves a handle that is Inside, whatever the header holds.
LEMMA ObjAtInside ==
    ASSUME NEW p \in Nat, NEW h \in Headers
    PROVE  ObjAt(p, h) \in Handles /\ Inside(ObjAt(p, h))
<1> DEFINE o == [base |-> p + HdrSz, nelem |-> h.nelem,
                 ssize |-> h.ssize, psize |-> h.psize]
<1>1. o \in Handles
  <2>1. h.nelem \in Nelems /\ h.ssize \in Ssizes /\ h.psize \in Psizes
      BY DEF Headers
  <2>2. h.nelem \in 0 .. NelemMod - 1 /\ h.ssize \in Nat /\ h.psize \in Nat
      BY <2>1, ReaderAssumption
  <2> QED
      BY <2>2 DEF Handles, HdrSz
<1>2. NullObj \in Handles /\ Inside(NullObj)
    BY NelemModAssumption DEF NullObj, Handles, Inside
<1>3. CASE o.nelem > 0 /\ (TotalSz(o) = 0 \/ ~BoundsCheck(BufLen, o.base, TotalSz(o)))
    BY <1>2, <1>3 DEF ObjAt
<1>4. CASE ~(o.nelem > 0 /\ (TotalSz(o) = 0 \/ ~BoundsCheck(BufLen, o.base, TotalSz(o))))
  <2>1. ObjAt(p, h) = o
      BY <1>4 DEF ObjAt
  <2>2. TotalSz(o) \in Nat
      BY <1>1, SizesNat
  <2>3. Inside(o)
    <3> HIDE DEF o
    <3> QED BY <1>4, <2>2 DEF Inside, BoundsCheck
  <2> QED
      BY <1>1, <2>1, <2>3
<1> QED
    BY <1>3, <1>4

\* The handle stays typed and inside: one step per read operation.
THEOREM ReaderInvariant == Spec => [](TypeOK /\ HandleInside)
<1>1. Init => TypeOK /\ HandleInside
    BY NelemModAssumption DEF Init, TypeOK, HandleInside, Inside, NullObj
<1>2. TypeOK /\ HandleInside /\ [Next]_vars => TypeOK' /\ HandleInside'
  <2> SUFFICES ASSUME TypeOK, HandleInside, [Next]_vars
               PROVE  TypeOK' /\ HandleInside'
      OBVIOUS
  <2>0. cur \in Handles /\ NullObj \in Handles /\ Inside(NullObj)
      BY NelemModAssumption DEF TypeOK, Handles, NullObj, Inside
  <2>1. ASSUME NEW p \in Nat, ObjInit(p)
        PROVE  /\ cur' \in Handles /\ Inside(cur')
               /\ \A q \in DOMAIN hdrs' : hdrs'[q] \in Headers
    <3>1. CASE BoundsCheck(BufLen, p, HdrSz)
      <4>1. PICK h \in HeadersAt(p) : hdrs' = Remember(hdrs, p, h) /\ cur' = ObjAt(p, h)
          BY <2>1, <3>1 DEF ObjInit
      <4>2. h \in Headers
          BY DEF HeadersAt, TypeOK
      <4> QED
          BY <4>1, <4>2, ObjAtInside DEF Remember, TypeOK
    <3>2. CASE ~BoundsCheck(BufLen, p, HdrSz)
        BY <2>0, <2>1, <3>2 DEF ObjInit, TypeOK
    <3> QED
        BY <3>1, <3>2
  <2>2. CASE GetRoot
      BY <2>1, <2>2 DEF GetRoot, TypeOK, HandleInside, Handles
  <2>3. ASSUME NEW i \in Nat, GetPtr(i)
        PROVE  TypeOK' /\ HandleInside'
    <3>1. CASE i >= cur.psize
        BY <2>0, <2>3, <3>1 DEF GetPtr, TypeOK, HandleInside, Handles
    <3>2. CASE ~(i >= cur.psize)
      <4> DEFINE slot == cur.base + PtrOffs(cur, i)
      <4>1. slot \in Nat
          BY <2>0 DEF PtrOffs, WordSz, Handles
      <4>2. PICK rel \in RelsAt(slot) :
              /\ rels' = Remember(rels, slot, rel)
              /\ IF rel # 0 /\ rel * WordSz + slot >= 0 /\ rel * WordSz + slot < BufLen
                 THEN ObjInit(rel * WordSz + slot)
                 ELSE cur' = NullObj /\ UNCHANGED hdrs
          BY <2>3, <3>2 DEF GetPtr
      <4>3. rel \in Rels /\ rel \in Int
          BY ReaderAssumption DEF RelsAt, TypeOK
      <4>4. \A q \in DOMAIN rels' : rels'[q] \in Rels
          BY <4>2, <4>3 DEF Remember, TypeOK
      <4>5. CASE rel # 0 /\ rel * WordSz + slot >= 0 /\ rel * WordSz + slot < BufLen
        <5>1. rel * WordSz + slot \in Nat /\ ObjInit(rel * WordSz + slot)
            BY <4>1, <4>2, <4>3, <4>5 DEF WordSz
        <5> HIDE DEF slot
        <5> QED
            BY <2>1, <4>4, <5>1 DEF TypeOK, HandleInside, Handles
      <4>6. CASE ~(rel # 0 /\ rel * WordSz + slot >= 0 /\ rel * WordSz + slot < BufLen)
        <5> HIDE DEF slot
        <5> QED
            BY <2>0, <4>2, <4>4, <4>6 DEF TypeOK, HandleInside, Handles
      <4> QED
          BY <4>5, <4>6
    <3> QED
        BY <3>1, <3>2
  <2>4. ASSUME NEW i \in Nat, Elem(i)
        PROVE  TypeOK' /\ HandleInside'
    <3>1. GetElem(cur, i) \in Handles /\ Inside(GetElem(cur, i))
        BY <2>0, ElemInside DEF HandleInside
    <3> QED
        BY <2>4, <3>1 DEF Elem, TypeOK, HandleInside, Handles
  <2>5. CASE UNCHANGED vars
      BY <2>5 DEF vars, TypeOK, HandleInside
  <2> QED
    <3>1. \A P \in Psizes : \A i \in 0 .. P : i \in Nat
        BY ReaderAssumption
    <3>2. \A n \in Nelems : \A i \in 0 .. n : i \in Nat
        BY ReaderAssumption
    <3> QED
        BY <2>2, <2>3, <2>4, <2>5, <3>1, <3>2 DEF Next
<1> QED
    BY <1>1, <1>2, PTL DEF Spec

\* No getter of nbuf.h, through any handle that claims elements or through
\* any of its elements, trips the assertion of nbuf_read_int_safe: for every
\* buffer, every header and every pointer word in it.
THEOREM ReadsStayInside == Spec => []ElementsInside
<1>1. TypeOK /\ HandleInside => ElementsInside
  <2> SUFFICES ASSUME TypeOK, HandleInside, NEW i \in 0 .. cur.nelem - 1
               PROVE  ReadsInside(GetElem(cur, i))
      BY DEF ElementsInside
  <2>1. cur \in Handles /\ i \in Nat /\ i < cur.nelem
      BY DEF TypeOK, Handles
  <2> QED
      BY <2>1, ElemInside DEF HandleInside
<1> QED
    BY <1>1, ReaderInvariant, PTL

\* The handle and the remembered memory keep their types.
THEOREM ReaderTypeOK == Spec => []TypeOK
    BY ReaderInvariant, PTL

-----------------------------------------------------------------------------
(* The buffer, while it is written and nbuf_reserve makes room in it *)

\* While nbuf_reserve runs on a capacity of CapSet, or on none, its candidate is
\* one of CapSet and not below the bytes in use.  On any other capacity that is
\* so until more than half of all sizes is asked for; a candidate that wrapped
\* below the bytes in use is below the capacity too, so it is never taken.
LoopInv ==
    /\ stores = "within" => len <= cap
    /\ pc # "idle" => len <= cap
    /\ pc \in {"loop", "fit"} =>
         IF cap \in CapSet \cup {0}
         THEN newcap \in CapSet /\ cap <= newcap
         ELSE cap <= newcap \/ 2 * (len + inc) > SizeMod
    /\ pc = "fit" => newcap < len \/ len + inc <= newcap
    /\ pc = "ok" => MayWrap \/ len + inc <= cap

\* x % m for the values the proof meets.
LEMMA SmallMod ==
    ASSUME NEW m \in Nat, m > 0, NEW x \in 0 .. m - 1
    PROVE  x % m = x
    OBVIOUS

\* One doubling keeps what LoopInv says of the candidate.
LEMMA GrowKeepsLoop ==
    ASSUME BufferTypeOK, LoopInv, Grow
    PROVE  BufferTypeOK' /\ LoopInv'
<1>0. /\ SizeMod \in Nat /\ SizeMod > 0
      /\ CapSet \subseteq 1 .. SizeMod - 1
      /\ \A c \in CapSet : c * 2 \in CapSet \/ c * 2 = SizeMod
    BY BufferAssumption
<1>1. /\ len \in 0 .. SizeMod - 1 /\ cap \in 0 .. SizeMod - 1
      /\ newcap \in 0 .. SizeMod - 1 /\ inc \in 0 .. SizeMod - 1 /\ len <= cap
    BY DEF BufferTypeOK, LoopInv, Grow
<1>2. pc = "loop" /\ UNCHANGED <<len, cap, caller, inc, stores>>
    BY DEF Grow
<1>3. newcap >= len => Wrap(newcap - len) = newcap - len
    BY <1>0, <1>1, SmallMod DEF Wrap
<1>4. newcap * 2 < SizeMod => Wrap(newcap * 2) = newcap * 2
    BY <1>0, <1>1, SmallMod DEF Wrap
<1>5. newcap * 2 = SizeMod => Wrap(newcap * 2) = 0
    BY <1>0, <1>1 DEF Wrap
<1>6. Wrap(newcap * 2) \in 0 .. SizeMod - 1
    BY <1>0, <1>1 DEF Wrap
<1>7. IF cap \in CapSet \cup {0}
      THEN newcap \in CapSet /\ cap <= newcap
      ELSE cap <= newcap \/ 2 * (len + inc) > SizeMod
    BY <1>2 DEF LoopInv
<1>8. CASE inc > Wrap(newcap - len)
  <2>1. newcap' = Wrap(newcap * 2) /\ pc' = IF Wrap(newcap * 2) = 0 THEN "fail" ELSE "loop"
      BY <1>8 DEF Grow
  <2>2. BufferTypeOK'
      BY <1>0, <1>2, <1>6, <2>1 DEF BufferTypeOK
  <2>3. pc' = "loop" => IF cap \in CapSet \cup {0}
                        THEN newcap' \in CapSet /\ cap <= newcap'
                        ELSE cap <= newcap' \/ 2 * (len + inc) > SizeMod
    <3>1. SUFFICES ASSUME pc' = "loop"
                   PROVE  IF cap \in CapSet \cup {0}
                          THEN newcap' \in CapSet /\ cap <= newcap'
                          ELSE cap <= newcap' \/ 2 * (len + inc) > SizeMod
        OBVIOUS
    <3>2. Wrap(newcap * 2) # 0
        BY <2>1, <3>1
    <3>3. CASE cap \in CapSet \cup {0}
      <4>1. newcap * 2 \in CapSet /\ newcap * 2 < SizeMod
          BY <1>0, <1>1, <1>5, <1>7, <3>2, <3>3
      <4> QED
          BY <1>1, <1>4, <1>7, <2>1, <3>3, <4>1
    <3>4. CASE cap \notin CapSet \cup {0}
      <4>1. CASE cap <= newcap /\ newcap * 2 < SizeMod
          BY <1>1, <1>4, <2>1, <3>4, <4>1
      <4>2. CASE cap <= newcap /\ ~(newcap * 2 < SizeMod)
        <5>1. len + inc > newcap
            BY <1>1, <1>3, <1>8, <4>2
        <5> QED
            BY <1>0, <1>1, <3>4, <4>2, <5>1
      <4> QED
          BY <1>7, <3>4, <4>1, <4>2
    <3> QED
        BY <3>3, <3>4
  <2> QED
      BY <1>1, <1>2, <2>1, <2>2, <2>3 DEF LoopInv
<1>9. CASE ~(inc > Wrap(newcap - len))
  <2>1. pc' = "fit" /\ newcap' = newcap
      BY <1>9 DEF Grow
  <2>2. newcap < len \/ len + inc <= newcap
    <3>1. CASE newcap >= len
        BY <1>1, <1>3, <1>9, <3>1
    <3> QED
        BY <1>1, <3>1
  <2>3. BufferTypeOK'
      BY <1>0, <1>2, <2>1 DEF BufferTypeOK
  <2> QED
      BY <1>1, <1>2, <1>7, <2>1, <2>2, <2>3 DEF LoopInv
<1> QED
    BY <1>8, <1>9

\* The result: room, or a wrap.
LEMMA ReallocKeepsLoop ==
    ASSUME BufferTypeOK, LoopInv, Realloc
    PROVE  BufferTypeOK' /\ LoopInv'
<1>0. SizeMod \in Nat /\ SizeMod > 0 /\ CapSet \subseteq 1 .. SizeMod - 1
    BY BufferAssumption
<1>1. /\ len \in 0 .. SizeMod - 1 /\ cap \in 0 .. SizeMod - 1
      /\ newcap \in 0 .. SizeMod - 1 /\ inc \in 0 .. SizeMod - 1 /\ len <= cap
    BY DEF BufferTypeOK, LoopInv, Realloc
<1>2. pc = "fit" /\ UNCHANGED <<len, caller, inc, newcap, stores>>
    BY DEF Realloc
<1>3. newcap < len \/ len + inc <= newcap
    BY <1>2 DEF LoopInv
<1>4. CASE newcap > cap
  <2>1. len + inc <= newcap
      BY <1>1, <1>3, <1>4
  <2>2. \/ pc' = "ok" /\ cap' = newcap
        \/ pc' = "fail" /\ cap' = cap
      BY <1>4 DEF Realloc
  <2> QED
      BY <1>0, <1>1, <1>2, <1>4, <2>1, <2>2 DEF LoopInv, BufferTypeOK
<1>5. CASE ~(newcap > cap)
  <2>1. pc' = "ok" /\ cap' = cap
      BY <1>5 DEF Realloc
  <2>2. MayWrap \/ len + inc <= cap
    <3>1. CASE newcap < len
      <4>1. cap \notin CapSet \cup {0} /\ 2 * (len + inc) > SizeMod
          BY <1>1, <1>2, <3>1 DEF LoopInv
      <4> QED
          BY <4>1 DEF MayWrap
    <3>2. CASE len + inc <= newcap
        BY <1>1, <1>5, <3>2
    <3> QED
        BY <1>3, <3>1, <3>2
  <2> QED
      BY <1>0, <1>1, <1>2, <2>1, <2>2 DEF LoopInv, BufferTypeOK, MayWrap
<1> QED
    BY <1>4, <1>5

\* One step per action.
THEOREM BufferInvariant == BufferSpec => [](BufferTypeOK /\ LoopInv)
<1>0. /\ SizeMod \in Nat /\ SizeMod > 0
      /\ CapSet \subseteq 1 .. SizeMod - 1
      /\ AllocMin \in CapSet
      /\ InitCaps \subseteq 0 .. SizeMod - 1
      /\ Incs \subseteq 0 .. SizeMod - 1
      /\ Callers \subseteq {"checked", "load"}
    BY BufferAssumption
<1>1. BufferInit => BufferTypeOK /\ LoopInv
    BY <1>0 DEF BufferInit, BufferTypeOK, LoopInv
<1>2. BufferTypeOK /\ LoopInv /\ [BufferNext]_bufferVars => BufferTypeOK' /\ LoopInv'
  <2> SUFFICES ASSUME BufferTypeOK, LoopInv, [BufferNext]_bufferVars
               PROVE  BufferTypeOK' /\ LoopInv'
      OBVIOUS
  <2>1. ASSUME NEW c \in Callers, NEW n \in Incs, Reserve(c, n)
        PROVE  BufferTypeOK' /\ LoopInv'
      BY <1>0, <2>1 DEF Reserve, BufferTypeOK, LoopInv
  <2>2. CASE Grow
      BY <2>2, GrowKeepsLoop
  <2>3. CASE Realloc
      BY <2>3, ReallocKeepsLoop
  <2>4. CASE Append
    <3>0. /\ len \in 0 .. SizeMod - 1 /\ cap \in 0 .. SizeMod - 1 /\ inc \in 0 .. SizeMod - 1
          /\ len <= cap /\ UNCHANGED <<cap, caller, inc, newcap>> /\ pc' = "idle"
        BY <2>4 DEF Append, BufferTypeOK, LoopInv
    <3>1. Wrap(len + inc) \in 0 .. SizeMod - 1
        BY <1>0, <3>0 DEF Wrap
    <3>2. BufferTypeOK'
        BY <2>4, <3>0, <3>1 DEF Append, BufferTypeOK
    <3>3. CASE pc = "ok" /\ ~MayWrap
      <4>1. len + inc <= cap
          BY <3>3 DEF LoopInv
      <4>2. Wrap(len + inc) = len + inc
          BY <1>0, <3>0, <4>1, SmallMod DEF Wrap
      <4> QED
          BY <2>4, <3>0, <3>2, <3>3, <4>1, <4>2 DEF Append, LoopInv
    <3>4. CASE pc = "ok" /\ MayWrap
        BY <2>4, <3>0, <3>2, <3>4 DEF Append, LoopInv
    <3>5. CASE pc = "fail"
        BY <2>4, <3>0, <3>2, <3>5 DEF Append, LoopInv
    <3> QED
        BY <2>4, <3>3, <3>4, <3>5 DEF Append
  <2>5. CASE Clear
      BY <1>0, <2>5 DEF Clear, BufferTypeOK, LoopInv
  <2>6. CASE Free
      BY <1>0, <2>6 DEF Free, BufferTypeOK, LoopInv
  <2>7. CASE UNCHANGED bufferVars
      BY <2>7 DEF bufferVars, BufferTypeOK, LoopInv, MayWrap
  <2> QED
      BY <2>1, <2>2, <2>3, <2>4, <2>5, <2>6, <2>7 DEF BufferNext
<1> QED
    BY <1>1, <1>2, PTL DEF BufferSpec

\* Every variable of nbuf_reserve keeps a value that fits its size_t: no step
\* leaves an unreduced sum, product or difference behind.
THEOREM BufferKeepsTypes == BufferSpec => []BufferTypeOK
    BY BufferInvariant, PTL

\* A true result of nbuf_reserve means the room is there (the assertion of
\* _nbuf_create after the call): for every width of size_t, every initial
\* capacity and every amount, unless the capacity is no power of two and more
\* than half of all sizes is asked for.
THEOREM ReserveMakesRoom == BufferSpec => []RoomMade
<1>1. LoopInv => RoomMade
    BY DEF LoopInv, RoomMade
<1> QED
    BY <1>1, BufferInvariant, PTL

\* The bytes in use never exceed the bytes allocated (the assertion at the
\* entry of nbuf_reserve), whatever the initial capacity, unless nbuf_load_file
\* went on after a failure or the capacity wrapped.
THEOREM LenStaysWithinCap == BufferSpec => []LenWithinCap
<1>1. LoopInv => LenWithinCap
    BY DEF LoopInv, LenWithinCap
<1> QED
    BY <1>1, BufferInvariant, PTL
=============================================================================

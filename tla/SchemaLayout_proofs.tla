------------------------ MODULE SchemaLayout_proofs ------------------------
(***************************************************************************)
(* Proofs about the layout of messages, for schemas of any shape.          *)
(***************************************************************************)
EXTENDS SchemaLayout, SequenceTheorems, TLAPS

Pad == [offset : Nat, size : Nat]

\* The first byte of each padding space and the first byte after it.
Lo(s) == [j \in DOMAIN s |-> s[j].offset]
Hi(s) == [j \in DOMAIN s |-> s[j].offset + s[j].size]

\* Padding spaces are not empty, inside the scalar part and apart.
PadsOK ==
    /\ \A j \in 1 .. Len(pads) : Lo(pads)[j] < Hi(pads)[j] /\ Hi(pads)[j] <= ssize
    /\ \A j, k \in 1 .. Len(pads) : j # k =>
          Hi(pads)[j] <= Lo(pads)[k] \/ Hi(pads)[k] <= Lo(pads)[j]

\* A function on 1 .. n is a sequence.
LEMMA FunctionIsSeq ==
    ASSUME NEW S, NEW n \in Nat, NEW f, f \in [1 .. n -> S]
    PROVE  f \in Seq(S) /\ Len(f) = n /\ DOMAIN f = 1 .. n
OBVIOUS

\* NBUF_ROUNDUP: the next multiple, less than n away.
LEMMA RoundUpFacts ==
    ASSUME NEW x \in Nat, NEW n \in {1, 2, 4, 8}
    PROVE  /\ RoundUp(x, n) \in Nat
           /\ RoundUp(x, n) >= x /\ RoundUp(x, n) < x + n
           /\ RoundUp(x, n) % n = 0
<1>1. CASE n = 1 BY <1>1 DEF RoundUp
<1>2. CASE n = 2 BY <1>2 DEF RoundUp
<1>3. CASE n = 4 BY <1>3 DEF RoundUp
<1>4. CASE n = 8 BY <1>4 DEF RoundUp
<1> QED BY <1>1, <1>2, <1>3, <1>4

\* The fields of a padding space are numbers.
LEMMA PadFields ==
    ASSUME NEW r \in Pad
    PROVE  r.offset \in Nat /\ r.size \in Nat
BY DEF Pad

\* A padding space has the offset and the size it is made with.
LEMMA PadMade ==
    ASSUME NEW a \in Nat, NEW b \in Nat
    PROVE  Space(a, b) \in Pad /\ Space(a, b).offset = a /\ Space(a, b).size = b
BY DEF Pad, Space

\* Disjoint intervals [lo[j], hi[j]), of which [a, b) is cut out of the i-th; the
\* intervals [lo2[j], hi2[j]) are what is left, each of the org[j]-th.
CutOut(n, m, i, a, b, lo, hi, lo2, hi2, org) ==
    /\ n \in Nat /\ m \in Nat /\ i \in 1 .. n /\ a \in Int /\ b \in Int
    /\ \A j \in 1 .. n : lo[j] \in Int /\ hi[j] \in Int /\ lo[j] < hi[j]
    /\ \A j, k \in 1 .. n : j # k => hi[j] <= lo[k] \/ hi[k] <= lo[j]
    /\ lo[i] <= a /\ a < b /\ b <= hi[i]
    /\ \A j \in 1 .. m :
          /\ org[j] \in 1 .. n
          /\ \/ org[j] # i /\ lo2[j] = lo[org[j]] /\ hi2[j] = hi[org[j]]
             \/ org[j] = i /\ lo2[j] = lo[i] /\ hi2[j] = a /\ lo[i] < a
             \/ org[j] = i /\ lo2[j] = b /\ hi2[j] = hi[i] /\ b < hi[i]
    /\ \A j, k \in 1 .. m : j # k /\ org[j] = org[k] => org[j] = i /\ lo2[j] # lo2[k]

\* What is left is disjoint, off what was cut out, and inside the old intervals.
LEMMA Pieces ==
    ASSUME NEW n, NEW m, NEW i, NEW a, NEW b, NEW lo, NEW hi, NEW lo2, NEW hi2, NEW org,
           CutOut(n, m, i, a, b, lo, hi, lo2, hi2, org)
    PROVE  /\ \A j \in 1 .. m :
                /\ lo2[j] < hi2[j] /\ (hi2[j] <= a \/ b <= lo2[j])
                /\ lo[org[j]] <= lo2[j] /\ hi2[j] <= hi[org[j]]
           /\ \A j, k \in 1 .. m : j # k => hi2[j] <= lo2[k] \/ hi2[k] <= lo2[j]
<1> USE DEF CutOut
<1>1. ASSUME NEW j \in 1 .. m
      PROVE  /\ lo2[j] \in Int /\ hi2[j] \in Int
             /\ lo2[j] < hi2[j] /\ (hi2[j] <= a \/ b <= lo2[j])
             /\ lo[org[j]] <= lo2[j] /\ hi2[j] <= hi[org[j]]
  <2>1. PICK q \in 1 .. n : q = org[j] OBVIOUS
  <2>2. lo[q] \in Int /\ hi[q] \in Int /\ lo[q] < hi[q] OBVIOUS
  <2>3. lo[i] \in Int /\ hi[i] \in Int OBVIOUS
  <2>4. CASE q = i BY <2>4, <2>1, <2>3
  <2>5. CASE q # i BY <2>5, <2>1, <2>2
  <2> QED BY <2>4, <2>5
<1>2. ASSUME NEW j \in 1 .. m, NEW k \in 1 .. m, j # k
      PROVE  hi2[j] <= lo2[k] \/ hi2[k] <= lo2[j]
  <2>1. PICK p \in 1 .. n, q \in 1 .. n : p = org[j] /\ q = org[k] OBVIOUS
  <2>2. /\ lo[p] \in Int /\ hi[p] \in Int /\ lo[q] \in Int /\ hi[q] \in Int
        /\ lo[i] \in Int /\ hi[i] \in Int OBVIOUS
  <2>3. CASE p # q BY <2>3, <2>1, <2>2, <1>1
  <2>4. CASE p = q BY <2>4, <2>1, <2>2, <1>2
  <2> QED BY <2>3, <2>4
<1> QED BY <1>1, <1>2

\* Which old space the pieces of a split list come from.
LEMMA SplitOrigin ==
    ASSUME NEW i \in Int, NEW j \in Int, NEW k \in Int, j # k,
           (IF j <= i THEN j ELSE j - 1) = (IF k <= i THEN k ELSE k - 1)
    PROVE  j \in {i, i + 1} /\ k \in {i, i + 1}
OBVIOUS

\* The bounds of a padding space, as numbers.
LEMMA LoHi ==
    ASSUME NEW s \in Seq(Pad), NEW j \in 1 .. Len(s)
    PROVE  /\ s[j].offset \in Nat /\ s[j].size \in Nat
           /\ Lo(s)[j] = s[j].offset /\ Hi(s)[j] = s[j].offset + s[j].size
           /\ Lo(s)[j] \in Nat /\ Hi(s)[j] \in Nat
<1>1. s[j] \in Pad /\ j \in DOMAIN s
      OBVIOUS
<1>2. s[j].offset \in Nat /\ s[j].size \in Nat
      BY <1>1, PadFields
<1>3. Lo(s)[j] = s[j].offset /\ Hi(s)[j] = s[j].offset + s[j].size
      BY <1>1 DEF Lo, Hi
<1> QED BY <1>2, <1>3

\* What find_padding_space leaves of the spaces: each piece lies in an old
\* space and off the bytes that were taken.
LEMMA TakePadFacts ==
    ASSUME pads \in Seq(Pad), link \in 0 .. Len(pads), PadsOK, ssize \in Nat,
           NEW size \in {1, 2, 4, 8}, NEW i \in Usable(size), TakePad(i, size),
           NEW o \in Nat, o = RoundUp(pads[i].offset, size)
    PROVE  /\ pads' \in Seq(Pad) /\ link' \in 0 .. Len(pads')
           /\ i \in 1 .. Len(pads)
           /\ Lo(pads)[i] <= o /\ o + size <= Hi(pads)[i]
           /\ \A j \in 1 .. Len(pads') :
                /\ Lo(pads')[j] < Hi(pads')[j]
                /\ Hi(pads')[j] <= o \/ o + size <= Lo(pads')[j]
                /\ \E k \in 1 .. Len(pads) :
                      Lo(pads)[k] <= Lo(pads')[j] /\ Hi(pads')[j] <= Hi(pads)[k]
           /\ \A j, k \in 1 .. Len(pads') : j # k =>
                Hi(pads')[j] <= Lo(pads')[k] \/ Hi(pads')[k] <= Lo(pads')[j]
<1>s. size \in Nat /\ size > 0 OBVIOUS
<1>n. PICK n \in Nat : n = Len(pads) /\ DOMAIN pads = 1 .. n /\ i \in 1 .. n
      BY DEF Usable
<1>z. \A j \in 1 .. n : pads[j] \in Pad
      BY <1>n
<1>h. PICK lo, hi : lo = Lo(pads) /\ hi = Hi(pads)
      OBVIOUS
<1>a. \A j \in 1 .. n : /\ pads[j].size \in Nat /\ pads[j].offset \in Nat
                        /\ lo[j] = pads[j].offset /\ hi[j] = pads[j].offset + pads[j].size
                        /\ lo[j] \in Int /\ hi[j] \in Int
      BY <1>n, <1>h, LoHi
<1>p. PICK po, ps \in Nat : /\ po = pads[i].offset /\ ps = pads[i].size
                           /\ lo[i] = po /\ hi[i] = po + ps
      BY <1>n, <1>a
<1>o. o = RoundUp(po, size) /\ o >= po
      BY <1>p, RoundUpFacts
<1>k. PICK pad \in Nat : pad = Skip(pads[i], size) /\ o = po + pad
      BY <1>p, <1>o DEF Skip
<1>1. ps >= pad + size
      BY <1>p, <1>k DEF Usable
<1>2. /\ ps - pad - size \in Nat /\ o + size + (ps - pad - size) = po + ps
      /\ po # o + size
  <2>1. PICK sz \in Nat : sz = size /\ sz > 0
        BY <1>s
  <2>2. ps >= pad + sz /\ o = po + pad
        BY <1>1, <1>k, <2>1
  <2>3. ps - pad - sz \in Nat /\ o + sz + (ps - pad - sz) = po + ps /\ po # o + sz
        BY <2>1, <2>2
  <2> QED BY <2>1, <2>3
<1>r. PICK remain \in Nat : remain = ps - pad - size /\ o + size + remain = po + ps
      BY <1>2
<1>3. o + size \in Nat /\ po + pad + size = o + size
      BY <1>s, <1>k, <1>o
<1>e. PICK e \in Nat : e = o + size /\ o < e /\ hi[i] = e + remain /\ lo[i] + pad = o
      BY <1>3, <1>s, <1>o, <1>r, <1>p, <1>k
<1>x. /\ Space(po, pad) \in Pad
      /\ Space(po, pad).offset = po /\ Space(po, pad).size = pad
      BY PadMade
<1>y. /\ Space(e, remain) \in Pad
      /\ Space(e, remain).offset = e /\ Space(e, remain).size = remain
      BY PadMade
<1>b. /\ \A j \in 1 .. n : lo[j] \in Int /\ hi[j] \in Int /\ lo[j] < hi[j]
      /\ \A j, k \in 1 .. n : j # k => hi[j] <= lo[k] \/ hi[k] <= lo[j]
      BY <1>n, <1>h, <1>a DEF PadsOK
<1>c. Cut(i, po, pad, size, remain)
      BY <1>p, <1>k, <1>r DEF TakePad
<1> DEFINE Left(m, org) ==
             /\ m \in Nat /\ pads' \in [1 .. m -> Pad] /\ link' \in 0 .. m
             /\ \A j \in 1 .. m :
                  /\ org[j] \in 1 .. n
                  /\ \/ org[j] # i /\ pads'[j] = pads[org[j]]
                     \/ org[j] = i /\ pads'[j] = Space(po, pad) /\ pad > 0
                     \/ org[j] = i /\ pads'[j] = Space(e, remain) /\ remain > 0
             /\ \A j, k \in 1 .. m : j # k /\ org[j] = org[k] =>
                  org[j] = i /\ pads'[j].offset # pads'[k].offset
<1> HIDE DEF Left
<1>4. \E m, org : Left(m, org)
  <2>1. CASE pad > 0 /\ remain > 0
    <3>1. /\ pads' = InsertedAfter(i, Space(po, pad), Space(e, remain))
          /\ link' = IF link > i THEN link + 1 ELSE link
          BY <2>1, <1>k, <1>3, <1>e, <1>c DEF Cut
    <3>2. PICK org : org = [j \in 1 .. n + 1 |-> IF j <= i THEN j ELSE j - 1]
          OBVIOUS
    <3>3. pads' \in [1 .. n + 1 -> Pad]
          BY <3>1, <1>n, <1>z, <1>x, <1>y, SMTT(40) DEF InsertedAfter
    <3>4. \A j \in 1 .. n + 1 :
             pads'[j] = IF j = i THEN Space(po, pad) ELSE IF j = i + 1 THEN Space(e, remain)
                        ELSE IF j <= i THEN pads[j] ELSE pads[j - 1]
          BY <3>1, <1>n DEF InsertedAfter
    <3>5. \A j \in 1 .. n + 1 :
             /\ org[j] \in 1 .. n
             /\ \/ org[j] # i /\ pads'[j] = pads[org[j]]
                \/ org[j] = i /\ pads'[j] = Space(po, pad) /\ pad > 0
                \/ org[j] = i /\ pads'[j] = Space(e, remain) /\ remain > 0
          BY <3>2, <3>4, <2>1, <1>n
    <3>6. \A j, k \in 1 .. n + 1 : j # k /\ org[j] = org[k] =>
                  org[j] = i /\ pads'[j].offset # pads'[k].offset
      <4>1. \A j, k \in 1 .. n + 1 : j # k /\ org[j] = org[k] =>
               org[j] = i /\ j \in {i, i + 1} /\ k \in {i, i + 1}
        <5> TAKE j, k \in 1 .. n + 1
        <5>1. /\ org[j] = IF j <= i THEN j ELSE j - 1
              /\ org[k] = IF k <= i THEN k ELSE k - 1
              BY <3>2
        <5> HAVE j # k /\ org[j] = org[k]
        <5>2. j \in {i, i + 1} /\ k \in {i, i + 1}
          <6>1. i \in Int /\ j \in Int /\ k \in Int
                BY <1>n
          <6>2. (IF j <= i THEN j ELSE j - 1) = (IF k <= i THEN k ELSE k - 1)
                BY <5>1, Zenon
          <6> QED BY <6>1, <6>2, SplitOrigin
        <5>3. org[j] = i
              BY <5>1, <5>2, <1>n
        <5> QED BY <5>2, <5>3
      <4>2. i \in 1 .. n + 1 /\ i + 1 \in 1 .. n + 1 /\ i + 1 # i
            BY <1>n
      <4>3. pads'[i].offset = po /\ pads'[i + 1].offset = e /\ po # e
            BY <3>4, <4>2, <1>x, <1>y, <1>e, <1>2
      <4> QED BY <4>1, <4>3
    <3>7. n + 1 \in Nat /\ link' \in 0 .. n + 1
          BY <3>1, <1>n
    <3>8. Left(n + 1, org) BY <3>3, <3>5, <3>6, <3>7 DEF Left
    <3> QED BY <3>8
  <2>2. CASE pad > 0 /\ remain = 0
    <3>1. /\ pads' = [pads EXCEPT ![i] = Space(po, pad)]
          /\ link' = link
          BY <2>2, <1>k, <1>3, <1>e, <1>c DEF Cut
    <3>2. PICK org : org = [j \in 1 .. n |-> j]
          OBVIOUS
    <3>3. pads' \in [1 .. n -> Pad]
          BY <3>1, <1>n, <1>z, <1>x, <1>y
    <3>4. \A j \in 1 .. n : pads'[j] = IF j = i THEN Space(po, pad) ELSE pads[j]
          BY <3>1, <1>n
    <3>5. \A j \in 1 .. n :
             /\ org[j] \in 1 .. n
             /\ \/ org[j] # i /\ pads'[j] = pads[org[j]]
                \/ org[j] = i /\ pads'[j] = Space(po, pad) /\ pad > 0
                \/ org[j] = i /\ pads'[j] = Space(e, remain) /\ remain > 0
          BY <3>2, <3>4, <2>2, <1>n
    <3>6. \A j, k \in 1 .. n : j # k => org[j] # org[k]
          BY <3>2, <1>n
    <3>7. n \in Nat /\ link' \in 0 .. n
          BY <3>1, <1>n
    <3>8. Left(n, org) BY <3>3, <3>5, <3>6, <3>7 DEF Left
    <3> QED BY <3>8
  <2>3. CASE pad = 0 /\ remain > 0
    <3>1. /\ pads' = [pads EXCEPT ![i] = Space(e, remain)]
          /\ link' = link
          BY <2>3, <1>k, <1>3, <1>e, <1>c DEF Cut
    <3>2. PICK org : org = [j \in 1 .. n |-> j]
          OBVIOUS
    <3>3. pads' \in [1 .. n -> Pad]
          BY <3>1, <1>n, <1>z, <1>x, <1>y
    <3>4. \A j \in 1 .. n : pads'[j] = IF j = i THEN Space(e, remain) ELSE pads[j]
          BY <3>1, <1>n
    <3>5. \A j \in 1 .. n :
             /\ org[j] \in 1 .. n
             /\ \/ org[j] # i /\ pads'[j] = pads[org[j]]
                \/ org[j] = i /\ pads'[j] = Space(po, pad) /\ pad > 0
                \/ org[j] = i /\ pads'[j] = Space(e, remain) /\ remain > 0
          BY <3>2, <3>4, <2>3, <1>n
    <3>6. \A j, k \in 1 .. n : j # k => org[j] # org[k]
          BY <3>2, <1>n
    <3>7. n \in Nat /\ link' \in 0 .. n
          BY <3>1, <1>n
    <3>8. Left(n, org) BY <3>3, <3>5, <3>6, <3>7 DEF Left
    <3> QED BY <3>8
  <2>4. CASE pad = 0 /\ remain = 0
    <3>1. /\ pads' = Removed(i)
          /\ link' = IF link >= i THEN link - 1 ELSE link
          BY <2>4, <1>k, <1>3, <1>e, <1>c DEF Cut
    <3>2. PICK org : org = [j \in 1 .. n - 1 |-> IF j < i THEN j ELSE j + 1]
          OBVIOUS
    <3>3. pads' \in [1 .. n - 1 -> Pad]
          BY <3>1, <1>n, <1>z, <1>x, <1>y DEF Removed
    <3>4. \A j \in 1 .. n - 1 : pads'[j] = IF j < i THEN pads[j] ELSE pads[j + 1]
          BY <3>1, <1>n DEF Removed
    <3>5. \A j \in 1 .. n - 1 :
             /\ org[j] \in 1 .. n
             /\ \/ org[j] # i /\ pads'[j] = pads[org[j]]
                \/ org[j] = i /\ pads'[j] = Space(po, pad) /\ pad > 0
                \/ org[j] = i /\ pads'[j] = Space(e, remain) /\ remain > 0
          BY <3>2, <3>4, <2>4, <1>n
    <3>6. \A j, k \in 1 .. n - 1 : j # k => org[j] # org[k]
          BY <3>2, <1>n
    <3>7. n - 1 \in Nat /\ link' \in 0 .. n - 1
          BY <3>1, <1>n
    <3>8. Left(n - 1, org) BY <3>3, <3>5, <3>6, <3>7 DEF Left
    <3> QED BY <3>8
  <2>5. (pad > 0 \/ pad = 0) /\ (remain > 0 \/ remain = 0)
        OBVIOUS
  <2> QED BY <2>1, <2>2, <2>3, <2>4, <2>5
<1>5. PICK m, org : Left(m, org)
      BY <1>4
<1>6. pads' \in Seq(Pad) /\ Len(pads') = m /\ m \in Nat
      BY <1>5, FunctionIsSeq DEF Left
<1>7. PICK lo2, hi2 : lo2 = Lo(pads') /\ hi2 = Hi(pads')
      OBVIOUS
<1>8. \A j \in 1 .. m : lo2[j] = pads'[j].offset /\ hi2[j] = pads'[j].offset + pads'[j].size
      BY <1>6, <1>7, LoHi
<1>9. \A j \in 1 .. m :
         /\ org[j] \in 1 .. n
         /\ \/ org[j] # i /\ lo2[j] = lo[org[j]] /\ hi2[j] = hi[org[j]]
            \/ org[j] = i /\ lo2[j] = lo[i] /\ hi2[j] = o /\ lo[i] < o
            \/ org[j] = i /\ lo2[j] = e /\ hi2[j] = hi[i] /\ e < hi[i]
  <2> TAKE j \in 1 .. m
  <2>1. PICK q \in 1 .. n : q = org[j]
        BY <1>5 DEF Left
  <2>2. lo[q] = pads[q].offset /\ hi[q] = pads[q].offset + pads[q].size
        BY <1>a
  <2>3. CASE q # i /\ pads'[j] = pads[q]
        BY <2>1, <2>2, <2>3, <1>8
  <2>4. CASE q = i /\ pads'[j] = Space(po, pad) /\ pad > 0
        BY <2>1, <2>4, <1>8, <1>x, <1>p, <1>k, <1>o, SMTT(20)
  <2>5. CASE q = i /\ pads'[j] = Space(e, remain) /\ remain > 0
    <3>1. lo2[j] = e /\ hi2[j] = e + remain
          BY <2>5, <1>8, <1>y
    <3> QED BY <2>1, <2>5, <3>1, <1>e
  <2> QED BY <2>1, <2>3, <2>4, <2>5, <1>5 DEF Left
<1>10. \A j, k \in 1 .. m : j # k /\ org[j] = org[k] => org[j] = i /\ lo2[j] # lo2[k]
  <2>1. \A j, k \in 1 .. m : j # k /\ org[j] = org[k] =>
                                org[j] = i /\ pads'[j].offset # pads'[k].offset
        BY <1>5, Zenon DEF Left
  <2>2. \A j \in 1 .. m : lo2[j] = pads'[j].offset
        BY <1>8, Zenon
  <2> QED BY <2>1, <2>2, SMTT(20)
<1>11. lo[i] <= o /\ o < e /\ e <= hi[i]
       BY <1>e, <1>p, <1>k, <1>o, <1>r
<1>12. /\ \A j \in 1 .. m :
             /\ lo2[j] < hi2[j] /\ (hi2[j] <= o \/ e <= lo2[j])
             /\ lo[org[j]] <= lo2[j] /\ hi2[j] <= hi[org[j]]
       /\ \A j, k \in 1 .. m : j # k => hi2[j] <= lo2[k] \/ hi2[k] <= lo2[j]
  <2>1. o \in Int /\ e \in Int /\ m \in Nat /\ i \in 1 .. n
        BY <1>n, <1>6
  <2>2. CutOut(n, m, i, o, e, lo, hi, lo2, hi2, org)
        BY <2>1, <1>b, <1>9, <1>10, <1>11, Zenon DEF CutOut
  <2> QED BY <2>2, Pieces, ZenonT(60)
<1> QED BY <1>n, <1>h, <1>o, <1>e, <1>5, <1>6, <1>7, <1>9, <1>11, <1>12 DEF Left

-----------------------------------------------------------------------------
Fld == [lo : Nat, hi : Nat]

\* Bits a .. b - 1 are free of scalars.
Clear(a, b) ==
    \A j \in 1 .. Len(fields) : fields[j].hi <= a \/ b <= fields[j].lo

FieldsOK ==
    /\ \A j \in 1 .. Len(fields) : fields[j].lo < fields[j].hi /\ fields[j].hi <= 8 * ssize
    /\ \A j, k \in 1 .. Len(fields) : j # k =>
          fields[j].hi <= fields[k].lo \/ fields[k].hi <= fields[j].lo

OffPads == \A k \in 1 .. Len(pads) : Clear(8 * Lo(pads)[k], 8 * Hi(pads)[k])

\* The free bits of the byte that bools are packed into.
OpenByte(b) ==
    /\ 8 * b < bitOffs /\ bitOffs < 8 * b + 8
    /\ b + 1 <= ssize
    /\ Clear(bitOffs, 8 * b + 8)
    /\ \A k \in 1 .. Len(pads) : Hi(pads)[k] <= b \/ b + 1 <= Lo(pads)[k]

BitsOK == bitOffs % 8 # 0 => \E b \in Nat : OpenByte(b)

\* The inductive invariant: what is free (the padding spaces, the open byte of
\* bools and all that follows the message) is free of scalars.
Inv == TypeOK /\ PadsOK /\ FieldsOK /\ OffPads /\ BitsOK

\* The bounds of a scalar are numbers.
LEMMA FldFields ==
    ASSUME NEW s \in Seq(Fld), NEW j \in 1 .. Len(s)
    PROVE  s[j] \in Fld /\ s[j].lo \in Nat /\ s[j].hi \in Nat
<1>1. s[j] \in Fld OBVIOUS
<1> QED BY <1>1 DEF Fld

\* A scalar has the bounds it is made with.
LEMMA FldMade ==
    ASSUME NEW lo \in Nat, NEW bits \in Nat
    PROVE  /\ Field(lo, bits) \in Fld
           /\ Field(lo, bits).lo = lo /\ Field(lo, bits).hi = lo + bits
BY DEF Field, Fld

\* Part of free bits is free.
LEMMA ClearInside ==
    ASSUME fields \in Seq(Fld), NEW a \in Nat, NEW b \in Nat, NEW c \in Nat, NEW d \in Nat,
           Clear(a, b), a <= c, d <= b
    PROVE  Clear(c, d)
<1> SUFFICES ASSUME NEW j \in 1 .. Len(fields)
             PROVE  fields[j].hi <= c \/ d <= fields[j].lo
    BY DEF Clear
<1>1. fields[j].lo \in Nat /\ fields[j].hi \in Nat
      BY FldFields
<1>2. fields[j].hi <= a \/ b <= fields[j].lo
      BY DEF Clear
<1> QED BY <1>1, <1>2

\* A scalar placed in free bits is apart from all others; what was free stays
\* free if it is off the scalar.
LEMMA PlacedFacts ==
    ASSUME fields \in Seq(Fld), ssize \in Nat, ssize' \in Nat, ssize <= ssize', FieldsOK,
           NEW lo \in Nat, NEW bits \in Nat, bits > 0, lo + bits <= 8 * ssize',
           Clear(lo, lo + bits), Placed(lo, bits)
    PROVE  /\ fields' \in Seq(Fld)
           /\ FieldsOK'
           /\ \A a, b \in Nat : Clear(a, b) /\ (lo + bits <= a \/ b <= lo) => Clear(a, b)'
<1>n. PICK n \in Nat : n = Len(fields)
      OBVIOUS
<1>r. PICK r \in Fld : r = Field(lo, bits) /\ r.lo = lo /\ r.hi = lo + bits
      BY FldMade
<1>1. fields' = Append(fields, r)
      BY <1>r DEF Placed
<1>2. /\ fields' \in Seq(Fld) /\ Len(fields') = n + 1 /\ fields'[n + 1] = r
      /\ \A j \in 1 .. n : fields'[j] = fields[j]
      BY <1>1, <1>n
<1>3. \A j \in 1 .. n : /\ fields[j].lo \in Nat /\ fields[j].hi \in Nat
                        /\ fields[j].lo < fields[j].hi /\ fields[j].hi <= 8 * ssize
                        /\ fields[j].hi <= lo \/ lo + bits <= fields[j].lo
      BY <1>n, FldFields DEF FieldsOK, Clear
<1>4. \A j \in 1 .. n + 1 : j \in 1 .. n \/ j = n + 1
      OBVIOUS
<1>5. ASSUME NEW j \in 1 .. n + 1
      PROVE  fields'[j].lo < fields'[j].hi /\ fields'[j].hi <= 8 * ssize'
  <2>1. CASE j \in 1 .. n
    <3>1. PICK lo1, hi1 \in Nat : /\ lo1 = fields[j].lo /\ hi1 = fields[j].hi
                                 /\ lo1 < hi1 /\ hi1 <= 8 * ssize
          BY <2>1, <1>3
    <3>2. PICK u, v \in Nat : u = ssize /\ v = ssize' /\ u <= v
          OBVIOUS
    <3>3. hi1 <= 8 * v
          BY <3>1, <3>2
    <3>4. fields'[j].lo = lo1 /\ fields'[j].hi = hi1
          BY <2>1, <3>1, <1>2
    <3> QED BY <3>1, <3>2, <3>3, <3>4, ZenonT(30)
  <2>2. CASE j = n + 1 BY <2>2, <1>2, <1>r
  <2> QED BY <2>1, <2>2, <1>4
<1>6. ASSUME NEW j \in 1 .. n + 1, NEW k \in 1 .. n + 1, j # k
      PROVE  fields'[j].hi <= fields'[k].lo \/ fields'[k].hi <= fields'[j].lo
  <2>1. CASE j \in 1 .. n /\ k \in 1 .. n BY <2>1, <1>2, <1>6, <1>n DEF FieldsOK
  <2>2. CASE j = n + 1 /\ k \in 1 .. n BY <2>2, <1>2, <1>r, <1>3
  <2>3. CASE k = n + 1 /\ j \in 1 .. n BY <2>3, <1>2, <1>r, <1>3
  <2> QED BY <2>1, <2>2, <2>3, <1>4, <1>6
<1>7. FieldsOK'
      BY <1>2, <1>5, <1>6 DEF FieldsOK
<1>8. ASSUME NEW a \in Nat, NEW b \in Nat, Clear(a, b), lo + bits <= a \/ b <= lo
      PROVE  Clear(a, b)'
  <2> SUFFICES ASSUME NEW j \in 1 .. n + 1
               PROVE  fields'[j].hi <= a \/ b <= fields'[j].lo
      BY <1>2 DEF Clear
  <2>1. CASE j \in 1 .. n BY <2>1, <1>2, <1>8, <1>n DEF Clear
  <2>2. CASE j = n + 1 BY <2>2, <1>2, <1>r, <1>8
  <2> QED BY <2>1, <2>2, <1>4
<1> QED BY <1>2, <1>7, <1>8

-----------------------------------------------------------------------------
\* Everything after the scalar part is free.
LEMMA ClearAtEnd ==
    ASSUME fields \in Seq(Fld), ssize \in Nat, FieldsOK, NEW a \in Nat, NEW b \in Nat,
           8 * ssize <= a
    PROVE  Clear(a, b)
<1> SUFFICES ASSUME NEW j \in 1 .. Len(fields)
             PROVE  fields[j].hi <= a
    BY DEF Clear
<1>1. fields[j].hi \in Nat /\ fields[j].hi <= 8 * ssize
      BY FldFields DEF FieldsOK
<1> QED BY <1>1

\* The part of the invariant that placing a scalar can disturb.
Sound ==
    /\ fields \in Seq(Fld) /\ pads \in Seq(Pad) /\ link \in 0 .. Len(pads)
    /\ ssize \in Nat /\ bitOffs \in Nat
    /\ PadsOK /\ FieldsOK /\ OffPads /\ BitsOK

\* The bits from bo to the end of byte b are free, off [lo, hi) and off the
\* spaces that the step leaves.
StaysOpen(b, bo, lo, hi) ==
    /\ 8 * b < bo /\ bo < 8 * b + 8 /\ b + 1 <= ssize'
    /\ Clear(bo, 8 * b + 8) /\ (hi <= bo \/ 8 * b + 8 <= lo)
    /\ \A k \in 1 .. Len(pads') : Hi(pads')[k] <= b \/ b + 1 <= Lo(pads')[k]

\* The spaces the step leaves are free and off [lo, hi).
StayFree(lo, hi) ==
    \A k \in 1 .. Len(pads') : \A c, d \in Nat :
       c = Lo(pads')[k] /\ d = Hi(pads')[k] =>
          Clear(8 * c, 8 * d) /\ (hi <= 8 * c \/ 8 * d <= lo)

\* A step that places a scalar in free bits keeps what is free apart.
LEMMA PlaceKeeps ==
    ASSUME Sound, NEW lo \in Nat, NEW bits \in Nat, bits > 0,
           ssize' \in Nat, ssize <= ssize', lo + bits <= 8 * ssize',
           Clear(lo, lo + bits), Placed(lo, bits),
           pads' \in Seq(Pad), link' \in 0 .. Len(pads'), PadsOK',
           StayFree(lo, lo + bits),
           NEW bo \in Nat, bitOffs' = bo,
           bo % 8 # 0 => \E b \in Nat : StaysOpen(b, bo, lo, lo + bits)
    PROVE  Sound'
<1>1. /\ fields' \in Seq(Fld) /\ FieldsOK'
      /\ \A c, d \in Nat : Clear(c, d) /\ (lo + bits <= c \/ d <= lo) => Clear(c, d)'
      BY PlacedFacts DEF Sound
<1>2. OffPads'
  <2> SUFFICES ASSUME NEW k \in 1 .. Len(pads')
               PROVE  Clear(8 * Lo(pads)[k], 8 * Hi(pads)[k])'
      BY DEF OffPads
  <2>1. PICK c, d \in Nat : c = Lo(pads')[k] /\ d = Hi(pads')[k]
        BY LoHi
  <2>2. Clear(8 * c, 8 * d) /\ (lo + bits <= 8 * c \/ 8 * d <= lo)
        BY <2>1 DEF StayFree
  <2>3. 8 * c \in Nat /\ 8 * d \in Nat
        OBVIOUS
  <2>4. Clear(8 * c, 8 * d)'
        BY <2>2, <2>3, <1>1
  <2> QED BY <2>1, <2>4
<1>3. BitsOK'
  <2> SUFFICES ASSUME bo % 8 # 0 PROVE \E b \in Nat : OpenByte(b)'
      BY DEF BitsOK
  <2>1. PICK b \in Nat : StaysOpen(b, bo, lo, lo + bits)
        OBVIOUS
  <2>2. 8 * b + 8 \in Nat
        OBVIOUS
  <2>3. Clear(bo, 8 * b + 8)'
        BY <2>1, <2>2, <1>1 DEF StaysOpen
  <2>4. OpenByte(b)'
        BY <2>1, <2>3 DEF StaysOpen, OpenByte, Clear
  <2> QED BY <2>4
<1> QED BY <1>1, <1>2, <1>3 DEF Sound

-----------------------------------------------------------------------------
\* What taking bytes o .. o + size - 1 out of a space means for the message.
LEMMA TakenFacts ==
    ASSUME Sound, NEW size \in {1, 2, 4, 8}, NEW i \in Usable(size), TakePad(i, size),
           NEW o \in Nat, o = RoundUp(pads[i].offset, size), ssize' = ssize
    PROVE  /\ pads' \in Seq(Pad) /\ link' \in 0 .. Len(pads') /\ PadsOK'
           /\ o + size <= ssize /\ Clear(8 * o, 8 * (o + size))
           /\ \A k \in 1 .. Len(pads') : \A c, d \in Nat :
                c = Lo(pads')[k] /\ d = Hi(pads')[k] =>
                   Clear(8 * c, 8 * d) /\ (o + size <= c \/ d <= o)
           /\ \A b \in Nat :
                (\A k \in 1 .. Len(pads) : Hi(pads)[k] <= b \/ b + 1 <= Lo(pads)[k]) =>
                   /\ \A k \in 1 .. Len(pads') : Hi(pads')[k] <= b \/ b + 1 <= Lo(pads')[k]
                   /\ o + size <= b \/ b + 1 <= o
<1>0. /\ fields \in Seq(Fld) /\ pads \in Seq(Pad) /\ link \in 0 .. Len(pads)
      /\ ssize \in Nat /\ PadsOK /\ OffPads
      BY DEF Sound
<1>s. PICK sz \in Nat : sz = size
      OBVIOUS
<1>1. /\ pads' \in Seq(Pad) /\ link' \in 0 .. Len(pads')
      /\ i \in 1 .. Len(pads)
      /\ Lo(pads)[i] <= o /\ o + size <= Hi(pads)[i]
      /\ \A j \in 1 .. Len(pads') :
           /\ Lo(pads')[j] < Hi(pads')[j]
           /\ Hi(pads')[j] <= o \/ o + size <= Lo(pads')[j]
           /\ \E k \in 1 .. Len(pads) :
                 Lo(pads)[k] <= Lo(pads')[j] /\ Hi(pads')[j] <= Hi(pads)[k]
      /\ \A j, k \in 1 .. Len(pads') : j # k =>
           Hi(pads')[j] <= Lo(pads')[k] \/ Hi(pads')[k] <= Lo(pads')[j]
      BY <1>0, TakePadFacts
<1>2. PICK pl, ph \in Nat : pl = Lo(pads)[i] /\ ph = Hi(pads)[i]
      BY <1>0, <1>1, LoHi
<1>3. ph <= ssize /\ Clear(8 * pl, 8 * ph)
      BY <1>0, <1>1, <1>2 DEF PadsOK, OffPads
<1>4. pl <= o /\ o + sz <= ph
      BY <1>1, <1>2, <1>s
<1>5. o + size <= ssize
      BY <1>3, <1>4, <1>s, <1>0
<1>6. Clear(8 * o, 8 * (o + size))
  <2>1. /\ 8 * pl \in Nat /\ 8 * ph \in Nat /\ 8 * o \in Nat /\ 8 * (o + sz) \in Nat
        /\ 8 * pl <= 8 * o /\ 8 * (o + sz) <= 8 * ph
        BY <1>4
  <2>2. Clear(8 * o, 8 * (o + sz))
        BY <2>1, <1>3, <1>0, ClearInside
  <2> QED BY <2>2, <1>s
<1> DEFINE Piece(j, k, c, d, c1, d1) ==
             /\ c = Lo(pads')[j] /\ d = Hi(pads')[j]
             /\ c1 = Lo(pads)[k] /\ d1 = Hi(pads)[k]
             /\ c < d /\ (d <= o \/ o + size <= c) /\ c1 <= c /\ d <= d1
             /\ d1 <= ssize /\ Clear(8 * c1, 8 * d1)
<1> HIDE DEF Piece
<1>7. ASSUME NEW j \in 1 .. Len(pads')
      PROVE  \E k \in 1 .. Len(pads) : \E c, d, c1, d1 \in Nat : Piece(j, k, c, d, c1, d1)
  <2>1. PICK c, d \in Nat : c = Lo(pads')[j] /\ d = Hi(pads')[j]
        BY <1>1, LoHi
  <2>2. PICK k \in 1 .. Len(pads) :
               Lo(pads)[k] <= Lo(pads')[j] /\ Hi(pads')[j] <= Hi(pads)[k]
        BY <1>1
  <2>3. PICK c1, d1 \in Nat : c1 = Lo(pads)[k] /\ d1 = Hi(pads)[k]
        BY <1>0, LoHi
  <2>4. d1 <= ssize /\ Clear(8 * c1, 8 * d1)
        BY <2>3, <1>0 DEF PadsOK, OffPads
  <2>5. c < d /\ (d <= o \/ o + size <= c) /\ c1 <= c /\ d <= d1
        BY <2>1, <2>2, <2>3, <1>1
  <2>6. Piece(j, k, c, d, c1, d1) BY <2>1, <2>3, <2>4, <2>5 DEF Piece
  <2> QED BY <2>6
<1>8. PadsOK'
  <2>1. ASSUME NEW j \in 1 .. Len(pads')
        PROVE  Hi(pads')[j] <= ssize
    <3>1. PICK k \in 1 .. Len(pads) : \E c, d, c1, d1 \in Nat : Piece(j, k, c, d, c1, d1)
          BY <1>7
    <3>2. PICK c, d, c1, d1 \in Nat : Piece(j, k, c, d, c1, d1)
          BY <3>1
    <3>3. d = Hi(pads')[j] /\ d <= d1 /\ d1 <= ssize
          BY <3>2 DEF Piece
    <3> QED BY <3>3, <1>0
  <2> QED BY <2>1, <1>1 DEF PadsOK
<1>9. ASSUME NEW j \in 1 .. Len(pads'), NEW c \in Nat, NEW d \in Nat,
             c = Lo(pads')[j], d = Hi(pads')[j]
      PROVE  Clear(8 * c, 8 * d) /\ (o + size <= c \/ d <= o)
  <2>a. PICK k \in 1 .. Len(pads) : \E cc, dd, c1, d1 \in Nat : Piece(j, k, cc, dd, c1, d1)
        BY <1>7
  <2>b. PICK cc, dd, c1, d1 \in Nat : Piece(j, k, cc, dd, c1, d1)
        BY <2>a
  <2>1. c1 <= c /\ d <= d1 /\ Clear(8 * c1, 8 * d1) /\ (d <= o \/ o + size <= c)
        BY <2>b, <1>9 DEF Piece
  <2>2. /\ 8 * c1 \in Nat /\ 8 * d1 \in Nat /\ 8 * c \in Nat /\ 8 * d \in Nat
        /\ 8 * c1 <= 8 * c /\ 8 * d <= 8 * d1
        BY <2>1
  <2> QED BY <2>1, <2>2, <1>0, ClearInside
<1>10. ASSUME NEW b \in Nat,
              \A k \in 1 .. Len(pads) : Hi(pads)[k] <= b \/ b + 1 <= Lo(pads)[k]
       PROVE  /\ \A k \in 1 .. Len(pads') : Hi(pads')[k] <= b \/ b + 1 <= Lo(pads')[k]
              /\ o + size <= b \/ b + 1 <= o
  <2>1. ASSUME NEW j \in 1 .. Len(pads')
        PROVE  Hi(pads')[j] <= b \/ b + 1 <= Lo(pads')[j]
    <3>a. PICK k \in 1 .. Len(pads) : \E c, d, c1, d1 \in Nat : Piece(j, k, c, d, c1, d1)
          BY <1>7
    <3>b. PICK c, d, c1, d1 \in Nat : Piece(j, k, c, d, c1, d1)
          BY <3>a
    <3>1. /\ c = Lo(pads')[j] /\ d = Hi(pads')[j]
          /\ c1 = Lo(pads)[k] /\ d1 = Hi(pads)[k]
          /\ c1 <= c /\ d <= d1
          BY <3>b DEF Piece
    <3>2. d1 <= b \/ b + 1 <= c1
      <4>1. Hi(pads)[k] <= b \/ b + 1 <= Lo(pads)[k]
            BY <1>10, Zenon
      <4>2. c1 = Lo(pads)[k] /\ d1 = Hi(pads)[k]
            BY <3>1
      <4> QED BY <4>1, <4>2, Zenon
    <3>3. d <= b \/ b + 1 <= c
      <4>1. c1 <= c /\ d <= d1
            BY <3>1, Zenon
      <4> QED BY <4>1, <3>2
    <3>4. c = Lo(pads')[j] /\ d = Hi(pads')[j]
          BY <3>1, Zenon
    <3> QED BY <3>3, <3>4, Zenon
  <2>2. ph <= b \/ b + 1 <= pl
        BY <1>10, <1>1, <1>2
  <2>3. o + sz <= b \/ b + 1 <= o
        BY <2>2, <1>4
  <2> QED BY <2>1, <2>3, <1>s
<1> QED BY <1>1, <1>5, <1>6, <1>8, <1>9, <1>10

-----------------------------------------------------------------------------
\* Spaces that a step leaves alone.
LEMMA KeptFacts ==
    ASSUME Sound, ssize' \in Nat, ssize <= ssize', UNCHANGED <<pads, link>>
    PROVE  /\ pads' \in Seq(Pad) /\ link' \in 0 .. Len(pads') /\ PadsOK'
           /\ \A k \in 1 .. Len(pads') : \A c, d \in Nat :
                c = Lo(pads')[k] /\ d = Hi(pads')[k] =>
                   Clear(8 * c, 8 * d) /\ d <= ssize
<1>0. /\ pads \in Seq(Pad) /\ link \in 0 .. Len(pads) /\ ssize \in Nat /\ PadsOK /\ OffPads
      BY DEF Sound
<1>1. ASSUME NEW k \in 1 .. Len(pads)
      PROVE  Hi(pads)[k] <= ssize'
  <2>1. PICK d \in Nat : d = Hi(pads)[k]
        BY <1>0, LoHi
  <2>2. d <= ssize
        BY <2>1, <1>0 DEF PadsOK
  <2> QED BY <2>1, <2>2, <1>0
<1>2. PadsOK'
      BY <1>0, <1>1 DEF PadsOK
<1>3. ASSUME NEW k \in 1 .. Len(pads), NEW c \in Nat, NEW d \in Nat,
             c = Lo(pads)[k], d = Hi(pads)[k]
      PROVE  Clear(8 * c, 8 * d) /\ d <= ssize
      BY <1>0, <1>3 DEF PadsOK, OffPads
<1> QED BY <1>0, <1>2, <1>3

\* The bit after a bit of byte b is in byte b, or starts the next byte.
LEMMA NextBit ==
    ASSUME NEW x \in Nat, NEW b \in Nat, 8 * b < x, x < 8 * b + 8, (x + 1) % 8 # 0
    PROVE  x + 1 < 8 * b + 8
OBVIOUS

\* A bool in the open byte takes a free bit.
LEMMA BoolInByteKeeps ==
    ASSUME Sound, BoolInByte
    PROVE  Sound'
<1>0. /\ fields \in Seq(Fld) /\ pads \in Seq(Pad) /\ ssize \in Nat /\ bitOffs \in Nat
      /\ BitsOK
      BY DEF Sound
<1>u. UNCHANGED <<pads, link>> /\ ssize' = ssize /\ ssize' \in Nat /\ ssize <= ssize'
      BY <1>0 DEF BoolInByte
<1>x. PICK x \in Nat : x = bitOffs
      BY <1>0
<1>b. PICK b \in Nat : OpenByte(b)
      BY <1>0 DEF BoolInByte, BitsOK
<1>1. /\ 8 * b < x /\ x < 8 * b + 8 /\ b + 1 <= ssize
      /\ Clear(x, 8 * b + 8)
      /\ \A k \in 1 .. Len(pads) : Hi(pads)[k] <= b \/ b + 1 <= Lo(pads)[k]
      BY <1>b, <1>x DEF OpenByte
<1>2. /\ 8 * b + 8 \in Nat /\ x + 1 \in Nat /\ x <= x + 1 /\ x + 1 <= 8 * b + 8
      /\ x + 1 <= 8 * ssize' /\ x <= x
      BY <1>1, <1>u
<1>3. Clear(x, x + 1) /\ Clear(x + 1, 8 * b + 8)
      BY <1>0, <1>1, <1>2, ClearInside
<1>4. /\ pads' \in Seq(Pad) /\ link' \in 0 .. Len(pads') /\ PadsOK'
      /\ \A k \in 1 .. Len(pads') : \A c, d \in Nat :
            c = Lo(pads')[k] /\ d = Hi(pads')[k] => Clear(8 * c, 8 * d)
      BY <1>u, KeptFacts
<1>5. ASSUME NEW k \in 1 .. Len(pads'), NEW c \in Nat, NEW d \in Nat,
             c = Lo(pads')[k], d = Hi(pads')[k]
      PROVE  Clear(8 * c, 8 * d) /\ (x + 1 <= 8 * c \/ 8 * d <= x)
  <2>1. d <= b \/ b + 1 <= c
        BY <1>1, <1>5, <1>u
  <2>2. x + 1 <= 8 * c \/ 8 * d <= x
        BY <2>1, <1>1
  <2> QED BY <2>2, <1>4, <1>5
<1>6. (x + 1) % 8 # 0 => StaysOpen(b, x + 1, x, x + 1)
  <2> HAVE (x + 1) % 8 # 0
  <2>1. x + 1 < 8 * b + 8 /\ 8 * b < x + 1
        BY <1>1, NextBit
  <2> QED BY <2>1, <1>1, <1>2, <1>3, <1>u DEF StaysOpen
<1>7. Placed(x, 1) /\ bitOffs' = x + 1
      BY <1>x DEF BoolInByte
<1>8. StayFree(x, x + 1)
      BY <1>5 DEF StayFree
<1> QED BY <1>2, <1>3, <1>4, <1>6, <1>7, <1>8, <1>u, PlaceKeeps

\* A bool in a padding space opens its byte.
LEMMA BoolInPadKeeps ==
    ASSUME Sound, BoolInPad
    PROVE  Sound'
<1>0. /\ fields \in Seq(Fld) /\ pads \in Seq(Pad) /\ ssize \in Nat
      BY DEF Sound
<1>i. PICK i \in Usable(1) :
         TakePad(i, 1) /\ Placed(8 * pads[i].offset, 1) /\ bitOffs' = 8 * pads[i].offset + 1
      BY DEF BoolInPad
<1>u. ssize' = ssize
      BY DEF BoolInPad
<1>1. i \in 1 .. Len(pads)
      BY <1>0 DEF Usable
<1>2. PICK o \in Nat : o = pads[i].offset
      BY <1>0, <1>1, LoHi
<1>3. o = RoundUp(o, 1)
      BY DEF RoundUp
<1>4. /\ pads' \in Seq(Pad) /\ link' \in 0 .. Len(pads') /\ PadsOK'
      /\ o + 1 <= ssize /\ Clear(8 * o, 8 * (o + 1))
      /\ \A k \in 1 .. Len(pads') : \A c, d \in Nat :
           c = Lo(pads')[k] /\ d = Hi(pads')[k] =>
              Clear(8 * c, 8 * d) /\ (o + 1 <= c \/ d <= o)
      BY <1>i, <1>2, <1>3, <1>u, TakenFacts
<1>5. PICK lo \in Nat : lo = 8 * o /\ lo + 1 <= 8 * (o + 1) /\ lo <= lo + 1
      OBVIOUS
<1>6. Clear(lo, lo + 1) /\ Clear(lo + 1, 8 * (o + 1))
  <2>1. lo + 1 \in Nat /\ 8 * (o + 1) \in Nat /\ lo <= lo /\ 8 * (o + 1) <= 8 * (o + 1)
        OBVIOUS
  <2> QED BY <2>1, <1>0, <1>4, <1>5, ClearInside
<1>7. ASSUME NEW k \in 1 .. Len(pads'), NEW c \in Nat, NEW d \in Nat,
             c = Lo(pads')[k], d = Hi(pads')[k]
      PROVE  Clear(8 * c, 8 * d) /\ (lo + 1 <= 8 * c \/ 8 * d <= lo)
  <2>1. Clear(8 * c, 8 * d) /\ (o + 1 <= c \/ d <= o)
        BY <1>4, <1>7
  <2> QED BY <2>1, <1>5
<1>8. StaysOpen(o, lo + 1, lo, lo + 1)
  <2>1. 8 * (o + 1) = 8 * o + 8 /\ 8 * o < lo + 1 /\ lo + 1 < 8 * o + 8
        BY <1>5
  <2>2. \A k \in 1 .. Len(pads') : Hi(pads')[k] <= o \/ o + 1 <= Lo(pads')[k]
    <3> TAKE k \in 1 .. Len(pads')
    <3>1. PICK c, d \in Nat : c = Lo(pads')[k] /\ d = Hi(pads')[k]
          BY <1>4, LoHi
    <3> QED BY <3>1, <1>4
  <2> QED BY <2>1, <2>2, <1>4, <1>6, <1>u DEF StaysOpen
<1>9. Placed(lo, 1) /\ bitOffs' = lo + 1 /\ lo + 1 \in Nat
      BY <1>i, <1>2, <1>5
<1>11. lo + 1 <= 8 * ssize'
      BY <1>5, <1>4, <1>u, <1>0
<1>12. StayFree(lo, lo + 1)
      BY <1>7 DEF StayFree
<1>10. ssize' \in Nat /\ ssize <= ssize'
      BY <1>u, <1>0
<1>13. (lo + 1) % 8 # 0 => \E b \in Nat : StaysOpen(b, lo + 1, lo, lo + 1)
      BY <1>8
<1>14. 1 \in Nat /\ 1 > 0
      OBVIOUS
<1> QED BY <1>4, <1>6, <1>9, <1>10, <1>11, <1>12, <1>13, <1>14, PlaceKeeps

\* The open byte of bools is kept by a step that leaves bitOffs alone.
LEMMA OpenStays ==
    ASSUME Sound, ssize' \in Nat, ssize <= ssize', NEW lo \in Nat, NEW hi \in Nat,
           \A b \in Nat : OpenByte(b) =>
              /\ hi <= 8 * b \/ 8 * b + 8 <= lo
              /\ \A k \in 1 .. Len(pads') : Hi(pads')[k] <= b \/ b + 1 <= Lo(pads')[k]
    PROVE  bitOffs % 8 # 0 => \E b \in Nat : StaysOpen(b, bitOffs, lo, hi)
<1> HAVE bitOffs % 8 # 0
<1>0. ssize \in Nat /\ bitOffs \in Nat /\ BitsOK
      BY DEF Sound
<1>1. PICK b \in Nat : OpenByte(b)
      BY <1>0 DEF BitsOK
<1>2. /\ 8 * b < bitOffs /\ bitOffs < 8 * b + 8 /\ b + 1 <= ssize
      /\ Clear(bitOffs, 8 * b + 8)
      BY <1>1 DEF OpenByte
<1>3. /\ hi <= 8 * b \/ 8 * b + 8 <= lo
      /\ \A k \in 1 .. Len(pads') : Hi(pads')[k] <= b \/ b + 1 <= Lo(pads')[k]
      BY <1>1
<1>4. b + 1 <= ssize' /\ (hi <= bitOffs \/ 8 * b + 8 <= lo)
      BY <1>0, <1>2, <1>3
<1>5. StaysOpen(b, bitOffs, lo, hi)
      BY <1>2, <1>3, <1>4 DEF StaysOpen
<1> QED BY <1>5

\* A scalar in a padding space takes free bytes.
LEMMA ScalarInPadKeeps ==
    ASSUME Sound, NEW size \in {1, 2, 4, 8}, ScalarInPad(size)
    PROVE  Sound'
<1>0. /\ fields \in Seq(Fld) /\ pads \in Seq(Pad) /\ ssize \in Nat /\ bitOffs \in Nat
      BY DEF Sound
<1>i. PICK i \in Usable(size) :
         TakePad(i, size) /\ Placed(8 * RoundUp(pads[i].offset, size), 8 * size)
      BY DEF ScalarInPad
<1>u. ssize' = ssize /\ bitOffs' = bitOffs /\ ssize' \in Nat /\ ssize <= ssize'
      BY <1>0 DEF ScalarInPad
<1>1. i \in 1 .. Len(pads)
      BY <1>0 DEF Usable
<1>2. PICK o \in Nat : o = RoundUp(pads[i].offset, size)
      BY <1>0, <1>1, LoHi, RoundUpFacts
<1>4. /\ pads' \in Seq(Pad) /\ link' \in 0 .. Len(pads') /\ PadsOK'
      /\ o + size <= ssize /\ Clear(8 * o, 8 * (o + size))
      /\ \A k \in 1 .. Len(pads') : \A c, d \in Nat :
           c = Lo(pads')[k] /\ d = Hi(pads')[k] =>
              Clear(8 * c, 8 * d) /\ (o + size <= c \/ d <= o)
      /\ \A b \in Nat :
           (\A k \in 1 .. Len(pads) : Hi(pads)[k] <= b \/ b + 1 <= Lo(pads)[k]) =>
              /\ \A k \in 1 .. Len(pads') : Hi(pads')[k] <= b \/ b + 1 <= Lo(pads')[k]
              /\ o + size <= b \/ b + 1 <= o
      BY <1>i, <1>2, <1>u, TakenFacts, ZenonT(60)
<1>5. PICK lo, bits, sz \in Nat : /\ sz = size /\ lo = 8 * o /\ bits = 8 * size /\ bits > 0
                                 /\ lo + bits = 8 * (o + size)
  <2>1. size \in Nat /\ size > 0 /\ 8 * size \in Nat /\ 8 * size > 0 /\ 8 * o \in Nat
        OBVIOUS
  <2>2. PICK sz \in Nat : sz = size
        BY <2>1
  <2>3. 8 * o + 8 * sz = 8 * (o + sz)
        OBVIOUS
  <2> QED BY <2>1, <2>2, <2>3
<1>6. ASSUME NEW k \in 1 .. Len(pads'), NEW c \in Nat, NEW d \in Nat,
             c = Lo(pads')[k], d = Hi(pads')[k]
      PROVE  Clear(8 * c, 8 * d) /\ (lo + bits <= 8 * c \/ 8 * d <= lo)
  <2>1. Clear(8 * c, 8 * d) /\ (o + sz <= c \/ d <= o)
        BY <1>4, <1>5, <1>6
  <2>2. lo + bits = 8 * (o + sz) /\ lo = 8 * o
        BY <1>5
  <2>3. 8 * (o + sz) <= 8 * c \/ 8 * d <= 8 * o
        BY <2>1
  <2> QED BY <2>1, <2>2, <2>3
<1>7. StayFree(lo, lo + bits)
      BY <1>6 DEF StayFree
<1>8. ASSUME NEW b \in Nat, OpenByte(b)
      PROVE  /\ lo + bits <= 8 * b \/ 8 * b + 8 <= lo
             /\ \A k \in 1 .. Len(pads') : Hi(pads')[k] <= b \/ b + 1 <= Lo(pads')[k]
  <2>1. \A k \in 1 .. Len(pads) : Hi(pads)[k] <= b \/ b + 1 <= Lo(pads)[k]
        BY <1>8 DEF OpenByte
  <2>2. /\ \A k \in 1 .. Len(pads') : Hi(pads')[k] <= b \/ b + 1 <= Lo(pads')[k]
        /\ o + sz <= b \/ b + 1 <= o
        BY <2>1, <1>4, <1>5
  <2>3. lo + bits = 8 * (o + sz) /\ lo = 8 * o
        BY <1>5
  <2>4. 8 * (o + sz) <= 8 * b \/ 8 * b + 8 <= 8 * o
        BY <2>2
  <2> QED BY <2>2, <2>3, <2>4
<1>9. lo + bits \in Nat
      OBVIOUS
<1>10. bitOffs % 8 # 0 => \E b \in Nat : StaysOpen(b, bitOffs, lo, lo + bits)
      BY <1>8, <1>9, <1>u, OpenStays
<1>11. Placed(lo, bits) /\ Clear(lo, lo + bits)
      BY <1>i, <1>2, <1>4, <1>5
<1>12. lo + bits <= 8 * ssize'
  <2>1. o + sz <= ssize /\ lo + bits = 8 * (o + sz)
        BY <1>4, <1>5
  <2> QED BY <2>1, <1>u, <1>0
<1>13. PICK bo \in Nat : bo = bitOffs
       BY <1>0
<1> QED BY <1>4, <1>5, <1>7, <1>10, <1>11, <1>12, <1>13, <1>u, PlaceKeeps

\* A bool at the end opens a new byte.
LEMMA BoolAtEndKeeps ==
    ASSUME Sound, BoolAtEnd
    PROVE  Sound'
<1>0. /\ fields \in Seq(Fld) /\ pads \in Seq(Pad) /\ ssize \in Nat /\ FieldsOK
      BY DEF Sound
<1>u. ssize' = ssize + 1 /\ ssize' \in Nat /\ ssize <= ssize' /\ UNCHANGED <<pads, link>>
      BY <1>0 DEF BoolAtEnd
<1>1. PICK lo \in Nat : /\ lo = 8 * ssize /\ lo + 1 \in Nat /\ 8 * ssize + 8 \in Nat
                        /\ lo + 1 <= 8 * ssize' /\ 8 * ssize <= lo + 1
      BY <1>0, <1>u
<1>2. Placed(lo, 1) /\ bitOffs' = lo + 1
      BY <1>1 DEF BoolAtEnd
<1>3. Clear(lo, lo + 1) /\ Clear(lo + 1, 8 * ssize + 8)
      BY <1>0, <1>1, ClearAtEnd
<1>4. /\ pads' \in Seq(Pad) /\ link' \in 0 .. Len(pads') /\ PadsOK'
      /\ \A k \in 1 .. Len(pads') : \A c, d \in Nat :
           c = Lo(pads')[k] /\ d = Hi(pads')[k] => Clear(8 * c, 8 * d) /\ d <= ssize
      BY <1>u, KeptFacts
<1>5. ASSUME NEW k \in 1 .. Len(pads'), NEW c \in Nat, NEW d \in Nat,
             c = Lo(pads')[k], d = Hi(pads')[k]
      PROVE  Clear(8 * c, 8 * d) /\ 8 * d <= lo
  <2>1. Clear(8 * c, 8 * d) /\ d <= ssize
        BY <1>4, <1>5
  <2> QED BY <2>1, <1>0, <1>1
<1>6. StayFree(lo, lo + 1)
      BY <1>5 DEF StayFree
<1>7. StaysOpen(ssize, lo + 1, lo, lo + 1)
  <2>1. 8 * ssize < lo + 1 /\ lo + 1 < 8 * ssize + 8 /\ ssize + 1 <= ssize' /\ lo + 1 <= lo + 1
        BY <1>0, <1>1, <1>u
  <2>2. \A k \in 1 .. Len(pads') : Hi(pads')[k] <= ssize
    <3> TAKE k \in 1 .. Len(pads')
    <3>1. PICK c, d \in Nat : c = Lo(pads')[k] /\ d = Hi(pads')[k]
          BY <1>4, LoHi
    <3> QED BY <3>1, <1>4
  <2> QED BY <2>1, <2>2, <1>3 DEF StaysOpen
<1>8. (lo + 1) % 8 # 0 => \E b \in Nat : StaysOpen(b, lo + 1, lo, lo + 1)
      BY <1>7, <1>0
<1>9. 1 \in Nat /\ 1 > 0
      OBVIOUS
<1> QED BY <1>1, <1>2, <1>3, <1>4, <1>6, <1>8, <1>9, <1>u, PlaceKeeps

\* Hooking a space onto the list after the first link ones.
LEMMA AddPadFacts ==
    ASSUME Sound, NEW from \in Nat, NEW size \in Nat, size > 0, AddPad(from, size),
           ssize <= from, ssize' \in Nat, from + size <= ssize'
    PROVE  /\ pads' \in Seq(Pad) /\ link' \in 0 .. Len(pads') /\ PadsOK'
           /\ \A k \in 1 .. Len(pads') : \A c, d \in Nat :
                c = Lo(pads')[k] /\ d = Hi(pads')[k] =>
                   /\ Clear(8 * c, 8 * d) /\ d <= from + size
                   /\ \/ c = from /\ d = from + size
                      \/ \E j \in 1 .. Len(pads) : c = Lo(pads)[j] /\ d = Hi(pads)[j]
<1>0. /\ fields \in Seq(Fld) /\ pads \in Seq(Pad) /\ link \in 0 .. Len(pads) /\ ssize \in Nat
      /\ PadsOK /\ FieldsOK /\ OffPads
      BY DEF Sound
<1>l. PICK l \in Nat : l = link /\ l <= Len(pads) /\ Len(pads) \in Nat
      BY <1>0
<1>q. PICK q \in Pad : q = Space(from, size) /\ q.offset = from /\ q.size = size
      BY PadMade
<1>1. /\ pads' = [j \in 1 .. l + 1 |-> IF j <= l THEN pads[j] ELSE q]
      /\ link' = l + 1
      BY <1>l, <1>q DEF AddPad
<1>2. \A j \in 1 .. l : pads[j] \in Pad /\ j \in 1 .. Len(pads)
      BY <1>0, <1>l
<1>3. pads' \in [1 .. l + 1 -> Pad] /\ l + 1 \in Nat
      BY <1>1, <1>2
<1>4. pads' \in Seq(Pad) /\ Len(pads') = l + 1
      BY <1>3, FunctionIsSeq
<1>5. /\ \A j \in 1 .. l : pads'[j] = pads[j]
      /\ pads'[l + 1] = q
      BY <1>1
<1>6. /\ \A j \in 1 .. l : /\ Lo(pads')[j] = Lo(pads)[j] /\ Hi(pads')[j] = Hi(pads)[j]
                           /\ Lo(pads)[j] \in Nat /\ Hi(pads)[j] \in Nat
      /\ Lo(pads')[l + 1] = from /\ Hi(pads')[l + 1] = from + size
  <2>1. ASSUME NEW j \in 1 .. l
        PROVE  /\ Lo(pads')[j] = Lo(pads)[j] /\ Hi(pads')[j] = Hi(pads)[j]
               /\ Lo(pads)[j] \in Nat /\ Hi(pads)[j] \in Nat
    <3>1. j \in 1 .. Len(pads) /\ j \in 1 .. Len(pads')
          BY <1>2, <1>4
    <3> QED BY <3>1, <1>0, <1>4, <1>5, LoHi
  <2>2. l + 1 \in 1 .. Len(pads')
        BY <1>4
  <2>3. Lo(pads')[l + 1] = from /\ Hi(pads')[l + 1] = from + size
        BY <2>2, <1>4, <1>5, <1>q, LoHi
  <2> QED BY <2>1, <2>3
<1>7. \A j \in 1 .. l + 1 : j \in 1 .. l \/ j = l + 1
      OBVIOUS
<1>8. \A j \in 1 .. l : Lo(pads)[j] < Hi(pads)[j] /\ Hi(pads)[j] <= ssize
      BY <1>0, <1>2 DEF PadsOK
<1>9. PadsOK'
  <2>1. ASSUME NEW j \in 1 .. l + 1
        PROVE  Lo(pads')[j] < Hi(pads')[j] /\ Hi(pads')[j] <= ssize'
    <3>1. CASE j \in 1 .. l
      <4>1. PICK c, d \in Nat : c = Lo(pads)[j] /\ d = Hi(pads)[j] /\ c < d /\ d <= ssize
            BY <3>1, <1>6, <1>8
      <4> QED BY <4>1, <3>1, <1>6, <1>0
    <3>2. CASE j = l + 1
          BY <3>2, <1>6
    <3> QED BY <3>1, <3>2, <1>7
  <2>2. ASSUME NEW j \in 1 .. l + 1, NEW k \in 1 .. l + 1, j # k
        PROVE  Hi(pads')[j] <= Lo(pads')[k] \/ Hi(pads')[k] <= Lo(pads')[j]
    <3>1. CASE j \in 1 .. l /\ k \in 1 .. l
          BY <3>1, <2>2, <1>0, <1>2, <1>6 DEF PadsOK
    <3>2. CASE j \in 1 .. l /\ k = l + 1
      <4>1. PICK d \in Nat : d = Hi(pads')[j] /\ d <= ssize
            BY <3>2, <1>6, <1>8
      <4> QED BY <4>1, <3>2, <1>6, <1>0
    <3>3. CASE k \in 1 .. l /\ j = l + 1
      <4>1. PICK d \in Nat : d = Hi(pads')[k] /\ d <= ssize
            BY <3>3, <1>6, <1>8
      <4> QED BY <4>1, <3>3, <1>6, <1>0
    <3> QED BY <3>1, <3>2, <3>3, <2>2, <1>7
  <2> QED BY <2>1, <2>2, <1>4 DEF PadsOK
<1>10. ASSUME NEW k \in 1 .. l + 1, NEW c \in Nat, NEW d \in Nat,
              c = Lo(pads')[k], d = Hi(pads')[k]
       PROVE  /\ Clear(8 * c, 8 * d) /\ d <= from + size
              /\ \/ c = from /\ d = from + size
                 \/ \E j \in 1 .. Len(pads) : c = Lo(pads)[j] /\ d = Hi(pads)[j]
  <2>1. CASE k \in 1 .. l
    <3>1. c = Lo(pads)[k] /\ d = Hi(pads)[k] /\ k \in 1 .. Len(pads) /\ d <= ssize
          BY <2>1, <1>6, <1>2, <1>8, <1>10
    <3>2. Clear(8 * c, 8 * d)
          BY <3>1, <1>0 DEF OffPads
    <3>3. d <= from + size
          BY <3>1, <1>0
    <3> QED BY <3>1, <3>2, <3>3
  <2>2. CASE k = l + 1
    <3>1. c = from /\ d = from + size
          BY <2>2, <1>6, <1>10
    <3>2. 8 * ssize <= 8 * c /\ 8 * c \in Nat /\ 8 * d \in Nat
          BY <3>1, <1>0
    <3>3. Clear(8 * c, 8 * d)
          BY <3>2, <1>0, ClearAtEnd
    <3> QED BY <3>1, <3>3
  <2> QED BY <2>1, <2>2, <1>7
<1>11. link' \in 0 .. Len(pads')
       BY <1>1, <1>4
<1> QED BY <1>4, <1>9, <1>10, <1>11

\* A scalar at the end takes free bytes and may leave a padding space.
LEMMA ScalarAtEndKeeps ==
    ASSUME Sound, NEW size \in {1, 2, 4, 8}, ScalarAtEnd(size)
    PROVE  Sound'
<1>0. /\ fields \in Seq(Fld) /\ pads \in Seq(Pad) /\ ssize \in Nat /\ bitOffs \in Nat
      /\ FieldsOK
      BY DEF Sound
<1>1. PICK sz \in Nat : sz = size /\ sz > 0
      OBVIOUS
<1>2. PICK o \in Nat : o = RoundUp(ssize, size) /\ ssize <= o
      BY <1>0, RoundUpFacts
<1>3. /\ IF o > ssize THEN AddPad(ssize, o - ssize) ELSE UNCHANGED <<pads, link>>
      /\ Placed(8 * o, 8 * sz) /\ ssize' = o + sz /\ bitOffs' = bitOffs
      BY <1>1, <1>2 DEF ScalarAtEnd
<1>4. ssize' \in Nat /\ ssize <= ssize' /\ o <= ssize'
      BY <1>0, <1>2, <1>3
<1>5. PICK lo, bits \in Nat : /\ lo = 8 * o /\ bits = 8 * sz /\ bits > 0
                              /\ lo + bits \in Nat /\ lo + bits <= 8 * ssize'
  <2>1. 8 * o \in Nat /\ 8 * sz \in Nat /\ 8 * sz > 0
        BY <1>1
  <2>2. 8 * o + 8 * sz \in Nat /\ 8 * o + 8 * sz <= 8 * ssize'
        BY <1>3
  <2> QED BY <2>1, <2>2
<1>6. Clear(lo, lo + bits)
  <2>1. 8 * ssize <= lo
        BY <1>0, <1>2, <1>5
  <2> QED BY <2>1, <1>0, <1>5, ClearAtEnd
<1>7. /\ pads' \in Seq(Pad) /\ link' \in 0 .. Len(pads') /\ PadsOK'
      /\ \A k \in 1 .. Len(pads') : \A c, d \in Nat :
           c = Lo(pads')[k] /\ d = Hi(pads')[k] =>
              /\ Clear(8 * c, 8 * d) /\ d <= o
              /\ \/ ssize <= c
                 \/ \E j \in 1 .. Len(pads) : c = Lo(pads)[j] /\ d = Hi(pads)[j]
  <2>1. CASE o > ssize
    <3>1. PICK gap \in Nat : gap = o - ssize /\ gap > 0 /\ ssize + gap = o
          BY <2>1, <1>0
    <3>2. AddPad(ssize, gap) /\ ssize <= ssize /\ ssize + gap <= ssize'
          BY <2>1, <3>1, <1>3, <1>4, <1>0
    <3>3. /\ pads' \in Seq(Pad) /\ link' \in 0 .. Len(pads') /\ PadsOK'
          /\ \A k \in 1 .. Len(pads') : \A c, d \in Nat :
               c = Lo(pads')[k] /\ d = Hi(pads')[k] =>
                  /\ Clear(8 * c, 8 * d) /\ d <= ssize + gap
                  /\ \/ c = ssize /\ d = ssize + gap
                     \/ \E j \in 1 .. Len(pads) : c = Lo(pads)[j] /\ d = Hi(pads)[j]
          BY <3>1, <3>2, <1>0, <1>4, AddPadFacts
    <3> QED BY <3>1, <3>3
  <2>2. CASE ~ (o > ssize)
    <3>1. UNCHANGED <<pads, link>>
          BY <2>2, <1>3
    <3>2. /\ pads' \in Seq(Pad) /\ link' \in 0 .. Len(pads') /\ PadsOK'
          /\ \A k \in 1 .. Len(pads') : \A c, d \in Nat :
               c = Lo(pads')[k] /\ d = Hi(pads')[k] => Clear(8 * c, 8 * d) /\ d <= ssize
          BY <3>1, <1>4, KeptFacts
    <3>3. ASSUME NEW k \in 1 .. Len(pads'), NEW c \in Nat, NEW d \in Nat,
                 c = Lo(pads')[k], d = Hi(pads')[k]
          PROVE  /\ Clear(8 * c, 8 * d) /\ d <= o
                 /\ \E j \in 1 .. Len(pads) : c = Lo(pads)[j] /\ d = Hi(pads)[j]
      <4>1. Clear(8 * c, 8 * d) /\ d <= ssize
            BY <3>2, <3>3
      <4>2. d <= o
            BY <4>1, <1>0, <1>2
      <4> QED BY <4>1, <4>2, <3>1, <3>3
    <3> QED BY <3>2, <3>3
  <2> QED BY <2>1, <2>2
<1>8. ASSUME NEW k \in 1 .. Len(pads'), NEW c \in Nat, NEW d \in Nat,
             c = Lo(pads')[k], d = Hi(pads')[k]
      PROVE  Clear(8 * c, 8 * d) /\ 8 * d <= lo
  <2>1. Clear(8 * c, 8 * d) /\ d <= o
        BY <1>7, <1>8
  <2> QED BY <2>1, <1>5
<1>9. StayFree(lo, lo + bits)
      BY <1>8 DEF StayFree
<1>10. ASSUME NEW b \in Nat, OpenByte(b)
       PROVE  /\ 8 * b + 8 <= lo
              /\ \A k \in 1 .. Len(pads') : Hi(pads')[k] <= b \/ b + 1 <= Lo(pads')[k]
  <2>1. /\ b + 1 <= ssize
        /\ \A k \in 1 .. Len(pads) : Hi(pads)[k] <= b \/ b + 1 <= Lo(pads)[k]
        BY <1>10 DEF OpenByte
  <2>2. 8 * b + 8 <= lo
        BY <2>1, <1>0, <1>2, <1>5
  <2>3. ASSUME NEW k \in 1 .. Len(pads')
        PROVE  Hi(pads')[k] <= b \/ b + 1 <= Lo(pads')[k]
    <3>1. PICK c, d \in Nat : c = Lo(pads')[k] /\ d = Hi(pads')[k]
      <4>1. pads' \in Seq(Pad)
            BY <1>7, Zenon
      <4> QED BY <4>1, LoHi
    <3>2. \/ ssize <= c
          \/ \E j \in 1 .. Len(pads) : c = Lo(pads)[j] /\ d = Hi(pads)[j]
          BY <3>1, <1>7, ZenonT(40)
    <3>3. CASE ssize <= c
      <4>1. b + 1 <= c
            BY <3>3, <2>1, <1>0
      <4> QED BY <4>1, <3>1
    <3>4. CASE \E j \in 1 .. Len(pads) : c = Lo(pads)[j] /\ d = Hi(pads)[j]
          BY <3>1, <3>4, <2>1
    <3> QED BY <3>2, <3>3, <3>4
  <2> QED BY <2>2, <2>3
<1>11. bitOffs % 8 # 0 => \E b \in Nat : StaysOpen(b, bitOffs, lo, lo + bits)
       BY <1>10, <1>4, <1>5, OpenStays
<1>12. PICK bo \in Nat : bo = bitOffs
       BY <1>0
<1> QED BY <1>3, <1>4, <1>5, <1>6, <1>7, <1>9, <1>11, <1>12, PlaceKeeps

-----------------------------------------------------------------------------
\* The rest of the type invariant.
Rest ==
    /\ psize \in Nat /\ nmsgs \in Nat
    /\ alignment \in {0, 1, 2, 4, 8} /\ largest \in {0, 1, 2, 4, 8}
    /\ done \in [used : Nat, ssize : Nat, psize : Nat, largest : Nat]

\* The invariant in two parts.
LEMMA InvParts == Inv <=> Sound /\ Rest
BY DEF Inv, Sound, Rest, TypeOK, Fld, Pad

\* A message without fields, as clear_padding_spaces leaves it.
LEMMA EmptyMessage ==
    fields = <<>> /\ pads = <<>> /\ link = 0 /\ ssize = 0 /\ bitOffs = 0 => Sound
<1> HAVE fields = <<>> /\ pads = <<>> /\ link = 0 /\ ssize = 0 /\ bitOffs = 0
<1>1. Len(fields) = 0 /\ Len(pads) = 0 /\ fields \in Seq(Fld) /\ pads \in Seq(Pad)
      OBVIOUS
<1> QED BY <1>1 DEF Sound, PadsOK, FieldsOK, OffPads, BitsOK

\* Rounding the message up does not make the scalar part shorter.
LEMMA FinalSizeType ==
    ASSUME ssize \in Nat, psize \in Nat, alignment \in {0, 1, 2, 4, 8}
    PROVE  FinalSize(alignment) \in Nat /\ FinalSize(alignment) >= ssize
<1>1. CASE alignment > 1
  <2>1. PICK n \in {1, 2, 4, 8} : n = alignment
        BY <1>1
  <2>2. PICK x \in Nat : x = ssize + psize * WordSz /\ psize * WordSz <= x
        BY DEF WordSz
  <2>3. RoundUp(x, n) \in Nat /\ RoundUp(x, n) >= x
        BY RoundUpFacts
  <2> QED BY <1>1, <2>1, <2>2, <2>3 DEF FinalSize, WordSz
<1>2. CASE ~ (alignment > 1)
      BY <1>2 DEF FinalSize
<1> QED BY <1>1, <1>2

\* Every way to place a scalar keeps the invariant.
LEMMA AddScalarKeeps ==
    ASSUME Inv, NEW size \in Sizes, AddScalar(size)
    PROVE  Inv'
<1>1. Sound /\ Rest
      BY InvParts
<1>2. size \in {0, 1, 2, 4, 8}
      BY LayoutAssumption
<1>3. Sound'
  <2>1. CASE size = 0
        BY <2>1, <1>1, BoolInByteKeeps, BoolInPadKeeps, BoolAtEndKeeps DEF AddScalar
  <2>2. CASE size # 0
    <3>1. size \in {1, 2, 4, 8}
          BY <2>2, <1>2
    <3> QED BY <2>2, <3>1, <1>1, ScalarInPadKeeps, ScalarAtEndKeeps DEF AddScalar
  <2> QED BY <2>1, <2>2
<1>4. Rest'
      BY <1>1, <1>2 DEF Rest, AddScalar, Unplaced, Larger
<1> QED BY <1>3, <1>4, InvParts, PTL

\* Pointers, the end of a message and stuttering keep it.
LEMMA OtherStepsKeep ==
    ASSUME Inv, AddPointer \/ EndMessage \/ UNCHANGED vars
    PROVE  Inv'
<1>1. Sound /\ Rest
      BY InvParts
<1>2. CASE AddPointer
  <2>1. Sound'
        BY <1>1, <1>2 DEF AddPointer, Sound, PadsOK, FieldsOK, OffPads, BitsOK, OpenByte, Clear
  <2>2. Rest'
        BY <1>1, <1>2 DEF AddPointer, Rest, Larger, WordSz
  <2> QED BY <2>1, <2>2, InvParts, PTL
<1>3. CASE EndMessage
  <2>1. Sound'
    <3>1. fields' = <<>> /\ pads' = <<>> /\ link' = 0 /\ ssize' = 0 /\ bitOffs' = 0
          BY <1>3 DEF EndMessage
    <3>2. /\ Len(fields') = 0 /\ Len(pads') = 0
          /\ fields' \in Seq(Fld) /\ pads' \in Seq(Pad)
          BY <3>1
    <3> QED BY <3>1, <3>2 DEF Sound, PadsOK, FieldsOK, OffPads, BitsOK
  <2>2. FinalSize(alignment) \in Nat
        BY <1>1, FinalSizeType DEF Sound, Rest
  <2>3. Rest'
        BY <1>1, <1>3, <2>2 DEF EndMessage, Rest, Sound
  <2> QED BY <2>1, <2>3, InvParts, PTL
<1>4. CASE UNCHANGED vars
  <2>1. Sound'
        BY <1>1, <1>4 DEF vars, Sound, PadsOK, FieldsOK, OffPads, BitsOK, OpenByte, Clear
  <2>2. Rest'
        BY <1>1, <1>4 DEF vars, Rest
  <2> QED BY <2>1, <2>2, InvParts, PTL
<1> QED BY <1>2, <1>3, <1>4

\* The compiler begins with it.
LEMMA InitialLayout == Init => Inv
<1> HAVE Init
<1>1. Sound
    BY EmptyMessage DEF Init
<1>2. Rest
    BY DEF Init, Rest, NoMessage
<1> QED
    BY <1>1, <1>2, InvParts

\* What the invariant says of the scalars of a message.
LEMMA ScalarsSound ==
    ASSUME Inv
    PROVE  /\ Len(fields) \in Nat /\ ssize \in Nat /\ psize \in Nat /\ nmsgs \in Nat
           /\ fields \in Seq(Fld)
           /\ \A i \in 1 .. Len(fields) :
                fields[i].lo \in Nat /\ fields[i].hi \in Nat /\ fields[i].hi <= 8 * ssize
           /\ \A i, j \in 1 .. Len(fields) :
                i # j => fields[i].hi <= fields[j].lo \/ fields[j].hi <= fields[i].lo
<1>1. fields \in Seq(Fld) /\ ssize \in Nat /\ psize \in Nat /\ nmsgs \in Nat
    BY DEF Inv, TypeOK, Fld
<1> QED
    BY <1>1, FldFields DEF Inv, FieldsOK

\* calculate_offset places a scalar: one bit for a bool, whole bytes otherwise.
LEMMA ScalarPlaced ==
    ASSUME Inv, NEW size \in Sizes, AddScalar(size)
    PROVE  \/ size = 0 /\ \E lo \in Nat : Placed(lo, 1)
           \/ size # 0 /\ \E b \in Nat : Placed(8 * b, 8 * size)
<1>1. pads \in Seq(Pad) /\ bitOffs \in Nat /\ ssize \in Nat
    BY DEF Inv, TypeOK, Pad
<1>2. ASSUME NEW s \in {1, 2, 4, 8}, NEW i \in Usable(s)
      PROVE  pads[i].offset \in Nat /\ RoundUp(pads[i].offset, s) \in Nat
  <2>1. pads[i] \in Pad
      BY <1>1, <1>2 DEF Usable
  <2>2. pads[i].offset \in Nat
      BY <2>1, PadFields
  <2> QED
      BY <2>2, RoundUpFacts
<1>3. CASE size = 0
  <2>1. CASE BoolInByte
      BY <1>1, <1>3, <2>1 DEF BoolInByte
  <2>2. CASE BoolInPad
    <3>1. PICK i \in Usable(1) : Placed(8 * pads[i].offset, 1)
        BY <2>2 DEF BoolInPad
    <3>2. pads[i].offset \in Nat
        BY <1>2
    <3>3. 8 * pads[i].offset \in Nat
        BY <3>2
    <3> QED
        BY <1>3, <3>1, <3>3
  <2>3. CASE BoolAtEnd
    <3>1. Placed(8 * ssize, 1) /\ 8 * ssize \in Nat
        BY <1>1, <2>3 DEF BoolAtEnd
    <3> QED
        BY <1>3, <3>1
  <2> QED
      BY <1>3, <2>1, <2>2, <2>3 DEF AddScalar
<1>4. CASE size # 0
  <2>0. size \in {1, 2, 4, 8}
      BY <1>4, LayoutAssumption
  <2>1. CASE ScalarInPad(size)
    <3>1. PICK i \in Usable(size) : Placed(8 * RoundUp(pads[i].offset, size), 8 * size)
        BY <2>1 DEF ScalarInPad
    <3> QED
        BY <1>2, <1>4, <2>0, <3>1
  <2>2. CASE ScalarAtEnd(size)
    <3>1. Placed(8 * RoundUp(ssize, size), 8 * size)
        BY <2>2 DEF ScalarAtEnd
    <3>2. RoundUp(ssize, size) \in Nat
        BY <1>1, <2>0, RoundUpFacts
    <3> QED
        BY <1>4, <3>1, <3>2
  <2> QED
      BY <1>4, <2>1, <2>2 DEF AddScalar
<1> QED
    BY <1>3, <1>4

\* The invariant holds however the fields of the messages are chosen: the
\* padding spaces find_padding_space hands out are never in use.
THEOREM LayoutInvariant == Spec => []Inv
<1>1. Init => Inv
      BY InitialLayout
<1>2. Inv /\ [Next]_vars => Inv'
      BY AddScalarKeeps, OtherStepsKeep DEF Next
<1> QED BY <1>1, <1>2, PTL DEF Spec

\* The type invariant of the layout state, pad_link included: it never points
\* into a space that is gone.
THEOREM LayoutTypeOK == Spec => []TypeOK
<1>1. Inv => TypeOK
      BY DEF Inv
<1> QED BY <1>1, LayoutInvariant, PTL

\* No two scalars that outmsgs places share a bit.
THEOREM ScalarsApart == Spec => []NoOverlap
<1>1. Inv => NoOverlap
  <2>1. ASSUME Inv PROVE fields \in Seq(Fld) /\ FieldsOK
        BY <2>1 DEF Inv, TypeOK, Fld
  <2> QED BY <2>1 DEF NoOverlap, Apart, FieldsOK
<1> QED BY <1>1, LayoutInvariant, PTL

\* All scalars that outmsgs places lie inside the scalar part.
THEOREM ScalarsInside == Spec => []FieldsInside
<1>1. Inv => FieldsInside
  <2> SUFFICES ASSUME Inv, NEW i \in DOMAIN fields
               PROVE  fields[i].lo >= 0 /\ fields[i].hi <= 8 * ssize
      BY DEF FieldsInside
  <2>1. fields \in Seq(Fld) /\ FieldsOK
        BY DEF Inv, TypeOK, Fld
  <2>2. i \in 1 .. Len(fields)
        BY <2>1
  <2> QED BY <2>1, <2>2, FldFields DEF FieldsOK
<1> QED BY <1>1, LayoutInvariant, PTL

-----------------------------------------------------------------------------
(* Alignment *)

Widths == {1, 8, 16, 32, 64}

\* The bits [lo, lo + bits) of a scalar
AlignedAt(f, lo, bits) == f.lo = lo /\ f.hi = lo + bits /\ lo % bits = 0

\* Every scalar is as wide as a type and aligned to it; alignment, which is kept
\* from message to message, is never below what this message needs.
AlignInv ==
    /\ \A i \in 1 .. Len(fields) :
          \E lo \in Nat, bits \in Widths : AlignedAt(fields[i], lo, bits)
    /\ largest <= alignment /\ (psize > 0 => alignment >= WordSz)
    /\ MessageAligned

\* A multiple of a multiple, for the alignments there are.
LEMMA AlignedToLess ==
    ASSUME NEW x \in Nat, NEW a \in {1, 2, 4, 8}, NEW b \in {1, 2, 4, 8}, b <= a, x % a = 0
    PROVE  x % b = 0
<1>1. CASE a = 1 BY <1>1
<1>2. CASE a = 2 BY <1>2
<1>3. CASE a = 4 BY <1>3
<1>4. CASE a = 8 BY <1>4
<1> QED BY <1>1, <1>2, <1>3, <1>4

\* An offset in bytes, rounded up to a size, is an aligned one in bits.
LEMMA AlignedInBits ==
    ASSUME NEW x \in Nat, NEW size \in {1, 2, 4, 8}
    PROVE  8 * RoundUp(x, size) \in Nat /\ (8 * RoundUp(x, size)) % (8 * size) = 0
<1>1. PICK y \in Nat : y = RoundUp(x, size) /\ y % size = 0
      BY RoundUpFacts
<1>2. (8 * y) % (8 * size) = 0
  <2>1. CASE size = 1 BY <1>1, <2>1
  <2>2. CASE size = 2 BY <1>1, <2>2
  <2>3. CASE size = 4 BY <1>1, <2>3
  <2>4. CASE size = 8 BY <1>1, <2>4
  <2> QED BY <2>1, <2>2, <2>3, <2>4
<1> QED BY <1>1, <1>2

\* Placing a scalar where its width divides the offset.
LEMMA PlacedAligned ==
    ASSUME fields \in Seq(Fld), NEW lo \in Nat, NEW bits \in Widths, lo % bits = 0,
           Placed(lo, bits),
           \A i \in 1 .. Len(fields) :
              \E l \in Nat, b \in Widths : AlignedAt(fields[i], l, b)
    PROVE  \A i \in 1 .. Len(fields') :
              \E l \in Nat, b \in Widths : AlignedAt(fields'[i], l, b)
<1>1. bits \in Nat
      BY DEF Widths
<1>2. PICK f \in Fld : f = Field(lo, bits) /\ AlignedAt(f, lo, bits)
      BY <1>1, FldMade DEF AlignedAt
<1>3. fields' = Append(fields, f)
      BY <1>2 DEF Placed
<1>4. /\ Len(fields') = Len(fields) + 1 /\ Len(fields) \in Nat
      /\ fields'[Len(fields) + 1] = f
      /\ \A i \in 1 .. Len(fields) : fields'[i] = fields[i]
      BY <1>3
<1> QED BY <1>2, <1>4

\* Every way to place a scalar puts it where its size divides the offset.
LEMMA AddScalarAligned ==
    ASSUME Inv, AlignInv, NEW size \in Sizes, AddScalar(size)
    PROVE  AlignInv'
<1>0. /\ fields \in Seq(Fld) /\ ssize \in Nat /\ bitOffs \in Nat /\ psize \in Nat
      /\ pads \in Seq(Pad) /\ alignment \in {0, 1, 2, 4, 8} /\ largest \in {0, 1, 2, 4, 8}
      BY DEF Inv, TypeOK, Fld, Pad
<1>1. size \in {0, 1, 2, 4, 8}
      BY LayoutAssumption
<1>2. \A size2 \in {1, 2, 4, 8} : \A i \in Usable(size2) : pads[i].offset \in Nat
      BY <1>0, LoHi DEF Usable
<1>3. \E lo \in Nat, bits \in Widths : lo % bits = 0 /\ Placed(lo, bits)
  <2>1. CASE size = 0
    <3>1. PICK lo \in Nat : Placed(lo, 1)
      <4>1. CASE BoolInByte
            BY <4>1, <1>0 DEF BoolInByte
      <4>2. CASE BoolInPad
        <5>1. PICK i \in Usable(1) : Placed(8 * pads[i].offset, 1)
              BY <4>2 DEF BoolInPad
        <5>2. 8 * pads[i].offset \in Nat
              BY <1>2
        <5> QED BY <5>1, <5>2
      <4>3. CASE BoolAtEnd
        <5>1. 8 * ssize \in Nat
              BY <1>0
        <5> QED BY <4>3, <5>1 DEF BoolAtEnd
      <4> QED BY <2>1, <4>1, <4>2, <4>3 DEF AddScalar
    <3>2. lo % 1 = 0 /\ 1 \in Widths
          BY DEF Widths
    <3> QED BY <3>1, <3>2
  <2>2. CASE size # 0
    <3>0. size \in {1, 2, 4, 8} /\ 8 * size \in Widths
          BY <2>2, <1>1 DEF Widths
    <3>1. PICK x \in Nat : Placed(8 * RoundUp(x, size), 8 * size)
      <4>1. CASE ScalarInPad(size)
        <5>1. PICK i \in Usable(size) : Placed(8 * RoundUp(pads[i].offset, size), 8 * size)
              BY <4>1 DEF ScalarInPad
        <5> QED BY <5>1, <3>0, <1>2
      <4>2. CASE ScalarAtEnd(size)
            BY <4>2, <1>0 DEF ScalarAtEnd
      <4> QED BY <2>2, <4>1, <4>2 DEF AddScalar
    <3> QED BY <3>0, <3>1, AlignedInBits
  <2> QED BY <2>1, <2>2
<1>4. \A i \in 1 .. Len(fields') :
         \E l \in Nat, b \in Widths : AlignedAt(fields'[i], l, b)
      BY <1>0, <1>3, PlacedAligned DEF AlignInv
<1>5. alignment' = Larger(alignment, size) /\ largest' = Larger(largest, size)
      BY DEF AddScalar
<1>6. psize' = psize /\ done' = done
      BY DEF AddScalar, Unplaced
<1>7. largest' <= alignment' /\ (psize' > 0 => alignment' >= WordSz)
      BY <1>0, <1>1, <1>5, <1>6 DEF AlignInv, Larger, WordSz
<1>8. MessageAligned'
      BY <1>6 DEF AlignInv, MessageAligned, OwnAlignment
<1> QED BY <1>4, <1>7, <1>8 DEF AlignInv

\* outmsgs rounds the message up to a multiple of what it needs, although the
\* alignment it uses may come from an earlier message.
LEMMA EndMessageAligned ==
    ASSUME Inv, AlignInv, EndMessage
    PROVE  AlignInv'
<1>0. /\ ssize \in Nat /\ psize \in Nat
      /\ alignment \in {0, 1, 2, 4, 8} /\ largest \in {0, 1, 2, 4, 8}
      /\ largest <= alignment /\ (psize > 0 => alignment >= WordSz)
      BY DEF Inv, TypeOK, AlignInv
<1>1. /\ done'.used = ssize /\ done'.ssize = FinalSize(alignment)
      /\ done'.psize = psize /\ done'.largest = largest
      BY DEF EndMessage
<1>2. PICK own : own = IF psize > 0 THEN Larger(largest, WordSz) ELSE largest
      OBVIOUS
<1>3. own \in {0, 1, 2, 4, 8} /\ own <= alignment
      BY <1>0, <1>2 DEF Larger, WordSz
<1>4. OwnAlignment(done)' = own
      BY <1>1, <1>2 DEF OwnAlignment
<1>5. PICK x \in Nat : x = ssize + psize * WordSz
      BY <1>0 DEF WordSz
<1>6. /\ FinalSize(alignment) >= ssize
      /\ own > 0 => (FinalSize(alignment) + WordSz * psize) % own = 0
  <2>1. CASE alignment > 1
    <3>1. PICK a \in {1, 2, 4, 8} : a = alignment
          BY <2>1, <1>0
    <3>2. PICK y \in Nat : y = RoundUp(x, a) /\ y >= x /\ y % a = 0
          BY RoundUpFacts
    <3>3. FinalSize(alignment) = y - psize * WordSz
          BY <2>1, <3>1, <3>2, <1>5 DEF FinalSize
    <3>4. FinalSize(alignment) >= ssize /\ FinalSize(alignment) + WordSz * psize = y
          BY <3>2, <3>3, <1>5, <1>0 DEF WordSz
    <3>5. own > 0 => y % own = 0
          BY <1>3, <3>1, <3>2, AlignedToLess
    <3> QED BY <3>4, <3>5
  <2>2. CASE ~(alignment > 1)
    <3>1. FinalSize(alignment) = ssize
          BY <2>2 DEF FinalSize
    <3>2. own > 0 => own = 1
          BY <2>2, <1>3, <1>0
    <3>3. (ssize + WordSz * psize) % 1 = 0
          BY <1>0 DEF WordSz
    <3> QED BY <1>0, <3>1, <3>2, <3>3
  <2> QED BY <2>1, <2>2
<1>7. MessageAligned'
      BY <1>1, <1>4, <1>6 DEF MessageAligned
<1>8. Len(fields') = 0 /\ psize' = 0 /\ largest' = 0 /\ alignment' = alignment
      BY DEF EndMessage
<1> QED BY <1>0, <1>7, <1>8 DEF AlignInv

\* Every scalar that outmsgs places is aligned to its size, and the size of every
\* finished message is a multiple of its own alignment: so scalars and pointers
\* are aligned in every element of a list of messages, for every schema.
THEOREM LayoutAligned == Spec => []ElementsAligned
<1>1. Init => AlignInv
  <2> HAVE Init
  <2>1. Len(fields) = 0 /\ largest = 0 /\ alignment = 0 /\ psize = 0
        BY DEF Init
  <2>2. MessageAligned
        BY DEF Init, MessageAligned, NoMessage, OwnAlignment
  <2> QED BY <2>1, <2>2 DEF AlignInv
<1>2. Inv /\ AlignInv /\ [Next]_vars => AlignInv'
  <2> SUFFICES ASSUME Inv, AlignInv, [Next]_vars
               PROVE  AlignInv'
      OBVIOUS
  <2>1. ASSUME NEW size \in Sizes, AddScalar(size) PROVE AlignInv'
        BY <2>1, AddScalarAligned
  <2>2. CASE AddPointer
    <3>1. /\ UNCHANGED <<fields, largest, done>>
          /\ alignment' = Larger(alignment, WordSz)
          BY <2>2 DEF AddPointer
    <3>2. largest' <= alignment' /\ alignment' >= WordSz
          BY <3>1 DEF Inv, TypeOK, AlignInv, Larger, WordSz
    <3>3. MessageAligned'
          BY <3>1 DEF AlignInv, MessageAligned, OwnAlignment
    <3> QED BY <3>1, <3>2, <3>3 DEF AlignInv, AlignedAt
  <2>3. CASE EndMessage
        BY <2>3, EndMessageAligned
  <2>4. CASE UNCHANGED vars
        BY <2>4 DEF vars, AlignInv, AlignedAt, MessageAligned, OwnAlignment
  <2> QED BY <2>1, <2>2, <2>3, <2>4 DEF Next
<1>3. Inv /\ AlignInv => ElementsAligned
  <2> SUFFICES ASSUME Inv, AlignInv, NEW i \in DOMAIN fields
               PROVE  fields[i].lo % (fields[i].hi - fields[i].lo) = 0
      BY DEF ElementsAligned, FieldsAligned, AlignInv
  <2>1. i \in 1 .. Len(fields)
        BY DEF Inv, TypeOK
  <2>2. PICK lo \in Nat, bits \in Widths : AlignedAt(fields[i], lo, bits)
        BY <2>1 DEF AlignInv
  <2>3. fields[i].hi - fields[i].lo = bits
        BY <2>2 DEF AlignedAt, Widths
  <2> QED BY <2>2, <2>3 DEF AlignedAt
<1> QED BY <1>1, <1>2, <1>3, LayoutInvariant, PTL DEF Spec
=============================================================================

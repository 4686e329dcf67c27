------------------------------ MODULE NbufSizes ------------------------------
(***************************************************************************)
(* The size arithmetic of include/nbuf.h: how many bytes an object takes   *)
(* and where its elements and its pointer words are.                       *)
(*                                                                         *)
(* An object handle (struct nbuf_obj) is a record                          *)
(*   [base |-> byte offset of element 0 (just after the 8-byte header),    *)
(*    nelem, ssize, psize |-> the three fields of the header].             *)
(* The buf pointer of the struct is left out: a module works on one buffer.*)
(*                                                                         *)
(* size_t is 64 bits wide.  ssize and psize have 16 bits and nelem has 32, *)
(* so every product and sum of size_t below stays under 2^52 and is exact; *)
(* the only expression that can wrap is the 32-bit (nelem + 7).            *)
(***************************************************************************)
EXTENDS Integers

CONSTANT NelemMod     \* 2^32 in the code: nelem is a uint32_t

ASSUME NelemModAssumption == NelemMod \in Nat /\ NelemMod >= 8

WordSz == 4           \* NBUF_WORD_SZ
Align == 8            \* NBUF_ALIGN
HdrSz == 8            \* sizeof hdr

RoundUp(x, n) == ((x + (n - 1)) \div n) * n

PtrOffs(o, i) == o.ssize + i * WordSz

ElemSz(o) == PtrOffs(o, o.psize)

\* (nelem + 7) / 8 is computed in uint32_t: for the seven largest counts the
\* sum wraps and the quotient is 0.
BitBytes(nelem) == ((nelem + 7) % NelemMod) \div 8

\* nbuf_totalsz: ssize = psize = 0 denotes a vector of bits.
TotalSz(o) == IF ElemSz(o) # 0 THEN ElemSz(o) * o.nelem ELSE BitBytes(o.nelem)

BoundsCheck(len, offset, sz) == offset <= len /\ offset + sz <= len

\* struct nbuf_obj rr = {buf}: every field but buf is zero.
NullObj == [base |-> 0, nelem |-> 0, ssize |-> 0, psize |-> 0]

\* nbuf_get_elem: an element of a bit vector is the byte that holds the bit.
GetElem(o, i) ==
    IF i >= o.nelem
    THEN NullObj
    ELSE [base  |-> o.base + (IF ElemSz(o) = 0 THEN i \div 8 ELSE i * ElemSz(o)),
          nelem |-> 1,
          ssize |-> IF ElemSz(o) = 0 THEN 1 ELSE o.ssize,
          psize |-> o.psize]
=============================================================================

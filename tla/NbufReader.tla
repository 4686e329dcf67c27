----------------------------- MODULE NbufReader -----------------------------
(***************************************************************************)
(* The read side of include/nbuf.h on a buffer whose bytes are not         *)
(* trusted: any header and any pointer word may be found at any address.   *)
(*                                                                         *)
(* A behaviour is one client that starts from the root object              *)
(* (<pkg>_get_<Msg>, which calls nbuf_obj_init at offset 0) and follows    *)
(* pointers and list elements in any order.  The buffer's contents are     *)
(* chosen the first time an address is read and remembered from then on    *)
(* (hdrs for 8-byte headers, rels for 4-byte pointer words).               *)
(***************************************************************************)
EXTENDS NbufSizes

CONSTANTS
    BufLen,           \* buf->len
    Nelems, Ssizes, Psizes,   \* field values a header may hold
    Rels              \* values a pointer word may hold (an int32_t)

ASSUME ReaderAssumption ==
    /\ BufLen \in Nat
    /\ Nelems \subseteq 0 .. NelemMod - 1
    /\ Ssizes \subseteq Nat
    /\ Psizes \subseteq Nat
    /\ Rels \subseteq Int

VARIABLES
    cur,              \* the object handle the client holds
    hdrs,             \* address -> header found there
    rels              \* address -> pointer word found there

vars == <<cur, hdrs, rels>>

Headers == [nelem : Nelems, ssize : Ssizes, psize : Psizes]

Remember(f, x, v) == [y \in DOMAIN f \cup {x} |-> IF y = x THEN v ELSE f[y]]

HeadersAt(p) == IF p \in DOMAIN hdrs THEN {hdrs[p]} ELSE Headers
RelsAt(p) == IF p \in DOMAIN rels THEN {rels[p]} ELSE Rels

\* Mutant of ObjAt: without the totalsz == 0 test, a bit vector whose
\* nelem + 7 wraps passes as an object of no bytes and many elements.
ObjAtNoZeroTest(p, h) ==
    LET o == [base |-> p + HdrSz, nelem |-> h.nelem,
              ssize |-> h.ssize, psize |-> h.psize]
    IN  IF o.nelem > 0 /\ ~BoundsCheck(BufLen, o.base, TotalSz(o))
        THEN NullObj
        ELSE o

\* What nbuf_obj_init leaves in a zeroed handle once header h was read at p.
ObjAt(p, h) ==
    LET o == [base |-> p + HdrSz, nelem |-> h.nelem,
              ssize |-> h.ssize, psize |-> h.psize]
    IN  IF /\ o.nelem > 0
           /\ TotalSz(o) = 0 \/ ~BoundsCheck(BufLen, o.base, TotalSz(o))
        THEN NullObj      \* corrupted/malicious message
        ELSE o

\* nbuf_obj_init(&rr, p) on a zeroed rr; the result becomes the handle.
ObjInit(p) ==
    IF BoundsCheck(BufLen, p, HdrSz)
    THEN \E h \in HeadersAt(p) :
            /\ hdrs' = Remember(hdrs, p, h)
            /\ cur' = ObjAt(p, h)
    ELSE /\ cur' = NullObj    \* can't trust the address
         /\ UNCHANGED hdrs

Init ==
    /\ cur = NullObj
    /\ hdrs = [p \in {} |-> 0]
    /\ rels = [p \in {} |-> 0]

\* <pkg>_get_<Msg>(buf)
GetRoot == ObjInit(0) /\ UNCHANGED rels

\* Mutant of GetPtr: the target address is compared as a signed number.
GetPtrSigned(i) ==
    IF i >= cur.psize
    THEN cur' = NullObj /\ UNCHANGED <<hdrs, rels>>
    ELSE LET slot == cur.base + PtrOffs(cur, i) IN
         /\ BoundsCheck(BufLen, slot, WordSz)
         /\ \E rel \in RelsAt(slot) :
              LET target == rel * WordSz + slot IN
              /\ rels' = Remember(rels, slot, rel)
              /\ IF rel # 0 /\ target < BufLen
                 THEN ObjInit(target)
                 ELSE cur' = NullObj /\ UNCHANGED hdrs

\* _nbuf_get_ptr: the sum of the (signed) pointer and the address of its
\* word is a size_t, so a negative sum is a huge value and fails base < len.
GetPtr(i) ==
    IF i >= cur.psize
    THEN cur' = NullObj /\ UNCHANGED <<hdrs, rels>>
    ELSE LET slot == cur.base + PtrOffs(cur, i) IN
         /\ BoundsCheck(BufLen, slot, WordSz)    \* assert in nbuf_read_int_safe
         /\ \E rel \in RelsAt(slot) :
              LET target == rel * WordSz + slot IN
              /\ rels' = Remember(rels, slot, rel)
              /\ IF rel # 0 /\ target >= 0 /\ target < BufLen
                 THEN ObjInit(target)
                 ELSE cur' = NullObj /\ UNCHANGED hdrs

\* nbuf_get_elem
Elem(i) == cur' = GetElem(cur, i) /\ UNCHANGED <<hdrs, rels>>

Next ==
    \/ GetRoot
    \/ \E P \in Psizes : \E i \in 0 .. P : GetPtr(i)
    \/ \E n \in Nelems : \E i \in 0 .. n : Elem(i)

Spec == Init /\ [][Next]_vars

-----------------------------------------------------------------------------
TypeOK ==
    /\ cur \in [base : Nat, nelem : 0 .. NelemMod - 1, ssize : Nat, psize : Nat]
    /\ \A p \in DOMAIN hdrs : hdrs[p] \in Headers
    /\ \A p \in DOMAIN rels : rels[p] \in Rels

\* Every read nbuf_get_int, nbuf_get_bit or nbuf_get_rel_ptr may do through o
\* passes the bounds check that nbuf_read_int_safe asserts.
ReadsInside(o) ==
    /\ o.ssize > 0 => BoundsCheck(BufLen, o.base, o.ssize)
    /\ \A k \in 0 .. o.psize - 1 :
            BoundsCheck(BufLen, o.base + PtrOffs(o, k), WordSz)

\* Whatever bytes the buffer holds, a handle that claims elements has all of
\* them inside the buffer: no getter through it, or through any of its
\* elements (nbuf_get_elem, bit vectors included), trips the assertion of
\* nbuf_read_int_safe.
ElementsInside ==
    \A i \in 0 .. cur.nelem - 1 : ReadsInside(GetElem(cur, i))
=============================================================================

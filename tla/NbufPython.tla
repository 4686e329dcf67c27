----------------------------- MODULE NbufPython -----------------------------
(***************************************************************************)
(* The Python binding (python/nbuf.py, with the methods that b2py.py       *)
(* generates) on a message that C programs write too: it has its own       *)
(* arithmetic for the same format, and each language goes on with the      *)
(* bytes that the other one left.                                          *)
(*                                                                         *)
(* An obj has the fields of the C handle.  A call that raises an exception *)
(* before it stores anything is a stuttering step; so are all calls on a   *)
(* list of bool and put_float, which raise always.  The size of a          *)
(* bytearray is bounded by the client's cap.                               *)
(***************************************************************************)
EXTENDS NbufWriter, FiniteSets

\* The scalar part of an element is modelled by one scalar, of a size that C and
\* Python have; elements keep it aligned, as they do all the scalars of a message
\* that nbufc lays out (SchemaLayout, ElementsAligned).
OneScalar(s, p) == s \in {0, 1, 2, 4, 8} /\ (s > 0 => (s + 4 * p) % s = 0)

ASSUME PythonAssumption ==
    /\ \A c \in Clients : \A m \in c.makes : OneScalar(m.ssize, m.psize)
    /\ \A kind \in DOMAIN KindShape : OneScalar(KindShape[kind].ssize, KindShape[kind].psize)

\* obj._elemsz
PyElemSz(o) ==
    LET size == o.ssize + 4 * o.psize IN IF size > 1 THEN size ELSE 1

\* obj.__getitem__
PyItem(o, i) == Handle(o.base + i * PyElemSz(o), 1, o.ssize, o.psize)

\* _scalar_ptr, and whether it raises no IndexError
PyInRange(o, offs, size) == offs + size <= o.ssize
PyScalarPtr(o, offs) == o.base + offs

\* Mutant of PyPtrPtr: pointers are looked for before the scalars.
PyPtrPtrFirst(o, idx) == o.base + 4 * idx

\* _ptr_ptr
PyPtrPtr(o, idx) == o.base + o.ssize + 4 * idx

\* Bytes that obj.new appends
PyTotalSz(n, s, p) ==
    LET elemsz == s + 4 * p
        total == 8 + (IF elemsz > 0 THEN elemsz * n ELSE (n + 7) \div 8)
    IN  ((total + 7) \div 8) * 8

\* obj.new: the bytes are 0 but for the header
PyNewIn(v, n, s, p) ==
    LET end == v.len + PyTotalSz(n, s, p)
    IN  Wire(end, Append(v.objs, Header(v.len, n, s, p)),
             Cleared(v.rel, v.len + 8, end, 0), Cleared(v.bits, v.len + 8, end, {}))

PyFits(n, s, p) == w.len + PyTotalSz(n, s, p) <= client.cap

PyKeep == UNCHANGED <<client, clears, faults>>

\* <Msg>.new(buf)
PyNew(m) ==
    /\ PyFits(m.nelem, m.ssize, m.psize)
    /\ w' = PyNewIn(w, m.nelem, m.ssize, m.psize)
    /\ PyKeep

\* put_obj: it refuses to refer backwards
PyPutObj(v, ptr, base) ==
    LET rel == (base - 8 - ptr) \div 4 IN rel > 0 /\ w' = PutWord(v, ptr, rel)

\* init_<field> of a message or a list
PyInitField(k, e, i, m) ==
    /\ PyFits(m.nelem, m.ssize, m.psize)
    /\ PyPutObj(PyNewIn(w, m.nelem, m.ssize, m.psize), PyPtrPtr(PyItem(Obj(w, k), e), i), w.len + 8)
    /\ PyKeep

\* put_obj with an object there was
PyLink(k, e, i, t) ==
    /\ PyPutObj(w, PyPtrPtr(PyItem(Obj(w, k), e), i), Obj(w, t).base)
    /\ PyKeep

\* put_str: the characters are stored before the string is linked
PyPutStr(k, e, i, n) ==
    /\ PyFits(n + 1, 1, 0)
    /\ PyPutObj(PutChars(PyNewIn(w, n + 1, 1, 0), w.len + 8, n),
                PyPtrPtr(PyItem(Obj(w, k), e), i), w.len + 8)
    /\ PyKeep

\* put_int of the whole scalar part of an element
PyPutInt(k, e, v) ==
    LET o == PyItem(Obj(w, k), e) IN
    /\ o.ssize > 0 /\ PyInRange(o, 0, o.ssize)
    /\ w' = PutInt(w, PyScalarPtr(o, 0), o.ssize, v)
    /\ PyKeep

\* put_bool of its first bit: the byte is read, changed and stored
PyPutBool(k, e, v) ==
    LET o == PyItem(Obj(w, k), e) IN
    /\ PyInRange(o, 0, 1)
    /\ w' = PutBit(w, PyScalarPtr(o, 0), 0, v)
    /\ PyKeep

PyStep ==
    \/ \E m \in client.makes : PyNew(m)
    \/ \E k \in Objects : \E e \in Elements(k) :
         \/ \E i \in Pointers(k) :
              \/ \E m \in client.makes : PyInitField(k, e, i, m)
              \/ \E t \in Objects : PyLink(k, e, i, t)
              \/ \E n \in StrLens : PyPutStr(k, e, i, n)
         \/ \E v \in {0, 1} : e \in EdgeElements(k) /\ (PyPutInt(k, e, v) \/ PyPutBool(k, e, v))

\* A message goes back and forth between programs in C and in Python.
BothNext == Next \/ ("wrapped" \notin faults /\ PyStep)

BothSpec == Init /\ [][BothNext]_vars

-----------------------------------------------------------------------------
\* get_int of the scalar part of an element; 2 is any value but 0 and 1
PyGetInt(o) ==
    LET ptr == PyScalarPtr(o, 0)
        high == \E a \in ptr + 1 .. ptr + o.ssize - 1 : w.bits[a] # {}
    IN  IF high \/ w.bits[ptr] \notin {{}, {0}} THEN 2 ELSE Cardinality(w.bits[ptr])

\* get_obj: the object a pointer leads to, 0 for None, -1 for an exception or
\* for bytes that are no header
PyGetObj(o, idx) ==
    LET ptr == PyPtrPtr(o, idx)
        found == {k \in Objects : w.objs[k].at = ptr + 4 * w.rel[ptr]}
    IN  IF w.rel[ptr] = 0 THEN 0
        ELSE IF w.rel[ptr] < 0 \/ found = {} THEN -1
        ELSE CHOOSE k \in found : TRUE

\* Whoever wrote what part of a message, Python reads every scalar and follows
\* every pointer of it as the C library does, and no assertion about alignment
\* and no check of a range or a sign stands in its way.  (Lists of bool are
\* the exception, and messages in which C linked to an object it could not make.)
PythonReadsAlike ==
    "linked" \notin faults =>
        \A k \in Objects : \A e \in Elements(k) :
            LET o == Obj(w, k)
                item == PyItem(o, e)
            IN  /\ o.ssize > 0 => /\ PyScalarPtr(item, 0) % o.ssize = 0
                                  /\ PyGetInt(item) = GetScalar(w, o, e)
                /\ \A i \in Pointers(k) : PyGetObj(item, i) = TargetIn(w, Slot(o, e, i))
=============================================================================

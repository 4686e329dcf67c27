---------------------------- MODULE SchemaLayout ----------------------------
(***************************************************************************)
(* How the schema compiler lays out messages: outmsgs and its helpers in   *)
(* nbufc/t2b.c.  Each field of a message is a step; a scalar goes into a   *)
(* padding space that earlier fields left, or at the end.                  *)
(*                                                                         *)
(* The linked list of padding spaces is the sequence pads.  pad_link, the  *)
(* address where the next space is hooked on, is the index link of the     *)
(* space whose next pointer it is (0 for pad_start itself): hooking on cuts*)
(* off whatever followed.                                                  *)
(*                                                                         *)
(* Offsets of fields are in bits, those of padding spaces and ssize in     *)
(* bytes.  A bool has size 0, as in the table of types.  A field adds at   *)
(* most 15 bytes, so with 4000 fields ssize, a uint16_t, does not wrap.    *)
(***************************************************************************)
EXTENDS Integers, Sequences

CONSTANTS
    Sizes,            \* sizes of scalar types, 0 for bool
    MaxFields,        \* bound: fields per message
    MaxMsgs           \* bound: messages per schema

ASSUME LayoutAssumption ==
    /\ Sizes \subseteq {0, 1, 2, 4, 8}
    /\ MaxFields \in 0 .. 4000
    /\ MaxMsgs \in Nat

VARIABLES
    fields,           \* the scalars placed so far: [lo, hi) in bits
    ssize, psize,     \* sizes of the message so far
    alignment,        \* kept from message to message
    pads, link,       \* padding spaces [offset, size] and pad_link
    bitOffs,          \* pad_bit_offs: next free bit of the byte of bools
    nmsgs,            \* messages finished
    largest,          \* size of the largest scalar of this message
    done              \* the message just finished

vars == <<fields, ssize, psize, alignment, pads, link, bitOffs, nmsgs,
          largest, done>>

WordSz == 4

RoundUp(x, n) == ((x + (n - 1)) \div n) * n

Larger(a, b) == IF a > b THEN a ELSE b

NoMessage == [used |-> 0, ssize |-> 0, psize |-> 0, largest |-> 0]

Init ==
    /\ fields = <<>>
    /\ ssize = 0 /\ psize = 0
    /\ alignment = 0
    /\ pads = <<>> /\ link = 0
    /\ bitOffs = 0
    /\ nmsgs = 0
    /\ largest = 0
    /\ done = NoMessage

\* struct padding_space
Space(offset, size) == [offset |-> offset, size |-> size]

\* The bytes find_padding_space skips in a space to align a scalar.
Skip(pad, size) == RoundUp(pad.offset, size) - pad.offset

\* The spaces a scalar fits into.
Usable(size) == {i \in DOMAIN pads : pads[i].size >= Skip(pads[i], size) + size}

\* The search loop of find_padding_space stops at the first of them.
IsFirstUsable(i, size) == \A j \in Usable(size) : i <= j

\* *link = p->next
Removed(i) ==
    [j \in 1 .. Len(pads) - 1 |-> IF j < i THEN pads[j] ELSE pads[j + 1]]

\* p->next = q
InsertedAfter(i, p, q) ==
    [j \in 1 .. Len(pads) + 1 |->
        IF j = i THEN p ELSE IF j = i + 1 THEN q
        ELSE IF j <= i THEN pads[j] ELSE pads[j - 1]]

\* Mutant of Cut: pad_link still points into a space that is used up.
CutKeepsLink(i, offset, pad, size, remain) ==
    /\ pads' = IF pad > 0 /\ remain > 0
                 THEN InsertedAfter(i, Space(offset, pad), Space(offset + pad + size, remain))
               ELSE IF pad > 0 THEN [pads EXCEPT ![i] = Space(offset, pad)]
               ELSE IF remain > 0 THEN [pads EXCEPT ![i] = Space(offset + size, remain)]
               ELSE Removed(i)
    /\ UNCHANGED link

\* Mutant of Cut: what is left of a space that a scalar was put into the front
\* of still starts at its old offset.
CutFront(i, offset, pad, size, remain) ==
    \/ /\ pad > 0 /\ remain > 0
       /\ pads' = InsertedAfter(i, Space(offset, pad), Space(offset + pad + size, remain))
       /\ link' = IF link > i THEN link + 1 ELSE link
    \/ /\ pad > 0 /\ remain = 0
       /\ pads' = [pads EXCEPT ![i] = Space(offset, pad)]
       /\ UNCHANGED link
    \/ /\ pad = 0 /\ remain > 0
       /\ pads' = [pads EXCEPT ![i] = Space(offset, remain)]
       /\ UNCHANGED link
    \/ /\ pad = 0 /\ remain = 0
       /\ pads' = Removed(i)
       /\ link' = IF link >= i THEN link - 1 ELSE link

\* The rest of find_padding_space: size bytes are cut out of the i-th space,
\* pad bytes after its offset and remain bytes before its end.  A split leaves
\* pad_link where it was, before the new second half.
Cut(i, offset, pad, size, remain) ==
    \/ /\ pad > 0 /\ remain > 0
       /\ pads' = InsertedAfter(i, Space(offset, pad), Space(offset + pad + size, remain))
       /\ link' = IF link > i THEN link + 1 ELSE link
    \/ /\ pad > 0 /\ remain = 0
       /\ pads' = [pads EXCEPT ![i] = Space(offset, pad)]
       /\ UNCHANGED link
    \/ /\ pad = 0 /\ remain > 0
       /\ pads' = [pads EXCEPT ![i] = Space(offset + size, remain)]
       /\ UNCHANGED link
    \/ /\ pad = 0 /\ remain = 0
       /\ pads' = Removed(i)
       /\ link' = IF link >= i THEN link - 1 ELSE link

TakePad(i, size) ==
    Cut(i, pads[i].offset, Skip(pads[i], size), size,
        pads[i].size - Skip(pads[i], size) - size)

\* add_padding_space
AddPad(offset, size) ==
    /\ pads' = [j \in 1 .. link + 1 |->
                  IF j <= link THEN pads[j] ELSE Space(offset, size)]
    /\ link' = link + 1

Field(lo, bits) == [lo |-> lo, hi |-> lo + bits]

Placed(lo, bits) == fields' = Append(fields, Field(lo, bits))

Unplaced == UNCHANGED <<psize, nmsgs, done>>

\* A bool in the byte that other bools began: find_padding_space's first return.
BoolInByte ==
    /\ bitOffs % 8 # 0
    /\ Placed(bitOffs, 1)
    /\ bitOffs' = bitOffs + 1
    /\ UNCHANGED <<ssize, pads, link>>

\* A bool in a fresh byte, from a padding space if there is one.
BoolInPad ==
    /\ bitOffs % 8 = 0
    /\ \E i \in Usable(1) :
       /\ IsFirstUsable(i, 1)
       /\ TakePad(i, 1)
       /\ Placed(8 * pads[i].offset, 1)
       /\ bitOffs' = 8 * pads[i].offset + 1
    /\ UNCHANGED ssize

BoolAtEnd ==
    /\ bitOffs % 8 = 0
    /\ Usable(1) = {}
    /\ Placed(8 * ssize, 1)
    /\ bitOffs' = 8 * ssize + 1
    /\ ssize' = ssize + 1
    /\ UNCHANGED <<pads, link>>

ScalarInPad(size) ==
    /\ \E i \in Usable(size) :
       /\ IsFirstUsable(i, size)
       /\ TakePad(i, size)
       /\ Placed(8 * RoundUp(pads[i].offset, size), 8 * size)
    /\ UNCHANGED <<ssize, bitOffs>>

ScalarAtEnd(size) ==
    LET offset == RoundUp(ssize, size) IN
    /\ Usable(size) = {}
    /\ IF offset > ssize THEN AddPad(ssize, offset - ssize)
       ELSE UNCHANGED <<pads, link>>
    /\ Placed(8 * offset, 8 * size)
    /\ ssize' = offset + size
    /\ UNCHANGED bitOffs

HasRoom == Len(fields) + psize < MaxFields /\ nmsgs < MaxMsgs

\* A field that is no list, of a scalar type: calculate_offset
AddScalar(size) ==
    /\ HasRoom
    /\ IF size = 0 THEN BoolInByte \/ BoolInPad \/ BoolAtEnd
       ELSE ScalarInPad(size) \/ ScalarAtEnd(size)
    /\ alignment' = Larger(alignment, size)
    /\ largest' = Larger(largest, size)
    /\ Unplaced

\* A list, a string or a message: one more pointer
AddPointer ==
    /\ HasRoom
    /\ psize' = psize + 1
    /\ alignment' = Larger(alignment, WordSz)
    /\ UNCHANGED <<fields, ssize, pads, link, bitOffs, nmsgs, largest, done>>

\* The size of the scalar part that outmsgs stores.
FinalSize(align) ==
    IF align > 1 THEN RoundUp(ssize + psize * WordSz, align) - psize * WordSz
    ELSE ssize

\* Mutant of EndMessage: the size is rounded up without the pointers.
EndMessageScalarsOnly ==
    /\ nmsgs < MaxMsgs
    /\ done' = [used |-> ssize, psize |-> psize, largest |-> largest,
                ssize |-> IF alignment > 1 THEN RoundUp(ssize, alignment) ELSE ssize]
    /\ nmsgs' = nmsgs + 1
    /\ fields' = <<>> /\ ssize' = 0 /\ psize' = 0
    /\ pads' = <<>> /\ link' = 0 /\ bitOffs' = 0
    /\ largest' = 0
    /\ UNCHANGED alignment

\* Mutant of EndMessage: the byte of bools is carried into the next message.
EndMessageKeepsBits ==
    /\ nmsgs < MaxMsgs
    /\ done' = [used |-> ssize, ssize |-> FinalSize(alignment), psize |-> psize,
                largest |-> largest]
    /\ nmsgs' = nmsgs + 1
    /\ fields' = <<>> /\ ssize' = 0 /\ psize' = 0
    /\ pads' = <<>> /\ link' = 0
    /\ largest' = 0
    /\ UNCHANGED <<alignment, bitOffs>>

\* The message is finished and clear_padding_spaces is called; alignment is
\* not reset.
EndMessage ==
    /\ nmsgs < MaxMsgs
    /\ done' = [used |-> ssize, ssize |-> FinalSize(alignment), psize |-> psize,
                largest |-> largest]
    /\ nmsgs' = nmsgs + 1
    /\ fields' = <<>> /\ ssize' = 0 /\ psize' = 0
    /\ pads' = <<>> /\ link' = 0 /\ bitOffs' = 0
    /\ largest' = 0
    /\ UNCHANGED alignment

Next ==
    \/ \E size \in Sizes : AddScalar(size)
    \/ AddPointer
    \/ EndMessage

Spec == Init /\ [][Next]_vars

-----------------------------------------------------------------------------
TypeOK ==
    /\ fields \in Seq([lo : Nat, hi : Nat])
    /\ ssize \in Nat /\ psize \in Nat
    /\ alignment \in {0, 1, 2, 4, 8} /\ largest \in {0, 1, 2, 4, 8}
    /\ pads \in Seq([offset : Nat, size : Nat])
    /\ link \in 0 .. Len(pads)
    /\ bitOffs \in Nat
    /\ nmsgs \in Nat
    /\ done \in [used : Nat, ssize : Nat, psize : Nat, largest : Nat]

Apart(a, b) == a.hi <= b.lo \/ b.hi <= a.lo

\* Two scalars never share a bit, whatever mixture of sizes and bools the
\* message has and however often padding spaces are split, used up and hooked
\* on again.
NoOverlap ==
    \A i, j \in DOMAIN fields : i # j => Apart(fields[i], fields[j])

\* Every scalar lies inside the scalar part.
FieldsInside ==
    \A i \in DOMAIN fields : fields[i].lo >= 0 /\ fields[i].hi <= 8 * ssize

\* Every scalar of the message in work is aligned to its size.
FieldsAligned ==
    \A i \in DOMAIN fields :
        fields[i].lo % (fields[i].hi - fields[i].lo) = 0

OwnAlignment(m) == IF m.psize > 0 THEN Larger(m.largest, WordSz) ELSE m.largest

\* A finished message is a multiple of its own alignment long, and no field was
\* cut off.
MessageAligned ==
    /\ done.ssize >= done.used
    /\ OwnAlignment(done) > 0 => (done.ssize + WordSz * done.psize) % OwnAlignment(done) = 0

\* In every element of a list of messages every scalar and every pointer is
\* aligned, as nbuf_get_int and _nbuf_create assert: they are in the message,
\* however its padding spaces were filled, and its size, which outmsgs rounds
\* up with an alignment left over from other messages, keeps them so.
ElementsAligned == FieldsAligned /\ MessageAligned
=============================================================================

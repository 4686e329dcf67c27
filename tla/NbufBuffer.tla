----------------------------- MODULE NbufBuffer -----------------------------
(***************************************************************************)
(* A write buffer (struct nbuf_buffer) and nbuf_reserve, the only function *)
(* that makes room in one, with size_t arithmetic of a given width.        *)
(*                                                                         *)
(* nbuf_reserve is modelled one loop iteration per step.  Its callers come *)
(* in two kinds: the ones that test the result and append what they asked  *)
(* room for (_nbuf_create, nbuf_resize, pool.c's create, token.c's append) *)
(* and nbuf_load_file, which appends a byte whatever the result was.       *)
(***************************************************************************)
EXTENDS Integers

CONSTANTS
    SizeMod,          \* 2^w for a w-bit size_t
    AllocMin,         \* NBUF_ALLOC_MIN
    InitCaps,         \* sizes that nbuf_init_write is called with
    CapSet,           \* capacities that doubling takes to SizeMod exactly
    Incs,             \* amounts of room asked for
    Callers,          \* subset of {"checked", "load"}
    AllocMayFail      \* whether realloc may return NULL

\* AllocMin is a power of two; the sizes given to nbuf_init_write need not be.
ASSUME BufferAssumption ==
    /\ SizeMod \in Nat /\ SizeMod > 0
    /\ CapSet \subseteq 1 .. SizeMod - 1
    /\ AllocMin \in CapSet
    /\ \A c \in CapSet : c * 2 \in CapSet \/ c * 2 = SizeMod
    /\ InitCaps \subseteq 0 .. SizeMod - 1
    /\ Incs \subseteq 0 .. SizeMod - 1
    /\ Callers \subseteq {"checked", "load"}
    /\ AllocMayFail \in BOOLEAN

VARIABLES
    len, cap,         \* buf->len, buf->cap
    pc,               \* where nbuf_reserve is, or its result
    caller, inc,      \* the call in progress
    newcap,           \* the local variable cap of nbuf_reserve
    stores            \* "beyond" once bytes were stored without room

bufferVars == <<len, cap, pc, caller, inc, newcap, stores>>

Wrap(n) == n % SizeMod

\* nbuf_init_write(buf, NULL, size), malloc succeeding
BufferInit ==
    /\ len = 0
    /\ cap \in InitCaps
    /\ pc = "idle"
    /\ caller \in Callers
    /\ inc = 0
    /\ newcap = 0
    /\ stores = "within"

\* Entry of nbuf_reserve(buf, n): a buffer without storage starts from the
\* minimum.  nbuf_load_file reserves one byte at a time.  The assertion that
\* stops a program whose len is beyond cap is a guard.
Reserve(c, n) ==
    /\ pc = "idle"
    /\ cap >= len
    /\ c = "load" => n = 1
    /\ pc' = "loop"
    /\ caller' = c
    /\ inc' = n
    /\ newcap' = IF cap = 0 THEN AllocMin ELSE cap
    /\ UNCHANGED <<len, cap, stores>>

\* Mutant of Grow: the loop stops one byte too early.
GrowOffByOne ==
    /\ pc = "loop"
    /\ UNCHANGED <<len, cap, caller, inc, stores>>
    /\ IF inc > Wrap(newcap - len) + 1
       THEN /\ newcap' = Wrap(newcap * 2)
            /\ pc' = IF Wrap(newcap * 2) = 0 THEN "fail" ELSE "loop"
       ELSE /\ pc' = "fit"
            /\ UNCHANGED newcap

\* Mutant of Grow: a capacity that wrapped to 0 is doubled again and again.
GrowNoOverflowTest ==
    /\ pc = "loop"
    /\ UNCHANGED <<len, cap, caller, inc, stores>>
    /\ IF inc > Wrap(newcap - len)
       THEN newcap' = Wrap(newcap * 2) /\ pc' = "loop"
       ELSE pc' = "fit" /\ UNCHANGED newcap

\* Mutant of Grow: the new capacity is computed in a wider type.
GrowWide ==
    /\ pc = "loop"
    /\ UNCHANGED <<len, cap, caller, inc, stores>>
    /\ IF inc > Wrap(newcap - len)
       THEN newcap' = newcap * 2 /\ pc' = "loop"
       ELSE pc' = "fit" /\ UNCHANGED newcap

\* while (inc > cap - buf->len) if (!(cap *= 2)) return false;
Grow ==
    /\ pc = "loop"
    /\ UNCHANGED <<len, cap, caller, inc, stores>>
    /\ IF inc > Wrap(newcap - len)
       THEN /\ newcap' = Wrap(newcap * 2)
            /\ pc' = IF Wrap(newcap * 2) = 0 THEN "fail" ELSE "loop"
       ELSE /\ pc' = "fit"
            /\ UNCHANGED newcap

\* if (cap > buf->cap) ... realloc ...; return true;
Realloc ==
    /\ pc = "fit"
    /\ UNCHANGED <<len, caller, inc, newcap, stores>>
    /\ IF newcap > cap
       THEN \/ pc' = "ok" /\ cap' = newcap
            \/ AllocMayFail /\ pc' = "fail" /\ UNCHANGED cap
       ELSE pc' = "ok" /\ UNCHANGED cap

\* What nbuf_reserve may get wrong: doubling a capacity that is no power of two
\* wraps to one that is not 0, when more than half of all sizes is asked for.
MayWrap == cap \notin CapSet /\ 2 * (len + inc) > SizeMod

\* Mutant of Append: every caller ignores the result.
AppendUnchecked ==
    /\ pc \in {"ok", "fail"}
    /\ pc' = "idle"
    /\ len' = Wrap(len + inc)
    /\ stores' = IF pc = "ok" /\ MayWrap THEN "beyond" ELSE stores
    /\ UNCHANGED <<cap, caller, inc, newcap>>

\* The caller goes on: buf->len += inc after true, nothing after false,
\* except that nbuf_load_file does not look.
Append ==
    /\ pc \in {"ok", "fail"}
    /\ pc' = "idle"
    /\ len' = IF pc = "ok" \/ caller = "load" THEN Wrap(len + inc) ELSE len
    /\ stores' = IF \/ pc = "fail" /\ caller = "load"
                    \/ pc = "ok" /\ MayWrap
                 THEN "beyond" ELSE stores
    /\ UNCHANGED <<cap, caller, inc, newcap>>

\* nbuf_clear
Clear ==
    /\ pc = "idle"
    /\ len' = 0
    /\ UNCHANGED <<cap, pc, caller, inc, newcap, stores>>

\* nbuf_free
Free ==
    /\ pc = "idle"
    /\ len' = 0 /\ cap' = 0
    /\ UNCHANGED <<pc, caller, inc, newcap, stores>>

BufferNext ==
    \/ \E c \in Callers : \E n \in Incs : Reserve(c, n)
    \/ Grow
    \/ Realloc
    \/ Append
    \/ Clear
    \/ Free

BufferSpec == BufferInit /\ [][BufferNext]_bufferVars

\* A call in progress is not abandoned.
FairSpec ==
    BufferSpec /\ WF_bufferVars(Grow) /\ WF_bufferVars(Realloc) /\ WF_bufferVars(Append)

-----------------------------------------------------------------------------
BufferTypeOK ==
    /\ len \in 0 .. SizeMod - 1
    /\ cap \in 0 .. SizeMod - 1
    /\ newcap \in 0 .. SizeMod - 1
    /\ inc \in 0 .. SizeMod - 1
    /\ pc \in {"idle", "loop", "fit", "ok", "fail"}
    /\ caller \in {"checked", "load"}
    /\ stores \in {"within", "beyond"}

\* When nbuf_reserve returns true, the room asked for is there, whatever was
\* asked for before: the assertion of _nbuf_create,
\* assert(totalsz <= buf->cap - buf->len).  (Not so if MayWrap: 20 bytes with
\* 20 in use are doubled to 40 and, where a size_t has six bits, to 16, which
\* wraps around 45 bytes more and looks like room for them.)
RoomMade == pc = "ok" /\ ~MayWrap => len + inc <= cap

\* The buffer never holds more bytes than were allocated: the assertion at
\* the entry of nbuf_reserve, assert(cap >= buf->len).  (nbuf_load_file going
\* on after a failure and the wrap of RoomMade are the only ways to get there.)
LenWithinCap == stores = "within" => len <= cap

\* nbuf_reserve returns, even though its loop condition is computed in
\* arithmetic that wraps around.
ReserveReturns == pc = "loop" ~> pc \in {"ok", "fail"}
=============================================================================

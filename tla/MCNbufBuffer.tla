---------------------------- MODULE MCNbufBuffer ----------------------------
(***************************************************************************)
(* An instance of NbufBuffer with a five-bit size_t and a minimum          *)
(* allocation of four bytes: every initial capacity, every amount.         *)
(***************************************************************************)
EXTENDS NbufBuffer

PowersOfTwo == {1, 2, 4, 8, 16}
AllSizes == 0 .. 31
=============================================================================

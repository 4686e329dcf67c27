---------------------------- MODULE MCNbufReader ----------------------------
(***************************************************************************)
(* Instances of NbufReader: a buffer of a few words in which every header  *)
(* and pointer word takes every value of a small set.                      *)
(***************************************************************************)
EXTENDS NbufReader

\* Null, the next words, a step back inside the buffer and one before it.
SignedRels == {-9, -4, 0, 1, 2}
=============================================================================

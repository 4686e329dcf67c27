------------------------------- MODULE MCNRpc -------------------------------
(* Clients 1, 2, 3 ask for names of 0, 2 and 4 bytes; bytes have four      *)
(* values and the first word two bytes.                                    *)
EXTENDS NRpc

MCName == [c \in Clients |-> SubSeq(<<c, 1, 1, 1>>, 1, 2 * (c - 1))]
=============================================================================

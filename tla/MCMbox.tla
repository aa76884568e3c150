------------------------------- MODULE MCMbox -------------------------------
(* Three writers that differ only in their DURABILITY, two write calls per *)
(* record: enough for a writer to fail, roll back or die between two       *)
(* published neighbours.                                                    *)
EXTENDS Mbox, TLC

CONSTANTS w1, w2, w3

MCWriters == {w1, w2, w3}

WriterSymmetry == Permutations(MCWriters)
=============================================================================

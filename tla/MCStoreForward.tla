--------------------------- MODULE MCStoreForward ---------------------------
(* A small instance of StoreForward for TLC: one file, and enough threads and *)
(* disruptions for three claims of one job to overlap.                        *)
EXTENDS StoreForward

CONSTANTS f1, a1, a2

OneFile == {f1}
TwoAdmins == {a1, a2}
=============================================================================

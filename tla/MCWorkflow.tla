----------------------------- MODULE MCWorkflow -----------------------------
(* Small instances of Workflow for TLC. *)
EXTENDS Workflow, TLC

CONSTANTS q1, q2, q3, p1, p2

ThreeRequests == {q1, q2, q3}
TwoThreads == {p1, p2}

\* Request ids and pool threads are only compared.
Symmetry == Permutations(Requests) \cup Permutations(Pool)
=============================================================================

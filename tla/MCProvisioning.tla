--------------------------- MODULE MCProvisioning ---------------------------
(* Small instances of Provisioning for TLC. *)
EXTENDS Provisioning, TLC

CONSTANTS a1, x1, x2

OneAttempt == {a1}
TwoRuns == {x1, x2}

\* Executions of commands are interchangeable.
RunSymmetry == Permutations(Runs)
=============================================================================

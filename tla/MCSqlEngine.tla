---------------------------- MODULE MCSqlEngine -----------------------------
(* Small instances of SqlEngine, with the backups of EngineBackup, for TLC. *)
EXTENDS EngineBackup, TLC

CONSTANTS k1, k2, v1, v2

OneKey == {k1}
OtherKey == {k2}
TwoVals == {v1, v2}

\* Column values are only compared.
ValSymmetry == Permutations(TwoVals)

\* Only the transaction that creates the table has two statements.
Small == step = "active" /\ Len(ops) = 2 => ops[1] = Ddl
NextSmall == NextBackup /\ Small'
SpecSmall == InitBackup /\ [][NextSmall]_backupVars
=============================================================================

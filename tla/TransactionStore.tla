-------------------------- MODULE TransactionStore --------------------------
(***************************************************************************)
(* What the SQL engine promises to those who commit transactions, without  *)
(* files, records or faults: commits become durable whole and in their     *)
(* order, a commit that has returned is durable, and a stop loses nothing  *)
(* but the last commits that have not.  A commit that failed may become    *)
(* durable, and the rows show it.  A store that breaks promises nothing    *)
(* more.  SqlEngine implements this specification.                         *)
(***************************************************************************)
EXTENDS Naturals, Sequences

CONSTANT Initial    \* the rows of a new database

VARIABLES
    running,    \* a process has the database open
    rows,       \* what the next transaction finds
    durable,    \* what would be found after a stop
    pending,    \* what each commit that is not durable yet makes of the rows
    possible,   \* what a caller may find who knows which commits have returned
    broken      \* the store does not keep its promises any more

vars == <<running, rows, durable, pending, possible, broken>>

Init ==
    /\ running = TRUE
    /\ rows = Initial /\ durable = Initial
    /\ pending = <<>> /\ possible = {Initial}
    /\ broken = FALSE

\* A commit begins.  Its transaction may have made anything of the rows.
Submit ==
    /\ running
    /\ pending' = Append(pending, rows')
    /\ possible' = possible \cup {rows'}
    /\ UNCHANGED <<running, durable>>

\* All commits become durable; the last of them may return with it.
Persist ==
    /\ pending # <<>>
    /\ durable' = rows
    /\ pending' = <<>>
    /\ possible' \in {possible, {rows}}
    /\ UNCHANGED <<running, rows>>

\* A commit returns: nothing is pending then.
Acknowledge ==
    /\ running
    /\ pending = <<>>
    /\ possible' = {rows}
    /\ UNCHANGED <<running, rows, durable, pending>>

\* The process stops.  The first n of the pending commits are durable.
Stop(n) ==
    /\ running
    /\ running' = FALSE
    /\ durable' = IF n = 0 THEN durable ELSE pending[n]
    /\ rows' = durable'
    /\ pending' = <<>>
    /\ UNCHANGED possible

\* The next process finds what is durable.
Reopen ==
    /\ ~running
    /\ running' = TRUE
    /\ possible' = {durable}
    /\ UNCHANGED <<rows, durable, pending>>

\* Other data is put in place of what is durable.
Restore ==
    /\ ~running
    /\ rows' = durable'
    /\ possible' = {durable'}
    /\ UNCHANGED <<running, pending>>

Promised ==
    \/ Submit \/ Persist \/ Acknowledge
    \/ \E n \in 0..Len(pending) : Stop(n)
    \/ Reopen \/ Restore

Next == broken' = TRUE \/ (Promised /\ UNCHANGED broken)

Spec == Init /\ [][Next]_vars
=============================================================================

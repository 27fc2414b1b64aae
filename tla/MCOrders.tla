------------------------------ MODULE MCOrders ------------------------------
(***************************************************************************)
(* Small instances of Orders for TLC.  A behaviour runs either the plans   *)
(* of lines or the tracking items with their codes and attempts, which     *)
(* share the orders and nothing else; OrdersProofs has both at once.       *)
(***************************************************************************)
EXTENDS Orders, TLC

CONSTANTS t1, t2, n1, n2

VARIABLE focus      \* what this behaviour runs

TwoThreads == {t1, t2}
TwoNumbers == {n1, n2}

\* Handler threads and order numbers are interchangeable.
OrdersSymmetry == Permutations(Threads) \cup Permutations(Numbers)

OthersOf == [plans |-> {"item", "newOrder", "expand"}, codes |-> {"entry"}]

InitFocus == Init /\ focus \in {"plans", "codes"}
NextFocus == Next /\ UNCHANGED focus /\ \A t \in Threads : thread'[t].op \notin OthersOf[focus]
SpecFocus == InitFocus /\ [][NextFocus]_<<vars, focus>>
=============================================================================

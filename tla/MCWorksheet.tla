----------------------------- MODULE MCWorksheet -----------------------------
(***************************************************************************)
(* Small instances of the worksheet window for TLC: a behaviour runs       *)
(* either the rows with their drafts and saves (Worksheet) or the cells as *)
(* a spreadsheet (Grid), which share no state of the models.               *)
(***************************************************************************)
EXTENDS Worksheet, Grid

VARIABLE view   \* what this behaviour runs

windowVars == <<view, vars, gridVars>>

\* Two dates of two months, so that the month's cache is missed.
TwoMonths == ("may31" :> "may") @@ ("june1" :> "june")

\* Two parts with different initials.
Letters == ("HMS" :> "H") @@ ("jig" :> "J") @@ ("pin" :> "P")

\* Product ids are only compared.
Symmetry == Permutations(Ids)

\* A formula over plain cells, and one that hides a circular reference.
OneBlank == <<<<Blank>>>>
Choice == Call("IF", <<Test("<", Ref(1, 1), Ref(2, 1)), Op("+", Ref(1, 1), Ref(2, 1)),
                       Call("COUNTIF", <<Span(Ref(1, 1), Ref(2, 1)), Const(Crit(">=", Num(3)))>>)>>)
Plus == << <<Plain(Num(1)), Calc(Choice)>>, <<Plain(Num(3)), Plain(Text(1))>> >>
Circle == << <<Calc(Call("IFERROR", <<Ref(1, 3), Const(Num(0))>>)),
               Calc(Op("*", Ref(1, 1), Const(Num(2)))), Calc(Op("+", Ref(1, 1), Ref(1, 2)))>> >>
SomeSheets == {OneBlank, Plus, Circle}
TwoEntries == {Plain(Num(5)), Calc(Op("+", Ref(1, 1), [Ref(1, 2) EXCEPT !.lockCol = TRUE]))}

InitWindow ==
    /\ view \in {"rows", "cells"}
    /\ Init /\ InitGrid
    /\ view = "cells" <=> cells # OneBlank

\* The user of the cells is done: the bound on commands is no deadlock.
CellsDone == view = "cells" /\ commands = MaxGridEdits /\ UNCHANGED <<vars, gridVars>>

NextWindow ==
    /\ UNCHANGED view
    /\ \/ view = "rows" /\ Next /\ UNCHANGED gridVars
       \/ view = "cells" /\ NextGrid /\ UNCHANGED vars
       \/ CellsDone

SpecWindow == InitWindow /\ [][NextWindow]_windowVars
=============================================================================

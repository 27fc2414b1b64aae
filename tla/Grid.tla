-------------------------------- MODULE Grid --------------------------------
(***************************************************************************)
(* The cells of the delivery worksheet as a spreadsheet: typing, filling,  *)
(* clearing, replacing, the clipboard, AutoSum, the formula view, and undo *)
(* and redo.  A command is one transaction of the history.  A cell edited  *)
(* in place is not: every signal it raises records the grid as it is then, *)
(* half rendered too.  Signals that change a tool tip only are left out,   *)
(* as are the columns of codes and pictures and the display formats.       *)
(*                                                                         *)
(* Every save of a row and every change of date loads the rows again from  *)
(* the draft and forgets the history.  A grid with formulas is not loaded  *)
(* here: a formula that comes back from a draft has lost its role, and the *)
(* next rendering replaces it by its value for good.                       *)
(***************************************************************************)
EXTENDS Formula

LOCAL INSTANCE SequencesExt
LOCAL INSTANCE FiniteSetsExt
LOCAL INSTANCE TLC

CONSTANTS
    Sheets,         \* grids a window is loaded with
    Entries,        \* contents that can be typed
    MaxUndo,        \* entries of the undo stack (100)
    MaxGridRows,    \* bound: rows of the grid
    MaxGridEdits    \* bound: commands of the user

ASSUME GridAssumption == MaxUndo \in Nat \ {0} /\ MaxGridRows \in Nat /\ MaxGridEdits \in Nat

VARIABLES
    cells,          \* the contents of the grid, row by row
    formulaView,    \* _showing_formulas
    undoStack, redoStack,
    clipboard,
    commands        \* commands so far (bound)

gridVars == <<cells, formulaView, undoStack, redoStack, clipboard, commands>>

Source == [kind |-> "source"]   \* a cell that shows its formula
Blank == Plain(Empty)
Missing == [formula |-> FALSE, value |-> Empty, item |-> FALSE]    \* a cell without an item

\* What the cells show after recalculate_formulas.
ShownTexts(sheet, showing, results) ==
    [r \in DOMAIN sheet |-> [c \in DOMAIN sheet[r] |->
        IF sheet[r][c].formula /\ showing THEN Source ELSE results[r][c]]]
Rendered(sheet, showing) == ShownTexts(sheet, showing, Recalculated(sheet))

\* _snapshot; at rest it is also _last_snapshot.
Snapshot(sheet, shown) == [sheet |-> sheet, shown |-> shown]
Current == Snapshot(cells, Rendered(cells, formulaView))

\* The grid after each cell that recalculate_formulas gives a new text, in reading order.
StepsBetween(sheet, shown, final) ==
    LET places == Positions(sheet)
        UpTo(n) == [r \in DOMAIN sheet |-> [c \in DOMAIN sheet[r] |->
                        IF \E i \in 1..n : places[i] = <<r, c>> THEN final[r][c] ELSE shown[r][c]]]
        changed == {i \in DOMAIN places :
                        shown[places[i][1]][places[i][2]] # final[places[i][1]][places[i][2]]}
    IN  [k \in 1..Cardinality(changed) |->
            Snapshot(sheet, UpTo(SetToSortSeq(changed, <)[k]))]
RenderSteps(sheet, shown, showing) == StepsBetween(sheet, shown, Rendered(sheet, showing))

LastOf(stack) == SubSeq(stack, IF Len(stack) > MaxUndo THEN Len(stack) - MaxUndo + 1 ELSE 1, Len(stack))

\* _record_item_change, once for every state the signals of one change pass through.
Recorded(undo, states) == LastOf(undo \o <<Current>> \o Front(states))

\* _begin_history_transaction to _commit_history_transaction.  Cloned items never compare
\* equal, so that a command that changes nothing is recorded too.
Commit(sheet) ==
    /\ commands < MaxGridEdits
    /\ Len(sheet) <= MaxGridRows
    /\ commands' = commands + 1
    /\ cells' = sheet
    /\ undoStack' = LastOf(Append(undoStack, Current))
    /\ redoStack' = <<>>
    /\ UNCHANGED formulaView

-----------------------------------------------------------------------------
(* Ranges and translated formulas *)

Width == Len(cells[1])

\* _selection_bounds
Ranges == {[top |-> t, left |-> l, bottom |-> b, right |-> r] :
                t \in DOMAIN cells, l \in 1..Width, b \in DOMAIN cells, r \in 1..Width}
Selections == {s \in Ranges : s.top <= s.bottom /\ s.left <= s.right}
Holds(s, r, c) == r \in s.top..s.bottom /\ c \in s.left..s.right

RECURSIVE References(_), Translated(_, _, _)

References(tree) ==
    CASE tree.node = "ref" -> {tree}
      [] tree.node = "range" -> {tree.from, tree.to}
      [] tree.node \in {"const", "bad"} -> {}
      [] OTHER -> UNION {References(tree.args[i]) : i \in DOMAIN tree.args}

\* A part with a lock stays; the others move.
Shifted(ref, rows, cols) ==
    [ref EXCEPT !.row = IF ref.lockRow THEN @ ELSE @ + rows,
                !.col = IF ref.lockCol THEN @ ELSE @ + cols]

\* _translated_formula: a reference that leaves the grid at the top or the left turns
\* into a text that no formula can hold.
Translated(tree, rows, cols) ==
    IF \E ref \in References(tree) :
            Shifted(ref, rows, cols).row < 1 \/ Shifted(ref, rows, cols).col < 1 THEN Bad
    ELSE CASE tree.node = "ref" -> Shifted(tree, rows, cols)
           [] tree.node = "range" -> [tree EXCEPT !.from = Shifted(@, rows, cols),
                                                  !.to = Shifted(@, rows, cols)]
           [] tree.node \in {"const", "bad"} -> tree
           [] OTHER -> [tree EXCEPT !.args =
                            [i \in DOMAIN @ |-> Translated(@[i], rows, cols)]]

\* A clone of a cell, put over another one that many rows and columns away.
Copied(content, over, rows, cols) ==
    IF content = Missing THEN over
    ELSE IF content.formula THEN Calc(Translated(content.tree, rows, cols)) ELSE content

\* setRowCount for a row below the last one
Grown(sheet, rows) ==
    [r \in 1..Max({rows, Len(sheet)}) |->
        IF r \in DOMAIN sheet THEN sheet[r] ELSE [c \in DOMAIN sheet[1] |-> Missing]]

-----------------------------------------------------------------------------
(* Typing *)

\* The grid once the cell has its new text: typed formulas show it.
Typed(at, content) == [Current.shown EXCEPT ![at[1]][at[2]] = IF content.formula THEN Source ELSE content.value]

\* _on_item_changed after an edit in the cell; storing or dropping the formula is a change
\* of its own.
EditCell(at, content) ==
    LET sheet == [cells EXCEPT ![at[1]][at[2]] = content]
        typed == Snapshot(sheet, Typed(at, content))
        final == Snapshot(sheet, Rendered(sheet, formulaView))
        stored == IF content.formula \/ cells[at[1]][at[2]].formula THEN <<typed>> ELSE <<>>
    IN  /\ commands < MaxGridEdits
        /\ content # cells[at[1]][at[2]]
        /\ commands' = commands + 1
        /\ cells' = sheet
        /\ undoStack' = Recorded(undoStack,
                            stored \o RenderSteps(sheet, typed.shown, formulaView) \o <<final>>)
        /\ redoStack' = <<>>
        /\ UNCHANGED <<formulaView, clipboard>>

ApplyFormulaBar(at, content) ==
    Commit([cells EXCEPT ![at[1]][at[2]] = content]) /\ UNCHANGED clipboard

Filled(selection, content) ==
    [r \in DOMAIN cells |-> [c \in 1..Width |->
        IF Holds(selection, r, c) THEN content ELSE cells[r][c]]]

FillSelectedCells(selection, content) ==
    Commit(Filled(selection, content)) /\ UNCHANGED clipboard

Cleared(selection) ==
    [r \in DOMAIN cells |-> [c \in 1..Width |->
        IF Holds(selection, r, c) /\ cells[r][c] # Missing THEN Blank ELSE cells[r][c]]]

ClearSelectedCells(selection) == Commit(Cleared(selection)) /\ UNCHANGED clipboard

\* replace_all of one letter by so many; the letter stands in no formula.
ReplaceLetters(letters) ==
    /\ Commit([r \in DOMAIN cells |-> [c \in 1..Width |->
                IF ~cells[r][c].formula /\ cells[r][c].value.kind = "text" /\ cells[r][c].value.n > 0
                THEN Plain(Text(cells[r][c].value.n * letters)) ELSE cells[r][c]]])
    /\ UNCHANGED clipboard

InsertAutoSum(selection) ==
    LET target == selection.bottom + 1
        total == Calc(Call("SUM", <<Span(Ref(selection.top, selection.left),
                                         Ref(selection.bottom, selection.left))>>))
    IN  /\ selection.left = selection.right
        /\ Commit([Grown(cells, target) EXCEPT ![target][selection.left] = total])
        /\ UNCHANGED clipboard

-----------------------------------------------------------------------------
(* Filling *)

FillSelectionDown(selection) ==
    /\ selection.top # selection.bottom
    /\ Commit([r \in DOMAIN cells |-> [c \in 1..Width |->
                IF Holds(selection, r, c) /\ r > selection.top
                THEN Copied(cells[selection.top][c], cells[r][c], r - selection.top, 0)
                ELSE cells[r][c]]])
    /\ UNCHANGED clipboard

FillSelectionRight(selection) ==
    /\ selection.left # selection.right
    /\ Commit([r \in DOMAIN cells |-> [c \in 1..Width |->
                IF Holds(selection, r, c) /\ c > selection.left
                THEN Copied(cells[r][selection.left], cells[r][c], 0, c - selection.left)
                ELSE cells[r][c]]])
    /\ UNCHANGED clipboard

\* _numeric_series_value on what the source shows: two numbers or more have a step.
SeriesValue(values, position, otherwise) ==
    IF Len(values) < 2 \/ \E i \in DOMAIN values : values[i].kind # "num" THEN otherwise
    ELSE Plain(Num(values[1].n + ((values[Len(values)].n - values[1].n) \div (Len(values) - 1)) * position))

Distance(x, from, to) == Min({IF x >= y THEN x - y ELSE y - x : y \in {from, to}})

\* The cells a drag of the handle fills: below or above the source, else beside it.
FillArea(s, at) ==
    LET outRow == at[1] \notin s.top..s.bottom
        outCol == at[2] \notin s.left..s.right
    IN  IF outRow /\ (~outCol \/ Distance(at[1], s.top, s.bottom) >= Distance(at[2], s.left, s.right))
        THEN [down |-> TRUE, left |-> s.left, right |-> s.right,
              top |-> IF at[1] < s.top THEN at[1] ELSE s.bottom + 1,
              bottom |-> IF at[1] < s.top THEN s.top - 1 ELSE at[1]]
        ELSE [down |-> FALSE, top |-> s.top, bottom |-> s.bottom,
              left |-> IF at[2] < s.left THEN at[2] ELSE s.right + 1,
              right |-> IF at[2] < s.left THEN s.left - 1 ELSE at[2]]

\* What the source shows in the row or the column of a filled cell.
SourceValues(s, area, at, shown) ==
    IF area.down THEN [i \in 1..(s.bottom - s.top + 1) |-> shown[s.top + i - 1][at[2]]]
    ELSE [i \in 1..(s.right - s.left + 1) |-> shown[at[1]][s.left + i - 1]]

\* Every cell of the area repeats the source; the numbers shown are read again each time.
FillCell(s, area, copyOnly, sheet, at) ==
    LET r == s.top + ((at[1] - s.top) % (s.bottom - s.top + 1))
        c == s.left + ((at[2] - s.left) % (s.right - s.left + 1))
        position == IF area.down THEN at[1] - s.top ELSE at[2] - s.left
        content == IF sheet[r][c].formula \/ copyOnly \/ sheet[r][c] = Missing
                   THEN Copied(sheet[r][c], sheet[at[1]][at[2]], at[1] - r, at[2] - c)
                   ELSE SeriesValue(SourceValues(s, area, at, Rendered(sheet, formulaView)),
                                    position, sheet[r][c])
    IN  [sheet EXCEPT ![at[1]][at[2]] = content]

FillFormulaRange(s, at, copyOnly) ==
    LET area == FillArea(s, at)
        targets == SelectSeq(Positions(cells), LAMBDA p : Holds(area, p[1], p[2]))
    IN  /\ ~Holds(s, at[1], at[2])
        /\ Commit(FoldLeft(LAMBDA sheet, p : FillCell(s, area, copyOnly, sheet, p), cells, targets))
        /\ UNCHANGED clipboard

\* Rows below the source go on as long as a cell beside it shows something.
Beside(s, r) == \E c \in {s.left - 1, s.right + 1} \cap (1..Width) : Current.shown[r][c] # Empty

AutofillFormulaDown(s) ==
    LET runs == {r \in (s.bottom + 1)..Len(cells) : \A q \in (s.bottom + 1)..r : Beside(s, q)}
    IN  /\ \E r \in s.top..s.bottom, c \in s.left..s.right : cells[r][c].formula
        /\ runs # {}
        /\ FillFormulaRange(s, <<Max(runs), s.right>>, FALSE)

-----------------------------------------------------------------------------
(* Clipboard: the texts behind the cells, formulas as they were typed *)

Copy(s) == [i \in 1..(s.bottom - s.top + 1) |->
                [j \in 1..(s.right - s.left + 1) |->
                    LET content == cells[s.top + i - 1][s.left + j - 1]
                    IN  IF content = Missing THEN Blank ELSE content]]

CopyToClipboard(s) ==
    /\ commands < MaxGridEdits
    /\ commands' = commands + 1
    /\ clipboard' = Copy(s)
    /\ UNCHANGED <<cells, formulaView, undoStack, redoStack>>

CutToClipboard(s) == Commit(Cleared(s)) /\ clipboard' = Copy(s)

\* _paste_tabular_text: the grid grows downwards and cuts off on the right.
PasteFromClipboard(at) ==
    LET sheet == Grown(cells, at[1] + Len(clipboard) - 1)
    IN  /\ clipboard # <<>>
        /\ Commit([r \in DOMAIN sheet |-> [c \in 1..Width |->
                    IF r - at[1] + 1 \in DOMAIN clipboard /\ c - at[2] + 1 \in DOMAIN clipboard[1]
                    THEN clipboard[r - at[1] + 1][c - at[2] + 1] ELSE sheet[r][c]]])
        /\ UNCHANGED clipboard

-----------------------------------------------------------------------------
(* The formula view and the history *)

\* The stacks once the cells rendered anew are recorded one by one.
RecordSteps(undo, redo, steps) ==
    /\ undoStack' = IF steps = <<>> THEN undo ELSE Recorded(undo, steps)
    /\ redoStack' = IF steps = <<>> THEN redo ELSE <<>>

ToggleFormulaView ==
    /\ commands < MaxGridEdits
    /\ commands' = commands + 1
    /\ formulaView' = ~formulaView
    /\ RecordSteps(undoStack, redoStack, RenderSteps(cells, Current.shown, ~formulaView))
    /\ UNCHANGED <<cells, clipboard>>

\* _restore_snapshot: signals are blocked while the items are set, not while the formulas
\* are rendered; what that changes is recorded.
Restore(snapshot, undo, redo) ==
    /\ cells' = snapshot.sheet
    /\ RecordSteps(undo, redo, RenderSteps(snapshot.sheet, snapshot.shown, formulaView))
    /\ UNCHANGED <<formulaView, clipboard, commands>>

\* Mutant: the grid that is left is not kept for redo.
UndoForgets ==
    /\ undoStack # <<>>
    /\ Restore(Last(undoStack), Front(undoStack), redoStack)

Undo ==
    /\ undoStack # <<>>
    /\ Restore(Last(undoStack), Front(undoStack), Append(redoStack, Current))

Redo ==
    /\ redoStack # <<>>
    /\ Restore(Last(redoStack), Append(undoStack, Current), Front(redoStack))

\* load_entry_rows_for_selected_date, of the date in hand: the draft brings the texts back,
\* every cell gets an item, and reset_history drops what could be undone or redone.
ReloadRows ==
    /\ \A r \in DOMAIN cells, c \in 1..Width : ~cells[r][c].formula
    /\ cells' = [r \in DOMAIN cells |-> [c \in 1..Width |->
                    IF cells[r][c] = Missing THEN Blank ELSE cells[r][c]]]
    /\ undoStack' = <<>> /\ redoStack' = <<>>
    /\ UNCHANGED <<formulaView, clipboard, commands>>

-----------------------------------------------------------------------------
InitGrid ==
    /\ cells \in Sheets
    /\ formulaView = FALSE
    /\ undoStack = <<>> /\ redoStack = <<>>
    /\ clipboard = <<>>
    /\ commands = 0

AllCells == (DOMAIN cells) \X (1..Width)

NextGrid ==
    \/ \E at \in AllCells, content \in Entries :
            EditCell(at, content) \/ ApplyFormulaBar(at, content)
    \/ \E s \in Selections, content \in Entries : FillSelectedCells(s, content)
    \/ \E s \in Selections :
            \/ ClearSelectedCells(s) \/ InsertAutoSum(s)
            \/ FillSelectionDown(s) \/ FillSelectionRight(s) \/ AutofillFormulaDown(s)
            \/ CopyToClipboard(s) \/ CutToClipboard(s)
    \/ \E s \in Selections, at \in AllCells, copyOnly \in BOOLEAN : FillFormulaRange(s, at, copyOnly)
    \/ \E letters \in {0, 2} : ReplaceLetters(letters)
    \/ \E at \in AllCells : PasteFromClipboard(at)
    \/ ToggleFormulaView
    \/ Undo
    \/ Redo
    \/ ReloadRows

-----------------------------------------------------------------------------
(* Properties *)

\* The cells a formula reads.
Reads(at) ==
    LET content == cells[at[1]][at[2]]
        RECURSIVE Of(_)
        Of(tree) ==
            CASE tree.node = "ref" -> {<<tree.row, tree.col>>}
              [] tree.node = "range" -> (tree.from.row..tree.to.row) \X (tree.from.col..tree.to.col)
              [] tree.node \in {"const", "bad"} -> {}
              [] OTHER -> UNION {Of(tree.args[i]) : i \in DOMAIN tree.args}
    IN  IF content.formula THEN Of(content.tree) \cap AllCells ELSE {}

\* The cells behind a cell, through any number of formulas.
Behind(at) ==
    LET RECURSIVE Grow(_)
        Grow(S) == LET T == S \cup UNION {Reads(p) : p \in S} IN IF T = S THEN S ELSE Grow(T)
    IN  Grow(Reads(at))

\* No formula behind the cell reads itself.
Grounded(at) == \A p \in {at} \cup Behind(at) : p \notin Behind(p)

\* The grid with every formula but one replaced by what its cell shows.
Settled(at, shown) ==
    [r \in DOMAIN cells |-> [c \in 1..Width |->
        IF <<r, c>> = at THEN cells[r][c] ELSE Plain(shown[r][c])]]

\* Catches errors on the way to a cell.
RECURSIVE Forgives(_)
Forgives(tree) ==
    tree.node \in {"op", "test", "call"} /\
        (\/ tree.node = "call" /\ tree.name = "IFERROR"
         \/ \E i \in DOMAIN tree.args : Forgives(tree.args[i]))

\* A formula without a cycle behind it gives what it gives on the values the other cells
\* show, in whatever order the cells were evaluated; a cell on a cycle shows an error.
FormulasAgree(shown) ==
    \A at \in AllCells : LET content == cells[at[1]][at[2]] IN content.formula =>
        /\ Grounded(at) => shown[at[1]][at[2]] = Evaluate(Settled(at, shown), content.tree, {at}, <<>>).v
        /\ at \in Behind(at) /\ (\A p \in Behind(at) : cells[p[1]][p[2]].formula => ~Forgives(cells[p[1]][p[2]].tree))
                => Raised(shown[at[1]][at[2]])

\* On a grid without errors the lookups name one row, and counting splits a column.
LookupsAgree(shown) ==
    LET keys == List([r \in DOMAIN cells |-> <<shown[r][1]>>])
        results == List([r \in DOMAIN cells |-> <<shown[r][Width]>>])
    IN  Width > 1 /\ (\A at \in AllCells : ~Raised(shown[at[1]][at[2]])) =>
            \A wanted \in {shown[r][1] : r \in DOMAIN cells} :
                LET row == Match(wanted, keys, Num(0))
                IN  /\ ~Raised(row)
                    /\ XLookup(wanted, keys, results, Value) = IndexOf(results, row, Num(1))
                    /\ VLookup(wanted, List(shown), Num(Width)) = IndexOf(results, row, Num(1))
                    /\ CountIf(keys, Crit("<", wanted)).n + CountIf(keys, Crit(">=", wanted)).n = Len(cells)
                    /\ CountIfs(<<keys, Crit(">=", wanted), keys, Crit("<=", wanted)>>) = CountIf(keys, wanted)
                    /\ SumIfs(keys, <<keys, wanted>>) = SumIf(keys, wanted, keys)

\* Every formula shows what it says, after any sequence of edits, fills, pastes, undos and
\* redos: the cache and the set of cells under evaluation in recalculate_formulas do not
\* show through, and the lookup functions agree with one another.
FormulasMeanWhatTheySay == \A shown \in {Recalculated(cells)} : FormulasAgree(shown) /\ LookupsAgree(shown)

Sheet(stack) == {stack[i].sheet : i \in DOMAIN stack}

\* No command of the user loses the grid it starts from, or one that could be undone to:
\* both can still be reached by undo and redo, as long as the undo stack has room.  Only a
\* load of the rows forgets them (reset_history), and an autosave 600 ms after a command
\* ends in one: what was typed before it cannot be undone any more.
NoStepLosesTheGrid ==
    [][~ReloadRows /\ Len(undoStack') < MaxUndo =>
        Sheet(undoStack) \cup {cells} \subseteq Sheet(undoStack') \cup Sheet(redoStack') \cup {cells'}]_gridVars
=============================================================================

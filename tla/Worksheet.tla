------------------------------ MODULE Worksheet ------------------------------
(***************************************************************************)
(* The delivery worksheet of one desktop, with the products of the server  *)
(* it saves to.  The worksheet shows the rows of one delivery date.  Two   *)
(* single-shot timers follow every changed cell: one saves the grid as the *)
(* draft of the date in the desktop's settings, the other sends the rows   *)
(* that changed to the server.  The user moves between dates, edits rows,  *)
(* saves, closes and reopens; other machines write products through the    *)
(* same API.                                                               *)
(*                                                                         *)
(* A save blocks the desktop, so none of its other events happens before   *)
(* the save ends; the server's other clients do go on.  The server serves  *)
(* a creation or an update in two steps, because the code sequence and the *)
(* version are read outside the transaction that writes the row.           *)
(*                                                                         *)
(* A row's typed columns are the customer (whose item also carries the id  *)
(* of the saved product), the dimensions, and the others as one: "detail", *)
(* blank when the quantity is.  Images, formulas, formats, filters and the *)
(* undo stack are left out: a row whose image upload fails counts as       *)
(* saved, and a refresh remembers the versions of all products, not of the *)
(* page that the filters leave.  updated_at is the number of the write.    *)
(***************************************************************************)
EXTENDS Naturals, Sequences, FiniteSets, SequencesExt, FiniteSetsExt

CONSTANTS
    Ids,            \* product ids
    NoId,           \* a row that was not saved
    NoItem,         \* a row that has no customer cell yet
    Companies, Details, Sizes,  \* texts that can be typed
    Initials,       \* the initials of a customer or a part, in a product code
    Dates,
    MonthOf,        \* the month of a date
    Today,          \* the date a new window shows
    NoDate,         \* the grid holds the rows of another date than the selected one
    NoMonth,        \* no month is cached
    MinRows,        \* rows of an empty worksheet (12)
    Spare,          \* blank rows below the last one (10)
    MaxRows,        \* bound: rows of the worksheet
    MaxEdits,       \* bound: edits of the user
    MaxWrites,      \* bound: writes of products
    MaxTrouble,     \* bound: faults and writes of other machines
    Faults          \* what can fail: "list", "call", "reply", "kill"

ASSUME WorksheetAssumption ==
    /\ IsFiniteSet(Ids) /\ NoId \notin Ids /\ NoItem \notin Ids \cup {NoId}
    /\ "" \notin Companies \cup Details \cup Sizes
    /\ Today \in Dates /\ NoDate \notin Dates
    /\ MonthOf \in [Dates -> {MonthOf[d] : d \in Dates}]
    /\ \A d \in Dates : NoMonth # MonthOf[d]
    /\ MinRows \in Nat \ {0} /\ Spare \in Nat \ {0} /\ MaxRows \in Nat
    /\ MaxRows >= MinRows /\ MaxRows >= Cardinality(Ids)
    /\ MaxEdits \in Nat /\ MaxWrites \in Nat /\ MaxTrouble \in Nat
    /\ Faults \subseteq {"list", "call", "reply", "kill"}

VARIABLES
    products,   \* the server's products; version 0 is no product
    now,        \* writes of products so far
    open,       \* the window is open
    date,       \* selected_delivery_date
    shown,      \* history: the selected date, if the grid was loaded for it
    grid,       \* entry_grid
    drafts,     \* worksheet/drafts/<date> in the settings
    timers,     \* the timers that run: draft, auto
    pending,    \* _pending_entry_rows
    cache,      \* _entry_products_month and _entry_products_by_date
    versions,   \* ProductApiClient._versions; 0 is not remembered
    save,       \* save_entry_rows in progress
    edits,      \* edits of the user so far (bound)
    trouble     \* faults and writes of other machines so far (bound)

desktop == <<date, shown, grid, drafts, timers, pending, cache, versions>>
vars == <<products, now, open, desktop, save, edits, trouble>>

-----------------------------------------------------------------------------
(* Product codes *)

NoCode == <<>>
NoneCode == <<"NONE">>          \* str(None), normalised
Generated(n) == <<"SP", n>>
Preview(row, r, d) == <<"WS", Initials[row.company], Initials[row.detail], d, r>>

(* Rows and products. *)

Columns == {"company", "detail", "size"}
Texts(column) == {""} \cup (CASE column = "company" -> Companies
                              [] column = "detail" -> Details
                              [] column = "size" -> Sizes)

BlankRow == [company |-> "", detail |-> "", size |-> "", id |-> NoId, code |-> NoCode,
             label |-> FALSE]
InsertedRow == [BlankRow EXCEPT !.id = NoItem]

HasUserData(row) == \E column \in Columns : row[column] # ""
Linked(row) == row.id \in Ids

NoProduct == [company |-> "", detail |-> "", size |-> "", code |-> NoCode, date |-> Today,
              version |-> 0]

Stored == {p \in Ids : products[p].version > 0}

CodeFree(code, p) == \A q \in Stored \ {p} : products[q].code # code

NextSequence == Cardinality(Stored) + 1

-----------------------------------------------------------------------------
(* Drafts and the product lists the desktop reads *)

DraftOf(g) ==
    [r \in {i \in 1..Len(g) : HasUserData(g[i]) \/ Linked(g[i])} |->
        [company |-> g[r].company, detail |-> g[r].detail, size |-> g[r].size,
         id |-> IF Linked(g[r]) THEN g[r].id ELSE NoId]]
NoDraft == DraftOf(<<>>)
Drafted(d) == DOMAIN drafts[d] # {}
DraftSaved == [drafts EXCEPT ![date] = DraftOf(grid)]

InMonth(p, month) == p \in Stored /\ MonthOf[products[p].date] = month
MonthItems(month) == [p \in Ids |-> IF InMonth(p, month) THEN products[p] ELSE NoProduct]
NoCache == [month |-> NoMonth, items |-> MonthItems(NoMonth)]

AllVersions == [p \in Ids |-> products[p].version]
MonthVersions(known, month) ==
    [p \in Ids |-> IF InMonth(p, month) THEN products[p].version ELSE known[p]]
LatestVersion(known) ==
    [p \in Ids |-> IF p \in Stored /\ products[p].version = now THEN now ELSE known[p]]

\* The row of a draft: the dimensions and the code are those of its product.
RestoredRow(row, d, items) ==
    LET found == row.id \in Ids /\ items[row.id].version > 0 /\ items[row.id].date = d IN
    [company |-> row.company, detail |-> row.detail, id |-> row.id, label |-> FALSE,
     size |-> IF found THEN items[row.id].size ELSE row.size,
     code |-> IF found THEN items[row.id].code ELSE NoCode]
ProductRow(p, items) ==
    [company |-> items[p].company, detail |-> items[p].detail, id |-> p, label |-> FALSE,
     size |-> items[p].size, code |-> items[p].code]

Length(used) == LET n == Max({MinRows, used + Spare}) IN IF n > MaxRows THEN MaxRows ELSE n
Padded(rows, length) == [r \in 1..length |-> IF r \in DOMAIN rows THEN rows[r] ELSE BlankRow]

\* The grids that a load can build; the order of the codes is left open.
LoadedGrids(d, draft, items) ==
    IF DOMAIN draft # {}
    THEN {Padded([r \in DOMAIN draft |-> RestoredRow(draft[r], d, items)],
                 Length(Max(DOMAIN draft) - 1))}
    ELSE {Padded([r \in DOMAIN order |-> ProductRow(order[r], items)],
                 Length(Len(order))) :
            order \in SetToSeqs({p \in Ids : items[p].version > 0 /\ items[p].date = d})}

-----------------------------------------------------------------------------
(* Loading a date and the timers *)

NoCall == [op |-> "none"]
Idle == [active |-> FALSE, queue |-> {}, imported |-> FALSE, call |-> NoCall]
Ready == open /\ ~save.active

NoTimers == [draft |-> FALSE, auto |-> FALSE]

Trouble == trouble < MaxTrouble /\ trouble' = trouble + 1
Fault(kind) == kind \in Faults /\ Trouble

\* load_entry_rows_for_selected_date for date d, with the drafts dr, the cached
\* products c and the remembered versions known.
LoadEntryRows(d, dr, c, known) ==
    LET month == MonthOf[d]
        hit == c.month = month
        loaded == IF hit THEN c ELSE [month |-> month, items |-> MonthItems(month)]
    IN /\ cache' = loaded
       /\ versions' = IF hit THEN known ELSE MonthVersions(known, month)
       /\ \E g \in LoadedGrids(d, dr[d], loaded.items) :
            /\ grid' = g
            /\ drafts' = IF DOMAIN dr[d] = {} THEN dr ELSE [dr EXCEPT ![d] = DraftOf(g)]
       /\ shown' = d
       /\ UNCHANGED trouble

\* The list request fails: the load raises before it touches the grid.
LoadRaises(d, dr, c, known) ==
    /\ Fault("list") /\ c.month # MonthOf[d]
    /\ cache' = c /\ versions' = known /\ drafts' = dr
    /\ shown' = IF shown = d THEN d ELSE NoDate
    /\ UNCHANGED grid

\* The signal of changed cells in these rows: schedule_entry_save.
ItemsChanged(rows) ==
    /\ timers' = [timers EXCEPT !.draft = TRUE, !.auto = TRUE]
    /\ pending' = pending \cup rows

Init ==
    /\ products = [p \in Ids |-> NoProduct] /\ now = 0
    /\ open = TRUE /\ date = Today /\ shown = Today
    /\ grid = Padded(<<>>, Length(0)) /\ drafts = [d \in Dates |-> NoDraft]
    /\ timers = NoTimers /\ pending = {}
    /\ cache = [month |-> MonthOf[Today], items |-> products]
    /\ versions = [p \in Ids |-> 0]
    /\ save = Idle /\ edits = 0 /\ trouble = 0

-----------------------------------------------------------------------------
(* Edits of the grid *)

Edit == Ready /\ edits < MaxEdits /\ edits' = edits + 1
Kept == UNCHANGED <<products, now, open, date, shown, drafts, cache, versions, save, trouble>>

\* _update_generated_codes, after a change of row r.
Recoded(row, r) ==
    IF row.company = "" \/ row.detail = ""
    THEN [row EXCEPT !.code = NoCode, !.label = FALSE]
    ELSE [row EXCEPT !.code = Preview(row, r, date), !.label = TRUE]

TypeCell(r, column, text) ==
    LET typed == [grid[r] EXCEPT ![column] = text]
        \* the customer's item appears with its first text
        row == IF column = "company" /\ typed.id = NoItem THEN [typed EXCEPT !.id = NoId] ELSE typed
    IN /\ Edit /\ grid[r][column] # text
       /\ grid' = [grid EXCEPT ![r] = Recoded(row, r)]
       /\ ItemsChanged({r})
       /\ Kept

\* A pasted cell is a new item, which carries no product id.
PasteCell(r, column, text) ==
    LET pasted == [grid[r] EXCEPT ![column] = text]
        row == IF column = "company" THEN [pasted EXCEPT !.id = NoId] ELSE pasted
    IN /\ Edit
       /\ grid' = [grid EXCEPT ![r] = Recoded(row, r)]
       /\ ItemsChanged({r})
       /\ Kept

\* Filled cells are clones; no code is generated, and code cells stay.
Cloned(source, target, columns) ==
    LET row == [target EXCEPT
                    !.company = IF "company" \in columns THEN source.company ELSE @,
                    !.detail = IF "detail" \in columns THEN source.detail ELSE @,
                    !.size = IF "size" \in columns THEN source.size ELSE @]
    IN IF "company" \in columns THEN [row EXCEPT !.id = source.id] ELSE row
FillDown(r, columns) ==
    /\ Edit /\ r < Len(grid) /\ grid[r].id # NoItem
    /\ grid' = [grid EXCEPT ![r + 1] = Cloned(grid[r], grid[r + 1], columns)]
    /\ ItemsChanged({r + 1})
    /\ Kept

\* Rows are inserted and removed without a signal of a changed cell.
InsertRow(r) ==
    /\ Edit /\ Len(grid) < MaxRows
    /\ grid' = InsertAt(grid, r, InsertedRow)
    /\ UNCHANGED <<timers, pending>> /\ Kept

DeleteRow(r) ==
    /\ Edit
    /\ grid' = IF Len(grid) = 1 THEN <<InsertedRow>> ELSE RemoveAt(grid, r)
    /\ UNCHANGED <<timers, pending>> /\ Kept

\* Mutant: the row is copied over the target, and the row it left stays.
MovedOver(g, r, target) == [g EXCEPT ![target] = g[r]]
\* The row is taken out, a row is inserted at the target for it, and the row
\* it left is removed.
Moved(g, r, target) ==
    LET row == IF g[r].id = NoItem THEN [g[r] EXCEPT !.id = NoId] ELSE g[r] IN
    RemoveAt(InsertAt(g, target, row), IF target < r THEN r + 1 ELSE r)
MoveRow(r, target) ==
    /\ Edit /\ target \in 1..Len(grid)
    /\ grid' = Moved(grid, r, target)
    /\ ItemsChanged({target})
    /\ Kept

\* Rows with text come first, in an order that the column decides and that is left
\* open; the others follow as they were.
SortRows ==
    LET Populated(r) == HasUserData(grid[r]) \/ grid[r].code # NoCode
    IN /\ Edit
       /\ \E order \in SetToSeqs(1..Len(grid)) :
            /\ \A i, j \in 1..Len(grid) : i < j /\ ~Populated(order[i])
                  => ~Populated(order[j]) /\ order[i] < order[j]
            /\ grid' = [i \in 1..Len(grid) |-> grid[order[i]]]
       /\ ItemsChanged({r \in 1..Len(grid) : grid'[r] # InsertedRow})
       /\ Kept

ClearRows ==
    /\ Edit
    /\ grid' = [r \in 1..Len(grid) |-> BlankRow]
    /\ ItemsChanged(1..Len(grid))
    /\ Kept

\* The label is made if there is none, copied, and dropped again.
CopyQrLabel(r) ==
    /\ Ready /\ grid[r].code # NoCode /\ grid[r].company # ""
    /\ grid' = [grid EXCEPT ![r].label = FALSE]
    /\ ItemsChanged({r})
    /\ Kept /\ UNCHANGED edits

AddRow ==
    /\ Ready /\ Len(grid) < MaxRows
    /\ grid' = Append(grid, BlankRow)
    /\ Kept /\ UNCHANGED <<timers, pending, edits>>

TrimBlankRows ==
    LET used == {r \in 1..Len(grid) : HasUserData(grid[r])}
        length == Length(IF used = {} THEN 0 ELSE Max(used))
    IN /\ Ready /\ length < Len(grid)
       /\ grid' = SubSeq(grid, 1, length)
       /\ Kept /\ UNCHANGED <<timers, pending, edits>>

-----------------------------------------------------------------------------
(* Dates, drafts, refreshes, and the life of the window *)

\* Mutant: the arrows stop the draft timer and do not save the draft.
ChangeDateUnsaved(d) ==
    /\ Ready /\ d # date
    /\ date' = d
    /\ \/ LoadEntryRows(d, drafts, cache, versions)
       \/ LoadRaises(d, drafts, cache, versions)
    /\ timers' = [timers EXCEPT !.draft = FALSE]
    /\ UNCHANGED <<products, now, open, pending, save, edits>>
\* The arrows beside the date: the draft is saved first.
ChangeEntryDeliveryDate(d) ==
    /\ Ready /\ d # date
    /\ date' = d
    /\ \/ LoadEntryRows(d, DraftSaved, cache, versions)
       \/ LoadRaises(d, DraftSaved, cache, versions)
    /\ UNCHANGED <<products, now, open, timers, pending, save, edits>>

\* A number typed over the date.  The month is then loaded again, which finds it cached.
CommitEntryDeliveryDate(d) ==
    /\ Ready
    /\ date' = d
    /\ \/ LoadEntryRows(d, drafts, cache, versions)
       \/ LoadRaises(d, drafts, cache, versions)
    /\ UNCHANGED <<products, now, open, timers, pending, save, edits>>

SaveEntryDraft ==
    /\ Ready /\ timers.draft
    /\ timers' = [timers EXCEPT !.draft = FALSE]
    /\ drafts' = DraftSaved
    /\ UNCHANGED <<products, now, open, date, shown, grid, pending, cache, versions,
                   save, edits, trouble>>

\* refresh(), from its button, the search box and the status filter.
Refresh ==
    /\ Ready
    /\ versions' = AllVersions
    /\ UNCHANGED <<products, now, open, date, shown, grid, drafts, timers, pending, cache, save,
                   edits, trouble>>

\* The newest product is read, and when it is not the one of the last time the
\* list is, too.
CheckForProductChanges ==
    /\ Ready
    /\ versions' = LatestVersion(versions) \/ versions' = AllVersions
    /\ UNCHANGED <<products, now, open, date, shown, grid, drafts, timers, pending, cache, save,
                   edits, trouble>>

\* The window is gone, and with it all that it held in memory.
Gone ==
    /\ open' = FALSE /\ grid' = <<>> /\ date' = Today /\ shown' = Today
    /\ timers' = NoTimers /\ pending' = {} /\ save' = Idle
    /\ cache' = NoCache /\ versions' = [p \in Ids |-> 0]
    /\ UNCHANGED <<products, now, edits>>

CloseWindow == Ready /\ drafts' = DraftSaved /\ UNCHANGED trouble /\ Gone

Kill == open /\ Fault("kill") /\ UNCHANGED drafts /\ Gone

OpenWindow ==
    /\ ~open /\ open' = TRUE
    /\ date' = Today
    /\ LoadEntryRows(Today, drafts, NoCache, AllVersions)
    /\ timers' = NoTimers
    /\ UNCHANGED <<products, now, pending, save, edits>>

-----------------------------------------------------------------------------
(* save_entry_rows *)

\* Rows below the grid, blank rows and rows without a customer cell are passed
\* over; a save changes none of that, so the others can be picked when it starts.
ToBeSaved(rows) ==
    {r \in rows : r <= Len(grid) /\ HasUserData(grid[r]) /\ grid[r].id # NoItem}
StartSave(rows) ==
    save' = [Idle EXCEPT !.active = ToBeSaved(rows) # {},
                         !.queue = ToBeSaved(rows)]

SaveCompletedRows ==
    /\ Ready /\ timers.auto
    /\ StartSave(pending)
    /\ pending' = {} /\ timers' = [timers EXCEPT !.auto = FALSE]
    /\ UNCHANGED <<products, now, open, date, shown, grid, drafts, cache, versions, edits, trouble>>

SaveAllRows ==
    /\ Ready
    /\ StartSave(1..Len(grid))
    /\ UNCHANGED <<products, now, open, desktop, edits, trouble>>

Saving == save.active /\ save.queue # {} /\ save.call = NoCall
ToSave == Min(save.queue)
RowToSave == grid[ToSave]
Skipped == [save EXCEPT !.queue = @ \ {ToSave}, !.call = NoCall]

\* ProductService.update_product compares the version the client remembers.
VersionMatches == versions[RowToSave.id] = products[RowToSave.id].version

\* An unremembered product and a conflict leave the row as it is, as do the
\* bounds on ids and writes.
SkipRow ==
    /\ Saving
    /\ \/ Linked(RowToSave) /\ ~VersionMatches
       \/ RowToSave.id = NoId /\ Stored = Ids
       \/ now = MaxWrites
    /\ save' = Skipped
    /\ UNCHANGED <<products, now, open, desktop, edits, trouble>>

RequestFails ==
    /\ Saving /\ Fault("call")
    /\ save' = Skipped
    /\ UNCHANGED <<products, now, open, desktop, edits>>

\* The server's part before its transaction: the sequence of a new code, or
\* the comparison of the version.
BeginCreate ==
    /\ Saving /\ RowToSave.id = NoId /\ Stored # Ids /\ now < MaxWrites
    /\ save' = [save EXCEPT !.call =
            [op |-> "create",
             code |-> IF RowToSave.code = NoCode THEN Generated(NextSequence) ELSE RowToSave.code]]
    /\ UNCHANGED <<products, now, open, desktop, edits, trouble>>

BeginUpdate ==
    /\ Saving /\ Linked(RowToSave) /\ now < MaxWrites
    /\ VersionMatches
    /\ save' = [save EXCEPT !.call =
            [op |-> "update", code |-> IF RowToSave.code = NoCode THEN NoneCode ELSE RowToSave.code]]
    /\ UNCHANGED <<products, now, open, desktop, edits, trouble>>

\* The product that the row in hand makes.
Written(row, code) ==
    [company |-> row.company, detail |-> row.detail, size |-> row.size, code |-> code,
     date |-> date, version |-> now + 1]

\* The answer arrived: the row is linked to product p and shows its code and label.
RowSaved(p, code) ==
    LET row == [RowToSave EXCEPT !.id = p, !.code = code, !.label = TRUE] IN
    /\ grid' = [grid EXCEPT ![ToSave] = row]
    /\ versions' = [versions EXCEPT ![p] = now + 1]
    /\ save' = [Skipped EXCEPT !.imported = TRUE]
    /\ IF row.id # RowToSave.id \/ row.code # RowToSave.code \/ ~RowToSave.label
       THEN ItemsChanged({ToSave})
       ELSE UNCHANGED <<timers, pending>>
    /\ UNCHANGED <<open, date, shown, drafts, cache, edits, trouble>>

ReplyLost ==
    /\ Fault("reply")
    /\ save' = Skipped
    /\ UNCHANGED <<open, desktop, edits>>

WriteProduct(p, code) ==
    /\ CodeFree(code, p)
    /\ products' = [products EXCEPT ![p] = Written(RowToSave, code)]
    /\ now' = now + 1
    /\ RowSaved(p, code) \/ ReplyLost

EndCreate(p) ==
    /\ save.call.op = "create" /\ p \notin Stored
    /\ WriteProduct(p, save.call.code)

EndUpdate ==
    /\ save.call.op = "update"
    /\ WriteProduct(RowToSave.id, save.call.code)

DuplicateCode ==
    /\ save.call # NoCall
    /\ ~CodeFree(save.call.code, RowToSave.id)
    /\ save' = Skipped
    /\ UNCHANGED <<products, now, open, desktop, edits, trouble>>

\* After the last row: refresh, forget the cache, save the draft, load the date.
FinishSave ==
    /\ save.active /\ save.queue = {}
    /\ save' = Idle
    /\ IF save.imported
       THEN \/ LoadEntryRows(date, DraftSaved, NoCache, AllVersions)
            \/ LoadRaises(date, DraftSaved, NoCache, AllVersions)
       ELSE UNCHANGED <<grid, shown, drafts, cache, versions, trouble>>
    /\ UNCHANGED <<products, now, open, date, timers, pending, edits>>

\* refresh() raises out of save_entry_rows.
FinishRaises ==
    /\ save.active /\ save.queue = {} /\ save.imported /\ Fault("list")
    /\ save' = Idle
    /\ UNCHANGED <<products, now, open, desktop, edits>>

-----------------------------------------------------------------------------
(* Other machines write products through the API, with the version they read. *)

RoomForWrite == (save.call = NoCall \/ now + 1 < MaxWrites) /\ now < MaxWrites /\ Trouble

OtherUpdate(p, column, text) ==
    /\ RoomForWrite /\ p \in Stored /\ products[p][column] # text
    /\ products' = [products EXCEPT ![p] =
            [@ EXCEPT ![column] = text, !.version = now + 1]]
    /\ now' = now + 1
    /\ UNCHANGED <<open, desktop, save, edits>>

\* From the worksheet's first row, or without a code.
OtherCreate(p, company, detail, d) ==
    LET row == [BlankRow EXCEPT !.company = company, !.detail = detail] IN
    /\ RoomForWrite /\ p \notin Stored
    /\ save.call.op = "create" => Stored \cup {p} # Ids
    /\ \E code \in {Preview(row, 1, d), Generated(NextSequence)} :
         /\ CodeFree(code, p)
         /\ products' = [products EXCEPT ![p] =
                [company |-> company, detail |-> detail, size |-> "", code |-> code, date |-> d,
                 version |-> now + 1]]
    /\ now' = now + 1
    /\ UNCHANGED <<open, desktop, save, edits>>

Rows == 1..Len(grid)

UserFills ==
    \E r \in Rows, columns \in {{"company"}, {"detail"}, Columns} : FillDown(r, columns)

UserEdits ==
    \/ \E r \in Rows, column \in Columns : \E text \in Texts(column) :
            TypeCell(r, column, text) \/ PasteCell(r, column, text)
    \/ UserFills
    \/ \E r \in Rows : InsertRow(r) \/ DeleteRow(r) \/ MoveRow(r, r - 1) \/ MoveRow(r, r + 1)
    \/ SortRows \/ ClearRows

WindowEvents ==
    \/ \E r \in Rows : CopyQrLabel(r)
    \/ AddRow \/ TrimBlankRows
    \/ \E d \in Dates : ChangeEntryDeliveryDate(d) \/ CommitEntryDeliveryDate(d)
    \/ SaveEntryDraft \/ Refresh \/ CheckForProductChanges
    \/ CloseWindow \/ Kill \/ OpenWindow

SaveSteps ==
    \/ SaveCompletedRows \/ SaveAllRows \/ SkipRow \/ RequestFails \/ BeginCreate \/ BeginUpdate
    \/ \E p \in Ids : EndCreate(p)
    \/ EndUpdate \/ DuplicateCode \/ FinishSave \/ FinishRaises

OtherMachines ==
    \/ \E p \in Ids, column \in {"detail", "size"} : \E text \in Texts(column) :
            OtherUpdate(p, column, text)
    \/ \E p \in Ids, c \in Companies, t \in Details, d \in Dates : OtherCreate(p, c, t, d)

Next == UserEdits \/ WindowEvents \/ SaveSteps \/ OtherMachines

Spec == Init /\ [][Next]_vars

-----------------------------------------------------------------------------
(* Properties *)

\* What the worksheet of date d holds, besides dimensions: in the grid, or in its draft.
Held(d) ==
    LET rows == IF open /\ shown = d THEN {grid[r] : r \in 1..Len(grid)}
                                     ELSE {drafts[d][r] : r \in DOMAIN drafts[d]}
    IN {row \in rows : row.company # "" \/ row.detail # ""}
HeldTexts(d) == {<<row.company, row.detail>> : row \in Held(d)}
HeldLinks(d) == {row.id : row \in Held(d)} \cap Ids
Worked(d) == (open /\ shown = d) => (timers.draft \/ Drafted(d))

\* The ways out of a date that do not save its draft.
LeavesUnsaved == Kill \/ \E d \in Dates : CommitEntryDeliveryDate(d)

WorkKept(d) == HeldTexts(d) \subseteq HeldTexts(d)' /\ HeldLinks(d) \subseteq HeldLinks(d)'

\* A list request failed on a change of date, so the grid still holds the rows of
\* the previous one; it is saved as the draft of the date that is now selected.
Misplaced == open /\ shown # date

\* Nothing but an edit of the user takes a row's texts or its link to a product
\* away from a date: saving, loading, changing the date, closing, reopening ("Keep
\* incomplete spreadsheet rows when users navigate away without saving.",
\* product_master_window.py:2804).  Two cases contradict that comment, and both
\* cost the selected date alone: a date typed over, or a killed process, before
\* the draft timer fired; and any save of the draft while the grid holds the rows
\* of the date before, after the list request of a change of date failed (the
\* selection changes at :2752 and :2797, the load raises at :2902).
DraftsKeepWork ==
    [][ edits' = edits => \A d \in Dates : Worked(d) /\ ~WorkKept(d) =>
            d = date /\ (Misplaced \/ (timers.draft /\ LeavesUnsaved)) ]_vars

\* At most one row of a worksheet is linked to a product.
LinkedOnce ==
    /\ \A r, s \in 1..Len(grid) : Linked(grid[r]) /\ grid[r].id = grid[s].id => r = s
    /\ \A d \in Dates : \A r, s \in DOMAIN drafts[d] :
            drafts[d][r].id \in Ids /\ drafts[d][r].id = drafts[d][s].id => r = s

\* Two rows come to share a product only by a fill that clones the customer
\* cell (fill_selection_down, fill_formula_range): no save, load, move, sort or
\* retry links a second row.
OnlyFillSharesLinks == [][LinkedOnce => LinkedOnce' \/ UserFills]_<<grid, drafts>>

=============================================================================

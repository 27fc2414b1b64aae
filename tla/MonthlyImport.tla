---------------------------- MODULE MonthlyImport ----------------------------
(***************************************************************************)
(* The import of the monthly lists: one program that reads dated sheets    *)
(* and writes products, a manifest of imported rows, images, one purchase  *)
(* order and tracking item per product, and finally rebuilds the product   *)
(* codes and order numbers.                                                *)
(*                                                                         *)
(* Every statement commits on its own, so the program may stop between any *)
(* two of them and is then run again from the start: one action is one     *)
(* statement.  The customer of a product is found by name or made first,   *)
(* which a repetition cannot disturb, and the audit event of a new item    *)
(* follows it; both are left out of the state.                             *)
(*                                                                         *)
(* An extracted row is the code that repair_imported_product_codes derives *)
(* from it, its quantity and its picture.  A derived code holds the date   *)
(* of the sheet and the number of the row, so different rows have          *)
(* different codes, and a correction changes the initials in them.         *)
(***************************************************************************)
EXTENDS Naturals, FiniteSets, FiniteSetsExt

CONSTANTS
    Rows,           \* source rows, numbered from 1
    Workbooks,      \* contents the workbook may have, row by row
    NoImage,        \* a row without a picture in column B
    Pngs,           \* the pictures that validate_upload accepts as image/png
    Skipped,        \* a row that _extract_from_rows leaves out
    MaxProducts,    \* bound on the products created
    MaxStops,       \* bound on the stops of the import
    MaxEdits,       \* bound on the corrections of the workbook
    MaxForeign      \* bound on orders entered by users and factory sheets imported

\* _extract_from_rows leaves out quantities that are not positive; a correction does not turn
\* a row into another row of the same date.
ASSUME MonthlyImportAssumption ==
    /\ IsFiniteSet(Rows) /\ Rows = 1..Cardinality(Rows)
    /\ \A w \in Workbooks, r \in Rows : w[r] = Skipped \/ w[r].quantity \in Nat \ {0}
    /\ \A v, w \in Workbooks, r, s \in Rows :
          v[r] # Skipped /\ w[s] # Skipped /\ v[r].code = w[s].code => r = s
    /\ NoImage \notin Pngs
    /\ MaxProducts \in Nat
    /\ MaxStops \in Nat
    /\ MaxEdits \in Nat
    /\ MaxForeign \in Nat

VARIABLES
    workbook,       \* the content of the workbook
    products,       \* products by internal_id
    manifest,       \* excel_monthly_import_rows: product and image_sha256 of each row
    images,         \* images uploaded for each product
    orders,         \* purchase orders with their line
    items,          \* quantity of the tracking item of each product, 0 for none
    pc,             \* the next statement of the import
    row,            \* the row it is at
    todo,           \* the products or orders it has yet to treat in the current loop
    plan,           \* all of those
    stops, edits, foreign

importVars == <<workbook, products, manifest, images, orders, items, pc, row, todo, plan,
          stops, edits, foreign>>

-----------------------------------------------------------------------------
(* Rows of the tables *)

Ids == 1..MaxProducts
NoProduct == [row |-> 0, code |-> <<"none", 0>>, content |-> Skipped]
Created == {p \in Ids : products[p] # NoProduct}
NotImported == [product |-> 0, image |-> NoImage]

\* Product codes: generated at creation, temporary, or rebuilt from the row.
FirstCode(p) == <<"first", p>>
TemporaryCode(p) == <<"tmp", p>>
RebuiltCode(content) == <<"rebuilt", content.code>>

\* _extract_from_rows and _source_date: rows without a quantity and undated sheets are left out
Extracted == {r \in Rows : workbook[r] # Skipped}

NumberTaken(number) == \E o \in orders : o.number = number
CodeTaken(code) == \E p \in Created : products[p].code = code

\* WHERE product_id = ? on the lines
LinesOf(p) == {o \in orders : o.product = p /\ o.line}

InitImport ==
    /\ workbook \in Workbooks
    /\ products = [p \in Ids |-> NoProduct]
    /\ manifest = [r \in Rows |-> NotImported]
    /\ images = [p \in Ids |-> 0]
    /\ orders = {}
    /\ items = [p \in Ids |-> 0]
    /\ pc = "idle"
    /\ row = 0
    /\ todo = {} /\ plan = {}
    /\ stops = 0 /\ edits = 0 /\ foreign = 0

Tables == <<products, manifest, images, orders, items>>
Outside == <<workbook, stops, edits, foreign>>

-----------------------------------------------------------------------------
(* import_monthly_lists: one source row after another *)

\* The next row that was extracted, or the end of the list.
GoToRowAfter(r) ==
    LET next == {s \in Extracted : s > r}
    IN  IF next = {}
        THEN pc' = "plan_sync" /\ row' = 0
        ELSE pc' = "row" /\ row' = Min(next)

StartImport ==
    /\ pc \in {"idle", "done", "error"}
    /\ GoToRowAfter(0)
    /\ UNCHANGED <<Tables, todo, plan, Outside>>

\* A row that the manifest knows: product, item and line take over the source values.
UpdateProduct ==
    /\ pc = "row"
    /\ manifest[row] # NotImported
    /\ products' = [products EXCEPT ![manifest[row].product].content = workbook[row]]
    /\ pc' = "update_item"
    /\ UNCHANGED <<manifest, images, orders, items, row, todo, plan, Outside>>

UpdateItem ==
    LET p == manifest[row].product
    IN  /\ pc = "update_item"
        /\ items' = [items EXCEPT ![p] = IF @ = 0 THEN 0 ELSE workbook[row].quantity]
        /\ pc' = "update_line"
        /\ UNCHANGED <<products, manifest, images, orders, row, todo, plan, Outside>>

\* Mutant: the ordered quantity of the line is not brought up to date.
UpdateNoLine ==
    /\ pc = "update_line"
    /\ pc' = "image"
    /\ UNCHANGED <<Tables, row, todo, plan, Outside>>

UpdateLine ==
    LET p == manifest[row].product
    IN  /\ pc = "update_line"
        /\ orders' = {IF o \in LinesOf(p) THEN [o EXCEPT !.quantity = workbook[row].quantity] ELSE o :
                         o \in orders}
        /\ pc' = "image"
        /\ UNCHANGED <<products, manifest, images, items, row, todo, plan, Outside>>

\* An unknown row: the product first, its manifest row afterwards.
CreateProduct ==
    /\ pc = "row"
    /\ manifest[row] = NotImported
    /\ Created # Ids
    /\ LET p == Min(Ids \ Created)
       IN  /\ products' = [products EXCEPT ![p] = [row |-> row, code |-> FirstCode(p),
                                                   content |-> workbook[row]]]
           /\ todo' = {p}
    /\ pc' = "record"
    /\ UNCHANGED <<manifest, images, orders, items, row, plan, Outside>>

RecordRow ==
    /\ pc = "record"
    /\ manifest' = [manifest EXCEPT ![row] = [product |-> Min(todo), image |-> NoImage]]
    /\ todo' = {}
    /\ pc' = "image"
    /\ UNCHANGED <<products, images, orders, items, row, plan, Outside>>

\* The picture anchored to the row, unless its digest is the recorded one
SkipImage ==
    /\ pc = "image"
    /\ workbook[row].image \in {NoImage, manifest[row].image}
    /\ GoToRowAfter(row)
    /\ UNCHANGED <<Tables, todo, plan, Outside>>

\* Every picture is declared image/png: validate_upload refuses any other, and the import
\* ends at its row.
RefuseImage ==
    /\ pc = "image"
    /\ workbook[row].image \notin Pngs \cup {NoImage, manifest[row].image}
    /\ pc' = "error"
    /\ UNCHANGED <<Tables, row, todo, plan, Outside>>

\* Mutant: a picture is uploaded whatever the manifest says.
UploadImageAgain ==
    /\ pc = "image"
    /\ workbook[row].image \in Pngs
    /\ images' = [images EXCEPT ![manifest[row].product] = @ + 1]
    /\ pc' = "record_image"
    /\ UNCHANGED <<products, manifest, orders, items, row, todo, plan, Outside>>

UploadImage ==
    /\ pc = "image"
    /\ workbook[row].image \in Pngs \ {manifest[row].image}
    /\ images' = [images EXCEPT ![manifest[row].product] = @ + 1]
    /\ pc' = "record_image"
    /\ UNCHANGED <<products, manifest, orders, items, row, todo, plan, Outside>>

RecordImage ==
    /\ pc = "record_image"
    /\ manifest' = [manifest EXCEPT ![row].image = workbook[row].image]
    /\ GoToRowAfter(row)
    /\ UNCHANGED <<products, images, orders, items, todo, plan, Outside>>

-----------------------------------------------------------------------------
(* sync_product_tracking: an order, a line and an item for each untracked product *)

PlanSync ==
    /\ pc = "plan_sync"
    /\ todo' = {p \in Created : items[p] = 0}
    /\ pc' = "order"
    /\ UNCHANGED <<Tables, row, plan, Outside>>

SyncDone ==
    /\ pc = "order"
    /\ todo = {}
    /\ pc' = "plan_codes"
    /\ UNCHANGED <<Tables, row, todo, plan, Outside>>

\* The order number is the product code; a number that is taken ends the import.
InsertOrder ==
    /\ pc = "order"
    /\ todo # {}
    /\ LET p == Min(todo)
       IN  IF NumberTaken(products[p].code)
           THEN pc' = "error" /\ UNCHANGED orders
           ELSE /\ orders' = orders \cup {[number |-> products[p].code, product |-> p,
                                           line |-> FALSE, quantity |-> products[p].content.quantity]}
                /\ pc' = "line"
    /\ UNCHANGED <<products, manifest, images, items, row, todo, plan, Outside>>

InsertLine ==
    /\ pc = "line"
    /\ LET p == Min(todo)
       IN  orders' = {IF o.number = products[p].code
                      THEN [o EXCEPT !.line = TRUE, !.quantity = products[p].content.quantity]
                      ELSE o : o \in orders}
    /\ pc' = "item"
    /\ UNCHANGED <<products, manifest, images, items, row, todo, plan, Outside>>

InsertItem ==
    /\ pc = "item"
    /\ items' = [items EXCEPT ![Min(todo)] = products[Min(todo)].content.quantity]
    /\ todo' = todo \ {Min(todo)}
    /\ pc' = "order"
    /\ UNCHANGED <<products, manifest, images, orders, row, plan, Outside>>

-----------------------------------------------------------------------------
(* repair_imported_product_codes: codes, then order numbers, each through temporary values *)

Imported == {manifest[r].product : r \in Rows} \ {0}

ExpectedCode(p) == RebuiltCode(products[p].content)

\* A code that two products would get ends the import before anything is written.
PlanCodes ==
    LET wrong == {p \in Imported : products[p].code # ExpectedCode(p)}
    IN  /\ pc = "plan_codes"
        /\ IF \E p, q \in wrong : p # q /\ ExpectedCode(p) = ExpectedCode(q)
           THEN pc' = "error" /\ UNCHANGED <<todo, plan>>
           ELSE pc' = "code_tmp" /\ plan' = wrong /\ todo' = wrong
        /\ UNCHANGED <<Tables, row, Outside>>

TemporaryCodes ==
    /\ pc = "code_tmp"
    /\ IF todo = {}
       THEN pc' = "code_final" /\ todo' = plan /\ UNCHANGED products
       ELSE /\ products' = [products EXCEPT ![Min(todo)].code = TemporaryCode(Min(todo))]
            /\ todo' = todo \ {Min(todo)}
            /\ UNCHANGED pc
    /\ UNCHANGED <<manifest, images, orders, items, row, plan, Outside>>

FinalCodes ==
    /\ pc = "code_final"
    /\ IF todo = {}
       THEN pc' = "plan_numbers" /\ UNCHANGED <<products, todo>>
       ELSE LET p == Min(todo)
            IN  IF CodeTaken(ExpectedCode(p))
                THEN pc' = "error" /\ UNCHANGED <<products, todo>>
                ELSE /\ products' = [products EXCEPT ![p].code = ExpectedCode(p)]
                     /\ todo' = todo \ {p}
                     /\ UNCHANGED pc
    /\ UNCHANGED <<manifest, images, orders, items, row, plan, Outside>>

\* The orders of every product that has a line, whoever entered them
PlanNumbers ==
    LET lines == {o \in orders : o.line}
    IN  /\ pc = "plan_numbers"
        /\ IF \E o, other \in lines : o # other /\ o.product = other.product
           THEN pc' = "error" /\ UNCHANGED <<todo, plan>>
           ELSE /\ pc' = "number_tmp"
                /\ plan' = {o.product : o \in lines}
                /\ todo' = plan'
        /\ UNCHANGED <<Tables, row, Outside>>

Renumbered(p, number) == {IF o \in LinesOf(p) THEN [o EXCEPT !.number = number] ELSE o : o \in orders}

TemporaryNumbers ==
    /\ pc = "number_tmp"
    /\ IF todo = {}
       THEN pc' = "number_final" /\ todo' = plan /\ UNCHANGED orders
       ELSE /\ orders' = Renumbered(Min(todo), TemporaryCode(Min(todo)))
            /\ todo' = todo \ {Min(todo)}
            /\ UNCHANGED pc
    /\ UNCHANGED <<products, manifest, images, items, row, plan, Outside>>

FinalNumbers ==
    /\ pc = "number_final"
    /\ IF todo = {}
       THEN pc' = "done" /\ plan' = {} /\ UNCHANGED <<orders, todo>>
       ELSE LET p == Min(todo)
            IN  IF NumberTaken(products[p].code)
                THEN pc' = "error" /\ UNCHANGED <<orders, todo, plan>>
                ELSE /\ orders' = Renumbered(p, products[p].code)
                     /\ todo' = todo \ {p}
                     /\ UNCHANGED <<pc, plan>>
    /\ UNCHANGED <<products, manifest, images, items, row, Outside>>

-----------------------------------------------------------------------------
(* Around the import *)

Running == pc \notin {"idle", "done", "error"}

\* The program is stopped; what it had not written is lost.
Stop ==
    /\ Running
    /\ stops < MaxStops
    /\ pc' = "idle" /\ row' = 0 /\ todo' = {} /\ plan' = {}
    /\ stops' = stops + 1
    /\ UNCHANGED <<Tables, workbook, edits, foreign>>

CorrectWorkbook ==
    /\ ~Running
    /\ edits < MaxEdits
    /\ workbook' \in Workbooks \ {workbook}
    /\ pc' = "idle" /\ todo' = {} /\ plan' = {}
    /\ edits' = edits + 1
    /\ UNCHANGED <<Tables, row, stops, foreign>>

\* create_new_order_from_item: a further order for a tracked product
UserOrder(p) ==
    /\ ~Running
    /\ foreign < MaxForeign
    /\ items[p] # 0
    /\ orders' = orders \cup {[number |-> <<"user", foreign>>, product |-> p, line |-> TRUE,
                               quantity |-> items[p]]}
    /\ foreign' = foreign + 1
    /\ pc' = "idle" /\ todo' = {} /\ plan' = {}
    /\ UNCHANGED <<products, manifest, images, items, row, workbook, stops, edits>>

\* import_factory_items_to_db: product, order, line and item of a pasted row in one transaction,
\* or nothing where the order number of the sheet's prefix and the row's index is taken
FactoryImport(r) ==
    /\ ~Running
    /\ foreign < MaxForeign
    /\ r \in Extracted
    /\ ~NumberTaken(<<"sheet", r>>)
    /\ Created # Ids
    /\ LET p == Min(Ids \ Created)
       IN  /\ products' = [products EXCEPT ![p] = [row |-> 0, code |-> FirstCode(p), content |-> workbook[r]]]
           /\ orders' = orders \cup {[number |-> <<"sheet", r>>, product |-> p, line |-> TRUE,
                                      quantity |-> workbook[r].quantity]}
           /\ items' = [items EXCEPT ![p] = workbook[r].quantity]
    /\ foreign' = foreign + 1
    /\ pc' = "idle" /\ todo' = {} /\ plan' = {}
    /\ UNCHANGED <<manifest, images, row, workbook, stops, edits>>

ImportStep ==
    \/ UpdateProduct \/ UpdateItem \/ UpdateLine
    \/ CreateProduct \/ RecordRow
    \/ SkipImage \/ RefuseImage \/ UploadImage \/ RecordImage
    \/ PlanSync \/ SyncDone \/ InsertOrder \/ InsertLine \/ InsertItem
    \/ PlanCodes \/ TemporaryCodes \/ FinalCodes
    \/ PlanNumbers \/ TemporaryNumbers \/ FinalNumbers

NextImport ==
    \/ StartImport
    \/ ImportStep
    \/ Stop
    \/ CorrectWorkbook
    \/ \E p \in Ids : UserOrder(p)
    \/ \E r \in Rows : FactoryImport(r)

SpecImport == InitImport /\ [][NextImport]_importVars

-----------------------------------------------------------------------------
(* Properties *)

\* However often the import was stopped and started again before, and whatever the workbook
\* was corrected to, a run of import_monthly_lists that ends normally leaves every row of the
\* workbook with one recorded product that carries its values and its rebuilt code, one item
\* of that quantity, and one order with the same number and quantity.
CompletedImportIsConsistent ==
    pc = "done" =>
        \A r \in Extracted :
            LET p == manifest[r].product
            IN  /\ p # 0
                /\ products[p].content = workbook[r]
                /\ products[p].code = RebuiltCode(workbook[r])
                /\ workbook[r].image \in {NoImage, manifest[r].image}
                /\ items[p] = workbook[r].quantity
                /\ \A o \in LinesOf(p) : o.number = products[p].code /\ o.quantity = items[p]
                /\ Cardinality(LinesOf(p)) = 1

\* An import that is repeated without having been stopped creates nothing twice.  It ends
\* with an error only where a product has a second order that a user entered, or where a row
\* has a picture that is not a PNG: then every repetition ends at that row, though the import
\* is said to be idempotent.
RepetitionIsHarmless ==
    stops = 0 =>
        /\ \A r \in Rows : Cardinality({p \in Created : products[p].row = r}) <= 1
        /\ \A p \in Created : images[p] <= 1 + edits
        /\ pc = "error" => \/ \E o, other \in orders : o # other /\ o.product = other.product
                           \/ \E r \in Extracted : workbook[r].image \notin Pngs \cup {NoImage}
=============================================================================

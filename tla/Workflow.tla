------------------------------ MODULE Workflow ------------------------------
(***************************************************************************)
(* One tracking item, its typed workflow events (QC, shortage, NG,         *)
(* packing, delivery, general reports), its machining reports, and the     *)
(* request handlers of the tracking API that write them.                   *)
(*                                                                         *)
(* The async handlers (submit an event, submit a report) run one at a time *)
(* on the server's event loop, thread Async; the others (revisions, QR and *)
(* delivery date changes) run in Pool threads.  A database transaction is  *)
(* one step, because the engine holds its write lock through it; a query   *)
(* outside a transaction is a step of its own.                             *)
(*                                                                         *)
(* An event is identified by its place in "events".  A general report has  *)
(* no quantity (0).  Notes, actors, times and references take part in the  *)
(* comparison of a repeated request only; they are abstracted away, and a  *)
(* request that fails their validation changes nothing.                    *)
(***************************************************************************)
EXTENDS Naturals, Sequences, FiniteSets, FiniteSetsExt

CONSTANTS
    MaxTarget,      \* bound: the largest quantity
    Requests,       \* request ids
    NoRequest,      \* no request id
    Async,          \* the event loop
    Pool,           \* threads that run the synchronous handlers
    MaxRows,        \* bound: rows of events and reports together
    MaxSaves,       \* bound: QR and delivery date changes
    MaxImports      \* bound: repeated imports of the monthly list

Threads == {Async} \cup Pool

ASSUME WorkflowAssumption ==
    /\ MaxTarget \in Nat \ {0}
    /\ NoRequest \notin Requests
    /\ Async \notin Pool
    /\ MaxRows \in Nat /\ MaxSaves \in Nat /\ MaxImports \in Nat

VARIABLES
    item,       \* the row of order_tracking_items: its status, and the other columns
                \* that change (QR id, delivery date) as the number of their change
    target,     \* its quantity
    lowered,    \* history: the quantity was lowered after the last event was accepted
    events,     \* tracking_workflow_events of the item
    reports,    \* process_report_events of the item
    work,       \* what each thread does next, and what it has read
    answer,     \* the answer that the last step gave to an event request
    saves,      \* QR and delivery date changes so far (bound)
    imports     \* imports so far (bound)

order == <<target, lowered, imports>>
vars == <<item, order, events, reports, work, answer, saves>>

-----------------------------------------------------------------------------
(* Rows *)

QuantityKinds == {"QC_CHECKED", "SHORTAGE_REPORTED", "QC_NG_RETURNED_TO_MACHINING",
                  "PACKED", "DELIVERED"}
EventKinds == QuantityKinds \cup {"GENERAL_REPORT"}
ReportKinds == {"ATTEMPT", "PROCESS_COMPLETED"}

QuantitiesOf(kind) == IF kind \in QuantityKinds THEN 1..MaxTarget ELSE {0}

EventOf(req) == {i \in DOMAIN events : events[i].req = req}
ReportOf(req) == {i \in DOMAIN reports : reports[i].req = req}

\* The single pieces that effective rows of one kind report, each with its row; superseded
\* rows do not count.
Pieces(rows, kind) ==
    {piece \in (DOMAIN rows) \X (1..MaxTarget) : /\ rows[piece[1]].active
                                                 /\ rows[piece[1]].kind = kind
                                                 /\ piece[2] <= rows[piece[1]].qty}

\* _totals of one kind: the sum of their quantities
Total(rows, kind) == Cardinality(Pieces(rows, kind))

Available(rows, quantity) == quantity - Total(rows, "SHORTAGE_REPORTED")

\* Mutant: only the packed quantity is held against the target.
BalancedPackingOnly(rows, quantity) == Total(rows, "PACKED") <= quantity

\* The limits of _validate_and_project.
Balanced(rows, quantity) ==
    /\ Total(rows, "SHORTAGE_REPORTED") <= quantity
    /\ Total(rows, "PACKED") <= Available(rows, quantity)
    /\ Total(rows, "DELIVERED") <= Total(rows, "PACKED")

\* The rows that project a status, the latest of them by sequence number.
StatusRows(rows) == {i \in DOMAIN rows : rows[i].active /\ rows[i].kind # "GENERAL_REPORT"}
LatestKind(rows) ==
    rows[CHOOSE i \in StatusRows(rows) :
            \A j \in StatusRows(rows) : rows[j].seq <= rows[i].seq].kind

\* _project_status
Project(rows, current, quantity) ==
    LET packed == Total(rows, "PACKED")
        delivered == Total(rows, "DELIVERED")
    IN  IF StatusRows(rows) = {} THEN current
        ELSE IF delivered > 0 /\ delivered = Available(rows, quantity) THEN "DELIVERED"
        ELSE IF delivered > 0 THEN "PARTIALLY_DELIVERED"
        ELSE IF packed > 0 /\ packed = Available(rows, quantity) THEN "PACKED"
        ELSE IF packed > 0 THEN "PACKING"
        ELSE IF LatestKind(rows) = "QC_CHECKED" THEN "QC_CHECKED"
        ELSE IF LatestKind(rows) = "SHORTAGE_REPORTED" THEN "SHORTAGE"
        ELSE "QC_NG"

-----------------------------------------------------------------------------
(* Threads *)

NewItem == [status |-> "NEW", rest |-> 0]

Idle == [step |-> "idle", req |-> NoRequest, kind |-> "none", base |-> 0, rev |-> 0,
         qty |-> 0, read |-> NewItem]

\* Bound: requests under way keep a row in reserve.
Room ==
    Len(events) + Len(reports)
        + Cardinality({t \in Threads : work[t].step \notin {"idle", "save"}}) < MaxRows

Finish(t) == work' = [work EXCEPT ![t] = Idle]

NoAnswer == [req |-> NoRequest, kind |-> "none", qty |-> 0, row |-> 0]

Init ==
    /\ item = NewItem
    /\ target \in 1..MaxTarget
    /\ lowered = FALSE
    /\ imports = 0
    /\ events = <<>>
    /\ reports = <<>>
    /\ work = [t \in Threads |-> Idle]
    /\ answer = NoAnswer
    /\ saves = 0

-----------------------------------------------------------------------------
(* Workflow events *)

\* One more than the largest sequence number of the item.
NextSequence == 1 + Max({0} \cup {events[i].seq : i \in DOMAIN events})

\* _same_semantic_request
SameRequest(row, kind, qty, sup) == row.kind = kind /\ row.qty = qty /\ row.sup = sup

\* The transaction's last statements: the row and the projection, or neither.  No single
\* quantity may exceed the target, whatever it counts.
Commit(rows, req, kind, qty) ==
    /\ qty <= target
    /\ Balanced(rows, target)
    /\ events' = rows
    /\ item' = [item EXCEPT !.status = Project(rows, item.status, target)]
    /\ lowered' = FALSE
    /\ UNCHANGED <<target, imports>>
    /\ answer' = [req |-> req, kind |-> kind, qty |-> qty, row |-> Len(rows)]

\* A repeated request gets the row it wrote the first time.
Repeat(req, kind, qty, row) ==
    /\ answer' = [req |-> req, kind |-> kind, qty |-> qty, row |-> row]
    /\ UNCHANGED <<item, order, events>>

\* WorkflowRepository.submit; a request that is refused changes nothing.
SubmitEvent(req, kind, qty) ==
    /\ work[Async].step = "idle"
    /\ qty \in QuantitiesOf(kind)
    /\ \/ /\ EventOf(req) = {}
          /\ Room
          /\ Commit(Append(events, [req |-> req, kind |-> kind, qty |-> qty,
                                    seq |-> NextSequence, rev |-> 1, sup |-> 0,
                                    active |-> TRUE]),
                    req, kind, qty)
       \/ \E i \in EventOf(req) :
             /\ SameRequest(events[i], kind, qty, 0)
             /\ Repeat(req, kind, qty, i)
    /\ UNCHANGED <<reports, work, saves>>

\* WorkflowEventService.revise reads the original before the transaction.
StartRevision(t, req, i, qty) ==
    /\ t \in Pool
    /\ work[t].step = "idle"
    /\ i \in DOMAIN events
    /\ Room
    /\ qty \in QuantitiesOf(events[i].kind)
    /\ work' = [work EXCEPT ![t] = [Idle EXCEPT !.step = "revise", !.req = req, !.base = i,
                                                !.rev = events[i].rev + 1, !.qty = qty]]
    /\ answer' = NoAnswer
    /\ UNCHANGED <<item, order, events, reports, saves>>

Superseded(rows, i) == [rows EXCEPT ![i] = [@ EXCEPT !.active = FALSE]]

\* Mutant: the original is left in effect.
RevisedBesideOriginal(w) ==
    Append(events, [events[w.base] EXCEPT !.req = w.req, !.qty = w.qty, !.rev = w.rev,
                                          !.sup = w.base, !.active = TRUE])

\* The rows after a revision w: the original superseded, its successor behind it.
Revised(w) ==
    Append(Superseded(events, w.base),
           [events[w.base] EXCEPT !.req = w.req, !.qty = w.qty, !.rev = w.rev,
                                  !.sup = w.base, !.active = TRUE])

\* UNIQUE(tracking_item_id, sequence_number, revision)
RevisionFree(w) ==
    \A i \in DOMAIN events : ~(events[i].seq = events[w.base].seq /\ events[i].rev = w.rev)

\* WorkflowRepository.revise
ReviseEvent(t) ==
    LET w == work[t]
    IN  /\ w.step = "revise"
        /\ \/ /\ EventOf(w.req) = {}
              /\ events[w.base].active
              /\ RevisionFree(w)
              /\ Commit(Revised(w), w.req, events[w.base].kind, w.qty)
           \/ \E i \in EventOf(w.req) :
                 /\ SameRequest(events[i], events[w.base].kind, w.qty, w.base)
                 /\ events[i].seq = events[w.base].seq
                 /\ events[i].rev = w.rev
                 /\ Repeat(w.req, events[w.base].kind, w.qty, i)
        /\ Finish(t)
        /\ UNCHANGED <<reports, saves>>

\* Refused: a conflicting request id, an original that is not ACTIVE, a quantity.
\* The rollback takes the SUPERSEDED mark back.
RefuseRevision(t) ==
    LET w == work[t]
    IN  /\ w.step = "revise"
        /\ \/ \E i \in EventOf(w.req) :
                 ~ /\ SameRequest(events[i], events[w.base].kind, w.qty, w.base)
                   /\ events[i].seq = events[w.base].seq
                   /\ events[i].rev = w.rev
           \/ /\ EventOf(w.req) = {}
              /\ ~(/\ events[w.base].active /\ w.qty <= target
                   /\ Balanced(Revised(w), target))
        /\ Finish(t)
        /\ answer' = NoAnswer
        /\ UNCHANGED <<item, order, events, reports, saves>>

-----------------------------------------------------------------------------
(* Machining reports *)

\* TrackingService.submit_report on the event loop, a first revision ...
StartReport(req, kind) ==
    /\ work[Async].step = "idle"
    /\ Room \/ ReportOf(req) # {}
    /\ work' = [work EXCEPT ![Async] = [Idle EXCEPT !.step = "reportItem", !.req = req,
                                                    !.kind = kind, !.rev = 1]]
    /\ answer' = NoAnswer
    /\ UNCHANGED <<item, order, events, reports, saves>>

\* ... and revise_report in a pool thread: the same code with the next revision.
StartReportRevision(t, req, i) ==
    /\ t \in Pool
    /\ work[t].step = "idle"
    /\ i \in DOMAIN reports
    /\ Room
    /\ work' = [work EXCEPT ![t] = [Idle EXCEPT !.step = "reportItem", !.req = req,
                                                !.kind = reports[i].kind, !.base = i,
                                                !.rev = reports[i].rev + 1]]
    /\ answer' = NoAnswer
    /\ UNCHANGED <<item, order, events, reports, saves>>

\* The item is read before the transaction that writes its status.
ReadItem(t) ==
    /\ work[t].step = "reportItem"
    /\ work' = [work EXCEPT ![t] = [@ EXCEPT !.step = "reportExisting", !.read = item]]
    /\ answer' = NoAnswer
    /\ UNCHANGED <<item, order, events, reports, saves>>

\* A known request id returns the row of the first time.
FindReport(t) ==
    /\ work[t].step = "reportExisting"
    /\ IF ReportOf(work[t].req) = {}
       THEN work' = [work EXCEPT ![t] = [@ EXCEPT !.step = "reportWrite"]]
       ELSE Finish(t)
    /\ answer' = NoAnswer
    /\ UNCHANGED <<item, order, events, reports, saves>>

\* The status a first revision writes, from the status read earlier.
ReportedStatus(w) ==
    IF w.kind = "PROCESS_COMPLETED" THEN "WAITING_QC"
    ELSE IF w.read.status \in {"QC_NG", "REWORK"} THEN "REWORK"
    ELSE "IN_PROCESS"

\* Mutant: the table has no UNIQUE(request_id).
ReportAcceptedTwice(w) == TRUE

\* UNIQUE(request_id): a second row for the request is an IntegrityError.
ReportAccepted(w) == ReportOf(w.req) = {}

WriteReport(t) ==
    LET w == work[t]
    IN  /\ w.step = "reportWrite"
        /\ IF ReportAccepted(w)
           THEN /\ reports' = Append(reports, [req |-> w.req, kind |-> w.kind, rev |-> w.rev,
                                               sup |-> w.base])
                /\ item' = IF w.rev = 1 THEN [item EXCEPT !.status = ReportedStatus(w)] ELSE item
           ELSE UNCHANGED <<reports, item>>
        /\ Finish(t)
        /\ answer' = NoAnswer
        /\ UNCHANGED <<order, events, saves>>

-----------------------------------------------------------------------------
(* QR codes and delivery date: the whole row is read, changed and saved *)

\* issue_qr, reissue_qr, change_date: get_item, then the changed copy.
StartSave(t) ==
    /\ t \in Pool
    /\ work[t].step = "idle"
    /\ saves < MaxSaves
    /\ saves' = saves + 1
    /\ work' = [work EXCEPT ![t] = [Idle EXCEPT !.step = "save",
                                                !.read = [item EXCEPT !.rest = saves']]]
    /\ answer' = NoAnswer
    /\ UNCHANGED <<item, order, events, reports>>

SaveItem(t) ==
    /\ work[t].step = "save"
    /\ item' = work[t].read
    /\ Finish(t)
    /\ answer' = NoAnswer
    /\ UNCHANGED <<order, events, reports, saves>>

-----------------------------------------------------------------------------
(* The monthly list, imported again with another quantity *)

\* UPDATE order_tracking_items SET quantity, of a row imported before: the events are not
\* looked at, and the status is not projected again.  The import is a program of its own with
\* its own engine; it runs while the server is stopped, when no request is under way.
ImportQuantity(quantity) ==
    /\ imports < MaxImports
    /\ \A t \in Threads : work[t].step = "idle"
    /\ target' = quantity
    /\ lowered' = (lowered \/ quantity < target)
    /\ imports' = imports + 1
    /\ answer' = NoAnswer
    /\ UNCHANGED <<item, events, reports, work, saves>>

-----------------------------------------------------------------------------
Next ==
    \/ \E req \in Requests, kind \in EventKinds, qty \in 0..MaxTarget : SubmitEvent(req, kind, qty)
    \/ \E req \in Requests, kind \in ReportKinds : StartReport(req, kind)
    \/ \E t \in Pool, req \in Requests, i \in 1..MaxRows, qty \in 0..MaxTarget :
          StartRevision(t, req, i, qty)
    \/ \E t \in Pool, req \in Requests, i \in 1..MaxRows : StartReportRevision(t, req, i)
    \/ \E t \in Pool : StartSave(t)
    \/ \E quantity \in 1..MaxTarget : ImportQuantity(quantity)
    \/ \E t \in Threads :
          \/ ReviseEvent(t) \/ RefuseRevision(t)
          \/ ReadItem(t) \/ FindReport(t) \/ WriteReport(t)
          \/ SaveItem(t)

Spec == Init /\ [][Next]_vars

-----------------------------------------------------------------------------
(* Properties *)

\* docs/DATA_MODEL.md:56: "Effective revision aggregates enforce packed <= target - shortage
\* and delivered <= packed".  The second holds whatever is submitted, revised, repeated or
\* imported.  The first is excepted where the code does not enforce it: from an import that
\* lowers the quantity under events that are there already (monthly_list_import.py:213, which
\* looks at no event) until the next event is accepted, which must fit the new quantity.
QuantitiesBalance ==
    /\ Total(events, "DELIVERED") <= Total(events, "PACKED")
    /\ ~lowered => Total(events, "PACKED") + Total(events, "SHORTAGE_REPORTED") <= target

\* Every event has one effective revision, its latest, and the revisions before it
\* form an unbroken chain of superseded rows: concurrent corrections of one event
\* neither fork it nor leave it without effect.
OneEffectiveRevision ==
    \A i \in DOMAIN events :
        LET chain == {j \in DOMAIN events : events[j].seq = events[i].seq}
        IN  /\ Cardinality({j \in chain : events[j].active}) = 1
            /\ {events[j].rev : j \in chain} = 1..Cardinality(chain)
            /\ events[i].active <=> events[i].rev = Cardinality(chain)
            /\ events[i].rev > 1 => /\ events[i].sup \in chain
                                    /\ events[events[i].sup].rev = events[i].rev - 1

\* A request that is sent again, at any time and in any order with others, is
\* recorded once, and is answered with the row of its own content: a reused request
\* id never passes another event off as the requested one.
RequestsRecordedOnce ==
    /\ \A i, j \in DOMAIN events : events[i].req = events[j].req => i = j
    /\ \A i, j \in DOMAIN reports : reports[i].req = reports[j].req => i = j
    /\ answer.row # 0 => /\ events[answer.row].req = answer.req
                         /\ events[answer.row].kind = answer.kind
                         /\ events[answer.row].qty = answer.qty

\* docs/DECISIONS.md, ADR-013: status "is a transactionally updated projection" of
\* the effective events: an item shown as delivered is delivered in full.
DeliveredMeansDelivered ==
    item.status = "DELIVERED" => Total(events, "DELIVERED") = Available(events, target)

=============================================================================

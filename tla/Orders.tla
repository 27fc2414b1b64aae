------------------------------- MODULE Orders -------------------------------
(***************************************************************************)
(* Customers, purchase orders and their lines, the delivery schedules and  *)
(* production runs planned for a line, and the creation of tracking items: *)
(* the stage 2 and tracking endpoints, whose handlers run in pool threads. *)
(*                                                                         *)
(* A handler reads (each SELECT takes no lock), decides, and writes in a   *)
(* transaction of its own, so what it decided on may be stale when it      *)
(* writes: every such handler is a "read" step and a "write" step.  Where  *)
(* the rows it read can never change or go away (customers, orders and     *)
(* lines are not deleted), both are one step.                              *)
(*                                                                         *)
(* A purchase order is its po_number, with at most one line; a generated   *)
(* code is its sequence number, a tracking code its year and sequence.     *)
(***************************************************************************)
EXTENDS Naturals, FiniteSets, FiniteSetsExt

CONSTANTS
    Threads,        \* handler threads
    Kinds,          \* delivery_schedule_entries and production_runs: two tables, one logic
    Numbers,        \* purchase order numbers
    NoNumber,       \* no purchase order
    Years,          \* the year of today and the years of delivery dates
    ThisYear,
    MaxQuantity,    \* quantities are 1..MaxQuantity
    MaxCode,        \* bound on the sequence numbers given to items and orders
    MaxCustomers,   \* customer codes are 1..MaxCustomers
    MaxEntries      \* bound on delivery schedule entries and production runs

ASSUME OrdersAssumption ==
    /\ NoNumber \notin Numbers
    /\ ThisYear \in Years
    /\ MaxQuantity \in Nat \ {0}
    /\ MaxCode \in Nat \ {0}
    /\ MaxCustomers \in Nat \ {0}
    /\ MaxEntries \in Nat

VARIABLES
    customers,      \* the customer codes
    order,          \* per number: its customer (0 = no order) and internal_order_code
    ordered,        \* per number: ordered_quantity of its line (0 = no line)
    granted,        \* per kind and number: the largest ordered_quantity that a request stated
                    \* and passed the check with (history)
    entries,        \* the delivery schedule entries and production runs, by internal_id
    items,          \* tracking items: code and purchase order
    attempt,        \* max_visible_attempt of the one item and machining type looked at
    asked,          \* the largest attempt maximum that was granted
    raced,          \* plans that were written between the check and the write of another
    thread          \* what each handler read and is about to write

vars == <<customers, order, ordered, granted, entries, items, attempt, asked, raced, thread>>

-----------------------------------------------------------------------------
(* Rows *)

Codes == 1..MaxCustomers
FirstAttempts == 3
LastAttempt == 4        \* 99 in the code

EntryIds == 1..MaxEntries
NoEntry == [kind |-> "none", number |-> NoNumber, quantity |-> 0, cancelled |-> TRUE]

\* WHERE po_line_id = ? AND status != CANCELLED
Counts(i, kind, n) ==
    entries[i].kind = kind /\ entries[i].number = n /\ ~entries[i].cancelled

\* The single pieces that are planned, each with the entry it belongs to
Pieces(kind, n, except) ==
    {piece \in (EntryIds \ except) \X (1..MaxQuantity) :
        Counts(piece[1], kind, n) /\ piece[2] <= entries[piece[1]].quantity}

\* The sum of planned_quantity [AND internal_id != ?]
Planned(kind, n, except) == Cardinality(Pieces(kind, n, except))

\* Mutant: each year is numbered on its own, from the items of this year.
ItemsOfThisYear == Cardinality({item \in items : item.code.year = ThisYear}) + 1

\* SELECT COUNT(*) FROM order_tracking_items, plus one
NextTrackingSequence == Cardinality(items) + 1

\* The UNIQUE constraints: an insert that violates one raises and changes nothing.
CustomerCodeFree(c) == c \notin customers
NumberFree(n) == order[n].customer = 0
OrderCodeFree(c) == \A n \in Numbers : order[n].code # c
TrackingCodeFree(code) == \A item \in items : item.code # code

Idle == [op |-> "idle"]

Init ==
    /\ customers = {}
    /\ order = [n \in Numbers |-> [customer |-> 0, code |-> 0]]
    /\ ordered = [n \in Numbers |-> 0]
    /\ granted = [plan \in Kinds \X Numbers |-> 0]
    /\ entries = [i \in EntryIds |-> NoEntry]
    /\ items = {}
    /\ attempt = FirstAttempts
    /\ asked = FirstAttempts
    /\ raced = {}
    /\ thread = [t \in Threads |-> Idle]

Starts(t, op) == thread[t] = Idle /\ thread' = [thread EXCEPT ![t] = op]
Ends(t) == thread' = [thread EXCEPT ![t] = Idle]

-----------------------------------------------------------------------------
(* Customers and purchase orders *)

\* create_customer: the code is the user's or COUNT(*) + 1
StartCustomer(t, c) ==
    /\ c \in Codes
    /\ Starts(t, [op |-> "customer", code |-> c])
    /\ UNCHANGED <<customers, order, ordered, entries, items, attempt, asked, raced, granted>>

CreateCustomer(t) ==
    \/ \E c \in Codes : StartCustomer(t, c)
    \/ StartCustomer(t, Cardinality(customers) + 1)

AddCustomer(t) ==
    /\ thread[t].op = "customer"
    /\ customers' = IF CustomerCodeFree(thread[t].code) THEN customers \cup {thread[t].code}
                    ELSE customers
    /\ Ends(t)
    /\ UNCHANGED <<order, ordered, entries, items, attempt, asked, raced, granted>>

AddPo(n, customer) ==
    /\ customer \in customers
    /\ NumberFree(n)
    /\ order' = [order EXCEPT ![n] = [customer |-> customer, code |-> 0]]
    /\ UNCHANGED <<customers, ordered, entries, items, attempt, asked, raced, thread, granted>>

\* UNIQUE (po_id, line_number)
AddLine(n, quantity) ==
    /\ order[n].customer # 0
    /\ ordered[n] = 0
    /\ ordered' = [ordered EXCEPT ![n] = quantity]
    /\ UNCHANGED <<customers, order, entries, items, attempt, asked, raced, thread, granted>>

\* The monthly import, a program of its own that runs while the server does not, writes the
\* quantity of its list into the line, whatever is planned for it.
ImportQuantity(n, quantity) ==
    /\ \A t \in Threads : thread[t] = Idle
    /\ ordered[n] # 0
    /\ ordered' = [ordered EXCEPT ![n] = quantity]
    /\ UNCHANGED <<customers, order, entries, items, attempt, asked, raced, thread, granted>>

-----------------------------------------------------------------------------
(* Delivery schedules and production runs of a line *)

\* Mutant: the new quantity itself is left out of the total.
WithinOrderedBefore(kind, n, quantity, except, stated) == Planned(kind, n, except) <= stated

\* total > ordered raises.  The ordered quantity is the one the request states; nobody compares
\* it with the line, which the client may have read long ago.
WithinOrdered(kind, n, quantity, except, stated) == Planned(kind, n, except) + quantity <= stated
Grant(kind, n, stated) == granted' = [granted EXCEPT ![<<kind, n>>] = Max({@, stated})]

\* add_delivery, add_run: internal_id is new, no other handler has it
StartEntry(t, kind, n, quantity, stated) ==
    /\ ordered[n] # 0
    /\ WithinOrdered(kind, n, quantity, {}, stated)
    /\ Grant(kind, n, stated)
    /\ \E i \in EntryIds :
          /\ \A j \in 1..i : entries[j] = NoEntry <=> i = j
          /\ \A other \in Threads : thread[other].op = "entry" => thread[other].id # i
          /\ Starts(t, [op |-> "entry", id |-> i,
                        row |-> [kind |-> kind, number |-> n, quantity |-> quantity,
                                 cancelled |-> FALSE]])
    /\ UNCHANGED <<customers, order, ordered, entries, items, attempt, asked, raced>>

\* update_delivery, update_run: any status may be set, CANCELLED or another
StartUpdate(t, i, quantity, cancelled, stated) ==
    /\ entries[i] # NoEntry
    /\ WithinOrdered(entries[i].kind, entries[i].number, quantity, {i}, stated)
    /\ Grant(entries[i].kind, entries[i].number, stated)
    /\ Starts(t, [op |-> "entry", id |-> i,
                  row |-> [entries[i] EXCEPT !.quantity = quantity, !.cancelled = cancelled]])
    /\ UNCHANGED <<customers, order, ordered, entries, items, attempt, asked, raced>>

\* Another handler has checked the same line and not written yet.
Overtakes(t) ==
    \E other \in Threads \ {t} :
        /\ thread[other].op = "entry"
        /\ thread[other].row.kind = thread[t].row.kind
        /\ thread[other].row.number = thread[t].row.number

WriteEntry(t) ==
    LET write == thread[t]
    IN  /\ write.op = "entry"
        /\ entries' = [entries EXCEPT ![write.id] = write.row]
        /\ raced' = IF Overtakes(t) THEN raced \cup {<<write.row.kind, write.row.number>>}
                    ELSE raced
        /\ Ends(t)
        /\ UNCHANGED <<customers, order, ordered, items, attempt, asked, granted>>

-----------------------------------------------------------------------------
(* Tracking items *)

\* create_item: the code is made of a COUNT(*) read before the transaction
StartItem(t, n) ==
    /\ ordered[n] # 0
    /\ NextTrackingSequence <= MaxCode
    /\ Starts(t, [op |-> "item", number |-> n,
                  code |-> [year |-> ThisYear, sequence |-> NextTrackingSequence]])
    /\ UNCHANGED <<customers, order, ordered, entries, items, attempt, asked, raced, granted>>

AddItem(t) ==
    LET code == thread[t].code
    IN  /\ thread[t].op = "item"
        /\ items' = IF TrackingCodeFree(code)
                    THEN items \cup {[code |-> code, number |-> thread[t].number]}
                    ELSE items
        /\ Ends(t)
        /\ UNCHANGED <<customers, order, ordered, entries, attempt, asked, raced, granted>>

\* create_new_order_from_item: the internal order code comes from a COUNT(*) read first
StartNewOrder(t, source, n, year) ==
    /\ NextTrackingSequence <= MaxCode
    /\ Starts(t, [op |-> "newOrder", source |-> source.number, number |-> n, year |-> year,
                  code |-> NextTrackingSequence])
    /\ UNCHANGED <<customers, order, ordered, entries, items, attempt, asked, raced, granted>>

\* atomic_new_order: order, line and item in one transaction, or nothing.
AtomicNewOrder(t) ==
    LET new == thread[t]
        code == [year |-> new.year, sequence |-> NextTrackingSequence]
    IN  /\ new.op = "newOrder"
        /\ IF NumberFree(new.number) /\ OrderCodeFree(new.code) /\ TrackingCodeFree(code)
           THEN /\ order' = [order EXCEPT ![new.number] = [customer |-> order[new.source].customer,
                                                           code |-> new.code]]
                /\ ordered' = [ordered EXCEPT ![new.number] = ordered[new.source]]
                /\ items' = items \cup {[code |-> code, number |-> new.number]}
           ELSE UNCHANGED <<order, ordered, items>>
        /\ Ends(t)
        /\ UNCHANGED <<customers, entries, attempt, asked, raced, granted>>

\* expand_attempt: compared with the maximum that a SELECT returned before
StartExpand(t, newMax) ==
    /\ items # {}
    /\ newMax >= attempt
    /\ newMax <= LastAttempt
    /\ Starts(t, [op |-> "expand", newMax |-> newMax])
    /\ UNCHANGED <<customers, order, ordered, entries, items, attempt, asked, raced, granted>>

WriteExpand(t) ==
    /\ thread[t].op = "expand"
    /\ attempt' = thread[t].newMax
    /\ asked' = Max({asked, thread[t].newMax})
    /\ raced' = IF \E other \in Threads \ {t} : thread[other].op = "expand"
                THEN raced \cup {<<"attempt", NoNumber>>} ELSE raced
    /\ Ends(t)
    /\ UNCHANGED <<customers, order, ordered, entries, items, granted>>

-----------------------------------------------------------------------------
(* Specification *)

HandlerStep(t) ==
    \/ CreateCustomer(t)
    \/ AddCustomer(t)
    \/ \E kind \in Kinds, n \in Numbers, quantity, stated \in 1..MaxQuantity :
          StartEntry(t, kind, n, quantity, stated)
    \/ \E i \in EntryIds, quantity, stated \in 1..MaxQuantity, cancelled \in BOOLEAN :
          StartUpdate(t, i, quantity, cancelled, stated)
    \/ WriteEntry(t)
    \/ \E n \in Numbers : StartItem(t, n)
    \/ AddItem(t)
    \/ \E source \in items, n \in Numbers, year \in Years : StartNewOrder(t, source, n, year)
    \/ AtomicNewOrder(t)
    \/ \E newMax \in 1..(LastAttempt + 1) : StartExpand(t, newMax)
    \/ WriteExpand(t)

Next ==
    \/ \E t \in Threads : HandlerStep(t)
    \/ \E n \in Numbers, c \in Codes : AddPo(n, c)
    \/ \E n \in Numbers, quantity \in 1..MaxQuantity :
          AddLine(n, quantity) \/ ImportQuantity(n, quantity)

Spec == Init /\ [][Next]_vars

-----------------------------------------------------------------------------
(* Properties *)

\* Tracking codes are numbered by COUNT(*) + 1, read outside the transaction by one handler
\* and inside by another, internal order codes by the same count, and a code that is taken
\* is refused.  The next attempt always gets a code that is free, in every year: losing a
\* race costs one request, never the ability to create items.
NextCodeIsFree ==
    /\ \A year \in Years : TrackingCodeFree([year |-> year, sequence |-> NextTrackingSequence])
    /\ OrderCodeFree(NextTrackingSequence)

\* What is planned for a line stays within the largest ordered quantity that a request stated
\* for it, and the number of attempts shown never goes down, for every sequence of creations,
\* changes, cancellations and reinstatements; only handlers that overlap on the same rows can
\* break it, since the check is outside the transaction that writes.  The line's own quantity
\* is no bound: a request may state another, and the monthly import rewrites it.
ChecksHoldUnlessRaced ==
    /\ \A kind \in Kinds, n \in Numbers :
          <<kind, n>> \notin raced => Planned(kind, n, {}) <= granted[<<kind, n>>]
    /\ <<"attempt", NoNumber>> \notin raced => attempt = asked
=============================================================================

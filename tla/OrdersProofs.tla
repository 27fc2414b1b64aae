---------------------------- MODULE OrdersProofs ----------------------------
(***************************************************************************)
(* Proofs about Orders, for any handler threads, order numbers, years and  *)
(* quantities, and any bounds.                                             *)
(***************************************************************************)
EXTENDS Orders, FiniteSetTheorems, TLAPS

-----------------------------------------------------------------------------
(* Codes *)

\* The codes that a handler holds and has not written yet.
HeldCodes(t) ==
    /\ thread[t].op = "item" => thread[t].code.sequence \in 1..NextTrackingSequence
    /\ thread[t].op = "newOrder" => thread[t].code \in 1..NextTrackingSequence

\* No code in use exceeds the number of items, and none that a handler holds is ahead of the
\* next one: a code is only used together with a new item.
CodesInvariant ==
    /\ DOMAIN thread = Threads
    /\ DOMAIN order = Numbers
    /\ IsFiniteSet(items)
    /\ \A item \in items : item.code.sequence \in 1..Cardinality(items)
    /\ \A n \in Numbers : order[n].code \in 0..Cardinality(items)
    /\ \A t \in Threads : HeldCodes(t)

\* A step that adds no item and gives no order a code.
LEMMA ItemsStay ==
    ASSUME CodesInvariant, UNCHANGED items,
           DOMAIN order' = Numbers, \A n \in Numbers : order'[n].code \in {0, order[n].code},
           DOMAIN thread' = Threads,
           \A t \in Threads : \/ thread'[t] = thread[t]
                              \/ thread'[t].op \notin {"item", "newOrder"}
                              \/ HeldCodes(t)'
    PROVE  CodesInvariant'
<1>1. Cardinality(items) \in Nat
  BY FS_CardinalityType DEF CodesInvariant
<1>2. \A t \in Threads : HeldCodes(t)'
  BY DEF CodesInvariant, HeldCodes, NextTrackingSequence
<1> QED
  BY <1>1, <1>2 DEF CodesInvariant

\* An item with a free code that is at most the next one.
LEMMA ItemAdded ==
    ASSUME CodesInvariant, NEW item, item.code.sequence \in 1..NextTrackingSequence,
           TrackingCodeFree(item.code), items' = items \cup {item},
           DOMAIN order' = Numbers,
           \A n \in Numbers : order'[n].code = order[n].code \/ order'[n].code \in 1..NextTrackingSequence,
           NEW t \in Threads, Ends(t)
    PROVE  CodesInvariant'
<1>1. Cardinality(items) \in Nat
  BY FS_CardinalityType DEF CodesInvariant
<1>2. item \notin items
  BY DEF TrackingCodeFree
<1>3. IsFiniteSet(items') /\ Cardinality(items') = Cardinality(items) + 1
  BY <1>2, FS_AddElement DEF CodesInvariant
<1>4. \A i \in items' : i.code.sequence \in 1..Cardinality(items')
  BY <1>1, <1>3 DEF CodesInvariant, NextTrackingSequence
<1>5. \A n \in Numbers : order'[n].code \in 0..Cardinality(items')
  BY <1>1, <1>3 DEF CodesInvariant, NextTrackingSequence
<1>6. DOMAIN thread' = Threads /\ \A u \in Threads : thread'[u] = thread[u] \/ thread'[u] = Idle
  BY DEF CodesInvariant, Ends
<1>7. ASSUME NEW u \in Threads
      PROVE  HeldCodes(u)'
  <2>1. HeldCodes(u) /\ Idle.op = "idle"
    BY DEF CodesInvariant, Idle
  <2> QED
    BY <1>1, <1>3, <1>6, <2>1 DEF HeldCodes, NextTrackingSequence
<1> QED
  BY <1>3, <1>4, <1>5, <1>6, <1>7 DEF CodesInvariant

\* Every step of a handler keeps the invariant of the codes.
LEMMA HandlerKeepsCodes ==
    ASSUME CodesInvariant, NEW t \in Threads, HandlerStep(t)
    PROVE  CodesInvariant'
<1> DEFINE Begins(op) == thread' = [thread EXCEPT ![t] = op]
<1>1. \A op : Begins(op) => /\ DOMAIN thread' = Threads /\ thread'[t] = op
                            /\ \A u \in Threads \ {t} : thread'[u] = thread[u]
  BY DEF CodesInvariant
<1>2. Idle.op = "idle"
  BY DEF Idle
<1>3. ASSUME UNCHANGED <<items, order>>, NEW op, Begins(op), op.op \notin {"item", "newOrder"}
      PROVE  CodesInvariant'
  <2>1. DOMAIN order' = Numbers /\ \A n \in Numbers : order'[n].code \in {0, order[n].code}
    BY <1>3 DEF CodesInvariant
  <2> HIDE DEF Begins
  <2> QED
    BY <1>1, <1>3, <2>1, ItemsStay
<1>4. CASE CreateCustomer(t)
  <2>1. UNCHANGED <<items, order>> /\ \E c : Begins([op |-> "customer", code |-> c])
    BY <1>4 DEF CreateCustomer, StartCustomer, Starts
  <2>2. \A c : [op |-> "customer", code |-> c].op = "customer"
    OBVIOUS
  <2> HIDE DEF Begins
  <2> QED
    BY <1>3, <2>1, <2>2
<1>5. CASE AddCustomer(t)
  BY <1>2, <1>3, <1>5 DEF AddCustomer, Ends
<1>6. ASSUME NEW kind \in Kinds, NEW n \in Numbers, NEW quantity \in 1..MaxQuantity,
             NEW stated \in 1..MaxQuantity, StartEntry(t, kind, n, quantity, stated)
      PROVE  CodesInvariant'
  <2>1. UNCHANGED <<items, order>> /\ \E i, row : Begins([op |-> "entry", id |-> i, row |-> row])
    BY <1>6 DEF StartEntry, Starts
  <2>2. \A i, row : [op |-> "entry", id |-> i, row |-> row].op = "entry"
    OBVIOUS
  <2> HIDE DEF Begins
  <2> QED
    BY <1>3, <2>1, <2>2
<1>7. ASSUME NEW i \in EntryIds, NEW quantity \in 1..MaxQuantity, NEW cancelled \in BOOLEAN,
             NEW stated \in 1..MaxQuantity, StartUpdate(t, i, quantity, cancelled, stated)
      PROVE  CodesInvariant'
  <2>1. UNCHANGED <<items, order>> /\ \E row : Begins([op |-> "entry", id |-> i, row |-> row])
    BY <1>7 DEF StartUpdate, Starts
  <2>2. \A row : [op |-> "entry", id |-> i, row |-> row].op = "entry"
    OBVIOUS
  <2> HIDE DEF Begins
  <2> QED
    BY <1>3, <2>1, <2>2
<1>8. CASE WriteEntry(t)
  BY <1>2, <1>3, <1>8 DEF WriteEntry, Ends
<1>9. ASSUME NEW n \in Numbers, StartItem(t, n)
      PROVE  CodesInvariant'
  <2> DEFINE op == [op |-> "item", number |-> n,
                    code |-> [year |-> ThisYear, sequence |-> NextTrackingSequence]]
  <2>1. UNCHANGED <<items, order>> /\ Begins(op)
    BY <1>9 DEF StartItem, Starts
  <2>2. op.op = "item" /\ op.code.sequence = NextTrackingSequence
    OBVIOUS
  <2>3. NextTrackingSequence \in 1..NextTrackingSequence /\ NextTrackingSequence' = NextTrackingSequence
    BY <2>1, FS_CardinalityType DEF NextTrackingSequence, CodesInvariant
  <2> HIDE DEF op, Begins
  <2>4. HeldCodes(t)'
    BY <1>1, <2>1, <2>2, <2>3 DEF HeldCodes
  <2>5. DOMAIN order' = Numbers /\ \A m \in Numbers : order'[m].code \in {0, order[m].code}
    BY <2>1 DEF CodesInvariant
  <2> QED
    BY <1>1, <2>1, <2>4, <2>5, ItemsStay
<1>10. CASE AddItem(t)
  <2> DEFINE new == [code |-> thread[t].code, number |-> thread[t].number]
  <2>1. UNCHANGED order /\ Ends(t) /\ thread[t].op = "item"
    BY <1>10 DEF AddItem
  <2>2. CASE items' = items
    BY <1>2, <1>3, <2>1, <2>2 DEF Ends
  <2>3. CASE TrackingCodeFree(thread[t].code) /\ items' = items \cup {new}
    <3>1. new.code = thread[t].code /\ new.code.sequence \in 1..NextTrackingSequence
      BY <2>1 DEF CodesInvariant, HeldCodes
    <3>2. DOMAIN order' = Numbers /\ \A n \in Numbers : order'[n].code = order[n].code
      BY <2>1 DEF CodesInvariant
    <3> HIDE DEF new
    <3> QED
      BY <2>1, <2>3, <3>1, <3>2, ItemAdded
  <2> QED
    BY <1>10, <2>2, <2>3 DEF AddItem
<1>11. ASSUME NEW source \in items, NEW n \in Numbers, NEW year \in Years,
              StartNewOrder(t, source, n, year)
       PROVE  CodesInvariant'
  <2> DEFINE op == [op |-> "newOrder", source |-> source.number, number |-> n, year |-> year,
                    code |-> NextTrackingSequence]
  <2>1. UNCHANGED <<items, order>> /\ Begins(op)
    BY <1>11 DEF StartNewOrder, Starts
  <2>2. op.op = "newOrder" /\ op.code = NextTrackingSequence
    OBVIOUS
  <2>3. NextTrackingSequence \in 1..NextTrackingSequence /\ NextTrackingSequence' = NextTrackingSequence
    BY <2>1, FS_CardinalityType DEF NextTrackingSequence, CodesInvariant
  <2> HIDE DEF op, Begins
  <2>4. HeldCodes(t)'
    BY <1>1, <2>1, <2>2, <2>3 DEF HeldCodes
  <2>5. DOMAIN order' = Numbers /\ \A m \in Numbers : order'[m].code \in {0, order[m].code}
    BY <2>1 DEF CodesInvariant
  <2> QED
    BY <1>1, <2>1, <2>4, <2>5, ItemsStay
<1>12. CASE AtomicNewOrder(t)
  <2> DEFINE code == [year |-> thread[t].year, sequence |-> NextTrackingSequence]
             new == [code |-> code, number |-> thread[t].number]
             row == [customer |-> order[thread[t].source].customer, code |-> thread[t].code]
  <2>1. Ends(t) /\ thread[t].op = "newOrder"
    BY <1>12 DEF AtomicNewOrder
  <2>2. CASE UNCHANGED <<order, items>>
    BY <1>2, <1>3, <2>1, <2>2 DEF Ends
  <2>3. CASE /\ TrackingCodeFree(code) /\ items' = items \cup {new}
             /\ order' = [order EXCEPT ![thread[t].number] = row]
    <3>1. NextTrackingSequence \in 1..NextTrackingSequence
      BY FS_CardinalityType DEF NextTrackingSequence, CodesInvariant
    <3>2. new.code = code /\ new.code.sequence \in 1..NextTrackingSequence
      BY <3>1
    <3>3. row.code \in 1..NextTrackingSequence
      BY <2>1 DEF CodesInvariant, HeldCodes
    <3> HIDE DEF new, row, code
    <3>4. /\ DOMAIN order' = Numbers
          /\ \A n \in Numbers : order'[n].code = order[n].code \/ order'[n].code \in 1..NextTrackingSequence
      BY <2>3, <3>3 DEF CodesInvariant
    <3> QED
      BY <2>1, <2>3, <3>2, <3>4, ItemAdded
  <2> QED
    BY <1>12, <2>2, <2>3 DEF AtomicNewOrder
<1>13. ASSUME NEW newMax \in 1..(LastAttempt + 1), StartExpand(t, newMax)
       PROVE  CodesInvariant'
  <2>1. UNCHANGED <<items, order>> /\ Begins([op |-> "expand", newMax |-> newMax])
    BY <1>13 DEF StartExpand, Starts
  <2>2. [op |-> "expand", newMax |-> newMax].op = "expand"
    OBVIOUS
  <2> HIDE DEF Begins
  <2> QED
    BY <1>3, <2>1, <2>2
<1>14. CASE WriteExpand(t)
  BY <1>2, <1>3, <1>14 DEF WriteExpand, Ends
<1> QED
  BY <1>4, <1>5, <1>6, <1>7, <1>8, <1>9, <1>10, <1>11, <1>12, <1>13, <1>14 DEF HandlerStep

\* However the handlers that number items and orders by a count overlap, and however many of
\* them are refused, the next code is free.
THEOREM CodesStayFree == Spec => []NextCodeIsFree
<1>1. Init => CodesInvariant
  <2> SUFFICES ASSUME Init
               PROVE  CodesInvariant
    OBVIOUS
  <2>1. items = {} /\ Cardinality(items) = 0 /\ IsFiniteSet(items)
    BY FS_EmptySet DEF Init
  <2>2. Idle.op = "idle"
    BY DEF Idle
  <2> QED
    BY <2>1, <2>2 DEF Init, CodesInvariant, HeldCodes
<1>2. ASSUME CodesInvariant, [Next]_vars
      PROVE  CodesInvariant'
  <2>1. ASSUME UNCHANGED <<items, thread>>, DOMAIN order' = Numbers,
               \A n \in Numbers : order'[n].code \in {0, order[n].code}
        PROVE  CodesInvariant'
    BY <1>2, <2>1, ItemsStay DEF CodesInvariant
  <2>2. ASSUME NEW n \in Numbers, NEW c \in Codes, AddPo(n, c)
        PROVE  CodesInvariant'
    BY <1>2, <2>1, <2>2 DEF AddPo, CodesInvariant
  <2>3. ASSUME NEW n \in Numbers, NEW quantity \in 1..MaxQuantity,
               AddLine(n, quantity) \/ ImportQuantity(n, quantity)
        PROVE  CodesInvariant'
    BY <1>2, <2>1, <2>3 DEF AddLine, ImportQuantity, CodesInvariant
  <2>4. CASE UNCHANGED vars
    BY <1>2, <2>1, <2>4 DEF vars, CodesInvariant
  <2> QED
    BY <1>2, <2>2, <2>3, <2>4, HandlerKeepsCodes DEF Next
<1>3. CodesInvariant => NextCodeIsFree
  <2> SUFFICES ASSUME CodesInvariant
               PROVE  NextCodeIsFree
    OBVIOUS
  <2>1. Cardinality(items) \in Nat
    BY FS_CardinalityType DEF CodesInvariant
  <2>2. \A item \in items, year \in Years :
            item.code # [year |-> year, sequence |-> NextTrackingSequence]
    BY <2>1 DEF CodesInvariant, NextTrackingSequence
  <2>3. OrderCodeFree(NextTrackingSequence)
    BY <2>1 DEF CodesInvariant, NextTrackingSequence, OrderCodeFree
  <2> QED
    BY <2>2, <2>3 DEF NextCodeIsFree, TrackingCodeFree
<1> QED
  BY <1>1, <1>2, <1>3, PTL DEF Spec

-----------------------------------------------------------------------------
(* Plans *)

EntryRows == [kind : Kinds, number : Numbers, quantity : 1..MaxQuantity, cancelled : BOOLEAN]

SameLine(row, other) == row.kind = other.kind /\ row.number = other.number

\* An entry that a handler has checked and not written yet: it stays with its line, and as
\* long as no other handler overtook it, it fits into what was granted.
HeldEntry(t) ==
    LET row == thread[t].row
        id == thread[t].id
    IN  thread[t].op = "entry" =>
            /\ id \in EntryIds
            /\ row \in EntryRows
            /\ entries[id] = NoEntry \/ SameLine(entries[id], row)
            /\ \A u \in Threads : thread[u].op = "entry" /\ thread[u].id = id => SameLine(thread[u].row, row)
            /\ <<row.kind, row.number>> \notin raced =>
                   Planned(row.kind, row.number, {id}) + row.quantity <= granted[<<row.kind, row.number>>]

PlansFit ==
    \A kind \in Kinds, n \in Numbers :
        <<kind, n>> \notin raced => Planned(kind, n, {}) <= granted[<<kind, n>>]

PlansInvariant ==
    /\ DOMAIN thread = Threads
    /\ entries \in [EntryIds -> EntryRows \cup {NoEntry}]
    /\ granted \in [Kinds \X Numbers -> Nat]
    /\ \A t \in Threads : HeldEntry(t)
    /\ PlansFit

\* Pieces can be counted, and fewer entries hold no more of them.
LEMMA PiecesFinite ==
    ASSUME NEW kind, NEW n, NEW except
    PROVE  /\ IsFiniteSet(Pieces(kind, n, except)) /\ Planned(kind, n, except) \in Nat
           /\ IsFiniteSet(Pieces(kind, n, {})) /\ Planned(kind, n, {}) \in Nat
           /\ Planned(kind, n, except) <= Planned(kind, n, {})
<1>1. IsFiniteSet(EntryIds) /\ IsFiniteSet(1..MaxQuantity)
  BY FS_Interval, OrdersAssumption DEF EntryIds
<1>2. IsFiniteSet(EntryIds \X (1..MaxQuantity))
  BY <1>1, FS_Product
<1>3. /\ Pieces(kind, n, {}) \in SUBSET (EntryIds \X (1..MaxQuantity))
      /\ Pieces(kind, n, except) \in SUBSET Pieces(kind, n, {})
  BY DEF Pieces
<1>4. IsFiniteSet(Pieces(kind, n, {}))
  BY <1>2, <1>3, FS_Subset
<1>5. /\ IsFiniteSet(Pieces(kind, n, except))
      /\ Cardinality(Pieces(kind, n, except)) <= Cardinality(Pieces(kind, n, {}))
  BY <1>3, <1>4, FS_Subset
<1> QED
  BY <1>4, <1>5, FS_CardinalityType DEF Planned

\* An entry of a quantity is that many pieces.
LEMMA PiecesOfEntry ==
    ASSUME NEW id, NEW quantity \in Nat
    PROVE  IsFiniteSet({id} \X (1..quantity)) /\ Cardinality({id} \X (1..quantity)) = quantity
<1>1. IsFiniteSet({id}) /\ Cardinality({id}) = 1
  BY FS_Singleton
<1>2. 1 \in Int /\ quantity \in Int
  OBVIOUS
<1>3. /\ IsFiniteSet(1..quantity)
      /\ Cardinality(1..quantity) = IF 1 > quantity THEN 0 ELSE quantity - 1 + 1
  BY <1>2, FS_Interval, Zenon
<1>4. Cardinality(1..quantity) = quantity
  BY <1>3
<1>5. /\ IsFiniteSet({id} \X (1..quantity))
      /\ Cardinality({id} \X (1..quantity)) = Cardinality({id}) * Cardinality(1..quantity)
  BY <1>1, <1>3, FS_Product, Zenon
<1> QED
  BY <1>1, <1>4, <1>5

\* What is planned after an entry was written.
LEMMA EntryWritten ==
    ASSUME entries \in [EntryIds -> EntryRows \cup {NoEntry}],
           NEW id \in EntryIds, NEW row \in EntryRows,
           entries' = [entries EXCEPT ![id] = row],
           entries[id] = NoEntry \/ SameLine(entries[id], row),
           NEW kind \in Kinds, NEW n \in Numbers
    PROVE  /\ Planned(kind, n, {})' <= Planned(kind, n, {id}) + row.quantity
           /\ (row.kind # kind \/ row.number # n) =>
                  \A except : Planned(kind, n, except)' = Planned(kind, n, except)
<1>1. entries'[id] = row /\ \A i \in EntryIds \ {id} : entries'[i] = entries[i]
  OBVIOUS
<1>2. row.quantity \in 1..MaxQuantity /\ row.quantity \in Nat /\ MaxQuantity \in Nat
  BY OrdersAssumption DEF EntryRows
<1>3. Planned(kind, n, {})' <= Planned(kind, n, {id}) + row.quantity
  <2> DEFINE mine == {id} \X (1..row.quantity)
             others == Pieces(kind, n, {id})
  <2>1. IsFiniteSet(mine) /\ Cardinality(mine) = row.quantity
    BY <1>2, PiecesOfEntry
  <2>2. IsFiniteSet(others) /\ Cardinality(others) \in Nat
    BY PiecesFinite DEF Planned
  <2>3. ASSUME NEW piece \in Pieces(kind, n, {})'
        PROVE  piece \in others \cup mine
    <3>1. /\ piece \in EntryIds \X (1..MaxQuantity)
          /\ entries'[piece[1]].kind = kind /\ entries'[piece[1]].number = n
          /\ ~entries'[piece[1]].cancelled /\ piece[2] <= entries'[piece[1]].quantity
      BY <2>3 DEF Pieces, Counts
    <3>2. /\ piece = <<piece[1], piece[2]>> /\ piece[1] \in EntryIds /\ piece[2] \in 1..MaxQuantity
      BY <3>1
    <3>3. CASE piece[1] = id
      BY <1>1, <1>2, <3>1, <3>2, <3>3
    <3>4. CASE piece[1] # id
      BY <1>1, <3>1, <3>2, <3>4 DEF Pieces, Counts
    <3> QED
      BY <3>3, <3>4
  <2>4. /\ IsFiniteSet(others \cup mine)
        /\ Cardinality(others \cup mine) = Cardinality(others) + Cardinality(mine)
                                               - Cardinality(others \cap mine)
    BY <2>1, <2>2, FS_Union
  <2>5. Cardinality(others \cap mine) \in Nat
    BY <2>2, FS_Intersection, FS_CardinalityType
  <2>6. /\ Cardinality(Pieces(kind, n, {})') <= Cardinality(others \cup mine)
        /\ Cardinality(Pieces(kind, n, {})') \in Nat
    <3>1. Pieces(kind, n, {})' \in SUBSET (others \cup mine)
      BY <2>3
    <3> HIDE DEF others, mine
    <3>2. /\ IsFiniteSet(Pieces(kind, n, {})')
          /\ Cardinality(Pieces(kind, n, {})') <= Cardinality(others \cup mine)
      BY <2>4, <3>1, FS_Subset
    <3> QED
      BY <3>2, FS_CardinalityType
  <2>7. Planned(kind, n, {})' = Cardinality(Pieces(kind, n, {})') /\ Planned(kind, n, {id}) = Cardinality(others)
    BY DEF Planned
  <2> HIDE DEF others, mine
  <2> QED
    BY <1>2, <2>1, <2>2, <2>4, <2>5, <2>6, <2>7
<1>4. ASSUME row.kind # kind \/ row.number # n, NEW except
      PROVE  Planned(kind, n, except)' = Planned(kind, n, except)
  <2>1. \A i \in EntryIds : Counts(i, kind, n)' <=> Counts(i, kind, n)
    <3>1. ~Counts(id, kind, n)' /\ ~Counts(id, kind, n)
      BY <1>1, <1>4 DEF Counts, SameLine, NoEntry
    <3> QED
      BY <1>1, <3>1 DEF Counts
  <2>2. \A i \in EntryIds : Counts(i, kind, n) => entries'[i] = entries[i]
    BY <1>1, <1>4 DEF Counts, SameLine, NoEntry
  <2>3. Pieces(kind, n, except)' = Pieces(kind, n, except)
    BY <2>1, <2>2 DEF Pieces
  <2> QED
    BY <2>3 DEF Planned
<1> QED
  BY <1>3, <1>4

\* The steps that write no entry, start none and grant nothing.
LEMMA EntriesStay ==
    ASSUME PlansInvariant, UNCHANGED <<entries, granted>>, raced \subseteq raced',
           DOMAIN thread' = Threads,
           \A t \in Threads : thread'[t].op = "entry" => thread'[t] = thread[t]
    PROVE  PlansInvariant'
<1>1. \A kind, n, except : Planned(kind, n, except)' = Planned(kind, n, except)
  BY DEF Planned, Pieces, Counts
<1>2. PlansFit'
  BY <1>1 DEF PlansInvariant, PlansFit
<1>3. ASSUME NEW t \in Threads
      PROVE  HeldEntry(t)'
  <2> SUFFICES ASSUME thread'[t].op = "entry"
               PROVE  HeldEntry(t)'
    BY DEF HeldEntry
  <2>1. thread'[t] = thread[t] /\ thread[t].op = "entry"
    OBVIOUS
  <2>. PICK row, id : row = thread[t].row /\ id = thread[t].id
    OBVIOUS
  <2>2. /\ id \in EntryIds /\ row \in EntryRows
        /\ entries[id] = NoEntry \/ SameLine(entries[id], row)
        /\ \A u \in Threads : thread[u].op = "entry" /\ thread[u].id = id => SameLine(thread[u].row, row)
        /\ <<row.kind, row.number>> \notin raced =>
               Planned(row.kind, row.number, {id}) + row.quantity <= granted[<<row.kind, row.number>>]
    BY <2>1 DEF PlansInvariant, HeldEntry
  <2>3. \A u \in Threads : thread'[u].op = "entry" /\ thread'[u].id = id => SameLine(thread'[u].row, row)
    BY <2>2
  <2>4. thread'[t].row = row /\ thread'[t].id = id
    BY <2>1
  <2> QED
    BY <1>1, <2>2, <2>3, <2>4 DEF HeldEntry, SameLine
<1> QED
  BY <1>2, <1>3 DEF PlansInvariant

\* A request raises the bound of its own plan at most, and to no less than it states.
LEMMA GrantsGrow ==
    ASSUME granted \in [Kinds \X Numbers -> Nat], NEW kind \in Kinds, NEW n \in Numbers,
           NEW stated \in Nat, Grant(kind, n, stated)
    PROVE  /\ granted' \in [Kinds \X Numbers -> Nat]
           /\ \A plan \in Kinds \X Numbers : granted[plan] <= granted'[plan]
           /\ stated <= granted'[<<kind, n>>]
<1>. PICK plan \in Kinds \X Numbers : plan = <<kind, n>>
  OBVIOUS
<1>1. \E x \in {granted[plan], stated} : \A y \in {granted[plan], stated} : x >= y
  OBVIOUS
<1>2. PICK most : most = Max({granted[plan], stated})
  OBVIOUS
<1>3. most \in Nat /\ granted[plan] <= most /\ stated <= most
  BY <1>1, <1>2 DEF Max
<1>4. granted' = [granted EXCEPT ![plan] = most]
  BY <1>2 DEF Grant
<1> QED
  BY <1>3, <1>4

\* A handler has checked an entry of a line, and no other handler holds the same entry for
\* another line.
LEMMA EntryStarts ==
    ASSUME PlansInvariant, UNCHANGED <<entries, raced>>,
           granted' \in [Kinds \X Numbers -> Nat],
           \A plan \in Kinds \X Numbers : granted[plan] <= granted'[plan],
           NEW t \in Threads, thread[t] = Idle, NEW id \in EntryIds, NEW row \in EntryRows,
           thread' = [thread EXCEPT ![t] = [op |-> "entry", id |-> id, row |-> row]],
           entries[id] = NoEntry \/ SameLine(entries[id], row),
           \A u \in Threads : thread[u].op = "entry" /\ thread[u].id = id => SameLine(thread[u].row, row),
           Planned(row.kind, row.number, {id}) + row.quantity <= granted'[<<row.kind, row.number>>]
    PROVE  PlansInvariant'
<1> DEFINE new == [op |-> "entry", id |-> id, row |-> row]
<1>1. new.op = "entry" /\ new.id = id /\ new.row = row
  OBVIOUS
<1> HIDE DEF new
<1>2. DOMAIN thread' = Threads /\ thread'[t] = new /\ \A u \in Threads \ {t} : thread'[u] = thread[u]
  BY DEF PlansInvariant, new
<1>3. \A kind, n, except : Planned(kind, n, except)' = Planned(kind, n, except)
  BY DEF Planned, Pieces, Counts
<1>4. PlansFit'
  <2> SUFFICES ASSUME NEW kind \in Kinds, NEW n \in Numbers, <<kind, n>> \notin raced
               PROVE  Planned(kind, n, {}) <= granted'[<<kind, n>>]
    BY <1>3 DEF PlansFit
  <2>1. /\ Planned(kind, n, {}) <= granted[<<kind, n>>] /\ Planned(kind, n, {}) \in Nat
        /\ granted[<<kind, n>>] <= granted'[<<kind, n>>]
    BY PiecesFinite DEF PlansInvariant, PlansFit
  <2> QED
    BY <2>1 DEF PlansInvariant
<1>5. \A u, v \in Threads :
          thread'[u].op = "entry" /\ thread'[v].op = "entry" /\ thread'[u].id = thread'[v].id =>
              SameLine(thread'[u].row, thread'[v].row)
  <2>1. \A u, v \in Threads :
            thread[u].op = "entry" /\ thread[v].op = "entry" /\ thread[u].id = thread[v].id =>
                SameLine(thread[u].row, thread[v].row)
    BY DEF PlansInvariant, HeldEntry
  <2> QED
    BY <1>1, <1>2, <2>1 DEF SameLine
<1>6. ASSUME NEW u \in Threads
      PROVE  HeldEntry(u)'
  <2>1. CASE u = t
    BY <1>1, <1>2, <1>3, <1>5, <2>1 DEF HeldEntry, SameLine
  <2>2. CASE u # t
    <3> SUFFICES ASSUME thread'[u].op = "entry"
                 PROVE  HeldEntry(u)'
      BY DEF HeldEntry
    <3>1. thread'[u] = thread[u] /\ thread[u].op = "entry" /\ HeldEntry(u)
      BY <1>2, <2>2 DEF PlansInvariant
    <3>. PICK mine, at : mine = thread[u].row /\ at = thread[u].id
      OBVIOUS
    <3>2. /\ at \in EntryIds /\ mine \in EntryRows
          /\ entries[at] = NoEntry \/ SameLine(entries[at], mine)
          /\ <<mine.kind, mine.number>> \notin raced =>
                 Planned(mine.kind, mine.number, {at}) + mine.quantity <= granted[<<mine.kind, mine.number>>]
      BY <3>1 DEF HeldEntry
    <3>3. Planned(mine.kind, mine.number, {at})' = Planned(mine.kind, mine.number, {at})
      BY <1>3
    <3>4. \A v \in Threads : thread'[v].op = "entry" /\ thread'[v].id = at => SameLine(thread'[v].row, mine)
      BY <1>5, <3>1
    <3>5. thread'[u].row = mine /\ thread'[u].id = at
      BY <3>1
    <3>6. /\ mine.kind \in Kinds /\ mine.number \in Numbers /\ mine.quantity \in Nat
          /\ Planned(mine.kind, mine.number, {at}) \in Nat
      BY <3>2, PiecesFinite, OrdersAssumption DEF EntryRows
    <3>7. <<mine.kind, mine.number>> \notin raced =>
              Planned(mine.kind, mine.number, {at}) + mine.quantity <= granted'[<<mine.kind, mine.number>>]
      BY <3>2, <3>6 DEF PlansInvariant
    <3>8. /\ entries'[at] = NoEntry \/ SameLine(entries'[at], mine)
          /\ <<mine.kind, mine.number>> \notin raced' =>
                 Planned(mine.kind, mine.number, {at})' + mine.quantity
                     <= granted'[<<mine.kind, mine.number>>]
      BY <3>2, <3>3, <3>7
    <3> QED
      BY <3>2, <3>4, <3>5, <3>8 DEF HeldEntry, SameLine
  <2> QED
    BY <2>1, <2>2
<1> QED
  BY <1>2, <1>4, <1>6 DEF PlansInvariant

\* An entry is written: its line is full at most, unless another handler was overtaken.
LEMMA WriteKeepsPlans ==
    ASSUME PlansInvariant, NEW t \in Threads, WriteEntry(t)
    PROVE  PlansInvariant'
<1> DEFINE row == thread[t].row
           id == thread[t].id
<1>1. /\ entries' = [entries EXCEPT ![id] = row] /\ UNCHANGED granted
      /\ thread[t].op = "entry"
      /\ thread' = [thread EXCEPT ![t] = Idle]
      /\ raced' = IF Overtakes(t) THEN raced \cup {<<row.kind, row.number>>} ELSE raced
  BY DEF WriteEntry, Ends
<1>2. /\ id \in EntryIds /\ row \in EntryRows
      /\ entries[id] = NoEntry \/ SameLine(entries[id], row)
      /\ \A u \in Threads : thread[u].op = "entry" /\ thread[u].id = id => SameLine(thread[u].row, row)
      /\ <<row.kind, row.number>> \notin raced =>
             Planned(row.kind, row.number, {id}) + row.quantity <= granted[<<row.kind, row.number>>]
  BY <1>1 DEF PlansInvariant, HeldEntry
<1>3. row.kind \in Kinds /\ row.number \in Numbers /\ row.quantity \in Nat
  BY <1>2, OrdersAssumption DEF EntryRows
<1>4. entries \in [EntryIds -> EntryRows \cup {NoEntry}]
  BY DEF PlansInvariant
<1>5. \A kind \in Kinds, n \in Numbers :
          /\ Planned(kind, n, {})' <= Planned(kind, n, {id}) + row.quantity
          /\ (row.kind # kind \/ row.number # n) =>
                 \A except : Planned(kind, n, except)' = Planned(kind, n, except)
  BY <1>1, <1>2, <1>4, EntryWritten
<1>6. Idle.op = "idle"
  BY DEF Idle
<1>7. /\ DOMAIN thread' = Threads /\ thread'[t].op = "idle"
      /\ \A u \in Threads \ {t} : thread'[u] = thread[u]
  BY <1>1, <1>6 DEF PlansInvariant
<1> HIDE DEF row, id
<1>8. /\ entries' \in [EntryIds -> EntryRows \cup {NoEntry}] /\ entries'[id] = row
      /\ \A i \in EntryIds \ {id} : entries'[i] = entries[i]
  BY <1>1, <1>2, <1>4
<1>9. granted' \in [Kinds \X Numbers -> Nat]
  BY <1>1 DEF PlansInvariant
<1>10. PlansFit'
  <2> SUFFICES ASSUME NEW kind \in Kinds, NEW n \in Numbers, <<kind, n>> \notin raced'
               PROVE  Planned(kind, n, {})' <= granted[<<kind, n>>]
    BY <1>1 DEF PlansFit
  <2>1. <<kind, n>> \notin raced
    BY <1>1
  <2>2. CASE row.kind = kind /\ row.number = n
    <3>1. Planned(kind, n, {id}) \in Nat /\ Planned(kind, n, {id}) + row.quantity <= granted[<<kind, n>>]
      BY <1>2, <2>1, <2>2, PiecesFinite
    <3>2. Planned(kind, n, {})' \in Nat /\ granted[<<kind, n>>] \in Nat
      <4>1. IsFiniteSet(Pieces(kind, n, {})')
        <5>1. IsFiniteSet(EntryIds) /\ IsFiniteSet(1..MaxQuantity)
          BY FS_Interval, OrdersAssumption DEF EntryIds
        <5>2. IsFiniteSet(EntryIds \X (1..MaxQuantity))
          BY <5>1, FS_Product
        <5>3. Pieces(kind, n, {})' \in SUBSET (EntryIds \X (1..MaxQuantity))
          BY DEF Pieces
        <5> QED
          BY <5>2, <5>3, FS_Subset
      <4> QED
        BY <4>1, FS_CardinalityType DEF Planned, PlansInvariant
    <3> QED
      BY <1>3, <1>5, <3>1, <3>2
  <2>3. CASE row.kind # kind \/ row.number # n
    BY <1>5, <2>1, <2>3 DEF PlansInvariant, PlansFit
  <2> QED
    BY <2>2, <2>3
<1>11. ASSUME NEW u \in Threads
       PROVE  HeldEntry(u)'
  <2> SUFFICES ASSUME thread'[u].op = "entry"
               PROVE  HeldEntry(u)'
    BY DEF HeldEntry
  <2>1. u # t /\ thread'[u] = thread[u] /\ thread[u].op = "entry"
    BY <1>7
  <2>. PICK mine, at : mine = thread[u].row /\ at = thread[u].id
    OBVIOUS
  <2>2. /\ at \in EntryIds /\ mine \in EntryRows
        /\ entries[at] = NoEntry \/ SameLine(entries[at], mine)
        /\ \A v \in Threads : thread[v].op = "entry" /\ thread[v].id = at => SameLine(thread[v].row, mine)
        /\ <<mine.kind, mine.number>> \notin raced =>
               Planned(mine.kind, mine.number, {at}) + mine.quantity <= granted[<<mine.kind, mine.number>>]
    BY <2>1 DEF PlansInvariant, HeldEntry
  <2>3. mine.kind \in Kinds /\ mine.number \in Numbers
    BY <2>2 DEF EntryRows
  <2>4. at = id => SameLine(row, mine)
    BY <1>1, <2>2 DEF row, id
  <2>5. entries'[at] = NoEntry \/ SameLine(entries'[at], mine)
    BY <1>8, <2>2, <2>4
  <2>6. \A v \in Threads : thread'[v].op = "entry" /\ thread'[v].id = at => SameLine(thread'[v].row, mine)
    BY <1>7, <2>2
  <2>7. <<mine.kind, mine.number>> \notin raced' => row.kind # mine.kind \/ row.number # mine.number
    BY <1>1, <2>1 DEF Overtakes, row
  <2>8. <<mine.kind, mine.number>> \notin raced' =>
            Planned(mine.kind, mine.number, {at})' + mine.quantity <= granted[<<mine.kind, mine.number>>]
    BY <1>1, <1>5, <2>2, <2>3, <2>7
  <2>9. thread'[u].row = mine /\ thread'[u].id = at
    BY <2>1
  <2> QED
    BY <1>1, <2>2, <2>5, <2>6, <2>8, <2>9 DEF HeldEntry, SameLine
<1> QED
  BY <1>7, <1>8, <1>9, <1>10, <1>11 DEF PlansInvariant

\* A new entry is checked with everything planned, a changed one without itself.
LEMMA HandlerKeepsPlans ==
    ASSUME PlansInvariant, NEW t \in Threads, HandlerStep(t)
    PROVE  PlansInvariant'
<1> DEFINE Begins(op) == thread' = [thread EXCEPT ![t] = op]
<1>1. ASSUME UNCHANGED <<entries, granted>>, raced \subseteq raced', NEW op, Begins(op), op.op # "entry"
      PROVE  PlansInvariant'
  <2>1. /\ DOMAIN thread' = Threads
        /\ \A u \in Threads : thread'[u].op = "entry" => thread'[u] = thread[u]
    BY <1>1 DEF PlansInvariant
  <2> QED
    BY <1>1, <2>1, EntriesStay
<1>2. CASE \/ CreateCustomer(t)
           \/ \E n \in Numbers : StartItem(t, n)
           \/ \E source \in items, n \in Numbers, year \in Years : StartNewOrder(t, source, n, year)
           \/ \E newMax \in 1..(LastAttempt + 1) : StartExpand(t, newMax)
  <2>1. /\ UNCHANGED <<entries, granted, raced>>
        /\ \/ \E c : Begins([op |-> "customer", code |-> c])
           \/ \E n, c : Begins([op |-> "item", number |-> n, code |-> c])
           \/ \E source, n, year, c : Begins([op |-> "newOrder", source |-> source, number |-> n,
                                              year |-> year, code |-> c])
           \/ \E newMax : Begins([op |-> "expand", newMax |-> newMax])
    BY <1>2 DEF CreateCustomer, StartCustomer, StartItem, StartNewOrder, StartExpand, Starts
  <2>2. /\ \A c : [op |-> "customer", code |-> c].op = "customer"
        /\ \A n, c : [op |-> "item", number |-> n, code |-> c].op = "item"
        /\ \A source, n, year, c : [op |-> "newOrder", source |-> source, number |-> n,
                                    year |-> year, code |-> c].op = "newOrder"
        /\ \A newMax : [op |-> "expand", newMax |-> newMax].op = "expand"
    OBVIOUS
  <2> HIDE DEF Begins
  <2> QED
    BY <1>1, <2>1, <2>2
<1>3. CASE AddCustomer(t) \/ AddItem(t) \/ AtomicNewOrder(t) \/ WriteExpand(t)
  <2>1. UNCHANGED <<entries, granted>> /\ raced \subseteq raced' /\ Begins(Idle)
    BY <1>3 DEF AddCustomer, AddItem, AtomicNewOrder, WriteExpand, Ends
  <2>2. Idle.op = "idle"
    BY DEF Idle
  <2> HIDE DEF Begins
  <2> QED
    BY <1>1, <2>1, <2>2
<1>4. ASSUME NEW kind \in Kinds, NEW n \in Numbers, NEW quantity \in 1..MaxQuantity,
             NEW stated \in 1..MaxQuantity, StartEntry(t, kind, n, quantity, stated)
      PROVE  PlansInvariant'
  <2> DEFINE row == [kind |-> kind, number |-> n, quantity |-> quantity, cancelled |-> FALSE]
  <2>1. PICK i \in EntryIds :
            /\ \A j \in 1..i : entries[j] = NoEntry <=> i = j
            /\ \A other \in Threads : thread[other].op = "entry" => thread[other].id # i
            /\ thread[t] = Idle /\ Begins([op |-> "entry", id |-> i, row |-> row])
    BY <1>4 DEF StartEntry, Starts
  <2>2. /\ Planned(kind, n, {}) + quantity <= stated /\ Grant(kind, n, stated)
        /\ UNCHANGED <<entries, raced>> /\ stated \in Nat /\ quantity \in Nat
    BY <1>4, OrdersAssumption DEF StartEntry, WithinOrdered
  <2>7. /\ granted' \in [Kinds \X Numbers -> Nat] /\ stated <= granted'[<<kind, n>>]
        /\ \A plan \in Kinds \X Numbers : granted[plan] <= granted'[plan]
    BY <2>2, GrantsGrow DEF PlansInvariant
  <2>3. row \in EntryRows /\ row.kind = kind /\ row.number = n /\ row.quantity = quantity
    BY DEF EntryRows
  <2>4. entries[i] = NoEntry
    BY <2>1, OrdersAssumption DEF EntryIds
  <2>5. /\ Planned(kind, n, {i}) \in Nat /\ Planned(kind, n, {}) \in Nat
        /\ Planned(kind, n, {i}) <= Planned(kind, n, {})
    BY PiecesFinite
  <2>6. Planned(kind, n, {i}) + quantity <= granted'[<<kind, n>>]
    BY <2>2, <2>5, <2>7
  <2> HIDE DEF row
  <2> QED
    BY <2>1, <2>2, <2>3, <2>4, <2>6, <2>7, EntryStarts
<1>5. ASSUME NEW i \in EntryIds, NEW quantity \in 1..MaxQuantity, NEW cancelled \in BOOLEAN,
             NEW stated \in 1..MaxQuantity, StartUpdate(t, i, quantity, cancelled, stated)
      PROVE  PlansInvariant'
  <2> DEFINE row == [entries[i] EXCEPT !.quantity = quantity, !.cancelled = cancelled]
  <2>1. /\ entries[i] # NoEntry /\ thread[t] = Idle
        /\ Begins([op |-> "entry", id |-> i, row |-> row])
        /\ Planned(entries[i].kind, entries[i].number, {i}) + quantity <= stated
        /\ Grant(entries[i].kind, entries[i].number, stated)
        /\ UNCHANGED <<entries, raced>> /\ stated \in Nat /\ quantity \in Nat
    BY <1>5, OrdersAssumption DEF StartUpdate, Starts, WithinOrdered
  <2>2. entries[i] \in EntryRows
    BY <2>1 DEF PlansInvariant
  <2>3. /\ row \in EntryRows /\ row.kind = entries[i].kind /\ row.number = entries[i].number
        /\ row.quantity = quantity /\ row.kind \in Kinds /\ row.number \in Numbers
    BY <2>2 DEF EntryRows
  <2> HIDE DEF row
  <2>4. SameLine(entries[i], row)
    BY <2>3 DEF SameLine
  <2>5. \A u \in Threads : thread[u].op = "entry" /\ thread[u].id = i => SameLine(thread[u].row, row)
    BY <2>1, <2>4, ZenonT(60) DEF PlansInvariant, HeldEntry, SameLine
  <2>6. /\ granted' \in [Kinds \X Numbers -> Nat] /\ stated <= granted'[<<row.kind, row.number>>]
        /\ \A plan \in Kinds \X Numbers : granted[plan] <= granted'[plan]
    BY <2>1, <2>3, GrantsGrow DEF PlansInvariant
  <2>7. Planned(row.kind, row.number, {i}) + row.quantity <= granted'[<<row.kind, row.number>>]
    BY <2>1, <2>3, <2>6, PiecesFinite
  <2> QED
    BY <2>1, <2>3, <2>4, <2>5, <2>6, <2>7, EntryStarts
<1> QED
  BY <1>2, <1>3, <1>4, <1>5, WriteKeepsPlans DEF HandlerStep

-----------------------------------------------------------------------------
(* Attempts *)

\* A handler that has compared its maximum with the one in the table.
AttemptInvariant ==
    /\ DOMAIN thread = Threads
    /\ attempt \in Nat /\ asked \in Nat
    /\ <<"attempt", NoNumber>> \notin raced => attempt = asked
    /\ \A t \in Threads : thread[t].op = "expand" =>
          /\ thread[t].newMax \in Nat
          /\ <<"attempt", NoNumber>> \notin raced => thread[t].newMax >= attempt

LEMMA HandlerKeepsAttempt ==
    ASSUME AttemptInvariant, NEW t \in Threads, HandlerStep(t)
    PROVE  AttemptInvariant'
<1> DEFINE Begins(op) == thread' = [thread EXCEPT ![t] = op]
<1>1. ASSUME UNCHANGED <<attempt, asked>>, raced \subseteq raced', NEW op, Begins(op),
             op.op = "expand" => op.newMax \in Nat /\ op.newMax >= attempt
      PROVE  AttemptInvariant'
  BY <1>1 DEF AttemptInvariant
<1>2. CASE \/ CreateCustomer(t)
           \/ \E n \in Numbers : StartItem(t, n)
           \/ \E source \in items, n \in Numbers, year \in Years : StartNewOrder(t, source, n, year)
           \/ \E kind \in Kinds, n \in Numbers, quantity, stated \in 1..MaxQuantity :
                  StartEntry(t, kind, n, quantity, stated)
           \/ \E i \in EntryIds, quantity, stated \in 1..MaxQuantity, cancelled \in BOOLEAN :
                  StartUpdate(t, i, quantity, cancelled, stated)
  <2>1. /\ UNCHANGED <<attempt, asked, raced>>
        /\ \/ \E c : Begins([op |-> "customer", code |-> c])
           \/ \E n, c : Begins([op |-> "item", number |-> n, code |-> c])
           \/ \E source, n, year, c : Begins([op |-> "newOrder", source |-> source, number |-> n,
                                              year |-> year, code |-> c])
           \/ \E i, row : Begins([op |-> "entry", id |-> i, row |-> row])
    <3>1. CASE \/ CreateCustomer(t)
               \/ \E n \in Numbers : StartItem(t, n)
               \/ \E source \in items, n \in Numbers, year \in Years : StartNewOrder(t, source, n, year)
      BY <3>1 DEF CreateCustomer, StartCustomer, StartItem, StartNewOrder, Starts
    <3>2. CASE \/ \E kind \in Kinds, n \in Numbers, quantity, stated \in 1..MaxQuantity :
                      StartEntry(t, kind, n, quantity, stated)
               \/ \E i \in EntryIds, quantity, stated \in 1..MaxQuantity, cancelled \in BOOLEAN :
                      StartUpdate(t, i, quantity, cancelled, stated)
      BY <3>2 DEF StartEntry, StartUpdate, Starts
    <3> QED
      BY <1>2, <3>1, <3>2
  <2>2. /\ \A c : [op |-> "customer", code |-> c].op = "customer"
        /\ \A n, c : [op |-> "item", number |-> n, code |-> c].op = "item"
        /\ \A source, n, year, c : [op |-> "newOrder", source |-> source, number |-> n,
                                    year |-> year, code |-> c].op = "newOrder"
        /\ \A i, row : [op |-> "entry", id |-> i, row |-> row].op = "entry"
    OBVIOUS
  <2> HIDE DEF Begins
  <2> QED
    BY <1>1, <2>1, <2>2
<1>3. CASE AddCustomer(t) \/ WriteEntry(t) \/ AddItem(t) \/ AtomicNewOrder(t)
  <2>1. UNCHANGED <<attempt, asked>> /\ raced \subseteq raced' /\ Begins(Idle)
    BY <1>3 DEF AddCustomer, WriteEntry, AddItem, AtomicNewOrder, Ends
  <2>2. Idle.op = "idle"
    BY DEF Idle
  <2> HIDE DEF Begins
  <2> QED
    BY <1>1, <2>1, <2>2
<1>4. ASSUME NEW newMax \in 1..(LastAttempt + 1), StartExpand(t, newMax)
      PROVE  AttemptInvariant'
  <2> DEFINE op == [op |-> "expand", newMax |-> newMax]
  <2>1. UNCHANGED <<attempt, asked, raced>> /\ Begins(op) /\ newMax >= attempt
    BY <1>4 DEF StartExpand, Starts
  <2>2. op.newMax = newMax /\ newMax \in Nat
    BY DEF LastAttempt
  <2> HIDE DEF op, Begins
  <2> QED
    BY <1>1, <2>1, <2>2
<1>5. CASE WriteExpand(t)
  <2> DEFINE new == thread[t].newMax
  <2>1. /\ attempt' = new /\ asked' = Max({asked, new}) /\ new \in Nat /\ Begins(Idle)
        /\ <<"attempt", NoNumber>> \notin raced => new >= attempt
        /\ raced \subseteq raced'
        /\ <<"attempt", NoNumber>> \notin raced' =>
               \A other \in Threads \ {t} : thread[other].op # "expand"
    BY <1>5 DEF WriteExpand, Ends, AttemptInvariant
  <2>2. asked' \in {asked, new} /\ asked' >= asked /\ asked' >= new
    <3>1. \E x \in {asked, new} : \A y \in {asked, new} : x >= y
      BY <2>1 DEF AttemptInvariant
    <3> QED
      BY <2>1, <3>1 DEF Max
  <2>3. <<"attempt", NoNumber>> \notin raced' => attempt' = asked'
    BY <2>1, <2>2 DEF AttemptInvariant
  <2>4. /\ DOMAIN thread' = Threads
        /\ \A u \in Threads : thread'[u].op = "expand" =>
               u # t /\ thread'[u] = thread[u] /\ thread[u].op = "expand"
    BY <2>1 DEF AttemptInvariant, Idle
  <2> HIDE DEF Begins
  <2> QED
    BY <2>1, <2>2, <2>3, <2>4 DEF AttemptInvariant
<1> QED
  BY <1>2, <1>3, <1>4, <1>5 DEF HandlerStep

\* Only handlers that overlap on the same rows can plan more for a line than a request stated
\* as ordered, or lower the number of attempts.
THEOREM ChecksHold == Spec => []ChecksHoldUnlessRaced
<1> DEFINE Inv == PlansInvariant /\ AttemptInvariant
<1>1. Init => Inv
  <2> SUFFICES ASSUME Init
               PROVE  Inv
    OBVIOUS
  <2>1. Idle.op = "idle"
    BY DEF Idle
  <2>3. AttemptInvariant
    BY <2>1 DEF Init, AttemptInvariant, FirstAttempts
  <2>4. PlansFit
    <3> SUFFICES ASSUME NEW kind \in Kinds, NEW n \in Numbers
                 PROVE  Planned(kind, n, {}) <= granted[<<kind, n>>]
      BY DEF PlansFit
    <3>1. Pieces(kind, n, {}) = {}
      BY DEF Init, Pieces, Counts, NoEntry
    <3>2. Planned(kind, n, {}) = 0
      BY <3>1, FS_EmptySet DEF Planned
    <3> QED
      BY <3>2 DEF Init
  <2>5. PlansInvariant
    BY <2>1, <2>4 DEF Init, PlansInvariant, HeldEntry
  <2> QED
    BY <2>3, <2>5
<1>2. ASSUME Inv, [Next]_vars
      PROVE  Inv'
  <2>2. ASSUME UNCHANGED <<entries, granted, thread, attempt, asked, raced>>
        PROVE  PlansInvariant' /\ AttemptInvariant'
    <3>1. PlansInvariant'
      <4>1. /\ raced \subseteq raced' /\ DOMAIN thread' = Threads
            /\ \A t \in Threads : thread'[t].op = "entry" => thread'[t] = thread[t]
        BY <1>2, <2>2 DEF PlansInvariant
      <4> QED
        BY <1>2, <2>2, <4>1, EntriesStay
    <3> QED
      BY <1>2, <2>2, <3>1 DEF AttemptInvariant
  <2>3. ASSUME \/ \E n \in Numbers, c \in Codes : AddPo(n, c)
               \/ \E n \in Numbers, quantity \in 1..MaxQuantity :
                      AddLine(n, quantity) \/ ImportQuantity(n, quantity)
               \/ UNCHANGED vars
        PROVE  UNCHANGED <<entries, granted, thread, attempt, asked, raced>>
    BY <2>3 DEF AddPo, AddLine, ImportQuantity, vars
  <2> QED
    BY <1>2, <2>2, <2>3, HandlerKeepsPlans, HandlerKeepsAttempt DEF Next
<1>3. Inv => ChecksHoldUnlessRaced
  BY DEF PlansInvariant, PlansFit, AttemptInvariant, ChecksHoldUnlessRaced
<1> QED
  BY <1>1, <1>2, <1>3, PTL DEF Spec
=============================================================================

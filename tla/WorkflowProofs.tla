--------------------------- MODULE WorkflowProofs ---------------------------
(***************************************************************************)
(* Proofs about Workflow, for any quantities, requests and threads, and    *)
(* any number of rows, saves and imports.                                  *)
(***************************************************************************)
EXTENDS Workflow, FiniteSetTheorems, SequenceTheorems, TLAPS

-----------------------------------------------------------------------------
(* Rows *)

EventRows == [req : Requests, kind : EventKinds, qty : 0..MaxTarget, seq : Nat, rev : Nat \ {0},
              sup : Nat, active : BOOLEAN]

\* A sequence with a row behind it.
LEMMA RowAppended ==
    ASSUME NEW S, NEW rows \in Seq(S), NEW row \in S
    PROVE  /\ Append(rows, row) \in Seq(S)
           /\ Len(rows) \in Nat /\ Len(Append(rows, row)) = Len(rows) + 1
           /\ DOMAIN rows = 1..Len(rows)
           /\ DOMAIN Append(rows, row) = DOMAIN rows \cup {Len(rows) + 1}
           /\ Len(rows) + 1 \notin DOMAIN rows
           /\ \A i \in DOMAIN rows : Append(rows, row)[i] = rows[i]
           /\ Append(rows, row)[Len(rows) + 1] = row
OBVIOUS

\* A row that is no longer in effect.
LEMMA RowSuperseded ==
    ASSUME NEW rows \in Seq(EventRows), NEW i \in DOMAIN rows
    PROVE  /\ Superseded(rows, i) \in Seq(EventRows)
           /\ Len(Superseded(rows, i)) = Len(rows)
           /\ DOMAIN Superseded(rows, i) = DOMAIN rows
           /\ \A j \in DOMAIN rows \ {i} : Superseded(rows, i)[j] = rows[j]
           /\ Superseded(rows, i)[i].active = FALSE
           /\ Superseded(rows, i)[i].req = rows[i].req
           /\ Superseded(rows, i)[i].kind = rows[i].kind
           /\ Superseded(rows, i)[i].qty = rows[i].qty
           /\ Superseded(rows, i)[i].seq = rows[i].seq
           /\ Superseded(rows, i)[i].rev = rows[i].rev
           /\ Superseded(rows, i)[i].sup = rows[i].sup
<1> DEFINE row == [rows[i] EXCEPT !.active = FALSE]
<1>1. DOMAIN rows = 1..Len(rows) /\ rows[i] \in EventRows /\ Len(rows) \in Nat
  OBVIOUS
<1>2. /\ row \in EventRows /\ row.active = FALSE /\ row.req = rows[i].req /\ row.kind = rows[i].kind
      /\ row.qty = rows[i].qty /\ row.seq = rows[i].seq /\ row.rev = rows[i].rev
      /\ row.sup = rows[i].sup
  BY <1>1 DEF EventRows
<1>3. Superseded(rows, i) = [rows EXCEPT ![i] = row]
  BY DEF Superseded
<1> HIDE DEF row
<1>4. [rows EXCEPT ![i] = row] \in Seq(EventRows) /\ Len([rows EXCEPT ![i] = row]) = Len(rows)
  BY <1>1, <1>2, ExceptSeq
<1> QED
  BY <1>1, <1>2, <1>3, <1>4

-----------------------------------------------------------------------------
(* Totals *)

\* Reported pieces can be counted.
LEMMA TotalCounts ==
    ASSUME NEW rows \in Seq(EventRows), NEW kind
    PROVE  Total(rows, kind) \in Nat
<1>1. DOMAIN rows = 1..Len(rows) /\ Len(rows) \in Int /\ 1 \in Int /\ MaxTarget \in Int
  BY WorkflowAssumption
<1>2. IsFiniteSet(DOMAIN rows) /\ IsFiniteSet(1..MaxTarget)
  BY <1>1, FS_Interval
<1>3. IsFiniteSet((DOMAIN rows) \X (1..MaxTarget))
  BY <1>2, FS_Product
<1>4. Pieces(rows, kind) \in SUBSET ((DOMAIN rows) \X (1..MaxTarget))
  BY DEF Pieces
<1> QED
  BY <1>3, <1>4, FS_Subset, FS_CardinalityType DEF Total

LEMMA NothingReported ==
    ASSUME NEW kind
    PROVE  Total(<<>>, kind) = 0
<1>1. Pieces(<<>>, kind) = {}
  BY DEF Pieces
<1> QED
  BY <1>1, FS_EmptySet DEF Total

-----------------------------------------------------------------------------
(* Revisions *)

\* The revisions of an event.
Chain(rows, s) == {j \in DOMAIN rows : rows[j].seq = s}

\* OneEffectiveRevision of any rows, for one row and the revisions of its event.
EffectiveAt(rows, i, chain) ==
    /\ Cardinality({j \in chain : rows[j].active}) = 1
    /\ {rows[j].rev : j \in chain} = 1..Cardinality(chain)
    /\ rows[i].active <=> rows[i].rev = Cardinality(chain)
    /\ rows[i].rev > 1 => rows[i].sup \in chain /\ rows[rows[i].sup].rev = rows[i].rev - 1

Effective(rows) == \A i \in DOMAIN rows : EffectiveAt(rows, i, Chain(rows, rows[i].seq))

LEMMA ChainFinite ==
    ASSUME NEW rows \in Seq(EventRows), NEW s
    PROVE  IsFiniteSet(Chain(rows, s)) /\ Cardinality(Chain(rows, s)) \in Nat
<1>1. DOMAIN rows = 1..Len(rows) /\ Len(rows) \in Int /\ 1 \in Int
  OBVIOUS
<1>2. IsFiniteSet(DOMAIN rows)
  BY <1>1, FS_Interval
<1>3. Chain(rows, s) \in SUBSET DOMAIN rows
  BY DEF Chain
<1> QED
  BY <1>2, <1>3, FS_Subset, FS_CardinalityType

\* Rows that keep all but which of them are in effect, and rows of another event behind them,
\* leave the revisions of an event as they are.
LEMMA OtherChains ==
    ASSUME NEW rows \in Seq(EventRows), NEW more \in Seq(EventRows), Effective(rows),
           NEW i \in DOMAIN rows, DOMAIN rows \subseteq DOMAIN more,
           \A j \in DOMAIN rows : rows[j].seq = rows[i].seq => more[j] = rows[j],
           \A j \in DOMAIN more : more[j].seq = rows[i].seq => j \in DOMAIN rows /\ rows[j].seq = rows[i].seq
    PROVE  EffectiveAt(more, i, Chain(more, more[i].seq))
<1> DEFINE chain == Chain(rows, rows[i].seq)
<1>1. more[i] = rows[i] /\ Chain(more, more[i].seq) = chain /\ \A j \in chain : more[j] = rows[j]
  BY DEF Chain
<1>2. EffectiveAt(rows, i, chain)
  BY DEF Effective
<1> HIDE DEF chain
<1>3. {j \in chain : more[j].active} = {j \in chain : rows[j].active}
  BY <1>1
<1>4. {more[j].rev : j \in chain} = {rows[j].rev : j \in chain}
  BY <1>1
<1> QED
  BY <1>1, <1>2, <1>3, <1>4 DEF EffectiveAt

\* The first revision of a new event.
LEMMA FirstRevision ==
    ASSUME NEW rows \in Seq(EventRows), NEW row \in EventRows, Effective(rows),
           row.rev = 1, row.active = TRUE, \A j \in DOMAIN rows : rows[j].seq # row.seq
    PROVE  Effective(Append(rows, row))
<1> DEFINE more == Append(rows, row)
           at == Len(rows) + 1
<1>1. /\ more \in Seq(EventRows) /\ DOMAIN more = DOMAIN rows \cup {at} /\ at \notin DOMAIN rows
      /\ more[at] = row /\ \A j \in DOMAIN rows : more[j] = rows[j]
  BY RowAppended
<1> HIDE DEF more, at
<1>2. EffectiveAt(more, at, Chain(more, more[at].seq))
  <2> DEFINE chain == Chain(more, more[at].seq)
  <2>1. chain = {at}
    BY <1>1 DEF Chain
  <2> HIDE DEF chain
  <2>2. {j \in chain : more[j].active} = {at} /\ {more[j].rev : j \in chain} = 1..1
    BY <1>1, <2>1
  <2>3. Cardinality({at}) = 1
    BY FS_Singleton
  <2>4. more[at].active = TRUE /\ more[at].rev = 1
    BY <1>1
  <2>5. Cardinality(chain) = 1 /\ ~(more[at].rev > 1)
    BY <2>1, <2>3, <2>4
  <2>6. /\ Cardinality({j \in chain : more[j].active}) = 1
        /\ {more[j].rev : j \in chain} = 1..Cardinality(chain)
    BY <2>2, <2>3, <2>5
  <2>7. EffectiveAt(more, at, chain)
    BY <2>4, <2>5, <2>6 DEF EffectiveAt
  <2> QED
    BY <2>7 DEF chain
<1>3. ASSUME NEW i \in DOMAIN rows
      PROVE  EffectiveAt(more, i, Chain(more, more[i].seq))
  <2>1. /\ \A j \in DOMAIN rows : rows[j].seq = rows[i].seq => more[j] = rows[j]
        /\ \A j \in DOMAIN more : more[j].seq = rows[i].seq =>
               j \in DOMAIN rows /\ rows[j].seq = rows[i].seq
        /\ DOMAIN rows \subseteq DOMAIN more
    BY <1>1
  <2> QED
    BY <1>1, <2>1, OtherChains
<1> QED
  BY <1>1, <1>2, <1>3 DEF Effective, more

\* The next revision of an event, whose last one loses its effect.
LEMMA NextRevision ==
    ASSUME NEW rows \in Seq(EventRows), NEW row \in EventRows, Effective(rows),
           NEW base \in DOMAIN rows, rows[base].active,
           row.seq = rows[base].seq, row.rev = rows[base].rev + 1, row.sup = base, row.active = TRUE
    PROVE  Effective(Append(Superseded(rows, base), row))
<1> DEFINE old == Superseded(rows, base)
           more == Append(old, row)
           at == Len(rows) + 1
           chain == Chain(rows, rows[base].seq)
<1>1. /\ old \in Seq(EventRows) /\ Len(old) = Len(rows) /\ DOMAIN old = DOMAIN rows
      /\ \A j \in DOMAIN rows \ {base} : old[j] = rows[j]
      /\ old[base].active = FALSE /\ old[base].seq = rows[base].seq
      /\ old[base].rev = rows[base].rev /\ old[base].sup = rows[base].sup
  BY RowSuperseded, ZenonT(60)
<1> HIDE DEF old
<1>2. /\ more \in Seq(EventRows) /\ DOMAIN more = DOMAIN rows \cup {at} /\ at \notin DOMAIN rows
      /\ more[at] = row /\ \A j \in DOMAIN rows : more[j] = old[j]
  BY <1>1, RowAppended
<1> HIDE DEF more, at
<1>3. \A j \in DOMAIN rows : /\ more[j].seq = rows[j].seq /\ more[j].rev = rows[j].rev
                             /\ more[j].sup = rows[j].sup
                             /\ j # base => more[j] = rows[j]
  BY <1>1, <1>2
<1>4. rows[base].seq = row.seq /\ base \in chain /\ EffectiveAt(rows, base, chain)
  BY DEF Chain, Effective
<1>5. \A i \in chain : EffectiveAt(rows, i, chain) /\ i \in DOMAIN rows /\ rows[i].seq = row.seq
  BY <1>4 DEF Chain, Effective
<1>6. IsFiniteSet(chain) /\ Cardinality(chain) \in Nat
  BY ChainFinite
<1> DEFINE all == Chain(more, row.seq)
<1>7. all = chain \cup {at}
  BY <1>2, <1>3, <1>4 DEF Chain
<1> HIDE DEF chain, all
<1>8. at \notin chain /\ Cardinality(all) = Cardinality(chain) + 1
  BY <1>2, <1>5, <1>6, <1>7, FS_AddElement
<1>9. rows[base].rev = Cardinality(chain)
  BY <1>4 DEF EffectiveAt
<1>10. \A j \in chain : rows[j].active => j = base
  <2>1. /\ {j \in chain : rows[j].active} \in SUBSET chain
        /\ Cardinality({j \in chain : rows[j].active}) = 1
    BY <1>4 DEF EffectiveAt
  <2>2. PICK x : {j \in chain : rows[j].active} = {x}
    BY <1>6, <2>1, FS_Subset, FS_Singleton
  <2> QED
    BY <1>4, <2>2
<1>11. {j \in all : more[j].active} = {at}
  <2>1. more[at].active = TRUE /\ more[base].active = FALSE
    BY <1>1, <1>2
  <2>2. \A j \in chain \ {base} : ~more[j].active
    BY <1>3, <1>5, <1>10
  <2> QED
    BY <1>7, <2>1, <2>2
<1>12. {more[j].rev : j \in all} = 1..Cardinality(all)
  <2>1. {rows[j].rev : j \in chain} = 1..Cardinality(chain)
    BY <1>4 DEF EffectiveAt
  <2>2. {more[j].rev : j \in all} = {rows[j].rev : j \in chain} \cup {Cardinality(chain) + 1}
    BY <1>2, <1>3, <1>5, <1>7, <1>9
  <2>3. \A c \in Nat : 1..(c + 1) = (1..c) \cup {c + 1}
    OBVIOUS
  <2> QED
    BY <1>6, <1>8, <2>1, <2>2, <2>3
<1>13. \A j \in chain : more[j].rev \in 1..Cardinality(chain)
  BY <1>3, <1>4, <1>5 DEF EffectiveAt
<1>14. Cardinality({at}) = 1
  BY FS_Singleton
<1>15. ASSUME NEW i \in DOMAIN more, more[i].seq = row.seq
       PROVE  EffectiveAt(more, i, Chain(more, more[i].seq))
  <2>1. i \in all /\ Chain(more, more[i].seq) = all
    BY <1>15 DEF Chain, all
  <2>2. CASE i = at
    <3>1. more[i].active = TRUE /\ more[i].rev = Cardinality(all) /\ more[i].sup = base
      BY <1>2, <1>8, <1>9, <2>2
    <3>2. more[i].sup \in all /\ more[more[i].sup].rev = more[i].rev - 1
      BY <1>2, <1>3, <1>4, <1>5, <1>6, <1>7, <1>8, <1>9, <3>1
    <3> QED
      BY <1>11, <1>12, <1>14, <2>1, <3>1, <3>2 DEF EffectiveAt
  <2>3. CASE i \in chain
    <3>1. ~more[i].active
      BY <1>2, <1>5, <1>7, <1>11, <2>1, <2>3
    <3>2. more[i].rev # Cardinality(all)
      BY <1>6, <1>8, <1>13, <2>3
    <3>3. more[i].rev > 1 => more[i].sup \in all /\ more[more[i].sup].rev = more[i].rev - 1
      <4>1. /\ i \in DOMAIN rows
            /\ rows[i].rev > 1 => rows[i].sup \in chain /\ rows[rows[i].sup].rev = rows[i].rev - 1
        BY <1>5, <2>3 DEF EffectiveAt
      <4>2. more[i].rev = rows[i].rev /\ more[i].sup = rows[i].sup
        BY <1>3, <4>1
      <4>3. \A j \in chain : j \in all /\ more[j].rev = rows[j].rev
        BY <1>3, <1>5, <1>7
      <4> QED
        BY <4>1, <4>2, <4>3
    <3> QED
      BY <1>11, <1>12, <1>14, <2>1, <3>1, <3>2, <3>3 DEF EffectiveAt
  <2> QED
    BY <1>7, <2>1, <2>2, <2>3
<1>16. ASSUME NEW i \in DOMAIN more, more[i].seq # row.seq
       PROVE  EffectiveAt(more, i, Chain(more, more[i].seq))
  <2>1. i \in DOMAIN rows /\ more[i].seq = rows[i].seq
    BY <1>2, <1>3, <1>16
  <2>2. /\ \A j \in DOMAIN rows : rows[j].seq = rows[i].seq => more[j] = rows[j]
        /\ \A j \in DOMAIN more : more[j].seq = rows[i].seq =>
               j \in DOMAIN rows /\ rows[j].seq = rows[i].seq
        /\ DOMAIN rows \subseteq DOMAIN more
    BY <1>2, <1>3, <1>4, <1>16, <2>1
  <2> QED
    BY <1>2, <2>1, <2>2, OtherChains
<1> QED
  BY <1>15, <1>16 DEF Effective, more, old

-----------------------------------------------------------------------------
(* What is true of the recorded rows, whatever the requests *)

\* The sequence numbers of an item have no gaps, so the next one is new.
Numbered(rows) == \E k \in Nat : {rows[i].seq : i \in DOMAIN rows} = 1..k

OwnRequests(rows) == \A i, j \in DOMAIN rows : rows[i].req = rows[j].req => i = j

RowsFine(rows) ==
    /\ rows \in Seq(EventRows)
    /\ Numbered(rows)
    /\ Effective(rows)
    /\ OwnRequests(rows)

\* The rows that a commit leaves behind: the earlier ones keep what identifies them.
Keeps(rows, more) ==
    /\ DOMAIN rows \subseteq DOMAIN more
    /\ \A i \in DOMAIN rows : more[i].rev = rows[i].rev

LEMMA NothingRecorded == RowsFine(<<>>)
<1>1. {<<>>[i].seq : i \in DOMAIN <<>>} = 1..0 /\ 0 \in Nat
  OBVIOUS
<1>2. Numbered(<<>>)
  BY <1>1 DEF Numbered
<1>3. DOMAIN <<>> = {} /\ <<>> \in Seq(EventRows)
  OBVIOUS
<1> QED
  BY <1>2, <1>3 DEF RowsFine, Effective, OwnRequests

LEMMA SequenceIsNew ==
    ASSUME NEW k \in Nat, {events[i].seq : i \in DOMAIN events} = 1..k
    PROVE  NextSequence = k + 1 /\ \A i \in DOMAIN events : events[i].seq # NextSequence
<1> DEFINE S == {0} \cup {events[i].seq : i \in DOMAIN events}
<1>1. S = 0..k
  OBVIOUS
<1> HIDE DEF S
<1>2. \A x \in S : (\A y \in S : x >= y) <=> x = k
  BY <1>1
<1>3. \E x \in S : \A y \in S : x >= y
  BY <1>1
<1>4. Max(S) = k
  BY <1>2, <1>3 DEF Max
<1>5. NextSequence = k + 1
  BY <1>4 DEF NextSequence, S
<1>6. \A i \in DOMAIN events : events[i].seq \in 1..k
  OBVIOUS
<1> QED
  BY <1>5, <1>6

\* submit: a row with the next sequence number.
LEMMA EventRecorded ==
    ASSUME RowsFine(events), NEW req \in Requests, NEW kind \in EventKinds, NEW qty \in 0..MaxTarget,
           EventOf(req) = {},
           NEW row, row = [req |-> req, kind |-> kind, qty |-> qty, seq |-> NextSequence,
                           rev |-> 1, sup |-> 0, active |-> TRUE]
    PROVE  RowsFine(Append(events, row)) /\ Keeps(events, Append(events, row))
<1> DEFINE more == Append(events, row)
           at == Len(events) + 1
<1>1. events \in Seq(EventRows) /\ Effective(events) /\ OwnRequests(events)
  BY DEF RowsFine
<1>2. PICK k \in Nat : {events[i].seq : i \in DOMAIN events} = 1..k
  BY DEF RowsFine, Numbered
<1>3. NextSequence = k + 1 /\ \A i \in DOMAIN events : events[i].seq # NextSequence
  BY <1>2, SequenceIsNew
<1>4. /\ row \in EventRows /\ row.seq = NextSequence /\ row.rev = 1 /\ row.active = TRUE
      /\ row.req = req
  BY <1>3 DEF EventRows
<1>5. /\ more \in Seq(EventRows) /\ DOMAIN more = DOMAIN events \cup {at} /\ at \notin DOMAIN events
      /\ more[at] = row /\ \A j \in DOMAIN events : more[j] = events[j]
  BY <1>1, <1>4, RowAppended
<1>6. Effective(more)
  BY <1>1, <1>3, <1>4, FirstRevision
<1> HIDE DEF more, at
<1>7. {more[i].seq : i \in DOMAIN more} = {events[i].seq : i \in DOMAIN events} \cup {k + 1}
  BY <1>3, <1>4, <1>5
<1>8. 1..(k + 1) = (1..k) \cup {k + 1} /\ k + 1 \in Nat
  OBVIOUS
<1>9. Numbered(more)
  BY <1>2, <1>7, <1>8 DEF Numbered
<1>10. \A i \in DOMAIN events : events[i].req # req
  BY DEF EventOf
<1>11. OwnRequests(more)
  BY <1>1, <1>4, <1>5, <1>10 DEF OwnRequests
<1>12. Keeps(events, more)
  BY <1>5 DEF Keeps
<1> QED
  BY <1>5, <1>6, <1>9, <1>11, <1>12 DEF RowsFine, more

\* revise: the original superseded, and its successor behind it.
LEMMA RevisionRecorded ==
    ASSUME RowsFine(events), NEW w, w.base \in DOMAIN events, w.req \in Requests,
           w.qty \in 0..MaxTarget, w.rev = events[w.base].rev + 1,
           EventOf(w.req) = {}, events[w.base].active
    PROVE  RowsFine(Revised(w)) /\ Keeps(events, Revised(w))
<1> DEFINE old == Superseded(events, w.base)
           row == [events[w.base] EXCEPT !.req = w.req, !.qty = w.qty, !.rev = w.rev,
                                         !.sup = w.base, !.active = TRUE]
           more == Append(old, row)
           at == Len(events) + 1
<1>1. /\ events \in Seq(EventRows) /\ Effective(events) /\ OwnRequests(events)
      /\ events[w.base] \in EventRows /\ w.base \in Nat
  BY DEF RowsFine
<1>2. PICK k \in Nat : {events[i].seq : i \in DOMAIN events} = 1..k
  BY DEF RowsFine, Numbered
<1>3. /\ row \in EventRows /\ row.seq = events[w.base].seq /\ row.rev = events[w.base].rev + 1
      /\ row.sup = w.base /\ row.active = TRUE /\ row.req = w.req
  <2>1. PICK e : e \in EventRows /\ e = events[w.base]
    BY <1>1
  <2>2. PICK req, qty, rev, base : req = w.req /\ qty = w.qty /\ rev = w.rev /\ base = w.base
    OBVIOUS
  <2>3. row = [e EXCEPT !.req = req, !.qty = qty, !.rev = rev, !.sup = base, !.active = TRUE]
    BY <2>1, <2>2
  <2> HIDE DEF row
  <2>4. row = [req |-> req, kind |-> e.kind, qty |-> qty, seq |-> e.seq, rev |-> rev,
               sup |-> base, active |-> TRUE]
    BY <2>1, <2>3 DEF EventRows
  <2>5. rev = e.rev + 1 /\ e.rev \in Nat
    BY <2>1, <2>2 DEF EventRows
  <2>6. e.kind \in EventKinds /\ e.seq \in Nat
    BY <2>1 DEF EventRows
  <2>7. req \in Requests /\ qty \in 0..MaxTarget /\ base \in Nat
    BY <1>1, <2>2
  <2>8. rev \in Nat \ {0}
    BY <2>5
  <2>9. row \in EventRows
    BY <2>4, <2>6, <2>7, <2>8 DEF EventRows
  <2> QED
    BY <2>1, <2>2, <2>4, <2>9
<1> HIDE DEF row
<1>4. Effective(more)
  BY <1>1, <1>3, NextRevision
<1>5. /\ old \in Seq(EventRows) /\ Len(old) = Len(events) /\ DOMAIN old = DOMAIN events
      /\ \A j \in DOMAIN events \ {w.base} : old[j] = events[j]
      /\ old[w.base].req = events[w.base].req /\ old[w.base].seq = events[w.base].seq
      /\ old[w.base].rev = events[w.base].rev
  BY <1>1, RowSuperseded
<1> HIDE DEF old
<1>6. /\ more \in Seq(EventRows) /\ DOMAIN more = DOMAIN events \cup {at} /\ at \notin DOMAIN events
      /\ more[at] = row /\ \A j \in DOMAIN events : more[j] = old[j]
  BY <1>3, <1>5, RowAppended
<1> HIDE DEF more, at
<1>7. \A j \in DOMAIN events : /\ more[j].req = events[j].req /\ more[j].seq = events[j].seq
                               /\ more[j].rev = events[j].rev
  BY <1>5, <1>6
<1>8. {more[i].seq : i \in DOMAIN more} = {events[i].seq : i \in DOMAIN events}
  BY <1>3, <1>6, <1>7
<1>9. Numbered(more)
  BY <1>2, <1>8 DEF Numbered
<1>10. \A i \in DOMAIN events : events[i].req # w.req
  BY DEF EventOf
<1>11. OwnRequests(more)
  BY <1>1, <1>3, <1>6, <1>7, <1>10 DEF OwnRequests
<1>12. Keeps(events, more)
  BY <1>6, <1>7 DEF Keeps
<1>13. Revised(w) = more
  BY DEF Revised, more, old, row
<1> QED
  BY <1>4, <1>6, <1>9, <1>11, <1>12, <1>13 DEF RowsFine

-----------------------------------------------------------------------------
(* The inductive invariant *)

Statuses == {"NEW", "IN_PROCESS", "WAITING_QC", "REWORK", "QC_CHECKED", "SHORTAGE", "QC_NG",
             "PACKING", "PACKED", "PARTIALLY_DELIVERED", "DELIVERED"}
Items == [status : Statuses, rest : Nat]
ReportRows == [req : Requests, kind : ReportKinds, rev : Nat, sup : Nat]
Tasks == [step : {"idle", "revise", "reportItem", "reportExisting", "reportWrite", "save"},
          req : Requests \cup {NoRequest}, kind : ReportKinds \cup {"none"}, base : Nat, rev : Nat,
          qty : 0..MaxTarget, read : Items]

Typed ==
    /\ item \in Items
    /\ target \in Nat /\ lowered \in BOOLEAN
    /\ reports \in Seq(ReportRows)
    /\ work \in [Threads -> Tasks]
    /\ saves \in Nat

\* A correction under way was computed from a recorded row; a report knows its request.
UnderWay(w, rows) ==
    /\ w.step = "revise" => /\ w.req \in Requests
                            /\ w.base \in DOMAIN rows
                            /\ w.rev = rows[w.base].rev + 1
    /\ w.step \in {"reportItem", "reportExisting", "reportWrite"} =>
           w.req \in Requests /\ w.kind \in ReportKinds

\* The row an answer names is the requested one.
Answers(a, rows) ==
    a.row # 0 => /\ a.row \in DOMAIN rows
                 /\ rows[a.row].req = a.req
                 /\ rows[a.row].kind = a.kind
                 /\ rows[a.row].qty = a.qty

\* The limits of the last accepted event hold, but for a quantity lowered since.
Fits(rows, quantity, low) ==
    /\ Total(rows, "DELIVERED") <= Total(rows, "PACKED")
    /\ low \/ Balanced(rows, quantity)

WorkflowInvariant ==
    /\ Typed
    /\ RowsFine(events)
    /\ Fits(events, target, lowered)
    /\ OwnRequests(reports)
    /\ \A t \in Threads : UnderWay(work[t], events)
    /\ Answers(answer, events)

LEMMA IdleFacts ==
    ASSUME NEW rows
    PROVE  Idle \in Tasks /\ UnderWay(Idle, rows) /\ Answers(NoAnswer, rows)
<1>1. NewItem \in Items
  BY DEF NewItem, Items, Statuses
<1>2. Idle \in Tasks
  BY <1>1, WorkflowAssumption DEF Idle, Tasks
<1> QED
  BY <1>2 DEF UnderWay, Idle, Answers, NoAnswer

LEMMA WorkflowInit == Init => WorkflowInvariant
<1> SUFFICES ASSUME Init
             PROVE  WorkflowInvariant
  OBVIOUS
<1>1. NewItem \in Items
  BY DEF NewItem, Items, Statuses
<1>2. Idle \in Tasks /\ UnderWay(Idle, events) /\ Answers(NoAnswer, events)
  BY IdleFacts
<1>9. target \in Nat
  BY WorkflowAssumption DEF Init
<1>10. lowered \in BOOLEAN
  BY Zenon DEF Init
<1>3. Typed
  BY <1>1, <1>2, <1>9, <1>10 DEF Typed, Init
<1>4. RowsFine(events)
  BY NothingRecorded DEF Init
<1>5. Fits(events, target, lowered)
  BY NothingReported, WorkflowAssumption DEF Init, Fits, Balanced, Available
<1>6. OwnRequests(reports)
  BY DEF Init, OwnRequests
<1>7. \A t \in Threads : UnderWay(work[t], events)
  BY <1>2 DEF Init
<1>8. Answers(answer, events)
  BY <1>2 DEF Init
<1> QED
  BY <1>3, <1>4, <1>5, <1>6, <1>7, <1>8 DEF WorkflowInvariant

\* A step of one thread that records no event and answers no event request.
LEMMA ThreadStep ==
    ASSUME WorkflowInvariant, NEW t \in Threads, NEW w \in Tasks, UnderWay(w, events),
           work' = [work EXCEPT ![t] = w], answer' = NoAnswer, UNCHANGED <<events, order>>,
           item' \in Items, reports' \in Seq(ReportRows), OwnRequests(reports'), saves' \in Nat
    PROVE  WorkflowInvariant'
<1>1. PICK rows : rows = events
  OBVIOUS
<1>2. /\ RowsFine(rows) /\ Fits(rows, target, lowered) /\ work \in [Threads -> Tasks]
      /\ \A s \in Threads : UnderWay(work[s], rows)
      /\ target \in Nat /\ lowered \in BOOLEAN /\ target' = target /\ lowered' = lowered
  BY <1>1 DEF WorkflowInvariant, Typed, order
<1>3. Typed'
  BY <1>2 DEF Typed
<1>8. Fits(rows, target', lowered')
  BY <1>2
<1>4. \A s \in Threads : work'[s] = IF s = t THEN w ELSE work[s]
  BY <1>2
<1>5. \A s \in Threads : UnderWay(work'[s], rows)
  BY <1>1, <1>2, <1>4
<1>6. Answers(NoAnswer, rows)
  BY IdleFacts
<1>7. events' = rows
  BY <1>1
<1> QED
  BY <1>2, <1>3, <1>5, <1>6, <1>7, <1>8 DEF WorkflowInvariant

\* A step that leaves other events behind, or answers an event request.
LEMMA EventStep ==
    ASSUME WorkflowInvariant, NEW rows, events' = rows,
           RowsFine(rows), Fits(rows, target', lowered'), Keeps(events, rows),
           Answers(answer', rows), target' \in Nat, lowered' \in BOOLEAN, item' \in Items, UNCHANGED <<reports, saves>>,
           \/ UNCHANGED work
           \/ \E t \in Threads : work' = [work EXCEPT ![t] = Idle]
    PROVE  WorkflowInvariant'
<1>1. Idle \in Tasks /\ UnderWay(Idle, rows)
  BY IdleFacts
<1>2. work \in [Threads -> Tasks] /\ \A s \in Threads : UnderWay(work[s], events)
  BY DEF WorkflowInvariant, Typed
<1>3. /\ work' \in [Threads -> Tasks]
      /\ \A s \in Threads : work'[s] \in {work[s], Idle}
  BY <1>1, <1>2
<1>4. \A s \in Threads : UnderWay(work[s], rows)
  BY <1>2 DEF UnderWay, Keeps
<1>5. \A s \in Threads : UnderWay(work'[s], rows)
  <2> TAKE s \in Threads
  <2>1. CASE work'[s] = work[s]
    BY <1>4, <2>1
  <2>2. CASE work'[s] = Idle
    BY <1>1, <2>2
  <2> QED
    BY <1>3, <2>1, <2>2
<1>6. Typed'
  BY <1>3 DEF Typed, WorkflowInvariant
<1>7. OwnRequests(reports')
  <2>1. PICK r : r = reports
    OBVIOUS
  <2> QED
    BY <2>1 DEF WorkflowInvariant
<1> QED
  BY <1>5, <1>6, <1>7 DEF WorkflowInvariant

LEMMA ProjectedStatus ==
    ASSUME NEW rows, item \in Items
    PROVE  [item EXCEPT !.status = Project(rows, item.status, target)] \in Items
<1>1. PICK current \in Statuses : current = item.status
  BY DEF Items
<1>2. Project(rows, current, target) \in Statuses
  BY DEF Project, Statuses
<1> QED
  BY <1>1, <1>2 DEF Items

LEMMA KeepsThemselves ==
    ASSUME NEW rows
    PROVE  Keeps(rows, rows)
BY DEF Keeps

LEMMA SubmitEventKeeps ==
    ASSUME WorkflowInvariant, NEW req \in Requests, NEW kind \in EventKinds, NEW qty \in 0..MaxTarget,
           SubmitEvent(req, kind, qty)
    PROVE  WorkflowInvariant'
<1>1. PICK rows : rows = events
  OBVIOUS
<1>2. /\ item \in Items /\ RowsFine(rows) /\ Fits(rows, target, lowered) /\ rows \in Seq(EventRows)
      /\ target \in Nat /\ lowered \in BOOLEAN
  BY <1>1 DEF WorkflowInvariant, Typed, RowsFine
<1>3. UNCHANGED <<reports, saves, work>>
  BY DEF SubmitEvent
<1>4. CASE /\ EventOf(req) = {}
           /\ Commit(Append(events, [req |-> req, kind |-> kind, qty |-> qty,
                                    seq |-> NextSequence, rev |-> 1, sup |-> 0,
                                    active |-> TRUE]),
                     req, kind, qty)
  <2>1. PICK row : row = [req |-> req, kind |-> kind, qty |-> qty, seq |-> NextSequence,
                          rev |-> 1, sup |-> 0, active |-> TRUE]
    OBVIOUS
  <2>2. PICK more : more = Append(rows, row)
    OBVIOUS
  <2>3. RowsFine(more) /\ Keeps(events, more)
    BY <1>1, <1>2, <1>4, <2>1, <2>2, EventRecorded
  <2>4. /\ Balanced(more, target) /\ events' = more /\ target' = target /\ lowered' = FALSE
        /\ item' = [item EXCEPT !.status = Project(more, item.status, target)]
        /\ answer' = [req |-> req, kind |-> kind, qty |-> qty, row |-> Len(more)]
    BY <1>1, <1>4, <2>1, <2>2 DEF Commit
  <2>5. Len(more) \in DOMAIN more /\ more[Len(more)] = row
    BY <1>2, <2>2
  <2>6. Answers(answer', more)
    BY <2>1, <2>4, <2>5 DEF Answers
  <2>7. item' \in Items
    BY <1>2, <2>4, ProjectedStatus
  <2>8. Fits(more, target', lowered') /\ target' \in Nat /\ lowered' \in BOOLEAN
    BY <1>2, <2>4 DEF Fits, Balanced
  <2> QED
    BY <1>3, <2>3, <2>4, <2>6, <2>7, <2>8, EventStep
<1>5. CASE \E i \in EventOf(req) : SameRequest(events[i], kind, qty, 0) /\ Repeat(req, kind, qty, i)
  <2>1. PICK i \in EventOf(req) : SameRequest(events[i], kind, qty, 0) /\ Repeat(req, kind, qty, i)
    BY <1>5
  <2>2. /\ answer' = [req |-> req, kind |-> kind, qty |-> qty, row |-> i]
        /\ item' \in Items /\ events' = rows /\ target' = target /\ lowered' = lowered
    BY <1>1, <1>2, <2>1 DEF Repeat, order
  <2>3. /\ i \in DOMAIN rows /\ rows[i].req = req
        /\ rows[i].kind = kind /\ rows[i].qty = qty
    BY <1>1, <2>1 DEF EventOf, SameRequest
  <2>4. Answers(answer', rows)
    BY <2>2, <2>3 DEF Answers
  <2>5. Keeps(events, rows)
    BY <1>1, KeepsThemselves
  <2> QED
    BY <1>2, <1>3, <2>2, <2>4, <2>5, EventStep
<1> QED
  BY <1>4, <1>5 DEF SubmitEvent

LEMMA ReviseEventKeeps ==
    ASSUME WorkflowInvariant, NEW t \in Threads, ReviseEvent(t)
    PROVE  WorkflowInvariant'
<1>1. PICK rows : rows = events
  OBVIOUS
<1>2. /\ item \in Items /\ RowsFine(rows) /\ Fits(rows, target, lowered) /\ rows \in Seq(EventRows)
      /\ target \in Nat /\ lowered \in BOOLEAN
      /\ work[t] \in Tasks /\ UnderWay(work[t], rows)
  BY <1>1 DEF WorkflowInvariant, Typed, RowsFine
<1>3. PICK w \in Tasks : w = work[t]
  BY <1>2
<1>4. UNCHANGED <<reports, saves>> /\ \E s \in Threads : work' = [work EXCEPT ![s] = Idle]
  BY DEF ReviseEvent, Finish
<1>5. /\ w.req \in Requests /\ w.base \in DOMAIN rows /\ w.rev = rows[w.base].rev + 1
      /\ w.qty \in 0..MaxTarget
  BY <1>2, <1>3 DEF ReviseEvent, UnderWay, Tasks
<1>6. CASE /\ EventOf(w.req) = {}
           /\ events[w.base].active
           /\ Commit(Revised(w), w.req, events[w.base].kind, w.qty)
  <2>1. RowsFine(Revised(w)) /\ Keeps(events, Revised(w))
    BY <1>1, <1>2, <1>5, <1>6, RevisionRecorded
  <2>2. PICK more : more = Revised(w)
    OBVIOUS
  <2>3. /\ Balanced(more, target) /\ events' = more /\ RowsFine(more) /\ Keeps(events, more)
        /\ target' = target /\ lowered' = FALSE
        /\ item' = [item EXCEPT !.status = Project(more, item.status, target)]
        /\ answer' = [req |-> w.req, kind |-> rows[w.base].kind, qty |-> w.qty, row |-> Len(more)]
    BY <1>1, <1>6, <2>1, <2>2 DEF Commit
  <2>4. /\ Len(more) \in DOMAIN more /\ more[Len(more)].req = w.req
        /\ more[Len(more)].kind = rows[w.base].kind /\ more[Len(more)].qty = w.qty
    <3>1. PICK old : old = Superseded(rows, w.base)
      OBVIOUS
    <3>2. PICK row : row = [rows[w.base] EXCEPT !.req = w.req, !.qty = w.qty, !.rev = w.rev,
                                                !.sup = w.base, !.active = TRUE]
      OBVIOUS
    <3>3. more = Append(old, row)
      BY <1>1, <2>2, <3>1, <3>2 DEF Revised
    <3>4. old \in Seq(EventRows)
      BY <1>2, <1>5, <3>1, RowSuperseded
    <3>5. Len(more) \in DOMAIN more /\ more[Len(more)] = row
      BY <3>3, <3>4
    <3>6. rows[w.base] \in EventRows
      BY <1>2, <1>5
    <3>7. row.req = w.req /\ row.kind = rows[w.base].kind /\ row.qty = w.qty
      BY <3>2, <3>6 DEF EventRows
    <3> QED
      BY <3>5, <3>7
  <2>5. Answers(answer', more)
    BY <2>3, <2>4 DEF Answers
  <2>6. item' \in Items
    BY <1>2, <2>3, ProjectedStatus
  <2>7. Fits(more, target', lowered') /\ target' \in Nat /\ lowered' \in BOOLEAN
    BY <1>2, <2>3 DEF Fits, Balanced
  <2> QED
    BY <1>4, <2>3, <2>5, <2>6, <2>7, EventStep
<1>7. CASE \E i \in EventOf(w.req) : /\ SameRequest(events[i], events[w.base].kind, w.qty, w.base)
                                     /\ Repeat(w.req, events[w.base].kind, w.qty, i)
  <2>1. PICK i \in EventOf(w.req) : /\ SameRequest(events[i], events[w.base].kind, w.qty, w.base)
                                    /\ Repeat(w.req, events[w.base].kind, w.qty, i)
    BY <1>7
  <2>2. /\ answer' = [req |-> w.req, kind |-> rows[w.base].kind, qty |-> w.qty, row |-> i]
        /\ item' \in Items /\ events' = rows /\ target' = target /\ lowered' = lowered
    BY <1>1, <1>2, <2>1 DEF Repeat, order
  <2>3. /\ i \in DOMAIN rows /\ rows[i].req = w.req
        /\ rows[i].kind = rows[w.base].kind /\ rows[i].qty = w.qty
    BY <1>1, <2>1 DEF EventOf, SameRequest
  <2>4. Answers(answer', rows)
    BY <2>2, <2>3 DEF Answers
  <2>5. Keeps(events, rows)
    BY <1>1, KeepsThemselves
  <2> QED
    BY <1>2, <1>4, <2>2, <2>4, <2>5, EventStep
<1> QED
  BY <1>3, <1>6, <1>7 DEF ReviseEvent

\* What ThreadStep needs of a step that changes no table.
LEMMA ReadingStep ==
    ASSUME WorkflowInvariant, NEW t \in Threads, NEW w \in Tasks, UnderWay(w, events),
           work' = [work EXCEPT ![t] = w], answer' = NoAnswer,
           UNCHANGED <<item, order, events, reports>>, saves' \in Nat
    PROVE  WorkflowInvariant'
<1>1. PICK r : r = reports
  OBVIOUS
<1>2. item' \in Items /\ r \in Seq(ReportRows) /\ OwnRequests(r) /\ reports' = r
  BY <1>1 DEF WorkflowInvariant, Typed
<1> QED
  BY <1>2, ThreadStep

LEMMA StartRevisionKeeps ==
    ASSUME WorkflowInvariant, NEW t \in Pool, NEW req \in Requests, NEW i, NEW qty \in 0..MaxTarget,
           StartRevision(t, req, i, qty)
    PROVE  WorkflowInvariant'
<1>1. PICK rows : rows = events
  OBVIOUS
<1>2. rows \in Seq(EventRows) /\ i \in DOMAIN rows /\ saves \in Nat
  BY <1>1 DEF WorkflowInvariant, RowsFine, Typed, StartRevision
<1>3. rows[i] \in EventRows /\ i \in Nat
  BY <1>2
<1>4. PICK rev \in Nat : rev = rows[i].rev + 1
  BY <1>3 DEF EventRows
<1>5. PICK w : w = [Idle EXCEPT !.step = "revise", !.req = req, !.base = i, !.rev = rev, !.qty = qty]
  OBVIOUS
<1>6. Idle \in Tasks
  BY IdleFacts
<1>7. w \in Tasks /\ w.step = "revise" /\ w.req = req /\ w.base = i /\ w.rev = rev
  BY <1>3, <1>5, <1>6 DEF Tasks
<1>8. UnderWay(w, events)
  BY <1>1, <1>2, <1>4, <1>7 DEF UnderWay
<1>9. /\ work' = [work EXCEPT ![t] = w] /\ answer' = NoAnswer
      /\ UNCHANGED <<item, order, events, reports>> /\ saves' \in Nat
  BY <1>1, <1>2, <1>4, <1>5 DEF StartRevision
<1> QED
  BY <1>7, <1>8, <1>9, ReadingStep DEF Threads

LEMMA StartReportKeeps ==
    ASSUME WorkflowInvariant, NEW req \in Requests, NEW kind \in ReportKinds, StartReport(req, kind)
    PROVE  WorkflowInvariant'
<1>1. PICK w : w = [Idle EXCEPT !.step = "reportItem", !.req = req, !.kind = kind, !.rev = 1]
  OBVIOUS
<1>2. Idle \in Tasks
  BY IdleFacts
<1>3. w \in Tasks /\ w.step = "reportItem" /\ w.req = req /\ w.kind = kind
  BY <1>1, <1>2 DEF Tasks
<1>4. UnderWay(w, events)
  BY <1>3 DEF UnderWay
<1>5. /\ work' = [work EXCEPT ![Async] = w] /\ answer' = NoAnswer
      /\ UNCHANGED <<item, order, events, reports>> /\ saves' \in Nat
  BY <1>1 DEF StartReport, WorkflowInvariant, Typed
<1> QED
  BY <1>3, <1>4, <1>5, ReadingStep DEF Threads

LEMMA StartReportRevisionKeeps ==
    ASSUME WorkflowInvariant, NEW t \in Pool, NEW req \in Requests, NEW i,
           StartReportRevision(t, req, i)
    PROVE  WorkflowInvariant'
<1>1. i \in DOMAIN reports /\ reports \in Seq(ReportRows) /\ saves \in Nat
  BY DEF StartReportRevision, WorkflowInvariant, Typed
<1>2. reports[i] \in ReportRows /\ i \in Nat
  BY <1>1
<1>3. PICK kind \in ReportKinds, rev \in Nat : kind = reports[i].kind /\ rev = reports[i].rev + 1
  BY <1>2 DEF ReportRows
<1>4. PICK w : w = [Idle EXCEPT !.step = "reportItem", !.req = req, !.kind = kind, !.base = i,
                                !.rev = rev]
  OBVIOUS
<1>5. Idle \in Tasks
  BY IdleFacts
<1>6. w \in Tasks /\ w.step = "reportItem" /\ w.req = req /\ w.kind = kind
  BY <1>2, <1>4, <1>5 DEF Tasks
<1>7. UnderWay(w, events)
  BY <1>6 DEF UnderWay
<1>8. /\ work' = [work EXCEPT ![t] = w] /\ answer' = NoAnswer
      /\ UNCHANGED <<item, order, events, reports>> /\ saves' \in Nat
  BY <1>1, <1>3, <1>4 DEF StartReportRevision
<1> QED
  BY <1>6, <1>7, <1>8, ReadingStep DEF Threads

LEMMA StartSaveKeeps ==
    ASSUME WorkflowInvariant, NEW t \in Pool, StartSave(t)
    PROVE  WorkflowInvariant'
<1>1. item \in Items /\ saves \in Nat
  BY DEF WorkflowInvariant, Typed
<1>2. PICK copy \in Items : copy = [item EXCEPT !.rest = saves']
  <2>1. PICK n \in Nat : n = saves'
    BY <1>1 DEF StartSave
  <2>2. [item EXCEPT !.rest = n] \in Items
    BY <1>1 DEF Items
  <2> QED
    BY <2>1, <2>2
<1>3. PICK w : w = [Idle EXCEPT !.step = "save", !.read = copy]
  OBVIOUS
<1>4. Idle \in Tasks
  BY IdleFacts
<1>5. w \in Tasks /\ w.step = "save"
  BY <1>3, <1>4 DEF Tasks
<1>6. UnderWay(w, events)
  BY <1>5 DEF UnderWay
<1>7. /\ work' = [work EXCEPT ![t] = w] /\ answer' = NoAnswer
      /\ UNCHANGED <<item, order, events, reports>> /\ saves' \in Nat
  BY <1>1, <1>2, <1>3 DEF StartSave
<1> QED
  BY <1>5, <1>6, <1>7, ReadingStep DEF Threads

\* A refused correction, and a report whose request is known already, just end.
LEMMA FinishKeeps ==
    ASSUME WorkflowInvariant, NEW t \in Threads, Finish(t), answer' = NoAnswer,
           UNCHANGED <<item, order, events, reports, saves>>
    PROVE  WorkflowInvariant'
<1>1. Idle \in Tasks /\ UnderWay(Idle, events)
  BY IdleFacts
<1>2. work' = [work EXCEPT ![t] = Idle] /\ saves' \in Nat
  BY DEF Finish, WorkflowInvariant, Typed
<1>3. PICK w \in Tasks : w = Idle
  BY <1>1
<1> QED
  BY <1>1, <1>2, <1>3, ReadingStep

LEMMA ReadItemKeeps ==
    ASSUME WorkflowInvariant, NEW t \in Threads, ReadItem(t)
    PROVE  WorkflowInvariant'
<1>1. /\ work[t] \in Tasks /\ UnderWay(work[t], events) /\ item \in Items /\ saves \in Nat
      /\ work[t].step = "reportItem"
  BY DEF WorkflowInvariant, Typed, ReadItem
<1>2. PICK v \in Tasks, copy \in Items : v = work[t] /\ copy = item
  BY <1>1
<1>3. PICK w : w = [v EXCEPT !.step = "reportExisting", !.read = copy]
  OBVIOUS
<1>4. w \in Tasks /\ w.step = "reportExisting" /\ w.req = v.req /\ w.kind = v.kind
  BY <1>3 DEF Tasks
<1>5. UnderWay(w, events)
  BY <1>1, <1>2, <1>4 DEF UnderWay
<1>6. work' = [work EXCEPT ![t] = w]
  BY <1>2, <1>3 DEF ReadItem, WorkflowInvariant, Typed
<1>7. answer' = NoAnswer /\ UNCHANGED <<item, order, events, reports>> /\ saves' \in Nat
  BY <1>1 DEF ReadItem
<1> QED
  BY <1>4, <1>5, <1>6, <1>7, ReadingStep

LEMMA FindReportKeeps ==
    ASSUME WorkflowInvariant, NEW t \in Threads, FindReport(t)
    PROVE  WorkflowInvariant'
<1>1. /\ work[t] \in Tasks /\ UnderWay(work[t], events) /\ saves \in Nat
      /\ work[t].step = "reportExisting"
  BY DEF WorkflowInvariant, Typed, FindReport
<1>2. answer' = NoAnswer /\ UNCHANGED <<item, order, events, reports, saves>>
  BY DEF FindReport
<1>3. CASE ReportOf(work[t].req) = {}
  <2>1. PICK v \in Tasks : v = work[t]
    BY <1>1
  <2>2. PICK w : w = [v EXCEPT !.step = "reportWrite"]
    OBVIOUS
  <2>3. w \in Tasks /\ w.step = "reportWrite" /\ w.req = v.req /\ w.kind = v.kind
    BY <2>2 DEF Tasks
  <2>4. UnderWay(w, events)
    BY <1>1, <2>1, <2>3 DEF UnderWay
  <2>5. work' = [work EXCEPT ![t] = w]
    BY <1>3, <2>1, <2>2 DEF FindReport, WorkflowInvariant, Typed
  <2> QED
    BY <1>1, <1>2, <2>3, <2>4, <2>5, ReadingStep
<1>4. CASE ReportOf(work[t].req) # {}
  <2>1. Finish(t)
    BY <1>4 DEF FindReport
  <2> QED
    BY <1>2, <2>1, FinishKeeps
<1> QED
  BY <1>3, <1>4

LEMMA WriteReportKeeps ==
    ASSUME WorkflowInvariant, NEW t \in Threads, WriteReport(t)
    PROVE  WorkflowInvariant'
<1>1. /\ work[t] \in Tasks /\ UnderWay(work[t], events) /\ saves \in Nat /\ item \in Items
      /\ work[t].step = "reportWrite"
  BY DEF WorkflowInvariant, Typed, WriteReport
<1>2. PICK old : old = reports
  OBVIOUS
<1>3. old \in Seq(ReportRows) /\ OwnRequests(old)
  BY <1>2 DEF WorkflowInvariant, Typed
<1>4. answer' = NoAnswer /\ UNCHANGED <<order, events, saves>> /\ Finish(t)
  BY DEF WriteReport
<1>5. PICK w \in Tasks : w = work[t]
  BY <1>1
<1>6. w.req \in Requests /\ w.kind \in ReportKinds
  BY <1>1, <1>5 DEF UnderWay
<1>7. CASE ReportAccepted(w)
  <2>1. PICK row : row = [req |-> w.req, kind |-> w.kind, rev |-> w.rev, sup |-> w.base]
    OBVIOUS
  <2>2. row \in ReportRows /\ row.req = w.req
    BY <1>6, <2>1 DEF ReportRows, Tasks
  <2>3. PICK more : more = Append(old, row)
    OBVIOUS
  <2>4. /\ more \in Seq(ReportRows) /\ DOMAIN more = DOMAIN old \cup {Len(old) + 1}
        /\ more[Len(old) + 1] = row /\ \A j \in DOMAIN old : more[j] = old[j]
    BY <1>3, <2>2, <2>3, RowAppended
  <2>5. \A j \in DOMAIN old : old[j].req # w.req
    BY <1>2, <1>7 DEF ReportAccepted, ReportOf
  <2>6. OwnRequests(more)
    BY <1>3, <2>2, <2>4, <2>5 DEF OwnRequests
  <2>7. reports' = more
    BY <1>2, <1>5, <1>7, <2>1, <2>3 DEF WriteReport
  <2>8. item' \in Items
    <3>1. ReportedStatus(w) \in Statuses
      BY DEF ReportedStatus, Statuses
    <3>2. PICK status \in Statuses : status = ReportedStatus(w)
      BY <3>1
    <3>3. [item EXCEPT !.status = status] \in Items
      BY <1>1 DEF Items
    <3>4. item' \in {[item EXCEPT !.status = status], item}
      BY <1>5, <1>7, <3>2 DEF WriteReport
    <3> QED
      BY <1>1, <3>3, <3>4
  <2>9. PICK idle \in Tasks : idle = Idle /\ UnderWay(idle, events)
    BY IdleFacts
  <2> QED
    BY <1>1, <1>4, <2>4, <2>6, <2>7, <2>8, <2>9, ThreadStep DEF Finish
<1>8. CASE ~ReportAccepted(w)
  <2>1. UNCHANGED <<reports, item>>
    BY <1>5, <1>8 DEF WriteReport
  <2> QED
    BY <1>4, <2>1, FinishKeeps
<1> QED
  BY <1>7, <1>8

LEMMA SaveItemKeeps ==
    ASSUME WorkflowInvariant, NEW t \in Threads, SaveItem(t)
    PROVE  WorkflowInvariant'
<1>1. work[t] \in Tasks /\ saves \in Nat
  BY DEF WorkflowInvariant, Typed
<1>2. item' \in Items
  BY <1>1 DEF SaveItem, Tasks
<1>3. PICK r : r = reports
  OBVIOUS
<1>4. r \in Seq(ReportRows) /\ OwnRequests(r) /\ reports' = r
  BY <1>3 DEF WorkflowInvariant, Typed, SaveItem
<1>5. PICK idle \in Tasks : idle = Idle /\ UnderWay(idle, events)
  BY IdleFacts
<1> QED
  BY <1>1, <1>2, <1>4, <1>5, ThreadStep DEF SaveItem, Finish

\* Another quantity: what was reported stays, and only a lower one may fall behind it.
LEMMA ImportKeeps ==
    ASSUME WorkflowInvariant, NEW quantity \in 1..MaxTarget, ImportQuantity(quantity)
    PROVE  WorkflowInvariant'
<1>1. PICK rows : rows = events
  OBVIOUS
<1>2. /\ item \in Items /\ RowsFine(rows) /\ Fits(rows, target, lowered) /\ rows \in Seq(EventRows)
      /\ target \in Nat /\ lowered \in BOOLEAN
  BY <1>1 DEF WorkflowInvariant, Typed, RowsFine
<1>3. /\ events' = rows /\ item' \in Items /\ UNCHANGED <<reports, saves, work>> /\ answer' = NoAnswer
      /\ target' = quantity /\ lowered' = (lowered \/ quantity < target)
      /\ target' \in Nat /\ lowered' \in BOOLEAN
  BY <1>1, <1>2, WorkflowAssumption DEF ImportQuantity
<1>4. PICK short \in Nat, packed \in Nat :
          short = Total(rows, "SHORTAGE_REPORTED") /\ packed = Total(rows, "PACKED")
  BY <1>2, TotalCounts
<1>5. ASSUME Balanced(rows, target), ~(quantity < target)
      PROVE  Balanced(rows, quantity)
  <2>1. short <= quantity /\ packed <= quantity - short
    BY <1>2, <1>4, <1>5, WorkflowAssumption DEF Balanced, Available
  <2> QED
    BY <1>4, <1>5, <2>1 DEF Balanced, Available
<1>6. Fits(rows, target', lowered')
  BY <1>2, <1>3, <1>5 DEF Fits
<1>7. Keeps(events, rows) /\ Answers(answer', rows)
  BY <1>1, <1>3, KeepsThemselves, IdleFacts
<1> QED
  BY <1>2, <1>3, <1>6, <1>7, EventStep

LEMMA WorkflowStepKeeps == WorkflowInvariant /\ [Next]_vars => WorkflowInvariant'
<1> SUFFICES ASSUME WorkflowInvariant, [Next]_vars
             PROVE  WorkflowInvariant'
  OBVIOUS
<1>1. ASSUME NEW req \in Requests, NEW kind \in EventKinds, NEW qty \in 0..MaxTarget,
             SubmitEvent(req, kind, qty)
      PROVE  WorkflowInvariant'
  BY <1>1, SubmitEventKeeps
<1>2. ASSUME NEW req \in Requests, NEW kind \in ReportKinds, StartReport(req, kind)
      PROVE  WorkflowInvariant'
  BY <1>2, StartReportKeeps
<1>3. ASSUME NEW t \in Pool, NEW req \in Requests, NEW i \in 1..MaxRows, NEW qty \in 0..MaxTarget,
             StartRevision(t, req, i, qty)
      PROVE  WorkflowInvariant'
  BY <1>3, StartRevisionKeeps
<1>4. ASSUME NEW t \in Pool, NEW req \in Requests, NEW i \in 1..MaxRows,
             StartReportRevision(t, req, i)
      PROVE  WorkflowInvariant'
  BY <1>4, StartReportRevisionKeeps
<1>5. ASSUME NEW t \in Pool, StartSave(t)
      PROVE  WorkflowInvariant'
  BY <1>5, StartSaveKeeps
<1>6. ASSUME NEW t \in Threads, ReviseEvent(t)
      PROVE  WorkflowInvariant'
  BY <1>6, ReviseEventKeeps
<1>7. ASSUME NEW t \in Threads, RefuseRevision(t)
      PROVE  WorkflowInvariant'
  BY <1>7, FinishKeeps DEF RefuseRevision
<1>8. ASSUME NEW t \in Threads, ReadItem(t) \/ FindReport(t) \/ WriteReport(t) \/ SaveItem(t)
      PROVE  WorkflowInvariant'
  BY <1>8, ReadItemKeeps, FindReportKeeps, WriteReportKeeps, SaveItemKeeps
<1>9. CASE UNCHANGED vars
  <2>1. /\ UNCHANGED <<item, order, events, reports, work, answer, saves>>
        /\ Typed /\ RowsFine(events) /\ Fits(events, target, lowered)
        /\ \A t \in Threads : UnderWay(work[t], events)
        /\ Answers(answer, events)
    BY <1>9 DEF vars, WorkflowInvariant
  <2>2. PICK rows, a : rows = events /\ a = answer
    OBVIOUS
  <2>3. /\ item' \in Items /\ Answers(answer', rows) /\ events' = rows
        /\ target' = target /\ lowered' = lowered /\ target \in Nat /\ lowered \in BOOLEAN
    BY <2>1, <2>2 DEF Typed, order
  <2>4. Keeps(events, rows)
    BY <2>2, KeepsThemselves
  <2> QED
    BY <2>1, <2>2, <2>3, <2>4, EventStep
<1>10. ASSUME NEW quantity \in 1..MaxTarget, ImportQuantity(quantity)
       PROVE  WorkflowInvariant'
  BY <1>10, ImportKeeps
<1> QED
  BY <1>1, <1>2, <1>3, <1>4, <1>5, <1>6, <1>7, <1>8, <1>9, <1>10 DEF Next

LEMMA WorkflowInvariantHolds == Spec => []WorkflowInvariant
BY WorkflowInit, WorkflowStepKeeps, PTL DEF Spec

-----------------------------------------------------------------------------
(* Theorems *)

\* The delivered quantity never exceeds the packed one, nor packed and short ones together
\* the ordered one, except from an import that lowers the ordered one until the next accepted
\* event: each commit of submit and revise checks the totals of the rows it leaves against the
\* quantity of its own transaction, and no other step touches an event.
THEOREM QuantitiesStayBalanced == Spec => []QuantitiesBalance
<1>1. WorkflowInvariant => QuantitiesBalance
  <2> SUFFICES ASSUME WorkflowInvariant
               PROVE  QuantitiesBalance
    OBVIOUS
  <2>1. events \in Seq(EventRows) /\ Fits(events, target, lowered) /\ target \in Nat
    BY DEF WorkflowInvariant, RowsFine, Typed
  <2>2. PICK short \in Nat, packed \in Nat, delivered \in Nat :
            /\ short = Total(events, "SHORTAGE_REPORTED")
            /\ packed = Total(events, "PACKED")
            /\ delivered = Total(events, "DELIVERED")
    BY <2>1, TotalCounts
  <2>3. delivered <= packed /\ (~lowered => packed <= target - short)
    BY <2>1, <2>2 DEF Fits, Balanced, Available
  <2>4. ~lowered => packed + short <= target
    BY <2>1, <2>3
  <2> QED
    BY <2>2, <2>3, <2>4 DEF QuantitiesBalance
<1> QED
  BY <1>1, WorkflowInvariantHolds, PTL

\* However many threads correct an event at once, each from the revision it read before its
\* transaction, one revision is in effect, the latest of an unbroken chain.
THEOREM OneRevisionInEffect == Spec => []OneEffectiveRevision
<1>1. WorkflowInvariant => OneEffectiveRevision
  BY DEF WorkflowInvariant, RowsFine, Effective, EffectiveAt, Chain, OneEffectiveRevision
<1> QED
  BY <1>1, WorkflowInvariantHolds, PTL

\* However requests are repeated, an event and a report is recorded once for its request, and
\* an answer names the row of what was asked.
THEOREM RequestsHaveOneRow == Spec => []RequestsRecordedOnce
<1>1. WorkflowInvariant => RequestsRecordedOnce
  BY DEF WorkflowInvariant, RowsFine, OwnRequests, Answers, RequestsRecordedOnce
<1> QED
  BY <1>1, WorkflowInvariantHolds, PTL
=============================================================================

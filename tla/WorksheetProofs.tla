-------------------------- MODULE WorksheetProofs --------------------------
(***************************************************************************)
(* Proofs about Worksheet, for any products, texts and dates, any size of  *)
(* the grid, and any number of edits, writes and faults.                   *)
(***************************************************************************)
EXTENDS Worksheet, FiniteSetTheorems, SequenceTheorems, WellFoundedInduction, TLAPS

-----------------------------------------------------------------------------
(* Least and greatest numbers *)

LEMMA LeastExists ==
    ASSUME NEW T \in SUBSET Nat, T # {}
    PROVE  \E x \in T : \A y \in T : x <= y
<1> DEFINE R == OpToRel(<, Nat)
<1>1. IsWellFoundedOn(R, Nat)
  BY NatLessThanWellFounded
<1>2. \A x, y \in Nat : y < x => <<y, x>> \in R
  BY DEF OpToRel
<1> HIDE DEF R
<1>3. PICK x \in T : \A y \in T : ~(<<y, x>> \in R)
  BY <1>1, WFMin
<1>4. \A y \in T : x \in Nat /\ y \in Nat /\ ~(y < x)
  BY <1>2, <1>3
<1> QED
  BY <1>4

LEMMA MinIsIn ==
    ASSUME NEW T \in SUBSET Nat, T # {}
    PROVE  Min(T) \in T
BY LeastExists DEF Min

LEMMA MaxIsGreatest ==
    ASSUME NEW n \in Nat, NEW T \in SUBSET (1..n), T # {}
    PROVE  Max(T) \in T /\ \A y \in T : y <= Max(T)
<1>1. PICK x \in {n - y : y \in T} : \A z \in {n - y : y \in T} : x <= z
  <2>1. {n - y : y \in T} \in SUBSET Nat
    OBVIOUS
  <2>2. {n - y : y \in T} # {}
    OBVIOUS
  <2> QED
    BY <2>1, <2>2, LeastExists
<1>2. PICK greatest \in T : x = n - greatest
  OBVIOUS
<1>3. \A y \in T : greatest >= y
  <2>1. \A y \in T : n - greatest <= n - y
    BY <1>1, <1>2
  <2> QED
    BY <2>1
<1>4. Max(T) \in T /\ \A y \in T : Max(T) >= y
  BY <1>3 DEF Max
<1> QED
  BY <1>4

\* A worksheet that is loaded or trimmed has room for its rows.
LEMMA LengthHasRoom ==
    ASSUME NEW used \in Nat
    PROVE  /\ Length(used) \in Nat /\ Length(used) <= MaxRows
           /\ used < MaxRows => used < Length(used)
           /\ used <= MaxRows => used <= Length(used)
<1>1. MinRows \in Nat /\ Spare \in Nat \ {0} /\ MaxRows \in Nat /\ MinRows <= MaxRows
  BY WorksheetAssumption
<1>2. PICK n : n = Max({MinRows, used + Spare})
  OBVIOUS
<1>3. n \in {MinRows, used + Spare} /\ used + Spare <= n
  <2>1. \E x \in {MinRows, used + Spare} : \A y \in {MinRows, used + Spare} : x >= y
    BY <1>1
  <2>2. n \in {MinRows, used + Spare} /\ \A y \in {MinRows, used + Spare} : n >= y
    BY <1>2, <2>1 DEF Max
  <2> QED
    BY <1>1, <2>2
<1>4. Length(used) = IF n > MaxRows THEN MaxRows ELSE n
  BY <1>2 DEF Length
<1> QED
  BY <1>1, <1>3, <1>4

-----------------------------------------------------------------------------
(* Sequences *)

LEMMA Inserted ==
    ASSUME NEW S, NEW g \in Seq(S), NEW i \in 1..(Len(g) + 1), NEW e \in S
    PROVE  /\ InsertAt(g, i, e) \in Seq(S) /\ Len(InsertAt(g, i, e)) = Len(g) + 1
           /\ \A k \in 1..(Len(g) + 1) :
                 InsertAt(g, i, e)[k] = IF k < i THEN g[k] ELSE IF k = i THEN e ELSE g[k - 1]
<1>1. PICK left, right : left = SubSeq(g, 1, i - 1) /\ right = SubSeq(g, i, Len(g))
  OBVIOUS
<1>2. /\ left \in Seq(S) /\ Len(left) = i - 1 /\ \A k \in 1..(i - 1) : left[k] = g[k]
      /\ right \in Seq(S) /\ Len(right) = Len(g) + 1 - i
      /\ \A k \in 1..(Len(g) + 1 - i) : right[k] = g[i + k - 1]
  BY <1>1
<1>3. PICK mid : mid = left \o <<e>>
  OBVIOUS
<1>4. /\ mid \in Seq(S) /\ Len(mid) = i
      /\ \A k \in 1..i : mid[k] = IF k = i THEN e ELSE g[k]
  BY <1>2, <1>3
<1>5. InsertAt(g, i, e) = mid \o right
  BY <1>1, <1>3 DEF InsertAt
<1>6. /\ mid \o right \in Seq(S) /\ Len(mid \o right) = Len(g) + 1
      /\ \A k \in 1..(Len(g) + 1) : (mid \o right)[k] = IF k <= i THEN mid[k] ELSE right[k - i]
  BY <1>2, <1>4, ConcatProperties
<1>7. \A k \in 1..(Len(g) + 1) : k > i => right[k - i] = g[k - 1]
  BY <1>2
<1>8. \A k \in 1..(Len(g) + 1) : k <= i => mid[k] = IF k = i THEN e ELSE g[k]
  BY <1>4
<1> QED
  BY <1>5, <1>6, <1>7, <1>8

LEMMA Removed ==
    ASSUME NEW S, NEW g \in Seq(S), NEW i \in 1..Len(g)
    PROVE  /\ RemoveAt(g, i) \in Seq(S) /\ Len(RemoveAt(g, i)) = Len(g) - 1
           /\ \A k \in 1..(Len(g) - 1) : RemoveAt(g, i)[k] = IF k < i THEN g[k] ELSE g[k + 1]
<1>1. PICK left, right : left = SubSeq(g, 1, i - 1) /\ right = SubSeq(g, i + 1, Len(g))
  OBVIOUS
<1>2. /\ left \in Seq(S) /\ Len(left) = i - 1 /\ \A k \in 1..(i - 1) : left[k] = g[k]
      /\ right \in Seq(S) /\ Len(right) = Len(g) - i
      /\ \A k \in 1..(Len(g) - i) : right[k] = g[i + k]
  BY <1>1
<1>3. RemoveAt(g, i) = left \o right
  BY <1>1 DEF RemoveAt
<1>4. /\ left \o right \in Seq(S) /\ Len(left \o right) = Len(g) - 1
      /\ \A k \in 1..(Len(g) - 1) :
            (left \o right)[k] = IF k <= i - 1 THEN left[k] ELSE right[k - (i - 1)]
  <2>1. Len(left) + Len(right) = Len(g) - 1
    BY <1>2
  <2>2. /\ left \o right \in Seq(S) /\ Len(left \o right) = Len(left) + Len(right)
        /\ \A k \in 1..(Len(left) + Len(right)) :
              (left \o right)[k] = IF k <= Len(left) THEN left[k] ELSE right[k - Len(left)]
    BY <1>2, ConcatProperties
  <2> QED
    BY <1>2, <2>1, <2>2
<1>5. \A k \in 1..(Len(g) - 1) : ~(k < i) => right[k - (i - 1)] = g[k + 1]
  BY <1>2
<1>6. \A k \in 1..(Len(g) - 1) : k < i => left[k] = g[k]
  BY <1>2
<1> QED
  BY <1>3, <1>4, <1>5, <1>6

-----------------------------------------------------------------------------
(* The types of the state, and what else holds in every state *)

Codes ==
    {NoCode, NoneCode} \cup {Generated(n) : n \in Nat}
        \cup {<<"WS", Initials[c], Initials[t], d, r>> :
                c \in Companies, t \in Details, d \in Dates, r \in Nat}

Row == [company : Companies \cup {""}, detail : Details \cup {""}, size : Sizes \cup {""},
        id : Ids \cup {NoId, NoItem}, code : Codes, label : BOOLEAN]
DraftRow == [company : Companies \cup {""}, detail : Details \cup {""}, size : Sizes \cup {""},
             id : Ids \cup {NoId}]
Product == [company : Companies \cup {""}, detail : Details \cup {""}, size : Sizes \cup {""},
            code : Codes, date : Dates, version : Nat]

IsGrid(g) == g \in Seq(Row) /\ Len(g) <= MaxRows
IsDraft(draft) ==
    /\ DOMAIN draft \subseteq 1..MaxRows
    /\ \A r \in DOMAIN draft : draft[r] \in DraftRow
AreDrafts(dr) == DOMAIN dr = Dates /\ \A d \in Dates : IsDraft(dr[d])

TablesTyped ==
    /\ products \in [Ids -> Product] /\ now \in Nat
    /\ cache.items \in [Ids -> Product]

WindowTyped ==
    /\ open \in BOOLEAN /\ date \in Dates /\ shown \in Dates \cup {NoDate}
    /\ IsGrid(grid) /\ AreDrafts(drafts)
    /\ timers \in [draft : BOOLEAN, auto : BOOLEAN]
    /\ pending \subseteq Nat \ {0}

\* A save works on rows of the grid: it creates a product for a row without one, and updates
\* that of a row that has one.
SaveTyped ==
    /\ DOMAIN save = {"active", "queue", "imported", "call"}
    /\ save.active \in BOOLEAN /\ save.imported \in BOOLEAN
    /\ save.call \in {NoCall} \cup [op : {"create", "update"}, code : Codes]
    /\ save.queue \subseteq 1..Len(grid)
    /\ ~save.active => save = Idle
    /\ save.call # NoCall => save.active /\ save.queue # {}
    /\ save.active => open
    /\ save.call.op = "create" => RowToSave.id = NoId
    /\ save.call.op = "update" => Linked(RowToSave)

\* Every row of A that has a customer or a part is in B, with its link to a product.
HasWork(row) == row.company # "" \/ row.detail # ""
RowsKept(A, B) ==
    \A a \in A : HasWork(a) =>
        \E b \in B : b.company = a.company /\ b.detail = a.detail /\ (a.id \in Ids => b.id = a.id)

GridRows(g) == {g[r] : r \in 1..Len(g)}
DraftRows(draft) == {draft[r] : r \in DOMAIN draft}

\* While the draft timer rests, the draft of the date has what the grid shows, unless the
\* date never had a draft.
DraftIsCurrent ==
    /\ open => shown \in {date, NoDate}
    /\ open /\ shown = date /\ ~timers.draft /\ Drafted(date) =>
        RowsKept(GridRows(grid), DraftRows(drafts[date]))

\* Rows, drafts and the cached list refer to products of the server.
GridLinked(g) == \A r \in 1..Len(g) : Linked(g[r]) => g[r].id \in Stored
DraftLinked(draft) == \A r \in DOMAIN draft : draft[r].id \in Ids => draft[r].id \in Stored
ItemsLinked(items) == \A p \in Ids : items[p].version > 0 => p \in Stored
LinksStored ==
    GridLinked(grid) /\ (\A d \in Dates : DraftLinked(drafts[d])) /\ ItemsLinked(cache.items)

WorksheetInvariant ==
    TablesTyped /\ WindowTyped /\ SaveTyped /\ DraftIsCurrent /\ LinksStored

-----------------------------------------------------------------------------
(* Rows *)

LEMMA NoSuchProduct == NoId \notin Ids /\ NoItem \notin Ids /\ NoItem # NoId
BY WorksheetAssumption

LEMMA MaxRowsIsNumber == MaxRows \in Nat
BY WorksheetAssumption

LEMMA CodesTyped == NoCode \in Codes /\ NoneCode \in Codes /\ \A n \in Nat : Generated(n) \in Codes
BY DEF Codes

LEMMA PreviewTyped ==
    ASSUME NEW row, NEW r \in Nat, NEW d \in Dates, row.company \in Companies, row.detail \in Details
    PROVE  Preview(row, r, d) \in Codes
BY DEF Codes, Preview

LEMMA BlankRows ==
    /\ BlankRow \in Row /\ ~HasWork(BlankRow) /\ ~Linked(BlankRow)
    /\ InsertedRow \in Row /\ ~HasWork(InsertedRow) /\ ~Linked(InsertedRow)
BY NoSuchProduct, CodesTyped DEF BlankRow, InsertedRow, Row, HasWork, Linked

LEMMA RowsAreTyped ==
    ASSUME NEW g, IsGrid(g)
    PROVE  Len(g) \in Nat /\ \A r \in 1..Len(g) : g[r] \in Row
BY DEF IsGrid

\* A draft holds the rows of its grid.
LEMMA DraftOfGrid ==
    ASSUME NEW g, IsGrid(g)
    PROVE  /\ IsDraft(DraftOf(g))
           /\ DOMAIN DraftOf(g) \subseteq 1..Len(g)
           /\ \A r \in DOMAIN DraftOf(g) : DraftOf(g)[r].id \in Ids => DraftOf(g)[r].id = g[r].id
           /\ RowsKept(GridRows(g), DraftRows(DraftOf(g)))
<1>1. Len(g) \in Nat /\ Len(g) <= MaxRows /\ MaxRows \in Nat /\ \A r \in 1..Len(g) : g[r] \in Row
  BY RowsAreTyped, WorksheetAssumption DEF IsGrid
<1>2. DOMAIN DraftOf(g) = {r \in 1..Len(g) : HasUserData(g[r]) \/ Linked(g[r])}
  BY DEF DraftOf
<1>3. ASSUME NEW r \in DOMAIN DraftOf(g)
      PROVE  /\ DraftOf(g)[r] \in DraftRow
             /\ DraftOf(g)[r].company = g[r].company /\ DraftOf(g)[r].detail = g[r].detail
             /\ DraftOf(g)[r].id = IF g[r].id \in Ids THEN g[r].id ELSE NoId
  <2>1. g[r] \in Row
    BY <1>1, <1>2
  <2>2. PICK id : id = IF g[r].id \in Ids THEN g[r].id ELSE NoId
    OBVIOUS
  <2>3. DraftOf(g)[r] = [company |-> g[r].company, detail |-> g[r].detail, size |-> g[r].size,
                         id |-> id]
    BY <2>2 DEF DraftOf, Linked
  <2>4. id \in Ids \cup {NoId}
    BY <2>2
  <2>5. DraftOf(g)[r] \in DraftRow
    <3>1. PICK row \in Row : row = g[r]
      BY <2>1
    <3>2. PICK new : new = [company |-> row.company, detail |-> row.detail, size |-> row.size,
                            id |-> id]
      OBVIOUS
    <3>3. new \in DraftRow
      BY <2>4, <3>2 DEF Row, DraftRow
    <3> QED
      BY <2>3, <3>1, <3>2, <3>3
  <2>6. /\ DraftOf(g)[r].company = g[r].company /\ DraftOf(g)[r].detail = g[r].detail
        /\ DraftOf(g)[r].id = id
    BY <2>3
  <2> QED
    BY <2>2, <2>5, <2>6
<1>4. IsDraft(DraftOf(g))
  BY <1>1, <1>2, <1>3 DEF IsDraft
<1>5. RowsKept(GridRows(g), DraftRows(DraftOf(g)))
  <2>1. SUFFICES ASSUME NEW r \in 1..Len(g), HasWork(g[r])
                 PROVE  \E b \in DraftRows(DraftOf(g)) :
                           /\ b.company = g[r].company /\ b.detail = g[r].detail
                           /\ g[r].id \in Ids => b.id = g[r].id
    BY DEF RowsKept, GridRows
  <2>2. r \in DOMAIN DraftOf(g)
    BY <1>2, <2>1 DEF HasWork, HasUserData, Columns
  <2>3. DraftOf(g)[r] \in DraftRows(DraftOf(g))
    BY <2>2 DEF DraftRows
  <2>4. /\ DraftOf(g)[r].company = g[r].company /\ DraftOf(g)[r].detail = g[r].detail
        /\ g[r].id \in Ids => DraftOf(g)[r].id = g[r].id
    BY <1>3, <2>2
  <2> QED
    BY <2>3, <2>4
<1>6. DOMAIN DraftOf(g) \subseteq 1..Len(g)
  BY <1>2
<1>7. \A r \in DOMAIN DraftOf(g) : DraftOf(g)[r].id \in Ids => DraftOf(g)[r].id = g[r].id
  BY <1>3, NoSuchProduct
<1> QED
  BY <1>4, <1>5, <1>6, <1>7

-----------------------------------------------------------------------------
(* Grids that are loaded *)

LEMMA RowFields ==
    ASSUME NEW row \in Row
    PROVE  /\ row.company \in Companies \cup {""} /\ row.detail \in Details \cup {""}
           /\ row.size \in Sizes \cup {""} /\ row.id \in Ids \cup {NoId, NoItem}
           /\ row.code \in Codes /\ row.label \in BOOLEAN
BY DEF Row

LEMMA MakesRow ==
    ASSUME NEW company \in Companies \cup {""}, NEW detail \in Details \cup {""},
           NEW size \in Sizes \cup {""}, NEW id \in Ids \cup {NoId, NoItem}, NEW code \in Codes
    PROVE  /\ [company |-> company, detail |-> detail, id |-> id, label |-> FALSE,
               size |-> size, code |-> code] \in Row
BY DEF Row

LEMMA RestoredRowTyped ==
    ASSUME NEW row \in DraftRow, NEW d, NEW items \in [Ids -> Product]
    PROVE  /\ RestoredRow(row, d, items) \in Row
           /\ RestoredRow(row, d, items).company = row.company
           /\ RestoredRow(row, d, items).detail = row.detail
           /\ RestoredRow(row, d, items).id = row.id
<1>1. /\ row.company \in Companies \cup {""} /\ row.detail \in Details \cup {""}
      /\ row.size \in Sizes \cup {""} /\ row.id \in Ids \cup {NoId, NoItem}
  BY DEF DraftRow
<1>2. PICK found \in BOOLEAN :
        found <=> row.id \in Ids /\ items[row.id].version > 0 /\ items[row.id].date = d
  OBVIOUS
<1>3. PICK size, code : /\ size = IF found THEN items[row.id].size ELSE row.size
                        /\ code = IF found THEN items[row.id].code ELSE NoCode
  OBVIOUS
<1>4. size \in Sizes \cup {""} /\ code \in Codes
  <2>1. found => items[row.id] \in Product
    BY <1>2
  <2>2. found => items[row.id].size \in Sizes \cup {""} /\ items[row.id].code \in Codes
    BY <2>1 DEF Product
  <2> QED
    BY <1>1, <1>3, <2>2, CodesTyped
<1>5. RestoredRow(row, d, items) =
        [company |-> row.company, detail |-> row.detail, id |-> row.id, label |-> FALSE,
         size |-> size, code |-> code]
  BY <1>2, <1>3 DEF RestoredRow
<1>6. RestoredRow(row, d, items) \in Row
  <2>1. [company |-> row.company, detail |-> row.detail, id |-> row.id, label |-> FALSE,
         size |-> size, code |-> code] \in Row
    BY <1>1, <1>4, MakesRow
  <2> QED
    BY <1>5, <2>1
<1> QED
  BY <1>5, <1>6

LEMMA ProductRowTyped ==
    ASSUME NEW items \in [Ids -> Product], NEW p \in Ids
    PROVE  ProductRow(p, items) \in Row /\ ProductRow(p, items).id = p
<1>1. PICK product \in Product : product = items[p]
  OBVIOUS
<1>2. /\ product.company \in Companies \cup {""} /\ product.detail \in Details \cup {""}
      /\ product.size \in Sizes \cup {""} /\ product.code \in Codes
  BY DEF Product
<1>3. ProductRow(p, items) =
        [company |-> product.company, detail |-> product.detail, id |-> p, label |-> FALSE,
         size |-> product.size, code |-> product.code]
  BY <1>1 DEF ProductRow
<1>4. ProductRow(p, items) \in Row
  <2>1. [company |-> product.company, detail |-> product.detail, id |-> p, label |-> FALSE,
         size |-> product.size, code |-> product.code] \in Row
    BY <1>2, MakesRow
  <2> QED
    BY <1>3, <2>1
<1> QED
  BY <1>3, <1>4

LEMMA PaddedTyped ==
    ASSUME NEW rows, NEW length \in Nat, length <= MaxRows,
           \A r \in DOMAIN rows : rows[r] \in Row
    PROVE  /\ IsGrid(Padded(rows, length)) /\ Len(Padded(rows, length)) = length
           /\ \A r \in 1..length :
                 Padded(rows, length)[r] = IF r \in DOMAIN rows THEN rows[r] ELSE BlankRow
<1>1. PICK g : g = Padded(rows, length)
  OBVIOUS
<1>2. g = [r \in 1..length |-> IF r \in DOMAIN rows THEN rows[r] ELSE BlankRow]
  BY <1>1 DEF Padded
<1>3. g \in [1..length -> Row]
  BY <1>2, BlankRows
<1>4. g \in Seq(Row) /\ Len(g) = length
  BY <1>3
<1> QED
  BY <1>1, <1>2, <1>4 DEF IsGrid

\* The rows of a draft come back where they were, with their texts and links.
LEMMA DraftComesBack ==
    ASSUME NEW d, NEW draft, IsDraft(draft), DOMAIN draft # {}, NEW items \in [Ids -> Product],
           NEW g \in LoadedGrids(d, draft, items)
    PROVE  /\ IsGrid(g) /\ DOMAIN draft \subseteq 1..Len(g)
           /\ \A r \in 1..Len(g) :
                 IF r \in DOMAIN draft
                 THEN /\ g[r].company = draft[r].company /\ g[r].detail = draft[r].detail
                      /\ g[r].id = draft[r].id
                 ELSE ~Linked(g[r])
<1>1. PICK rows : rows = [r \in DOMAIN draft |-> RestoredRow(draft[r], d, items)]
  OBVIOUS
<1>2. DOMAIN rows = DOMAIN draft /\ \A r \in DOMAIN draft : rows[r] = RestoredRow(draft[r], d, items)
  BY <1>1
<1>3. \A r \in DOMAIN draft : /\ rows[r] \in Row /\ rows[r].company = draft[r].company
                              /\ rows[r].detail = draft[r].detail /\ rows[r].id = draft[r].id
  BY <1>2, RestoredRowTyped DEF IsDraft
<1>4. PICK last : last = Max(DOMAIN draft)
  OBVIOUS
<1>5. last \in 1..MaxRows /\ \A r \in DOMAIN draft : r <= last
  BY <1>4, MaxIsGreatest, MaxRowsIsNumber DEF IsDraft
<1>6. PICK length : length = Length(last - 1)
  OBVIOUS
<1>7. length \in Nat /\ length <= MaxRows /\ last <= length
  <2>1. last - 1 \in Nat /\ last - 1 < MaxRows
    BY <1>5, MaxRowsIsNumber
  <2>2. length \in Nat /\ length <= MaxRows /\ last - 1 < length
    BY <1>6, <2>1, LengthHasRoom
  <2> QED
    BY <1>5, <2>2
<1>8. g = Padded(rows, length)
  BY <1>1, <1>4, <1>6 DEF LoadedGrids
<1>9. /\ IsGrid(g) /\ Len(g) = length
      /\ \A r \in 1..length : g[r] = IF r \in DOMAIN draft THEN rows[r] ELSE BlankRow
  BY <1>2, <1>3, <1>7, <1>8, PaddedTyped
<1>10. DOMAIN draft \subseteq 1..Len(g)
  BY <1>5, <1>7, <1>9, MaxRowsIsNumber DEF IsDraft
<1> QED
  BY <1>3, <1>9, <1>10, BlankRows

\* Without a draft, the rows are the products of the date, each once.
LEMMA ProductsComeBack ==
    ASSUME NEW d, NEW draft, DOMAIN draft = {}, NEW items \in [Ids -> Product],
           NEW g \in LoadedGrids(d, draft, items)
    PROVE  /\ IsGrid(g)
           /\ \A r \in 1..Len(g) : Linked(g[r]) => items[g[r].id].version > 0
           /\ \A r, s \in 1..Len(g) : Linked(g[r]) /\ g[r].id = g[s].id => r = s
<1>1. PICK listed : listed = {p \in Ids : items[p].version > 0 /\ items[p].date = d}
  OBVIOUS
<1>2. listed \subseteq Ids /\ \A p \in listed : items[p].version > 0
  BY <1>1
<1>3. PICK order \in SetToSeqs(listed) :
        g = Padded([r \in DOMAIN order |-> ProductRow(order[r], items)], Length(Len(order)))
  BY <1>1 DEF LoadedGrids
<1>4. PICK n : n = Cardinality(listed)
  OBVIOUS
<1>5. n \in Nat
  BY <1>2, <1>4, FS_Subset, FS_CardinalityType, WorksheetAssumption
<1>6. /\ order \in [1..n -> listed] /\ Len(order) = n
      /\ \A i, j \in 1..n : i # j => order[i] # order[j]
  BY <1>3, <1>4, <1>5 DEF SetToSeqs
<1>7. PICK rows, length : /\ rows = [r \in DOMAIN order |-> ProductRow(order[r], items)]
                          /\ length = Length(n)
  OBVIOUS
<1>8. DOMAIN rows = 1..n /\ \A r \in 1..n : rows[r] = ProductRow(order[r], items)
  BY <1>6, <1>7
<1>9. \A r \in 1..n : rows[r] \in Row /\ rows[r].id = order[r] /\ order[r] \in listed
  BY <1>2, <1>6, <1>8, ProductRowTyped
<1>10. length \in Nat /\ length <= MaxRows
  BY <1>5, <1>7, LengthHasRoom
<1>11. /\ IsGrid(g) /\ Len(g) = length
       /\ \A r \in 1..length : g[r] = IF r \in 1..n THEN rows[r] ELSE BlankRow
  BY <1>3, <1>6, <1>7, <1>8, <1>9, <1>10, PaddedTyped
<1>12. \A r \in 1..Len(g) : Linked(g[r]) => r \in 1..n /\ g[r].id = order[r]
  BY <1>9, <1>11, BlankRows
<1> QED
  BY <1>2, <1>6, <1>9, <1>11, <1>12 DEF Linked

-----------------------------------------------------------------------------
(* What groups of steps keep *)

LEMMA IdleSaveTyped ==
    ASSUME save = Idle
    PROVE  SaveTyped
BY DEF SaveTyped, Idle, NoCall

LEMMA SameLinks ==
    ASSUME UNCHANGED products
    PROVE  /\ Stored' = Stored
           /\ \A g : GridLinked(g)' = GridLinked(g)
           /\ \A draft : DraftLinked(draft)' = DraftLinked(draft)
           /\ \A items : ItemsLinked(items)' = ItemsLinked(items)
<1>1. Stored' = Stored
  BY DEF Stored
<1> QED
  BY <1>1 DEF GridLinked, DraftLinked, ItemsLinked

LEMMA KeptIsReflexive ==
    ASSUME NEW A
    PROVE  RowsKept(A, A)
BY DEF RowsKept

LEMMA KeptIsTransitive ==
    ASSUME NEW A, NEW B, NEW C, RowsKept(A, B), RowsKept(B, C)
    PROVE  RowsKept(A, C)
<1>1. SUFFICES ASSUME NEW a \in A, HasWork(a)
               PROVE  \E c \in C : /\ c.company = a.company /\ c.detail = a.detail
                                   /\ a.id \in Ids => c.id = a.id
  BY DEF RowsKept
<1>2. PICK b \in B : b.company = a.company /\ b.detail = a.detail /\ (a.id \in Ids => b.id = a.id)
  BY <1>1 DEF RowsKept
<1>3. PICK c \in C : c.company = b.company /\ c.detail = b.detail /\ (b.id \in Ids => c.id = b.id)
  BY <1>1, <1>2 DEF RowsKept, HasWork
<1> QED
  BY <1>2, <1>3

\* Steps that leave tables, grid and drafts alone, and do not stop the draft timer.
LEMMA StillWindow ==
    ASSUME WorksheetInvariant, UNCHANGED <<products, now, open, date, shown, grid, drafts, cache>>,
           timers' \in [draft : BOOLEAN, auto : BOOLEAN], timers.draft => timers'.draft,
           pending' \subseteq Nat \ {0}, SaveTyped'
    PROVE  WorksheetInvariant'
<1>1. TablesTyped' /\ WindowTyped'
  BY DEF WorksheetInvariant, TablesTyped, WindowTyped
<1>2. DraftIsCurrent'
  BY DEF WorksheetInvariant, DraftIsCurrent, Drafted
<1>3. LinksStored'
  BY SameLinks DEF WorksheetInvariant, LinksStored
<1> QED
  BY <1>1, <1>2, <1>3 DEF WorksheetInvariant

\* Steps that change the grid only: the draft timer runs after them, or the grid has no row
\* that it had not before.
GridEdit ==
    /\ Ready /\ Kept /\ IsGrid(grid')
    /\ timers' \in [draft : BOOLEAN, auto : BOOLEAN] /\ pending' \subseteq Nat \ {0}
    /\ timers'.draft \/ (UNCHANGED timers /\ RowsKept(GridRows(grid'), GridRows(grid)))

LEMMA GridEdited ==
    ASSUME WorksheetInvariant, GridEdit,
           \A r \in 1..Len(grid') : Linked(grid'[r]) =>
                \E s \in 1..Len(grid) : grid[s].id = grid'[r].id
    PROVE  WorksheetInvariant'
<1> USE DEF GridEdit
<1>1. TablesTyped' /\ WindowTyped'
  BY DEF WorksheetInvariant, TablesTyped, WindowTyped, Kept
<1>2. save' = Idle
  BY DEF WorksheetInvariant, SaveTyped, Ready, Kept
<1>3. SaveTyped'
  BY <1>2, IdleSaveTyped DEF Idle, SaveTyped, NoCall
<1>4. DraftIsCurrent'
  <2>1. (open => shown \in {date, NoDate})'
    BY DEF WorksheetInvariant, DraftIsCurrent, Kept
  <2>2. ASSUME open', shown' = date', ~timers'.draft, Drafted(date)'
        PROVE  RowsKept(GridRows(grid'), DraftRows(drafts'[date']))
    <3>1. RowsKept(GridRows(grid'), GridRows(grid))
      BY <2>2
    <3>2. RowsKept(GridRows(grid), DraftRows(drafts[date]))
      BY <2>2 DEF WorksheetInvariant, DraftIsCurrent, Drafted, Kept
    <3> QED
      BY <3>1, <3>2, KeptIsTransitive DEF Kept
  <2> QED
    BY <2>1, <2>2 DEF DraftIsCurrent
<1>5. LinksStored'
  <2>1. GridLinked(grid)
    BY DEF WorksheetInvariant, LinksStored
  <2>2. \A r \in 1..Len(grid') : Linked(grid'[r]) => grid'[r].id \in Stored
    BY <2>1 DEF GridLinked, Linked
  <2>3. UNCHANGED <<products, drafts, cache>>
    BY DEF Kept
  <2> QED
    BY <2>2, <2>3, SameLinks DEF WorksheetInvariant, LinksStored, GridLinked
<1> QED
  BY <1>1, <1>3, <1>4, <1>5 DEF WorksheetInvariant

\* Saving the draft: that of the selected date holds the grid, the others stay.
LEMMA DraftSavedTyped ==
    ASSUME WorksheetInvariant
    PROVE  /\ AreDrafts(DraftSaved)
           /\ DraftSaved[date] = DraftOf(grid)
           /\ \A d \in Dates : d # date => DraftSaved[d] = drafts[d]
           /\ \A d \in Dates : DraftLinked(DraftSaved[d])
<1>1. /\ date \in Dates /\ IsGrid(grid) /\ AreDrafts(drafts) /\ GridLinked(grid)
      /\ \A d \in Dates : DraftLinked(drafts[d])
  BY DEF WorksheetInvariant, WindowTyped, LinksStored
<1>2. /\ DOMAIN DraftSaved = Dates /\ DraftSaved[date] = DraftOf(grid)
      /\ \A d \in Dates : d # date => DraftSaved[d] = drafts[d]
  BY <1>1 DEF DraftSaved, AreDrafts
<1>3. IsDraft(DraftOf(grid)) /\ DraftLinked(DraftOf(grid))
  <2>1. /\ IsDraft(DraftOf(grid)) /\ DOMAIN DraftOf(grid) \subseteq 1..Len(grid)
        /\ \A r \in DOMAIN DraftOf(grid) :
              DraftOf(grid)[r].id \in Ids => DraftOf(grid)[r].id = grid[r].id
    BY <1>1, DraftOfGrid
  <2> QED
    BY <1>1, <2>1 DEF DraftLinked, GridLinked, Linked
<1> QED
  BY <1>1, <1>2, <1>3 DEF AreDrafts

LEMMA MonthItemsTyped ==
    ASSUME WorksheetInvariant, NEW month
    PROVE  MonthItems(month) \in [Ids -> Product] /\ ItemsLinked(MonthItems(month))
<1>1. NoProduct \in Product /\ NoProduct.version = 0
  BY CodesTyped, WorksheetAssumption DEF NoProduct, Product
<1>2. /\ \A p \in Ids : products[p] \in Product
      /\ MonthItems(month) = [p \in Ids |-> IF InMonth(p, month) THEN products[p] ELSE NoProduct]
  BY DEF WorksheetInvariant, TablesTyped, MonthItems
<1>3. \A p \in Ids : InMonth(p, month) => p \in Stored
  BY DEF InMonth
<1> QED
  BY <1>1, <1>2, <1>3 DEF ItemsLinked

LEMMA NoCacheTyped ==
    ASSUME WorksheetInvariant
    PROVE  NoCache.items \in [Ids -> Product] /\ ItemsLinked(NoCache.items)
BY MonthItemsTyped DEF NoCache

\* What a load works with.
CanLoad(d, dr, c) ==
    /\ d \in Dates /\ AreDrafts(dr) /\ \A e \in Dates : DraftLinked(dr[e])
    /\ c.items \in [Ids -> Product] /\ ItemsLinked(c.items)

\* A load shows the rows of the date: those of its draft, which it saves again, or products.
LEMMA LoadedRows ==
    ASSUME WorksheetInvariant, NEW d, NEW dr, NEW c, NEW known, CanLoad(d, dr, c),
           LoadEntryRows(d, dr, c, known)
    PROVE  /\ cache'.items \in [Ids -> Product] /\ ItemsLinked(cache'.items)
           /\ IsGrid(grid') /\ GridLinked(grid')
           /\ DOMAIN dr[d] # {} => drafts' = [dr EXCEPT ![d] = DraftOf(grid')]
           /\ DOMAIN dr[d] = {} => drafts' = dr
           /\ RowsKept(DraftRows(dr[d]), GridRows(grid'))
           /\ \E items \in [Ids -> Product] : grid' \in LoadedGrids(d, dr[d], items)
<1>1. PICK loaded : loaded = IF c.month = MonthOf[d] THEN c
                             ELSE [month |-> MonthOf[d], items |-> MonthItems(MonthOf[d])]
  OBVIOUS
<1>2. loaded.items \in [Ids -> Product] /\ ItemsLinked(loaded.items)
  BY <1>1, MonthItemsTyped DEF CanLoad
<1>3. /\ cache' = loaded /\ grid' \in LoadedGrids(d, dr[d], loaded.items)
      /\ drafts' = IF DOMAIN dr[d] = {} THEN dr ELSE [dr EXCEPT ![d] = DraftOf(grid')]
  BY <1>1 DEF LoadEntryRows
<1>4. PICK g, items : g = grid' /\ items = loaded.items
  OBVIOUS
<1>5. IsDraft(dr[d]) /\ DraftLinked(dr[d])
  BY DEF CanLoad, AreDrafts
<1>6. CASE DOMAIN dr[d] # {}
  <2>1. /\ IsGrid(g) /\ DOMAIN dr[d] \subseteq 1..Len(g)
        /\ \A r \in 1..Len(g) :
              IF r \in DOMAIN dr[d]
              THEN /\ g[r].company = dr[d][r].company /\ g[r].detail = dr[d][r].detail
                   /\ g[r].id = dr[d][r].id
              ELSE ~Linked(g[r])
    <3>1. PICK draft : draft = dr[d]
      OBVIOUS
    <3>2. /\ IsDraft(draft) /\ DOMAIN draft # {} /\ items \in [Ids -> Product]
          /\ g \in LoadedGrids(d, draft, items)
      BY <1>2, <1>3, <1>4, <1>5, <1>6, <3>1
    <3>3. /\ IsGrid(g) /\ DOMAIN draft \subseteq 1..Len(g)
          /\ \A r \in 1..Len(g) :
                IF r \in DOMAIN draft
                THEN /\ g[r].company = draft[r].company /\ g[r].detail = draft[r].detail
                     /\ g[r].id = draft[r].id
                ELSE ~Linked(g[r])
      BY <3>2, DraftComesBack
    <3> QED
      BY <3>1, <3>3
  <2>2. GridLinked(g)
    BY <1>5, <2>1 DEF GridLinked, DraftLinked, Linked
  <2>3. RowsKept(DraftRows(dr[d]), GridRows(g))
    <3>1. \A r \in DOMAIN dr[d] :
            /\ g[r] \in GridRows(g) /\ g[r].company = dr[d][r].company
            /\ g[r].detail = dr[d][r].detail /\ g[r].id = dr[d][r].id
      BY <2>1 DEF GridRows
    <3> QED
      BY <3>1 DEF RowsKept, DraftRows
  <2> QED
    BY <1>2, <1>3, <1>4, <1>6, <2>1, <2>2, <2>3
<1>7. CASE DOMAIN dr[d] = {}
  <2>1. IsGrid(g) /\ \A r \in 1..Len(g) : Linked(g[r]) => items[g[r].id].version > 0
    BY <1>2, <1>3, <1>4, <1>7, ProductsComeBack
  <2>2. GridLinked(g)
    BY <1>2, <1>4, <2>1 DEF GridLinked, ItemsLinked, Linked
  <2>3. RowsKept(DraftRows(dr[d]), GridRows(g))
    BY <1>7 DEF RowsKept, DraftRows
  <2> QED
    BY <1>2, <1>3, <1>4, <1>7, <2>1, <2>2, <2>3
<1> QED
  BY <1>6, <1>7

LEMMA LoadKeepsInvariant ==
    ASSUME WorksheetInvariant, NEW d, NEW dr, NEW c, NEW known, CanLoad(d, dr, c),
           LoadEntryRows(d, dr, c, known),
           UNCHANGED <<products, now>>, open', date' = d, save' = Idle, open' \in BOOLEAN,
           timers' \in [draft : BOOLEAN, auto : BOOLEAN], pending' \subseteq Nat \ {0}
    PROVE  WorksheetInvariant'
<1>1. /\ cache'.items \in [Ids -> Product] /\ ItemsLinked(cache'.items)
      /\ IsGrid(grid') /\ GridLinked(grid')
      /\ DOMAIN dr[d] # {} => drafts' = [dr EXCEPT ![d] = DraftOf(grid')]
      /\ DOMAIN dr[d] = {} => drafts' = dr
  BY LoadedRows
<1>2. d \in Dates /\ DOMAIN dr = Dates /\ \A e \in Dates : IsDraft(dr[e]) /\ DraftLinked(dr[e])
  BY DEF CanLoad, AreDrafts
<1>3. PICK g : g = grid'
  OBVIOUS
<1>4. /\ IsDraft(DraftOf(g)) /\ DraftLinked(DraftOf(g))
      /\ RowsKept(GridRows(g), DraftRows(DraftOf(g)))
  <2>1. /\ IsDraft(DraftOf(g)) /\ DOMAIN DraftOf(g) \subseteq 1..Len(g)
        /\ \A r \in DOMAIN DraftOf(g) : DraftOf(g)[r].id \in Ids => DraftOf(g)[r].id = g[r].id
        /\ RowsKept(GridRows(g), DraftRows(DraftOf(g)))
    BY <1>1, <1>3, DraftOfGrid
  <2> QED
    BY <1>1, <1>3, <2>1 DEF DraftLinked, GridLinked, Linked
<1>5. /\ DOMAIN drafts' = Dates /\ \A e \in Dates : IsDraft(drafts'[e]) /\ DraftLinked(drafts'[e])
      /\ drafts'[d] = IF DOMAIN dr[d] = {} THEN dr[d] ELSE DraftOf(g)
  BY <1>1, <1>2, <1>3, <1>4
<1>6. shown' = d
  BY DEF LoadEntryRows
<1>7. TablesTyped'
  BY <1>1 DEF WorksheetInvariant, TablesTyped
<1>8. WindowTyped'
  BY <1>1, <1>2, <1>5, <1>6 DEF WindowTyped, AreDrafts
<1>9. SaveTyped'
  BY IdleSaveTyped DEF SaveTyped, Idle, NoCall
<1>10. DraftIsCurrent'
  <2>1. DOMAIN drafts'[d] # {} => RowsKept(GridRows(g), DraftRows(drafts'[d]))
    BY <1>4, <1>5
  <2> QED
    BY <1>3, <1>6, <2>1 DEF DraftIsCurrent, Drafted
<1>11. LinksStored'
  BY <1>1, <1>3, <1>5, SameLinks DEF LinksStored
<1> QED
  BY <1>7, <1>8, <1>9, <1>10, <1>11 DEF WorksheetInvariant

LEMMA FailedLoadKeepsInvariant ==
    ASSUME WorksheetInvariant, NEW d, NEW dr, NEW c, NEW known, CanLoad(d, dr, c),
           LoadRaises(d, dr, c, known),
           UNCHANGED <<products, now, open, timers, pending>>, date' = d, save' = Idle,
           shown = d /\ ~timers.draft /\ DOMAIN dr[d] # {} =>
                RowsKept(GridRows(grid), DraftRows(dr[d]))
    PROVE  WorksheetInvariant'
<1>1. /\ d \in Dates /\ AreDrafts(dr) /\ \A e \in Dates : DraftLinked(dr[e])
      /\ c.items \in [Ids -> Product] /\ ItemsLinked(c.items)
  BY DEF CanLoad
<1>2. /\ cache' = c /\ drafts' = dr /\ UNCHANGED grid
      /\ shown' = IF shown = d THEN d ELSE NoDate
  BY DEF LoadRaises
<1>3. TablesTyped'
  BY <1>1, <1>2 DEF WorksheetInvariant, TablesTyped
<1>4. WindowTyped'
  BY <1>1, <1>2 DEF WorksheetInvariant, WindowTyped
<1>5. SaveTyped'
  BY IdleSaveTyped DEF SaveTyped, Idle, NoCall
<1>6. DraftIsCurrent'
  <2>1. NoDate # d
    BY <1>1, WorksheetAssumption
  <2> QED
    BY <1>2, <2>1 DEF DraftIsCurrent, Drafted
<1>7. LinksStored'
  BY <1>1, <1>2, SameLinks DEF WorksheetInvariant, LinksStored
<1> QED
  BY <1>3, <1>4, <1>5, <1>6, <1>7 DEF WorksheetInvariant

-----------------------------------------------------------------------------
(* Edits of one row *)

LEMMA Signalled ==
    ASSUME WorksheetInvariant, NEW rows \in SUBSET (Nat \ {0}), ItemsChanged(rows)
    PROVE  /\ timers' \in [draft : BOOLEAN, auto : BOOLEAN] /\ timers'.draft
           /\ pending' \subseteq Nat \ {0}
BY DEF WorksheetInvariant, WindowTyped, ItemsChanged

LEMMA CellTyped ==
    ASSUME NEW row \in Row, NEW column \in Columns, NEW text \in Texts(column)
    PROVE  [row EXCEPT ![column] = text] \in Row /\ [row EXCEPT ![column] = text].id = row.id
<1>1. CASE column = "company"
  <2>1. text \in Companies \cup {""}
    BY <1>1 DEF Texts
  <2> QED
    BY <1>1, <2>1 DEF Row
<1>2. CASE column = "detail"
  <2>1. text \in Details \cup {""}
    BY <1>2 DEF Texts
  <2> QED
    BY <1>2, <2>1 DEF Row
<1>3. CASE column = "size"
  <2>1. text \in Sizes \cup {""}
    BY <1>3 DEF Texts
  <2> QED
    BY <1>3, <2>1 DEF Row
<1> QED
  BY <1>1, <1>2, <1>3 DEF Columns

LEMMA IdChanged ==
    ASSUME NEW row \in Row, NEW id \in Ids \cup {NoId, NoItem}
    PROVE  /\ [row EXCEPT !.id = id] \in Row /\ [row EXCEPT !.id = id].id = id
           /\ [row EXCEPT !.id = id].company = row.company
           /\ [row EXCEPT !.id = id].detail = row.detail
BY DEF Row

LEMMA RecodedTyped ==
    ASSUME NEW row \in Row, NEW r \in Nat, date \in Dates
    PROVE  Recoded(row, r) \in Row /\ Recoded(row, r).id = row.id
<1>1. CASE row.company = "" \/ row.detail = ""
  <2>1. [row EXCEPT !.code = NoCode, !.label = FALSE] \in Row
    BY CodesTyped DEF Row
  <2>2. [row EXCEPT !.code = NoCode, !.label = FALSE].id = row.id
    BY DEF Row
  <2> QED
    BY <1>1, <2>1, <2>2 DEF Recoded
<1>2. CASE ~(row.company = "" \/ row.detail = "")
  <2>1. PICK code : code = Preview(row, r, date)
    OBVIOUS
  <2>2. row.company \in Companies /\ row.detail \in Details
    BY <1>2, RowFields
  <2>3. code \in Codes
    BY <2>1, <2>2, PreviewTyped
  <2>4. [row EXCEPT !.code = code, !.label = TRUE] \in Row
    BY <2>3 DEF Row
  <2>5. [row EXCEPT !.code = code, !.label = TRUE].id = row.id
    BY DEF Row
  <2> QED
    BY <1>2, <2>1, <2>4, <2>5 DEF Recoded
<1> QED
  BY <1>1, <1>2

LEMMA RowReplaced ==
    ASSUME NEW g, IsGrid(g), NEW r \in 1..Len(g), NEW new \in Row
    PROVE  /\ IsGrid([g EXCEPT ![r] = new]) /\ Len([g EXCEPT ![r] = new]) = Len(g)
           /\ \A s \in 1..Len(g) : [g EXCEPT ![r] = new][s] = IF s = r THEN new ELSE g[s]
BY ExceptSeq DEF IsGrid

\* The links of a grid are among those of another one, each at a row of its own.
LinkedRows(g) == {r \in 1..Len(g) : Linked(g[r])}
Rearranged(new, old) ==
    \E from \in [LinkedRows(new) -> 1..Len(old)] :
        /\ \A r, s \in LinkedRows(new) : from[r] = from[s] => r = s
        /\ \A r \in LinkedRows(new) : new[r].id = old[from[r]].id

LEMMA RearrangedInvariant ==
    ASSUME WorksheetInvariant, GridEdit, Rearranged(grid', grid)
    PROVE  WorksheetInvariant'
<1>1. \A r \in 1..Len(grid') : Linked(grid'[r]) => \E s \in 1..Len(grid) : grid[s].id = grid'[r].id
  BY DEF Rearranged, LinkedRows
<1> QED
  BY <1>1, GridEdited

LEMMA StaysInPlace ==
    ASSUME NEW new, NEW old, Len(new) \in Nat, Len(old) \in Nat,
           \A r \in LinkedRows(new) : r \in 1..Len(old) /\ new[r].id = old[r].id
    PROVE  Rearranged(new, old)
<1> DEFINE from == [r \in LinkedRows(new) |-> r]
<1>1. from \in [LinkedRows(new) -> 1..Len(old)]
  OBVIOUS
<1> QED
  BY <1>1 DEF Rearranged

LEMMA RowEdited ==
    ASSUME WorksheetInvariant, Ready, Kept, NEW r \in 1..Len(grid), NEW new \in Row,
           grid' = [grid EXCEPT ![r] = new], ItemsChanged({r})
    PROVE  /\ GridEdit /\ Len(grid') = Len(grid)
           /\ \A s \in 1..Len(grid) : grid'[s] = IF s = r THEN new ELSE grid[s]
           /\ (Linked(new) => new.id = grid[r].id) => Rearranged(grid', grid)
<1>1. IsGrid(grid)
  BY DEF WorksheetInvariant, WindowTyped
<1>2. /\ IsGrid(grid') /\ Len(grid') = Len(grid)
      /\ \A s \in 1..Len(grid) : grid'[s] = IF s = r THEN new ELSE grid[s]
  <2>1. PICK g : g = grid
    OBVIOUS
  <2>2. /\ IsGrid([g EXCEPT ![r] = new]) /\ Len([g EXCEPT ![r] = new]) = Len(g)
        /\ \A s \in 1..Len(g) : [g EXCEPT ![r] = new][s] = IF s = r THEN new ELSE g[s]
    <3>1. IsGrid(g) /\ r \in 1..Len(g)
      BY <1>1, <2>1
    <3> QED
      BY <3>1, RowReplaced
  <2> QED
    BY <2>1, <2>2
<1>3. {r} \in SUBSET (Nat \ {0})
  BY <1>1, RowsAreTyped
<1>4. /\ timers' \in [draft : BOOLEAN, auto : BOOLEAN] /\ timers'.draft
      /\ pending' \subseteq Nat \ {0}
  BY <1>3, Signalled
<1>5. ASSUME Linked(new) => new.id = grid[r].id
      PROVE  Rearranged(grid', grid)
  <2>1. \A s \in LinkedRows(grid') : s \in 1..Len(grid) /\ grid'[s].id = grid[s].id
    BY <1>2, <1>5 DEF LinkedRows
  <2>2. Len(grid) \in Nat
    BY <1>1, RowsAreTyped
  <2> QED
    BY <1>2, <2>1, <2>2, StaysInPlace
<1> QED
  BY <1>2, <1>4, <1>5 DEF GridEdit

LEMMA TypeCellEdits ==
    ASSUME WorksheetInvariant, NEW r \in 1..Len(grid), NEW column \in Columns,
           NEW text \in Texts(column), TypeCell(r, column, text)
    PROVE  GridEdit /\ Rearranged(grid', grid)
<1>1. IsGrid(grid) /\ date \in Dates
  BY DEF WorksheetInvariant, WindowTyped
<1>2. PICK old \in Row : old = grid[r]
  BY <1>1, RowsAreTyped
<1>3. PICK typed : typed = [old EXCEPT ![column] = text]
  OBVIOUS
<1>4. typed \in Row /\ typed.id = old.id
  BY <1>3, CellTyped
<1>5. PICK row : row = IF column = "company" /\ typed.id = NoItem THEN [typed EXCEPT !.id = NoId]
                       ELSE typed
  OBVIOUS
<1>6. row \in Row /\ (Linked(row) => row.id = old.id)
  BY <1>4, <1>5, IdChanged, NoSuchProduct DEF Linked
<1>7. PICK new : new = Recoded(row, r)
  OBVIOUS
<1>8. new \in Row /\ (Linked(new) => new.id = old.id)
  <2>1. r \in Nat
    BY <1>1, RowsAreTyped
  <2>2. new \in Row /\ new.id = row.id
    BY <1>1, <1>6, <1>7, <2>1, RecodedTyped
  <2> QED
    BY <1>6, <2>2 DEF Linked
<1>9. Ready /\ Kept /\ ItemsChanged({r}) /\ grid' = [grid EXCEPT ![r] = new]
  BY <1>2, <1>3, <1>5, <1>7 DEF TypeCell, Edit
<1> QED
  BY <1>2, <1>8, <1>9, RowEdited

LEMMA PasteCellEdits ==
    ASSUME WorksheetInvariant, NEW r \in 1..Len(grid), NEW column \in Columns,
           NEW text \in Texts(column), PasteCell(r, column, text)
    PROVE  GridEdit /\ Rearranged(grid', grid)
<1>1. IsGrid(grid) /\ date \in Dates
  BY DEF WorksheetInvariant, WindowTyped
<1>2. PICK old \in Row : old = grid[r]
  BY <1>1, RowsAreTyped
<1>3. PICK pasted : pasted = [old EXCEPT ![column] = text]
  OBVIOUS
<1>4. pasted \in Row /\ pasted.id = old.id
  BY <1>3, CellTyped
<1>5. PICK row : row = IF column = "company" THEN [pasted EXCEPT !.id = NoId] ELSE pasted
  OBVIOUS
<1>6. row \in Row /\ (Linked(row) => row.id = old.id)
  BY <1>4, <1>5, IdChanged, NoSuchProduct DEF Linked
<1>7. PICK new : new = Recoded(row, r)
  OBVIOUS
<1>8. new \in Row /\ (Linked(new) => new.id = old.id)
  <2>1. r \in Nat
    BY <1>1, RowsAreTyped
  <2>2. new \in Row /\ new.id = row.id
    BY <1>1, <1>6, <1>7, <2>1, RecodedTyped
  <2> QED
    BY <1>6, <2>2 DEF Linked
<1>9. Ready /\ Kept /\ ItemsChanged({r}) /\ grid' = [grid EXCEPT ![r] = new]
  BY <1>2, <1>3, <1>5, <1>7 DEF PasteCell, Edit
<1> QED
  BY <1>2, <1>8, <1>9, RowEdited

LEMMA ClonedTyped ==
    ASSUME NEW source \in Row, NEW target \in Row, NEW columns
    PROVE  Cloned(source, target, columns) \in Row
           /\ Cloned(source, target, columns).id \in {source.id, target.id}
<1>1. PICK company, detail, size :
        /\ company = IF "company" \in columns THEN source.company ELSE target.company
        /\ detail = IF "detail" \in columns THEN source.detail ELSE target.detail
        /\ size = IF "size" \in columns THEN source.size ELSE target.size
  OBVIOUS
<1>2. /\ company \in Companies \cup {""} /\ detail \in Details \cup {""} /\ size \in Sizes \cup {""}
  BY <1>1, RowFields
<1>3. PICK row : row = [target EXCEPT !.company = company, !.detail = detail, !.size = size]
  OBVIOUS
<1>4. row \in Row /\ row.id = target.id
  BY <1>2, <1>3 DEF Row
<1>5. Cloned(source, target, columns) =
        IF "company" \in columns THEN [row EXCEPT !.id = source.id] ELSE row
  BY <1>1, <1>3 DEF Cloned
<1>6. source.id \in Ids \cup {NoId, NoItem}
  BY RowFields
<1>7. [row EXCEPT !.id = source.id] \in Row /\ [row EXCEPT !.id = source.id].id = source.id
  BY <1>4, <1>6, IdChanged
<1> QED
  BY <1>4, <1>5, <1>7

LEMMA FillDownInvariant ==
    ASSUME WorksheetInvariant, NEW r \in 1..Len(grid), NEW columns, FillDown(r, columns)
    PROVE  WorksheetInvariant'
<1>1. IsGrid(grid) /\ Len(grid) \in Nat
  BY RowsAreTyped DEF WorksheetInvariant, WindowTyped
<1>2. r + 1 \in 1..Len(grid)
  BY <1>1 DEF FillDown
<1>3. grid[r] \in Row /\ grid[r + 1] \in Row
  BY <1>1, <1>2, RowsAreTyped
<1>4. PICK new : new = Cloned(grid[r], grid[r + 1], columns)
  OBVIOUS
<1>5. new \in Row /\ new.id \in {grid[r].id, grid[r + 1].id}
  BY <1>3, <1>4, ClonedTyped
<1>6. Ready /\ Kept /\ ItemsChanged({r + 1}) /\ grid' = [grid EXCEPT ![r + 1] = new]
  BY <1>4 DEF FillDown, Edit
<1>7. /\ GridEdit /\ Len(grid') = Len(grid)
      /\ \A s \in 1..Len(grid) : grid'[s] = IF s = r + 1 THEN new ELSE grid[s]
  BY <1>2, <1>5, <1>6, RowEdited
<1>8. \A s \in 1..Len(grid') : \E u \in 1..Len(grid) : grid[u].id = grid'[s].id
  BY <1>2, <1>5, <1>7
<1> QED
  BY <1>7, <1>8, GridEdited

-----------------------------------------------------------------------------
(* Edits that move rows, and those that no edit of the user are *)

LEMMA InsertRowEdits ==
    ASSUME WorksheetInvariant, NEW r \in 1..Len(grid), InsertRow(r)
    PROVE  GridEdit /\ Rearranged(grid', grid)
<1>1. /\ IsGrid(grid) /\ grid \in Seq(Row) /\ Len(grid) \in Nat /\ MaxRows \in Nat
      /\ timers \in [draft : BOOLEAN, auto : BOOLEAN] /\ pending \subseteq Nat \ {0}
  BY MaxRowsIsNumber, RowsAreTyped DEF WorksheetInvariant, WindowTyped, IsGrid
<1>2. /\ Ready /\ Kept /\ UNCHANGED <<timers, pending>> /\ Len(grid) < MaxRows
      /\ grid' = InsertAt(grid, r, InsertedRow)
  BY DEF InsertRow, Edit
<1>3. /\ grid' \in Seq(Row) /\ Len(grid') = Len(grid) + 1
      /\ \A k \in 1..(Len(grid) + 1) :
            grid'[k] = IF k < r THEN grid[k] ELSE IF k = r THEN InsertedRow ELSE grid[k - 1]
  <2>1. r \in 1..(Len(grid) + 1)
    BY <1>1
  <2>2. PICK g \in Seq(Row), e \in Row : g = grid /\ e = InsertedRow
    BY <1>1, BlankRows
  <2>3. r \in 1..(Len(g) + 1)
    BY <2>1, <2>2
  <2>4. /\ InsertAt(g, r, e) \in Seq(Row) /\ Len(InsertAt(g, r, e)) = Len(g) + 1
        /\ \A k \in 1..(Len(g) + 1) :
              InsertAt(g, r, e)[k] = IF k < r THEN g[k] ELSE IF k = r THEN e ELSE g[k - 1]
    BY <2>3, Inserted
  <2> QED
    BY <1>2, <2>2, <2>4
<1>4. IsGrid(grid')
  BY <1>1, <1>2, <1>3 DEF IsGrid
<1>5. RowsKept(GridRows(grid'), GridRows(grid))
  <2>1. ASSUME NEW k \in 1..Len(grid'), HasWork(grid'[k])
        PROVE  grid'[k] \in GridRows(grid)
    <3>1. k \in 1..(Len(grid) + 1)
      BY <1>3
    <3>2. CASE k < r
      <4>1. grid'[k] = grid[k] /\ k \in 1..Len(grid)
        BY <1>1, <1>3, <3>1, <3>2
      <4> QED
        BY <4>1 DEF GridRows
    <3>3. CASE k > r
      <4>1. grid'[k] = grid[k - 1] /\ k - 1 \in 1..Len(grid)
        BY <1>1, <1>3, <3>1, <3>3
      <4> QED
        BY <4>1 DEF GridRows
    <3>4. k # r
      BY <1>3, <2>1, <3>1, BlankRows
    <3> QED
      BY <1>1, <3>1, <3>2, <3>3, <3>4
  <2> QED
    BY <2>1 DEF RowsKept, GridRows
<1>6. Rearranged(grid', grid)
  <2> DEFINE from == [k \in LinkedRows(grid') |-> IF k < r THEN k ELSE k - 1]
  <2>1. \A k \in LinkedRows(grid') : k \in 1..Len(grid') /\ k # r
    BY <1>3, BlankRows DEF LinkedRows
  <2>2. from \in [LinkedRows(grid') -> 1..Len(grid)]
    BY <1>1, <1>3, <2>1
  <2>3. \A k, n \in LinkedRows(grid') : from[k] = from[n] => k = n
    BY <1>1, <1>3, <2>1
  <2>4. \A k \in LinkedRows(grid') : grid'[k].id = grid[from[k]].id
    BY <1>1, <1>3, <2>1
  <2> QED
    BY <2>2, <2>3, <2>4 DEF Rearranged
<1> QED
  BY <1>1, <1>2, <1>4, <1>5, <1>6 DEF GridEdit

LEMMA RowRemoved ==
    ASSUME NEW g, IsGrid(g), NEW r \in 1..Len(g)
    PROVE  /\ IsGrid(RemoveAt(g, r)) /\ Rearranged(RemoveAt(g, r), g)
           /\ RowsKept(GridRows(RemoveAt(g, r)), GridRows(g))
<1>1. g \in Seq(Row) /\ Len(g) \in Nat /\ Len(g) <= MaxRows /\ MaxRows \in Nat
  BY MaxRowsIsNumber, RowsAreTyped DEF IsGrid
<1>2. PICK new : new = RemoveAt(g, r)
  OBVIOUS
<1>3. /\ new \in Seq(Row) /\ Len(new) = Len(g) - 1
      /\ \A k \in 1..(Len(g) - 1) : new[k] = IF k < r THEN g[k] ELSE g[k + 1]
  BY <1>1, <1>2, Removed
<1>4. IsGrid(new)
  BY <1>1, <1>3 DEF IsGrid
<1>5. RowsKept(GridRows(new), GridRows(g))
  <2>1. \A k \in 1..Len(new) : new[k] \in GridRows(g)
    BY <1>1, <1>3 DEF GridRows
  <2> QED
    BY <2>1 DEF RowsKept, GridRows
<1>6. Rearranged(new, g)
  <2> DEFINE from == [k \in LinkedRows(new) |-> IF k < r THEN k ELSE k + 1]
  <2>1. \A k \in LinkedRows(new) : k \in 1..Len(new)
    BY DEF LinkedRows
  <2>2. from \in [LinkedRows(new) -> 1..Len(g)]
    BY <1>1, <1>3, <2>1
  <2>3. \A k, n \in LinkedRows(new) : from[k] = from[n] => k = n
    BY <1>1, <1>3, <2>1
  <2>4. \A k \in LinkedRows(new) : new[k].id = g[from[k]].id
    BY <1>1, <1>3, <2>1
  <2> QED
    BY <2>2, <2>3, <2>4 DEF Rearranged
<1> QED
  BY <1>2, <1>4, <1>5, <1>6

LEMMA DeleteRowEdits ==
    ASSUME WorksheetInvariant, NEW r \in 1..Len(grid), DeleteRow(r)
    PROVE  GridEdit /\ Rearranged(grid', grid)
<1>1. /\ IsGrid(grid) /\ Len(grid) \in Nat /\ Len(grid) <= MaxRows /\ MaxRows \in Nat
      /\ timers \in [draft : BOOLEAN, auto : BOOLEAN] /\ pending \subseteq Nat \ {0}
  BY MaxRowsIsNumber, RowsAreTyped DEF WorksheetInvariant, WindowTyped, IsGrid
<1>2. /\ Ready /\ Kept /\ UNCHANGED <<timers, pending>>
      /\ grid' = IF Len(grid) = 1 THEN <<InsertedRow>> ELSE RemoveAt(grid, r)
  BY DEF DeleteRow, Edit
<1>3. CASE Len(grid) = 1
  <2>1. grid' \in Seq(Row) /\ Len(grid') = 1 /\ grid'[1] = InsertedRow
    BY <1>2, <1>3, BlankRows
  <2>2. IsGrid(grid')
    BY <1>1, <1>3, <2>1 DEF IsGrid
  <2>3. LinkedRows(grid') = {}
    BY <2>1, BlankRows DEF LinkedRows
  <2>4. RowsKept(GridRows(grid'), GridRows(grid))
    BY <2>1, BlankRows DEF RowsKept, GridRows
  <2>5. Rearranged(grid', grid)
    BY <1>1, <2>1, <2>3, StaysInPlace
  <2> QED
    BY <1>1, <1>2, <2>2, <2>4, <2>5 DEF GridEdit
<1>4. CASE Len(grid) # 1
  <2>1. /\ IsGrid(grid') /\ Rearranged(grid', grid) /\ RowsKept(GridRows(grid'), GridRows(grid))
    BY <1>1, <1>2, <1>4, RowRemoved
  <2> QED
    BY <1>1, <1>2, <2>1 DEF GridEdit
<1> QED
  BY <1>3, <1>4

LEMMA MovedRearranges ==
    ASSUME NEW g, IsGrid(g), NEW r \in 1..Len(g), NEW target \in 1..Len(g)
    PROVE  IsGrid(Moved(g, r, target)) /\ Rearranged(Moved(g, r, target), g)
<1>1. g \in Seq(Row) /\ Len(g) \in Nat /\ Len(g) <= MaxRows /\ MaxRows \in Nat /\ g[r] \in Row
  BY MaxRowsIsNumber, RowsAreTyped DEF IsGrid
<1>2. PICK row : row = IF g[r].id = NoItem THEN [g[r] EXCEPT !.id = NoId] ELSE g[r]
  OBVIOUS
<1>3. row \in Row /\ (Linked(row) => row.id = g[r].id)
  BY <1>1, <1>2, IdChanged, NoSuchProduct DEF Linked
<1>4. PICK mid, at : mid = InsertAt(g, target, row) /\ at = IF target < r THEN r + 1 ELSE r
  OBVIOUS
<1>5. /\ mid \in Seq(Row) /\ Len(mid) = Len(g) + 1
      /\ \A k \in 1..(Len(g) + 1) :
            mid[k] = IF k < target THEN g[k] ELSE IF k = target THEN row ELSE g[k - 1]
  <2>1. target \in 1..(Len(g) + 1) /\ g \in Seq(Row) /\ row \in Row
    BY <1>1, <1>3
  <2>2. /\ InsertAt(g, target, row) \in Seq(Row) /\ Len(InsertAt(g, target, row)) = Len(g) + 1
        /\ \A k \in 1..(Len(g) + 1) :
              InsertAt(g, target, row)[k] =
                 IF k < target THEN g[k] ELSE IF k = target THEN row ELSE g[k - 1]
    BY <2>1, Inserted
  <2> QED
    BY <1>4, <2>2
<1>6. at \in 1..Len(mid)
  BY <1>1, <1>4, <1>5
<1>7. PICK new : new = RemoveAt(mid, at)
  OBVIOUS
<1>8. /\ new \in Seq(Row) /\ Len(new) = Len(g)
      /\ \A k \in 1..Len(g) : new[k] = IF k < at THEN mid[k] ELSE mid[k + 1]
  <2>1. /\ new \in Seq(Row) /\ Len(new) = Len(mid) - 1
        /\ \A k \in 1..(Len(mid) - 1) : new[k] = IF k < at THEN mid[k] ELSE mid[k + 1]
    BY <1>5, <1>6, <1>7, Removed
  <2> QED
    BY <1>1, <1>5, <2>1
<1>9. new = Moved(g, r, target)
  BY <1>2, <1>4, <1>7 DEF Moved
<1>10. IsGrid(new)
  BY <1>1, <1>8 DEF IsGrid
<1>11. Rearranged(new, g)
  <2> DEFINE Origin(k) ==
        LET inserted == IF k < at THEN k ELSE k + 1
        IN  IF inserted < target THEN inserted ELSE IF inserted = target THEN r ELSE inserted - 1
  <2> DEFINE from == [k \in LinkedRows(new) |-> Origin(k)]
  <2>1. \A k \in LinkedRows(new) : k \in 1..Len(g)
    BY <1>8 DEF LinkedRows
  <2>2. \A k \in 1..Len(g) : Origin(k) \in 1..Len(g)
    BY <1>1, <1>4
  <2>3. \A k, n \in 1..Len(g) : Origin(k) = Origin(n) => k = n
    BY <1>1, <1>4
  <2>4. \A k \in LinkedRows(new) : new[k].id = g[Origin(k)].id
    <3>1. SUFFICES ASSUME NEW k \in LinkedRows(new)
                   PROVE  new[k].id = g[Origin(k)].id
      OBVIOUS
    <3>2. PICK inserted : inserted = IF k < at THEN k ELSE k + 1
      OBVIOUS
    <3>3. new[k] = mid[inserted] /\ inserted \in 1..(Len(g) + 1)
      BY <1>1, <1>4, <1>8, <2>1, <3>2
    <3>4. mid[inserted] = IF inserted < target THEN g[inserted]
                          ELSE IF inserted = target THEN row ELSE g[inserted - 1]
      BY <1>5, <3>3
    <3>5. Linked(new[k])
      BY DEF LinkedRows
    <3> QED
      BY <1>3, <3>2, <3>3, <3>4, <3>5
  <2>5. from \in [LinkedRows(new) -> 1..Len(g)]
    BY <2>1, <2>2
  <2> HIDE DEF Origin
  <2>6. \A k, n \in LinkedRows(new) : from[k] = from[n] => k = n
    BY <2>1, <2>3
  <2>7. \A k \in LinkedRows(new) : new[k].id = g[from[k]].id
    BY <2>4
  <2> QED
    BY <2>5, <2>6, <2>7 DEF Rearranged
<1> QED
  BY <1>9, <1>10, <1>11

LEMMA MoveRowEdits ==
    ASSUME WorksheetInvariant, NEW r \in 1..Len(grid), NEW target, MoveRow(r, target)
    PROVE  GridEdit /\ Rearranged(grid', grid)
<1>1. IsGrid(grid) /\ Len(grid) \in Nat
  BY RowsAreTyped DEF WorksheetInvariant, WindowTyped
<1>2. /\ Ready /\ Kept /\ target \in 1..Len(grid) /\ ItemsChanged({target})
      /\ grid' = Moved(grid, r, target)
  BY DEF MoveRow, Edit
<1>3. IsGrid(grid') /\ Rearranged(grid', grid)
  BY <1>1, <1>2, MovedRearranges
<1>4. {target} \in SUBSET (Nat \ {0})
  BY <1>1, <1>2
<1> QED
  BY <1>2, <1>3, <1>4, Signalled DEF GridEdit

LEMMA SortRowsEdits ==
    ASSUME WorksheetInvariant, SortRows
    PROVE  GridEdit /\ Rearranged(grid', grid)
<1>1. IsGrid(grid) /\ Len(grid) \in Nat /\ Len(grid) <= MaxRows
  BY RowsAreTyped DEF WorksheetInvariant, WindowTyped, IsGrid
<1>2. PICK order \in SetToSeqs(1..Len(grid)) : grid' = [i \in 1..Len(grid) |-> grid[order[i]]]
  BY DEF SortRows
<1>3. Ready /\ Kept /\ ItemsChanged({r \in 1..Len(grid) : grid'[r] # InsertedRow})
  BY DEF SortRows, Edit
<1>4. Cardinality(1..Len(grid)) = Len(grid)
  <2>1. Cardinality(1..Len(grid)) = IF 1 > Len(grid) THEN 0 ELSE Len(grid) - 1 + 1
    BY <1>1, FS_Interval
  <2> QED
    BY <1>1, <2>1
<1>5. /\ order \in [1..Len(grid) -> 1..Len(grid)]
      /\ \A i, j \in 1..Len(grid) : i # j => order[i] # order[j]
  BY <1>2, <1>4 DEF SetToSeqs
<1>6. grid' \in [1..Len(grid) -> Row]
  <2>1. \A i \in 1..Len(grid) : grid[order[i]] \in Row
    BY <1>1, <1>5, RowsAreTyped
  <2> QED
    BY <1>2, <2>1
<1>7. IsGrid(grid') /\ Len(grid') = Len(grid)
  BY <1>1, <1>6 DEF IsGrid
<1>8. Rearranged(grid', grid)
  <2> DEFINE from == [r \in LinkedRows(grid') |-> order[r]]
  <2>1. LinkedRows(grid') \subseteq 1..Len(grid)
    BY <1>7 DEF LinkedRows
  <2>2. from \in [LinkedRows(grid') -> 1..Len(grid)]
    BY <1>5, <2>1
  <2>3. \A r, s \in LinkedRows(grid') : from[r] = from[s] => r = s
    BY <1>5, <2>1
  <2>4. \A r \in LinkedRows(grid') : grid'[r].id = grid[from[r]].id
    BY <1>2, <2>1
  <2> QED
    BY <2>2, <2>3, <2>4 DEF Rearranged
<1>9. {r \in 1..Len(grid) : grid'[r] # InsertedRow} \in SUBSET (Nat \ {0})
  BY <1>1
<1> QED
  BY <1>3, <1>7, <1>8, <1>9, Signalled DEF GridEdit

LEMMA ClearRowsEdits ==
    ASSUME WorksheetInvariant, ClearRows
    PROVE  GridEdit /\ Rearranged(grid', grid)
<1>1. IsGrid(grid) /\ Len(grid) \in Nat /\ Len(grid) <= MaxRows
  BY RowsAreTyped DEF WorksheetInvariant, WindowTyped, IsGrid
<1>2. /\ Ready /\ Kept /\ ItemsChanged(1..Len(grid))
      /\ grid' = [r \in 1..Len(grid) |-> BlankRow]
  BY DEF ClearRows, Edit
<1>3. grid' \in [1..Len(grid) -> Row]
  BY <1>2, BlankRows
<1>4. IsGrid(grid') /\ Len(grid') = Len(grid)
  BY <1>1, <1>3 DEF IsGrid
<1>5. LinkedRows(grid') = {}
  BY <1>2, <1>4, BlankRows DEF LinkedRows
<1>6. Rearranged(grid', grid)
  BY <1>1, <1>4, <1>5, StaysInPlace
<1>7. 1..Len(grid) \in SUBSET (Nat \ {0})
  BY <1>1
<1> QED
  BY <1>2, <1>4, <1>6, <1>7, Signalled DEF GridEdit

LEMMA KeptRowByRow ==
    ASSUME NEW g, NEW h,
           \A s \in 1..Len(g) : /\ s \in 1..Len(h) /\ h[s].company = g[s].company
                                /\ h[s].detail = g[s].detail /\ h[s].id = g[s].id
    PROVE  RowsKept(GridRows(g), GridRows(h))
<1>1. \A s \in 1..Len(g) : h[s] \in GridRows(h)
  BY DEF GridRows
<1>2. \A a \in GridRows(g) : \E s \in 1..Len(g) : a = g[s]
  BY DEF GridRows
<1>3. \A a \in GridRows(g) : \E b \in GridRows(h) :
        b.company = a.company /\ b.detail = a.detail /\ b.id = a.id
  BY <1>1, <1>2
<1> QED
  BY <1>3 DEF RowsKept

LEMMA CopyQrLabelEdits ==
    ASSUME WorksheetInvariant, NEW r \in 1..Len(grid), CopyQrLabel(r)
    PROVE  /\ GridEdit /\ Rearranged(grid', grid)
           /\ RowsKept(GridRows(grid), GridRows(grid'))
<1>1. IsGrid(grid)
  BY DEF WorksheetInvariant, WindowTyped
<1>2. PICK old \in Row : old = grid[r]
  BY <1>1, RowsAreTyped
<1>3. PICK new : new = [old EXCEPT !.label = FALSE]
  OBVIOUS
<1>4. new \in Row /\ new.id = old.id /\ new.company = old.company /\ new.detail = old.detail
  BY <1>3 DEF Row
<1>5. Ready /\ Kept /\ ItemsChanged({r}) /\ grid' = [grid EXCEPT ![r] = new]
  BY <1>2, <1>3 DEF CopyQrLabel
<1>6. /\ GridEdit /\ Rearranged(grid', grid) /\ Len(grid') = Len(grid)
      /\ \A s \in 1..Len(grid) : grid'[s] = IF s = r THEN new ELSE grid[s]
  BY <1>2, <1>4, <1>5, RowEdited
<1>7. \A s \in 1..Len(grid) : /\ grid'[s].company = grid[s].company
                              /\ grid'[s].detail = grid[s].detail /\ grid'[s].id = grid[s].id
  BY <1>2, <1>4, <1>6
<1>8. RowsKept(GridRows(grid), GridRows(grid'))
  BY <1>6, <1>7, KeptRowByRow
<1> QED
  BY <1>6, <1>8

LEMMA AddRowEdits ==
    ASSUME WorksheetInvariant, AddRow
    PROVE  /\ GridEdit /\ Rearranged(grid', grid)
           /\ RowsKept(GridRows(grid), GridRows(grid'))
<1>1. /\ IsGrid(grid) /\ grid \in Seq(Row) /\ Len(grid) \in Nat /\ MaxRows \in Nat
      /\ timers \in [draft : BOOLEAN, auto : BOOLEAN] /\ pending \subseteq Nat \ {0}
  BY MaxRowsIsNumber, RowsAreTyped DEF WorksheetInvariant, WindowTyped, IsGrid
<1>2. /\ Ready /\ Kept /\ UNCHANGED <<timers, pending>> /\ Len(grid) < MaxRows
      /\ grid' = Append(grid, BlankRow)
  BY DEF AddRow
<1>3. /\ grid' \in Seq(Row) /\ Len(grid') = Len(grid) + 1
      /\ \A r \in 1..Len(grid) : grid'[r] = grid[r]
      /\ grid'[Len(grid) + 1] = BlankRow
  BY <1>1, <1>2, BlankRows, AppendProperties
<1>4. IsGrid(grid')
  BY <1>1, <1>2, <1>3 DEF IsGrid
<1>5. \A r \in 1..Len(grid') : r \in 1..Len(grid) \/ grid'[r] = BlankRow
  BY <1>1, <1>3
<1>6. Rearranged(grid', grid)
  <2>1. \A r \in LinkedRows(grid') : r \in 1..Len(grid) /\ grid'[r].id = grid[r].id
    BY <1>3, <1>5, BlankRows DEF LinkedRows
  <2> QED
    BY <1>1, <1>3, <2>1, StaysInPlace
<1>7. RowsKept(GridRows(grid'), GridRows(grid))
  BY <1>3, <1>5, BlankRows DEF RowsKept, GridRows
<1>8. RowsKept(GridRows(grid), GridRows(grid'))
  <2>1. \A r \in 1..Len(grid) : r \in 1..Len(grid')
    BY <1>1, <1>3
  <2> QED
    BY <1>3, <2>1 DEF RowsKept, GridRows
<1> QED
  BY <1>1, <1>2, <1>4, <1>6, <1>7, <1>8 DEF GridEdit

LEMMA TrimBlankRowsEdits ==
    ASSUME WorksheetInvariant, TrimBlankRows
    PROVE  /\ GridEdit /\ Rearranged(grid', grid)
           /\ RowsKept(GridRows(grid), GridRows(grid'))
<1>1. /\ IsGrid(grid) /\ grid \in Seq(Row) /\ Len(grid) \in Nat /\ Len(grid) <= MaxRows
      /\ timers \in [draft : BOOLEAN, auto : BOOLEAN] /\ pending \subseteq Nat \ {0}
  BY RowsAreTyped DEF WorksheetInvariant, WindowTyped, IsGrid
<1>2. PICK used : used = {r \in 1..Len(grid) : HasUserData(grid[r])}
  OBVIOUS
<1>3. PICK last : last = IF used = {} THEN 0 ELSE Max(used)
  OBVIOUS
<1>4. last \in 0..Len(grid) /\ \A r \in used : r <= last
  <2>1. used \in SUBSET (1..Len(grid))
    BY <1>2
  <2>2. used # {} => Max(used) \in used /\ \A r \in used : r <= Max(used)
    BY <1>1, <2>1, MaxIsGreatest
  <2> QED
    BY <1>1, <1>3, <2>1, <2>2
<1>5. PICK length : length = Length(last)
  OBVIOUS
<1>6. /\ Ready /\ Kept /\ UNCHANGED <<timers, pending>> /\ length < Len(grid)
      /\ grid' = SubSeq(grid, 1, length)
  BY <1>2, <1>3, <1>5 DEF TrimBlankRows
<1>7. length \in Nat /\ last <= length
  <2>1. last \in Nat /\ last <= MaxRows /\ MaxRows \in Nat
    BY <1>1, <1>4, MaxRowsIsNumber
  <2>2. length \in Nat /\ last <= length
    BY <1>5, <2>1, LengthHasRoom
  <2> QED
    BY <2>1, <2>2
<1>8. /\ grid' \in Seq(Row) /\ Len(grid') = length
      /\ \A r \in 1..length : grid'[r] = grid[r] /\ r \in 1..Len(grid)
  BY <1>1, <1>6, <1>7
<1>9. IsGrid(grid')
  BY <1>1, <1>6, <1>7, <1>8, MaxRowsIsNumber DEF IsGrid
<1>10. Rearranged(grid', grid)
  <2>1. \A r \in LinkedRows(grid') : r \in 1..Len(grid) /\ grid'[r].id = grid[r].id
    BY <1>8 DEF LinkedRows
  <2> QED
    BY <1>1, <1>7, <1>8, <2>1, StaysInPlace
<1>11. RowsKept(GridRows(grid'), GridRows(grid))
  BY <1>8 DEF RowsKept, GridRows
<1>12. RowsKept(GridRows(grid), GridRows(grid'))
  <2>1. \A r \in 1..Len(grid) : HasWork(grid[r]) => r \in used
    BY <1>2 DEF HasWork, HasUserData, Columns
  <2>2. \A r \in used : r \in 1..length
    BY <1>1, <1>2, <1>4, <1>7
  <2>3. \A r \in 1..Len(grid) : HasWork(grid[r]) => grid[r] \in GridRows(grid')
    BY <1>8, <2>1, <2>2 DEF GridRows
  <2> QED
    BY <2>3 DEF RowsKept, GridRows
<1> QED
  BY <1>1, <1>6, <1>9, <1>10, <1>11, <1>12 DEF GridEdit

-----------------------------------------------------------------------------
(* Dates, drafts, refreshes, and the life of the window *)

LEMMA RestsWhenReady ==
    ASSUME WorksheetInvariant, Ready \/ ~open
    PROVE  save = Idle
BY DEF WorksheetInvariant, SaveTyped, Ready

LEMMA CanLoadDrafts ==
    ASSUME WorksheetInvariant, NEW d \in Dates
    PROVE  /\ CanLoad(d, drafts, cache) /\ CanLoad(d, DraftSaved, cache)
           /\ CanLoad(d, drafts, NoCache) /\ CanLoad(d, DraftSaved, NoCache)
<1>1. /\ AreDrafts(drafts) /\ \A e \in Dates : DraftLinked(drafts[e])
      /\ cache.items \in [Ids -> Product] /\ ItemsLinked(cache.items)
  BY DEF WorksheetInvariant, WindowTyped, TablesTyped, LinksStored
<1>2. AreDrafts(DraftSaved) /\ \A e \in Dates : DraftLinked(DraftSaved[e])
  BY DraftSavedTyped
<1>3. NoCache.items \in [Ids -> Product] /\ ItemsLinked(NoCache.items)
  BY NoCacheTyped
<1> QED
  BY <1>1, <1>2, <1>3 DEF CanLoad

LEMMA ChangeDateInvariant ==
    ASSUME WorksheetInvariant, NEW d \in Dates, ChangeEntryDeliveryDate(d)
    PROVE  WorksheetInvariant'
<1>1. /\ UNCHANGED <<products, now, open, timers, pending, save>> /\ date' = d /\ Ready /\ d # date
      /\ open /\ open \in BOOLEAN
      /\ timers \in [draft : BOOLEAN, auto : BOOLEAN] /\ pending \subseteq Nat \ {0}
  BY DEF ChangeEntryDeliveryDate, Ready, WorksheetInvariant, WindowTyped
<1>2. save' = Idle
  BY <1>1, RestsWhenReady
<1>3. CanLoad(d, DraftSaved, cache)
  BY CanLoadDrafts
<1>4. CASE LoadEntryRows(d, DraftSaved, cache, versions)
  BY <1>1, <1>2, <1>3, <1>4, LoadKeepsInvariant
<1>5. CASE LoadRaises(d, DraftSaved, cache, versions)
  <2>1. shown # d
    BY <1>1, WorksheetAssumption DEF WorksheetInvariant, DraftIsCurrent
  <2> QED
    BY <1>1, <1>2, <1>3, <1>5, <2>1, FailedLoadKeepsInvariant
<1> QED
  BY <1>4, <1>5 DEF ChangeEntryDeliveryDate

LEMMA CommitDateInvariant ==
    ASSUME WorksheetInvariant, NEW d \in Dates, CommitEntryDeliveryDate(d)
    PROVE  WorksheetInvariant'
<1>1. /\ UNCHANGED <<products, now, open, timers, pending, save>> /\ date' = d /\ Ready
      /\ open /\ open \in BOOLEAN
      /\ timers \in [draft : BOOLEAN, auto : BOOLEAN] /\ pending \subseteq Nat \ {0}
  BY DEF CommitEntryDeliveryDate, Ready, WorksheetInvariant, WindowTyped
<1>2. save' = Idle
  BY <1>1, RestsWhenReady
<1>3. CanLoad(d, drafts, cache)
  BY CanLoadDrafts
<1>4. CASE LoadEntryRows(d, drafts, cache, versions)
  BY <1>1, <1>2, <1>3, <1>4, LoadKeepsInvariant
<1>5. CASE LoadRaises(d, drafts, cache, versions)
  <2>1. shown = d /\ ~timers.draft /\ DOMAIN drafts[d] # {} =>
           RowsKept(GridRows(grid), DraftRows(drafts[d]))
    BY <1>1, WorksheetAssumption DEF WorksheetInvariant, DraftIsCurrent, Drafted
  <2> QED
    BY <1>1, <1>2, <1>3, <1>5, <2>1, FailedLoadKeepsInvariant
<1> QED
  BY <1>4, <1>5 DEF CommitEntryDeliveryDate

LEMMA SaveEntryDraftInvariant ==
    ASSUME WorksheetInvariant, SaveEntryDraft
    PROVE  WorksheetInvariant'
<1>1. /\ UNCHANGED <<products, now, open, date, shown, grid, pending, cache, save>>
      /\ drafts' = DraftSaved /\ timers' = [timers EXCEPT !.draft = FALSE]
  BY DEF SaveEntryDraft
<1>2. /\ AreDrafts(DraftSaved) /\ DraftSaved[date] = DraftOf(grid)
      /\ \A d \in Dates : DraftLinked(DraftSaved[d])
  BY DraftSavedTyped
<1>3. TablesTyped' /\ WindowTyped'
  BY <1>1, <1>2 DEF WorksheetInvariant, TablesTyped, WindowTyped
<1>4. SaveTyped'
  BY <1>1 DEF WorksheetInvariant, SaveTyped, RowToSave, ToSave
<1>5. DraftIsCurrent'
  <2>1. RowsKept(GridRows(grid), DraftRows(DraftOf(grid)))
    BY DraftOfGrid DEF WorksheetInvariant, WindowTyped
  <2> QED
    BY <1>1, <1>2, <2>1 DEF WorksheetInvariant, DraftIsCurrent
<1>6. LinksStored'
  BY <1>1, <1>2, SameLinks DEF WorksheetInvariant, LinksStored
<1> QED
  BY <1>3, <1>4, <1>5, <1>6 DEF WorksheetInvariant

LEMMA GoneInvariant ==
    ASSUME WorksheetInvariant, Gone, drafts' \in {drafts, DraftSaved}
    PROVE  WorksheetInvariant'
<1>1. AreDrafts(drafts') /\ \A d \in Dates : DraftLinked(drafts'[d])
  <2>1. AreDrafts(drafts) /\ \A d \in Dates : DraftLinked(drafts[d])
    BY DEF WorksheetInvariant, WindowTyped, LinksStored
  <2>2. AreDrafts(DraftSaved) /\ \A d \in Dates : DraftLinked(DraftSaved[d])
    BY DraftSavedTyped
  <2> QED
    BY <2>1, <2>2
<1>2. /\ open' = FALSE /\ grid' = <<>> /\ date' = Today /\ shown' = Today
      /\ timers' = NoTimers /\ pending' = {} /\ save' = Idle /\ cache' = NoCache
      /\ UNCHANGED <<products, now>>
  BY DEF Gone
<1>3. NoCache.items \in [Ids -> Product] /\ ItemsLinked(NoCache.items)
  BY NoCacheTyped
<1>4. TablesTyped'
  BY <1>2, <1>3 DEF WorksheetInvariant, TablesTyped
<1>5. grid' \in Seq(Row) /\ Len(grid') = 0
  BY <1>2
<1>6. IsGrid(grid')
  BY <1>5, MaxRowsIsNumber DEF IsGrid
<1>7. WindowTyped'
  <2>1. Today \in Dates
    BY WorksheetAssumption
  <2> QED
    BY <1>1, <1>2, <1>6, <2>1 DEF WindowTyped, NoTimers
<1>8. SaveTyped'
  BY <1>2, IdleSaveTyped DEF SaveTyped, Idle, NoCall
<1>9. DraftIsCurrent'
  BY <1>2 DEF DraftIsCurrent
<1>10. LinksStored'
  <2>1. GridLinked(grid')
    BY <1>5 DEF GridLinked
  <2> QED
    BY <1>1, <1>2, <1>3, <2>1, SameLinks DEF LinksStored
<1> QED
  BY <1>4, <1>7, <1>8, <1>9, <1>10 DEF WorksheetInvariant

LEMMA OpenWindowInvariant ==
    ASSUME WorksheetInvariant, OpenWindow
    PROVE  WorksheetInvariant'
<1>1. /\ LoadEntryRows(Today, drafts, NoCache, AllVersions) /\ date' = Today
      /\ UNCHANGED <<products, now, pending, save>> /\ ~open /\ open' = TRUE /\ timers' = NoTimers
  BY DEF OpenWindow
<1>2. save' = Idle
  BY <1>1, RestsWhenReady
<1>3. CanLoad(Today, drafts, NoCache)
  BY CanLoadDrafts, WorksheetAssumption
<1>4. /\ timers' \in [draft : BOOLEAN, auto : BOOLEAN] /\ pending' \subseteq Nat \ {0}
      /\ open' /\ open' \in BOOLEAN
  BY <1>1 DEF NoTimers, WorksheetInvariant, WindowTyped
<1>5. UNCHANGED <<products, now>>
  BY <1>1
<1> QED
  BY <1>1, <1>2, <1>3, <1>4, <1>5, LoadKeepsInvariant

\* Refreshes read versions only.
LEMMA RefreshInvariant ==
    ASSUME WorksheetInvariant, Refresh \/ CheckForProductChanges
    PROVE  WorksheetInvariant'
<1>1. UNCHANGED <<products, now, open, date, shown, grid, drafts, timers, pending, cache, save>>
  BY DEF Refresh, CheckForProductChanges
<1>2. SaveTyped'
  BY <1>1 DEF WorksheetInvariant, SaveTyped, RowToSave, ToSave
<1>3. timers \in [draft : BOOLEAN, auto : BOOLEAN] /\ pending \subseteq Nat \ {0}
  BY DEF WorksheetInvariant, WindowTyped
<1> QED
  BY <1>1, <1>2, <1>3, StillWindow

-----------------------------------------------------------------------------
(* The steps of a save *)

LEMMA StartSaveTyped ==
    ASSUME WorksheetInvariant, Ready, NEW rows \in SUBSET (Nat \ {0}), StartSave(rows),
           UNCHANGED <<grid, open>>
    PROVE  SaveTyped'
<1>1. PICK queue : queue = ToBeSaved(rows)
  OBVIOUS
<1>2. Len(grid) \in Nat
  BY RowsAreTyped DEF WorksheetInvariant, WindowTyped
<1>3. queue \subseteq 1..Len(grid)
  <2>1. \A r \in queue : r \in rows /\ r <= Len(grid)
    BY <1>1 DEF ToBeSaved
  <2>2. \A r \in rows : r \in Nat \ {0}
    OBVIOUS
  <2>3. SUFFICES ASSUME NEW r \in queue
                 PROVE  r \in 1..Len(grid)
    OBVIOUS
  <2>4. r \in Nat \ {0} /\ r <= Len(grid)
    BY <2>1, <2>2
  <2> QED
    BY <1>2, <2>4
<1>4. save' = [active |-> queue # {}, queue |-> queue, imported |-> FALSE, call |-> NoCall]
  BY <1>1 DEF StartSave, Idle
<1>5. ASSUME queue = {}
      PROVE  save' = Idle
  <2>1. (queue # {}) = FALSE
    BY <1>5
  <2>2. save' = [active |-> FALSE, queue |-> queue, imported |-> FALSE, call |-> NoCall]
    BY <1>4, <2>1, Zenon
  <2> QED
    BY <1>5, <2>2, Zenon DEF Idle
<1>6. /\ DOMAIN save' = {"active", "queue", "imported", "call"}
      /\ save'.active = (queue # {}) /\ save'.queue = queue /\ save'.imported = FALSE
      /\ save'.call = NoCall
  BY <1>4
<1>7. NoCall.op \notin {"create", "update"}
  BY DEF NoCall
<1>8. open
  BY DEF Ready
<1> QED
  BY <1>3, <1>5, <1>6, <1>7, <1>8 DEF SaveTyped

LEMMA SaveCompletedRowsInvariant ==
    ASSUME WorksheetInvariant, SaveCompletedRows
    PROVE  WorksheetInvariant'
<1>1. /\ UNCHANGED <<products, now, open, date, shown, grid, drafts, cache>> /\ Ready
      /\ StartSave(pending) /\ pending' = {} /\ timers' = [timers EXCEPT !.auto = FALSE]
  BY DEF SaveCompletedRows
<1>2. timers \in [draft : BOOLEAN, auto : BOOLEAN] /\ pending \in SUBSET (Nat \ {0})
  BY DEF WorksheetInvariant, WindowTyped
<1>3. SaveTyped'
  BY <1>1, <1>2, StartSaveTyped
<1>4. /\ timers' \in [draft : BOOLEAN, auto : BOOLEAN] /\ timers'.draft = timers.draft
      /\ pending' \subseteq Nat \ {0}
  BY <1>1, <1>2
<1> QED
  BY <1>1, <1>3, <1>4, StillWindow

LEMMA SaveAllRowsInvariant ==
    ASSUME WorksheetInvariant, SaveAllRows
    PROVE  WorksheetInvariant'
<1>1. UNCHANGED <<products, now, open, desktop>> /\ Ready /\ StartSave(1..Len(grid))
  BY DEF SaveAllRows
<1>2. timers \in [draft : BOOLEAN, auto : BOOLEAN] /\ pending \in SUBSET (Nat \ {0})
  BY DEF WorksheetInvariant, WindowTyped
<1>3. 1..Len(grid) \in SUBSET (Nat \ {0})
  BY RowsAreTyped DEF WorksheetInvariant, WindowTyped
<1>4. SaveTyped'
  BY <1>1, <1>3, StartSaveTyped DEF desktop
<1> QED
  BY <1>1, <1>2, <1>4, StillWindow DEF desktop

LEMMA RowInHand ==
    ASSUME WorksheetInvariant, save.queue # {}
    PROVE  ToSave \in 1..Len(grid) /\ RowToSave \in Row
<1>1. save.queue \subseteq 1..Len(grid) /\ IsGrid(grid) /\ Len(grid) \in Nat
  BY RowsAreTyped DEF WorksheetInvariant, SaveTyped, WindowTyped
<1>2. save.queue \in SUBSET Nat
  BY <1>1
<1>3. ToSave \in save.queue
  BY <1>2, MinIsIn DEF ToSave
<1> QED
  BY <1>1, <1>3, RowsAreTyped DEF RowToSave

\* The row in hand is passed over.
LEMMA SkippedTyped ==
    ASSUME WorksheetInvariant, save.active, save' = Skipped, UNCHANGED <<grid, open>>
    PROVE  SaveTyped'
<1>1. /\ DOMAIN save = {"active", "queue", "imported", "call"} /\ save.imported \in BOOLEAN
      /\ save.queue \subseteq 1..Len(grid) /\ open
  BY DEF WorksheetInvariant, SaveTyped
<1>2. /\ DOMAIN save' = {"active", "queue", "imported", "call"}
      /\ save'.active = save.active /\ save'.queue = save.queue \ {ToSave}
      /\ save'.imported = save.imported /\ save'.call = NoCall
  BY <1>1 DEF Skipped
<1>3. NoCall.op \notin {"create", "update"}
  BY DEF NoCall
<1> QED
  BY <1>1, <1>2, <1>3 DEF SaveTyped

LEMMA SkippingInvariant ==
    ASSUME WorksheetInvariant, save.active, save' = Skipped, UNCHANGED <<products, now, open, desktop>>
    PROVE  WorksheetInvariant'
<1>1. timers \in [draft : BOOLEAN, auto : BOOLEAN] /\ pending \subseteq Nat \ {0}
  BY DEF WorksheetInvariant, WindowTyped
<1>2. SaveTyped'
  BY SkippedTyped DEF desktop
<1> QED
  BY <1>1, <1>2, StillWindow DEF desktop

LEMMA BeginInvariant ==
    ASSUME WorksheetInvariant, BeginCreate \/ BeginUpdate
    PROVE  WorksheetInvariant'
<1>1. UNCHANGED <<products, now, open, desktop>> /\ Saving
  BY DEF BeginCreate, BeginUpdate
<1>2. timers \in [draft : BOOLEAN, auto : BOOLEAN] /\ pending \subseteq Nat \ {0}
  BY DEF WorksheetInvariant, WindowTyped
<1>3. save.active /\ save.queue # {}
  BY <1>1 DEF Saving
<1>4. RowToSave \in Row /\ RowToSave.code \in Codes
  BY <1>3, RowInHand, RowFields
<1>5. NextSequence \in Nat
  <2>1. Stored \subseteq Ids /\ IsFiniteSet(Ids)
    BY WorksheetAssumption DEF Stored
  <2> QED
    BY <2>1, FS_Subset, FS_CardinalityType DEF NextSequence
<1>6. PICK op \in {"create", "update"}, code \in Codes :
        /\ save' = [save EXCEPT !.call = [op |-> op, code |-> code]]
        /\ op = "create" => RowToSave.id = NoId
        /\ op = "update" => Linked(RowToSave)
  <2>1. CASE BeginCreate
    BY <1>4, <1>5, <2>1, CodesTyped DEF BeginCreate
  <2>2. CASE BeginUpdate
    BY <1>4, <2>2, CodesTyped DEF BeginUpdate
  <2> QED
    BY <2>1, <2>2
<1>7. SaveTyped'
  <2>1. /\ DOMAIN save = {"active", "queue", "imported", "call"} /\ save.imported \in BOOLEAN
        /\ save.queue \subseteq 1..Len(grid) /\ open
    BY <1>3 DEF WorksheetInvariant, SaveTyped
  <2>2. PICK call : call = [op |-> op, code |-> code]
    OBVIOUS
  <2>3. call \in [op : {"create", "update"}, code : Codes] /\ call.op = op
    BY <2>2
  <2>4. /\ DOMAIN save' = {"active", "queue", "imported", "call"}
        /\ save'.active = save.active /\ save'.queue = save.queue
        /\ save'.imported = save.imported /\ save'.call = call
    BY <1>6, <2>1, <2>2
  <2>5. UNCHANGED <<grid, open>>
    BY <1>1 DEF desktop
  <2>6. RowToSave' = RowToSave
    BY <2>4, <2>5 DEF RowToSave, ToSave
  <2> QED
    BY <1>3, <1>6, <2>1, <2>3, <2>4, <2>5, <2>6 DEF SaveTyped
<1> QED
  BY <1>1, <1>2, <1>7, StillWindow DEF desktop

-----------------------------------------------------------------------------
(* Writes of products *)

LEMMA ProductWritten ==
    ASSUME WorksheetInvariant, NEW p \in Ids, NEW product \in Product, product.version = now + 1,
           products' = [products EXCEPT ![p] = product], now' = now + 1
    PROVE  /\ products' \in [Ids -> Product] /\ now' \in Nat
           /\ Stored \subseteq Stored' /\ p \in Stored'
           /\ \A g : GridLinked(g) => GridLinked(g)'
           /\ \A draft : DraftLinked(draft) => DraftLinked(draft)'
           /\ \A items : ItemsLinked(items) => ItemsLinked(items)'
<1>1. products \in [Ids -> Product] /\ now \in Nat
  BY DEF WorksheetInvariant, TablesTyped
<1>2. products' \in [Ids -> Product] /\ now' \in Nat
  BY <1>1
<1>3. \A q \in Ids : products'[q] = IF q = p THEN product ELSE products[q]
  BY <1>1
<1>4. Stored \subseteq Stored' /\ p \in Stored'
  BY <1>1, <1>3 DEF Stored
<1> QED
  BY <1>2, <1>4 DEF GridLinked, DraftLinked, ItemsLinked

LEMMA WrittenTyped ==
    ASSUME WorksheetInvariant, NEW row \in Row, NEW code \in Codes
    PROVE  Written(row, code) \in Product /\ Written(row, code).version = now + 1
<1>1. now + 1 \in Nat /\ date \in Dates
  BY DEF WorksheetInvariant, TablesTyped, WindowTyped
<1> QED
  BY <1>1 DEF Written, Row, Product

\* The row in hand is linked to the product: it keeps its texts, and its link if it had one.
LEMMA RowSavedGrid ==
    ASSUME WorksheetInvariant, save.queue # {}, NEW p \in Ids, NEW code \in Codes,
           RowToSave.id \in {NoId, p}, RowSaved(p, code)
    PROVE  /\ IsGrid(grid') /\ Len(grid') = Len(grid)
           /\ \A r \in 1..Len(grid) :
                 /\ grid'[r].id = IF r = ToSave THEN p ELSE grid[r].id
                 /\ grid'[r].company = grid[r].company /\ grid'[r].detail = grid[r].detail
           /\ RowsKept(GridRows(grid), GridRows(grid'))
           /\ timers' \in [draft : BOOLEAN, auto : BOOLEAN] /\ pending' \subseteq Nat \ {0}
           /\ timers'.draft \/ (UNCHANGED timers /\ RowsKept(GridRows(grid'), GridRows(grid)))
<1>1. /\ IsGrid(grid) /\ Len(grid) \in Nat /\ timers \in [draft : BOOLEAN, auto : BOOLEAN]
      /\ pending \subseteq Nat \ {0}
  BY RowsAreTyped DEF WorksheetInvariant, WindowTyped
<1>2. ToSave \in 1..Len(grid) /\ RowToSave \in Row /\ RowToSave = grid[ToSave]
  BY RowInHand DEF RowToSave
<1>3. PICK g, at, old : g = grid /\ at = ToSave /\ old = RowToSave /\ old \in Row
  BY <1>2
<1>4. PICK new : new = [old EXCEPT !.id = p, !.code = code, !.label = TRUE]
  OBVIOUS
<1>5. /\ new \in Row /\ new.id = p /\ new.code = code /\ new.label = TRUE
      /\ new.company = old.company /\ new.detail = old.detail
  BY <1>3, <1>4 DEF Row
<1>6. /\ grid' = [g EXCEPT ![at] = new]
      /\ IF new.id # old.id \/ new.code # old.code \/ ~old.label
         THEN ItemsChanged({at}) ELSE UNCHANGED <<timers, pending>>
  BY <1>3, <1>4 DEF RowSaved
<1>7. /\ IsGrid(grid') /\ Len(grid') = Len(g)
      /\ \A r \in 1..Len(g) : grid'[r] = IF r = at THEN new ELSE g[r]
  <2>1. IsGrid(g) /\ at \in 1..Len(g)
    BY <1>1, <1>2, <1>3
  <2>2. /\ IsGrid([g EXCEPT ![at] = new]) /\ Len([g EXCEPT ![at] = new]) = Len(g)
        /\ \A s \in 1..Len(g) : [g EXCEPT ![at] = new][s] = IF s = at THEN new ELSE g[s]
    BY <1>5, <2>1, RowReplaced
  <2> QED
    BY <1>6, <2>2
<1>8. \A r \in 1..Len(grid) :
        /\ grid'[r].id = IF r = ToSave THEN p ELSE grid[r].id
        /\ grid'[r].company = grid[r].company /\ grid'[r].detail = grid[r].detail
  BY <1>2, <1>3, <1>5, <1>7
<1>9. RowsKept(GridRows(grid), GridRows(grid'))
  <2>1. \A r \in 1..Len(grid) : grid[r].id \in Ids => grid'[r].id = grid[r].id
    BY <1>2, <1>8, NoSuchProduct
  <2>2. \A r \in 1..Len(grid) : grid'[r] \in GridRows(grid')
    BY <1>3, <1>7 DEF GridRows
  <2> QED
    BY <1>8, <2>1, <2>2 DEF RowsKept, GridRows
<1>10. /\ timers' \in [draft : BOOLEAN, auto : BOOLEAN] /\ pending' \subseteq Nat \ {0}
       /\ timers'.draft \/ (UNCHANGED timers /\ new.id = old.id)
  <2>1. CASE new.id # old.id \/ new.code # old.code \/ ~old.label
    <3>1. {at} \in SUBSET (Nat \ {0})
      BY <1>1, <1>2, <1>3
    <3>2. ItemsChanged({at})
      BY <1>6, <2>1
    <3> QED
      BY <3>1, <3>2, Signalled
  <2>2. CASE ~(new.id # old.id \/ new.code # old.code \/ ~old.label)
    BY <1>1, <1>6, <2>2
  <2> QED
    BY <2>1, <2>2
<1>11. new.id = old.id => RowsKept(GridRows(grid'), GridRows(grid))
  <2>1. SUFFICES ASSUME new.id = old.id
                 PROVE  RowsKept(GridRows(grid'), GridRows(grid))
    OBVIOUS
  <2>2. \A r \in 1..Len(grid') : /\ grid[r] \in GridRows(grid) /\ grid[r].id = grid'[r].id
                                 /\ grid[r].company = grid'[r].company
                                 /\ grid[r].detail = grid'[r].detail
    BY <1>2, <1>3, <1>5, <1>7, <2>1 DEF GridRows
  <2> QED
    BY <2>2 DEF RowsKept, GridRows
<1> QED
  BY <1>3, <1>7, <1>8, <1>9, <1>10, <1>11

\* Who writes what: a creation a new product for a row without one, an update the row's own.
LEMMA WriteInHand ==
    ASSUME WorksheetInvariant, NEW p, (p \in Ids /\ EndCreate(p)) \/ (EndUpdate /\ p = RowToSave.id)
    PROVE  /\ save.active /\ save.queue # {} /\ RowToSave \in Row /\ save.call.code \in Codes
           /\ p \in Ids /\ RowToSave.id \in {NoId, p}
           /\ RowToSave.id = p \/ p \notin Stored
           /\ WriteProduct(p, save.call.code)
<1>1. /\ save.call \in {NoCall} \cup [op : {"create", "update"}, code : Codes]
      /\ save.call # NoCall => save.active /\ save.queue # {}
      /\ save.call.op = "create" => RowToSave.id = NoId
      /\ save.call.op = "update" => RowToSave.id \in Ids
  BY DEF WorksheetInvariant, SaveTyped, Linked
<1>2. save.call.op \in {"create", "update"} /\ WriteProduct(p, save.call.code)
  BY DEF EndCreate, EndUpdate
<1>3. save.call # NoCall
  BY <1>2 DEF NoCall
<1>4. save.active /\ save.queue # {} /\ save.call.code \in Codes
  BY <1>1, <1>3
<1>5. RowToSave \in Row /\ RowToSave.id \in Ids \cup {NoId, NoItem}
  BY <1>4, RowInHand, RowFields
<1>6. CASE p \in Ids /\ EndCreate(p)
  BY <1>1, <1>2, <1>4, <1>5, <1>6 DEF EndCreate
<1>7. CASE EndUpdate /\ p = RowToSave.id
  BY <1>1, <1>2, <1>4, <1>5, <1>7 DEF EndUpdate
<1> QED
  BY <1>6, <1>7

LEMMA WriteInvariant ==
    ASSUME WorksheetInvariant, NEW p, (p \in Ids /\ EndCreate(p)) \/ (EndUpdate /\ p = RowToSave.id)
    PROVE  WorksheetInvariant'
<1>1. PICK code \in Codes : /\ save.active /\ save.queue # {} /\ RowToSave \in Row
                            /\ p \in Ids /\ RowToSave.id \in {NoId, p}
                            /\ WriteProduct(p, code)
  BY WriteInHand
<1>2. PICK product : product = Written(RowToSave, code)
  OBVIOUS
<1>3. product \in Product /\ product.version = now + 1
  BY <1>1, <1>2, WrittenTyped
<1>4. products' = [products EXCEPT ![p] = product] /\ now' = now + 1
  BY <1>1, <1>2 DEF WriteProduct
<1>5. /\ products' \in [Ids -> Product] /\ now' \in Nat
      /\ Stored \subseteq Stored' /\ p \in Stored'
      /\ \A g : GridLinked(g) => GridLinked(g)'
      /\ \A draft : DraftLinked(draft) => DraftLinked(draft)'
      /\ \A items : ItemsLinked(items) => ItemsLinked(items)'
  BY <1>1, <1>3, <1>4, ProductWritten
<1>6. CASE RowSaved(p, code)
  <2>1. /\ IsGrid(grid') /\ Len(grid') = Len(grid)
        /\ \A r \in 1..Len(grid) : grid'[r].id = IF r = ToSave THEN p ELSE grid[r].id
        /\ timers' \in [draft : BOOLEAN, auto : BOOLEAN] /\ pending' \subseteq Nat \ {0}
        /\ timers'.draft \/ (UNCHANGED timers /\ RowsKept(GridRows(grid'), GridRows(grid)))
    BY <1>1, <1>6, RowSavedGrid
  <2>2. /\ UNCHANGED <<open, date, shown, drafts, cache>>
        /\ save' = [Skipped EXCEPT !.imported = TRUE]
    BY <1>6 DEF RowSaved
  <2>3. TablesTyped' /\ WindowTyped'
    BY <1>5, <2>1, <2>2 DEF WorksheetInvariant, TablesTyped, WindowTyped
  <2>4. SaveTyped'
    <3>1. /\ DOMAIN save = {"active", "queue", "imported", "call"}
          /\ save.queue \subseteq 1..Len(grid) /\ open
      BY <1>1 DEF WorksheetInvariant, SaveTyped
    <3>2. /\ DOMAIN save' = {"active", "queue", "imported", "call"}
          /\ save'.active = save.active /\ save'.queue = save.queue \ {ToSave}
          /\ save'.imported = TRUE /\ save'.call = NoCall
      BY <2>2, <3>1 DEF Skipped
    <3>3. NoCall.op \notin {"create", "update"}
      BY DEF NoCall
    <3> QED
      BY <1>1, <2>1, <2>2, <3>1, <3>2, <3>3 DEF SaveTyped
  <2>5. DraftIsCurrent'
    <3>1. open' => shown' \in {date', NoDate}
      BY <2>2 DEF WorksheetInvariant, DraftIsCurrent
    <3>2. ASSUME open', shown' = date', ~timers'.draft, Drafted(date)'
          PROVE  RowsKept(GridRows(grid'), DraftRows(drafts'[date']))
      <4>1. RowsKept(GridRows(grid'), GridRows(grid)) /\ UNCHANGED timers
        BY <2>1, <3>2
      <4>2. RowsKept(GridRows(grid), DraftRows(drafts[date]))
        BY <2>2, <3>2, <4>1 DEF WorksheetInvariant, DraftIsCurrent, Drafted
      <4> QED
        BY <2>2, <4>1, <4>2, KeptIsTransitive
    <3> QED
      BY <3>1, <3>2 DEF DraftIsCurrent
  <2>6. LinksStored'
    <3>1. GridLinked(grid) /\ (\A d \in Dates : DraftLinked(drafts[d])) /\ ItemsLinked(cache.items)
      BY DEF WorksheetInvariant, LinksStored
    <3>2. \A r \in 1..Len(grid') : grid'[r].id \in Ids => grid'[r].id \in Stored'
      BY <1>5, <2>1, <3>1 DEF GridLinked, Linked
    <3>3. GridLinked(grid)'
      BY <3>2 DEF GridLinked, Linked
    <3> QED
      BY <1>5, <2>2, <3>1, <3>3 DEF LinksStored
  <2> QED
    BY <2>3, <2>4, <2>5, <2>6 DEF WorksheetInvariant
<1>7. CASE ReplyLost
  <2>1. UNCHANGED <<open, date, shown, grid, drafts, timers, pending, cache>> /\ save' = Skipped
    BY <1>7 DEF ReplyLost, desktop
  <2>2. TablesTyped' /\ WindowTyped'
    BY <1>5, <2>1 DEF WorksheetInvariant, TablesTyped, WindowTyped
  <2>3. SaveTyped'
    BY <1>1, <2>1, SkippedTyped
  <2>4. DraftIsCurrent'
    BY <2>1 DEF WorksheetInvariant, DraftIsCurrent, Drafted
  <2>5. LinksStored'
    BY <1>5, <2>1 DEF WorksheetInvariant, LinksStored
  <2> QED
    BY <2>2, <2>3, <2>4, <2>5 DEF WorksheetInvariant
<1> QED
  BY <1>1, <1>6, <1>7 DEF WriteProduct

LEMMA FinishSaveInvariant ==
    ASSUME WorksheetInvariant, FinishSave
    PROVE  WorksheetInvariant'
<1>1. /\ UNCHANGED <<products, now, open, date, timers, pending>> /\ save' = Idle /\ save.active
      /\ open /\ open \in BOOLEAN /\ date \in Dates
      /\ timers \in [draft : BOOLEAN, auto : BOOLEAN] /\ pending \subseteq Nat \ {0}
  BY DEF FinishSave, WorksheetInvariant, WindowTyped, SaveTyped
<1>2. CanLoad(date, DraftSaved, NoCache)
  BY <1>1, CanLoadDrafts
<1>3. CASE save.imported /\ LoadEntryRows(date, DraftSaved, NoCache, AllVersions)
  BY <1>1, <1>2, <1>3, LoadKeepsInvariant
<1>4. CASE save.imported /\ LoadRaises(date, DraftSaved, NoCache, AllVersions)
  <2>1. RowsKept(GridRows(grid), DraftRows(DraftSaved[date]))
    BY DraftSavedTyped, DraftOfGrid DEF WorksheetInvariant, WindowTyped
  <2> QED
    BY <1>1, <1>2, <1>4, <2>1, FailedLoadKeepsInvariant
<1>5. CASE ~save.imported
  <2>1. UNCHANGED <<grid, shown, drafts, cache>>
    BY <1>5 DEF FinishSave
  <2>2. SaveTyped'
    BY <1>1, IdleSaveTyped DEF SaveTyped, Idle, NoCall
  <2> QED
    BY <1>1, <2>1, <2>2, StillWindow
<1> QED
  BY <1>3, <1>4, <1>5 DEF FinishSave

LEMMA FinishRaisesInvariant ==
    ASSUME WorksheetInvariant, FinishRaises
    PROVE  WorksheetInvariant'
<1>1. UNCHANGED <<products, now, open, desktop>> /\ save' = Idle
  BY DEF FinishRaises
<1>2. SaveTyped'
  BY <1>1, IdleSaveTyped DEF SaveTyped, Idle, NoCall
<1>3. timers \in [draft : BOOLEAN, auto : BOOLEAN] /\ pending \subseteq Nat \ {0}
  BY DEF WorksheetInvariant, WindowTyped
<1> QED
  BY <1>1, <1>2, <1>3, StillWindow DEF desktop

LEMMA OtherWriteInvariant ==
    ASSUME WorksheetInvariant, NEW p \in Ids, NEW product \in Product, product.version = now + 1,
           products' = [products EXCEPT ![p] = product], now' = now + 1,
           UNCHANGED <<open, desktop, save>>
    PROVE  WorksheetInvariant'
<1>1. /\ products' \in [Ids -> Product] /\ now' \in Nat
      /\ \A g : GridLinked(g) => GridLinked(g)'
      /\ \A draft : DraftLinked(draft) => DraftLinked(draft)'
      /\ \A items : ItemsLinked(items) => ItemsLinked(items)'
  BY ProductWritten
<1>2. UNCHANGED <<open, date, shown, grid, drafts, timers, pending, cache, save>>
  BY DEF desktop
<1>3. TablesTyped' /\ WindowTyped'
  BY <1>1, <1>2 DEF WorksheetInvariant, TablesTyped, WindowTyped
<1>4. SaveTyped'
  BY <1>2 DEF WorksheetInvariant, SaveTyped, RowToSave, ToSave
<1>5. DraftIsCurrent'
  BY <1>2 DEF WorksheetInvariant, DraftIsCurrent, Drafted
<1>6. LinksStored'
  BY <1>1, <1>2 DEF WorksheetInvariant, LinksStored
<1> QED
  BY <1>3, <1>4, <1>5, <1>6 DEF WorksheetInvariant

LEMMA OtherUpdateInvariant ==
    ASSUME WorksheetInvariant, NEW p \in Ids, NEW column \in {"detail", "size"},
           NEW text \in Texts(column), OtherUpdate(p, column, text)
    PROVE  WorksheetInvariant'
<1>1. products \in [Ids -> Product] /\ now \in Nat
  BY DEF WorksheetInvariant, TablesTyped
<1>2. PICK old \in Product : old = products[p]
  BY <1>1
<1>3. PICK product : product = [old EXCEPT ![column] = text, !.version = now + 1]
  OBVIOUS
<1>4. product \in Product /\ product.version = now + 1
  <2>0. PICK n \in Nat : n = now + 1
    BY <1>1
  <2>1. CASE column = "detail"
    <3>1. text \in Details \cup {""}
      BY <2>1 DEF Texts
    <3>2. PICK mid : mid = [old EXCEPT !.detail = text]
      OBVIOUS
    <3>3. mid \in Product
      BY <3>1, <3>2 DEF Product
    <3>4. product = [mid EXCEPT !.version = n]
      BY <1>3, <2>0, <2>1, <3>2
    <3>5. product \in Product
      BY <3>3, <3>4 DEF Product
    <3>6. product.version = n
      BY <3>3, <3>4 DEF Product
    <3> QED
      BY <2>0, <3>5, <3>6
  <2>2. CASE column = "size"
    <3>1. text \in Sizes \cup {""}
      BY <2>2 DEF Texts
    <3>2. PICK mid : mid = [old EXCEPT !.size = text]
      OBVIOUS
    <3>3. mid \in Product
      BY <3>1, <3>2 DEF Product
    <3>4. product = [mid EXCEPT !.version = n]
      BY <1>3, <2>0, <2>2, <3>2
    <3>5. product \in Product
      BY <3>3, <3>4 DEF Product
    <3>6. product.version = n
      BY <3>3, <3>4 DEF Product
    <3> QED
      BY <2>0, <3>5, <3>6
  <2> QED
    BY <2>1, <2>2
<1>5. /\ products' = [products EXCEPT ![p] = product] /\ now' = now + 1
      /\ UNCHANGED <<open, desktop, save>>
  BY <1>1, <1>2, <1>3 DEF OtherUpdate
<1> QED
  BY <1>4, <1>5, OtherWriteInvariant

LEMMA OtherCreateInvariant ==
    ASSUME WorksheetInvariant, NEW p \in Ids, NEW c \in Companies, NEW t \in Details, NEW d \in Dates,
           OtherCreate(p, c, t, d)
    PROVE  WorksheetInvariant'
<1>1. now + 1 \in Nat
  BY DEF WorksheetInvariant, TablesTyped
<1>2. PICK row : row = [BlankRow EXCEPT !.company = c, !.detail = t]
  OBVIOUS
<1>3. row.company \in Companies /\ row.detail \in Details
  BY <1>2 DEF BlankRow
<1>4. NextSequence \in Nat
  <2>1. Stored \subseteq Ids /\ IsFiniteSet(Ids)
    BY WorksheetAssumption DEF Stored
  <2> QED
    BY <2>1, FS_Subset, FS_CardinalityType DEF NextSequence
<1>5. Preview(row, 1, d) \in Codes /\ Generated(NextSequence) \in Codes
  BY <1>3, <1>4, PreviewTyped, CodesTyped
<1>6. PICK code \in Codes :
        products' = [products EXCEPT ![p] =
            [company |-> c, detail |-> t, size |-> "", code |-> code, date |-> d, version |-> now + 1]]
  BY <1>2, <1>5 DEF OtherCreate
<1>7. PICK product : product = [company |-> c, detail |-> t, size |-> "", code |-> code, date |-> d,
                                version |-> now + 1]
  OBVIOUS
<1>8. product \in Product /\ product.version = now + 1
  BY <1>1, <1>7 DEF Product
<1>9. /\ products' = [products EXCEPT ![p] = product] /\ now' = now + 1
      /\ UNCHANGED <<open, desktop, save>>
  BY <1>6, <1>7 DEF OtherCreate
<1> QED
  BY <1>8, <1>9, OtherWriteInvariant

-----------------------------------------------------------------------------
(* The invariant *)

LEMMA InvariantInit ==
    ASSUME Init
    PROVE  WorksheetInvariant
<1>1. /\ products = [p \in Ids |-> NoProduct] /\ now = 0 /\ open = TRUE /\ date = Today
      /\ shown = Today /\ grid = Padded(<<>>, Length(0)) /\ drafts = [d \in Dates |-> NoDraft]
      /\ timers = NoTimers /\ pending = {} /\ cache.items = products /\ save = Idle
  BY DEF Init
<1>2. NoProduct \in Product /\ NoProduct.version = 0 /\ Today \in Dates
  BY CodesTyped, WorksheetAssumption DEF NoProduct, Product
<1>3. IsGrid(grid) /\ \A r \in 1..Len(grid) : grid[r] = BlankRow
  <2>1. Length(0) \in Nat /\ Length(0) <= MaxRows
    BY LengthHasRoom
  <2>2. DOMAIN <<>> = {}
    OBVIOUS
  <2>3. /\ IsGrid(Padded(<<>>, Length(0))) /\ Len(Padded(<<>>, Length(0))) = Length(0)
        /\ \A r \in 1..Length(0) : Padded(<<>>, Length(0))[r] = BlankRow
    BY <2>1, <2>2, PaddedTyped
  <2> QED
    BY <1>1, <2>3
<1>4. DOMAIN NoDraft = {}
  BY DEF NoDraft, DraftOf
<1>5. TablesTyped
  BY <1>1, <1>2 DEF TablesTyped
<1>6. WindowTyped
  BY <1>1, <1>2, <1>3, <1>4 DEF WindowTyped, AreDrafts, IsDraft, NoTimers
<1>7. SaveTyped
  BY <1>1, IdleSaveTyped
<1>8. DraftIsCurrent
  BY <1>1, <1>2, <1>4 DEF DraftIsCurrent, Drafted
<1>9. LinksStored
  BY <1>1, <1>2, <1>3, <1>4, BlankRows DEF LinksStored, GridLinked, DraftLinked, ItemsLinked
<1> QED
  BY <1>5, <1>6, <1>7, <1>8, <1>9 DEF WorksheetInvariant

LEMMA UserEditsInvariant ==
    ASSUME WorksheetInvariant, UserEdits
    PROVE  WorksheetInvariant'
<1>1. CASE UserFills
  BY <1>1, FillDownInvariant DEF UserFills, Rows
<1>2. CASE ~UserFills
  <2>1. GridEdit /\ Rearranged(grid', grid)
    BY <1>2, TypeCellEdits, PasteCellEdits, InsertRowEdits, DeleteRowEdits, MoveRowEdits,
       SortRowsEdits, ClearRowsEdits DEF UserEdits, Rows
  <2> QED
    BY <2>1, RearrangedInvariant
<1> QED
  BY <1>1, <1>2

LEMMA WindowEventsInvariant ==
    ASSUME WorksheetInvariant, WindowEvents
    PROVE  WorksheetInvariant'
<1>1. CASE (\E r \in Rows : CopyQrLabel(r)) \/ AddRow \/ TrimBlankRows
  <2>1. GridEdit /\ Rearranged(grid', grid)
    BY <1>1, CopyQrLabelEdits, AddRowEdits, TrimBlankRowsEdits DEF Rows
  <2> QED
    BY <2>1, RearrangedInvariant
<1>2. CASE \E d \in Dates : ChangeEntryDeliveryDate(d) \/ CommitEntryDeliveryDate(d)
  BY <1>2, ChangeDateInvariant, CommitDateInvariant
<1>3. CASE SaveEntryDraft
  BY <1>3, SaveEntryDraftInvariant
<1>4. CASE Refresh \/ CheckForProductChanges
  BY <1>4, RefreshInvariant
<1>5. CASE CloseWindow \/ Kill
  BY <1>5, GoneInvariant DEF CloseWindow, Kill
<1>6. CASE OpenWindow
  BY <1>6, OpenWindowInvariant
<1> QED
  BY <1>1, <1>2, <1>3, <1>4, <1>5, <1>6 DEF WindowEvents

LEMMA SaveStepsInvariant ==
    ASSUME WorksheetInvariant, SaveSteps
    PROVE  WorksheetInvariant'
<1>1. CASE SaveCompletedRows \/ SaveAllRows
  BY <1>1, SaveCompletedRowsInvariant, SaveAllRowsInvariant
<1>2. CASE SkipRow \/ RequestFails \/ DuplicateCode
  <2>1. save.active /\ save' = Skipped /\ UNCHANGED <<products, now, open, desktop>>
    BY <1>2 DEF SkipRow, RequestFails, DuplicateCode, Saving, WorksheetInvariant, SaveTyped
  <2> QED
    BY <2>1, SkippingInvariant
<1>3. CASE BeginCreate \/ BeginUpdate
  BY <1>3, BeginInvariant
<1>4. CASE (\E p \in Ids : EndCreate(p)) \/ EndUpdate
  BY <1>4, WriteInvariant
<1>5. CASE FinishSave \/ FinishRaises
  BY <1>5, FinishSaveInvariant, FinishRaisesInvariant
<1> QED
  BY <1>1, <1>2, <1>3, <1>4, <1>5 DEF SaveSteps

LEMMA InvariantStutters ==
    ASSUME WorksheetInvariant, UNCHANGED vars
    PROVE  WorksheetInvariant'
<1>1. UNCHANGED <<products, now, open, date, shown, grid, drafts, timers, pending, cache, save>>
  BY DEF vars, desktop
<1>2. SaveTyped'
  BY <1>1 DEF WorksheetInvariant, SaveTyped, RowToSave, ToSave
<1>3. timers \in [draft : BOOLEAN, auto : BOOLEAN] /\ pending \subseteq Nat \ {0}
  BY DEF WorksheetInvariant, WindowTyped
<1> QED
  BY <1>1, <1>2, <1>3, StillWindow

\* In every state of the worksheet: its parts have their types; a save works on rows of the
\* grid; rows, drafts and cache refer to stored products only; and while the draft timer rests
\* the draft of the selected date has every row that the grid has.
THEOREM WorksheetInvariantHolds == Spec => []WorksheetInvariant
<1>1. Init => WorksheetInvariant
  BY InvariantInit
<1>2. WorksheetInvariant /\ [Next]_vars => WorksheetInvariant'
  <2>1. SUFFICES ASSUME WorksheetInvariant, [Next]_vars
                 PROVE  WorksheetInvariant'
    OBVIOUS
  <2>2. CASE UserEdits
    BY <2>1, <2>2, UserEditsInvariant
  <2>3. CASE WindowEvents
    BY <2>1, <2>3, WindowEventsInvariant
  <2>4. CASE SaveSteps
    BY <2>1, <2>4, SaveStepsInvariant
  <2>5. CASE OtherMachines
    BY <2>1, <2>5, OtherUpdateInvariant, OtherCreateInvariant DEF OtherMachines
  <2>6. CASE UNCHANGED vars
    BY <2>1, <2>6, InvariantStutters
  <2> QED
    BY <2>1, <2>2, <2>3, <2>4, <2>5, <2>6 DEF Next
<1> QED
  BY <1>1, <1>2, PTL DEF Spec

-----------------------------------------------------------------------------
(* Work is kept: DraftsKeepWork *)

\* The rows of date d, in the grid or in its draft.
HeldRows(d) == IF open /\ shown = d THEN GridRows(grid) ELSE DraftRows(drafts[d])

LEMMA KeptRowsKeepWork ==
    ASSUME NEW d, RowsKept(HeldRows(d), HeldRows(d)')
    PROVE  WorkKept(d)
<1>1. PICK A, B : A = HeldRows(d) /\ B = HeldRows(d)'
  OBVIOUS
<1>2. Held(d) = {row \in A : HasWork(row)}
  BY <1>1 DEF Held, HeldRows, GridRows, DraftRows, HasWork
<1>3. Held(d)' = {row \in B : HasWork(row)}
  BY <1>1 DEF Held, HeldRows, GridRows, DraftRows, HasWork
<1>4. \A a \in A : HasWork(a) =>
        \E b \in B : /\ HasWork(b) /\ b.company = a.company /\ b.detail = a.detail
                     /\ a.id \in Ids => b.id = a.id
  BY <1>1 DEF RowsKept, HasWork
<1>5. HeldTexts(d) \subseteq HeldTexts(d)'
  BY <1>2, <1>3, <1>4 DEF HeldTexts
<1>6. HeldLinks(d) \subseteq HeldLinks(d)'
  BY <1>2, <1>3, <1>4 DEF HeldLinks
<1> QED
  BY <1>5, <1>6 DEF WorkKept

LEMMA OnlySelectedIsShown ==
    ASSUME WorksheetInvariant, open, NEW e \in Dates, e # date
    PROVE  shown # e
BY WorksheetAssumption DEF WorksheetInvariant, DraftIsCurrent

\* Saving the draft of the selected date puts away what its grid shows.
LEMMA SavedDraftsHoldWork ==
    ASSUME WorksheetInvariant, open, NEW e \in Dates, e = date => shown = date
    PROVE  RowsKept(HeldRows(e), DraftRows(DraftSaved[e]))
<1>1. IsGrid(grid)
  BY DEF WorksheetInvariant, WindowTyped
<1>2. CASE e = date
  <2>1. RowsKept(GridRows(grid), DraftRows(DraftOf(grid)))
    BY <1>1, DraftOfGrid
  <2> QED
    BY <1>2, <2>1, DraftSavedTyped DEF HeldRows
<1>3. CASE e # date
  <2>1. HeldRows(e) = DraftRows(DraftSaved[e])
    BY <1>3, DraftSavedTyped, OnlySelectedIsShown DEF HeldRows
  <2> QED
    BY <2>1, KeptIsReflexive
<1> QED
  BY <1>2, <1>3

\* While the draft timer rests, the draft of a date that was worked on has its rows.
LEMMA RestingDraftsHoldWork ==
    ASSUME WorksheetInvariant, NEW e \in Dates, Worked(e),
           open /\ e = date => shown = date /\ ~timers.draft
    PROVE  RowsKept(HeldRows(e), DraftRows(drafts[e]))
<1>1. CASE open /\ shown = e
  BY <1>1, OnlySelectedIsShown DEF HeldRows, Worked, WorksheetInvariant, DraftIsCurrent
<1>2. CASE ~(open /\ shown = e)
  <2>1. HeldRows(e) = DraftRows(drafts[e])
    BY <1>2 DEF HeldRows
  <2> QED
    BY <2>1, KeptIsReflexive
<1> QED
  BY <1>1, <1>2

LEMMA LoadKeepsWork ==
    ASSUME WorksheetInvariant, NEW d \in Dates, NEW dr, NEW c, NEW known, CanLoad(d, dr, c),
           LoadEntryRows(d, dr, c, known), open',
           NEW e \in Dates, RowsKept(HeldRows(e), DraftRows(dr[e]))
    PROVE  RowsKept(HeldRows(e), HeldRows(e)')
<1>1. /\ DOMAIN dr[d] # {} => drafts' = [dr EXCEPT ![d] = DraftOf(grid')]
      /\ DOMAIN dr[d] = {} => drafts' = dr
      /\ RowsKept(DraftRows(dr[d]), GridRows(grid'))
  BY LoadedRows
<1>2. DOMAIN dr = Dates /\ shown' = d
  BY DEF CanLoad, AreDrafts, LoadEntryRows
<1>3. CASE e = d
  <2>1. HeldRows(e)' = GridRows(grid')
    BY <1>2, <1>3 DEF HeldRows, GridRows
  <2> QED
    BY <1>1, <1>3, <2>1, KeptIsTransitive
<1>4. CASE e # d
  <2>1. drafts'[e] = dr[e]
    BY <1>1, <1>2, <1>4
  <2>2. HeldRows(e)' = DraftRows(dr[e])
    BY <1>2, <1>4, <2>1 DEF HeldRows, DraftRows
  <2> QED
    BY <2>2
<1> QED
  BY <1>3, <1>4

LEMMA FailedLoadKeepsWork ==
    ASSUME NEW d, NEW dr, NEW c, NEW known, LoadRaises(d, dr, c, known), UNCHANGED open,
           NEW e \in Dates, RowsKept(HeldRows(e), DraftRows(dr[e]))
    PROVE  RowsKept(HeldRows(e), HeldRows(e)')
<1>1. /\ drafts' = dr /\ grid' = grid /\ shown' = IF shown = d THEN d ELSE NoDate
      /\ NoDate \notin Dates
  BY WorksheetAssumption DEF LoadRaises
<1>2. CASE open /\ shown = d /\ e = d
  <2>1. HeldRows(e)' = HeldRows(e)
    BY <1>1, <1>2 DEF HeldRows, GridRows
  <2> QED
    BY <2>1, KeptIsReflexive
<1>3. CASE ~(open /\ shown = d /\ e = d)
  <2>1. HeldRows(e)' = DraftRows(dr[e])
    BY <1>1, <1>3 DEF HeldRows, DraftRows
  <2> QED
    BY <2>1
<1> QED
  BY <1>2, <1>3

LEMMA GridKeepsWork ==
    ASSUME UNCHANGED <<open, shown, drafts>>, RowsKept(GridRows(grid), GridRows(grid')), NEW e
    PROVE  RowsKept(HeldRows(e), HeldRows(e)')
<1>1. CASE open /\ shown = e
  <2>1. HeldRows(e) = GridRows(grid) /\ HeldRows(e)' = GridRows(grid')
    BY <1>1 DEF HeldRows, GridRows
  <2> QED
    BY <2>1
<1>2. CASE ~(open /\ shown = e)
  <2>1. HeldRows(e) = DraftRows(drafts[e]) /\ HeldRows(e)' = DraftRows(drafts[e])
    BY <1>2 DEF HeldRows, DraftRows
  <2> QED
    BY <2>1, KeptIsReflexive
<1> QED
  BY <1>1, <1>2

LEMMA ClosedKeepsWork ==
    ASSUME Gone, NEW e, RowsKept(HeldRows(e), DraftRows(drafts'[e]))
    PROVE  RowsKept(HeldRows(e), HeldRows(e)')
<1>1. HeldRows(e)' = DraftRows(drafts'[e])
  BY DEF Gone, HeldRows, DraftRows
<1> QED
  BY <1>1

LEMMA WindowEventsKeepWork ==
    ASSUME WorksheetInvariant, WindowEvents, NEW e \in Dates, Worked(e),
           ~(e = date /\ (Misplaced \/ (timers.draft /\ LeavesUnsaved)))
    PROVE  RowsKept(HeldRows(e), HeldRows(e)')
<1>1. CASE (\E r \in Rows : CopyQrLabel(r)) \/ AddRow \/ TrimBlankRows
  <2>1. GridEdit /\ RowsKept(GridRows(grid), GridRows(grid'))
    BY <1>1, CopyQrLabelEdits, AddRowEdits, TrimBlankRowsEdits DEF Rows
  <2> QED
    BY <2>1, GridKeepsWork DEF GridEdit, Kept
<1>2. ASSUME NEW d \in Dates, ChangeEntryDeliveryDate(d)
      PROVE  RowsKept(HeldRows(e), HeldRows(e)')
  <2>1. open /\ open' = open
    BY <1>2 DEF ChangeEntryDeliveryDate, Ready
  <2>2. RowsKept(HeldRows(e), DraftRows(DraftSaved[e])) /\ CanLoad(d, DraftSaved, cache)
    BY <2>1, SavedDraftsHoldWork, CanLoadDrafts DEF Misplaced
  <2>3. CASE LoadEntryRows(d, DraftSaved, cache, versions)
    BY <2>1, <2>2, <2>3, LoadKeepsWork
  <2>4. CASE LoadRaises(d, DraftSaved, cache, versions)
    BY <2>1, <2>2, <2>4, FailedLoadKeepsWork
  <2> QED
    BY <1>2, <2>3, <2>4 DEF ChangeEntryDeliveryDate
<1>3. ASSUME NEW d \in Dates, CommitEntryDeliveryDate(d)
      PROVE  RowsKept(HeldRows(e), HeldRows(e)')
  <2>1. open /\ open' = open /\ (e = date => ~timers.draft)
    BY <1>3 DEF CommitEntryDeliveryDate, Ready, LeavesUnsaved
  <2>2. RowsKept(HeldRows(e), DraftRows(drafts[e])) /\ CanLoad(d, drafts, cache)
    BY <2>1, RestingDraftsHoldWork, CanLoadDrafts DEF Misplaced
  <2>3. CASE LoadEntryRows(d, drafts, cache, versions)
    BY <2>1, <2>2, <2>3, LoadKeepsWork
  <2>4. CASE LoadRaises(d, drafts, cache, versions)
    BY <2>1, <2>2, <2>4, FailedLoadKeepsWork
  <2> QED
    BY <1>3, <2>3, <2>4 DEF CommitEntryDeliveryDate
<1>4. CASE SaveEntryDraft
  <2>1. open /\ drafts' = DraftSaved /\ UNCHANGED <<open, shown, grid>>
    BY <1>4 DEF SaveEntryDraft, Ready
  <2>2. HeldRows(e)' = IF shown = e THEN GridRows(grid) ELSE DraftRows(DraftSaved[e])
    BY <2>1 DEF HeldRows, GridRows, DraftRows
  <2>3. HeldRows(e)' = HeldRows(e)
    BY <2>1, <2>2, DraftSavedTyped, OnlySelectedIsShown DEF HeldRows, Misplaced
  <2> QED
    BY <2>3, KeptIsReflexive
<1>5. CASE Refresh \/ CheckForProductChanges
  <2>1. UNCHANGED <<open, shown, grid, drafts>>
    BY <1>5 DEF Refresh, CheckForProductChanges
  <2> QED
    BY <2>1, KeptIsReflexive, GridKeepsWork
<1>6. CASE CloseWindow
  <2>1. open /\ drafts' = DraftSaved /\ Gone
    BY <1>6 DEF CloseWindow, Ready
  <2> QED
    BY <2>1, SavedDraftsHoldWork, ClosedKeepsWork DEF Misplaced
<1>7. CASE Kill
  <2>1. (e = date => ~timers.draft) /\ drafts' = drafts /\ Gone
    BY <1>7 DEF Kill, LeavesUnsaved
  <2> QED
    BY <2>1, RestingDraftsHoldWork, ClosedKeepsWork DEF Misplaced
<1>8. CASE OpenWindow
  <2>1. ~open /\ open' /\ LoadEntryRows(Today, drafts, NoCache, AllVersions) /\ Today \in Dates
    BY <1>8, WorksheetAssumption DEF OpenWindow
  <2>2. RowsKept(HeldRows(e), DraftRows(drafts[e])) /\ CanLoad(Today, drafts, NoCache)
    BY <2>1, RestingDraftsHoldWork, CanLoadDrafts
  <2> QED
    BY <2>1, <2>2, LoadKeepsWork
<1> QED
  BY <1>1, <1>2, <1>3, <1>4, <1>5, <1>6, <1>7, <1>8 DEF WindowEvents

LEMMA SaveStepsKeepWork ==
    ASSUME WorksheetInvariant, SaveSteps, NEW e \in Dates, ~(e = date /\ Misplaced)
    PROVE  RowsKept(HeldRows(e), HeldRows(e)')
<1>1. CASE SaveCompletedRows \/ SaveAllRows \/ SkipRow \/ RequestFails \/ BeginCreate
             \/ BeginUpdate \/ DuplicateCode \/ FinishRaises
  <2>1. UNCHANGED <<open, shown, grid, drafts>>
    BY <1>1 DEF SaveCompletedRows, SaveAllRows, SkipRow, RequestFails, BeginCreate, BeginUpdate,
                DuplicateCode, FinishRaises, desktop
  <2> QED
    BY <2>1, KeptIsReflexive, GridKeepsWork
<1>2. CASE (\E p \in Ids : EndCreate(p)) \/ EndUpdate
  <2>1. PICK p : (p \in Ids /\ EndCreate(p)) \/ (EndUpdate /\ p = RowToSave.id)
    BY <1>2
  <2>2. /\ save.queue # {} /\ save.call.code \in Codes /\ p \in Ids /\ RowToSave.id \in {NoId, p}
        /\ WriteProduct(p, save.call.code)
    BY <2>1, WriteInHand
  <2>3. CASE RowSaved(p, save.call.code)
    <3>1. RowsKept(GridRows(grid), GridRows(grid'))
      BY <2>2, <2>3, RowSavedGrid
    <3>2. UNCHANGED <<open, shown, drafts>>
      BY <2>3 DEF RowSaved
    <3> QED
      BY <3>1, <3>2, GridKeepsWork
  <2>4. CASE ReplyLost
    <3>1. UNCHANGED <<open, shown, grid, drafts>>
      BY <2>4 DEF ReplyLost, desktop
    <3> QED
      BY <3>1, KeptIsReflexive, GridKeepsWork
  <2> QED
    BY <2>2, <2>3, <2>4 DEF WriteProduct
<1>3. CASE FinishSave
  <2>1. open /\ open' = open /\ date \in Dates
    BY <1>3 DEF FinishSave, WorksheetInvariant, SaveTyped, WindowTyped
  <2>2. RowsKept(HeldRows(e), DraftRows(DraftSaved[e])) /\ CanLoad(date, DraftSaved, NoCache)
    BY <2>1, SavedDraftsHoldWork, CanLoadDrafts DEF Misplaced
  <2>3. CASE LoadEntryRows(date, DraftSaved, NoCache, AllVersions)
    BY <2>1, <2>2, <2>3, LoadKeepsWork
  <2>4. CASE LoadRaises(date, DraftSaved, NoCache, AllVersions)
    BY <2>1, <2>2, <2>4, FailedLoadKeepsWork
  <2>5. CASE UNCHANGED <<grid, shown, drafts>>
    BY <2>1, <2>5, KeptIsReflexive, GridKeepsWork
  <2> QED
    BY <1>3, <2>3, <2>4, <2>5 DEF FinishSave
<1> QED
  BY <1>1, <1>2, <1>3 DEF SaveSteps

\* Every edit of the user is counted, so a step that leaves the count alone is no edit.
LEMMA EditsAreCounted ==
    ASSUME UserEdits
    PROVE  edits' = edits + 1
BY DEF UserEdits, UserFills, Edit, TypeCell, PasteCell, FillDown, InsertRow, DeleteRow, MoveRow,
       SortRows, ClearRows

LEMMA EditsKept ==
    ASSUME WindowEvents \/ SaveSteps \/ OtherMachines \/ UNCHANGED vars
    PROVE  edits' = edits
<1>1. CASE WindowEvents
  BY <1>1 DEF WindowEvents, CopyQrLabel, AddRow, TrimBlankRows, ChangeEntryDeliveryDate,
       CommitEntryDeliveryDate, SaveEntryDraft, Refresh, CheckForProductChanges, CloseWindow,
       Kill, OpenWindow, Gone
<1>2. CASE SaveSteps
  BY <1>2 DEF SaveSteps, SaveCompletedRows, SaveAllRows, SkipRow, RequestFails, BeginCreate,
       BeginUpdate, EndCreate, EndUpdate, WriteProduct, RowSaved, ReplyLost, DuplicateCode,
       FinishSave, FinishRaises
<1>3. CASE OtherMachines
  BY <1>3 DEF OtherMachines, OtherUpdate, OtherCreate
<1>4. CASE UNCHANGED vars
  BY <1>4 DEF vars
<1> QED
  BY <1>1, <1>2, <1>3, <1>4

LEMMA EditsCounter == Spec => [](edits \in Nat)
<1>1. Init => edits \in Nat
  BY DEF Init
<1>2. edits \in Nat /\ [Next]_vars => (edits \in Nat)'
  BY EditsAreCounted, EditsKept DEF Next
<1> QED
  BY <1>1, <1>2, PTL DEF Spec

\* For any products, texts, dates and sizes: whatever happens but an edit of the user, a date
\* keeps its rows' texts and links.  Only the selected date can lose them: while the grid holds
\* the rows of another date since a list request failed, or while the draft timer runs and the
\* user types another date over it or the process is killed.
THEOREM WorkIsKept == Spec => DraftsKeepWork
<1> DEFINE Step == edits' = edits => \A d \in Dates : Worked(d) /\ ~WorkKept(d) =>
                     d = date /\ (Misplaced \/ (timers.draft /\ LeavesUnsaved))
<1>1. WorksheetInvariant /\ edits \in Nat /\ [Next]_vars => Step
  <2>1. SUFFICES ASSUME WorksheetInvariant, edits \in Nat, [Next]_vars, edits' = edits,
                        NEW d \in Dates, Worked(d),
                        ~(d = date /\ (Misplaced \/ (timers.draft /\ LeavesUnsaved)))
                 PROVE  WorkKept(d)
    BY Zenon
  <2>2. ~UserEdits
    BY <2>1, EditsAreCounted
  <2>3. RowsKept(HeldRows(d), HeldRows(d)')
    <3>1. CASE WindowEvents
      BY <2>1, <3>1, WindowEventsKeepWork
    <3>2. CASE SaveSteps
      BY <2>1, <3>2, SaveStepsKeepWork
    <3>3. CASE OtherMachines \/ UNCHANGED vars
      <4>1. UNCHANGED <<open, shown, grid, drafts>>
        BY <3>3 DEF OtherMachines, OtherUpdate, OtherCreate, vars, desktop
      <4> QED
        BY <4>1, KeptIsReflexive, GridKeepsWork
    <3> QED
      BY <2>1, <2>2, <3>1, <3>2, <3>3 DEF Next
  <2> QED
    BY <2>1, <2>3, KeptRowsKeepWork
<1>2. Spec => [][Step]_vars
  BY <1>1, WorksheetInvariantHolds, EditsCounter, PTL DEF Spec
<1> QED
  BY <1>2 DEF DraftsKeepWork

-----------------------------------------------------------------------------
(* No row takes the link of another one: OnlyFillSharesLinks *)

GridOnce(g) == \A r, s \in 1..Len(g) : Linked(g[r]) /\ g[r].id = g[s].id => r = s
DraftOnce(draft) == \A r, s \in DOMAIN draft : draft[r].id \in Ids /\ draft[r].id = draft[s].id => r = s

LEMMA LinkedOnceParts ==
    /\ LinkedOnce <=> GridOnce(grid) /\ \A d \in Dates : DraftOnce(drafts[d])
    /\ LinkedOnce' <=> GridOnce(grid') /\ \A d \in Dates : DraftOnce(drafts'[d])
BY DEF LinkedOnce, GridOnce, DraftOnce, Linked

LEMMA RearrangedOnce ==
    ASSUME NEW old, NEW new, GridOnce(old), Rearranged(new, old)
    PROVE  GridOnce(new)
<1>1. PICK from \in [LinkedRows(new) -> 1..Len(old)] :
        /\ \A r, s \in LinkedRows(new) : from[r] = from[s] => r = s
        /\ \A r \in LinkedRows(new) : new[r].id = old[from[r]].id
  BY DEF Rearranged
<1>2. SUFFICES ASSUME NEW r \in 1..Len(new), NEW s \in 1..Len(new), Linked(new[r]),
                      new[r].id = new[s].id
               PROVE  r = s
  BY DEF GridOnce
<1>3. r \in LinkedRows(new) /\ s \in LinkedRows(new)
  BY <1>2 DEF LinkedRows, Linked
<1>4. Linked(old[from[r]]) /\ old[from[r]].id = old[from[s]].id
  BY <1>1, <1>2, <1>3 DEF Linked
<1>5. from[r] = from[s]
  BY <1>1, <1>3, <1>4 DEF GridOnce
<1> QED
  BY <1>1, <1>3, <1>5

LEMMA DraftOfOnce ==
    ASSUME NEW g, IsGrid(g), GridOnce(g)
    PROVE  DraftOnce(DraftOf(g))
<1>1. PICK draft : draft = DraftOf(g)
  OBVIOUS
<1>2. /\ DOMAIN draft \subseteq 1..Len(g)
      /\ \A r \in DOMAIN draft : draft[r].id \in Ids => draft[r].id = g[r].id
  BY <1>1, DraftOfGrid
<1>3. DraftOnce(draft)
  BY <1>2 DEF DraftOnce, GridOnce, Linked
<1> QED
  BY <1>1, <1>3

LEMMA DraftSavedOnce ==
    ASSUME WorksheetInvariant, LinkedOnce, NEW d \in Dates
    PROVE  DraftOnce(DraftSaved[d])
<1>1. IsGrid(grid) /\ GridOnce(grid) /\ DraftOnce(drafts[d])
  BY LinkedOnceParts DEF WorksheetInvariant, WindowTyped
<1>2. DraftOnce(DraftOf(grid))
  BY <1>1, DraftOfOnce
<1> QED
  BY <1>1, <1>2, DraftSavedTyped

\* A load shows each row of a draft once, and each product of a date without one once.
LEMMA LoadLinksOnce ==
    ASSUME WorksheetInvariant, NEW d, NEW dr, NEW c, NEW known, CanLoad(d, dr, c),
           LoadEntryRows(d, dr, c, known), \A e \in Dates : DraftOnce(dr[e])
    PROVE  LinkedOnce'
<1>1. PICK items \in [Ids -> Product] : grid' \in LoadedGrids(d, dr[d], items)
  BY LoadedRows
<1>2. /\ IsGrid(grid') /\ d \in Dates /\ DOMAIN dr = Dates /\ IsDraft(dr[d])
      /\ DOMAIN dr[d] # {} => drafts' = [dr EXCEPT ![d] = DraftOf(grid')]
      /\ DOMAIN dr[d] = {} => drafts' = dr
  BY LoadedRows DEF CanLoad, AreDrafts
<1>3. GridOnce(grid')
  <2>1. CASE DOMAIN dr[d] = {}
    BY <1>1, <2>1, ProductsComeBack DEF GridOnce
  <2>2. CASE DOMAIN dr[d] # {}
    <3>1. PICK draft : draft = dr[d]
      OBVIOUS
    <3>2. \A r \in 1..Len(grid') : IF r \in DOMAIN draft THEN grid'[r].id = draft[r].id
                                                         ELSE ~Linked(grid'[r])
      BY <1>1, <1>2, <2>2, <3>1, DraftComesBack
    <3>3. DraftOnce(draft)
      BY <1>2, <3>1
    <3> QED
      BY <3>2, <3>3 DEF GridOnce, DraftOnce, Linked
  <2> QED
    BY <2>1, <2>2
<1>4. DraftOnce(DraftOf(grid'))
  BY <1>2, <1>3, DraftOfOnce
<1>5. \A e \in Dates : DraftOnce(drafts'[e])
  BY <1>2, <1>4
<1> QED
  BY <1>3, <1>5, LinkedOnceParts

LEMMA FailedLoadLinksOnce ==
    ASSUME LinkedOnce, NEW d, NEW dr, NEW c, NEW known, LoadRaises(d, dr, c, known),
           \A e \in Dates : DraftOnce(dr[e])
    PROVE  LinkedOnce'
BY LinkedOnceParts DEF LoadRaises

LEMMA EditLinksOnce ==
    ASSUME LinkedOnce, GridEdit, Rearranged(grid', grid)
    PROVE  LinkedOnce'
<1>1. GridOnce(grid')
  BY LinkedOnceParts, RearrangedOnce
<1> QED
  BY <1>1, LinkedOnceParts DEF GridEdit, Kept

LEMMA WindowEventsLinkOnce ==
    ASSUME WorksheetInvariant, LinkedOnce, WindowEvents
    PROVE  LinkedOnce'
<1>0. \A d \in Dates : DraftOnce(DraftSaved[d]) /\ DraftOnce(drafts[d])
  BY DraftSavedOnce, LinkedOnceParts
<1>1. CASE (\E r \in Rows : CopyQrLabel(r)) \/ AddRow \/ TrimBlankRows
  <2>1. GridEdit /\ Rearranged(grid', grid)
    BY <1>1, CopyQrLabelEdits, AddRowEdits, TrimBlankRowsEdits DEF Rows
  <2> QED
    BY <2>1, EditLinksOnce
<1>2. ASSUME NEW d \in Dates, ChangeEntryDeliveryDate(d) \/ CommitEntryDeliveryDate(d)
      PROVE  LinkedOnce'
  <2>1. PICK dr \in {drafts, DraftSaved} :
          LoadEntryRows(d, dr, cache, versions) \/ LoadRaises(d, dr, cache, versions)
    BY <1>2 DEF ChangeEntryDeliveryDate, CommitEntryDeliveryDate
  <2>2. CanLoad(d, dr, cache) /\ \A e \in Dates : DraftOnce(dr[e])
    BY <1>0, <2>1, CanLoadDrafts
  <2> QED
    BY <2>1, <2>2, LoadLinksOnce, FailedLoadLinksOnce
<1>3. CASE SaveEntryDraft
  BY <1>0, <1>3, LinkedOnceParts DEF SaveEntryDraft
<1>4. CASE Refresh \/ CheckForProductChanges
  BY <1>4, LinkedOnceParts DEF Refresh, CheckForProductChanges
<1>5. CASE CloseWindow \/ Kill
  <2>1. grid' = <<>> /\ drafts' \in {drafts, DraftSaved}
    BY <1>5 DEF CloseWindow, Kill, Gone
  <2>2. GridOnce(grid')
    BY <2>1 DEF GridOnce
  <2> QED
    BY <1>0, <2>1, <2>2, LinkedOnceParts
<1>6. CASE OpenWindow
  <2>1. LoadEntryRows(Today, drafts, NoCache, AllVersions) /\ Today \in Dates
    BY <1>6, WorksheetAssumption DEF OpenWindow
  <2>2. CanLoad(Today, drafts, NoCache)
    BY <2>1, CanLoadDrafts
  <2> QED
    BY <1>0, <2>1, <2>2, LoadLinksOnce
<1> QED
  BY <1>1, <1>2, <1>3, <1>4, <1>5, <1>6 DEF WindowEvents

LEMMA SaveStepsLinkOnce ==
    ASSUME WorksheetInvariant, LinkedOnce, SaveSteps
    PROVE  LinkedOnce'
<1>1. CASE SaveCompletedRows \/ SaveAllRows \/ SkipRow \/ RequestFails \/ BeginCreate
             \/ BeginUpdate \/ DuplicateCode \/ FinishRaises
  <2>1. UNCHANGED <<grid, drafts>>
    BY <1>1 DEF SaveCompletedRows, SaveAllRows, SkipRow, RequestFails, BeginCreate, BeginUpdate,
                DuplicateCode, FinishRaises, desktop
  <2> QED
    BY <2>1, LinkedOnceParts
<1>2. CASE (\E p \in Ids : EndCreate(p)) \/ EndUpdate
  <2>1. PICK p : (p \in Ids /\ EndCreate(p)) \/ (EndUpdate /\ p = RowToSave.id)
    BY <1>2
  <2>2. /\ save.queue # {} /\ save.call.code \in Codes /\ p \in Ids /\ RowToSave.id \in {NoId, p}
        /\ RowToSave.id = p \/ p \notin Stored
        /\ WriteProduct(p, save.call.code)
    BY <2>1, WriteInHand
  <2>3. CASE RowSaved(p, save.call.code)
    <3>1. /\ Len(grid') = Len(grid)
          /\ \A r \in 1..Len(grid) : grid'[r].id = IF r = ToSave THEN p ELSE grid[r].id
      BY <2>2, <2>3, RowSavedGrid
    <3>2. ToSave \in 1..Len(grid) /\ RowToSave = grid[ToSave]
      BY <2>2, RowInHand DEF RowToSave
    <3>3. \A r \in 1..Len(grid) : grid[r].id = p => r = ToSave
      <4>1. CASE RowToSave.id = p
        BY <2>2, <3>2, <4>1, LinkedOnceParts DEF GridOnce, Linked
      <4>2. CASE p \notin Stored
        BY <2>2, <4>2 DEF WorksheetInvariant, LinksStored, GridLinked, Linked
      <4> QED
        BY <2>2, <4>1, <4>2
    <3>4. GridOnce(grid')
      BY <3>1, <3>2, <3>3, LinkedOnceParts DEF GridOnce, Linked
    <3> QED
      BY <2>3, <3>4, LinkedOnceParts DEF RowSaved
  <2>4. CASE ReplyLost
    BY <2>4, LinkedOnceParts DEF ReplyLost, desktop
  <2> QED
    BY <2>2, <2>3, <2>4 DEF WriteProduct
<1>3. CASE FinishSave
  <2>1. date \in Dates
    BY DEF WorksheetInvariant, WindowTyped
  <2>2. CanLoad(date, DraftSaved, NoCache) /\ \A e \in Dates : DraftOnce(DraftSaved[e])
    BY <2>1, CanLoadDrafts, DraftSavedOnce
  <2>3. CASE LoadEntryRows(date, DraftSaved, NoCache, AllVersions)
    BY <2>2, <2>3, LoadLinksOnce
  <2>4. CASE LoadRaises(date, DraftSaved, NoCache, AllVersions)
    BY <2>2, <2>4, FailedLoadLinksOnce
  <2>5. CASE UNCHANGED <<grid, drafts>>
    BY <2>5, LinkedOnceParts
  <2> QED
    BY <1>3, <2>3, <2>4, <2>5 DEF FinishSave
<1> QED
  BY <1>1, <1>2, <1>3 DEF SaveSteps

\* For any products, texts, dates and sizes: no save, load, move, sort or retry links a second
\* row of a worksheet to a product; only a fill does.
THEOREM LinksStaySeparate == Spec => OnlyFillSharesLinks
<1> DEFINE Step == LinkedOnce => LinkedOnce' \/ UserFills
<1>1. WorksheetInvariant /\ [Next]_vars => [Step]_<<grid, drafts>>
  <2>1. SUFFICES ASSUME WorksheetInvariant, [Next]_vars, LinkedOnce, ~UserFills
                 PROVE  LinkedOnce'
    OBVIOUS
  <2>2. CASE UserEdits
    <3>1. GridEdit /\ Rearranged(grid', grid)
      BY <2>1, <2>2, TypeCellEdits, PasteCellEdits, InsertRowEdits, DeleteRowEdits, MoveRowEdits,
         SortRowsEdits, ClearRowsEdits DEF UserEdits, Rows
    <3> QED
      BY <2>1, <3>1, EditLinksOnce
  <2>3. CASE WindowEvents
    BY <2>1, <2>3, WindowEventsLinkOnce
  <2>4. CASE SaveSteps
    BY <2>1, <2>4, SaveStepsLinkOnce
  <2>5. CASE OtherMachines \/ UNCHANGED vars
    <3>1. UNCHANGED <<grid, drafts>>
      BY <2>5 DEF OtherMachines, OtherUpdate, OtherCreate, vars, desktop
    <3> QED
      BY <2>1, <3>1, LinkedOnceParts
  <2> QED
    BY <2>1, <2>2, <2>3, <2>4, <2>5 DEF Next
<1>2. Spec => [][Step]_<<grid, drafts>>
  BY <1>1, WorksheetInvariantHolds, PTL DEF Spec
<1> QED
  BY <1>2 DEF OnlyFillSharesLinks
=============================================================================

--------------------------- MODULE SqlEngineProofs --------------------------
(***************************************************************************)
(* Proofs about SqlEngine and EngineBackup: what a restart, a backup and a *)
(* restore find, for any keys, values, compaction threshold and numbers of *)
(* transactions, failures and stops.                                       *)
(***************************************************************************)
EXTENDS EngineBackup, SequenceTheorems, WellFoundedInduction, TLAPS

-----------------------------------------------------------------------------
(* Replay.  Induction is by the least place at which a claim would fail. *)

\* A set of numbers that is not empty has a least element.
LEMMA LeastExists ==
    ASSUME NEW T \in SUBSET Nat, T # {}
    PROVE  \E x \in T : \A y \in T : x <= y
<1> DEFINE R == OpToRel(<, Nat)
<1>1. IsWellFoundedOn(R, Nat)
  BY NatLessThanWellFounded
<1>2. \A x, y \in Nat : y < x => <<y, x>> \in R
  BY DEF OpToRel
<1> HIDE DEF R
<1>3. PICK x \in T : \A y \in T : ~(<<y, x>> \in R)
  BY <1>1, WFMin
<1>4. \A y \in T : x \in Nat /\ y \in Nat /\ ~(y < x)
  BY <1>2, <1>3
<1> QED
  BY <1>4

\* A run of the replay over the first k operations of a record.
ReplayRun(f, db, record, k) ==
    f = [n \in 0..k |-> IF n = 0 THEN db ELSE ReplayOp(f[n - 1], record[n])]

\* There is a run over any first part of a record.
LEMMA ReplayRunExists ==
    ASSUME NEW db, NEW record, NEW k \in Nat
    PROVE  \E f : ReplayRun(f, db, record, k)
<1> DEFINE bad == {n \in Nat : ~\E f : ReplayRun(f, db, record, n)}
<1>1. SUFFICES ASSUME bad # {}
               PROVE  FALSE
  OBVIOUS
<1>2. PICK m \in bad : \A y \in bad : m <= y
  <2>1. bad \in SUBSET Nat
    OBVIOUS
  <2> QED
    BY <1>1, <2>1, LeastExists
<1>3. m # 0
  <2>1. ReplayRun([n \in 0..0 |-> db], db, record, 0)
    BY DEF ReplayRun
  <2> QED
    BY <2>1
<1>4. m - 1 \in Nat /\ m - 1 \notin bad
  BY <1>2, <1>3
<1>5. PICK f : ReplayRun(f, db, record, m - 1)
  BY <1>4
<1> DEFINE g == [n \in 0..m |-> IF n = 0 THEN db ELSE ReplayOp(f[n - 1], record[n])]
<1>6. \A n \in 0..(m - 1) : g[n] = f[n]
  BY <1>5 DEF ReplayRun
<1>7. ReplayRun(g, db, record, m)
  <2>1. \A n \in 0..m : (IF n = 0 THEN db ELSE ReplayOp(f[n - 1], record[n]))
                        = (IF n = 0 THEN db ELSE ReplayOp(g[n - 1], record[n]))
    <3>1. SUFFICES ASSUME NEW n \in 0..m, n # 0
                   PROVE  f[n - 1] = g[n - 1]
      BY Zenon
    <3>2. n - 1 \in 0..(m - 1)
      BY <3>1
    <3> QED
      BY <1>6, <3>2
  <2> QED
    BY <2>1, Zenon DEF ReplayRun
<1> QED
  BY <1>7, <1>2

\* The state that ReplayRecord picks after an operation is the only one.
LEMMA OneSuccessor ==
    ASSUME NEW s, NEW o
    PROVE  (CHOOSE next \in {ReplayOp(before, o) : before \in {s}} : TRUE) = ReplayOp(s, o)
<1>1. {ReplayOp(before, o) : before \in {s}} = {ReplayOp(s, o)}
  BY Zenon
<1> QED
  BY <1>1, Zenon

\* What replaying a record gives is where a run over it ends.
LEMMA ReplayRecordIs ==
    ASSUME NEW db, NEW record \in Seq(Statements)
    PROVE  \E f : /\ ReplayRun(f, db, record, Len(record))
                  /\ ReplayRecord(db, record) = f[Len(record)]
<1> DEFINE applied(s, n) == CHOOSE next \in {ReplayOp(before, record[n]) : before \in {s}} : TRUE
           after[n \in 0..Len(record)] == IF n = 0 THEN db ELSE applied(after[n - 1], n)
<1>1. \A s, n : applied(s, n) = ReplayOp(s, record[n])
  BY OneSuccessor, Zenon
<1>2. ReplayRecord(db, record) = after[Len(record)]
  BY Zenon DEF ReplayRecord
<1> HIDE DEF applied
<1>3. ASSUME NEW f
      PROVE  ReplayRun(f, db, record, Len(record))
             <=> f = [n \in 0..Len(record) |-> IF n = 0 THEN db ELSE applied(f[n - 1], n)]
  BY <1>1, Zenon DEF ReplayRun
<1>4. \E f : f = [n \in 0..Len(record) |-> IF n = 0 THEN db ELSE applied(f[n - 1], n)]
  <2>1. Len(record) \in Nat
    OBVIOUS
  <2>2. \E f : ReplayRun(f, db, record, Len(record))
    BY <2>1, ReplayRunExists, Zenon
  <2> QED
    BY <1>3, <2>2, Zenon
<1>5. after = [n \in 0..Len(record) |-> IF n = 0 THEN db ELSE applied(after[n - 1], n)]
  BY <1>4, Zenon
<1>6. ReplayRun(after, db, record, Len(record))
  BY <1>3, <1>5, Zenon
<1> QED
  BY <1>2, <1>6, Zenon

\* Two runs agree on the operations that both have replayed.
LEMMA ReplayRunsAgree ==
    ASSUME NEW db, NEW r1, NEW r2, NEW k \in Nat, NEW l \in Nat, NEW f, NEW g, k <= l,
           ReplayRun(f, db, r1, k), ReplayRun(g, db, r2, l), \A n \in 1..k : r1[n] = r2[n]
    PROVE  f[k] = g[k]
<1> DEFINE bad == {n \in 0..k : f[n] # g[n]}
<1>1. SUFFICES ASSUME bad # {}
               PROVE  FALSE
  OBVIOUS
<1>2. PICK m \in bad : \A y \in bad : m <= y
  <2>1. bad \in SUBSET Nat
    OBVIOUS
  <2> QED
    BY <1>1, <2>1, LeastExists
<1>3. \A n \in 0..k : f[n] = IF n = 0 THEN db ELSE ReplayOp(f[n - 1], r1[n])
  BY DEF ReplayRun
<1>4. \A n \in 0..k : g[n] = IF n = 0 THEN db ELSE ReplayOp(g[n - 1], r2[n])
  BY DEF ReplayRun
<1>5. m # 0
  BY <1>2, <1>3, <1>4
<1>6. m - 1 \in 0..k /\ m - 1 \notin bad /\ m \in 1..k
  BY <1>2, <1>5
<1> QED
  BY <1>2, <1>3, <1>4, <1>5, <1>6

\* A record without operations changes nothing.
LEMMA ReplayRecordEmpty ==
    ASSUME NEW db
    PROVE  ReplayRecord(db, <<>>) = db
<1>1. <<>> \in Seq(Statements) /\ Len(<<>>) = 0
  OBVIOUS
<1>2. PICK f : ReplayRun(f, db, <<>>, 0) /\ ReplayRecord(db, <<>>) = f[0]
  BY <1>1, ReplayRecordIs
<1> QED
  BY <1>2 DEF ReplayRun

\* The last operation of a record is replayed on what the others gave.
LEMMA ReplayRecordAppend ==
    ASSUME NEW db, NEW record \in Seq(Statements), NEW o \in Statements
    PROVE  ReplayRecord(db, Append(record, o)) = ReplayOp(ReplayRecord(db, record), o)
<1> DEFINE longer == Append(record, o)
           k == Len(record)
<1>1. k \in Nat /\ longer \in Seq(Statements) /\ Len(longer) = k + 1 /\ longer[k + 1] = o
      /\ \A n \in 1..k : record[n] = longer[n]
  OBVIOUS
<1>2. PICK f : ReplayRun(f, db, record, k) /\ ReplayRecord(db, record) = f[k]
  BY ReplayRecordIs
<1>3. PICK g : ReplayRun(g, db, longer, k + 1) /\ ReplayRecord(db, longer) = g[k + 1]
  BY <1>1, ReplayRecordIs
<1> HIDE DEF longer, k
<1>4. f[k] = g[k]
  BY <1>1, <1>2, <1>3, ReplayRunsAgree, k + 1 \in Nat, k <= k + 1
<1>5. g[k + 1] = ReplayOp(g[k], longer[k + 1])
  BY <1>1, <1>3 DEF ReplayRun
<1> QED
  BY <1>1, <1>2, <1>3, <1>4, <1>5 DEF longer
Record == Seq(Statements) \ {<<>>}
Line == Record \cup {Torn}

\* A run of the replay over the first k lines.
LinesRun(f, s, lines, k) ==
    f = [n \in 0..k |-> IF n = 0 THEN s ELSE ReplayRecord(f[n - 1], lines[n])]

\* There is a run over any first part of the lines.
LEMMA LinesRunExists ==
    ASSUME NEW s, NEW lines, NEW k \in Nat
    PROVE  \E f : LinesRun(f, s, lines, k)
<1> DEFINE bad == {n \in Nat : ~\E f : LinesRun(f, s, lines, n)}
<1>1. SUFFICES ASSUME bad # {}
               PROVE  FALSE
  OBVIOUS
<1>2. PICK m \in bad : \A y \in bad : m <= y
  <2>1. bad \in SUBSET Nat
    OBVIOUS
  <2> QED
    BY <1>1, <2>1, LeastExists
<1>3. m # 0
  <2>1. LinesRun([n \in 0..0 |-> s], s, lines, 0)
    BY DEF LinesRun
  <2> QED
    BY <2>1
<1>4. m - 1 \in Nat /\ m - 1 \notin bad
  BY <1>2, <1>3
<1>5. PICK f : LinesRun(f, s, lines, m - 1)
  BY <1>4
<1> DEFINE g == [n \in 0..m |-> IF n = 0 THEN s ELSE ReplayRecord(f[n - 1], lines[n])]
<1>6. \A n \in 0..(m - 1) : g[n] = f[n]
  BY <1>5 DEF LinesRun
<1>7. LinesRun(g, s, lines, m)
  <2>1. \A n \in 0..m : (IF n = 0 THEN s ELSE ReplayRecord(f[n - 1], lines[n]))
                        = (IF n = 0 THEN s ELSE ReplayRecord(g[n - 1], lines[n]))
    <3>1. SUFFICES ASSUME NEW n \in 0..m, n # 0
                   PROVE  f[n - 1] = g[n - 1]
      BY Zenon
    <3>2. n - 1 \in 0..(m - 1)
      BY <3>1
    <3> QED
      BY <1>6, <3>2
  <2> QED
    BY <2>1, Zenon DEF LinesRun
<1> QED
  BY <1>7, <1>2

\* What replaying lines gives is where a run over them ends.
LEMMA ReplayedIs ==
    ASSUME NEW s, NEW lines \in Seq(Record)
    PROVE  \E f : /\ LinesRun(f, s, lines, Len(lines))
                  /\ Replayed(s, lines) = f[Len(lines)]
<1> DEFINE after[n \in 0..Len(lines)] ==
               IF n = 0 THEN s ELSE ReplayRecord(after[n - 1], lines[n])
<1>1. \E f : f = [n \in 0..Len(lines) |-> IF n = 0 THEN s ELSE ReplayRecord(f[n - 1], lines[n])]
  <2>1. Len(lines) \in Nat
    OBVIOUS
  <2>2. \E f : LinesRun(f, s, lines, Len(lines))
    BY <2>1, LinesRunExists, Zenon
  <2> QED
    BY <2>2, Zenon DEF LinesRun
<1>2. after = [n \in 0..Len(lines) |-> IF n = 0 THEN s ELSE ReplayRecord(after[n - 1], lines[n])]
  BY <1>1, Zenon
<1>3. Replayed(s, lines) = after[Len(lines)]
  BY Zenon DEF Replayed
<1> QED
  BY <1>2, <1>3, Zenon DEF LinesRun

\* Two runs agree on the lines that both have replayed.
LEMMA LinesRunsAgree ==
    ASSUME NEW s, NEW r1, NEW r2, NEW k \in Nat, NEW l \in Nat, NEW f, NEW g, k <= l,
           LinesRun(f, s, r1, k), LinesRun(g, s, r2, l), \A n \in 1..k : r1[n] = r2[n]
    PROVE  f[k] = g[k]
<1> DEFINE bad == {n \in 0..k : f[n] # g[n]}
<1>1. SUFFICES ASSUME bad # {}
               PROVE  FALSE
  OBVIOUS
<1>2. PICK m \in bad : \A y \in bad : m <= y
  <2>1. bad \in SUBSET Nat
    OBVIOUS
  <2> QED
    BY <1>1, <2>1, LeastExists
<1>3. \A n \in 0..k : f[n] = IF n = 0 THEN s ELSE ReplayRecord(f[n - 1], r1[n])
  BY DEF LinesRun
<1>4. \A n \in 0..k : g[n] = IF n = 0 THEN s ELSE ReplayRecord(g[n - 1], r2[n])
  BY DEF LinesRun
<1>5. m # 0
  BY <1>2, <1>3, <1>4
<1>6. m - 1 \in 0..k /\ m - 1 \notin bad /\ m \in 1..k
  BY <1>2, <1>5
<1> QED
  BY <1>2, <1>3, <1>4, <1>5, <1>6

\* An empty journal leaves the snapshot as it is.
LEMMA ReplayedEmpty ==
    ASSUME NEW s
    PROVE  Replayed(s, <<>>) = s
<1>1. <<>> \in Seq(Record) /\ Len(<<>>) = 0
  OBVIOUS
<1>2. PICK f : LinesRun(f, s, <<>>, 0) /\ Replayed(s, <<>>) = f[0]
  BY <1>1, ReplayedIs
<1> QED
  BY <1>2 DEF LinesRun

\* The last line is replayed on what the others gave.
LEMMA ReplayedAppend ==
    ASSUME NEW s, NEW lines \in Seq(Record), NEW r \in Record
    PROVE  Replayed(s, Append(lines, r)) = ReplayRecord(Replayed(s, lines), r)
<1> DEFINE longer == Append(lines, r)
           k == Len(lines)
<1>1. k \in Nat /\ longer \in Seq(Record) /\ Len(longer) = k + 1 /\ longer[k + 1] = r
      /\ \A n \in 1..k : lines[n] = longer[n]
  OBVIOUS
<1>2. PICK f : LinesRun(f, s, lines, k) /\ Replayed(s, lines) = f[k]
  BY ReplayedIs
<1>3. PICK g : LinesRun(g, s, longer, k + 1) /\ Replayed(s, longer) = g[k + 1]
  BY <1>1, ReplayedIs
<1> HIDE DEF longer, k
<1>4. f[k] = g[k]
  BY <1>1, <1>2, <1>3, LinesRunsAgree, k + 1 \in Nat, k <= k + 1
<1>5. g[k + 1] = ReplayRecord(g[k], longer[k + 1])
  BY <1>1, <1>3 DEF LinesRun
<1> QED
  BY <1>1, <1>2, <1>3, <1>4, <1>5 DEF longer

-----------------------------------------------------------------------------
(* Tables *)

\* No table yet, or a table with rows.
Sound(db) == db = EmptyDb \/ db = [table |-> TRUE, rows |-> db.rows]

\* Sound rows are rows that could be loaded.
LEMMA SoundIsOpenable ==
    ASSUME NEW db, Sound(db)
    PROVE  db # Broken
BY DEF Sound, EmptyDb, Broken

\* The kinds of statement that a record holds.
LEMMA StatementKinds ==
    ASSUME NEW o \in Statements
    PROVE  o.op \in {"ddl", "insert", "update", "delete"}
BY DEF Statements, Ddl, Insert, Update, Delete

\* A statement that is accepted has the same effect when its record is replayed.
LEMMA AcceptedReplays ==
    ASSUME NEW db, Sound(db), NEW o \in Statements, Accepts(db, o)
    PROVE  ReplayOp(db, o) = Execute(db, o) /\ Sound(Execute(db, o))
<1>1. db # Broken
  BY SoundIsOpenable
<1>2. CASE o.op = "ddl"
  BY <1>1, <1>2 DEF Accepts, ReplayOp, Execute, Sound
<1>3. CASE o.op = "insert"
  BY <1>1, <1>3 DEF Accepts, ReplayOp, Execute, Sound, EmptyDb
<1>4. CASE o.op = "update"
  BY <1>1, <1>4 DEF Accepts, ReplayOp, Execute, Sound, EmptyDb
<1>5. CASE o.op = "delete"
  BY <1>1, <1>5 DEF Accepts, ReplayOp, Execute, Sound, EmptyDb
<1> QED
  BY <1>2, <1>3, <1>4, <1>5, StatementKinds

\* Whatever is replayed, the result is sound or cannot be opened.
LEMMA ReplayOpSound ==
    ASSUME NEW db, Sound(db) \/ db = Broken, NEW o \in Statements
    PROVE  Sound(ReplayOp(db, o)) \/ ReplayOp(db, o) = Broken
<1>1. CASE db = Broken
  BY <1>1 DEF ReplayOp
<1>2. CASE Sound(db) /\ o.op = "ddl"
  BY <1>2 DEF ReplayOp, Execute, Sound
<1>3. CASE Sound(db) /\ o.op = "insert"
  BY <1>3 DEF ReplayOp, Execute, Sound, EmptyDb
<1>4. CASE Sound(db) /\ o.op = "update"
  BY <1>4 DEF ReplayOp, Execute, Sound, EmptyDb
<1>5. CASE Sound(db) /\ o.op = "delete"
  BY <1>5 DEF ReplayOp, Execute, Sound, EmptyDb
<1> QED
  BY <1>1, <1>2, <1>3, <1>4, <1>5, StatementKinds

\* So is the replay of a record.
LEMMA ReplayRecordSound ==
    ASSUME NEW db, Sound(db) \/ db = Broken, NEW record \in Seq(Statements)
    PROVE  Sound(ReplayRecord(db, record)) \/ ReplayRecord(db, record) = Broken
<1> DEFINE k == Len(record)
<1>1. k \in Nat /\ \A n \in 1..k : record[n] \in Statements
  OBVIOUS
<1>2. PICK f : ReplayRun(f, db, record, k) /\ ReplayRecord(db, record) = f[k]
  BY ReplayRecordIs
<1> HIDE DEF k
<1>3. \A n \in 0..k : f[n] = IF n = 0 THEN db ELSE ReplayOp(f[n - 1], record[n])
  BY <1>2 DEF ReplayRun
<1> DEFINE bad == {n \in 0..k : ~(Sound(f[n]) \/ f[n] = Broken)}
<1>4. SUFFICES ASSUME bad # {}
               PROVE  FALSE
  BY <1>1, <1>2
<1>5. PICK m \in bad : \A y \in bad : m <= y
  <2>1. bad \in SUBSET Nat
    BY <1>1
  <2> QED
    BY <1>4, <2>1, LeastExists
<1>6. m # 0
  BY <1>3, <1>5, <1>1
<1>7. m - 1 \in 0..k /\ m - 1 \notin bad /\ m \in 1..k
  BY <1>5, <1>6, <1>1
<1>8. f[m] = ReplayOp(f[m - 1], record[m])
  BY <1>3, <1>5, <1>6
<1>9. Sound(f[m - 1]) \/ f[m - 1] = Broken
  BY <1>7
<1> QED
  BY <1>1, <1>5, <1>7, <1>8, <1>9, ReplayOpSound

\* So is the replay of a journal.
LEMMA ReplayedSound ==
    ASSUME NEW s, Sound(s) \/ s = Broken, NEW lines \in Seq(Record)
    PROVE  Sound(Replayed(s, lines)) \/ Replayed(s, lines) = Broken
<1> DEFINE k == Len(lines)
<1>1. k \in Nat /\ \A n \in 1..k : lines[n] \in Seq(Statements)
  BY DEF Record
<1>2. PICK f : LinesRun(f, s, lines, k) /\ Replayed(s, lines) = f[k]
  BY ReplayedIs
<1> HIDE DEF k
<1>3. \A n \in 0..k : f[n] = IF n = 0 THEN s ELSE ReplayRecord(f[n - 1], lines[n])
  BY <1>2 DEF LinesRun
<1> DEFINE bad == {n \in 0..k : ~(Sound(f[n]) \/ f[n] = Broken)}
<1>4. SUFFICES ASSUME bad # {}
               PROVE  FALSE
  BY <1>1, <1>2
<1>5. PICK m \in bad : \A y \in bad : m <= y
  <2>1. bad \in SUBSET Nat
    BY <1>1
  <2> QED
    BY <1>4, <2>1, LeastExists
<1>6. m # 0
  BY <1>3, <1>5, <1>1
<1>7. m - 1 \in 0..k /\ m - 1 \notin bad /\ m \in 1..k
  BY <1>5, <1>6, <1>1
<1>8. f[m] = ReplayRecord(f[m - 1], lines[m])
  BY <1>3, <1>5, <1>6
<1>9. Sound(f[m - 1]) \/ f[m - 1] = Broken
  BY <1>7
<1> QED
  BY <1>1, <1>5, <1>7, <1>8, <1>9, ReplayRecordSound

-----------------------------------------------------------------------------
(* Lines *)

\* A fragment is not a record.
LEMMA TornIsNoRecord == Torn \notin Record
<1>1. SUFFICES ASSUME Torn \in Seq(Statements)
               PROVE  FALSE
  BY DEF Record
<1>2. Torn[1] \in Statements
  BY <1>1 DEF Torn
<1>3. Torn[1].op = "torn"
  BY DEF Torn
<1> QED
  BY <1>2, <1>3, StatementKinds

\* All the lines of a whole journal are good.
LEMMA GoodLinesOfWhole ==
    ASSUME NEW lines \in Seq(Record)
    PROVE  GoodLines(lines) = lines /\ ~NeedsRepair(lines)
BY TornIsNoRecord DEF GoodLines, NeedsRepair

\* Lines before a fragment are good, those behind it are not.
LEMMA GoodLinesOfFragment ==
    ASSUME NEW lines \in Seq(Record)
    PROVE  /\ GoodLines(Append(lines, Torn)) = lines
           /\ Append(lines, Torn) \in Seq(Line) /\ Append(lines, Torn) \notin Seq(Record)
<1> DEFINE more == Append(lines, Torn)
           n == Len(lines) + 1
           bad == {i \in DOMAIN more : more[i] = Torn}
<1>1. /\ n \in Nat /\ DOMAIN more = 1..n /\ more[n] = Torn /\ Len(more) = n
      /\ more \in Seq(Line) /\ \A i \in 1..(n - 1) : more[i] = lines[i] /\ lines[i] \in Record
  BY DEF Line
<1>2. bad = {n}
  BY <1>1, TornIsNoRecord
<1>3. (CHOOSE i \in bad : \A j \in bad : i <= j) = n
  BY <1>1, <1>2
<1>4. GoodLines(more) = SubSeq(more, 1, n - 1)
  BY <1>2, <1>3 DEF GoodLines
<1>5. SubSeq(more, 1, n - 1) = lines
  OBVIOUS
<1>6. more \notin Seq(Record)
  <2>1. more[n] \notin Record
    BY <1>1, TornIsNoRecord
  <2> QED
    BY <1>1, <2>1
<1> QED
  BY <1>1, <1>4, <1>5, <1>6

\* The lines that are replayed are records, and a journal of other lines is repaired.
LEMMA GoodLinesAreRecords ==
    ASSUME NEW lines \in Seq(Line)
    PROVE  /\ GoodLines(lines) \in Seq(Record)
           /\ NeedsRepair(lines) <=> lines \notin Seq(Record)
<1> DEFINE bad == {i \in DOMAIN lines : lines[i] = Torn}
<1>1. CASE bad = {}
  <2>1. lines \in Seq(Record)
    BY <1>1 DEF Line
  <2> QED
    BY <2>1, GoodLinesOfWhole
<1>2. CASE bad # {}
  <2>1. bad \in SUBSET Nat
    OBVIOUS
  <2> DEFINE least == CHOOSE i \in bad : \A j \in bad : i <= j
  <2>2. least \in bad /\ \A j \in bad : least <= j
    BY <1>2, <2>1, LeastExists
  <2>3. GoodLines(lines) = SubSeq(lines, 1, least - 1)
    BY <1>2 DEF GoodLines
  <2> HIDE DEF least
  <2>4. least \in 1..Len(lines) /\ lines[least] = Torn
    BY <2>2
  <2>5. \A i \in 1..(least - 1) : lines[i] \in Record
    <3>1. SUFFICES ASSUME NEW i \in 1..(least - 1)
                   PROVE  lines[i] \in Record
      OBVIOUS
    <3>2. i \in DOMAIN lines /\ i \notin bad
      BY <2>2, <2>4
    <3> QED
      BY <3>2 DEF Line
  <2>6. SubSeq(lines, 1, least - 1) \in Seq(Record) /\ Len(SubSeq(lines, 1, least - 1)) = least - 1
    BY <2>4, <2>5
  <2>7. lines \notin Seq(Record)
    BY <2>4, TornIsNoRecord
  <2> QED
    BY <2>3, <2>4, <2>6, <2>7 DEF NeedsRepair
<1> QED
  BY <1>1, <1>2

-----------------------------------------------------------------------------
(* A journal and the lines that wait in the buffer *)

\* The lines on disk and those of the buffer rebuild the rows base, and whatever part of the
\* buffer reaches the disk, the result is among the states exp.
Settled(s, lines, rest, base, exp) ==
    /\ lines \in Seq(Record) /\ rest \in Seq(Record)
    /\ Replayed(s, lines \o rest) = base
    /\ \A n \in 0..Len(rest) : Replayed(s, lines \o SubSeq(rest, 1, n)) \in exp

\* A journal with nothing in the buffer is settled.
LEMMA SettledEmpty ==
    ASSUME NEW s, NEW lines \in Seq(Record), NEW base, NEW exp,
           Replayed(s, lines) = base, base \in exp
    PROVE  Settled(s, lines, <<>>, base, exp)
<1>1. <<>> \in Seq(Record) /\ Len(<<>>) = 0 /\ SubSeq(<<>>, 1, 0) = <<>> /\ lines \o <<>> = lines
  OBVIOUS
<1>2. \A n \in 0..0 : n = 0
  OBVIOUS
<1> QED
  BY <1>1, <1>2 DEF Settled

\* A settled journal rebuilds an expected state, with the buffer and without it.
LEMMA SettledImage ==
    ASSUME NEW s, NEW lines, NEW rest, NEW base, NEW exp, Settled(s, lines, rest, base, exp)
    PROVE  /\ lines \in Seq(Record) /\ rest \in Seq(Record)
           /\ Replayed(s, lines) \in exp /\ base \in exp
<1>1. lines \in Seq(Record) /\ rest \in Seq(Record)
  BY DEF Settled
<1>2. /\ Len(rest) \in Nat /\ SubSeq(rest, 1, 0) = <<>> /\ SubSeq(rest, 1, Len(rest)) = rest
      /\ lines \o <<>> = lines
  BY <1>1
<1>3. 0 \in 0..Len(rest) /\ Len(rest) \in 0..Len(rest)
  BY <1>2
<1>4. /\ Replayed(s, lines \o SubSeq(rest, 1, 0)) \in exp
      /\ Replayed(s, lines \o SubSeq(rest, 1, Len(rest))) \in exp
  BY <1>3 DEF Settled
<1>5. Replayed(s, lines \o rest) = base
  BY DEF Settled
<1> QED
  BY <1>1, <1>2, <1>4, <1>5

\* A settled journal stays settled when more states are expected.
LEMMA SettledMore ==
    ASSUME NEW s, NEW lines, NEW rest, NEW base, NEW exp, NEW exp2,
           Settled(s, lines, rest, base, exp), exp \subseteq exp2
    PROVE  Settled(s, lines, rest, base, exp2)
BY DEF Settled

\* All outgoing lines reach the journal.
LEMMA SettledWritten ==
    ASSUME NEW s, NEW lines, NEW rest, NEW base, NEW exp, Settled(s, lines, rest, base, exp),
           NEW r \in Record
    PROVE  /\ lines \o Append(rest, r) \in Seq(Record)
           /\ Replayed(s, lines \o Append(rest, r)) = ReplayRecord(base, r)
<1>1. lines \in Seq(Record) /\ rest \in Seq(Record) /\ Replayed(s, lines \o rest) = base
  BY DEF Settled
<1>2. lines \o Append(rest, r) = Append(lines \o rest, r) /\ lines \o rest \in Seq(Record)
  BY <1>1
<1>3. Append(lines \o rest, r) \in Seq(Record)
  BY <1>2
<1>4. Replayed(s, Append(lines \o rest, r)) = ReplayRecord(Replayed(s, lines \o rest), r)
  BY <1>2, ReplayedAppend
<1> QED
  BY <1>1, <1>2, <1>3, <1>4

\* Or they stay in the buffer.
LEMMA SettledBuffered ==
    ASSUME NEW s, NEW lines, NEW rest, NEW base, NEW exp, Settled(s, lines, rest, base, exp),
           NEW r \in Record, ReplayRecord(base, r) \in exp
    PROVE  Settled(s, lines, Append(rest, r), ReplayRecord(base, r), exp)
<1>1. lines \in Seq(Record) /\ rest \in Seq(Record)
  BY DEF Settled
<1>2. /\ Append(rest, r) \in Seq(Record) /\ Len(Append(rest, r)) = Len(rest) + 1
      /\ Len(rest) \in Nat
      /\ SubSeq(Append(rest, r), 1, Len(rest) + 1) = Append(rest, r)
  BY <1>1
<1>3. \A n \in 0..Len(rest) : SubSeq(Append(rest, r), 1, n) = SubSeq(rest, 1, n)
  BY <1>1
<1>4. Replayed(s, lines \o Append(rest, r)) = ReplayRecord(base, r)
  BY SettledWritten
<1>5. ASSUME NEW n \in 0..(Len(rest) + 1)
      PROVE  Replayed(s, lines \o SubSeq(Append(rest, r), 1, n)) \in exp
  <2>1. CASE n = Len(rest) + 1
    BY <1>2, <1>4, <2>1
  <2>2. CASE n \in 0..Len(rest)
    <3>1. Replayed(s, lines \o SubSeq(rest, 1, n)) \in exp
      BY <2>2 DEF Settled
    <3> QED
      BY <1>3, <2>2, <3>1
  <2> QED
    BY <1>2, <2>1, <2>2
<1> QED
  BY <1>1, <1>2, <1>4, <1>5 DEF Settled

\* Some of the waiting lines reach the journal, and a fragment of the next one.
LEMMA SettledFragment ==
    ASSUME NEW s, NEW lines \in Seq(Record), NEW rest \in Seq(Record), NEW n \in 0..Len(rest)
    PROVE  /\ lines \o SubSeq(rest, 1, n) \in Seq(Record)
           /\ Recovered(s, Append(lines \o SubSeq(rest, 1, n), Torn))
              = Replayed(s, lines \o SubSeq(rest, 1, n))
<1> DEFINE good == lines \o SubSeq(rest, 1, n)
<1>1. good \in Seq(Record)
  OBVIOUS
<1> HIDE DEF good
<1>2. GoodLines(Append(good, Torn)) = good
  BY <1>1, GoodLinesOfFragment
<1>3. Recovered(s, Append(good, Torn)) = Replayed(s, good)
  BY <1>2 DEF Recovered
<1> QED
  BY <1>1, <1>3 DEF good

\* Of a whole journal every line is replayed.
LEMMA WholeIsRecovered ==
    ASSUME NEW s, NEW lines \in Seq(Record)
    PROVE  Recovered(s, lines) = Replayed(s, lines)
BY GoodLinesOfWhole DEF Recovered

-----------------------------------------------------------------------------
(* Types *)

EngineTyped ==
    /\ step \in StepNames
    /\ Sound(mem) /\ Sound(saved) /\ Sound(snap)
    /\ journal \in Seq(Line) /\ buffered \in Seq(Record)
    /\ dangling \in BOOLEAN /\ handle \in BOOLEAN /\ rekeyed \in BOOLEAN
    /\ step # "repair" => ops \in Seq(Statements)
    /\ step = "repair" => ops \in Seq(Record)
    /\ step = "append" => ops # <<>>

\* A journal of records is a journal.
LEMMA RecordsAreLines ==
    ASSUME NEW lines \in Seq(Record)
    PROVE  lines \in Seq(Line)
BY DEF Line

\* What waits is whole records.
LEMMA WaitingTyped ==
    ASSUME EngineTyped
    PROVE  /\ Waiting \in Seq(Record) /\ Len(Waiting) \in Nat
           /\ step = "append" => ops \in Record /\ Outgoing = Waiting /\ Outgoing \in Seq(Record)
<1>1. buffered \in Seq(Record)
  BY DEF EngineTyped
<1>2. step = "append" => ops \in Record
  BY DEF EngineTyped, Record
<1> QED
  BY <1>1, <1>2 DEF Waiting, Outgoing

\* Lines written behind a journal, joined to its last one or not, make a journal.
LEMMA AppendedTyped ==
    ASSUME EngineTyped, NEW new \in Seq(Record)
    PROVE  Appended(journal, new) \in Seq(Line)
<1>1. journal \in Seq(Line) /\ new \in Seq(Line) /\ Torn \in Line
  BY RecordsAreLines DEF EngineTyped, Line
<1>2. Front(journal) \in Seq(Line)
  BY <1>1 DEF Front
<1>3. new # <<>> => Tail(new) \in Seq(Line)
  BY <1>1
<1>4. <<Torn>> \in Seq(Line)
  BY <1>1
<1> QED
  BY <1>1, <1>2, <1>3, <1>4 DEF Appended

\* So do the lines with a fragment behind them.
LEMMA FragmentTyped ==
    ASSUME EngineTyped, NEW n \in 0..Len(Waiting)
    PROVE  Fragmented(n) \in Seq(Line)
<1>1. journal \in Seq(Line) /\ Torn \in Line
  BY DEF EngineTyped, Line
<1>2. Front(journal) \in Seq(Line)
  BY <1>1 DEF Front
<1>3. SubSeq(Waiting, 1, n) \in Seq(Record)
  BY WaitingTyped
<1>4. Appended(journal, SubSeq(Waiting, 1, n)) \in Seq(Line)
  BY <1>3, AppendedTyped
<1> QED
  BY <1>1, <1>2, <1>4 DEF Fragmented, Written

\* A stop leaves the journal as it is, some of the waiting lines behind it, or a fragment.
LEMMA CutKinds ==
    ASSUME NEW cut \in Cuts
    PROVE  \/ cut = File(journal, dangling)
           \/ \E n \in 1..Len(Waiting), unended \in BOOLEAN : cut = File(Written(n), unended)
           \/ \E n \in 0..(Len(Waiting) - 1) : cut = File(Fragmented(n), TRUE)
BY DEF Cuts

\* Whatever a stop leaves of the journal is a journal.
LEMMA CutTyped ==
    ASSUME EngineTyped, NEW cut \in Cuts
    PROVE  cut.lines \in Seq(Line) /\ cut.dangling \in BOOLEAN
<1>1. CASE cut = File(journal, dangling)
  BY <1>1 DEF File, EngineTyped
<1>2. ASSUME NEW n \in 1..Len(Waiting), NEW unended \in BOOLEAN,
             cut = File(Written(n), unended)
      PROVE  cut.lines \in Seq(Line) /\ cut.dangling \in BOOLEAN
  <2>1. SubSeq(Waiting, 1, n) \in Seq(Record)
    BY WaitingTyped
  <2> QED
    BY <1>2, <2>1, AppendedTyped DEF File, Written
<1>3. ASSUME NEW n \in 0..(Len(Waiting) - 1), cut = File(Fragmented(n), TRUE)
      PROVE  cut.lines \in Seq(Line) /\ cut.dangling \in BOOLEAN
  <2>1. n \in 0..Len(Waiting)
    BY WaitingTyped
  <2> QED
    BY <1>3, <2>1, FragmentTyped DEF File
<1> QED
  BY <1>1, <1>2, <1>3, CutKinds

\* What a process that is gone leaves.
LEMMA GoneTyped ==
    ASSUME EngineTyped, Gone, UNCHANGED snap, journal' \in Seq(Line), dangling' \in BOOLEAN
    PROVE  EngineTyped'
<1>1. <<>> \in Seq(Record) /\ <<>> \in Seq(Statements) /\ Sound(EmptyDb)
  BY DEF Sound
<1> QED
  BY <1>1 DEF Gone, EngineTyped, StepNames

\* A change of a key changes no more than a row.
LEMMA UpdateKeySound ==
    ASSUME NEW old \in Keys, NEW new \in NewKeys, EngineTyped, UpdateKey(old, new)
    PROVE  Sound(mem')
<1>1. mem # EmptyDb
  <2>1. SUFFICES ASSUME mem = EmptyDb
                 PROVE  FALSE
    OBVIOUS
  <2>2. HasKey(mem, old)
    BY DEF UpdateKey
  <2>3. DOMAIN mem.rows = {}
    BY <2>1 DEF EmptyDb
  <2> QED
    BY <2>2, <2>3 DEF HasKey
<1>2. mem = [table |-> TRUE, rows |-> mem.rows]
  BY <1>1 DEF EngineTyped, Sound
<1> DEFINE new2 == [mem.rows EXCEPT ![FirstOf(mem, old)].key = new]
<1>3. mem' = [mem EXCEPT !.rows = new2]
  BY Zenon DEF UpdateKey
<1> HIDE DEF new2
<1>4. mem' = [table |-> TRUE, rows |-> new2]
  <2> DEFINE rows2 == mem.rows
  <2>1. mem = [table |-> TRUE, rows |-> rows2]
    BY <1>2
  <2> HIDE DEF rows2
  <2> QED
    BY <1>3, <2>1
<1> QED
  BY <1>4 DEF Sound

\* Every step of the engine keeps the types.
LEMMA NextTyped ==
    ASSUME EngineTyped, [Next]_vars
    PROVE  EngineTyped'
<1> USE DEF StepNames
<1>1. <<>> \in Seq(Record) /\ <<>> \in Seq(Statements) /\ <<>> \in Seq(Line)
  OBVIOUS
<1>2. CASE UNCHANGED vars
  BY <1>2 DEF vars, EngineTyped
<1>3. CASE Begin \/ Rollback
  BY <1>1, <1>3 DEF Begin, Rollback, disk, EngineTyped
<1>4. ASSUME NEW o \in Statements, ExecuteStatement(o)
      PROVE  EngineTyped'
  <2>1. Sound(Execute(mem, o))
    BY <1>4, AcceptedReplays DEF ExecuteStatement, EngineTyped
  <2>2. Append(ops, o) \in Seq(Statements)
    BY <1>4 DEF ExecuteStatement, EngineTyped
  <2> QED
    BY <1>4, <2>1, <2>2 DEF ExecuteStatement, disk, EngineTyped
<1>5. ASSUME NEW old \in Keys, NEW new \in NewKeys, UpdateKey(old, new)
      PROVE  EngineTyped'
  BY <1>5, UpdateKeySound DEF UpdateKey, disk, EngineTyped
<1>6. CASE CommitBegins
  BY <1>6 DEF CommitBegins, disk, EngineTyped
<1>7. CASE AppendRecord
  <2>1. Appended(journal, Outgoing) \in Seq(Line)
    BY <1>7, WaitingTyped, AppendedTyped DEF AppendRecord
  <2>2. ops' \in Seq(Statements) /\ step' \in {"idle", "snapshot"}
    BY <1>1, <1>7 DEF AppendRecord, Acknowledge, EngineTyped
  <2> QED
    BY <1>1, <1>7, <2>1, <2>2 DEF AppendRecord, EngineTyped
<1>8. ASSUME NEW fault \in AppendFaults, AppendFails(fault)
      PROVE  EngineTyped'
  <2>1. /\ step = "append" /\ step' = "idle" /\ ops' = <<>>
        /\ UNCHANGED <<mem, saved, snap, handle, rekeyed>>
        /\ FaultLeaves(fault) /\ fault \in {"buffered", "torn", "unended", "written"}
    BY <1>8 DEF AppendFails, AppendFaults
  <2>2. Outgoing \in Seq(Record) /\ Appended(journal, Outgoing) \in Seq(Line)
    BY <2>1, WaitingTyped, AppendedTyped
  <2>3. Fragmented(Len(buffered)) \in Seq(Line)
    <3>1. buffered \in Seq(Record) /\ Waiting = Append(buffered, ops)
      BY <2>1 DEF EngineTyped, Waiting, Outgoing
    <3>2. Len(buffered) \in 0..Len(Waiting)
      BY <3>1
    <3> QED
      BY <3>2, FragmentTyped
  <2>4. /\ journal' \in Seq(Line) /\ buffered' \in Seq(Record) /\ dangling' \in BOOLEAN
    BY <1>1, <2>1, <2>2, <2>3 DEF FaultLeaves, EngineTyped
  <2> QED
    BY <1>1, <2>1, <2>4 DEF EngineTyped
<1>9. CASE AppendRefused \/ SnapshotFails
  BY <1>1, <1>9 DEF AppendRefused, SnapshotFails, disk, EngineTyped
<1>10. CASE WriteSnapshot
  BY <1>10 DEF WriteSnapshot, tx, EngineTyped
<1>11. CASE TruncateJournal
  BY <1>1, <1>11 DEF TruncateJournal, Acknowledge, EngineTyped
<1>12. ASSUME NEW fault \in CommitFaults, TruncateFails(fault)
       PROVE  EngineTyped'
  BY <1>1, <1>12 DEF TruncateFails, EngineTyped
<1>13. CASE Crash
  BY <1>13, CutTyped, GoneTyped DEF Crash, CutOff
<1>14. CASE Open
  <2>1. GoodLines(journal) \in Seq(Record) /\ Sound(snap)
    BY GoodLinesAreRecords DEF EngineTyped
  <2>2. mem' = Replayed(snap, GoodLines(journal)) /\ mem' # Broken
    BY <1>14 DEF Open, Recovered
  <2>3. Sound(mem')
    BY <2>1, <2>2, ReplayedSound
  <2>4. /\ step' \in {"repair", "idle"} /\ saved' = mem'
        /\ journal' \in Seq(Line) /\ dangling' \in BOOLEAN
        /\ UNCHANGED <<rekeyed, snap, handle, buffered>>
    BY <1>1, <1>14 DEF Open, EngineTyped
  <2>5. /\ step' = "repair" => ops' = GoodLines(journal)
        /\ step' # "repair" => ops' = <<>>
    BY <1>14 DEF Open
  <2> QED
    BY <1>1, <2>1, <2>3, <2>4, <2>5 DEF EngineTyped
<1>15. CASE RepairJournal
  BY <1>1, <1>15, RecordsAreLines DEF RepairJournal, EngineTyped
<1>16. CASE RepairFails
  <2>1. ops \in Seq(Record)
    BY <1>16 DEF RepairFails, EngineTyped
  <2>2. PICK n \in 0..(Len(ops) - 1) :
            /\ journal' \in {SubSeq(ops, 1, n), Append(SubSeq(ops, 1, n), Torn)}
            /\ dangling' = (Len(journal') # n)
    BY <1>16 DEF RepairFails
  <2>3. SubSeq(ops, 1, n) \in Seq(Record)
    BY <2>1
  <2>4. SubSeq(ops, 1, n) \in Seq(Line) /\ Append(SubSeq(ops, 1, n), Torn) \in Seq(Line)
    BY <2>3, RecordsAreLines, GoodLinesOfFragment
  <2> QED
    BY <1>16, <2>2, <2>4, GoneTyped DEF RepairFails
<1> QED
  BY <1>2, <1>3, <1>4, <1>5, <1>6, <1>7, <1>8, <1>9, <1>10, <1>11, <1>12, <1>13, <1>14, <1>15, <1>16
  DEF Next

-----------------------------------------------------------------------------
(* The engine's invariant *)

\* The rows before the transaction under way.
Base == IF step = "idle" THEN mem ELSE saved

\* Until the record of a transaction is written, journal and buffer rebuild the rows before it;
\* behind a line without its newline nothing waits.
JournalSettled ==
    step \in {"idle", "active", "append"} =>
        /\ Settled(snap, journal, buffered, Base, expected)
        /\ dangling => buffered = <<>> /\ step # "append"

\* The statements of a transaction rebuild what it made of the rows.
TransactionReplays ==
    step \in {"active", "append"} /\ ~rekeyed => mem = ReplayRecord(saved, ops)

CommitExpected == step = "append" => ~rekeyed /\ mem \in expected

CompactionSettled ==
    step \in {"snapshot", "truncate"} =>
        /\ buffered = <<>> /\ ~dangling /\ mem \in expected
        /\ step = "snapshot" => journal \in Seq(Record) /\ Replayed(snap, journal) = mem
        /\ step = "truncate" => snap = mem

StopSettled == step = "down" => buffered = <<>> /\ Image \in expected

RepairSettled ==
    step = "repair" =>
        /\ buffered = <<>> /\ ~dangling /\ mem \in expected
        /\ Replayed(snap, ops) = mem

\* What holds until the first of the five situations.
EngineSettled ==
    /\ JournalSettled /\ TransactionReplays /\ CommitExpected
    /\ CompactionSettled /\ StopSettled /\ RepairSettled /\ handle

EngineInvariant == EngineTyped /\ (hit = {} => EngineSettled)

\* No step forgets a situation.
LEMMA HitGrows ==
    ASSUME Next
    PROVE  hit \subseteq hit'
<1>1. ASSUME NEW fault \in AppendFaults, AppendFails(fault)
      PROVE  hit \subseteq hit'
  BY <1>1 DEF AppendFails, FaultLeaves, AppendFaults
<1> QED
  BY <1>1 DEF Next, Begin, ExecuteStatement, UpdateKey, Rollback, CommitBegins, AppendRecord,
     AppendRefused, WriteSnapshot, SnapshotFails, TruncateJournal, TruncateFails, Crash, Open,
     RepairJournal, RepairFails

\* The invariant holds initially.
LEMMA InitSettles == Init => EngineInvariant
<1> SUFFICES ASSUME Init
             PROVE  EngineInvariant
  OBVIOUS
<1>1. <<>> \in Seq(Record) /\ <<>> \in Seq(Line) /\ <<>> \in Seq(Statements)
  OBVIOUS
<1>2. Sound(EmptyDb)
  BY DEF Sound
<1>3. Settled(EmptyDb, <<>>, <<>>, EmptyDb, {EmptyDb})
  BY <1>1, ReplayedEmpty, SettledEmpty
<1> QED
  BY <1>1, <1>2, <1>3
  DEF Init, EngineInvariant, EngineSettled, EngineTyped, JournalSettled, TransactionReplays,
      CommitExpected, CompactionSettled, StopSettled, RepairSettled, Base, StepNames

\* BEGIN, a statement, ROLLBACK and the start of a COMMIT keep what is settled.
LEMMA TransactionSettles ==
    ASSUME EngineTyped, EngineSettled, hit' = {},
           \/ Begin \/ (\E o \in Statements : ExecuteStatement(o)) \/ Rollback \/ CommitBegins
           \/ \E old \in Keys, new \in NewKeys : UpdateKey(old, new)
    PROVE  EngineSettled'
<1> USE DEF EngineSettled, EngineTyped, StepNames
<1>1. CASE Begin
  <2>1. ReplayRecord(mem, <<>>) = mem
    BY ReplayRecordEmpty
  <2> QED
    BY <1>1, <2>1 DEF Begin, disk, JournalSettled, TransactionReplays, CommitExpected,
       CompactionSettled, StopSettled, RepairSettled, Base
<1>2. ASSUME NEW o \in Statements, ExecuteStatement(o)
      PROVE  EngineSettled'
  <2>1. ~rekeyed => mem = ReplayRecord(saved, ops)
    BY <1>2 DEF ExecuteStatement, TransactionReplays
  <2>2. ~rekeyed => ReplayRecord(saved, Append(ops, o)) = Execute(mem, o)
    BY <1>2, <2>1, ReplayRecordAppend, AcceptedReplays DEF ExecuteStatement
  <2> QED
    BY <1>2, <2>2 DEF ExecuteStatement, disk, JournalSettled, TransactionReplays,
       CommitExpected, CompactionSettled, StopSettled, RepairSettled, Base
<1>3. ASSUME NEW old \in Keys, NEW new \in NewKeys, UpdateKey(old, new)
      PROVE  EngineSettled'
  BY <1>3 DEF UpdateKey, disk, JournalSettled, TransactionReplays,
     CommitExpected, CompactionSettled, StopSettled, RepairSettled, Base
<1>4. CASE Rollback
  BY <1>4 DEF Rollback, disk, JournalSettled, TransactionReplays, CommitExpected,
     CompactionSettled, StopSettled, RepairSettled, Base
<1>5. ASSUME CommitBegins
      PROVE  ~rekeyed /\ (ops # <<>> => ~dangling)
  <2>1. ~rekeyed /\ (ops # <<>> => ~Unended)
    BY <1>5 DEF CommitBegins
  <2>2. journal \in Seq(Record)
    BY <1>5, SettledImage DEF CommitBegins, JournalSettled
  <2>3. dangling => Unended
    <3>1. \A i \in DOMAIN journal : journal[i] # Torn
      BY <2>2, TornIsNoRecord
    <3> QED
      BY <3>1 DEF Unended, ToSet
  <2> QED
    BY <2>1, <2>3
<1>6. CASE CommitBegins /\ ops = <<>>
  <2>1. mem = saved /\ ~rekeyed
    BY <1>5, <1>6, ReplayRecordEmpty DEF CommitBegins, TransactionReplays
  <2> QED
    BY <1>6, <2>1 DEF CommitBegins, disk, JournalSettled, TransactionReplays,
       CommitExpected, CompactionSettled, StopSettled, RepairSettled, Base
<1>7. CASE CommitBegins /\ ops # <<>>
  <2>1. Settled(snap, journal, buffered, saved, expected \cup {mem})
    <3>1. Settled(snap, journal, buffered, saved, expected)
      BY <1>7 DEF CommitBegins, JournalSettled, Base
    <3> QED
      BY <3>1, SettledMore
  <2> QED
    BY <1>5, <1>7, <2>1 DEF CommitBegins, disk, JournalSettled, TransactionReplays,
       CommitExpected, CompactionSettled, StopSettled, RepairSettled, Base
<1> QED
  BY <1>1, <1>2, <1>3, <1>4, <1>6, <1>7

\* An append that comes to its end, with or without an error, adds the record to a journal
\* of whole lines.
LEMMA AppendAdds ==
    ASSUME EngineTyped, EngineSettled, step = "append"
    PROVE  /\ ~dangling /\ mem \in expected /\ ops \in Record
           /\ Settled(snap, journal, buffered, saved, expected)
           /\ Settled(snap, journal, Outgoing, mem, expected)
           /\ Appended(journal, Outgoing) = journal \o Outgoing
           /\ journal \o Outgoing \in Seq(Record)
           /\ Replayed(snap, journal \o Outgoing) = mem
           /\ mem = ReplayRecord(saved, ops)
<1>1. ~dangling /\ mem \in expected /\ mem = ReplayRecord(saved, ops)
  BY DEF EngineSettled, JournalSettled, CommitExpected, TransactionReplays
<1>2. ops \in Record
  BY WaitingTyped
<1>3. Settled(snap, journal, buffered, saved, expected)
  BY DEF EngineSettled, JournalSettled, Base
<1>4. Appended(journal, Outgoing) = journal \o Outgoing
  BY <1>1 DEF Appended
<1>5. Settled(snap, journal, Outgoing, mem, expected)
  BY <1>1, <1>2, <1>3, SettledBuffered DEF Outgoing
<1> QED
  BY <1>1, <1>2, <1>3, <1>4, <1>5, SettledWritten DEF Outgoing

\* A commit keeps what is settled, whether its append succeeds or fails.
LEMMA AppendSettles ==
    ASSUME EngineTyped, EngineSettled, hit' = {},
           AppendRecord \/ AppendRefused \/ (\E fault \in AppendFaults : AppendFails(fault))
    PROVE  EngineSettled'
<1>1. step = "append" /\ handle
  BY DEF AppendRecord, AppendRefused, AppendFails, EngineSettled
<1>2. /\ ~dangling /\ mem \in expected /\ ops \in Record
      /\ Settled(snap, journal, Outgoing, mem, expected)
      /\ Appended(journal, Outgoing) = journal \o Outgoing
      /\ journal \o Outgoing \in Seq(Record)
      /\ Replayed(snap, journal \o Outgoing) = mem
  BY <1>1, AppendAdds
<1>3. \A exp : mem \in exp => Settled(snap, journal \o Outgoing, <<>>, mem, exp)
  BY <1>2, SettledEmpty
<1> USE DEF EngineSettled, StepNames
<1>4. CASE AppendRecord
  <2>1. mem \in expected' /\ step' \in {"idle", "snapshot"}
    BY <1>2, <1>4 DEF AppendRecord, Acknowledge
  <2>2. /\ journal' = journal \o Outgoing /\ dangling' = FALSE /\ buffered' = <<>>
        /\ UNCHANGED <<mem, saved, snap, handle>>
    BY <1>2, <1>4 DEF AppendRecord
  <2>3. Settled(snap, journal \o Outgoing, <<>>, mem, expected')
    BY <1>3, <2>1
  <2> QED
    BY <1>1, <1>2, <2>1, <2>2, <2>3 DEF JournalSettled, TransactionReplays, CommitExpected,
       CompactionSettled, StopSettled, RepairSettled, Base
<1>5. ASSUME NEW fault \in AppendFaults, AppendFails(fault)
      PROVE  EngineSettled'
  <2>1. /\ step' = "idle" /\ UNCHANGED <<mem, saved, snap, handle, expected>>
        /\ FaultLeaves(fault) /\ fault \in {"buffered", "torn", "unended", "written"}
    BY <1>5 DEF AppendFails, AppendFaults
  <2>2. CASE fault = "buffered"
    <3>1. buffered' = Outgoing /\ UNCHANGED <<journal, dangling>>
      BY <2>1, <2>2 DEF FaultLeaves
    <3> QED
      BY <1>1, <1>2, <2>1, <3>1 DEF JournalSettled, TransactionReplays, CommitExpected,
         CompactionSettled, StopSettled, RepairSettled, Base
  <2>3. CASE fault = "torn"
    BY <2>1, <2>3 DEF FaultLeaves
  <2>4. CASE fault \in {"unended", "written"}
    <3>1. journal' = journal \o Outgoing /\ buffered' = <<>>
      BY <1>2, <2>1, <2>4 DEF FaultLeaves
    <3>2. Settled(snap, journal \o Outgoing, <<>>, mem, expected)
      BY <1>2, <1>3
    <3> QED
      BY <1>1, <1>2, <2>1, <3>1, <3>2 DEF JournalSettled, TransactionReplays, CommitExpected,
         CompactionSettled, StopSettled, RepairSettled, Base
  <2> QED
    BY <2>1, <2>2, <2>3, <2>4
<1> QED
  BY <1>1, <1>4, <1>5 DEF AppendRefused

\* Compaction keeps what is settled, when it does not stop half way.
LEMMA CompactionSettles ==
    ASSUME EngineTyped, EngineSettled, hit' = {},
           \/ WriteSnapshot \/ SnapshotFails \/ TruncateJournal
           \/ \E fault \in CommitFaults : TruncateFails(fault)
    PROVE  EngineSettled'
<1> USE DEF EngineSettled, StepNames
<1>1. <<>> \in Seq(Record)
  OBVIOUS
<1>2. CASE WriteSnapshot
  BY <1>2 DEF WriteSnapshot, tx, JournalSettled, TransactionReplays, CommitExpected,
     CompactionSettled, StopSettled, RepairSettled
<1>3. CASE SnapshotFails
  <2>1. /\ buffered = <<>> /\ ~dangling /\ mem \in expected
        /\ journal \in Seq(Record) /\ Replayed(snap, journal) = mem
    BY <1>3 DEF SnapshotFails, CompactionSettled
  <2>2. Settled(snap, journal, <<>>, mem, expected)
    BY <2>1, SettledEmpty
  <2> QED
    BY <1>3, <2>1, <2>2 DEF SnapshotFails, disk, JournalSettled, TransactionReplays,
       CommitExpected, CompactionSettled, StopSettled, RepairSettled, Base
<1>4. CASE TruncateJournal \/ \E fault \in CommitFaults : TruncateFails(fault)
  <2>1. buffered = <<>> /\ ~dangling /\ snap = mem /\ mem \in expected
    BY <1>4 DEF TruncateJournal, TruncateFails, CompactionSettled
  <2>2. /\ journal' = <<>> /\ step' = "idle" /\ mem \in expected'
        /\ UNCHANGED <<mem, snap, buffered, dangling, handle>>
    BY <1>4, <2>1 DEF TruncateJournal, TruncateFails, Acknowledge
  <2>3. Settled(snap, <<>>, <<>>, mem, expected')
    BY <1>1, <2>1, <2>2, ReplayedEmpty, SettledEmpty
  <2> QED
    BY <2>1, <2>2, <2>3 DEF JournalSettled, TransactionReplays, CommitExpected,
       CompactionSettled, StopSettled, RepairSettled, Base
<1> QED
  BY <1>2, <1>3, <1>4

\* Outside the compaction and the repair the files rebuild an expected state.
LEMMA ImageIsExpected ==
    ASSUME EngineTyped, EngineSettled, step \notin {"truncate", "repair"}
    PROVE  /\ Image \in expected
           /\ step \in {"idle", "active", "append"} => Base \in expected
<1>1. CASE step \in {"idle", "active", "append"}
  <2>1. Settled(snap, journal, buffered, Base, expected)
    BY <1>1 DEF EngineSettled, JournalSettled
  <2> QED
    BY <1>1, <2>1, SettledImage, WholeIsRecovered DEF Image
<1>2. CASE step = "snapshot"
  BY <1>2, WholeIsRecovered DEF EngineSettled, CompactionSettled, Image
<1>3. CASE step = "down"
  BY <1>3 DEF EngineSettled, StopSettled
<1> QED
  BY <1>1, <1>2, <1>3 DEF EngineTyped, StepNames

\* What n of the waiting records make of the journal.
LEMMA PendingIs ==
    ASSUME EngineTyped
    PROVE  /\ Len(Pending) = Len(Waiting) /\ Len(Waiting) \in Nat
           /\ \A n \in 1..Len(Waiting) :
                  Pending[n] = Replayed(snap, journal \o SubSeq(Waiting, 1, n))
BY WaitingTyped DEF Pending

\* Where something waits, it waits behind whole lines, and each first part of it rebuilds
\* an expected state.
LEMMA WaitingSettled ==
    ASSUME EngineTyped, EngineSettled, Waiting # <<>>
    PROVE  /\ ~dangling /\ journal \in Seq(Record)
           /\ \A n \in 1..Len(Waiting) : Pending[n] \in expected
<1>1. step \in {"idle", "active", "append"}
  BY DEF EngineTyped, StepNames, EngineSettled, CompactionSettled, StopSettled, RepairSettled,
         Waiting
<1>2. ~dangling
  BY <1>1 DEF EngineSettled, JournalSettled, Waiting
<1>3. \E base : Settled(snap, journal, Waiting, base, expected)
  <2>1. CASE step = "append"
    BY <2>1, AppendAdds, WaitingTyped
  <2>2. CASE step # "append"
    BY <1>1, <2>2 DEF EngineSettled, JournalSettled, Waiting
  <2> QED
    BY <2>1, <2>2
<1>4. ASSUME NEW n \in 1..Len(Waiting)
      PROVE  Pending[n] \in expected
  <2>1. n \in 0..Len(Waiting)
    BY WaitingTyped
  <2>2. Replayed(snap, journal \o SubSeq(Waiting, 1, n)) \in expected
    BY <1>3, <2>1 DEF Settled
  <2> QED
    BY <2>2, PendingIs
<1> QED
  BY <1>2, <1>3, <1>4 DEF Settled

\* A stop leaves what the files hold, or what a first part of the waiting records makes
\* of it.
LEMMA CutIsPending ==
    ASSUME EngineTyped, EngineSettled, NEW cut \in Cuts
    PROVE  \E n \in 0..Len(Pending) :
               Recovered(snap, cut.lines) = IF n = 0 THEN Image ELSE Pending[n]
<1>1. Len(Pending) = Len(Waiting) /\ Len(Waiting) \in Nat
  BY PendingIs
<1>2. CASE cut = File(journal, dangling)
  <2>1. Recovered(snap, cut.lines) = Image /\ 0 \in 0..Len(Pending)
    BY <1>1, <1>2 DEF File, Image
  <2> QED
    BY <2>1
<1>3. ASSUME NEW n \in 1..Len(Waiting), NEW unended \in BOOLEAN,
             cut = File(Written(n), unended)
      PROVE  Recovered(snap, cut.lines) = Pending[n] /\ n \in 0..Len(Pending) /\ n # 0
  <2>1. Waiting # <<>> /\ n \in 0..Len(Waiting) /\ n # 0
    BY <1>1, <1>3, EmptySeq
  <2>2. ~dangling /\ journal \in Seq(Record)
    BY <2>1, WaitingSettled
  <2>3. cut.lines = journal \o SubSeq(Waiting, 1, n)
    BY <1>3, <2>2 DEF File, Written, Appended
  <2>4. journal \o SubSeq(Waiting, 1, n) \in Seq(Record)
    BY <2>1, <2>2, WaitingTyped, SettledFragment
  <2> QED
    BY <1>1, <2>1, <2>3, <2>4, WholeIsRecovered, PendingIs
<1>4. ASSUME NEW n \in 0..(Len(Waiting) - 1), cut = File(Fragmented(n), TRUE)
      PROVE  /\ Recovered(snap, cut.lines) = IF n = 0 THEN Image ELSE Pending[n]
             /\ n \in 0..Len(Pending)
  <2>1. Waiting # <<>> /\ n \in 0..Len(Waiting) /\ (n # 0 => n \in 1..Len(Waiting))
    BY <1>1, <1>4, EmptySeq
  <2>2. ~dangling /\ journal \in Seq(Record)
    BY <2>1, WaitingSettled
  <2>3. cut.lines = Append(journal \o SubSeq(Waiting, 1, n), Torn)
    BY <1>4, <2>2 DEF File, Fragmented, Written, Appended
  <2>4. Recovered(snap, cut.lines) = Replayed(snap, journal \o SubSeq(Waiting, 1, n))
    BY <2>1, <2>2, <2>3, WaitingTyped, SettledFragment
  <2>5. n = 0 => journal \o SubSeq(Waiting, 1, n) = journal
    BY <2>2, WaitingTyped
  <2>6. n = 0 => Recovered(snap, cut.lines) = Image
    BY <2>2, <2>4, <2>5, WholeIsRecovered DEF Image
  <2> QED
    BY <1>1, <2>1, <2>4, <2>6, PendingIs
<1> QED
  BY <1>2, <1>3, <1>4, CutKinds

\* So it leaves an expected state.
LEMMA CutIsExpected ==
    ASSUME EngineTyped, EngineSettled, step \notin {"truncate", "repair"}, NEW cut \in Cuts
    PROVE  Recovered(snap, cut.lines) \in expected
<1>1. PICK n \in 0..Len(Pending) :
               Recovered(snap, cut.lines) = IF n = 0 THEN Image ELSE Pending[n]
  BY CutIsPending
<1>2. CASE n = 0
  BY <1>1, <1>2, ImageIsExpected
<1>3. CASE n # 0
  <2>1. n \in 1..Len(Waiting) /\ Waiting # <<>>
    BY <1>3, PendingIs, EmptySeq
  <2> QED
    BY <1>1, <1>3, <2>1, WaitingSettled
<1> QED
  BY <1>2, <1>3

\* A process that ends outside the compaction and the repair keeps what is settled.
LEMMA EndSettles ==
    ASSUME EngineTyped, EngineSettled, step \notin {"truncate", "repair"},
           Gone, CutOff, UNCHANGED <<snap, expected>>
    PROVE  EngineSettled'
<1>1. Recovered(snap, journal') \in expected
  BY CutIsExpected DEF CutOff
<1> QED
  BY <1>1 DEF Gone, EngineSettled, JournalSettled, TransactionReplays, CommitExpected,
     CompactionSettled, StopSettled, RepairSettled, Image

\* So does opening the database.
LEMMA OpenSettles ==
    ASSUME EngineTyped, EngineSettled, Open
    PROVE  EngineSettled'
<1> DEFINE good == GoodLines(journal)
<1>1. step = "down" /\ buffered = <<>> /\ Image \in expected /\ journal \in Seq(Line) /\ handle
  BY DEF Open, EngineTyped, EngineSettled, StopSettled
<1>2. good \in Seq(Record) /\ (NeedsRepair(journal) <=> journal \notin Seq(Record))
  BY <1>1, GoodLinesAreRecords
<1>3. Image = Replayed(snap, good)
  BY DEF Image, Recovered
<1>4. mem' = Image /\ UNCHANGED <<snap, buffered, handle>>
  BY DEF Open, Image
<1>5. expected' = {mem'}
  BY <1>1, <1>4 DEF Open
<1>6. CASE NeedsRepair(journal)
  <2>1. step' = "repair" /\ dangling' = FALSE /\ ops' = good
    BY <1>6 DEF Open
  <2> HIDE DEF good
  <2> QED
    BY <1>1, <1>3, <1>4, <1>5, <2>1 DEF EngineSettled, JournalSettled,
     TransactionReplays, CommitExpected, CompactionSettled, StopSettled, RepairSettled
<1>7. CASE ~NeedsRepair(journal)
  <2>1. step' = "idle" /\ journal' = journal
    BY <1>7 DEF Open
  <2>2. journal \in Seq(Record)
    BY <1>2, <1>7
  <2>3. Replayed(snap, journal) = mem'
    BY <1>4, <2>2, WholeIsRecovered DEF Image
  <2>4. Settled(snap, journal, <<>>, mem', {mem'})
    BY <2>2, <2>3, SettledEmpty
  <2> HIDE DEF good
  <2> QED
    BY <1>1, <1>4, <1>5, <2>1, <2>4
    DEF EngineSettled, JournalSettled, TransactionReplays, CommitExpected, CompactionSettled,
        StopSettled, RepairSettled, Base
<1> QED
  BY <1>6, <1>7

\* So does the rewriting of a journal that is repaired.
LEMMA RepairSettles ==
    ASSUME EngineTyped, EngineSettled, RepairJournal
    PROVE  EngineSettled'
<1>1. /\ buffered = <<>> /\ ~dangling /\ mem \in expected
      /\ ops \in Seq(Record) /\ Replayed(snap, ops) = mem
  BY DEF RepairJournal, EngineTyped, EngineSettled, RepairSettled
<1>2. Settled(snap, ops, <<>>, mem, expected)
  BY <1>1, SettledEmpty
<1> QED
  BY <1>1, <1>2 DEF RepairJournal, EngineSettled, JournalSettled, TransactionReplays,
     CommitExpected, CompactionSettled, StopSettled, RepairSettled, Base

\* Every step that meets none of the situations keeps what is settled.
LEMMA NextSettles ==
    ASSUME EngineTyped, EngineSettled, Next, hit' = {}
    PROVE  EngineSettled'
<1>1. CASE Crash
  <2>1. step \notin {"truncate", "repair"}
    BY <1>1 DEF Crash
  <2> QED
    BY <1>1, <2>1, EndSettles DEF Crash
<1>2. CASE RepairFails
  BY <1>2 DEF RepairFails
<1> QED
  BY <1>1, <1>2, TransactionSettles, AppendSettles, CompactionSettles, OpenSettles, RepairSettles
  DEF Next

\* What moves no variable of the engine keeps its invariant and what its files rebuild.
LEMMA EngineUnmoved ==
    ASSUME UNCHANGED vars
    PROVE  /\ EngineTyped <=> EngineTyped'
           /\ EngineInvariant => EngineInvariant'
           /\ Image' = Image
BY DEF vars, EngineInvariant, EngineSettled, EngineTyped, JournalSettled, TransactionReplays,
   CommitExpected, CompactionSettled, StopSettled, RepairSettled, Base, Image

\* Every step keeps the invariant.
LEMMA NextKeeps ==
    ASSUME EngineInvariant, [Next]_vars
    PROVE  EngineInvariant'
<1>1. CASE UNCHANGED vars
  BY <1>1, EngineUnmoved
<1>2. CASE Next
  <2>1. EngineTyped /\ EngineTyped'
    BY <1>2, NextTyped DEF EngineInvariant
  <2>2. hit' = {} => hit = {}
    BY <1>2, HitGrows
  <2>3. hit' = {} => EngineSettled'
    BY <1>2, <2>1, <2>2, NextSettles DEF EngineInvariant
  <2> QED
    BY <2>1, <2>3 DEF EngineInvariant
<1> QED
  BY <1>1, <1>2

\* The invariant gives what callers rely on.
LEMMA SettledIsDurable ==
    ASSUME EngineInvariant
    PROVE  Durable /\ RowsAreExpected
BY ImageIsExpected DEF EngineInvariant, Durable, FilesAreExpected, RowsAreExpected, Base

\* For any keys, values, threshold, failing commits and stops: what a restart would rebuild from
\* snapshot and journal is the acknowledged state or the one of a commit that has not returned,
\* and the rows in memory are as expected, until the first of five situations: a compaction or a
\* repair that stops half way, a fragment left by a failing append, a record written behind one
\* that lacks its newline, and a committed change of a primary key.
THEOREM CommitsAreDurable == Spec => [](Durable /\ RowsAreExpected)
<1>1. Init => EngineInvariant
  BY InitSettles
<1>2. EngineInvariant /\ [Next]_vars => EngineInvariant'
  BY NextKeeps
<1>3. EngineInvariant => Durable /\ RowsAreExpected
  BY SettledIsDurable
<1> QED
  BY <1>1, <1>2, <1>3, PTL DEF Spec

-----------------------------------------------------------------------------
(* Backups and restores *)

RestoreSteps == {"safety", "copyTree", "remove", "replace"}

DirectoryTyped(b) == Sound(b.snap) /\ b.lines \in Seq(Line) /\ b.dangling \in BOOLEAN

ToolTyped ==
    /\ toolStep \in {"idle", "copyJournal", "check"} \cup RestoreSteps
    /\ copy = [snap |-> copy.snap, lines |-> copy.lines, dangling |-> copy.dangling,
               floor |-> copy.floor, rewritten |-> copy.rewritten]
    /\ copy.rewritten \in BOOLEAN
    /\ DirectoryTyped(copy)
    /\ \A b \in backups : DirectoryTyped(b)

\* The Tool restores next to a stopped server only.
RestoresAlone == toolStep \in RestoreSteps => step = "down"

\* While a backup waits for its journal, it knows every state acknowledged meanwhile, and its
\* snapshot is the server's unless a compaction came between.
CopyFollows ==
    toolStep = "copyJournal" =>
        /\ expected \subseteq copy.floor
        /\ ~copy.rewritten => step = "truncate" \/ copy.snap = snap

\* Before the runtime is removed, a backup loads into what it holds.
SafetyTaken == toolStep \in {"copyTree", "remove"} => \E b \in backups : Loaded(b) = Image

KeptInBackup == kept # {} => \E b \in backups : Loaded(b) \in kept

BackupInvariant ==
    /\ EngineInvariant /\ ToolTyped /\ RestoresAlone /\ CopyFollows
    /\ SafetyTaken /\ KeptInBackup /\ BackupIsCurrent

\* The invariant holds initially.
LEMMA InitBacksUp == InitBackup => BackupInvariant
<1> SUFFICES ASSUME InitBackup
             PROVE  BackupInvariant
  OBVIOUS
<1>1. EngineInvariant
  BY InitSettles DEF InitBackup
<1>2. <<>> \in Seq(Line) /\ Sound(EmptyDb)
  BY DEF Sound
<1> QED
  BY <1>1, <1>2 DEF InitBackup, BackupInvariant, ToolTyped, RestoreSteps, DirectoryTyped, NoCopy,
     RestoresAlone, CopyFollows, SafetyTaken, KeptInBackup, BackupIsCurrent

\* A directory that has been checked loads as before.
LEMMA CheckedLoads ==
    ASSUME NEW b, DirectoryTyped(b)
    PROVE  DirectoryTyped(Checked(b)) /\ Loaded(Checked(b)) = Loaded(b)
<1>1. GoodLines(b.lines) \in Seq(Record)
  BY GoodLinesAreRecords DEF DirectoryTyped
<1>2. GoodLines(GoodLines(b.lines)) = GoodLines(b.lines)
  BY <1>1, GoodLinesOfWhole
<1>3. (b.dangling /\ ~NeedsRepair(b.lines)) \in BOOLEAN
  BY DEF NeedsRepair
<1>4. /\ Checked(b).snap = b.snap /\ Checked(b).lines = GoodLines(b.lines)
      /\ Checked(b).dangling = (b.dangling /\ ~NeedsRepair(b.lines))
  BY DEF Checked
<1>5. Loaded(Checked(b)) = Loaded(b)
  BY <1>2, <1>4 DEF Loaded, Recovered
<1> QED
  BY <1>1, <1>3, <1>4, <1>5, RecordsAreLines DEF DirectoryTyped

\* Only a compaction replaces the snapshot.
LEMMA SnapshotReplaced ==
    ASSUME Next
    PROVE  snap' = snap \/ step' = "truncate"
BY DEF Next, Begin, ExecuteStatement, UpdateKey, Rollback, CommitBegins, AppendRecord, AppendFails,
       AppendRefused, WriteSnapshot, SnapshotFails, TruncateJournal, TruncateFails, Crash, Open,
       RepairJournal, RepairFails, disk

\* A step of the engine keeps the Tool's invariant.
LEMMA EngineStepBacksUp ==
    ASSUME BackupInvariant, EngineStep
    PROVE  BackupInvariant'
<1>1. EngineInvariant' /\ hit \subseteq hit'
  BY NextKeeps, HitGrows DEF BackupInvariant, EngineStep
<1>2. toolStep \notin RestoreSteps /\ UNCHANGED <<toolStep, backups, kept>>
  BY DEF EngineStep, BackupInvariant, RestoresAlone, RestoreSteps
<1>3. CASE toolStep = "copyJournal"
  <2>1. copy' = [snap |-> copy.snap, lines |-> copy.lines, dangling |-> copy.dangling,
                 floor |-> copy.floor \cup expected', rewritten |-> copy.rewritten \/ Rewriting]
    <3>1. copy' = [copy EXCEPT !.floor = @ \cup expected', !.rewritten = @ \/ Rewriting]
      BY <1>3 DEF EngineStep
    <3> QED
      BY <3>1 DEF BackupInvariant, ToolTyped
  <2>2. ~copy'.rewritten => step' = "truncate" \/ copy'.snap = snap'
    <3>1. SUFFICES ASSUME ~copy.rewritten, ~Rewriting
                   PROVE  step' = "truncate" \/ copy.snap = snap'
      BY <2>1
    <3>2. copy.snap = snap
      BY <1>3, <3>1 DEF BackupInvariant, CopyFollows, Rewriting
    <3> QED
      BY <3>2, SnapshotReplaced DEF EngineStep
  <2>3. (copy.rewritten \/ Rewriting) \in BOOLEAN
    BY DEF Rewriting, BackupInvariant, ToolTyped
  <2> QED
    BY <1>1, <1>2, <1>3, <2>1, <2>2, <2>3
    DEF BackupInvariant, ToolTyped, RestoreSteps, DirectoryTyped, RestoresAlone,
        CopyFollows, SafetyTaken, KeptInBackup, BackupIsCurrent, Loaded
<1>4. CASE toolStep # "copyJournal"
  <2>1. copy' = copy
    BY <1>4 DEF EngineStep
  <2> QED
    BY <1>1, <1>2, <1>4, <2>1
    DEF BackupInvariant, ToolTyped, RestoreSteps, DirectoryTyped, RestoresAlone,
        CopyFollows, SafetyTaken, KeptInBackup, BackupIsCurrent, Loaded
<1> QED
  BY <1>3, <1>4

\* The steps of a backup keep the invariant.
LEMMA BackupBacksUp ==
    ASSUME BackupInvariant, CopySnapshot \/ CopyJournal \/ CheckBackup
    PROVE  BackupInvariant'
<1>1. EngineInvariant' /\ Image' = Image /\ UNCHANGED <<snap, step, expected, hit, kept>>
  BY EngineUnmoved DEF BackupInvariant, CopySnapshot, CopyJournal, CheckBackup, vars
<1>2. EngineTyped /\ (hit = {} => EngineSettled)
  BY DEF BackupInvariant, EngineInvariant
<1>3. CASE CopySnapshot
  <2>1. <<>> \in Seq(Line) /\ Rewriting \in BOOLEAN
    BY DEF Rewriting
  <2>2. copy' = [snap |-> snap, lines |-> <<>>, dangling |-> FALSE, floor |-> expected,
                 rewritten |-> Rewriting]
    BY <1>3 DEF CopySnapshot, NoCopy
  <2>3. toolStep' = "copyJournal" /\ UNCHANGED backups
    BY <1>3 DEF CopySnapshot
  <2> QED
    BY <1>1, <1>2, <2>1, <2>2, <2>3 DEF BackupInvariant, EngineTyped, ToolTyped,
     RestoreSteps, DirectoryTyped, RestoresAlone, CopyFollows, SafetyTaken, KeptInBackup,
     BackupIsCurrent
<1>4. CASE CopyJournal
  <2>1. PICK read \in Cuts :
            copy' = [copy EXCEPT !.lines = read.lines, !.dangling = read.dangling,
                                 !.rewritten = @ \/ Rewriting]
    BY <1>4 DEF CopyJournal
  <2>2. copy' = [snap |-> copy.snap, lines |-> read.lines, dangling |-> read.dangling,
                 floor |-> copy.floor, rewritten |-> copy.rewritten \/ Rewriting]
    BY <2>1 DEF BackupInvariant, ToolTyped
  <2>3. read.lines \in Seq(Line) /\ read.dangling \in BOOLEAN
    BY <1>2, CutTyped
  <2>4. ~copy'.rewritten /\ hit = {} => Loaded(copy') \in copy'.floor
    <3>1. SUFFICES ASSUME ~copy.rewritten, step \notin {"truncate", "repair"}, hit = {}
                   PROVE  Recovered(copy.snap, read.lines) \in copy.floor
      BY <2>2 DEF Rewriting, Loaded
    <3>2. copy.snap = snap /\ expected \subseteq copy.floor
      BY <1>4, <3>1 DEF CopyJournal, BackupInvariant, CopyFollows
    <3> QED
      BY <1>2, <3>1, <3>2, CutIsExpected
  <2>5. (copy.rewritten \/ Rewriting) \in BOOLEAN
    BY DEF Rewriting, BackupInvariant, ToolTyped
  <2>6. toolStep' = "check" /\ UNCHANGED backups
    BY <1>4 DEF CopyJournal
  <2> QED
    BY <1>1, <2>2, <2>3, <2>4, <2>5, <2>6
    DEF BackupInvariant, ToolTyped, RestoreSteps, DirectoryTyped, RestoresAlone,
        CopyFollows, SafetyTaken, KeptInBackup, BackupIsCurrent, Loaded
<1>5. CASE CheckBackup
  <2>1. DirectoryTyped(Checked(copy))
    BY CheckedLoads DEF BackupInvariant, ToolTyped
  <2>2. DirectoryTyped(NoCopy)
    <3>1. <<>> \in Seq(Line) /\ Sound(EmptyDb)
      BY DEF Sound
    <3> QED
      BY <3>1 DEF DirectoryTyped, NoCopy
  <2>3. toolStep' = "idle" /\ copy' = NoCopy /\ backups' = backups \cup {Checked(copy)}
    BY <1>5 DEF CheckBackup
  <2> QED
    BY <1>1, <2>1, <2>2, <2>3
    DEF BackupInvariant, ToolTyped, RestoreSteps, RestoresAlone,
        CopyFollows, SafetyTaken, KeptInBackup, BackupIsCurrent, NoCopy
<1> QED
  BY <1>3, <1>4, <1>5

\* A server that ends between two transactions leaves an expected state, whether its buffer
\* is written, cut off or lost.
LEMMA StoppingSettles ==
    ASSUME EngineInvariant, StopServer
    PROVE  EngineInvariant'
<1>1. EngineTyped'
  BY CutTyped, GoneTyped DEF EngineInvariant, StopServer, CutOff
<1>2. hit = {} => EngineSettled'
  BY EndSettles DEF EngineInvariant, StopServer
<1> QED
  BY <1>1, <1>2 DEF EngineInvariant, StopServer

\* Other files under a stopped server.
LEMMA NewRuntimeSettles ==
    ASSUME EngineInvariant, step = "down", NEW s, Sound(s), NEW lines \in Seq(Line),
           NEW unended \in BOOLEAN, NewRuntime(s, lines, unended)
    PROVE  EngineInvariant'
<1>1. /\ snap' = s /\ journal' = lines /\ dangling' = unended
      /\ expected' = {Recovered(s, lines)}
      /\ UNCHANGED <<step, mem, saved, ops, rekeyed, handle, buffered, hit>>
  BY DEF NewRuntime, tx
<1>2. EngineTyped'
  BY <1>1 DEF EngineInvariant, EngineTyped
<1>3. ASSUME hit = {}
      PROVE  EngineSettled'
  <2>1. buffered = <<>> /\ handle
    BY <1>3 DEF EngineInvariant, EngineSettled, StopSettled
  <2> QED
    BY <1>1, <2>1 DEF EngineSettled, JournalSettled,
       TransactionReplays, CommitExpected, CompactionSettled, StopSettled, RepairSettled, Image
<1> QED
  BY <1>1, <1>2, <1>3 DEF EngineInvariant

\* The steps of a restore keep the invariant.
LEMMA RestoreBacksUp ==
    ASSUME BackupInvariant,
           \/ \E b \in backups : BeginRestore(b)
           \/ SafetyBackup \/ CopyTree \/ RemoveRuntime \/ ReplaceRuntime \/ RestoreFails
    PROVE  BackupInvariant'
<1> USE DEF RestoreSteps
<1>1. <<>> \in Seq(Line) /\ Sound(EmptyDb) /\ DirectoryTyped(NoCopy)
  <2>1. <<>> \in Seq(Line) /\ Sound(EmptyDb)
    BY DEF Sound
  <2> QED
    BY <2>1 DEF DirectoryTyped, NoCopy
<1>2. /\ EngineInvariant /\ Sound(snap) /\ journal \in Seq(Line) /\ dangling \in BOOLEAN
      /\ DirectoryTyped(copy) /\ \A b \in backups : DirectoryTyped(b)
  BY DEF BackupInvariant, EngineInvariant, EngineTyped, ToolTyped
<1>3. ASSUME NEW b \in backups, BeginRestore(b)
      PROVE  BackupInvariant'
  <2>1. EngineInvariant' /\ step' = "down"
    BY <1>2, <1>3, StoppingSettles, EngineUnmoved DEF BeginRestore, StopServer, Gone, vars
  <2>2. copy' = [snap |-> b.snap, lines |-> Checked(b).lines, dangling |-> Checked(b).dangling,
                 floor |-> {}, rewritten |-> FALSE]
    BY <1>3 DEF BeginRestore, NoCopy
  <2>3. /\ toolStep' = "safety" /\ UNCHANGED kept
        /\ backups' = (backups \ {b}) \cup {Checked(b)}
    BY <1>3 DEF BeginRestore
  <2>4. DirectoryTyped(Checked(b)) /\ Loaded(Checked(b)) = Loaded(b)
    BY <1>2, CheckedLoads
  <2>5. KeptInBackup'
    <3>1. SUFFICES ASSUME kept # {}
                   PROVE  \E c \in backups' : Loaded(c) \in kept
      BY <2>3 DEF KeptInBackup, Loaded
    <3>2. PICK c \in backups : Loaded(c) \in kept
      BY <3>1 DEF BackupInvariant, KeptInBackup
    <3>3. CASE c = b
      BY <2>3, <2>4, <3>2, <3>3
    <3>4. CASE c # b
      BY <2>3, <3>2, <3>4
    <3> QED
      BY <3>3, <3>4
  <2>6. ToolTyped'
    <3>1. DirectoryTyped(copy')
      BY <1>2, <2>2, <2>4 DEF DirectoryTyped
    <3>2. \A c \in backups' : DirectoryTyped(c)
      BY <1>2, <2>3, <2>4
    <3> QED
      BY <2>2, <2>3, <3>1, <3>2 DEF ToolTyped, DirectoryTyped
  <2> QED
    BY <2>1, <2>3, <2>5, <2>6 DEF BackupInvariant, RestoresAlone, CopyFollows, SafetyTaken,
       BackupIsCurrent
<1>4. CASE SafetyBackup
  <2> DEFINE new == [snap |-> snap, lines |-> journal, dangling |-> dangling]
  <2>1. EngineInvariant' /\ Image' = Image /\ step' = step
    BY <1>2, <1>4, EngineUnmoved DEF SafetyBackup, vars
  <2>2. DirectoryTyped(new) /\ Loaded(new) = Image
    BY <1>2 DEF DirectoryTyped, Loaded, Image
  <2>3. /\ toolStep = "safety" /\ toolStep' = "copyTree" /\ backups' = backups \cup {new}
        /\ UNCHANGED <<copy, kept>>
    BY <1>4 DEF SafetyBackup
  <2>4. \E b \in backups' : Loaded(b) = Image'
    BY <2>1, <2>2, <2>3
  <2>5. \A b \in backups' : DirectoryTyped(b)
    BY <1>2, <2>2, <2>3
  <2>6. kept # {} => \E b \in backups' : Loaded(b) \in kept
    BY <2>3 DEF BackupInvariant, KeptInBackup
  <2> HIDE DEF new
  <2> QED
    BY <2>1, <2>3, <2>4, <2>5, <2>6 DEF BackupInvariant, ToolTyped, RestoresAlone,
       CopyFollows, SafetyTaken, KeptInBackup, BackupIsCurrent
<1>5. CASE CopyTree
  <2>1. EngineInvariant' /\ Image' = Image /\ step' = step
    BY <1>2, <1>5, EngineUnmoved DEF CopyTree, vars
  <2> QED
    BY <1>1, <1>5, <2>1 DEF CopyTree, NoCopy, BackupInvariant, ToolTyped, RestoresAlone,
       CopyFollows, SafetyTaken, KeptInBackup, BackupIsCurrent
<1>6. CASE RemoveRuntime
  <2>1. step = "down" /\ step' = "down" /\ EngineInvariant'
    BY <1>1, <1>2, <1>6, NewRuntimeSettles
    DEF RemoveRuntime, NewRuntime, BackupInvariant, RestoresAlone
  <2>2. \E b \in backups : Loaded(b) = Image
    BY <1>6 DEF RemoveRuntime, BackupInvariant, SafetyTaken
  <2>3. kept' = {Image} /\ toolStep' = "replace" /\ UNCHANGED <<copy, backups>>
    BY <1>6 DEF RemoveRuntime
  <2>4. KeptInBackup'
    BY <2>2, <2>3 DEF KeptInBackup, Loaded
  <2> QED
    BY <2>1, <2>3, <2>4 DEF BackupInvariant, ToolTyped, RestoresAlone,
       CopyFollows, SafetyTaken, BackupIsCurrent
<1>7. CASE ReplaceRuntime
  <2>1. step = "down" /\ step' = "down" /\ EngineInvariant'
    BY <1>2, <1>7, NewRuntimeSettles
    DEF ReplaceRuntime, NewRuntime, BackupInvariant, RestoresAlone, DirectoryTyped
  <2>2. toolStep' = "idle" /\ copy' = NoCopy /\ UNCHANGED <<backups, kept>>
    BY <1>7 DEF ReplaceRuntime
  <2> QED
    BY <1>1, <2>1, <2>2 DEF NoCopy, BackupInvariant, ToolTyped, RestoresAlone,
       CopyFollows, SafetyTaken, KeptInBackup, BackupIsCurrent
<1>8. CASE RestoreFails
  <2>1. step = "down" /\ toolStep' = "idle" /\ copy' = NoCopy /\ UNCHANGED backups
    BY <1>8 DEF RestoreFails, BackupInvariant, RestoresAlone
  <2>2. EngineInvariant'
    <3>1. CASE UNCHANGED vars
      BY <1>2, <3>1, EngineUnmoved
    <3>2. CASE NewRuntime(EmptyDb, journal, dangling) \/ NewRuntime(snap, <<>>, FALSE)
      BY <1>1, <1>2, <2>1, <3>2, NewRuntimeSettles
    <3> QED
      BY <1>8, <3>1, <3>2 DEF RestoreFails
  <2>3. KeptInBackup'
    <3>1. CASE kept' = kept
      BY <2>1, <3>1 DEF BackupInvariant, KeptInBackup, Loaded
    <3>2. CASE kept' = {Image} /\ toolStep = "remove"
      BY <2>1, <3>2 DEF BackupInvariant, SafetyTaken, KeptInBackup, Loaded
    <3> QED
      BY <1>8, <3>1, <3>2 DEF RestoreFails
  <2> QED
    BY <1>1, <2>1, <2>2, <2>3 DEF NoCopy, BackupInvariant, ToolTyped, RestoresAlone,
       CopyFollows, SafetyTaken, BackupIsCurrent
<1> QED
  BY <1>3, <1>4, <1>5, <1>6, <1>7, <1>8

\* Every step of the engine and of the Tool keeps the invariant.
LEMMA NextBacksUp ==
    ASSUME BackupInvariant, [NextBackup]_backupVars
    PROVE  BackupInvariant'
<1>1. CASE UNCHANGED backupVars
  <2>1. EngineInvariant' /\ Image' = Image /\ UNCHANGED <<step, snap, expected, hit>>
    BY <1>1, EngineUnmoved DEF BackupInvariant, backupVars, vars
  <2> QED
    BY <1>1, <2>1 DEF backupVars, toolVars, BackupInvariant, ToolTyped, RestoresAlone,
       CopyFollows, SafetyTaken, KeptInBackup, BackupIsCurrent
<1> QED
  BY <1>1, EngineStepBacksUp, BackupBacksUp, RestoreBacksUp DEF NextBackup

\* The invariant of the engine, the Tool and the backup directories together.
THEOREM BackupInvariantHolds == SpecBackup => []BackupInvariant
<1>1. BackupInvariant /\ [NextBackup]_backupVars => BackupInvariant'
  BY NextBacksUp
<1> QED
  BY <1>1, InitBacksUp, PTL DEF SpecBackup

\* Durability with backups and restores around: until one of the five situations is met, a restart
\* finds what was acknowledged, or what the last restore, or its failure, put in place, for any
\* number of them.
THEOREM DurableThroughRestores == SpecBackup => [](Durable /\ RowsAreExpected)
<1>1. BackupInvariant => Durable /\ RowsAreExpected
  BY SettledIsDurable DEF BackupInvariant
<1> QED
  BY <1>1, BackupInvariantHolds, PTL

\* A backup that no compaction or repair met loads into a state that was acknowledged when the
\* copying began or later, however many transactions commit between its two copies, as long as
\* the engine has met none of the five situations.
THEOREM BackupsAreCurrent == SpecBackup => []BackupIsCurrent
<1>1. BackupInvariant => BackupIsCurrent
  BY DEF BackupInvariant
<1> QED
  BY <1>1, BackupInvariantHolds, PTL

\* However a restore ends, what was there before it is in a backup that loads.
THEOREM CopiesSurviveRestores == SpecBackup => []ACopySurvives
<1>1. BackupInvariant => ACopySurvives
  BY DEF BackupInvariant, KeptInBackup, ACopySurvives
<1> QED
  BY <1>1, BackupInvariantHolds, PTL

-----------------------------------------------------------------------------
(* The engine implements the store *)

StoreStep == [Store!Next]_(Store!vars)

\* What holds before and after a step that meets none of the situations.
Sane == EngineTyped /\ EngineSettled /\ hit = {} /\ hit' = {}

\* A step that meets one of the situations breaks the store.
LEMMA StoreBreaks ==
    ASSUME hit' # {}
    PROVE  StoreStep
<1>1. (hit # {})' = TRUE
  OBVIOUS
<1> QED
  BY <1>1 DEF StoreStep, Store!Next

\* A store that keeps its promise is not broken by it.
LEMMA StoreKeeps ==
    ASSUME Sane, Store!Promised
    PROVE  StoreStep
<1>1. (hit # {})' = (hit # {})
  BY DEF Sane
<1> QED
  BY <1>1 DEF StoreStep, Store!Next

\* An engine that leaves the mapped variables alone leaves the store alone.
LEMMA StoreStutters ==
    ASSUME Sane, (step # "down")' = (step # "down"),
           UNCHANGED <<Current, Stored, Pending, expected>>
    PROVE  StoreStep
<1>1. (hit # {})' = (hit # {})
  BY DEF Sane
<1> QED
  BY <1>1 DEF StoreStep, Store!vars

\* Without records that wait, nothing is pending.
LEMMA NothingPending ==
    ASSUME Waiting = <<>>
    PROVE  Pending = <<>>
<1>1. Len(Waiting) = 0
  BY Zenon, EmptySeq
<1> QED
  BY <1>1 DEF Pending

\* Transactions that do not commit leave the store alone.
LEMMA StoreIgnoresTransactions ==
    ASSUME Sane, \/ Begin \/ (\E o \in Statements : ExecuteStatement(o)) \/ Rollback
                 \/ \E old \in Keys, new \in NewKeys : UpdateKey(old, new)
    PROVE  StoreStep
<1>1. UNCHANGED <<snap, journal, buffered, expected>>
  BY DEF Begin, ExecuteStatement, UpdateKey, Rollback, disk
<1>2. /\ step \in {"idle", "active"} /\ step' \in {"idle", "active"}
  BY DEF Begin, ExecuteStatement, UpdateKey, Rollback
<1>3. UNCHANGED <<Stored, Pending>>
  BY <1>1, <1>2 DEF Stored, Image, Pending, Waiting
<1>4. UNCHANGED Current
  BY <1>2 DEF Begin, ExecuteStatement, UpdateKey, Rollback, Current
<1> QED
  BY <1>1, <1>2, <1>3, <1>4, StoreStutters

\* A commit that begins is submitted; an empty one is nothing to the store.
LEMMA StoreSubmits ==
    ASSUME Sane, CommitBegins
    PROVE  StoreStep
<1>1. step = "active" /\ ~rekeyed /\ UNCHANGED <<mem, saved, ops, snap, journal, buffered>>
  BY DEF Sane, CommitBegins, disk
<1>2. Settled(snap, journal, buffered, saved, expected) /\ mem = ReplayRecord(saved, ops)
  BY <1>1 DEF Sane, EngineSettled, JournalSettled, TransactionReplays, Base
<1>3. ops \in Seq(Statements)
  BY <1>1 DEF Sane, EngineTyped
<1>4. CASE ops = <<>>
  <2>1. step' = "idle" /\ expected' = expected
    BY <1>1, <1>4 DEF CommitBegins
  <2>2. mem = saved
    BY <1>2, <1>4, ReplayRecordEmpty
  <2>3. UNCHANGED <<Stored, Pending, Current>>
    BY <1>1, <2>1, <2>2 DEF Stored, Image, Pending, Waiting, Current
  <2> QED
    BY <1>1, <2>1, <2>3, StoreStutters
<1>5. CASE ops # <<>>
  <2>1. step' = "append" /\ expected' = expected \cup {mem}
    BY <1>5 DEF CommitBegins
  <2>2. ops \in Record
    BY <1>3, <1>5 DEF Record
  <2>3. /\ buffered \in Seq(Record) /\ Len(buffered) \in Nat
        /\ Append(buffered, ops) \in Seq(Record)
        /\ Len(Append(buffered, ops)) = Len(buffered) + 1
        /\ SubSeq(Append(buffered, ops), 1, Len(buffered) + 1) = Append(buffered, ops)
    BY <1>2, <2>2 DEF Settled
  <2>4. \A n \in 1..Len(buffered) : SubSeq(Append(buffered, ops), 1, n) = SubSeq(buffered, 1, n)
    BY <2>2, <2>3
  <2>5. Replayed(snap, journal \o Append(buffered, ops)) = mem
    BY <1>2, <2>2, SettledWritten
  <2> DEFINE r(n) == Replayed(snap, journal \o SubSeq(buffered, 1, n))
             q(n) == Replayed(snap, journal \o SubSeq(Append(buffered, ops), 1, n))
  <2>6. Pending = [n \in 1..Len(buffered) |-> r(n)]
    BY <1>1 DEF Pending, Waiting
  <2>7. Pending' = [n \in 1..(Len(buffered) + 1) |-> q(n)]
    BY <1>1, <2>1, <2>3 DEF Pending, Waiting, Outgoing
  <2>8. \A n \in 1..Len(buffered) : q(n) = r(n)
    BY <2>4
  <2>9. q(Len(buffered) + 1) = mem
    BY <2>3, <2>5
  <2> HIDE DEF r, q
  <2>10. Pending' = Append(Pending, mem)
    BY <2>3, <2>6, <2>7, <2>8, <2>9
  <2>11. Current' = mem /\ Stored' = Stored
    BY <1>1, <2>1 DEF Current, Stored, Image
  <2>12. Store!Submit
    BY <1>1, <2>1, <2>10, <2>11 DEF Store!Submit
  <2> QED
    BY <2>12, StoreKeeps DEF Store!Promised
<1> QED
  BY <1>4, <1>5

\* A record that reaches the journal, with those before it, makes all commits durable.
LEMMA StorePersists ==
    ASSUME Sane, AppendRecord \/ (\E fault \in {"unended", "written"} : AppendFails(fault))
    PROVE  StoreStep
<1>1. step = "append" /\ EngineTyped /\ EngineSettled
  BY DEF AppendRecord, AppendFails, Sane
<1>2. /\ Appended(journal, Outgoing) = journal \o Outgoing
      /\ journal \o Outgoing \in Seq(Record)
      /\ Replayed(snap, journal \o Outgoing) = mem
  BY <1>1, AppendAdds
<1>3. /\ journal' = journal \o Outgoing /\ buffered' = <<>> /\ UNCHANGED <<mem, snap>>
      /\ step' \in {"idle", "snapshot"} /\ expected' \in {expected, {mem}}
  BY <1>2 DEF AppendRecord, AppendFails, FaultLeaves, Acknowledge
<1>4. Stored' = mem
  BY <1>2, <1>3, WholeIsRecovered DEF Stored, Image
<1>5. Current = mem /\ Current' = mem
  BY <1>1, <1>3 DEF Current
<1>6. Pending' = <<>>
  <2>1. Waiting' = <<>>
    BY <1>3 DEF Waiting
  <2>2. Len(Waiting)' = 0
    BY <2>1, EmptySeq
  <2> QED
    BY <2>2 DEF Pending
<1>7. Pending # <<>>
  <2>1. Outgoing = Append(buffered, ops) /\ buffered \in Seq(Record) /\ ops \in Record
    BY <1>1, AppendAdds DEF Outgoing, Settled
  <2>2. Len(Outgoing) = Len(buffered) + 1 /\ Len(buffered) \in Nat
    BY <2>1
  <2>3. Waiting = Outgoing
    BY <1>1 DEF Waiting
  <2>4. 1 \in DOMAIN Pending
    BY <2>2, <2>3 DEF Pending
  <2>5. DOMAIN <<>> = {}
    OBVIOUS
  <2> QED
    BY <2>4, <2>5
<1>8. Store!Persist
  BY <1>1, <1>3, <1>4, <1>5, <1>6, <1>7 DEF Store!Persist
<1> QED
  BY <1>8, StoreKeeps DEF Store!Promised

\* A record that stays in the buffer stays pending.
LEMMA StoreKeepsWaiting ==
    ASSUME Sane, AppendFails("buffered")
    PROVE  StoreStep
<1>1. /\ step = "append" /\ step' = "idle" /\ buffered' = Outgoing
      /\ UNCHANGED <<journal, mem, snap, expected>>
  BY DEF AppendFails, FaultLeaves
<1>2. Waiting' = Waiting
  BY <1>1 DEF Waiting
<1>3. UNCHANGED <<Stored, Pending, Current>>
  BY <1>1, <1>2 DEF Stored, Image, Pending, Current
<1> QED
  BY <1>1, <1>3, StoreStutters

\* A compaction leaves the store alone until its commit returns.
LEMMA StoreSurvivesCompaction ==
    ASSUME Sane, \/ WriteSnapshot \/ SnapshotFails \/ TruncateJournal
                 \/ \E fault \in CommitFaults : TruncateFails(fault)
    PROVE  StoreStep
<1>1. step \in {"snapshot", "truncate"}
  BY DEF WriteSnapshot, SnapshotFails, TruncateJournal, TruncateFails
<1>2. buffered = <<>> /\ buffered' = <<>> /\ UNCHANGED mem
  BY <1>1 DEF WriteSnapshot, SnapshotFails, TruncateJournal, TruncateFails, Sane,
     EngineSettled, CompactionSettled
<1>3. step' \in {"idle", "truncate"}
  BY DEF WriteSnapshot, SnapshotFails, TruncateJournal, TruncateFails, Acknowledge
<1>4. Pending = <<>> /\ Pending' = <<>>
  <2>1. Waiting = <<>> /\ Waiting' = <<>>
    BY <1>1, <1>2, <1>3 DEF Waiting
  <2>2. Len(Waiting) = 0 /\ Len(Waiting)' = 0
    BY <2>1, EmptySeq
  <2> QED
    BY <2>2 DEF Pending
<1>5. Current = mem /\ Current' = mem
  BY <1>1, <1>2, <1>3 DEF Current
<1>6. Stored = mem
  BY <1>1, WholeIsRecovered DEF Sane, EngineSettled, CompactionSettled, Stored, Image
<1>7. CASE WriteSnapshot \/ SnapshotFails
  <2>1. Stored' = mem
    BY <1>6, <1>7 DEF WriteSnapshot, SnapshotFails, disk, Stored, Image
  <2>2. expected' = expected
    BY <1>7 DEF WriteSnapshot, SnapshotFails
  <2> QED
    BY <1>1, <1>3, <1>4, <1>5, <1>6, <2>1, <2>2, StoreStutters
<1>8. CASE TruncateJournal \/ \E fault \in CommitFaults : TruncateFails(fault)
  <2>1. /\ snap = mem /\ journal' = <<>> /\ step' = "idle" /\ snap' = snap
        /\ expected' = {mem} \/ expected' = expected
    BY <1>8 DEF TruncateJournal, TruncateFails, Acknowledge, Sane, EngineSettled, CompactionSettled
  <2>2. <<>> \in Seq(Record)
    OBVIOUS
  <2>3. Recovered(snap, <<>>) = snap
    BY <2>2, WholeIsRecovered, ReplayedEmpty
  <2>4. Stored' = mem
    BY <2>1, <2>3 DEF Stored, Image
  <2>5. CASE expected' = {mem}
    <3>1. Store!Acknowledge
      BY <1>1, <1>3, <1>4, <1>5, <1>6, <2>1, <2>4, <2>5 DEF Store!Acknowledge
    <3> QED
      BY <3>1, StoreKeeps DEF Store!Promised
  <2>6. CASE expected' = expected
    BY <1>1, <1>3, <1>4, <1>5, <1>6, <2>4, <2>6, StoreStutters
  <2> QED
    BY <2>1, <2>5, <2>6
<1> QED
  BY <1>7, <1>8

\* A process that stops leaves some first part of what waits.
LEMMA StoreStops ==
    ASSUME Sane, step # "down", step' = "down", buffered' = <<>>, expected' = expected,
           NEW n \in 0..Len(Pending),
           Image' = IF n = 0 THEN Stored ELSE Pending[n]
    PROVE  StoreStep
<1>1. Pending' = <<>>
  <2>1. Waiting' = <<>>
    BY DEF Waiting
  <2>2. Len(Waiting)' = 0
    BY <2>1, EmptySeq
  <2> QED
    BY <2>2 DEF Pending
<1>2. Stored' = Image' /\ Current' = Stored'
  BY DEF Stored, Current
<1>3. Store!Stop(n)
  BY <1>1, <1>2 DEF Store!Stop
<1> QED
  BY <1>3, StoreKeeps DEF Store!Promised

\* The end of a process, by itself or by the Tool, is a stop of the store.
LEMMA StoreEnds ==
    ASSUME Sane, step \notin {"truncate", "repair", "down"}, Gone, CutOff,
           UNCHANGED <<snap, expected>>
    PROVE  StoreStep
<1>1. step' = "down" /\ buffered' = <<>>
  BY DEF Gone
<1>2. Stored = Image
  BY DEF Stored
<1>3. PICK cut \in Cuts : journal' = cut.lines
  BY DEF CutOff
<1>4. PICK n \in 0..Len(Pending) :
          Recovered(snap, cut.lines) = IF n = 0 THEN Image ELSE Pending[n]
  BY CutIsPending DEF Sane
<1>5. Image' = IF n = 0 THEN Stored ELSE Pending[n]
  BY <1>2, <1>3, <1>4 DEF Image
<1> QED
  BY <1>1, <1>5, StoreStops

\* Opening the database is reopening the store, whether the journal is repaired or not.
LEMMA StoreReopens ==
    ASSUME Sane, Open
    PROVE  StoreStep
<1>1. /\ step = "down" /\ buffered = <<>> /\ buffered' = <<>> /\ Image \in expected /\ snap' = snap
      /\ step' \in {"repair", "idle"}
  BY DEF Open, Sane, EngineSettled, StopSettled
<1>2. mem' = Image
  BY DEF Open, Image
<1>3. expected' = {Image}
  BY <1>1, <1>2 DEF Open
<1>4. Stored = Image /\ Current = Image
  BY <1>1 DEF Stored, Current
<1>5. Current' = Image
  BY <1>1, <1>2 DEF Current
<1>6. Stored' = Image
  <2>1. CASE NeedsRepair(journal)
    <3>1. step' = "repair" /\ ops' = GoodLines(journal)
      BY <2>1 DEF Open
    <3> QED
      BY <1>1, <3>1 DEF Stored, Image, Recovered
  <2>2. CASE ~NeedsRepair(journal)
    <3>1. step' = "idle" /\ journal' = journal
      BY <2>2 DEF Open
    <3> QED
      BY <1>1, <3>1 DEF Stored, Image
  <2> QED
    BY <2>1, <2>2
<1>7. Pending = <<>> /\ Pending' = <<>>
  <2>1. Waiting = <<>> /\ Waiting' = <<>>
    BY <1>1 DEF Waiting
  <2>2. Len(Waiting) = 0 /\ Len(Waiting)' = 0
    BY <2>1, EmptySeq
  <2> QED
    BY <2>2 DEF Pending
<1>8. Store!Reopen
  BY <1>1, <1>3, <1>4, <1>5, <1>6, <1>7 DEF Store!Reopen
<1> QED
  BY <1>8, StoreKeeps DEF Store!Promised

\* Rewriting the journal leaves the store alone.
LEMMA StoreIgnoresRepair ==
    ASSUME Sane, RepairJournal
    PROVE  StoreStep
<1>1. /\ step = "repair" /\ step' = "idle" /\ journal' = ops /\ ops \in Seq(Record)
      /\ buffered = <<>> /\ UNCHANGED <<mem, snap, buffered, expected>>
  BY DEF RepairJournal, Sane, EngineTyped, EngineSettled, RepairSettled
<1>2. Stored' = Stored
  BY <1>1, WholeIsRecovered DEF Stored, Image
<1>3. Current' = Current
  BY <1>1 DEF Current
<1>4. Pending' = Pending
  <2>1. Waiting = <<>> /\ Waiting' = <<>>
    BY <1>1 DEF Waiting
  <2>2. Len(Waiting) = 0 /\ Len(Waiting)' = 0
    BY <2>1, EmptySeq
  <2> QED
    BY <2>2 DEF Pending
<1> QED
  BY <1>1, <1>2, <1>3, <1>4, StoreStutters

\* Other files under a stopped server are other data in the store.
LEMMA StoreRestores ==
    ASSUME Sane, step = "down", NEW s, NEW lines, NEW unended, NewRuntime(s, lines, unended)
    PROVE  StoreStep
<1>1. /\ snap' = s /\ journal' = lines /\ expected' = {Recovered(s, lines)}
      /\ UNCHANGED <<step, buffered>> /\ buffered = <<>>
  BY DEF NewRuntime, Sane, EngineSettled, StopSettled
<1>2. Stored' = Recovered(s, lines) /\ Current' = Stored'
  BY <1>1 DEF Stored, Image, Current
<1>3. Pending' = Pending
  <2>1. Waiting = <<>> /\ Waiting' = <<>>
    BY <1>1 DEF Waiting
  <2>2. Len(Waiting) = 0 /\ Len(Waiting)' = 0
    BY <2>1, EmptySeq
  <2> QED
    BY <2>2 DEF Pending
<1>4. Store!Restore
  BY <1>1, <1>2, <1>3 DEF Store!Restore
<1> QED
  BY <1>4, StoreKeeps DEF Store!Promised

\* What moves no variable of the engine leaves the store alone.
LEMMA StoreUnmoved ==
    ASSUME UNCHANGED vars
    PROVE  StoreStep
<1>1. UNCHANGED <<step, expected, hit>>
  BY DEF vars
<1>2. UNCHANGED <<Current, Stored, Pending>>
  BY DEF vars, Current, Stored, Image, Pending, Waiting, Outgoing
<1> QED
  BY <1>1, <1>2 DEF StoreStep, Store!vars

\* Every step of the engine is one of the store, or leaves it alone.
LEMMA EngineStoreStep ==
    ASSUME Sane, Next
    PROVE  StoreStep
<1>1. CASE Crash
  <2>1. step \notin {"truncate", "repair", "down"}
    BY <1>1 DEF Crash, Sane
  <2> QED
    BY <1>1, <2>1, StoreEnds DEF Crash
<1>2. CASE RepairFails
  BY <1>2 DEF RepairFails, Sane
<1>3. ASSUME NEW fault \in AppendFaults, AppendFails(fault)
      PROVE  StoreStep
  <2>1. fault # "torn"
    BY <1>3 DEF AppendFails, FaultLeaves, Sane
  <2>2. fault \in {"buffered", "unended", "written"}
    BY <2>1 DEF AppendFaults
  <2> QED
    BY <1>3, <2>2, StorePersists, StoreKeepsWaiting
<1>4. CASE AppendRefused
  BY <1>4 DEF AppendRefused, Sane, EngineSettled
<1> QED
  BY <1>1, <1>2, <1>3, <1>4, StoreIgnoresTransactions, StoreSubmits, StorePersists,
     StoreSurvivesCompaction, StoreReopens, StoreIgnoresRepair DEF Next

\* Every step of the engine and of the Tool is one of the store, or leaves it alone.
LEMMA EveryStoreStep ==
    ASSUME BackupInvariant, [NextBackup]_backupVars
    PROVE  StoreStep
<1>1. CASE hit' # {}
  BY <1>1, StoreBreaks
<1>2. CASE hit' = {}
  <2>1. CASE UNCHANGED vars
    BY <2>1, StoreUnmoved
  <2>2. ASSUME hit = {}
        PROVE  Sane
    BY <1>2, <2>2 DEF Sane, BackupInvariant, EngineInvariant
  <2>3. CASE Next
    <3>1. hit = {}
      BY <1>2, <2>3, HitGrows
    <3> QED
      BY <2>2, <2>3, <3>1, EngineStoreStep
  <2>4. CASE StopServer
    <3>1. Sane /\ step = "idle"
      BY <1>2, <2>2, <2>4 DEF StopServer
    <3> QED
      BY <2>4, <3>1, StoreEnds DEF StopServer
  <2>5. ASSUME step = "down", NEW s, NEW lines, NEW unended, NewRuntime(s, lines, unended)
        PROVE  StoreStep
    <3>1. Sane
      BY <1>2, <2>2, <2>5 DEF NewRuntime
    <3> QED
      BY <2>5, <3>1, StoreRestores
  <2>6. CASE RemoveRuntime \/ ReplaceRuntime \/ RestoreFails
    <3>1. step = "down"
      BY <2>6 DEF RemoveRuntime, ReplaceRuntime, RestoreFails, RestoreSteps, BackupInvariant,
         RestoresAlone
    <3>2. UNCHANGED vars \/ \E s, lines, unended : NewRuntime(s, lines, unended)
      BY <2>6 DEF RemoveRuntime, ReplaceRuntime, RestoreFails
    <3> QED
      BY <2>1, <2>5, <3>1, <3>2
  <2> QED
    BY <2>1, <2>3, <2>4, <2>6 DEF NextBackup, EngineStep, CopySnapshot, CopyJournal,
       CheckBackup, BeginRestore, SafetyBackup, CopyTree, backupVars
<1> QED
  BY <1>1, <1>2

\* The engine, with the Tool around it, implements TransactionStore: commits become durable whole
\* and in order, those that returned are not lost, and a restart shows what is durable, until the
\* first of the five situations breaks the store.
THEOREM StoreImplemented == SpecBackup => ImplementsStore
<1>1. InitBackup => Store!Init
  <2> SUFFICES ASSUME InitBackup
               PROVE  Store!Init
    OBVIOUS
  <2>1. /\ step = "idle" /\ mem = EmptyDb /\ snap = EmptyDb /\ journal = <<>> /\ buffered = <<>>
        /\ expected = {EmptyDb} /\ hit = {}
    BY DEF InitBackup, Init
  <2>2. <<>> \in Seq(Record)
    OBVIOUS
  <2>3. Image = EmptyDb
    BY <2>1, <2>2, WholeIsRecovered, ReplayedEmpty DEF Image
  <2>4. Stored = EmptyDb /\ Current = EmptyDb
    BY <2>1, <2>3 DEF Stored, Current
  <2>5. Pending = <<>>
    BY <2>1, NothingPending DEF Waiting
  <2> QED
    BY <2>1, <2>4, <2>5 DEF Store!Init
<1>2. BackupInvariant /\ [NextBackup]_backupVars => [Store!Next]_(Store!vars)
  BY EveryStoreStep DEF StoreStep
<1> QED
  BY <1>1, <1>2, BackupInvariantHolds, PTL DEF SpecBackup, ImplementsStore, Store!Spec
=============================================================================

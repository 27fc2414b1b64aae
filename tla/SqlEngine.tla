------------------------------ MODULE SqlEngine -----------------------------
(***************************************************************************)
(* The embedded HMS SQL engine as a store: rows in memory, a snapshot and  *)
(* a journal on disk, one write transaction at a time and a process that   *)
(* may stop.  One table stands for the schema; a transaction is a sequence *)
(* of DDL, INSERT, UPDATE and DELETE statements and one journal record.    *)
(* Every table of the program has a primary key, so this one has.          *)
(*                                                                         *)
(* The journal is a sequence of lines.  A line is the operations of a      *)
(* record whose checksum holds, or Torn.  "dangling" says that the last    *)
(* line, a record or a fragment, has no newline: the next record is        *)
(* written on the same line and both are lost.                             *)
(*                                                                         *)
(* The code does not keep its promise of durability in five situations.    *)
(* The history variable "hit" holds those a behaviour has met.             *)
(***************************************************************************)
EXTENDS Naturals, Sequences, FiniteSets, SequencesExt

CONSTANTS
    Keys,               \* primary key values that statements look for
    NewKeys,            \* primary key values that an UPDATE may set
    Vals,               \* values of the other columns
    CompactionThreshold,\* journal records that trigger a compaction (512)
    CommitFaults,       \* ways in which a commit may fail in a behaviour
    MaxOps,             \* bound: statements in a transaction
    MaxTx,              \* bound: transactions in a behaviour
    MaxCrashes          \* bound: stops of the process in a behaviour

StepNames == {"down", "repair", "idle", "active", "append", "snapshot", "truncate"}

ASSUME SqlEngineAssumption ==
    /\ CompactionThreshold \in Nat \ {0}
    /\ CommitFaults \subseteq {"buffered", "torn", "unended", "written", "snapshot",
                            "truncate", "truncated"}
    /\ MaxOps \in Nat /\ MaxTx \in Nat /\ MaxCrashes \in Nat

VARIABLES
    step,       \* what the process does; "down" is no process
    mem,        \* Database.schema: the rows every thread sees
    saved,      \* Transaction._saved_rows
    ops,        \* Transaction.operations
    rekeyed,    \* the transaction changed a primary key, which is not recorded
    snap,       \* snapshot.json
    journal,    \* journal.log
    dangling,   \* its last line has no newline
    handle,     \* the journal's handle is open for writing
    buffered,   \* records a failed append left in the handle's buffer
    records,    \* Storage.journal_records
    hit,        \* history: situations met in which commits may be lost
    expected,   \* states a caller may find: the acknowledged one, and with a
                \* commit that has not returned also the one behind it
    txs,        \* transactions started (bound)
    crashes     \* stops so far (bound)

disk == <<snap, journal, dangling>>
tx == <<saved, ops, rekeyed>>
bounds == <<txs, crashes>>
vars == <<step, mem, saved, ops, rekeyed, snap, journal, dangling, handle, buffered, records,
          hit, expected, txs, crashes>>

Situations ==
    {"compaction",  \* new snapshot, old journal
     "repair",      \* a repaired journal that was not written back
     "fragment",    \* part of a record left by an append of this process
     "joined",      \* a record written behind one without its newline
     "unrecorded"}  \* a committed change of a primary key

-----------------------------------------------------------------------------
(* Rows and operations *)

Torn == <<[op |-> "torn"]>>
Broken == [table |-> FALSE, rows |-> <<[key |-> "unopenable"]>>]
EmptyDb == [table |-> FALSE, rows |-> <<>>]

Ddl == [op |-> "ddl"]
Insert(k, v) == [op |-> "insert", key |-> k, val |-> v]
Update(k, v) == [op |-> "update", key |-> k, val |-> v]
Delete(k) == [op |-> "delete", key |-> k]
Row(k, v) == [key |-> k, val |-> v]

HasKey(db, k) == \E i \in DOMAIN db.rows : db.rows[i].key = k
FirstOf(db, k) == CHOOSE i \in DOMAIN db.rows :
                    db.rows[i].key = k /\ \A j \in 1..(i - 1) : db.rows[j].key # k

\* Executor: when a statement is accepted, and what it does to the rows.  A DELETE
\* that finds no row is recorded all the same, an UPDATE that finds none is not.
Accepts(db, o) ==
    CASE o.op = "ddl" -> ~db.table
      [] o.op = "insert" -> db.table /\ ~HasKey(db, o.key)
      [] o.op = "update" -> db.table /\ HasKey(db, o.key)
      [] o.op = "delete" -> db.table

Execute(db, o) ==
    CASE o.op = "ddl" -> [table |-> TRUE, rows |-> <<>>]
      [] o.op = "insert" -> [db EXCEPT !.rows = Append(@, Row(o.key, o.val))]
      [] o.op = "update" -> [db EXCEPT !.rows[FirstOf(db, o.key)] = Row(o.key, o.val)]
      [] o.op = "delete" -> [db EXCEPT !.rows = SelectSeq(@, LAMBDA r : r.key # o.key)]

\* _apply_journal_operation: a replayed INSERT is appended without a check, a
\* replayed UPDATE of an absent key too; a replayed CREATE TABLE is executed.
ReplayOp(db, o) ==
    IF db = Broken THEN Broken
    ELSE IF o.op = "ddl" THEN IF db.table THEN Broken ELSE Execute(db, o)
    ELSE IF ~db.table THEN Broken
    ELSE IF o.op = "update" /\ ~HasKey(db, o.key) THEN
            [db EXCEPT !.rows = Append(@, Row(o.key, o.val))]
    ELSE Execute(db, o)

\* The operations of a record one after the other, written as a function of how many of them.
\* Each is applied to one state, bound as "before", which TLC therefore computes only once.
ReplayRecord(db, record) ==
    LET after[n \in 0..Len(record)] ==
            IF n = 0 THEN db
            ELSE CHOOSE next \in {ReplayOp(before, record[n]) : before \in {after[n - 1]}} : TRUE
    IN  after[Len(record)]

\* The journal's lines one after the other, on what the snapshot holds.
Replayed(s, lines) ==
    LET after[n \in 0..Len(lines)] == IF n = 0 THEN s ELSE ReplayRecord(after[n - 1], lines[n])
    IN  after[Len(lines)]

\* The lines before the first one that does not verify.
GoodLines(lines) ==
    LET bad == {i \in DOMAIN lines : lines[i] = Torn}
    IN  IF bad = {} THEN lines
        ELSE SubSeq(lines, 1, (CHOOSE i \in bad : \A j \in bad : i <= j) - 1)

\* Mutant: a torn tail is skipped but left in the journal.
NeedsRepairNever(lines) == FALSE

\* A line that does not verify makes load rewrite the journal.
NeedsRepair(lines) == Len(GoodLines(lines)) # Len(lines)

Recovered(s, lines) == Replayed(s, GoodLines(lines))

\* Complete lines written behind what the journal holds; the first one joins a line
\* that has no newline.
Appended(lines, new) ==
    IF dangling /\ new # <<>> THEN Front(lines) \o <<Torn>> \o Tail(new) ELSE lines \o new

\* What an append writes: the buffer's rest first, then the transaction.
Outgoing == Append(buffered, ops)

\* The records that are not in the journal yet.
Waiting == IF step = "append" THEN Outgoing ELSE buffered

\* The first n waiting lines are in the journal, complete ...
Written(n) == Appended(journal, SubSeq(Waiting, 1, n))

\* ... and a fragment of the next one.
Fragmented(n) ==
    IF dangling /\ n = 0 THEN Append(Front(journal), Torn) ELSE Append(Written(n), Torn)

File(lines, unended) == [lines |-> lines, dangling |-> unended]

\* What a stop may leave of journal.log, and what another process may read: an append is
\* not one write, and what a failed one left in the buffer may be written in part.  The
\* last line may lack no more than its newline.
Cuts ==
    {File(journal, dangling)}
    \cup {File(Written(n), FALSE) : n \in 1..Len(Waiting)}
    \cup {File(Written(n), TRUE) : n \in 1..Len(Waiting)}
    \cup {File(Fragmented(n), TRUE) : n \in 0..(Len(Waiting) - 1)}

\* Every line verifies, and yet the last one lacks its newline.  splitlines does not see it.
Unended == dangling /\ Torn \notin ToSet(journal)

-----------------------------------------------------------------------------
Init ==
    /\ step = "idle"
    /\ mem = EmptyDb /\ saved = EmptyDb /\ ops = <<>> /\ rekeyed = FALSE
    /\ snap = EmptyDb /\ journal = <<>> /\ dangling = FALSE /\ handle = TRUE
    /\ buffered = <<>> /\ records = 0
    /\ hit = {} /\ expected = {EmptyDb}
    /\ txs = 0 /\ crashes = 0

\* Transaction.__enter__: take the write lock, clone the rows.
Begin ==
    /\ step = "idle"
    /\ txs < MaxTx
    /\ txs' = txs + 1
    /\ step' = "active"
    /\ saved' = mem
    /\ ops' = <<>> /\ rekeyed' = FALSE
    /\ UNCHANGED <<mem, disk, handle, buffered, records, hit, expected, crashes>>

Statements == {Ddl} \cup {Insert(k, v) : k \in Keys, v \in Vals}
                    \cup {Update(k, v) : k \in Keys, v \in Vals}
                    \cup {Delete(k) : k \in Keys}

\* Transaction.execute changes the shared rows in place and records the change: after
\* the statement _record looks the row up by the key it had before.
ExecuteStatement(o) ==
    /\ step = "active"
    /\ Len(ops) < MaxOps
    /\ Accepts(mem, o)
    /\ mem' = Execute(mem, o)
    /\ ops' = Append(ops, o)
    /\ UNCHANGED <<step, saved, rekeyed, disk, handle, buffered, records, hit, expected, bounds>>

\* An UPDATE that changes the primary key: _record no longer finds the row, and records
\* nothing.
UpdateKey(old, new) ==
    /\ step = "active"
    /\ Len(ops) < MaxOps
    /\ HasKey(mem, old) /\ ~HasKey(mem, new)
    /\ mem' = [mem EXCEPT !.rows[FirstOf(mem, old)].key = new]
    /\ rekeyed' = TRUE
    /\ UNCHANGED <<step, saved, ops, disk, handle, buffered, records, hit, expected, bounds>>

\* Any exception in the block, a refused statement included.
Rollback ==
    /\ step = "active"
    /\ mem' = saved
    /\ ops' = <<>> /\ rekeyed' = FALSE
    /\ step' = "idle"
    /\ UNCHANGED <<saved, disk, handle, buffered, records, hit, expected, bounds>>

\* __exit__ without an exception; a transaction that recorded nothing just releases the
\* lock.
CommitBegins ==
    /\ step = "active"
    /\ IF ops = <<>>
       THEN step' = "idle" /\ expected' = IF rekeyed THEN {mem} ELSE expected
       ELSE step' = "append" /\ expected' = expected \cup {mem}
    /\ hit' = hit \cup (IF rekeyed THEN {"unrecorded"} ELSE {})
                  \cup (IF ops # <<>> /\ Unended THEN {"joined"} ELSE {})
    /\ rekeyed' = FALSE
    /\ UNCHANGED <<mem, saved, ops, disk, handle, buffered, records, bounds>>

Acknowledge ==
    /\ step' = "idle"
    /\ ops' = <<>>
    /\ expected' = {mem}

\* Storage.append: write, flush, fsync.  What the buffer still holds goes first.
AppendRecord ==
    /\ step = "append" /\ handle
    /\ journal' = Appended(journal, Outgoing)
    /\ dangling' = FALSE
    /\ buffered' = <<>>
    /\ records' = records + 1
    /\ IF records' >= CompactionThreshold
       THEN step' = "snapshot" /\ UNCHANGED <<ops, expected>>
       ELSE Acknowledge
    /\ UNCHANGED <<mem, saved, rekeyed, snap, handle, hit, bounds>>

\* What an OSError of an append leaves: a short record stays in the handle's buffer, a
\* long one may leave a fragment, or all but its newline, and a failed fsync leaves the
\* whole record.
FaultLeaves(fault) ==
    CASE fault = "buffered" ->
            /\ buffered' = Outgoing
            /\ UNCHANGED <<journal, dangling, hit>>
      [] fault = "torn" ->
            /\ journal' = Fragmented(Len(buffered)) /\ dangling' = TRUE
            /\ buffered' = <<>>
            /\ hit' = hit \cup {"fragment"}
      [] fault \in {"unended", "written"} ->
            /\ journal' = Appended(journal, Outgoing) /\ dangling' = (fault = "unended")
            /\ buffered' = <<>>
            /\ UNCHANGED hit

AppendFaults == CommitFaults \cap {"buffered", "torn", "unended", "written"}

\* Mutant: a failed commit puts the rows back, its record left in the buffer or the journal.
AppendFailsRollsBack(fault) ==
    /\ step = "append" /\ handle
    /\ FaultLeaves(fault)
    /\ mem' = saved
    /\ step' = "idle"
    /\ ops' = <<>>
    /\ UNCHANGED <<saved, rekeyed, snap, handle, records, expected, bounds>>

\* commit() releases the lock without a rollback, so the rows stay as the transaction
\* left them.
AppendFails(fault) ==
    /\ step = "append" /\ handle
    /\ FaultLeaves(fault)
    /\ step' = "idle"
    /\ ops' = <<>>
    /\ UNCHANGED <<mem, saved, rekeyed, snap, handle, records, expected, bounds>>

\* A handle that a failed compaction closed: write() raises a ValueError.
AppendRefused ==
    /\ step = "append" /\ ~handle
    /\ step' = "idle"
    /\ ops' = <<>>
    /\ UNCHANGED <<mem, saved, rekeyed, disk, handle, buffered, records, hit, expected, bounds>>

\* compact: os.replace of a complete temporary snapshot, then the truncation.
WriteSnapshot ==
    /\ step = "snapshot"
    /\ snap' = mem
    /\ step' = "truncate"
    /\ UNCHANGED <<mem, tx, journal, dangling, handle, buffered, records, hit, expected, bounds>>

\* The snapshot cannot be written: commit() raises though the record is on disk, and
\* the next commit tries the compaction again.
SnapshotFails ==
    /\ step = "snapshot"
    /\ "snapshot" \in CommitFaults
    /\ step' = "idle"
    /\ ops' = <<>>
    /\ UNCHANGED <<mem, saved, rekeyed, disk, handle, buffered, records, hit, expected, bounds>>

TruncateJournal ==
    /\ step = "truncate"
    /\ journal' = <<>>
    /\ records' = 0
    /\ Acknowledge
    /\ UNCHANGED <<mem, saved, rekeyed, snap, dangling, handle, buffered, hit, bounds>>

\* _open_journal(truncate=True) fails: the journal stays as it is behind a closed
\* handle, or only its fsync failed ("truncated").
TruncateFails(fault) ==
    /\ step = "truncate"
    /\ IF fault = "truncated"
       THEN journal' = <<>> /\ UNCHANGED <<handle, hit>>
       ELSE handle' = FALSE /\ hit' = hit \cup {"compaction"} /\ UNCHANGED journal
    /\ step' = "idle"
    /\ ops' = <<>>
    /\ UNCHANGED <<mem, saved, rekeyed, snap, dangling, buffered, records, expected, bounds>>

-----------------------------------------------------------------------------
(* Stop and restart *)

\* The process and what it had in memory are gone.
Gone ==
    /\ step' = "down"
    /\ mem' = EmptyDb /\ saved' = EmptyDb /\ ops' = <<>> /\ rekeyed' = FALSE
    /\ buffered' = <<>> /\ records' = 0 /\ handle' = TRUE

CutOff == \E left \in Cuts : journal' = left.lines /\ dangling' = left.dangling

\* Stopped in the middle of an append, the record is missing, torn or complete.
Crash ==
    /\ step \notin {"down", "repair"}
    /\ crashes < MaxCrashes
    /\ crashes' = crashes + 1
    /\ Gone
    /\ CutOff
    /\ hit' = hit \cup (IF step = "truncate" THEN {"compaction"} ELSE {})
    /\ UNCHANGED <<snap, expected, txs>>

\* Database.__init__ -> Storage.load: snapshot, then the journal on top of it.  A
\* line that does not verify starts the repair, which opens the journal with "w".  When
\* a file cannot be opened the process ends as it began.
Open ==
    /\ step = "down"
    /\ LET good == GoodLines(journal)
           torn == NeedsRepair(journal)
       IN  /\ mem' = Recovered(snap, journal)
           /\ mem' # Broken
           /\ records' = Len(good)
           /\ step' = IF torn THEN "repair" ELSE "idle"
           /\ journal' = IF torn THEN <<>> ELSE journal
           /\ saved' = mem'
           /\ dangling' = IF torn THEN FALSE ELSE dangling
           /\ ops' = IF torn THEN good ELSE <<>>
           /\ expected' = IF mem' \in expected THEN {mem'} ELSE expected
    /\ UNCHANGED <<rekeyed, snap, handle, buffered, hit, bounds>>

\* ... and writes the verified lines back (held in ops meanwhile).
RepairJournal ==
    /\ step = "repair"
    /\ journal' = ops
    /\ ops' = <<>>
    /\ step' = "idle"
    /\ UNCHANGED <<mem, saved, rekeyed, snap, dangling, handle, buffered, records, hit, expected,
                   bounds>>

\* The write fails ("Journal could not be repaired") or is cut off.
RepairFails ==
    /\ step = "repair"
    /\ crashes < MaxCrashes
    /\ crashes' = crashes + 1
    /\ Gone
    /\ \E n \in 0..(Len(ops) - 1) :
          /\ journal' \in {SubSeq(ops, 1, n), Append(SubSeq(ops, 1, n), Torn)}
          /\ dangling' = (Len(journal') # n)
    /\ hit' = hit \cup {"repair"}
    /\ UNCHANGED <<snap, expected, txs>>

Next ==
    \/ Begin
    \/ \E o \in Statements : ExecuteStatement(o)
    \/ \E old \in Keys, new \in NewKeys : UpdateKey(old, new)
    \/ Rollback
    \/ CommitBegins
    \/ AppendRecord
    \/ \E fault \in AppendFaults : AppendFails(fault)
    \/ AppendRefused
    \/ WriteSnapshot \/ SnapshotFails \/ TruncateJournal
    \/ \E fault \in CommitFaults \cap {"truncate", "truncated"} : TruncateFails(fault)
    \/ Crash \/ Open \/ RepairJournal \/ RepairFails

Spec == Init /\ [][Next]_vars

-----------------------------------------------------------------------------
(* Properties *)

Image == Recovered(snap, journal)

\* Between transactions and after a stop, snapshot and journal rebuild exactly the
\* acknowledged state, or the one of the commit that had not returned.
FilesAreExpected == step \in {"idle", "down"} => Image \in expected

\* storage.py: "a committed transaction is either fully present or fully absent".  It is,
\* through any mix of failing commits, stops, repairs and compactions, as long as none of
\* the five situations has been met; no sixth one breaks the promise.
Durable == hit = {} => FilesAreExpected

\* The same promise with nothing excluded but the four situations that are not a
\* compaction: a stop between the new snapshot and the truncation breaks it.
DurableThroughCompaction == hit \subseteq {"compaction"} => FilesAreExpected

\* Between transactions the rows every thread sees are the acknowledged ones, or the
\* ones of a commit that failed: a rollback leaves no trace, through any mix of
\* failed appends, compactions and restarts.
RowsAreExpected == hit = {} /\ step = "idle" => mem \in expected

\* What a stop would leave, in the middle of a compaction or of a repair too.
Stored ==
    CASE step = "truncate" -> snap
      [] step = "repair" -> Replayed(snap, ops)
      [] OTHER -> Image

\* What the next transaction finds.
Current == CASE step = "active" -> saved [] step = "down" -> Stored [] OTHER -> mem

\* What each of the waiting records will make of the journal.
Pending == [n \in 1..Len(Waiting) |-> Replayed(snap, journal \o SubSeq(Waiting, 1, n))]

\* For callers the engine is a TransactionStore: whatever fails or stops, commits become
\* durable whole and in order, a failed one too, which the rows keep showing; one that
\* returned is never lost; and a restart shows exactly what is durable.  The store breaks
\* where the engine meets one of the five situations, and nowhere else.
Store == INSTANCE TransactionStore WITH
    Initial <- EmptyDb,
    running <- step # "down",
    rows <- Current,
    durable <- Stored,
    pending <- Pending,
    possible <- expected,
    broken <- hit # {}
ImplementsStore == Store!Spec
=============================================================================

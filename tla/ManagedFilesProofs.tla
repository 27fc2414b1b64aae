------------------------- MODULE ManagedFilesProofs -------------------------
(***************************************************************************)
(* Proofs about ManagedFiles, for any set of files, any uploads and        *)
(* replacements among them, any number of requests and faults.             *)
(***************************************************************************)
EXTENDS ManagedFiles, TLAPS

-----------------------------------------------------------------------------
(* The inductive invariant *)

Requests == {"idle", "create", "put", "write", "publish", "verify", "finalize", "fail"}

TypeOK ==
    /\ row \in [Files -> Row]
    /\ object \in [Files -> {"none", "whole", "purged"}]
    /\ temp \in [Files -> {"none", "partial", "whole"}]
    /\ request \in [Files -> Requests]
    /\ scan \in [pc : {"idle", "next", "recover", "commit"}, todo : SUBSET Files,
                 file : Files \cup {NoFile}]

\* The bytes of f were complete under its storage key at some time.
Stored(f) == object[f] \in {"whole", "purged"}

\* A row has its job from the step that made it READY; only such a row can be archived
\* or primary, and it stays READY until its relation is archived.
RowWellFormed(r) ==
    /\ r.status \in {"NONE", "PENDING"} => ~r.job
    /\ r.status \in {"READY", "ARCHIVED"} => r.job
    /\ r.status \in {"FAILED", "ARCHIVED"} /\ r.job => r.relationArchived
    /\ ~r.job => ~r.relationArchived /\ ~r.primary

\* A replacement that was begun names another file of the same product and kind, which
\* has been READY; when the replacement has been READY, that file is archived.
ReplacesPublished(f) ==
    Replaces[f] # NoFile =>
        /\ Replaces[f] # f
        /\ ProductOf[Replaces[f]] = ProductOf[f]
        /\ (Replaces[f] \in Images) = (f \in Images)
        /\ row[Replaces[f]].job
        /\ row[f].job => row[Replaces[f]].relationArchived

FileOK(f) ==
    /\ RowWellFormed(row[f])
    /\ row[f].job => Stored(f)
    /\ request[f] # "idle" \/ row[f].status # "NONE" => ReplacesPublished(f)
    /\ request[f] = "create" => row[f].status = "NONE"
    /\ request[f] \notin {"idle", "create"} => row[f].status # "NONE"
    /\ request[f] = "finalize" => Stored(f)

ScanOK ==
    /\ scan.pc \in {"recover", "commit"} => scan.file \in Files
    /\ scan.pc = "commit" => Stored(scan.file)

FilesInvariant == TypeOK /\ (\A f \in Files : FileOK(f)) /\ ScanOK

-----------------------------------------------------------------------------
(* What the transactions do to the rows *)

\* rows differ from row in what the publication of f may change: f is READY with its job,
\* the file it replaces is archived, and otherwise only flags of primary images go.
Publishes(rows, f) ==
    /\ rows \in [Files -> Row]
    /\ rows[f].status = "READY" /\ rows[f].job
    /\ rows[f].relationArchived = row[f].relationArchived
    /\ Replaces[f] # NoFile =>
           /\ rows[Replaces[f]].status = "ARCHIVED"
           /\ rows[Replaces[f]].relationArchived
           /\ ~rows[Replaces[f]].primary
           /\ rows[Replaces[f]].job = row[Replaces[f]].job
    /\ \A g \in Files \ {f, Replaces[f]} :
           /\ rows[g].status = row[g].status
           /\ rows[g].relationArchived = row[g].relationArchived
           /\ rows[g].job = row[g].job
    /\ \A g \in Files \ {f} : rows[g].primary => row[g].primary

\* f becomes the primary image, and the only one.
TakesPrimary(rows, f) ==
    /\ f \in Images
    /\ \A g \in Images : ProductOf[g] = ProductOf[f] /\ rows[g].status # "NONE"
                          /\ ~rows[g].relationArchived => (rows[g].primary = (g = f))
    /\ \A g \in Files : ProductOf[g] # ProductOf[f] => rows[g].primary = row[g].primary

\* No image of the product other than f had the flag and keeps its relation.
NoOtherPrimary(rows, f) ==
    \A g \in Images \ {f} : ProductOf[g] = ProductOf[f] /\ rows[g].status # "NONE"
                            /\ ~rows[g].relationArchived => ~row[g].primary

\* The flags stay, except that of the replaced file.
LeavesPrimary(rows, f) ==
    \A g \in Files \ {Replaces[f]} : rows[g].primary = row[g].primary

\* The update that finalize_ready and recover_local_ready_and_queue share.
LEMMA ReplacedRows ==
    ASSUME TypeOK, NEW f \in Files, ReplacesPublished(f)
    PROVE  LET rows == WithoutReplaced(ReadyAndQueued(f), f)
           IN  Publishes(rows, f) /\ LeavesPrimary(rows, f)
<1> DEFINE ready == ReadyAndQueued(f)
           rows == WithoutReplaced(ready, f)
<1>1. row \in [Files -> Row] /\ Replaces \in [Files -> Files \cup {NoFile}] /\ NoFile \notin Files
  BY FilesAssumption DEF TypeOK
<1>2. /\ ready \in [Files -> Row]
      /\ ready[f].status = "READY" /\ ready[f].job
      /\ ready[f].relationArchived = row[f].relationArchived
      /\ ready[f].primary = row[f].primary
      /\ \A g \in Files \ {f} : ready[g] = row[g]
  BY <1>1 DEF ReadyAndQueued, Row, ManagedFileStatus
<1>3. \A g \in Files \ {Replaces[f]} : rows[g] = ready[g]
  BY DEF WithoutReplaced
<1>4. ASSUME Replaces[f] # NoFile
      PROVE  /\ Replaces[f] \in Files /\ Replaces[f] # f
             /\ rows[Replaces[f]] \in Row
             /\ rows[Replaces[f]].status = "ARCHIVED"
             /\ rows[Replaces[f]].relationArchived
             /\ ~rows[Replaces[f]].primary
             /\ rows[Replaces[f]].job = row[Replaces[f]].job
  <2>1. Replaces[f] \in Files /\ Replaces[f] # f
    BY <1>1, <1>4 DEF ReplacesPublished
  <2>2. rows[Replaces[f]] = [ready[Replaces[f]] EXCEPT !.status = "ARCHIVED",
                                !.relationArchived = TRUE, !.primary = FALSE]
    BY <2>1 DEF WithoutReplaced
  <2>3. ready[Replaces[f]] = row[Replaces[f]] /\ row[Replaces[f]] \in Row
    BY <1>1, <1>2, <2>1
  <2> HIDE DEF ready, rows
  <2> QED
    BY <2>1, <2>2, <2>3 DEF Row, ManagedFileStatus
<1>5. rows \in [Files -> Row]
  <2>1. DOMAIN rows = Files /\ rows = [g \in Files |-> rows[g]]
    BY DEF WithoutReplaced
  <2>2. \A g \in Files : rows[g] \in Row
    BY <1>1, <1>2, <1>3, <1>4
  <2> HIDE DEF rows
  <2> QED
    BY <2>1, <2>2
<1>6. rows[f] = ready[f]
  BY <1>1, <1>3, <1>4
<1> HIDE DEF ready, rows
<1>7. Publishes(rows, f)
  BY <1>1, <1>2, <1>3, <1>4, <1>5, <1>6 DEF Publishes
<1>8. LeavesPrimary(rows, f)
  BY <1>1, <1>2, <1>3, <1>6 DEF LeavesPrimary
<1> QED
  BY <1>7, <1>8 DEF rows, ready

\* finalize_ready publishes its file, and as the primary image if that was asked for.
LEMMA FinalizedRowsPublish ==
    ASSUME TypeOK, NEW f \in Files, ReplacesPublished(f)
    PROVE  /\ Publishes(FinalizedRows(f), f)
           /\ TakesPrimary(FinalizedRows(f), f) \/ LeavesPrimary(FinalizedRows(f), f)
<1> DEFINE replaced == WithoutReplaced(ReadyAndQueued(f), f)
           rows == OnlyPrimary(replaced, f)
<1>1. Publishes(replaced, f) /\ LeavesPrimary(replaced, f)
  BY ReplacedRows
<1>2. CASE f \notin Chosen
  BY <1>1, <1>2 DEF FinalizedRows
<1>3. CASE f \in Chosen
  <2>1. FinalizedRows(f) = rows
    BY <1>3 DEF FinalizedRows
  <2>2. f \in Images /\ Images \subseteq Files /\ replaced \in [Files -> Row]
    BY <1>1, <1>3, FilesAssumption DEF Publishes
  <2>3. Replaces[f] # f
    BY FilesAssumption DEF ReplacesPublished
  <2> HIDE DEF replaced
  <2>4. DOMAIN rows = Files /\ rows = [g \in Files |-> rows[g]]
    BY DEF OnlyPrimary
  <2>5. ASSUME NEW g \in Files
        PROVE  /\ rows[g] \in Row
               /\ rows[g].status = replaced[g].status
               /\ rows[g].relationArchived = replaced[g].relationArchived
               /\ rows[g].job = replaced[g].job
               /\ g \in Images /\ ProductOf[g] = ProductOf[f] /\ replaced[g].status # "NONE"
                  /\ ~replaced[g].relationArchived => rows[g].primary = (g = f)
               /\ ProductOf[g] # ProductOf[f] => rows[g].primary = replaced[g].primary
               /\ g # f /\ rows[g].primary => replaced[g].primary
    <3>1. rows[g] = IF g \in Images /\ ProductOf[g] = ProductOf[f] /\ replaced[g].status # "NONE"
                       /\ ~replaced[g].relationArchived
                    THEN [replaced[g] EXCEPT !.primary = (g = f)]
                    ELSE replaced[g]
      BY DEF OnlyPrimary
    <3>2. replaced[g] \in Row
      BY <2>2
    <3> HIDE DEF rows
    <3> QED
      BY <3>1, <3>2 DEF Row
  <2> HIDE DEF rows
  <2>6. rows \in [Files -> Row]
    BY <2>4, <2>5
  <2>7. Publishes(rows, f)
    BY <1>1, <2>3, <2>5, <2>6, FilesAssumption DEF Publishes
  <2>8. ASSUME NEW g \in Files, ProductOf[g] # ProductOf[f]
        PROVE  rows[g].primary = row[g].primary
    <3>1. g # f /\ g # Replaces[f]
      BY <2>8, FilesAssumption DEF ReplacesPublished
    <3> QED
      BY <1>1, <2>5, <2>8, <3>1 DEF LeavesPrimary
  <2>9. TakesPrimary(rows, f)
    BY <2>2, <2>5, <2>8 DEF TakesPrimary
  <2> QED
    BY <2>1, <2>7, <2>9
<1> QED
  BY <1>2, <1>3

\* The recovery publishes its file too, as the primary image where there is no other.
LEMMA RecoveredRowsPublish ==
    ASSUME TypeOK, NEW f \in Files, ReplacesPublished(f)
    PROVE  /\ Publishes(RecoveredRows(f), f)
           /\ \/ TakesPrimary(RecoveredRows(f), f) /\ NoOtherPrimary(RecoveredRows(f), f)
              \/ LeavesPrimary(RecoveredRows(f), f)
<1> DEFINE replaced == WithoutReplaced(ReadyAndQueued(f), f)
           others == {g \in Images \ {f} : /\ ProductOf[g] = ProductOf[f]
                                           /\ replaced[g].status # "NONE"
                                           /\ ~replaced[g].relationArchived
                                           /\ replaced[g].primary}
           rows == [replaced EXCEPT ![f].primary = TRUE]
<1>1. Publishes(replaced, f) /\ LeavesPrimary(replaced, f)
  BY ReplacedRows
<1>2. CASE ~(f \in Images /\ others = {})
  BY <1>1, <1>2 DEF RecoveredRows
<1>3. CASE f \in Images /\ others = {}
  <2>1. RecoveredRows(f) = rows
    BY <1>3 DEF RecoveredRows
  <2>2. f \in Images /\ Images \subseteq Files /\ replaced \in [Files -> Row]
    BY <1>1, <1>3, FilesAssumption DEF Publishes
  <2>3. Replaces[f] # f
    BY FilesAssumption DEF ReplacesPublished
  <2>4. \A g \in Images \ {f} : ProductOf[g] = ProductOf[f] /\ replaced[g].status # "NONE"
                                /\ ~replaced[g].relationArchived => ~replaced[g].primary
    BY <1>3
  <2> HIDE DEF replaced, others
  <2>5. /\ rows \in [Files -> Row]
        /\ rows[f].status = replaced[f].status
        /\ rows[f].relationArchived = replaced[f].relationArchived
        /\ rows[f].job = replaced[f].job
        /\ rows[f].primary
        /\ \A g \in Files \ {f} : rows[g] = replaced[g]
    BY <2>2 DEF Row
  <2> HIDE DEF rows
  <2>6. Publishes(rows, f)
    BY <1>1, <2>3, <2>5, FilesAssumption DEF Publishes
  <2>7. ASSUME NEW g \in Files, ProductOf[g] # ProductOf[f]
        PROVE  rows[g].primary = row[g].primary
    <3>1. g # f /\ g # Replaces[f]
      BY <2>7, FilesAssumption DEF ReplacesPublished
    <3> QED
      BY <1>1, <2>5, <3>1 DEF LeavesPrimary
  <2>8. \A g \in Images : ProductOf[g] = ProductOf[f] /\ rows[g].status # "NONE"
                          /\ ~rows[g].relationArchived => (rows[g].primary = (g = f))
    BY <2>2, <2>4, <2>5 DEF Row
  <2>9. TakesPrimary(rows, f)
    BY <2>2, <2>7, <2>8 DEF TakesPrimary
  <2>10. NoOtherPrimary(rows, f)
    <3> SUFFICES ASSUME NEW g \in Images, g # f, ProductOf[g] = ProductOf[f],
                        rows[g].status # "NONE", ~rows[g].relationArchived
                 PROVE  ~row[g].primary
      BY DEF NoOtherPrimary
    <3>1. rows[g] = replaced[g] /\ ~replaced[g].primary /\ g \in Files
      BY <2>2, <2>4, <2>5
    <3>2. g # Replaces[f]
      BY <1>1, <3>1, FilesAssumption DEF Publishes
    <3> QED
      BY <1>1, <3>1, <3>2 DEF LeavesPrimary
  <2> QED
    BY <2>1, <2>6, <2>9, <2>10
<1> QED
  BY <1>2, <1>3

-----------------------------------------------------------------------------
(* The invariant holds *)

\* A step that changes no row and no request, and at most completes objects, keeps FileOK.
LEMMA RowsLeftAlone ==
    ASSUME TypeOK, \A f \in Files : FileOK(f),
           UNCHANGED <<row, request>>,
           \A f \in Files : Stored(f) => Stored(f)'
    PROVE  \A f \in Files : FileOK(f)'
BY DEF FileOK, ReplacesPublished, Stored

\* A step of the request of f that changes no row keeps FileOK if it keeps it of f.
LEMMA RequestMoves ==
    ASSUME TypeOK, \A g \in Files : FileOK(g),
           NEW f \in Files, NEW step \in Requests,
           UNCHANGED row, Goto(f, step),
           \A g \in Files : Stored(g) => Stored(g)',
           step \notin {"idle", "create"} => row[f].status # "NONE",
           step = "create" => row[f].status = "NONE" /\ ReplacesPublished(f),
           step = "finalize" => Stored(f)
    PROVE  request' \in [Files -> Requests] /\ \A g \in Files : FileOK(g)'
<1>1. request' \in [Files -> Requests]
  BY DEF TypeOK, Goto
<1>2. request'[f] = step /\ \A g \in Files \ {f} : request'[g] = request[g]
  BY DEF TypeOK, Goto
<1>3. ASSUME NEW g \in Files, g # f
      PROVE  FileOK(g)'
  BY <1>2, <1>3 DEF FileOK, ReplacesPublished
<1>4. FileOK(f)'
  <2>1. row'[f].job => Stored(f)'
    BY DEF FileOK
  <2>2. request'[f] # "idle" \/ row'[f].status # "NONE" => ReplacesPublished(f)'
    BY <1>2 DEF FileOK, ReplacesPublished
  <2> QED
    BY <1>2, <2>1, <2>2 DEF FileOK
<1> QED
  BY <1>1, <1>3, <1>4

\* The publication of f by its request or by the recovery keeps FileOK.
LEMMA PublicationKeeps ==
    ASSUME TypeOK, \A g \in Files : FileOK(g),
           NEW f \in Files, row[f].status # "NONE", Stored(f),
           Publishes(row', f), UNCHANGED object,
           request' \in [Files -> Requests],
           request'[f] \in {"idle", request[f]},
           \A g \in Files \ {f} : request'[g] = request[g]
    PROVE  \A g \in Files : FileOK(g)'
<1>1. /\ row \in [Files -> Row] /\ row' \in [Files -> Row]
      /\ Replaces \in [Files -> Files \cup {NoFile}] /\ NoFile \notin Files
  BY FilesAssumption DEF TypeOK, Publishes
<1>2. ReplacesPublished(f)
  BY DEF FileOK
<1>3. ASSUME NEW g \in Files
      PROVE  /\ row[g].job => row'[g].job
             /\ row[g].relationArchived => row'[g].relationArchived
             /\ g # f => row'[g].job = row[g].job
             /\ row[g].status = "NONE" => row'[g].status = "NONE"
             /\ row[g].status # "NONE" => row'[g].status # "NONE"
  <2>1. CASE g = f
    BY <2>1 DEF Publishes
  <2>2. CASE g # f /\ g = Replaces[f]
    BY <1>1, <1>2, <2>2 DEF Publishes, ReplacesPublished, FileOK, RowWellFormed
  <2>3. CASE g # f /\ g # Replaces[f]
    BY <2>3 DEF Publishes
  <2> QED
    BY <2>1, <2>2, <2>3
<1>4. ASSUME NEW g \in Files
      PROVE  RowWellFormed(row'[g])
  <2>0. RowWellFormed(row[g])
    BY DEF FileOK
  <2>1. CASE g = f
    BY <2>0, <2>1 DEF Publishes, FileOK, RowWellFormed
  <2>2. CASE g # f /\ g = Replaces[f]
    <3>1. row'[g].status = "ARCHIVED" /\ row'[g].relationArchived /\ ~row'[g].primary /\ row'[g].job
      BY <1>1, <1>2, <2>2 DEF Publishes, ReplacesPublished
    <3> QED
      BY <3>1 DEF RowWellFormed
  <2>3. CASE g # f /\ g # Replaces[f]
    BY <2>0, <2>3 DEF Publishes, RowWellFormed
  <2> QED
    BY <2>1, <2>2, <2>3
<1>5. ASSUME NEW g \in Files, ReplacesPublished(g)
      PROVE  ReplacesPublished(g)'
  <2>1. CASE Replaces[g] = NoFile
    BY <2>1 DEF ReplacesPublished
  <2>2. CASE Replaces[g] # NoFile
    <3>1. Replaces[g] \in Files /\ row[Replaces[g]].job
      BY <1>1, <1>5, <2>2 DEF ReplacesPublished
    <3>2. row'[Replaces[g]].job
      BY <1>3, <3>1
    <3>3. CASE g = f
      BY <1>5, <2>2, <3>2, <3>3 DEF ReplacesPublished, Publishes
    <3>4. CASE g # f
      BY <1>3, <1>5, <2>2, <3>1, <3>2, <3>4 DEF ReplacesPublished
    <3> QED
      BY <3>3, <3>4
  <2> QED
    BY <2>1, <2>2
<1>6. ASSUME NEW g \in Files
      PROVE  FileOK(g)'
  <2>1. row'[g].job => Stored(g)'
    BY <1>3 DEF FileOK, Stored
  <2>2. request'[g] # "idle" \/ row'[g].status # "NONE" => ReplacesPublished(g)'
    BY <1>3, <1>5 DEF FileOK
  <2>3. /\ request'[g] = "create" => row'[g].status = "NONE"
        /\ request'[g] \notin {"idle", "create"} => row'[g].status # "NONE"
        /\ request'[g] = "finalize" => Stored(g)'
    BY <1>3 DEF FileOK, Stored
  <2> QED
    BY <1>4, <2>1, <2>2, <2>3 DEF FileOK
<1> QED
  BY <1>6

\* A step that gives and takes no job and revives no relation keeps FileOK, if rows stay
\* well formed and requests in step with them.
LEMMA JobsKept ==
    ASSUME TypeOK, \A g \in Files : FileOK(g), UNCHANGED object,
           ASSUME NEW g \in Files
           PROVE  /\ RowWellFormed(row'[g])
                  /\ row'[g].job = row[g].job
                  /\ row[g].relationArchived => row'[g].relationArchived
                  /\ request'[g] # "idle" \/ row'[g].status # "NONE" =>
                         request[g] # "idle" \/ row[g].status # "NONE"
                  /\ request'[g] = "create" => row'[g].status = "NONE"
                  /\ request'[g] \notin {"idle", "create"} => row'[g].status # "NONE"
                  /\ request'[g] = "finalize" => Stored(g)
    PROVE  \A g \in Files : FileOK(g)'
<1>1. ASSUME NEW g \in Files, ReplacesPublished(g)
      PROVE  ReplacesPublished(g)'
  <2>1. CASE Replaces[g] = NoFile
    BY <2>1 DEF ReplacesPublished
  <2>2. CASE Replaces[g] # NoFile
    <3>1. Replaces[g] \in Files
      BY <2>2, FilesAssumption
    <3>2. /\ row'[Replaces[g]].job = row[Replaces[g]].job
          /\ row[Replaces[g]].relationArchived => row'[Replaces[g]].relationArchived
          /\ row'[g].job = row[g].job
      BY <3>1
    <3> QED
      BY <1>1, <2>2, <3>1, <3>2 DEF ReplacesPublished
  <2> QED
    BY <2>1, <2>2
<1>2. ASSUME NEW g \in Files
      PROVE  FileOK(g)'
  <2>1. /\ RowWellFormed(row'[g])
        /\ row'[g].job = row[g].job
        /\ request'[g] # "idle" \/ row'[g].status # "NONE" =>
               request[g] # "idle" \/ row[g].status # "NONE"
        /\ request'[g] = "create" => row'[g].status = "NONE"
        /\ request'[g] \notin {"idle", "create"} => row'[g].status # "NONE"
        /\ request'[g] = "finalize" => Stored(g)
    OBVIOUS
  <2>2. request'[g] # "idle" \/ row'[g].status # "NONE" => ReplacesPublished(g)'
    BY <1>1, <2>1 DEF FileOK
  <2> QED
    BY <2>1, <2>2 DEF FileOK, Stored
<1> QED
  BY <1>2

\* The step of a transaction that only marks primary images.
LEMMA MarkedRows ==
    ASSUME TypeOK, NEW f \in Files, f \in Images
    PROVE  /\ OnlyPrimary(row, f) \in [Files -> Row]
           /\ \A g \in Files :
                 /\ OnlyPrimary(row, f)[g].status = row[g].status
                 /\ OnlyPrimary(row, f)[g].relationArchived = row[g].relationArchived
                 /\ OnlyPrimary(row, f)[g].job = row[g].job
                 /\ g # f => (OnlyPrimary(row, f)[g].primary => row[g].primary)
           /\ \A g \in Images : ProductOf[g] = ProductOf[f] /\ Active(g) =>
                 OnlyPrimary(row, f)[g].primary = (g = f)
           /\ \A g \in Files : ProductOf[g] # ProductOf[f] => OnlyPrimary(row, f)[g] = row[g]
<1> DEFINE rows == OnlyPrimary(row, f)
<1>1. row \in [Files -> Row] /\ Images \subseteq Files
  BY FilesAssumption DEF TypeOK
<1>2. rows = [g \in Files |-> rows[g]]
  BY DEF OnlyPrimary
<1>3. ASSUME NEW g \in Files
      PROVE  /\ rows[g] \in Row
             /\ rows[g].status = row[g].status
             /\ rows[g].relationArchived = row[g].relationArchived
             /\ rows[g].job = row[g].job
             /\ g # f => (rows[g].primary => row[g].primary)
             /\ g \in Images /\ ProductOf[g] = ProductOf[f] /\ Active(g) => rows[g].primary = (g = f)
             /\ ProductOf[g] # ProductOf[f] => rows[g] = row[g]
  <2>1. rows[g] = IF g \in Images /\ ProductOf[g] = ProductOf[f] /\ Active(g)
                  THEN [row[g] EXCEPT !.primary = (g = f)]
                  ELSE row[g]
    BY DEF OnlyPrimary, Active
  <2>2. row[g] \in Row
    BY <1>1
  <2> HIDE DEF rows
  <2> QED
    BY <2>1, <2>2 DEF Row
<1> HIDE DEF rows
<1>4. rows \in [Files -> Row]
  BY <1>2, <1>3
<1> QED
  BY <1>1, <1>3, <1>4 DEF rows

\* The steps of an upload keep the invariant.
LEMMA UploadsKeepInvariant ==
    ASSUME FilesInvariant, NEW f \in Files, BeginUpload(f) \/ UploadStep(f)
    PROVE  FilesInvariant'
<1> USE DEF FilesInvariant
<1>0. TypeOK /\ FileOK(f)
  OBVIOUS
<1>1. CASE BeginUpload(f)
  <2>1. ReplacesPublished(f)
    BY <1>0, <1>1, FilesAssumption
    DEF BeginUpload, Replaceable, ReplacesPublished, Active, FileOK, RowWellFormed
  <2>2. request' \in [Files -> Requests] /\ \A g \in Files : FileOK(g)'
    BY <1>1, <2>1, RequestMoves DEF BeginUpload, Requests, Stored
  <2> QED
    BY <1>1, <2>2 DEF BeginUpload, TypeOK, ScanOK, Stored
<1>2. CASE CreatePending(f)
  <2>1. /\ row' \in [Files -> Row] /\ row'[f] = PendingRow
        /\ \A g \in Files \ {f} : row'[g] = row[g]
    BY <1>0, <1>2 DEF CreatePending, TypeOK, PendingRow, Row, ManagedFileStatus
  <2>2. /\ request' \in [Files -> Requests] /\ request'[f] = "put"
        /\ \A g \in Files \ {f} : request'[g] = request[g]
    BY <1>0, <1>2 DEF CreatePending, Goto, TypeOK, Requests
  <2>3. ~row[f].job /\ ~row[f].relationArchived /\ request[f] = "create"
    BY <1>0, <1>2 DEF CreatePending, FileOK, RowWellFormed
  <2>4. RowWellFormed(PendingRow) /\ PendingRow.status = "PENDING" /\ ~PendingRow.job
    BY DEF RowWellFormed, PendingRow
  <2>5. UNCHANGED <<object, temp, scan>>
    BY <1>2 DEF CreatePending
  <2>6. ASSUME NEW g \in Files
        PROVE  /\ RowWellFormed(row'[g])
               /\ row'[g].job = row[g].job
               /\ row[g].relationArchived => row'[g].relationArchived
               /\ request'[g] # "idle" \/ row'[g].status # "NONE" =>
                      request[g] # "idle" \/ row[g].status # "NONE"
               /\ request'[g] = "create" => row'[g].status = "NONE"
               /\ request'[g] \notin {"idle", "create"} => row'[g].status # "NONE"
               /\ request'[g] = "finalize" => Stored(g)
    <3>1. CASE g = f
      <4>1. row[f] \in Row
        BY <1>0 DEF TypeOK
      <4> QED
        BY <2>1, <2>2, <2>3, <2>4, <3>1, <4>1 DEF Row, PendingRow
    <3>2. CASE g # f
      BY <2>1, <2>2, <3>2 DEF FileOK
    <3> QED
      BY <3>1, <3>2
  <2>7. \A g \in Files : FileOK(g)'
    BY <2>5, <2>6, JobsKept
  <2> QED
    BY <2>1, <2>2, <2>5, <2>7 DEF TypeOK, ScanOK, Stored
<1>3. CASE OpenTemporary(f)
  <2>1. temp' \in [Files -> {"none", "partial", "whole"}] /\ UNCHANGED <<row, object, scan>>
    BY <1>0, <1>3 DEF OpenTemporary, TypeOK
  <2>2. request' \in [Files -> Requests] /\ \A g \in Files : FileOK(g)'
    BY <1>0, <1>3, RequestMoves DEF OpenTemporary, Requests, Stored, FileOK
  <2> QED
    BY <2>1, <2>2 DEF TypeOK, ScanOK, Stored
<1>4. CASE WriteTemporary(f)
  <2>1. temp' \in [Files -> {"none", "partial", "whole"}] /\ UNCHANGED <<row, object, scan>>
    BY <1>0, <1>4 DEF WriteTemporary, TypeOK
  <2>2. request' \in [Files -> Requests] /\ \A g \in Files : FileOK(g)'
    BY <1>0, <1>4, RequestMoves DEF WriteTemporary, Requests, Stored, FileOK
  <2> QED
    BY <2>1, <2>2 DEF TypeOK, ScanOK, Stored
<1>5. CASE PublishTemporary(f)
  <2>1. /\ temp' \in [Files -> {"none", "partial", "whole"}] /\ UNCHANGED <<row, scan>>
        /\ object' \in [Files -> {"none", "whole", "purged"}]
        /\ \A g \in Files : Stored(g) => Stored(g)'
    BY <1>0, <1>5 DEF PublishTemporary, TypeOK, Stored
  <2>2. request' \in [Files -> Requests] /\ \A g \in Files : FileOK(g)'
    BY <1>0, <1>5, <2>1, RequestMoves DEF PublishTemporary, Requests, FileOK
  <2> QED
    BY <2>1, <2>2 DEF TypeOK, ScanOK
<1>6. CASE VerifyObject(f)
  <2>1. UNCHANGED <<row, object, temp, scan>>
    BY <1>6 DEF VerifyObject
  <2>2. request' \in [Files -> Requests] /\ \A g \in Files : FileOK(g)'
    BY <1>0, <1>6, <2>1, RequestMoves DEF VerifyObject, Requests, Stored, FileOK
  <2> QED
    BY <2>1, <2>2 DEF TypeOK, ScanOK, Stored
<1>7. CASE FinalizeReady(f)
  <2>1. UNCHANGED <<object, temp, scan>> /\ request[f] = "finalize"
    BY <1>7 DEF FinalizeReady
  <2>2. Stored(f) /\ ReplacesPublished(f)
    BY <1>0, <2>1 DEF FileOK
  <2>3. CASE row[f].status = "PENDING"
    <3>1. row' = FinalizedRows(f) /\ Goto(f, "idle")
      BY <1>7, <2>3 DEF FinalizeReady
    <3>2. Publishes(row', f)
      BY <1>0, <2>2, <3>1, FinalizedRowsPublish
    <3>3. request' \in [Files -> Requests] /\ request'[f] = "idle"
          /\ \A g \in Files \ {f} : request'[g] = request[g]
      BY <1>0, <3>1 DEF Goto, TypeOK, Requests
    <3>4. \A g \in Files : FileOK(g)'
      BY <2>1, <2>2, <2>3, <3>2, <3>3, PublicationKeeps
    <3> QED
      BY <2>1, <3>2, <3>3, <3>4 DEF TypeOK, ScanOK, Stored, Publishes
  <2>4. CASE row[f].status # "PENDING"
    <3>1. UNCHANGED row /\ Goto(f, "fail")
      BY <1>7, <2>4 DEF FinalizeReady
    <3>2. request' \in [Files -> Requests] /\ \A g \in Files : FileOK(g)'
      BY <1>0, <2>1, <3>1, RequestMoves DEF Requests, Stored, FileOK
    <3> QED
      BY <2>1, <3>1, <3>2 DEF TypeOK, ScanOK, Stored
  <2> QED
    BY <2>3, <2>4
<1>8. CASE MarkFailed(f)
  <2>1. /\ row' \in [Files -> Row]
        /\ \A g \in Files \ {f} : row'[g] = row[g]
        /\ row'[f].job = row[f].job /\ row'[f].relationArchived = row[f].relationArchived
        /\ row'[f].primary = row[f].primary
        /\ row'[f].status = IF row[f].status = "READY" THEN "READY" ELSE "FAILED"
    BY <1>0, <1>8 DEF MarkFailed, TypeOK, Row, ManagedFileStatus
  <2>2. /\ request' \in [Files -> Requests] /\ request'[f] = "idle" /\ request[f] = "fail"
        /\ \A g \in Files \ {f} : request'[g] = request[g]
    BY <1>0, <1>8 DEF MarkFailed, Goto, TypeOK, Requests
  <2>3. UNCHANGED <<object, temp, scan>>
    BY <1>8 DEF MarkFailed
  <2>4. RowWellFormed(row'[f])
    <3>1. row[f] \in Row /\ RowWellFormed(row[f])
      BY <1>0 DEF TypeOK, FileOK
    <3> QED
      BY <2>1, <3>1 DEF RowWellFormed, Row, ManagedFileStatus
  <2>5. ASSUME NEW g \in Files
        PROVE  /\ RowWellFormed(row'[g])
               /\ row'[g].job = row[g].job
               /\ row[g].relationArchived => row'[g].relationArchived
               /\ request'[g] # "idle" \/ row'[g].status # "NONE" =>
                      request[g] # "idle" \/ row[g].status # "NONE"
               /\ request'[g] = "create" => row'[g].status = "NONE"
               /\ request'[g] \notin {"idle", "create"} => row'[g].status # "NONE"
               /\ request'[g] = "finalize" => Stored(g)
    <3>1. CASE g = f
      BY <2>1, <2>2, <2>4, <3>1
    <3>2. CASE g # f
      BY <2>1, <2>2, <3>2 DEF FileOK
    <3> QED
      BY <3>1, <3>2
  <2>6. \A g \in Files : FileOK(g)'
    BY <2>3, <2>5, JobsKept
  <2> QED
    BY <2>1, <2>2, <2>3, <2>6 DEF TypeOK, ScanOK, Stored
<1> QED
  BY <1>1, <1>2, <1>3, <1>4, <1>5, <1>6, <1>7, <1>8 DEF UploadStep

\* The requests of one transaction, and the queue that takes a file over, keep the invariant.
LEMMA TransactionsKeepInvariant ==
    ASSUME FilesInvariant, NEW f \in Files,
           Archive(f) \/ SetPrimaryImage(f) \/ ArchiveAndPurge(f)
    PROVE  FilesInvariant'
<1> USE DEF FilesInvariant
<1>0. TypeOK /\ FileOK(f)
  OBVIOUS
<1>1. CASE Archive(f)
  <2>1. /\ row' \in [Files -> Row]
        /\ \A g \in Files \ {f} : row'[g] = row[g]
        /\ row'[f].job = row[f].job /\ row'[f].relationArchived
        /\ ~row'[f].primary /\ row'[f].status = "ARCHIVED"
    BY <1>0, <1>1, ZenonT(60) DEF Archive, TypeOK, Row, ManagedFileStatus
  <2>2. row[f].status = "READY" /\ row[f].job
    BY <1>0, <1>1 DEF Archive, FileOK, RowWellFormed
  <2>3. UNCHANGED <<object, temp, request, scan>>
    BY <1>1 DEF Archive
  <2>4. RowWellFormed(row'[f])
    BY <2>1, <2>2 DEF RowWellFormed
  <2>5. ASSUME NEW g \in Files
        PROVE  /\ RowWellFormed(row'[g])
               /\ row'[g].job = row[g].job
               /\ row[g].relationArchived => row'[g].relationArchived
               /\ request'[g] # "idle" \/ row'[g].status # "NONE" =>
                      request[g] # "idle" \/ row[g].status # "NONE"
               /\ request'[g] = "create" => row'[g].status = "NONE"
               /\ request'[g] \notin {"idle", "create"} => row'[g].status # "NONE"
               /\ request'[g] = "finalize" => Stored(g)
    <3>1. CASE g = f
      BY <2>1, <2>2, <2>3, <2>4, <3>1 DEF FileOK
    <3>2. CASE g # f
      BY <2>1, <2>3, <3>2 DEF FileOK
    <3> QED
      BY <3>1, <3>2
  <2>6. \A g \in Files : FileOK(g)'
    BY <2>3, <2>5, JobsKept
  <2> QED
    BY <2>1, <2>3, <2>6 DEF TypeOK, ScanOK, Stored
<1>2. CASE SetPrimaryImage(f)
  <2>1. f \in Images /\ row' = OnlyPrimary(row, f) /\ row[f].status = "READY"
        /\ UNCHANGED <<object, temp, request, scan>>
    BY <1>2 DEF SetPrimaryImage
  <2>2. /\ row' \in [Files -> Row]
        /\ \A g \in Files : /\ row'[g].status = row[g].status
                            /\ row'[g].relationArchived = row[g].relationArchived
                            /\ row'[g].job = row[g].job
                            /\ g # f => (row'[g].primary => row[g].primary)
    BY <1>0, <2>1, MarkedRows
  <2>3. ASSUME NEW g \in Files
        PROVE  /\ RowWellFormed(row'[g])
               /\ row'[g].job = row[g].job
               /\ row[g].relationArchived => row'[g].relationArchived
               /\ request'[g] # "idle" \/ row'[g].status # "NONE" =>
                      request[g] # "idle" \/ row[g].status # "NONE"
               /\ request'[g] = "create" => row'[g].status = "NONE"
               /\ request'[g] \notin {"idle", "create"} => row'[g].status # "NONE"
               /\ request'[g] = "finalize" => Stored(g)
    <3>1. RowWellFormed(row[g])
      BY DEF FileOK
    <3>2. RowWellFormed(row'[g])
      BY <2>1, <2>2, <3>1 DEF RowWellFormed
    <3> QED
      BY <2>1, <2>2, <3>2 DEF FileOK
  <2>4. \A g \in Files : FileOK(g)'
    BY <2>1, <2>3, JobsKept
  <2> QED
    BY <2>1, <2>2, <2>4 DEF TypeOK, ScanOK, Stored
<1>3. CASE ArchiveAndPurge(f)
  <2>1. /\ UNCHANGED <<row, temp, request, scan>>
        /\ object' \in [Files -> {"none", "whole", "purged"}]
        /\ \A g \in Files : Stored(g) => Stored(g)'
    BY <1>0, <1>3 DEF ArchiveAndPurge, TypeOK, Stored
  <2>2. \A g \in Files : FileOK(g)'
    BY <2>1, RowsLeftAlone
  <2> QED
    BY <2>1, <2>2 DEF TypeOK, ScanOK
<1> QED
  BY <1>1, <1>2, <1>3

\* The steps of reconcile keep the invariant.
LEMMA ScanKeepsInvariant ==
    ASSUME FilesInvariant, ScanStep
    PROVE  FilesInvariant'
<1> USE DEF FilesInvariant
<1>0. TypeOK /\ ScanOK
  OBVIOUS
<1>1. CASE StartScan \/ (\E f \in Files : ScanFile(f)) \/ ScanDone
  <2>1. UNCHANGED <<row, object, temp, request>>
    BY <1>1 DEF StartScan, ScanFile, ScanDone
  <2>2. \A g \in Files : FileOK(g)'
    BY <2>1, RowsLeftAlone DEF Stored
  <2>3. /\ scan' \in [pc : {"idle", "next", "recover", "commit"}, todo : SUBSET Files,
                      file : Files \cup {NoFile}]
        /\ scan'.pc \in {"recover", "commit"} => scan'.file \in Files
        /\ scan'.pc = "commit" => Stored(scan'.file)
    <3>1. CASE StartScan \/ ScanDone
      BY <1>0, <3>1 DEF StartScan, ScanDone, ScanRaises, RecoveryCandidates
    <3>2. CASE \E f \in Files : ScanFile(f)
      <4>1. PICK f \in Files : ScanFile(f)
        BY <3>2
      <4>2. CASE scan' = [scan EXCEPT !.pc = "commit", !.file = f] /\ object[f] = "whole"
        BY <1>0, <4>2 DEF TypeOK, Stored
      <4>3. CASE scan' = [scan EXCEPT !.pc = "recover", !.file = f]
        BY <1>0, <4>3 DEF TypeOK
      <4>4. CASE ScanRaises \/ Scanned(f)
        BY <1>0, <4>4 DEF ScanRaises, Scanned, TypeOK
      <4> QED
        BY <4>1, <4>2, <4>3, <4>4 DEF ScanFile
    <3> QED
      BY <1>1, <3>1, <3>2
  <2> QED
    BY <2>1, <2>2, <2>3 DEF TypeOK, ScanOK, Stored
<1>2. CASE RecoverUploadTemp
  <2>1. UNCHANGED <<row, request>> /\ scan.pc = "recover" /\ scan.file \in Files
    BY <1>0, <1>2 DEF RecoverUploadTemp, ScanOK
  <2>2. /\ object' \in [Files -> {"none", "whole", "purged"}]
        /\ temp' \in [Files -> {"none", "partial", "whole"}]
        /\ \A g \in Files : Stored(g) => Stored(g)'
    BY <1>0, <1>2, <2>1 DEF RecoverUploadTemp, TypeOK, Stored
  <2>3. /\ scan' \in [pc : {"idle", "next", "recover", "commit"}, todo : SUBSET Files,
                      file : Files \cup {NoFile}]
        /\ ScanOK'
    BY <1>0, <1>2, <2>1, <2>2 DEF RecoverUploadTemp, TypeOK, ScanOK, ScanRaises, Stored
  <2>4. \A g \in Files : FileOK(g)'
    BY <2>1, <2>2, RowsLeftAlone
  <2> QED
    BY <2>1, <2>2, <2>3, <2>4 DEF TypeOK
<1>3. CASE RecoverReady
  <2> DEFINE f == scan.file
  <2>1. UNCHANGED <<object, temp, request>> /\ f \in Files /\ Stored(f)
    BY <1>0, <1>3 DEF RecoverReady, ScanOK
  <2>2. scan' \in [pc : {"idle", "next", "recover", "commit"}, todo : SUBSET Files,
                   file : Files \cup {NoFile}] /\ ScanOK'
    BY <1>0, <1>3 DEF RecoverReady, Scanned, ScanRaises, TypeOK, ScanOK
  <2>3. CASE row[f].status \in {"PENDING", "FAILED", "READY"}
    <3>1. row' = RecoveredRows(f)
      BY <1>3, <2>3 DEF RecoverReady
    <3>2. ReplacesPublished(f)
      BY <2>1, <2>3 DEF FileOK
    <3> HIDE DEF f
    <3>3. Publishes(row', f)
      BY <1>0, <2>1, <3>1, <3>2, RecoveredRowsPublish
    <3>4. \A g \in Files : FileOK(g)'
      BY <2>1, <2>3, <3>3, PublicationKeeps DEF TypeOK
    <3> QED
      BY <2>1, <2>2, <3>3, <3>4 DEF TypeOK, Publishes
  <2>4. CASE row[f].status \notin {"PENDING", "FAILED", "READY"}
    <3>1. UNCHANGED row
      BY <1>3, <2>4 DEF RecoverReady
    <3>2. \A g \in Files : FileOK(g)'
      BY <2>1, <3>1, RowsLeftAlone DEF Stored
    <3> QED
      BY <2>1, <2>2, <3>1, <3>2 DEF TypeOK
  <2> QED
    BY <2>3, <2>4
<1> QED
  BY <1>1, <1>2, <1>3 DEF ScanStep

\* Every step keeps the invariant.
LEMMA FilesInvariantInductive ==
    ASSUME FilesInvariant, [Next]_vars
    PROVE  FilesInvariant'
<1>1. CASE UNCHANGED vars
  BY <1>1 DEF vars, FilesInvariant, TypeOK, FileOK, ReplacesPublished, Stored, ScanOK
<1>2. CASE \E f \in Files : BeginUpload(f) \/ UploadStep(f)
  BY <1>2, UploadsKeepInvariant
<1>3. CASE \E f \in Files : Archive(f) \/ SetPrimaryImage(f) \/ ArchiveAndPurge(f)
  BY <1>3, TransactionsKeepInvariant
<1>4. CASE ScanStep
  BY <1>4, ScanKeepsInvariant
<1>5. CASE Crash
  <2>1. /\ UNCHANGED <<row, object, temp>> /\ ScanRaises
        /\ request' = [f \in Files |-> "idle"]
    BY <1>5 DEF Crash
  <2>2. request' \in [Files -> Requests] /\ \A g \in Files : request'[g] = "idle"
    BY <2>1 DEF Requests
  <2>3. \A g \in Files : FileOK(g)'
    BY <2>1, <2>2 DEF FilesInvariant, FileOK, ReplacesPublished, Stored
  <2>4. scan' \in [pc : {"idle", "next", "recover", "commit"}, todo : SUBSET Files,
                   file : Files \cup {NoFile}] /\ ScanOK'
    BY <2>1 DEF ScanRaises, ScanOK
  <2> QED
    BY <2>1, <2>2, <2>3, <2>4 DEF FilesInvariant, TypeOK
<1>6. CASE RootDown \/ RootUp
  BY <1>6 DEF RootDown, RootUp, FilesInvariant, TypeOK, FileOK, ReplacesPublished, Stored, ScanOK
<1> QED
  BY <1>1, <1>2, <1>3, <1>4, <1>5, <1>6 DEF Next

\* In every reachable state the rows, the objects, the requests and the recovery agree.
THEOREM FilesInvariantHolds == Spec => []FilesInvariant
<1>1. ASSUME Init
      PROVE  FilesInvariant
  <2>1. /\ row = [f \in Files |-> NoRow] /\ NoRow \in Row
        /\ NoRow.status = "NONE" /\ ~NoRow.job /\ ~NoRow.relationArchived /\ ~NoRow.primary
    BY <1>1 DEF Init, NoRow, Row, ManagedFileStatus
  <2>2. TypeOK
    BY <1>1, <2>1 DEF Init, TypeOK, Requests
  <2>3. \A f \in Files : FileOK(f)
    BY <1>1, <2>1 DEF Init, FileOK, RowWellFormed
  <2>4. ScanOK
    BY <1>1 DEF Init, ScanOK
  <2> QED
    BY <2>2, <2>3, <2>4 DEF FilesInvariant
<1>2. FilesInvariant /\ [Next]_vars => FilesInvariant'
  BY FilesInvariantInductive
<1> QED
  BY <1>1, <1>2, PTL DEF Spec

\* A file that list_images and list_attachments return has complete bytes in the ingest
\* tree or in the archive, and the job row that its download depends on.
THEOREM ListedFilesStored == Spec => []ListedFilesAreStored
<1>1. FilesInvariant => ListedFilesAreStored
  BY DEF FilesInvariant, FileOK, RowWellFormed, Stored, ListedFilesAreStored, Listed, Active
<1> QED
  BY <1>1, FilesInvariantHolds, PTL

-----------------------------------------------------------------------------
(* The listing: what leaves it, and the refinement of FileCatalogue *)

Archived == {g \in Files : row[g].relationArchived}

\* The files that are listed, and the primary images among them, in terms of the rows that
\* have a job.
ListingIsByJobs ==
    /\ Listed = {g \in Files : row[g].job /\ ~row[g].relationArchived}
    /\ \A p : PrimaryImages(p) = {g \in Images : /\ ProductOf[g] = p /\ row[g].job
                                                 /\ ~row[g].relationArchived /\ row[g].primary}

\* A row is listed as long as it has its job and its relation.
LEMMA ListingByJobs == FilesInvariant => ListingIsByJobs
<1> SUFFICES ASSUME FilesInvariant
             PROVE  ListingIsByJobs
  OBVIOUS
<1>1. \A g \in Files : row[g] \in Row /\ RowWellFormed(row[g])
  BY DEF FilesInvariant, TypeOK, FileOK
<1>2. \A g \in Files : row[g].status = "READY" /\ Active(g) <=> row[g].job /\ ~row[g].relationArchived
  BY <1>1 DEF RowWellFormed, Active, Row, ManagedFileStatus
<1>3. \A g \in Files : Active(g) /\ row[g].primary <=>
                       row[g].job /\ ~row[g].relationArchived /\ row[g].primary
  BY <1>1 DEF RowWellFormed, Active, Row, ManagedFileStatus
<1> QED
  BY <1>2, <1>3, FilesAssumption DEF Listed, PrimaryImages, ListingIsByJobs

\* The same, before and after a step.
LEMMA ListingByJobsNext ==
    FilesInvariant /\ FilesInvariant' => ListingIsByJobs /\ ListingIsByJobs'
BY ListingByJobs, PTL

\* A step that leaves job, relation and flag of every row leaves the catalogue.
LEMMA ListingLeftAlone ==
    ASSUME FilesInvariant, FilesInvariant',
           \A g \in Files : /\ row'[g].job = row[g].job
                            /\ row'[g].relationArchived = row[g].relationArchived
                            /\ ~row[g].relationArchived => row'[g].primary = row[g].primary
    PROVE  UNCHANGED Catalogue!vars /\ Listed' = Listed
<1>1. ListingIsByJobs /\ ListingIsByJobs'
  BY ListingByJobsNext
<1>2. Listed' = Listed /\ Archived' = Archived
  BY <1>1 DEF Archived, ListingIsByJobs
<1>3. \A p : PrimaryImages(p)' = PrimaryImages(p)
  BY <1>1, FilesAssumption DEF ListingIsByJobs
<1> QED
  BY <1>2, <1>3 DEF Catalogue!vars, Archived

\* A file leaves the listing in the step only if it is replaced by one that enters it.
OnlyReplacedLeave == \A g \in Listed \ Listed' : \E h \in Listed' \ Listed : Replaces[h] = g

\* The publication of f by its request or by the recovery is a publication in the
\* catalogue, the choice of a primary image, or no step: and a file that leaves the listing
\* was replaced by f.
LEMMA PublicationImplements ==
    ASSUME FilesInvariant, FilesInvariant', NEW f \in Files,
           row[f].status # "NONE", Publishes(row', f),
           \/ TakesPrimary(row', f) /\ (row[f].job => NoOtherPrimary(row', f))
           \/ LeavesPrimary(row', f)
    PROVE  [Catalogue!Next]_(Catalogue!vars) /\ OnlyReplacedLeave
<1> DEFINE old == Replaces[f]
           p == ProductOf[f]
<1>1. ListingIsByJobs /\ ListingIsByJobs'
  BY ListingByJobsNext
<1>2. /\ row \in [Files -> Row] /\ row' \in [Files -> Row]
      /\ RowWellFormed(row[f]) /\ RowWellFormed(row'[f]) /\ ReplacesPublished(f)
      /\ old \in Files \cup {NoFile} /\ NoFile \notin Files /\ Images \subseteq Files
  BY FilesAssumption DEF FilesInvariant, TypeOK, FileOK
<1>3. old \in Files => /\ old # f /\ ProductOf[old] = p
                       /\ row[old].job /\ row'[old].job /\ row'[old].relationArchived
  BY <1>2 DEF ReplacesPublished, Publishes
<1>4. \A g \in Files \ {f, old} : /\ row'[g].job = row[g].job
                                  /\ row'[g].relationArchived = row[g].relationArchived
  BY DEF Publishes
<1>5. row'[f].job /\ row'[f].relationArchived = row[f].relationArchived
  BY DEF Publishes
<1>6. CASE ~row[f].job
  <2>1. ~row[f].relationArchived /\ ~row[f].primary
    BY <1>2, <1>6 DEF RowWellFormed
  <2>2. f \notin Listed /\ f \notin Archived
    BY <1>1, <1>6, <2>1 DEF ListingIsByJobs, Archived
  <2>3. old = NoFile \/ old \in Listed \cup Archived
    BY <1>1, <1>2, <1>3 DEF ListingIsByJobs, Archived
  <2>4. Listed' = (Listed \ {old}) \cup {f}
    BY <1>1, <1>2, <1>3, <1>4, <1>5, <2>1 DEF ListingIsByJobs
  <2>5. Archived' = Archived \cup ({old} \ {NoFile})
    BY <1>2, <1>3, <1>4, <1>5, <2>1 DEF Archived
  <2>6. ASSUME NEW q, q # p
        PROVE  PrimaryImages(q)' = PrimaryImages(q)
    <3>1. \A g \in Files : ProductOf[g] = q => g # f /\ g # old
      BY <1>3, <2>6
    <3>2. \A g \in Files : ProductOf[g] = q => row'[g].primary = row[g].primary
      BY <2>6, <3>1 DEF TakesPrimary, LeavesPrimary
    <3> QED
      BY <1>1, <1>2, <1>4, <3>1, <3>2 DEF ListingIsByJobs
  <2>7. \E images \in {PrimaryImages(p) \ {old}} \cup (IF f \in Images THEN {{f}} ELSE {}) :
            PrimaryImages(p)' = images
    <3>1. CASE TakesPrimary(row', f)
      <4>1. \A g \in Files : row'[g].job => row'[g].status # "NONE"
        BY DEF FilesInvariant, FileOK, RowWellFormed
      <4>2. PrimaryImages(p)' = {f}
        BY <1>1, <1>2, <1>5, <2>1, <3>1, <4>1 DEF ListingIsByJobs, TakesPrimary
      <4> QED
        BY <3>1, <4>2 DEF TakesPrimary
    <3>2. CASE LeavesPrimary(row', f)
      <4>1. \A g \in Files \ {old} : row'[g].primary = row[g].primary
        BY <3>2 DEF LeavesPrimary
      <4>2. ~row'[f].primary
        BY <1>2, <1>3, <2>1, <4>1
      <4>3. PrimaryImages(p)' = PrimaryImages(p) \ {old}
        BY <1>1, <1>2, <1>3, <1>4, <1>6, <4>1, <4>2 DEF ListingIsByJobs
      <4> QED
        BY <4>3
    <3> QED
      BY <3>1, <3>2
  <2>8. Catalogue!Publish(f, old)
    <3> DEFINE primaries == [q \in {ProductOf[g] : g \in Files} |-> PrimaryImages(q)]
    <3>1. PICK images \in {PrimaryImages(p) \ {old}} \cup (IF f \in Images THEN {{f}} ELSE {}) :
              PrimaryImages(p)' = images
      BY <2>7
    <3>2. p \in {ProductOf[g] : g \in Files} /\ primaries[p] = PrimaryImages(p)
      OBVIOUS
    <3>3. primaries' = [primaries EXCEPT ![p] = images]
      BY <2>6, <3>1, <3>2
    <3>4. images \in Catalogue!PrimaryAfter(f, old)
      BY <3>1, <3>2 DEF Catalogue!PrimaryAfter
    <3> QED
      BY <2>2, <2>3, <2>4, <2>5, <3>3, <3>4 DEF Catalogue!Publish, Archived
  <2>9. Catalogue!Next
    BY <1>2, <2>8 DEF Catalogue!Next
  <2>10. OnlyReplacedLeave
    BY <2>2, <2>4 DEF OnlyReplacedLeave
  <2> QED
    BY <2>9, <2>10
<1>7. CASE row[f].job
  <2>1. old \in Files => row[old].relationArchived
    BY <1>2, <1>7 DEF ReplacesPublished
  <2>2. \A g \in Files : /\ row'[g].job = row[g].job
                         /\ row'[g].relationArchived = row[g].relationArchived
    BY <1>2, <1>3, <1>4, <1>5, <1>7, <2>1 DEF Row
  <2>3. Listed' = Listed /\ Archived' = Archived
    BY <1>1, <2>2 DEF ListingIsByJobs, Archived
  <2>4. OnlyReplacedLeave
    BY <2>3 DEF OnlyReplacedLeave
  <2>5. CASE LeavesPrimary(row', f)
    <3>1. \A g \in Files : ~row[g].relationArchived => row'[g].primary = row[g].primary
      BY <2>1, <2>5 DEF LeavesPrimary
    <3> QED
      BY <2>2, <2>4, <3>1, ListingLeftAlone
  <2>6. CASE TakesPrimary(row', f) /\ NoOtherPrimary(row', f)
    <3>1. \A g \in Files : row'[g].job => row'[g].status # "NONE"
      BY DEF FilesInvariant, FileOK, RowWellFormed
    <3>2. ASSUME NEW q, q # p
          PROVE  PrimaryImages(q)' = PrimaryImages(q)
      BY <1>1, <1>2, <2>2, <2>6, <3>2 DEF ListingIsByJobs, TakesPrimary
    <3>3. CASE row[f].relationArchived
      <4>1. PrimaryImages(p)' = PrimaryImages(p)
        <5>1. \A g \in Images : ProductOf[g] = p /\ row[g].job /\ ~row[g].relationArchived =>
                                  ~row[g].primary /\ ~row'[g].primary
          BY <1>2, <2>2, <2>6, <3>1, <3>3 DEF TakesPrimary, NoOtherPrimary
        <5>2. PrimaryImages(p) = {}
          BY <1>1, <5>1 DEF ListingIsByJobs
        <5>3. PrimaryImages(p)' = {}
          BY <1>1, <1>2, <2>2, <5>1 DEF ListingIsByJobs
        <5> QED
          BY <5>2, <5>3
      <4>2. \A q : PrimaryImages(q)' = PrimaryImages(q)
        BY <3>2, <4>1
      <4> QED
        BY <2>3, <2>4, <4>2 DEF Catalogue!vars, Archived
    <3>4. CASE ~row[f].relationArchived
      <4>1. f \in Listed \cap Images
        BY <1>1, <1>7, <2>6, <3>4 DEF ListingIsByJobs, TakesPrimary
      <4>2. PrimaryImages(p)' = {f}
        BY <1>1, <1>2, <1>7, <2>2, <2>6, <3>1, <3>4 DEF ListingIsByJobs, TakesPrimary
      <4>3. Catalogue!ChoosePrimary(f)
        BY <2>3, <3>2, <4>1, <4>2 DEF Catalogue!ChoosePrimary, Archived
      <4> QED
        BY <2>4, <4>3 DEF Catalogue!Next
    <3> QED
      BY <3>3, <3>4
  <2> QED
    BY <1>7, <2>5, <2>6
<1> QED
  BY <1>6, <1>7

\* What every step does to the listing.
ListingStep ==
    /\ [Catalogue!Next]_(Catalogue!vars)
    /\ \A g \in Listed \ Listed' : Archive(g) \/ \E h \in Listed' \ Listed : Replaces[h] = g

\* The steps that leave the rows leave the listing.
LEMMA RowsUnchangedListing ==
    ASSUME FilesInvariant, FilesInvariant', UNCHANGED row
    PROVE  ListingStep
<1>1. UNCHANGED Catalogue!vars /\ Listed' = Listed
  BY ListingLeftAlone
<1> QED
  BY <1>1 DEF ListingStep

\* Every step of the detailed specification is one of the catalogue, or none, and takes no
\* file from the listing but by an archive request or together with its replacement.
LEMMA EveryListingStep ==
    ASSUME FilesInvariant, FilesInvariant', [Next]_vars
    PROVE  ListingStep
<1>0. /\ row \in [Files -> Row] /\ row' \in [Files -> Row]
      /\ \A g \in Files : RowWellFormed(row[g]) /\ RowWellFormed(row'[g])
      /\ Images \subseteq Files
  BY FilesAssumption DEF FilesInvariant, TypeOK, FileOK
<1>1. ListingIsByJobs /\ ListingIsByJobs'
  BY ListingByJobsNext
<1>2. ASSUME NEW f \in Files, CreatePending(f)
      PROVE  ListingStep
  <2>1. row' = [row EXCEPT ![f] = PendingRow] /\ row[f].status = "NONE"
    BY <1>2 DEF CreatePending, FilesInvariant, FileOK
  <2>2. ~row[f].job /\ ~row[f].relationArchived /\ ~row[f].primary /\ row[f] \in Row
    BY <1>0, <2>1 DEF RowWellFormed
  <2>3. ~PendingRow.job /\ ~PendingRow.relationArchived /\ ~PendingRow.primary
        /\ PendingRow \in Row
    BY DEF PendingRow, Row, ManagedFileStatus
  <2>4. row'[f] = PendingRow /\ \A g \in Files \ {f} : row'[g] = row[g]
    BY <1>0, <2>1
  <2>5. \A g \in Files : /\ row'[g].job = row[g].job
                         /\ row'[g].relationArchived = row[g].relationArchived
                         /\ row'[g].primary = row[g].primary
    BY <2>2, <2>3, <2>4 DEF Row
  <2> QED
    BY <2>5, ListingLeftAlone DEF ListingStep
<1>3. ASSUME NEW f \in Files, FinalizeReady(f)
      PROVE  ListingStep
  <2>1. CASE row[f].status = "PENDING"
    <3>1. row' = FinalizedRows(f) /\ ReplacesPublished(f) /\ TypeOK
      BY <1>3, <2>1 DEF FinalizeReady, FilesInvariant, FileOK
    <3>2. Publishes(row', f) /\ (TakesPrimary(row', f) \/ LeavesPrimary(row', f))
      BY <3>1, FinalizedRowsPublish
    <3>3. ~row[f].job
      BY <1>0, <2>1 DEF RowWellFormed
    <3>4. [Catalogue!Next]_(Catalogue!vars) /\ OnlyReplacedLeave
      BY <2>1, <3>2, <3>3, PublicationImplements
    <3> QED
      BY <3>4 DEF ListingStep, OnlyReplacedLeave
  <2>2. CASE row[f].status # "PENDING"
    BY <1>3, <2>2, RowsUnchangedListing DEF FinalizeReady
  <2> QED
    BY <2>1, <2>2
<1>4. ASSUME NEW f \in Files, MarkFailed(f)
      PROVE  ListingStep
  <2>1. \A g \in Files : /\ row'[g].job = row[g].job
                         /\ row'[g].relationArchived = row[g].relationArchived
                         /\ row'[g].primary = row[g].primary
    BY <1>0, <1>4 DEF MarkFailed, Row
  <2> QED
    BY <2>1, ListingLeftAlone DEF ListingStep
<1>5. ASSUME NEW f \in Files, Archive(f)
      PROVE  ListingStep
  <2>1. /\ \A g \in Files \ {f} : row'[g] = row[g]
        /\ row'[f].job = row[f].job /\ row'[f].relationArchived
        /\ ~row'[f].primary /\ row[f].job
    BY <1>0, <1>5 DEF Archive, Row, RowWellFormed
  <2>2. CASE row[f].relationArchived
    <3>1. \A g \in Files : /\ row'[g].job = row[g].job
                           /\ row'[g].relationArchived = row[g].relationArchived
                           /\ ~row[g].relationArchived => row'[g].primary = row[g].primary
      BY <1>0, <2>1, <2>2 DEF Row
    <3> QED
      BY <3>1, ListingLeftAlone DEF ListingStep
  <2>3. CASE ~row[f].relationArchived
    <3>1. f \in Listed /\ Listed' = Listed \ {f} /\ Archived' = Archived \cup {f}
      BY <1>1, <2>1, <2>3 DEF ListingIsByJobs, Archived
    <3>2. \A q : PrimaryImages(q)' = PrimaryImages(q) \ {f}
      BY <1>0, <1>1, <2>1 DEF ListingIsByJobs
    <3>3. \A q : q # ProductOf[f] => PrimaryImages(q) = PrimaryImages(q) \ {f}
      BY DEF PrimaryImages
    <3>4. Catalogue!Hide(f)
      BY <3>1, <3>2, <3>3 DEF Catalogue!Hide, Archived
    <3> QED
      BY <1>5, <3>1, <3>4 DEF ListingStep, Catalogue!Next
  <2> QED
    BY <2>2, <2>3
<1>6. ASSUME NEW f \in Files, SetPrimaryImage(f)
      PROVE  ListingStep
  <2>1. f \in Images /\ Active(f) /\ row[f].status = "READY" /\ row' = OnlyPrimary(row, f) /\ TypeOK
    BY <1>6 DEF SetPrimaryImage, FilesInvariant
  <2>2. /\ \A g \in Files : /\ row'[g].status = row[g].status
                            /\ row'[g].relationArchived = row[g].relationArchived
                            /\ row'[g].job = row[g].job
        /\ \A g \in Images : ProductOf[g] = ProductOf[f] /\ Active(g) => row'[g].primary = (g = f)
        /\ \A g \in Files : ProductOf[g] # ProductOf[f] => row'[g] = row[g]
    BY <2>1, MarkedRows
  <2>3. Listed' = Listed /\ Archived' = Archived /\ f \in Listed
    BY <1>1, <2>1, <2>2 DEF ListingIsByJobs, Archived, Listed
  <2>4. \A q : q # ProductOf[f] => PrimaryImages(q)' = PrimaryImages(q)
    BY <1>0, <1>1, <2>2 DEF ListingIsByJobs
  <2>5. PrimaryImages(ProductOf[f])' = {f}
    <3>1. \A g \in Files : row[g].job => row[g].status # "NONE"
      BY <1>0 DEF RowWellFormed
    <3>2. row[f].job /\ ~row[f].relationArchived
      BY <1>1, <2>3 DEF ListingIsByJobs
    <3> QED
      BY <1>0, <1>1, <2>1, <2>2, <3>1, <3>2, ZenonT(60) DEF ListingIsByJobs, Active
  <2>6. Catalogue!ChoosePrimary(f)
    BY <2>1, <2>3, <2>4, <2>5 DEF Catalogue!ChoosePrimary, Archived
  <2> QED
    BY <2>3, <2>6 DEF ListingStep, Catalogue!Next
<1>7. ASSUME RecoverReady
      PROVE  ListingStep
  <2>1. PICK f \in Files : f = scan.file
    BY <1>7 DEF RecoverReady, FilesInvariant, ScanOK
  <2>2. CASE row[f].status \in {"PENDING", "FAILED", "READY"}
    <3>1. row' = RecoveredRows(f) /\ ReplacesPublished(f) /\ TypeOK
      BY <1>7, <2>1, <2>2 DEF RecoverReady, FilesInvariant, FileOK
    <3>2. /\ Publishes(row', f)
          /\ \/ TakesPrimary(row', f) /\ NoOtherPrimary(row', f)
             \/ LeavesPrimary(row', f)
      BY <3>1, RecoveredRowsPublish
    <3>3. [Catalogue!Next]_(Catalogue!vars) /\ OnlyReplacedLeave
      BY <2>2, <3>2, PublicationImplements
    <3> QED
      BY <3>3 DEF ListingStep, OnlyReplacedLeave
  <2>3. CASE row[f].status \notin {"PENDING", "FAILED", "READY"}
    BY <1>7, <2>1, <2>3, RowsUnchangedListing DEF RecoverReady
  <2> QED
    BY <2>2, <2>3
<1>8. CASE UNCHANGED row
  BY <1>8, RowsUnchangedListing
<1>9. ASSUME NEW f \in Files, BeginUpload(f) \/ OpenTemporary(f) \/ WriteTemporary(f)
                              \/ PublishTemporary(f) \/ VerifyObject(f) \/ ArchiveAndPurge(f)
      PROVE  UNCHANGED row
  BY <1>9 DEF BeginUpload, OpenTemporary, WriteTemporary, PublishTemporary, VerifyObject,
              ArchiveAndPurge
<1>10. ASSUME StartScan \/ (\E f \in Files : ScanFile(f)) \/ RecoverUploadTemp \/ ScanDone
              \/ Crash \/ RootDown \/ RootUp \/ UNCHANGED vars
       PROVE  UNCHANGED row
  BY <1>10 DEF StartScan, ScanFile, RecoverUploadTemp, ScanDone, Crash, RootDown, RootUp, vars
<1> QED
  BY <1>2, <1>3, <1>4, <1>5, <1>6, <1>7, <1>8, <1>9, <1>10 DEF Next, UploadStep, ScanStep

\* No replacement, however it fails or is finished after a stop, takes the old version
\* from the listing before the new one is in it.
THEOREM SuccessorComesFirst == Spec => SuccessorBeforeRemoval
<1>1. FilesInvariant /\ FilesInvariant' /\ [Next]_vars =>
        [\A f \in Listed \ Listed' : Archive(f) \/ \E g \in Listed' \ Listed : Replaces[g] = f]_vars
  BY EveryListingStep DEF ListingStep
<1> QED
  BY <1>1, FilesInvariantHolds, PTL DEF Spec, SuccessorBeforeRemoval

\* The uploads, replacements and recoveries, with their failures and interleavings,
\* implement the catalogue.
THEOREM CatalogueImplemented == Spec => ImplementsCatalogue
<1>1. Init => Catalogue!Init
  <2> SUFFICES ASSUME Init
               PROVE  Catalogue!Init
    OBVIOUS
  <2>1. \A f \in Files : row[f].status = "NONE" /\ ~row[f].relationArchived /\ ~row[f].primary
    BY DEF Init, NoRow
  <2> QED
    BY <2>1, FilesAssumption
    DEF Catalogue!Init, Catalogue!Products, Listed, PrimaryImages, Active
<1>2. FilesInvariant /\ FilesInvariant' /\ [Next]_vars => [Catalogue!Next]_(Catalogue!vars)
  BY EveryListingStep DEF ListingStep
<1> QED
  BY <1>1, <1>2, FilesInvariantHolds, PTL DEF Spec, ImplementsCatalogue, Catalogue!Spec
=============================================================================

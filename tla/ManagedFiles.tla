---------------------------- MODULE ManagedFiles ----------------------------
(***************************************************************************)
(* Uploads, replacement, archiving and the primary image of managed files: *)
(* the request threads of the file endpoints, the local ingest tree, the   *)
(* rows of managed_files, product_file_relations and the job row, and the  *)
(* part of reconcile that finishes interrupted uploads.                    *)
(*                                                                         *)
(* A transaction is one step and so is a filesystem operation; a thread    *)
(* may be preempted, or the process may stop, between any two.  A file id  *)
(* is a fresh uuid, so the arguments of its upload may be fixed in advance *)
(* per id, and no two uploads share a storage key.  The transfer queue     *)
(* that takes over a READY file is StoreForward; here it is the one step   *)
(* ArchiveAndPurge.                                                        *)
(***************************************************************************)
EXTENDS Naturals, FiniteSets

CONSTANTS
    Files,          \* file ids that uploads draw from
    ProductOf,      \* [Files -> products]
    Images,         \* the files whose relation has kind IMAGE; the others are attachments
    Chosen,         \* the images uploaded with make_primary
    Replaces,       \* [Files -> the file that the upload replaces, or NoFile]
    NoFile,         \* replaced_file_id IS NULL; no file
    MaxRequests,    \* bound on uploads at a time
    MaxFaults       \* bound on stops of the process and outages of the storage root

ASSUME FilesAssumption ==
    /\ Images \subseteq Files
    /\ NoFile \notin Files
    /\ MaxFaults \in Nat
    /\ MaxRequests \in Nat
    /\ DOMAIN ProductOf = Files
    /\ Chosen \subseteq Images
    /\ Replaces \in [Files -> Files \cup {NoFile}]

VARIABLES
    row,        \* metadata, relation and job of each file
    object,     \* the object at the file's storage key in the local ingest tree
    temp,       \* its .uploading temporary
    request,    \* what the request that uploads each file does next
    scan,       \* what reconcile does
    rootUp,     \* the local ingest root answers
    faults      \* faults still allowed

vars == <<row, object, temp, request, scan, rootUp, faults>>

-----------------------------------------------------------------------------
(* Rows *)

ManagedFileStatus == {"NONE", "PENDING", "READY", "FAILED", "ARCHIVED"}

Row == [status : ManagedFileStatus, primary : BOOLEAN, relationArchived : BOOLEAN,
        job : BOOLEAN]

NoRow == [status |-> "NONE", primary |-> FALSE, relationArchived |-> FALSE, job |-> FALSE]

\* archived_at IS NULL on the relation
Active(f) == row[f].status # "NONE" /\ ~row[f].relationArchived

\* The files that list_images and list_attachments return.
Listed == {f \in Files : Active(f) /\ row[f].status = "READY"}

\* The relations that count as primary image of a product.
PrimaryImages(p) == {f \in Images : ProductOf[f] = p /\ Active(f) /\ row[f].primary}

\* UPDATE managed_files ... ARCHIVED; UPDATE product_file_relations SET archived_at,
\* is_primary: the file that a READY file replaces, whatever its status is by now.
WithoutReplaced(rows, f) ==
    [g \in Files |->
        IF g = Replaces[f]
        THEN [rows[g] EXCEPT !.status = "ARCHIVED", !.relationArchived = TRUE, !.primary = FALSE]
        ELSE rows[g]]

\* Mutant: the choice of a primary image leaves the flag of the others set.
AlsoPrimary(rows, f) == [rows EXCEPT ![f].primary = TRUE]

\* is_primary of every active image of the product, TRUE for f alone.
OnlyPrimary(rows, f) ==
    [g \in Files |->
        IF /\ g \in Images /\ ProductOf[g] = ProductOf[f]
           /\ rows[g].status # "NONE" /\ ~rows[g].relationArchived
        THEN [rows[g] EXCEPT !.primary = (g = f)]
        ELSE rows[g]]

ReadyAndQueued(f) == [row EXCEPT ![f].status = "READY", ![f].job = TRUE]

\* finalize_ready in one transaction.
FinalizedRows(f) ==
    LET replaced == WithoutReplaced(ReadyAndQueued(f), f)
    IN  IF f \in Chosen THEN OnlyPrimary(replaced, f) ELSE replaced

\* recover_local_ready_and_queue in one transaction: a recovered image stands in
\* where the product has no other primary image.
RecoveredRows(f) ==
    LET replaced == WithoutReplaced(ReadyAndQueued(f), f)
        others == {g \in Images \ {f} : /\ ProductOf[g] = ProductOf[f]
                                        /\ replaced[g].status # "NONE"
                                        /\ ~replaced[g].relationArchived
                                        /\ replaced[g].primary}
    IN  IF f \in Images /\ others = {} THEN [replaced EXCEPT ![f].primary = TRUE] ELSE replaced

-----------------------------------------------------------------------------
(* An upload request: _publish and FilesystemStorage.put *)

Init ==
    /\ row = [f \in Files |-> NoRow]
    /\ object = [f \in Files |-> "none"]
    /\ temp = [f \in Files |-> "none"]
    /\ request = [f \in Files |-> "idle"]
    /\ scan = [pc |-> "idle", todo |-> {}, file |-> NoFile]
    /\ rootUp = TRUE
    /\ faults = MaxFaults

Goto(f, step) == request' = [request EXCEPT ![f] = step]

\* preflight_upload: the ingest root is there and has room.
IngestWritable == rootUp

\* The file to replace is READY, of the same product and kind.
Replaceable(f) ==
    LET old == Replaces[f]
    IN  old # NoFile => /\ ProductOf[old] = ProductOf[f]
                        /\ (old \in Images) = (f \in Images)
                        /\ row[old].status = "READY"
                        /\ Active(old)

\* Checks before anything is written; a refused request changes nothing.
BeginUpload(f) ==
    /\ Cardinality({g \in Files : request[g] # "idle"}) < MaxRequests
    /\ request[f] = "idle"
    /\ row[f].status = "NONE"
    /\ IngestWritable
    /\ Replaceable(f)
    /\ Goto(f, "create")
    /\ UNCHANGED <<row, object, temp, scan, rootUp, faults>>

\* The records of a new upload: a new identifier and storage key, not primary
PendingRow == [status |-> "PENDING", primary |-> FALSE, relationArchived |-> FALSE, job |-> FALSE]

\* Mutant: the replaced file is archived with the first insert, before its successor
\* has any bytes.
CreatePendingArchivesOld(f) ==
    /\ request[f] = "create"
    /\ row' = WithoutReplaced([row EXCEPT ![f] = PendingRow], f)
    /\ Goto(f, "put")
    /\ UNCHANGED <<object, temp, scan, rootUp, faults>>

CreatePending(f) ==
    /\ request[f] = "create"
    /\ row' = [row EXCEPT ![f] = PendingRow]
    /\ Goto(f, "put")
    /\ UNCHANGED <<object, temp, scan, rootUp, faults>>

\* temporary.open("xb"); the finally clause removes it again when a later step fails.
OpenTemporary(f) ==
    /\ request[f] = "put"
    /\ IF rootUp
       THEN temp' = [temp EXCEPT ![f] = "partial"] /\ Goto(f, "write")
       ELSE UNCHANGED temp /\ Goto(f, "fail")
    /\ UNCHANGED <<row, object, scan, rootUp, faults>>

\* stream.write, flush, fsync
WriteTemporary(f) ==
    /\ request[f] = "write"
    /\ \/ rootUp /\ temp' = [temp EXCEPT ![f] = "whole"] /\ Goto(f, "publish")
       \/ temp' = [temp EXCEPT ![f] = IF rootUp THEN "none" ELSE @] /\ Goto(f, "fail")
    /\ UNCHANGED <<row, object, scan, rootUp, faults>>

\* Size and checksum of the temporary, then os.replace: it is gone when reconcile has
\* taken it in the meantime.
PublishTemporary(f) ==
    /\ request[f] = "publish"
    /\ IF rootUp /\ temp[f] = "whole"
       THEN /\ object' = [object EXCEPT ![f] = "whole"]
            /\ temp' = [temp EXCEPT ![f] = "none"]
            /\ Goto(f, "verify")
       ELSE UNCHANGED <<object, temp>> /\ Goto(f, "fail")
    /\ UNCHANGED <<row, scan, rootUp, faults>>

VerifyObject(f) ==
    /\ request[f] = "verify"
    /\ Goto(f, IF rootUp /\ object[f] = "whole" THEN "finalize" ELSE "fail")
    /\ UNCHANGED <<row, object, temp, scan, rootUp, faults>>

FinalizeReady(f) ==
    /\ request[f] = "finalize"
    /\ IF row[f].status = "PENDING"
       THEN row' = FinalizedRows(f) /\ Goto(f, "idle")
       ELSE UNCHANGED row /\ Goto(f, "fail")
    /\ UNCHANGED <<object, temp, scan, rootUp, faults>>

\* mark_failed refuses a READY row, and nothing else; the request raises in any case.
MarkFailed(f) ==
    /\ request[f] = "fail"
    /\ row' = IF row[f].status = "READY" THEN row ELSE [row EXCEPT ![f].status = "FAILED"]
    /\ Goto(f, "idle")
    /\ UNCHANGED <<object, temp, scan, rootUp, faults>>

-----------------------------------------------------------------------------
(* One-transaction requests *)

Archive(f) ==
    /\ row[f].status = "READY"
    /\ row' = [row EXCEPT ![f].status = "ARCHIVED", ![f].relationArchived = TRUE,
                          ![f].primary = FALSE]
    /\ UNCHANGED <<object, temp, request, scan, rootUp, faults>>

SetPrimaryImage(f) ==
    /\ f \in Images
    /\ Active(f)
    /\ row[f].status = "READY"
    /\ row' = OnlyPrimary(row, f)
    /\ UNCHANGED <<object, temp, request, scan, rootUp, faults>>

-----------------------------------------------------------------------------
(* reconcile: the recovery of interrupted uploads *)

Scanned(f) == scan' = [pc |-> "next", todo |-> scan.todo \ {f}, file |-> NoFile]
ScanRaises == scan' = [pc |-> "idle", todo |-> {}, file |-> NoFile]

\* Mutant: only rows that failed are candidates, not those a stop left PENDING.
FailedCandidates == {f \in Files : row[f].status = "FAILED"}

RecoveryCandidates == {f \in Files : row[f].status \in {"PENDING", "FAILED"}}

StartScan ==
    /\ scan.pc = "idle"
    /\ RecoveryCandidates # {}
    /\ scan' = [pc |-> "next", todo |-> RecoveryCandidates, file |-> NoFile]
    /\ UNCHANGED <<row, object, temp, request, rootUp, faults>>

\* Mutant: the scan takes a temporary for complete without comparing its checksum.
ScanFileTrustsTemp(f) ==
    /\ scan.pc = "next"
    /\ f \in scan.todo
    /\ IF ~rootUp THEN ScanRaises
       ELSE IF object[f] = "whole" \/ temp[f] = "partial" THEN scan' = [scan EXCEPT !.pc = "commit", !.file = f]
       ELSE IF temp[f] = "whole" THEN scan' = [scan EXCEPT !.pc = "recover", !.file = f]
       ELSE Scanned(f)
    /\ UNCHANGED <<row, object, temp, request, rootUp, faults>>

\* verify, and the choice of a complete temporary in recover_upload_temp
ScanFile(f) ==
    /\ scan.pc = "next"
    /\ f \in scan.todo
    /\ IF ~rootUp THEN ScanRaises
       ELSE IF object[f] = "whole" THEN scan' = [scan EXCEPT !.pc = "commit", !.file = f]
       ELSE IF temp[f] = "whole" THEN scan' = [scan EXCEPT !.pc = "recover", !.file = f]
       ELSE Scanned(f)
    /\ UNCHANGED <<row, object, temp, request, rootUp, faults>>

\* target.exists(), else os.replace, else the temporary has vanished and it raises.  It
\* raises too, where an open file cannot be renamed, while the request still writes it.
RecoverUploadTemp ==
    LET f == scan.file
    IN  /\ scan.pc = "recover"
        /\ \/ /\ object[f] = "whole"
              /\ scan' = [scan EXCEPT !.pc = "commit"]
              /\ UNCHANGED <<object, temp>>
           \/ /\ rootUp /\ object[f] # "whole" /\ temp[f] = "whole"
              /\ object' = [object EXCEPT ![f] = "whole"]
              /\ temp' = [temp EXCEPT ![f] = "none"]
              /\ scan' = [scan EXCEPT !.pc = "commit"]
           \/ /\ object[f] # "whole"
              /\ ~rootUp \/ temp[f] # "whole" \/ request[f] # "idle"
              /\ ScanRaises
              /\ UNCHANGED <<object, temp>>
        /\ UNCHANGED <<row, request, rootUp, faults>>

RecoverReady ==
    LET f == scan.file
    IN  /\ scan.pc = "commit"
        /\ IF row[f].status \in {"PENDING", "FAILED", "READY"}
           THEN row' = RecoveredRows(f) /\ Scanned(f)
           ELSE UNCHANGED row /\ ScanRaises
        /\ UNCHANGED <<object, temp, request, rootUp, faults>>

\* The rest of reconcile concerns READY files without a job and the queue: StoreForward.
ScanDone ==
    /\ scan.pc = "next"
    /\ scan.todo = {}
    /\ ScanRaises
    /\ UNCHANGED <<row, object, temp, request, rootUp, faults>>

\* transfer_one and purge_ready_local_copies, as far as this module can tell.
ArchiveAndPurge(f) ==
    /\ row[f].job
    /\ object[f] = "whole"
    /\ object' = [object EXCEPT ![f] = "purged"]
    /\ UNCHANGED <<row, temp, request, scan, rootUp, faults>>

-----------------------------------------------------------------------------
(* Faults *)

\* A stop of the process ends every thread; the temporaries stay behind.
Crash ==
    /\ faults > 0
    /\ faults' = faults - 1
    /\ request' = [f \in Files |-> "idle"]
    /\ ScanRaises
    /\ UNCHANGED <<row, object, temp, rootUp>>

RootDown ==
    /\ faults > 0
    /\ rootUp
    /\ faults' = faults - 1
    /\ rootUp' = FALSE
    /\ UNCHANGED <<row, object, temp, request, scan>>

RootUp ==
    /\ ~rootUp
    /\ rootUp' = TRUE
    /\ UNCHANGED <<row, object, temp, request, scan, faults>>

-----------------------------------------------------------------------------
(* Specification *)

UploadStep(f) ==
    \/ CreatePending(f)
    \/ OpenTemporary(f)
    \/ WriteTemporary(f)
    \/ PublishTemporary(f)
    \/ VerifyObject(f)
    \/ FinalizeReady(f)
    \/ MarkFailed(f)

ScanStep ==
    \/ StartScan
    \/ \E f \in Files : ScanFile(f)
    \/ RecoverUploadTemp
    \/ RecoverReady
    \/ ScanDone

Next ==
    \/ \E f \in Files : \/ BeginUpload(f) \/ UploadStep(f)
                        \/ Archive(f) \/ SetPrimaryImage(f) \/ ArchiveAndPurge(f)
    \/ ScanStep
    \/ Crash
    \/ RootDown
    \/ RootUp

Spec == Init /\ [][Next]_vars

\* The worker loop and the pool threads keep running while the process does, and a
\* storage root that is away comes back.
FairSpec ==
    /\ Spec
    /\ WF_vars(ScanStep)
    /\ WF_vars(RootUp)
    /\ \A f \in Files : WF_vars(UploadStep(f))

-----------------------------------------------------------------------------
(* Properties *)

\* Every file that a reader is shown has complete bytes in the ingest tree, or had them
\* until the queue archived them, and has the job row that its listing and its download
\* depend on; whether a request, the recovery after a stop, or both at once made it READY.
ListedFilesAreStored ==
    \A f \in Listed : object[f] \in {"whole", "purged"} /\ row[f].job

\* A file leaves the listing only when a user archives it or in the very step that lists
\* the file replacing it: a replacement that fails half way, or is finished by reconcile
\* after a stop, never takes the old version away first.
SuccessorBeforeRemoval ==
    [][\A f \in Listed \ Listed' : Archive(f) \/ \E g \in Listed' \ Listed : Replaces[g] = f]_vars

\* The listing the detailed steps produce, under failures and concurrent recovery, is the
\* one FileCatalogue promises: a file is listed once and never comes back, and a product
\* never has two primary images or one that is not listed.
Catalogue == INSTANCE FileCatalogue WITH
    shown <- Listed,
    hidden <- {f \in Files : row[f].relationArchived},
    primary <- [p \in {ProductOf[f] : f \in Files} |-> PrimaryImages(p)]
ImplementsCatalogue == Catalogue!Spec

\* An upload whose bytes arrived completely but whose request was cut off by a stop or an
\* outage is finished by reconcile, if not by its request: it becomes READY, and gets the
\* job row that comes with that, in the end.
InterruptedUploadsFinish ==
    \A f \in Files :
        (row[f].status \in {"PENDING", "FAILED"} /\ object[f] = "whole")
            ~> row[f].job
=============================================================================

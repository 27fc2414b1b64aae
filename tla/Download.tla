------------------------------ MODULE Download ------------------------------
(***************************************************************************)
(* Downloads (GET /api/v1/files/{file_id}) concurrent with the archive     *)
(* queue: ManagedFileService.read tries the local object, and falls back   *)
(* to StoreForwardService.read_available.  Each verification, each read    *)
(* and each database query is a step of the reader, between which the      *)
(* queue's threads move.                                                   *)
(***************************************************************************)
EXTENDS StoreForward

CONSTANT Readers    \* request threads that download

VARIABLES
    rpc,        \* what each reader does next
    rfile,      \* the file it was asked for
    rverified,  \* remote_verified_at of the job row it read
    answer      \* the outcome of its last download

readVars == <<rpc, rfile, rverified, answer>>
allVars == <<vars, readVars>>

InitRead ==
    /\ Init
    /\ rpc = [r \in Readers |-> "idle"]
    /\ rfile = [r \in Readers |-> NoFile]
    /\ rverified = [r \in Readers |-> FALSE]
    /\ answer = [r \in Readers |-> "none"]

ReadGoto(r, step) ==
    /\ rpc' = [rpc EXCEPT ![r] = step]
    /\ UNCHANGED <<rfile, rverified, answer>>

Answer(r, a) ==
    /\ rpc' = [rpc EXCEPT ![r] = "idle"]
    /\ rverified' = [rverified EXCEPT ![r] = FALSE]
    /\ answer' = [answer EXCEPT ![r] = a]
    /\ UNCHANGED rfile

\* The bytes at hand once the open and read of an object succeed or fail.
Served(content) ==
    CASE content = "valid" -> "content"
      [] content = "mismatch" -> "wrong"
      [] OTHER -> "missing"

StartDownload(r, f) ==
    /\ rpc[r] = "idle"
    /\ job[f].state # "NOFILE"
    /\ rfile' = [rfile EXCEPT ![r] = f]
    /\ rpc' = [rpc EXCEPT ![r] = "verify"]
    /\ answer' = [answer EXCEPT ![r] = "none"]
    /\ UNCHANGED rverified

\* ManagedFileService.read: self.verify, then the fallback.
VerifyLocal(r) ==
    /\ rpc[r] = "verify"
    /\ IF LocalUp
       THEN ReadGoto(r, IF local[rfile[r]] = "valid" THEN "readLocal" ELSE "getJob")
       ELSE Answer(r, "unavailable")

ReadLocalObject(r) ==
    /\ rpc[r] = "readLocal"
    /\ Answer(r, IF LocalUp THEN Served(local[rfile[r]]) ELSE "unavailable")

\* read_available reads the row first; no row is a LookupError (404).
GetJob(r) ==
    /\ rpc[r] = "getJob"
    /\ IF job[rfile[r]].state = "NOJOB"
       THEN Answer(r, "missing")
       ELSE /\ rpc' = [rpc EXCEPT ![r] = "verifyAgain"]
            /\ rverified' = [rverified EXCEPT ![r] = job[rfile[r]].verified]
            /\ UNCHANGED <<rfile, answer>>

VerifyLocalAgain(r) ==
    /\ rpc[r] = "verifyAgain"
    /\ IF ~LocalUp THEN Answer(r, "unavailable")
       ELSE IF local[rfile[r]] = "valid" THEN ReadGoto(r, "readLocal")
       ELSE IF rverified[r] THEN ReadGoto(r, "verifyRemote")
       ELSE Answer(r, "missing")

VerifyRemote(r) ==
    /\ rpc[r] = "verifyRemote"
    /\ IF ~ArchiveUp THEN Answer(r, "unavailable")
       ELSE IF remote[rfile[r]] = "valid" THEN ReadGoto(r, "readRemote")
       ELSE Answer(r, "missing")

ReadRemoteObject(r) ==
    /\ rpc[r] = "readRemote"
    /\ Answer(r, IF ArchiveUp THEN Served(remote[rfile[r]]) ELSE "unavailable")

ReadStep(r) ==
    /\ \/ \E f \in Files : StartDownload(r, f)
       \/ VerifyLocal(r) \/ ReadLocalObject(r) \/ GetJob(r)
       \/ VerifyLocalAgain(r) \/ VerifyRemote(r) \/ ReadRemoteObject(r)
    /\ UNCHANGED vars

\* A crash ends the downloads too; nothing else of the queue's touches them.
QueueStep ==
    /\ Next
    /\ IF Crash
       THEN /\ rpc' = [r \in Readers |-> "idle"]
            /\ rfile' = [r \in Readers |-> NoFile]
            /\ rverified' = [r \in Readers |-> FALSE]
            /\ answer' = [r \in Readers |-> "none"]
       ELSE UNCHANGED readVars

NextRead == QueueStep \/ \E r \in Readers : ReadStep(r)

SpecRead == InitRead /\ [][NextRead]_allVars

\* The fairness of the queue; downloads may stop at any point.
FairSpecRead == SpecRead /\ Fairness

-----------------------------------------------------------------------------
\* A download of a file that nobody tampered with never delivers other bytes than
\* the uploaded ones, though the object may be replaced or deleted between its
\* verification and its read; and before the remote copy is verified it does not
\* fail to find the file, however it interleaves with transfer and purge.  Excepted
\* are the files whose temp two claims had open together (see NoLoss): the bytes are
\* not compared again after the verification, and such a download may be wrong.
DownloadsTellTheTruth ==
    \A r \in Readers : rfile[r] \notin tampered \cup shared =>
        /\ answer[r] # "wrong"
        /\ answer[r] = "missing" => job[rfile[r]].verified
=============================================================================

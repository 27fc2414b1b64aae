---------------------------- MODULE StoreForward ----------------------------
(***************************************************************************)
(* The archive transfer queue of HMS QR: a durable job row per managed     *)
(* file, a local ingest copy, a remote (archive) copy, and the threads     *)
(* that work on them concurrently:                                         *)
(*                                                                         *)
(*   - Loop, the server's _worker_loop (reconcile; at most Quota transfers; *)
(*     purge; sleep; again), apps/server/files.py;                         *)
(*   - Admins, the request threads behind the admin endpoints "run-once"   *)
(*     and "purge" (and the one-transaction "retry").                      *)
(*                                                                         *)
(* Every database transaction is one step; every filesystem operation is   *)
(* one step; a thread may be preempted, or the process may stop, between   *)
(* any two of them.  Wall-clock comparisons are abstracted to one flag per *)
(* deadline (lease expired, retry due, grace over) that the environment    *)
(* raises.                                                                 *)
(*                                                                         *)
(* A lease token is a fresh uuid per claim.  A thread works on one claim   *)
(* at a time and an UPDATE that takes a job clears the old token first, so *)
(* "the token of thread t" identifies the claim: tokens are thread names.  *)
(***************************************************************************)
EXTENDS Naturals, FiniteSets

CONSTANTS
    Files,          \* managed files (one storage key and at most one job each)
    GraceFiles,     \* files whose storage configuration has grace_period_hours > 0
    Loop,           \* the background worker thread
    Admins,         \* request threads that may run a transfer or a purge
    NoWorker,       \* lease_token IS NULL
    NoFile,         \* a thread that works on no job
    Quota,          \* transfers per cycle of the loop (8 in the code)
    MaxFaults,      \* bound on the disruptions of a behaviour
    RenameBlocked   \* TRUE: os.replace fails while the temp is open (Windows)

Workers == {Loop} \cup Admins

ASSUME ConstantsAssumption ==
    /\ GraceFiles \subseteq Files
    /\ NoWorker \notin Workers
    /\ Loop \notin Admins
    /\ NoFile \notin Files
    /\ Quota \in Nat \ {0}
    /\ MaxFaults \in Nat
    /\ RenameBlocked \in BOOLEAN

VARIABLES
    job,        \* the rows of archive_transfer_jobs, per file
    local,      \* the object under the local ingest root
    remote,     \* the final object under the archive root
    temp,       \* .transfer-<job_id>.tmp next to the final object
    pc,         \* what each thread does next
    cur,        \* the job each thread works on
    todo,       \* the rows a thread read in its last candidate query
    quota,      \* transfers the loop may still run in this cycle
    handle,     \* what the thread's open temp stream points at
    up,         \* storage roots that answer
    faults,     \* disruptions still allowed (bound)
    tampered,   \* files whose objects something else than this code changed
    shared      \* history: files whose temp two claims had open together

vars == <<job, local, remote, temp, pc, cur, todo, quota, handle, up, faults, tampered, shared>>

-----------------------------------------------------------------------------
(* Job rows *)

Leased == {"TRANSFERRING", "REMOTE_VERIFYING"}
ClaimEligible == {"LOCAL_READY", "TRANSFER_QUEUED", "TRANSFER_FAILED_RETRYABLE"}
\* Mutant: a manual retry accepts jobs behind the remote verification too.
TransferRetryEligibleAfterVerify == {"TRANSFER_FAILED_RETRYABLE", "LOCAL_PURGE_PENDING"}
TransferRetryEligible == {"TRANSFER_FAILED_RETRYABLE"}
Verified == {"LOCAL_GRACE_RETENTION", "LOCAL_PURGE_PENDING", "ARCHIVED_REMOTE_ONLY"}

\* "NOFILE": not uploaded yet; "NOJOB": READY but without a queue row.
JobStates ==
    {"NOFILE", "NOJOB"} \cup Leased \cup ClaimEligible \cup Verified
        \cup {"TRANSFER_FAILED_PERMANENT"}

Job == [state : JobStates, token : Workers \cup {NoWorker}, expired : BOOLEAN,
        due : BOOLEAN, verified : BOOLEAN, graceOver : BOOLEAN, purged : BOOLEAN]

BlankJob(s) == [state |-> s, token |-> NoWorker, expired |-> FALSE, due |-> TRUE,
                verified |-> FALSE, graceOver |-> FALSE, purged |-> FALSE]

\* lease_expires_at IS NULL OR lease_expires_at <= now
LeaseFree(f) == job[f].token = NoWorker \/ job[f].expired

ClaimCandidates ==
    {f \in Files : job[f].state \in ClaimEligible /\ job[f].due /\ LeaseFree(f)}

\* Mutant: the candidate query forgets state, verification and grace.
PurgeCandidatesUnverified ==
    {f \in Files : job[f].state \notin {"NOFILE", "NOJOB"} /\ job[f].token = NoWorker}

PurgeCandidates ==
    {f \in Files : /\ job[f].state = "LOCAL_PURGE_PENDING"
                   /\ job[f].verified
                   /\ job[f].graceOver
                   /\ job[f].token = NoWorker}

\* Mutant: the leased updates forget AND lease_token = ?.
OwnsLeaseUnchecked(t) == TRUE

\* UPDATE ... WHERE internal_id = ? AND lease_token = ?
OwnsLease(t) == job[cur[t]].token = t

-----------------------------------------------------------------------------
(* Thread control *)

TransferSteps ==
    {"remoteCheck", "localCheck", "readLocal", "targetCheck", "openTemp", "writeTemp",
     "checkTemp", "replaceTemp", "postCheck", "markVerifying", "finalCheck",
     "markReady", "failRetry", "failPermanent"}
ReconcileSteps == {"cycle", "ensureList", "ensure"}
PurgeSteps == {"purgeRemote", "purgeLocal", "purgeDelete", "purgeGone", "purgeMark", "purgeFail"}
Steps == {"idle", "select", "claim", "purge", "purgeList", "purgeNext"}
            \cup ReconcileSteps \cup TransferSteps \cup PurgeSteps

Rest(t) == IF t = Loop THEN "cycle" ELSE "idle"

Goto(t, step) == pc' = [pc EXCEPT ![t] = step]

\* transfer_one returned a job: the loop counts it against its quota.
ReturnJob(t) ==
    /\ cur' = [cur EXCEPT ![t] = NoFile]
    /\ IF t = Loop
       THEN /\ quota' = quota - 1
            /\ Goto(t, IF quota = 1 THEN "purge" ELSE "select")
       ELSE /\ UNCHANGED quota
            /\ Goto(t, "idle")
    /\ UNCHANGED todo

\* An exception left the operation: the loop sleeps and starts a new cycle, an
\* endpoint answers with an error.
Raise(t) ==
    /\ cur' = [cur EXCEPT ![t] = NoFile]
    /\ todo' = [todo EXCEPT ![t] = {}]
    /\ Goto(t, Rest(t))
    /\ UNCHANGED quota

\* A step of transfer_one or of the purge of one job that only moves control.
Proceed(t, step) ==
    /\ Goto(t, step)
    /\ UNCHANGED <<job, local, remote, temp, handle, cur, todo, quota, up, faults, tampered, shared>>

ArchiveUp == "archive" \in up
LocalUp == "local" \in up

-----------------------------------------------------------------------------
Init ==
    /\ job = [f \in Files |-> BlankJob("NOFILE")]
    /\ local = [f \in Files |-> "absent"]
    /\ remote = [f \in Files |-> "absent"]
    /\ temp = [f \in Files |-> "absent"]
    /\ pc = [t \in Workers |-> Rest(t)]
    /\ cur = [t \in Workers |-> NoFile]
    /\ todo = [t \in Workers |-> {}]
    /\ quota = Quota
    /\ handle = [t \in Workers |-> "none"]
    /\ up = {"local", "archive"}
    /\ faults = MaxFaults
    /\ tampered = {}
    /\ shared = {}

\* A file becomes READY: its bytes are under the local root, and finalize_ready (or,
\* after an interrupted upload, reconcile's recover_local_ready_and_queue) commits the
\* row.  It queues the job unless no archive coordinator was configured at that time.
Upload(f) ==
    /\ job[f].state = "NOFILE"
    /\ LocalUp
    /\ local' = [local EXCEPT ![f] = "valid"]
    /\ \E s \in {"TRANSFER_QUEUED", "NOJOB"} : job' = [job EXCEPT ![f] = BlankJob(s)]
    /\ UNCHANGED <<remote, temp, handle, pc, cur, todo, quota, up, faults, tampered, shared>>

-----------------------------------------------------------------------------
(* reconcile: the start of every cycle, and so of every restart *)

\* Mutant: recovery takes live leases too.
RequeueLeased ==
    [f \in Files |->
        IF job[f].state \in Leased
        THEN [job[f] EXCEPT !.state = "TRANSFER_QUEUED", !.token = NoWorker,
                            !.expired = FALSE, !.due = TRUE]
        ELSE job[f]]

\* Mutant: recovery is never run.
RequeueNothing == job

RequeueExpired ==
    [f \in Files |->
        IF job[f].state \in Leased /\ job[f].expired
        THEN [job[f] EXCEPT !.state = "TRANSFER_QUEUED", !.token = NoWorker,
                            !.expired = FALSE, !.due = TRUE]
        ELSE job[f]]

RecoverExpiredLeases(t) ==
    /\ pc[t] = "cycle"
    /\ job' = RequeueExpired
    /\ Goto(t, "ensureList")
    /\ UNCHANGED <<local, remote, temp, handle, cur, todo, quota, up, faults, tampered, shared>>

\* ready_files(); a file that has its job already is passed over.
ListReadyFiles(t) ==
    /\ pc[t] = "ensureList"
    /\ todo' = [todo EXCEPT ![t] = {f \in Files : job[f].state = "NOJOB"}]
    /\ Goto(t, "ensure")
    /\ UNCHANGED <<job, local, remote, temp, handle, cur, quota, up, faults, tampered, shared>>

EnsureJob(t, f) ==
    /\ pc[t] = "ensure"
    /\ f \in todo[t]
    /\ LocalUp
    /\ todo' = [todo EXCEPT ![t] = @ \ {f}]
    /\ job' = IF job[f].state = "NOJOB" /\ local[f] = "valid"
              THEN [job EXCEPT ![f] = BlankJob("TRANSFER_QUEUED")]
              ELSE job
    /\ UNCHANGED <<local, remote, temp, handle, pc, cur, quota, up, faults, tampered, shared>>

\* A verification found the local root gone: of a file in todo, or of an interrupted
\* upload, which reconcile tries to recover first (see Upload).
EnsureRaises(t) ==
    /\ pc[t] = "ensure"
    /\ ~LocalUp
    /\ Raise(t)
    /\ UNCHANGED <<job, local, remote, temp, handle, up, faults, tampered, shared>>

GraceAdvanced ==
    [f \in Files |->
        IF job[f].state = "LOCAL_GRACE_RETENTION" /\ job[f].graceOver
        THEN [job[f] EXCEPT !.state = "LOCAL_PURGE_PENDING"]
        ELSE job[f]]

\* The last statement of reconcile; the loop then starts its transfers.
ReconcileDone(t) ==
    /\ pc[t] = "ensure"
    /\ todo[t] = {}
    /\ job' = GraceAdvanced
    /\ quota' = Quota
    /\ Goto(t, "select")
    /\ UNCHANGED <<local, remote, temp, handle, cur, todo, up, faults, tampered, shared>>

-----------------------------------------------------------------------------
(* transfer_one: claim_next *)

\* The candidate query runs outside the claiming transaction.
SelectCandidates(t) ==
    /\ pc[t] = "select"
    /\ todo' = [todo EXCEPT ![t] = ClaimCandidates]
    /\ Goto(t, "claim")
    /\ UNCHANGED <<job, local, remote, temp, handle, cur, quota, up, faults, tampered, shared>>

\* The UPDATE repeats the state and lease predicates of the query.
Claim(t, f) ==
    /\ pc[t] = "claim"
    /\ f \in todo[t]
    /\ job[f].state \in ClaimEligible
    /\ LeaseFree(f)
    /\ job' = [job EXCEPT ![f] = [@ EXCEPT !.state = "TRANSFERRING", !.token = t,
                                           !.expired = FALSE]]
    /\ cur' = [cur EXCEPT ![t] = f]
    /\ todo' = [todo EXCEPT ![t] = {}]
    /\ Goto(t, "remoteCheck")
    /\ UNCHANGED <<local, remote, temp, handle, quota, up, faults, tampered, shared>>

\* Another thread took the candidate meanwhile: try the next one.
ClaimLost(t, f) ==
    /\ pc[t] = "claim"
    /\ f \in todo[t]
    /\ ~(job[f].state \in ClaimEligible /\ LeaseFree(f))
    /\ todo' = [todo EXCEPT ![t] = @ \ {f}]
    /\ UNCHANGED <<job, local, remote, temp, handle, pc, cur, quota, up, faults, tampered, shared>>

ClaimNone(t) ==
    /\ pc[t] = "claim"
    /\ todo[t] = {}
    /\ Goto(t, IF t = Loop THEN "purge" ELSE "idle")
    /\ UNCHANGED <<job, local, remote, temp, handle, cur, todo, quota, up, faults, tampered, shared>>

-----------------------------------------------------------------------------
(* transfer_one: the copy *)

\* archive.verify before anything is sent.
CheckRemote(t) ==
    /\ pc[t] = "remoteCheck"
    /\ Proceed(t, IF ~ArchiveUp THEN "failRetry"
                  ELSE CASE remote[cur[t]] = "mismatch" -> "failPermanent"
                         [] remote[cur[t]] = "valid" -> "markVerifying"
                         [] OTHER -> "localCheck")

\* local_storage.verify
CheckLocal(t) ==
    /\ pc[t] = "localCheck"
    /\ Proceed(t, IF ~LocalUp THEN "failRetry"
                  ELSE IF local[cur[t]] = "valid" THEN "readLocal"
                  ELSE "failPermanent")

\* local_storage.read, and the size and SHA-256 check at the head of
\* publish_transfer of the bytes just read.
ReadLocal(t) ==
    /\ pc[t] = "readLocal"
    /\ Proceed(t, IF LocalUp /\ ArchiveUp /\ local[cur[t]] = "valid"
                  THEN "targetCheck" ELSE "failRetry")

\* target.exists() in publish_transfer; from here on the thread holds the bytes.
CheckTarget(t) ==
    /\ pc[t] = "targetCheck"
    /\ Proceed(t, IF ~ArchiveUp THEN "failRetry"
                  ELSE CASE remote[cur[t]] = "mismatch" -> "failPermanent"
                         [] remote[cur[t]] = "valid" -> "markVerifying"
                         [] OTHER -> "openTemp")

\* Mutant: the bytes are written to the final object in place.
OpenFinal(t) ==
    /\ pc[t] = "openTemp"
    /\ IF ArchiveUp
       THEN /\ remote' = [remote EXCEPT ![cur[t]] = "mismatch"]
            /\ handle' = [handle EXCEPT ![t] = "final"]
            /\ Goto(t, "writeTemp")
       ELSE /\ Goto(t, "failRetry")
            /\ UNCHANGED <<remote, handle>>
    /\ UNCHANGED <<job, local, temp, cur, todo, quota, up, faults, tampered, shared>>

\* Between opening the temp and renaming it.
Writing == {"writeTemp", "checkTemp", "replaceTemp"}
OthersBetween(t) == {u \in Workers \ {t} : cur[u] = cur[t] /\ pc[u] \in Writing}

\* open("wb") creates or truncates the temp, whose name the claims of a job share.
OpenTemp(t) ==
    /\ pc[t] = "openTemp"
    /\ IF ArchiveUp
       THEN /\ temp' = [temp EXCEPT ![cur[t]] = "partial"]
            /\ handle' = [handle EXCEPT ![t] = "temp"]
            /\ shared' = IF OthersBetween(t) = {} THEN shared ELSE shared \cup {cur[t]}
            /\ Goto(t, "writeTemp")
       ELSE /\ Goto(t, "failRetry")
            /\ UNCHANGED <<temp, handle, shared>>
    /\ UNCHANGED <<job, local, remote, cur, todo, quota, up, faults, tampered>>

\* One write of all the bytes, flush, fsync and close.  The stream may point at
\* an object that was renamed (it is the final object now) or replaced since.
WriteTemp(t) ==
    /\ pc[t] = "writeTemp"
    /\ handle' = [handle EXCEPT ![t] = "none"]
    /\ temp' = IF ArchiveUp /\ handle[t] = "temp"
               THEN [temp EXCEPT ![cur[t]] = "full"] ELSE temp
    /\ remote' = IF ArchiveUp /\ handle[t] = "final"
                 THEN [remote EXCEPT ![cur[t]] = "valid"] ELSE remote
    /\ Goto(t, IF ArchiveUp THEN "checkTemp" ELSE "failRetry")
    /\ UNCHANGED <<job, local, cur, todo, quota, up, faults, tampered, shared>>

\* Size and SHA-256 of the temp (a missing temp is an OSError).
CheckTemp(t) ==
    /\ pc[t] = "checkTemp"
    /\ Proceed(t, IF ArchiveUp /\ temp[cur[t]] = "full" THEN "replaceTemp" ELSE "failRetry")

OthersWriting(t) ==
    {u \in Workers \ {t} : cur[u] = cur[t] /\ handle[u] = "temp"}

CanReplace(t) ==
    /\ ArchiveUp
    /\ temp[cur[t]] # "absent"
    /\ RenameBlocked => OthersWriting(t) = {}

\* os.replace moves whatever the temp holds now over the final object; streams
\* open on either follow the object, not the name.
ReplaceTemp(t) ==
    /\ pc[t] = "replaceTemp"
    /\ IF CanReplace(t)
       THEN /\ remote' = [remote EXCEPT ![cur[t]] =
                            IF temp[cur[t]] = "full" THEN "valid" ELSE "mismatch"]
            /\ temp' = [temp EXCEPT ![cur[t]] = "absent"]
            /\ handle' = [u \in Workers |->
                            IF cur[u] # cur[t] THEN handle[u]
                            ELSE CASE handle[u] = "temp" -> "final"
                                   [] handle[u] = "final" -> "gone"
                                   [] OTHER -> handle[u]]
            /\ Goto(t, "postCheck")
       ELSE /\ Goto(t, "failRetry")
            /\ UNCHANGED <<remote, temp, handle>>
    /\ UNCHANGED <<job, local, cur, todo, quota, up, faults, tampered, shared>>

\* publish_transfer's own verification of the final object.
CheckPublished(t) ==
    /\ pc[t] = "postCheck"
    /\ Proceed(t, IF ArchiveUp /\ remote[cur[t]] = "valid" THEN "markVerifying" ELSE "failRetry")

\* A lost lease is a ValueError, which _classify calls permanent.
MarkRemoteVerifying(t) ==
    /\ pc[t] = "markVerifying"
    /\ IF OwnsLease(t)
       THEN /\ job' = [job EXCEPT ![cur[t]] = [@ EXCEPT !.state = "REMOTE_VERIFYING"]]
            /\ Goto(t, "finalCheck")
       ELSE /\ UNCHANGED job
            /\ Goto(t, "failPermanent")
    /\ UNCHANGED <<local, remote, temp, handle, cur, todo, quota, up, faults, tampered, shared>>

CheckFinal(t) ==
    /\ pc[t] = "finalCheck"
    /\ Proceed(t, IF ArchiveUp /\ remote[cur[t]] = "valid" THEN "markReady" ELSE "failRetry")

\* The row after mark_remote_ready.
ReadyJob(f) ==
    [job[f] EXCEPT !.state = IF f \in GraceFiles THEN "LOCAL_GRACE_RETENTION"
                             ELSE "LOCAL_PURGE_PENDING",
                   !.verified = TRUE, !.graceOver = (f \notin GraceFiles),
                   !.token = NoWorker, !.expired = FALSE, !.due = TRUE]

MarkRemoteReady(t) ==
    /\ pc[t] = "markReady"
    /\ IF OwnsLease(t)
       THEN /\ job' = [job EXCEPT ![cur[t]] = ReadyJob(cur[t])]
            /\ ReturnJob(t)
       ELSE /\ Goto(t, "failPermanent")
            /\ UNCHANGED <<job, cur, todo, quota>>
    /\ UNCHANGED <<local, remote, temp, handle, up, faults, tampered, shared>>

\* The except branch; with the lease lost, mark_failure raises in its turn.
MarkFailure(t) ==
    /\ pc[t] \in {"failRetry", "failPermanent"}
    /\ IF OwnsLease(t)
       THEN /\ job' = [job EXCEPT ![cur[t]] =
                         [@ EXCEPT !.state = IF pc[t] = "failRetry"
                                             THEN "TRANSFER_FAILED_RETRYABLE"
                                             ELSE "TRANSFER_FAILED_PERMANENT",
                                   !.due = (pc[t] = "failPermanent"),
                                   !.token = NoWorker, !.expired = FALSE]]
            /\ ReturnJob(t)
       ELSE /\ UNCHANGED job
            /\ Raise(t)
    /\ UNCHANGED <<local, remote, temp, handle, up, faults, tampered, shared>>

-----------------------------------------------------------------------------
(* purge_ready_local_copies *)

AdvanceGrace(t) ==
    /\ pc[t] = "purge"
    /\ job' = GraceAdvanced
    /\ Goto(t, "purgeList")
    /\ UNCHANGED <<local, remote, temp, handle, cur, todo, quota, up, faults, tampered, shared>>

ListPurgeCandidates(t) ==
    /\ pc[t] = "purgeList"
    /\ todo' = [todo EXCEPT ![t] = PurgeCandidates]
    /\ Goto(t, "purgeNext")
    /\ UNCHANGED <<job, local, remote, temp, handle, cur, quota, up, faults, tampered, shared>>

PurgeJob(t, f) ==
    /\ pc[t] = "purgeNext"
    /\ f \in todo[t]
    /\ cur' = [cur EXCEPT ![t] = f]
    /\ todo' = [todo EXCEPT ![t] = @ \ {f}]
    /\ Goto(t, "purgeRemote")
    /\ UNCHANGED <<job, local, remote, temp, handle, quota, up, faults, tampered, shared>>

PurgeDone(t) ==
    /\ pc[t] = "purgeNext"
    /\ todo[t] = {}
    /\ Goto(t, Rest(t))
    /\ UNCHANGED <<job, local, remote, temp, handle, cur, todo, quota, up, faults, tampered, shared>>

\* The candidate row was verified when it was read (PurgeCandidates).
PurgeCheckRemote(t) ==
    /\ pc[t] = "purgeRemote"
    /\ Proceed(t, IF ArchiveUp /\ remote[cur[t]] = "valid" THEN "purgeLocal" ELSE "purgeFail")

PurgeCheckLocal(t) ==
    /\ pc[t] = "purgeLocal"
    /\ Proceed(t, IF ~LocalUp THEN "purgeFail"
                  ELSE CASE local[cur[t]] = "mismatch" -> "purgeFail"
                         [] local[cur[t]] = "valid" -> "purgeDelete"
                         [] OTHER -> "purgeGone")

PurgeDelete(t) ==
    /\ pc[t] = "purgeDelete"
    /\ local' = IF LocalUp THEN [local EXCEPT ![cur[t]] = "absent"] ELSE local
    /\ Goto(t, IF LocalUp THEN "purgeGone" ELSE "purgeFail")
    /\ UNCHANGED <<job, remote, temp, handle, cur, todo, quota, up, faults, tampered, shared>>

\* exists() behind the delete, or instead of it.
PurgeCheckGone(t) ==
    /\ pc[t] = "purgeGone"
    /\ Proceed(t, IF LocalUp /\ local[cur[t]] = "absent" THEN "purgeMark" ELSE "purgeFail")

MarkLocalPurged(t) ==
    /\ pc[t] = "purgeMark"
    /\ IF job[cur[t]].state = "LOCAL_PURGE_PENDING"
       THEN /\ job' = [job EXCEPT ![cur[t]] = [@ EXCEPT !.state = "ARCHIVED_REMOTE_ONLY",
                                                        !.purged = TRUE]]
            /\ cur' = [cur EXCEPT ![t] = NoFile]
            /\ Goto(t, "purgeNext")
       ELSE /\ Goto(t, "purgeFail")
            /\ UNCHANGED <<job, cur>>
    /\ UNCHANGED <<local, remote, temp, handle, todo, quota, up, faults, tampered, shared>>

\* The except branch writes LOCAL_PURGE_PENDING whatever the row says now.
MarkLocalDeleteFailed(t) ==
    /\ pc[t] = "purgeFail"
    /\ job' = [job EXCEPT ![cur[t]] = [@ EXCEPT !.state = "LOCAL_PURGE_PENDING"]]
    /\ cur' = [cur EXCEPT ![t] = NoFile]
    /\ Goto(t, "purgeNext")
    /\ UNCHANGED <<local, remote, temp, handle, todo, quota, up, faults, tampered, shared>>

-----------------------------------------------------------------------------
(* Admin requests *)

\* POST run-once and POST purge, each in a request thread of its own.
AdminRequest(t) ==
    /\ t \in Admins
    /\ pc[t] = "idle"
    /\ \E step \in {"select", "purge"} : Proceed(t, step)

\* POST retry: one UPDATE, guarded by the state it may leave.
RetryNow(f) ==
    /\ job[f].state \in TransferRetryEligible
    /\ job' = [job EXCEPT ![f] = [@ EXCEPT !.state = "TRANSFER_QUEUED", !.due = TRUE,
                                           !.token = NoWorker, !.expired = FALSE]]
    /\ UNCHANGED <<local, remote, temp, handle, pc, cur, todo, quota, up, faults, tampered, shared>>

-----------------------------------------------------------------------------
(* Environment: clock, storage roots, process *)

Disrupt == faults > 0 /\ faults' = faults - 1

Working(t, f) == cur[t] = f /\ pc[t] \in TransferSteps

\* The 300 s lease runs out.  Under a thread that is still at work this is a
\* disruption (a stalled transfer); a lease nobody works under just runs out.
ExpireLease(f) ==
    /\ job[f].token # NoWorker
    /\ ~job[f].expired
    /\ IF \E t \in Workers : Working(t, f) /\ job[f].token = t
       THEN Disrupt ELSE UNCHANGED faults
    /\ job' = [job EXCEPT ![f] = [@ EXCEPT !.expired = TRUE]]
    /\ UNCHANGED <<local, remote, temp, handle, pc, cur, todo, quota, up, tampered, shared>>

RetryDue(f) ==
    /\ ~job[f].due
    /\ job' = [job EXCEPT ![f] = [@ EXCEPT !.due = TRUE]]
    /\ UNCHANGED <<local, remote, temp, handle, pc, cur, todo, quota, up, faults, tampered, shared>>

GraceElapses(f) ==
    /\ job[f].verified
    /\ ~job[f].graceOver
    /\ job' = [job EXCEPT ![f] = [@ EXCEPT !.graceOver = TRUE]]
    /\ UNCHANGED <<local, remote, temp, handle, pc, cur, todo, quota, up, faults, tampered, shared>>

RootDown(r) ==
    /\ r \in up
    /\ Disrupt
    /\ up' = up \ {r}
    /\ UNCHANGED <<job, local, remote, temp, handle, pc, cur, todo, quota, tampered, shared>>

RootUp(r) ==
    /\ r \notin up
    /\ up' = up \cup {r}
    /\ UNCHANGED <<job, local, remote, temp, handle, pc, cur, todo, quota, faults, tampered, shared>>

\* The process stops and is started again: rows and objects stay, threads do not.
Crash ==
    /\ Disrupt
    /\ pc' = [t \in Workers |-> Rest(t)]
    /\ cur' = [t \in Workers |-> NoFile]
    /\ todo' = [t \in Workers |-> {}]
    /\ quota' = Quota
    /\ handle' = [t \in Workers |-> "none"]
    /\ UNCHANGED <<job, local, remote, temp, up, tampered, shared>>

\* Something outside this code damages, removes or plants an object.
Tamper(f) ==
    /\ job[f].state # "NOFILE"
    /\ Disrupt
    /\ tampered' = tampered \cup {f}
    /\ \E c \in {"absent", "mismatch"} :
          \/ local' = [local EXCEPT ![f] = c] /\ UNCHANGED remote
          \/ remote' = [remote EXCEPT ![f] = c] /\ UNCHANGED local
    /\ UNCHANGED <<job, temp, handle, pc, cur, todo, quota, up, shared>>

-----------------------------------------------------------------------------
ReconcileStep(t) ==
    \/ RecoverExpiredLeases(t)
    \/ ListReadyFiles(t)
    \/ \E f \in Files : EnsureJob(t, f)
    \/ EnsureRaises(t)
    \/ ReconcileDone(t)

ClaimStep(t) ==
    \/ SelectCandidates(t)
    \/ \E f \in Files : Claim(t, f)
    \/ \E f \in Files : ClaimLost(t, f)
    \/ ClaimNone(t)

CopyStep(t) ==
    \/ CheckRemote(t) \/ CheckLocal(t) \/ ReadLocal(t) \/ CheckTarget(t)
    \/ OpenTemp(t) \/ WriteTemp(t) \/ CheckTemp(t) \/ ReplaceTemp(t) \/ CheckPublished(t)
    \/ MarkRemoteVerifying(t) \/ CheckFinal(t) \/ MarkRemoteReady(t) \/ MarkFailure(t)

PurgeStep(t) ==
    \/ AdvanceGrace(t) \/ ListPurgeCandidates(t)
    \/ \E f \in Files : PurgeJob(t, f)
    \/ PurgeDone(t)
    \/ PurgeCheckRemote(t) \/ PurgeCheckLocal(t) \/ PurgeDelete(t) \/ PurgeCheckGone(t)
    \/ MarkLocalPurged(t) \/ MarkLocalDeleteFailed(t)

Step(t) == ReconcileStep(t) \/ ClaimStep(t) \/ CopyStep(t) \/ PurgeStep(t)

Clock(f) == ExpireLease(f) \/ RetryDue(f) \/ GraceElapses(f)

Next ==
    \/ \E t \in Workers : Step(t) \/ AdminRequest(t)
    \/ \E f \in Files : Upload(f) \/ RetryNow(f) \/ Clock(f) \/ Tamper(f)
    \/ \E r \in {"local", "archive"} : RootDown(r) \/ RootUp(r)
    \/ Crash

Spec == Init /\ [][Next]_vars

\* The operating system runs every thread, deadlines pass, and an outage ends.
Fairness ==
    /\ \A t \in Workers : WF_vars(Step(t))
    /\ \A f \in Files : WF_vars(RetryDue(f)) /\ WF_vars(GraceElapses(f))
    /\ \A f \in Files : WF_vars(ExpireLease(f) /\ UNCHANGED faults)
    /\ \A r \in {"local", "archive"} : WF_vars(RootUp(r))

FairSpec == Spec /\ Fairness

-----------------------------------------------------------------------------
(* Properties *)

Contents == {"absent", "valid", "mismatch"}

\* Every variable has the shape the rows, the objects and the threads can have.
TypeOK ==
    /\ job \in [Files -> Job]
    /\ local \in [Files -> Contents]
    /\ remote \in [Files -> Contents]
    /\ temp \in [Files -> {"absent", "partial", "full"}]
    /\ pc \in [Workers -> Steps]
    /\ cur \in [Workers -> Files \cup {NoFile}]
    /\ todo \in [Workers -> SUBSET Files]
    /\ quota \in 0..Quota
    /\ handle \in [Workers -> {"none", "temp", "final", "gone"}]
    /\ up \subseteq {"local", "archive"}
    /\ faults \in 0..MaxFaults
    /\ tampered \subseteq Files
    /\ shared \subseteq Files

\* A job is leased exactly while it is being transferred, and it carries a remote
\* verification exactly in the three states behind it: no interleaving of workers
\* with stale leases, expired-lease recovery, manual retry and the unconditional
\* write of mark_local_delete_failed leaves a row that mixes the two.
LeaseAndVerificationAgree ==
    \A f \in Files :
        /\ job[f].token # NoWorker <=> job[f].state \in Leased
        /\ job[f].verified <=> job[f].state \in Verified

\* A thread that purges holds only jobs whose remote copy was committed as
\* verified, however old its candidate list is (purge_candidates is a snapshot).
PurgersHoldVerified ==
    \A t \in Workers :
        /\ pc[t] \in PurgeSteps => cur[t] \in Files /\ job[cur[t]].verified
        /\ pc[t] = "purgeNext" => \A f \in todo[t] : job[f].verified
        /\ pc[t] \in PurgeSteps => \A f \in todo[t] : job[f].verified

\* Every thread is where its data lets it be: a transfer names a file, only the loop
\* reconciles, and it transfers only while its quota lasts.
ThreadsInPlace ==
    /\ \A t \in Workers : pc[t] \in TransferSteps => cur[t] \in Files
    /\ \A t \in Workers : pc[t] \in ReconcileSteps => t = Loop
    /\ pc[Loop] \in {"select", "claim"} \cup TransferSteps => quota > 0

\* The inductive invariant: rows and threads fit together after every step of any
\* thread, whatever it read before the others moved.
QueueInvariant ==
    TypeOK /\ ThreadsInPlace /\ LeaseAndVerificationAgree /\ PurgersHoldVerified

\* Once remote_verified_at is committed it stays, and no thread puts the job back
\* in the transfer queue or leases it again (TRANSFER_RETRY_ELIGIBLE_STATES'
\* comment, checkpoint R009A2A).
VerifiedNeverRequeued ==
    [][\A f \in Files : job[f].verified =>
            job'[f].verified /\ job'[f].state \in Verified /\ job'[f].token = NoWorker]_vars

\* A live lease is exclusive: while it has not expired, only a step of the thread
\* that holds it changes the state of the job.
LiveLeaseIsExclusive ==
    [][\A f \in Files :
            (job[f].token # NoWorker /\ ~job[f].expired /\ job'[f].state # job[f].state)
                => LET t == job[f].token IN cur[t] = f /\ pc'[t] # pc[t]]_vars

\* An uploaded file that nothing else touched always has an intact copy, whatever leases run
\* out, roots fail and processes stop; with one exception, which the code has and which is
\* named here: two claims of the job had its one temporary file open together (a transfer
\* outlived its lease).  Then a partial object may replace a verified one, against "A
\* mismatched final object is never overwritten" (docs/ARCHITECTURE.md:78).
NoLoss ==
    \A f \in Files \ (tampered \cup shared) :
        job[f].state # "NOFILE" => local[f] = "valid" \/ remote[f] = "valid"

\* A queued file that nothing else touches is archived, or the queue says for good
\* that it cannot be: retries, outages, crashes and stale leases do not strand it.
QueuedJobsSettle ==
    \A f \in Files :
        job[f].state = "TRANSFER_QUEUED" ~>
            (f \in tampered
                \/ job[f].state \in {"ARCHIVED_REMOTE_ONLY", "TRANSFER_FAILED_PERMANENT"})

=============================================================================

------------------------- MODULE StoreForwardProofs -------------------------
(***************************************************************************)
(* Proofs about StoreForward and Download, for any files, any threads,     *)
(* any quota and any number of disruptions.                                *)
(***************************************************************************)
EXTENDS Download, TLAPS

\* What LeaseAndVerificationAgree says of one row.
RowAgrees(j) ==
    /\ j.token # NoWorker <=> j.state \in Leased
    /\ j.verified <=> j.state \in Verified

\* What a step does to the rows: they stay well formed, and no verification is lost.
RowsKept ==
    /\ job' \in [Files -> Job]
    /\ \A f \in Files : RowAgrees(job'[f])
    /\ \A f \in Files : job[f].verified => job'[f].verified

\* What every action is shown to do.
StepKeeps == RowsKept /\ QueueInvariant'

\* A step that leaves the rows alone keeps them.
LEMMA RowsUnchanged ==
    ASSUME QueueInvariant, UNCHANGED job
    PROVE  RowsKept
BY DEF RowsKept, RowAgrees, QueueInvariant, TypeOK, LeaseAndVerificationAgree

\* The update of one row keeps the rows if the new row is well formed and keeps its
\* verification.
LEMMA RowUpdated ==
    ASSUME QueueInvariant,
           NEW f \in Files, NEW j \in Job,
           RowAgrees(j), job[f].verified => j.verified,
           job' = [job EXCEPT ![f] = j]
    PROVE  RowsKept
BY DEF RowsKept, RowAgrees, QueueInvariant, TypeOK, LeaseAndVerificationAgree

\* recover_expired_leases keeps the rows.
LEMMA RequeueKeepsRows ==
    ASSUME QueueInvariant, job' = RequeueExpired
    PROVE  RowsKept
<1>1. job \in [Files -> Job] /\ "TRANSFER_QUEUED" \in JobStates
  BY DEF QueueInvariant, TypeOK, JobStates, ClaimEligible
<1>2. ASSUME NEW f \in Files
      PROVE  /\ job'[f] \in Job
             /\ RowAgrees(job'[f])
             /\ job[f].verified => job'[f].verified
  <2> DEFINE requeued == [job[f] EXCEPT !.state = "TRANSFER_QUEUED", !.token = NoWorker,
                                        !.expired = FALSE, !.due = TRUE]
  <2>1. job[f] \in Job /\ RowAgrees(job[f])
    BY <1>1 DEF QueueInvariant, LeaseAndVerificationAgree, RowAgrees
  <2>2. CASE job[f].state \in Leased /\ job[f].expired
    <3>1. job'[f] = requeued
      BY <2>2 DEF RequeueExpired
    <3>2. requeued \in Job
      BY <1>1, <2>1 DEF Job
    <3>3. requeued.state = "TRANSFER_QUEUED" /\ requeued.token = NoWorker
      BY <2>1 DEF Job
    <3>4. requeued.verified = job[f].verified
      BY <2>1 DEF Job
    <3> HIDE DEF requeued
    <3>5. ~job[f].verified
      BY <2>1, <2>2 DEF RowAgrees, Leased, Verified
    <3> QED
      BY <3>1, <3>2, <3>3, <3>4, <3>5 DEF RowAgrees, Leased, Verified
  <2>3. CASE ~(job[f].state \in Leased /\ job[f].expired)
    <3>1. job'[f] = job[f]
      BY <2>3 DEF RequeueExpired
    <3> QED
      BY <2>1, <3>1
  <2> QED
    BY <2>2, <2>3
<1>3. job' \in [Files -> Job]
  BY <1>2 DEF RequeueExpired
<1> QED
  BY <1>2, <1>3 DEF RowsKept

\* advance_expired_grace keeps the rows.
LEMMA GraceKeepsRows ==
    ASSUME QueueInvariant, job' = GraceAdvanced
    PROVE  RowsKept
<1>1. job \in [Files -> Job] /\ "LOCAL_PURGE_PENDING" \in JobStates
  BY DEF QueueInvariant, TypeOK, JobStates, Verified
<1>2. ASSUME NEW f \in Files
      PROVE  /\ job'[f] \in Job
             /\ RowAgrees(job'[f])
             /\ job[f].verified => job'[f].verified
  <2> DEFINE advanced == [job[f] EXCEPT !.state = "LOCAL_PURGE_PENDING"]
  <2>1. job[f] \in Job /\ RowAgrees(job[f])
    BY <1>1 DEF QueueInvariant, LeaseAndVerificationAgree, RowAgrees
  <2>2. CASE job[f].state = "LOCAL_GRACE_RETENTION" /\ job[f].graceOver
    <3>1. job'[f] = advanced
      BY <2>2 DEF GraceAdvanced
    <3>2. advanced \in Job
      BY <1>1, <2>1 DEF Job
    <3>3. /\ advanced.state = "LOCAL_PURGE_PENDING"
          /\ advanced.token = job[f].token
          /\ advanced.verified = job[f].verified
      BY <2>1 DEF Job
    <3> HIDE DEF advanced
    <3> QED
      BY <2>1, <2>2, <3>1, <3>2, <3>3 DEF RowAgrees, Leased, Verified
  <2>3. CASE ~(job[f].state = "LOCAL_GRACE_RETENTION" /\ job[f].graceOver)
    <3>1. job'[f] = job[f]
      BY <2>3 DEF GraceAdvanced
    <3> QED
      BY <2>1, <3>1
  <2> QED
    BY <2>2, <2>3
<1>3. job' \in [Files -> Job]
  BY <1>2 DEF GraceAdvanced
<1> QED
  BY <1>2, <1>3 DEF RowsKept

-----------------------------------------------------------------------------
(* One lemma for every shape of step *)

\* The part of TypeOK about objects, streams and the environment.
EnvTyped ==
    /\ local \in [Files -> Contents]
    /\ remote \in [Files -> Contents]
    /\ temp \in [Files -> {"absent", "partial", "full"}]
    /\ handle \in [Workers -> {"none", "temp", "final", "gone"}]
    /\ up \subseteq {"local", "archive"}
    /\ faults \in 0..MaxFaults
    /\ tampered \subseteq Files
    /\ shared \subseteq Files

\* A step of thread t alone: what is left to show is about t.
LEMMA ThreadStep ==
    ASSUME QueueInvariant, RowsKept, EnvTyped',
           NEW t \in Workers, NEW p \in Steps, NEW c \in Files \cup {NoFile},
           NEW d \in SUBSET Files,
           pc' = [pc EXCEPT ![t] = p],
           cur' = [cur EXCEPT ![t] = c],
           todo' = [todo EXCEPT ![t] = d],
           quota' \in 0..Quota,
           t # Loop => quota' = quota,
           p \in TransferSteps => c \in Files,
           p \in ReconcileSteps => t = Loop,
           t = Loop /\ p \in {"select", "claim"} \cup TransferSteps => quota' > 0,
           p \in PurgeSteps => c \in Files /\ job[c].verified,
           p \in PurgeSteps \cup {"purgeNext"} => \A f \in d : job[f].verified
    PROVE  StepKeeps
<1>1. TypeOK'
  BY DEF QueueInvariant, TypeOK, EnvTyped, RowsKept
<1>2. Loop \in Workers
  BY DEF Workers
<1>3. ThreadsInPlace'
  BY <1>2 DEF QueueInvariant, TypeOK, ThreadsInPlace
<1>4. LeaseAndVerificationAgree'
  BY DEF LeaseAndVerificationAgree, RowsKept, RowAgrees
<1>5. PurgersHoldVerified'
  <2> SUFFICES ASSUME NEW u \in Workers
               PROVE  /\ pc'[u] \in PurgeSteps => cur'[u] \in Files /\ job'[cur'[u]].verified
                      /\ pc'[u] = "purgeNext" => \A f \in todo'[u] : job'[f].verified
                      /\ pc'[u] \in PurgeSteps => \A f \in todo'[u] : job'[f].verified
    BY DEF PurgersHoldVerified
  <2>1. CASE u = t
    BY <2>1 DEF RowsKept, QueueInvariant, TypeOK
  <2>2. CASE u # t
    <3>1. pc'[u] = pc[u] /\ cur'[u] = cur[u] /\ todo'[u] = todo[u] /\ todo[u] \subseteq Files
      BY <2>2 DEF QueueInvariant, TypeOK
    <3> QED
      BY <3>1 DEF QueueInvariant, PurgersHoldVerified, RowsKept
  <2> QED
    BY <2>1, <2>2
<1> QED
  BY <1>1, <1>3, <1>4, <1>5 DEF QueueInvariant, StepKeeps

\* A step of thread t that only moves its control, besides what it does to rows and
\* objects.
LEMMA GotoStep ==
    ASSUME QueueInvariant, RowsKept, EnvTyped',
           NEW t \in Workers, NEW p \in Steps,
           Goto(t, p), UNCHANGED <<cur, todo, quota>>,
           p \in TransferSteps => cur[t] \in Files,
           p \in ReconcileSteps => t = Loop,
           t = Loop /\ p \in {"select", "claim"} \cup TransferSteps => quota > 0,
           p \in PurgeSteps => cur[t] \in Files /\ job[cur[t]].verified,
           p \in PurgeSteps \cup {"purgeNext"} => \A f \in todo[t] : job[f].verified
    PROVE  StepKeeps
<1> DEFINE c == cur[t]
           d == todo[t]
<1>1. c \in Files \cup {NoFile} /\ d \in SUBSET Files /\ quota \in 0..Quota
  BY DEF QueueInvariant, TypeOK
<1>2. /\ pc' = [pc EXCEPT ![t] = p]
      /\ cur' = [cur EXCEPT ![t] = c]
      /\ todo' = [todo EXCEPT ![t] = d]
      /\ quota' = quota
  BY DEF QueueInvariant, TypeOK, Goto
<1>3. /\ p \in TransferSteps => c \in Files
      /\ t = Loop /\ p \in {"select", "claim"} \cup TransferSteps => quota' > 0
      /\ p \in PurgeSteps => c \in Files /\ job[c].verified
      /\ p \in PurgeSteps \cup {"purgeNext"} => \A f \in d : job[f].verified
  BY <1>2
<1> HIDE DEF c, d
<1> QED
  BY <1>1, <1>2, <1>3, ThreadStep

\* A step that moves no thread.
LEMMA RowStep ==
    ASSUME QueueInvariant, RowsKept, EnvTyped', UNCHANGED <<pc, cur, todo, quota>>
    PROVE  StepKeeps
<1>1. TypeOK'
  BY DEF QueueInvariant, TypeOK, EnvTyped, RowsKept
<1>2. ThreadsInPlace'
  BY DEF QueueInvariant, ThreadsInPlace
<1>3. LeaseAndVerificationAgree'
  BY DEF LeaseAndVerificationAgree, RowsKept, RowAgrees
<1>4. PurgersHoldVerified'
  <2>1. \A u \in Workers : todo[u] \subseteq Files
    BY DEF QueueInvariant, TypeOK
  <2> QED
    BY <2>1 DEF QueueInvariant, PurgersHoldVerified, RowsKept
<1> QED
  BY <1>1, <1>2, <1>3, <1>4 DEF QueueInvariant, StepKeeps

\* A control step inside a transfer stays inside it.
LEMMA TransferProceeds ==
    ASSUME QueueInvariant, NEW t \in Workers, NEW p \in TransferSteps,
           pc[t] \in TransferSteps, Proceed(t, p)
    PROVE  StepKeeps
<1>1. RowsKept
  BY RowsUnchanged DEF Proceed
<1>2. EnvTyped'
  BY DEF Proceed, EnvTyped, QueueInvariant, TypeOK
<1>3. p \in Steps /\ p \notin PurgeSteps \cup {"purgeNext"} /\ p \notin ReconcileSteps
  BY DEF Steps, TransferSteps, PurgeSteps, ReconcileSteps
<1>4. cur[t] \in Files /\ (t = Loop => quota > 0)
  BY DEF QueueInvariant, ThreadsInPlace
<1> QED
  BY <1>1, <1>2, <1>3, <1>4, GotoStep DEF Proceed

\* A control step inside the purge of a job stays inside it.
LEMMA PurgeProceeds ==
    ASSUME QueueInvariant, NEW t \in Workers, NEW p \in PurgeSteps,
           pc[t] \in PurgeSteps, Proceed(t, p)
    PROVE  StepKeeps
<1>1. RowsKept
  BY RowsUnchanged DEF Proceed
<1>2. EnvTyped'
  BY DEF Proceed, EnvTyped, QueueInvariant, TypeOK
<1>3. /\ p \in Steps
      /\ p \notin {"select", "claim"} \cup TransferSteps
      /\ p \notin ReconcileSteps
  BY DEF Steps, TransferSteps, PurgeSteps, ReconcileSteps
<1>4. cur[t] \in Files /\ job[cur[t]].verified /\ \A f \in todo[t] : job[f].verified
  BY DEF QueueInvariant, PurgersHoldVerified
<1> QED
  BY <1>1, <1>2, <1>3, <1>4, GotoStep DEF Proceed

\* transfer_one's return, seen from the invariant.
LEMMA ReturnsJob ==
    ASSUME QueueInvariant, RowsKept, EnvTyped',
           NEW t \in Workers, pc[t] \in TransferSteps, ReturnJob(t)
    PROVE  StepKeeps
<1> DEFINE p == IF t = Loop THEN (IF quota = 1 THEN "purge" ELSE "select") ELSE "idle"
<1>1. quota \in 0..Quota /\ Quota \in Nat /\ (t = Loop => quota > 0)
  BY ConstantsAssumption DEF QueueInvariant, TypeOK, ThreadsInPlace
<1>2. quota' \in 0..Quota /\ (t # Loop => quota' = quota) /\ (p = "select" => quota' > 0)
  BY <1>1 DEF ReturnJob
<1>3. pc' = [pc EXCEPT ![t] = p]
  BY DEF ReturnJob, Goto
<1>4. /\ cur' = [cur EXCEPT ![t] = NoFile]
      /\ todo' = [todo EXCEPT ![t] = todo[t]]
      /\ todo[t] \in SUBSET Files
  BY DEF ReturnJob, QueueInvariant, TypeOK
<1>5. p \in {"purge", "select", "idle"}
  OBVIOUS
<1> HIDE DEF p
<1>6. /\ p \in Steps /\ p # "claim"
      /\ p \notin TransferSteps /\ p \notin ReconcileSteps
      /\ p \notin PurgeSteps \cup {"purgeNext"}
  BY <1>5 DEF Steps, TransferSteps, PurgeSteps, ReconcileSteps
<1> QED
  BY <1>2, <1>3, <1>4, <1>6, ThreadStep

\* An exception that leaves the operation, seen from the invariant.
LEMMA RaiseRests ==
    ASSUME QueueInvariant, RowsKept, EnvTyped', NEW t \in Workers, Raise(t)
    PROVE  StepKeeps
<1>1. Rest(t) \in {"cycle", "idle"} /\ (Rest(t) = "cycle" => t = Loop)
  BY DEF Rest
<1>2. /\ Rest(t) \in Steps
      /\ Rest(t) \in ReconcileSteps => t = Loop
      /\ Rest(t) \notin {"select", "claim"} \cup TransferSteps
      /\ Rest(t) \notin PurgeSteps \cup {"purgeNext"}
  BY <1>1 DEF Steps, TransferSteps, PurgeSteps, ReconcileSteps
<1>3. /\ pc' = [pc EXCEPT ![t] = Rest(t)]
      /\ cur' = [cur EXCEPT ![t] = NoFile]
      /\ todo' = [todo EXCEPT ![t] = {}]
      /\ quota' = quota
      /\ quota \in 0..Quota
  BY DEF Raise, Goto, QueueInvariant, TypeOK
<1> QED
  BY <1>2, <1>3, ThreadStep

-----------------------------------------------------------------------------
(* Every action preserves the invariant *)

\* reconcile
LEMMA ReconcilePreserves ==
    ASSUME QueueInvariant, NEW t \in Workers, ReconcileStep(t)
    PROVE  StepKeeps
<1> pc[t] \in ReconcileSteps /\ t = Loop
  BY DEF ReconcileStep, RecoverExpiredLeases, ListReadyFiles, EnsureJob, EnsureRaises,
         ReconcileDone, ReconcileSteps, QueueInvariant, ThreadsInPlace
<1> USE DEF Steps, TransferSteps, PurgeSteps, ReconcileSteps
<1>1. CASE RecoverExpiredLeases(t)
  <2>1. RowsKept
    BY <1>1, RequeueKeepsRows DEF RecoverExpiredLeases
  <2>2. EnvTyped'
    BY <1>1 DEF RecoverExpiredLeases, EnvTyped, QueueInvariant, TypeOK
  <2> QED
    BY <1>1, <2>1, <2>2, GotoStep DEF RecoverExpiredLeases
<1>2. CASE ListReadyFiles(t)
  <2> DEFINE d == {f \in Files : job[f].state = "NOJOB"}
             c == cur[t]
  <2>1. RowsKept
    BY <1>2, RowsUnchanged DEF ListReadyFiles
  <2>2. EnvTyped'
    BY <1>2 DEF ListReadyFiles, EnvTyped, QueueInvariant, TypeOK
  <2>3. /\ pc' = [pc EXCEPT ![t] = "ensure"]
        /\ cur' = [cur EXCEPT ![t] = c]
        /\ todo' = [todo EXCEPT ![t] = d]
        /\ quota' = quota /\ quota \in 0..Quota
        /\ c \in Files \cup {NoFile} /\ d \in SUBSET Files
    BY <1>2 DEF ListReadyFiles, Goto, QueueInvariant, TypeOK
  <2> HIDE DEF c, d
  <2> QED
    BY <2>1, <2>2, <2>3, ThreadStep
<1>3. ASSUME NEW f \in Files, EnsureJob(t, f)
      PROVE  StepKeeps
  <2> DEFINE d == todo[t] \ {f}
             c == cur[t]
             j == BlankJob("TRANSFER_QUEUED")
  <2>1. RowsKept
    <3>1. CASE UNCHANGED job
      BY <3>1, RowsUnchanged
    <3>2. CASE job[f].state = "NOJOB" /\ job' = [job EXCEPT ![f] = j]
      <4>1. j \in Job /\ RowAgrees(j)
        BY DEF Job, BlankJob, JobStates, ClaimEligible, RowAgrees, Leased, Verified
      <4>2. ~job[f].verified
        BY <3>2 DEF QueueInvariant, LeaseAndVerificationAgree, Verified
      <4> HIDE DEF j
      <4> QED
        BY <3>2, <4>1, <4>2, RowUpdated
    <3> QED
      BY <1>3, <3>1, <3>2 DEF EnsureJob
  <2>2. EnvTyped'
    BY <1>3 DEF EnsureJob, EnvTyped, QueueInvariant, TypeOK
  <2>3. /\ pc' = [pc EXCEPT ![t] = "ensure"]
        /\ cur' = [cur EXCEPT ![t] = c]
        /\ todo' = [todo EXCEPT ![t] = d]
        /\ quota' = quota /\ quota \in 0..Quota
        /\ c \in Files \cup {NoFile} /\ d \in SUBSET Files
    BY <1>3 DEF EnsureJob, QueueInvariant, TypeOK
  <2> HIDE DEF c, d
  <2> QED
    BY <2>1, <2>2, <2>3, ThreadStep
<1>4. CASE EnsureRaises(t)
  <2>1. RowsKept
    BY <1>4, RowsUnchanged DEF EnsureRaises
  <2>2. EnvTyped'
    BY <1>4 DEF EnsureRaises, EnvTyped, QueueInvariant, TypeOK
  <2> QED
    BY <1>4, <2>1, <2>2, RaiseRests DEF EnsureRaises
<1>5. CASE ReconcileDone(t)
  <2> DEFINE d == todo[t]
             c == cur[t]
  <2>1. RowsKept
    BY <1>5, GraceKeepsRows DEF ReconcileDone
  <2>2. EnvTyped'
    BY <1>5 DEF ReconcileDone, EnvTyped, QueueInvariant, TypeOK
  <2>3. /\ pc' = [pc EXCEPT ![t] = "select"]
        /\ cur' = [cur EXCEPT ![t] = c]
        /\ todo' = [todo EXCEPT ![t] = d]
        /\ quota' = Quota /\ quota' \in 0..Quota /\ quota' > 0
        /\ c \in Files \cup {NoFile} /\ d \in SUBSET Files
    BY <1>5, ConstantsAssumption DEF ReconcileDone, Goto, QueueInvariant, TypeOK
  <2> HIDE DEF c, d
  <2> QED
    BY <2>1, <2>2, <2>3, ThreadStep
<1> QED
  BY <1>1, <1>2, <1>3, <1>4, <1>5 DEF ReconcileStep

\* claim_next
LEMMA ClaimPreserves ==
    ASSUME QueueInvariant, NEW t \in Workers, ClaimStep(t)
    PROVE  StepKeeps
<1> USE DEF Steps, TransferSteps, PurgeSteps, ReconcileSteps
<1> pc[t] \in {"select", "claim"} /\ (t = Loop => quota > 0)
  BY DEF ClaimStep, SelectCandidates, Claim, ClaimLost, ClaimNone, QueueInvariant, ThreadsInPlace
<1>1. CASE SelectCandidates(t)
  <2> DEFINE d == ClaimCandidates
             c == cur[t]
  <2>1. RowsKept
    BY <1>1, RowsUnchanged DEF SelectCandidates
  <2>2. EnvTyped'
    BY <1>1 DEF SelectCandidates, EnvTyped, QueueInvariant, TypeOK
  <2>3. /\ pc' = [pc EXCEPT ![t] = "claim"]
        /\ cur' = [cur EXCEPT ![t] = c]
        /\ todo' = [todo EXCEPT ![t] = d]
        /\ quota' = quota /\ quota \in 0..Quota
        /\ c \in Files \cup {NoFile} /\ d \in SUBSET Files
    BY <1>1 DEF SelectCandidates, ClaimCandidates, Goto, QueueInvariant, TypeOK
  <2> HIDE DEF c, d
  <2> QED
    BY <2>1, <2>2, <2>3, ThreadStep
<1>2. ASSUME NEW f \in Files, Claim(t, f)
      PROVE  StepKeeps
  <2> DEFINE j == [job[f] EXCEPT !.state = "TRANSFERRING", !.token = t, !.expired = FALSE]
  <2>1. RowsKept
    <3>1. job[f] \in Job /\ "TRANSFERRING" \in JobStates /\ t \in Workers \cup {NoWorker}
      BY DEF QueueInvariant, TypeOK, JobStates, Leased
    <3>2. j \in Job
      BY <3>1 DEF Job
    <3>3. j.state = "TRANSFERRING" /\ j.token = t /\ j.verified = job[f].verified
      BY <3>1 DEF Job
    <3>4. job' = [job EXCEPT ![f] = j]
      BY <1>2 DEF Claim
    <3> HIDE DEF j
    <3>5. ~job[f].verified
      BY <1>2 DEF Claim, QueueInvariant, LeaseAndVerificationAgree, ClaimEligible, Verified
    <3>6. RowAgrees(j)
      BY <3>3, <3>5, ConstantsAssumption DEF RowAgrees, Leased, Verified
    <3> QED
      BY <3>2, <3>4, <3>5, <3>6, RowUpdated
  <2>2. EnvTyped'
    BY <1>2 DEF Claim, EnvTyped, QueueInvariant, TypeOK
  <2>3. /\ pc' = [pc EXCEPT ![t] = "remoteCheck"]
        /\ cur' = [cur EXCEPT ![t] = f]
        /\ todo' = [todo EXCEPT ![t] = {}]
        /\ quota' = quota /\ quota \in 0..Quota
    BY <1>2 DEF Claim, Goto, QueueInvariant, TypeOK
  <2> QED
    BY <2>1, <2>2, <2>3, ThreadStep
<1>3. ASSUME NEW f \in Files, ClaimLost(t, f)
      PROVE  StepKeeps
  <2> DEFINE d == todo[t] \ {f}
             c == cur[t]
  <2>1. RowsKept
    BY <1>3, RowsUnchanged DEF ClaimLost
  <2>2. EnvTyped'
    BY <1>3 DEF ClaimLost, EnvTyped, QueueInvariant, TypeOK
  <2>3. /\ pc' = [pc EXCEPT ![t] = "claim"]
        /\ cur' = [cur EXCEPT ![t] = c]
        /\ todo' = [todo EXCEPT ![t] = d]
        /\ quota' = quota /\ quota \in 0..Quota
        /\ c \in Files \cup {NoFile} /\ d \in SUBSET Files
    BY <1>3 DEF ClaimLost, QueueInvariant, TypeOK
  <2> HIDE DEF c, d
  <2> QED
    BY <2>1, <2>2, <2>3, ThreadStep
<1>4. CASE ClaimNone(t)
  <2> DEFINE p == IF t = Loop THEN "purge" ELSE "idle"
  <2>1. RowsKept
    BY <1>4, RowsUnchanged DEF ClaimNone
  <2>2. EnvTyped'
    BY <1>4 DEF ClaimNone, EnvTyped, QueueInvariant, TypeOK
  <2>3. p \in {"purge", "idle"}
    OBVIOUS
  <2>4. Goto(t, p) /\ UNCHANGED <<cur, todo, quota>>
    BY <1>4 DEF ClaimNone
  <2> HIDE DEF p
  <2> QED
    BY <2>1, <2>2, <2>3, <2>4, GotoStep
<1> QED
  BY <1>1, <1>2, <1>3, <1>4 DEF ClaimStep

\* Rows that a thread updates under its lease: the row is well formed and unverified.
LEMMA LeasedRow ==
    ASSUME QueueInvariant, NEW t \in Workers, cur[t] \in Files, OwnsLease(t)
    PROVE  /\ job[cur[t]] \in Job
           /\ job[cur[t]].state \in Leased
           /\ ~job[cur[t]].verified
BY ConstantsAssumption
   DEF QueueInvariant, TypeOK, LeaseAndVerificationAgree, OwnsLease, Leased, Verified

\* The copy to the archive: steps that touch no row.
LEMMA CopyObjectsPreserves ==
    ASSUME QueueInvariant, NEW t \in Workers,
           \/ CheckRemote(t) \/ CheckLocal(t) \/ ReadLocal(t) \/ CheckTarget(t)
           \/ OpenTemp(t) \/ WriteTemp(t) \/ CheckTemp(t) \/ ReplaceTemp(t)
           \/ CheckPublished(t) \/ CheckFinal(t)
    PROVE  StepKeeps
<1> USE DEF TransferSteps
<1>1. CASE CheckRemote(t)
  BY <1>1, TransferProceeds DEF CheckRemote
<1>2. CASE CheckLocal(t)
  BY <1>2, TransferProceeds DEF CheckLocal
<1>3. CASE ReadLocal(t)
  BY <1>3, TransferProceeds DEF ReadLocal
<1>4. CASE CheckTarget(t)
  BY <1>4, TransferProceeds DEF CheckTarget
<1>5. CASE CheckTemp(t)
  BY <1>5, TransferProceeds DEF CheckTemp
<1>6. CASE CheckPublished(t)
  BY <1>6, TransferProceeds DEF CheckPublished
<1>7. CASE CheckFinal(t)
  BY <1>7, TransferProceeds DEF CheckFinal
<1>8. CASE OpenTemp(t) \/ WriteTemp(t) \/ ReplaceTemp(t)
  <2>1. cur[t] \in Files /\ (t = Loop => quota > 0)
    BY <1>8 DEF OpenTemp, WriteTemp, ReplaceTemp, QueueInvariant, ThreadsInPlace
  <2>2. RowsKept
    BY <1>8, RowsUnchanged DEF OpenTemp, WriteTemp, ReplaceTemp
  <2>3. EnvTyped'
    <3> USE DEF EnvTyped, QueueInvariant, TypeOK, Contents
    <3>1. CASE OpenTemp(t)
      BY <2>1, <3>1 DEF OpenTemp
    <3>2. CASE WriteTemp(t)
      BY <3>2 DEF WriteTemp
    <3>3. CASE ReplaceTemp(t)
      BY <3>3 DEF ReplaceTemp
    <3> QED
      BY <1>8, <3>1, <3>2, <3>3
  <2>4. PICK p \in {"writeTemp", "failRetry", "checkTemp", "postCheck"} :
            Goto(t, p) /\ UNCHANGED <<cur, todo, quota>>
    BY <1>8 DEF OpenTemp, WriteTemp, ReplaceTemp
  <2>5. p \in Steps /\ p \notin PurgeSteps \cup {"purgeNext"} /\ p \notin ReconcileSteps
    BY <2>4 DEF Steps, PurgeSteps, ReconcileSteps
  <2> QED
    BY <2>1, <2>2, <2>3, <2>4, <2>5, GotoStep
<1> QED
  BY <1>1, <1>2, <1>3, <1>4, <1>5, <1>6, <1>7, <1>8

\* The copy to the archive: steps that write the job's row, under its lease or not.
LEMMA CopyRowsPreserves ==
    ASSUME QueueInvariant, NEW t \in Workers,
           MarkRemoteVerifying(t) \/ MarkRemoteReady(t) \/ MarkFailure(t)
    PROVE  StepKeeps
<1> DEFINE f == cur[t]
<1>1. pc[t] \in TransferSteps
  BY DEF MarkRemoteVerifying, MarkRemoteReady, MarkFailure, TransferSteps
<1>2. f \in Files /\ (t = Loop => quota > 0)
  BY <1>1 DEF QueueInvariant, ThreadsInPlace
<1>3. EnvTyped'
  BY DEF MarkRemoteVerifying, MarkRemoteReady, MarkFailure, EnvTyped, QueueInvariant, TypeOK
<1>4. ASSUME UNCHANGED <<job, cur, todo, quota>>, Goto(t, "failPermanent")
      PROVE  StepKeeps
  <2>1. RowsKept
    BY <1>4, RowsUnchanged
  <2> QED
    BY <1>2, <1>3, <1>4, <2>1, GotoStep DEF Steps, TransferSteps, PurgeSteps, ReconcileSteps
<1>5. CASE MarkRemoteVerifying(t)
  <2>1. CASE OwnsLease(t)
    <3> DEFINE j == [job[f] EXCEPT !.state = "REMOTE_VERIFYING"]
    <3>1. job[f] \in Job /\ job[f].state \in Leased /\ ~job[f].verified
      BY <1>2, <2>1, LeasedRow
    <3>2. j \in Job
      BY <3>1 DEF Job, JobStates, Leased
    <3>3. j.state = "REMOTE_VERIFYING" /\ j.token = job[f].token /\ j.verified = job[f].verified
      BY <3>1 DEF Job
    <3>4. job[f].token # NoWorker
      BY <2>1, ConstantsAssumption DEF OwnsLease
    <3>5. job' = [job EXCEPT ![f] = j]
      BY <1>5, <2>1 DEF MarkRemoteVerifying
    <3>6. Goto(t, "finalCheck") /\ UNCHANGED <<cur, todo, quota>>
      BY <1>5, <2>1 DEF MarkRemoteVerifying
    <3> HIDE DEF j, f
    <3>7. RowAgrees(j)
      BY <3>1, <3>3, <3>4 DEF RowAgrees, Leased, Verified
    <3>8. RowsKept
      BY <1>2, <3>1, <3>2, <3>5, <3>7, RowUpdated
    <3> QED
      BY <1>2, <1>3, <3>6, <3>8, GotoStep
         DEF f, Steps, TransferSteps, PurgeSteps, ReconcileSteps
  <2>2. CASE ~OwnsLease(t)
    BY <1>4, <1>5, <2>2 DEF MarkRemoteVerifying
  <2> QED
    BY <2>1, <2>2
<1>6. CASE MarkRemoteReady(t)
  <2>1. CASE OwnsLease(t)
    <3> DEFINE j == ReadyJob(f)
    <3>1. job[f] \in Job /\ ~job[f].verified
      BY <1>2, <2>1, LeasedRow
    <3>2. j \in Job
      BY <3>1 DEF ReadyJob, Job, JobStates, Verified
    <3>3. j.state \in Verified /\ j.token = NoWorker /\ j.verified = TRUE
      BY <3>1 DEF ReadyJob, Job, Verified
    <3>4. job' = [job EXCEPT ![f] = j]
      BY <1>6, <2>1 DEF MarkRemoteReady
    <3> HIDE DEF j, f
    <3>5. RowAgrees(j)
      BY <3>3 DEF RowAgrees, Leased, Verified
    <3>6. RowsKept
      BY <1>2, <3>1, <3>2, <3>4, <3>5, RowUpdated
    <3> QED
      BY <1>1, <1>3, <1>6, <2>1, <3>6, ReturnsJob DEF MarkRemoteReady
  <2>2. CASE ~OwnsLease(t)
    BY <1>4, <1>6, <2>2 DEF MarkRemoteReady
  <2> QED
    BY <2>1, <2>2
<1>7. CASE MarkFailure(t)
  <2>1. CASE OwnsLease(t)
    <3> DEFINE s == IF pc[t] = "failRetry" THEN "TRANSFER_FAILED_RETRYABLE"
                    ELSE "TRANSFER_FAILED_PERMANENT"
               b == (pc[t] = "failPermanent")
               j == [job[f] EXCEPT !.state = s, !.due = b, !.token = NoWorker, !.expired = FALSE]
    <3>1. job[f] \in Job /\ ~job[f].verified
      BY <1>2, <2>1, LeasedRow
    <3>2. s \in {"TRANSFER_FAILED_RETRYABLE", "TRANSFER_FAILED_PERMANENT"} /\ b \in BOOLEAN
      OBVIOUS
    <3>3. job' = [job EXCEPT ![f] = j]
      BY <1>7, <2>1 DEF MarkFailure
    <3> HIDE DEF s, b
    <3>4. s \in JobStates /\ s \notin Leased \cup Verified
      BY <3>2 DEF JobStates, ClaimEligible, Leased, Verified
    <3>5. j \in Job
      BY <3>1, <3>2, <3>4 DEF Job
    <3>6. j.state = s /\ j.token = NoWorker /\ j.verified = job[f].verified
      BY <3>1 DEF Job
    <3> HIDE DEF j, f
    <3>7. RowAgrees(j)
      BY <3>1, <3>4, <3>6 DEF RowAgrees
    <3>8. RowsKept
      BY <1>2, <3>1, <3>3, <3>5, <3>7, RowUpdated
    <3> QED
      BY <1>1, <1>3, <1>7, <2>1, <3>8, ReturnsJob DEF MarkFailure
  <2>2. CASE ~OwnsLease(t)
    <3>1. RowsKept
      BY <1>7, <2>2, RowsUnchanged DEF MarkFailure
    <3> QED
      BY <1>3, <1>7, <2>2, <3>1, RaiseRests DEF MarkFailure
  <2> QED
    BY <2>1, <2>2
<1> QED
  BY <1>5, <1>6, <1>7

\* purge_ready_local_copies
LEMMA PurgePreserves ==
    ASSUME QueueInvariant, NEW t \in Workers, PurgeStep(t)
    PROVE  StepKeeps
<1> USE DEF Steps, TransferSteps, PurgeSteps, ReconcileSteps
<1>1. CASE AdvanceGrace(t)
  <2>1. RowsKept
    BY <1>1, GraceKeepsRows DEF AdvanceGrace
  <2>2. EnvTyped'
    BY <1>1 DEF AdvanceGrace, EnvTyped, QueueInvariant, TypeOK
  <2> QED
    BY <1>1, <2>1, <2>2, GotoStep DEF AdvanceGrace
<1>2. CASE ListPurgeCandidates(t)
  <2> DEFINE d == PurgeCandidates
             c == cur[t]
  <2>1. RowsKept
    BY <1>2, RowsUnchanged DEF ListPurgeCandidates
  <2>2. EnvTyped'
    BY <1>2 DEF ListPurgeCandidates, EnvTyped, QueueInvariant, TypeOK
  <2>3. /\ pc' = [pc EXCEPT ![t] = "purgeNext"]
        /\ cur' = [cur EXCEPT ![t] = c]
        /\ todo' = [todo EXCEPT ![t] = d]
        /\ quota' = quota /\ quota \in 0..Quota
        /\ c \in Files \cup {NoFile} /\ d \in SUBSET Files
        /\ \A f \in d : job[f].verified
    BY <1>2 DEF ListPurgeCandidates, PurgeCandidates, Goto, QueueInvariant, TypeOK
  <2> HIDE DEF c, d
  <2> QED
    BY <2>1, <2>2, <2>3, ThreadStep
<1>3. ASSUME NEW f \in Files, PurgeJob(t, f)
      PROVE  StepKeeps
  <2> DEFINE d == todo[t] \ {f}
  <2>1. RowsKept
    BY <1>3, RowsUnchanged DEF PurgeJob
  <2>2. EnvTyped'
    BY <1>3 DEF PurgeJob, EnvTyped, QueueInvariant, TypeOK
  <2>3. /\ pc' = [pc EXCEPT ![t] = "purgeRemote"]
        /\ cur' = [cur EXCEPT ![t] = f]
        /\ todo' = [todo EXCEPT ![t] = d]
        /\ quota' = quota /\ quota \in 0..Quota
        /\ d \in SUBSET Files
    BY <1>3 DEF PurgeJob, Goto, QueueInvariant, TypeOK
  <2>4. job[f].verified /\ \A g \in d : job[g].verified
    BY <1>3 DEF PurgeJob, QueueInvariant, PurgersHoldVerified
  <2> HIDE DEF d
  <2> QED
    BY <2>1, <2>2, <2>3, <2>4, ThreadStep
<1>4. CASE PurgeDone(t)
  <2>1. RowsKept
    BY <1>4, RowsUnchanged DEF PurgeDone
  <2>2. EnvTyped'
    BY <1>4 DEF PurgeDone, EnvTyped, QueueInvariant, TypeOK
  <2>3. Rest(t) \in {"cycle", "idle"} /\ (Rest(t) = "cycle" => t = Loop)
    BY DEF Rest
  <2> QED
    BY <1>4, <2>1, <2>2, <2>3, GotoStep DEF PurgeDone
<1>5. CASE PurgeCheckRemote(t)
  BY <1>5, PurgeProceeds DEF PurgeCheckRemote
<1>6. CASE PurgeCheckLocal(t) \/ PurgeCheckGone(t)
  BY <1>6, PurgeProceeds DEF PurgeCheckLocal, PurgeCheckGone
<1>7. ASSUME pc[t] \in PurgeSteps
      PROVE  cur[t] \in Files /\ job[cur[t]].verified /\ \A f \in todo[t] : job[f].verified
  BY <1>7 DEF QueueInvariant, PurgersHoldVerified
<1>8. CASE PurgeDelete(t)
  <2>1. RowsKept
    BY <1>8, RowsUnchanged DEF PurgeDelete
  <2>2. EnvTyped'
    BY <1>8 DEF PurgeDelete, EnvTyped, QueueInvariant, TypeOK, Contents
  <2>3. PICK p \in {"purgeGone", "purgeFail"} : Goto(t, p)
    BY <1>8 DEF PurgeDelete
  <2> QED
    BY <1>7, <1>8, <2>1, <2>2, <2>3, GotoStep DEF PurgeDelete
<1>9. CASE MarkLocalPurged(t) \/ MarkLocalDeleteFailed(t)
  <2> DEFINE f == cur[t]
             d == todo[t]
             purged == [job[f] EXCEPT !.state = "ARCHIVED_REMOTE_ONLY", !.purged = TRUE]
             pending == [job[f] EXCEPT !.state = "LOCAL_PURGE_PENDING"]
  <2>1. f \in Files /\ job[f].verified /\ \A g \in d : job[g].verified
    BY <1>7, <1>9 DEF MarkLocalPurged, MarkLocalDeleteFailed
  <2>2. EnvTyped'
    BY <1>9 DEF MarkLocalPurged, MarkLocalDeleteFailed, EnvTyped, QueueInvariant, TypeOK
  <2>3. job[f] \in Job /\ RowAgrees(job[f]) /\ {"ARCHIVED_REMOTE_ONLY", "LOCAL_PURGE_PENDING"} \subseteq JobStates
    BY <2>1 DEF QueueInvariant, TypeOK, LeaseAndVerificationAgree, RowAgrees, JobStates, Verified
  <2>4. \A j \in {purged, pending} :
           /\ j \in Job
           /\ j.state \in Verified /\ j.token = job[f].token /\ j.verified = job[f].verified
    BY <2>3 DEF Job, Verified
  <2>5. UNCHANGED job \/ \E j \in {purged, pending} : job' = [job EXCEPT ![f] = j]
    BY <1>9 DEF MarkLocalPurged, MarkLocalDeleteFailed
  <2>6. \/ Goto(t, "purgeFail") /\ UNCHANGED <<cur, todo, quota>>
        \/ /\ cur' = [cur EXCEPT ![t] = NoFile]
           /\ Goto(t, "purgeNext")
           /\ UNCHANGED <<todo, quota>>
    BY <1>9 DEF MarkLocalPurged, MarkLocalDeleteFailed
  <2>7. d \in SUBSET Files /\ quota \in 0..Quota /\ (todo' = todo => todo' = [todo EXCEPT ![t] = d])
    BY DEF QueueInvariant, TypeOK
  <2> HIDE DEF f, d, purged, pending
  <2>8. RowsKept
    <3>1. ASSUME NEW j \in {purged, pending}, job' = [job EXCEPT ![f] = j]
          PROVE  RowsKept
      <4>1. RowAgrees(j)
        BY <2>1, <2>3, <2>4 DEF RowAgrees, Leased, Verified
      <4> QED
        BY <2>1, <2>4, <3>1, <4>1, RowUpdated
    <3> QED
      BY <2>5, <3>1, RowsUnchanged
  <2>9. CASE Goto(t, "purgeFail") /\ UNCHANGED <<cur, todo, quota>>
    BY <2>1, <2>2, <2>8, <2>9, GotoStep DEF f, d
  <2>10. CASE /\ cur' = [cur EXCEPT ![t] = NoFile]
              /\ Goto(t, "purgeNext")
              /\ UNCHANGED <<todo, quota>>
    BY <2>1, <2>2, <2>7, <2>8, <2>10, ThreadStep DEF Goto
  <2> QED
    BY <2>6, <2>9, <2>10
<1> QED
  BY <1>1, <1>2, <1>3, <1>4, <1>5, <1>6, <1>8, <1>9 DEF PurgeStep

\* Uploads, manual retries and the clock: one row changes, no thread moves.
LEMMA RowActionsPreserve ==
    ASSUME QueueInvariant, NEW f \in Files, Upload(f) \/ RetryNow(f) \/ Clock(f)
    PROVE  StepKeeps
<1>1. EnvTyped' /\ UNCHANGED <<pc, cur, todo, quota>>
  <2>1. EnvTyped'
    BY ConstantsAssumption DEF Upload, RetryNow, Clock, ExpireLease, RetryDue, GraceElapses, Disrupt,
           EnvTyped, QueueInvariant, TypeOK, Contents
  <2> QED
    BY <2>1 DEF Upload, RetryNow, Clock, ExpireLease, RetryDue, GraceElapses
<1>2. job[f] \in Job /\ RowAgrees(job[f])
  BY DEF QueueInvariant, TypeOK, LeaseAndVerificationAgree, RowAgrees
<1>3. ASSUME NEW j \in Job, RowAgrees(j), job[f].verified => j.verified,
             job' = [job EXCEPT ![f] = j]
      PROVE  StepKeeps
  <2>1. RowsKept
    BY <1>3, RowUpdated
  <2> QED
    BY <1>1, <2>1, RowStep
<1>4. CASE Upload(f)
  <2>1. PICK s \in {"TRANSFER_QUEUED", "NOJOB"} : job' = [job EXCEPT ![f] = BlankJob(s)]
    BY <1>4 DEF Upload
  <2>2. BlankJob(s) \in Job /\ RowAgrees(BlankJob(s))
    BY DEF BlankJob, Job, JobStates, ClaimEligible, RowAgrees, Leased, Verified
  <2>3. ~job[f].verified
    BY <1>2, <1>4 DEF Upload, RowAgrees, Verified
  <2> QED
    BY <1>3, <2>1, <2>2, <2>3
<1>5. CASE RetryNow(f)
  <2> DEFINE j == [job[f] EXCEPT !.state = "TRANSFER_QUEUED", !.due = TRUE,
                                 !.token = NoWorker, !.expired = FALSE]
  <2>1. j \in Job
    BY <1>2 DEF Job, JobStates, ClaimEligible
  <2>2. j.state = "TRANSFER_QUEUED" /\ j.token = NoWorker /\ j.verified = job[f].verified
    BY <1>2 DEF Job
  <2>3. job' = [job EXCEPT ![f] = j]
    BY <1>5 DEF RetryNow
  <2> HIDE DEF j
  <2>4. ~job[f].verified
    BY <1>2, <1>5 DEF RetryNow, TransferRetryEligible, RowAgrees, Verified
  <2>5. RowAgrees(j)
    BY <2>2, <2>4 DEF RowAgrees, Leased, Verified
  <2> QED
    BY <1>3, <2>1, <2>3, <2>4, <2>5
<1>6. CASE Clock(f)
  <2> DEFINE expired == [job[f] EXCEPT !.expired = TRUE]
             due == [job[f] EXCEPT !.due = TRUE]
             over == [job[f] EXCEPT !.graceOver = TRUE]
  <2>1. \A j \in {expired, due, over} :
           /\ j \in Job
           /\ j.state = job[f].state /\ j.token = job[f].token /\ j.verified = job[f].verified
    BY <1>2 DEF Job
  <2>2. PICK j \in {expired, due, over} : job' = [job EXCEPT ![f] = j]
    BY <1>6 DEF Clock, ExpireLease, RetryDue, GraceElapses
  <2> HIDE DEF expired, due, over
  <2>3. RowAgrees(j)
    BY <1>2, <2>1 DEF RowAgrees
  <2> QED
    BY <1>3, <2>1, <2>2, <2>3
<1> QED
  BY <1>4, <1>5, <1>6

\* Outages, tampering, the start of a request and the restart of the process.
LEMMA EnvironmentPreserves ==
    ASSUME QueueInvariant,
           \/ \E t \in Workers : AdminRequest(t)
           \/ \E f \in Files : Tamper(f)
           \/ \E r \in {"local", "archive"} : RootDown(r) \/ RootUp(r)
           \/ Crash
    PROVE  StepKeeps
<1>1. RowsKept
  BY RowsUnchanged DEF AdminRequest, Proceed, Tamper, RootDown, RootUp, Crash
<1>2. ASSUME NEW t \in Workers, AdminRequest(t)
      PROVE  StepKeeps
  <2>1. EnvTyped'
    BY <1>2 DEF AdminRequest, Proceed, EnvTyped, QueueInvariant, TypeOK
  <2>2. PICK p \in {"select", "purge"} : Proceed(t, p)
    BY <1>2 DEF AdminRequest
  <2>3. t # Loop
    BY <1>2, ConstantsAssumption DEF AdminRequest
  <2> QED
    BY <1>1, <2>1, <2>2, <2>3, GotoStep
       DEF Proceed, Steps, TransferSteps, PurgeSteps, ReconcileSteps
<1>3. ASSUME NEW f \in Files, Tamper(f)
      PROVE  StepKeeps
  <2>1. EnvTyped'
    BY <1>3, ConstantsAssumption DEF Tamper, Disrupt, EnvTyped, QueueInvariant, TypeOK, Contents
  <2> QED
    BY <1>1, <1>3, <2>1, RowStep DEF Tamper
<1>4. ASSUME NEW r \in {"local", "archive"}, RootDown(r) \/ RootUp(r)
      PROVE  StepKeeps
  <2>1. EnvTyped'
    <3> USE DEF EnvTyped, QueueInvariant, TypeOK
    <3>1. CASE RootDown(r)
      <4>1. faults' \in 0..MaxFaults
        BY <3>1, ConstantsAssumption DEF RootDown, Disrupt
      <4>2. up' \subseteq {"local", "archive"}
        BY <3>1 DEF RootDown
      <4> QED
        BY <3>1, <4>1, <4>2 DEF RootDown
    <3>2. CASE RootUp(r)
      <4>1. up' \subseteq {"local", "archive"}
        BY <3>2 DEF RootUp
      <4> QED
        BY <3>2, <4>1 DEF RootUp
    <3> QED
      BY <1>4, <3>1, <3>2
  <2> QED
    BY <1>1, <1>4, <2>1, RowStep DEF RootDown, RootUp
<1>5. CASE Crash
  <2>1. \A t \in Workers : Rest(t) \in {"cycle", "idle"} /\ (Rest(t) = "cycle" => t = Loop)
    BY DEF Rest
  <2>2. \A t \in Workers : /\ Rest(t) \in Steps
                           /\ Rest(t) \in ReconcileSteps => t = Loop
                           /\ Rest(t) \notin {"select", "claim"} \cup TransferSteps
                           /\ Rest(t) \notin PurgeSteps \cup {"purgeNext"}
    BY <2>1 DEF Steps, TransferSteps, PurgeSteps, ReconcileSteps
  <2>3. /\ pc' = [t \in Workers |-> Rest(t)]
        /\ cur' = [t \in Workers |-> NoFile]
        /\ todo' = [t \in Workers |-> {}]
        /\ quota' = Quota /\ quota' \in 0..Quota
    BY <1>5, ConstantsAssumption DEF Crash
  <2>4. EnvTyped'
    BY <1>5, ConstantsAssumption DEF Crash, Disrupt, EnvTyped, QueueInvariant, TypeOK
  <2>5. TypeOK'
    BY <1>1, <2>2, <2>3, <2>4 DEF TypeOK, EnvTyped, RowsKept
  <2>6. ThreadsInPlace' /\ PurgersHoldVerified'
    BY <2>2, <2>3 DEF ThreadsInPlace, PurgersHoldVerified, Workers
  <2>7. LeaseAndVerificationAgree'
    BY <1>1 DEF LeaseAndVerificationAgree, RowsKept, RowAgrees
  <2> QED
    BY <1>1, <2>5, <2>6, <2>7 DEF QueueInvariant, StepKeeps
<1> QED
  BY <1>2, <1>3, <1>4, <1>5

-----------------------------------------------------------------------------
(* The theorems *)

\* Before the first upload there is no row to disagree and no thread at work.
LEMMA InitEstablishes == Init => QueueInvariant
<1> SUFFICES ASSUME Init PROVE QueueInvariant
  OBVIOUS
<1>1. \A t \in Workers : Rest(t) \in {"cycle", "idle"} /\ (Rest(t) = "cycle" => t = Loop)
  BY DEF Rest
<1>2. \A t \in Workers : /\ Rest(t) \in Steps
                         /\ Rest(t) \in ReconcileSteps => t = Loop
                         /\ Rest(t) \notin {"select", "claim"} \cup TransferSteps
                         /\ Rest(t) \notin PurgeSteps \cup {"purgeNext"}
  BY <1>1 DEF Steps, TransferSteps, PurgeSteps, ReconcileSteps
<1>3. BlankJob("NOFILE") \in Job /\ RowAgrees(BlankJob("NOFILE"))
  BY DEF BlankJob, Job, JobStates, RowAgrees, Leased, Verified
<1>4. TypeOK
  BY <1>2, <1>3, ConstantsAssumption DEF Init, TypeOK, Contents
<1>5. ThreadsInPlace /\ PurgersHoldVerified
  BY <1>2 DEF Init, ThreadsInPlace, PurgersHoldVerified, Workers
<1>6. LeaseAndVerificationAgree
  BY <1>3 DEF Init, LeaseAndVerificationAgree, RowAgrees
<1> QED
  BY <1>4, <1>5, <1>6 DEF QueueInvariant

\* Every step, and stuttering, preserves the invariant.
LEMMA NextPreserves == QueueInvariant /\ [Next]_vars => StepKeeps
<1> SUFFICES ASSUME QueueInvariant, [Next]_vars PROVE StepKeeps
  OBVIOUS
<1>1. ASSUME NEW t \in Workers, Step(t)
      PROVE  StepKeeps
  <2>1. CASE CopyStep(t)
    BY <2>1, CopyObjectsPreserves, CopyRowsPreserves DEF CopyStep
  <2> QED
    BY <1>1, <2>1, ReconcilePreserves, ClaimPreserves, PurgePreserves DEF Step
<1>2. ASSUME NEW f \in Files, Upload(f) \/ RetryNow(f) \/ Clock(f)
      PROVE  StepKeeps
  BY <1>2, RowActionsPreserve
<1>3. CASE \/ \E t \in Workers : AdminRequest(t)
           \/ \E f \in Files : Tamper(f)
           \/ \E r \in {"local", "archive"} : RootDown(r) \/ RootUp(r)
           \/ Crash
  BY <1>3, EnvironmentPreserves
<1>4. CASE UNCHANGED vars
  <2>1. RowsKept /\ EnvTyped'
    BY <1>4, RowsUnchanged DEF vars, EnvTyped, QueueInvariant, TypeOK
  <2> QED
    BY <1>4, <2>1, RowStep DEF vars
<1> QED
  BY <1>1, <1>2, <1>3, <1>4 DEF Next

\* The inductive invariant of the queue holds in every reachable state.
THEOREM QueueInvariantHolds == Spec => []QueueInvariant
<1>1. QueueInvariant /\ [Next]_vars => QueueInvariant'
  BY NextPreserves DEF StepKeeps
<1> QED
  BY <1>1, InitEstablishes, PTL DEF Spec

\* Rows, objects, streams and threads keep their shapes.
THEOREM TypeCorrect == Spec => []TypeOK
<1>1. QueueInvariant => TypeOK
  BY DEF QueueInvariant
<1> QED
  BY <1>1, QueueInvariantHolds, PTL

\* For any number of files and workers, a row is leased exactly while its job is being
\* transferred and verified exactly in the states behind mark_remote_ready.
THEOREM RowsAgree == Spec => []LeaseAndVerificationAgree
<1>1. QueueInvariant => LeaseAndVerificationAgree
  BY DEF QueueInvariant
<1> QED
  BY <1>1, QueueInvariantHolds, PTL

\* However stale its candidate list, a purging thread holds verified jobs only.
THEOREM PurgersAreSafe == Spec => []PurgersHoldVerified
<1>1. QueueInvariant => PurgersHoldVerified
  BY DEF QueueInvariant
<1> QED
  BY <1>1, QueueInvariantHolds, PTL

\* A verified job stays verified, unleased and out of the transfer queue, whatever
\* stale thread or request acts on it: the promise of TRANSFER_RETRY_ELIGIBLE_STATES.
THEOREM NeverRequeued == Spec => VerifiedNeverRequeued
<1>1. QueueInvariant /\ [Next]_vars =>
         [\A f \in Files : job[f].verified =>
            job'[f].verified /\ job'[f].state \in Verified /\ job'[f].token = NoWorker]_vars
  <2> SUFFICES ASSUME QueueInvariant, [Next]_vars, NEW f \in Files, job[f].verified
               PROVE  job'[f].verified /\ job'[f].state \in Verified /\ job'[f].token = NoWorker
    OBVIOUS
  <2>1. job'[f].verified /\ RowAgrees(job'[f])
    BY NextPreserves DEF StepKeeps, RowsKept
  <2> QED
    BY <2>1 DEF RowAgrees, Leased, Verified
<1> QED
  BY <1>1, QueueInvariantHolds, PTL DEF Spec, VerifiedNeverRequeued

\* The state of a job under a live lease changes in a step of the lease's thread only.
LEMMA LiveLeaseStep ==
    ASSUME QueueInvariant, [Next]_vars, NEW f \in Files,
           job[f].token # NoWorker, ~job[f].expired, job'[f].state # job[f].state
    PROVE  cur[job[f].token] = f /\ pc'[job[f].token] # pc[job[f].token]
<1>1. job[f].state \in Leased /\ job[f].state \notin Verified /\ ~job[f].verified
  BY DEF QueueInvariant, LeaseAndVerificationAgree, Leased, Verified
<1>2. job \in [Files -> Job] /\ pc \in [Workers -> Steps]
  BY DEF QueueInvariant, TypeOK
<1>3. job' # job
  OBVIOUS
<1>4. ASSUME NEW t \in Workers, Step(t)
      PROVE  cur[job[f].token] = f /\ pc'[job[f].token] # pc[job[f].token]
  <2>1. ASSUME RecoverExpiredLeases(t) PROVE FALSE
    BY <1>2, <2>1 DEF RecoverExpiredLeases, RequeueExpired
  <2>2. ASSUME job' = GraceAdvanced PROVE FALSE
    BY <1>1, <1>2, <2>2 DEF GraceAdvanced, Leased
  <2>3. ASSUME NEW g \in Files, EnsureJob(t, g) PROVE FALSE
    BY <1>1, <1>2, <2>3 DEF EnsureJob, Leased
  <2>4. ASSUME NEW g \in Files, Claim(t, g) PROVE FALSE
    BY <1>1, <1>2, <2>4 DEF Claim, LeaseFree, ClaimEligible, Leased
  <2>5. CASE MarkRemoteVerifying(t) \/ MarkRemoteReady(t) \/ MarkFailure(t)
    <3>1. pc[t] \in TransferSteps /\ cur[t] \in Files
      BY <2>5 DEF MarkRemoteVerifying, MarkRemoteReady, MarkFailure, TransferSteps,
                  QueueInvariant, ThreadsInPlace
    <3>2. OwnsLease(t)
      BY <1>3, <2>5 DEF MarkRemoteVerifying, MarkRemoteReady, MarkFailure
    <3>3. cur[t] = f
      BY <1>2, <2>5, <3>1 DEF MarkRemoteVerifying, MarkRemoteReady, MarkFailure
    <3>4. PICK p \in {"finalCheck", "purge", "select", "idle"} : pc' = [pc EXCEPT ![t] = p]
      BY <2>5, <3>2 DEF MarkRemoteVerifying, MarkRemoteReady, MarkFailure, ReturnJob, Goto
    <3>5. pc[t] \in {"markVerifying", "markReady", "failRetry", "failPermanent"}
      BY <2>5 DEF MarkRemoteVerifying, MarkRemoteReady, MarkFailure
    <3>6. pc'[t] # pc[t]
      BY <1>2, <3>4, <3>5
    <3> QED
      BY <3>2, <3>3, <3>6 DEF OwnsLease
  <2>6. ASSUME MarkLocalPurged(t) \/ MarkLocalDeleteFailed(t) PROVE FALSE
    <3>1. cur[t] \in Files /\ job[cur[t]].verified
      BY <2>6 DEF MarkLocalPurged, MarkLocalDeleteFailed, PurgeSteps, QueueInvariant,
                  PurgersHoldVerified
    <3>2. cur[t] = f
      BY <1>2, <1>3, <2>6, <3>1 DEF MarkLocalPurged, MarkLocalDeleteFailed
    <3> QED
      BY <1>1, <3>1, <3>2
  <2>7. CASE ReconcileStep(t)
    BY <1>3, <2>1, <2>2, <2>3, <2>7
       DEF ReconcileStep, ListReadyFiles, EnsureRaises, ReconcileDone
  <2>8. CASE ClaimStep(t)
    BY <1>3, <2>4, <2>8 DEF ClaimStep, SelectCandidates, ClaimLost, ClaimNone
  <2>9. CASE CopyStep(t)
    BY <1>3, <2>5, <2>9
       DEF CopyStep, CheckRemote, CheckLocal, ReadLocal, CheckTarget, OpenTemp, WriteTemp,
           CheckTemp, ReplaceTemp, CheckPublished, CheckFinal, Proceed
  <2>10. CASE PurgeStep(t)
    BY <1>3, <2>2, <2>6, <2>10
       DEF PurgeStep, AdvanceGrace, ListPurgeCandidates, PurgeJob, PurgeDone,
           PurgeCheckRemote, PurgeCheckLocal, PurgeDelete, PurgeCheckGone, Proceed
  <2> QED
    BY <1>4, <2>7, <2>8, <2>9, <2>10 DEF Step
<1>5. ASSUME NEW g \in Files, Upload(g) \/ RetryNow(g) \/ Clock(g) PROVE FALSE
  <2>1. CASE Upload(g)
    BY <1>1, <1>2, <2>1 DEF Upload, Leased
  <2>2. CASE RetryNow(g)
    BY <1>1, <1>2, <2>2 DEF RetryNow, TransferRetryEligible, Leased
  <2>3. CASE Clock(g)
    <3>1. job[g] \in Job
      BY <1>2
    <3>2. job'[g].state = job[g].state /\ \A h \in Files : h # g => job'[h] = job[h]
      BY <1>2, <2>3, <3>1 DEF Clock, ExpireLease, RetryDue, GraceElapses, Job
    <3> QED
      BY <3>2
  <2> QED
    BY <1>5, <2>1, <2>2, <2>3
<1>6. ASSUME \/ \E t \in Workers : AdminRequest(t)
             \/ \E g \in Files : Tamper(g)
             \/ \E r \in {"local", "archive"} : RootDown(r) \/ RootUp(r)
             \/ Crash
             \/ UNCHANGED vars
      PROVE  FALSE
  BY <1>3, <1>6 DEF AdminRequest, Proceed, Tamper, RootDown, RootUp, Crash, vars
<1> QED
  BY <1>4, <1>5, <1>6 DEF Next

\* Mutual exclusion by lease, for any number of workers: until it expires, nobody but
\* the thread that claimed the job moves it.
THEOREM LeasesAreExclusive == Spec => LiveLeaseIsExclusive
<1>1. QueueInvariant /\ [Next]_vars =>
         [\A f \in Files :
            (job[f].token # NoWorker /\ ~job[f].expired /\ job'[f].state # job[f].state)
                => LET t == job[f].token IN cur[t] = f /\ pc'[t] # pc[t]]_vars
  BY LiveLeaseStep
<1> QED
  BY <1>1, QueueInvariantHolds, PTL DEF Spec, LiveLeaseIsExclusive

-----------------------------------------------------------------------------
(* No loss unless two claims of the job wrote its temporary file together *)

\* Two claims of a job share .transfer-<job_id>.tmp.  Whenever two threads are between opening
\* it and renaming it for the same job, the history says so.
WritersRecorded ==
    \A t, u \in Workers :
        pc[t] \in Writing /\ pc[u] \in Writing /\ cur[t] = cur[u] /\ t # u => cur[t] \in shared

Excepted == tampered \cup shared

\* What is renamed over the final object is complete.
ReplacesFull ==
    \A t \in Workers : pc[t] = "replaceTemp" /\ cur[t] \notin shared => temp[cur[t]] = "full"

\* Of a file that is not excepted no object is wrong, and the local one is missing only before
\* the upload, or when the remote one is there and is committed as verified.
CopiesIntact ==
    \A f \in Files \ Excepted :
        /\ local[f] # "mismatch" /\ remote[f] # "mismatch"
        /\ local[f] = "absent" => job[f].state = "NOFILE" \/ (job[f].verified /\ remote[f] = "valid")

\* A purge that is past its check of the remote object relies on it.
PurgesCopied ==
    \A t \in Workers : pc[t] \in {"purgeLocal", "purgeDelete"} /\ cur[t] \notin Excepted =>
        remote[cur[t]] = "valid"

CopiesInvariant == WritersRecorded /\ ReplacesFull /\ CopiesIntact /\ PurgesCopied

\* The steps at which a thread relies on what it saw.
Relying == {"replaceTemp", "purgeLocal", "purgeDelete"}

\* A job row comes into being with an upload only.
LEMMA OnlyUploadsCreate ==
    ASSUME QueueInvariant, [Next]_vars, NEW f \in Files, job[f].state = "NOFILE",
           job'[f].state # "NOFILE"
    PROVE  Upload(f)
<1>1. /\ job[f].token = NoWorker /\ ~job[f].verified /\ NoWorker \notin Workers
      /\ job \in [Files -> Job]
  BY ConstantsAssumption
     DEF QueueInvariant, TypeOK, LeaseAndVerificationAgree, Leased, Verified
<1>2. job' # job
  OBVIOUS
<1>3. ASSUME NEW t \in Workers, Step(t) PROVE FALSE
  <2>1. ASSUME job' \in {RequeueExpired, GraceAdvanced} PROVE FALSE
    BY <1>1, <2>1 DEF RequeueExpired, GraceAdvanced, Leased
  <2>2. ASSUME NEW g \in Files, EnsureJob(t, g) \/ Claim(t, g) PROVE FALSE
    BY <1>1, <2>2 DEF EnsureJob, Claim, ClaimEligible
  <2>3. ASSUME MarkRemoteVerifying(t) \/ MarkRemoteReady(t) \/ MarkFailure(t) PROVE FALSE
    <3>1. pc[t] \in TransferSteps /\ cur[t] \in Files
      BY <2>3 DEF MarkRemoteVerifying, MarkRemoteReady, MarkFailure, TransferSteps,
                  QueueInvariant, ThreadsInPlace
    <3>2. OwnsLease(t)
      BY <1>2, <2>3 DEF MarkRemoteVerifying, MarkRemoteReady, MarkFailure
    <3>3. cur[t] = f
      BY <1>1, <2>3, <3>1 DEF MarkRemoteVerifying, MarkRemoteReady, MarkFailure
    <3> QED
      BY <1>1, <3>2, <3>3 DEF OwnsLease
  <2>4. ASSUME MarkLocalPurged(t) \/ MarkLocalDeleteFailed(t) PROVE FALSE
    <3>1. cur[t] \in Files /\ job[cur[t]].verified
      BY <2>4 DEF MarkLocalPurged, MarkLocalDeleteFailed, PurgeSteps, QueueInvariant,
                  PurgersHoldVerified
    <3>2. cur[t] = f
      BY <1>1, <1>2, <2>4, <3>1 DEF MarkLocalPurged, MarkLocalDeleteFailed
    <3> QED
      BY <1>1, <3>1, <3>2
  <2>5. CASE ReconcileStep(t)
    BY <1>2, <2>1, <2>2, <2>5
       DEF ReconcileStep, RecoverExpiredLeases, ListReadyFiles, EnsureRaises, ReconcileDone
  <2>6. CASE ClaimStep(t)
    BY <1>2, <2>2, <2>6 DEF ClaimStep, SelectCandidates, ClaimLost, ClaimNone
  <2>7. CASE CopyStep(t)
    BY <1>2, <2>3, <2>7
       DEF CopyStep, CheckRemote, CheckLocal, ReadLocal, CheckTarget, OpenTemp, WriteTemp,
           CheckTemp, ReplaceTemp, CheckPublished, CheckFinal, Proceed
  <2>8. CASE PurgeStep(t)
    BY <1>2, <2>1, <2>4, <2>8
       DEF PurgeStep, AdvanceGrace, ListPurgeCandidates, PurgeJob, PurgeDone,
           PurgeCheckRemote, PurgeCheckLocal, PurgeDelete, PurgeCheckGone, Proceed
  <2> QED
    BY <1>3, <2>5, <2>6, <2>7, <2>8 DEF Step
<1>4. ASSUME NEW g \in Files, RetryNow(g) \/ Clock(g) PROVE FALSE
  <2>1. CASE RetryNow(g)
    BY <1>1, <2>1 DEF RetryNow, TransferRetryEligible
  <2>2. CASE Clock(g)
    <3>1. job[g] \in Job
      BY <1>1
    <3>2. job'[g].state = job[g].state /\ \A h \in Files : h # g => job'[h] = job[h]
      BY <1>1, <2>2, <3>1 DEF Clock, ExpireLease, RetryDue, GraceElapses, Job
    <3> QED
      BY <3>2
  <2> QED
    BY <1>4, <2>1, <2>2
<1>5. ASSUME \/ \E t \in Workers : AdminRequest(t)
             \/ \E g \in Files : Tamper(g)
             \/ \E r \in {"local", "archive"} : RootDown(r) \/ RootUp(r)
             \/ Crash
             \/ UNCHANGED vars
      PROVE  FALSE
  BY <1>2, <1>5 DEF AdminRequest, Proceed, Tamper, RootDown, RootUp, Crash, vars
<1>6. ASSUME NEW g \in Files, Upload(g)
      PROVE  g = f
  BY <1>1, <1>6 DEF Upload
<1> QED
  BY <1>3, <1>4, <1>5, <1>6 DEF Next

\* The thread that moves; all but its last checks move it to a step where it relies on nothing.
LEMMA OneThreadMoves ==
    ASSUME QueueInvariant, NEW t \in Workers, Step(t)
    PROVE  /\ \A u \in Workers \ {t} : pc'[u] = pc[u] /\ cur'[u] = cur[u]
           /\ \/ pc'[t] \notin Relying \/ UNCHANGED <<pc, cur>>
              \/ CheckTemp(t) \/ PurgeCheckRemote(t) \/ PurgeCheckLocal(t)
<1>1. pc \in [Workers -> Steps] /\ cur \in [Workers -> Files \cup {NoFile}] /\ Rest(t) \notin Relying
  BY DEF QueueInvariant, TypeOK, Rest, Relying
<1>2. CASE ReconcileStep(t)
  BY <1>1, <1>2 DEF ReconcileStep, RecoverExpiredLeases, ListReadyFiles, EnsureJob, EnsureRaises,
                    ReconcileDone, Raise, Goto, Relying
<1>3. CASE ClaimStep(t)
  BY <1>1, <1>3 DEF ClaimStep, SelectCandidates, Claim, ClaimLost, ClaimNone, Goto, Relying
<1>4. CASE CopyStep(t)
  <2>1. CASE CheckRemote(t) \/ CheckTarget(t)
    <3>1. \E p : p \notin Relying /\ Proceed(t, p)
      BY <2>1 DEF CheckRemote, CheckTarget, Relying
    <3> QED
      BY <1>1, <3>1 DEF Proceed, Goto
  <2>2. CASE CheckLocal(t) \/ ReadLocal(t) \/ CheckPublished(t) \/ CheckFinal(t)
    BY <1>1, <2>2 DEF CheckLocal, ReadLocal, CheckPublished, CheckFinal, Proceed, Goto, Relying
  <2>3. CASE CheckTemp(t)
    BY <1>1, <2>3 DEF CheckTemp, Proceed, Goto
  <2>4. CASE OpenTemp(t) \/ WriteTemp(t) \/ ReplaceTemp(t)
    BY <1>1, <2>4 DEF OpenTemp, WriteTemp, ReplaceTemp, Goto, Relying
  <2>5. CASE MarkRemoteVerifying(t) \/ MarkRemoteReady(t) \/ MarkFailure(t)
    BY <1>1, <2>5 DEF MarkRemoteVerifying, MarkRemoteReady, MarkFailure, ReturnJob, Raise, Goto,
                      Relying
  <2> QED
    BY <1>4, <2>1, <2>2, <2>3, <2>4, <2>5 DEF CopyStep
<1>5. CASE PurgeStep(t)
  <2>1. CASE PurgeCheckRemote(t) \/ PurgeCheckLocal(t)
    BY <1>1, <2>1 DEF PurgeCheckRemote, PurgeCheckLocal, Proceed, Goto
  <2>2. CASE ~(PurgeCheckRemote(t) \/ PurgeCheckLocal(t))
    BY <1>1, <1>5, <2>2 DEF PurgeStep, AdvanceGrace, ListPurgeCandidates, PurgeJob, PurgeDone,
         PurgeDelete, PurgeCheckGone, MarkLocalPurged, MarkLocalDeleteFailed, Proceed, Goto, Relying
  <2> QED
    BY <2>1, <2>2
<1> QED
  BY <1>2, <1>3, <1>4, <1>5 DEF Step

\* The files that are excepted stay so.
LEMMA ExceptionsStay ==
    ASSUME [Next]_vars
    PROVE  tampered \subseteq tampered' /\ shared \subseteq shared'
<1>1. ASSUME NEW t \in Workers, Step(t)
      PROVE  UNCHANGED tampered /\ shared \subseteq shared'
  <2>1. CASE ReconcileStep(t) \/ ClaimStep(t)
    BY <2>1 DEF ReconcileStep, RecoverExpiredLeases, ListReadyFiles, EnsureJob, EnsureRaises,
         ReconcileDone, ClaimStep, SelectCandidates, Claim, ClaimLost, ClaimNone
  <2>2. CASE CopyStep(t)
    BY <2>2 DEF CopyStep, CheckRemote, CheckLocal, ReadLocal, CheckTarget, OpenTemp,
         WriteTemp, CheckTemp, ReplaceTemp, CheckPublished, CheckFinal, MarkRemoteVerifying,
         MarkRemoteReady, MarkFailure, Proceed
  <2>3. CASE PurgeStep(t)
    BY <2>3 DEF PurgeStep, AdvanceGrace, ListPurgeCandidates, PurgeJob, PurgeDone,
         PurgeCheckRemote, PurgeCheckLocal, PurgeDelete, PurgeCheckGone, MarkLocalPurged,
         MarkLocalDeleteFailed, Proceed
  <2> QED
    BY <1>1, <2>1, <2>2, <2>3 DEF Step
<1>2. CASE ~\E t \in Workers : Step(t)
  BY <1>2 DEF Next, AdminRequest, Proceed, Upload, RetryNow, Clock, ExpireLease, RetryDue,
              GraceElapses, Tamper, RootDown, RootUp, Crash, vars
<1> QED
  BY <1>1, <1>2

LEMMA OnlyOpeningShares ==
    ASSUME [Next]_vars
    PROVE  UNCHANGED shared \/ \E t \in Workers : OpenTemp(t)
<1>1. ASSUME NEW t \in Workers, Step(t)
      PROVE  UNCHANGED shared \/ OpenTemp(t)
  <2>1. CASE ReconcileStep(t) \/ ClaimStep(t)
    BY <2>1 DEF ReconcileStep, RecoverExpiredLeases, ListReadyFiles, EnsureJob, EnsureRaises,
         ReconcileDone, ClaimStep, SelectCandidates, Claim, ClaimLost, ClaimNone
  <2>2. CASE CopyStep(t)
    BY <2>2 DEF CopyStep, CheckRemote, CheckLocal, ReadLocal, CheckTarget,
         WriteTemp, CheckTemp, ReplaceTemp, CheckPublished, CheckFinal, MarkRemoteVerifying,
         MarkRemoteReady, MarkFailure, Proceed
  <2>3. CASE PurgeStep(t)
    BY <2>3 DEF PurgeStep, AdvanceGrace, ListPurgeCandidates, PurgeJob, PurgeDone,
         PurgeCheckRemote, PurgeCheckLocal, PurgeDelete, PurgeCheckGone, MarkLocalPurged,
         MarkLocalDeleteFailed, Proceed
  <2> QED
    BY <1>1, <2>1, <2>2, <2>3 DEF Step
<1>2. CASE ~\E t \in Workers : Step(t)
  BY <1>2 DEF Next, AdminRequest, Proceed, Upload, RetryNow, Clock, ExpireLease, RetryDue,
              GraceElapses, Tamper, RootDown, RootUp, Crash, vars
<1> QED
  BY <1>1, <1>2

\* A thread comes between opening and renaming a temp by opening it.
LEMMA WritersEnter ==
    ASSUME QueueInvariant, [Next]_vars, NEW u \in Workers, pc'[u] \in Writing
    PROVE  (pc[u] \in Writing /\ cur'[u] = cur[u]) \/ OpenTemp(u)
<1>1. pc \in [Workers -> Steps] /\ cur \in [Workers -> Files \cup {NoFile}] /\ Rest(u) \notin Writing
  BY DEF QueueInvariant, TypeOK, Rest, Writing
<1>2. ASSUME NEW t \in Workers, Step(t)
      PROVE  (pc[u] \in Writing /\ cur'[u] = cur[u]) \/ OpenTemp(u)
  <2>1. CASE t # u
    BY <1>2, <2>1, OneThreadMoves
  <2>2. CASE t = u
    <3>1. CASE ReconcileStep(t)
      BY <1>1, <2>2, <3>1 DEF ReconcileStep, RecoverExpiredLeases, ListReadyFiles, EnsureJob,
           EnsureRaises, ReconcileDone, Raise, Goto, Writing
    <3>2. CASE ClaimStep(t)
      BY <1>1, <2>2, <3>2 DEF ClaimStep, SelectCandidates, Claim, ClaimLost, ClaimNone, Goto, Writing
    <3>3. CASE CopyStep(t)
      <4>1. CASE CheckRemote(t) \/ CheckTarget(t)
        <5>1. \E p : p \notin Writing /\ Proceed(t, p)
          BY <4>1 DEF CheckRemote, CheckTarget, Writing
        <5> QED
          BY <1>1, <2>2, <5>1 DEF Proceed, Goto
      <4>2. CASE CheckLocal(t) \/ ReadLocal(t) \/ CheckPublished(t) \/ CheckFinal(t) \/ CheckTemp(t)
        BY <1>1, <2>2, <4>2 DEF CheckLocal, ReadLocal, CheckPublished, CheckFinal, CheckTemp, Proceed,
                                Goto, Writing
      <4>3. CASE WriteTemp(t) \/ ReplaceTemp(t)
        BY <1>1, <2>2, <4>3 DEF WriteTemp, ReplaceTemp, Goto, Writing
      <4>4. CASE MarkRemoteVerifying(t) \/ MarkRemoteReady(t) \/ MarkFailure(t)
        BY <1>1, <2>2, <4>4 DEF MarkRemoteVerifying, MarkRemoteReady, MarkFailure, ReturnJob, Raise,
                                Goto, Writing
      <4> QED
        BY <2>2, <3>3, <4>1, <4>2, <4>3, <4>4 DEF CopyStep
    <3>4. CASE PurgeStep(t)
      <4>1. CASE PurgeCheckLocal(t)
        <5>1. \E p \in PurgeSteps : pc' = [pc EXCEPT ![t] = p]
          BY <4>1 DEF PurgeCheckLocal, Proceed, Goto, PurgeSteps
        <5> QED
          BY <1>1, <2>2, <5>1 DEF PurgeSteps, Writing
      <4>2. CASE ~PurgeCheckLocal(t)
        BY <1>1, <2>2, <3>4, <4>2 DEF PurgeStep, AdvanceGrace, ListPurgeCandidates, PurgeJob, PurgeDone,
             PurgeCheckRemote, PurgeDelete, PurgeCheckGone, MarkLocalPurged,
             MarkLocalDeleteFailed, Proceed, Goto, Writing
      <4> QED
        BY <4>1, <4>2
    <3> QED
      BY <1>2, <3>1, <3>2, <3>3, <3>4 DEF Step
  <2> QED
    BY <2>1, <2>2
<1>3. ASSUME NEW t \in Workers, AdminRequest(t) PROVE pc[u] \in Writing /\ cur'[u] = cur[u]
  BY <1>1, <1>3 DEF AdminRequest, Proceed, Goto, Writing
<1>4. ASSUME \/ \E f \in Files : Upload(f) \/ RetryNow(f) \/ Clock(f) \/ Tamper(f)
             \/ \E r \in {"local", "archive"} : RootDown(r) \/ RootUp(r)
             \/ UNCHANGED vars
      PROVE  pc[u] \in Writing /\ cur'[u] = cur[u]
  BY <1>4 DEF Upload, RetryNow, Clock, ExpireLease, RetryDue, GraceElapses, Tamper, RootDown,
              RootUp, vars
<1>5. ~Crash
  BY <1>1 DEF Crash
<1> QED
  BY <1>2, <1>3, <1>4, <1>5 DEF Next

LEMMA WritersStayRecorded ==
    ASSUME QueueInvariant, WritersRecorded, [Next]_vars
    PROVE  WritersRecorded'
<1> SUFFICES ASSUME NEW t \in Workers, NEW u \in Workers, pc'[t] \in Writing, pc'[u] \in Writing,
                    cur'[t] = cur'[u], t # u
             PROVE  cur'[t] \in shared'
  BY DEF WritersRecorded
<1>1. ASSUME NEW v \in Workers, NEW w \in Workers, v # w, OpenTemp(v), pc'[w] \in Writing,
             cur'[v] = cur'[w], pc'[v] \in Writing
      PROVE  cur'[v] \in shared'
  <2>1. pc[w] \in Writing /\ cur[w] = cur[v] /\ cur'[v] = cur[v]
    BY <1>1 DEF OpenTemp, Goto, QueueInvariant, TypeOK
  <2>2. OthersBetween(v) # {}
    BY <1>1, <2>1 DEF OthersBetween
  <2>3. pc'[v] # "failRetry"
    BY <1>1 DEF Writing
  <2> QED
    BY <1>1, <2>1, <2>2, <2>3 DEF OpenTemp, Goto, QueueInvariant, TypeOK
<1>2. CASE OpenTemp(t) \/ OpenTemp(u)
  BY <1>1, <1>2
<1>3. CASE ~OpenTemp(t) /\ ~OpenTemp(u)
  BY <1>3, WritersEnter, ExceptionsStay DEF WritersRecorded
<1> QED
  BY <1>2, <1>3

\* A step that leaves the objects alone, and in which no thread comes to rely on one.
LEMMA QuietStep ==
    ASSUME QueueInvariant, [Next]_vars, CopiesInvariant, UNCHANGED <<local, remote, temp, tampered, shared>>,
           \A u \in Workers : pc'[u] \in Relying => pc'[u] = pc[u] /\ cur'[u] = cur[u]
    PROVE  CopiesInvariant'
<1>1. ReplacesFull' /\ PurgesCopied' /\ WritersRecorded'
  BY WritersStayRecorded DEF CopiesInvariant, ReplacesFull, PurgesCopied, Relying, Excepted
<1>2. CopiesIntact'
  <2>1. ASSUME NEW f \in Files, local[f] = "absent", job[f].state = "NOFILE"
        PROVE  job'[f].state = "NOFILE"
    <3>1. ASSUME Upload(f) PROVE FALSE
      BY <2>1, <3>1 DEF Upload, QueueInvariant, TypeOK
    <3> QED
      BY <2>1, <3>1, OnlyUploadsCreate
  <2>2. \A f \in Files : job[f].verified => job'[f].verified
    BY NextPreserves DEF StepKeeps, RowsKept
  <2> QED
    BY <2>1, <2>2 DEF CopiesInvariant, CopiesIntact, Excepted
<1> QED
  BY <1>1, <1>2 DEF CopiesInvariant

LEMMA StepKeepsCopies ==
    ASSUME QueueInvariant, CopiesInvariant, NEW t \in Workers, Step(t)
    PROVE  CopiesInvariant'
<1>1. /\ TypeOK /\ TypeOK' /\ ThreadsInPlace /\ [Next]_vars
      /\ \A f \in Files : job[f].verified => job'[f].verified
  BY NextPreserves DEF Next, QueueInvariant, StepKeeps, RowsKept
<1>0. WritersRecorded /\ WritersRecorded' /\ shared \subseteq shared'
  BY <1>1, WritersStayRecorded, ExceptionsStay DEF CopiesInvariant
<1>2. \A u \in Workers \ {t} : pc'[u] = pc[u] /\ cur'[u] = cur[u]
  BY OneThreadMoves
<1>3. CASE UNCHANGED <<local, remote, temp, tampered, shared>> /\ ~CheckTemp(t) /\ ~PurgeCheckRemote(t)
             /\ ~PurgeCheckLocal(t)
  BY <1>1, <1>3, OneThreadMoves, QuietStep
<1>4. CASE CheckTemp(t)
  <2>1. /\ UNCHANGED <<local, remote, temp, tampered, shared, job, cur>>
        /\ pc'[t] = "replaceTemp" => temp[cur[t]] = "full"
        /\ pc'[t] \notin {"purgeLocal", "purgeDelete"}
    BY <1>1, <1>4 DEF CheckTemp, Proceed, Goto, TypeOK
  <2> QED
    BY <1>0, <1>2, <2>1 DEF CopiesInvariant, ReplacesFull, CopiesIntact, PurgesCopied, Excepted
<1>5. CASE PurgeCheckRemote(t) \/ PurgeCheckLocal(t)
  <2>1. /\ UNCHANGED <<local, remote, temp, tampered, shared, job, cur>> /\ pc'[t] # "replaceTemp"
        /\ pc'[t] \in {"purgeLocal", "purgeDelete"} =>
              remote[cur[t]] = "valid" \/ pc[t] = "purgeLocal"
    BY <1>1, <1>5 DEF PurgeCheckRemote, PurgeCheckLocal, Proceed, Goto, TypeOK
  <2> QED
    BY <1>0, <1>2, <2>1 DEF CopiesInvariant, ReplacesFull, CopiesIntact, PurgesCopied, Excepted
<1>6. CASE OpenTemp(t)
  <2>1. /\ UNCHANGED <<local, remote, tampered, job, cur>> /\ pc'[t] \in {"writeTemp", "failRetry"}
        /\ pc'[t] = "failRetry" => UNCHANGED temp
        /\ \A f \in Files : f # cur[t] => temp'[f] = temp[f]
    BY <1>1, <1>6 DEF OpenTemp, Goto, TypeOK
  <2>2. \A u \in Workers \ {t} : pc[u] = "replaceTemp" /\ cur[u] \notin shared' =>
            cur[u] \in Files /\ (pc'[t] = "writeTemp" => cur[u] # cur[t])
    BY <1>0, <1>1, <1>2, <2>1 DEF WritersRecorded, Writing, ThreadsInPlace, TransferSteps
  <2>3. ReplacesFull'
    BY <1>0, <1>2, <2>1, <2>2 DEF CopiesInvariant, ReplacesFull
  <2> QED
    BY <1>0, <1>2, <2>1, <2>3 DEF CopiesInvariant, CopiesIntact, PurgesCopied, Excepted
<1>7. CASE WriteTemp(t)
  <2>1. /\ UNCHANGED <<local, tampered, shared, job, cur>> /\ pc'[t] \in {"checkTemp", "failRetry"}
        /\ \A f \in Files : /\ temp'[f] = temp[f] \/ temp'[f] = "full"
                            /\ remote'[f] = remote[f] \/ remote'[f] = "valid"
    BY <1>1, <1>7 DEF WriteTemp, Goto, TypeOK
  <2>2. \A u \in Workers : /\ pc[u] = "replaceTemp" => cur[u] \in Files
                           /\ pc[u] \in {"purgeLocal", "purgeDelete"} => cur[u] \in Files
    BY <1>1 DEF QueueInvariant, PurgersHoldVerified, PurgeSteps, ThreadsInPlace, TransferSteps
  <2>3. ReplacesFull' /\ PurgesCopied'
    BY <1>2, <2>1, <2>2 DEF CopiesInvariant, ReplacesFull, PurgesCopied, Excepted
  <2>4. CopiesIntact'
    BY <2>1 DEF CopiesInvariant, CopiesIntact, Excepted
  <2> QED
    BY <1>0, <2>3, <2>4 DEF CopiesInvariant
<1>8. CASE ReplaceTemp(t)
  <2>1. pc[t] = "replaceTemp" /\ cur[t] \in Files /\ (cur[t] \notin shared => temp[cur[t]] = "full")
    BY <1>1, <1>8 DEF ReplaceTemp, ThreadsInPlace, TransferSteps, CopiesInvariant, ReplacesFull
  <2>2. /\ UNCHANGED <<local, tampered, shared, job, cur>> /\ pc'[t] \in {"postCheck", "failRetry"}
        /\ \A f \in Files : /\ f # cur[t] => temp'[f] = temp[f]
                            /\ f \notin shared => remote'[f] = remote[f] \/ remote'[f] = "valid"
    BY <1>1, <1>8, <2>1 DEF ReplaceTemp, Goto, TypeOK
  <2>3. \A u \in Workers \ {t} :
            /\ pc[u] = "replaceTemp" => cur[u] \in Files /\ (cur[u] = cur[t] => cur[u] \in shared)
            /\ pc[u] \in {"purgeLocal", "purgeDelete"} => cur[u] \in Files
    BY <1>0, <1>1, <2>1 DEF QueueInvariant, PurgersHoldVerified, PurgeSteps, ThreadsInPlace,
                            TransferSteps, WritersRecorded, Writing
  <2>4. ReplacesFull' /\ PurgesCopied'
    BY <1>2, <2>2, <2>3 DEF CopiesInvariant, ReplacesFull, PurgesCopied, Excepted
  <2>5. CopiesIntact'
    BY <2>2 DEF CopiesInvariant, CopiesIntact, Excepted
  <2> QED
    BY <1>0, <2>4, <2>5 DEF CopiesInvariant
<1>9. CASE PurgeDelete(t)
  <2>1. pc[t] = "purgeDelete" /\ cur[t] \in Files /\ job[cur[t]].verified
    BY <1>9 DEF PurgeDelete, QueueInvariant, PurgersHoldVerified, PurgeSteps
  <2>2. /\ UNCHANGED <<remote, temp, tampered, shared, job, cur>> /\ pc'[t] \in {"purgeGone", "purgeFail"}
        /\ \A f \in Files : local'[f] = local[f] \/ (f = cur[t] /\ local'[f] = "absent")
    BY <1>1, <1>9, <2>1 DEF PurgeDelete, Goto, TypeOK
  <2>3. ReplacesFull' /\ PurgesCopied'
    BY <1>2, <2>2 DEF CopiesInvariant, ReplacesFull, PurgesCopied, Excepted
  <2>4. cur[t] \notin Excepted => remote[cur[t]] = "valid"
    BY <2>1 DEF CopiesInvariant, PurgesCopied
  <2>5. CopiesIntact'
    BY <2>1, <2>2, <2>4 DEF CopiesInvariant, CopiesIntact, Excepted
  <2> QED
    BY <1>0, <2>3, <2>5 DEF CopiesInvariant
<1>10. \/ UNCHANGED <<local, remote, temp, tampered, shared>>
       \/ OpenTemp(t) \/ WriteTemp(t) \/ ReplaceTemp(t) \/ PurgeDelete(t)
  <2>1. CASE ReconcileStep(t) \/ ClaimStep(t)
    BY <2>1 DEF ReconcileStep, RecoverExpiredLeases, ListReadyFiles, EnsureJob, EnsureRaises,
                ReconcileDone, ClaimStep, SelectCandidates, Claim, ClaimLost, ClaimNone
  <2>2. CASE CopyStep(t)
    BY <2>2 DEF CopyStep, CheckRemote, CheckLocal, ReadLocal, CheckTarget, CheckTemp,
                CheckPublished, CheckFinal, MarkRemoteVerifying, MarkRemoteReady, MarkFailure, Proceed
  <2>3. CASE PurgeStep(t)
    BY <2>3 DEF PurgeStep, AdvanceGrace, ListPurgeCandidates, PurgeJob, PurgeDone, PurgeCheckRemote,
                PurgeCheckLocal, PurgeCheckGone, MarkLocalPurged, MarkLocalDeleteFailed, Proceed
  <2> QED
    BY <2>1, <2>2, <2>3 DEF Step
<1> QED
  BY <1>3, <1>4, <1>5, <1>6, <1>7, <1>8, <1>9, <1>10

LEMMA NextKeepsCopies ==
    ASSUME QueueInvariant, CopiesInvariant, [Next]_vars
    PROVE  CopiesInvariant'
<1>1. TypeOK /\ WritersRecorded'
  BY WritersStayRecorded DEF QueueInvariant, CopiesInvariant
<1>2. CASE \E t \in Workers : Step(t)
  BY <1>2, StepKeepsCopies
<1>3. ASSUME NEW t \in Workers, AdminRequest(t)
      PROVE  CopiesInvariant'
  <2>1. /\ UNCHANGED <<local, remote, temp, tampered, shared, cur>>
        /\ \A u \in Workers : pc'[u] \in Relying => pc'[u] = pc[u]
    BY <1>1, <1>3 DEF AdminRequest, Proceed, Goto, Relying, TypeOK
  <2> QED
    BY <2>1, QuietStep
<1>4. ASSUME NEW f \in Files, RetryNow(f) \/ Clock(f)
      PROVE  CopiesInvariant'
  <2>1. UNCHANGED <<local, remote, temp, tampered, shared, cur, pc>>
    BY <1>4 DEF RetryNow, Clock, ExpireLease, RetryDue, GraceElapses
  <2> QED
    BY <2>1, QuietStep
<1>5. ASSUME NEW f \in Files, Upload(f)
      PROVE  CopiesInvariant'
  <2>1. /\ UNCHANGED <<remote, temp, tampered, shared, cur, pc>>
        /\ local' = [local EXCEPT ![f] = "valid"]
        /\ \A g \in Files : g # f => job'[g] = job[g]
    BY <1>1, <1>5 DEF Upload, TypeOK
  <2>2. ReplacesFull' /\ PurgesCopied'
    BY <2>1 DEF CopiesInvariant, ReplacesFull, PurgesCopied, Excepted
  <2>3. CopiesIntact'
    BY <1>1, <2>1 DEF CopiesInvariant, CopiesIntact, Excepted, TypeOK
  <2> QED
    BY <1>1, <2>2, <2>3 DEF CopiesInvariant
<1>6. ASSUME NEW f \in Files, Tamper(f)
      PROVE  CopiesInvariant'
  <2>1. /\ UNCHANGED <<temp, cur, pc, job, shared>> /\ tampered' = tampered \cup {f}
        /\ \A g \in Files : g # f => local'[g] = local[g] /\ remote'[g] = remote[g]
    BY <1>1, <1>6 DEF Tamper, TypeOK
  <2>2. \A u \in Workers : pc[u] \in {"purgeLocal", "purgeDelete"} => cur[u] \in Files
    BY DEF QueueInvariant, PurgersHoldVerified, PurgeSteps
  <2>3. ReplacesFull' /\ PurgesCopied'
    BY <2>1, <2>2 DEF CopiesInvariant, ReplacesFull, PurgesCopied, Excepted
  <2>4. CopiesIntact'
    BY <2>1 DEF CopiesInvariant, CopiesIntact, Excepted
  <2> QED
    BY <1>1, <2>3, <2>4 DEF CopiesInvariant
<1>7. CASE (\E r \in {"local", "archive"} : RootDown(r) \/ RootUp(r)) \/ UNCHANGED vars
  <2>1. UNCHANGED <<local, remote, temp, tampered, shared, cur, pc>>
    BY <1>7 DEF RootDown, RootUp, vars
  <2> QED
    BY <2>1, QuietStep
<1>8. CASE Crash
  <2>1. UNCHANGED <<local, remote, temp, tampered, shared>> /\ \A u \in Workers : pc'[u] \notin Relying
    BY <1>8 DEF Crash, Rest, Relying
  <2> QED
    BY <2>1, QuietStep
<1> QED
  BY <1>2, <1>3, <1>4, <1>5, <1>6, <1>7, <1>8 DEF Next

LEMMA CopiesInvariantHolds == Spec => []CopiesInvariant
<1>1. Init => CopiesInvariant
  <2>1. Init => \A t \in Workers : pc[t] \notin Relying \cup Writing
    BY DEF Init, Rest, Relying, Writing
  <2> QED
    BY <2>1 DEF Init, CopiesInvariant, WritersRecorded, ReplacesFull, CopiesIntact, PurgesCopied, Relying,
                BlankJob
<1>2. QueueInvariant /\ CopiesInvariant /\ [Next]_vars => CopiesInvariant'
  BY NextKeepsCopies
<1> QED
  BY <1>1, <1>2, QueueInvariantHolds, PTL DEF Spec

\* An intact copy of every uploaded file survives, with any number of workers, stale leases,
\* outages and crashes, unless two claims of its job had the temporary file open together.
\* The name of that file, which claims of one job share, is all that can lose a file.
THEOREM NothingIsLost == Spec => []NoLoss
<1>1. QueueInvariant /\ CopiesInvariant => NoLoss
  <2> SUFFICES ASSUME QueueInvariant, CopiesInvariant, NEW f \in Files \ (tampered \cup shared),
                      job[f].state # "NOFILE"
               PROVE  local[f] = "valid" \/ remote[f] = "valid"
    BY DEF NoLoss
  <2>1. local[f] \in Contents
    BY DEF QueueInvariant, TypeOK
  <2> QED
    BY <2>1 DEF CopiesInvariant, CopiesIntact, Contents, Excepted
<1> QED
  BY <1>1, CopiesInvariantHolds, QueueInvariantHolds, PTL

-----------------------------------------------------------------------------
(* Leases that last keep the writers apart *)

\* No lease runs out under the thread that works on its job.
LeasesLast ==
    \A f \in Files, t \in Workers : Working(t, f) /\ job[f].token = t => ~job'[f].expired

LeaseHeld ==
    \A t \in Workers : pc[t] \in TransferSteps => job[cur[t]].token = t /\ ~job[cur[t]].expired

\* A thread inside a transfer that stays inside it keeps its job and its token.
LEMMA TransferKeepsLease ==
    ASSUME QueueInvariant, LeaseHeld, [Next]_vars, NEW u \in Workers,
           pc[u] \in TransferSteps, pc'[u] \in TransferSteps
    PROVE  cur'[u] = cur[u] /\ job'[cur[u]].token = u
<1> DEFINE f == cur[u]
<1>1. /\ f \in Files /\ job[f].token = u /\ ~job[f].expired /\ u # NoWorker
      /\ job[f].state \in Leased /\ ~job[f].verified
      /\ job \in [Files -> Job] /\ job[f] \in Job
      /\ pc \in [Workers -> Steps] /\ cur \in [Workers -> Files \cup {NoFile}]
  BY ConstantsAssumption DEF QueueInvariant, TypeOK, ThreadsInPlace, LeaseHeld,
     LeaseAndVerificationAgree, Leased, Verified
<1> HIDE DEF f
<1>2. cur[u] = f
  BY DEF f
<1>3. ASSUME NEW t \in Workers, Step(t)
      PROVE  cur'[u] = cur[u] /\ job'[f].token = u
  <2>1. t # u => cur'[u] = cur[u]
    BY <1>3, OneThreadMoves
  <2>2. CASE ReconcileStep(t)
    <3>1. t # u
      BY <1>1, <2>2 DEF ReconcileStep, RecoverExpiredLeases, ListReadyFiles, EnsureJob,
                        EnsureRaises, ReconcileDone, TransferSteps
    <3>2. job'[f] = job[f]
      BY <1>1, <2>2 DEF ReconcileStep, RecoverExpiredLeases, ListReadyFiles, EnsureJob,
           EnsureRaises, ReconcileDone, RequeueExpired, GraceAdvanced, Leased
    <3> QED
      BY <1>1, <2>1, <3>1, <3>2
  <2>3. CASE ClaimStep(t)
    <3>1. t # u
      BY <1>1, <2>3 DEF ClaimStep, SelectCandidates, Claim, ClaimLost, ClaimNone, TransferSteps
    <3>2. job'[f] = job[f]
      BY <1>1, <2>3 DEF ClaimStep, SelectCandidates, Claim, ClaimLost, ClaimNone, LeaseFree,
                        ClaimEligible, Leased
    <3> QED
      BY <1>1, <2>1, <3>1, <3>2
  <2>4. CASE CopyStep(t)
    <3>1. CASE MarkRemoteVerifying(t)
      BY <1>1, <1>2, <2>1, <3>1 DEF MarkRemoteVerifying, Job
    <3>2. CASE MarkRemoteReady(t) \/ MarkFailure(t)
      <4>1. cur[t] \in Files
        BY <3>2 DEF MarkRemoteReady, MarkFailure, QueueInvariant, ThreadsInPlace, TransferSteps
      <4>2. t # u
        <5>1. ASSUME t = u PROVE FALSE
          <6>1. OwnsLease(t)
            BY <1>1, <1>2, <5>1 DEF OwnsLease
          <6>2. pc'[t] \in {"purge", "select", "idle"}
            BY <1>1, <3>2, <5>1, <6>1 DEF MarkRemoteReady, MarkFailure, ReturnJob, Goto
          <6> QED
            BY <5>1, <6>2 DEF TransferSteps
        <5> QED
          BY <5>1
      <4>3. job'[f] = job[f]
        <5>1. CASE OwnsLease(t)
          <6>1. cur[t] # f
            BY <1>1, <4>2, <5>1 DEF OwnsLease
          <6> QED
            BY <1>1, <3>2, <4>1, <5>1, <6>1 DEF MarkRemoteReady, MarkFailure
        <5>2. CASE ~OwnsLease(t)
          BY <3>2, <5>2 DEF MarkRemoteReady, MarkFailure
        <5> QED
          BY <5>1, <5>2
      <4> QED
        BY <1>1, <2>1, <4>2, <4>3
    <3>3. CASE ~(MarkRemoteVerifying(t) \/ MarkRemoteReady(t) \/ MarkFailure(t))
      BY <1>1, <2>4, <3>3 DEF CopyStep, CheckRemote, CheckLocal, ReadLocal, CheckTarget, OpenTemp,
           WriteTemp, CheckTemp, ReplaceTemp, CheckPublished, CheckFinal, Proceed
    <3> QED
      BY <3>1, <3>2, <3>3
  <2>5. CASE PurgeStep(t)
    <3>1. t # u
      BY <1>1, <2>5 DEF PurgeStep, AdvanceGrace, ListPurgeCandidates, PurgeJob, PurgeDone,
           PurgeCheckRemote, PurgeCheckLocal, PurgeDelete, PurgeCheckGone, MarkLocalPurged,
           MarkLocalDeleteFailed, TransferSteps
    <3>2. CASE MarkLocalPurged(t) \/ MarkLocalDeleteFailed(t)
      <4>1. cur[t] \in Files /\ job[cur[t]].verified
        BY <3>2 DEF MarkLocalPurged, MarkLocalDeleteFailed, PurgeSteps, QueueInvariant,
                    PurgersHoldVerified
      <4>2. job'[f] = job[f]
        BY <1>1, <3>2, <4>1 DEF MarkLocalPurged, MarkLocalDeleteFailed
      <4> QED
        BY <1>1, <2>1, <3>1, <4>2
    <3>3. CASE ~(MarkLocalPurged(t) \/ MarkLocalDeleteFailed(t))
      <4>1. job'[f] = job[f]
        BY <1>1, <2>5, <3>3 DEF PurgeStep, AdvanceGrace, ListPurgeCandidates, PurgeJob, PurgeDone,
             PurgeCheckRemote, PurgeCheckLocal, PurgeDelete, PurgeCheckGone, Proceed,
             GraceAdvanced, Leased
      <4> QED
        BY <1>1, <2>1, <3>1, <4>1
    <3> QED
      BY <3>2, <3>3
  <2> QED
    BY <1>3, <2>2, <2>3, <2>4, <2>5 DEF Step
<1>4. ASSUME NEW g \in Files, Upload(g) \/ RetryNow(g) \/ Clock(g)
      PROVE  cur'[u] = cur[u] /\ job'[f].token = u
  <2>1. UNCHANGED cur
    BY <1>4 DEF Upload, RetryNow, Clock, ExpireLease, RetryDue, GraceElapses
  <2>2. CASE Upload(g)
    BY <1>1, <2>1, <2>2 DEF Upload, Leased
  <2>3. CASE RetryNow(g)
    BY <1>1, <2>1, <2>3 DEF RetryNow, TransferRetryEligible, Leased
  <2>4. CASE Clock(g)
    BY <1>1, <2>1, <2>4 DEF Clock, ExpireLease, RetryDue, GraceElapses, Job
  <2> QED
    BY <1>4, <2>2, <2>3, <2>4
<1>5. CASE \/ \E t \in Workers : AdminRequest(t)
           \/ \E g \in Files : Tamper(g)
           \/ \E r \in {"local", "archive"} : RootDown(r) \/ RootUp(r)
           \/ UNCHANGED vars
  BY <1>1, <1>2, <1>5 DEF AdminRequest, Proceed, Tamper, RootDown, RootUp, vars
<1>6. ~Crash
  BY DEF Crash, Rest, TransferSteps
<1> QED
  BY <1>2, <1>3, <1>4, <1>5, <1>6 DEF Next

LEMMA TransfersStartWithClaims ==
    ASSUME QueueInvariant, [Next]_vars, NEW u \in Workers,
           pc[u] \notin TransferSteps, pc'[u] \in TransferSteps
    PROVE  \E f \in Files : Claim(u, f)
<1>1. pc \in [Workers -> Steps] /\ Rest(u) \notin TransferSteps
  BY DEF QueueInvariant, TypeOK, Rest, TransferSteps
<1>2. ASSUME NEW t \in Workers, Step(t)
      PROVE  \E f \in Files : Claim(u, f)
  <2>1. t = u
    BY <1>2, OneThreadMoves
  <2>2. CASE ReconcileStep(t)
    BY <1>1, <2>1, <2>2 DEF ReconcileStep, RecoverExpiredLeases, ListReadyFiles, EnsureJob,
         EnsureRaises, ReconcileDone, Raise, Goto, TransferSteps
  <2>3. CASE ClaimStep(t)
    BY <1>1, <2>1, <2>3 DEF ClaimStep, SelectCandidates, ClaimLost, ClaimNone, Goto, TransferSteps
  <2>4. CASE CopyStep(t)
    BY <2>1, <2>4 DEF CopyStep, CheckRemote, CheckLocal, ReadLocal, CheckTarget, OpenTemp,
         WriteTemp, CheckTemp, ReplaceTemp, CheckPublished, MarkRemoteVerifying, CheckFinal,
         MarkRemoteReady, MarkFailure, TransferSteps
  <2>5. CASE PurgeStep(t)
    <3>1. CASE PurgeCheckLocal(t)
      <4>1. \E p \in PurgeSteps : pc' = [pc EXCEPT ![t] = p]
        BY <3>1 DEF PurgeCheckLocal, Proceed, Goto, PurgeSteps
      <4> QED
        BY <1>1, <2>1, <4>1 DEF PurgeSteps, TransferSteps
    <3>2. CASE ~PurgeCheckLocal(t)
      BY <1>1, <2>1, <2>5, <3>2 DEF PurgeStep, AdvanceGrace, ListPurgeCandidates, PurgeJob, PurgeDone,
           PurgeCheckRemote, PurgeDelete, PurgeCheckGone, MarkLocalPurged,
           MarkLocalDeleteFailed, Proceed, Goto, TransferSteps
    <3> QED
      BY <3>1, <3>2
  <2> QED
    BY <1>2, <2>2, <2>3, <2>4, <2>5 DEF Step
<1>3. ASSUME NEW t \in Workers, AdminRequest(t) PROVE FALSE
  BY <1>1, <1>3 DEF AdminRequest, Proceed, Goto, TransferSteps
<1>4. ASSUME \/ \E f \in Files : Upload(f) \/ RetryNow(f) \/ Clock(f) \/ Tamper(f)
             \/ \E r \in {"local", "archive"} : RootDown(r) \/ RootUp(r)
             \/ UNCHANGED vars
      PROVE  FALSE
  BY <1>4 DEF Upload, RetryNow, Clock, ExpireLease, RetryDue, GraceElapses, Tamper, RootDown,
              RootUp, vars
<1>5. ~Crash
  BY DEF Crash, Rest, TransferSteps
<1> QED
  BY <1>2, <1>3, <1>4, <1>5 DEF Next

LEMMA LeaseHeldStep ==
    ASSUME QueueInvariant, LeaseHeld, [Next]_vars, LeasesLast
    PROVE  LeaseHeld'
<1>1. SUFFICES ASSUME NEW u \in Workers, pc'[u] \in TransferSteps
               PROVE  job'[cur'[u]].token = u /\ ~job'[cur'[u]].expired
  BY DEF LeaseHeld
<1>2. CASE pc[u] \in TransferSteps
  <2>1. cur'[u] = cur[u] /\ job'[cur[u]].token = u
    BY <1>1, <1>2, TransferKeepsLease
  <2>2. cur[u] \in Files /\ Working(u, cur[u]) /\ job[cur[u]].token = u
    BY <1>2 DEF QueueInvariant, ThreadsInPlace, Working, LeaseHeld
  <2>3. ~job'[cur[u]].expired
    BY <2>2 DEF LeasesLast
  <2> QED
    BY <2>1, <2>3
<1>3. CASE pc[u] \notin TransferSteps
  <2>1. PICK f \in Files : Claim(u, f)
    BY <1>1, <1>3, TransfersStartWithClaims
  <2>2. job[f] \in Job /\ job \in [Files -> Job] /\ cur \in [Workers -> Files \cup {NoFile}]
    BY DEF QueueInvariant, TypeOK
  <2> QED
    BY <2>1, <2>2 DEF Claim, Job
<1> QED
  BY <1>2, <1>3

NothingShared == shared = {}

\* While no lease runs out under a thread that works on its job, a transfer has the lease of
\* its job, so two never have the same temporary file open and NoLoss excepts no file: the
\* only way to two writers is a transfer that takes longer than its lease.
THEOREM LeasesKeepWritersApart == Spec /\ [][LeasesLast]_vars => []NothingShared
<1>1. Init => LeaseHeld /\ NothingShared
  BY DEF Init, NothingShared, LeaseHeld, Rest, TransferSteps
<1>2. QueueInvariant /\ LeaseHeld /\ [Next]_vars /\ [LeasesLast]_vars => LeaseHeld'
  <2>1. CASE UNCHANGED vars
    BY <2>1 DEF LeaseHeld, vars
  <2> QED
    BY <2>1, LeaseHeldStep
<1>3. QueueInvariant /\ LeaseHeld /\ NothingShared /\ [Next]_vars => NothingShared'
  <2> SUFFICES ASSUME QueueInvariant, LeaseHeld, NothingShared, [Next]_vars
               PROVE  NothingShared'
    OBVIOUS
  <2>1. ASSUME NEW t \in Workers, OpenTemp(t) PROVE OthersBetween(t) = {}
    BY <2>1 DEF OpenTemp, OthersBetween, LeaseHeld, Writing, TransferSteps
  <2> QED
    BY <2>1, OnlyOpeningShares DEF OpenTemp, NothingShared
<1> QED
  BY <1>1, <1>2, <1>3, QueueInvariantHolds, PTL DEF Spec

-----------------------------------------------------------------------------
(* Downloads *)

\* A reader that is at work was asked for an uploaded file, whose local object it leaves only
\* after the archive's was committed as verified.
ReadersTyped ==
    /\ rpc \in [Readers -> {"idle", "verify", "readLocal", "getJob", "verifyAgain", "verifyRemote",
                            "readRemote"}]
    /\ rfile \in [Readers -> Files \cup {NoFile}]
    /\ rverified \in [Readers -> BOOLEAN]
    /\ answer \in [Readers -> {"none", "unavailable", "content", "wrong", "missing"}]
    /\ \A r \in Readers : rpc[r] # "idle" \/ answer[r] # "none" => rfile[r] \in Files
Looking(r) ==
    /\ rpc[r] # "idle" => local[rfile[r]] = "valid" \/ job[rfile[r]].verified
    /\ rpc[r] \in {"getJob", "verifyAgain", "verifyRemote", "readRemote"} => job[rfile[r]].verified
    /\ answer[r] # "wrong"
    /\ answer[r] = "missing" => job[rfile[r]].verified
ReadersInPlace == ReadersTyped /\ \A r \in Readers : rfile[r] \notin Excepted => Looking(r)

\* The local object of an untouched file is deleted behind the verification only.
LEMMA LocalLeavesVerified ==
    ASSUME QueueInvariant, [Next]_vars, NEW f \in Files, f \notin tampered',
           local[f] = "valid", local'[f] # "valid"
    PROVE  job[f].verified
<1>1. local \in [Files -> Contents] /\ local' # local
  BY DEF QueueInvariant, TypeOK
<1>2. ASSUME NEW t \in Workers, PurgeDelete(t)
      PROVE  job[f].verified
  <2>1. cur[t] \in Files /\ job[cur[t]].verified
    BY <1>2 DEF PurgeDelete, QueueInvariant, PurgersHoldVerified, PurgeSteps
  <2> QED
    BY <1>1, <1>2, <2>1 DEF PurgeDelete
<1>3. ASSUME NEW g \in Files, Upload(g) \/ Tamper(g)
      PROVE  FALSE
  BY <1>1, <1>3 DEF Upload, Tamper
<1>4. \/ \E t \in Workers : PurgeDelete(t)
      \/ \E g \in Files : Upload(g) \/ Tamper(g)
  <2>1. ASSUME NEW t \in Workers, Step(t)
        PROVE  PurgeDelete(t)
    <3>1. CASE ReconcileStep(t) \/ ClaimStep(t)
      BY <1>1, <3>1 DEF ReconcileStep, RecoverExpiredLeases, ListReadyFiles, EnsureJob, EnsureRaises,
           ReconcileDone, ClaimStep, SelectCandidates, Claim, ClaimLost, ClaimNone
    <3>2. CASE CopyStep(t)
      BY <1>1, <3>2 DEF CopyStep, CheckRemote, CheckLocal, ReadLocal, CheckTarget, OpenTemp,
           WriteTemp, CheckTemp, ReplaceTemp, CheckPublished, CheckFinal, MarkRemoteVerifying,
           MarkRemoteReady, MarkFailure, Proceed
    <3>3. CASE PurgeStep(t)
      BY <1>1, <3>3 DEF PurgeStep, AdvanceGrace, ListPurgeCandidates, PurgeJob, PurgeDone,
           PurgeCheckRemote, PurgeCheckLocal, PurgeCheckGone, MarkLocalPurged,
           MarkLocalDeleteFailed, Proceed
    <3> QED
      BY <2>1, <3>1, <3>2, <3>3 DEF Step
  <2>2. ~(\/ \E t \in Workers : AdminRequest(t)
          \/ \E g \in Files : RetryNow(g) \/ Clock(g)
          \/ \E r \in {"local", "archive"} : RootDown(r) \/ RootUp(r)
          \/ Crash \/ UNCHANGED vars)
    BY <1>1 DEF AdminRequest, Proceed, RetryNow, Clock, ExpireLease, RetryDue, GraceElapses,
                RootDown, RootUp, Crash, vars
  <2> QED
    BY <2>1, <2>2 DEF Next
<1> QED
  BY <1>2, <1>3, <1>4

LEMMA QueueKeepsReaders ==
    ASSUME QueueInvariant, ReadersInPlace, [Next]_vars, Excepted \subseteq Excepted',
           \/ UNCHANGED readVars
           \/ /\ rpc' = [r \in Readers |-> "idle"]
              /\ rfile' = [r \in Readers |-> NoFile]
              /\ rverified' = [r \in Readers |-> FALSE]
              /\ answer' = [r \in Readers |-> "none"]
    PROVE  ReadersInPlace'
<1>1. \A f \in Files : job[f].verified => job'[f].verified
  BY NextPreserves DEF StepKeeps, RowsKept
<1>2. CASE UNCHANGED readVars
  <2>1. ReadersTyped'
    BY <1>2 DEF ReadersInPlace, ReadersTyped, readVars
  <2>2. ASSUME NEW r \in Readers, rfile'[r] \notin Excepted'
        PROVE  Looking(r)'
    <3>1. UNCHANGED <<rpc, rfile, answer>> /\ Looking(r)
      BY <1>2, <2>2 DEF readVars, ReadersInPlace
    <3>2. rpc[r] # "idle" \/ answer[r] # "none" => rfile[r] \in Files
      BY DEF ReadersInPlace, ReadersTyped
    <3>3. rpc[r] # "idle" => local'[rfile[r]] = "valid" \/ job'[rfile[r]].verified
      BY <1>1, <2>2, <3>1, <3>2, LocalLeavesVerified DEF Looking, Excepted
    <3> QED
      BY <1>1, <3>1, <3>2, <3>3 DEF Looking
  <2> QED
    BY <2>1, <2>2 DEF ReadersInPlace
<1>3. CASE ~UNCHANGED readVars
  <2>1. ReadersTyped' /\ \A r \in Readers : rpc'[r] = "idle" /\ answer'[r] = "none"
    BY <1>3 DEF ReadersTyped
  <2> QED
    BY <2>1 DEF ReadersInPlace, Looking
<1> QED
  BY <1>2, <1>3

LEMMA ReadStepKeepsReaders ==
    ASSUME QueueInvariant, CopiesInvariant, ReadersInPlace, NEW r \in Readers, ReadStep(r)
    PROVE  ReadersInPlace'
<1>1. UNCHANGED <<local, remote, job, up, Excepted>>
  BY DEF ReadStep, vars, Excepted
<1>2. /\ rpc \in [Readers -> {"idle", "verify", "readLocal", "getJob", "verifyAgain",
                              "verifyRemote", "readRemote"}]
      /\ rfile \in [Readers -> Files \cup {NoFile}] /\ rverified \in [Readers -> BOOLEAN]
      /\ answer \in [Readers -> {"none", "unavailable", "content", "wrong", "missing"}]
      /\ rpc[r] # "idle" => rfile[r] \in Files
  BY DEF ReadersInPlace, ReadersTyped
<1>3. \A f \in Files : /\ local[f] \in Contents /\ remote[f] \in Contents
                       /\ job[f].verified \in BOOLEAN
  BY DEF QueueInvariant, TypeOK, Job
<1>4. \A f \in Files : f \notin Excepted =>
        /\ local[f] # "mismatch" /\ remote[f] # "mismatch"
        /\ job[f].state # "NOFILE" => local[f] = "valid" \/ job[f].verified
  BY <1>3 DEF CopiesInvariant, CopiesIntact, Contents
\* A step of the reader that goes on, and one that answers.
<1>5. ASSUME NEW step \in {"readLocal", "getJob", "verifyRemote", "readRemote"}, ReadGoto(r, step),
             rpc[r] # "idle",
             step # "readLocal" /\ rfile[r] \notin Excepted => job[rfile[r]].verified
      PROVE  ReadersInPlace'
  BY <1>1, <1>2, <1>5 DEF ReadGoto, ReadersInPlace, ReadersTyped, Looking
<1>6. ASSUME NEW a \in {"unavailable", "content", "wrong", "missing"}, Answer(r, a), rpc[r] # "idle",
             rfile[r] \notin Excepted => a # "wrong" /\ (a = "missing" => job[rfile[r]].verified)
      PROVE  ReadersInPlace'
  BY <1>1, <1>2, <1>6 DEF Answer, ReadersInPlace, ReadersTyped, Looking
<1>7. ASSUME NEW content \in Contents
      PROVE  /\ Served(content) \in {"unavailable", "content", "wrong", "missing"}
             /\ content # "mismatch" => Served(content) # "wrong"
             /\ Served(content) = "missing" => content # "valid"
  BY <1>7 DEF Served, Contents
<1>8. rpc[r] # "idle" /\ rfile[r] \notin Excepted => Looking(r)
  BY DEF ReadersInPlace
<1>9. ASSUME NEW f \in Files, StartDownload(r, f)
      PROVE  ReadersInPlace'
  BY <1>1, <1>2, <1>4, <1>9 DEF StartDownload, ReadersInPlace, ReadersTyped, Looking
<1>10. CASE VerifyLocal(r)
  <2>1. rpc[r] = "verify" /\ rfile[r] \in Files
    BY <1>2, <1>10 DEF VerifyLocal
  <2>2. CASE LocalUp
    BY <1>5, <1>8, <1>10, <2>1, <2>2 DEF VerifyLocal, Looking
  <2>3. CASE ~LocalUp
    BY <1>6, <1>10, <2>1, <2>3 DEF VerifyLocal
  <2> QED
    BY <2>2, <2>3
<1>11. CASE ReadLocalObject(r)
  <2>1. rpc[r] = "readLocal" /\ rfile[r] \in Files
    BY <1>2, <1>11 DEF ReadLocalObject
  <2>2. CASE LocalUp
    BY <1>3, <1>4, <1>6, <1>7, <1>8, <1>11, <2>1, <2>2 DEF ReadLocalObject, Looking
  <2>3. CASE ~LocalUp
    BY <1>6, <1>11, <2>1, <2>3 DEF ReadLocalObject
  <2> QED
    BY <2>2, <2>3
<1>12. CASE GetJob(r)
  <2>1. rpc[r] = "getJob" /\ rfile[r] \in Files
    BY <1>2, <1>12 DEF GetJob
  <2>2. CASE Answer(r, "missing")
    BY <1>6, <1>8, <2>1, <2>2 DEF Looking
  <2>3. CASE ~Answer(r, "missing")
    BY <1>1, <1>2, <1>3, <1>8, <1>12, <2>1, <2>3 DEF GetJob, ReadersInPlace, ReadersTyped, Looking
  <2> QED
    BY <2>2, <2>3
<1>13. CASE VerifyLocalAgain(r)
  <2>1. rpc[r] = "verifyAgain" /\ rfile[r] \in Files
    BY <1>2, <1>13 DEF VerifyLocalAgain
  <2> QED
    BY <1>5, <1>6, <1>8, <1>13, <2>1 DEF VerifyLocalAgain, Looking
<1>14. CASE VerifyRemote(r)
  <2>1. rpc[r] = "verifyRemote" /\ rfile[r] \in Files
    BY <1>2, <1>14 DEF VerifyRemote
  <2> QED
    BY <1>5, <1>6, <1>8, <1>14, <2>1 DEF VerifyRemote, Looking
<1>15. CASE ReadRemoteObject(r)
  <2>1. rpc[r] = "readRemote" /\ rfile[r] \in Files
    BY <1>2, <1>15 DEF ReadRemoteObject
  <2>2. CASE ArchiveUp
    BY <1>3, <1>4, <1>6, <1>7, <1>8, <1>15, <2>1, <2>2 DEF ReadRemoteObject, Looking
  <2>3. CASE ~ArchiveUp
    BY <1>6, <1>15, <2>1, <2>3 DEF ReadRemoteObject
  <2> QED
    BY <2>2, <2>3
<1> QED
  BY <1>9, <1>10, <1>11, <1>12, <1>13, <1>14, <1>15 DEF ReadStep

\* For any files, workers and readers: unless two claims of its job had the temporary file
\* open together, a download delivers the uploaded bytes or none, and does not miss a file
\* before its remote copy is committed as verified.
THEOREM DownloadsAreTrue == SpecRead => []DownloadsTellTheTruth
<1>1. [NextRead]_allVars => [Next]_vars
  BY DEF NextRead, QueueStep, ReadStep, allVars
<1>2. InitRead => Init
  BY DEF InitRead
<1>3. SpecRead => Spec
  BY <1>1, <1>2, PTL DEF SpecRead, Spec
<1>4. InitRead => ReadersInPlace
  BY DEF InitRead, ReadersInPlace, ReadersTyped, Looking
<1>5. QueueInvariant /\ CopiesInvariant /\ ReadersInPlace /\ [NextRead]_allVars => ReadersInPlace'
  <2>1. SUFFICES ASSUME QueueInvariant, CopiesInvariant, ReadersInPlace, [NextRead]_allVars
                 PROVE  ReadersInPlace'
    OBVIOUS
  <2>2. CASE \E r \in Readers : ReadStep(r)
    BY <2>1, <2>2, ReadStepKeepsReaders
  <2>3. CASE QueueStep \/ UNCHANGED allVars
    <3>1. [Next]_vars /\ Excepted \subseteq Excepted'
      BY <2>1, <1>1, ExceptionsStay DEF Excepted
    <3>2. \/ UNCHANGED readVars
          \/ /\ rpc' = [r \in Readers |-> "idle"]
             /\ rfile' = [r \in Readers |-> NoFile]
             /\ rverified' = [r \in Readers |-> FALSE]
             /\ answer' = [r \in Readers |-> "none"]
      BY <2>3 DEF QueueStep, allVars
    <3> QED
      BY <2>1, <3>1, <3>2, QueueKeepsReaders
  <2> QED
    BY <2>1, <2>2, <2>3 DEF NextRead
<1>6. ReadersInPlace => DownloadsTellTheTruth
  BY DEF ReadersInPlace, Looking, DownloadsTellTheTruth, Excepted
<1> QED
  BY <1>3, <1>4, <1>5, <1>6, QueueInvariantHolds, CopiesInvariantHolds, PTL DEF SpecRead

=============================================================================

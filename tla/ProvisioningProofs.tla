------------------------- MODULE ProvisioningProofs -------------------------
(***************************************************************************)
(* Proofs about Provisioning, for any attempts, executions and roles, and  *)
(* any number of stops, faults, relinks and runs from the console.         *)
(***************************************************************************)
EXTENDS Provisioning, TLAPS

-----------------------------------------------------------------------------
(* The latch *)

StagingFiles == {"root", "claim", "baseline", "latch", "terminal", "index"}
RunSteps == {"idle", "stage0", "staged", "claimed", "verified", "baseline", "latched", "waiting",
             "indexing"}

\* An attempt whose provisioner was started has its latch; an execution that has taken the
\* latch and not started the provisioner yet is the only one, and none was started before.
LatchInvariant ==
    /\ run \in [Runs -> [pc : RunSteps, attempt : Attempts \cup {"none"}]]
    /\ files \in [Attempts -> SUBSET StagingFiles]
    /\ starts \in [Attempts -> Nat]
    /\ \A x \in Runs : run[x].pc # "idle" => run[x].attempt \in Attempts
    /\ \A a \in Attempts : starts[a] # 0 => "latch" \in files[a]
    /\ \A x \in Runs : run[x].pc = "latched" =>
          /\ "latch" \in files[run[x].attempt]
          /\ starts[run[x].attempt] = 0
          /\ \A y \in Runs : run[y].pc = "latched" /\ run[y].attempt = run[x].attempt => y = x
    /\ OneApplyPerAttempt

\* An execution that goes on, or ends, without taking the latch keeps the invariant.
LEMMA RunMoves ==
    ASSUME LatchInvariant, NEW x \in Runs, NEW r \in [pc : RunSteps, attempt : Attempts \cup {"none"}],
           run' = [run EXCEPT ![x] = r], r.pc # "latched", r.pc # "idle" => r.attempt \in Attempts,
           files' \in [Attempts -> SUBSET StagingFiles],
           \A a \in Attempts : files[a] \subseteq files'[a],
           UNCHANGED starts
    PROVE  LatchInvariant'
<1>1. /\ run' \in [Runs -> [pc : RunSteps, attempt : Attempts \cup {"none"}]]
      /\ run'[x] = r /\ \A y \in Runs \ {x} : run'[y] = run[y]
  BY DEF LatchInvariant
<1>2. \A y \in Runs : run'[y].pc # "idle" => run'[y].attempt \in Attempts
  BY <1>1 DEF LatchInvariant
<1>3. \A a \in Attempts : starts'[a] # 0 => "latch" \in files'[a]
  BY DEF LatchInvariant
<1>4. ASSUME NEW y \in Runs, run'[y].pc = "latched"
      PROVE  /\ "latch" \in files'[run'[y].attempt]
             /\ starts'[run'[y].attempt] = 0
             /\ \A z \in Runs : run'[z].pc = "latched" /\ run'[z].attempt = run'[y].attempt => z = y
  <2>1. y # x /\ run'[y] = run[y] /\ run[y].attempt \in Attempts
    BY <1>1, <1>4 DEF LatchInvariant
  <2> QED
    BY <1>1, <1>4, <2>1 DEF LatchInvariant
<1> QED
  BY <1>1, <1>2, <1>3, <1>4 DEF LatchInvariant, OneApplyPerAttempt

\* The same for the forms in which the actions say it.
LEMMA RunGoes ==
    ASSUME LatchInvariant, NEW x \in Runs, NEW pc \in RunSteps \ {"latched", "idle"},
           run[x].pc # "idle", Go(x, pc),
           UNCHANGED files \/ \E file \in StagingFiles : Wrote(run[x].attempt, file),
           UNCHANGED starts
    PROVE  LatchInvariant'
<1> DEFINE r == [run[x] EXCEPT !.pc = pc]
<1>1. run[x] \in [pc : RunSteps, attempt : Attempts \cup {"none"}] /\ run[x].attempt \in Attempts
  BY DEF LatchInvariant
<1>2. /\ r \in [pc : RunSteps, attempt : Attempts \cup {"none"}] /\ r.pc = pc
      /\ r.attempt = run[x].attempt
  BY <1>1
<1>3. run' = [run EXCEPT ![x] = r]
  BY DEF Go, LatchInvariant
<1>4. files' \in [Attempts -> SUBSET StagingFiles] /\ \A a \in Attempts : files[a] \subseteq files'[a]
  BY <1>1 DEF Wrote, LatchInvariant
<1> HIDE DEF r
<1> QED
  BY <1>1, <1>2, <1>3, <1>4, RunMoves

\* An execution ends.
LEMMA RunEnds ==
    ASSUME LatchInvariant, NEW x \in Runs, GiveUp(x),
           UNCHANGED files \/ (run[x].pc # "idle" /\ \E file \in StagingFiles : Wrote(run[x].attempt, file)),
           UNCHANGED starts
    PROVE  LatchInvariant'
<1>1. NoRun \in [pc : RunSteps, attempt : Attempts \cup {"none"}] /\ NoRun.pc = "idle"
  BY DEF NoRun, RunSteps
<1>2. run' = [run EXCEPT ![x] = NoRun]
  BY DEF GiveUp
<1>3. files' \in [Attempts -> SUBSET StagingFiles] /\ \A a \in Attempts : files[a] \subseteq files'[a]
  BY DEF Wrote, LatchInvariant
<1> QED
  BY <1>1, <1>2, <1>3, RunMoves

\* Every step of an execution keeps the invariant of the latch.
LEMMA RunStepKeepsLatch ==
    ASSUME LatchInvariant, NEW x \in Runs, RunStep(x)
    PROVE  LatchInvariant'
<1>1. ASSUME NEW a \in Attempts, StartStage0(x, a)
      PROVE  LatchInvariant'
  <2>1. /\ [pc |-> "stage0", attempt |-> a] \in [pc : RunSteps, attempt : Attempts \cup {"none"}]
        /\ [pc |-> "stage0", attempt |-> a].pc = "stage0"
        /\ [pc |-> "stage0", attempt |-> a].attempt = a
    BY DEF RunSteps
  <2> QED
    BY <1>1, <2>1, RunMoves DEF StartStage0, LatchInvariant
<1>2. CASE MakeStaging(x)
  BY <1>2, RunGoes, RunEnds DEF MakeStaging, StagingFiles, RunSteps
<1>3. CASE Claim(x)
  BY <1>3, RunGoes, RunEnds DEF Claim, StagingFiles, RunSteps
<1>4. CASE CopyAndVerify(x)
  BY <1>4, RunGoes, RunEnds DEF CopyAndVerify, RunSteps
<1>5. CASE PublishBaseline(x)
  BY <1>5, RunGoes, RunEnds DEF PublishBaseline, StagingFiles, RunSteps
<1>6. CASE TakeLatch(x)
  <2> DEFINE a == run[x].attempt
             r == [run[x] EXCEPT !.pc = "latched"]
  <2>1. /\ run[x] \in [pc : RunSteps, attempt : Attempts \cup {"none"}] /\ a \in Attempts
        /\ run[x].pc = "baseline" /\ UNCHANGED starts
    BY <1>6 DEF TakeLatch, LatchInvariant
  <2>2. CASE "latch" \in files[a]
    BY <1>6, <2>1, <2>2, RunEnds DEF TakeLatch, CreateNew
  <2>3. CASE "latch" \notin files[a]
    <3>1. Wrote(a, "latch") /\ Go(x, "latched")
      BY <1>6, <2>3 DEF TakeLatch, CreateNew
    <3>2. /\ files' \in [Attempts -> SUBSET StagingFiles] /\ "latch" \in files'[a]
          /\ \A b \in Attempts : files[b] \subseteq files'[b]
      BY <2>1, <3>1 DEF Wrote, LatchInvariant, StagingFiles
    <3>3. r \in [pc : RunSteps, attempt : Attempts \cup {"none"}] /\ r.attempt = a /\ r.pc = "latched"
      BY <2>1 DEF RunSteps
    <3>4. /\ run' \in [Runs -> [pc : RunSteps, attempt : Attempts \cup {"none"}]]
          /\ run'[x] = r /\ \A y \in Runs \ {x} : run'[y] = run[y]
      BY <3>1, <3>3 DEF Go, LatchInvariant
    <3> HIDE DEF r
    <3>5. starts[a] = 0 /\ \A y \in Runs : run[y].pc = "latched" => run[y].attempt # a
      BY <2>1, <2>3 DEF LatchInvariant
    <3>6. \A y \in Runs : run'[y].pc # "idle" => run'[y].attempt \in Attempts
      BY <2>1, <3>3, <3>4 DEF LatchInvariant
    <3>7. \A b \in Attempts : starts'[b] # 0 => "latch" \in files'[b]
      BY <2>1, <3>2 DEF LatchInvariant
    <3>8. ASSUME NEW y \in Runs, run'[y].pc = "latched"
          PROVE  /\ "latch" \in files'[run'[y].attempt]
                 /\ starts'[run'[y].attempt] = 0
                 /\ \A z \in Runs : run'[z].pc = "latched" /\ run'[z].attempt = run'[y].attempt => z = y
      <4>1. CASE y = x
        BY <2>1, <3>2, <3>3, <3>4, <3>5, <4>1
      <4>2. CASE y # x
        <5>1. run'[y] = run[y] /\ run[y].attempt \in Attempts /\ run[y].attempt # a
          BY <3>4, <3>5, <3>8, <4>2 DEF LatchInvariant
        <5> QED
          BY <2>1, <3>2, <3>3, <3>4, <3>8, <5>1 DEF LatchInvariant
      <4> QED
        BY <4>1, <4>2
    <3> QED
      BY <2>1, <3>2, <3>4, <3>6, <3>7, <3>8 DEF LatchInvariant, OneApplyPerAttempt
  <2> QED
    BY <2>2, <2>3
<1>7. CASE StartProvisioner(x)
  <2> DEFINE a == run[x].attempt
             r == [run[x] EXCEPT !.pc = "waiting"]
  <2>1. /\ run[x] \in [pc : RunSteps, attempt : Attempts \cup {"none"}] /\ a \in Attempts
        /\ run[x].pc = "latched" /\ UNCHANGED files
        /\ starts[a] = 0 /\ "latch" \in files[a]
    BY <1>7 DEF StartProvisioner, LatchInvariant
  <2>2. /\ starts' \in [Attempts -> Nat] /\ starts'[a] = 1
        /\ \A b \in Attempts \ {a} : starts'[b] = starts[b]
    BY <1>7, <2>1 DEF StartProvisioner, LatchInvariant
  <2>3. r \in [pc : RunSteps, attempt : Attempts \cup {"none"}] /\ r.attempt = a /\ r.pc = "waiting"
    BY <2>1 DEF RunSteps
  <2>4. /\ run' \in [Runs -> [pc : RunSteps, attempt : Attempts \cup {"none"}]]
        /\ run'[x] = r /\ \A y \in Runs \ {x} : run'[y] = run[y]
    BY <1>7, <2>3 DEF StartProvisioner, Go, LatchInvariant
  <2> HIDE DEF r
  <2>5. \A y \in Runs : run'[y].pc # "idle" => run'[y].attempt \in Attempts
    BY <2>1, <2>3, <2>4 DEF LatchInvariant
  <2>6. \A b \in Attempts : starts'[b] # 0 => "latch" \in files'[b]
    BY <2>1, <2>2 DEF LatchInvariant
  <2>7. ASSUME NEW y \in Runs, run'[y].pc = "latched"
        PROVE  /\ "latch" \in files'[run'[y].attempt]
               /\ starts'[run'[y].attempt] = 0
               /\ \A z \in Runs : run'[z].pc = "latched" /\ run'[z].attempt = run'[y].attempt => z = y
    <3>1. y # x /\ run'[y] = run[y] /\ run[y].attempt \in Attempts
      BY <2>3, <2>4, <2>7 DEF LatchInvariant
    <3>2. run[y].attempt # a
      BY <2>1, <2>7, <3>1 DEF LatchInvariant
    <3> QED
      BY <2>1, <2>2, <2>3, <2>4, <2>7, <3>1, <3>2 DEF LatchInvariant
  <2>8. OneApplyPerAttempt'
    BY <2>2 DEF LatchInvariant, OneApplyPerAttempt
  <2> QED
    BY <2>1, <2>2, <2>4, <2>5, <2>6, <2>7, <2>8 DEF LatchInvariant
<1>8. CASE PublishTerminal(x)
  BY <1>8, RunGoes DEF PublishTerminal, StagingFiles, RunSteps
<1>9. CASE PublishIndex(x)
  BY <1>9, RunEnds DEF PublishIndex, StagingFiles
<1>10. CASE StopRun(x)
  BY <1>10, RunEnds DEF StopRun
<1>11. CASE StartFails(x)
  BY <1>11, RunGoes DEF StartFails, StagingFiles, RunSteps
<1> QED
  BY <1>1, <1>2, <1>3, <1>4, <1>5, <1>6, <1>7, <1>8, <1>9, <1>10, <1>11 DEF RunStep

\* The authority of an attempt works once, however often, however simultaneously and with
\* whatever stops its command is executed.
THEOREM AttemptsApplyOnce == Spec => []OneApplyPerAttempt
<1>1. Init => LatchInvariant
  BY DEF Init, LatchInvariant, NoRun, RunSteps, OneApplyPerAttempt
<1>2. ASSUME LatchInvariant, [Next]_vars
      PROVE  LatchInvariant'
  <2>1. CASE UNCHANGED <<run, files, starts>>
    BY <1>2, <2>1 DEF LatchInvariant, OneApplyPerAttempt
  <2>2. ASSUME NEW p \in Runs \cup {Console}, ProvisionerStep(p)
        PROVE  UNCHANGED <<run, files, starts>>
    BY <2>2 DEF ProvisionerStep, Boundary, Preflight, CreateRole, CreateRoleFails
  <2>3. ASSUME \/ \E plan \in Plans : StartConsole(plan)
               \/ \E a \in Attempts : Prepare(a) \/ Expire(a)
               \/ ChangeSource \/ StopConsole
               \/ \E new \in {"own", "junction", "subst", "none"} : Relink(new)
               \/ UNCHANGED vars
        PROVE  UNCHANGED <<run, files, starts>>
    BY <2>3 DEF StartConsole, Prepare, Expire, ChangeSource, StopConsole, Relink, vars
  <2> QED
    BY <1>2, <2>1, <2>2, <2>3, RunStepKeepsLatch DEF Next
<1>3. LatchInvariant => OneApplyPerAttempt
  BY DEF LatchInvariant
<1> QED
  BY <1>1, <1>2, <1>3, PTL DEF Spec

-----------------------------------------------------------------------------
(* The directories *)

Policies == {"absent", "operators", "foreign"} \cup Identities

ProvisionerType ==
    [pc : {"off", "planned", "bound", "creating", "exit"}, plan : Plans, root : Roots,
     missing : SUBSET (Roles \cup Deferred), code : {0, 2}]

\* A provisioner whose path leads to the production root was given a plan of the certified
\* identity: when the target is resolved, and again when the root it leads to is inspected.
PlanIsBound(p) ==
    /\ prov[p].pc \in {"bound", "creating"} /\ prov[p].root = "certified" =>
           prov[p].plan.identity = "certified"
    /\ ~late /\ prov[p].pc = "creating" /\ Physical(prov[p].root) = "certified" =>
           prov[p].plan.identity = "certified"

DirectoriesTyped ==
    /\ dir \in [Roots -> [Names -> Policies]]
    /\ link \in {"own", "junction", "subst", "none"}
    /\ late \in BOOLEAN
    /\ prov \in [Runs \cup {Console} -> ProvisionerType]
    /\ terminal \in [Attempts -> {"none", "SUCCESS", "FAILED", "INDETERMINATE"}]

\* The evidence that says SUCCESS was written when all required directories were there.
SuccessWasRead == \A a \in Attempts : terminal[a] = "SUCCESS" => Provisioned

DirectoryInvariant ==
    /\ DirectoriesTyped
    /\ \A p \in Runs \cup {Console} : PlanIsBound(p)
    /\ ProductionStaysCertified
    /\ SuccessWasRead

\* A directory of the production root that exists is never changed, and a new one has the
\* policy of the certified identity.
LEMMA DirectoryCreated ==
    ASSUME DirectoryInvariant, NEW there \in Roots, NEW role \in Roles, NEW identity \in Identities,
           dir[there][role] = "absent",
           dir' = [dir EXCEPT ![there][role] = PolicyOf(role, identity)],
           ~late /\ there = "certified" => identity = "certified",
           UNCHANGED <<late, terminal>>
    PROVE  /\ dir' \in [Roots -> [Names -> Policies]]
           /\ ProductionStaysCertified' /\ SuccessWasRead'
<1>1. role \in Names /\ PolicyOf(role, identity) \in Policies /\ "certified" \in Roots
  BY DEF Names, PolicyOf, Policies, Roots
<1>2. /\ dir \in [Roots -> [Names -> Policies]] /\ dir' \in [Roots -> [Names -> Policies]]
      /\ dir'[there][role] = PolicyOf(role, identity)
      /\ \A root \in Roots, n \in Names : root # there \/ n # role => dir'[root][n] = dir[root][n]
  BY <1>1 DEF DirectoryInvariant, DirectoriesTyped
<1>3. ProductionStaysCertified'
  <2> SUFFICES ASSUME ~late, NEW n \in Roles \cup Deferred
               PROVE  dir'["certified"][n] \in {"absent", PolicyOf(n, "certified")}
    BY DEF ProductionStaysCertified, PolicyOf
  <2>1. n \in Names
    BY DEF Names
  <2>2. CASE there = "certified" /\ n = role
    BY <1>2, <2>2
  <2>3. CASE there # "certified" \/ n # role
    BY <1>1, <1>2, <2>1, <2>3 DEF DirectoryInvariant, ProductionStaysCertified
  <2> QED
    BY <2>2, <2>3
<1>4. SuccessWasRead'
  <2> SUFFICES ASSUME NEW a \in Attempts, terminal[a] = "SUCCESS", NEW n \in Roles
               PROVE  dir'["certified"][n] = PolicyOf(n, "certified")
    BY DEF SuccessWasRead, Provisioned, PolicyOf
  <2>1. \A m \in Roles : dir["certified"][m] = PolicyOf(m, "certified") /\ PolicyOf(m, "certified") # "absent"
    BY DEF DirectoryInvariant, SuccessWasRead, Provisioned, PolicyOf
  <2>2. ~(there = "certified" /\ n = role)
    BY <2>1
  <2> QED
    BY <1>1, <1>2, <2>1, <2>2 DEF Names
<1> QED
  BY <1>2, <1>3, <1>4

\* The step of one provisioner, when the directories and the evidence are kept.
LEMMA ProvisionerMoves ==
    ASSUME DirectoryInvariant, NEW p \in Runs \cup {Console}, NEW q \in ProvisionerType,
           prov' = [prov EXCEPT ![p] = q],
           q.pc \in {"bound", "creating"} /\ q.root = "certified" => q.plan.identity = "certified",
           ~late /\ q.pc = "creating" /\ Physical(q.root) = "certified" => q.plan.identity = "certified",
           dir' \in [Roots -> [Names -> Policies]],
           terminal' \in [Attempts -> {"none", "SUCCESS", "FAILED", "INDETERMINATE"}],
           ProductionStaysCertified', SuccessWasRead',
           UNCHANGED <<link, late>>
    PROVE  DirectoryInvariant'
<1>1. /\ prov' \in [Runs \cup {Console} -> ProvisionerType] /\ prov'[p] = q
      /\ \A other \in (Runs \cup {Console}) \ {p} : prov'[other] = prov[other]
  BY DEF DirectoryInvariant, DirectoriesTyped
<1>2. ASSUME NEW other \in Runs \cup {Console}
      PROVE  PlanIsBound(other)'
  <2>1. CASE other = p
    BY <1>1, <2>1 DEF PlanIsBound, Physical
  <2>2. CASE other # p
    BY <1>1, <2>2 DEF DirectoryInvariant, PlanIsBound, Physical
  <2> QED
    BY <2>1, <2>2
<1> QED
  BY <1>1, <1>2 DEF DirectoryInvariant, DirectoriesTyped

\* Directories and evidence that stay keep what is said of them.
LEMMA DirectoriesStay ==
    ASSUME DirectoryInvariant, UNCHANGED <<dir, late, terminal>>
    PROVE  /\ dir' \in [Roots -> [Names -> Policies]]
           /\ terminal' \in [Attempts -> {"none", "SUCCESS", "FAILED", "INDETERMINATE"}]
           /\ ProductionStaysCertified' /\ SuccessWasRead'
BY DEF DirectoryInvariant, DirectoriesTyped, ProductionStaysCertified, SuccessWasRead, Provisioned,
       PolicyOf

\* The provisioner at rest, at its start and at its end.
LEMMA RestingProvisioner ==
    /\ CertifiedPlan \in Plans
    /\ Off \in ProvisionerType /\ Off.pc = "off"
    /\ \A plan \in Plans : /\ [Off EXCEPT !.pc = "planned", !.plan = plan] \in ProvisionerType
                           /\ [Off EXCEPT !.pc = "planned", !.plan = plan].pc = "planned"
    /\ \A code \in {0, 2} : /\ [Off EXCEPT !.pc = "exit", !.code = code] \in ProvisionerType
                            /\ [Off EXCEPT !.pc = "exit", !.code = code].pc = "exit"
<1>1. CertifiedPlan \in Plans
  BY ProvisioningAssumption DEF CertifiedPlan, Plans, Identities
<1> HIDE DEF CertifiedPlan
<1>2. Off \in ProvisionerType /\ Off.pc = "off"
  BY <1>1 DEF Off, ProvisionerType, Roots
<1> QED
  BY <1>1, <1>2 DEF ProvisionerType

\* A provisioner that starts, ends or fails inspects nothing and holds no root.
LEMMA ProvisionerRests ==
    ASSUME DirectoryInvariant, NEW p \in Runs \cup {Console},
           \/ \E plan \in Plans : Begin(p, plan)
           \/ \E code \in {0, 2} : Exit(p, code)
           \/ prov' = [prov EXCEPT ![p] = Off],
           dir' \in [Roots -> [Names -> Policies]],
           terminal' \in [Attempts -> {"none", "SUCCESS", "FAILED", "INDETERMINATE"}],
           ProductionStaysCertified', SuccessWasRead',
           UNCHANGED <<link, late>>
    PROVE  DirectoryInvariant'
<1>1. PICK q \in ProvisionerType : prov' = [prov EXCEPT ![p] = q] /\ q.pc \notin {"bound", "creating"}
  BY RestingProvisioner DEF Begin, Exit
<1> QED
  BY <1>1, ProvisionerMoves

\* The final path is certified only if the plan says so, and then the identity is certified.
LEMMA BoundaryKeepsDirectories ==
    ASSUME DirectoryInvariant, NEW p \in Runs \cup {Console}, Boundary(p)
    PROVE  DirectoryInvariant'
<1> DEFINE plan == prov[p].plan
           q == [prov[p] EXCEPT !.pc = "bound", !.root = FinalPath(plan.target)]
<1>1. prov[p] \in ProvisionerType /\ plan \in Plans /\ link \in {"own", "junction", "subst", "none"}
  BY DEF DirectoryInvariant, DirectoriesTyped, ProvisionerType
<1>2. /\ dir' \in [Roots -> [Names -> Policies]]
      /\ terminal' \in [Attempts -> {"none", "SUCCESS", "FAILED", "INDETERMINATE"}]
      /\ ProductionStaysCertified' /\ SuccessWasRead' /\ UNCHANGED <<link, late>>
  BY DirectoriesStay DEF Boundary
<1>3. CASE BoundaryHolds(plan)
  <2>1. /\ FinalPath(plan.target) \in Roots
        /\ FinalPath(plan.target) = "certified" => plan.identity = "certified"
    <3>1. plan.target \in {"certified", "alias"} /\ plan.binding \in BOOLEAN
      BY <1>1 DEF Plans
    <3>2. plan.target = "alias" => link \notin {"none", "junction"}
      BY <1>3 DEF BoundaryHolds
    <3>3. FinalPath(plan.target) \in Roots
      BY <1>1, <3>1, <3>2 DEF FinalPath, Roots
    <3>4. FinalPath(plan.target) = "certified" => plan.binding = TRUE
      BY <1>3, <3>1, Zenon DEF BoundaryHolds, ValidPlan, BindingMatches
    <3>5. plan.binding = TRUE => plan.identity = "certified"
      BY <1>3 DEF BoundaryHolds, ValidPlan
    <3> QED
      BY <3>3, <3>4, <3>5
  <2>2. /\ q \in ProvisionerType /\ q.pc = "bound" /\ q.root = FinalPath(plan.target)
        /\ q.plan = plan
    BY <1>1, <2>1 DEF ProvisionerType
  <2>3. prov' = [prov EXCEPT ![p] = q]
    BY <1>3 DEF Boundary, DirectoryInvariant, DirectoriesTyped
  <2> HIDE DEF q
  <2> QED
    BY <1>2, <2>1, <2>2, <2>3, ProvisionerMoves
<1>4. CASE ~BoundaryHolds(plan)
  BY <1>2, <1>4, ProvisionerRests DEF Boundary
<1> QED
  BY <1>3, <1>4

\* The root that the path leads to is inspected: it is the production root only for the
\* certified identity.
LEMMA PreflightKeepsDirectories ==
    ASSUME DirectoryInvariant, NEW p \in Runs \cup {Console}, Preflight(p)
    PROVE  DirectoryInvariant'
<1> DEFINE plan == prov[p].plan
           there == Physical(prov[p].root)
           missing == {role \in plan.roles : dir[there][role] = "absent"}
           q == [prov[p] EXCEPT !.pc = "creating", !.missing = missing]
<1>1. /\ prov[p] \in ProvisionerType /\ plan \in Plans /\ prov[p].root \in Roots
      /\ plan.roles \subseteq Roles \cup Deferred
  BY DEF DirectoryInvariant, DirectoriesTyped, ProvisionerType, Plans
<1>2. /\ dir' \in [Roots -> [Names -> Policies]]
      /\ terminal' \in [Attempts -> {"none", "SUCCESS", "FAILED", "INDETERMINATE"}]
      /\ ProductionStaysCertified' /\ SuccessWasRead' /\ UNCHANGED <<link, late>>
  BY DirectoriesStay DEF Preflight
<1>3. CASE \E code \in {0, 2} : Exit(p, code)
  BY <1>2, <1>3, ProvisionerRests
<1>4. CASE /\ RootMatches(plan, there)
           /\ prov' = [prov EXCEPT ![p].pc = "creating", ![p].missing = missing]
  <2>1. missing \subseteq Roles \cup Deferred
    BY <1>1
  <2>2. /\ q \in ProvisionerType /\ q.pc = "creating" /\ q.root = prov[p].root /\ q.plan = plan
    BY <1>1, <2>1 DEF ProvisionerType
  <2>3. prov' = [prov EXCEPT ![p] = q]
    BY <1>4 DEF DirectoryInvariant, DirectoriesTyped
  <2>4. Physical(q.root) = "certified" => plan.identity = "certified"
    BY <1>4, <2>2 DEF RootMatches
  <2>5. q.root = "certified" => plan.identity = "certified"
    BY <2>4 DEF Physical
  <2> HIDE DEF q
  <2> QED
    BY <1>2, <2>2, <2>3, <2>4, <2>5, ProvisionerMoves
<1> QED
  BY <1>3, <1>4 DEF Preflight

\* A role is created where the path of the provisioner leads now.
LEMMA RoleCreated ==
    ASSUME DirectoryInvariant, NEW p \in Runs \cup {Console}, NEW role \in Roles,
           prov[p].pc = "creating",
           dir[Physical(prov[p].root)][role] = "absent",
           dir' = [dir EXCEPT ![Physical(prov[p].root)][role] = PolicyOf(role, prov[p].plan.identity)],
           UNCHANGED <<late, terminal>>
    PROVE  /\ dir' \in [Roots -> [Names -> Policies]]
           /\ terminal' \in [Attempts -> {"none", "SUCCESS", "FAILED", "INDETERMINATE"}]
           /\ ProductionStaysCertified' /\ SuccessWasRead'
<1> DEFINE there == Physical(prov[p].root)
           identity == prov[p].plan.identity
<1>1. prov[p].root \in Roots /\ identity \in Identities
  BY DEF DirectoryInvariant, DirectoriesTyped, ProvisionerType, Plans
<1>2. there \in Roots
  BY <1>1 DEF Physical, Roots
<1>3. ~late /\ there = "certified" => identity = "certified"
  BY DEF DirectoryInvariant, PlanIsBound
<1>4. terminal' \in [Attempts -> {"none", "SUCCESS", "FAILED", "INDETERMINATE"}]
  BY DEF DirectoryInvariant, DirectoriesTyped
<1> HIDE DEF there, identity
<1> QED
  BY <1>1, <1>2, <1>3, <1>4, DirectoryCreated DEF there, identity

LEMMA CreateKeepsDirectories ==
    ASSUME DirectoryInvariant, NEW p \in Runs \cup {Console}, NEW role \in Roles,
           CreateRole(p, role) \/ CreateRoleFails(p, role)
    PROVE  DirectoryInvariant'
<1> DEFINE q == [prov[p] EXCEPT !.missing = @ \ {role}]
<1>1. /\ prov[p].pc = "creating" /\ UNCHANGED <<link, late, terminal>>
      /\ \/ dir' = dir
         \/ /\ dir[Physical(prov[p].root)][role] = "absent"
            /\ dir' = [dir EXCEPT ![Physical(prov[p].root)][role] =
                                      PolicyOf(role, prov[p].plan.identity)]
      /\ \/ \E code \in {0, 2} : Exit(p, code)
         \/ prov' = [prov EXCEPT ![p].missing = @ \ {role}]
  BY DEF CreateRole, CreateRoleFails
<1>2. /\ dir' \in [Roots -> [Names -> Policies]]
      /\ terminal' \in [Attempts -> {"none", "SUCCESS", "FAILED", "INDETERMINATE"}]
      /\ ProductionStaysCertified' /\ SuccessWasRead' /\ UNCHANGED <<link, late>>
  BY <1>1, DirectoriesStay, RoleCreated
<1>3. CASE \E code \in {0, 2} : Exit(p, code)
  BY <1>2, <1>3, ProvisionerRests
<1>4. CASE prov' = [prov EXCEPT ![p].missing = @ \ {role}]
  <2>1. prov[p] \in ProvisionerType
    BY DEF DirectoryInvariant, DirectoriesTyped
  <2>2. /\ q \in ProvisionerType /\ q.pc = "creating" /\ q.root = prov[p].root
        /\ q.plan = prov[p].plan
    BY <1>1, <2>1 DEF ProvisionerType
  <2>3. prov' = [prov EXCEPT ![p] = q]
    BY <1>4 DEF DirectoryInvariant, DirectoriesTyped
  <2>4. PlanIsBound(p)
    BY DEF DirectoryInvariant
  <2> HIDE DEF q
  <2> QED
    BY <1>1, <1>2, <2>2, <2>3, <2>4, ProvisionerMoves DEF PlanIsBound
<1> QED
  BY <1>1, <1>3, <1>4

\* The steps of an execution of the command.
LEMMA RunStepKeepsDirectories ==
    ASSUME DirectoryInvariant, NEW x \in Runs, RunStep(x)
    PROVE  DirectoryInvariant'
<1> DEFINE Kept == UNCHANGED <<dir, link, late, prov, terminal>>
<1>1. ASSUME Kept
      PROVE  DirectoryInvariant'
  BY <1>1 DEF DirectoryInvariant, DirectoriesTyped, PlanIsBound, Physical, ProductionStaysCertified,
              SuccessWasRead, Provisioned, PolicyOf
<1>2. ASSUME \/ \E a \in Attempts : StartStage0(x, a)
             \/ Claim(x) \/ CopyAndVerify(x) \/ PublishBaseline(x) \/ TakeLatch(x) \/ PublishIndex(x)
      PROVE  Kept
  BY <1>2 DEF StartStage0, Claim, CopyAndVerify, PublishBaseline, TakeLatch, PublishIndex
<1>3. CASE MakeStaging(x)
  <2>1. UNCHANGED <<link, late, prov, terminal>>
    BY <1>3 DEF MakeStaging
  <2>2. CASE dir' = dir
    BY <1>1, <2>1, <2>2
  <2>3. CASE /\ dir["certified"][StagingRole] = "absent"
             /\ dir' = [dir EXCEPT !["certified"][StagingRole] = PolicyOf(StagingRole, "certified")]
    <3>1. /\ dir' \in [Roots -> [Names -> Policies]]
          /\ ProductionStaysCertified' /\ SuccessWasRead'
      BY <2>1, <2>3, ProvisioningAssumption, DirectoryCreated DEF Roots, Identities
    <3> QED
      BY <2>1, <3>1 DEF DirectoryInvariant, DirectoriesTyped, PlanIsBound, Physical
  <2>4. CASE /\ dir["certified"][StagingRole] = PolicyOf(StagingRole, "certified")
             /\ dir' = [dir EXCEPT !["certified"][StagingRole] = PolicyOf(StagingRole, "certified")]
    <3>1. dir \in [Roots -> [Names -> Policies]] /\ "certified" \in Roots /\ StagingRole \in Names
      BY ProvisioningAssumption DEF DirectoryInvariant, DirectoriesTyped, Roots, Names
    <3>2. dir' = dir
      BY <2>4, <3>1
    <3> QED
      BY <2>2, <3>2
  <2> QED
    BY <1>3, <2>2, <2>3, <2>4 DEF MakeStaging
<1>4. CASE StartProvisioner(x)
  BY <1>4, DirectoriesStay, ProvisionerRests, RestingProvisioner DEF StartProvisioner
<1>5. CASE PublishTerminal(x)
  <2>1. /\ UNCHANGED <<dir, link, late>> /\ prov' = [prov EXCEPT ![x] = Off]
        /\ \E code \in {prov[x].code, 9} :
               terminal' = [terminal EXCEPT ![run[x].attempt] = TerminalStatus(code, Provisioned)]
    BY <1>5 DEF PublishTerminal
  <2>2. PICK status \in {"SUCCESS", "FAILED", "INDETERMINATE"} :
            /\ terminal' = [terminal EXCEPT ![run[x].attempt] = status]
            /\ status = "SUCCESS" => Provisioned
    BY <2>1 DEF TerminalStatus
  <2>3. terminal' \in [Attempts -> {"none", "SUCCESS", "FAILED", "INDETERMINATE"}]
    BY <2>2 DEF DirectoryInvariant, DirectoriesTyped
  <2>4. Provisioned' <=> Provisioned
    BY <2>1 DEF Provisioned, PolicyOf
  <2>5. \A a \in Attempts : terminal'[a] = "SUCCESS" => terminal[a] = "SUCCESS" \/ Provisioned
    BY <2>2 DEF DirectoryInvariant, DirectoriesTyped
  <2>6. SuccessWasRead'
    BY <2>4, <2>5 DEF DirectoryInvariant, SuccessWasRead
  <2>7. dir' \in [Roots -> [Names -> Policies]] /\ ProductionStaysCertified'
    BY <2>1 DEF DirectoryInvariant, DirectoriesTyped, ProductionStaysCertified, PolicyOf
  <2> QED
    BY <2>1, <2>3, <2>6, <2>7, ProvisionerRests
<1>6. CASE StopRun(x)
  BY <1>6, DirectoriesStay, ProvisionerRests DEF StopRun
<1>7. CASE StartFails(x)
  <2>1. /\ UNCHANGED <<dir, link, late, prov>>
        /\ terminal' = [terminal EXCEPT ![run[x].attempt] = "INDETERMINATE"]
    BY <1>7 DEF StartFails, TerminalStatus
  <2>2. /\ terminal' \in [Attempts -> {"none", "SUCCESS", "FAILED", "INDETERMINATE"}]
        /\ \A a \in Attempts : terminal'[a] = "SUCCESS" => terminal[a] = "SUCCESS"
    BY <2>1 DEF DirectoryInvariant, DirectoriesTyped
  <2> QED
    BY <2>1, <2>2 DEF DirectoryInvariant, DirectoriesTyped, PlanIsBound, Physical,
                      ProductionStaysCertified, SuccessWasRead, Provisioned, PolicyOf
<1> QED
  BY <1>1, <1>2, <1>3, <1>4, <1>5, <1>6, <1>7 DEF RunStep

\* The alias leads elsewhere: a provisioner that has inspected it makes the change late.
LEMMA RelinkKeepsDirectories ==
    ASSUME DirectoryInvariant, NEW new \in {"own", "junction", "subst", "none"}, Relink(new)
    PROVE  DirectoryInvariant'
<1>1. /\ link' = new /\ UNCHANGED <<dir, prov, terminal>> /\ late' \in BOOLEAN
      /\ late => late'
      /\ \A p \in Runs \cup {Console} : prov[p].pc = "creating" /\ prov[p].root = "other" => late'
  BY DEF Relink, DirectoryInvariant, DirectoriesTyped
<1>2. ASSUME NEW p \in Runs \cup {Console}
      PROVE  PlanIsBound(p)'
  BY <1>1 DEF PlanIsBound, DirectoryInvariant, Physical
<1> QED
  BY <1>1, <1>2 DEF DirectoryInvariant, DirectoriesTyped, ProductionStaysCertified, SuccessWasRead,
                    Provisioned, PolicyOf

\* The three directories' invariants hold together: what is created depends on the plans that
\* the provisioners hold, and what the evidence says on what is never changed once created.
THEOREM DirectoryInvariantHolds == Spec => []DirectoryInvariant
<1>1. Init => DirectoryInvariant
  <2> SUFFICES ASSUME Init
               PROVE  DirectoryInvariant
    OBVIOUS
  <2>1. /\ link = "own" /\ late = FALSE
        /\ terminal = [a \in Attempts |-> "none"]
        /\ prov = [p \in Runs \cup {Console} |-> Off]
    BY DEF Init
  <2>2. PICK present \in [Names -> {"absent"}] \cup
                         {[n \in Names |-> IF n \in Deferred THEN "certified" ELSE "absent"],
                          [n \in Names |-> IF n = "unknown" THEN "foreign" ELSE "absent"]} :
            dir = [r \in Roots |-> [n \in Names |-> IF r = "certified" THEN present[n] ELSE "absent"]]
    BY DEF Init
  <2>3. \A n \in Names : /\ present[n] \in {"absent", "certified", "foreign"}
                         /\ present[n] = "certified" => n \in Deferred
                         /\ present[n] = "foreign" => n = "unknown"
    BY <2>2
  <2>4. dir \in [Roots -> [Names -> Policies]]
    BY <2>2, <2>3 DEF Policies, Identities
  <2>5. ProductionStaysCertified
    <3> SUFFICES ASSUME NEW n \in Roles \cup Deferred
                 PROVE  dir["certified"][n] \in {"absent", PolicyOf(n, "certified")}
      BY DEF ProductionStaysCertified
    <3>1. n \in Names /\ n # "unknown" /\ dir["certified"][n] = present[n]
      BY <2>2, ProvisioningAssumption DEF Names, Roots
    <3>2. n \in Deferred => PolicyOf(n, "certified") = "certified"
      BY ProvisioningAssumption DEF PolicyOf
    <3> QED
      BY <2>3, <3>1, <3>2
  <2>6. DirectoriesTyped
    BY <2>1, <2>4, RestingProvisioner DEF DirectoriesTyped
  <2>7. SuccessWasRead
    BY <2>1 DEF SuccessWasRead
  <2>8. \A p \in Runs \cup {Console} : PlanIsBound(p)
    BY <2>1, RestingProvisioner DEF PlanIsBound
  <2> QED
    BY <2>5, <2>6, <2>7, <2>8 DEF DirectoryInvariant
<1>2. ASSUME DirectoryInvariant, [Next]_vars
      PROVE  DirectoryInvariant'
  <2>1. ASSUME UNCHANGED <<dir, link, late, prov, terminal>>
        PROVE  DirectoryInvariant'
    BY <1>2, <2>1 DEF DirectoryInvariant, DirectoriesTyped, PlanIsBound, Physical,
                      ProductionStaysCertified, SuccessWasRead, Provisioned, PolicyOf
  <2>2. ASSUME NEW plan \in Plans, StartConsole(plan)
        PROVE  DirectoryInvariant'
    BY <1>2, <2>2, DirectoriesStay, ProvisionerRests DEF StartConsole
  <2>3. ASSUME NEW p \in Runs \cup {Console}, ProvisionerStep(p)
        PROVE  DirectoryInvariant'
    BY <1>2, <2>3, BoundaryKeepsDirectories, PreflightKeepsDirectories, CreateKeepsDirectories
       DEF ProvisionerStep
  <2>4. ASSUME (\E a \in Attempts : Prepare(a) \/ Expire(a)) \/ ChangeSource \/ UNCHANGED vars
        PROVE  UNCHANGED <<dir, link, late, prov, terminal>>
    BY <2>4 DEF Prepare, Expire, ChangeSource, vars
  <2>5. CASE StopConsole
    BY <1>2, <2>5, DirectoriesStay, ProvisionerRests DEF StopConsole
  <2> QED
    BY <1>2, <2>1, <2>2, <2>3, <2>4, <2>5, RunStepKeepsDirectories, RelinkKeepsDirectories DEF Next
<1> QED
  BY <1>1, <1>2, PTL DEF Spec

\* Whatever the plans, the links, the stops and the refusals, no directory of the production
\* root gets another policy than the certified one, unless an alias is changed after it was
\* inspected.
THEOREM ProductionCertified == Spec => []ProductionStaysCertified
<1>1. DirectoryInvariant => ProductionStaysCertified
  BY DEF DirectoryInvariant
<1> QED
  BY <1>1, DirectoryInvariantHolds, PTL

\* Evidence that resolves to SUCCESS means that all required directories are in place.
THEOREM SuccessProvisions == Spec => []SuccessMeansProvisioned
<1>1. DirectoryInvariant => SuccessMeansProvisioned
  BY DEF DirectoryInvariant, SuccessMeansProvisioned, SuccessWasRead, Verdict
<1> QED
  BY <1>1, DirectoryInvariantHolds, PTL
=============================================================================

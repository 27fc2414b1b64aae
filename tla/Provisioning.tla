---------------------------- MODULE Provisioning ----------------------------
(***************************************************************************)
(* Creation of the approved directories under the production root: the     *)
(* provisioner (packages/deployment/provisioning.py), started from a       *)
(* console or, with an authority that works once, by the protected payload *)
(* that the Stage-0 command stages (os_trusted_one_shot.py, the two D2     *)
(* PowerShell scripts).                                                    *)
(*                                                                         *)
(* The same command may be executed twice at the same time, any execution  *)
(* may be stopped between two of its steps (the job object then ends the   *)
(* provisioner too), and a path may be made to lead to the production root *)
(* while a provisioner is at work.                                         *)
(*                                                                         *)
(* An owner and access list is the identity it was derived from.           *)
(***************************************************************************)
EXTENDS Naturals, FiniteSets

CONSTANTS
    Attempts,       \* attempt identifiers of authorities
    Runs,           \* executions of Stage-0 commands
    Console,        \* the provisioner started by hand
    Roles,          \* REQUIRED_NOW
    StagingRole,
    Deferred,       \* REQUIRED_LATER
    MaxStops,       \* bound on executions that are stopped
    MaxFaults,      \* bound on operations that the system refuses
    MaxRelinks,     \* bound on changes of what the alias path leads to
    MaxConsole      \* bound on runs from the console

ASSUME ProvisioningAssumption ==
    /\ Console \notin Runs
    /\ StagingRole \in Roles
    /\ Roles \cap Deferred = {}
    /\ "unknown" \notin Roles \cup Deferred
    /\ MaxStops \in Nat /\ MaxFaults \in Nat /\ MaxRelinks \in Nat /\ MaxConsole \in Nat

VARIABLES
    dir,            \* per root and name: what is there
    link,           \* what the alias path is
    source,         \* the bundle, payload and runtime files that an authority names
    authority,      \* per attempt
    files,          \* per attempt: what exists in its staging directory
    terminal,       \* per attempt: the status in terminal-evidence.json
    run,            \* per execution of a command: next step and attempt
    prov,           \* per provisioner: next step, plan, root and missing roles
    starts,         \* per attempt: how often its provisioner was started
    late,           \* the alias was changed after a provisioner had inspected it
    stops, faults, relinks, consoles

vars == <<dir, link, source, authority, files, terminal, run, prov, starts, late,
          stops, faults, relinks, consoles>>

counters == <<stops, faults, relinks, consoles>>

-----------------------------------------------------------------------------
(* Policies and plans *)

Identities == {"certified", "another"}
Names == Roles \cup Deferred \cup {"unknown"}
Roots == {"certified", "other"}

\* _role_security_policy: staging has no entry for the service
PolicyOf(name, identity) == IF name = StagingRole THEN "operators" ELSE identity

Plans == [target : {"certified", "alias"}, binding : BOOLEAN, identity : Identities,
          roles : ((SUBSET Roles) \ {{}}) \cup {Deferred}, host : BOOLEAN, apply : BOOLEAN]

CertifiedPlan == [target |-> "certified", binding |-> TRUE, identity |-> "certified",
                  roles |-> Roles, host |-> TRUE, apply |-> TRUE]

\* _resolve_existing_target_root: the final path; "subst" leads to the certified root
\* without being a reparse point
FinalPath(target) ==
    IF target = "certified" THEN "certified"
    ELSE IF link = "own" THEN "other"
    ELSE IF link = "none" THEN "none"
    ELSE "certified"

\* _classify_production_target
BindingMatches(plan, final) == plan.binding = (plan.target = "certified" \/ final = "certified")

\* _validate_plan_state and build_provisioning_plan
ValidPlan(plan) ==
    /\ plan.roles \subseteq Roles
    /\ BindingMatches(plan, FinalPath(plan.target))
    /\ plan.binding => plan.identity = "certified"

\* _effective_plan_at_mutation_boundary, and the host of a production apply
BoundaryHolds(plan) ==
    /\ ValidPlan(plan)
    /\ plan.target = "alias" => link \notin {"none", "junction"}
    /\ plan.apply /\ plan.binding => plan.host

Off == [pc |-> "off", plan |-> CertifiedPlan, root |-> "certified", missing |-> {}, code |-> 0]
NoRun == [pc |-> "idle", attempt |-> "none"]

Init ==
    /\ dir \in {[r \in Roots |-> [n \in Names |-> IF r = "certified" THEN present[n] ELSE "absent"]] :
                  present \in [Names -> {"absent"}] \cup
                              {[n \in Names |-> IF n \in Deferred THEN "certified" ELSE "absent"],
                               [n \in Names |-> IF n = "unknown" THEN "foreign" ELSE "absent"]}}
    /\ link = "own"
    /\ source = "trusted"
    /\ authority = [a \in Attempts |-> "none"]
    /\ files = [a \in Attempts |-> {}]
    /\ terminal = [a \in Attempts |-> "none"]
    /\ run = [x \in Runs |-> NoRun]
    /\ prov = [p \in Runs \cup {Console} |-> Off]
    /\ starts = [a \in Attempts |-> 0]
    /\ late = FALSE
    /\ stops = 0 /\ faults = 0 /\ relinks = 0 /\ consoles = 0

-----------------------------------------------------------------------------
(* The provisioner *)

Begin(p, plan) == prov' = [prov EXCEPT ![p] = [Off EXCEPT !.pc = "planned", !.plan = plan]]

\* Exit status 0 for DRY_RUN, ALREADY_CORRECT and APPLIED, 2 for FAILED and PARTIAL_FAILURE
Exit(p, code) == prov' = [prov EXCEPT ![p] = [Off EXCEPT !.pc = "exit", !.code = code]]

\* build_provisioning_plan and provision, called with any plan; main only ever asks for the
\* certified binding
StartConsole(plan) ==
    /\ prov[Console].pc \in {"off", "exit"}
    /\ consoles < MaxConsole
    /\ ValidPlan(plan)
    /\ Begin(Console, plan)
    /\ consoles' = consoles + 1
    /\ UNCHANGED <<dir, link, source, authority, files, terminal, run, starts, late,
                   stops, faults, relinks>>

\* The plan is validated again and its target replaced by the final path.
Boundary(p) ==
    LET plan == prov[p].plan
    IN  /\ prov[p].pc = "planned"
        /\ IF BoundaryHolds(plan)
           THEN prov' = [prov EXCEPT ![p].pc = "bound", ![p].root = FinalPath(plan.target)]
           ELSE Exit(p, 2)
        /\ UNCHANGED <<dir, link, source, authority, files, terminal, run, starts, late, counters>>

\* The directory that a path in the given root leads to now, after the drive was given away
\* or the directory replaced
Physical(root) == IF root = "other" /\ link \in {"junction", "subst"} THEN "certified" ELSE root

\* A path in the given root leads nowhere.
Gone(root) == root = "other" /\ link = "none"

\* Mutant: only the entries of the root are inspected.
AnyRoot(plan, there) == TRUE

\* The policy of the root itself, which provision never creates
RootMatches(plan, there) == there = "certified" => plan.identity = "certified"

\* _preflight: exact planned and deferred roles are kept, anything else refuses the plan
Compatible(plan, name, found) ==
    \/ found = "absent"
    \/ name \in plan.roles \cup Deferred /\ found = PolicyOf(name, plan.identity)

Preflight(p) ==
    LET plan == prov[p].plan
        there == Physical(prov[p].root)
        here == dir[there]
        missing == {role \in plan.roles : here[role] = "absent"}
    IN  /\ prov[p].pc = "bound"
        /\ IF \/ prov[p].root = "other" /\ link \in {"none", "junction"}
              \/ ~RootMatches(plan, there)
              \/ \E n \in Names : ~Compatible(plan, n, here[n])
           THEN Exit(p, 2)
           ELSE IF ~plan.apply \/ missing = {}
                THEN Exit(p, 0)
                ELSE prov' = [prov EXCEPT ![p].pc = "creating", ![p].missing = missing]
        /\ UNCHANGED <<dir, link, source, authority, files, terminal, run, starts, late, counters>>

\* create_secure_directory with its access list, and the readback; the roles in any order
CreateRole(p, role) ==
    LET there == Physical(prov[p].root)
    IN  /\ prov[p].pc = "creating"
        /\ role \in prov[p].missing
        /\ IF dir[there][role] = "absent" /\ ~Gone(prov[p].root)
           THEN /\ dir' = [dir EXCEPT ![there][role] = PolicyOf(role, prov[p].plan.identity)]
                /\ IF prov[p].missing = {role}
                   THEN Exit(p, 0)
                   ELSE prov' = [prov EXCEPT ![p].missing = @ \ {role}]
           ELSE Exit(p, 2) /\ UNCHANGED dir
        /\ UNCHANGED <<link, source, authority, files, terminal, run, starts, late, counters>>

\* The directory cannot be created, or it is there but cannot be read back.
CreateRoleFails(p, role) ==
    LET there == Physical(prov[p].root)
    IN  /\ prov[p].pc = "creating"
        /\ role \in prov[p].missing
        /\ faults < MaxFaults
        /\ faults' = faults + 1
        /\ dir' \in {dir, IF dir[there][role] = "absent" /\ ~Gone(prov[p].root)
                          THEN [dir EXCEPT ![there][role] = PolicyOf(role, prov[p].plan.identity)]
                          ELSE dir}
        /\ Exit(p, 2)
        /\ UNCHANGED <<link, source, authority, files, terminal, run, starts, late, stops, relinks,
                       consoles>>

-----------------------------------------------------------------------------
(* The authority and the command *)

\* created_utc <= now <= expires_utc
AuthorityActive(a) == authority[a] = "active"

\* The digests of the payload, the runtime archive and the bundle
SourceVerified == source = "trusted"

\* build_trusted_snapshot and build_powershell_command
Prepare(a) ==
    /\ authority[a] = "none"
    /\ SourceVerified
    /\ authority' = [authority EXCEPT ![a] = "active"]
    /\ UNCHANGED <<dir, link, source, files, terminal, run, prov, starts, late, counters>>

Expire(a) ==
    /\ AuthorityActive(a)
    /\ authority' = [authority EXCEPT ![a] = "expired"]
    /\ UNCHANGED <<dir, link, source, files, terminal, run, prov, starts, late, counters>>

ChangeSource ==
    /\ source = "trusted"
    /\ faults < MaxFaults
    /\ source' = "changed"
    /\ faults' = faults + 1
    /\ UNCHANGED <<dir, link, authority, files, terminal, run, prov, starts, late, stops, relinks,
                   consoles>>

Go(x, pc) == run' = [run EXCEPT ![x].pc = pc]
GiveUp(x) == run' = [run EXCEPT ![x] = NoRun]

\* Mutant: a file that exists is opened like a new one.
OpenAnyway(a, file) == TRUE

\* FileMode.CreateNew
CreateNew(a, file) == file \notin files[a]

Wrote(a, file) == files' = [files EXCEPT ![a] = @ \cup {file}]

\* Stage-0 checks the authority and that the staging directory of the attempt does not exist.
StartStage0(x, a) ==
    /\ run[x].pc = "idle"
    /\ AuthorityActive(a)
    /\ CreateNew(a, "root")
    /\ run' = [run EXCEPT ![x] = [pc |-> "stage0", attempt |-> a]]
    /\ UNCHANGED <<dir, link, source, authority, files, terminal, prov, starts, late, counters>>

\* Ensure-AdminOnlyDirectory for staging and the attempt, which two executions may both pass
MakeStaging(x) ==
    LET a == run[x].attempt
        staging == dir["certified"][StagingRole]
    IN  /\ run[x].pc = "stage0"
        /\ IF staging \in {"absent", PolicyOf(StagingRole, "certified")}
           THEN /\ dir' = [dir EXCEPT !["certified"][StagingRole] = PolicyOf(StagingRole, "certified")]
                /\ Wrote(a, "root")
                /\ Go(x, "staged")
           ELSE GiveUp(x) /\ UNCHANGED <<dir, files>>
        /\ UNCHANGED <<link, source, authority, terminal, prov, starts, late, counters>>

\* Create-AttemptClaim
Claim(x) ==
    LET a == run[x].attempt
    IN  /\ run[x].pc = "staged"
        /\ IF CreateNew(a, "claim")
           THEN Wrote(a, "claim") /\ Go(x, "claimed")
           ELSE GiveUp(x) /\ UNCHANGED files
        /\ UNCHANGED <<dir, link, source, authority, terminal, prov, starts, late, counters>>

\* Copy-Verified, then the payload: authority, hashes, extraction, and the authority again
CopyAndVerify(x) ==
    /\ run[x].pc = "claimed"
    /\ IF SourceVerified /\ AuthorityActive(run[x].attempt)
       THEN Go(x, "verified")
       ELSE GiveUp(x)
    /\ UNCHANGED <<dir, link, source, authority, files, terminal, prov, starts, late, counters>>

PublishBaseline(x) ==
    LET a == run[x].attempt
    IN  /\ run[x].pc = "verified"
        /\ IF CreateNew(a, "baseline")
           THEN Wrote(a, "baseline") /\ Go(x, "baseline")
           ELSE GiveUp(x) /\ UNCHANGED files
        /\ UNCHANGED <<dir, link, source, authority, terminal, prov, starts, late, counters>>

\* Set-OneShotLatch
TakeLatch(x) ==
    LET a == run[x].attempt
    IN  /\ run[x].pc = "baseline"
        /\ IF CreateNew(a, "latch")
           THEN Wrote(a, "latch") /\ Go(x, "latched")
           ELSE GiveUp(x) /\ UNCHANGED files
        /\ UNCHANGED <<dir, link, source, authority, terminal, prov, starts, late, counters>>

\* Start-ContainedProcess with the frozen arguments
StartProvisioner(x) ==
    /\ run[x].pc = "latched"
    /\ Begin(x, CertifiedPlan)
    /\ starts' = [starts EXCEPT ![run[x].attempt] = @ + 1]
    /\ Go(x, "waiting")
    /\ UNCHANGED <<dir, link, source, authority, files, terminal, late, counters>>

\* Mutant: an exit status that was published counts as success.
AnyExitIsSuccess(code, provisioned) == IF code = 9 THEN "INDETERMINATE" ELSE "SUCCESS"

\* Get-TerminalFailureClassification; 9 stands for no published exit status
TerminalStatus(code, provisioned) ==
    IF code = 9 THEN "INDETERMINATE"
    ELSE IF code = 0 /\ provisioned THEN "SUCCESS" ELSE "FAILED"

\* Assert-PostState
Provisioned == \A role \in Roles : dir["certified"][role] = PolicyOf(role, "certified")

\* No process came into being: the evidence says INDETERMINATE.
StartFails(x) ==
    LET a == run[x].attempt
    IN  /\ run[x].pc = "latched"
        /\ faults < MaxFaults
        /\ faults' = faults + 1
        /\ terminal' = [terminal EXCEPT ![a] = TerminalStatus(9, Provisioned)]
        /\ Wrote(a, "terminal")
        /\ Go(x, "indexing")
        /\ UNCHANGED <<dir, link, source, authority, prov, starts, late, stops, relinks, consoles>>

\* The provisioner has ended, its exit status is published, the directories are read back and
\* terminal-evidence.json is written.  Waiting may fail at any time, which ends the provisioner,
\* and so may the publication of the exit status.
PublishTerminal(x) ==
    LET a == run[x].attempt
    IN  /\ run[x].pc = "waiting"
        /\ \E code \in {prov[x].code, 9} :
              /\ prov[x].pc = "exit" \/ code = 9
              /\ faults' = IF code = 9 THEN faults + 1 ELSE faults
              /\ faults' <= MaxFaults
              /\ terminal' = [terminal EXCEPT ![a] = TerminalStatus(code, Provisioned)]
        /\ Wrote(a, "terminal")
        /\ prov' = [prov EXCEPT ![x] = Off]
        /\ Go(x, "indexing")
        /\ UNCHANGED <<dir, link, source, authority, starts, late, stops, relinks, consoles>>

PublishIndex(x) ==
    /\ run[x].pc = "indexing"
    /\ Wrote(run[x].attempt, "index")
    /\ GiveUp(x)
    /\ UNCHANGED <<dir, link, source, authority, terminal, prov, starts, late, counters>>

\* Resolve-TerminalEvidencePath: the baseline says INDETERMINATE until the index exists
Verdict(a) == IF {"terminal", "index"} \subseteq files[a] THEN terminal[a] ELSE "INDETERMINATE"

-----------------------------------------------------------------------------
(* Around them *)

\* The execution ends, and with it the job of its provisioner.
StopRun(x) ==
    /\ run[x].pc # "idle"
    /\ stops < MaxStops
    /\ stops' = stops + 1
    /\ GiveUp(x)
    /\ prov' = [prov EXCEPT ![x] = Off]
    /\ UNCHANGED <<dir, link, source, authority, files, terminal, starts, late, faults, relinks,
                   consoles>>

StopConsole ==
    /\ prov[Console].pc \notin {"off", "exit"}
    /\ stops < MaxStops
    /\ stops' = stops + 1
    /\ prov' = [prov EXCEPT ![Console] = Off]
    /\ UNCHANGED <<dir, link, source, authority, files, terminal, run, starts, late, faults, relinks,
                   consoles>>

Relink(new) ==
    /\ relinks < MaxRelinks
    /\ new # link
    /\ link' = new
    /\ late' = (late \/ \E p \in DOMAIN prov : prov[p].pc = "creating" /\ prov[p].root = "other")
    /\ relinks' = relinks + 1
    /\ UNCHANGED <<dir, source, authority, files, terminal, run, prov, starts, stops, faults, consoles>>

ProvisionerStep(p) ==
    \/ Boundary(p)
    \/ Preflight(p)
    \/ \E role \in Roles : CreateRole(p, role) \/ CreateRoleFails(p, role)

RunStep(x) ==
    \/ \E a \in Attempts : StartStage0(x, a)
    \/ MakeStaging(x) \/ Claim(x) \/ CopyAndVerify(x)
    \/ PublishBaseline(x) \/ TakeLatch(x) \/ StartProvisioner(x) \/ StartFails(x)
    \/ PublishTerminal(x) \/ PublishIndex(x)
    \/ StopRun(x)

Next ==
    \/ \E plan \in Plans : StartConsole(plan)
    \/ \E p \in Runs \cup {Console} : ProvisionerStep(p)
    \/ \E a \in Attempts : Prepare(a) \/ Expire(a)
    \/ \E x \in Runs : RunStep(x)
    \/ ChangeSource
    \/ StopConsole
    \/ \E new \in {"own", "junction", "subst", "none"} : Relink(new)

Spec == Init /\ [][Next]_vars

-----------------------------------------------------------------------------
(* Properties *)

\* Whatever plan is given, whatever the alias path leads to when the plan is made and when it
\* is applied, and wherever executions stop or fail, a directory of the production root has
\* exactly the policy of the certified identity: no partial state has to be undone, and
\* provision can always be repeated.  Only an alias that is changed after _preflight looked
\* at it could lead elsewhere.
ProductionStaysCertified ==
    ~late => \A n \in Roles \cup Deferred :
                dir["certified"][n] \in {"absent", PolicyOf(n, "certified")}

\* The claim and the latch of an attempt make its authority work once: however often and
\* however simultaneously the command is executed, the provisioner is started once.
OneApplyPerAttempt == \A a \in Attempts : starts[a] <= 1

\* An attempt whose evidence resolves to SUCCESS has left all required directories in place,
\* also when executions were stopped between the evidence files or ran side by side.
SuccessMeansProvisioned == \A a \in Attempts : Verdict(a) = "SUCCESS" => Provisioned
=============================================================================

------------------------------ MODULE Releases ------------------------------
(***************************************************************************)
(* Installing, updating, rolling back and removing releases with the local *)
(* deployment backend: release directories are copied and verified, and a  *)
(* state file names the active release and the retained ones.  The process *)
(* may stop between any two of these steps.                                *)
(***************************************************************************)
EXTENDS FiniteSets

CONSTANTS
    ReleaseIds,     \* release identifiers
    NoRelease

ASSUME ReleaseAssumption == NoRelease \notin ReleaseIds

VARIABLES
    installed,  \* APP_INSTALL_ROOT: "absent", "partial" or "whole"
    active,     \* active_release of the state file
    retained,   \* retained_releases of the state file, without order and repetition
    operation,  \* the operation under way
    cutOff      \* an uninstall was cut off while it removed (history)

releaseVars == <<installed, active, retained, operation, cutOff>>

NoOperation == [kind |-> "none", release |-> NoRelease]

InitReleases ==
    /\ installed = [r \in ReleaseIds |-> "absent"]
    /\ active = NoRelease /\ retained = {}
    /\ operation = NoOperation
    /\ cutOff = FALSE

\* verify_release: the manifest is there and every file is the one it names.
VerifyRelease(r) == installed[r] = "whole"

\* install_release after a passing preflight: the artifact is verified; _stage copies
\* it unless the directory exists.
BeginInstall(r) ==
    /\ operation = NoOperation
    /\ installed' = IF installed[r] = "absent" THEN [installed EXCEPT ![r] = "partial"]
                    ELSE installed
    /\ operation' = [kind |-> IF installed[r] = "absent" THEN "copy" ELSE "staged", release |-> r]
    /\ UNCHANGED <<active, retained, cutOff>>

\* copytree ends.
CopyRelease ==
    /\ operation.kind = "copy"
    /\ installed' = [installed EXCEPT ![operation.release] = "whole"]
    /\ operation' = [operation EXCEPT !.kind = "staged"]
    /\ UNCHANGED <<active, retained, cutOff>>

\* copytree fails: what it copied stays.
CopyFails ==
    /\ operation.kind = "copy"
    /\ operation' = NoOperation
    /\ UNCHANGED <<installed, active, retained, cutOff>>

\* The active release is kept when another one takes its place.
Kept(r) == {active} \ {NoRelease, r}

\* Mutant: a directory that exists is taken as it is.
StagedExists(r) == TRUE

\* _stage: an existing directory, and a new copy, must verify.
StagedVerifies(r) == VerifyRelease(r)

\* The release becomes active when it is healthy; otherwise nothing but the list of
\* transactions changes.
Activate(healthy) ==
    /\ operation.kind = "staged"
    /\ operation' = NoOperation
    /\ IF StagedVerifies(operation.release) /\ healthy
       THEN /\ active' = operation.release
            /\ retained' = retained \cup Kept(operation.release)
       ELSE UNCHANGED <<active, retained>>
    /\ UNCHANGED <<installed, cutOff>>

\* rollback_release, to the named release or to the newest retained one.
Rollback(r) ==
    /\ operation = NoOperation
    /\ VerifyRelease(r)
    /\ active' = r
    /\ retained' = (retained \ {r}) \cup Kept(r)
    /\ UNCHANGED <<installed, operation, cutOff>>

\* uninstall removes the directories, then writes the state; retained_releases stay.
BeginUninstall ==
    /\ operation = NoOperation
    /\ operation' = [NoOperation EXCEPT !.kind = "remove"]
    /\ UNCHANGED <<installed, active, retained, cutOff>>

RemoveRelease(r) ==
    /\ operation.kind = "remove" /\ installed[r] # "absent"
    /\ installed' = [installed EXCEPT ![r] = "absent"]
    /\ UNCHANGED <<active, retained, operation, cutOff>>

\* With remove_releases = False the directories stay.
FinishUninstall ==
    /\ operation.kind = "remove"
    /\ active' = NoRelease
    /\ operation' = NoOperation
    /\ UNCHANGED <<installed, retained, cutOff>>

InstallerStops ==
    /\ operation # NoOperation
    /\ operation' = NoOperation
    /\ cutOff' = (cutOff \/ operation.kind = "remove")
    /\ UNCHANGED <<installed, active, retained>>

NextReleases ==
    \/ \E r \in ReleaseIds : BeginInstall(r) \/ Rollback(r) \/ RemoveRelease(r)
    \/ \E healthy \in BOOLEAN : Activate(healthy)
    \/ CopyRelease \/ CopyFails \/ BeginUninstall \/ FinishUninstall \/ InstallerStops

SpecReleases == InitReleases /\ [][NextReleases]_releaseVars

-----------------------------------------------------------------------------
(* Properties *)

\* The active release is a whole release, although an installation that is cut off
\* leaves a partial directory under the name of its release and a later installation or
\* rollback meets it; only an uninstall that is cut off leaves a name without its
\* directory.
ActiveReleaseIsWhole ==
    active # NoRelease /\ ~cutOff /\ operation.kind # "remove" => VerifyRelease(active)

=============================================================================

---------------------------- MODULE BackupBundle ----------------------------
(***************************************************************************)
(* BackupService and RestoreVerifier: a bundle of managed files with a     *)
(* manifest is filled in a staging directory, verified there and renamed.  *)
(* The storage may be damaged at any time, and the process may stop        *)
(* between any two file operations.                                        *)
(***************************************************************************)
EXTENDS FiniteSets

CONSTANTS
    Bundles,        \* backup identifiers
    Keys,           \* storage keys of READY files
    NoBundle

ASSUME BundleAssumption == NoBundle \notin Bundles

VARIABLES
    stored,     \* keys whose object in the storage has its recorded size and digest
    bundle,     \* the directories under the backup root
    worker,     \* the backup being made: its bundle, the keys to copy and the verified ones
    damaged     \* bundles that lost a file after it was verified (history)

bundleVars == <<stored, bundle, worker, damaged>>

\* "files" are the keys whose copy is whole, "listed" the ones the manifest names,
\* "sealed" says that manifest.sha256 is there.
NoDirectory == [name |-> "none", files |-> {}, listed |-> {}, manifest |-> FALSE,
                sealed |-> FALSE]
NoWorker == [id |-> NoBundle, todo |-> {}, chosen |-> {}, checked |-> {}]

InitBundles ==
    /\ stored = Keys
    /\ bundle = [id \in Bundles |-> NoDirectory]
    /\ worker = NoWorker
    /\ damaged = {}

\* create: an identifier whose directories exist is refused; the files go to a directory of
\* a name that retention_candidates does not list.
BeginBundle(id, chosen) ==
    /\ worker = NoWorker
    /\ bundle[id] = NoDirectory
    /\ bundle' = [bundle EXCEPT ![id].name = "staging"]
    /\ worker' = [id |-> id, todo |-> chosen, chosen |-> chosen, checked |-> {}]
    /\ UNCHANGED <<stored, damaged>>

\* The except clause removes the staging directory, as far as that works.
BundleFails(id) ==
    /\ bundle' \in {[bundle EXCEPT ![id] = NoDirectory], bundle}
    /\ worker' = NoWorker
    /\ UNCHANGED <<stored, damaged>>

\* One object: its bytes are read once, compared with the record, and written.
CopyObject(key) ==
    /\ worker # NoWorker /\ key \in worker.todo
    /\ IF key \in stored
       THEN /\ bundle' = [bundle EXCEPT ![worker.id].files = @ \cup {key}]
            /\ worker' = [worker EXCEPT !.todo = @ \ {key}]
            /\ UNCHANGED <<stored, damaged>>
       ELSE BundleFails(worker.id)

WriteManifest ==
    /\ worker # NoWorker /\ worker.todo = {}
    /\ ~bundle[worker.id].manifest
    /\ bundle' = [bundle EXCEPT ![worker.id].manifest = TRUE,
                                ![worker.id].listed = worker.chosen]
    /\ UNCHANGED <<stored, worker, damaged>>

WriteChecksum ==
    /\ worker # NoWorker
    /\ bundle[worker.id].manifest /\ ~bundle[worker.id].sealed
    /\ bundle' = [bundle EXCEPT ![worker.id].sealed = TRUE]
    /\ UNCHANGED <<stored, worker, damaged>>

\* The manifest and its checksum are there and agree, and _parse_manifest accepts it; a
\* torn manifest or checksum file counts as absent.
ManifestParses(b) == b.manifest /\ b.sealed

\* RestoreVerifier.verify: the manifest, and every file it names.
Valid(b) == ManifestParses(b) /\ b.listed \subseteq b.files

\* RestoreVerifier.verify reads the files the manifest names one after the other.
VerifyFile(key) ==
    /\ worker # NoWorker /\ ManifestParses(bundle[worker.id])
    /\ key \in bundle[worker.id].listed \ worker.checked
    /\ IF key \in bundle[worker.id].files
       THEN worker' = [worker EXCEPT !.checked = @ \cup {key}]
            /\ UNCHANGED <<stored, bundle, damaged>>
       ELSE BundleFails(worker.id)

\* Mutant: the bundle is published without its verification.
PublishUnverified ==
    /\ worker # NoWorker /\ ManifestParses(bundle[worker.id])
    /\ bundle' = [bundle EXCEPT ![worker.id].name = "final"]
    /\ worker' = NoWorker
    /\ UNCHANGED <<stored, damaged>>

\* os.replace, some time after the last file was verified.
PublishBundle ==
    /\ worker # NoWorker /\ ManifestParses(bundle[worker.id])
    /\ bundle[worker.id].listed \subseteq worker.checked
    /\ bundle' = [bundle EXCEPT ![worker.id].name = "final"]
    /\ worker' = NoWorker
    /\ UNCHANGED <<stored, damaged>>

\* Any step may fail.
AnyStepFails == worker # NoWorker /\ BundleFails(worker.id)

ProcessStops ==
    /\ worker # NoWorker
    /\ worker' = NoWorker
    /\ UNCHANGED <<stored, bundle, damaged>>

\* An object of the storage is lost or damaged, or put back.
StorageChanges(key) ==
    /\ stored' = IF key \in stored THEN stored \ {key} ELSE stored \cup {key}
    /\ UNCHANGED <<bundle, worker, damaged>>

\* A file of a bundle is lost or changed, also while the bundle is filled.
BundleChanges(id, key) ==
    /\ key \in bundle[id].files
    /\ bundle' = [bundle EXCEPT ![id].files = @ \ {key}]
    /\ damaged' = IF bundle[id].name = "final" \/ (id = worker.id /\ key \in worker.checked)
                  THEN damaged \cup {id} ELSE damaged
    /\ UNCHANGED <<stored, worker>>

NextBundles ==
    \/ \E id \in Bundles : \/ \E chosen \in SUBSET Keys : BeginBundle(id, chosen)
                           \/ \E key \in Keys : BundleChanges(id, key)
    \/ \E key \in Keys : CopyObject(key) \/ VerifyFile(key) \/ StorageChanges(key)
    \/ WriteManifest \/ WriteChecksum \/ PublishBundle \/ AnyStepFails \/ ProcessStops

SpecBundles == InitBundles /\ [][NextBundles]_bundleVars

-----------------------------------------------------------------------------
(* Properties *)

\* What stands under a backup's own name is a whole bundle: it verifies until one of its
\* files is lost after it was verified, be it before the rename or later; wherever the
\* backup was cut off, and whatever happened before that to the storage or to the staged
\* copies.
PublishedBundlesVerify ==
    \A id \in Bundles : bundle[id].name = "final" /\ id \notin damaged => Valid(bundle[id])

=============================================================================

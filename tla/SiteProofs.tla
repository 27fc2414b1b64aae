----------------------------- MODULE SiteProofs -----------------------------
(***************************************************************************)
(* Proofs about the parts of a site that need no product data: on the      *)
(* server's machine Accounts, Releases, BackupBundle and ServerHost, on    *)
(* the desktops License and DesktopStart, for any accounts and request     *)
(* threads, releases, bundles, processes, desktops, licences, period of    *)
(* grace, days and servers; and about MonthlyImport, for any sheet and any *)
(* deliveries.                                                             *)
(***************************************************************************)
EXTENDS Accounts, Releases, BackupBundle, ServerHost, DesktopStart, MonthlyImport,
        FiniteSetTheorems, WellFoundedInduction, TLAPS

-----------------------------------------------------------------------------
(* Accounts *)

AccountsTypeOK == accounts \in [AccountIds -> AccountRecords \cup {NoAccount}]

\* No handler runs before there is an account: else create_account could make the first
\* one, without an administrator.
HandlersFollowBootstrap == (\E t \in Threads : request[t] # NoRequest) => Existing # {}

RequestsTyped == request \in [Threads -> {NoRequest, "other", "create_account", "update_account"}]

AccountsInvariant ==
    AccountsTypeOK /\ RequestsTyped /\ HandlersFollowBootstrap /\ AdministrableAccounts

\* Whatever body a PATCH request has, what it makes of an account is an account.
LEMMA PatchedIsAccount ==
    ASSUME NEW account \in AccountRecords, NEW patch \in ToolPatches \cup Patches
    PROVE  /\ Patched(account, patch) \in AccountRecords
           /\ Patched(account, patch).name = Or(patch.username, account.name)
           /\ Patched(account, patch).active = Or(patch.active, account.active)
           /\ Patched(account, patch).role = Or(patch.role, account.role)
<1>1. patch \in [username : Names \cup {NoValue}, active : BOOLEAN \cup {NoValue},
                 role : Roles \cup {NoValue}, password : Passwords \cup {NoValue}]
  <2>1. CASE patch \in Patches
    BY <2>1, AccountsAssumption
  <2>2. CASE patch \in ToolPatches
    BY <2>2 DEF ToolPatches, ChangeSelectedRole, ToggleSelectedAccount, ResetSelectedPassword,
                RenameSelectedAccount, NoChange
  <2> QED
    BY <2>1, <2>2
<1>2. /\ Or(patch.username, account.name) \in Names
      /\ Or(patch.password, account.password) \in Passwords
      /\ Or(patch.role, account.role) \in Roles
      /\ Or(patch.active, account.active) \in BOOLEAN
  BY <1>1 DEF Or, AccountRecords
<1> QED
  BY <1>2 DEF Patched, AccountRecords

\* Of two or more active administrators, one remains whichever account changes.
LEMMA AnotherAdmin ==
    ASSUME AccountsTypeOK, NEW id \in AccountIds,
           Cardinality(ActiveAdmins(accounts)) > 1
    PROVE  \E other \in ActiveAdmins(accounts) : other # id
<1> DEFINE admins == ActiveAdmins(accounts)
<1>1. IsFiniteSet(admins)
  BY AccountsAssumption, FS_Subset DEF ActiveAdmins
<1>2. SUFFICES ASSUME \A other \in admins : other = id
               PROVE  FALSE
  OBVIOUS
<1>3. admins \in SUBSET {id}
  BY <1>2
<1>4. Cardinality(admins) <= Cardinality({id}) /\ Cardinality({id}) = 1
  BY <1>3, FS_Singleton, FS_Subset
<1>5. Cardinality(admins) \in Nat
  BY <1>1, FS_CardinalityType
<1> QED
  BY <1>4, <1>5

\* The change of one account to another one keeps an administrator and unique names.
LEMMA AccountChanges ==
    ASSUME AccountsTypeOK, AdministrableAccounts,
           NEW id \in AccountIds, NEW next \in AccountRecords,
           accounts' = [accounts EXCEPT ![id] = next],
           ~NameTaken(accounts, next.name, id),
           \/ next.active /\ next.role = "ADMIN"
           \/ \E other \in ActiveAdmins(accounts) : other # id
    PROVE  AccountsTypeOK' /\ AdministrableAccounts' /\ Existing' # {}
<1>1. /\ AccountsTypeOK'
      /\ accounts'[id] = next /\ \A other \in AccountIds \ {id} : accounts'[other] = accounts[other]
  BY DEF AccountsTypeOK
<1>2. next # NoAccount
  BY AccountsAssumption
<1>3. id \in Existing'
  BY <1>1, <1>2 DEF Existing
<1>4. ActiveAdmins(accounts)' # {}
  BY <1>1, <1>2 DEF ActiveAdmins
<1>5. ASSUME NEW x \in Existing', NEW y \in Existing', accounts'[x].name = accounts'[y].name
      PROVE  x = y
  <2>1. x \in AccountIds /\ y \in AccountIds
    BY DEF Existing
  <2>2. CASE x = id \/ y = id
    BY <1>1, <1>5, <2>1, <2>2 DEF Existing, NameTaken
  <2>3. CASE x # id /\ y # id
    BY <1>1, <1>5, <2>1, <2>3 DEF Existing, AdministrableAccounts
  <2> QED
    BY <2>2, <2>3
<1> QED
  BY <1>1, <1>3, <1>4, <1>5 DEF AdministrableAccounts

-----------------------------------------------------------------------------
(* The theorem *)

\* Every step keeps the invariant.
LEMMA AccountsInvariantInductive ==
    ASSUME AccountsInvariant, [NextAccounts]_accountVars
    PROVE  AccountsInvariant'
<1> USE DEF AccountsInvariant
<1>0. AccountsTypeOK /\ AdministrableAccounts /\ HandlersFollowBootstrap /\ RequestsTyped
  OBVIOUS
<1>1. CASE UNCHANGED accountVars
  BY <1>1 DEF accountVars, AccountsTypeOK, RequestsTyped, HandlersFollowBootstrap, Existing,
              AdministrableAccounts, ActiveAdmins
<1>2. ASSUME NEW id \in AccountIds, NEW name \in Names, NEW password \in Passwords,
             BootstrapAdmin(id, name, password)
      PROVE  AccountsInvariant'
  <2>1. Existing = {} /\ UNCHANGED request
        /\ accounts' = [accounts EXCEPT ![id] = Account(name, password, "ADMIN")]
    BY <1>2 DEF BootstrapAdmin
  <2>2. /\ Account(name, password, "ADMIN") \in AccountRecords
        /\ Account(name, password, "ADMIN").active
        /\ Account(name, password, "ADMIN").role = "ADMIN"
    BY DEF Account, AccountRecords, Roles
  <2>3. ~NameTaken(accounts, Account(name, password, "ADMIN").name, id)
    BY <2>1 DEF Existing, NameTaken
  <2>4. AccountsTypeOK' /\ AdministrableAccounts' /\ Existing' # {}
    BY <1>0, <2>1, <2>2, <2>3, AccountChanges
  <2> QED
    BY <2>1, <2>4 DEF HandlersFollowBootstrap, RequestsTyped
<1>3. ASSUME UNCHANGED accounts, RequestsTyped',
             \A t \in Threads : request'[t] # NoRequest => Existing # {}
      PROVE  AccountsInvariant'
  BY <1>3 DEF AccountsTypeOK, HandlersFollowBootstrap, Existing, AdministrableAccounts, ActiveAdmins
<1>4. ASSUME UNCHANGED <<accounts, request>>
      PROVE  AccountsInvariant'
  BY <1>3, <1>4 DEF HandlersFollowBootstrap, RequestsTyped
<1>5. ASSUME NEW id \in AccountIds, NEW name \in Names, NEW password \in Passwords,
             Login(id, name, password)
      PROVE  AccountsInvariant'
  BY <1>4, <1>5 DEF Login
<1>6. ASSUME NEW token \in tokens, ExpireToken(token)
      PROVE  AccountsInvariant'
  BY <1>4, <1>6 DEF ExpireToken
<1>7. ASSUME NEW t \in Threads, NEW token \in tokens, NEW route \in DOMAIN Access,
             Admit(t, token, route)
      PROVE  AccountsInvariant'
  <2>1. Existing # {} /\ UNCHANGED accounts
    BY <1>7 DEF Admit, Authenticates
  <2>2. RequestsTyped'
    BY <1>7 DEF Admit, HandlerOf, RequestsTyped
  <2> QED
    BY <1>3, <2>1, <2>2
<1>8. ASSUME NEW t \in Threads, Done(t)
      PROVE  RequestsTyped' /\ \A u \in Threads : request'[u] # NoRequest => request[u] # NoRequest
  BY <1>8 DEF Done, RequestsTyped
<1>9. ASSUME NEW t \in Threads, HandleOther(t)
      PROVE  AccountsInvariant'
  BY <1>3, <1>8, <1>9 DEF HandleOther, HandlersFollowBootstrap
<1>10. ASSUME NEW t \in Threads, NEW id \in AccountIds, NEW name \in Names,
              NEW password \in Passwords, NEW role \in Roles,
              CreateAccount(t, id, name, password, role)
       PROVE  AccountsInvariant'
  <2> DEFINE new == Account(name, password, role)
  <2>1. Done(t) /\ request[t] # NoRequest /\ accounts[id] = NoAccount
    BY <1>10 DEF CreateAccount, NoRequest
  <2>2. RequestsTyped'
    BY <1>8, <2>1
  <2>3. CASE UNCHANGED accounts
    BY <1>3, <1>8, <2>1, <2>3 DEF HandlersFollowBootstrap
  <2>4. CASE accounts' = [accounts EXCEPT ![id] = new] /\ ~NameTaken(accounts, name, id)
    <3>1. new \in AccountRecords /\ new.name = name
      BY DEF Account, AccountRecords
    <3>2. ActiveAdmins(accounts) # {}
      BY <1>0, <2>1 DEF HandlersFollowBootstrap, AdministrableAccounts
    <3>3. \E other \in ActiveAdmins(accounts) : other # id
      BY <2>1, <3>2 DEF ActiveAdmins
    <3> HIDE DEF new
    <3>4. AccountsTypeOK' /\ AdministrableAccounts' /\ Existing' # {}
      BY <1>0, <2>4, <3>1, <3>3, AccountChanges
    <3> QED
      BY <2>2, <3>4 DEF HandlersFollowBootstrap
  <2> QED
    BY <1>10, <2>3, <2>4 DEF CreateAccount
<1>11. ASSUME NEW t \in Threads, NEW id \in AccountIds, NEW patch \in ToolPatches \cup Patches,
              UpdateAccount(t, id, patch)
       PROVE  AccountsInvariant'
  <2> DEFINE next == Patched(accounts[id], patch)
  <2>1. Done(t) /\ request[t] # NoRequest /\ id \in Existing
    BY <1>11 DEF UpdateAccount, NoRequest
  <2>2. RequestsTyped'
    BY <1>8, <2>1
  <2>3. CASE UNCHANGED accounts
    BY <1>3, <1>8, <2>1, <2>3 DEF HandlersFollowBootstrap
  <2>4. CASE /\ accounts' = [accounts EXCEPT ![id] = next]
             /\ RenameAllowed(id, patch)
             /\ RemovesAdminAccess(accounts[id], next) => Cardinality(ActiveAdmins(accounts)) > 1
    <3>1. accounts[id] \in AccountRecords
      BY <1>0, <2>1 DEF AccountsTypeOK, Existing
    <3>2. /\ next \in AccountRecords
          /\ next.name = Or(patch.username, accounts[id].name)
      BY <3>1, PatchedIsAccount
    <3> HIDE DEF next
    <3>3. ~NameTaken(accounts, next.name, id)
      <4>1. CASE patch.username = NoValue
        BY <1>0, <2>1, <3>2, <4>1 DEF Or, NameTaken, AdministrableAccounts, Existing
      <4>2. CASE patch.username # NoValue
        BY <2>4, <3>2, <4>2 DEF Or, RenameAllowed
      <4> QED
        BY <4>1, <4>2
    <3>4. \/ next.active /\ next.role = "ADMIN"
          \/ \E other \in ActiveAdmins(accounts) : other # id
      <4>1. CASE RemovesAdminAccess(accounts[id], next)
        BY <1>0, <2>4, <4>1, AnotherAdmin
      <4>2. CASE ~(accounts[id].active /\ accounts[id].role = "ADMIN")
        <5>1. ActiveAdmins(accounts) # {} /\ id \notin ActiveAdmins(accounts)
          BY <1>0, <2>1, <4>2 DEF AdministrableAccounts, ActiveAdmins
        <5> QED
          BY <5>1
      <4> QED
        BY <4>1, <4>2 DEF RemovesAdminAccess
    <3>5. AccountsTypeOK' /\ AdministrableAccounts' /\ Existing' # {}
      BY <1>0, <2>4, <3>2, <3>3, <3>4, AccountChanges
    <3> QED
      BY <2>2, <3>5 DEF HandlersFollowBootstrap
  <2> QED
    BY <1>11, <2>3, <2>4 DEF UpdateAccount
<1> QED
  BY <1>1, <1>2, <1>5, <1>6, <1>7, <1>9, <1>10, <1>11 DEF NextAccounts

\* However requests interleave between their admission and their transaction, the server
\* keeps an active administrator, and a name means one account.
THEOREM AccountsStayAdministrable == SpecAccounts => []AdministrableAccounts
<1>1. InitAccounts => AccountsInvariant
  BY DEF InitAccounts, AccountsInvariant, AccountsTypeOK, RequestsTyped, HandlersFollowBootstrap,
         AdministrableAccounts, Existing
<1>2. AccountsInvariant /\ [NextAccounts]_accountVars => AccountsInvariant'
  BY AccountsInvariantInductive
<1>3. AccountsInvariant => AdministrableAccounts
  BY DEF AccountsInvariant
<1> QED
  BY <1>1, <1>2, <1>3, PTL DEF SpecAccounts

-----------------------------------------------------------------------------
(* Releases *)

ReleasesTypeOK ==
    /\ installed \in [ReleaseIds -> {"absent", "partial", "whole"}]
    /\ active \in ReleaseIds \cup {NoRelease}
    /\ operation \in [kind : {"none", "copy", "staged", "remove"}, release : ReleaseIds \cup {NoRelease}]
    /\ cutOff \in BOOLEAN
    /\ operation.kind \in {"copy", "staged"} => operation.release \in ReleaseIds

ReleasesInvariant == ReleasesTypeOK /\ ActiveReleaseIsWhole

\* Every step keeps the active release whole.
LEMMA ReleaseStepKeeps ==
    ASSUME ReleasesInvariant, [NextReleases]_releaseVars
    PROVE  ReleasesInvariant'
<1> USE ReleaseAssumption DEF ReleasesInvariant, ReleasesTypeOK, ActiveReleaseIsWhole, VerifyRelease
<1>1. CASE UNCHANGED releaseVars
  BY <1>1 DEF releaseVars
<1>2. ASSUME NEW r \in ReleaseIds, BeginInstall(r)
      PROVE  ReleasesInvariant'
  BY <1>2 DEF BeginInstall, NoOperation
<1>3. ASSUME NEW r \in ReleaseIds, Rollback(r)
      PROVE  ReleasesInvariant'
  BY <1>3 DEF Rollback, NoOperation
<1>4. ASSUME NEW r \in ReleaseIds, RemoveRelease(r)
      PROVE  ReleasesInvariant'
  BY <1>4 DEF RemoveRelease
<1>5. ASSUME NEW healthy \in BOOLEAN, Activate(healthy)
      PROVE  ReleasesInvariant'
  BY <1>5 DEF Activate, StagedVerifies, NoOperation
<1>6. CASE CopyRelease
  BY <1>6 DEF CopyRelease
<1>7. CASE CopyFails
  BY <1>7 DEF CopyFails, NoOperation
<1>8. CASE BeginUninstall
  BY <1>8 DEF BeginUninstall, NoOperation
<1>9. CASE FinishUninstall
  BY <1>9 DEF FinishUninstall, NoOperation
<1>10. CASE InstallerStops
  BY <1>10 DEF InstallerStops, NoOperation
<1> QED
  BY <1>1, <1>2, <1>3, <1>4, <1>5, <1>6, <1>7, <1>8, <1>9, <1>10 DEF NextReleases

\* The state file never names a release whose directory is partial, wherever
\* installations, updates and rollbacks are cut off; only an uninstall that is cut off
\* leaves a name without its directory.
THEOREM ActiveReleaseWhole == SpecReleases => []ActiveReleaseIsWhole
<1>1. InitReleases => ReleasesInvariant
  <2> SUFFICES ASSUME InitReleases
               PROVE  ReleasesInvariant
    OBVIOUS
  <2>1. NoOperation \in [kind : {"none", "copy", "staged", "remove"}, release : ReleaseIds \cup {NoRelease}]
        /\ NoOperation.kind = "none"
    BY DEF NoOperation
  <2>2. ReleasesTypeOK
    BY <2>1 DEF InitReleases, ReleasesTypeOK
  <2>3. ActiveReleaseIsWhole
    BY DEF InitReleases, ActiveReleaseIsWhole
  <2> QED
    BY <2>2, <2>3 DEF ReleasesInvariant
<1>2. ReleasesInvariant /\ [NextReleases]_releaseVars => ReleasesInvariant'
  BY ReleaseStepKeeps
<1>3. ReleasesInvariant => ActiveReleaseIsWhole
  BY DEF ReleasesInvariant
<1> QED
  BY <1>1, <1>2, <1>3, PTL DEF SpecReleases

-----------------------------------------------------------------------------
(* Backup bundles *)

Directory == [name : {"none", "staging", "final"}, files : SUBSET Keys, listed : SUBSET Keys,
              manifest : BOOLEAN, sealed : BOOLEAN]

BackupWorker == [id : Bundles \cup {NoBundle}, todo : SUBSET Keys, chosen : SUBSET Keys,
                 checked : SUBSET Keys]

\* A backup under way fills a staging directory, nothing is written to a final one; and the
\* files it verified are still there unless the bundle counts as damaged.
BundlesInvariant ==
    /\ bundle \in [Bundles -> Directory]
    /\ worker \in BackupWorker
    /\ worker # NoWorker => worker.id \in Bundles /\ bundle[worker.id].name = "staging"
    /\ worker # NoWorker /\ worker.id \notin damaged => worker.checked \subseteq bundle[worker.id].files
    /\ PublishedBundlesVerify

\* The change of a directory that is not final keeps the bundles, if a final one verifies
\* when it becomes final.
LEMMA DirectoryChanges ==
    ASSUME BundlesInvariant, NEW id \in Bundles, NEW dir \in Directory,
           bundle' = [bundle EXCEPT ![id] = dir], damaged \subseteq damaged',
           dir.name = "final" /\ id \notin damaged' => Valid(dir),
           worker' \in BackupWorker,
           worker' # NoWorker => worker'.id \in Bundles /\ bundle'[worker'.id].name = "staging",
           worker' # NoWorker /\ worker'.id \notin damaged' =>
              worker'.checked \subseteq bundle'[worker'.id].files
    PROVE  BundlesInvariant'
<1>1. /\ bundle' \in [Bundles -> Directory] /\ bundle'[id] = dir
      /\ \A other \in Bundles \ {id} : bundle'[other] = bundle[other]
  BY DEF BundlesInvariant
<1>2. ASSUME NEW other \in Bundles, bundle'[other].name = "final", other \notin damaged'
      PROVE  Valid(bundle'[other])
  <2>1. CASE other = id
    BY <1>1, <1>2, <2>1
  <2>2. CASE other # id
    BY <1>1, <1>2, <2>2 DEF BundlesInvariant, PublishedBundlesVerify
  <2> QED
    BY <2>1, <2>2
<1>3. PublishedBundlesVerify'
  BY <1>2 DEF PublishedBundlesVerify, Valid, ManifestParses
<1> QED
  BY <1>1, <1>3 DEF BundlesInvariant

\* A step that leaves the directories keeps the bundles.
LEMMA DirectoriesStay ==
    ASSUME BundlesInvariant, UNCHANGED <<bundle, damaged>>, worker' \in {worker, NoWorker}
    PROVE  BundlesInvariant'
<1>1. NoWorker \in BackupWorker
  BY DEF NoWorker, BackupWorker
<1> QED
  BY <1>1 DEF BundlesInvariant, PublishedBundlesVerify, Valid, ManifestParses, NoWorker

\* Every step keeps the bundles.
LEMMA BundleStepKeeps ==
    ASSUME BundlesInvariant, [NextBundles]_bundleVars
    PROVE  BundlesInvariant'
<1>0. /\ bundle \in [Bundles -> Directory]
      /\ worker \in BackupWorker
      /\ worker # NoWorker => worker.id \in Bundles /\ bundle[worker.id].name = "staging"
      /\ worker # NoWorker /\ worker.id \notin damaged => worker.checked \subseteq bundle[worker.id].files
      /\ NoWorker \in BackupWorker
      /\ NoDirectory \in Directory /\ NoDirectory.name = "none"
  BY DEF BundlesInvariant, NoWorker, NoDirectory, Directory, BackupWorker
<1>1. CASE UNCHANGED bundleVars
  BY <1>1, DirectoriesStay DEF bundleVars
<1>2. ASSUME NEW id \in Bundles, NEW chosen \in SUBSET Keys, BeginBundle(id, chosen)
      PROVE  BundlesInvariant'
  <2> DEFINE dir == [bundle[id] EXCEPT !.name = "staging"]
  <2>1. /\ bundle' = [bundle EXCEPT ![id] = dir] /\ UNCHANGED damaged
        /\ worker' = [id |-> id, todo |-> chosen, chosen |-> chosen, checked |-> {}]
    BY <1>0, <1>2 DEF BeginBundle
  <2>2. dir \in Directory /\ dir.name = "staging" /\ bundle'[id] = dir
    BY <1>0, <2>1 DEF Directory
  <2>3. worker' \in BackupWorker
        /\ worker'.id = id /\ worker'.checked = {}
    BY <2>1 DEF BackupWorker
  <2> HIDE DEF dir
  <2> QED
    BY <2>1, <2>2, <2>3, DirectoryChanges
<1>3. ASSUME worker # NoWorker, BundleFails(worker.id)
      PROVE  BundlesInvariant'
  <2>1. worker.id \in Bundles /\ worker' = NoWorker /\ UNCHANGED damaged
    BY <1>0, <1>3 DEF BundleFails
  <2>2. CASE UNCHANGED bundle
    BY <2>1, <2>2, DirectoriesStay
  <2>3. CASE bundle' = [bundle EXCEPT ![worker.id] = NoDirectory]
    BY <1>0, <2>1, <2>3, DirectoryChanges
  <2> QED
    BY <1>3, <2>2, <2>3 DEF BundleFails
<1>4. ASSUME NEW dir \in Directory, worker # NoWorker, dir.name = "staging",
             bundle' = [bundle EXCEPT ![worker.id] = dir], UNCHANGED damaged,
             worker' \in BackupWorker,
             worker'.id = worker.id, worker'.checked = worker.checked,
             bundle[worker.id].files \subseteq dir.files
      PROVE  BundlesInvariant'
  <2>1. worker.id \in Bundles /\ bundle'[worker.id] = dir
    BY <1>0, <1>4
  <2> QED
    BY <1>0, <1>4, <2>1, DirectoryChanges
<1>5. ASSUME NEW key \in Keys, CopyObject(key)
      PROVE  BundlesInvariant'
  <2>1. worker # NoWorker /\ worker.id \in Bundles /\ bundle[worker.id] \in Directory
    BY <1>0, <1>5 DEF CopyObject
  <2>2. CASE key \in stored
    <3> DEFINE dir == [bundle[worker.id] EXCEPT !.files = @ \cup {key}]
    <3>1. /\ bundle' = [bundle EXCEPT ![worker.id] = dir] /\ UNCHANGED damaged
          /\ worker' = [worker EXCEPT !.todo = @ \ {key}]
      BY <1>0, <1>5, <2>1, <2>2 DEF CopyObject
    <3>2. dir \in Directory /\ dir.name = "staging" /\ bundle[worker.id].files \subseteq dir.files
      BY <1>0, <2>1 DEF Directory
    <3>3. worker' \in BackupWorker
          /\ worker'.id = worker.id /\ worker'.checked = worker.checked
      BY <1>0, <3>1 DEF BackupWorker
    <3> HIDE DEF dir
    <3> QED
      BY <1>4, <2>1, <3>1, <3>2, <3>3
  <2>3. CASE key \notin stored
    BY <1>3, <1>5, <2>1, <2>3 DEF CopyObject
  <2> QED
    BY <2>2, <2>3
<1>6. CASE WriteManifest
  <2> DEFINE dir == [bundle[worker.id] EXCEPT !.manifest = TRUE, !.listed = worker.chosen]
  <2>1. worker # NoWorker /\ worker.id \in Bundles /\ bundle[worker.id] \in Directory
    BY <1>0, <1>6 DEF WriteManifest
  <2>2. bundle' = [bundle EXCEPT ![worker.id] = dir] /\ UNCHANGED <<worker, damaged>>
    BY <1>0, <1>6, <2>1 DEF WriteManifest
  <2>3. dir \in Directory /\ dir.name = "staging" /\ bundle[worker.id].files \subseteq dir.files
    BY <1>0, <2>1 DEF Directory, BackupWorker
  <2> HIDE DEF dir
  <2> QED
    BY <1>0, <1>4, <2>1, <2>2, <2>3
<1>7. CASE WriteChecksum
  <2> DEFINE dir == [bundle[worker.id] EXCEPT !.sealed = TRUE]
  <2>1. worker # NoWorker /\ worker.id \in Bundles /\ bundle[worker.id] \in Directory
    BY <1>0, <1>7 DEF WriteChecksum
  <2>2. bundle' = [bundle EXCEPT ![worker.id] = dir] /\ UNCHANGED <<worker, damaged>>
    BY <1>0, <1>7, <2>1 DEF WriteChecksum
  <2>3. dir \in Directory /\ dir.name = "staging" /\ bundle[worker.id].files \subseteq dir.files
    BY <1>0, <2>1 DEF Directory, BackupWorker
  <2> HIDE DEF dir
  <2> QED
    BY <1>0, <1>4, <2>1, <2>2, <2>3
<1>8. CASE PublishBundle
  <2> DEFINE dir == [bundle[worker.id] EXCEPT !.name = "final"]
  <2>1. worker # NoWorker /\ worker.id \in Bundles /\ bundle[worker.id] \in Directory
    BY <1>0, <1>8 DEF PublishBundle
  <2>2. bundle' = [bundle EXCEPT ![worker.id] = dir] /\ UNCHANGED damaged /\ worker' = NoWorker
    BY <1>0, <1>8, <2>1 DEF PublishBundle
  <2>3. worker.id \notin damaged => Valid(bundle[worker.id])
    BY <1>0, <1>8, <2>1 DEF PublishBundle, Valid
  <2>4. dir \in Directory /\ (worker.id \notin damaged => Valid(dir))
    BY <2>1, <2>3 DEF Directory, Valid, ManifestParses
  <2> HIDE DEF dir
  <2> QED
    BY <1>0, <2>1, <2>2, <2>4, DirectoryChanges
<1>13. ASSUME NEW key \in Keys, VerifyFile(key)
       PROVE  BundlesInvariant'
  <2>1. worker # NoWorker /\ worker.id \in Bundles
    BY <1>0, <1>13 DEF VerifyFile
  <2>2. CASE key \in bundle[worker.id].files
    <3>1. worker' = [worker EXCEPT !.checked = @ \cup {key}] /\ UNCHANGED <<bundle, damaged>>
      BY <1>13, <2>2 DEF VerifyFile
    <3>2. /\ worker' \in BackupWorker /\ worker'.id = worker.id
          /\ worker'.checked = worker.checked \cup {key}
      BY <1>0, <3>1 DEF BackupWorker
    <3> QED
      BY <1>0, <2>1, <2>2, <3>1, <3>2
         DEF BundlesInvariant, PublishedBundlesVerify, Valid, ManifestParses
  <2>3. CASE key \notin bundle[worker.id].files
    BY <1>3, <1>13, <2>1, <2>3 DEF VerifyFile
  <2> QED
    BY <2>2, <2>3
<1>9. CASE AnyStepFails
  BY <1>3, <1>9 DEF AnyStepFails
<1>10. CASE ProcessStops
  BY <1>10, DirectoriesStay DEF ProcessStops
<1>11. ASSUME NEW key \in Keys, StorageChanges(key)
       PROVE  BundlesInvariant'
  BY <1>11, DirectoriesStay DEF StorageChanges
<1>12. ASSUME NEW id \in Bundles, NEW key \in Keys, BundleChanges(id, key)
       PROVE  BundlesInvariant'
  <2> DEFINE dir == [bundle[id] EXCEPT !.files = @ \ {key}]
  <2>1. /\ bundle' = [bundle EXCEPT ![id] = dir] /\ UNCHANGED worker
        /\ damaged' = IF bundle[id].name = "final" \/ (id = worker.id /\ key \in worker.checked)
                      THEN damaged \cup {id} ELSE damaged
    BY <1>0, <1>12 DEF BundleChanges
  <2>2. dir \in Directory /\ dir.name = bundle[id].name /\ dir.files = bundle[id].files \ {key}
    BY <1>0 DEF Directory
  <2>3. worker # NoWorker => bundle'[worker.id].name = "staging"
    BY <1>0, <2>1, <2>2
  <2> HIDE DEF dir
  <2>4. worker # NoWorker /\ worker.id \notin damaged' =>
            worker.checked \subseteq bundle'[worker.id].files
    BY <1>0, <2>1, <2>2
  <2> QED
    BY <1>0, <2>1, <2>2, <2>3, <2>4, DirectoryChanges
<1> QED
  BY <1>1, <1>2, <1>5, <1>6, <1>7, <1>8, <1>9, <1>10, <1>11, <1>12, <1>13 DEF NextBundles

\* A bundle under its own name verifies until one of its files is lost after it was verified,
\* wherever backups are cut off and whatever was lost before from the storage or from a staging
\* directory.
THEOREM BundlesVerify == SpecBundles => []PublishedBundlesVerify
<1>1. InitBundles => BundlesInvariant
  BY DEF InitBundles, BundlesInvariant, PublishedBundlesVerify, NoWorker, NoDirectory, Directory,
         BackupWorker
<1>2. BundlesInvariant /\ [NextBundles]_bundleVars => BundlesInvariant'
  BY BundleStepKeeps
<1>3. BundlesInvariant => PublishedBundlesVerify
  BY DEF BundlesInvariant
<1> QED
  BY <1>1, <1>2, <1>3, PTL DEF SpecBundles

-----------------------------------------------------------------------------
(* The Server Tool *)

\* The preference in memory is the one in the file, and the logon task follows it except
\* between the two steps of a change, when it follows the box that was ticked.
AutostartInvariant ==
    /\ toolStep \in {"closed", "idle", "saving", "secrets", "password", "key"}
    /\ {memory, pref, wanted, task, diverged} \subseteq BOOLEAN
    /\ toolStep # "closed" /\ ~diverged => pref = memory
    /\ toolStep \notin {"closed", "saving"} /\ ~diverged => task = memory
    /\ toolStep = "saving" => task = wanted

\* A key is only written after its certificate, and a certificate only while there is
\* no key.  A set-up that missed a good secret could not read it.
KeysInvariant ==
    /\ toolStep \in {"closed", "idle", "saving", "secrets", "password", "key"}
    /\ secret \in [auth : Nat \cup {Torn}, admin : Nat]
    /\ tls \in [cert : Nat, key : Nat \cup {Torn}]
    /\ found \subseteq {"auth", "admin"}
    /\ toolStep = "secrets" /\ "auth" \notin found /\ secret.auth > 0 => unread
    /\ tls.key \in {0, Torn, tls.cert}
    /\ tls.key # 0 => tls.cert # 0
    /\ toolStep = "key" => tls.cert # 0 /\ tls.key = 0

\* The steps that concern server processes leave the Tool and its keys alone.
LEMMA ServerSteps ==
    ASSUME StopServer \/ MigrationFails \/ (\E n \in 1..HeadVersion : RestoreDatabase(n))
           \/ \E p \in Procs : StartServer(p) \/ LogOn(p) \/ ImportApp(p) \/ Bind(p)
                               \/ RestartExternal(p) \/ ServerDies(p)
    PROVE  UNCHANGED <<toolVars, secretVars, tls>>
BY DEF StopServer, MigrationFails, RestoreDatabase, StartServer, Started, LogOn, ImportApp, Bind,
       RestartExternal, ServerDies, fileVars

\* Every step keeps the task with the preference.
LEMMA AutostartStepKeeps ==
    ASSUME AutostartInvariant, [NextHost]_hostVars
    PROVE  AutostartInvariant'
<1> USE DEF AutostartInvariant
<1>1. CASE UNCHANGED toolVars
  BY <1>1 DEF toolVars
<1>2. CASE OpenTool
  BY <1>2 DEF OpenTool, SetAutostart
<1>3. CASE SaveAutostart
  BY <1>3 DEF SaveAutostart, SetAutostart
<1>4. CASE SaveLocations
  BY <1>4 DEF SaveLocations, KeepPreference
<1>5. CASE BeginSetup \/ CreateAuthSecret \/ WriteCertificate \/ WriteKey
  BY <1>5 DEF BeginSetup, CreateAuthSecret, WriteCertificate, WriteKey
<1>9. CASE CreateAdminPassword
  BY <1>9 DEF CreateAdminPassword, EndSetup
<1>10. CASE SecretNotSaved
  <2>1. /\ toolStep \in {"secrets", "password"} /\ toolStep' = "idle"
        /\ UNCHANGED <<memory, pref, wanted, task, diverged>>
    BY <1>10 DEF SecretNotSaved, WritingSecrets, EndSetup
  <2> QED
    BY <2>1
<1>6. CASE CloseTool
  BY <1>6 DEF CloseTool
<1>7. CASE MachineStops
  BY <1>7 DEF MachineStops
<1>8. ASSUME NEW enabled \in BOOLEAN, UpdateAutostart(enabled)
      PROVE  AutostartInvariant'
  BY <1>8 DEF UpdateAutostart, SetAutostart
<1> QED
  BY <1>1, <1>2, <1>3, <1>4, <1>5, <1>6, <1>7, <1>8, <1>9, <1>10, ServerSteps DEF NextHost, hostVars

\* While the Tool is open and none of its writes failed, the logon task exists exactly
\* when the preference says so, however often the preference is changed, settings are
\* saved and the machine stops in between.
THEOREM AutostartFollows == SpecHost => []AutostartFollowsPreference
<1>1. InitHost => AutostartInvariant
  BY DEF InitHost, AutostartInvariant
<1>2. AutostartInvariant /\ [NextHost]_hostVars => AutostartInvariant'
  BY AutostartStepKeeps
<1>3. AutostartInvariant => AutostartFollowsPreference
  BY DEF AutostartInvariant, AutostartFollowsPreference
<1> QED
  BY <1>1, <1>2, <1>3, PTL DEF SpecHost

\* What a step may do to the secrets and to the pair.
KeysStep ==
    /\ secret.auth > 0 /\ secret'.auth # Torn => secret'.auth = secret.auth \/ unread'
    /\ TlsEnabled => tls' = tls
    /\ tls'.key \in {0, Torn, tls'.cert}

\* Every step keeps the keys, and the invariant about them.
LEMMA KeysStepKeeps ==
    ASSUME KeysInvariant, [NextHost]_hostVars
    PROVE  KeysInvariant' /\ KeysStep
<1> USE DEF KeysInvariant, KeysStep, Torn
<1>1. CASE UNCHANGED <<secretVars, tls>> /\ toolStep' \in {"closed", "idle", "saving"}
  BY <1>1 DEF secretVars
<1>2. CASE UNCHANGED <<toolStep, secretVars, tls>>
  BY <1>2 DEF secretVars
<1>3. CASE OpenTool \/ SaveAutostart \/ CloseTool
           \/ \E enabled \in BOOLEAN : UpdateAutostart(enabled)
  BY <1>1, <1>3 DEF OpenTool, SaveAutostart, CloseTool, UpdateAutostart, fileVars
<1>4. CASE SaveLocations
  BY <1>2, <1>4 DEF SaveLocations, fileVars
<1>12. CASE BeginSetup
  <2>1. /\ toolStep' = "secrets" /\ UNCHANGED <<secret, tls>>
        /\ \E readable \in BOOLEAN :
              found' = Found(readable) /\ unread' = (~readable /\ secret.auth > 0)
    BY <1>12 DEF BeginSetup
  <2>2. PICK readable \in BOOLEAN :
              found' = Found(readable) /\ unread' = (~readable /\ secret.auth > 0)
    BY <2>1
  <2>3. found' \subseteq {"auth", "admin"}
    BY <2>2 DEF Found
  <2>4. "auth" \notin found' /\ secret.auth > 0 => unread'
    <3>1. CASE readable = TRUE
      BY <2>2, <3>1 DEF Found
    <3>2. CASE readable = FALSE
      BY <2>2, <3>2, Zenon
    <3> QED
      BY <3>1, <3>2
  <2> QED
    BY <2>1, <2>3, <2>4
<1>13. ASSUME NEW name \in {"auth", "admin"}, NEW n \in Nat, SaveSecret(name, n)
       PROVE  /\ secret' \in [auth : Nat \cup {Torn}, admin : Nat]
              /\ name # "auth" /\ secret.auth > 0 => secret'.auth = secret.auth \/ unread'
              /\ unread => unread'
  <2>1. CASE /\ secret' = [IF secret.auth = Torn THEN NoSecrets ELSE secret EXCEPT ![name] = n]
             /\ UNCHANGED unread
    BY <1>13, <2>1 DEF NoSecrets
  <2>2. CASE secret' = [NoSecrets EXCEPT ![name] = n] /\ unread' = TRUE
    BY <1>13, <2>2 DEF NoSecrets
  <2> QED
    BY <1>13, <2>1, <2>2 DEF SaveSecret
<1>5. CASE CreateAuthSecret
  <2>1. UNCHANGED <<tls, found>> /\ toolStep' = "password" /\ toolStep = "secrets"
    BY <1>5 DEF CreateAuthSecret
  <2>2. CASE "auth" \in found
    <3>1. UNCHANGED secret
      BY <1>5, <2>2 DEF CreateAuthSecret
    <3> QED
      BY <2>1, <3>1
  <2>3. CASE "auth" \notin found
    <3>1. PICK n \in Fresh : SaveSecret("auth", n)
      BY <1>5, <2>3 DEF CreateAuthSecret
    <3>2. n \in Nat
      BY <3>1, HostAssumption DEF Fresh
    <3>3. secret' \in [auth : Nat \cup {Torn}, admin : Nat] /\ (unread => unread')
      BY <1>13, <3>1, <3>2
    <3> QED
      BY <2>1, <2>3, <3>3
  <2> QED
    BY <2>2, <2>3
<1>6. CASE CreateAdminPassword
  <2>1. UNCHANGED tls /\ toolStep' = "idle" /\ found' = {}
    BY <1>6 DEF CreateAdminPassword, EndSetup
  <2>2. \/ UNCHANGED secret
        \/ SaveSecret("admin", 1)
    BY <1>6 DEF CreateAdminPassword
  <2>3. /\ secret' \in [auth : Nat \cup {Torn}, admin : Nat]
        /\ secret.auth > 0 => secret'.auth = secret.auth \/ unread'
    BY <1>13, <2>2
  <2> QED
    BY <2>1, <2>3
<1>14. CASE SecretNotSaved
  <2>1. UNCHANGED tls /\ toolStep' = "idle" /\ found' = {} /\ secret' \in {secret, TornSecrets}
    BY <1>14 DEF SecretNotSaved, EndSetup
  <2> QED
    BY <2>1 DEF TornSecrets
<1>7. CASE WriteCertificate
  <2>1. PICK n \in Fresh : tls' = [tls EXCEPT !.cert = n]
    BY <1>7 DEF WriteCertificate
  <2>2. n \in Nat /\ n # 0
    BY HostAssumption DEF Fresh
  <2>3. tls.key = 0 /\ ~TlsEnabled
    BY <1>7 DEF WriteCertificate, TlsEnabled
  <2>4. UNCHANGED <<secret, found>> /\ toolStep' = "key"
    BY <1>7 DEF WriteCertificate, secretVars
  <2> QED
    BY <2>1, <2>2, <2>3, <2>4
<1>8. CASE WriteKey
  <2>1. tls' = [tls EXCEPT !.key = tls.cert] /\ UNCHANGED <<secret, found>> /\ toolStep' = "idle" /\ toolStep = "key"
    BY <1>8 DEF WriteKey, secretVars
  <2> QED
    BY <2>1 DEF TlsEnabled
<1>9. CASE MachineStops
  <2>1. /\ toolStep' = "closed" /\ found' = {}
        /\ secret' \in {secret, [auth |-> Torn, admin |-> 0]}
        /\ tls' \in {tls, [tls EXCEPT !.key = Torn]} /\ (toolStep # "key" => tls' = tls)
    BY <1>9 DEF MachineStops, TornSecrets
  <2>2. secret' \in [auth : Nat \cup {Torn}, admin : Nat]
        /\ (secret.auth > 0 /\ secret'.auth # Torn => secret'.auth = secret.auth)
    BY <2>1
  <2>3. /\ tls' \in [cert : Nat, key : Nat \cup {Torn}] /\ tls'.key \in {0, Torn, tls'.cert}
        /\ tls'.key # 0 => tls'.cert # 0
        /\ TlsEnabled => tls' = tls
    BY <2>1 DEF TlsEnabled
  <2> QED
    BY <2>1, <2>2, <2>3
<1>10. CASE UNCHANGED hostVars
  BY <1>2, <1>10 DEF hostVars, toolVars, fileVars
<1>11. CASE UNCHANGED <<toolVars, secretVars, tls>>
  BY <1>2, <1>11 DEF toolVars
<1> QED
  BY <1>3, <1>4, <1>5, <1>6, <1>7, <1>8, <1>9, <1>10, <1>11, <1>12, <1>14, ServerSteps DEF NextHost

\* No set-up, new certificate, failing write or stop of the machine replaces a secret or a
\* pair that is in use, except a set-up that could not read the secrets file, and a key
\* file belongs to its certificate.
THEOREM KeysKept == SpecHost => KeysAreKept
<1>1. InitHost => KeysInvariant
  BY DEF InitHost, KeysInvariant, NoSecrets, Torn
<1>2. KeysInvariant /\ [NextHost]_hostVars => KeysInvariant' /\ [KeysStep]_hostVars
  BY KeysStepKeeps
<1>3. SpecHost => [][KeysStep]_hostVars
  BY <1>1, <1>2, PTL DEF SpecHost
<1> QED
  BY <1>3 DEF KeysStep, KeysAreKept

-----------------------------------------------------------------------------
(* The inductive invariant of the licence gate *)

Verdicts == {"none", "no-license", "hwid-mismatch", "hwid-error", "ok", "grace", "expired",
             "revoked", "offline-ok"}

Desk ==
    [step : {"off", "check", "asking", "write", "opened", "written", "decide", "passed",
             "activate", "unlock", "lock"},
     stored : Licences \cup {Absent, Unreadable}, day : Nat, status : Verdicts,
     again : BOOLEAN, unlocked : BOOLEAN,
     writer : {"none", "check", "activate", "unlock"}, pending : Licences \cup {Absent}]

\* The licence is signed and for this machine ...
OfThisMachine(licence) == licence \in Licences /\ licence.signed /\ licence.hwid = "this"

\* ... and for this product.
Acceptable(licence) == OfThisMachine(licence) /\ licence.product = "this"

\* The check of the desktop found an acceptable licence that was not over for too long.
CheckPassed(r) == Acceptable(r.stored) /\ r.day <= r.stored.expires + GraceDays

\* The desktop is inside _write_signed.
IsWriting(r) == r.step \in {"write", "opened", "written"}

\* A desktop that is past the reading of the licence, and may yet start or has started.
Relies(r) ==
    \/ r.step \in {"asking", "passed"}
    \/ IsWriting(r) /\ r.writer = "check"
    \/ r.step = "decide" /\ DecideAction(r.status) = "allow"

\* The verdict of a check before the answer of the server.
LocalOK(r) == /\ r.status \in {"ok", "grace", "expired"}
              /\ r.status # "expired" => CheckPassed(r)

\* What each desktop knows at each step.
DeskOK(r) ==
    /\ r.step = "asking" => LocalOK(r)
    /\ IsWriting(r) => /\ r.writer \in {"check", "activate", "unlock"}
                       /\ OfThisMachine(r.pending)
                       /\ r.writer = "check" => LocalOK(r) /\ Acceptable(r.pending)
    /\ r.step = "decide" /\ DecideAction(r.status) = "allow" => CheckPassed(r)
    /\ r.step = "passed" /\ ~r.unlocked => CheckPassed(r)

\* While no two desktops use it, the staging file is the one its writer left.
StagingOK ==
    \A d \in Desktops :
        /\ desk[d].step = "opened" => staging = Empty
        /\ desk[d].step = "written" => staging \in {Absent, desk[d].pending}
        /\ \A e \in Desktops : UsesStaging(d) /\ UsesStaging(e) => d = e

FilesOK == StagingOK /\ \A d \in Desktops : Relies(desk[d]) => OfThisMachine(store)

GateInvariant ==
    /\ today \in Nat
    /\ store \in Licences \cup {Absent, Unreadable}
    /\ staging \in Licences \cup {Absent, Unreadable, Empty}
    /\ overlapped \in BOOLEAN
    /\ desk \in [Desktops -> Desk]
    /\ \A d \in Desktops : DeskOK(desk[d])
    /\ ~overlapped => FilesOK

-----------------------------------------------------------------------------
(* Lemmas *)

\* A licence that _refusal lets through is acceptable.
LEMMA NotRefused ==
    ASSUME NEW licence, Refusal(licence) = "none"
    PROVE  Acceptable(licence)
<1>1. Verifies(licence)
  BY DEF Refusal
<1>2. licence \in Licences /\ licence.signed
  BY <1>1 DEF Verifies
<1>3. licence \in [signed : BOOLEAN, hwid : {"this", "other"}, product : {"this", "other"}, expires : Nat]
  BY <1>2, LicenseAssumption
<1>4. licence.hwid = "this" /\ licence.product = "this"
  BY <1>1, <1>3 DEF Refusal
<1> QED
  BY <1>2, <1>4 DEF Acceptable, OfThisMachine

\* license_status: only a licence that is over for longer than the period is "expired".
LEMMA StatusOfLicence ==
    ASSUME NEW licence \in Licences, NEW now \in Nat
    PROVE  /\ LicenseStatus(licence, now) \in {"ok", "grace", "expired"}
           /\ LicenseStatus(licence, now) # "expired" => now <= licence.expires + GraceDays
BY LicenseAssumption DEF LicenseStatus

\* Only these three verdicts start the application.
LEMMA AllowedStatuses ==
    ASSUME NEW status
    PROVE  DecideAction(status) = "allow" <=> status \in {"ok", "offline-ok", "grace"}
BY DEF DecideAction

\* A change of one desktop that ends outside the staging file keeps the invariant if it
\* keeps it of that desktop.
LEMMA DeskChanges ==
    ASSUME GateInvariant, NEW d \in Desktops, NEW r \in Desk,
           desk' = [desk EXCEPT ![d] = r], UNCHANGED <<store, overlapped, today>>,
           staging' = staging \/ (staging' = Absent /\ ~HeldByAnother(d)),
           r.step \notin {"opened", "written"}, DeskOK(r),
           ~overlapped /\ Relies(r) => OfThisMachine(store)
    PROVE  GateInvariant'
<1>1. /\ desk' \in [Desktops -> Desk] /\ desk'[d] = r
      /\ \A e \in Desktops \ {d} : desk'[e] = desk[e]
  BY DEF GateInvariant
<1>2. staging' \in Licences \cup {Absent, Unreadable, Empty}
  BY DEF GateInvariant
<1>3. \A e \in Desktops : DeskOK(desk'[e])
  BY <1>1 DEF GateInvariant
<1>4. ASSUME ~overlapped
      PROVE  FilesOK'
  <2>1. FilesOK
    BY <1>4 DEF GateInvariant
  <2>2. ASSUME NEW e \in Desktops
        PROVE  /\ desk'[e].step = "opened" => staging' = Empty
               /\ desk'[e].step = "written" => staging' \in {Absent, desk'[e].pending}
               /\ UsesStaging(e)' => e # d /\ UsesStaging(e)
    BY <1>1, <2>1 DEF FilesOK, StagingOK, HeldByAnother, UsesStaging
  <2>3. StagingOK'
    BY <2>1, <2>2 DEF FilesOK, StagingOK
  <2>4. \A e \in Desktops : Relies(desk'[e]) => OfThisMachine(store')
    BY <1>1, <1>4, <2>1 DEF FilesOK
  <2> QED
    BY <2>3, <2>4 DEF FilesOK
<1> QED
  BY <1>1, <1>2, <1>3, <1>4 DEF GateInvariant

\* A desktop that ended, or shows a dialog, relies on nothing.
LEMMA DeskIdle ==
    ASSUME NEW r \in Desk, r.step \in {"off", "check", "activate", "unlock", "lock"}
    PROVE  DeskOK(r) /\ ~Relies(r)
BY DEF DeskOK, Relies, IsWriting

\* What check_at_launch finds in the file.
LEMMA LocalDecisionSound ==
    ASSUME NEW licence \in Licences \cup {Absent, Unreadable}, NEW fingerprint \in BOOLEAN,
           NEW now \in Nat
    PROVE  LET local == LocalDecision(licence, fingerprint, now)
           IN  /\ local \in {"no-license", "hwid-mismatch", "hwid-error", "ok", "grace", "expired"}
               /\ local \in {"ok", "grace", "expired"} => Acceptable(licence)
               /\ local \in {"ok", "grace"} => now <= licence.expires + GraceDays
<1>1. CASE licence \in {Absent, Unreadable}
  BY <1>1, LicenseAssumption DEF LocalDecision
<1>2. CASE licence \in Licences /\ ~Verifies(licence)
  <2>1. LocalDecision(licence, fingerprint, now) = "hwid-mismatch"
    BY <1>2, LicenseAssumption DEF LocalDecision, Refusal
  <2> QED
    BY <2>1
<1>3. CASE licence \in Licences /\ Verifies(licence) /\ ~fingerprint
  <2>1. LocalDecision(licence, fingerprint, now) = "hwid-error"
    BY <1>3, LicenseAssumption DEF LocalDecision
  <2> QED
    BY <2>1
<1>4. CASE licence \in Licences /\ Verifies(licence) /\ fingerprint /\ Refusal(licence) = "none"
  <2>1. LocalDecision(licence, fingerprint, now) = LicenseStatus(licence, now)
    BY <1>4, LicenseAssumption DEF LocalDecision
  <2> QED
    BY <1>4, <2>1, NotRefused, StatusOfLicence
<1>5. CASE licence \in Licences /\ Verifies(licence) /\ fingerprint /\ Refusal(licence) # "none"
  <2>1. LocalDecision(licence, fingerprint, now) = "hwid-mismatch"
    BY <1>5, LicenseAssumption DEF LocalDecision
  <2> QED
    BY <2>1
<1> QED
  BY <1>1, <1>2, <1>3, <1>4, <1>5

\* An answer that is not written allows only what the file allows.
LEMMA StatusAfterSound ==
    ASSUME NEW local \in {"ok", "grace", "expired"}, NEW answer \in Answers
    PROVE  /\ StatusAfter(local, answer) \in {"hwid-mismatch", "ok", "grace", "expired", "revoked",
                                              "offline-ok"}
           /\ StatusAfter(local, answer) \in {"ok", "offline-ok", "grace"} => local # "expired"
<1>1. answer.kind \in {"ok", "none", "revoked", "expired", "hwid_mismatch", "other"}
  BY DEF Answers, Reasons
<1>2. CASE answer.kind = "ok"
  BY <1>2 DEF StatusAfter
<1>3. CASE answer.kind # "ok" /\ local = "expired"
  BY <1>3 DEF StatusAfter
<1>4. CASE answer.kind # "ok" /\ local # "expired"
  BY <1>1, <1>4 DEF StatusAfter
<1> QED
  BY <1>2, <1>3, <1>4

\* A desktop that was closed is as it was before its start.
LEMMA OffIsDesk == Off \in Desk /\ Off.step = "off"
BY LicenseAssumption DEF Off, Desk, Verdicts

\* _write_signed opens the staging file: from here two desktops may overlap.
LEMMA OpenStagingKeeps ==
    ASSUME GateInvariant, NEW d \in Desktops, OpenStaging(d)
    PROVE  GateInvariant'
<1> DEFINE r == [desk[d] EXCEPT !.step = "opened"]
<1>1. /\ desk \in [Desktops -> Desk] /\ desk[d] \in Desk /\ DeskOK(desk[d])
      /\ desk[d].step = "write" /\ overlapped \in BOOLEAN
  BY DEF GateInvariant, OpenStaging
<1>2. /\ desk' = [desk EXCEPT ![d] = r] /\ staging' = Empty /\ UNCHANGED <<store, today>>
      /\ overlapped' = (overlapped \/ \E e \in Desktops \ {d} : UsesStaging(e))
  BY <1>1 DEF OpenStaging
<1>3. /\ r \in Desk /\ r.step = "opened" /\ r.writer = desk[d].writer
      /\ r.pending = desk[d].pending /\ r.status = desk[d].status /\ r.stored = desk[d].stored
      /\ r.day = desk[d].day
  BY <1>1 DEF Desk
<1> HIDE DEF r
<1>4. DeskOK(r) /\ (Relies(r) => Relies(desk[d]))
  BY <1>1, <1>3 DEF DeskOK, Relies, IsWriting, LocalOK, CheckPassed
<1>5. /\ desk' \in [Desktops -> Desk] /\ desk'[d] = r
      /\ \A e \in Desktops \ {d} : desk'[e] = desk[e]
  BY <1>1, <1>2, <1>3
<1>6. ASSUME ~overlapped'
      PROVE  FilesOK'
  <2>1. ~overlapped /\ \A e \in Desktops \ {d} : ~UsesStaging(e)
    BY <1>2, <1>6
  <2>2. FilesOK
    BY <2>1 DEF GateInvariant
  <2>3. StagingOK'
    BY <1>2, <1>3, <1>5, <2>1 DEF StagingOK, UsesStaging
  <2>4. \A e \in Desktops : Relies(desk'[e]) => OfThisMachine(store')
    BY <1>2, <1>4, <1>5, <2>2 DEF FilesOK
  <2> QED
    BY <2>3, <2>4 DEF FilesOK
<1>7. overlapped' \in BOOLEAN
  BY <1>2, Zenon
<1>8. \A e \in Desktops : DeskOK(desk'[e])
  BY <1>4, <1>5 DEF GateInvariant
<1> QED
  BY <1>2, <1>5, <1>6, <1>7, <1>8 DEF GateInvariant

\* The licence, or a mixture, goes into the staging file.
LEMMA WriteStagingKeeps ==
    ASSUME GateInvariant, NEW d \in Desktops, WriteStaging(d)
    PROVE  GateInvariant'
<1> DEFINE r == [desk[d] EXCEPT !.step = "written"]
<1>1. /\ desk \in [Desktops -> Desk] /\ desk[d] \in Desk /\ DeskOK(desk[d])
      /\ desk[d].step = "opened"
  BY DEF GateInvariant, WriteStaging
<1>2. /\ desk' = [desk EXCEPT ![d] = r] /\ UNCHANGED <<store, overlapped, today>>
      /\ staging' \in {desk[d].pending, Unreadable}
      /\ staging = Empty => staging' = desk[d].pending
  BY <1>1 DEF WriteStaging
<1>3. /\ r \in Desk /\ r.step = "written" /\ r.writer = desk[d].writer
      /\ r.pending = desk[d].pending /\ r.status = desk[d].status /\ r.stored = desk[d].stored
      /\ r.day = desk[d].day
  BY <1>1 DEF Desk
<1> HIDE DEF r
<1>4. DeskOK(r) /\ (Relies(r) => Relies(desk[d])) /\ OfThisMachine(desk[d].pending)
  BY <1>1, <1>3 DEF DeskOK, Relies, IsWriting, LocalOK, CheckPassed
<1>5. /\ desk' \in [Desktops -> Desk] /\ desk'[d] = r
      /\ \A e \in Desktops \ {d} : desk'[e] = desk[e]
  BY <1>1, <1>2, <1>3
<1>6. ASSUME ~overlapped
      PROVE  FilesOK'
  <2>1. FilesOK
    BY <1>6 DEF GateInvariant
  <2>2. staging' = r.pending /\ \A e \in Desktops \ {d} : ~UsesStaging(e)
    BY <1>1, <1>2, <1>3, <2>1 DEF FilesOK, StagingOK, UsesStaging
  <2>3. StagingOK'
    BY <1>3, <1>5, <2>2 DEF StagingOK, UsesStaging
  <2>4. \A e \in Desktops : Relies(desk'[e]) => OfThisMachine(store')
    BY <1>2, <1>4, <1>5, <2>1 DEF FilesOK
  <2> QED
    BY <2>3, <2>4 DEF FilesOK
<1>7. staging' \in Licences \cup {Absent, Unreadable, Empty}
  BY <1>2, <1>4 DEF OfThisMachine
<1>8. \A e \in Desktops : DeskOK(desk'[e])
  BY <1>4, <1>5 DEF GateInvariant
<1> QED
  BY <1>2, <1>5, <1>6, <1>7, <1>8 DEF GateInvariant

\* What the caller of _write_signed goes on with.
LEMMA WrittenGoesOn ==
    ASSUME NEW r \in Desk, r.step = "written", DeskOK(r), today \in Nat,
           NEW q, q = [(IF r.writer = "check" THEN Checked(r) ELSE Accepted(r))
                         EXCEPT !.writer = "none", !.pending = Absent]
    PROVE  q \in Desk /\ q.step \in {"decide", "check", "passed"} /\ DeskOK(q)
<1>0. /\ r.writer \in {"check", "activate", "unlock"}
      /\ r.writer = "check" => LocalOK(r) /\ Acceptable(r.pending)
  BY DEF DeskOK, IsWriting
<1>1. CASE r.writer = "check" /\ r.status = "expired"
  <2> DEFINE verdict == LicenseStatus(r.pending, today)
  <2>1. r.pending \in Licences /\ Acceptable(r.pending)
    BY <1>0, <1>1 DEF Acceptable, OfThisMachine
  <2>2. /\ verdict \in {"ok", "grace", "expired"}
        /\ verdict # "expired" => today <= r.pending.expires + GraceDays
    BY <2>1, StatusOfLicence
  <2>3. q = [r EXCEPT !.step = "decide", !.stored = r.pending, !.day = today, !.status = verdict,
                      !.writer = "none", !.pending = Absent]
    BY <1>1 DEF Checked, Desk
  <2> HIDE DEF verdict
  <2>4. /\ q \in Desk /\ q.step = "decide" /\ q.stored = r.pending /\ q.day = today
        /\ q.status = verdict
    BY <2>1, <2>2, <2>3 DEF Desk, Verdicts
  <2> QED
    BY <2>1, <2>2, <2>4, AllowedStatuses DEF DeskOK, IsWriting, CheckPassed
<1>2. CASE r.writer = "check" /\ r.status # "expired"
  <2>1. q = [r EXCEPT !.step = "decide", !.writer = "none", !.pending = Absent]
    BY <1>2 DEF Checked, Desk
  <2>2. q \in Desk /\ q.step = "decide" /\ q.stored = r.stored /\ q.day = r.day
    BY <2>1 DEF Desk
  <2>3. CheckPassed(r)
    BY <1>0, <1>2 DEF LocalOK
  <2> QED
    BY <2>2, <2>3 DEF DeskOK, IsWriting, CheckPassed
<1>3. CASE r.writer = "activate"
  <2>1. q = [r EXCEPT !.step = "check", !.again = TRUE, !.unlocked = FALSE,
                      !.writer = "none", !.pending = Absent]
    BY <1>3 DEF Accepted, Desk
  <2>2. q \in Desk /\ q.step = "check"
    BY <2>1 DEF Desk
  <2> QED
    BY <2>2, DeskIdle
<1>4. CASE r.writer = "unlock"
  <2>1. q = [r EXCEPT !.step = "passed", !.again = TRUE, !.unlocked = TRUE,
                      !.writer = "none", !.pending = Absent]
    BY <1>4 DEF Accepted, Desk
  <2>2. q \in Desk /\ q.step = "passed" /\ q.unlocked
    BY <2>1 DEF Desk
  <2> QED
    BY <2>2 DEF DeskOK, IsWriting
<1> QED
  BY <1>0, <1>1, <1>2, <1>3, <1>4

\* The staging file is renamed.
LEMMA ReplaceStagingKeeps ==
    ASSUME GateInvariant, NEW d \in Desktops, ReplaceStaging(d)
    PROVE  GateInvariant'
<1> DEFINE q == [(IF desk[d].writer = "check" THEN Checked(desk[d]) ELSE Accepted(desk[d]))
                    EXCEPT !.writer = "none", !.pending = Absent]
<1>1. /\ desk \in [Desktops -> Desk] /\ desk[d] \in Desk /\ DeskOK(desk[d])
      /\ desk[d].step = "written" /\ today \in Nat
  BY DEF GateInvariant, ReplaceStaging
<1>2. /\ desk' = [desk EXCEPT ![d] = q] /\ staging' = Absent /\ UNCHANGED <<overlapped, today>>
      /\ store' = IF staging \in Licences THEN staging ELSE Unreadable
      /\ staging # Absent
  BY DEF ReplaceStaging
<1>3. q \in Desk /\ q.step \in {"decide", "check", "passed"} /\ DeskOK(q)
  BY <1>1, WrittenGoesOn
<1> HIDE DEF q
<1>4. OfThisMachine(desk[d].pending)
  BY <1>1 DEF DeskOK, IsWriting
<1>5. /\ desk' \in [Desktops -> Desk] /\ desk'[d] = q
      /\ \A e \in Desktops \ {d} : desk'[e] = desk[e]
  BY <1>1, <1>2, <1>3
<1>6. ASSUME ~overlapped
      PROVE  FilesOK'
  <2>1. FilesOK
    BY <1>6 DEF GateInvariant
  <2>2. staging = desk[d].pending /\ \A e \in Desktops \ {d} : ~UsesStaging(e)
    BY <1>1, <1>2, <2>1 DEF FilesOK, StagingOK, UsesStaging
  <2>3. OfThisMachine(store')
    BY <1>2, <1>4, <2>2 DEF OfThisMachine
  <2>4. StagingOK'
    BY <1>3, <1>5, <2>2 DEF StagingOK, UsesStaging
  <2> QED
    BY <2>3, <2>4 DEF FilesOK
<1>7. store' \in Licences \cup {Absent, Unreadable}
  BY <1>2
<1>8. \A e \in Desktops : DeskOK(desk'[e])
  BY <1>3, <1>5 DEF GateInvariant
<1> QED
  BY <1>2, <1>5, <1>6, <1>7, <1>8 DEF GateInvariant

\* A step of _write_signed raises.
LEMMA WriteFailsKeeps ==
    ASSUME GateInvariant, NEW d \in Desktops, WriteFails(d)
    PROVE  GateInvariant'
<1>1. /\ desk \in [Desktops -> Desk] /\ desk[d] \in Desk /\ DeskOK(desk[d])
      /\ IsWriting(desk[d])
  BY DEF GateInvariant, WriteFails, UsesStaging, IsWriting
<1>2. /\ UNCHANGED <<store, overlapped, today>>
      /\ staging' = staging \/ (staging' = Absent /\ ~HeldByAnother(d))
  BY DEF WriteFails
<1>3. CASE desk[d].writer = "check"
  <2>1. desk' = [desk EXCEPT ![d] = Off]
    BY <1>1, <1>3 DEF WriteFails
  <2>2. Off \in Desk /\ Off.step = "off"
    BY OffIsDesk
  <2>3. DeskOK(Off) /\ ~Relies(Off)
    BY <2>2, DeskIdle
  <2> QED
    BY <1>2, <2>1, <2>2, <2>3, DeskChanges
<1>4. CASE desk[d].writer # "check"
  <2> DEFINE r == [desk[d] EXCEPT !.step = desk[d].writer, !.writer = "none", !.pending = Absent]
  <2>1. desk[d].writer \in {"activate", "unlock"}
    BY <1>1, <1>4 DEF DeskOK
  <2>2. desk' = [desk EXCEPT ![d] = r]
    BY <1>1, <1>4 DEF WriteFails
  <2>3. r \in Desk /\ r.step \in {"activate", "unlock"}
    BY <1>1, <2>1 DEF Desk
  <2> HIDE DEF r
  <2>4. DeskOK(r) /\ ~Relies(r)
    BY <2>3, DeskIdle
  <2> QED
    BY <1>2, <2>2, <2>3, <2>4, DeskChanges
<1> QED
  BY <1>3, <1>4

\* Every step of the gate of one desktop keeps the invariant.
LEMMA GateStepKeeps ==
    ASSUME GateInvariant, NEW d \in Desktops, GateStep(d)
    PROVE  GateInvariant'
<1>0. /\ desk \in [Desktops -> Desk] /\ desk[d] \in Desk /\ DeskOK(desk[d])
      /\ today \in Nat /\ store \in Licences \cup {Absent, Unreadable}
      /\ ~overlapped /\ Relies(desk[d]) => OfThisMachine(store)
  BY DEF GateInvariant, FilesOK
<1>a. ASSUME NEW r \in Desk, r.step \notin {"opened", "written"}, DeskOK(r),
             ~overlapped /\ Relies(r) => OfThisMachine(store),
             desk' = [desk EXCEPT ![d] = r], UNCHANGED <<licenceFiles, today>>
      PROVE  GateInvariant'
  <2>1. UNCHANGED <<store, staging, overlapped, today>>
    BY <1>a DEF licenceFiles
  <2> QED
    BY <1>a, <2>1, DeskChanges
<1>b. ASSUME NEW r \in Desk, r.step \in {"off", "check", "activate", "unlock", "lock"},
             desk' = [desk EXCEPT ![d] = r], UNCHANGED <<licenceFiles, today>>
      PROVE  GateInvariant'
  <2>1. DeskOK(r) /\ ~Relies(r)
    BY <1>b, DeskIdle
  <2> QED
    BY <1>a, <1>b, <2>1
<1>1. CASE desk' = [desk EXCEPT ![d] = Off] /\ UNCHANGED <<licenceFiles, today>>
  BY <1>1, <1>b, OffIsDesk
<1>2. ASSUME NEW step \in {"check", "activate", "unlock", "lock"},
             NEW q \in Desk, desk' = [desk EXCEPT ![d] = [q EXCEPT !.step = step]],
             UNCHANGED <<licenceFiles, today>>
      PROVE  GateInvariant'
  <2>1. [q EXCEPT !.step = step] \in Desk /\ [q EXCEPT !.step = step].step = step
    BY DEF Desk
  <2> QED
    BY <1>2, <2>1, <1>b
<1>3. CASE Launch(d)
  <2>1. desk' = [desk EXCEPT ![d] = [desk[d] EXCEPT !.step = "check"]]
        /\ UNCHANGED <<licenceFiles, today>>
    BY <1>0, <1>3 DEF Launch
  <2> QED
    BY <1>0, <1>2, <2>1
<1>4. CASE CheckAtLaunch(d)
  <2>1. PICK fingerprint \in BOOLEAN :
          desk' = [desk EXCEPT ![d].stored = store, ![d].day = today,
                       ![d].status = LocalDecision(store, fingerprint, today),
                       ![d].step = IF LocalDecision(store, fingerprint, today) \in {"ok", "grace", "expired"}
                                   THEN "asking" ELSE "decide"]
    BY <1>4 DEF CheckAtLaunch
  <2> DEFINE local == LocalDecision(store, fingerprint, today)
             r == [desk[d] EXCEPT !.stored = store, !.day = today, !.status = local,
                       !.step = IF local \in {"ok", "grace", "expired"} THEN "asking" ELSE "decide"]
  <2>2. /\ local \in {"no-license", "hwid-mismatch", "hwid-error", "ok", "grace", "expired"}
        /\ local \in {"ok", "grace", "expired"} => Acceptable(store)
        /\ local \in {"ok", "grace"} => today <= store.expires + GraceDays
    BY <1>0, LocalDecisionSound
  <2>3. desk' = [desk EXCEPT ![d] = r] /\ UNCHANGED <<licenceFiles, today>>
    BY <1>0, <1>4, <2>1 DEF CheckAtLaunch
  <2> HIDE DEF local
  <2>a. local \in Verdicts
    BY <2>2 DEF Verdicts
  <2>4. /\ r \in Desk /\ r.stored = store /\ r.day = today /\ r.status = local
        /\ r.step = IF local \in {"ok", "grace", "expired"} THEN "asking" ELSE "decide"
    BY <1>0, <2>a DEF Desk
  <2> HIDE DEF r
  <2>5. DeskOK(r) /\ (Relies(r) => OfThisMachine(store))
    BY <2>2, <2>4, AllowedStatuses DEF DeskOK, Relies, IsWriting, LocalOK, CheckPassed, Acceptable
  <2> QED
    BY <2>3, <2>4, <2>5, <1>a
<1>5. ASSUME NEW writer \in {"check", "activate", "unlock"}, NEW licence,
             OfThisMachine(licence), Writes(d, writer, licence),
             writer = "check" => Acceptable(licence) /\ desk[d].step = "asking"
      PROVE  GateInvariant'
  <2> DEFINE r == [desk[d] EXCEPT !.step = "write", !.writer = writer, !.pending = licence]
  <2>1. desk' = [desk EXCEPT ![d] = r] /\ UNCHANGED <<licenceFiles, today>>
    BY <1>0, <1>5 DEF Writes
  <2>2. /\ r \in Desk /\ r.step = "write" /\ r.writer = writer /\ r.pending = licence
        /\ r.status = desk[d].status /\ r.stored = desk[d].stored /\ r.day = desk[d].day
    BY <1>0, <1>5 DEF Desk, OfThisMachine
  <2> HIDE DEF r
  <2>3. DeskOK(r) /\ (Relies(r) => Relies(desk[d]))
    BY <1>0, <1>5, <2>2 DEF DeskOK, Relies, IsWriting, LocalOK, CheckPassed
  <2> QED
    BY <1>0, <1>a, <2>1, <2>2, <2>3
<1>6. ASSUME NEW answer \in Answers, OnlineVerify(d, answer)
      PROVE  GateInvariant'
  <2>1. desk[d].step = "asking"
    BY <1>6 DEF OnlineVerify
  <2>2. CASE WritesAnswer(d, answer)
    <3>1. Acceptable(answer.signed) /\ Writes(d, "check", answer.signed)
      BY <1>6, <2>2, NotRefused DEF OnlineVerify, WritesAnswer
    <3>2. OfThisMachine(answer.signed)
      BY <3>1 DEF Acceptable
    <3> QED
      BY <1>5, <2>1, <3>1, <3>2
  <2>3. CASE ~WritesAnswer(d, answer)
    <3> DEFINE status == StatusAfter(desk[d].status, answer)
               r == [desk[d] EXCEPT !.step = "decide", !.status = status]
    <3>1. desk' = [desk EXCEPT ![d] = r] /\ UNCHANGED <<licenceFiles, today>>
      BY <1>0, <1>6, <2>3 DEF OnlineVerify
    <3>2. LocalOK(desk[d]) /\ Relies(desk[d])
      BY <1>0, <2>1 DEF DeskOK, Relies
    <3>3. /\ status \in {"hwid-mismatch", "ok", "grace", "expired", "revoked", "offline-ok"}
          /\ status \in {"ok", "offline-ok", "grace"} => desk[d].status # "expired"
      BY <3>2, StatusAfterSound DEF LocalOK
    <3> HIDE DEF status
    <3>4. /\ r \in Desk /\ r.step = "decide" /\ r.status = status
          /\ r.stored = desk[d].stored /\ r.day = desk[d].day
      BY <1>0, <3>3 DEF Desk, Verdicts
    <3> HIDE DEF r
    <3>5. DeskOK(r)
      BY <3>2, <3>3, <3>4, AllowedStatuses DEF DeskOK, IsWriting, LocalOK, CheckPassed
    <3> QED
      BY <1>0, <1>a, <3>1, <3>2, <3>4, <3>5
  <2> QED
    BY <2>2, <2>3
<1>8. ASSUME NEW answer \in Answers, ActivateOnline(d, answer)
      PROVE  GateInvariant'
  BY <1>5, <1>8, NotRefused DEF ActivateOnline, Activates, Acceptable, DialogOpen
<1>9. ASSUME NEW licence \in Licences, ActivateOffline(d, licence)
      PROVE  GateInvariant'
  BY <1>5, <1>9 DEF ActivateOffline, Importable, Verifies, OfThisMachine, DialogOpen
<1>10. CASE Decide(d)
  <2> DEFINE action == DecideAction(desk[d].status)
  <2>1. desk[d].step = "decide" /\ UNCHANGED <<licenceFiles, today>>
    BY <1>10 DEF Decide
  <2>2. CASE action = "allow"
    <3> DEFINE r == [desk[d] EXCEPT !.step = "passed", !.status = "none"]
    <3>1. desk' = [desk EXCEPT ![d] = r]
      BY <1>0, <1>10, <2>2 DEF Decide
    <3>2. r \in Desk /\ r.step = "passed" /\ r.stored = desk[d].stored /\ r.day = desk[d].day
      BY <1>0 DEF Desk, Verdicts
    <3> HIDE DEF r
    <3>3. CheckPassed(desk[d]) /\ Relies(desk[d])
      BY <1>0, <2>1, <2>2 DEF DeskOK, Relies
    <3>4. DeskOK(r)
      BY <3>2, <3>3 DEF DeskOK, IsWriting, CheckPassed
    <3> QED
      BY <1>0, <1>a, <2>1, <3>1, <3>2, <3>3, <3>4
  <2>3. CASE action # "allow" /\ desk[d].again
    <3>1. desk' = [desk EXCEPT ![d] = Off]
      BY <1>0, <1>10, <2>3 DEF Decide
    <3> QED
      BY <1>1, <2>1, <3>1
  <2>4. CASE action # "allow" /\ ~desk[d].again
    <3>1. desk' = [desk EXCEPT ![d] = [Off EXCEPT !.step = action]]
      BY <1>0, <1>10, <2>4 DEF Decide
    <3>2. action \in {"lock", "activate"}
      BY <2>4 DEF DecideAction
    <3> QED
      BY <1>2, <2>1, <3>1, <3>2, OffIsDesk
  <2> QED
    BY <2>2, <2>3, <2>4
<1>11. CASE CloseDialog(d)
  <2>1. \/ desk' = [desk EXCEPT ![d] = Off]
        \/ desk' = [desk EXCEPT ![d] = [desk[d] EXCEPT !.step = "lock"]]
    BY <1>0, <1>11 DEF CloseDialog
  <2> QED
    BY <1>0, <1>1, <1>2, <1>11, <2>1 DEF CloseDialog
<1>12. CASE LockScreen(d)
  <2>1. \/ desk' = [desk EXCEPT ![d] = Off]
        \/ desk' = [desk EXCEPT ![d] = [desk[d] EXCEPT !.step = "unlock"]]
    BY <1>0, <1>12 DEF LockScreen
  <2> QED
    BY <1>0, <1>1, <1>2, <1>12, <2>1 DEF LockScreen
<1>13. CASE Exit(d)
  BY <1>1, <1>13 DEF Exit
<1> QED
  BY <1>3, <1>4, <1>6, <1>8, <1>9, <1>10, <1>11, <1>12, <1>13, OpenStagingKeeps,
     WriteStagingKeeps, ReplaceStagingKeeps, WriteFailsKeeps DEF GateStep

\* A step of something else.
LEMMA GateUnchanged ==
    ASSUME GateInvariant, UNCHANGED licenseVars
    PROVE  GateInvariant'
BY DEF licenseVars, GateInvariant, FilesOK, StagingOK, UsesStaging

\* A new day changes nothing that was checked.
LEMMA NextDayKeeps ==
    ASSUME GateInvariant, NextDay
    PROVE  GateInvariant'
BY DEF NextDay, licenceFiles, GateInvariant, FilesOK, StagingOK, UsesStaging

\* The licence file of a machine is anything at first.
LEMMA GateInit ==
    ASSUME InitLicense
    PROVE  GateInvariant
<1>1. Off \in Desk /\ DeskOK(Off) /\ ~Relies(Off)
  BY OffIsDesk, DeskIdle
<1> QED
  BY <1>1, OffIsDesk DEF InitLicense, GateInvariant, FilesOK, StagingOK, UsesStaging

\* What a desktop past the gate rests on.
LEMMA GateRunsLicensed == GateInvariant => RunsLicensed
<1> SUFFICES ASSUME GateInvariant, NEW d \in Desktops, desk[d].step = "passed"
             PROVE  /\ ~overlapped => OfThisMachine(store)
                    /\ ~desk[d].unlocked => CheckPassed(desk[d])
  BY DEF RunsLicensed, CheckPassed, Acceptable, OfThisMachine
<1> QED
  BY DEF GateInvariant, FilesOK, DeskOK, Relies

\* However many desktops start, are activated and write the licence file at once, each that
\* runs has read an acceptable licence; and the file holds one of this machine as long as no
\* two of them had the staging file in use at once.
THEOREM DesktopsRunLicensed == SpecLicense => []RunsLicensed
<1>1. InitLicense => GateInvariant
  BY GateInit
<1>2. ASSUME GateInvariant, [NextLicense]_licenseVars
      PROVE  GateInvariant'
  <2>1. CASE UNCHANGED licenseVars
    BY <1>2, <2>1, GateUnchanged
  <2>2. CASE NextLicense
    BY <1>2, <2>2, NextDayKeeps, GateStepKeeps DEF NextLicense
  <2> QED
    BY <1>2, <2>1, <2>2
<1> QED
  BY <1>1, <1>2, GateRunsLicensed, PTL DEF SpecLicense

-----------------------------------------------------------------------------
(* The start behind the gate *)

\* The servers that are ready have answered; a desktop has a session only past the gate.
StartInvariant ==
    /\ session \in [Desktops -> [step : {"closed", "resolve", "login", "discover", "dialog", "send",
                                         "open"},
                                 url : Urls \cup {NoUrl}, asked : BOOLEAN]]
    /\ ready \subseteq Urls
    /\ saved \in Urls \cup {NoUrl}
    /\ ready \subseteq answered
    /\ \A d \in Desktops : session[d].step # "closed" => desk[d].step = "passed"
    /\ OnlyReadyServersAreTrusted

\* The end of a start.
LEMMA AbandonsKeeps ==
    ASSUME GateInvariant, StartInvariant, NEW d \in Desktops, Abandons(d)
    PROVE  GateInvariant' /\ StartInvariant'
<1>1. GateInvariant'
  <2>1. Off \in Desk /\ Off.step = "off" /\ DeskOK(Off) /\ ~Relies(Off)
    BY OffIsDesk, DeskIdle
  <2>2. desk' = [desk EXCEPT ![d] = Off] /\ UNCHANGED <<store, staging, overlapped, today>>
    BY DEF Abandons, licenceFiles
  <2> QED
    BY <2>1, <2>2, DeskChanges
<1>2. /\ session' = [session EXCEPT ![d] = NoSession] /\ desk' = [desk EXCEPT ![d] = Off]
      /\ UNCHANGED <<ready, answered, saved>>
  BY DEF Abandons
<1>3. NoSession.step = "closed" /\ NoSession.url = NoUrl /\ NoSession.asked = FALSE
  BY DEF NoSession
<1> QED
  BY <1>1, <1>2 DEF StartInvariant, OnlyReadyServersAreTrusted, NoSession, GateInvariant

\* A step of a session that leaves the licence and the servers alone.
LEMMA SessionMoves ==
    ASSUME GateInvariant, StartInvariant, NEW d \in Desktops,
           NEW s \in [step : {"resolve", "login", "discover", "dialog", "send", "open"},
                      url : Urls \cup {NoUrl}, asked : BOOLEAN],
           session' = [session EXCEPT ![d] = s], desk[d].step = "passed",
           s.step \in {"send", "open"} => s.url \in answered,
           UNCHANGED <<ready, answered, licenseVars>>,
           saved' = saved \/ saved' \in ready
    PROVE  GateInvariant' /\ StartInvariant'
<1>1. GateInvariant'
  BY GateUnchanged
<1>2. /\ session' \in [Desktops -> [step : {"closed", "resolve", "login", "discover", "dialog", "send",
                                         "open"},
                                 url : Urls \cup {NoUrl}, asked : BOOLEAN]]
      /\ session'[d] = s /\ \A e \in Desktops \ {d} : session'[e] = session[e]
  BY DEF StartInvariant
<1>3. UNCHANGED desk
  BY DEF licenseVars
<1>4. \A e \in Desktops : session'[e].step # "closed" => desk'[e].step = "passed"
  BY <1>2, <1>3 DEF StartInvariant
<1>5. OnlyReadyServersAreTrusted'
  BY <1>2, <1>3 DEF StartInvariant, OnlyReadyServersAreTrusted
<1>6. saved' \in Urls \cup {NoUrl}
  BY DEF StartInvariant
<1> QED
  BY <1>1, <1>2, <1>4, <1>5, <1>6 DEF StartInvariant

\* A step within a session, in the form of Goes.
LEMMA GoesMoves ==
    ASSUME GateInvariant, StartInvariant, NEW d \in Desktops,
           NEW step \in {"resolve", "login", "discover", "dialog", "send", "open"},
           NEW url \in Urls \cup {NoUrl},
           Goes(d, step, url), desk[d].step = "passed",
           step \in {"send", "open"} => url \in answered,
           UNCHANGED <<ready, answered, licenseVars>>,
           saved' = saved \/ saved' \in ready
    PROVE  GateInvariant' /\ StartInvariant'
<1> DEFINE s == [session[d] EXCEPT !.step = step, !.url = url]
<1>1. session[d] \in [step : {"closed", "resolve", "login", "discover", "dialog", "send", "open"},
                      url : Urls \cup {NoUrl}, asked : BOOLEAN]
  BY DEF StartInvariant
<1>2. session' = [session EXCEPT ![d] = s]
  BY DEF Goes, StartInvariant
<1>3. /\ s \in [step : {"resolve", "login", "discover", "dialog", "send", "open"},
                url : Urls \cup {NoUrl}, asked : BOOLEAN]
      /\ s.step = step /\ s.url = url
  BY <1>1
<1> HIDE DEF s
<1> QED
  BY <1>2, <1>3, SessionMoves

\* No answer was found, or it did not stand the second probe: the operator is asked.
LEMMA AskingMoves ==
    ASSUME GateInvariant, StartInvariant, NEW d \in Desktops, NEW url \in Urls \cup {NoUrl},
           session' = [session EXCEPT ![d] = [session[d] EXCEPT !.step = "dialog", !.asked = TRUE,
                                                                !.url = url]],
           desk[d].step = "passed",
           UNCHANGED <<ready, answered, saved, licenseVars>>
    PROVE  GateInvariant' /\ StartInvariant'
<1> DEFINE s == [session[d] EXCEPT !.step = "dialog", !.asked = TRUE, !.url = url]
<1>1. session[d] \in [step : {"closed", "resolve", "login", "discover", "dialog", "send", "open"},
                      url : Urls \cup {NoUrl}, asked : BOOLEAN]
  BY DEF StartInvariant
<1>2. /\ s \in [step : {"resolve", "login", "discover", "dialog", "send", "open"},
                url : Urls \cup {NoUrl}, asked : BOOLEAN]
      /\ s.step = "dialog"
  BY <1>1
<1>3. session' = [session EXCEPT ![d] = s]
  OBVIOUS
<1> HIDE DEF s
<1> QED
  BY <1>2, <1>3, SessionMoves

\* Every step of the start keeps both invariants.
LEMMA DesktopStepKeeps ==
    ASSUME GateInvariant, StartInvariant, [NextDesktop]_desktopVars
    PROVE  GateInvariant' /\ StartInvariant'
<1>0. /\ ready \subseteq Urls /\ ready \subseteq answered /\ saved \in Urls \cup {NoUrl}
      /\ \A d \in Desktops : session[d].step # "closed" => desk[d].step = "passed"
      /\ \A d \in Desktops : session[d].url \in Urls \cup {NoUrl}
      /\ \A d \in Desktops : session[d].step \in {"send", "open"} => session[d].url \in answered
  BY DEF StartInvariant, OnlyReadyServersAreTrusted
<1>1. CASE UNCHANGED desktopVars
  BY <1>1, GateUnchanged DEF desktopVars, startVars, licenseVars, StartInvariant,
                             OnlyReadyServersAreTrusted
<1>2. ASSUME NEW url \in Urls, ServerChanges(url)
      PROVE  GateInvariant' /\ StartInvariant'
  <2>1. UNCHANGED <<saved, session, desk>> /\ UNCHANGED licenseVars
    BY <1>2 DEF ServerChanges, licenseVars
  <2>2. ready' \subseteq Urls /\ ready' \subseteq answered' /\ answered \subseteq answered'
    BY <1>0, <1>2 DEF ServerChanges
  <2>3. GateInvariant'
    BY <2>1, GateUnchanged
  <2> QED
    BY <2>1, <2>2, <2>3 DEF StartInvariant, OnlyReadyServersAreTrusted
<1>3. ASSUME NEW d \in Desktops, session[d].step = "closed", GateStep(d), UNCHANGED startVars
      PROVE  GateInvariant' /\ StartInvariant'
  <2>1. GateInvariant'
    BY <1>3, GateStepKeeps
  <2>2. UNCHANGED <<ready, answered, saved, session>>
    BY <1>3 DEF startVars
  <2>3. \A e \in Desktops \ {d} : desk'[e] = desk[e]
    BY <1>3 DEF GateInvariant, GateStep, Launch, CheckAtLaunch, OnlineVerify, Writes, ActivateOnline,
                OpenStaging, WriteStaging, ReplaceStaging, WriteFails, Decide, ActivateOffline,
                CloseDialog, LockScreen, Exit
  <2>4. \A e \in Desktops : session'[e].step # "closed" => desk'[e].step = "passed"
    BY <1>0, <1>3, <2>2, <2>3
  <2>5. OnlyReadyServersAreTrusted'
    BY <1>0, <2>2, <2>4 DEF StartInvariant, OnlyReadyServersAreTrusted
  <2> QED
    BY <2>1, <2>2, <2>4, <2>5 DEF StartInvariant
<1>4. ASSUME NEW d \in Desktops, GatePassed(d)
      PROVE  GateInvariant' /\ StartInvariant'
  BY <1>4, GoesMoves DEF GatePassed
<1>5. ASSUME NEW d \in Desktops, SavedServer(d)
      PROVE  GateInvariant' /\ StartInvariant'
  <2>1. desk[d].step = "passed" /\ UNCHANGED <<ready, answered, saved, licenseVars>>
    BY <1>0, <1>5 DEF SavedServer
  <2>2. Goes(d, "login", saved) \/ Goes(d, "discover", NoUrl)
    BY <1>5 DEF SavedServer
  <2> QED
    BY <1>0, <2>1, <2>2, GoesMoves
<1>6. ASSUME NEW d \in Desktops, DiscoverServer(d)
      PROVE  GateInvariant' /\ StartInvariant'
  <2>1. desk[d].step = "passed" /\ UNCHANGED <<ready, answered, saved, licenseVars>>
        /\ session[d].url = NoUrl
    BY <1>0, <1>6 DEF DiscoverServer
  <2>2. ASSUME NEW url \in ready, Goes(d, IF session[d].asked THEN "dialog" ELSE "discover", url)
        PROVE  GateInvariant' /\ StartInvariant'
    BY <1>0, <2>1, <2>2, GoesMoves
  <2>3. ASSUME session' = [session EXCEPT ![d].step = "dialog", ![d].asked = TRUE]
        PROVE  GateInvariant' /\ StartInvariant'
    <3> DEFINE r == [session[d] EXCEPT !.step = "dialog", !.asked = TRUE]
    <3>0. session[d] \in [step : {"closed", "resolve", "login", "discover", "dialog", "send", "open"},
                          url : Urls \cup {NoUrl}, asked : BOOLEAN]
      BY DEF StartInvariant
    <3>1. r = [session[d] EXCEPT !.step = "dialog", !.asked = TRUE, !.url = NoUrl]
      BY <2>1, <3>0
    <3>2. session' = [session EXCEPT ![d] = r]
      BY <2>3 DEF StartInvariant
    <3> QED
      BY <2>1, <3>1, <3>2, AskingMoves
  <2> QED
    BY <1>6, <2>2, <2>3 DEF DiscoverServer
<1>7. ASSUME NEW d \in Desktops, ConfirmDiscovered(d)
      PROVE  GateInvariant' /\ StartInvariant'
  <2>1. desk[d].step = "passed" /\ UNCHANGED <<ready, answered, licenseVars>>
    BY <1>0, <1>7 DEF ConfirmDiscovered
  <2>2. CASE session[d].url \in ready
    BY <1>0, <1>7, <2>1, <2>2, GoesMoves DEF ConfirmDiscovered
  <2>3. CASE session[d].url \notin ready
    <3>1. session' = [session EXCEPT ![d].step = "dialog", ![d].asked = TRUE, ![d].url = NoUrl]
          /\ UNCHANGED saved
      BY <1>7, <2>3 DEF ConfirmDiscovered
    <3>2. session' = [session EXCEPT ![d] = [session[d] EXCEPT !.step = "dialog", !.asked = TRUE,
                                                               !.url = NoUrl]]
      BY <3>1 DEF StartInvariant
    <3> QED
      BY <2>1, <3>1, <3>2, AskingMoves
  <2> QED
    BY <2>2, <2>3
<1>8. ASSUME NEW d \in Desktops, NEW url \in Urls,
             ExplicitRelay(d, url) \/ ConfiguredServer(d, url) \/ TypeServer(d, url)
      PROVE  GateInvariant' /\ StartInvariant'
  <2>1. desk[d].step = "passed"
    BY <1>0, <1>8 DEF ExplicitRelay, ConfiguredServer, TypeServer
  <2>2. CASE ExplicitRelay(d, url)
    BY <2>1, <2>2, GoesMoves DEF ExplicitRelay
  <2>3. CASE ConfiguredServer(d, url)
    BY <2>1, <2>3, GoesMoves, AbandonsKeeps DEF ConfiguredServer
  <2>4. CASE TypeServer(d, url)
    BY <2>1, <2>4, GoesMoves DEF TypeServer
  <2> QED
    BY <1>8, <2>2, <2>3, <2>4
<1>9. ASSUME NEW d \in Desktops, AcceptIfReady(d)
      PROVE  GateInvariant' /\ StartInvariant'
  <2>1. /\ desk[d].step = "passed" /\ UNCHANGED <<ready, answered, licenseVars>>
        /\ session[d].url \in ready /\ saved' = session[d].url /\ Goes(d, "login", session[d].url)
    BY <1>0, <1>9 DEF AcceptIfReady
  <2> QED
    BY <1>0, <2>1, GoesMoves
<1>10. ASSUME NEW d \in Desktops, CancelDialog(d) \/ CloseDesktop(d)
       PROVE  GateInvariant' /\ StartInvariant'
  BY <1>10, AbandonsKeeps DEF CancelDialog, CloseDesktop
<1>11. ASSUME NEW d \in Desktops, VerifyServer(d)
       PROVE  GateInvariant' /\ StartInvariant'
  <2>1. desk[d].step = "passed"
    BY <1>0, <1>11 DEF VerifyServer
  <2>2. CASE session[d].url \in ready
    BY <1>0, <1>11, <2>1, <2>2, GoesMoves DEF VerifyServer
  <2>3. CASE session[d].url \notin ready
    BY <1>11, <2>3, AbandonsKeeps DEF VerifyServer
  <2> QED
    BY <2>2, <2>3
<1>12. ASSUME NEW d \in Desktops, LogIn(d)
       PROVE  GateInvariant' /\ StartInvariant'
  <2>1. desk[d].step = "passed"
    BY <1>0, <1>12 DEF LogIn
  <2>2. CASE session[d].url \in ready /\ Goes(d, "open", session[d].url)
             /\ UNCHANGED <<ready, answered, saved, licenseVars>>
    BY <1>0, <2>1, <2>2, GoesMoves
  <2> QED
    BY <1>12, <2>2, AbandonsKeeps DEF LogIn
<1> QED
  BY <1>1, <1>2, <1>3, <1>4, <1>5, <1>6, <1>7, <1>8, <1>9, <1>10, <1>11, <1>12 DEF NextDesktop

\* Both invariants hold when the first desktop is about to start.
LEMMA DesktopInit ==
    ASSUME InitDesktop
    PROVE  GateInvariant /\ StartInvariant
<1>1. GateInvariant
  BY GateInit DEF InitDesktop
<1>2. /\ NoSession.step = "closed"
      /\ NoSession \in [step : {"closed", "resolve", "login", "discover", "dialog", "send", "open"},
                        url : Urls \cup {NoUrl}, asked : BOOLEAN]
  BY DEF NoSession
<1> QED
  BY <1>1, <1>2 DEF InitDesktop, StartInvariant, OnlyReadyServersAreTrusted

\* Whichever way the address was found and however servers come and go, credentials go only
\* to a server that answered the probe and only from behind the gate, and server.json names
\* no other server.
THEOREM ServersAreProbed == SpecDesktop => []OnlyReadyServersAreTrusted
<1>1. InitDesktop => GateInvariant /\ StartInvariant
  BY DesktopInit
<1>2. GateInvariant /\ StartInvariant /\ [NextDesktop]_desktopVars => (GateInvariant /\ StartInvariant)'
  BY DesktopStepKeeps
<1>3. StartInvariant => OnlyReadyServersAreTrusted
  BY DEF StartInvariant
<1> QED
  BY <1>1, <1>2, <1>3, PTL DEF SpecDesktop

-----------------------------------------------------------------------------
(* The least element *)

LEMMA LeastExists ==
    ASSUME NEW T \in SUBSET Nat, T # {}
    PROVE  \E x \in T : \A y \in T : x <= y
<1> DEFINE R == OpToRel(<, Nat)
<1>1. IsWellFoundedOn(R, Nat)
  BY NatLessThanWellFounded
<1>2. \A x, y \in Nat : y < x => <<y, x>> \in R
  BY DEF OpToRel
<1> HIDE DEF R
<1>3. PICK x \in T : \A y \in T : ~(<<y, x>> \in R)
  BY <1>1, WFMin
<1>4. \A y \in T : x \in Nat /\ y \in Nat /\ ~(y < x)
  BY <1>2, <1>3
<1>5. \A y \in T : x <= y
  BY <1>4
<1> QED
  BY <1>5

LEMMA MinIsLeast ==
    ASSUME NEW T \in SUBSET Nat, T # {}
    PROVE  Min(T) \in T /\ \A y \in T : Min(T) <= y
BY LeastExists DEF Min

LEMMA MinOfOne ==
    ASSUME NEW n \in Nat
    PROVE  Min({n}) = n
BY MinIsLeast

-----------------------------------------------------------------------------
(* Tables *)

Contents == {w[r] : w \in Workbooks, r \in Rows}
Quantities == {content.quantity : content \in Contents \cup {Skipped}} \cup {0}
Codes == {<<"none", 0>>} \cup {FirstCode(p) : p \in Ids} \cup {TemporaryCode(p) : p \in Ids}
         \cup {RebuiltCode(content) : content \in Contents \cup {Skipped}}
OrderNumbers == Codes \cup {<<"user", n>> : n \in Nat} \cup {<<"sheet", r>> : r \in Rows}

Product == [row : Rows \cup {0}, code : Codes, content : Contents \cup {Skipped}]
Entry == [product : Ids \cup {0}, image : {content.image : content \in Contents} \cup {NoImage}]
Order == [number : OrderNumbers, product : Ids, line : BOOLEAN, quantity : Quantities]

TablesTyped ==
    /\ workbook \in Workbooks
    /\ products \in [Ids -> Product]
    /\ manifest \in [Rows -> Entry]
    /\ orders \subseteq Order
    /\ items \in [Ids -> Quantities]
    /\ images \in [Ids -> Nat]

\* The tables refer to each other: a manifest row to a product of its own, an order to a
\* product, and an item comes with a line.
TablesLinked ==
    /\ \A r \in Rows : manifest[r].product = 0 => manifest[r] = NotImported
    /\ \A r \in Rows : manifest[r].product # 0 => manifest[r].product \in Created
    /\ \A r, s \in Rows : manifest[r].product = manifest[s].product /\ manifest[r].product # 0 => r = s
    /\ \A o \in orders : o.product \in Created
    /\ \A p \in Ids : items[p] # 0 => p \in Created /\ LinesOf(p) # {}

LEMMA IdsAreNumbers == Ids \subseteq Nat /\ 0 \notin Ids
BY MonthlyImportAssumption DEF Ids

LEMMA RowsAreNumbers == Rows \subseteq Nat \ {0}
<1>1. Cardinality(Rows) \in Nat
  BY FS_CardinalityType, MonthlyImportAssumption
<1> QED
  BY <1>1, MonthlyImportAssumption

LEMMA ContentOfRow ==
    ASSUME workbook \in Workbooks, NEW r \in Rows
    PROVE  workbook[r] \in Contents /\ workbook[r].quantity \in Quantities
BY DEF Contents, Quantities

\* One column of a product.
LEMMA CodeChanged ==
    ASSUME products \in [Ids -> Product], NEW p \in Ids, NEW code \in Codes, NEW new,
           new = [products EXCEPT ![p].code = code]
    PROVE  /\ new \in [Ids -> Product]
           /\ new[p].code = code /\ new[p].content = products[p].content /\ new[p].row = products[p].row
           /\ \A q \in Ids \ {p} : new[q] = products[q]
<1>1. PICK old \in Product : old = products[p]
  OBVIOUS
<1>2. PICK changed : changed = [old EXCEPT !.code = code]
  OBVIOUS
<1>3. changed \in Product /\ changed.code = code /\ changed.content = old.content /\ changed.row = old.row
  BY <1>2 DEF Product
<1>4. new = [products EXCEPT ![p] = changed]
  BY <1>1, <1>2
<1> QED
  BY <1>1, <1>3, <1>4

LEMMA ContentChanged ==
    ASSUME products \in [Ids -> Product], NEW p \in Ids, NEW content \in Contents, NEW new,
           new = [products EXCEPT ![p].content = content]
    PROVE  /\ new \in [Ids -> Product]
           /\ new[p].content = content /\ new[p].code = products[p].code /\ new[p].row = products[p].row
           /\ \A q \in Ids \ {p} : new[q] = products[q]
<1>1. PICK old \in Product : old = products[p]
  OBVIOUS
<1>2. PICK changed : changed = [old EXCEPT !.content = content]
  OBVIOUS
<1>3. changed \in Product /\ changed.content = content /\ changed.code = old.code /\ changed.row = old.row
  BY <1>2 DEF Product
<1>4. new = [products EXCEPT ![p] = changed]
  BY <1>1, <1>2
<1> QED
  BY <1>1, <1>3, <1>4

\* What a statement on the orders may do to one: its product stays, and a line stays a line.
LEMMA QuantityChanged ==
    ASSUME NEW o \in Order, NEW quantity \in Quantities
    PROVE  /\ [o EXCEPT !.quantity = quantity] \in Order
           /\ [o EXCEPT !.quantity = quantity].quantity = quantity
           /\ [o EXCEPT !.quantity = quantity].number = o.number
           /\ [o EXCEPT !.quantity = quantity].product = o.product
           /\ [o EXCEPT !.quantity = quantity].line = o.line
BY DEF Order

LEMMA LineAdded ==
    ASSUME NEW o \in Order, NEW quantity \in Quantities
    PROVE  /\ [o EXCEPT !.line = TRUE, !.quantity = quantity] \in Order
           /\ [o EXCEPT !.line = TRUE, !.quantity = quantity].quantity = quantity
           /\ [o EXCEPT !.line = TRUE, !.quantity = quantity].number = o.number
           /\ [o EXCEPT !.line = TRUE, !.quantity = quantity].product = o.product
           /\ [o EXCEPT !.line = TRUE, !.quantity = quantity].line = TRUE
BY DEF Order

LEMMA NumberChanged ==
    ASSUME NEW o \in Order, NEW number \in OrderNumbers
    PROVE  /\ [o EXCEPT !.number = number] \in Order
           /\ [o EXCEPT !.number = number].number = number
           /\ [o EXCEPT !.number = number].quantity = o.quantity
           /\ [o EXCEPT !.number = number].product = o.product
           /\ [o EXCEPT !.number = number].line = o.line
BY DEF Order

\* UPDATE purchase_orders SET po_number = ? for the orders of a product
WithNumber(o, p, number) == IF o \in LinesOf(p) THEN [o EXCEPT !.number = number] ELSE o

LEMMA LinesRenumbered ==
    ASSUME orders \subseteq Order, NEW p, NEW number \in OrderNumbers, NEW new, new = Renumbered(p, number)
    PROVE  /\ new \subseteq Order
           /\ \A n \in new : \E o \in orders :
                 /\ n.product = o.product /\ n.line = o.line /\ n.quantity = o.quantity
                 /\ IF o.product = p /\ o.line THEN n.number = number ELSE n = o
                 /\ n = WithNumber(o, p, number)
           /\ \A o \in orders : \E n \in new :
                 /\ n.product = o.product /\ n.line = o.line /\ n.quantity = o.quantity
                 /\ IF o.product = p /\ o.line THEN n.number = number ELSE n = o
<1> DEFINE Image(o) == IF o \in LinesOf(p) THEN [o EXCEPT !.number = number] ELSE o
<1>1. \A o \in orders : /\ Image(o) \in Order
                        /\ Image(o).product = o.product /\ Image(o).line = o.line
                        /\ Image(o).quantity = o.quantity
                        /\ IF o.product = p /\ o.line THEN Image(o).number = number ELSE Image(o) = o
  <2> TAKE o \in orders
  <2>1. o \in Order
    OBVIOUS
  <2>2. o \in LinesOf(p) <=> o.product = p /\ o.line
    BY DEF LinesOf
  <2> QED
    BY <2>1, <2>2, NumberChanged
<1>2. new = {Image(o) : o \in orders}
  BY DEF Renumbered
<1>3. \A o \in orders : Image(o) = WithNumber(o, p, number)
  BY DEF WithNumber
<1> HIDE DEF Image
<1> QED
  BY <1>1, <1>2, <1>3

\* UPDATE purchase_order_lines SET ordered_quantity = ? WHERE product_id = ?
Revalued(p, quantity) == {IF o \in LinesOf(p) THEN [o EXCEPT !.quantity = quantity] ELSE o : o \in orders}

LEMMA LinesUpdated ==
    ASSUME orders \subseteq Order, NEW p, NEW quantity \in Quantities, NEW new, new = Revalued(p, quantity)
    PROVE  /\ new \subseteq Order
           /\ \A n \in new : \E o \in orders :
                 /\ n.product = o.product /\ n.line = o.line /\ n.number = o.number
                 /\ IF o.product = p /\ o.line THEN n.quantity = quantity ELSE n = o
           /\ \A o \in orders : \E n \in new :
                 /\ n.product = o.product /\ n.line = o.line /\ n.number = o.number
                 /\ IF o.product = p /\ o.line THEN n.quantity = quantity ELSE n = o
<1> DEFINE Image(o) == IF o \in LinesOf(p) THEN [o EXCEPT !.quantity = quantity] ELSE o
<1>1. \A o \in orders : /\ Image(o) \in Order
                        /\ Image(o).product = o.product /\ Image(o).line = o.line
                        /\ Image(o).number = o.number
                        /\ IF o.product = p /\ o.line THEN Image(o).quantity = quantity ELSE Image(o) = o
  <2> TAKE o \in orders
  <2>1. o \in Order
    OBVIOUS
  <2>2. o \in LinesOf(p) <=> o.product = p /\ o.line
    BY DEF LinesOf
  <2> QED
    BY <2>1, <2>2, QuantityChanged
<1>2. new = {Image(o) : o \in orders}
  BY DEF Revalued
<1> HIDE DEF Image
<1> QED
  BY <1>1, <1>2

\* INSERT INTO purchase_order_lines for the order of a number
WithLine(number, quantity) ==
    {IF o.number = number THEN [o EXCEPT !.line = TRUE, !.quantity = quantity] ELSE o : o \in orders}

LEMMA LineInserted ==
    ASSUME orders \subseteq Order, NEW number, NEW quantity \in Quantities, NEW new,
           new = WithLine(number, quantity)
    PROVE  /\ new \subseteq Order
           /\ \A n \in new : \E o \in orders :
                 /\ n.product = o.product /\ n.number = o.number
                 /\ IF o.number = number THEN n.line /\ n.quantity = quantity ELSE n = o
           /\ \A o \in orders : \E n \in new :
                 /\ n.product = o.product /\ n.number = o.number
                 /\ IF o.number = number THEN n.line /\ n.quantity = quantity ELSE n = o
<1> DEFINE Image(o) == IF o.number = number THEN [o EXCEPT !.line = TRUE, !.quantity = quantity] ELSE o
<1>1. \A o \in orders : /\ Image(o) \in Order
                        /\ Image(o).product = o.product /\ Image(o).number = o.number
                        /\ IF o.number = number THEN Image(o).line /\ Image(o).quantity = quantity
                           ELSE Image(o) = o
  <2> TAKE o \in orders
  <2>1. o \in Order
    OBVIOUS
  <2> QED
    BY <2>1, LineAdded
<1>2. new = {Image(o) : o \in orders}
  BY DEF WithLine
<1> HIDE DEF Image
<1> QED
  BY <1>1, <1>2

-----------------------------------------------------------------------------
(* A completed import: the inductive invariant *)

\* The values of a row have reached its product, its item and its lines ...
Carried(r, book, known, made, tracked, placed) ==
    /\ known[r].product # 0
    /\ made[known[r].product].content = book[r]
    /\ tracked[known[r].product] \in {0, book[r].quantity}
    /\ \A o \in placed : o.product = known[r].product /\ o.line => o.quantity = book[r].quantity

\* ... and its picture as well.
RowDone(r, book, known, made, tracked, placed) ==
    /\ Carried(r, book, known, made, tracked, placed)
    /\ book[r].image \in {NoImage, known[r].image}

\* The product of a row has its item and a line.
Synced(r, book, known, tracked, placed) ==
    /\ tracked[known[r].product] = book[r].quantity
    /\ \E o \in placed : o.product = known[r].product /\ o.line

OneLine(placed) == \A o, other \in placed : o.line /\ other.line /\ o.product = other.product => o = other

RowSteps == {"row", "update_item", "update_line", "record", "image", "record_image"}
SyncSteps == {"order", "line", "item"}
NumberSteps == {"number_tmp", "number_final", "done"}
AfterCodes == {"plan_numbers"} \cup NumberSteps
AfterSync == {"plan_codes", "code_tmp", "code_final"} \cup AfterCodes
AfterRows == {"plan_sync"} \cup SyncSteps \cup AfterSync

\* The loop over the rows: those before the current one are done.
InRows ==
    /\ pc \in RowSteps =>
          /\ row \in Extracted
          /\ \A r \in Extracted : r < row => RowDone(r, workbook, manifest, products, items, orders)
    /\ pc = "record" =>
          /\ manifest[row] = NotImported
          /\ \E p \in Created :
                /\ todo = {p} /\ products[p].content = workbook[row] /\ items[p] = 0
                /\ \A o \in orders : o.product # p
                /\ \A r \in Rows : manifest[r].product # p
    /\ pc \in {"update_item", "update_line"} =>
          manifest[row].product # 0 /\ products[manifest[row].product].content = workbook[row]
    /\ pc = "update_line" => items[manifest[row].product] \in {0, workbook[row].quantity}
    /\ pc \in {"image", "record_image"} => Carried(row, workbook, manifest, products, items, orders)

\* The loop over the untracked products: the others have their item and line.
InSync ==
    /\ pc \in AfterRows =>
          \A r \in Extracted : RowDone(r, workbook, manifest, products, items, orders)
    /\ pc \in SyncSteps =>
          /\ todo \subseteq Created
          /\ \A r \in Extracted : \/ manifest[r].product \in todo
                                  \/ Synced(r, workbook, manifest, items, orders)
    /\ pc \in {"line", "item"} => todo # {}
    /\ pc = "line" =>
          /\ \E o \in orders : o.number = products[Min(todo)].code
          /\ \A o \in orders : o.number = products[Min(todo)].code => o.product = Min(todo)
    /\ pc = "item" => \E o \in orders : o.product = Min(todo) /\ o.line
    /\ pc \in AfterSync => \A r \in Extracted : Synced(r, workbook, manifest, items, orders)

\* The loops over the codes: products outside the plan, then those behind, have theirs.
InCodes ==
    /\ pc = "code_tmp" =>
          /\ plan \subseteq Imported /\ todo \subseteq plan
          /\ \A p \in Imported \ plan : products[p].code = ExpectedCode(p)
    /\ pc = "code_final" =>
          /\ todo \subseteq Imported
          /\ \A p \in Imported \ todo : products[p].code = ExpectedCode(p)
    /\ pc \in AfterCodes => \A p \in Imported : products[p].code = ExpectedCode(p)

\* The loops over the order numbers: a product has one line, whose order gets its code.
InNumbers ==
    /\ pc \in NumberSteps => OneLine(orders)
    /\ pc = "number_tmp" =>
          plan \subseteq Ids /\ todo \subseteq plan /\ \A o \in orders : o.line => o.product \in plan
    /\ pc = "number_final" =>
          /\ todo \subseteq Ids
          /\ \A o \in orders : o.line => o.product \in todo \/ o.number = products[o.product].code
    /\ pc = "done" => \A o \in orders : o.line => o.number = products[o.product].code

ImportInvariant == TablesTyped /\ TablesLinked /\ InRows /\ InSync /\ InCodes /\ InNumbers

LEMMA ImportInit == InitImport => ImportInvariant
<1> SUFFICES ASSUME InitImport
             PROVE  ImportInvariant
  OBVIOUS
<1>1. NoProduct \in Product
  BY DEF NoProduct, Product, Codes
<1>2. NotImported \in Entry
  BY DEF NotImported, Entry
<1>3. 0 \in Quantities
  BY DEF Quantities
<1>4. TablesTyped
  BY <1>1, <1>2, <1>3 DEF InitImport, TablesTyped
<1>5. \A r \in Rows : manifest[r] = NotImported /\ manifest[r].product = 0
  BY DEF InitImport, NotImported
<1>6. orders = {} /\ \A p \in Ids : items[p] = 0
  BY DEF InitImport
<1>7. TablesLinked
  BY <1>5, <1>6 DEF TablesLinked
<1>8. pc = "idle"
  BY DEF InitImport
<1> QED
  BY <1>4, <1>7, <1>8 DEF ImportInvariant, InRows, InSync, InCodes, InNumbers, RowSteps, SyncSteps,
                          NumberSteps, AfterCodes, AfterSync, AfterRows

\* Where the loop over the rows goes.
LEMMA NextRowFound ==
    ASSUME NEW r \in Nat, GoToRowAfter(r)
    PROVE  \/ pc' = "plan_sync" /\ \A s \in Extracted : s <= r
           \/ pc' = "row" /\ row' \in Extracted /\ \A s \in Extracted : s < row' => s <= r
<1> DEFINE next == {s \in Extracted : s > r}
<1>1. Extracted \subseteq Nat
  BY RowsAreNumbers DEF Extracted
<1>2. CASE next = {}
  <2>1. pc' = "plan_sync"
    BY <1>2 DEF GoToRowAfter
  <2>2. \A s \in Extracted : s <= r
    BY <1>1, <1>2
  <2> QED
    BY <2>1, <2>2
<1>3. CASE next # {}
  <2>1. pc' = "row" /\ row' = Min(next)
    BY <1>3 DEF GoToRowAfter
  <2>2. Min(next) \in next /\ \A s \in next : Min(next) <= s
    BY <1>1, <1>3, MinIsLeast
  <2> HIDE DEF next
  <2>3. row' \in next /\ \A s \in next : row' <= s
    BY <2>1, <2>2
  <2>4. row' \in Extracted /\ \A s \in Extracted : s < row' => s <= r
    BY <1>1, <2>3 DEF next
  <2> QED
    BY <2>1, <2>4
<1> QED
  BY <1>2, <1>3

LEMMA TablesStay ==
    ASSUME TablesTyped, TablesLinked, UNCHANGED <<workbook, Tables>>
    PROVE  TablesTyped' /\ TablesLinked'
BY DEF TablesTyped, TablesLinked, Tables, Created, LinesOf

\* To the next row, with those up to the current one done.
LEMMA RowsGoOn ==
    ASSUME TablesTyped', TablesLinked', UNCHANGED workbook, NEW at \in Nat, GoToRowAfter(at),
           \A r \in Extracted : r <= at => RowDone(r, workbook', manifest', products', items', orders')
    PROVE  ImportInvariant'
<1> USE DEF RowSteps, SyncSteps, NumberSteps, AfterCodes, AfterSync, AfterRows
<1>1. Extracted' = Extracted
  BY DEF Extracted
<1>2. CASE pc' = "plan_sync" /\ \A s \in Extracted : s <= at
  <2>1. \A r \in Extracted' : RowDone(r, workbook', manifest', products', items', orders')
    BY <1>1, <1>2
  <2> QED
    BY <1>2, <2>1 DEF ImportInvariant, InRows, InSync, InCodes, InNumbers
<1>3. CASE pc' = "row" /\ row' \in Extracted /\ \A s \in Extracted : s < row' => s <= at
  <2>1. \A r \in Extracted' : r < row' => RowDone(r, workbook', manifest', products', items', orders')
    BY <1>1, <1>3
  <2> QED
    BY <1>1, <1>3, <2>1 DEF ImportInvariant, InRows, InSync, InCodes, InNumbers
<1> QED
  BY <1>2, <1>3, NextRowFound

\* An import that is not under way.
LEMMA NotRunning ==
    ASSUME TablesTyped', TablesLinked', pc' \in {"idle", "error"}
    PROVE  ImportInvariant'
BY DEF ImportInvariant, InRows, InSync, InCodes, InNumbers, RowSteps, SyncSteps, NumberSteps,
       AfterCodes, AfterSync, AfterRows

LEMMA StartImportKeeps ==
    ASSUME ImportInvariant, StartImport
    PROVE  ImportInvariant'
<1>1. UNCHANGED <<workbook, Tables>> /\ GoToRowAfter(0) /\ 0 \in Nat
  BY DEF StartImport, Outside, Tables
<1>2. TablesTyped' /\ TablesLinked'
  BY <1>1, TablesStay DEF ImportInvariant
<1>3. \A r \in Extracted : ~(r <= 0)
  BY RowsAreNumbers DEF Extracted
<1> QED
  BY <1>1, <1>2, <1>3, RowsGoOn

LEMMA StopKeeps ==
    ASSUME ImportInvariant, Stop
    PROVE  ImportInvariant'
<1>1. UNCHANGED <<workbook, Tables>> /\ pc' = "idle"
  BY DEF Stop, Tables
<1> QED
  BY <1>1, TablesStay, NotRunning DEF ImportInvariant

LEMMA CorrectWorkbookKeeps ==
    ASSUME ImportInvariant, CorrectWorkbook
    PROVE  ImportInvariant'
<1>1. UNCHANGED Tables /\ pc' = "idle" /\ workbook' \in Workbooks
  BY DEF CorrectWorkbook, Tables
<1>2. TablesTyped' /\ TablesLinked'
  BY <1>1 DEF ImportInvariant, TablesTyped, TablesLinked, Tables, Created, LinesOf
<1> QED
  BY <1>1, <1>2, NotRunning

\* The counters of the bounds, which number the orders of users.
Counted == stops \in Nat /\ edits \in Nat /\ foreign \in Nat

LEMMA OrderAdded ==
    ASSUME TablesTyped, TablesLinked, NEW new \in Order, new.product \in Created,
           orders' = orders \cup {new}, UNCHANGED <<workbook, products, manifest, items, images>>
    PROVE  TablesTyped' /\ TablesLinked'
<1>1. TablesTyped'
  BY DEF TablesTyped
<1>2. Created' = Created
  BY DEF Created
<1>3. \A p \in Ids : LinesOf(p) \subseteq LinesOf(p)'
  BY DEF LinesOf
<1>4. \A p \in Ids : items[p] # 0 => LinesOf(p)' # {}
  BY <1>3 DEF TablesLinked
<1>5. \A o \in orders' : o.product \in Created'
  BY <1>2 DEF TablesLinked
<1>6. \A p \in Ids : items'[p] # 0 => p \in Created' /\ LinesOf(p)' # {}
  BY <1>2, <1>4 DEF TablesLinked
<1>7. TablesLinked'
  BY <1>2, <1>5, <1>6 DEF TablesLinked
<1> QED
  BY <1>1, <1>7

LEMMA ProductAdded ==
    ASSUME TablesTyped, TablesLinked, NEW p \in Ids \ Created, NEW new \in Product,
           new.content # Skipped, products' = [products EXCEPT ![p] = new],
           orders \subseteq orders', \A o \in orders' \ orders : o \in Order /\ o.product = p,
           items' \in [Ids -> Quantities], \A q \in Ids \ {p} : items'[q] = items[q],
           items'[p] # 0 => \E o \in orders' : o.product = p /\ o.line,
           UNCHANGED <<workbook, manifest, images>>
    PROVE  TablesTyped' /\ TablesLinked' /\ Created' = Created \cup {p}
<1>1. TablesTyped'
  BY DEF TablesTyped
<1>2. new # NoProduct
  BY DEF NoProduct
<1>3. Created' = Created \cup {p}
  BY <1>2 DEF Created, TablesTyped
<1>4. \A o \in orders' : o.product \in Created'
  BY <1>3 DEF TablesLinked
<1>5. \A q \in Ids : items'[q] # 0 => q \in Created' /\ LinesOf(q)' # {}
  <2> SUFFICES ASSUME NEW q \in Ids, items'[q] # 0
               PROVE  q \in Created' /\ LinesOf(q)' # {}
    OBVIOUS
  <2>1. CASE q = p
    BY <1>3, <2>1 DEF LinesOf
  <2>2. CASE q # p
    <3>1. q \in Created /\ LinesOf(q) # {}
      BY <2>2 DEF TablesLinked
    <3> QED
      BY <1>3, <3>1 DEF LinesOf
  <2> QED
    BY <2>1, <2>2
<1>6. TablesLinked'
  BY <1>3, <1>4, <1>5 DEF TablesLinked
<1> QED
  BY <1>1, <1>3, <1>6

LEMMA UserOrderKeeps ==
    ASSUME ImportInvariant, Counted, NEW p \in Ids, UserOrder(p)
    PROVE  ImportInvariant'
<1>1. TablesTyped /\ TablesLinked /\ items[p] \in Quantities /\ items[p] # 0
  BY DEF ImportInvariant, TablesTyped, UserOrder
<1>2. PICK number, quantity : number = <<"user", foreign>> /\ quantity = items[p]
  OBVIOUS
<1>3. number \in OrderNumbers /\ quantity \in Quantities
  BY <1>1, <1>2 DEF OrderNumbers, Counted
<1>4. PICK new : new = [number |-> number, product |-> p, line |-> TRUE, quantity |-> quantity]
  OBVIOUS
<1>5. new \in Order /\ new.product = p
  BY <1>3, <1>4 DEF Order
<1>6. p \in Created
  BY <1>1 DEF TablesLinked
<1>7. /\ orders' = orders \cup {new} /\ pc' = "idle"
      /\ UNCHANGED <<workbook, products, manifest, items, images>>
  BY <1>2, <1>4 DEF UserOrder
<1> QED
  BY <1>1, <1>5, <1>6, <1>7, OrderAdded, NotRunning

LEMMA FreshProduct ==
    ASSUME Created # Ids
    PROVE  Min(Ids \ Created) \in Ids \ Created
<1>1. Ids \ Created \subseteq Nat /\ Ids \ Created # {}
  BY IdsAreNumbers DEF Created
<1> QED
  BY <1>1, MinIsLeast

LEMMA FactoryImportKeeps ==
    ASSUME ImportInvariant, NEW r \in Rows, FactoryImport(r)
    PROVE  ImportInvariant'
<1>1. TablesTyped /\ TablesLinked
  BY DEF ImportInvariant
<1>2. PICK p : p = Min(Ids \ Created)
  OBVIOUS
<1>3. p \in Ids \ Created
  BY <1>2, FreshProduct DEF FactoryImport
<1>4. PICK content \in Contents, quantity \in Quantities : content = workbook[r] /\ quantity = content.quantity
  BY <1>1, ContentOfRow DEF TablesTyped
<1>5. content # Skipped
  BY <1>4 DEF FactoryImport, Extracted
<1>6. PICK new : new = [row |-> 0, code |-> FirstCode(p), content |-> content]
  OBVIOUS
<1>7. new \in Product /\ new.content # Skipped
  BY <1>3, <1>5, <1>6 DEF Product, Codes
<1>8. PICK order : order = [number |-> <<"sheet", r>>, product |-> p, line |-> TRUE, quantity |-> quantity]
  OBVIOUS
<1>9. order \in Order /\ order.product = p /\ order.line
  BY <1>3, <1>8 DEF Order, OrderNumbers
<1>10. /\ products' = [products EXCEPT ![p] = new]
       /\ orders' = orders \cup {order}
       /\ items' = [items EXCEPT ![p] = quantity]
       /\ pc' = "idle"
       /\ UNCHANGED <<workbook, manifest, images>>
  BY <1>2, <1>4, <1>6, <1>8 DEF FactoryImport
<1>11. items' \in [Ids -> Quantities] /\ \A q \in Ids \ {p} : items'[q] = items[q]
  BY <1>1, <1>10 DEF TablesTyped
<1>12. /\ orders \subseteq orders' /\ \A o \in orders' \ orders : o \in Order /\ o.product = p
       /\ \E o \in orders' : o.product = p /\ o.line
  BY <1>9, <1>10
<1>13. TablesTyped' /\ TablesLinked'
  BY <1>1, <1>3, <1>7, <1>10, <1>11, <1>12, ProductAdded
<1> QED
  BY <1>10, <1>13, NotRunning

-----------------------------------------------------------------------------
(* The loop over the rows *)

\* Statements on the product of one row leave the other rows as they are.
LEMMA OtherRowsStay ==
    ASSUME TablesTyped, TablesLinked, NEW at \in Rows, NEW p,
           p # 0 => manifest[at].product \in {0, p} /\ \A r \in Rows \ {at} : manifest[r].product # p,
           UNCHANGED workbook,
           \A r \in Rows \ {at} : manifest'[r] = manifest[r],
           \A q \in Ids \ {p} : products'[q].content = products[q].content /\ items'[q] = items[q],
           \A o \in orders' : o.product # p => o \in orders
    PROVE  \A r \in Rows \ {at} :
               RowDone(r, workbook, manifest, products, items, orders) =>
                   RowDone(r, workbook', manifest', products', items', orders')
<1> SUFFICES ASSUME NEW r \in Rows \ {at}, RowDone(r, workbook, manifest, products, items, orders)
             PROVE  RowDone(r, workbook', manifest', products', items', orders')
  OBVIOUS
<1>1. PICK q : q = manifest[r].product
  OBVIOUS
<1>2. q # 0 /\ q \in Ids
  BY <1>1 DEF RowDone, Carried, TablesTyped, Entry
<1>3. q # p
  BY <1>1, <1>2
<1>4. manifest'[r] = manifest[r] /\ products'[q].content = products[q].content /\ items'[q] = items[q]
  BY <1>2, <1>3
<1>5. \A o \in orders' : o.product = q => o \in orders
  BY <1>3
<1> QED
  BY <1>1, <1>2, <1>4, <1>5 DEF RowDone, Carried

\* What is known of the row at hand.
LEMMA RowAtHand ==
    ASSUME ImportInvariant, pc \in RowSteps
    PROVE  /\ row \in Rows /\ row \in Nat /\ row \in Extracted /\ workbook[row] # Skipped
           /\ workbook[row] \in Contents /\ workbook[row].quantity \in Quantities
           /\ manifest[row].product # 0 =>
                 /\ manifest[row].product \in Ids /\ manifest[row].product \in Created
                 /\ \A r \in Rows \ {row} : manifest[r].product # manifest[row].product
           /\ \A r \in Extracted : r < row => r # row /\ r \in Rows \ {row}
<1>1. row \in Extracted /\ workbook \in Workbooks
  BY DEF ImportInvariant, InRows, TablesTyped
<1>2. row \in Rows /\ row \in Nat /\ workbook[row] # Skipped /\ Extracted \subseteq Rows
  BY <1>1, RowsAreNumbers DEF Extracted
<1>3. manifest[row].product # 0 =>
          /\ manifest[row].product \in Created
          /\ \A r \in Rows \ {row} : manifest[r].product # manifest[row].product
  BY <1>2 DEF ImportInvariant, TablesLinked
<1>4. Created \subseteq Ids
  BY DEF Created
<1>5. \A r \in Extracted : r < row => r # row
  BY <1>2, RowsAreNumbers
<1> QED
  BY <1>1, <1>2, <1>3, <1>4, <1>5, ContentOfRow

LEMMA UpdateProductKeeps ==
    ASSUME ImportInvariant, UpdateProduct
    PROVE  ImportInvariant'
<1> USE DEF RowSteps, SyncSteps, NumberSteps, AfterCodes, AfterSync, AfterRows
<1>1. pc = "row" /\ pc' = "update_item" /\ UNCHANGED <<manifest, images, orders, items, row, workbook>>
  BY DEF UpdateProduct, Outside
<1>2. /\ row \in Rows /\ row \in Extracted /\ workbook[row] # Skipped /\ workbook[row] \in Contents
      /\ \A r \in Extracted : r < row => r \in Rows \ {row}
  BY <1>1, RowAtHand
<1>3. TablesTyped /\ TablesLinked
  BY DEF ImportInvariant
<1>4. PICK p : p = manifest[row].product
  OBVIOUS
<1>5. p # 0
  BY <1>2, <1>4 DEF UpdateProduct, ImportInvariant, TablesLinked
<1>6. p \in Ids /\ p \in Created /\ \A r \in Rows \ {row} : manifest[r].product # p
  BY <1>1, <1>4, <1>5, RowAtHand
<1>7. /\ products' \in [Ids -> Product] /\ products'[p].content = workbook[row]
      /\ \A q \in Ids \ {p} : products'[q] = products[q]
  <2>1. PICK content, new : content \in Contents /\ content = workbook[row] /\ new = products'
    BY <1>2
  <2>2. new = [products EXCEPT ![p].content = content] /\ products \in [Ids -> Product]
    BY <1>3, <1>4, <2>1 DEF UpdateProduct, TablesTyped
  <2> QED
    BY <1>6, <2>1, <2>2, ContentChanged
<1>8. Created' = Created
  <2>1. products'[p] # NoProduct
    BY <1>2, <1>7 DEF NoProduct
  <2> QED
    BY <1>6, <1>7, <2>1 DEF Created
<1>9. TablesTyped' /\ TablesLinked'
  BY <1>1, <1>3, <1>7, <1>8 DEF TablesTyped, TablesLinked, LinesOf
<1>10. \A r \in Extracted : r < row => RowDone(r, workbook', manifest', products', items', orders')
  <2>1. \A r \in Extracted : r < row => RowDone(r, workbook, manifest, products, items, orders)
    BY <1>1 DEF ImportInvariant, InRows
  <2>2. \A r \in Rows \ {row} :
            RowDone(r, workbook, manifest, products, items, orders) =>
                RowDone(r, workbook', manifest', products', items', orders')
    BY <1>1, <1>2, <1>3, <1>4, <1>6, <1>7, OtherRowsStay
  <2> QED
    BY <1>2, <2>1, <2>2
<1>11. Extracted' = Extracted
  BY <1>1 DEF Extracted
<1>12. InRows'
  BY <1>1, <1>2, <1>4, <1>5, <1>7, <1>10, <1>11 DEF InRows
<1> QED
  BY <1>1, <1>9, <1>12 DEF ImportInvariant, InSync, InCodes, InNumbers

LEMMA UpdateItemKeeps ==
    ASSUME ImportInvariant, UpdateItem
    PROVE  ImportInvariant'
<1> USE DEF RowSteps, SyncSteps, NumberSteps, AfterCodes, AfterSync, AfterRows
<1>1. /\ pc = "update_item" /\ pc' = "update_line"
      /\ UNCHANGED <<products, manifest, images, orders, row, workbook>>
  BY DEF UpdateItem, Outside
<1>2. /\ row \in Rows /\ row \in Extracted /\ workbook[row].quantity \in Quantities
      /\ \A r \in Extracted : r < row => r \in Rows \ {row}
  BY <1>1, RowAtHand
<1>3. TablesTyped /\ TablesLinked
  BY DEF ImportInvariant
<1>4. PICK p : p = manifest[row].product
  OBVIOUS
<1>5. p # 0 /\ products[p].content = workbook[row]
  BY <1>1, <1>4 DEF ImportInvariant, InRows
<1>6. p \in Ids /\ p \in Created /\ \A r \in Rows \ {row} : manifest[r].product # p
  BY <1>1, <1>4, <1>5, RowAtHand
<1>7. PICK quantity : quantity = IF items[p] = 0 THEN 0 ELSE workbook[row].quantity
  OBVIOUS
<1>8. /\ items' = [items EXCEPT ![p] = quantity]
      /\ quantity \in {0, workbook[row].quantity} /\ quantity \in Quantities
      /\ quantity # 0 => items[p] # 0
  BY <1>2, <1>3, <1>4, <1>7 DEF UpdateItem, TablesTyped, Quantities
<1>9. /\ items' \in [Ids -> Quantities] /\ items'[p] \in {0, workbook[row].quantity}
      /\ \A q \in Ids \ {p} : items'[q] = items[q]
      /\ \A q \in Ids : items'[q] # 0 => items[q] # 0
  BY <1>3, <1>6, <1>8 DEF TablesTyped
<1>10. TablesTyped' /\ TablesLinked'
  BY <1>1, <1>3, <1>9 DEF TablesTyped, TablesLinked, LinesOf, Created
<1>11. \A r \in Extracted : r < row => RowDone(r, workbook', manifest', products', items', orders')
  <2>1. \A r \in Extracted : r < row => RowDone(r, workbook, manifest, products, items, orders)
    BY <1>1 DEF ImportInvariant, InRows
  <2>2. \A r \in Rows \ {row} :
            RowDone(r, workbook, manifest, products, items, orders) =>
                RowDone(r, workbook', manifest', products', items', orders')
    BY <1>1, <1>2, <1>3, <1>4, <1>6, <1>9, OtherRowsStay
  <2> QED
    BY <1>2, <2>1, <2>2
<1>12. Extracted' = Extracted
  BY <1>1 DEF Extracted
<1>13. InRows'
  BY <1>1, <1>2, <1>4, <1>5, <1>9, <1>11, <1>12 DEF InRows
<1> QED
  BY <1>1, <1>10, <1>13 DEF ImportInvariant, InSync, InCodes, InNumbers

\* A statement that changes orders one by one.
LEMMA OrdersMapped ==
    ASSUME TablesTyped, TablesLinked, orders' \subseteq Order,
           \A n \in orders' : \E o \in orders : n.product = o.product,
           \A o \in orders : \E n \in orders' : n.product = o.product /\ (o.line => n.line),
           UNCHANGED <<workbook, products, manifest, items, images>>
    PROVE  TablesTyped' /\ TablesLinked'
<1>1. TablesTyped'
  BY DEF TablesTyped
<1>2. Created' = Created
  BY DEF Created
<1>3. \A p \in Ids : LinesOf(p) # {} => LinesOf(p)' # {}
  BY DEF LinesOf
<1>4. \A o \in orders' : o.product \in Created
  BY DEF TablesLinked
<1>5. \A p \in Ids : items[p] # 0 => p \in Created /\ LinesOf(p)' # {}
  BY <1>3 DEF TablesLinked
<1>6. TablesLinked'
  BY <1>2, <1>4, <1>5 DEF TablesLinked
<1> QED
  BY <1>1, <1>6

LEMMA UpdateLineKeeps ==
    ASSUME ImportInvariant, UpdateLine
    PROVE  ImportInvariant'
<1> USE DEF RowSteps, SyncSteps, NumberSteps, AfterCodes, AfterSync, AfterRows
<1>1. /\ pc = "update_line" /\ pc' = "image"
      /\ UNCHANGED <<products, manifest, images, items, row, workbook>>
  BY DEF UpdateLine, Outside
<1>2. /\ row \in Rows /\ row \in Extracted /\ workbook[row].quantity \in Quantities
      /\ \A r \in Extracted : r < row => r \in Rows \ {row}
  BY <1>1, RowAtHand
<1>3. TablesTyped /\ TablesLinked
  BY DEF ImportInvariant
<1>4. PICK p, quantity, new : p = manifest[row].product /\ quantity = workbook[row].quantity /\ new = orders'
  OBVIOUS
<1>5. p # 0 /\ products[p].content = workbook[row] /\ items[p] \in {0, workbook[row].quantity}
  BY <1>1, <1>4 DEF ImportInvariant, InRows
<1>6. p \in Ids /\ \A r \in Rows \ {row} : manifest[r].product # p
  BY <1>1, <1>4, <1>5, RowAtHand
<1>7. orders \subseteq Order /\ quantity \in Quantities /\ new = Revalued(p, quantity)
  BY <1>2, <1>3, <1>4 DEF UpdateLine, TablesTyped, Revalued
<1>8. /\ new \subseteq Order
      /\ \A n \in new : \E o \in orders :
            /\ n.product = o.product /\ n.line = o.line /\ n.number = o.number
            /\ IF o.product = p /\ o.line THEN n.quantity = quantity ELSE n = o
      /\ \A o \in orders : \E n \in new :
            /\ n.product = o.product /\ n.line = o.line /\ n.number = o.number
            /\ IF o.product = p /\ o.line THEN n.quantity = quantity ELSE n = o
  BY <1>7, LinesUpdated
<1>9. TablesTyped' /\ TablesLinked'
  BY <1>1, <1>3, <1>4, <1>8, OrdersMapped
<1>10. \A o \in orders' : o.product # p => o \in orders
  BY <1>4, <1>8
<1>11. \A r \in Extracted : r < row => RowDone(r, workbook', manifest', products', items', orders')
  <2>1. \A r \in Extracted : r < row => RowDone(r, workbook, manifest, products, items, orders)
    BY <1>1 DEF ImportInvariant, InRows
  <2>2. \A r \in Rows \ {row} :
            RowDone(r, workbook, manifest, products, items, orders) =>
                RowDone(r, workbook', manifest', products', items', orders')
    BY <1>1, <1>2, <1>3, <1>4, <1>6, <1>10, OtherRowsStay
  <2> QED
    BY <1>2, <2>1, <2>2
<1>12. Carried(row', workbook', manifest', products', items', orders')
  <2>1. \A o \in orders' : o.product = p /\ o.line => o.quantity = workbook[row].quantity
    BY <1>4, <1>8
  <2> QED
    BY <1>1, <1>4, <1>5, <2>1 DEF Carried
<1>13. Extracted' = Extracted
  BY <1>1 DEF Extracted
<1>14. InRows'
  BY <1>1, <1>2, <1>11, <1>12, <1>13 DEF InRows
<1> QED
  BY <1>1, <1>9, <1>14 DEF ImportInvariant, InSync, InCodes, InNumbers

LEMMA CreateProductKeeps ==
    ASSUME ImportInvariant, CreateProduct
    PROVE  ImportInvariant'
<1> USE DEF RowSteps, SyncSteps, NumberSteps, AfterCodes, AfterSync, AfterRows
<1>1. /\ pc = "row" /\ pc' = "record" /\ manifest[row] = NotImported
      /\ UNCHANGED <<manifest, images, orders, items, row, workbook>>
  BY DEF CreateProduct, Outside
<1>2. /\ row \in Rows /\ row \in Extracted /\ workbook[row] # Skipped /\ workbook[row] \in Contents
      /\ \A r \in Extracted : r < row => r \in Rows \ {row}
  BY <1>1, RowAtHand
<1>3. TablesTyped /\ TablesLinked
  BY DEF ImportInvariant
<1>4. PICK p : p = Min(Ids \ Created)
  OBVIOUS
<1>5. p \in Ids \ Created
  BY <1>4, FreshProduct DEF CreateProduct
<1>6. PICK content, at : content = workbook[row] /\ at = row
  OBVIOUS
<1>7. PICK new : new = [row |-> at, code |-> FirstCode(p), content |-> content]
  OBVIOUS
<1>8. new \in Product /\ new.content # Skipped /\ new.content = workbook[row]
  BY <1>2, <1>5, <1>6, <1>7 DEF Product, Codes
<1>9. products' = [products EXCEPT ![p] = new] /\ todo' = {p}
  BY <1>4, <1>6, <1>7 DEF CreateProduct
<1>10. items[p] = 0 /\ (\A o \in orders : o.product # p) /\ \A r \in Rows : manifest[r].product # p
  BY <1>3, <1>5, IdsAreNumbers DEF TablesLinked
<1>11. TablesTyped' /\ TablesLinked' /\ Created' = Created \cup {p}
  BY <1>1, <1>3, <1>5, <1>8, <1>9, <1>10, ProductAdded DEF TablesTyped
<1>12. /\ products'[p].content = workbook[row]
       /\ \A q \in Ids \ {p} : products'[q] = products[q]
  BY <1>3, <1>5, <1>8, <1>9 DEF TablesTyped
<1>13. \A r \in Extracted : r < row => RowDone(r, workbook', manifest', products', items', orders')
  <2>1. \A r \in Extracted : r < row => RowDone(r, workbook, manifest, products, items, orders)
    BY <1>1 DEF ImportInvariant, InRows
  <2>2. manifest[row].product = 0
    BY <1>1 DEF NotImported
  <2>3. \A r \in Rows \ {row} :
            RowDone(r, workbook, manifest, products, items, orders) =>
                RowDone(r, workbook', manifest', products', items', orders')
    BY <1>1, <1>2, <1>3, <1>10, <1>12, <2>2, OtherRowsStay, ZenonT(60)
  <2> QED
    BY <1>2, <2>1, <2>3
<1>14. Extracted' = Extracted
  BY <1>1 DEF Extracted
<1>15. InRows'
  BY <1>1, <1>2, <1>9, <1>10, <1>11, <1>12, <1>13, <1>14 DEF InRows
<1> QED
  BY <1>1, <1>11, <1>15 DEF ImportInvariant, InSync, InCodes, InNumbers

LEMMA RecordRowKeeps ==
    ASSUME ImportInvariant, RecordRow
    PROVE  ImportInvariant'
<1> USE DEF RowSteps, SyncSteps, NumberSteps, AfterCodes, AfterSync, AfterRows
<1>1. /\ pc = "record" /\ pc' = "image"
      /\ UNCHANGED <<products, images, orders, items, row, workbook>>
  BY DEF RecordRow, Outside
<1>2. /\ row \in Rows /\ row \in Extracted /\ \A r \in Extracted : r < row => r \in Rows \ {row}
  BY <1>1, RowAtHand
<1>3. TablesTyped /\ TablesLinked /\ manifest[row] = NotImported
  BY <1>1 DEF ImportInvariant, InRows
<1>4. PICK p \in Created : /\ todo = {p} /\ products[p].content = workbook[row] /\ items[p] = 0
                           /\ \A o \in orders : o.product # p
                           /\ \A r \in Rows : manifest[r].product # p
  BY <1>1 DEF ImportInvariant, InRows
<1>5. p \in Ids /\ p \in Nat /\ p # 0
  BY IdsAreNumbers DEF Created
<1>6. Min(todo) = p
  BY <1>4, <1>5, MinOfOne
<1>7. PICK new : new = [product |-> p, image |-> NoImage]
  OBVIOUS
<1>8. new \in Entry /\ new.product = p /\ manifest' = [manifest EXCEPT ![row] = new]
  BY <1>5, <1>6, <1>7 DEF RecordRow, Entry
<1>9. /\ manifest' \in [Rows -> Entry] /\ manifest'[row].product = p
      /\ \A r \in Rows \ {row} : manifest'[r] = manifest[r]
  BY <1>2, <1>3, <1>8 DEF TablesTyped
<1>10. TablesTyped'
  BY <1>1, <1>3, <1>9 DEF TablesTyped
<1>11. TablesLinked'
  <2>1. Created' = Created /\ \A q \in Ids : LinesOf(q)' = LinesOf(q)
    BY <1>1 DEF Created, LinesOf
  <2>2. \A r \in Rows : manifest'[r].product = 0 => manifest'[r] = NotImported
    BY <1>3, <1>5, <1>9 DEF TablesLinked
  <2>3. \A r \in Rows : manifest'[r].product # 0 => manifest'[r].product \in Created
    BY <1>3, <1>9 DEF TablesLinked
  <2>4. \A r, s \in Rows : manifest'[r].product = manifest'[s].product /\ manifest'[r].product # 0 => r = s
    BY <1>3, <1>4, <1>9 DEF TablesLinked
  <2>5. /\ \A o \in orders : o.product \in Created
        /\ \A q \in Ids : items[q] # 0 => q \in Created /\ LinesOf(q) # {}
    BY <1>3 DEF TablesLinked
  <2> QED
    BY <1>1, <2>1, <2>2, <2>3, <2>4, <2>5 DEF TablesLinked
<1>12. \A r \in Extracted : r < row => RowDone(r, workbook', manifest', products', items', orders')
  <2>1. \A r \in Extracted : r < row => RowDone(r, workbook, manifest, products, items, orders)
    BY <1>1 DEF ImportInvariant, InRows
  <2>2. manifest[row].product = 0
    BY <1>3 DEF NotImported
  <2>3. \A r \in Rows \ {row} :
            RowDone(r, workbook, manifest, products, items, orders) =>
                RowDone(r, workbook', manifest', products', items', orders')
    BY <1>1, <1>2, <1>3, <1>4, <1>9, <2>2, OtherRowsStay
  <2> QED
    BY <1>2, <2>1, <2>3
<1>13. Carried(row', workbook', manifest', products', items', orders')
  BY <1>1, <1>4, <1>5, <1>9 DEF Carried
<1>14. Extracted' = Extracted
  BY <1>1 DEF Extracted
<1>15. InRows'
  BY <1>1, <1>2, <1>12, <1>13, <1>14 DEF InRows
<1> QED
  BY <1>1, <1>10, <1>11, <1>15 DEF ImportInvariant, InSync, InCodes, InNumbers

\* The rows up to the one at hand, from those before it.
LEMMA RowsUpTo ==
    ASSUME ImportInvariant, pc \in RowSteps, NEW r \in Extracted, r <= row
    PROVE  r = row \/ (r < row /\ r \in Rows \ {row} /\ RowDone(r, workbook, manifest, products, items, orders))
<1>1. row \in Nat /\ r \in Nat /\ r \in Rows
  BY RowAtHand, RowsAreNumbers DEF Extracted
<1>2. r = row \/ (r < row /\ r # row)
  BY <1>1
<1>3. r < row => RowDone(r, workbook, manifest, products, items, orders)
  BY DEF ImportInvariant, InRows
<1> QED
  BY <1>1, <1>2, <1>3

LEMMA SkipImageKeeps ==
    ASSUME ImportInvariant, SkipImage
    PROVE  ImportInvariant'
<1>1. /\ pc = "image" /\ pc \in RowSteps /\ GoToRowAfter(row) /\ UNCHANGED <<workbook, Tables>>
      /\ workbook[row].image \in {NoImage, manifest[row].image}
  BY DEF SkipImage, Outside, RowSteps
<1>2. TablesTyped' /\ TablesLinked'
  BY <1>1, TablesStay DEF ImportInvariant
<1>3. RowDone(row, workbook, manifest, products, items, orders)
  BY <1>1 DEF ImportInvariant, InRows, RowDone
<1>4. row \in Nat
  BY <1>1, RowAtHand
<1>5. \A r \in Extracted : r <= row => RowDone(r, workbook', manifest', products', items', orders')
  BY <1>1, <1>3, RowsUpTo DEF Tables
<1> QED
  BY <1>1, <1>2, <1>4, <1>5, RowsGoOn

\* validate_upload refuses the picture of the row.
LEMMA RefuseImageKeeps ==
    ASSUME ImportInvariant, RefuseImage
    PROVE  ImportInvariant'
<1>1. pc = "image" /\ pc' = "error" /\ UNCHANGED <<workbook, Tables, row, todo, plan>>
  BY DEF RefuseImage, Outside
<1>2. TablesTyped' /\ TablesLinked'
  BY <1>1, TablesStay DEF ImportInvariant
<1> QED
  BY <1>1, <1>2 DEF ImportInvariant, InRows, InSync, InCodes, InNumbers, RowSteps, SyncSteps,
                    NumberSteps, AfterCodes, AfterSync, AfterRows

LEMMA UploadImageKeeps ==
    ASSUME ImportInvariant, UploadImage
    PROVE  ImportInvariant'
<1> USE DEF RowSteps, SyncSteps, NumberSteps, AfterCodes, AfterSync, AfterRows
<1>1. /\ pc = "image" /\ pc' = "record_image"
      /\ UNCHANGED <<products, manifest, orders, items, row, workbook>>
  BY DEF UploadImage, Outside
<1>2. TablesTyped /\ TablesLinked /\ Carried(row, workbook, manifest, products, items, orders)
  BY <1>1 DEF ImportInvariant, InRows
<1>3. images' \in [Ids -> Nat]
  <2>1. PICK p : p = manifest[row].product
    OBVIOUS
  <2>2. p \in Ids
    BY <1>1, <1>2, <2>1, RowAtHand DEF Carried
  <2> QED
    BY <1>2, <2>1, <2>2 DEF UploadImage, TablesTyped
<1>4. TablesTyped' /\ TablesLinked'
  BY <1>1, <1>2, <1>3 DEF TablesTyped, TablesLinked, Created, LinesOf
<1>5. row \in Extracted
      /\ \A r \in Extracted : r < row => RowDone(r, workbook, manifest, products, items, orders)
  BY <1>1 DEF ImportInvariant, InRows
<1>6. Extracted' = Extracted
  BY <1>1 DEF Extracted
<1>7. InRows'
  BY <1>1, <1>2, <1>5, <1>6 DEF InRows
<1> QED
  BY <1>1, <1>4, <1>7 DEF ImportInvariant, InSync, InCodes, InNumbers

LEMMA RecordImageKeeps ==
    ASSUME ImportInvariant, RecordImage
    PROVE  ImportInvariant'
<1>1. /\ pc = "record_image" /\ pc \in RowSteps /\ GoToRowAfter(row)
      /\ UNCHANGED <<products, images, orders, items, workbook>>
  BY DEF RecordImage, Outside, RowSteps
<1>2. TablesTyped /\ TablesLinked /\ Carried(row, workbook, manifest, products, items, orders)
  BY <1>1 DEF ImportInvariant, InRows
<1>3. row \in Rows /\ row \in Nat /\ workbook[row] \in Contents
  BY <1>1, RowAtHand
<1>4. PICK old, new, image :
          old = manifest[row] /\ image = workbook[row].image /\ new = [old EXCEPT !.image = image]
  OBVIOUS
<1>5. old \in Entry /\ image \in {content.image : content \in Contents}
  BY <1>2, <1>3, <1>4 DEF TablesTyped
<1>6. new \in Entry /\ new.product = old.product /\ new.image = workbook[row].image
  BY <1>4, <1>5 DEF Entry
<1>7. manifest' = [manifest EXCEPT ![row] = new]
  BY <1>4 DEF RecordImage
<1>8. /\ manifest' \in [Rows -> Entry] /\ manifest'[row].image = workbook[row].image
      /\ manifest'[row].product = manifest[row].product
      /\ \A r \in Rows : manifest'[r].product = manifest[r].product
      /\ \A r \in Rows \ {row} : manifest'[r] = manifest[r]
  BY <1>2, <1>3, <1>4, <1>6, <1>7 DEF TablesTyped
<1>9. manifest[row].product # 0
  BY <1>2 DEF Carried
<1>10. TablesTyped'
  BY <1>1, <1>2, <1>8 DEF TablesTyped
<1>11. TablesLinked'
  <2>1. Created' = Created /\ \A q \in Ids : LinesOf(q)' = LinesOf(q)
    BY <1>1 DEF Created, LinesOf
  <2>2. \A r \in Rows : manifest'[r].product = 0 => manifest'[r] = NotImported
    BY <1>2, <1>8, <1>9 DEF TablesLinked
  <2>3. \A r \in Rows : manifest'[r].product # 0 => manifest'[r].product \in Created
    BY <1>2, <1>8 DEF TablesLinked
  <2>4. \A r, s \in Rows : manifest'[r].product = manifest'[s].product /\ manifest'[r].product # 0 => r = s
    BY <1>2, <1>8 DEF TablesLinked
  <2>5. /\ \A o \in orders : o.product \in Created
        /\ \A q \in Ids : items[q] # 0 => q \in Created /\ LinesOf(q) # {}
    BY <1>2 DEF TablesLinked
  <2> QED
    BY <1>1, <2>1, <2>2, <2>3, <2>4, <2>5 DEF TablesLinked
<1>12. RowDone(row, workbook', manifest', products', items', orders')
  BY <1>1, <1>2, <1>8 DEF RowDone, Carried
<1>13. \A r \in Rows \ {row} :
           RowDone(r, workbook, manifest, products, items, orders) =>
               RowDone(r, workbook', manifest', products', items', orders')
  BY <1>1, <1>8 DEF RowDone, Carried
<1>14. \A r \in Extracted : r <= row => RowDone(r, workbook', manifest', products', items', orders')
  BY <1>1, <1>12, <1>13, RowsUpTo
<1> QED
  BY <1>1, <1>3, <1>10, <1>11, <1>14, RowsGoOn

-----------------------------------------------------------------------------
(* The loop over the untracked products *)

\* The row of the workbook that a quantity comes from is not empty.
LEMMA QuantityPositive ==
    ASSUME workbook \in Workbooks, NEW r \in Extracted
    PROVE  workbook[r].quantity # 0
BY MonthlyImportAssumption DEF Extracted

LEMMA PlanSyncKeeps ==
    ASSUME ImportInvariant, PlanSync
    PROVE  ImportInvariant'
<1> USE DEF RowSteps, SyncSteps, NumberSteps, AfterCodes, AfterSync, AfterRows
<1>1. /\ pc = "plan_sync" /\ pc' = "order" /\ UNCHANGED <<workbook, Tables>>
      /\ todo' = {p \in Created : items[p] = 0}
  BY DEF PlanSync, Outside
<1>2. TablesTyped /\ TablesLinked
  BY DEF ImportInvariant
<1>3. TablesTyped' /\ TablesLinked'
  BY <1>1, <1>2, TablesStay
<1>4. \A r \in Extracted : RowDone(r, workbook, manifest, products, items, orders)
  BY <1>1 DEF ImportInvariant, InSync
<1>5. \A r \in Extracted : \/ manifest[r].product \in todo'
                           \/ Synced(r, workbook, manifest, items, orders)
  <2> SUFFICES ASSUME NEW r \in Extracted, manifest[r].product \notin todo'
               PROVE  Synced(r, workbook, manifest, items, orders)
    OBVIOUS
  <2>1. PICK p : p = manifest[r].product
    OBVIOUS
  <2>2. p \in Created /\ p \in Ids
    BY <1>2, <1>4, <2>1 DEF RowDone, Carried, TablesLinked, Created, Extracted
  <2>3. items[p] # 0
    BY <1>1, <2>1, <2>2
  <2>4. items[p] = workbook[r].quantity
    BY <1>4, <2>1, <2>3 DEF RowDone, Carried
  <2>5. LinesOf(p) # {}
    BY <1>2, <2>2, <2>3 DEF TablesLinked
  <2> QED
    BY <2>1, <2>4, <2>5 DEF Synced, LinesOf
<1>6. Extracted' = Extracted /\ Created' = Created /\ todo' \subseteq Created
  BY <1>1 DEF Extracted, Created, Tables
<1>7. InSync'
  BY <1>1, <1>4, <1>5, <1>6 DEF InSync, Tables
<1> QED
  BY <1>1, <1>3, <1>7 DEF ImportInvariant, InRows, InCodes, InNumbers

LEMMA SyncDoneKeeps ==
    ASSUME ImportInvariant, SyncDone
    PROVE  ImportInvariant'
<1> USE DEF RowSteps, SyncSteps, NumberSteps, AfterCodes, AfterSync, AfterRows
<1>1. pc = "order" /\ pc' = "plan_codes" /\ todo = {} /\ UNCHANGED <<workbook, Tables>>
  BY DEF SyncDone, Outside
<1>2. TablesTyped' /\ TablesLinked'
  BY <1>1, TablesStay DEF ImportInvariant
<1>3. \A r \in Extracted : /\ RowDone(r, workbook, manifest, products, items, orders)
                           /\ Synced(r, workbook, manifest, items, orders)
  BY <1>1 DEF ImportInvariant, InSync
<1>4. Extracted' = Extracted
  BY <1>1 DEF Extracted
<1>5. InSync'
  BY <1>1, <1>3, <1>4 DEF InSync, Tables
<1> QED
  BY <1>1, <1>2, <1>5 DEF ImportInvariant, InRows, InCodes, InNumbers

\* What is known of the product at hand.
LEMMA ProductAtHand ==
    ASSUME ImportInvariant, pc \in SyncSteps, todo # {}
    PROVE  /\ Min(todo) \in todo /\ Min(todo) \in Ids /\ Min(todo) \in Created
           /\ products[Min(todo)].code \in OrderNumbers
           /\ products[Min(todo)].content.quantity \in Quantities
<1>1. todo \subseteq Created /\ TablesTyped
  BY DEF ImportInvariant, InSync
<1>2. Created \subseteq Ids
  BY DEF Created
<1>3. todo \subseteq Nat
  BY <1>1, <1>2, IdsAreNumbers
<1>4. Min(todo) \in todo
  BY <1>3, MinIsLeast
<1>5. PICK p \in Ids : p = Min(todo)
  BY <1>1, <1>2, <1>4
<1>6. products[p] \in Product
  BY <1>1 DEF TablesTyped
<1>7. products[p].code \in OrderNumbers
  BY <1>6 DEF Product, OrderNumbers
<1>8. products[p].content \in Contents \cup {Skipped}
  BY <1>6 DEF Product
<1>9. products[p].content.quantity \in Quantities
  BY <1>8 DEF Quantities
<1> QED
  BY <1>1, <1>2, <1>4, <1>5, <1>7, <1>9

LEMMA InsertOrderKeeps ==
    ASSUME ImportInvariant, InsertOrder
    PROVE  ImportInvariant'
<1> USE DEF RowSteps, SyncSteps, NumberSteps, AfterCodes, AfterSync, AfterRows
<1>1. /\ pc = "order" /\ todo # {}
      /\ UNCHANGED <<products, manifest, images, items, todo, workbook>>
  BY DEF InsertOrder, Outside
<1>2. TablesTyped /\ TablesLinked
  BY DEF ImportInvariant
<1>3. PICK p, number, quantity :
          p = Min(todo) /\ number = products[p].code /\ quantity = products[p].content.quantity
  OBVIOUS
<1>4. /\ p \in todo /\ p \in Ids /\ p \in Created
      /\ number \in OrderNumbers /\ quantity \in Quantities
  BY <1>1, <1>3, ProductAtHand
<1>5. CASE NumberTaken(number)
  <2>1. pc' = "error" /\ UNCHANGED orders
    BY <1>3, <1>5 DEF InsertOrder
  <2>2. TablesTyped' /\ TablesLinked'
    BY <1>1, <1>2, <2>1, TablesStay DEF Tables
  <2> QED
    BY <2>1, <2>2, NotRunning
<1>6. CASE ~NumberTaken(number)
  <2>1. PICK new : new = [number |-> number, product |-> p, line |-> FALSE, quantity |-> quantity]
    OBVIOUS
  <2>2. new \in Order /\ new.product = p /\ ~new.line /\ new.number = number
    BY <1>4, <2>1 DEF Order
  <2>3. orders' = orders \cup {new} /\ pc' = "line"
    BY <1>3, <1>6, <2>1 DEF InsertOrder
  <2>4. TablesTyped' /\ TablesLinked'
    BY <1>1, <1>2, <1>4, <2>2, <2>3, OrderAdded
  <2>5. Extracted' = Extracted /\ Created' = Created
    BY <1>1 DEF Extracted, Created
  <2>6. \A r \in Extracted : RowDone(r, workbook', manifest', products', items', orders')
    <3>1. \A r \in Extracted : RowDone(r, workbook, manifest, products, items, orders)
      BY <1>1 DEF ImportInvariant, InSync
    <3> QED
      BY <1>1, <2>2, <2>3, <3>1 DEF RowDone, Carried
  <2>7. \A r \in Extracted : \/ manifest[r].product \in todo
                             \/ Synced(r, workbook', manifest', items', orders')
    <3>1. \A r \in Extracted : \/ manifest[r].product \in todo
                               \/ Synced(r, workbook, manifest, items, orders)
      BY <1>1 DEF ImportInvariant, InSync
    <3> QED
      BY <1>1, <2>3, <3>1 DEF Synced
  <2>8. /\ \E o \in orders' : o.number = number
        /\ \A o \in orders' : o.number = number => o.product = p
    BY <1>6, <2>2, <2>3 DEF NumberTaken
  <2>9. todo \subseteq Created
    BY <1>1 DEF ImportInvariant, InSync
  <2>10. InSync'
    BY <1>1, <1>3, <2>3, <2>5, <2>6, <2>7, <2>8, <2>9 DEF InSync
  <2> QED
    BY <2>3, <2>4, <2>10 DEF ImportInvariant, InRows, InCodes, InNumbers
<1> QED
  BY <1>5, <1>6

LEMMA InsertLineKeeps ==
    ASSUME ImportInvariant, InsertLine
    PROVE  ImportInvariant'
<1> USE DEF RowSteps, SyncSteps, NumberSteps, AfterCodes, AfterSync, AfterRows
<1>1. /\ pc = "line" /\ pc' = "item"
      /\ UNCHANGED <<products, manifest, images, items, todo, workbook>>
  BY DEF InsertLine, Outside
<1>2. TablesTyped /\ TablesLinked /\ todo # {} /\ todo \subseteq Created
  BY <1>1 DEF ImportInvariant, InSync
<1>3. PICK p, number, quantity, new :
          /\ p = Min(todo) /\ number = products[p].code /\ quantity = products[p].content.quantity
          /\ new = orders'
  OBVIOUS
<1>4. p \in Ids /\ quantity \in Quantities /\ orders \subseteq Order
  BY <1>1, <1>2, <1>3, ProductAtHand DEF TablesTyped
<1>5. new = WithLine(number, quantity)
  BY <1>3 DEF InsertLine, WithLine
<1>6. /\ new \subseteq Order
      /\ \A n \in new : \E o \in orders :
            /\ n.product = o.product /\ n.number = o.number
            /\ IF o.number = number THEN n.line /\ n.quantity = quantity ELSE n = o
      /\ \A o \in orders : \E n \in new :
            /\ n.product = o.product /\ n.number = o.number
            /\ IF o.number = number THEN n.line /\ n.quantity = quantity ELSE n = o
  BY <1>4, <1>5, LineInserted
<1>7. /\ \E o \in orders : o.number = number
      /\ \A o \in orders : o.number = number => o.product = p
  BY <1>1, <1>3 DEF ImportInvariant, InSync
<1>8. /\ orders' \subseteq Order
      /\ \A n \in orders' : \E o \in orders : n.product = o.product
      /\ \A o \in orders : \E n \in orders' : n.product = o.product /\ (o.line => n.line)
  BY <1>3, <1>6
<1>9. TablesTyped' /\ TablesLinked'
  BY <1>1, <1>2, <1>8, OrdersMapped
<1>10. Extracted' = Extracted /\ Created' = Created
  BY <1>1 DEF Extracted, Created
<1>11. \A r \in Extracted : RowDone(r, workbook', manifest', products', items', orders')
  <2> SUFFICES ASSUME NEW r \in Extracted
               PROVE  RowDone(r, workbook', manifest', products', items', orders')
    OBVIOUS
  <2>1. RowDone(r, workbook, manifest, products, items, orders)
    BY <1>1 DEF ImportInvariant, InSync
  <2>2. manifest[r].product = p => quantity = workbook[r].quantity
    BY <1>3, <2>1 DEF RowDone, Carried
  <2>3. \A n \in orders' : n.product = manifest[r].product /\ n.line => n.quantity = workbook[r].quantity
    <3> SUFFICES ASSUME NEW n \in orders', n.product = manifest[r].product, n.line
                 PROVE  n.quantity = workbook[r].quantity
      OBVIOUS
    <3>1. PICK o \in orders : /\ n.product = o.product /\ n.number = o.number
                              /\ IF o.number = number THEN n.line /\ n.quantity = quantity ELSE n = o
      BY <1>3, <1>6
    <3>2. CASE o.number = number
      BY <1>7, <2>2, <3>1, <3>2
    <3>3. CASE o.number # number
      BY <2>1, <3>1, <3>3 DEF RowDone, Carried
    <3> QED
      BY <3>2, <3>3
  <2> QED
    BY <1>1, <2>1, <2>3 DEF RowDone, Carried
<1>12. \A r \in Extracted : \/ manifest[r].product \in todo
                            \/ Synced(r, workbook', manifest', items', orders')
  <2>1. \A r \in Extracted : \/ manifest[r].product \in todo
                             \/ Synced(r, workbook, manifest, items, orders)
    BY <1>1 DEF ImportInvariant, InSync
  <2> QED
    BY <1>1, <1>8, <2>1 DEF Synced
<1>13. \E o \in orders' : o.product = p /\ o.line
  BY <1>3, <1>6, <1>7
<1>14. InSync'
  BY <1>1, <1>2, <1>3, <1>10, <1>11, <1>12, <1>13 DEF InSync
<1> QED
  BY <1>1, <1>9, <1>14 DEF ImportInvariant, InRows, InCodes, InNumbers

LEMMA InsertItemKeeps ==
    ASSUME ImportInvariant, InsertItem
    PROVE  ImportInvariant'
<1> USE DEF RowSteps, SyncSteps, NumberSteps, AfterCodes, AfterSync, AfterRows
<1>1. /\ pc = "item" /\ pc' = "order"
      /\ UNCHANGED <<products, manifest, images, orders, workbook>>
  BY DEF InsertItem, Outside
<1>2. TablesTyped /\ TablesLinked /\ todo # {} /\ todo \subseteq Created
  BY <1>1 DEF ImportInvariant, InSync
<1>3. PICK p, quantity : p = Min(todo) /\ quantity = products[p].content.quantity
  OBVIOUS
<1>4. p \in Ids /\ p \in Created /\ quantity \in Quantities
  BY <1>1, <1>2, <1>3, ProductAtHand
<1>5. items' = [items EXCEPT ![p] = quantity] /\ todo' = todo \ {p}
  BY <1>3 DEF InsertItem
<1>6. items' \in [Ids -> Quantities] /\ items'[p] = quantity /\ \A q \in Ids \ {p} : items'[q] = items[q]
  BY <1>2, <1>4, <1>5 DEF TablesTyped
<1>7. \E o \in orders : o.product = p /\ o.line
  BY <1>1, <1>3 DEF ImportInvariant, InSync
<1>8. Extracted' = Extracted /\ Created' = Created /\ \A q \in Ids : LinesOf(q)' = LinesOf(q)
  BY <1>1 DEF Extracted, Created, LinesOf
<1>9. TablesTyped'
  BY <1>1, <1>2, <1>6 DEF TablesTyped
<1>10. LinesOf(p) # {}
  BY <1>7 DEF LinesOf
<1>11. TablesLinked'
  BY <1>1, <1>2, <1>4, <1>6, <1>8, <1>10 DEF TablesLinked
<1>12. \A r \in Extracted : manifest[r].product \in Ids /\ manifest[r].product # 0
  <2>1. \A r \in Extracted : RowDone(r, workbook, manifest, products, items, orders) /\ r \in Rows
    BY <1>1 DEF ImportInvariant, InSync, Extracted
  <2> QED
    BY <1>2, <2>1 DEF RowDone, Carried, TablesLinked, Created
<1>13. \A r \in Extracted : manifest[r].product = p => items'[p] = workbook[r].quantity
  <2>1. \A r \in Extracted : RowDone(r, workbook, manifest, products, items, orders)
    BY <1>1 DEF ImportInvariant, InSync
  <2> QED
    BY <1>3, <1>6, <2>1 DEF RowDone, Carried
<1>14. \A r \in Extracted : RowDone(r, workbook', manifest', products', items', orders')
  <2>1. \A r \in Extracted : RowDone(r, workbook, manifest, products, items, orders)
    BY <1>1 DEF ImportInvariant, InSync
  <2> QED
    BY <1>1, <1>6, <1>12, <1>13, <2>1 DEF RowDone, Carried
<1>15. \A r \in Extracted : \/ manifest[r].product \in todo'
                            \/ Synced(r, workbook', manifest', items', orders')
  <2> SUFFICES ASSUME NEW r \in Extracted, manifest[r].product \notin todo'
               PROVE  Synced(r, workbook', manifest', items', orders')
    OBVIOUS
  <2>1. CASE manifest[r].product = p
    BY <1>1, <1>7, <1>13, <2>1 DEF Synced
  <2>2. CASE manifest[r].product # p
    <3>1. manifest[r].product \notin todo
      BY <1>5, <2>2
    <3>2. Synced(r, workbook, manifest, items, orders)
      BY <1>1, <3>1 DEF ImportInvariant, InSync
    <3> QED
      BY <1>1, <1>6, <1>12, <2>2, <3>2 DEF Synced
  <2> QED
    BY <2>1, <2>2
<1>16. InSync'
  BY <1>1, <1>2, <1>5, <1>8, <1>14, <1>15 DEF InSync
<1> QED
  BY <1>1, <1>9, <1>11, <1>16 DEF ImportInvariant, InRows, InCodes, InNumbers

-----------------------------------------------------------------------------
(* The loops over the codes and over the order numbers *)

\* Statements on codes and numbers leave the quantities as they are.
LEMMA RowsStayDone ==
    ASSUME TablesTyped, TablesLinked, UNCHANGED <<workbook, manifest, items>>,
           \A q \in Ids : products'[q].content = products[q].content,
           \A n \in orders' : \E o \in orders :
              n.product = o.product /\ n.line = o.line /\ n.quantity = o.quantity,
           \A o \in orders : \E n \in orders' : n.product = o.product /\ n.line = o.line,
           \A r \in Extracted : /\ RowDone(r, workbook, manifest, products, items, orders)
                                /\ Synced(r, workbook, manifest, items, orders)
    PROVE  /\ Extracted' = Extracted
           /\ \A r \in Extracted : /\ RowDone(r, workbook', manifest', products', items', orders')
                                   /\ Synced(r, workbook', manifest', items', orders')
<1>1. Extracted' = Extracted
  BY DEF Extracted
<1> SUFFICES ASSUME NEW r \in Extracted
             PROVE  /\ RowDone(r, workbook', manifest', products', items', orders')
                    /\ Synced(r, workbook', manifest', items', orders')
  BY <1>1
<1>2. PICK p : p = manifest[r].product
  OBVIOUS
<1>3. p # 0 /\ p \in Ids
  BY <1>2 DEF RowDone, Carried, TablesLinked, Extracted, Created
<1>4. products'[p].content = products[p].content
  BY <1>3
<1>5. \A n \in orders' : n.product = p /\ n.line => n.quantity = workbook[r].quantity
  BY <1>2 DEF RowDone, Carried
<1>6. \E n \in orders' : n.product = p /\ n.line
  BY <1>2 DEF Synced
<1>7. RowDone(r, workbook', manifest', products', items', orders')
  BY <1>2, <1>4, <1>5 DEF RowDone, Carried
<1>8. Synced(r, workbook', manifest', items', orders')
  BY <1>2, <1>6 DEF Synced
<1> QED
  BY <1>7, <1>8

LEMMA ImportedAreProducts ==
    ASSUME TablesTyped, TablesLinked
    PROVE  Imported \subseteq Created /\ Imported \subseteq Ids /\ Imported \subseteq Nat
<1>1. Imported \subseteq Created
  BY DEF TablesLinked, Imported
<1>2. Created \subseteq Ids
  BY DEF Created
<1> QED
  BY <1>1, <1>2, IdsAreNumbers

\* The code of an imported product changes.
LEMMA ProductRecoded ==
    ASSUME TablesTyped, TablesLinked, NEW p \in Imported, NEW code \in Codes, code # <<"none", 0>>,
           products' = [products EXCEPT ![p].code = code],
           UNCHANGED <<workbook, manifest, images, orders, items>>
    PROVE  /\ TablesTyped' /\ TablesLinked' /\ Imported' = Imported
           /\ products'[p].code = code
           /\ \A q \in Ids : products'[q].content = products[q].content /\ ExpectedCode(q)' = ExpectedCode(q)
           /\ \A q \in Ids \ {p} : products'[q] = products[q]
<1>1. p \in Ids /\ p \in Created
  BY ImportedAreProducts
<1>2. PICK new : new = products'
  OBVIOUS
<1>3. /\ new \in [Ids -> Product] /\ new[p].code = code /\ new[p].content = products[p].content
      /\ \A q \in Ids \ {p} : new[q] = products[q]
  BY <1>1, <1>2, CodeChanged DEF TablesTyped
<1>4. Imported' = Imported
  BY DEF Imported
<1>5. products'[p] # NoProduct
  BY <1>2, <1>3 DEF NoProduct
<1>6. Created' = Created
  BY <1>1, <1>2, <1>3, <1>5 DEF Created
<1>7. \A q \in Ids : LinesOf(q)' = LinesOf(q)
  BY DEF LinesOf
<1>8. TablesTyped'
  BY <1>2, <1>3 DEF TablesTyped
<1>9. TablesLinked'
  BY <1>6, <1>7 DEF TablesLinked
<1>10. \A q \in Ids : products'[q].content = products[q].content
  BY <1>1, <1>2, <1>3
<1>11. \A q \in Ids : ExpectedCode(q)' = ExpectedCode(q)
  BY <1>10 DEF ExpectedCode
<1> QED
  BY <1>2, <1>3, <1>4, <1>8, <1>9, <1>10, <1>11

\* What holds once all products are tracked.
LEMMA AllTracked ==
    ASSUME ImportInvariant, pc \in AfterSync
    PROVE  /\ TablesTyped /\ TablesLinked
           /\ \A r \in Extracted : /\ RowDone(r, workbook, manifest, products, items, orders)
                                   /\ Synced(r, workbook, manifest, items, orders)
BY DEF ImportInvariant, InSync, AfterRows

\* What has to be shown there.
LEMMA StillTracked ==
    ASSUME TablesTyped', TablesLinked', pc' \in AfterSync, Extracted' = Extracted,
           \A r \in Extracted : /\ RowDone(r, workbook', manifest', products', items', orders')
                                /\ Synced(r, workbook', manifest', items', orders'),
           InCodes', InNumbers'
    PROVE  ImportInvariant'
<1>1. InRows'
  BY DEF InRows, RowSteps, AfterSync, AfterCodes, NumberSteps
<1>2. InSync'
  BY DEF InSync, SyncSteps, AfterSync, AfterCodes, NumberSteps
<1> QED
  BY <1>1, <1>2 DEF ImportInvariant

LEMMA PlanCodesKeeps ==
    ASSUME ImportInvariant, PlanCodes
    PROVE  ImportInvariant'
<1> DEFINE wrong == {p \in Imported : products[p].code # ExpectedCode(p)}
<1>1. pc = "plan_codes" /\ pc \in AfterSync /\ UNCHANGED <<workbook, Tables>>
  BY DEF PlanCodes, Outside, AfterSync
<1>2. TablesTyped' /\ TablesLinked'
  BY <1>1, AllTracked, TablesStay
<1>3. CASE pc' = "error"
  BY <1>2, <1>3, NotRunning
<1>4. CASE pc' # "error"
  <2>1. pc' = "code_tmp" /\ plan' = wrong /\ todo' = wrong
    BY <1>4 DEF PlanCodes
  <2>2. /\ Extracted' = Extracted
        /\ \A r \in Extracted : /\ RowDone(r, workbook', manifest', products', items', orders')
                                /\ Synced(r, workbook', manifest', items', orders')
    BY <1>1, AllTracked DEF Tables, Extracted
  <2>3. Imported' = Imported /\ \A p : ExpectedCode(p)' = ExpectedCode(p)
    BY <1>1 DEF Imported, ExpectedCode, Tables
  <2>4. InCodes' /\ InNumbers' /\ pc' \in AfterSync
    BY <1>1, <2>1, <2>3 DEF InCodes, InNumbers, AfterCodes, NumberSteps, AfterSync, Tables
  <2> QED
    BY <1>2, <2>2, <2>4, StillTracked
<1> QED
  BY <1>3, <1>4

LEMMA TemporaryCodesKeeps ==
    ASSUME ImportInvariant, TemporaryCodes
    PROVE  ImportInvariant'
<1>1. /\ pc = "code_tmp" /\ pc \in AfterSync
      /\ UNCHANGED <<workbook, manifest, images, orders, items, plan>>
  BY DEF TemporaryCodes, Outside, AfterSync
<1>2. /\ TablesTyped /\ TablesLinked
      /\ \A r \in Extracted : /\ RowDone(r, workbook, manifest, products, items, orders)
                              /\ Synced(r, workbook, manifest, items, orders)
  BY <1>1, AllTracked
<1>3. /\ plan \subseteq Imported /\ todo \subseteq plan
      /\ \A p \in Imported \ plan : products[p].code = ExpectedCode(p)
  BY <1>1 DEF ImportInvariant, InCodes
<1>4. CASE todo = {}
  <2>1. pc' = "code_final" /\ todo' = plan /\ UNCHANGED <<workbook, Tables>>
    BY <1>1, <1>4 DEF TemporaryCodes, Tables
  <2>2. TablesTyped' /\ TablesLinked'
    BY <1>2, <2>1, TablesStay
  <2>3. /\ Extracted' = Extracted
        /\ \A r \in Extracted : /\ RowDone(r, workbook', manifest', products', items', orders')
                                /\ Synced(r, workbook', manifest', items', orders')
    BY <1>2, <2>1 DEF Tables, Extracted
  <2>4. Imported' = Imported /\ \A p : ExpectedCode(p)' = ExpectedCode(p)
    BY <2>1 DEF Imported, ExpectedCode, Tables
  <2>5. InCodes' /\ InNumbers' /\ pc' \in AfterSync
    BY <1>3, <2>1, <2>4 DEF InCodes, InNumbers, AfterCodes, NumberSteps, AfterSync, Tables
  <2> QED
    BY <2>2, <2>3, <2>5, StillTracked
<1>5. CASE todo # {}
  <2>1. PICK p, code : p = Min(todo) /\ code = TemporaryCode(p)
    OBVIOUS
  <2>2. todo \subseteq Nat /\ todo \subseteq Ids
    BY <1>2, <1>3, ImportedAreProducts
  <2>3. p \in todo /\ p \in plan /\ p \in Imported /\ p \in Ids
    BY <1>3, <1>5, <2>1, <2>2, MinIsLeast
  <2>4. code \in Codes /\ code # <<"none", 0>>
    BY <2>1, <2>3 DEF TemporaryCode, Codes
  <2>5. /\ products' = [products EXCEPT ![p].code = code] /\ todo' = todo \ {p} /\ pc' = pc
    BY <1>5, <2>1 DEF TemporaryCodes
  <2>6. /\ TablesTyped' /\ TablesLinked' /\ Imported' = Imported
        /\ \A q \in Ids : products'[q].content = products[q].content /\ ExpectedCode(q)' = ExpectedCode(q)
        /\ \A q \in Ids \ {p} : products'[q] = products[q]
    BY <1>1, <1>2, <2>3, <2>4, <2>5, ProductRecoded
  <2>7. /\ Extracted' = Extracted
        /\ \A r \in Extracted : /\ RowDone(r, workbook', manifest', products', items', orders')
                                /\ Synced(r, workbook', manifest', items', orders')
    BY <1>1, <1>2, <2>6, RowsStayDone
  <2>8. \A q \in Imported' \ plan' : products'[q].code = ExpectedCode(q)'
    <3>1. \A q \in Imported \ plan : q \in Ids \ {p}
      BY <1>2, <2>3, ImportedAreProducts
    <3> QED
      BY <1>1, <1>3, <2>6, <3>1
  <2>9. InCodes' /\ InNumbers' /\ pc' \in AfterSync
    BY <1>1, <1>3, <2>5, <2>6, <2>8 DEF InCodes, InNumbers, AfterCodes, NumberSteps, AfterSync
  <2> QED
    BY <2>6, <2>7, <2>9, StillTracked
<1> QED
  BY <1>4, <1>5

LEMMA FinalCodesKeeps ==
    ASSUME ImportInvariant, FinalCodes
    PROVE  ImportInvariant'
<1>1. /\ pc = "code_final" /\ pc \in AfterSync
      /\ UNCHANGED <<workbook, manifest, images, orders, items, plan>>
  BY DEF FinalCodes, Outside, AfterSync
<1>2. /\ TablesTyped /\ TablesLinked
      /\ \A r \in Extracted : /\ RowDone(r, workbook, manifest, products, items, orders)
                              /\ Synced(r, workbook, manifest, items, orders)
  BY <1>1, AllTracked
<1>3. /\ todo \subseteq Imported
      /\ \A p \in Imported \ todo : products[p].code = ExpectedCode(p)
  BY <1>1 DEF ImportInvariant, InCodes
<1>4. CASE todo = {}
  <2>1. pc' = "plan_numbers" /\ todo' = todo /\ UNCHANGED <<workbook, Tables>>
    BY <1>1, <1>4 DEF FinalCodes, Tables
  <2>2. TablesTyped' /\ TablesLinked'
    BY <1>2, <2>1, TablesStay
  <2>3. /\ Extracted' = Extracted
        /\ \A r \in Extracted : /\ RowDone(r, workbook', manifest', products', items', orders')
                                /\ Synced(r, workbook', manifest', items', orders')
    BY <1>2, <2>1 DEF Tables, Extracted
  <2>4. Imported' = Imported /\ \A p : ExpectedCode(p)' = ExpectedCode(p)
    BY <2>1 DEF Imported, ExpectedCode, Tables
  <2>5. InCodes' /\ InNumbers' /\ pc' \in AfterSync
    BY <1>3, <1>4, <2>1, <2>4 DEF InCodes, InNumbers, AfterCodes, NumberSteps, AfterSync, Tables
  <2> QED
    BY <2>2, <2>3, <2>5, StillTracked
<1>5. CASE todo # {} /\ CodeTaken(ExpectedCode(Min(todo)))
  <2>1. pc' = "error" /\ UNCHANGED <<workbook, Tables>>
    BY <1>1, <1>5 DEF FinalCodes, Tables
  <2>2. TablesTyped' /\ TablesLinked'
    BY <1>2, <2>1, TablesStay
  <2> QED
    BY <2>1, <2>2, NotRunning
<1>6. CASE todo # {} /\ ~CodeTaken(ExpectedCode(Min(todo)))
  <2>1. PICK p, code : p = Min(todo) /\ code = ExpectedCode(p)
    OBVIOUS
  <2>2. todo \subseteq Nat /\ todo \subseteq Ids
    BY <1>2, <1>3, ImportedAreProducts
  <2>3. p \in todo /\ p \in Imported /\ p \in Ids
    BY <1>3, <1>6, <2>1, <2>2, MinIsLeast
  <2>4. products[p].content \in Contents \cup {Skipped}
    BY <1>2, <2>3 DEF TablesTyped, Product
  <2>5. code \in Codes /\ code # <<"none", 0>>
    BY <2>1, <2>4 DEF ExpectedCode, RebuiltCode, Codes
  <2>6. /\ products' = [products EXCEPT ![p].code = code] /\ todo' = todo \ {p} /\ pc' = pc
    BY <1>6, <2>1 DEF FinalCodes
  <2>7. /\ TablesTyped' /\ TablesLinked' /\ Imported' = Imported /\ products'[p].code = code
        /\ \A q \in Ids : products'[q].content = products[q].content /\ ExpectedCode(q)' = ExpectedCode(q)
        /\ \A q \in Ids \ {p} : products'[q] = products[q]
    BY <1>1, <1>2, <2>3, <2>5, <2>6, ProductRecoded
  <2>8. /\ Extracted' = Extracted
        /\ \A r \in Extracted : /\ RowDone(r, workbook', manifest', products', items', orders')
                                /\ Synced(r, workbook', manifest', items', orders')
    BY <1>1, <1>2, <2>7, RowsStayDone
  <2>9. \A q \in Imported' \ todo' : products'[q].code = ExpectedCode(q)'
    <3>1. Imported \subseteq Ids
      BY <1>2, ImportedAreProducts
    <3> QED
      BY <1>3, <2>1, <2>6, <2>7, <3>1
  <2>10. InCodes' /\ InNumbers' /\ pc' \in AfterSync
    BY <1>1, <1>3, <2>6, <2>7, <2>9 DEF InCodes, InNumbers, AfterCodes, NumberSteps, AfterSync
  <2> QED
    BY <2>7, <2>8, <2>10, StillTracked
<1> QED
  BY <1>4, <1>5, <1>6

LEMMA PlanNumbersKeeps ==
    ASSUME ImportInvariant, PlanNumbers
    PROVE  ImportInvariant'
<1> DEFINE lines == {o \in orders : o.line}
<1>1. pc = "plan_numbers" /\ pc \in AfterSync /\ pc \in AfterCodes /\ UNCHANGED <<workbook, Tables>>
  BY DEF PlanNumbers, Outside, AfterSync, AfterCodes
<1>2. TablesTyped /\ TablesLinked /\ TablesTyped' /\ TablesLinked'
  BY <1>1, AllTracked, TablesStay
<1>3. CASE pc' = "error"
  BY <1>2, <1>3, NotRunning
<1>4. CASE pc' # "error"
  <2>1. /\ pc' = "number_tmp" /\ plan' = {o.product : o \in lines} /\ todo' = plan'
        /\ \A o, other \in lines : o.product = other.product => o = other
    BY <1>4 DEF PlanNumbers
  <2>2. /\ Extracted' = Extracted
        /\ \A r \in Extracted : /\ RowDone(r, workbook', manifest', products', items', orders')
                                /\ Synced(r, workbook', manifest', items', orders')
    BY <1>1, AllTracked DEF Tables, Extracted
  <2>3. Imported' = Imported /\ (\A p : ExpectedCode(p)' = ExpectedCode(p)) /\ products' = products
        /\ orders' = orders
    BY <1>1 DEF Imported, ExpectedCode, Tables
  <2>4. \A p \in Imported : products[p].code = ExpectedCode(p)
    BY <1>1 DEF ImportInvariant, InCodes
  <2>5. InCodes' /\ pc' \in AfterSync
    BY <2>1, <2>3, <2>4 DEF InCodes, AfterCodes, NumberSteps, AfterSync
  <2>6. \A o \in orders : o.product \in Ids
    BY <1>2 DEF TablesTyped, Order
  <2>7. plan' \subseteq Ids /\ \A o \in orders' : o.line => o.product \in plan'
    BY <2>1, <2>3, <2>6
  <2>8. OneLine(orders')
    BY <2>1, <2>3 DEF OneLine
  <2>9. InNumbers'
    BY <2>1, <2>7, <2>8 DEF InNumbers, NumberSteps
  <2> QED
    BY <1>2, <2>2, <2>5, <2>9, StillTracked
<1> QED
  BY <1>3, <1>4

\* The order of a product gets another number: there is still one line per product.
LEMMA OrderRenumbered ==
    ASSUME TablesTyped, TablesLinked, OneLine(orders), NEW p, NEW number \in OrderNumbers,
           orders' = Renumbered(p, number), UNCHANGED <<workbook, products, manifest, items, images>>,
           \A r \in Extracted : /\ RowDone(r, workbook, manifest, products, items, orders)
                                /\ Synced(r, workbook, manifest, items, orders)
    PROVE  /\ TablesTyped' /\ TablesLinked' /\ OneLine(orders')
           /\ Extracted' = Extracted
           /\ \A r \in Extracted : /\ RowDone(r, workbook', manifest', products', items', orders')
                                   /\ Synced(r, workbook', manifest', items', orders')
           /\ \A n \in orders' : \E o \in orders :
                 /\ n.product = o.product /\ n.line = o.line
                 /\ IF o.product = p /\ o.line THEN n.number = number ELSE n = o
<1>1. PICK new : new = orders'
  OBVIOUS
<1>2. /\ new \subseteq Order
      /\ \A n \in new : \E o \in orders :
            /\ n.product = o.product /\ n.line = o.line /\ n.quantity = o.quantity
            /\ IF o.product = p /\ o.line THEN n.number = number ELSE n = o
            /\ n = WithNumber(o, p, number)
      /\ \A o \in orders : \E n \in new :
            /\ n.product = o.product /\ n.line = o.line /\ n.quantity = o.quantity
            /\ IF o.product = p /\ o.line THEN n.number = number ELSE n = o
  BY <1>1, LinesRenumbered DEF TablesTyped
<1>3. /\ orders' \subseteq Order
      /\ \A n \in orders' : \E o \in orders : n.product = o.product
      /\ \A o \in orders : \E n \in orders' : n.product = o.product /\ (o.line => n.line)
  BY <1>1, <1>2
<1>4. TablesTyped' /\ TablesLinked'
  BY <1>3, OrdersMapped
<1>5. /\ \A n \in orders' : \E o \in orders :
            n.product = o.product /\ n.line = o.line /\ n.quantity = o.quantity
      /\ \A o \in orders : \E n \in orders' : n.product = o.product /\ n.line = o.line
  BY <1>1, <1>2
<1>6. /\ Extracted' = Extracted
      /\ \A r \in Extracted : /\ RowDone(r, workbook', manifest', products', items', orders')
                              /\ Synced(r, workbook', manifest', items', orders')
  BY <1>5, RowsStayDone
<1>7. OneLine(orders')
  <2>1. \A n \in new : \E o \in orders :
            n.product = o.product /\ (n.line => o.line) /\ n = WithNumber(o, p, number)
    BY <1>2
  <2> SUFFICES ASSUME NEW m \in new, NEW n \in new, m.line, n.line, m.product = n.product
               PROVE  m = n
    BY <1>1 DEF OneLine
  <2>2. PICK o \in orders : m.product = o.product /\ o.line /\ m = WithNumber(o, p, number)
    BY <2>1
  <2>3. PICK other \in orders : n.product = other.product /\ other.line /\ n = WithNumber(other, p, number)
    BY <2>1
  <2>4. o = other
    BY <2>2, <2>3 DEF OneLine
  <2> QED
    BY <2>2, <2>3, <2>4
<1>8. \A n \in orders' : \E o \in orders :
          /\ n.product = o.product /\ n.line = o.line
          /\ IF o.product = p /\ o.line THEN n.number = number ELSE n = o
  BY <1>1, <1>2
<1> QED
  BY <1>4, <1>6, <1>7, <1>8

LEMMA TemporaryNumbersKeeps ==
    ASSUME ImportInvariant, TemporaryNumbers
    PROVE  ImportInvariant'
<1>1. /\ pc = "number_tmp" /\ pc \in AfterSync /\ pc \in AfterCodes /\ pc \in NumberSteps
      /\ UNCHANGED <<workbook, products, manifest, images, items, plan>>
  BY DEF TemporaryNumbers, Outside, AfterSync, AfterCodes, NumberSteps
<1>2. /\ TablesTyped /\ TablesLinked
      /\ \A r \in Extracted : /\ RowDone(r, workbook, manifest, products, items, orders)
                              /\ Synced(r, workbook, manifest, items, orders)
  BY <1>1, AllTracked
<1>3. /\ OneLine(orders) /\ plan \subseteq Ids /\ todo \subseteq plan
      /\ \A o \in orders : o.line => o.product \in plan
  BY <1>1 DEF ImportInvariant, InNumbers
<1>4. /\ \A p \in Imported : products[p].code = ExpectedCode(p)
      /\ Imported' = Imported /\ \A p : ExpectedCode(p)' = ExpectedCode(p)
  BY <1>1 DEF ImportInvariant, InCodes, Imported, ExpectedCode
<1>5. CASE todo = {}
  <2>1. pc' = "number_final" /\ todo' = plan /\ UNCHANGED orders
    BY <1>5 DEF TemporaryNumbers
  <2>2. TablesTyped' /\ TablesLinked'
    BY <1>1, <1>2, <2>1, TablesStay DEF Tables
  <2>3. /\ Extracted' = Extracted
        /\ \A r \in Extracted : /\ RowDone(r, workbook', manifest', products', items', orders')
                                /\ Synced(r, workbook', manifest', items', orders')
    BY <1>1, <1>2, <2>1 DEF Extracted
  <2>4. InCodes' /\ pc' \in AfterSync
    BY <1>1, <1>4, <2>1 DEF InCodes, AfterCodes, NumberSteps, AfterSync
  <2>5. InNumbers'
    BY <1>3, <2>1 DEF InNumbers, NumberSteps
  <2> QED
    BY <2>2, <2>3, <2>4, <2>5, StillTracked
<1>6. CASE todo # {}
  <2>1. PICK p, number : p = Min(todo) /\ number = TemporaryCode(p)
    OBVIOUS
  <2>2. todo \subseteq Nat /\ todo \subseteq Ids
    BY <1>3, IdsAreNumbers
  <2>3. p \in todo /\ p \in Ids
    BY <1>6, <2>1, <2>2, MinIsLeast
  <2>4. number \in OrderNumbers
    BY <2>1, <2>3 DEF OrderNumbers, Codes
  <2>5. orders' = Renumbered(p, number) /\ todo' = todo \ {p} /\ pc' = pc
    BY <1>6, <2>1 DEF TemporaryNumbers
  <2>6. /\ TablesTyped' /\ TablesLinked' /\ OneLine(orders')
        /\ Extracted' = Extracted
        /\ \A r \in Extracted : /\ RowDone(r, workbook', manifest', products', items', orders')
                                /\ Synced(r, workbook', manifest', items', orders')
        /\ \A n \in orders' : \E o \in orders :
              /\ n.product = o.product /\ n.line = o.line
              /\ IF o.product = p /\ o.line THEN n.number = number ELSE n = o
    BY <1>1, <1>2, <1>3, <2>4, <2>5, OrderRenumbered
  <2>7. \A n \in orders' : n.line => n.product \in plan
    BY <1>3, <2>6
  <2>8. InCodes' /\ pc' \in AfterSync
    BY <1>1, <1>4, <2>5 DEF InCodes, AfterCodes, NumberSteps, AfterSync
  <2>9. InNumbers'
    BY <1>1, <1>3, <2>5, <2>6, <2>7 DEF InNumbers, NumberSteps
  <2> QED
    BY <2>6, <2>8, <2>9, StillTracked
<1> QED
  BY <1>5, <1>6

LEMMA FinalNumbersKeeps ==
    ASSUME ImportInvariant, FinalNumbers
    PROVE  ImportInvariant'
<1>1. /\ pc = "number_final" /\ pc \in AfterSync /\ pc \in AfterCodes /\ pc \in NumberSteps
      /\ UNCHANGED <<workbook, products, manifest, images, items>>
  BY DEF FinalNumbers, Outside, AfterSync, AfterCodes, NumberSteps
<1>2. /\ TablesTyped /\ TablesLinked
      /\ \A r \in Extracted : /\ RowDone(r, workbook, manifest, products, items, orders)
                              /\ Synced(r, workbook, manifest, items, orders)
  BY <1>1, AllTracked
<1>3. /\ OneLine(orders) /\ todo \subseteq Ids
      /\ \A o \in orders : o.line => o.product \in todo \/ o.number = products[o.product].code
  BY <1>1 DEF ImportInvariant, InNumbers
<1>4. /\ \A p \in Imported : products[p].code = ExpectedCode(p)
      /\ Imported' = Imported /\ \A p : ExpectedCode(p)' = ExpectedCode(p)
  BY <1>1 DEF ImportInvariant, InCodes, Imported, ExpectedCode
<1>5. CASE todo = {}
  <2>1. pc' = "done" /\ UNCHANGED orders
    BY <1>5 DEF FinalNumbers
  <2>2. TablesTyped' /\ TablesLinked'
    BY <1>1, <1>2, <2>1, TablesStay DEF Tables
  <2>3. /\ Extracted' = Extracted
        /\ \A r \in Extracted : /\ RowDone(r, workbook', manifest', products', items', orders')
                                /\ Synced(r, workbook', manifest', items', orders')
    BY <1>1, <1>2, <2>1 DEF Extracted
  <2>4. InCodes' /\ pc' \in AfterSync
    BY <1>1, <1>4, <2>1 DEF InCodes, AfterCodes, NumberSteps, AfterSync
  <2>5. \A o \in orders' : o.line => o.number = products'[o.product].code
    BY <1>1, <1>3, <1>5, <2>1
  <2>6. InNumbers'
    BY <1>3, <2>1, <2>5 DEF InNumbers, NumberSteps
  <2> QED
    BY <2>2, <2>3, <2>4, <2>6, StillTracked
<1>6. CASE todo # {} /\ NumberTaken(products[Min(todo)].code)
  <2>1. pc' = "error" /\ UNCHANGED orders
    BY <1>6 DEF FinalNumbers
  <2>2. TablesTyped' /\ TablesLinked'
    BY <1>1, <1>2, <2>1, TablesStay DEF Tables
  <2> QED
    BY <2>1, <2>2, NotRunning
<1>7. CASE todo # {} /\ ~NumberTaken(products[Min(todo)].code)
  <2>1. PICK p, number : p = Min(todo) /\ number = products[p].code
    OBVIOUS
  <2>2. todo \subseteq Nat
    BY <1>3, IdsAreNumbers
  <2>3. p \in todo /\ p \in Ids
    BY <1>3, <1>7, <2>1, <2>2, MinIsLeast
  <2>4. number \in OrderNumbers
    BY <1>2, <2>1, <2>3 DEF OrderNumbers, TablesTyped, Product
  <2>5. orders' = Renumbered(p, number) /\ todo' = todo \ {p} /\ pc' = pc
    BY <1>7, <2>1 DEF FinalNumbers
  <2>6. /\ TablesTyped' /\ TablesLinked' /\ OneLine(orders')
        /\ Extracted' = Extracted
        /\ \A r \in Extracted : /\ RowDone(r, workbook', manifest', products', items', orders')
                                /\ Synced(r, workbook', manifest', items', orders')
        /\ \A n \in orders' : \E o \in orders :
              /\ n.product = o.product /\ n.line = o.line
              /\ IF o.product = p /\ o.line THEN n.number = number ELSE n = o
    BY <1>1, <1>2, <1>3, <2>4, <2>5, OrderRenumbered
  <2>7. \A n \in orders' : n.line => n.product \in todo' \/ n.number = products'[n.product].code
    <3> SUFFICES ASSUME NEW n \in orders', n.line
                 PROVE  n.product \in todo' \/ n.number = products'[n.product].code
      OBVIOUS
    <3>1. PICK o \in orders : /\ n.product = o.product /\ n.line = o.line
                              /\ IF o.product = p /\ o.line THEN n.number = number ELSE n = o
      BY <2>6
    <3>2. CASE o.product = p
      BY <1>1, <2>1, <3>1, <3>2
    <3>3. CASE o.product # p
      BY <1>1, <1>3, <2>5, <3>1, <3>3
    <3> QED
      BY <3>2, <3>3
  <2>8. InCodes' /\ pc' \in AfterSync
    BY <1>1, <1>4, <2>5 DEF InCodes, AfterCodes, NumberSteps, AfterSync
  <2>9. InNumbers'
    BY <1>1, <1>3, <2>5, <2>6, <2>7 DEF InNumbers, NumberSteps
  <2> QED
    BY <2>6, <2>8, <2>9, StillTracked
<1> QED
  BY <1>5, <1>6, <1>7

-----------------------------------------------------------------------------
(* The theorem *)

LEMMA CountedStays ==
    ASSUME Counted, [NextImport]_importVars
    PROVE  Counted'
<1> USE DEF Counted
<1>1. CASE StartImport
  BY <1>1 DEF StartImport, Outside
<1>2. CASE ImportStep
  <2>1. UNCHANGED Outside
    BY <1>2 DEF ImportStep, UpdateProduct, UpdateItem, UpdateLine, CreateProduct, RecordRow, SkipImage,
       RefuseImage, UploadImage, RecordImage, PlanSync, SyncDone, InsertOrder, InsertLine, InsertItem, PlanCodes,
       TemporaryCodes, FinalCodes, PlanNumbers, TemporaryNumbers, FinalNumbers
  <2> QED
    BY <2>1 DEF Outside
<1>3. CASE Stop
  BY <1>3 DEF Stop
<1>4. CASE CorrectWorkbook
  BY <1>4 DEF CorrectWorkbook
<1>5. ASSUME NEW p \in Ids, UserOrder(p)
      PROVE  Counted'
  BY <1>5 DEF UserOrder
<1>6. ASSUME NEW r \in Rows, FactoryImport(r)
      PROVE  Counted'
  BY <1>6 DEF FactoryImport
<1>7. CASE UNCHANGED importVars
  BY <1>7 DEF importVars
<1> QED
  BY <1>1, <1>2, <1>3, <1>4, <1>5, <1>6, <1>7 DEF NextImport

LEMMA ImportStutters ==
    ASSUME ImportInvariant, UNCHANGED importVars
    PROVE  ImportInvariant'
<1>1. /\ UNCHANGED <<workbook, Tables>> /\ UNCHANGED <<pc, row, todo, plan>>
      /\ UNCHANGED <<workbook, products, manifest, images, orders, items>>
  BY DEF importVars, Tables
<1>2. /\ Extracted' = Extracted /\ Created' = Created /\ Imported' = Imported
      /\ \A p : ExpectedCode(p)' = ExpectedCode(p)
  BY <1>1 DEF Extracted, Created, Imported, ExpectedCode
<1>3. TablesTyped' /\ TablesLinked'
  BY <1>1, TablesStay DEF ImportInvariant
<1>4. InRows'
  BY <1>1, <1>2 DEF ImportInvariant, InRows
<1>5. InSync'
  BY <1>1, <1>2 DEF ImportInvariant, InSync
<1>6. InCodes'
  BY <1>1, <1>2 DEF ImportInvariant, InCodes
<1>7. InNumbers'
  BY <1>1, <1>2 DEF ImportInvariant, InNumbers
<1> QED
  BY <1>3, <1>4, <1>5, <1>6, <1>7 DEF ImportInvariant

LEMMA ImportNext ==
    ASSUME ImportInvariant, Counted, [NextImport]_importVars
    PROVE  ImportInvariant'
<1>1. CASE ImportStep
  BY <1>1, UpdateProductKeeps, UpdateItemKeeps, UpdateLineKeeps, CreateProductKeeps, RecordRowKeeps,
     SkipImageKeeps, RefuseImageKeeps, UploadImageKeeps, RecordImageKeeps, PlanSyncKeeps, SyncDoneKeeps, InsertOrderKeeps,
     InsertLineKeeps, InsertItemKeeps, PlanCodesKeeps, TemporaryCodesKeeps, FinalCodesKeeps,
     PlanNumbersKeeps, TemporaryNumbersKeeps, FinalNumbersKeeps DEF ImportStep
<1> QED
  BY <1>1, StartImportKeeps, StopKeeps, CorrectWorkbookKeeps, UserOrderKeeps, FactoryImportKeeps,
     ImportStutters DEF NextImport

\* The invariant of the loops says what a completed import promises.
LEMMA InvariantMeansConsistent ==
    ASSUME ImportInvariant
    PROVE  CompletedImportIsConsistent
<1> SUFFICES ASSUME pc = "done", NEW r \in Extracted
             PROVE  LET p == manifest[r].product
                    IN  /\ p # 0
                        /\ products[p].content = workbook[r]
                        /\ products[p].code = RebuiltCode(workbook[r])
                        /\ workbook[r].image \in {NoImage, manifest[r].image}
                        /\ items[p] = workbook[r].quantity
                        /\ \A o \in LinesOf(p) : o.number = products[p].code /\ o.quantity = items[p]
                        /\ Cardinality(LinesOf(p)) = 1
  BY DEF CompletedImportIsConsistent
<1>1. PICK p : p = manifest[r].product
  OBVIOUS
<1>2. pc \in AfterSync /\ pc \in AfterCodes /\ pc \in NumberSteps /\ r \in Rows
  BY DEF AfterSync, AfterCodes, NumberSteps, Extracted
<1>3. /\ RowDone(r, workbook, manifest, products, items, orders)
      /\ Synced(r, workbook, manifest, items, orders)
  BY <1>2, AllTracked
<1>4. /\ p # 0 /\ products[p].content = workbook[r] /\ items[p] = workbook[r].quantity
      /\ workbook[r].image \in {NoImage, manifest[r].image}
      /\ \A o \in LinesOf(p) : o.quantity = items[p]
      /\ LinesOf(p) # {}
  BY <1>1, <1>3 DEF RowDone, Carried, Synced, LinesOf
<1>5. p \in Imported
  BY <1>1, <1>2, <1>4 DEF Imported
<1>6. products[p].code = RebuiltCode(workbook[r])
  BY <1>2, <1>4, <1>5 DEF ImportInvariant, InCodes, ExpectedCode
<1>7. \A o \in LinesOf(p) : o.number = products[p].code
  BY DEF ImportInvariant, InNumbers, LinesOf
<1>8. Cardinality(LinesOf(p)) = 1
  <2>1. \A o, other \in LinesOf(p) : o = other
    BY <1>2 DEF ImportInvariant, InNumbers, OneLine, LinesOf
  <2>2. \E o : LinesOf(p) = {o}
    BY <1>4, <2>1
  <2> QED
    BY <2>2, FS_Singleton
<1> QED
  BY <1>1, <1>4, <1>6, <1>7, <1>8

\* For any rows, workbooks and bounds: a run of import_monthly_lists that ends normally leaves
\* every row of the workbook with one recorded product that carries its values and its rebuilt
\* code, one item of that quantity and one order of the same number and quantity, however often
\* the import was stopped, whatever was corrected, and whatever users and factory sheets added.
THEOREM CompletedImports == SpecImport => []CompletedImportIsConsistent
<1>1. InitImport => ImportInvariant /\ Counted
  BY ImportInit DEF InitImport, Counted
<1>2. ImportInvariant /\ Counted /\ [NextImport]_importVars => ImportInvariant' /\ Counted'
  BY ImportNext, CountedStays
<1>3. ImportInvariant => CompletedImportIsConsistent
  BY InvariantMeansConsistent
<1> QED
  BY <1>1, <1>2, <1>3, PTL DEF SpecImport

-----------------------------------------------------------------------------
(* An import that was never stopped: the inductive invariant *)

\* The contents that the row of an imported product may have, and the codes that belong to a
\* product: made with it, temporary, or rebuilt from its row.
VersionsOf(p) == {w[r] : w \in Workbooks, r \in {s \in Rows : manifest[s].product = p}} \ {Skipped}
OwnCodes(p) == {FirstCode(p), TemporaryCode(p)} \cup {RebuiltCode(content) : content \in VersionsOf(p)}
ForeignNumbers == {<<"user", n>> : n \in Nat} \cup {<<"sheet", r>> : r \in Rows}

\* A product that was created for a row is the one the manifest has for it, or will have next.
RowsOwned ==
    \A p \in Created : products[p].row \in Rows =>
        \/ manifest[products[p].row].product = p
        \/ pc = "record" /\ products[p].row = row /\ todo = {p}

\* A product has at most one picture per content of the workbook, and the current one is
\* uploaded only where the manifest shows another.
ImagesOwned ==
    /\ \A p \in Ids : images[p] <= 1 + edits
    /\ \A p \in Ids : images[p] # 0 => \E r \in Rows : manifest[r].product = p
    /\ \A r \in Rows : manifest[r].product # 0 =>
          \/ images[manifest[r].product] <= edits
          \/ workbook[r].image \in {NoImage, manifest[r].image}
          \/ pc = "record_image" /\ row = r

\* A product has the content of a row, an imported one that of its own row.
ContentsOwned ==
    \A p \in Created :
        /\ products[p].content \in Contents \ {Skipped}
        /\ p \in Imported => products[p].content \in VersionsOf(p)

\* Codes and order numbers belong to their product, and a temporary code is found only while
\* the codes are rebuilt.
CodesOwned ==
    /\ \A p \in Created : products[p].code \in OwnCodes(p)
    /\ \A p \in Created : products[p].code = TemporaryCode(p) =>
          \/ pc = "code_tmp" /\ p \in plan \ todo
          \/ pc = "code_final" /\ p \in todo
    /\ pc = "code_tmp" => \A p \in plan \ todo : products[p].code = TemporaryCode(p)
    /\ pc = "code_final" => \A p \in todo : products[p].code = TemporaryCode(p)

NumbersOwned ==
    /\ \A o \in orders : o.number \in OwnCodes(o.product) \cup ForeignNumbers
    /\ pc = "number_tmp" =>
          /\ plan \subseteq Created
          /\ \A o \in orders : o.product \in plan \ todo => o.number = TemporaryCode(o.product)
    /\ pc = "number_final" =>
          /\ todo \subseteq Created
          /\ \A o \in orders : o.product \in todo => o.number = TemporaryCode(o.product)

\* The steps of the loops over the rows and over the products without an item ...
InLoops == RowSteps \cup {"plan_sync"} \cup SyncSteps

\* ... and the ones at which a product may lack its item: a refused picture ends the import
\* before the second loop.
Untracked == InLoops \cup {"idle", "error"}

\* A product without an item has no order but the one being made, and only that may lack
\* its line.
ProductsTracked ==
    /\ \A p \in Created : items[p] = 0 =>
          /\ pc \in Untracked
          /\ products[p].code = FirstCode(p)
          /\ pc \in SyncSteps => p \in todo
          /\ \A o \in orders : o.product = p => pc \in {"line", "item"} /\ p = Min(todo)
    /\ pc \in SyncSteps => \A p \in todo : items[p] = 0
    /\ \A o \in orders : o.line \/ (pc = "line" /\ o.product = Min(todo))
    /\ pc = "line" => \A o \in orders : o.product = Min(todo) => o.number = products[Min(todo)].code

ErrorsExplained ==
    pc = "error" => \/ \E o, other \in orders : o # other /\ o.product = other.product
                    \/ \E r \in Extracted : workbook[r].image \notin Pngs \cup {NoImage}

Unstopped ==
    /\ RowsOwned /\ ImagesOwned /\ ContentsOwned /\ CodesOwned /\ NumbersOwned
    /\ ProductsTracked /\ ErrorsExplained

-----------------------------------------------------------------------------
(* What most statements leave alone *)

SameLinks ==
    /\ Created' = Created
    /\ \A r \in Rows : manifest'[r].product = manifest[r].product
    /\ \A p \in Ids : products'[p].row = products[p].row

LEMMA LinksStay ==
    ASSUME SameLinks
    PROVE  Imported' = Imported /\ \A p : VersionsOf(p)' = VersionsOf(p) /\ OwnCodes(p)' = OwnCodes(p)
<1>1. \A r \in Rows : manifest'[r].product = manifest[r].product
  BY DEF SameLinks
<1>2. Imported' = Imported
  BY <1>1 DEF Imported
<1>3. ASSUME NEW p
      PROVE  VersionsOf(p)' = VersionsOf(p)
  <2>1. {s \in Rows : manifest'[s].product = p} = {s \in Rows : manifest[s].product = p}
    BY <1>1
  <2> QED
    BY <2>1 DEF VersionsOf
<1>4. ASSUME NEW p
      PROVE  OwnCodes(p)' = OwnCodes(p)
  BY <1>3 DEF OwnCodes
<1> QED
  BY <1>2, <1>3, <1>4

LEMMA CreatedAreIds == Created \subseteq Ids
BY DEF Created

LEMMA RowsStayOwned ==
    ASSUME RowsOwned, SameLinks, pc # "record"
    PROVE  RowsOwned'
<1>1. \A p \in Created : products'[p].row = products[p].row
  BY CreatedAreIds DEF SameLinks
<1> QED
  BY <1>1 DEF RowsOwned, SameLinks

LEMMA ContentsStayOwned ==
    ASSUME ContentsOwned, SameLinks, \A p \in Ids : products'[p].content = products[p].content
    PROVE  ContentsOwned'
BY CreatedAreIds, LinksStay DEF ContentsOwned, SameLinks

LEMMA CodesStayOwned ==
    ASSUME CodesOwned, SameLinks, \A p \in Ids : products'[p].code = products[p].code,
           pc \notin {"code_tmp", "code_final"}, pc' \notin {"code_tmp", "code_final"}
    PROVE  CodesOwned'
BY CreatedAreIds, LinksStay DEF CodesOwned, SameLinks

LEMMA NumbersStayOwned ==
    ASSUME NumbersOwned, SameLinks, pc' \notin {"number_tmp", "number_final"},
           \A n \in orders' : \E o \in orders : n.product = o.product /\ n.number = o.number
    PROVE  NumbersOwned'
BY LinksStay DEF NumbersOwned

LEMMA ImagesStayOwned ==
    ASSUME ImagesOwned, UNCHANGED <<manifest, images, workbook, edits>>, pc # "record_image"
    PROVE  ImagesOwned'
BY DEF ImagesOwned


LEMMA StillAllTracked ==
    ASSUME ProductsTracked, Created' = Created, \A p \in Created : items[p] # 0 => items'[p] # 0,
           pc \notin Untracked, pc' \notin InLoops,
           \A n \in orders' : \E o \in orders : o.line => n.line
    PROVE  ProductsTracked'
<1>1. \A o \in orders : o.line
  BY DEF ProductsTracked, Untracked, InLoops, SyncSteps
<1> QED
  BY <1>1 DEF ProductsTracked, Untracked, InLoops, SyncSteps

LEMMA RowStepTracked ==
    ASSUME ProductsTracked, Created' = Created, pc \notin SyncSteps,
           pc' \in RowSteps \cup {"plan_sync"},
           \A p \in Created : items'[p] = 0 => items[p] = 0,
           \A p \in Ids : products'[p].code = products[p].code,
           \A n \in orders' : \E o \in orders : n.product = o.product /\ (o.line => n.line)
    PROVE  ProductsTracked'
<1>1. /\ \A o \in orders : o.line
      /\ \A p \in Created : items[p] = 0 => products[p].code = FirstCode(p) /\ \A o \in orders : o.product # p
  BY DEF ProductsTracked, SyncSteps
<1>2. \A n \in orders' : n.line
  BY <1>1
<1>3. \A p \in Created : items'[p] = 0 =>
          products'[p].code = FirstCode(p) /\ \A n \in orders' : n.product # p
  BY <1>1, CreatedAreIds
<1>4. pc' \notin SyncSteps /\ pc' # "line"
  BY DEF SyncSteps, RowSteps
<1> QED
  BY <1>2, <1>3, <1>4 DEF ProductsTracked, Untracked, InLoops

\* A step of the loop over the rows, or to it.
LEMMA RowStepUnstopped ==
    ASSUME Unstopped, SameLinks, pc \in {"idle", "done", "error"} \cup (RowSteps \ {"record"}),
           pc' \in RowSteps \cup {"plan_sync"},
           \A p \in Created : items'[p] = 0 => items[p] = 0,
           \A p \in Ids : products'[p].code = products[p].code,
           \A n \in orders' : \E o \in orders :
              n.product = o.product /\ n.number = o.number /\ (o.line => n.line)
    PROVE  RowsOwned' /\ CodesOwned' /\ NumbersOwned' /\ ProductsTracked' /\ ErrorsExplained'
<1>1. /\ pc \notin SyncSteps /\ pc \notin {"code_tmp", "code_final"} /\ pc # "record"
      /\ pc' \notin {"code_tmp", "code_final", "number_tmp", "number_final"} /\ pc' # "error"
  BY DEF RowSteps, SyncSteps
<1>2. RowsOwned'
  BY <1>1, RowsStayOwned DEF Unstopped
<1>3. CodesOwned'
  BY <1>1, CodesStayOwned DEF Unstopped
<1>4. NumbersOwned'
  BY <1>1, NumbersStayOwned DEF Unstopped
<1>5. Created' = Created
  BY DEF SameLinks
<1>6. ProductsTracked'
  BY <1>1, <1>5, RowStepTracked DEF Unstopped
<1> QED
  BY <1>1, <1>2, <1>3, <1>4, <1>6 DEF ErrorsExplained

LEMMA LinksUntouched ==
    ASSUME UNCHANGED <<products, manifest>>
    PROVE  /\ SameLinks
           /\ \A p \in Ids : products'[p].code = products[p].code /\ products'[p].content = products[p].content
BY DEF SameLinks, Created

LEMMA RowsGoTo ==
    ASSUME NEW r, GoToRowAfter(r)
    PROVE  pc' \in {"row", "plan_sync"} /\ pc' \in RowSteps \cup {"plan_sync"}
BY DEF GoToRowAfter, RowSteps

LEMMA StartImportUnstopped ==
    ASSUME ImportInvariant, Unstopped, StartImport
    PROVE  Unstopped'
<1>1. pc \in {"idle", "done", "error"} /\ GoToRowAfter(0)
  BY DEF StartImport
<1>2. UNCHANGED <<products, manifest, images, orders, items, workbook, edits>>
  BY DEF StartImport, Tables, Outside
<1>3. SameLinks /\ \A p \in Ids : /\ products'[p].code = products[p].code
                                  /\ products'[p].content = products[p].content
  BY <1>2, LinksUntouched
<1>4. pc' \in RowSteps \cup {"plan_sync"}
  BY <1>1, RowsGoTo
<1>5. RowsOwned' /\ CodesOwned' /\ NumbersOwned' /\ ProductsTracked' /\ ErrorsExplained'
  BY <1>1, <1>2, <1>3, <1>4, RowStepUnstopped
<1>6. ContentsOwned'
  BY <1>3, ContentsStayOwned DEF Unstopped
<1>7. ImagesOwned'
  BY <1>1, <1>2, ImagesStayOwned DEF Unstopped
<1> QED
  BY <1>5, <1>6, <1>7 DEF Unstopped

LEMMA UpdateProductUnstopped ==
    ASSUME ImportInvariant, Unstopped, UpdateProduct
    PROVE  Unstopped'
<1>1. pc = "row" /\ pc' = "update_item"
      /\ UNCHANGED <<manifest, images, orders, items, row, workbook, edits>>
  BY DEF UpdateProduct, Outside
<1>2. /\ pc \in RowSteps /\ pc' \in RowSteps \cup {"plan_sync"}
      /\ pc \in {"idle", "done", "error"} \cup (RowSteps \ {"record"})
  BY <1>1 DEF RowSteps
<1>3. row \in Rows /\ workbook[row] # Skipped /\ workbook[row] \in Contents
  BY <1>2, RowAtHand
<1>4. TablesTyped /\ TablesLinked
  BY DEF ImportInvariant
<1>5. PICK p, content, new : p = manifest[row].product /\ content = workbook[row] /\ new = products'
  OBVIOUS
<1>6. p # 0 /\ p \in Ids /\ p \in Created
  BY <1>2, <1>3, <1>4, <1>5, RowAtHand DEF UpdateProduct, TablesLinked
<1>7. new = [products EXCEPT ![p].content = content] /\ products \in [Ids -> Product] /\ content \in Contents
  BY <1>3, <1>4, <1>5 DEF UpdateProduct, TablesTyped
<1>8. /\ new[p].content = content /\ new[p].code = products[p].code /\ new[p].row = products[p].row
      /\ \A q \in Ids \ {p} : new[q] = products[q]
  BY <1>6, <1>7, ContentChanged
<1>9. SameLinks
  <2>1. products'[p] # NoProduct
    BY <1>3, <1>5, <1>8 DEF NoProduct
  <2>2. Created' = Created
    BY <1>5, <1>6, <1>8, <2>1 DEF Created
  <2> QED
    BY <1>1, <1>5, <1>8, <2>2 DEF SameLinks
<1>10. RowsOwned' /\ CodesOwned' /\ NumbersOwned' /\ ProductsTracked' /\ ErrorsExplained'
  <2>1. \A q \in Ids : products'[q].code = products[q].code
    BY <1>5, <1>8
  <2> QED
    BY <1>1, <1>2, <1>9, <2>1, RowStepUnstopped
<1>11. ContentsOwned'
  <2>1. workbook[row] \in VersionsOf(p)
    BY <1>3, <1>4, <1>5 DEF VersionsOf, TablesTyped
  <2>2. \A q \in Created \ {p} : products'[q] = products[q]
    BY <1>5, <1>8, CreatedAreIds
  <2>3. products'[p].content = workbook[row]
    BY <1>5, <1>8
  <2>4. Created' = Created
    BY <1>9 DEF SameLinks
  <2> QED
    BY <1>3, <1>9, <2>1, <2>2, <2>3, <2>4, LinksStay DEF Unstopped, ContentsOwned
<1>12. ImagesOwned'
  BY <1>1, ImagesStayOwned DEF Unstopped
<1> QED
  BY <1>10, <1>11, <1>12 DEF Unstopped

LEMMA UpdateItemUnstopped ==
    ASSUME ImportInvariant, Unstopped, UpdateItem
    PROVE  Unstopped'
<1>1. pc = "update_item" /\ pc' = "update_line"
      /\ UNCHANGED <<products, manifest, images, orders, row, workbook, edits>>
  BY DEF UpdateItem, Outside
<1>2. /\ pc \in RowSteps /\ pc' \in RowSteps \cup {"plan_sync"}
      /\ pc \in {"idle", "done", "error"} \cup (RowSteps \ {"record"})
  BY <1>1 DEF RowSteps
<1>3. workbook[row].quantity # 0
  BY <1>2, RowAtHand, QuantityPositive DEF ImportInvariant, TablesTyped
<1>4. items \in [Ids -> Quantities]
  BY DEF ImportInvariant, TablesTyped
<1>5. \A p \in Ids : items'[p] = 0 => items[p] = 0
  <2>1. PICK p : p = manifest[row].product
    OBVIOUS
  <2>2. items' = [items EXCEPT ![p] = IF items[p] = 0 THEN 0 ELSE workbook[row].quantity]
    BY <2>1 DEF UpdateItem
  <2> QED
    BY <1>3, <1>4, <2>2
<1>6. SameLinks /\ \A p \in Ids : /\ products'[p].code = products[p].code
                                  /\ products'[p].content = products[p].content
  BY <1>1, LinksUntouched
<1>7. RowsOwned' /\ CodesOwned' /\ NumbersOwned' /\ ProductsTracked' /\ ErrorsExplained'
  BY <1>1, <1>2, <1>5, <1>6, CreatedAreIds, RowStepUnstopped
<1>8. ContentsOwned'
  BY <1>6, ContentsStayOwned DEF Unstopped
<1>9. ImagesOwned'
  BY <1>1, ImagesStayOwned DEF Unstopped
<1> QED
  BY <1>7, <1>8, <1>9 DEF Unstopped

LEMMA UpdateLineUnstopped ==
    ASSUME ImportInvariant, Unstopped, UpdateLine
    PROVE  Unstopped'
<1>1. pc = "update_line" /\ pc' = "image"
      /\ UNCHANGED <<products, manifest, images, items, row, workbook, edits>>
  BY DEF UpdateLine, Outside
<1>2. /\ pc \in RowSteps /\ pc' \in RowSteps \cup {"plan_sync"}
      /\ pc \in {"idle", "done", "error"} \cup (RowSteps \ {"record"})
  BY <1>1 DEF RowSteps
<1>3. PICK p, quantity, new : p = manifest[row].product /\ quantity = workbook[row].quantity /\ new = orders'
  OBVIOUS
<1>4. new = Revalued(p, quantity) /\ orders \subseteq Order /\ quantity \in Quantities
  BY <1>2, <1>3, RowAtHand DEF UpdateLine, Revalued, ImportInvariant, TablesTyped
<1>5. \A n \in new : \E o \in orders :
          /\ n.product = o.product /\ n.line = o.line /\ n.number = o.number
          /\ IF o.product = p /\ o.line THEN n.quantity = quantity ELSE n = o
  BY <1>4, LinesUpdated
<1>6. \A n \in orders' : \E o \in orders :
          n.product = o.product /\ n.number = o.number /\ (o.line => n.line)
  BY <1>3, <1>5
<1>7. SameLinks /\ \A q \in Ids : /\ products'[q].code = products[q].code
                                  /\ products'[q].content = products[q].content
  BY <1>1, LinksUntouched
<1>8. RowsOwned' /\ CodesOwned' /\ NumbersOwned' /\ ProductsTracked' /\ ErrorsExplained'
  BY <1>1, <1>2, <1>6, <1>7, RowStepUnstopped
<1>9. ContentsOwned'
  BY <1>7, ContentsStayOwned DEF Unstopped
<1>10. ImagesOwned'
  BY <1>1, ImagesStayOwned DEF Unstopped
<1> QED
  BY <1>8, <1>9, <1>10 DEF Unstopped

\* A product is added, with a code of its own.
LEMMA ProductMade ==
    ASSUME TablesTyped, TablesLinked, ContentsOwned, CodesOwned, NEW p \in Ids \ Created, NEW new \in Product,
           new.content # Skipped, new.content \in Contents, new.code = FirstCode(p),
           products' = [products EXCEPT ![p] = new], UNCHANGED manifest,
           pc \notin {"code_tmp", "code_final"}, pc' \notin {"code_tmp", "code_final"}
    PROVE  /\ Created' = Created \cup {p}
           /\ \A q : VersionsOf(q)' = VersionsOf(q) /\ OwnCodes(q)' = OwnCodes(q)
           /\ products'[p] = new /\ \A q \in Created : products'[q] = products[q] /\ q # p
           /\ ContentsOwned' /\ CodesOwned'
<1>1. /\ products'[p] = new /\ (\A q \in Ids \ {p} : products'[q] = products[q])
      /\ products' \in [Ids -> Product]
  BY DEF TablesTyped
<1>2. new # NoProduct
  BY DEF NoProduct
<1>3. Created' = Created \cup {p}
  BY <1>1, <1>2 DEF Created
<1>4. \A q \in Created : products'[q] = products[q] /\ q # p
  BY <1>1, CreatedAreIds
<1>5. Imported' = Imported /\ \A q : VersionsOf(q)' = VersionsOf(q)
  BY DEF Imported, VersionsOf
<1>6. \A q : OwnCodes(q)' = OwnCodes(q)
  BY <1>5 DEF OwnCodes
<1>7. p \notin Imported
  BY ImportedAreProducts
<1>8. ContentsOwned'
  BY <1>1, <1>3, <1>4, <1>5, <1>7 DEF ContentsOwned
<1>9. FirstCode(p) \in OwnCodes(p) /\ FirstCode(p) # TemporaryCode(p)
  BY DEF OwnCodes, FirstCode, TemporaryCode
<1>10. CodesOwned'
  BY <1>1, <1>3, <1>4, <1>6, <1>9 DEF CodesOwned
<1> QED
  BY <1>1, <1>3, <1>4, <1>5, <1>6, <1>8, <1>10

LEMMA CreateProductUnstopped ==
    ASSUME ImportInvariant, Unstopped, CreateProduct
    PROVE  Unstopped'
<1>1. /\ pc = "row" /\ pc' = "record" /\ pc \in RowSteps
      /\ UNCHANGED <<manifest, images, orders, items, row, workbook, edits>>
  BY DEF CreateProduct, Outside, RowSteps
<1>2. /\ row \in Rows /\ workbook[row] # Skipped /\ workbook[row] \in Contents
  BY <1>1, RowAtHand
<1>3. TablesTyped /\ TablesLinked
  BY DEF ImportInvariant
<1>4. PICK p, content, at : p = Min(Ids \ Created) /\ content = workbook[row] /\ at = row
  OBVIOUS
<1>5. p \in Ids \ Created
  BY <1>4, FreshProduct DEF CreateProduct
<1>6. PICK new : new = [row |-> at, code |-> FirstCode(p), content |-> content]
  OBVIOUS
<1>7. /\ new \in Product /\ new.content = content /\ new.code = FirstCode(p) /\ new.row = row
      /\ new.content # Skipped /\ new.content \in Contents
  BY <1>2, <1>4, <1>5, <1>6 DEF Product, Codes
<1>8. products' = [products EXCEPT ![p] = new] /\ todo' = {p}
  BY <1>4, <1>6 DEF CreateProduct
<1>9. /\ Created' = Created \cup {p}
      /\ \A q : VersionsOf(q)' = VersionsOf(q) /\ OwnCodes(q)' = OwnCodes(q)
      /\ products'[p] = new /\ \A q \in Created : products'[q] = products[q] /\ q # p
      /\ ContentsOwned' /\ CodesOwned'
  BY <1>1, <1>3, <1>5, <1>7, <1>8, ProductMade DEF Unstopped
<1>10. RowsOwned'
  BY <1>1, <1>7, <1>8, <1>9 DEF Unstopped, RowsOwned
<1>11. ImagesOwned'
  BY <1>1, ImagesStayOwned DEF Unstopped
<1>12. NumbersOwned'
  BY <1>1, <1>9 DEF Unstopped, NumbersOwned
<1>13. ProductsTracked'
  <2>1. /\ \A o \in orders : o.line /\ o.product # p
        /\ \A q \in Created : items[q] = 0 => products[q].code = FirstCode(q) /\ \A o \in orders : o.product # q
    BY <1>1, <1>3, <1>5 DEF Unstopped, ProductsTracked, TablesLinked
  <2> QED
    BY <1>1, <1>7, <1>9, <2>1 DEF ProductsTracked, Untracked, InLoops, RowSteps, SyncSteps
<1> QED
  BY <1>1, <1>9, <1>10, <1>11, <1>12, <1>13 DEF Unstopped, ErrorsExplained

LEMMA RecordRowUnstopped ==
    ASSUME ImportInvariant, Counted, Unstopped, RecordRow
    PROVE  Unstopped'
<1>1. /\ pc = "record" /\ pc' = "image" /\ pc \in RowSteps /\ pc' \in RowSteps
      /\ UNCHANGED <<products, images, orders, items, row, workbook, edits>>
  BY DEF RecordRow, Outside, RowSteps
<1>2. row \in Rows /\ workbook[row] # Skipped /\ workbook \in Workbooks
  BY <1>1, RowAtHand DEF ImportInvariant, TablesTyped
<1>3. TablesTyped /\ TablesLinked /\ manifest[row] = NotImported
  BY <1>1 DEF ImportInvariant, InRows
<1>4. PICK p \in Created : /\ todo = {p} /\ products[p].content = workbook[row]
                           /\ \A r \in Rows : manifest[r].product # p
  BY <1>1 DEF ImportInvariant, InRows
<1>5. p \in Nat /\ p # 0 /\ Min(todo) = p
  BY <1>4, CreatedAreIds, IdsAreNumbers, MinOfOne
<1>6. PICK new : new = [product |-> p, image |-> NoImage]
  OBVIOUS
<1>7. manifest' = [manifest EXCEPT ![row] = new] /\ new.product = p
  BY <1>5, <1>6 DEF RecordRow
<1>8. manifest'[row].product = p /\ \A r \in Rows \ {row} : manifest'[r] = manifest[r]
  BY <1>2, <1>3, <1>7 DEF TablesTyped
<1>9. manifest[row].product = 0
  BY <1>3 DEF NotImported
<1>10. Created' = Created /\ 0 \notin Created
  BY <1>1, CreatedAreIds, IdsAreNumbers DEF Created
<1>11. \A q \in Created : VersionsOf(q) \subseteq VersionsOf(q)' /\ OwnCodes(q) \subseteq OwnCodes(q)'
  <2> SUFFICES ASSUME NEW q \in Created
               PROVE  VersionsOf(q) \subseteq VersionsOf(q)' /\ OwnCodes(q) \subseteq OwnCodes(q)'
    OBVIOUS
  <2>1. {s \in Rows : manifest[s].product = q} \subseteq {s \in Rows : manifest'[s].product = q}
    BY <1>8, <1>9, <1>10
  <2>2. VersionsOf(q) \subseteq VersionsOf(q)'
    BY <2>1 DEF VersionsOf
  <2> QED
    BY <2>2 DEF OwnCodes
<1>12. RowsOwned'
  BY <1>1, <1>4, <1>8, <1>9, <1>10 DEF Unstopped, RowsOwned
<1>13. ImagesOwned'
  <2>1. images \in [Ids -> Nat] /\ edits \in Nat
    BY <1>3 DEF TablesTyped, Counted
  <2>2. p \in Ids /\ images[p] = 0
    BY <1>4, CreatedAreIds DEF Unstopped, ImagesOwned
  <2>3. images[p] <= edits
    BY <2>1, <2>2
  <2>4. \A q \in Ids : images[q] # 0 => \E r \in Rows : manifest'[r].product = q
    BY <1>8, <1>9, IdsAreNumbers DEF Unstopped, ImagesOwned
  <2>5. \A r \in Rows \ {row} : manifest'[r].product # 0 =>
            \/ images[manifest'[r].product] <= edits
            \/ workbook[r].image \in {NoImage, manifest'[r].image}
    BY <1>1, <1>8 DEF Unstopped, ImagesOwned
  <2>6. \A q \in Ids : images[q] <= 1 + edits
    BY DEF Unstopped, ImagesOwned
  <2> QED
    BY <1>1, <1>8, <2>3, <2>4, <2>5, <2>6 DEF ImagesOwned
<1>14. ContentsOwned'
  <2>1. workbook[row] \in VersionsOf(p)'
    BY <1>2, <1>8 DEF VersionsOf
  <2>2. \A q \in Imported' : q = p \/ q \in Imported
    BY <1>8 DEF Imported
  <2> QED
    BY <1>1, <1>4, <1>10, <1>11, <2>1, <2>2 DEF Unstopped, ContentsOwned
<1>15. CodesOwned'
  BY <1>1, <1>10, <1>11 DEF Unstopped, CodesOwned
<1>16. NumbersOwned'
  <2>1. \A o \in orders : o.product \in Created
    BY <1>3 DEF TablesLinked
  <2> QED
    BY <1>1, <1>11, <2>1 DEF Unstopped, NumbersOwned
<1>17. ProductsTracked'
  BY <1>1, <1>10, RowStepTracked DEF Unstopped, SyncSteps
<1> QED
  BY <1>1, <1>12, <1>13, <1>14, <1>15, <1>16, <1>17 DEF Unstopped, ErrorsExplained

LEMMA SkipImageUnstopped ==
    ASSUME ImportInvariant, Unstopped, SkipImage
    PROVE  Unstopped'
<1>1. /\ pc = "image" /\ pc \in {"idle", "done", "error"} \cup (RowSteps \ {"record"}) /\ GoToRowAfter(row)
  BY DEF SkipImage, RowSteps
<1>2. UNCHANGED <<products, manifest, images, orders, items, workbook, edits>>
  BY DEF SkipImage, Tables, Outside
<1>3. SameLinks /\ \A p \in Ids : /\ products'[p].code = products[p].code
                                  /\ products'[p].content = products[p].content
  BY <1>2, LinksUntouched
<1>4. pc' \in RowSteps \cup {"plan_sync"}
  BY <1>1, RowsGoTo
<1>5. RowsOwned' /\ CodesOwned' /\ NumbersOwned' /\ ProductsTracked' /\ ErrorsExplained'
  BY <1>1, <1>2, <1>3, <1>4, RowStepUnstopped
<1>6. ContentsOwned'
  BY <1>3, ContentsStayOwned DEF Unstopped
<1>7. ImagesOwned'
  BY <1>1, <1>2, ImagesStayOwned DEF Unstopped
<1> QED
  BY <1>5, <1>6, <1>7 DEF Unstopped

LEMMA RefuseImageUnstopped ==
    ASSUME ImportInvariant, Unstopped, RefuseImage
    PROVE  Unstopped'
<1>1. /\ pc = "image" /\ pc' = "error" /\ pc \in RowSteps
      /\ UNCHANGED <<products, manifest, images, orders, items, row, workbook, edits>>
      /\ workbook[row].image \notin Pngs \cup {NoImage}
  BY DEF RefuseImage, RowSteps, Tables, Outside
<1>2. SameLinks /\ \A p \in Ids : /\ products'[p].code = products[p].code
                                  /\ products'[p].content = products[p].content
  BY <1>1, LinksUntouched
<1>3. RowsOwned' /\ ContentsOwned' /\ CodesOwned' /\ NumbersOwned'
  BY <1>1, <1>2, RowsStayOwned, ContentsStayOwned, CodesStayOwned, NumbersStayOwned DEF Unstopped
<1>4. ImagesOwned'
  BY <1>1, ImagesStayOwned DEF Unstopped
<1>5. row \in Extracted
  BY <1>1 DEF ImportInvariant, InRows
<1>6. ErrorsExplained'
  BY <1>1, <1>5 DEF ErrorsExplained, Extracted
<1>7. ProductsTracked'
  <2>1. Created' = Created
    BY <1>2 DEF SameLinks
  <2> QED
    BY <1>1, <2>1 DEF Unstopped, ProductsTracked, Untracked, InLoops, SyncSteps
<1> QED
  BY <1>3, <1>4, <1>6, <1>7 DEF Unstopped

LEMMA UploadImageUnstopped ==
    ASSUME ImportInvariant, Counted, Unstopped, UploadImage
    PROVE  Unstopped'
<1>1. /\ pc = "image" /\ pc' = "record_image" /\ pc \in RowSteps
      /\ pc \in {"idle", "done", "error"} \cup (RowSteps \ {"record"}) /\ pc' \in RowSteps \cup {"plan_sync"}
      /\ UNCHANGED <<products, manifest, orders, items, row, workbook, edits>>
      /\ workbook[row].image \notin {NoImage, manifest[row].image}
  BY MonthlyImportAssumption DEF UploadImage, RowSteps, Outside
<1>2. SameLinks /\ \A p \in Ids : /\ products'[p].code = products[p].code
                                  /\ products'[p].content = products[p].content
  BY <1>1, LinksUntouched
<1>3. RowsOwned' /\ CodesOwned' /\ NumbersOwned' /\ ProductsTracked' /\ ErrorsExplained'
  BY <1>1, <1>2, RowStepUnstopped
<1>4. ContentsOwned'
  BY <1>2, ContentsStayOwned DEF Unstopped
<1>5. PICK p : p = manifest[row].product
  OBVIOUS
<1>6. row \in Rows /\ p # 0
  BY <1>1, <1>5, RowAtHand DEF ImportInvariant, InRows, Carried
<1>7. p \in Ids /\ \A r \in Rows \ {row} : manifest[r].product # p
  BY <1>1, <1>5, <1>6, RowAtHand
<1>8. images \in [Ids -> Nat] /\ edits \in Nat /\ images' = [images EXCEPT ![p] = images[p] + 1]
  BY <1>5 DEF UploadImage, ImportInvariant, TablesTyped, Counted
<1>9. images[p] <= edits
  BY <1>1, <1>5, <1>6 DEF Unstopped, ImagesOwned
<1>10. images'[p] <= 1 + edits /\ \A q \in Ids \ {p} : images'[q] = images[q]
  <2>1. images'[p] = images[p] + 1 /\ images[p] \in Nat
    BY <1>7, <1>8
  <2> QED
    BY <1>8, <1>9, <2>1
<1>11. \A r \in Rows \ {row} : manifest[r].product # 0 => manifest[r].product \in Ids \ {p}
  BY <1>7, CreatedAreIds DEF ImportInvariant, TablesLinked
<1>12. ImagesOwned'
  BY <1>1, <1>5, <1>6, <1>7, <1>10, <1>11 DEF Unstopped, ImagesOwned
<1> QED
  BY <1>3, <1>4, <1>12 DEF Unstopped

LEMMA RecordImageUnstopped ==
    ASSUME ImportInvariant, Unstopped, RecordImage
    PROVE  Unstopped'
<1>1. /\ pc = "record_image" /\ pc \in RowSteps
      /\ pc \in {"idle", "done", "error"} \cup (RowSteps \ {"record"}) /\ GoToRowAfter(row)
      /\ UNCHANGED <<products, images, orders, items, workbook, edits>>
  BY DEF RecordImage, RowSteps, Outside
<1>2. pc' \in RowSteps \cup {"plan_sync"}
  BY <1>1, RowsGoTo
<1>3. row \in Rows /\ TablesTyped /\ manifest[row] \in Entry
  BY <1>1, RowAtHand DEF ImportInvariant, TablesTyped
<1>4. PICK old, new, image :
          old = manifest[row] /\ image = workbook[row].image /\ new = [old EXCEPT !.image = image]
  OBVIOUS
<1>5. new.product = old.product /\ new.image = image
  BY <1>3, <1>4 DEF Entry
<1>6. manifest' = [manifest EXCEPT ![row] = new]
  BY <1>4 DEF RecordImage
<1>7. /\ manifest'[row].image = workbook[row].image
      /\ manifest'[row].product = manifest[row].product
      /\ \A r \in Rows \ {row} : manifest'[r] = manifest[r]
      /\ \A r \in Rows : manifest'[r].product = manifest[r].product
  BY <1>3, <1>4, <1>5, <1>6 DEF TablesTyped
<1>8. SameLinks /\ \A p \in Ids : /\ products'[p].code = products[p].code
                                  /\ products'[p].content = products[p].content
  BY <1>1, <1>7 DEF SameLinks, Created
<1>9. RowsOwned' /\ CodesOwned' /\ NumbersOwned' /\ ProductsTracked' /\ ErrorsExplained'
  BY <1>1, <1>2, <1>8, RowStepUnstopped
<1>10. ContentsOwned'
  BY <1>8, ContentsStayOwned DEF Unstopped
<1>11. ImagesOwned'
  <2>1. \A p \in Ids : images[p] # 0 => \E r \in Rows : manifest'[r].product = p
    BY <1>7 DEF Unstopped, ImagesOwned
  <2>2. \A r \in Rows : manifest'[r].product # 0 =>
            \/ images[manifest'[r].product] <= edits
            \/ workbook[r].image \in {NoImage, manifest'[r].image}
    BY <1>7 DEF Unstopped, ImagesOwned
  <2> QED
    BY <1>1, <2>1, <2>2 DEF Unstopped, ImagesOwned
<1> QED
  BY <1>9, <1>10, <1>11 DEF Unstopped

\* Statements behind the loop over the rows.
LEMMA BehindRows ==
    ASSUME Unstopped, SameLinks, pc \notin RowSteps, UNCHANGED <<manifest, images, workbook, edits>>,
           \A p \in Ids : products'[p].content = products[p].content
    PROVE  RowsOwned' /\ ContentsOwned' /\ ImagesOwned'
<1>1. pc # "record" /\ pc # "record_image"
  BY DEF RowSteps
<1> QED
  BY <1>1, RowsStayOwned, ContentsStayOwned, ImagesStayOwned DEF Unstopped

\* Contents of a row and of another one have different codes, since they are of different rows.
LEMMA VersionsDiffer ==
    ASSUME TablesTyped, TablesLinked, NEW p \in Created, NEW q \in Created, p # q,
           NEW v \in VersionsOf(p), NEW w \in VersionsOf(q)
    PROVE  v.code # w.code
<1>1. p # 0 /\ q # 0
  BY CreatedAreIds, IdsAreNumbers
<1>2. PICK book \in Workbooks, r \in Rows : v = book[r] /\ manifest[r].product = p /\ v # Skipped
  BY DEF VersionsOf
<1>3. PICK other \in Workbooks, s \in Rows : w = other[s] /\ manifest[s].product = q /\ w # Skipped
  BY DEF VersionsOf
<1>4. r # s
  BY <1>2, <1>3
<1> QED
  BY <1>2, <1>3, <1>4, MonthlyImportAssumption

LEMMA CodesDiffer ==
    ASSUME TablesTyped, TablesLinked, NEW p \in Created, NEW q \in Created, p # q
    PROVE  OwnCodes(p) \cap OwnCodes(q) = {}
<1> SUFFICES ASSUME NEW code \in OwnCodes(p), code \in OwnCodes(q)
             PROVE  FALSE
  OBVIOUS
<1>1. \/ code = FirstCode(p) \/ code = TemporaryCode(p)
      \/ \E v \in VersionsOf(p) : code = RebuiltCode(v)
  BY DEF OwnCodes
<1>2. \/ code = FirstCode(q) \/ code = TemporaryCode(q)
      \/ \E w \in VersionsOf(q) : code = RebuiltCode(w)
  BY DEF OwnCodes
<1>3. \A v \in VersionsOf(p), w \in VersionsOf(q) : RebuiltCode(v) # RebuiltCode(w)
  BY VersionsDiffer DEF RebuiltCode
<1>4. /\ FirstCode(p) # FirstCode(q) /\ TemporaryCode(p) # TemporaryCode(q)
      /\ FirstCode(p) # TemporaryCode(q) /\ TemporaryCode(p) # FirstCode(q)
      /\ \A w : FirstCode(p) # RebuiltCode(w) /\ TemporaryCode(p) # RebuiltCode(w)
      /\ \A w : FirstCode(q) # RebuiltCode(w) /\ TemporaryCode(q) # RebuiltCode(w)
  BY DEF FirstCode, TemporaryCode, RebuiltCode
<1> QED
  BY <1>1, <1>2, <1>3, <1>4

LEMMA ForeignDiffer ==
    ASSUME NEW p
    PROVE  OwnCodes(p) \cap ForeignNumbers = {}
BY DEF OwnCodes, ForeignNumbers, FirstCode, TemporaryCode, RebuiltCode

\* An order whose number is a code of a product is an order of that product.
LEMMA NumberOfProduct ==
    ASSUME TablesTyped, TablesLinked, NumbersOwned, NEW p \in Created, NEW o \in orders,
           o.number \in OwnCodes(p)
    PROVE  o.product = p
<1>1. o.product \in Created /\ o.number \in OwnCodes(o.product)
  BY ForeignDiffer DEF TablesLinked, NumbersOwned
<1> QED
  BY <1>1, CodesDiffer

LEMMA PlanSyncUnstopped ==
    ASSUME ImportInvariant, Unstopped, PlanSync
    PROVE  Unstopped'
<1>1. /\ pc = "plan_sync" /\ pc' = "order" /\ todo' = {p \in Created : items[p] = 0}
      /\ UNCHANGED <<products, manifest, images, orders, items, workbook, edits>>
  BY DEF PlanSync, Outside, Tables
<1>2. SameLinks /\ \A p \in Ids : /\ products'[p].code = products[p].code
                                  /\ products'[p].content = products[p].content
  BY <1>1, LinksUntouched
<1>3. RowsOwned' /\ ContentsOwned' /\ ImagesOwned'
  BY <1>1, <1>2, BehindRows DEF RowSteps
<1>4. CodesOwned' /\ NumbersOwned'
  BY <1>1, <1>2, CodesStayOwned, NumbersStayOwned DEF Unstopped
<1>5. Created' = Created
  BY <1>2 DEF SameLinks
<1>6. ProductsTracked'
  <2>1. /\ \A o \in orders : o.line
        /\ \A q \in Created : items[q] = 0 => products[q].code = FirstCode(q) /\ \A o \in orders : o.product # q
    BY <1>1 DEF Unstopped, ProductsTracked
  <2> QED
    BY <1>1, <1>5, <2>1 DEF ProductsTracked, Untracked, InLoops, SyncSteps
<1> QED
  BY <1>1, <1>3, <1>4, <1>6 DEF Unstopped, ErrorsExplained

LEMMA SyncDoneUnstopped ==
    ASSUME ImportInvariant, Unstopped, SyncDone
    PROVE  Unstopped'
<1>1. /\ pc = "order" /\ pc' = "plan_codes" /\ todo = {}
      /\ UNCHANGED <<products, manifest, images, orders, items, workbook, edits>>
  BY DEF SyncDone, Outside, Tables
<1>2. SameLinks /\ \A p \in Ids : /\ products'[p].code = products[p].code
                                  /\ products'[p].content = products[p].content
  BY <1>1, LinksUntouched
<1>3. RowsOwned' /\ ContentsOwned' /\ ImagesOwned'
  BY <1>1, <1>2, BehindRows DEF RowSteps
<1>4. CodesOwned' /\ NumbersOwned'
  BY <1>1, <1>2, CodesStayOwned, NumbersStayOwned DEF Unstopped
<1>5. Created' = Created
  BY <1>2 DEF SameLinks
<1>6. ProductsTracked'
  <2>1. (\A o \in orders : o.line) /\ \A q \in Created : items[q] # 0
    BY <1>1 DEF Unstopped, ProductsTracked, SyncSteps
  <2> QED
    BY <1>1, <1>5, <2>1 DEF ProductsTracked, SyncSteps
<1> QED
  BY <1>1, <1>3, <1>4, <1>6 DEF Unstopped, ErrorsExplained

LEMMA InsertOrderUnstopped ==
    ASSUME ImportInvariant, Unstopped, InsertOrder
    PROVE  Unstopped'
<1>1. /\ pc = "order" /\ pc \in SyncSteps /\ todo # {}
      /\ UNCHANGED <<products, manifest, images, items, todo, workbook, edits>>
  BY DEF InsertOrder, Outside, SyncSteps
<1>2. TablesTyped /\ TablesLinked
  BY DEF ImportInvariant
<1>3. PICK p, number, quantity :
          p = Min(todo) /\ number = products[p].code /\ quantity = products[p].content.quantity
  OBVIOUS
<1>4. p \in todo /\ p \in Ids /\ p \in Created
  BY <1>1, <1>3, ProductAtHand
<1>5. number = FirstCode(p) /\ items[p] = 0 /\ \A o \in orders : o.product # p
  BY <1>1, <1>3, <1>4 DEF Unstopped, ProductsTracked
<1>6. number \in OwnCodes(p)
  BY <1>5 DEF OwnCodes
<1>7. ~NumberTaken(number)
  BY <1>2, <1>4, <1>5, <1>6, NumberOfProduct DEF NumberTaken, Unstopped
<1>8. PICK new : new = [number |-> number, product |-> p, line |-> FALSE, quantity |-> quantity]
  OBVIOUS
<1>9. new.product = p /\ new.number = number
  BY <1>8
<1>10. orders' = orders \cup {new} /\ pc' = "line"
  BY <1>3, <1>7, <1>8 DEF InsertOrder
<1>11. SameLinks /\ \A q \in Ids : /\ products'[q].code = products[q].code
                                   /\ products'[q].content = products[q].content
  BY <1>1, LinksUntouched
<1>12. RowsOwned' /\ ContentsOwned' /\ ImagesOwned'
  BY <1>1, <1>11, BehindRows DEF RowSteps
<1>13. CodesOwned'
  BY <1>1, <1>10, <1>11, CodesStayOwned DEF Unstopped
<1>14. NumbersOwned'
  BY <1>6, <1>9, <1>10, <1>11, LinksStay DEF Unstopped, NumbersOwned
<1>15. Created' = Created
  BY <1>11 DEF SameLinks
<1>16. ProductsTracked'
  <2>1. /\ \A o \in orders : o.line
        /\ \A q \in Created : items[q] = 0 =>
              products[q].code = FirstCode(q) /\ q \in todo /\ \A o \in orders : o.product # q
        /\ \A q \in todo : items[q] = 0
    BY <1>1 DEF Unstopped, ProductsTracked
  <2>2. \A o \in orders' : o.line \/ o.product = p
    BY <1>9, <1>10, <2>1
  <2>3. \A o \in orders' : o.product = p => o.number = number
    BY <1>5, <1>9, <1>10
  <2>4. \A q \in Created : items[q] = 0 => \A o \in orders' : o.product = q => q = p
    BY <1>9, <1>10, <2>1
  <2> QED
    BY <1>1, <1>3, <1>10, <1>15, <2>1, <2>2, <2>3, <2>4 DEF ProductsTracked, Untracked, InLoops, SyncSteps
<1> QED
  BY <1>10, <1>12, <1>13, <1>14, <1>16 DEF Unstopped, ErrorsExplained

LEMMA InsertLineUnstopped ==
    ASSUME ImportInvariant, Unstopped, InsertLine
    PROVE  Unstopped'
<1>1. /\ pc = "line" /\ pc' = "item" /\ pc \in SyncSteps
      /\ UNCHANGED <<products, manifest, images, items, todo, workbook, edits>>
  BY DEF InsertLine, Outside, SyncSteps
<1>2. TablesTyped /\ TablesLinked /\ todo # {}
  BY <1>1 DEF ImportInvariant, InSync
<1>3. PICK p, number, quantity, new :
          /\ p = Min(todo) /\ number = products[p].code /\ quantity = products[p].content.quantity
          /\ new = orders'
  OBVIOUS
<1>4. quantity \in Quantities /\ orders \subseteq Order /\ new = WithLine(number, quantity)
  BY <1>1, <1>2, <1>3, ProductAtHand DEF TablesTyped, InsertLine, WithLine
<1>5. \A n \in new : \E o \in orders :
          /\ n.product = o.product /\ n.number = o.number
          /\ IF o.number = number THEN n.line /\ n.quantity = quantity ELSE n = o
  BY <1>4, LineInserted
<1>6. \A n \in orders' : \E o \in orders : n.product = o.product /\ n.number = o.number
  BY <1>3, <1>5
<1>7. SameLinks /\ \A q \in Ids : /\ products'[q].code = products[q].code
                                  /\ products'[q].content = products[q].content
  BY <1>1, LinksUntouched
<1>8. RowsOwned' /\ ContentsOwned' /\ ImagesOwned'
  BY <1>1, <1>7, BehindRows DEF RowSteps
<1>9. CodesOwned' /\ NumbersOwned'
  BY <1>1, <1>6, <1>7, CodesStayOwned, NumbersStayOwned DEF Unstopped
<1>10. Created' = Created
  BY <1>7 DEF SameLinks
<1>11. ProductsTracked'
  <2>1. /\ \A o \in orders : o.line \/ o.number = number
        /\ \A q \in Created : items[q] = 0 =>
              products[q].code = FirstCode(q) /\ q \in todo /\ \A o \in orders : o.product = q => q = p
        /\ \A q \in todo : items[q] = 0
    BY <1>1, <1>3 DEF Unstopped, ProductsTracked
  <2>2. \A n \in orders' : n.line
    BY <1>3, <1>5, <2>1
  <2>3. \A q \in Created : items[q] = 0 => \A n \in orders' : n.product = q => q = p
    BY <1>6, <2>1
  <2> QED
    BY <1>1, <1>3, <1>10, <2>1, <2>2, <2>3 DEF ProductsTracked, Untracked, InLoops, SyncSteps
<1> QED
  BY <1>1, <1>8, <1>9, <1>11 DEF Unstopped, ErrorsExplained

LEMMA InsertItemUnstopped ==
    ASSUME ImportInvariant, Unstopped, InsertItem
    PROVE  Unstopped'
<1>1. /\ pc = "item" /\ pc' = "order" /\ pc \in SyncSteps
      /\ UNCHANGED <<products, manifest, images, orders, workbook, edits>>
  BY DEF InsertItem, Outside, SyncSteps
<1>2. TablesTyped /\ TablesLinked /\ todo # {} /\ todo \subseteq Created
  BY <1>1 DEF ImportInvariant, InSync
<1>3. PICK p, quantity : p = Min(todo) /\ quantity = products[p].content.quantity
  OBVIOUS
<1>4. p \in Ids /\ p \in Created
  BY <1>1, <1>2, <1>3, ProductAtHand
<1>5. items' = [items EXCEPT ![p] = quantity] /\ todo' = todo \ {p}
  BY <1>3 DEF InsertItem
<1>6. quantity # 0
  <2>1. PICK w \in Workbooks, r \in Rows : products[p].content = w[r] /\ w[r] # Skipped
    BY <1>4 DEF Unstopped, ContentsOwned, Contents
  <2> QED
    BY <1>3, <2>1, MonthlyImportAssumption
<1>7. items'[p] # 0 /\ \A q \in Ids \ {p} : items'[q] = items[q]
  BY <1>2, <1>4, <1>5, <1>6 DEF TablesTyped
<1>8. SameLinks /\ \A q \in Ids : /\ products'[q].code = products[q].code
                                  /\ products'[q].content = products[q].content
  BY <1>1, LinksUntouched
<1>9. RowsOwned' /\ ContentsOwned' /\ ImagesOwned'
  BY <1>1, <1>8, BehindRows DEF RowSteps
<1>10. CodesOwned' /\ NumbersOwned'
  BY <1>1, <1>8, CodesStayOwned, NumbersStayOwned DEF Unstopped
<1>11. Created' = Created
  BY <1>8 DEF SameLinks
<1>12. ProductsTracked'
  <2>1. /\ \A o \in orders : o.line
        /\ \A q \in Created : items[q] = 0 =>
              products[q].code = FirstCode(q) /\ q \in todo /\ \A o \in orders : o.product = q => q = p
        /\ \A q \in todo : items[q] = 0
    BY <1>1, <1>3 DEF Unstopped, ProductsTracked
  <2>2. \A q \in Created : items'[q] = 0 => q # p /\ items[q] = 0
    BY <1>7, CreatedAreIds
  <2>3. \A q \in todo' : items'[q] = 0
    BY <1>2, <1>5, <1>7, <2>1, CreatedAreIds
  <2> QED
    BY <1>1, <1>5, <1>11, <2>1, <2>2, <2>3 DEF ProductsTracked, Untracked, InLoops, SyncSteps
<1> QED
  BY <1>1, <1>9, <1>10, <1>12 DEF Unstopped, ErrorsExplained

\* Where every product has its item.
LEMMA OutsideUntracked ==
    ASSUME pc \in AfterSync
    PROVE  pc \notin Untracked /\ pc \notin RowSteps
BY DEF AfterSync, AfterCodes, NumberSteps, Untracked, InLoops, RowSteps, SyncSteps

\* The codes that imported products would get differ.
LEMMA ExpectedDiffer ==
    ASSUME TablesTyped, TablesLinked, ContentsOwned, NEW p \in Imported, NEW q \in Created, p # q
    PROVE  ExpectedCode(p) \in OwnCodes(p) /\ ExpectedCode(p) \notin OwnCodes(q)
<1>1. p \in Created /\ products[p].content \in VersionsOf(p)
  BY ImportedAreProducts DEF ContentsOwned
<1>2. ExpectedCode(p) \in OwnCodes(p)
  BY <1>1 DEF ExpectedCode, OwnCodes
<1> QED
  BY <1>1, <1>2, CodesDiffer

LEMMA PlanCodesUnstopped ==
    ASSUME ImportInvariant, Unstopped, PlanCodes
    PROVE  Unstopped'
<1> DEFINE wrong == {p \in Imported : products[p].code # ExpectedCode(p)}
<1>1. /\ pc = "plan_codes" /\ pc \notin Untracked /\ pc \notin RowSteps
      /\ UNCHANGED <<products, manifest, images, orders, items, workbook, edits>>
  BY OutsideUntracked DEF PlanCodes, Outside, Tables, AfterSync
<1>2. TablesTyped /\ TablesLinked /\ ContentsOwned
  BY DEF ImportInvariant, Unstopped
<1>3. \A p, q \in wrong : p # q => ExpectedCode(p) # ExpectedCode(q)
  <2> SUFFICES ASSUME NEW p \in Imported, NEW q \in Imported, p # q
               PROVE  ExpectedCode(p) # ExpectedCode(q)
    OBVIOUS
  <2>1. p \in Created /\ q \in Created
    BY <1>2, ImportedAreProducts
  <2> QED
    BY <1>2, <2>1, ExpectedDiffer
<1>4. pc' = "code_tmp" /\ plan' = wrong /\ todo' = wrong
  BY <1>3 DEF PlanCodes
<1>5. SameLinks /\ \A p \in Ids : /\ products'[p].code = products[p].code
                                  /\ products'[p].content = products[p].content
  BY <1>1, LinksUntouched
<1>6. RowsOwned' /\ ContentsOwned' /\ ImagesOwned'
  BY <1>1, <1>5, BehindRows
<1>7. Created' = Created
  BY <1>5 DEF SameLinks
<1>8. CodesOwned'
  BY <1>1, <1>4, <1>5, <1>7, LinksStay DEF Unstopped, CodesOwned
<1>9. NumbersOwned'
  BY <1>1, <1>4, <1>5, NumbersStayOwned DEF Unstopped
<1>10. ProductsTracked'
  <2>1. pc' \notin InLoops
    BY <1>4 DEF Untracked, InLoops, RowSteps, SyncSteps
  <2> QED
    BY <1>1, <1>7, <2>1, StillAllTracked DEF Unstopped
<1> QED
  BY <1>4, <1>6, <1>8, <1>9, <1>10 DEF Unstopped, ErrorsExplained

LEMMA TemporaryCodesUnstopped ==
    ASSUME ImportInvariant, Unstopped, TemporaryCodes
    PROVE  Unstopped'
<1>1. /\ pc = "code_tmp" /\ pc \notin Untracked /\ pc \notin RowSteps
      /\ UNCHANGED <<manifest, images, orders, items, plan, workbook, edits>>
  BY OutsideUntracked DEF TemporaryCodes, Outside, AfterSync
<1>2. TablesTyped /\ TablesLinked /\ plan \subseteq Imported /\ todo \subseteq plan
  BY <1>1 DEF ImportInvariant, InCodes
<1>3. /\ pc' \in {"code_tmp", "code_final"} /\ pc' \notin InLoops
  BY <1>1 DEF TemporaryCodes, Untracked, InLoops, RowSteps, SyncSteps
<1>4. CASE todo = {}
  <2>1. pc' = "code_final" /\ todo' = plan /\ UNCHANGED products
    BY <1>4 DEF TemporaryCodes
  <2>2. SameLinks /\ \A p \in Ids : /\ products'[p].code = products[p].code
                                    /\ products'[p].content = products[p].content
    BY <1>1, <2>1, LinksUntouched
  <2>3. RowsOwned' /\ ContentsOwned' /\ ImagesOwned'
    BY <1>1, <2>2, BehindRows
  <2>4. Created' = Created
    BY <2>2 DEF SameLinks
  <2>5. CodesOwned'
    BY <1>1, <1>4, <2>1, <2>2, <2>4, LinksStay DEF Unstopped, CodesOwned
  <2>6. NumbersOwned'
    BY <1>1, <2>1, <2>2, NumbersStayOwned DEF Unstopped
  <2>7. ProductsTracked'
    BY <1>1, <1>3, <2>4, StillAllTracked DEF Unstopped
  <2> QED
    BY <1>3, <2>3, <2>5, <2>6, <2>7 DEF Unstopped, ErrorsExplained
<1>5. CASE todo # {}
  <2>1. PICK p, code, new : p = Min(todo) /\ code = TemporaryCode(p) /\ new = products'
    OBVIOUS
  <2>2. todo \subseteq Nat
    BY <1>2, ImportedAreProducts
  <2>3. p \in todo /\ p \in plan /\ p \in Imported /\ p \in Created /\ p \in Ids
    BY <1>2, <1>5, <2>1, <2>2, MinIsLeast, ImportedAreProducts
  <2>4. code \in Codes /\ code # <<"none", 0>>
    BY <2>1, <2>3 DEF TemporaryCode, Codes
  <2>5. /\ new = [products EXCEPT ![p].code = code] /\ todo' = todo \ {p} /\ pc' = "code_tmp"
        /\ products \in [Ids -> Product]
    BY <1>1, <1>2, <1>5, <2>1 DEF TemporaryCodes, TablesTyped
  <2>6. /\ new[p].code = code /\ new[p].content = products[p].content /\ new[p].row = products[p].row
        /\ \A q \in Ids \ {p} : new[q] = products[q]
    BY <2>3, <2>4, <2>5, CodeChanged
  <2>7. Created' = Created
    <3>1. products'[p] # NoProduct
      BY <2>1, <2>4, <2>6 DEF NoProduct
    <3> QED
      BY <2>1, <2>3, <2>6, <3>1 DEF Created
  <2>8. SameLinks /\ \A q \in Ids : products'[q].content = products[q].content
    BY <1>1, <2>1, <2>6, <2>7 DEF SameLinks
  <2>9. RowsOwned' /\ ContentsOwned' /\ ImagesOwned'
    BY <1>1, <2>8, BehindRows
  <2>10. CodesOwned'
    <3>1. products'[p].code = TemporaryCode(p) /\ \A q \in Created \ {p} : products'[q] = products[q]
      BY <2>1, <2>6, CreatedAreIds
    <3>2. TemporaryCode(p) \in OwnCodes(p)
      BY DEF OwnCodes
    <3>3. plan' \ todo' = (plan \ todo) \cup {p}
      BY <1>1, <2>3, <2>5
    <3>4. \A q \in Created : products'[q].code \in OwnCodes(q)'
      BY <2>8, <3>1, <3>2, LinksStay DEF Unstopped, CodesOwned
    <3>5. \A q \in Created : products'[q].code = TemporaryCode(q) => q \in plan' \ todo'
      BY <1>1, <3>1, <3>3 DEF Unstopped, CodesOwned
    <3>6. plan \ todo \subseteq Created
      BY <1>2, ImportedAreProducts
    <3>7. \A q \in plan' \ todo' : products'[q].code = TemporaryCode(q)
      BY <1>1, <3>1, <3>3, <3>6 DEF Unstopped, CodesOwned
    <3> QED
      BY <2>5, <2>7, <3>4, <3>5, <3>7 DEF CodesOwned
  <2>11. NumbersOwned'
    BY <1>1, <2>5, <2>8, NumbersStayOwned DEF Unstopped
  <2>12. ProductsTracked'
    BY <1>1, <1>3, <2>7, StillAllTracked DEF Unstopped
  <2> QED
    BY <1>3, <2>9, <2>10, <2>11, <2>12 DEF Unstopped, ErrorsExplained
<1> QED
  BY <1>4, <1>5

LEMMA FinalCodesUnstopped ==
    ASSUME ImportInvariant, Unstopped, FinalCodes
    PROVE  Unstopped'
<1>1. /\ pc = "code_final" /\ pc \notin Untracked /\ pc \notin RowSteps
      /\ UNCHANGED <<manifest, images, orders, items, plan, workbook, edits>>
  BY OutsideUntracked DEF FinalCodes, Outside, AfterSync
<1>2. TablesTyped /\ TablesLinked /\ todo \subseteq Imported /\ ContentsOwned
  BY <1>1 DEF ImportInvariant, InCodes, Unstopped
<1>3. CASE todo = {}
  <2>1. pc' = "plan_numbers" /\ UNCHANGED products /\ pc' \notin InLoops
    BY <1>3 DEF FinalCodes, Untracked, InLoops, RowSteps, SyncSteps
  <2>2. SameLinks /\ \A p \in Ids : /\ products'[p].code = products[p].code
                                    /\ products'[p].content = products[p].content
    BY <1>1, <2>1, LinksUntouched
  <2>3. RowsOwned' /\ ContentsOwned' /\ ImagesOwned'
    BY <1>1, <2>2, BehindRows
  <2>4. Created' = Created
    BY <2>2 DEF SameLinks
  <2>5. CodesOwned'
    BY <1>1, <1>3, <2>1, <2>2, <2>4, LinksStay DEF Unstopped, CodesOwned
  <2>6. NumbersOwned'
    BY <1>1, <2>1, <2>2, NumbersStayOwned DEF Unstopped
  <2>7. ProductsTracked'
    BY <1>1, <2>1, <2>4, StillAllTracked DEF Unstopped
  <2> QED
    BY <2>1, <2>3, <2>5, <2>6, <2>7 DEF Unstopped, ErrorsExplained
<1>4. CASE todo # {}
  <2>1. PICK p, code, new : p = Min(todo) /\ code = ExpectedCode(p) /\ new = products'
    OBVIOUS
  <2>2. todo \subseteq Nat
    BY <1>2, ImportedAreProducts
  <2>3. p \in todo /\ p \in Imported /\ p \in Created /\ p \in Ids
    BY <1>2, <1>4, <2>1, <2>2, MinIsLeast, ImportedAreProducts
  <2>4. code \in OwnCodes(p) /\ code # TemporaryCode(p)
    BY <1>2, <2>1, <2>3 DEF ContentsOwned, OwnCodes, ExpectedCode, RebuiltCode, TemporaryCode
  <2>5. ~CodeTaken(code)
    <3> SUFFICES ASSUME NEW q \in Created, products[q].code = code
                 PROVE  FALSE
      BY DEF CodeTaken
    <3>1. CASE q = p
      BY <1>1, <2>3, <2>4, <3>1 DEF Unstopped, CodesOwned
    <3>2. CASE q # p
      BY <1>2, <2>1, <2>3, <3>2, ExpectedDiffer DEF Unstopped, CodesOwned
    <3> QED
      BY <3>1, <3>2
  <2>6. code \in Codes /\ code # <<"none", 0>>
    <3>1. products[p].content \in Contents \cup {Skipped}
      BY <1>2, <2>3 DEF TablesTyped, Product
    <3> QED
      BY <2>1, <3>1 DEF ExpectedCode, RebuiltCode, Codes
  <2>7. /\ new = [products EXCEPT ![p].code = code] /\ todo' = todo \ {p} /\ pc' = "code_final"
        /\ products \in [Ids -> Product]
    BY <1>1, <1>2, <1>4, <2>1, <2>5 DEF FinalCodes, TablesTyped
  <2>8. /\ new[p].code = code /\ new[p].content = products[p].content /\ new[p].row = products[p].row
        /\ \A q \in Ids \ {p} : new[q] = products[q]
    BY <2>3, <2>6, <2>7, CodeChanged
  <2>9. Created' = Created
    <3>1. products'[p] # NoProduct
      BY <2>1, <2>6, <2>8 DEF NoProduct
    <3> QED
      BY <2>1, <2>3, <2>8, <3>1 DEF Created
  <2>10. SameLinks /\ \A q \in Ids : products'[q].content = products[q].content
    BY <1>1, <2>1, <2>8, <2>9 DEF SameLinks
  <2>11. RowsOwned' /\ ContentsOwned' /\ ImagesOwned'
    BY <1>1, <2>10, BehindRows
  <2>12. CodesOwned'
    <3>1. products'[p].code = code /\ \A q \in Created \ {p} : products'[q] = products[q]
      BY <2>1, <2>8, CreatedAreIds
    <3>2. \A q \in Created : products'[q].code \in OwnCodes(q)'
      BY <2>4, <2>10, <3>1, LinksStay DEF Unstopped, CodesOwned
    <3>3. \A q \in Created : products'[q].code = TemporaryCode(q) => q \in todo'
      BY <1>1, <2>4, <2>7, <3>1 DEF Unstopped, CodesOwned
    <3>4. todo \subseteq Created
      BY <1>2, ImportedAreProducts
    <3>5. \A q \in todo' : products'[q].code = TemporaryCode(q)
      BY <1>1, <2>7, <3>1, <3>4 DEF Unstopped, CodesOwned
    <3> QED
      BY <2>7, <2>9, <3>2, <3>3, <3>5 DEF CodesOwned
  <2>13. NumbersOwned'
    BY <1>1, <2>7, <2>10, NumbersStayOwned DEF Unstopped
  <2>14. ProductsTracked'
    <3>1. pc' \notin InLoops
      BY <2>7 DEF Untracked, InLoops, RowSteps, SyncSteps
    <3> QED
      BY <1>1, <2>9, <3>1, StillAllTracked DEF Unstopped
  <2> QED
    BY <2>7, <2>11, <2>12, <2>13, <2>14 DEF Unstopped, ErrorsExplained
<1> QED
  BY <1>3, <1>4

LEMMA PlanNumbersUnstopped ==
    ASSUME ImportInvariant, Unstopped, PlanNumbers
    PROVE  Unstopped'
<1> DEFINE lines == {o \in orders : o.line}
<1>1. /\ pc = "plan_numbers" /\ pc \notin Untracked /\ pc \notin RowSteps
      /\ UNCHANGED <<products, manifest, images, orders, items, workbook, edits>>
  BY OutsideUntracked DEF PlanNumbers, Outside, Tables, AfterSync, AfterCodes
<1>2. pc' \in {"error", "number_tmp"} /\ pc' \notin InLoops /\ pc' \notin {"code_tmp", "code_final"}
  BY DEF PlanNumbers, Untracked, InLoops, RowSteps, SyncSteps
<1>3. SameLinks /\ \A p \in Ids : /\ products'[p].code = products[p].code
                                  /\ products'[p].content = products[p].content
  BY <1>1, LinksUntouched
<1>4. RowsOwned' /\ ContentsOwned' /\ ImagesOwned'
  BY <1>1, <1>3, BehindRows
<1>5. CodesOwned'
  BY <1>1, <1>2, <1>3, CodesStayOwned DEF Unstopped
<1>6. Created' = Created
  BY <1>3 DEF SameLinks
<1>7. ProductsTracked'
  BY <1>1, <1>2, <1>6, StillAllTracked DEF Unstopped
<1>8. CASE pc' = "error"
  <2>1. \E o, other \in lines : o # other /\ o.product = other.product
    BY <1>8 DEF PlanNumbers
  <2>2. ErrorsExplained'
    BY <1>1, <2>1 DEF ErrorsExplained
  <2>3. NumbersOwned'
    BY <1>1, <1>3, <1>8, NumbersStayOwned DEF Unstopped
  <2> QED
    BY <1>4, <1>5, <1>7, <2>2, <2>3 DEF Unstopped
<1>9. CASE pc' = "number_tmp"
  <2>1. plan' = {o.product : o \in lines} /\ todo' = plan'
    BY <1>9 DEF PlanNumbers
  <2>2. plan' \subseteq Created
    BY <2>1 DEF ImportInvariant, TablesLinked
  <2>3. NumbersOwned'
    BY <1>1, <1>3, <1>6, <1>9, <2>1, <2>2, LinksStay DEF Unstopped, NumbersOwned
  <2> QED
    BY <1>4, <1>5, <1>7, <1>9, <2>3 DEF Unstopped, ErrorsExplained
<1> QED
  BY <1>2, <1>8, <1>9

\* Every order of a product gets another of its numbers.
LEMMA NumbersRenewed ==
    ASSUME TablesTyped, NumbersOwned, SameLinks, \A o \in orders : o.line, NEW p \in Created,
           NEW number \in OrderNumbers, number \in OwnCodes(p), orders' = Renumbered(p, number)
    PROVE  /\ \A n \in orders' : n.number \in OwnCodes(n.product)' \cup ForeignNumbers
           /\ \A n \in orders' : n.product = p => n.number = number
           /\ \A n \in orders' : n.product # p => n \in orders
           /\ \A n \in orders' : \E o \in orders : n.line = o.line
           /\ \A n \in orders' : n.line
<1>1. PICK new : new = orders'
  OBVIOUS
<1>2. \A n \in new : \E o \in orders :
          /\ n.product = o.product /\ n.line = o.line /\ n.quantity = o.quantity
          /\ IF o.product = p /\ o.line THEN n.number = number ELSE n = o
          /\ n = WithNumber(o, p, number)
  BY <1>1, LinesRenumbered DEF TablesTyped
<1>3. \A n \in new : IF n.product = p THEN n.number = number ELSE n \in orders
  BY <1>2
<1>4. \A n \in new : \E o \in orders : n.line = o.line
  BY <1>2
<1>5. \A n \in new : n.line
  BY <1>4
<1>6. \A n \in new : n.number \in OwnCodes(n.product)' \cup ForeignNumbers
  BY <1>3, LinksStay DEF NumbersOwned
<1> QED
  BY <1>1, <1>3, <1>4, <1>5, <1>6

LEMMA TemporaryNumbersUnstopped ==
    ASSUME ImportInvariant, Unstopped, TemporaryNumbers
    PROVE  Unstopped'
<1>1. /\ pc = "number_tmp" /\ pc \notin Untracked /\ pc \notin RowSteps
      /\ UNCHANGED <<products, manifest, images, items, plan, workbook, edits>>
  BY OutsideUntracked DEF TemporaryNumbers, Outside, AfterSync, AfterCodes, NumberSteps
<1>2. TablesTyped /\ TablesLinked /\ todo \subseteq plan /\ plan \subseteq Created
  BY <1>1 DEF ImportInvariant, InNumbers, Unstopped, NumbersOwned
<1>3. /\ pc' \in {"number_tmp", "number_final"} /\ pc' \notin InLoops
      /\ pc' \notin {"code_tmp", "code_final", "error"}
  BY <1>1 DEF TemporaryNumbers, Untracked, InLoops, RowSteps, SyncSteps
<1>4. SameLinks /\ \A p \in Ids : /\ products'[p].code = products[p].code
                                  /\ products'[p].content = products[p].content
  BY <1>1, LinksUntouched
<1>5. RowsOwned' /\ ContentsOwned' /\ ImagesOwned'
  BY <1>1, <1>4, BehindRows
<1>6. CodesOwned'
  BY <1>1, <1>3, <1>4, CodesStayOwned DEF Unstopped
<1>7. Created' = Created /\ \A o \in orders : o.line
  BY <1>1, <1>4 DEF SameLinks, Unstopped, ProductsTracked
<1>8. NumbersOwned' /\ \A n \in orders' : \E o \in orders : o.line => n.line
  <2>1. CASE todo = {}
    <3>1. pc' = "number_final" /\ todo' = plan /\ UNCHANGED orders
      BY <2>1 DEF TemporaryNumbers
    <3> QED
      BY <1>1, <1>2, <1>4, <1>7, <2>1, <3>1, LinksStay DEF Unstopped, NumbersOwned
  <2>2. CASE todo # {}
    <3>1. PICK p, number : p = Min(todo) /\ number = TemporaryCode(p)
      OBVIOUS
    <3>2. todo \subseteq Nat
      BY <1>2, CreatedAreIds, IdsAreNumbers
    <3>3. p \in todo /\ p \in plan /\ p \in Created /\ p \in Ids
      BY <1>2, <2>2, <3>1, <3>2, MinIsLeast, CreatedAreIds
    <3>4. number \in OrderNumbers /\ number \in OwnCodes(p)
      BY <3>1, <3>3 DEF OrderNumbers, Codes, OwnCodes
    <3>5. orders' = Renumbered(p, number) /\ todo' = todo \ {p} /\ pc' = "number_tmp"
      BY <1>1, <2>2, <3>1 DEF TemporaryNumbers
    <3>6. /\ \A n \in orders' : n.number \in OwnCodes(n.product)' \cup ForeignNumbers
          /\ \A n \in orders' : n.product = p => n.number = number
          /\ \A n \in orders' : n.product # p => n \in orders
          /\ \A n \in orders' : \E o \in orders : n.line = o.line
          /\ \A n \in orders' : n.line
      BY <1>2, <1>4, <1>7, <3>3, <3>4, <3>5, NumbersRenewed DEF Unstopped
    <3>7. \A n \in orders' : n.product \in plan' \ todo' => n.number = TemporaryCode(n.product)
      BY <1>1, <3>1, <3>5, <3>6 DEF Unstopped, NumbersOwned
    <3>8. NumbersOwned'
      BY <1>1, <1>2, <1>7, <3>5, <3>6, <3>7 DEF NumbersOwned
    <3> QED
      BY <3>6, <3>8
  <2> QED
    BY <2>1, <2>2
<1>9. ProductsTracked'
  BY <1>1, <1>3, <1>7, <1>8, StillAllTracked DEF Unstopped
<1> QED
  BY <1>3, <1>5, <1>6, <1>8, <1>9 DEF Unstopped, ErrorsExplained

LEMMA FinalNumbersUnstopped ==
    ASSUME ImportInvariant, Unstopped, FinalNumbers
    PROVE  Unstopped'
<1>1. /\ pc = "number_final" /\ pc \notin Untracked /\ pc \notin RowSteps
      /\ UNCHANGED <<products, manifest, images, items, workbook, edits>>
  BY OutsideUntracked DEF FinalNumbers, Outside, AfterSync, AfterCodes, NumberSteps
<1>2. TablesTyped /\ TablesLinked /\ todo \subseteq Created
  BY <1>1 DEF ImportInvariant, Unstopped, NumbersOwned
<1>3. SameLinks /\ \A p \in Ids : /\ products'[p].code = products[p].code
                                  /\ products'[p].content = products[p].content
  BY <1>1, LinksUntouched
<1>4. RowsOwned' /\ ContentsOwned' /\ ImagesOwned'
  BY <1>1, <1>3, BehindRows
<1>5. Created' = Created /\ \A o \in orders : o.line
  BY <1>1, <1>3 DEF SameLinks, Unstopped, ProductsTracked
<1>6. /\ pc' \in {"done", "number_final"} /\ NumbersOwned'
      /\ \A n \in orders' : \E o \in orders : o.line => n.line
  <2>1. CASE todo = {}
    <3>1. pc' = "done" /\ UNCHANGED orders
      BY <2>1 DEF FinalNumbers
    <3> QED
      BY <1>3, <3>1, NumbersStayOwned DEF Unstopped
  <2>2. CASE todo # {}
    <3>1. PICK p, number : p = Min(todo) /\ number = products[p].code
      OBVIOUS
    <3>2. todo \subseteq Nat
      BY <1>2, CreatedAreIds, IdsAreNumbers
    <3>3. p \in todo /\ p \in Created /\ p \in Ids
      BY <1>2, <2>2, <3>1, <3>2, MinIsLeast, CreatedAreIds
    <3>4. number \in OwnCodes(p) /\ number # TemporaryCode(p)
      BY <1>1, <3>1, <3>3 DEF Unstopped, CodesOwned
    <3>5. number \in OrderNumbers
      BY <1>2, <3>1, <3>3 DEF OrderNumbers, TablesTyped, Product
    <3>6. ~NumberTaken(number)
      <4> SUFFICES ASSUME NEW o \in orders, o.number = number
                   PROVE  FALSE
        BY DEF NumberTaken
      <4>1. o.product = p
        BY <1>2, <3>3, <3>4, NumberOfProduct DEF Unstopped
      <4> QED
        BY <1>1, <3>3, <3>4, <4>1 DEF Unstopped, NumbersOwned
    <3>7. orders' = Renumbered(p, number) /\ todo' = todo \ {p} /\ pc' = "number_final"
      BY <1>1, <2>2, <3>1, <3>6 DEF FinalNumbers
    <3>8. /\ \A n \in orders' : n.number \in OwnCodes(n.product)' \cup ForeignNumbers
          /\ \A n \in orders' : n.product = p => n.number = number
          /\ \A n \in orders' : n.product # p => n \in orders
          /\ \A n \in orders' : \E o \in orders : n.line = o.line
          /\ \A n \in orders' : n.line
      BY <1>2, <1>3, <1>5, <3>3, <3>4, <3>5, <3>7, NumbersRenewed DEF Unstopped
    <3>9. \A n \in orders' : n.product \in todo' => n.number = TemporaryCode(n.product)
      BY <1>1, <3>7, <3>8 DEF Unstopped, NumbersOwned
    <3>10. NumbersOwned'
      BY <1>2, <1>5, <3>7, <3>8, <3>9 DEF NumbersOwned
    <3> QED
      BY <3>7, <3>8, <3>10
  <2> QED
    BY <2>1, <2>2
<1>7. pc' \notin {"code_tmp", "code_final", "error"} /\ pc' \notin InLoops
  BY <1>6 DEF Untracked, InLoops, RowSteps, SyncSteps
<1>8. CodesOwned'
  BY <1>1, <1>3, <1>7, CodesStayOwned DEF Unstopped
<1>9. ProductsTracked'
  BY <1>1, <1>5, <1>6, <1>7, StillAllTracked DEF Unstopped
<1> QED
  BY <1>4, <1>6, <1>7, <1>8, <1>9 DEF Unstopped, ErrorsExplained

-----------------------------------------------------------------------------
(* Around the import *)

LEMMA Idle ==
    ASSUME ~Running
    PROVE  pc \notin InLoops /\ pc \notin RowSteps /\ pc \notin {"code_tmp", "code_final"}
BY DEF Running, Untracked, InLoops, RowSteps, SyncSteps

\* Between two imports: a new order is one of a product that has its item.
LEMMA IdleTracked ==
    ASSUME ProductsTracked, pc \notin InLoops, pc' = "idle",
           \A p \in Created' : items'[p] = 0 =>
              p \in Created /\ items[p] = 0 /\ products'[p].code = products[p].code,
           \A n \in orders' : n.line /\ (n \in orders \/ items'[n.product] # 0)
    PROVE  ProductsTracked'
<1>1. \A p \in Created' : items'[p] = 0 =>
          products'[p].code = FirstCode(p) /\ \A n \in orders' : n.product # p
  BY DEF ProductsTracked, InLoops, SyncSteps
<1> QED
  BY <1>1 DEF ProductsTracked, Untracked, InLoops, RowSteps, SyncSteps

LEMMA CorrectWorkbookUnstopped ==
    ASSUME ImportInvariant, Counted, Unstopped, CorrectWorkbook
    PROVE  Unstopped'
<1>1. /\ pc \notin InLoops /\ pc \notin RowSteps /\ pc \notin {"code_tmp", "code_final"}
      /\ pc' = "idle" /\ pc' \notin InLoops
  BY Idle DEF CorrectWorkbook, Untracked, InLoops, RowSteps, SyncSteps
<1>2. UNCHANGED <<products, manifest, images, orders, items>> /\ edits' = edits + 1
  BY DEF CorrectWorkbook, Tables
<1>3. SameLinks /\ \A p \in Ids : /\ products'[p].code = products[p].code
                                  /\ products'[p].content = products[p].content
  BY <1>2, LinksUntouched
<1>4. RowsOwned' /\ ContentsOwned' /\ CodesOwned' /\ NumbersOwned'
  BY <1>1, <1>2, <1>3, RowsStayOwned, ContentsStayOwned, CodesStayOwned, NumbersStayOwned
     DEF Unstopped, RowSteps
<1>5. ProductsTracked'
  <2>1. Created' = Created /\ \A o \in orders : o.line
    BY <1>1, <1>3 DEF SameLinks, Unstopped, ProductsTracked, InLoops, SyncSteps
  <2> QED
    BY <1>1, <1>2, <2>1, IdleTracked DEF Unstopped
<1>6. ImagesOwned'
  <2>1. edits \in Nat /\ images \in [Ids -> Nat]
    BY DEF Counted, ImportInvariant, TablesTyped
  <2>2. \A p \in Ids : images[p] \in Nat /\ images[p] <= 1 + edits
    BY <2>1 DEF Unstopped, ImagesOwned
  <2>3. \A p \in Ids : images[p] <= edits + 1 /\ images[p] <= 1 + (edits + 1)
    BY <2>1, <2>2
  <2>4. \A r \in Rows : manifest[r].product # 0 => manifest[r].product \in Ids
    BY CreatedAreIds DEF ImportInvariant, TablesLinked
  <2> QED
    BY <1>2, <2>3, <2>4 DEF Unstopped, ImagesOwned
<1> QED
  BY <1>1, <1>4, <1>5, <1>6 DEF Unstopped, ErrorsExplained

LEMMA UserOrderUnstopped ==
    ASSUME ImportInvariant, Counted, Unstopped, NEW p \in Ids, UserOrder(p)
    PROVE  Unstopped'
<1>1. /\ pc \notin InLoops /\ pc \notin RowSteps /\ pc \notin {"code_tmp", "code_final"}
      /\ pc' = "idle" /\ pc' \notin InLoops
  BY Idle DEF UserOrder, Untracked, InLoops, RowSteps, SyncSteps
<1>2. UNCHANGED <<products, manifest, images, items, workbook, edits>>
  BY DEF UserOrder
<1>3. SameLinks /\ \A q \in Ids : /\ products'[q].code = products[q].code
                                  /\ products'[q].content = products[q].content
  BY <1>2, LinksUntouched
<1>4. RowsOwned' /\ ContentsOwned' /\ ImagesOwned'
  BY <1>1, <1>2, <1>3, BehindRows
<1>5. CodesOwned'
  BY <1>1, <1>3, CodesStayOwned DEF Unstopped
<1>6. PICK number, quantity : number = <<"user", foreign>> /\ quantity = items[p]
  OBVIOUS
<1>7. PICK new : new = [number |-> number, product |-> p, line |-> TRUE, quantity |-> quantity]
  OBVIOUS
<1>8. orders' = orders \cup {new} /\ new.line /\ new.number \in ForeignNumbers
  BY <1>6, <1>7 DEF UserOrder, ForeignNumbers, Counted
<1>9. NumbersOwned'
  BY <1>1, <1>3, <1>8, LinksStay DEF Unstopped, NumbersOwned
<1>10. ProductsTracked'
  <2>1. Created' = Created /\ \A o \in orders : o.line
    BY <1>1, <1>3 DEF SameLinks, Unstopped, ProductsTracked, InLoops, SyncSteps
  <2>2. new.product = p /\ items[p] # 0
    BY <1>7 DEF UserOrder
  <2> QED
    BY <1>1, <1>2, <1>8, <2>1, <2>2, IdleTracked DEF Unstopped
<1> QED
  BY <1>1, <1>4, <1>5, <1>9, <1>10 DEF Unstopped, ErrorsExplained

LEMMA FactoryImportUnstopped ==
    ASSUME ImportInvariant, Unstopped, NEW r \in Rows, FactoryImport(r)
    PROVE  Unstopped'
<1>1. /\ pc \notin InLoops /\ pc \notin RowSteps /\ pc \notin {"code_tmp", "code_final"}
      /\ pc' = "idle" /\ pc' \notin InLoops
  BY Idle DEF FactoryImport, Untracked, InLoops, RowSteps, SyncSteps
<1>2. UNCHANGED <<manifest, images, workbook, edits>> /\ TablesTyped /\ TablesLinked
  BY DEF FactoryImport, ImportInvariant
<1>3. PICK p : p = Min(Ids \ Created)
  OBVIOUS
<1>4. p \in Ids \ Created
  BY <1>3, FreshProduct DEF FactoryImport
<1>5. PICK content \in Contents, quantity \in Quantities : content = workbook[r] /\ quantity = content.quantity
  BY <1>2, ContentOfRow DEF TablesTyped
<1>6. content # Skipped /\ quantity # 0
  BY <1>2, <1>5, QuantityPositive DEF FactoryImport, Extracted, TablesTyped
<1>7. PICK new : new = [row |-> 0, code |-> FirstCode(p), content |-> content]
  OBVIOUS
<1>8. /\ new \in Product /\ new.content # Skipped /\ new.content \in Contents
      /\ new.code = FirstCode(p) /\ new.row = 0
  BY <1>4, <1>6, <1>7 DEF Product, Codes
<1>9. PICK order : order = [number |-> <<"sheet", r>>, product |-> p, line |-> TRUE, quantity |-> quantity]
  OBVIOUS
<1>10. order.line /\ order.number \in ForeignNumbers
  BY <1>9 DEF ForeignNumbers
<1>11. /\ products' = [products EXCEPT ![p] = new]
       /\ orders' = orders \cup {order}
       /\ items' = [items EXCEPT ![p] = quantity]
  BY <1>3, <1>5, <1>7, <1>9 DEF FactoryImport
<1>12. /\ Created' = Created \cup {p}
       /\ \A q : VersionsOf(q)' = VersionsOf(q) /\ OwnCodes(q)' = OwnCodes(q)
       /\ products'[p] = new /\ \A q \in Created : products'[q] = products[q] /\ q # p
       /\ ContentsOwned' /\ CodesOwned'
  BY <1>1, <1>2, <1>4, <1>8, <1>11, ProductMade DEF Unstopped
<1>13. RowsOwned'
  <2>1. 0 \notin Rows
    BY RowsAreNumbers
  <2> QED
    BY <1>1, <1>2, <1>8, <1>12, <2>1 DEF Unstopped, RowsOwned, RowSteps
<1>14. ImagesOwned'
  BY <1>1, <1>2, ImagesStayOwned DEF Unstopped, RowSteps
<1>15. NumbersOwned'
  BY <1>1, <1>10, <1>11, <1>12 DEF Unstopped, NumbersOwned
<1>16. ProductsTracked'
  <2>1. \A o \in orders : o.line
    BY <1>1 DEF Unstopped, ProductsTracked, InLoops, SyncSteps
  <2>2. items'[p] # 0 /\ \A q \in Created : items'[q] = items[q]
    BY <1>2, <1>4, <1>6, <1>11, CreatedAreIds DEF TablesTyped
  <2>3. order.product = p
    BY <1>9
  <2> QED
    BY <1>1, <1>10, <1>11, <1>12, <2>1, <2>2, <2>3, IdleTracked DEF Unstopped
<1> QED
  BY <1>1, <1>12, <1>13, <1>14, <1>15, <1>16 DEF Unstopped, ErrorsExplained

-----------------------------------------------------------------------------
(* The theorem about repetitions *)

LEMMA UnstoppedInit ==
    ASSUME InitImport
    PROVE  Unstopped
<1>1. Created = {} /\ orders = {} /\ pc = "idle" /\ edits = 0
  BY DEF InitImport, Created
<1>2. (\A p \in Ids : images[p] = 0) /\ \A r \in Rows : manifest[r].product = 0
  BY DEF InitImport, NotImported
<1>3. ImagesOwned
  BY <1>1, <1>2 DEF ImagesOwned
<1>4. RowsOwned /\ ContentsOwned /\ CodesOwned /\ NumbersOwned
  BY <1>1 DEF RowsOwned, ContentsOwned, CodesOwned, NumbersOwned
<1>5. ProductsTracked /\ ErrorsExplained
  BY <1>1 DEF ProductsTracked, ErrorsExplained, SyncSteps
<1> QED
  BY <1>3, <1>4, <1>5 DEF Unstopped

LEMMA UnstoppedStutters ==
    ASSUME Unstopped, UNCHANGED importVars
    PROVE  Unstopped'
<1>1. UNCHANGED <<workbook, products, manifest, images, orders, items, pc, row, todo, plan, edits>>
  BY DEF importVars
<1>2. SameLinks
  BY <1>1, LinksUntouched
<1>3. /\ Created' = Created /\ Imported' = Imported
      /\ \A p : VersionsOf(p)' = VersionsOf(p) /\ OwnCodes(p)' = OwnCodes(p)
  BY <1>2, LinksStay DEF SameLinks
<1>4. RowsOwned' /\ ImagesOwned'
  BY <1>1, <1>3 DEF Unstopped, RowsOwned, ImagesOwned
<1>5. ContentsOwned' /\ CodesOwned'
  BY <1>1, <1>3 DEF Unstopped, ContentsOwned, CodesOwned
<1>6. NumbersOwned'
  BY <1>1, <1>3 DEF Unstopped, NumbersOwned
<1>7. ProductsTracked' /\ ErrorsExplained'
  BY <1>1, <1>3 DEF Unstopped, ProductsTracked, ErrorsExplained, Extracted
<1> QED
  BY <1>4, <1>5, <1>6, <1>7 DEF Unstopped

LEMMA UnstoppedNext ==
    ASSUME ImportInvariant, Counted, stops = 0 => Unstopped, [NextImport]_importVars
    PROVE  stops' = 0 => Unstopped'
<1> SUFFICES ASSUME stops' = 0
             PROVE  Unstopped'
  OBVIOUS
<1>1. CASE Stop
  <2>1. stops' = stops + 1 /\ stops \in Nat
    BY <1>1 DEF Stop, Counted
  <2> QED
    BY <2>1
<1>2. CASE StartImport
  <2>1. stops' = stops
    BY <1>2 DEF StartImport, Outside
  <2> QED
    BY <1>2, <2>1, StartImportUnstopped
<1>3. CASE ImportStep
  <2>1. UNCHANGED Outside
    BY <1>3 DEF ImportStep, UpdateProduct, UpdateItem, UpdateLine, CreateProduct, RecordRow, SkipImage,
       RefuseImage, UploadImage, RecordImage, PlanSync, SyncDone, InsertOrder, InsertLine, InsertItem, PlanCodes,
       TemporaryCodes, FinalCodes, PlanNumbers, TemporaryNumbers, FinalNumbers
  <2>2. Unstopped
    BY <2>1 DEF Outside
  <2> QED
    BY <1>3, <2>2, UpdateProductUnstopped, UpdateItemUnstopped, UpdateLineUnstopped,
       CreateProductUnstopped, RecordRowUnstopped, SkipImageUnstopped, RefuseImageUnstopped, UploadImageUnstopped,
       RecordImageUnstopped, PlanSyncUnstopped, SyncDoneUnstopped, InsertOrderUnstopped,
       InsertLineUnstopped, InsertItemUnstopped, PlanCodesUnstopped, TemporaryCodesUnstopped,
       FinalCodesUnstopped, PlanNumbersUnstopped, TemporaryNumbersUnstopped, FinalNumbersUnstopped
       DEF ImportStep
<1>4. CASE CorrectWorkbook
  <2>1. stops' = stops
    BY <1>4 DEF CorrectWorkbook
  <2> QED
    BY <1>4, <2>1, CorrectWorkbookUnstopped
<1>5. ASSUME NEW p \in Ids, UserOrder(p)
      PROVE  Unstopped'
  <2>1. stops' = stops
    BY <1>5 DEF UserOrder
  <2> QED
    BY <1>5, <2>1, UserOrderUnstopped
<1>6. ASSUME NEW r \in Rows, FactoryImport(r)
      PROVE  Unstopped'
  <2>1. stops' = stops
    BY <1>6 DEF FactoryImport
  <2> QED
    BY <1>6, <2>1, FactoryImportUnstopped
<1>7. CASE UNCHANGED importVars
  <2>1. stops' = stops
    BY <1>7 DEF importVars
  <2> QED
    BY <1>7, <2>1, UnstoppedStutters
<1> QED
  BY <1>1, <1>2, <1>3, <1>4, <1>5, <1>6, <1>7 DEF NextImport

LEMMA AtMostOne ==
    ASSUME NEW S, \A x, y \in S : x = y
    PROVE  Cardinality(S) <= 1
<1>1. CASE S = {}
  BY <1>1, FS_EmptySet
<1>2. CASE S # {}
  <2>1. \E x : S = {x}
    BY <1>2
  <2>2. Cardinality(S) = 1
    BY <2>1, FS_Singleton
  <2> QED
    BY <2>2
<1> QED
  BY <1>1, <1>2

LEMMA UnstoppedMeansHarmless ==
    ASSUME ImportInvariant, stops = 0 => Unstopped
    PROVE  RepetitionIsHarmless
<1> SUFFICES ASSUME Unstopped
             PROVE  /\ \A r \in Rows : Cardinality({p \in Created : products[p].row = r}) <= 1
                    /\ \A p \in Created : images[p] <= 1 + edits
                    /\ pc = "error" =>
                          \/ \E o, other \in orders : o # other /\ o.product = other.product
                          \/ \E r \in Extracted : workbook[r].image \notin Pngs \cup {NoImage}
  BY DEF RepetitionIsHarmless
<1>1. ASSUME NEW r \in Rows
      PROVE  Cardinality({p \in Created : products[p].row = r}) <= 1
  <2>1. pc = "record" => manifest[row].product = 0
    BY DEF ImportInvariant, InRows, NotImported
  <2>2. 0 \notin Created
    BY CreatedAreIds, IdsAreNumbers
  <2>3. \A p \in Created : products[p].row = r =>
            \/ manifest[r].product = p
            \/ pc = "record" /\ r = row /\ todo = {p}
    BY <1>1 DEF Unstopped, RowsOwned
  <2>4. \A p, q \in {s \in Created : products[s].row = r} : p = q
    BY <2>1, <2>2, <2>3
  <2> QED
    BY <2>4, AtMostOne
<1>2. \A p \in Created : images[p] <= 1 + edits
  BY CreatedAreIds DEF Unstopped, ImagesOwned
<1>3. pc = "error" => \/ \E o, other \in orders : o # other /\ o.product = other.product
                      \/ \E r \in Extracted : workbook[r].image \notin Pngs \cup {NoImage}
  BY DEF Unstopped, ErrorsExplained
<1> QED
  BY <1>1, <1>2, <1>3

\* For any rows, workbooks and bounds: while the import was never stopped, repeating it creates no
\* second product for a row and uploads a picture at most once per content of the workbook, and
\* it ends with an error only where a product has a second order that a user entered or a row
\* has a picture that is not a PNG.
THEOREM RepetitionsHarmless == SpecImport => []RepetitionIsHarmless
<1>1. InitImport => ImportInvariant /\ Counted /\ (stops = 0 => Unstopped)
  BY ImportInit, UnstoppedInit DEF InitImport, Counted
<1>2. ImportInvariant /\ Counted /\ (stops = 0 => Unstopped) /\ [NextImport]_importVars =>
          ImportInvariant' /\ Counted' /\ (stops = 0 => Unstopped)'
  BY ImportNext, CountedStays, UnstoppedNext
<1>3. ImportInvariant /\ (stops = 0 => Unstopped) => RepetitionIsHarmless
  BY UnstoppedMeansHarmless
<1> QED
  BY <1>1, <1>2, <1>3, PTL DEF SpecImport

=============================================================================

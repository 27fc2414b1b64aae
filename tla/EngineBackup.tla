---------------------------- MODULE EngineBackup ----------------------------
(***************************************************************************)
(* Backup and restore of the engine's directory by the Server Tool, a      *)
(* process of its own that copies the snapshot and the journal while the   *)
(* server appends to them and compacts them.  A restore needs a stopped    *)
(* server; it may fail, and the machine may stop, between any two of its   *)
(* file operations.                                                        *)
(***************************************************************************)
EXTENDS SqlEngine

CONSTANTS
    MaxBackups,     \* bound: backup directories in a behaviour
    MaxRestores     \* bound: restores begun in a behaviour

ASSUME BackupAssumption == MaxBackups \in Nat /\ MaxRestores \in Nat

VARIABLES
    toolStep,   \* what the Tool does next
    copy,       \* the directory being filled: a backup, or the restore's temporary
    backups,    \* snapshot and journal of the backup directories
    live,       \* the engine's directory exists
    kept,       \* what the files held before the last removal
    restores    \* restores begun (bound)

toolVars == <<toolStep, copy, backups, live, kept, restores>>
backupVars == <<vars, toolVars>>

\* A compaction is about to truncate the journal, or a repair has not refilled it.
Rewriting == step \in {"truncate", "repair"}

\* "floor" collects the states acknowledged since the copying began, "rewritten" says
\* that a compaction or a repair was under way meanwhile.
NoCopy == [snap |-> EmptyDb, lines |-> <<>>, dangling |-> FALSE, floor |-> {},
           rewritten |-> FALSE]

InitBackup ==
    /\ Init
    /\ toolStep = "idle" /\ copy = NoCopy /\ backups = {}
    /\ live = TRUE /\ kept = {} /\ restores = 0

-----------------------------------------------------------------------------
(* The server's process *)

\* A step of the engine.  Opening creates the directory; a process that is down stays
\* so while the Tool restores.
EngineStep ==
    /\ Next
    /\ step = "down" => toolStep \in {"idle", "copyJournal", "check"}
    /\ live' = (live \/ step = "down")
    /\ copy' = IF toolStep = "copyJournal"
               THEN [copy EXCEPT !.floor = @ \cup expected',
                                 !.rewritten = @ \/ Rewriting]
               ELSE copy
    /\ UNCHANGED <<toolStep, backups, kept, restores>>

-----------------------------------------------------------------------------
(* backup_sqlite *)

\* The snapshot is copied first ...
CopySnapshot ==
    /\ toolStep = "idle"
    /\ live /\ Cardinality(backups) < MaxBackups
    /\ copy' = [NoCopy EXCEPT !.snap = snap, !.floor = expected, !.rewritten = Rewriting]
    /\ toolStep' = "copyJournal"
    /\ UNCHANGED <<vars, backups, live, kept, restores>>

\* Mutant: only the snapshot is copied.
CopyNoJournal ==
    /\ toolStep = "copyJournal"
    /\ copy' = [copy EXCEPT !.rewritten = @ \/ Rewriting]
    /\ toolStep' = "check"
    /\ UNCHANGED <<vars, backups, live, kept, restores>>

\* ... and the journal after it.
CopyJournal ==
    /\ toolStep = "copyJournal"
    /\ \E read \in Cuts :
        copy' = [copy EXCEPT !.lines = read.lines, !.dangling = read.dangling,
                             !.rewritten = @ \/ Rewriting]
    /\ toolStep' = "check"
    /\ UNCHANGED <<vars, backups, live, kept, restores>>

Loaded(b) == Recovered(b.snap, b.lines)

\* check_sqlite_backup: the engine opens the directory and finds a table in it.
ValidBackup(b) == Loaded(b) # Broken /\ Loaded(b).table

\* The engine that checks repairs a torn journal.
Checked(b) == [snap |-> b.snap, lines |-> GoodLines(b.lines),
               dangling |-> b.dangling /\ ~NeedsRepair(b.lines)]

\* A directory that does not verify stays where it is: only the message differs.
CheckBackup ==
    /\ toolStep = "check"
    /\ backups' = backups \cup {Checked(copy)}
    /\ copy' = NoCopy
    /\ toolStep' = "idle"
    /\ UNCHANGED <<vars, live, kept, restores>>

-----------------------------------------------------------------------------
(* restore_database, restore_sqlite_database *)

\* stop_server: the process ends between transactions; what a failed append left in
\* its buffer is written, in part or not at all.
StopServer ==
    /\ step = "idle"
    /\ Gone
    /\ CutOff
    /\ UNCHANGED <<snap, hit, expected, bounds>>

\* The chosen backup is checked, then the Tool's server stopped.  Without an engine
\* directory the Tool would restore the development database: not modelled.
BeginRestore(b) ==
    /\ toolStep = "idle" /\ live
    /\ restores < MaxRestores
    /\ restores' = restores + 1
    /\ ValidBackup(b)
    /\ StopServer \/ (step = "down" /\ UNCHANGED vars)
    /\ backups' = (backups \ {b}) \cup {Checked(b)}
    /\ copy' = [NoCopy EXCEPT !.snap = b.snap, !.lines = Checked(b).lines,
                              !.dangling = Checked(b).dangling]
    /\ toolStep' = "safety"
    /\ UNCHANGED <<live, kept>>

\* Mutant: the runtime is replaced without a safety backup.
NoSafetyBackup ==
    /\ toolStep = "safety"
    /\ toolStep' = "copyTree"
    /\ UNCHANGED <<vars, copy, backups, live, kept, restores>>

\* backup_sqlite of the stopped database.
SafetyBackup ==
    /\ toolStep = "safety"
    /\ backups' = backups \cup {[snap |-> snap, lines |-> journal, dangling |-> dangling]}
    /\ toolStep' = "copyTree"
    /\ UNCHANGED <<vars, copy, live, kept, restores>>

\* copytree to the temporary directory, and its check.
CopyTree ==
    /\ toolStep = "copyTree"
    /\ toolStep' = IF ValidBackup(copy) THEN "remove" ELSE "idle"
    /\ copy' = IF ValidBackup(copy) THEN copy ELSE NoCopy
    /\ UNCHANGED <<vars, backups, live, kept, restores>>

\* What is on disk becomes what callers may expect.
NewRuntime(s, lines, unended) ==
    /\ snap' = s /\ journal' = lines /\ dangling' = unended
    /\ expected' = {Recovered(s, lines)}
    /\ UNCHANGED <<step, mem, tx, handle, buffered, records, hit, bounds>>

RemoveRuntime ==
    /\ toolStep = "remove"
    /\ live' = FALSE
    /\ kept' = {Image}
    /\ NewRuntime(EmptyDb, <<>>, FALSE)
    /\ toolStep' = "replace"
    /\ UNCHANGED <<copy, backups, restores>>

ReplaceRuntime ==
    /\ toolStep = "replace"
    /\ live' = TRUE
    /\ NewRuntime(copy.snap, copy.lines, copy.dangling)
    /\ copy' = NoCopy
    /\ toolStep' = "idle"
    /\ UNCHANGED <<backups, kept, restores>>

\* The finally clause deletes the temporary directory; a removal that fails may have
\* deleted either file already.
RestoreFails ==
    /\ toolStep \in {"safety", "copyTree", "remove", "replace"}
    /\ \/ UNCHANGED <<vars, kept>>
       \/ /\ toolStep = "remove"
          /\ kept' = {Image}
          /\ \/ NewRuntime(EmptyDb, journal, dangling)
             \/ NewRuntime(snap, <<>>, FALSE)
    /\ copy' = NoCopy
    /\ toolStep' = "idle"
    /\ UNCHANGED <<backups, live, restores>>

NextBackup ==
    \/ EngineStep
    \/ CopySnapshot \/ CopyJournal \/ CheckBackup
    \/ \E b \in backups : BeginRestore(b)
    \/ SafetyBackup \/ CopyTree \/ RemoveRuntime \/ ReplaceRuntime \/ RestoreFails

SpecBackup == InitBackup /\ [][NextBackup]_backupVars

-----------------------------------------------------------------------------
(* Properties *)

\* backup_sqlite: "a commit landing between the two copies leaves a journal that is
\* newer than the snapshot, which is exactly the pair the engine replays on open".
\* The comment makes no exception; two are needed.  Unless a compaction or a repair is
\* under way while the files are copied, and as long as the engine's own files are what
\* callers expect, a backup loads into a state the server had acknowledged when the
\* copying began or later, whatever commits meanwhile.
BackupIsCurrent ==
    toolStep = "check" /\ ~copy.rewritten /\ hit = {} => Loaded(copy) \in copy.floor

\* A restore that fails or is cut off at any file operation leaves the data that was
\* there before in the engine's directory or in a backup that loads.
ACopySurvives ==
    kept # {} => \/ Image \in kept
                 \/ \E b \in backups : Loaded(b) \in kept

=============================================================================

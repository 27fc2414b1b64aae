----------------------------- MODULE ServerHost -----------------------------
(***************************************************************************)
(* The machine that hosts the server: the Server Tool with its settings,   *)
(* secrets, certificate pair and logon task, and the server processes that *)
(* the Tool and the logon task start.  Files are rewritten in place, so a  *)
(* stop may leave any of them torn.                                        *)
(***************************************************************************)
EXTENDS Integers

CONSTANTS
    Procs,          \* server processes
    HeadVersion,    \* the newest migration shipped
    MaxKeys,        \* bound: secrets and certificates generated
    NoProc

ASSUME HostAssumption == HeadVersion \in Nat \ {0} /\ MaxKeys \in Nat /\ NoProc \notin Procs

VARIABLES
    toolStep,   \* what the Tool does: "closed", "idle" or inside a handler
    memory,     \* _settings["start_server_with_windows"] in the Tool
    pref,       \* the same in settings.json; an unreadable file counts as TRUE
    wanted,     \* the box that was ticked last
    task,       \* the logon task exists
    diverged,   \* since the Tool opened, a command or a write of settings failed
    secret,     \* auth_secret and admin_password in the secrets file
    found,      \* the secrets create_production_secrets read
    unread,     \* history: in this set-up a good secrets file could not be read
    tls,        \* which generation the certificate and the key file hold
    schema,     \* newest migration in the engine's directory
    proc,       \* the server processes
    own         \* _server_process

toolVars == <<toolStep, memory, pref, wanted, task, diverged>>
secretVars == <<secret, found, unread>>
fileVars == <<secretVars, tls, schema>>
hostVars == <<toolVars, fileVars, proc, own>>

Torn == -1      \* a file cut off while it was written
None == [step |-> "none", schema |-> 0]
NoSecrets == [auth |-> 0, admin |-> 0]

InitHost ==
    /\ toolStep = "closed" /\ memory = TRUE /\ pref = TRUE /\ wanted = TRUE
    /\ task = FALSE /\ diverged = FALSE
    /\ secret = NoSecrets /\ found = {} /\ unread = FALSE
    /\ tls = [cert |-> 0, key |-> 0]
    /\ schema = 0
    /\ proc = [p \in Procs |-> None] /\ own = NoProc

Listening == {p \in Procs : proc[p].step = "listening"}
OwnRuns == own # NoProc /\ proc[own].step # "none"

\* tls_is_enabled: both files exist.
TlsEnabled == tls.cert # 0 /\ tls.key # 0

-----------------------------------------------------------------------------
(* Opening the Tool; the logon task *)

\* set_current_user_autostart, when schtasks does not fail.
SetAutostart(enabled) == task' = enabled

\* load_tool_settings, then showEvent: _reconcile_autostart_task.
OpenTool ==
    /\ toolStep = "closed"
    /\ toolStep' = "idle"
    /\ memory' = pref
    /\ \/ SetAutostart(pref) /\ diverged' = FALSE
       \/ task # pref /\ task' = task /\ diverged' = TRUE
    /\ UNCHANGED <<pref, wanted, fileVars, proc, own>>

\* update_autostart_preference: the task first ...
UpdateAutostart(enabled) ==
    /\ toolStep = "idle"
    /\ SetAutostart(enabled) /\ wanted' = enabled
    /\ toolStep' = "saving"
    /\ UNCHANGED <<memory, pref, diverged, fileVars, proc, own>>

\* Mutant: a preference that was not saved leaves the task as it is.
SaveWithoutRollback ==
    /\ toolStep = "saving"
    /\ toolStep' = "idle"
    /\ \/ /\ pref' = wanted /\ memory' = wanted
          /\ UNCHANGED <<task, diverged>>
       \/ UNCHANGED <<pref, memory, task, diverged>>
    /\ UNCHANGED <<wanted, fileVars, proc, own>>

\* ... then save_autostart_preference; when that fails, the task is set back, which may
\* fail as well, and the settings may be torn.
SaveAutostart ==
    /\ toolStep = "saving"
    /\ toolStep' = "idle"
    /\ \/ /\ pref' = wanted /\ memory' = wanted
          /\ UNCHANGED <<task, diverged>>
       \/ /\ SetAutostart(memory)
          /\ UNCHANGED <<pref, memory, diverged>>
       \/ /\ task' \in {task, memory} /\ pref' \in {pref, TRUE}
          /\ diverged' = TRUE
          /\ UNCHANGED memory
    /\ UNCHANGED <<wanted, fileVars, proc, own>>

\* save_tool_settings writes the preference it finds in the file.
KeepPreference == pref' = pref

\* save_locations, then everything is reloaded.
SaveLocations ==
    /\ toolStep = "idle"
    /\ KeepPreference
    /\ memory' = pref'
    /\ UNCHANGED <<toolStep, wanted, task, diverged, fileVars, proc, own>>

-----------------------------------------------------------------------------
(* Secrets and certificates *)

\* Mutant: every set-up creates the secrets anew.
NothingFound(readable) == {}

\* "stored" of create_production_secrets: a file that cannot be read, torn or only not
\* readable now ("except (OSError, JSONDecodeError)"), counts as an empty one.
Found(readable) ==
    {name \in {"auth", "admin"} : readable /\ secret[name] > 0}

\* setup_production_server up to the read of create_production_secrets.
BeginSetup ==
    /\ toolStep = "idle"
    /\ toolStep' = "secrets"
    /\ \E readable \in BOOLEAN :
          /\ found' = Found(readable)
          /\ unread' = (~readable /\ secret.auth > 0)
    /\ UNCHANGED <<memory, pref, wanted, task, diverged, secret, tls, schema, proc, own>>

Generated == {secret.auth, tls.cert, tls.key}
Fresh == {n \in 1..MaxKeys : \A g \in Generated : n > g}

\* save_server_secret reads the file again and writes it with one secret more; what it
\* cannot read is dropped.
SaveSecret(name, n) ==
    \/ /\ secret' = [IF secret.auth = Torn THEN NoSecrets ELSE secret EXCEPT ![name] = n]
       /\ UNCHANGED unread
    \/ /\ secret.auth > 0
       /\ secret' = [NoSecrets EXCEPT ![name] = n]
       /\ unread' = TRUE

\* create_production_secrets, the first round of its loop ...
CreateAuthSecret ==
    /\ toolStep = "secrets"
    /\ IF "auth" \in found THEN UNCHANGED <<secret, unread>>
       ELSE \E n \in Fresh : SaveSecret("auth", n)
    /\ toolStep' = "password"
    /\ UNCHANGED <<memory, pref, wanted, task, diverged, found, tls, schema, proc, own>>

\* _create_standalone_database makes an empty directory.  _run_production_migrations
\* calls run_migrations without its argument "now": the set-up always ends here.
EndSetup == toolStep' = "idle" /\ found' = {} /\ UNCHANGED <<tls, schema>>

\* ... and the second.
CreateAdminPassword ==
    /\ toolStep = "password"
    /\ IF "admin" \in found THEN UNCHANGED <<secret, unread>> ELSE SaveSecret("admin", 1)
    /\ EndSetup
    /\ UNCHANGED <<memory, pref, wanted, task, diverged, proc, own>>

\* The secrets file is being written.
WritingSecrets == \/ toolStep = "secrets" /\ "auth" \notin found
                  \/ toolStep = "password" /\ "admin" \notin found

TornSecrets == [auth |-> Torn, admin |-> 0]

\* DPAPI or the write fails, and with it the set-up.
SecretNotSaved ==
    /\ WritingSecrets
    /\ secret' \in {secret, TornSecrets}
    /\ EndSetup
    /\ UNCHANGED <<memory, pref, wanted, task, diverged, unread, proc, own>>

\* ensure_lan_certificate, generate_self_signed_certificate: the certificate is
\* written first.
WriteCertificate ==
    /\ toolStep = "idle"
    /\ ~TlsEnabled
    /\ \E n \in Fresh : tls' = [tls EXCEPT !.cert = n]
    /\ toolStep' = "key"
    /\ UNCHANGED <<memory, pref, wanted, task, diverged, secretVars, schema, proc, own>>

-----------------------------------------------------------------------------
(* Server processes *)

\* load_server_secret finds what production_server_environment needs.
SecretsUsable == secret.auth > 0 /\ secret.admin > 0

Starting == [None EXCEPT !.step = "starting"]

\* _apply_engine_migrations, then a process; the Tool only looks at the port.
Started(p) ==
    /\ SecretsUsable /\ proc[p] = None
    /\ schema' = HeadVersion
    /\ proc' = [proc EXCEPT ![p] = Starting]
    /\ own' = p

StartServer(p) ==
    /\ toolStep = "idle" /\ Listening = {}
    /\ Started(p)
    /\ UNCHANGED <<toolVars, secretVars, tls>>

\* run_migrations commits after every migration: a failure keeps the earlier ones.
MigrationFails ==
    /\ toolStep = "idle" /\ Listening = {} /\ SecretsUsable
    /\ schema' \in schema..HeadVersion
    /\ UNCHANGED <<toolVars, secretVars, tls, proc, own>>

\* production_launcher, at a logon: no migrations.
LogOn(p) ==
    /\ task /\ SecretsUsable /\ proc[p] = None
    /\ proc' = [proc EXCEPT ![p] = Starting]
    /\ UNCHANGED <<toolVars, fileVars, own>>

\* require_database_schema_current
SchemaCurrent(n) == n >= HeadVersion

\* Importing app opens the engine and checks its schema.
ImportApp(p) ==
    /\ proc[p].step = "starting"
    /\ proc' = [proc EXCEPT ![p] = IF SchemaCurrent(schema)
                                   THEN [step |-> "loaded", schema |-> schema]
                                   ELSE None]
    /\ UNCHANGED <<toolVars, fileVars, own>>

\* One process gets the port; a torn key ends the start.
Bind(p) ==
    /\ proc[p].step = "loaded"
    /\ proc' = [proc EXCEPT ![p] = IF Listening = {} /\ tls.key # Torn
                                   THEN [@ EXCEPT !.step = "listening"] ELSE None]
    /\ UNCHANGED <<toolVars, fileVars, own>>

Stopped(p) == [proc EXCEPT ![p] = None]

StopServer ==
    /\ toolStep = "idle" /\ OwnRuns
    /\ proc' = Stopped(own)
    /\ UNCHANGED <<toolVars, fileVars, own>>

\* The key follows; a server of the Tool is restarted with the pair.
WriteKey ==
    /\ toolStep = "key"
    /\ tls' = [tls EXCEPT !.key = tls.cert]
    /\ proc' = IF OwnRuns THEN [proc EXCEPT ![own] = IF Listening \subseteq {own}
                                                     THEN Starting ELSE None]
               ELSE proc
    /\ schema' = IF OwnRuns /\ Listening \subseteq {own} THEN HeadVersion ELSE schema
    /\ toolStep' = "idle"
    /\ UNCHANGED <<memory, pref, wanted, task, diverged, secretVars, own>>

\* restart_external_server: the listening process is killed, the Tool starts its own.
RestartExternal(p) ==
    /\ toolStep = "idle" /\ ~OwnRuns /\ Listening # {}
    /\ SecretsUsable /\ (proc[p] = None \/ p \in Listening)
    /\ proc' = [q \in Procs |-> IF q = p THEN Starting
                                ELSE IF q \in Listening THEN None ELSE proc[q]]
    /\ schema' = HeadVersion
    /\ own' = p
    /\ UNCHANGED <<toolVars, secretVars, tls>>

\* restore_database: any backup may be chosen.  Only a listening server of others is
\* seen.  The Tool's own server is started again, and with it the migrations, unless
\* another one listens.
RestoreDatabase(n) ==
    /\ toolStep = "idle"
    /\ Listening # {} => OwnRuns
    /\ IF OwnRuns /\ Listening \subseteq {own}
       THEN schema' = HeadVersion /\ proc' = [proc EXCEPT ![own] = Starting]
       ELSE schema' = n /\ proc' = IF OwnRuns THEN Stopped(own) ELSE proc
    /\ UNCHANGED <<toolVars, secretVars, tls, own>>

\* closeEvent stops the Tool's server.
CloseTool ==
    /\ toolStep = "idle"
    /\ toolStep' = "closed"
    /\ proc' = IF OwnRuns THEN Stopped(own) ELSE proc
    /\ own' = NoProc
    /\ UNCHANGED <<memory, pref, wanted, task, diverged, fileVars>>

\* A server process ends by itself.
ServerDies(p) ==
    /\ proc[p].step # "none"
    /\ proc' = Stopped(p)
    /\ UNCHANGED <<toolVars, fileVars, own>>

\* The machine stops.  The file being written may be torn.
MachineStops ==
    /\ toolStep' = "closed"
    /\ proc' = [p \in Procs |-> None] /\ own' = NoProc
    /\ pref' \in {pref, TRUE} /\ (toolStep # "saving" => pref' = pref)
    /\ secret' \in {secret, TornSecrets} /\ (~WritingSecrets => secret' = secret)
    /\ found' = {}
    /\ tls' \in {tls, [tls EXCEPT !.key = Torn]} /\ (toolStep # "key" => tls' = tls)
    /\ UNCHANGED <<memory, wanted, task, diverged, unread, schema>>

NextHost ==
    \/ OpenTool \/ SaveAutostart \/ SaveLocations \/ BeginSetup \/ CreateAuthSecret
    \/ CreateAdminPassword \/ SecretNotSaved \/ WriteCertificate \/ WriteKey \/ MigrationFails
    \/ StopServer \/ CloseTool
    \/ MachineStops
    \/ \E enabled \in BOOLEAN : UpdateAutostart(enabled)
    \/ \E n \in 1..HeadVersion : RestoreDatabase(n)
    \/ \E p \in Procs : \/ StartServer(p) \/ LogOn(p) \/ ImportApp(p) \/ Bind(p)
                        \/ RestartExternal(p) \/ ServerDies(p)

SpecHost == InitHost /\ [][NextHost]_hostVars

-----------------------------------------------------------------------------
(* Properties *)

\* While the Tool is open the logon task exists exactly when the preference says so,
\* also after a preference that could not be saved.  A command or a write that fails
\* leaves the two apart until the Tool is opened again.
AutostartFollowsPreference == toolStep = "idle" /\ ~diverged => task = memory

\* create_production_secrets: "once without rotating a live Server"; ensure_lan_certificate:
\* "an existing pair is never rotated silently".  The first is not true without exception:
\* a set-up that could not read a good secrets file replaces the secret, or drops it with
\* the password it writes.  In every other case only a torn file is written again, and a
\* key file always belongs to its certificate.
KeysAreKept ==
    [][/\ secret.auth > 0 /\ secret'.auth # Torn => secret'.auth = secret.auth \/ unread'
       /\ TlsEnabled => tls' = tls
       /\ tls'.key \in {0, Torn, tls'.cert}]_hostVars

=============================================================================

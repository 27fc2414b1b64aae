------------------------------ MODULE License -------------------------------
(***************************************************************************)
(* The licence gate of the desktop: LicenseClient with its licence file,   *)
(* DesktopLicenseGate and the two screens.  The licence file belongs to    *)
(* the machine, so desktops started side by side share it; a check reads   *)
(* it, waits for the licence server, and writes a renewal afterwards.  All *)
(* of them write through one staging file, in steps that may interleave.   *)
(***************************************************************************)
EXTENDS Naturals

CONSTANTS
    Desktops,       \* desktop processes of this machine
    Licences,       \* signed envelopes that may turn up
    GraceDays,      \* GRACE_DAYS
    MaxDay,         \* bound: days the clock moves on
    Absent, Unreadable,
    Empty           \* a staging file that was opened and not written yet

ASSUME LicenseAssumption ==
    /\ Licences \subseteq [signed : BOOLEAN, hwid : {"this", "other"},
                           product : {"this", "other"}, expires : Nat]
    /\ {Absent, Unreadable, Empty} \cap Licences = {}
    /\ Absent # Unreadable /\ Empty \notin {Absent, Unreadable}
    /\ GraceDays \in Nat /\ MaxDay \in Nat

VARIABLES
    store,      \* the licence file
    today,      \* the clock, in days
    desk,       \* each desktop's progress through the gate
    staging,    \* <product>.lic.tmp
    overlapped  \* two desktops had the staging file in use at once (history)

licenceFiles == <<store, staging, overlapped>>
licenseVars == <<store, today, desk, staging, overlapped>>

\* The server's body: "none" when there is no usable answer (_online_verify), otherwise
\* ok with an envelope that may be missing, or a reason.
Reasons == {"revoked", "expired", "hwid_mismatch", "other"}
Answers == [kind : {"ok"}, signed : Licences \cup {Absent}]
           \cup [kind : Reasons \cup {"none"}, signed : {Absent}]

Off == [step |-> "off", stored |-> Absent, day |-> 0, status |-> "none",
        again |-> FALSE, unlocked |-> FALSE, writer |-> "none", pending |-> Absent]

InitLicense ==
    /\ store \in {Absent, Unreadable} \cup Licences
    /\ today = 0 /\ staging = Absent /\ overlapped = FALSE
    /\ desk = [d \in Desktops |-> Off]

\* load_signed
Verifies(signed) == signed \in Licences /\ signed.signed

\* _refusal, on what _verified_payload makes of the envelope.
Refusal(signed) ==
    CASE ~Verifies(signed) -> "unverified"
      [] Verifies(signed) /\ signed.hwid # "this" -> "hwid"
      [] Verifies(signed) /\ signed.hwid = "this" /\ signed.product # "this" -> "product"
      [] OTHER -> "none"

LicenseStatus(licence, now) ==
    IF now <= licence.expires THEN "ok"
    ELSE IF now <= licence.expires + GraceDays THEN "grace" ELSE "expired"

\* check_at_launch up to the question to the server; the machine's fingerprint may be
\* impossible to compute.
LocalDecision(licence, fingerprint, now) ==
    IF licence = Absent THEN "no-license"
    ELSE IF licence = Unreadable THEN "hwid-mismatch"
    ELSE CASE ~Verifies(licence) -> "hwid-mismatch"
           [] Verifies(licence) /\ ~fingerprint -> "hwid-error"
           [] Refusal(licence) = "none" /\ fingerprint -> LicenseStatus(licence, now)
           [] OTHER -> "hwid-mismatch"

\* startup_check begins.
Launch(d) ==
    /\ desk[d].step = "off"
    /\ desk' = [desk EXCEPT ![d].step = "check"]
    /\ UNCHANGED <<licenceFiles, today>>

CheckAtLaunch(d) ==
    /\ desk[d].step = "check"
    /\ \E fingerprint \in BOOLEAN :
        LET local == LocalDecision(store, fingerprint, today)
        IN  desk' = [desk EXCEPT ![d].stored = store, ![d].day = today, ![d].status = local,
                                 ![d].step = IF local \in {"ok", "grace", "expired"}
                                             THEN "asking" ELSE "decide"]
    /\ UNCHANGED <<licenceFiles, today>>

\* check_at_launch after an answer that is not written.
StatusAfter(local, answer) ==
    IF answer.kind = "ok"
    THEN IF Refusal(answer.signed) = "hwid" THEN "hwid-mismatch" ELSE local
    ELSE CASE local = "expired" -> local
           [] local # "expired" /\ answer.kind \in {"revoked", "expired"} -> answer.kind
           [] local # "expired" /\ answer.kind = "hwid_mismatch" -> "hwid-mismatch"
           [] OTHER -> "offline-ok"

\* A renewal is written; so is any other acceptable licence that differs.
WritesAnswer(d, answer) ==
    /\ answer.kind = "ok" /\ Refusal(answer.signed) = "none"
    /\ desk[d].status = "expired" \/ answer.signed # desk[d].stored

\* _write_signed is called with the licence.
Writes(d, writer, licence) ==
    /\ desk' = [desk EXCEPT ![d].step = "write", ![d].writer = writer, ![d].pending = licence]
    /\ UNCHANGED <<licenceFiles, today>>

OnlineVerify(d, answer) ==
    /\ desk[d].step = "asking"
    /\ IF WritesAnswer(d, answer)
       THEN Writes(d, "check", answer.signed)
       ELSE /\ desk' = [desk EXCEPT ![d].step = "decide",
                                    ![d].status = StatusAfter(desk[d].status, answer)]
            /\ UNCHANGED <<licenceFiles, today>>

\* The desktops that opened the staging file and have not renamed it.
UsesStaging(d) == desk[d].step \in {"opened", "written"}

\* staging.write_text: the file is opened and emptied ...
OpenStaging(d) ==
    /\ desk[d].step = "write"
    /\ desk' = [desk EXCEPT ![d].step = "opened"]
    /\ staging' = Empty
    /\ overlapped' = (overlapped \/ \E e \in Desktops \ {d} : UsesStaging(e))
    /\ UNCHANGED <<store, today>>

\* ... and written from its beginning: over what another desktop wrote since, the longer
\* of the two shows its end.
WriteStaging(d) ==
    /\ desk[d].step = "opened"
    /\ desk' = [desk EXCEPT ![d].step = "written"]
    /\ staging' \in IF staging = Empty THEN {desk[d].pending}
                    ELSE {desk[d].pending, Unreadable}
    /\ UNCHANGED <<store, overlapped, today>>

\* A file that another process has open is neither renamed nor removed (Windows).
HeldByAnother(d) == \E e \in Desktops \ {d} : desk[e].step = "opened"

\* Mutant: the app starts on what the activation claimed.
AcceptedAtOnce(r) ==
    [r EXCEPT !.step = "passed", !.unlocked = r.writer = "unlock"]

\* The dialog was accepted.  After "activate" the gate checks again, after the lock
\* screen the app starts.
Accepted(r) ==
    [r EXCEPT !.step = IF r.writer = "activate" THEN "check" ELSE "passed",
              !.again = TRUE, !.unlocked = r.writer = "unlock"]

\* The check goes on with its verdict, which a renewal repairs.
Checked(r) ==
    IF r.status = "expired"
    THEN [r EXCEPT !.step = "decide", !.stored = r.pending, !.day = today,
                   !.status = LicenseStatus(r.pending, today)]
    ELSE [r EXCEPT !.step = "decide"]

\* os.replace publishes what the staging file holds by now; the caller goes on with the
\* licence it meant to write.
ReplaceStaging(d) ==
    /\ desk[d].step = "written" /\ staging # Absent /\ ~HeldByAnother(d)
    /\ store' = IF staging \in Licences THEN staging ELSE Unreadable
    /\ staging' = Absent
    /\ LET after == IF desk[d].writer = "check" THEN Checked(desk[d]) ELSE Accepted(desk[d])
       IN  desk' = [desk EXCEPT ![d] = [after EXCEPT !.writer = "none", !.pending = Absent]]
    /\ UNCHANGED <<overlapped, today>>

\* Opening, writing or renaming raises: the staging file is removed if it can be.
\* startup_check reports the failure as a refusal, a dialog stays open.
WriteFails(d) ==
    /\ desk[d].step = "write" \/ UsesStaging(d)
    /\ staging' \in IF HeldByAnother(d) THEN {staging} ELSE {staging, Absent}
    /\ desk' = [desk EXCEPT ![d] =
            IF desk[d].writer = "check" THEN Off
            ELSE [@ EXCEPT !.step = desk[d].writer, !.writer = "none", !.pending = Absent]]
    /\ UNCHANGED <<store, overlapped, today>>

\* decide_action
DecideAction(status) ==
    CASE status \in {"ok", "offline-ok", "grace"} -> "allow"
      [] status \in {"expired", "revoked"} -> "lock"
      [] OTHER -> "activate"

\* _startup_check and _recheck_allows: the second check only allows or refuses.
Decide(d) ==
    /\ desk[d].step = "decide"
    /\ LET action == DecideAction(desk[d].status)
       IN  desk' = [desk EXCEPT ![d] =
                IF action = "allow" THEN [@ EXCEPT !.step = "passed", !.status = "none"]
                ELSE IF desk[d].again THEN Off
                ELSE [Off EXCEPT !.step = action]]
    /\ UNCHANGED <<licenceFiles, today>>

DialogOpen(d) == desk[d].step \in {"activate", "unlock"}

\* activate stores a licence that is not refused; every other answer leaves the dialog
\* open.
Activates(answer) == answer.kind = "ok" /\ Refusal(answer.signed) = "none"

ActivateOnline(d, answer) ==
    /\ DialogOpen(d)
    /\ Activates(answer)
    /\ Writes(d, desk[d].step, answer.signed)

\* import_license_file: the product is not looked at.
Importable(licence) == Verifies(licence) /\ licence.hwid = "this"

ActivateOffline(d, licence) ==
    /\ DialogOpen(d)
    /\ Importable(licence)
    /\ Writes(d, desk[d].step, licence)

CloseDialog(d) ==
    /\ DialogOpen(d)
    /\ desk' = [desk EXCEPT ![d] = IF desk[d].step = "activate" THEN Off
                                   ELSE [@ EXCEPT !.step = "lock"]]
    /\ UNCHANGED <<licenceFiles, today>>

\* LockScreen: reactivate or quit, nothing else closes it.
LockScreen(d) ==
    /\ desk[d].step = "lock"
    /\ \/ desk' = [desk EXCEPT ![d].step = "unlock"]
       \/ desk' = [desk EXCEPT ![d] = Off]
    /\ UNCHANGED <<licenceFiles, today>>

NextDay ==
    /\ today < MaxDay
    /\ today' = today + 1
    /\ UNCHANGED <<licenceFiles, desk>>

\* The program ends, or stops at any point.
Exit(d) ==
    /\ desk[d].step # "off"
    /\ desk' = [desk EXCEPT ![d] = Off]
    /\ UNCHANGED <<licenceFiles, today>>

\* The gate of one desktop.
GateStep(d) ==
    \/ Launch(d) \/ CheckAtLaunch(d)
    \/ \E answer \in Answers :
        OnlineVerify(d, answer) \/ ActivateOnline(d, answer)
    \/ OpenStaging(d) \/ WriteStaging(d) \/ ReplaceStaging(d) \/ WriteFails(d)
    \/ Decide(d)
    \/ \E licence \in Licences : ActivateOffline(d, licence)
    \/ CloseDialog(d) \/ LockScreen(d) \/ Exit(d)

NextLicense == NextDay \/ \E d \in Desktops : GateStep(d)

SpecLicense == InitLicense /\ [][NextLicense]_licenseVars

-----------------------------------------------------------------------------
(* Properties *)

\* A desktop that is past the gate rests on a check of its own: the licence it read or
\* was sent is signed, for this machine and this product, and was at most GRACE_DAYS over
\* on the day of the check; except when it came through the lock screen, which checks
\* nothing again.  Whatever the desktops and the server wrote meanwhile, the file still
\* holds a signed licence of this machine, unless two desktops ever had the staging file
\* in use at once: then one may publish the mixture, or the empty file of one that was
\* stopped, which _write_signed says cannot happen ("cannot leave a half-written licence
\* behind").
RunsLicensed ==
    \A d \in Desktops : desk[d].step = "passed" =>
        /\ ~overlapped => store \in Licences /\ store.signed /\ store.hwid = "this"
        /\ ~desk[d].unlocked =>
            LET licence == desk[d].stored
            IN  /\ licence \in Licences /\ licence.signed
                /\ licence.hwid = "this" /\ licence.product = "this"
                /\ desk[d].day <= licence.expires + GraceDays

=============================================================================

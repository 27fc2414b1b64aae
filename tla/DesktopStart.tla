---------------------------- MODULE DesktopStart ----------------------------
(***************************************************************************)
(* The start of the desktop behind the licence gate: the server is taken   *)
(* from the environment, from server.json, from LAN discovery or from the  *)
(* operator, credentials are typed or remembered, and only then does the   *)
(* login go out.  Servers come and go at any time.                         *)
(***************************************************************************)
EXTENDS License

CONSTANTS
    LanUrls,        \* http addresses of the LAN
    RelayUrls,      \* https addresses
    NoUrl

ASSUME UrlAssumption == NoUrl \notin LanUrls \cup RelayUrls /\ LanUrls \cap RelayUrls = {}

Urls == LanUrls \cup RelayUrls

VARIABLES
    ready,      \* the servers that answer the readiness probe
    answered,   \* the ones that ever did (history)
    saved,      \* server.json
    remembered, \* credentials.json exists
    session     \* each desktop behind the gate

startVars == <<ready, answered, saved, remembered, session>>
desktopVars == <<licenseVars, startVars>>

NoSession == [step |-> "closed", url |-> NoUrl, asked |-> FALSE]

InitDesktop ==
    /\ InitLicense
    /\ ready \in SUBSET Urls /\ answered = ready
    /\ saved \in ready \cup {NoUrl}
    /\ remembered \in BOOLEAN
    /\ session = [d \in Desktops |-> NoSession]

\* A server starts, stops, or loses its database.
ServerChanges(url) ==
    /\ ready' = IF url \in ready THEN ready \ {url} ELSE ready \cup {url}
    /\ answered' = answered \cup ready'
    /\ UNCHANGED <<saved, remembered, session, licenseVars>>

Goes(d, step, url) ==
    session' = [session EXCEPT ![d].step = step, ![d].url = url]

\* The start ends with a message: the process exits.
Abandons(d) ==
    /\ session' = [session EXCEPT ![d] = NoSession]
    /\ desk' = [desk EXCEPT ![d] = Off]
    /\ UNCHANGED <<ready, answered, saved, remembered, licenceFiles, today>>

\* The gate let the launch through.
GatePassed(d) ==
    /\ desk[d].step = "passed" /\ session[d].step = "closed"
    /\ Goes(d, "resolve", NoUrl)
    /\ UNCHANGED <<ready, answered, saved, remembered, licenseVars>>

\* desktop_server_url: an explicit https address is taken as it is.
ExplicitRelay(d, url) ==
    /\ session[d].step = "resolve" /\ url \in RelayUrls
    /\ Goes(d, "login", url)
    /\ UNCHANGED <<ready, answered, saved, remembered, licenseVars>>

\* resolve_server_url with a configured http address: an unready one ends the start.
ConfiguredServer(d, url) ==
    /\ session[d].step = "resolve" /\ url \in LanUrls
    /\ IF url \in ready
       THEN /\ saved' = url
            /\ Goes(d, "login", url)
            /\ UNCHANGED <<ready, answered, remembered, licenseVars>>
       ELSE Abandons(d)

SavedServer(d) ==
    /\ session[d].step = "resolve"
    /\ IF saved \in ready THEN Goes(d, "login", saved) ELSE Goes(d, "discover", NoUrl)
    /\ UNCHANGED <<ready, answered, saved, remembered, licenseVars>>

\* discover_server_url returns an address that answered the probe; without an answer
\* in time the operator is asked.
DiscoverServer(d) ==
    /\ session[d].step = "discover" /\ session[d].url = NoUrl
    /\ \/ \E url \in ready : Goes(d, IF session[d].asked THEN "dialog" ELSE "discover", url)
       \/ session' = [session EXCEPT ![d].step = "dialog", ![d].asked = TRUE]
    /\ UNCHANGED <<ready, answered, saved, remembered, licenseVars>>

\* resolve_server_url probes the address again before it is saved.
ConfirmDiscovered(d) ==
    /\ session[d].step = "discover" /\ session[d].url # NoUrl
    /\ IF session[d].url \in ready
       THEN saved' = session[d].url /\ Goes(d, "login", session[d].url)
       ELSE /\ session' = [session EXCEPT ![d].step = "dialog", ![d].asked = TRUE,
                                          ![d].url = NoUrl]
            /\ UNCHANGED saved
    /\ UNCHANGED <<ready, answered, remembered, licenseVars>>

\* ServerSelectionDialog: type an address, search again, connect or cancel.
TypeServer(d, url) ==
    /\ session[d].step = "dialog"
    /\ \/ Goes(d, "dialog", url)
       \/ Goes(d, "discover", NoUrl)
    /\ UNCHANGED <<ready, answered, saved, remembered, licenseVars>>

\* Mutant: the address is saved without a probe.
AcceptAnyServer(d) ==
    /\ session[d].step = "dialog" /\ session[d].url # NoUrl
    /\ saved' = session[d].url
    /\ Goes(d, "login", session[d].url)
    /\ UNCHANGED <<ready, answered, remembered, licenseVars>>

AcceptIfReady(d) ==
    /\ session[d].step = "dialog" /\ session[d].url \in ready
    /\ saved' = session[d].url
    /\ Goes(d, "login", session[d].url)
    /\ UNCHANGED <<ready, answered, remembered, licenseVars>>

CancelDialog(d) == session[d].step \in {"dialog", "login"} /\ Abandons(d)

\* desktop_login_details and verify_server_readiness: the probe comes before the
\* credentials go out.
VerifyServer(d) ==
    /\ session[d].step = "login"
    /\ IF session[d].url \in ready
       THEN /\ Goes(d, "send", session[d].url)
            /\ UNCHANGED <<ready, answered, saved, remembered, licenseVars>>
       ELSE Abandons(d)

\* save_credentials or delete_credentials
Remember == remembered' \in BOOLEAN

\* login; only after it the credentials are kept or removed.
LogIn(d) ==
    /\ session[d].step = "send"
    /\ \/ /\ session[d].url \in ready
          /\ Remember
          /\ Goes(d, "open", session[d].url)
          /\ UNCHANGED <<ready, answered, saved, licenseVars>>
       \/ Abandons(d)

CloseDesktop(d) == session[d].step = "open" /\ Abandons(d)

NextDesktop ==
    \/ \E url \in Urls : ServerChanges(url)
    \/ \E d \in Desktops :
        \/ session[d].step = "closed" /\ GateStep(d) /\ UNCHANGED startVars
        \/ GatePassed(d) \/ SavedServer(d) \/ DiscoverServer(d) \/ ConfirmDiscovered(d)
        \/ \E url \in Urls :
            ExplicitRelay(d, url) \/ ConfiguredServer(d, url) \/ TypeServer(d, url)
        \/ AcceptIfReady(d) \/ CancelDialog(d) \/ VerifyServer(d) \/ LogIn(d)
        \/ CloseDesktop(d)

SpecDesktop == InitDesktop /\ [][NextDesktop]_desktopVars

-----------------------------------------------------------------------------
(* Properties *)

\* ServerSelectionDialog: "without accepting an unready endpoint".  Credentials go only
\* to a server that has answered the readiness probe, and only from a desktop the
\* licence gate let through; server.json never names another server, whichever way the
\* address was found and however servers came and went meanwhile.
OnlyReadyServersAreTrusted ==
    /\ saved \in answered \cup {NoUrl}
    /\ \A d \in Desktops : session[d].step \in {"send", "open"} =>
        session[d].url \in answered /\ desk[d].step = "passed"

=============================================================================

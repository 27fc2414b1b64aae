------------------------------- MODULE MCSite -------------------------------
(***************************************************************************)
(* Small instances of the parts around the server: accounts, the licence   *)
(* gate and the start of a desktop, the monthly import, the host with its  *)
(* Tool, backup bundles and releases.  They share no state, so each        *)
(* behaviour runs one part and leaves the others alone.                    *)
(***************************************************************************)
EXTENDS Accounts, DesktopStart, MonthlyImport, ServerHost, BackupBundle, Releases

CONSTANTS n1, n2, short, d1, d2, a, a2, b, picture, other, jpeg

VARIABLE part   \* the part this behaviour runs

siteVars == <<part, accountVars, desktopVars, importVars, hostVars, bundleVars, releaseVars>>

TwoNames == {n1, n2}
SomeNames == {n1, n2, short}

\* A demotion with a deactivation; the Tool changes one field at a time.
AccountPatches == {[NoChange EXCEPT !.role = "EDITOR", !.active = FALSE]}

Licence(signed, hwid, product, expires) ==
    [signed |-> signed, hwid |-> hwid, product |-> product, expires |-> expires]

\* A forgery, other machines' and other products' licences, one that runs out and its
\* renewal.
SomeLicences ==
    {Licence(FALSE, "this", "this", 9), Licence(TRUE, "other", "this", 9),
     Licence(TRUE, "this", "other", 9), Licence(TRUE, "this", "this", 0),
     Licence(TRUE, "this", "this", 9)}

Line(code, quantity, image) == [code |-> code, quantity |-> quantity, image |-> image]

\* Two rows; a correction changes names, quantity and picture, drops a row, or adds a
\* picture that is not a PNG.
TwoRows == {1, 2}
FewWorkbooks == {<<Line(a, 1, picture), Line(b, 1, NoImage)>>,
                   <<Line(a2, 2, other), Line(b, 1, NoImage)>>,
                   <<Line(a, 1, picture), Skipped>>,
                   <<Line(a, 1, jpeg), Line(b, 1, NoImage)>>}

InitSite ==
    /\ part \in {"accounts", "licence", "desktop", "import", "host", "bundles", "releases"}
    /\ InitAccounts /\ InitDesktop /\ InitImport /\ InitHost /\ InitBundles /\ InitReleases
    /\ part # "desktop" => ready = {} /\ saved = NoUrl /\ ~remembered
    /\ part \notin {"licence", "desktop"} => store = Absent
    /\ part # "import" => workbook = <<Line(a, 1, picture), Line(b, 1, NoImage)>>

\* Two desktops share the licence file; one is enough for the choice of a server.
OneDesktop == part = "desktop" => Cardinality({d \in Desktops : desk[d] # Off}) <= 1

\* The desktops are alike.
AlikeDesktops == Permutations(Desktops)

NextSite ==
    /\ UNCHANGED part
    /\ \/ /\ part = "accounts" /\ NextAccounts
          /\ UNCHANGED <<desktopVars, importVars, hostVars, bundleVars, releaseVars>>
       \/ /\ part = "licence" /\ NextLicense
          /\ UNCHANGED <<accountVars, startVars, importVars, hostVars, bundleVars, releaseVars>>
       \/ /\ part = "desktop" /\ NextDesktop /\ OneDesktop'
          /\ UNCHANGED <<accountVars, importVars, hostVars, bundleVars, releaseVars>>
       \/ /\ part = "import" /\ NextImport
          /\ UNCHANGED <<accountVars, desktopVars, hostVars, bundleVars, releaseVars>>
       \/ /\ part = "host" /\ NextHost
          /\ UNCHANGED <<accountVars, desktopVars, importVars, bundleVars, releaseVars>>
       \/ /\ part = "bundles" /\ NextBundles
          /\ UNCHANGED <<accountVars, desktopVars, importVars, hostVars, releaseVars>>
       \/ /\ part = "releases" /\ NextReleases
          /\ UNCHANGED <<accountVars, desktopVars, importVars, hostVars, bundleVars>>

SpecSite == InitSite /\ [][NextSite]_siteVars
=============================================================================

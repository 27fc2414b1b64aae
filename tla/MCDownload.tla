----------------------------- MODULE MCDownload -----------------------------
(* Small instances of Download for TLC. *)
EXTENDS Download

CONSTANTS f1, a1, r1

OneFile == {f1}
OneAdmin == {a1}
OneReader == {r1}
=============================================================================

--------------------------- MODULE MCManagedFiles ---------------------------
(* Small instances of ManagedFiles for TLC. *)
EXTENDS ManagedFiles, TLC

CONSTANTS f1, f2, f3, p1

\* An image and two uploads that both replace it, one as the primary image.
ThreeFiles == {f1, f2, f3}
OneProduct == [f \in ThreeFiles |-> p1]
BothReplaceFirst == (f1 :> NoFile) @@ (f2 :> f1) @@ (f3 :> f1)
OnlyThird == {f3}
=============================================================================

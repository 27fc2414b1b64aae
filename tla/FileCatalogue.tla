---------------------------- MODULE FileCatalogue ----------------------------
(***************************************************************************)
(* What the file endpoints promise to whoever lists the files of a         *)
(* product, without threads, storage or failures: a file appears once, a   *)
(* file that was taken away never comes back, and a product has at most    *)
(* one primary image, which is one of the listed ones.                     *)
(* ManagedFiles implements this specification.                             *)
(***************************************************************************)
EXTENDS Naturals

CONSTANTS Files, ProductOf, Images, NoFile

VARIABLES
    shown,      \* files that list_images and list_attachments return
    hidden,     \* files that were shown and are not any more
    primary     \* per product, the images marked primary

vars == <<shown, hidden, primary>>

Products == {ProductOf[f] : f \in Files}

Init ==
    /\ shown = {}
    /\ hidden = {}
    /\ primary = [p \in Products |-> {}]

\* The primary images of the product of f after f was published and old taken away:
\* f was asked to be the primary image, or stands in where there is none.
PrimaryAfter(f, old) ==
    LET left == primary[ProductOf[f]] \ {old}
    IN  {left} \cup (IF f \in Images THEN {{f}} ELSE {})

Publish(f, old) ==
    /\ f \notin shown \cup hidden
    /\ old = NoFile \/ old \in shown \cup hidden
    /\ shown' = (shown \ {old}) \cup {f}
    /\ hidden' = hidden \cup ({old} \ {NoFile})
    /\ \E images \in PrimaryAfter(f, old) : primary' = [primary EXCEPT ![ProductOf[f]] = images]

Hide(f) ==
    /\ f \in shown
    /\ shown' = shown \ {f}
    /\ hidden' = hidden \cup {f}
    /\ primary' = [primary EXCEPT ![ProductOf[f]] = @ \ {f}]

ChoosePrimary(f) ==
    /\ f \in shown \cap Images
    /\ primary' = [primary EXCEPT ![ProductOf[f]] = {f}]
    /\ UNCHANGED <<shown, hidden>>

Next ==
    \E f \in Files :
        \/ \E old \in Files \cup {NoFile} : Publish(f, old)
        \/ Hide(f)
        \/ ChoosePrimary(f)

Spec == Init /\ [][Next]_vars
=============================================================================

------------------------------ MODULE Catalogue ------------------------------
(***************************************************************************)
(* What the pipeline promises whoever reads its data products: contents    *)
(* are kept for good, and a name, once it is published, means one kept     *)
(* content for ever.  Pipeline implements this (PipelineCatalogue).        *)
(***************************************************************************)
EXTENDS Vocabulary

CONSTANT Nothing    \* what an unpublished name means

VARIABLES
    kept,       \* the contents that are kept
    published   \* published[n]: the content name n means, or Nothing

Init ==
    /\ kept = {}
    /\ published = [n \in Names |-> Nothing]

Keep(c) ==
    /\ kept' = kept \cup {c}
    /\ UNCHANGED published

Publish(n, c) ==
    /\ published[n] = Nothing
    /\ c \in kept
    /\ published' = [published EXCEPT ![n] = c]
    /\ UNCHANGED kept

Next == \E c \in Contents : Keep(c) \/ \E n \in Names : Publish(n, c)

Spec == Init /\ [][Next]_<<kept, published>>
=============================================================================

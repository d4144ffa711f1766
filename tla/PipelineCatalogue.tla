-------------------------- MODULE PipelineCatalogue --------------------------
(***************************************************************************)
(* Pipeline implements Catalogue: the store's files are what is kept, and  *)
(* a row of data_product publishes the content of the object it refers to. *)
(***************************************************************************)
EXTENDS Pipeline

KeptContents == {c \in Contents : \E n \in Names : store[n][c] = c}

PublishedContent ==
    [n \in Names |-> IF HasProduct(n) THEN objects[dataProducts[n]].hash ELSE NoFile]

Abstract == INSTANCE Catalogue
    WITH kept <- KeptContents, published <- PublishedContent, Nothing <- NoFile

(* Whatever processes interleave, crash or lose requests, the registry and *)
(* the store behave as a catalogue of write-once names: a reader that      *)
(* resolves a name gets a content that is kept, and the same one always.   *)
ImplementsCatalogue == Abstract!Spec
=============================================================================

------------------------------ MODULE Vocabulary ------------------------------
(***************************************************************************)
(* The sets the registry and the data store have in common.                *)
(***************************************************************************)
CONSTANTS
    Names,        \* names a data product can have in the registry: the triple
                  \* namespace, name and version is one member of this set
    Contents      \* contents a file can have; SHA-1 is taken to be injective,
                  \* so a content is also its own hash
=============================================================================

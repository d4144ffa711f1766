------------------------------- MODULE MCSemVer -------------------------------
(***************************************************************************)
(* A small instance of SemVer for TLC: unsigned numbers of five bits,      *)
(* written in base 2, with versions next to every boundary to start from.  *)
(***************************************************************************)
EXTENDS SemVer

CONSTANTS build7, noMeta

TwoMetas == {noMeta, build7}

(* The default version, one with metadata, one whose numbers are about to  *)
(* leave the range of an int or to wrap, and tags with and without number. *)
SomeVersions ==
    {[major |-> 0, minor |-> 1, patch |-> 0, tag |-> RELEASE, tagV |-> NoTagV, meta |-> noMeta],
     [major |-> 0, minor |-> 1, patch |-> 0, tag |-> RELEASE, tagV |-> NoTagV, meta |-> build7],
     [major |-> IntMax, minor |-> Limit - 1, patch |-> 0,
      tag |-> RELEASE, tagV |-> NoTagV, meta |-> noMeta]}
    \cup {[major |-> 0, minor |-> 1, patch |-> 1, tag |-> t, tagV |-> n, meta |-> noMeta] :
            t \in ALPHA .. RELEASE_CANDIDATE,
            n \in {Radix - 1, Radix * Radix + 1, NoTagV, IntMax, Limit - 1}}
=============================================================================

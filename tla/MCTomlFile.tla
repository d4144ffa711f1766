----------------------------- MODULE MCTomlFile -----------------------------
(***************************************************************************)
(* A small instance of TomlFile for TLC: two processes that write a        *)
(* component each and read both.                                           *)
(***************************************************************************)
EXTENDS TomlFile

CONSTANTS p1, p2, c1, c2, v1, v2

TwoProcs == {p1, p2}
TwoComponents == {c1, c2}
TwoValues == {v1, v2}
OneEach == [p \in Procs |-> IF p = p1 THEN {c1} ELSE {c2}]
=============================================================================

------------------------------ MODULE MCSessions ------------------------------
(***************************************************************************)
(* A small instance of Sessions for TLC: one program, run after run, with  *)
(* two keys of which the second has the first's name to use.               *)
(***************************************************************************)
EXTENDS Sessions, TLC

CONSTANTS p1, ns1, c1, c2

OneProc == {p1}
OneProduct == {1}
TwoProducts == {1, 2}
(* The config file is in the store, the script is not; their paths are the *)
(* last names.                                                             *)
ConfigAndScript == {"config", "script"}
ConfigInside == {"config"}
TheConfig == [p \in Procs |-> "config"]
TheScript == [p \in Procs |-> "script"]
Paths == [f \in Files |-> IF f = "config" THEN 3 ELSE 4]
ProductsAndSources == {1, 2, 3, 4}
TwoContents == {c1, c2}
OneNamespace == {ns1}
InOneNamespace == [n \in Names |-> ns1]
AllKeys == [p \in Procs |-> Products]
AliasOfSecond == [p \in Procs |-> [d \in Products |-> 1]]
AllPublic == [p \in Procs |-> TRUE]
SymContents == Permutations(Contents)
=============================================================================

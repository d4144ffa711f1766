------------------------------ MODULE MCPipeline ------------------------------
(***************************************************************************)
(* Small instances of Pipeline for TLC.                                    *)
(***************************************************************************)
EXTENDS PipelineCatalogue, TLC

CONSTANTS p1, p2, ns1, c1, c2

TwoProcs == {p1, p2}
OneProduct == {1}
TwoProducts == {1, 2}
TwoContents == {c1, c2}
OneNamespace == {ns1}
InOneNamespace == [n \in Names |-> ns1]

(* Every key is written, no key is read.                                   *)
WriteAll == [p \in Procs |-> Products]
ReadNothing == [p \in Procs |-> {}]

(* Both processes write key 2, only p1 writes key 1.                       *)
SecondKeyShared == [p \in Procs |-> IF p = p1 THEN Products ELSE {2}]

(* Every key is in the read section too.                                   *)
ReadAll == [p \in Procs |-> Products]

(* p2 reads key 1.                                                         *)
P2ReadsFirst == [p \in Procs |-> IF p = p2 THEN {1} ELSE {}]

NoAlias == [p \in Procs |-> [d \in Products |-> d]]
(* p1's config has "use: data_product: 2" under key 1.                     *)
AliasInP1 == [p \in Procs |-> [d \in Products |-> IF p = p1 /\ d = 1 THEN 2 ELSE d]]

(* p2's has "use: data_product: 1" under key 2.                            *)
AliasInP2 == [p \in Procs |-> [d \in Products |-> IF p = p2 THEN 1 ELSE d]]

AllPublic == [p \in Procs |-> TRUE]
P1Public == [p \in Procs |-> p = p1]

SymContents == Permutations(Contents)
=============================================================================

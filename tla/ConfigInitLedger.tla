--------------------------- MODULE ConfigInitLedger ---------------------------
(***************************************************************************)
(* ConfigInit implements CodeRunLedger: a code run stands for the files    *)
(* its references lead to, object by object, location by location.         *)
(***************************************************************************)
EXTENDS ConfigInit

(* The file an object is at; a reference that leads nowhere has no file.   *)
FileOf(i) ==
    LET located == i \in Ids("object")
        l == RowOf("object", i).storage_location
        placed == l \in Ids("storage_location")
        row == RowOf("storage_location", l)
        r == row.storage_root
    IN  IF located /\ placed /\ r \in Ids("storage_root")
        THEN [root |-> RowOf("storage_root", r).root, path |-> row.path, hash |-> row.hash]
        ELSE NoRow

Ledger == INSTANCE CodeRunLedger WITH
    ledger <- [r \in Ids("code_run") |->
                  [f \in {"model_config", "submission_script", "code_repo"} |->
                      FileOf(RowOf("code_run", r)[f])]]

(* Constructors that interleave, fail half way, meet each other's rows and *)
(* work from files that change still look, from the code runs alone, like  *)
(* a ledger of whole runs: a run names one process's files, under their    *)
(* roots, from the step its row is there and for good.                     *)
ImplementsLedger == Ledger!Spec
=============================================================================

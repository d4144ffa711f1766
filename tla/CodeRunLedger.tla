---------------------------- MODULE CodeRunLedger ----------------------------
(***************************************************************************)
(* What constructors of Config promise together: a ledger that grows by    *)
(* one whole code run at a time, each with the config file, the script and *)
(* the code of one process that had a valid config.  Of the rows a run is  *)
(* made from, and of constructors that fail on the way, it knows nothing.  *)
(***************************************************************************)
EXTENDS Sequences

CONSTANTS Clients, Contents, Valid, CommitOf, ConfigPath, ScriptPath, RepoPath, ScriptHash

VARIABLE ledger    \* the code runs so far, each with the files it names

At(root, path, hash) == [root |-> root, path |-> path, hash |-> hash]

(* A run of p at the commit c names, with the config file as d: p may have *)
(* been made from an earlier content than was registered.                  *)
RunOf(p, c, d) ==
    [model_config |-> At("write_data_store", ConfigPath[p], d),
     submission_script |-> At("write_data_store", ScriptPath[p], ScriptHash[p]),
     code_repo |-> At("github", RepoPath, CommitOf[c])]

Init == ledger = <<>>

Record ==
    \E p \in Clients, c \in Valid, d \in Contents : ledger' = Append(ledger, RunOf(p, c, d))

Spec == Init /\ [][Record]_ledger
=============================================================================

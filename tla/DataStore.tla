------------------------------ MODULE DataStore ------------------------------
(***************************************************************************)
(* The files of the write data store as Config::link_write and             *)
(* Config::finalise use them.  A file is either temporary, at the path     *)
(* link_write made up, or stored, at <namespace>/<name>/<hash>.<ext>.      *)
(* The calls are ghc::filesystem's (a library), modelled from their use in *)
(* src/src/objects/config.cxx.                                             *)
(***************************************************************************)
EXTENDS Vocabulary

CONSTANTS
    Procs,     \* runs of a program that uses the API on one data store
    Products,  \* keys of the write and read sections of a config.yaml
    NoFile     \* what a path holds when there is no file

ASSUME StoreConstants == NoFile \notin Contents

VARIABLES
    temp,   \* temp[p][d]: the file at the path writes_[d] of process p has.
            \* Paths are random and never reused; a file at a path that
            \* writes_ no longer holds is litter no code looks at, left out
    store,  \* store[n][h]: the file at <n>/<h>.<ext>
    dirs    \* the names n whose directory exists

fileVars == <<temp, store, dirs>>

StoreTypeOK ==
    /\ temp \in [Procs -> [Products -> Contents \cup {NoFile}]]
    /\ store \in [Names -> [Contents -> Contents \cup {NoFile}]]
    /\ dirs \in SUBSET Names

StoreInit ==
    /\ temp = [p \in Procs |-> [d \in Products |-> NoFile]]
    /\ store = [n \in Names |-> [h \in Contents |-> NoFile]]
    /\ dirs = {}

(* create_directories, and a new random path for product d of process p    *)
NewTempFile(p, d, n) ==
    /\ dirs' = dirs \cup {n}
    /\ temp' = [temp EXCEPT ![p][d] = NoFile]
    /\ UNCHANGED store

(* The program that uses the API writes the file at the path it was given. *)
WriteTemp(p, d, c) ==
    /\ temp' = [temp EXCEPT ![p][d] = c]
    /\ UNCHANGED <<store, dirs>>

(* A new Config has no temporary paths.                                    *)
ForgetTemps(p) ==
    /\ temp' = [temp EXCEPT ![p] = [d \in Products |-> NoFile]]
    /\ UNCHANGED <<store, dirs>>

RemoveTemp(p, d) ==
    /\ temp' = [temp EXCEPT ![p][d] = NoFile]
    /\ UNCHANGED <<store, dirs>>

(* rename replaces what the target held and needs the target's directory.  *)
RenameTemp(p, d, n, h) ==
    /\ n \in dirs
    /\ temp' = [temp EXCEPT ![p][d] = NoFile]
    /\ store' = [store EXCEPT ![n][h] = temp[p][d]]
    /\ UNCHANGED dirs

=============================================================================

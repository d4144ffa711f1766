------------------------------- MODULE Sessions -------------------------------
(***************************************************************************)
(* Pipeline and the constructor of Config on one table of locations.  The  *)
(* constructor registers the config file and the script under the root of  *)
(* the write data store (src/src/objects/config.cxx:241-320), and finalise *)
(* looks for a location by hash, root and public flag alone: such a file   *)
(* is an answer to that query like any stored one.  But it is a file of    *)
(* its user, who may save it again at any time, and the path it is         *)
(* registered under names it only when it lies inside the store.  The      *)
(* repository is under another root and no answer to the query.            *)
(***************************************************************************)
EXTENDS Pipeline

CONSTANTS
    Files,       \* config files and scripts
    ConfigOf,    \* ConfigOf[p]: the config file p is started with
    ScriptOf,    \* ScriptOf[p]: its script
    InStore,     \* the files whose path is write_data_store and the rest
    PathOf,      \* PathOf[f]: the path f is registered under, as a name
    MaxEdits     \* bound: times a config file or a script is saved

Sources == {PathOf[f] : f \in Files}

(* From the path of a file in the store the store is taken off, and what   *)
(* is left names it under the store's root.  From another path the store   *)
(* is taken wherever it occurs in it, and a leading slash: what is left    *)
(* names no file under that root (config.cxx:244-252).                     *)
ASSUME SessionConstants ==
    /\ ConfigOf \in [Procs -> Files] /\ ScriptOf \in [Procs -> Files]
    /\ InStore \subseteq Files
    /\ PathOf \in [Files -> Names]
    /\ \A f \in InStore, g \in Files : PathOf[f] = PathOf[g] => f = g
    /\ \A p \in Procs, d \in Products : d \notin Sources /\ UseName[p][d] \notin Sources
    /\ MaxEdits \in Nat

VARIABLES
    source,    \* source[f]: the content of the config file or script f
    edits      \* times one was saved so far

userVars == <<source, edits>>
sessionVars == <<vars, userVars>>

SessionInit ==
    /\ Init
    /\ source \in [Files -> Contents]
    /\ edits = 0

(* They are registered as public, whatever run_metadata.public is.         *)
SourceRow(f) == [name |-> PathOf[f], hash |-> source[f], public |-> TRUE]

(* A Config is made: location and object of its config file, then of its   *)
(* script, and its code run.                                               *)
StartSession(p) ==
    LET config == SourceRow(ConfigOf[p])
        script == SourceRow(ScriptOf[p])
    IN  /\ Step(p, "down", "ready")
        /\ Len(codeRuns) < MaxRuns
        /\ locations' = locations \cup {config, script}
        /\ objects' = Append(Append(objects, config), script)
        /\ codeRuns' = Append(codeRuns, [outputs |-> {}, inputs |-> {}])
        /\ run' = [run EXCEPT ![p] = Len(codeRuns) + 1]
        /\ UNCHANGED <<namespaces, dataProducts>>
        /\ UNCHANGED <<fileVars, result, writes, reads, outputs, inputs, given, callVars, bounds>>
        /\ UNCHANGED userVars

(* The user saves a config file or a script.                               *)
Edit(f, c) ==
    /\ edits < MaxEdits
    /\ c # source[f]
    /\ source' = [source EXCEPT ![f] = c]
    /\ edits' = edits + 1
    /\ UNCHANGED vars

(* Everything else is as in Pipeline.                                      *)
CallStep(p) ==
    /\ \/ FinaliseStep(p) \/ Crash(p) \/ Finalise(p) \/ Fail(p)
       \/ \E d \in Products :
             \/ LinkWrite(p, d) \/ LinkRead(p, d)
             \/ \E c \in Contents : ProgramWrite(p, d, c)
    /\ UNCHANGED userVars

SessionNext ==
    \/ \E p \in Procs : StartSession(p) \/ CallStep(p)
    \/ \E f \in Files, c \in Contents : Edit(f, c)

SessionSpec == SessionInit /\ [][SessionNext]_sessionVars

-----------------------------------------------------------------------------

(* A location that was posted for a file outside the store.                *)
Displaced(l) == \E f \in Files \ InStore : PathOf[f] = l.name

(* The file a location names has the hash the row gives.                   *)
InPlace(l) ==
    IF l.name \in Sources
    THEN \E f \in InStore : PathOf[f] = l.name /\ source[f] = l.hash
    ELSE Stored(l)

(* As long as nobody saves a config file or a script again, every location *)
(* in the registry names a file with its hash, but for those of config     *)
(* files and scripts that are not in the store; a data product's always    *)
(* does.  Runs that take each other's rows, throw or die do not change it. *)
InPlaceUntilEdited ==
    \A l \in locations :
        InPlace(l) \/ (l.name \in Sources /\ (Displaced(l) \/ edits > 0))

(* finalise takes a temporary file away only when its content is in the    *)
(* store, or when a config file or a script with that content was          *)
(* registered: then the registry's one copy of the output is a file that   *)
(* its user may change, or is not where the registry says.                 *)
LostOnlyToSources ==
    [][\A p \in Procs, d \in Products :
          (pc[p] \in FinalisePCs /\ pc'[p] # "down" /\ temp[p][d] # NoFile
             /\ temp'[p][d] = NoFile)
          => \/ \E n \in Names : store'[n][temp[p][d]] = temp[p][d]
             \/ /\ Public[p]
                /\ \E l \in locations : l.name \in Sources /\ l.hash = temp[p][d]]_sessionVars

(* finalise renames pending writes to <file hash>.<extension>              *)
(* (config.hxx:245); an output that equals a registered config file or     *)
(* script is removed instead, and its data product refers to that file.    *)
WritesAreRenamed ==
    \A p \in Procs : result[p] = "ok" =>
        \A d \in writes[p] : \E n \in Names : store[n][hash[p][d]] = hash[p][d]
=============================================================================

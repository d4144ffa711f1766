----------------------------- MODULE ConfigInit -----------------------------
(***************************************************************************)
(* The constructor of Config (src/src/objects/config.cxx): the config file *)
(* is parsed and validated, the author looked up, and the rows that        *)
(* describe the run are posted in a fixed order, each referring to ids the *)
(* earlier requests returned, the code run last.                           *)
(*                                                                         *)
(* Several processes do so at once, with config files that users may edit  *)
(* at any time; a process may die, and a failed constructor leaves the     *)
(* rows it posted, which a later one meets again.                          *)
(***************************************************************************)
EXTENDS ApiClient

CONSTANTS
    Contents,      \* contents of config files, and their hashes
    Files,         \* the config files there may be at first
    Valid,         \* the contents that pass validate_config
    CommitOf,      \* CommitOf[c]: run_metadata.latest_commit in c
    ConfigPath,    \* ConfigPath[p]: where p's config file is
    ScriptPath,    \* ScriptPath[p]: where its script is
    RepoPath,      \* run_metadata.remote_repo, the same for all
    ScriptHash,    \* ScriptHash[p]: hash of its script
    MaxStarts,     \* bound: Configs made in all
    MaxEdits       \* bound: edits of config files

ASSUME InitConstants ==
    /\ Tables = {"storage_root", "storage_location", "object", "code_run"}
    /\ Files \subseteq [Clients -> Contents]
    /\ Valid \subseteq Contents
    /\ DOMAIN CommitOf = Contents
    /\ MaxStarts \in Nat /\ MaxEdits \in Nat

VARIABLES
    account,   \* how far "fair init" got, the registry's admin user alone or
               \* with its author; never changes
    open,      \* whether it answers a GET without a token, never changes
    file,      \* file[p]: content of p's config file
    pc,        \* pc[p]: the step of the constructor p is at, "down", "ready"
    parsed,    \* parsed[p]: the content config_data_ was parsed from
    edited,    \* edited[p]: the file has changed since then
    refs,      \* refs[p][s]: the id that step s got
    starts,    \* Configs made so far
    edits      \* edits so far

initVars == <<file, pc, parsed, edited, refs, starts, edits>>
vars == <<clientVars, account, open, initVars>>

Nothing == "nothing"

(* The steps in order; the first three and the two file types only query.  *)
Steps ==
    <<"users", "user_author", "author", "root", "config_location", "config_type",
      "config_object", "script_location", "script_type", "script_object",
      "repo_root", "repo_location", "repo_object", "code_run">>

StepNames == {Steps[i] : i \in 1 .. Len(Steps)}
Accounts == {"users", "user_author", "author"}
FileTypes == {"config_type", "script_type"}
Posts == StepNames \ (Accounts \cup FileTypes)

After(s) ==
    LET i == CHOOSE j \in 1 .. Len(Steps) : Steps[j] = s
    IN  IF i = Len(Steps) THEN "ready" ELSE Steps[i + 1]

TableOf(s) ==
    CASE s \in {"root", "repo_root"} -> "storage_root"
      [] s \in {"config_location", "script_location", "repo_location"} -> "storage_location"
      [] s \in {"config_object", "script_object", "repo_object"} -> "object"
      [] s = "code_run" -> "code_run"

(* Mutant: everything is registered under the write data store.            *)
RootOfOne ==
    [config_location |-> "root", script_location |-> "root", repo_location |-> "root"]

(* The root each location is posted under.                                 *)
RootOf ==
    [config_location |-> "root", script_location |-> "root",
     repo_location |-> "repo_root"]

LocationRow(p, s, path, hash) ==
    [path |-> path, hash |-> hash, storage_root |-> refs[p][RootOf[s]]]

(* The location each object is posted with.                                *)
LocationOf ==
    [config_object |-> "config_location", script_object |-> "script_location",
     repo_object |-> "repo_location"]

(* An object is described by what it is and where it is.                   *)
ObjectRow(p, s) ==
    [description |-> s, storage_location |-> refs[p][LocationOf[s]]]

(* What step s posts.  The hash is that of the config file as it is now.   *)
Row(p, s) ==
    CASE s = "root" -> [root |-> "write_data_store"]
      [] s = "config_location" ->
            LocationRow(p, s, ConfigPath[p], file[p])
      [] s = "script_location" ->
            LocationRow(p, s, ScriptPath[p], ScriptHash[p])
      [] s = "repo_root" -> [root |-> "github"]
      [] s \in DOMAIN LocationOf -> ObjectRow(p, s)
      [] s = "repo_location" ->
            LocationRow(p, s, RepoPath, CommitOf[parsed[p]])
      [] s = "code_run" ->
            [code_repo |-> refs[p]["repo_object"],
             model_config |-> refs[p]["config_object"],
             submission_script |-> refs[p]["script_object"]]

NoRefs == [s \in Posts |-> Null]

Init ==
    /\ ClientInit
    /\ account \in {"none", "user", "author"}
    /\ open \in BOOLEAN
    /\ file \in Files
    /\ pc = [p \in Clients |-> "down"]
    /\ parsed = [p \in Clients |-> Nothing]
    /\ edited = [p \in Clients |-> FALSE]
    /\ refs = [p \in Clients |-> NoRefs]
    /\ starts = 0
    /\ edits = 0

-----------------------------------------------------------------------------

(* The user saves another config file.                                     *)
Edit(p, c) ==
    /\ edits < MaxEdits
    /\ c # file[p]
    /\ file' = [file EXCEPT ![p] = c]
    /\ edited' = [edited EXCEPT ![p] = TRUE]
    /\ edits' = edits + 1
    /\ UNCHANGED <<clientVars, account, open, pc, parsed, refs, starts>>

(* No Config is left behind: its fields go with the exception.             *)
Down(p) ==
    /\ pc' = [pc EXCEPT ![p] = "down"]
    /\ parsed' = [parsed EXCEPT ![p] = Nothing]
    /\ refs' = [refs EXCEPT ![p] = NoRefs]

(* validate_config: a config file that does not pass throws at once.       *)
Start(p) ==
    /\ pc[p] = "down"
    /\ starts < MaxStarts
    /\ starts' = starts + 1
    /\ \/ /\ file[p] \in Valid
          /\ parsed' = [parsed EXCEPT ![p] = file[p]]
          /\ pc' = [pc EXCEPT ![p] = "users"]
          /\ edited' = [edited EXCEPT ![p] = FALSE]
       \/ /\ file[p] \notin Valid
          /\ UNCHANGED <<parsed, pc, edited>>
    /\ UNCHANGED <<clientVars, account, open, file, refs, edits>>

(* Mutant: every query carries the token.                                  *)
TokenPassedOn == Accounts

(* The queries that carry the token.  That for the author by its id loses  *)
(* it on the way through get_by_id and the overload of get_request for     *)
(* paths, and the queries of later steps are made without one.             *)
TokenPassed == {"users", "user_author"}

(* The queries for the user, its user_author row and the author.  Without  *)
(* a row the constructor throws: after the first query because it looks,   *)
(* after the second because the id of an empty URL is no number.           *)
LookUpAccount(p) ==
    /\ pc[p] \in Accounts
    /\ \/ /\ open \/ pc[p] \in TokenPassed
          /\ \/ account = "author"
             \/ account = "user" /\ pc[p] = "users"
          /\ pc' = [pc EXCEPT ![p] = After(pc[p])]
          /\ UNCHANGED <<parsed, refs>>
       \/ /\ \/ account = "none"
             \/ account = "user" /\ pc[p] = "user_author"
             \/ ~ open /\ pc[p] \notin TokenPassed
          /\ Down(p)
    /\ UNCHANGED <<clientVars, account, open, file, edited, starts, edits>>

(* post_file_type only ever queries: an empty list is a value too.         *)
QueryFileType(p) ==
    /\ pc[p] \in FileTypes
    /\ pc' = [pc EXCEPT ![p] = After(pc[p])]
    /\ UNCHANGED <<clientVars, account, open, file, parsed, edited, refs, starts, edits>>

(* Mutant: the id is read one off.                                         *)
AdvanceOffByOne(p, i) ==
    /\ refs' = [refs EXCEPT ![p][pc[p]] = i + 1]
    /\ pc' = [pc EXCEPT ![p] = After(pc[p])]
    /\ UNCHANGED parsed

(* Mutant: the id is that of the first row that holds the same.            *)
AdvanceToFirst(p, i) ==
    LET rows == tables'[TableOf(pc[p])]
        first == IF i = Null THEN Null
                 ELSE CHOOSE j \in 1 .. i : /\ rows[j] = rows[i]
                                           /\ \A k \in 1 .. i : rows[k] = rows[i] => j <= k
    IN  /\ refs' = [refs EXCEPT ![p][pc[p]] = first]
        /\ pc' = [pc EXCEPT ![p] = After(pc[p])]
        /\ UNCHANGED parsed

(* The step's request is answered with row i: it is kept, whatever it is,  *)
(* and the next step begun.                                                *)
Advance(p, i) ==
    /\ refs' = [refs EXCEPT ![p][pc[p]] = i]
    /\ pc' = [pc EXCEPT ![p] = After(pc[p])]
    /\ UNCHANGED parsed

(* A step that posts: the row is made and comes back, or its answer is     *)
(* lost; or it exists and is queried for; or the registry refuses it.      *)
PostStep(p) ==
    LET t == TableOf(pc[p])
        r == Row(p, pc[p])
    IN  /\ pc[p] \in Posts
        /\ \/ Created(p, t, r) /\ Advance(p, Len(tables[t]) + 1) /\ UNCHANGED faults
           \/ Conflicts(p, t, r) /\ UNCHANGED <<pc, parsed, refs>>
           \/ Queried(p) /\ Advance(p, Entry(p, t))
           \/ Refused(p, t, r) /\ Down(p)
        /\ UNCHANGED <<account, open, file, edited, starts, edits>>

ReplyLost(p) ==
    /\ pc[p] \in Posts
    /\ Created(p, TableOf(pc[p]), Row(p, pc[p]))
    /\ UseFault
    /\ Down(p)
    /\ UNCHANGED <<account, open, file, edited, starts, edits>>

(* A request fails, or the process dies: nothing is left of the Config.    *)
Fail(p) ==
    /\ pc[p] \in StepNames
    /\ CallFails(p)
    /\ Down(p)
    /\ UNCHANGED <<account, open, file, edited, starts, edits>>

(* The program ends, and its Config with it.                               *)
Exit(p) ==
    /\ pc[p] = "ready"
    /\ Down(p)
    /\ UNCHANGED <<clientVars, account, open, file, edited, starts, edits>>

ConstructorStep(p) == LookUpAccount(p) \/ QueryFileType(p) \/ PostStep(p)

Next ==
    \E p \in Clients :
        \/ Start(p) \/ ConstructorStep(p)
        \/ ReplyLost(p) \/ Fail(p) \/ Exit(p)
        \/ \E c \in Contents : Edit(p, c)

Spec == Init /\ [][Next]_vars

(* The constructor waits for nothing but the registry, which answers or    *)
(* breaks the connection.                                                  *)
FairSpec == Spec /\ \A p \in Clients : WF_vars(ConstructorStep(p))

-----------------------------------------------------------------------------

(* The types; an id a process keeps is the id of a row of the table it was *)
(* posted to, or null.                                                     *)
TypeOK ==
    /\ key \in Keys
    /\ pc \in [Clients -> StepNames \cup {"down", "ready"}]
    /\ parsed \in [Clients -> Contents \cup {Nothing}]
    /\ edited \in [Clients -> BOOLEAN]
    /\ \A p \in Clients, s \in Posts : refs[p][s] \in Ids(TableOf(s)) \cup {Null}
    /\ faults \in 0 .. MaxFaults

RowOf(t, i) == tables[t][i]

(* Object i is what its description says, at a location that exists, under *)
(* the root it belongs to.                                                 *)
GoodObject(i, what, root) ==
    /\ i \in Ids("object")
    /\ RowOf("object", i).description = what
    /\ LET l == RowOf("object", i).storage_location IN
       /\ l \in Ids("storage_location")
       /\ LET r == RowOf("storage_location", l).storage_root IN
          r \in Ids("storage_root") /\ RowOf("storage_root", r).root = root

LocationOfObject(i) == RowOf("storage_location", RowOf("object", i).storage_location)

(* A code run in the registry is whole, whatever became of the process     *)
(* that posted it: its code, config and script are there, each the object  *)
(* it should be and each under its root.                                   *)
CodeRunsAreWhole ==
    \A r \in Ids("code_run") :
        LET cr == RowOf("code_run", r) IN
        /\ GoodObject(cr.code_repo, "repo_object", "github")
        /\ GoodObject(cr.model_config, "config_object", "write_data_store")
        /\ GoodObject(cr.submission_script, "script_object", "write_data_store")

(* The code run a Config holds describes that Config: its script, the      *)
(* commit its config file named and, unless the file was saved again       *)
(* since it was parsed, the config file it works from.  Processes that     *)
(* share rows, and rows left by failed constructors, do not mix them up.   *)
RunDescribesItself ==
    \A p \in Clients : pc[p] = "ready" =>
        LET cr == RowOf("code_run", refs[p]["code_run"])
            configAt == LocationOfObject(cr.model_config)
            scriptAt == LocationOfObject(cr.submission_script)
            repoAt == LocationOfObject(cr.code_repo)
        IN  /\ configAt.path = ConfigPath[p]
            /\ edited[p] \/ configAt.hash = parsed[p]
            /\ scriptAt.path = ScriptPath[p] /\ scriptAt.hash = ScriptHash[p]
            /\ repoAt.hash = CommitOf[parsed[p]]

(* No two code runs share a config, script or repository object, not even  *)
(* runs of one script at one commit: each run's objects are its own.       *)
ObjectsNotShared ==
    \A r, s \in Ids("code_run") : r # s =>
        \A f \in {"code_repo", "model_config", "submission_script"} :
            RowOf("code_run", r)[f] # RowOf("code_run", s)[f]

(* The registry is written only for a config file that was validated and   *)
(* when it has the author all objects are attributed to; a registry that   *)
(* asks for a token to read is never written, as no constructor gets past  *)
(* the query that loses it.                                                *)
WritesAreAuthorised ==
    [][tables' # tables =>
          /\ account = "author" /\ open
          /\ \E p \in Clients : pc[p] \in Posts /\ parsed[p] \in Valid]_vars

(* A constructor ends: with a Config, or with an exception.                *)
ConstructionEnds ==
    \A p \in Clients : pc[p] \in StepNames ~> pc[p] \in {"ready", "down"}

(* A table's key covers all the fields that are posted to it, or it has    *)
(* none.                                                                   *)
KeysAreWhole ==
    /\ key["storage_root"] = {"root"}
    /\ key["storage_location"] = {"path", "hash", "storage_root"}

(* While nothing fails, and when a conflict can only be with the same row, *)
(* a constructor that gets past validation makes a Config: the rows other  *)
(* processes posted, or failed ones left behind, do not stand in its way.  *)
ConstructionSucceeds ==
    \A p \in Clients :
        (pc[p] = "users" /\ account = "author" /\ open /\ KeysAreWhole)
        ~> (pc[p] = "ready" \/ faults > 0)
=============================================================================

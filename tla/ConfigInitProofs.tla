--------------------------- MODULE ConfigInitProofs ---------------------------
(***************************************************************************)
(* Theorems about ConfigInit: whatever constructors interleave, fail, or   *)
(* meet each other's rows, what they post is whole, for all processes,     *)
(* config files and unique keys of the registry's tables.                  *)
(***************************************************************************)
EXTENDS ConfigInitLedger, WellFoundedInduction, TLAPS

(* What rows can hold.                                                     *)
Paths == {ConfigPath[p] : p \in Clients} \cup {ScriptPath[p] : p \in Clients} \cup {RepoPath}
Hashes == Contents \cup {ScriptHash[p] : p \in Clients} \cup {CommitOf[c] : c \in Contents}
Rows ==
    [root : {"write_data_store", "github"}]
        \cup [path : Paths, hash : Hashes, storage_root : Nat]
        \cup [description : Posts, storage_location : Nat]
        \cup [code_repo : Nat, model_config : Nat, submission_script : Nat]

(* The file of a location, under its root.                                 *)
LocatedAt(l, root, path, hash) ==
    /\ l \in Ids("storage_location")
    /\ LET row == RowOf("storage_location", l) IN
       /\ row.path = path /\ row.hash = hash
       /\ row.storage_root \in Ids("storage_root")
       /\ RowOf("storage_root", row.storage_root).root = root

ConfigAt(p, l) == \E d \in Contents : LocatedAt(l, "write_data_store", ConfigPath[p], d)
ScriptAt(p, l) == LocatedAt(l, "write_data_store", ScriptPath[p], ScriptHash[p])
RepoAt(p, l) == LocatedAt(l, "github", RepoPath, CommitOf[parsed[p]])

(* Object i is what it is described as, at location l.                      *)
ObjectIs(i, what, l) ==
    /\ i \in Ids("object")
    /\ RowOf("object", i) = [description |-> what, storage_location |-> l]

(* Row i is what the constructor of p wants from step s.                   *)
Holds(p, s, i) ==
    /\ i \in Ids(TableOf(s))
    /\ s = "root" => RowOf("storage_root", i).root = "write_data_store"
    /\ s = "repo_root" => RowOf("storage_root", i).root = "github"
    /\ s = "config_location" => ConfigAt(p, i)
    /\ s = "script_location" => ScriptAt(p, i)
    /\ s = "repo_location" => RepoAt(p, i)
    /\ s \in DOMAIN LocationOf =>
          \E l \in Ids("storage_location") :
              /\ ObjectIs(i, s, l)
              /\ s = "config_object" => ConfigAt(p, l)
              /\ s = "script_object" => ScriptAt(p, l)
              /\ s = "repo_object" => RepoAt(p, l)

RefsOK(p) ==
    \A s \in Posts : refs[p][s] # Null =>
        \E i \in Ids(TableOf(s)) : i = refs[p][s] /\ Holds(p, s, i)

(* A row that step s of p's constructor may post, without null references. *)
Fits(p, s, row) ==
    /\ s = "root" => row.root = "write_data_store"
    /\ s = "repo_root" => row.root = "github"
    /\ s = "config_location" => row.path = ConfigPath[p] /\ row.hash \in Contents
    /\ s = "script_location" => row.path = ScriptPath[p] /\ row.hash = ScriptHash[p]
    /\ s = "repo_location" => row.path = RepoPath /\ row.hash = CommitOf[parsed[p]]
    /\ s \in DOMAIN RootOf => /\ row.storage_root = refs[p][RootOf[s]]
                              /\ row.storage_root # Null
    /\ s \in DOMAIN LocationOf => /\ row = [description |-> s,
                                            storage_location |-> refs[p][LocationOf[s]]]
                                  /\ row.storage_location # Null
    /\ s = "code_run" => /\ row.code_repo = refs[p]["repo_object"]
                         /\ row.model_config = refs[p]["config_object"]
                         /\ row.submission_script = refs[p]["script_object"]
                         /\ Null \notin {row.code_repo, row.model_config, row.submission_script}

(* A conflict is with the row its process was to post, before the config   *)
(* file may have been edited.                                              *)
ConflictOK(p) == conflict[p] # NoRow => pc[p] \in Posts /\ Fits(p, pc[p], conflict[p])

(* Without a Config there are no ids.  A constructor past validation has a *)
(* valid config; one past the queries for the author has found it, in an   *)
(* open registry.                                                          *)
PermittedOK(p) ==
    /\ pc[p] = "down" => refs[p] = NoRefs
    /\ pc[p] \in StepNames \cup {"ready"} => parsed[p] \in Valid
    /\ pc[p] \in (StepNames \ Accounts) \cup {"ready"} => account = "author" /\ open

(* A code run of process p, from a valid config c.                         *)
RunOfProcess(r, p, c) ==
    LET cr == RowOf("code_run", r) IN
    \E i, j, k \in Ids("object"), l, m, n \in Ids("storage_location") :
        /\ cr.model_config = i /\ ObjectIs(i, "config_object", l) /\ ConfigAt(p, l)
        /\ cr.submission_script = j /\ ObjectIs(j, "script_object", m) /\ ScriptAt(p, m)
        /\ cr.code_repo = k /\ ObjectIs(k, "repo_object", n)
        /\ LocatedAt(n, "github", RepoPath, CommitOf[c])

WholeRun(r) == \E p \in Clients, c \in Valid : RunOfProcess(r, p, c)

InitTypeOK ==
    /\ tables \in [Tables -> Seq(Rows)]
    /\ conflict \in [Clients -> Rows \cup {NoRow}]
    /\ refs \in [Clients -> [Posts -> Nat]]
    /\ file \in [Clients -> Contents]
    /\ pc \in [Clients -> StepNames \cup {"down", "ready"}]
    /\ parsed \in [Clients -> Contents \cup {Nothing}]
    /\ edited \in [Clients -> BOOLEAN]
    /\ key \in Keys
    /\ faults \in 0 .. MaxFaults

IInv ==
    /\ InitTypeOK
    /\ \A p \in Clients : RefsOK(p) /\ ConflictOK(p) /\ PermittedOK(p)
    /\ \A r \in Ids("code_run") : WholeRun(r)

-----------------------------------------------------------------------------
(* The steps *)

(* The steps, and those that post, by name.                                *)
LEMMA StepSets ==
    /\ StepNames = {"users", "user_author", "author", "root", "config_location", "config_type",
                    "config_object", "script_location", "script_type", "script_object",
                    "repo_root", "repo_location", "repo_object", "code_run"}
    /\ Posts = {"root", "config_location", "config_object", "script_location", "script_object",
                "repo_root", "repo_location", "repo_object", "code_run"}
<1>1. Len(Steps) = 14
  BY DEF Steps
<1>2. 1 .. 14 = {1, 2, 3, 4, 5, 6, 7, 8, 9, 10, 11, 12, 13, 14}
  OBVIOUS
<1>3. StepNames = {Steps[1], Steps[2], Steps[3], Steps[4], Steps[5], Steps[6], Steps[7], Steps[8],
                   Steps[9], Steps[10], Steps[11], Steps[12], Steps[13], Steps[14]}
  BY <1>1, <1>2 DEF StepNames
<1>4. StepNames = {"users", "user_author", "author", "root", "config_location", "config_type",
                   "config_object", "script_location", "script_type", "script_object",
                   "repo_root", "repo_location", "repo_object", "code_run"}
  BY <1>3 DEF Steps
<1> QED BY <1>4 DEF Posts, Accounts, FileTypes

(* After a step comes a step, or the end.                                  *)
LEMMA AfterIsStep ==
    ASSUME NEW s \in StepNames
    PROVE  After(s) \in StepNames \cup {"ready"}
<1>1. PICK k \in 1 .. Len(Steps) : Steps[k] = s
  BY DEF StepNames
<1> DEFINE i == CHOOSE j \in 1 .. Len(Steps) : Steps[j] = s
<1>2. i \in 1 .. Len(Steps)
  BY <1>1
<1>3. After(s) = IF i = Len(Steps) THEN "ready" ELSE Steps[i + 1]
  BY DEF After
<1>4. Len(Steps) \in Nat
  BY DEF Steps
<1>5. i # Len(Steps) => i + 1 \in 1 .. Len(Steps)
  BY <1>2, <1>4
<1> HIDE DEF i
<1> QED BY <1>3, <1>5 DEF StepNames

(* The first two queries lead to a query.                                  *)
LEMMA AfterAccounts ==
    ASSUME NEW s \in {"users", "user_author"}
    PROVE  After(s) \in {"user_author", "author"}
<1> DEFINE i == CHOOSE j \in 1 .. Len(Steps) : Steps[j] = s
           k == IF s = "users" THEN 1 ELSE 2
<1>1. Len(Steps) = 14
  BY DEF Steps
<1>2. k \in 1 .. 14 /\ Steps[k] = s
  BY DEF Steps
<1>3. i \in 1 .. 14 /\ Steps[i] = s
  BY <1>1, <1>2
<1>4. i = k
  <2> HIDE DEF i
  <2> QED BY <1>3 DEF Steps
<1>5. After(s) = IF i = Len(Steps) THEN "ready" ELSE Steps[i + 1]
  BY DEF After
<1>6. After(s) = Steps[k + 1]
  <2> HIDE DEF i
  <2> QED BY <1>1, <1>4, <1>5
<1> QED BY <1>6 DEF Steps

(* The tables of the steps that post.                                      *)
LEMMA TablesOfSteps ==
    /\ TableOf("root") = "storage_root" /\ TableOf("repo_root") = "storage_root"
    /\ \A s \in {"config_location", "script_location", "repo_location"} :
          TableOf(s) = "storage_location"
    /\ \A s \in {"config_object", "script_object", "repo_object"} : TableOf(s) = "object"
    /\ TableOf("code_run") = "code_run"
    /\ \A s \in Posts : TableOf(s) \in Tables
<1>1. TableOf("root") = "storage_root" /\ TableOf("repo_root") = "storage_root"
  BY DEF TableOf
<1>2. \A s \in {"config_location", "script_location", "repo_location"} :
         TableOf(s) = "storage_location"
  BY DEF TableOf
<1>3. \A s \in {"config_object", "script_object", "repo_object"} : TableOf(s) = "object"
  BY DEF TableOf
<1>4. TableOf("code_run") = "code_run"
  BY DEF TableOf
<1> QED BY <1>1, <1>2, <1>3, <1>4, StepSets, InitConstants

-----------------------------------------------------------------------------
(* The rows *)

(* What step s posts is a row, and fits when it has no null reference.     *)
LEMMA RowFits ==
    ASSUME InitTypeOK, NEW p \in Clients, PermittedOK(p),
           pc[p] \in Posts, ~ HasNullReference(Row(p, pc[p]))
    PROVE  Row(p, pc[p]) \in Rows /\ Fits(p, pc[p], Row(p, pc[p]))
<1> DEFINE s == pc[p]
           row == Row(p, s)
<1> USE DEF InitTypeOK
<1>1. /\ refs[p] \in [Posts -> Nat]
      /\ file[p] \in Contents
      /\ parsed[p] \in Valid /\ parsed[p] \in Contents
  BY StepSets, InitConstants DEF PermittedOK
<1>2. CASE s = "root" \/ s = "repo_root"
  BY <1>2 DEF Row, Fits, Rows, RootOf, LocationOf
<1>3. CASE s = "config_location"
  <2>1. row = [path |-> ConfigPath[p], hash |-> file[p], storage_root |-> refs[p]["root"]]
    BY <1>3 DEF Row, LocationRow, RootOf, LocationOf
  <2>2. row.storage_root # Null
    BY <2>1 DEF HasNullReference, RefFields
  <2>3. row \in Rows
    <3>1. ConfigPath[p] \in Paths /\ file[p] \in Hashes
      BY <1>1 DEF Paths, Hashes
    <3>2. refs[p]["root"] \in Nat
      BY <1>1, StepSets
    <3> QED BY <2>1, <3>1, <3>2 DEF Rows
  <2> QED BY <1>1, <1>3, <2>1, <2>2, <2>3 DEF Fits, RootOf, LocationOf
<1>4. CASE s = "script_location"
  <2>1. row = [path |-> ScriptPath[p], hash |-> ScriptHash[p], storage_root |-> refs[p]["root"]]
    BY <1>4 DEF Row, LocationRow, RootOf, LocationOf
  <2>2. row.storage_root # Null
    BY <2>1 DEF HasNullReference, RefFields
  <2>3. row \in Rows
    <3>1. ScriptPath[p] \in Paths /\ ScriptHash[p] \in Hashes
      BY <1>1 DEF Paths, Hashes
    <3>2. refs[p]["root"] \in Nat
      BY <1>1, StepSets
    <3> QED BY <2>1, <3>1, <3>2 DEF Rows
  <2> QED BY <1>1, <1>4, <2>1, <2>2, <2>3 DEF Fits, RootOf, LocationOf
<1>5. CASE s = "repo_location"
  <2>1. row = [path |-> RepoPath, hash |-> CommitOf[parsed[p]], storage_root |-> refs[p]["repo_root"]]
    BY <1>5 DEF Row, LocationRow, RootOf, LocationOf
  <2>2. row.storage_root # Null
    BY <2>1 DEF HasNullReference, RefFields
  <2>3. row \in Rows
    <3>1. RepoPath \in Paths /\ CommitOf[parsed[p]] \in Hashes
      BY <1>1 DEF Paths, Hashes
    <3>2. refs[p]["repo_root"] \in Nat
      BY <1>1, StepSets
    <3> QED BY <2>1, <3>1, <3>2 DEF Rows
  <2> QED BY <1>1, <1>5, <2>1, <2>2, <2>3 DEF Fits, RootOf, LocationOf
<1>6. CASE s \in {"config_object", "script_object", "repo_object"}
  <2>1. row = [description |-> s, storage_location |-> refs[p][LocationOf[s]]]
    BY <1>6 DEF Row, ObjectRow, LocationOf
  <2>2. row.storage_location # Null
    BY <2>1 DEF HasNullReference, RefFields
  <2>3. LocationOf[s] \in Posts /\ s \in Posts
    BY <1>6, StepSets DEF LocationOf
  <2>4. row \in Rows
    BY <1>1, <2>1, <2>3 DEF Rows
  <2> QED BY <1>1, <1>6, <2>1, <2>2, <2>4 DEF Fits, RootOf, LocationOf
<1>7. CASE s = "code_run"
  <2>1. row = [code_repo |-> refs[p]["repo_object"],
               model_config |-> refs[p]["config_object"],
               submission_script |-> refs[p]["script_object"]]
    BY <1>7 DEF Row, LocationOf
  <2>2. row.code_repo # Null /\ row.model_config # Null /\ row.submission_script # Null
    BY <2>1 DEF HasNullReference, RefFields
  <2>3. row \in Rows
    BY <1>1, <2>1, StepSets DEF Rows
  <2> QED BY <1>1, <1>7, <2>1, <2>2, <2>3 DEF Fits, RootOf, LocationOf
<1> QED BY <1>2, <1>3, <1>4, <1>5, <1>6, <1>7, StepSets

(* The rows there are stay as they are.                                    *)
RowsKept ==
    \A t \in Tables : /\ Ids(t) \subseteq Ids(t)'
                      /\ \A i \in Ids(t) : tables'[t][i] = tables[t][i]

(* A POST adds a row at the end of its table.                              *)
LEMMA CreatedRow ==
    ASSUME InitTypeOK, NEW p \in Clients, NEW t \in Tables, NEW r \in Rows, Created(p, t, r)
    PROVE  /\ RowsKept
           /\ tables' \in [Tables -> Seq(Rows)]
           /\ Len(tables[t]) + 1 \in Ids(t)' /\ Len(tables[t]) \in Nat
           /\ tables'[t][Len(tables[t]) + 1] = r
           /\ Ids(t)' = Ids(t) \cup {Len(tables[t]) + 1}
           /\ \A u \in Tables \ {t} : tables'[u] = tables[u]
<1> USE DEF InitTypeOK
<1>1. tables' = [tables EXCEPT ![t] = Append(@, r)]
  BY DEF Created
<1>2. tables[t] \in Seq(Rows)
  OBVIOUS
<1>3. tables'[t] = Append(tables[t], r)
  BY <1>1
<1>4. /\ tables'[t] \in Seq(Rows)
      /\ Len(tables'[t]) = Len(tables[t]) + 1 /\ Len(tables[t]) \in Nat
      /\ \A i \in 1 .. Len(tables[t]) : tables'[t][i] = tables[t][i]
      /\ tables'[t][Len(tables[t]) + 1] = r
  BY <1>2, <1>3
<1>5. \A u \in Tables \ {t} : tables'[u] = tables[u]
  BY <1>1
<1>6. tables' \in [Tables -> Seq(Rows)]
  BY <1>1, <1>2, <1>3, <1>4
<1>7. ASSUME NEW u \in Tables
      PROVE  /\ Ids(u) \subseteq Ids(u)'
             /\ \A i \in Ids(u) : tables'[u][i] = tables[u][i]
  <2>1. CASE u = t
    BY <1>4, <2>1 DEF Ids
  <2>2. CASE u # t
    BY <1>5, <2>2 DEF Ids
  <2> QED BY <2>1, <2>2
<1> QED BY <1>4, <1>5, <1>6, <1>7 DEF Ids, RowsKept

(* A file that is registered stays registered.                             *)
LEMMA FilesStay ==
    ASSUME RowsKept
    PROVE  /\ \A l, root, path, hash :
                 LocatedAt(l, root, path, hash) =>
                     /\ l \in Ids("storage_location")'
                     /\ LET row == tables'["storage_location"][l] IN
                        /\ row.path = path /\ row.hash = hash
                        /\ row.storage_root \in Ids("storage_root")'
                        /\ tables'["storage_root"][row.storage_root].root = root
           /\ \A i, what, l :
                 ObjectIs(i, what, l) =>
                     /\ i \in Ids("object")'
                     /\ tables'["object"][i] = [description |-> what, storage_location |-> l]
BY InitConstants DEF RowsKept, LocatedAt, RowOf, ObjectIs

(* What a step got stays what it wanted, while rows are only added.        *)
LEMMA HoldsStays ==
    ASSUME RowsKept, NEW p \in Clients, parsed'[p] = parsed[p],
           NEW s \in Posts, NEW i, Holds(p, s, i)
    PROVE  Holds(p, s, i)'
<1>1. TableOf(s) \in Tables /\ i \in Ids(TableOf(s))
  BY TablesOfSteps DEF Holds
<1>2. i \in Ids(TableOf(s))' /\ tables'[TableOf(s)][i] = tables[TableOf(s)][i]
  BY <1>1 DEF RowsKept
<1>3. \A l : ConfigAt(p, l) => ConfigAt(p, l)'
  BY FilesStay DEF ConfigAt, LocatedAt, RowOf
<1>4. \A l : ScriptAt(p, l) => ScriptAt(p, l)'
  BY FilesStay DEF ScriptAt, LocatedAt, RowOf
<1>5. \A l : RepoAt(p, l) => RepoAt(p, l)'
  BY FilesStay DEF RepoAt, LocatedAt, RowOf
<1>6. CASE s \in {"root", "repo_root"}
  BY <1>2, <1>6, TablesOfSteps DEF Holds, RowOf, LocationOf
<1>7. CASE s \in {"config_location", "script_location", "repo_location"}
  BY <1>2, <1>3, <1>4, <1>5, <1>7 DEF Holds, LocationOf
<1>8. CASE s \in {"config_object", "script_object", "repo_object"}
  <2>1. PICK l \in Ids("storage_location") :
           /\ ObjectIs(i, s, l)
           /\ s = "config_object" => ConfigAt(p, l)
           /\ s = "script_object" => ScriptAt(p, l)
           /\ s = "repo_object" => RepoAt(p, l)
    BY <1>8 DEF Holds, LocationOf
  <2>2. ObjectIs(i, s, l)'
    BY <2>1, FilesStay DEF ObjectIs, RowOf
  <2>3. l \in Ids("storage_location")'
    BY <2>1, InitConstants DEF RowsKept
  <2> QED BY <1>2, <1>3, <1>4, <1>5, <1>8, <2>1, <2>2, <2>3 DEF Holds
<1>9. CASE s = "code_run"
  BY <1>2, <1>9 DEF Holds, LocationOf
<1> QED BY <1>6, <1>7, <1>8, <1>9, StepSets

(* A constructor that is given a row that fits what it posted gets what it *)
(* wants from the step.                                                    *)
LEMMA NewHolds ==
    ASSUME InitTypeOK, RowsKept, NEW p \in Clients, RefsOK(p), parsed'[p] = parsed[p],
           NEW s \in Posts, NEW i, i \in Ids(TableOf(s))',
           NEW row, row = tables'[TableOf(s)][i], Fits(p, s, row)
    PROVE  Holds(p, s, i)'
<1>1. \A r \in Posts : \A j : j = refs[p][r] /\ j # Null => Holds(p, r, j)'
  BY HoldsStays DEF RefsOK
<1>2. CASE s \in {"root", "repo_root"}
  BY <1>2, TablesOfSteps DEF Fits, Holds, RowOf, LocationOf
<1>3. CASE s = "config_location"
  <2>1. Holds(p, "root", row.storage_root)'
    BY <1>1, <1>3, StepSets DEF Fits, RootOf
  <2>2. LocatedAt(i, "write_data_store", ConfigPath[p], row.hash)'
    BY <1>3, <2>1, TablesOfSteps DEF Fits, Holds, LocatedAt, RowOf
  <2> QED BY <1>3, <2>2 DEF Holds, LocationOf, ConfigAt, Fits
<1>4. CASE s = "script_location"
  <2>1. Holds(p, "root", row.storage_root)'
    BY <1>1, <1>4, StepSets DEF Fits, RootOf
  <2>2. LocatedAt(i, "write_data_store", ScriptPath[p], ScriptHash[p])'
    BY <1>4, <2>1, TablesOfSteps DEF Fits, Holds, LocatedAt, RowOf
  <2> QED BY <1>4, <2>2 DEF Holds, LocationOf, ScriptAt
<1>5. CASE s = "repo_location"
  <2>1. Holds(p, "repo_root", row.storage_root)'
    BY <1>1, <1>5, StepSets DEF Fits, RootOf
  <2>2. LocatedAt(i, "github", RepoPath, CommitOf[parsed[p]])'
    BY <1>5, <2>1, TablesOfSteps DEF Fits, Holds, LocatedAt, RowOf
  <2> QED BY <1>5, <2>2 DEF Holds, LocationOf, RepoAt
<1>6. CASE s \in {"config_object", "script_object", "repo_object"}
  <2>1. PICK l \in Nat : l = refs[p][LocationOf[s]] /\ l # Null
    BY <1>6, StepSets DEF Fits, LocationOf, InitTypeOK
  <2>2. row = [description |-> s, storage_location |-> l]
    BY <1>6, <2>1 DEF Fits, LocationOf
  <2>3. LocationOf[s] \in Posts /\ TableOf(LocationOf[s]) = "storage_location"
    BY <1>6, StepSets, TablesOfSteps DEF LocationOf
  <2>4. Holds(p, LocationOf[s], l)'
    BY <1>1, <2>1, <2>3
  <2>5. l \in Ids("storage_location")'
    BY <2>3, <2>4 DEF Holds
  <2>6. ObjectIs(i, s, l)'
    BY <1>6, <2>2, TablesOfSteps DEF ObjectIs, RowOf
  <2>7. /\ s = "config_object" => ConfigAt(p, l)'
        /\ s = "script_object" => ScriptAt(p, l)'
        /\ s = "repo_object" => RepoAt(p, l)'
    BY <2>4 DEF Holds, LocationOf
  <2> QED BY <1>6, <2>5, <2>6, <2>7 DEF Holds
<1>7. CASE s = "code_run"
  BY <1>7 DEF Holds, LocationOf
<1> QED BY <1>2, <1>3, <1>4, <1>5, <1>6, <1>7, StepSets

(* Among the rows equal to the one in conflict, the first is returned.     *)
LEMMA EntryIsRow ==
    ASSUME InitTypeOK, NEW p \in Clients, NEW t \in Tables
    PROVE  \/ Entry(p, t) = Null
           \/ Entry(p, t) \in Ids(t) /\ tables[t][Entry(p, t)] = conflict[p]
<1> DEFINE found == {i \in Ids(t) : tables[t][i] = conflict[p]}
<1>1. CASE found = {}
  BY <1>1 DEF Entry
<1>2. CASE found # {}
  <2>1. found \subseteq Nat
    BY DEF Ids
  <2>2. PICK i \in found : \A j \in found : <<j, i>> \notin OpToRel(<, Nat)
    BY <1>2, <2>1, NatLessThanWellFounded, WFMin
  <2>3. \A j \in found : i <= j
    <3> SUFFICES ASSUME NEW j \in found, j < i PROVE FALSE
      BY <2>1
    <3>1. <<j, i>> \in OpToRel(<, Nat)
      BY <2>1 DEF OpToRel
    <3> QED BY <2>2, <3>1
  <2>4. Entry(p, t) \in found
    BY <1>2, <2>2, <2>3 DEF Entry
  <2> QED BY <2>4
<1> QED BY <1>1, <1>2

-----------------------------------------------------------------------------
(* What a step does *)

ClientStep(p) ==
    \/ Start(p) \/ ConstructorStep(p)
    \/ ReplyLost(p) \/ Fail(p) \/ Exit(p)
    \/ \E c \in Contents : Edit(p, c)

(* A step posts a row that fits, or leaves the tables alone.               *)
LEMMA TablesStep ==
    ASSUME InitTypeOK, NEW p \in Clients, PermittedOK(p), ClientStep(p)
    PROVE  \/ UNCHANGED tables
           \/ /\ pc[p] \in Posts /\ TableOf(pc[p]) \in Tables
              /\ Row(p, pc[p]) \in Rows /\ Fits(p, pc[p], Row(p, pc[p]))
              /\ Created(p, TableOf(pc[p]), Row(p, pc[p]))
<1>1. CASE pc[p] \in Posts /\ Created(p, TableOf(pc[p]), Row(p, pc[p]))
  <2>1. ~ HasNullReference(Row(p, pc[p]))
    BY <1>1 DEF Created
  <2> QED BY <1>1, <2>1, RowFits, TablesOfSteps
<1>2. CASE ~ (pc[p] \in Posts /\ Created(p, TableOf(pc[p]), Row(p, pc[p])))
  BY <1>2 DEF ClientStep, Start, ConstructorStep, LookUpAccount, QueryFileType, PostStep, Conflicts,
     Queried, Refused, ReplyLost, Fail, CallFails, Exit, Edit, clientVars
<1> QED BY <1>1, <1>2

(* No step changes or removes a row.                                       *)
LEMMA TablesGrow ==
    ASSUME InitTypeOK, NEW p \in Clients, PermittedOK(p), ClientStep(p)
    PROVE  RowsKept /\ tables' \in [Tables -> Seq(Rows)]
<1>1. CASE UNCHANGED tables
  BY <1>1 DEF RowsKept, Ids, InitTypeOK
<1> QED BY <1>1, TablesStep, CreatedRow

(* A step of one process leaves what the others keep alone.                *)
OthersKeep(p) ==
    \A q \in Clients \ {p} :
        /\ pc'[q] = pc[q] /\ refs'[q] = refs[q]
        /\ parsed'[q] = parsed[q] /\ conflict'[q] = conflict[q]

(* A step is one process's own; key, account and token never change.       *)
LEMMA OthersFrame ==
    ASSUME InitTypeOK, NEW p \in Clients, ClientStep(p)
    PROVE  OthersKeep(p) /\ UNCHANGED <<key, account, open>>
<1> USE DEF InitTypeOK, OthersKeep
<1>1. CASE Start(p) \/ Exit(p) \/ \E c \in Contents : Edit(p, c)
  BY <1>1 DEF Start, Exit, Edit, Down, clientVars
<1>2. CASE LookUpAccount(p) \/ QueryFileType(p) \/ Fail(p) \/ ReplyLost(p)
  BY <1>2 DEF LookUpAccount, QueryFileType, Fail, ReplyLost, CallFails, EndCall, Created, Down, clientVars
<1>3. CASE PostStep(p)
  BY <1>3 DEF PostStep, Created, Conflicts, Queried, EndCall, Refused, Advance, Down, clientVars
<1> QED BY <1>1, <1>2, <1>3 DEF ClientStep, ConstructorStep

(* A Config that is gone keeps ids, all null.                              *)
LEMMA NullRefs == NoRefs \in [Posts -> Nat]
BY DEF NoRefs, Null

(* A step that ends keeps the types.                                       *)
LEMMA AdvanceTypes ==
    ASSUME InitTypeOK, NEW p \in Clients, pc[p] \in Posts, NEW i \in Nat, Advance(p, i)
    PROVE  /\ pc' \in [Clients -> StepNames \cup {"down", "ready"}]
           /\ refs' \in [Clients -> [Posts -> Nat]]
           /\ parsed' \in [Clients -> Contents \cup {Nothing}]
<1>1. After(pc[p]) \in StepNames \cup {"ready"}
  BY AfterIsStep DEF Posts
<1> QED BY <1>1 DEF InitTypeOK, Advance

(* Every step keeps the types.                                             *)
LEMMA StepTypes ==
    ASSUME InitTypeOK, NEW p \in Clients, PermittedOK(p), ClientStep(p)
    PROVE  InitTypeOK'
<1> USE DEF InitTypeOK
<1>1. tables' \in [Tables -> Seq(Rows)]
  BY TablesGrow
<1>2. ASSUME Down(p)
      PROVE  /\ pc' \in [Clients -> StepNames \cup {"down", "ready"}]
             /\ refs' \in [Clients -> [Posts -> Nat]]
             /\ parsed' \in [Clients -> Contents \cup {Nothing}]
  BY <1>2, NullRefs DEF Down
<1>3. CASE Start(p) \/ \E c \in Contents : Edit(p, c)
  <2>1. CASE Start(p)
    <3>1. /\ pc' = pc \/ pc' = [pc EXCEPT ![p] = "users"]
          /\ parsed' = parsed \/ parsed' = [parsed EXCEPT ![p] = file[p]]
          /\ edited' = edited \/ edited' = [edited EXCEPT ![p] = FALSE]
          /\ UNCHANGED <<tables, conflict, refs, file, key, faults>>
      BY <2>1 DEF Start, clientVars
    <3>2. "users" \in StepNames
      BY StepSets
    <3> QED BY <1>1, <3>1, <3>2
  <2>2. CASE \E c \in Contents : Edit(p, c)
    BY <1>1, <2>2 DEF Edit, clientVars
  <2> QED BY <1>3, <2>1, <2>2
<1>4. CASE Exit(p)
  BY <1>1, <1>2, <1>4 DEF Exit, clientVars
<1>5. CASE LookUpAccount(p) \/ QueryFileType(p)
  <2>1. pc[p] \in StepNames
    BY <1>5, StepSets DEF LookUpAccount, QueryFileType, Accounts, FileTypes
  <2>2. After(pc[p]) \in StepNames \cup {"ready"}
    BY <2>1, AfterIsStep
  <2> QED BY <1>1, <1>2, <1>5, <2>2 DEF LookUpAccount, QueryFileType, clientVars
<1>6. CASE Fail(p) \/ ReplyLost(p)
  <2>1. /\ Down(p) /\ UseFault
        /\ conflict' = conflict \/ conflict' = [conflict EXCEPT ![p] = NoRow]
        /\ UNCHANGED <<key, file, edited>>
    BY <1>6 DEF Fail, CallFails, EndCall, ReplyLost, Created
  <2>2. faults' \in 0 .. MaxFaults
    BY <2>1, ClientConstants DEF UseFault
  <2> QED BY <1>1, <1>2, <2>1, <2>2
<1>7. CASE PostStep(p)
  <2> DEFINE t == TableOf(pc[p])
             r == Row(p, pc[p])
  <2>0. pc[p] \in Posts /\ t \in Tables
    BY <1>7, TablesOfSteps DEF PostStep
  <2>1. CASE Created(p, t, r) /\ Advance(p, Len(tables[t]) + 1) /\ UNCHANGED faults
    <3>1. Len(tables[t]) + 1 \in Nat
      BY <2>0
    <3> QED BY <1>1, <1>7, <2>0, <2>1, <3>1, AdvanceTypes DEF PostStep, Created
  <2>2. CASE Conflicts(p, t, r) /\ UNCHANGED <<pc, parsed, refs>>
    <3>1. r \in Rows
      BY <2>0, <2>2, RowFits DEF Conflicts
    <3> HIDE DEF r
    <3> QED BY <1>1, <1>7, <2>2, <3>1 DEF PostStep, Conflicts
  <2>3. CASE Queried(p) /\ Advance(p, Entry(p, t))
    <3>1. Entry(p, t) \in Nat
      BY <2>0, EntryIsRow DEF Ids, Null
    <3> QED BY <1>1, <1>7, <2>0, <2>3, <3>1, AdvanceTypes DEF PostStep, Queried, EndCall
  <2>4. CASE Refused(p, t, r) /\ Down(p)
    BY <1>1, <1>2, <1>7, <2>4 DEF PostStep, Refused, clientVars
  <2> QED BY <1>7, <2>1, <2>2, <2>3, <2>4 DEF PostStep
<1> QED BY <1>3, <1>4, <1>5, <1>6, <1>7 DEF ClientStep, ConstructorStep

-----------------------------------------------------------------------------
(* What constructors know *)

(* What a process holds stays good while others post.                      *)
LEMMA RefsStay ==
    ASSUME RowsKept, NEW q \in Clients, refs'[q] = refs[q], parsed'[q] = parsed[q], RefsOK(q)
    PROVE  RefsOK(q)'
<1> SUFFICES ASSUME NEW s \in Posts, refs'[q][s] # Null
             PROVE  \E i \in Ids(TableOf(s))' : i = refs'[q][s] /\ Holds(q, s, i)'
  BY DEF RefsOK
<1>1. PICK i \in Ids(TableOf(s)) : i = refs[q][s] /\ Holds(q, s, i)
  BY DEF RefsOK
<1>2. Holds(q, s, i)'
  BY <1>1, HoldsStays
<1>3. i \in Ids(TableOf(s))'
  BY <1>1, TablesOfSteps DEF RowsKept
<1> QED BY <1>1, <1>2, <1>3

(* What the other processes know stays true.                               *)
LEMMA OthersKnow ==
    ASSUME InitTypeOK, NEW p \in Clients, PermittedOK(p), ClientStep(p),
           NEW q \in Clients, q # p, RefsOK(q), ConflictOK(q), PermittedOK(q)
    PROVE  RefsOK(q)' /\ ConflictOK(q)' /\ PermittedOK(q)'
<1>1. /\ pc'[q] = pc[q] /\ refs'[q] = refs[q]
      /\ parsed'[q] = parsed[q] /\ conflict'[q] = conflict[q]
      /\ UNCHANGED <<account, open>>
  BY OthersFrame DEF OthersKeep
<1>2. RefsOK(q)'
  BY <1>1, TablesGrow, RefsStay
<1>3. ConflictOK(q)'
  BY <1>1 DEF ConflictOK, Fits
<1>4. PermittedOK(q)'
  BY <1>1 DEF PermittedOK
<1> QED BY <1>2, <1>3, <1>4

(* A step goes on only with the row it asked for.                          *)
LEMMA AdvanceKnows ==
    ASSUME InitTypeOK, RowsKept, NEW p \in Clients, RefsOK(p), NEW s \in Posts, s = pc[p],
           NEW i, Advance(p, i), i = Null \/ Holds(p, s, i)'
    PROVE  RefsOK(p)'
<1>1. refs' = [refs EXCEPT ![p][s] = i] /\ parsed' = parsed
  BY DEF Advance
<1> SUFFICES ASSUME NEW r \in Posts, refs'[p][r] # Null
             PROVE  \E j \in Ids(TableOf(r))' : j = refs'[p][r] /\ Holds(p, r, j)'
  BY DEF RefsOK
<1>2. CASE r = s
  <2>1. i = refs'[p][s]
    BY <1>1 DEF InitTypeOK
  <2> QED BY <1>2, <2>1 DEF Holds
<1>3. CASE r # s
  <2>1. refs'[p][r] = refs[p][r]
    BY <1>1, <1>3 DEF InitTypeOK
  <2>2. PICK j \in Ids(TableOf(r)) : j = refs[p][r] /\ Holds(p, r, j)
    BY <2>1 DEF RefsOK
  <2>3. Holds(p, r, j)'
    BY <1>1, <2>2, HoldsStays
  <2> QED BY <2>1, <2>2, <2>3 DEF Holds
<1> QED BY <1>2, <1>3

(* A request that is answered gives the id of a row that is what the step  *)
(* wants, whether it was made or met; or it gives null.                    *)
LEMMA PostKnows ==
    ASSUME InitTypeOK, NEW p \in Clients, RefsOK(p), ConflictOK(p), PermittedOK(p), PostStep(p)
    PROVE  RefsOK(p)' /\ ConflictOK(p)' /\ PermittedOK(p)'
<1>0. PICK s \in Posts : s = pc[p]
  BY DEF PostStep
<1>1. TableOf(s) \in Tables
  BY TablesOfSteps
<1> DEFINE t == TableOf(s)
           r == Row(p, s)
<1>2. ClientStep(p)
  BY DEF ClientStep, ConstructorStep
<1>3. /\ RowsKept
      /\ pc[p] \in StepNames \ Accounts
      /\ UNCHANGED <<account, open>>
  BY <1>0, <1>2, TablesGrow, OthersFrame DEF Posts
<1>4. ASSUME NEW i, Advance(p, i)
      PROVE  PermittedOK(p)' /\ parsed'[p] = parsed[p]
  <2>1. pc'[p] \in StepNames \cup {"ready"}
    BY <1>0, <1>3, <1>4, AfterIsStep DEF Advance, InitTypeOK
  <2>2. pc'[p] # "down"
    BY <2>1, StepSets
  <2> QED BY <1>3, <1>4, <2>1, <2>2 DEF Advance, PermittedOK
<1>5. CASE Created(p, t, r) /\ Advance(p, Len(tables[t]) + 1) /\ UNCHANGED faults
  <2>1. r \in Rows /\ Fits(p, s, r)
    BY <1>0, <1>5, RowFits DEF Created
  <2>2. PICK row \in Rows : row = r
    BY <2>1
  <2>3. PICK i \in Nat : i = Len(tables[t]) + 1
    BY <1>1, <1>5, <2>1, CreatedRow
  <2>4. i \in Ids(t)' /\ tables'[t][i] = row
    BY <1>1, <1>5, <2>1, <2>2, <2>3, CreatedRow
  <2>5. Holds(p, s, i)'
    BY <1>3, <1>4, <1>5, <2>1, <2>2, <2>3, <2>4, NewHolds
  <2>6. RefsOK(p)'
    BY <1>0, <1>3, <1>5, <2>3, <2>5, AdvanceKnows
  <2>7. ConflictOK(p)'
    BY <1>5 DEF Created, ConflictOK
  <2> QED BY <1>4, <1>5, <2>6, <2>7
<1>6. CASE Conflicts(p, t, r) /\ UNCHANGED <<pc, parsed, refs>>
  <2>1. Fits(p, s, r)
    BY <1>0, <1>6, RowFits DEF Conflicts
  <2>2. conflict'[p] = r
    BY <1>6 DEF Conflicts, InitTypeOK
  <2>3. ConflictOK(p)'
    BY <1>0, <1>6, <2>1, <2>2 DEF ConflictOK, Fits
  <2>4. RefsOK(p)'
    BY <1>3, <1>6, RefsStay
  <2>5. PermittedOK(p)'
    BY <1>3, <1>6 DEF PermittedOK
  <2> QED BY <2>3, <2>4, <2>5
<1>7. CASE Queried(p) /\ Advance(p, Entry(p, t))
  <2>1. conflict[p] # NoRow /\ conflict[p] \in Rows /\ Fits(p, s, conflict[p])
    BY <1>0, <1>7 DEF Queried, ConflictOK, InitTypeOK
  <2>2. \/ Entry(p, t) = Null
        \/ Entry(p, t) \in Ids(t) /\ tables[t][Entry(p, t)] = conflict[p]
    BY <1>1, EntryIsRow
  <2>3. PICK i \in Nat : i = Entry(p, t)
    BY <2>2 DEF Ids, Null
  <2>4. PICK row \in Rows : row = conflict[p]
    BY <2>1
  <2>5. i = Null \/ Holds(p, s, i)'
    <3>1. CASE i # Null
      <4>1. i \in Ids(t)' /\ row = tables'[t][i]
        BY <1>7, <2>2, <2>3, <2>4, <3>1 DEF Queried, Ids
      <4> QED BY <1>3, <1>4, <1>7, <2>1, <2>3, <2>4, <4>1, NewHolds
    <3> QED BY <3>1
  <2>6. RefsOK(p)'
    BY <1>0, <1>3, <1>7, <2>3, <2>5, AdvanceKnows
  <2>7. ConflictOK(p)'
    BY <1>7 DEF Queried, EndCall, ConflictOK, InitTypeOK
  <2> QED BY <1>4, <1>7, <2>6, <2>7
<1>8. CASE Refused(p, t, r) /\ Down(p)
  <2>1. refs'[p] = NoRefs /\ pc'[p] = "down" /\ conflict'[p] = NoRow
    BY <1>8 DEF Down, Refused, clientVars, InitTypeOK
  <2> QED BY <2>1, StepSets DEF RefsOK, NoRefs, ConflictOK, PermittedOK
<1> QED BY <1>0, <1>5, <1>6, <1>7, <1>8 DEF PostStep

(* So does what the process that moves knows.                              *)
LEMMA OwnKnow ==
    ASSUME InitTypeOK, NEW p \in Clients, RefsOK(p), ConflictOK(p), PermittedOK(p), ClientStep(p)
    PROVE  RefsOK(p)' /\ ConflictOK(p)' /\ PermittedOK(p)'
<1>0. RowsKept /\ UNCHANGED <<account, open>>
  BY TablesGrow, OthersFrame
<1>1. pc[p] \notin Posts => conflict[p] = NoRow
  BY DEF ConflictOK
<1>2. ASSUME Down(p), conflict'[p] = NoRow
      PROVE  RefsOK(p)' /\ ConflictOK(p)' /\ PermittedOK(p)'
  <2>1. refs'[p] = NoRefs /\ pc'[p] = "down"
    BY <1>2 DEF Down, InitTypeOK
  <2> QED BY <1>2, <2>1, StepSets DEF RefsOK, NoRefs, ConflictOK, PermittedOK
<1>3. ASSUME UNCHANGED <<parsed, refs>>, conflict'[p] = NoRow
      PROVE  RefsOK(p)' /\ ConflictOK(p)'
  BY <1>0, <1>3, RefsStay DEF ConflictOK
<1>4. CASE Start(p)
  <2>1. conflict'[p] = NoRow /\ refs' = refs /\ refs[p] = NoRefs
    BY <1>1, <1>4, StepSets DEF Start, clientVars, PermittedOK
  <2>2. RefsOK(p)' /\ ConflictOK(p)'
    BY <2>1 DEF RefsOK, NoRefs, ConflictOK
  <2>3. PermittedOK(p)'
    <3>1. CASE UNCHANGED <<parsed, pc>>
      BY <1>0, <2>1, <3>1 DEF PermittedOK
    <3>2. CASE pc'[p] = "users" /\ parsed'[p] \in Valid
      BY <3>2 DEF PermittedOK, Accounts
    <3> QED BY <1>4, <3>1, <3>2 DEF Start, InitTypeOK
  <2> QED BY <2>2, <2>3
<1>5. CASE \E c \in Contents : Edit(p, c)
  <2>1. UNCHANGED <<pc, parsed, refs, conflict>>
    BY <1>5 DEF Edit, clientVars
  <2> QED BY <1>0, <2>1, RefsStay DEF ConflictOK, Fits, PermittedOK
<1>6. CASE LookUpAccount(p)
  <2>0. conflict'[p] = NoRow /\ pc[p] \in StepNames
    BY <1>1, <1>6, StepSets DEF LookUpAccount, clientVars, Accounts
  <2>1. CASE Down(p)
    BY <1>2, <2>0, <2>1
  <2>2. CASE ~ Down(p)
    <3>1. /\ UNCHANGED <<parsed, refs>>
          /\ pc' = [pc EXCEPT ![p] = After(pc[p])]
          /\ open \/ pc[p] \in TokenPassed
          /\ account = "author" \/ (account = "user" /\ pc[p] = "users")
      BY <1>6, <2>2 DEF LookUpAccount
    <3>2. pc'[p] = After(pc[p]) /\ parsed[p] \in Valid
      BY <2>0, <3>1 DEF InitTypeOK, PermittedOK
    <3>3. pc'[p] # "down"
      BY <2>0, <3>2, AfterIsStep, StepSets
    <3>4. CASE pc[p] \in {"users", "user_author"}
      <4>1. pc'[p] \in Accounts
        BY <3>2, <3>4, AfterAccounts DEF Accounts
      <4> QED BY <1>3, <2>0, <3>1, <3>2, <3>3, <4>1 DEF PermittedOK, Accounts
    <3>5. CASE pc[p] = "author"
      BY <1>0, <1>3, <2>0, <3>1, <3>2, <3>3, <3>5 DEF PermittedOK, TokenPassed
    <3> QED BY <1>6, <3>4, <3>5 DEF LookUpAccount, Accounts
  <2> QED BY <2>1, <2>2
<1>7. CASE QueryFileType(p)
  <2>1. conflict'[p] = NoRow /\ pc[p] \in StepNames \ Accounts
    BY <1>1, <1>7, StepSets DEF QueryFileType, clientVars, Accounts, FileTypes
  <2>2. pc'[p] \in StepNames \cup {"ready"} /\ UNCHANGED <<parsed, refs>>
    BY <1>7, <2>1, AfterIsStep DEF QueryFileType, InitTypeOK
  <2>3. pc'[p] # "down"
    BY <2>2, StepSets
  <2> QED BY <1>0, <1>3, <2>1, <2>2, <2>3 DEF PermittedOK
<1>8. CASE PostStep(p)
  BY <1>8, PostKnows
<1>9. CASE ReplyLost(p) \/ Fail(p) \/ Exit(p)
  <2>1. Down(p)
    BY <1>9 DEF ReplyLost, Fail, Exit
  <2>2. conflict'[p] = NoRow
    BY <1>1, <1>9, StepSets DEF ReplyLost, Created, Fail, CallFails, EndCall, Exit, clientVars, InitTypeOK
  <2> QED BY <1>2, <2>1, <2>2
<1> QED BY <1>4, <1>5, <1>6, <1>7, <1>8, <1>9 DEF ClientStep, ConstructorStep

-----------------------------------------------------------------------------
(* Code runs *)

(* A code run that is whole stays whole.                                   *)
LEMMA RunStays ==
    ASSUME RowsKept, NEW r \in Ids("code_run"), NEW p \in Clients, NEW c \in Valid,
           RunOfProcess(r, p, c)
    PROVE  RunOfProcess(r, p, c)'
<1>1. PICK i \in Ids("object"), j \in Ids("object"), k \in Ids("object"),
           l \in Ids("storage_location"), m \in Ids("storage_location"), n \in Ids("storage_location") :
        /\ RowOf("code_run", r).model_config = i /\ ObjectIs(i, "config_object", l) /\ ConfigAt(p, l)
        /\ RowOf("code_run", r).submission_script = j /\ ObjectIs(j, "script_object", m) /\ ScriptAt(p, m)
        /\ RowOf("code_run", r).code_repo = k /\ ObjectIs(k, "repo_object", n)
        /\ LocatedAt(n, "github", RepoPath, CommitOf[c])
  BY DEF RunOfProcess
<1>2. /\ ObjectIs(i, "config_object", l)' /\ ObjectIs(j, "script_object", m)'
      /\ ObjectIs(k, "repo_object", n)'
  BY <1>1, FilesStay DEF ObjectIs, RowOf
<1>3. ConfigAt(p, l)' /\ ScriptAt(p, m)' /\ LocatedAt(n, "github", RepoPath, CommitOf[c])'
  <2>1. ConfigAt(p, l)'
    BY <1>1, FilesStay DEF ConfigAt, LocatedAt, RowOf
  <2>2. ScriptAt(p, m)'
    BY <1>1, FilesStay DEF ScriptAt, LocatedAt, RowOf
  <2>3. LocatedAt(n, "github", RepoPath, CommitOf[c])'
    BY <1>1, FilesStay DEF LocatedAt, RowOf
  <2> QED BY <2>1, <2>2, <2>3
<1>4. /\ {i, j, k} \subseteq Ids("object")'
      /\ {l, m, n} \subseteq Ids("storage_location")'
  BY InitConstants DEF RowsKept
<1>5. RowOf("code_run", r)' = RowOf("code_run", r)
  BY InitConstants DEF RowsKept, RowOf
<1> QED BY <1>1, <1>2, <1>3, <1>4, <1>5 DEF RunOfProcess

(* What an object's step holds, at some location.                          *)
LEMMA HeldObject ==
    ASSUME NEW p \in Clients, RefsOK(p), NEW s \in {"config_object", "script_object", "repo_object"},
           refs[p][s] # Null
    PROVE  \E i \in Ids("object"), l \in Ids("storage_location") :
              /\ refs[p][s] = i /\ ObjectIs(i, s, l)
              /\ s = "config_object" => ConfigAt(p, l)
              /\ s = "script_object" => ScriptAt(p, l)
              /\ s = "repo_object" => RepoAt(p, l)
<1>1. s \in Posts /\ TableOf(s) = "object"
  BY StepSets, TablesOfSteps
<1>2. PICK i \in Ids("object") : i = refs[p][s] /\ Holds(p, s, i)
  BY <1>1 DEF RefsOK
<1> QED BY <1>2 DEF Holds, LocationOf

(* The one that is posted is made of what its process holds.               *)
LEMMA NewRun ==
    ASSUME InitTypeOK, NEW p \in Clients, RefsOK(p), PermittedOK(p), pc[p] = "code_run",
           NEW row \in Rows, Fits(p, "code_run", row), Created(p, "code_run", row),
           NEW r, r \in Ids("code_run")', r \notin Ids("code_run")
    PROVE  \E c \in Valid : RunOfProcess(r, p, c)'
<1>0. "code_run" \in Tables
  BY InitConstants
<1>1. /\ RowOf("code_run", r)' = row
      /\ tables'["object"] = tables["object"]
      /\ tables'["storage_location"] = tables["storage_location"]
      /\ tables'["storage_root"] = tables["storage_root"]
  BY <1>0, CreatedRow, InitConstants DEF RowOf
<1>2. /\ row.code_repo = refs[p]["repo_object"] /\ refs[p]["repo_object"] # Null
      /\ row.model_config = refs[p]["config_object"] /\ refs[p]["config_object"] # Null
      /\ row.submission_script = refs[p]["script_object"] /\ refs[p]["script_object"] # Null
  BY DEF Fits
<1>3. PICK i \in Ids("object"), l \in Ids("storage_location") :
         row.model_config = i /\ ObjectIs(i, "config_object", l) /\ ConfigAt(p, l)
  BY <1>2, HeldObject
<1>4. PICK j \in Ids("object"), m \in Ids("storage_location") :
         row.submission_script = j /\ ObjectIs(j, "script_object", m) /\ ScriptAt(p, m)
  BY <1>2, HeldObject
<1>5. PICK k \in Ids("object"), n \in Ids("storage_location") :
         row.code_repo = k /\ ObjectIs(k, "repo_object", n) /\ RepoAt(p, n)
  BY <1>2, HeldObject
<1>6. PICK c \in Valid : c = parsed[p]
  BY StepSets DEF PermittedOK
<1>7. /\ ObjectIs(i, "config_object", l)' /\ ConfigAt(p, l)'
      /\ ObjectIs(j, "script_object", m)' /\ ScriptAt(p, m)'
      /\ ObjectIs(k, "repo_object", n)' /\ LocatedAt(n, "github", RepoPath, CommitOf[c])'
  BY <1>1, <1>3, <1>4, <1>5, <1>6
     DEF ObjectIs, ConfigAt, ScriptAt, RepoAt, LocatedAt, RowOf, Ids
<1>8. /\ {i, j, k} \subseteq Ids("object")'
      /\ {l, m, n} \subseteq Ids("storage_location")'
  BY <1>1 DEF Ids
<1> QED BY <1>1, <1>3, <1>4, <1>5, <1>7, <1>8 DEF RunOfProcess

(* Every code run is of a process, before a step and after.                *)
LEMMA RunsStep ==
    ASSUME IInv, NEW p \in Clients, ClientStep(p), NEW r, r \in Ids("code_run")'
    PROVE  WholeRun(r)'
<1> USE DEF IInv
<1>1. CASE r \in Ids("code_run")
  <2>1. PICK q \in Clients, c \in Valid : RunOfProcess(r, q, c)
    BY <1>1 DEF WholeRun
  <2>2. RunOfProcess(r, q, c)'
    BY <1>1, <2>1, TablesGrow, RunStays
  <2> QED BY <2>2 DEF WholeRun
<1>2. CASE r \notin Ids("code_run")
  <2>1. tables' # tables
    BY <1>2 DEF Ids
  <2>2. PICK s \in Posts : s = pc[p]
    BY <2>1, TablesStep
  <2>3. PICK row \in Rows : row = Row(p, s)
    BY <2>1, <2>2, TablesStep
  <2>4. TableOf(s) \in Tables /\ Fits(p, s, row) /\ Created(p, TableOf(s), row)
    BY <2>1, <2>2, <2>3, TablesStep
  <2>5. TableOf(s) = "code_run"
    BY <1>2, <2>4, CreatedRow, InitConstants DEF Ids
  <2>6. s = "code_run"
    BY <2>5, StepSets, TablesOfSteps
  <2>7. \E c \in Valid : RunOfProcess(r, p, c)'
    BY <1>2, <2>2, <2>4, <2>5, <2>6, NewRun
  <2> QED BY <2>7 DEF WholeRun
<1> QED BY <1>1, <1>2

-----------------------------------------------------------------------------
(* The invariant and what follows from it *)

(* The invariant holds at first.                                           *)
LEMMA InitIInv == Init => IInv
<1> SUFFICES ASSUME Init PROVE IInv
  OBVIOUS
<1> USE DEF Init, ClientInit
<1>1. InitTypeOK
  <2>1. tables \in [Tables -> Seq(Rows)]
    OBVIOUS
  <2> QED BY <2>1, NullRefs, InitConstants, ClientConstants DEF InitTypeOK
<1>2. \A p \in Clients : RefsOK(p) /\ ConflictOK(p) /\ PermittedOK(p)
  BY StepSets DEF RefsOK, NoRefs, ConflictOK, PermittedOK
<1>3. Ids("code_run") = {}
  BY InitConstants DEF Ids
<1> QED BY <1>1, <1>2, <1>3 DEF IInv

(* The invariant is kept by every step.                                    *)
LEMMA NextIInv == IInv /\ [Next]_vars => IInv'
<1> SUFFICES ASSUME IInv, [Next]_vars PROVE IInv'
  OBVIOUS
<1> USE DEF IInv
<1>1. CASE UNCHANGED vars
  <2>1. \A p \in Clients : ConflictOK(p)' /\ PermittedOK(p)'
    BY <1>1 DEF vars, clientVars, initVars, ConflictOK, Fits, PermittedOK
  <2>2. RowsKept
    BY <1>1 DEF vars, clientVars, RowsKept, Ids
  <2>3. \A p \in Clients : RefsOK(p)'
    BY <1>1, <2>2, RefsStay DEF vars, initVars
  <2>4. \A r \in Ids("code_run")' : WholeRun(r)'
    BY <1>1, <2>2, RunStays DEF vars, clientVars, Ids, WholeRun
  <2> QED BY <1>1, <2>1, <2>3, <2>4 DEF vars, clientVars, initVars, InitTypeOK
<1>2. ASSUME NEW p \in Clients, ClientStep(p)
      PROVE  IInv'
  <2>1. InitTypeOK'
    BY <1>2, StepTypes
  <2>2. \A q \in Clients : RefsOK(q)' /\ ConflictOK(q)' /\ PermittedOK(q)'
    BY <1>2, OwnKnow, OthersKnow
  <2>3. \A r \in Ids("code_run")' : WholeRun(r)'
    BY <1>2, RunsStep
  <2> QED BY <2>1, <2>2, <2>3
<1> QED BY <1>1, <1>2 DEF Next, ClientStep

(* What constructors know of the rows they got is true, whatever others    *)
(* post or leave behind, and every code run is whole.                      *)
THEOREM Invariance == Spec => []IInv
BY InitIInv, NextIInv, PTL DEF Spec

(* Every id that a process keeps is the id of a row of the table it was    *)
(* posted to, or null.                                                     *)
THEOREM TypeCorrect == Spec => []TypeOK
<1>1. IInv => TypeOK
  <2> SUFFICES ASSUME IInv PROVE TypeOK
    OBVIOUS
  <2>1. \A p \in Clients, s \in Posts : refs[p][s] \in Ids(TableOf(s)) \cup {Null}
    BY DEF IInv, RefsOK
  <2> QED BY <2>1 DEF IInv, InitTypeOK, TypeOK
<1> QED BY <1>1, Invariance, PTL

(* A code run in the registry is whole: for any unique keys the registry's *)
(* tables may have.                                                        *)
THEOREM RunsAreWhole == Spec => []CodeRunsAreWhole
<1>1. IInv => CodeRunsAreWhole
  <2> SUFFICES ASSUME IInv, NEW r \in Ids("code_run")
               PROVE  LET cr == RowOf("code_run", r) IN
                      /\ GoodObject(cr.code_repo, "repo_object", "github")
                      /\ GoodObject(cr.model_config, "config_object", "write_data_store")
                      /\ GoodObject(cr.submission_script, "script_object", "write_data_store")
    BY DEF CodeRunsAreWhole
  <2>1. PICK p \in Clients, c \in Valid : RunOfProcess(r, p, c)
    BY DEF IInv, WholeRun
  <2>2. ASSUME NEW i, NEW what, NEW l, NEW root, NEW path, NEW hash,
               ObjectIs(i, what, l), LocatedAt(l, root, path, hash)
        PROVE  GoodObject(i, what, root)
    BY <2>2 DEF ObjectIs, LocatedAt, GoodObject, RowOf
  <2> QED BY <2>1, <2>2 DEF RunOfProcess, ConfigAt, ScriptAt
<1> QED BY <1>1, Invariance, PTL

(* Nothing is written to the registry without an author or a valid config, *)
(* and nothing to one that asks for a token.                               *)
THEOREM WritesAuthorised == Spec => WritesAreAuthorised
<1>1. IInv /\ [Next]_vars =>
         [tables' # tables =>
             /\ account = "author" /\ open
             /\ \E p \in Clients : pc[p] \in Posts /\ parsed[p] \in Valid]_vars
  <2> SUFFICES ASSUME IInv, NEW p \in Clients, ClientStep(p), tables' # tables
               PROVE  /\ account = "author" /\ open
                      /\ pc[p] \in Posts /\ parsed[p] \in Valid
    BY DEF Next, ClientStep
  <2>1. pc[p] \in Posts
    BY TablesStep DEF IInv
  <2> QED BY <2>1 DEF IInv, PermittedOK, Posts
<1> QED BY <1>1, Invariance, PTL DEF Spec, WritesAreAuthorised

=============================================================================

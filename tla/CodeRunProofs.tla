----------------------------- MODULE CodeRunProofs -----------------------------
(***************************************************************************)
(* What the code runs of ConfigInit say, for all constants: together they  *)
(* are a CodeRunLedger (the POST of a code run is a Record, every other    *)
(* step a stutter), and when the registry asks no object to be unlike      *)
(* others, no two share one and each describes the Config that holds it.   *)
(***************************************************************************)
EXTENDS ConfigInitProofs

FileFields == {"model_config", "submission_script", "code_repo"}
ObjectSteps == {"config_object", "script_object", "repo_object"}
FieldOf == [config_object |-> "model_config", script_object |-> "submission_script",
            repo_object |-> "code_repo"]

(* What code run r stands for, and all of them.                            *)
EntryOf(r) == [f \in FileFields |-> FileOf(RowOf("code_run", r)[f])]
Entries == [r \in Ids("code_run") |-> EntryOf(r)]

(* An object stands for the file at its location.                          *)
LEMMA FileOfObject ==
    ASSUME NEW i, NEW what, NEW l, NEW root, NEW path, NEW hash,
           ObjectIs(i, what, l), LocatedAt(l, root, path, hash)
    PROVE  FileOf(i) = [root |-> root, path |-> path, hash |-> hash]
BY DEF ObjectIs, LocatedAt, FileOf, RowOf

(* It does after a step, too.                                              *)
LEMMA FileOfObjectNext ==
    ASSUME NEW i, NEW what, NEW l, NEW root, NEW path, NEW hash,
           ObjectIs(i, what, l)', LocatedAt(l, root, path, hash)'
    PROVE  FileOf(i)' = [root |-> root, path |-> path, hash |-> hash]
BY DEF ObjectIs, LocatedAt, FileOf, RowOf

(* A step that keeps the rows keeps what an object stands for.             *)
LEMMA FileOfStays ==
    ASSUME RowsKept, NEW i, NEW what, NEW l, NEW root, NEW path, NEW hash,
           ObjectIs(i, what, l), LocatedAt(l, root, path, hash)
    PROVE  FileOf(i)' = FileOf(i)
<1>1. ObjectIs(i, what, l)'
  BY FilesStay DEF ObjectIs, RowOf
<1>2. LocatedAt(l, root, path, hash)'
  BY FilesStay DEF LocatedAt, RowOf
<1> QED BY <1>1, <1>2, FileOfObject, FileOfObjectNext

(* A whole code run stands for what it stood for.                          *)
LEMMA EntryStays ==
    ASSUME RowsKept, NEW r \in Ids("code_run"), WholeRun(r)
    PROVE  EntryOf(r)' = EntryOf(r)
<1>1. PICK p \in Clients, c \in Valid : RunOfProcess(r, p, c)
  BY DEF WholeRun
<1>2. PICK i \in Ids("object"), j \in Ids("object"), k \in Ids("object"),
           l \in Ids("storage_location"), m \in Ids("storage_location"), n \in Ids("storage_location") :
        /\ RowOf("code_run", r).model_config = i /\ ObjectIs(i, "config_object", l) /\ ConfigAt(p, l)
        /\ RowOf("code_run", r).submission_script = j /\ ObjectIs(j, "script_object", m) /\ ScriptAt(p, m)
        /\ RowOf("code_run", r).code_repo = k /\ ObjectIs(k, "repo_object", n)
        /\ LocatedAt(n, "github", RepoPath, CommitOf[c])
  BY <1>1 DEF RunOfProcess
<1>3. RowOf("code_run", r)' = RowOf("code_run", r)
  BY InitConstants DEF RowsKept, RowOf
<1>4. FileOf(i)' = FileOf(i)
  BY <1>2, FileOfStays DEF ConfigAt
<1>5. FileOf(j)' = FileOf(j)
  BY <1>2, FileOfStays DEF ScriptAt
<1>6. FileOf(k)' = FileOf(k)
  BY <1>2, FileOfStays
<1>7. \A f \in FileFields : FileOf(RowOf("code_run", r)[f])' = FileOf(RowOf("code_run", r)[f])
  BY <1>2, <1>3, <1>4, <1>5, <1>6 DEF FileFields
<1> QED BY <1>7 DEF EntryOf

(* A run of a process, once posted, stands for a run of the ledger.        *)
LEMMA NewEntry ==
    ASSUME NEW r, NEW p \in Clients, NEW c \in Valid, RunOfProcess(r, p, c)'
    PROVE  \E d \in Contents : EntryOf(r)' = Ledger!RunOf(p, c, d)
<1>1. PICK i, j, k, l, m, n :
        /\ RowOf("code_run", r)'.model_config = i
        /\ ObjectIs(i, "config_object", l)' /\ ConfigAt(p, l)'
        /\ RowOf("code_run", r)'.submission_script = j
        /\ ObjectIs(j, "script_object", m)' /\ ScriptAt(p, m)'
        /\ RowOf("code_run", r)'.code_repo = k /\ ObjectIs(k, "repo_object", n)'
        /\ LocatedAt(n, "github", RepoPath, CommitOf[c])'
  BY DEF RunOfProcess
<1>2. PICK d \in Contents : LocatedAt(l, "write_data_store", ConfigPath[p], d)'
  BY <1>1 DEF ConfigAt
<1>3. FileOf(i)' = Ledger!At("write_data_store", ConfigPath[p], d)
  BY <1>1, <1>2, FileOfObjectNext DEF Ledger!At
<1>4. FileOf(j)' = Ledger!At("write_data_store", ScriptPath[p], ScriptHash[p])
  BY <1>1, FileOfObjectNext DEF ScriptAt, Ledger!At
<1>5. FileOf(k)' = Ledger!At("github", RepoPath, CommitOf[c])
  BY <1>1, FileOfObjectNext DEF Ledger!At
<1>6. /\ FileOf(RowOf("code_run", r)["model_config"])' = FileOf(i)'
      /\ FileOf(RowOf("code_run", r)["submission_script"])' = FileOf(j)'
      /\ FileOf(RowOf("code_run", r)["code_repo"])' = FileOf(k)'
  BY <1>1 DEF FileOf
<1>7. EntryOf(r)' = Ledger!RunOf(p, c, d)
  BY <1>3, <1>4, <1>5, <1>6 DEF EntryOf, FileFields, Ledger!RunOf
<1> QED BY <1>7

(* A registry without rows is an empty ledger.                             *)
LEMMA InitLedger == Init => Ledger!Init
<1> SUFFICES ASSUME Init PROVE Ledger!Init
  OBVIOUS
<1>1. Ids("code_run") = {}
  BY InitConstants DEF Init, ClientInit, Ids
<1> QED BY <1>1 DEF Ledger!Init

(* A step that posts no code run leaves the ledger as it is.               *)
LEMMA OldEntries ==
    ASSUME IInv, RowsKept, Ids("code_run")' = Ids("code_run")
    PROVE  Entries' = Entries
<1>1. \A r \in Ids("code_run") : EntryOf(r)' = EntryOf(r)
  BY EntryStays DEF IInv
<1> QED BY <1>1 DEF Entries

(* The POST of a code run adds its entry to the ledger.                    *)
LEMMA EntryAdded ==
    ASSUME IInv, NEW p \in Clients, ClientStep(p), Ids("code_run")' # Ids("code_run")
    PROVE  \E c \in Valid, d \in Contents : Entries' = Append(Entries, Ledger!RunOf(p, c, d))
<1> USE DEF IInv
<1>1. tables' # tables
  BY DEF Ids
<1>2. PICK s \in Posts : s = pc[p]
  BY <1>1, TablesStep
<1>3. PICK row \in Rows : row = Row(p, s)
  BY <1>1, <1>2, TablesStep
<1>4. TableOf(s) \in Tables /\ Fits(p, s, row) /\ Created(p, TableOf(s), row)
  BY <1>1, <1>2, <1>3, TablesStep
<1>5. TableOf(s) = "code_run"
  BY <1>4, CreatedRow, InitConstants DEF Ids
<1>6. s = "code_run"
  BY <1>5, StepSets, TablesOfSteps
<1>7. PICK n \in Nat : n = Len(tables["code_run"])
  BY <1>4, <1>5, CreatedRow
<1>8. /\ RowsKept /\ n + 1 \in Ids("code_run")'
      /\ Ids("code_run") = 1 .. n /\ Ids("code_run")' = (1 .. n) \cup {n + 1}
  BY <1>4, <1>5, <1>7, CreatedRow DEF Ids
<1>9. PICK c \in Valid : RunOfProcess(n + 1, p, c)'
  BY <1>2, <1>4, <1>5, <1>6, <1>8, NewRun
<1>10. PICK d \in Contents : EntryOf(n + 1)' = Ledger!RunOf(p, c, d)
  BY <1>9, NewEntry
<1>11. \A r \in 1 .. n : EntryOf(r)' = EntryOf(r)
  BY <1>8, EntryStays
<1>12. Entries = [r \in 1 .. n |-> EntryOf(r)] /\ Len(Entries) = n
  BY <1>8 DEF Entries
<1>13. Entries' = [r \in 1 .. n + 1 |-> IF r = n + 1 THEN Ledger!RunOf(p, c, d) ELSE Entries[r]]
  <2>0. (1 .. n) \cup {n + 1} = 1 .. n + 1
    OBVIOUS
  <2>1. Ids("code_run")' = 1 .. n + 1
    BY <1>8, <2>0
  <2>2. \A r \in 1 .. n + 1 :
           EntryOf(r)' = IF r = n + 1 THEN Ledger!RunOf(p, c, d) ELSE Entries[r]
    <3>1. ASSUME NEW r \in 1 .. n
          PROVE  r # n + 1 /\ EntryOf(r)' = Entries[r]
      BY <1>11, <1>12
    <3> QED BY <1>10, <3>1
  <2>3. Entries' = [r \in 1 .. n + 1 |-> EntryOf(r)']
    BY <2>1 DEF Entries
  <2> QED BY <2>2, <2>3
<1>14. Entries' = Append(Entries, Ledger!RunOf(p, c, d))
  BY <1>12, <1>13
<1> QED BY <1>14

(* Every step records a run, or leaves the ledger as it is.                *)
LEMMA StepLedger ==
    ASSUME IInv, [Next]_vars
    PROVE  [\E p \in Clients, c \in Valid, d \in Contents :
               Entries' = Append(Entries, Ledger!RunOf(p, c, d))]_Entries
<1>1. CASE UNCHANGED vars
  <2>1. RowsKept /\ Ids("code_run")' = Ids("code_run")
    BY <1>1 DEF vars, clientVars, RowsKept, Ids
  <2> QED BY <2>1, OldEntries
<1>2. ASSUME NEW p \in Clients, ClientStep(p)
      PROVE  [\E q \in Clients, c \in Valid, d \in Contents :
                 Entries' = Append(Entries, Ledger!RunOf(q, c, d))]_Entries
  <2>1. CASE Ids("code_run")' = Ids("code_run")
    BY <1>2, <2>1, TablesGrow, OldEntries DEF IInv
  <2>2. CASE Ids("code_run")' # Ids("code_run")
    BY <1>2, <2>2, EntryAdded
  <2> QED BY <2>1, <2>2
<1> QED BY <1>1, <1>2 DEF Next, ClientStep

(* Whatever constructors interleave, fail half way or work from files that *)
(* change, and whatever the unique keys of the registry's tables: its code *)
(* runs are a ledger of whole runs, each of one process.                   *)
THEOREM LedgerIsImplemented == Spec => ImplementsLedger
<1>1. IInv /\ [Next]_vars => [Ledger!Record]_Entries
  BY StepLedger DEF Ledger!Record, Entries, EntryOf, FileFields
<1> QED BY <1>1, InitLedger, Invariance, PTL
        DEF Spec, ImplementsLedger, Ledger!Spec, Entries, EntryOf, FileFields

-----------------------------------------------------------------------------
(* Whose objects are whose *)

(* Nothing makes an object or a code run unlike the others.                *)
Unkeyed == \A k \in Keys : k["object"] = {} /\ k["code_run"] = {}

(* An object a constructor posted is no other one's, and no code run's     *)
(* before its own is posted.                                               *)
OwnObjects(p) ==
    \A s \in ObjectSteps : refs[p][s] # Null =>
        /\ \A q \in Clients \ {p} : refs[q][s] # refs[p][s]
        /\ pc[p] # "ready" => \A r \in Ids("code_run") : RowOf("code_run", r)[FieldOf[s]] # refs[p][s]

(* A Config's code run names the Config's objects.                         *)
OwnRun(p) ==
    pc[p] = "ready" =>
        /\ refs[p]["code_run"] \in Ids("code_run")
        /\ \A s \in ObjectSteps :
              /\ refs[p][s] # Null
              /\ RowOf("code_run", refs[p]["code_run"])[FieldOf[s]] = refs[p][s]

(* Objects and code runs meet no conflict.                                 *)
NoMeeting(p) == conflict[p] # NoRow => pc[p] \notin ObjectSteps \cup {"code_run"}

RunsOwn ==
    /\ ObjectsNotShared
    /\ \A p \in Clients : OwnObjects(p) /\ OwnRun(p) /\ NoMeeting(p)

(* Only the last step leads to the end.                                    *)
LEMMA AfterReady ==
    ASSUME NEW s \in StepNames
    PROVE  After(s) = "ready" <=> s = "code_run"
<1> DEFINE i == CHOOSE j \in 1 .. Len(Steps) : Steps[j] = s
<1>1. Len(Steps) = 14
  BY DEF Steps
<1>2. PICK k \in 1 .. Len(Steps) : Steps[k] = s
  BY DEF StepNames
<1>3. i \in 1 .. 14 /\ Steps[i] = s
  BY <1>1, <1>2
<1>4. After(s) = IF i = Len(Steps) THEN "ready" ELSE Steps[i + 1]
  BY DEF After
<1> HIDE DEF i
<1>5. \A j \in 1 .. 14 : Steps[j] # "ready" /\ (Steps[j] = "code_run" <=> j = 14)
  BY DEF Steps
<1> QED BY <1>1, <1>3, <1>4, <1>5

(* A code run names objects that exist.                                    *)
LEMMA RunFields ==
    ASSUME NEW r, WholeRun(r), NEW s \in ObjectSteps
    PROVE  RowOf("code_run", r)[FieldOf[s]] \in Ids("object")
BY DEF WholeRun, RunOfProcess, ObjectSteps, FieldOf

(* What a step does to its own process: an object it gets is a new one,    *)
(* only the POST of the code run makes a Config, and nothing else adds one *)
(* while ids are kept.                                                     *)
LEMMA OwnStep ==
    ASSUME IInv, NEW p \in Clients, NoMeeting(p), ClientStep(p)
    PROVE  /\ \A s \in ObjectSteps :
                 \/ refs'[p][s] = Null \/ refs'[p][s] = refs[p][s]
                 \/ /\ refs'[p][s] = Len(tables["object"]) + 1
                    /\ pc'[p] # "ready" /\ tables'["code_run"] = tables["code_run"]
           /\ pc[p] = "ready" => pc'[p] = "ready" \/ refs'[p] = NoRefs
           /\ pc'[p] = "ready" =>
                 \/ pc[p] = "ready" /\ refs'[p] = refs[p] /\ tables' = tables
                 \/ /\ pc[p] = "code_run" /\ Created(p, "code_run", Row(p, "code_run"))
                    /\ refs'[p] = [refs[p] EXCEPT !["code_run"] = Len(tables["code_run"]) + 1]
           /\ \/ tables'["code_run"] = tables["code_run"]
              \/ refs'[p] = NoRefs \/ pc'[p] = "ready"
<1> DEFINE Effect ==
           /\ \A s \in ObjectSteps :
                 \/ refs'[p][s] = Null \/ refs'[p][s] = refs[p][s]
                 \/ /\ refs'[p][s] = Len(tables["object"]) + 1
                    /\ pc'[p] # "ready" /\ tables'["code_run"] = tables["code_run"]
           /\ pc[p] = "ready" => pc'[p] = "ready" \/ refs'[p] = NoRefs
           /\ pc'[p] = "ready" =>
                 \/ pc[p] = "ready" /\ refs'[p] = refs[p] /\ tables' = tables
                 \/ /\ pc[p] = "code_run" /\ Created(p, "code_run", Row(p, "code_run"))
                    /\ refs'[p] = [refs[p] EXCEPT !["code_run"] = Len(tables["code_run"]) + 1]
           /\ \/ tables'["code_run"] = tables["code_run"]
              \/ refs'[p] = NoRefs \/ pc'[p] = "ready"
<1> USE DEF IInv, InitTypeOK
<1>0. \A s \in ObjectSteps : s \in Posts /\ NoRefs[s] = Null
  BY StepSets DEF ObjectSteps, NoRefs
<1>1. ASSUME Down(p) PROVE Effect
  <2>1. refs'[p] = NoRefs /\ pc'[p] = "down"
    BY <1>1 DEF Down
  <2> QED BY <1>0, <2>1
<1>2. ASSUME UNCHANGED <<refs, tables>>, pc'[p] = "ready" <=> pc[p] = "ready" PROVE Effect
  BY <1>2
<1>3. CASE Start(p) \/ \E c \in Contents : Edit(p, c)
  BY <1>2, <1>3 DEF Start, Edit, clientVars
<1>4. CASE LookUpAccount(p) \/ QueryFileType(p)
  <2>1. pc[p] \in StepNames \ {"code_run", "ready"}
    BY <1>4, StepSets DEF LookUpAccount, QueryFileType, Accounts, FileTypes
  <2>2. After(pc[p]) # "ready"
    BY <2>1, AfterReady
  <2> QED BY <1>1, <1>2, <1>4, <2>1, <2>2 DEF LookUpAccount, QueryFileType, clientVars
<1>5. CASE ReplyLost(p) \/ Fail(p) \/ Exit(p)
  BY <1>1, <1>5 DEF ReplyLost, Fail, Exit
<1>6. CASE PostStep(p)
  <2>1. PICK s \in Posts : s = pc[p]
    BY <1>6 DEF PostStep
  <2>2. s \in StepNames /\ s # "ready"
    BY StepSets
  <2>3. TableOf(s) \in Tables
    BY TablesOfSteps
  <2>4. CASE Created(p, TableOf(s), Row(p, s)) /\ Advance(p, Len(tables[TableOf(s)]) + 1)
    <3>1. /\ refs'[p] = [refs[p] EXCEPT ![s] = Len(tables[TableOf(s)]) + 1]
          /\ pc'[p] = After(s)
      BY <2>1, <2>4 DEF Advance
    <3>2. CASE s = "code_run"
      <4>1. TableOf(s) = "code_run" /\ pc'[p] = "ready" /\ s \notin ObjectSteps
        BY <2>2, <3>1, <3>2, AfterReady, TablesOfSteps DEF ObjectSteps
      <4> QED BY <1>0, <2>1, <2>4, <3>1, <3>2, <4>1
    <3>3. CASE s # "code_run"
      <4>1. pc'[p] # "ready" /\ TableOf(s) # "code_run"
        BY <2>2, <3>1, <3>3, AfterReady, StepSets, TablesOfSteps
      <4>2. tables'["code_run"] = tables["code_run"]
        BY <2>4, <4>1 DEF Created
      <4>3. s \in ObjectSteps => TableOf(s) = "object"
        BY TablesOfSteps DEF ObjectSteps
      <4> QED BY <1>0, <2>1, <2>2, <3>1, <4>1, <4>2, <4>3
    <3> QED BY <3>2, <3>3
  <2>5. CASE Queried(p) /\ Advance(p, Entry(p, TableOf(s)))
    <3>1. s \notin ObjectSteps /\ s # "code_run"
      BY <2>1, <2>5 DEF Queried, NoMeeting
    <3>2. /\ refs'[p] = [refs[p] EXCEPT ![s] = Entry(p, TableOf(s))]
          /\ pc'[p] = After(s)
      BY <2>1, <2>5 DEF Advance
    <3>3. pc'[p] # "ready" /\ tables' = tables
      BY <2>2, <2>5, <3>1, <3>2, AfterReady DEF Queried
    <3> QED BY <1>0, <2>1, <2>2, <3>1, <3>2, <3>3
  <2>6. CASE Conflicts(p, TableOf(s), Row(p, s)) /\ UNCHANGED <<pc, parsed, refs>>
    BY <1>2, <2>6 DEF Conflicts
  <2> QED BY <1>1, <1>6, <2>1, <2>4, <2>5, <2>6 DEF PostStep
<1> QED BY <1>3, <1>4, <1>5, <1>6 DEF ClientStep, ConstructorStep

(* A POST of an object or a code run is not in conflict with any.          *)
LEMMA MeetingsStay ==
    ASSUME IInv, Unkeyed, NEW p \in Clients, NoMeeting(p), ClientStep(p)
    PROVE  NoMeeting(p)'
<1> USE DEF IInv, InitTypeOK
<1>0. ConflictOK(p)'
  BY OwnKnow
<1>1. CASE pc'[p] = pc[p] /\ conflict'[p] = conflict[p]
  BY <1>1 DEF NoMeeting
<1>2. CASE pc[p] \notin Posts
  <2>1. conflict[p] = NoRow
    BY <1>2 DEF ConflictOK
  <2>2. conflict'[p] = NoRow
    BY <1>2, <2>1 DEF ClientStep, ConstructorStep, Start, Edit, LookUpAccount, QueryFileType, PostStep,
       ReplyLost, Fail, CallFails, EndCall, Exit, clientVars
  <2> QED BY <2>2 DEF NoMeeting
<1>3. CASE pc[p] \in Posts
  <2>1. PICK s \in Posts : s = pc[p]
    BY <1>3
  <2>2. CASE Conflicts(p, TableOf(s), Row(p, s)) /\ UNCHANGED pc
    <3>1. key[TableOf(s)] # {}
      BY <2>2 DEF Conflicts, Conflicting
    <3>2. TableOf(s) \notin {"object", "code_run"}
      BY <3>1 DEF Unkeyed
    <3>3. s \notin ObjectSteps \cup {"code_run"}
      BY <3>2, TablesOfSteps DEF ObjectSteps
    <3> QED BY <2>1, <2>2, <3>3 DEF NoMeeting
  <2>3. CASE conflict'[p] = NoRow
    BY <2>3 DEF NoMeeting
  <2>4. \/ Conflicts(p, TableOf(s), Row(p, s)) /\ UNCHANGED pc
        \/ conflict'[p] = NoRow
        \/ pc'[p] = pc[p] /\ conflict'[p] = conflict[p]
    BY <2>1, StepSets
       DEF ClientStep, ConstructorStep, Start, Edit, LookUpAccount, QueryFileType, PostStep, ReplyLost,
           Fail, CallFails, EndCall, Exit, Created, Queried, Refused, clientVars, Accounts, FileTypes
  <2> QED BY <1>1, <2>2, <2>3, <2>4
<1> QED BY <1>2, <1>3

(* A code run that is there names what it named.                           *)
LEMMA NamesStay ==
    ASSUME IInv, NEW p \in Clients, ClientStep(p), NEW r \in Ids("code_run")
    PROVE  r \in Ids("code_run")' /\ RowOf("code_run", r)' = RowOf("code_run", r)
BY TablesGrow, InitConstants DEF IInv, RowsKept, RowOf

(* A new code run is its process's, and names the objects it holds.        *)
LEMMA NewNames ==
    ASSUME IInv, NEW p \in Clients, ClientStep(p),
           NEW r, r \in Ids("code_run")', r \notin Ids("code_run")
    PROVE  /\ pc[p] = "code_run" /\ r = Len(tables["code_run"]) + 1
           /\ \A s \in ObjectSteps : /\ refs[p][s] # Null
                                     /\ RowOf("code_run", r)'[FieldOf[s]] = refs[p][s]
<1> USE DEF IInv
<1>1. tables' # tables
  BY DEF Ids
<1>2. PICK s \in Posts : s = pc[p]
  BY <1>1, TablesStep
<1>3. PICK row \in Rows : row = Row(p, s)
  BY <1>1, <1>2, TablesStep
<1>4. TableOf(s) \in Tables /\ Fits(p, s, row) /\ Created(p, TableOf(s), row)
  BY <1>1, <1>2, <1>3, TablesStep
<1>5. TableOf(s) = "code_run"
  BY <1>4, CreatedRow, InitConstants DEF Ids
<1>6. s = "code_run"
  BY <1>5, StepSets, TablesOfSteps
<1>7. r = Len(tables["code_run"]) + 1 /\ RowOf("code_run", r)' = row
  BY <1>4, <1>5, CreatedRow DEF RowOf
<1>8. \A o \in ObjectSteps : refs[p][o] # Null /\ row[FieldOf[o]] = refs[p][o]
  BY <1>4, <1>6 DEF Fits, ObjectSteps, FieldOf
<1> QED BY <1>2, <1>6, <1>7, <1>8

(* No id of an object is the next one.                                     *)
LEMMA NextObject ==
    ASSUME IInv, NEW s \in ObjectSteps
    PROVE  /\ Len(tables["object"]) + 1 # Null
           /\ \A q \in Clients : refs[q][s] # Len(tables["object"]) + 1
           /\ \A r \in Ids("code_run") :
                 RowOf("code_run", r)[FieldOf[s]] # Len(tables["object"]) + 1
<1>1. Len(tables["object"]) \in Nat
  BY InitConstants DEF IInv, InitTypeOK
<1>2. ASSUME NEW i \in Ids("object") PROVE i # Len(tables["object"]) + 1
  BY <1>1 DEF Ids
<1>3. s \in Posts /\ TableOf(s) = "object"
  BY StepSets, TablesOfSteps DEF ObjectSteps
<1>4. \A q \in Clients : refs[q][s] = Null \/ refs[q][s] \in Ids("object")
  BY <1>3 DEF IInv, RefsOK
<1>5. \A r \in Ids("code_run") : RowOf("code_run", r)[FieldOf[s]] \in Ids("object")
  BY RunFields DEF IInv
<1> QED BY <1>1, <1>2, <1>4, <1>5 DEF Null

(* Objects stay their process's, whichever process moves.                  *)
LEMMA OwnObjectsStay ==
    ASSUME IInv, RunsOwn, NEW p \in Clients, ClientStep(p), NEW q \in Clients
    PROVE  OwnObjects(q)'
<1> USE DEF IInv, RunsOwn
<1>1. \A o \in Clients \ {p} : refs'[o] = refs[o] /\ pc'[o] = pc[o]
  BY OthersFrame DEF OthersKeep
<1> SUFFICES ASSUME NEW s \in ObjectSteps, refs'[q][s] # Null
             PROVE  /\ \A o \in Clients \ {q} : refs'[o][s] # refs'[q][s]
                    /\ pc'[q] # "ready" =>
                          \A r \in Ids("code_run")' : RowOf("code_run", r)'[FieldOf[s]] # refs'[q][s]
  BY DEF OwnObjects
<1>2. \/ refs'[p][s] = Null \/ refs'[p][s] = refs[p][s]
      \/ /\ refs'[p][s] = Len(tables["object"]) + 1
         /\ pc'[p] # "ready" /\ tables'["code_run"] = tables["code_run"]
  BY OwnStep
<1>3. s \in Posts /\ NoRefs[s] = Null
  BY StepSets DEF ObjectSteps, NoRefs
<1>4. \A o \in Clients \ {q} : refs'[o][s] # refs'[q][s]
  BY <1>1, <1>2, NextObject DEF OwnObjects
<1>5. ASSUME pc'[q] # "ready", NEW r, r \in Ids("code_run")'
      PROVE  RowOf("code_run", r)'[FieldOf[s]] # refs'[q][s]
  <2>1. CASE r \in Ids("code_run")
    <3>1. RowOf("code_run", r)' = RowOf("code_run", r)
      BY <2>1, NamesStay
    <3>2. CASE refs'[q][s] = refs[q][s]
      <4>1. pc[q] # "ready"
        <5>1. CASE q = p
          BY <1>3, <1>5, <5>1, OwnStep
        <5>2. CASE q # p
          BY <1>1, <1>5, <5>2
        <5> QED BY <5>1, <5>2
      <4> QED BY <2>1, <3>1, <3>2, <4>1 DEF OwnObjects
    <3>3. CASE refs'[q][s] = Len(tables["object"]) + 1
      BY <2>1, <3>1, <3>3, NextObject
    <3> QED BY <1>1, <1>2, <3>2, <3>3
  <2>2. CASE r \notin Ids("code_run")
    <3>1. RowOf("code_run", r)'[FieldOf[s]] = refs[p][s] /\ refs[p][s] # Null
      BY <1>5, <2>2, NewNames
    <3>2. tables'["code_run"] # tables["code_run"]
      BY <1>5, <2>2 DEF Ids
    <3>3. refs'[p] = NoRefs \/ pc'[p] = "ready"
      BY <3>2, OwnStep
    <3>4. q # p
      BY <1>3, <1>5, <3>3
    <3> QED BY <1>1, <3>1, <3>4 DEF OwnObjects
  <2> QED BY <2>1, <2>2
<1> QED BY <1>4, <1>5

(* A Config keeps its code run; one that is made has its own.              *)
LEMMA OwnRunStays ==
    ASSUME IInv, RunsOwn, NEW p \in Clients, ClientStep(p), NEW q \in Clients
    PROVE  OwnRun(q)'
<1> USE DEF IInv, RunsOwn
<1>1. CASE pc[q] = "ready" /\ refs'[q] = refs[q]
  BY <1>1, NamesStay DEF OwnRun
<1>2. CASE q # p
  BY <1>1, <1>2, OthersFrame DEF OthersKeep, OwnRun
<1>3. CASE q = p /\ pc'[p] = "ready" /\ pc[p] # "ready"
  <2>1. /\ Created(p, "code_run", Row(p, "code_run")) /\ pc[p] = "code_run"
        /\ refs'[p] = [refs[p] EXCEPT !["code_run"] = Len(tables["code_run"]) + 1]
    BY <1>3, OwnStep
  <2>2. Row(p, "code_run") \in Rows
    BY <2>1, StepSets, RowFits DEF Created
  <2>3. PICK i \in Nat : i = Len(tables["code_run"]) + 1
    BY <2>1, <2>2, CreatedRow, InitConstants
  <2>4. i \in Ids("code_run")' /\ i \notin Ids("code_run")
    BY <2>1, <2>2, <2>3, CreatedRow, InitConstants DEF Ids
  <2>5. \A s \in ObjectSteps : /\ refs[p][s] # Null
                               /\ RowOf("code_run", i)'[FieldOf[s]] = refs[p][s]
    BY <2>4, NewNames
  <2>6. refs'[p]["code_run"] = i /\ \A s \in ObjectSteps : refs'[p][s] = refs[p][s]
    BY <2>1, <2>3, StepSets DEF ObjectSteps, InitTypeOK
  <2> QED BY <1>3, <2>4, <2>5, <2>6 DEF OwnRun
<1> QED BY <1>1, <1>2, <1>3, OwnStep DEF OwnRun

(* A new code run shares no object with those there are.                   *)
LEMMA SharingStays ==
    ASSUME IInv, RunsOwn, NEW p \in Clients, ClientStep(p)
    PROVE  ObjectsNotShared'
<1> USE DEF IInv, RunsOwn
<1>1. \A f \in FileFields : \E s \in ObjectSteps : f = FieldOf[s]
  BY DEF FileFields, ObjectSteps, FieldOf
<1>2. ASSUME NEW r, r \in Ids("code_run")', r \notin Ids("code_run"),
             NEW o \in Ids("code_run"), NEW f \in FileFields
      PROVE  RowOf("code_run", r)'[f] # RowOf("code_run", o)[f]
  <2>1. PICK s \in ObjectSteps : f = FieldOf[s]
    BY <1>1
  <2>2. pc[p] = "code_run" /\ refs[p][s] # Null /\ RowOf("code_run", r)'[f] = refs[p][s]
    BY <1>2, <2>1, NewNames
  <2> QED BY <2>1, <2>2 DEF OwnObjects
<1> SUFFICES ASSUME NEW r, NEW o, r \in Ids("code_run")', o \in Ids("code_run")', r # o,
                    NEW f \in FileFields
             PROVE  RowOf("code_run", r)'[f] # RowOf("code_run", o)'[f]
  BY DEF ObjectsNotShared, FileFields
<1>3. CASE r \in Ids("code_run") /\ o \in Ids("code_run")
  BY <1>3, NamesStay DEF ObjectsNotShared, FileFields
<1>4. CASE r \notin Ids("code_run") /\ o \in Ids("code_run")
  BY <1>2, <1>4, NamesStay
<1>5. CASE r \in Ids("code_run") /\ o \notin Ids("code_run")
  BY <1>2, <1>5, NamesStay
<1>6. CASE r \notin Ids("code_run") /\ o \notin Ids("code_run")
  BY <1>6, NewNames
<1> QED BY <1>3, <1>4, <1>5, <1>6

(* Objects are their process's in every behaviour.                         *)
LEMMA RunsOwnInvariance == ASSUME Unkeyed PROVE Spec => []RunsOwn
<1>1. Init => RunsOwn
  <2> SUFFICES ASSUME Init PROVE RunsOwn
    OBVIOUS
  <2>1. Ids("code_run") = {}
    BY InitConstants DEF Init, ClientInit, Ids
  <2>2. \A p \in Clients, s \in ObjectSteps : refs[p][s] = Null
    BY StepSets DEF Init, NoRefs, ObjectSteps
  <2> QED BY <2>1, <2>2 DEF Init, ClientInit, RunsOwn, ObjectsNotShared, OwnObjects, OwnRun, NoMeeting
<1>2. IInv /\ RunsOwn /\ [Next]_vars => RunsOwn'
  <2> SUFFICES ASSUME IInv, RunsOwn, [Next]_vars PROVE RunsOwn'
    OBVIOUS
  <2>1. CASE UNCHANGED vars
    BY <2>1 DEF vars, clientVars, initVars, RunsOwn, ObjectsNotShared, OwnObjects, OwnRun, NoMeeting,
       Ids, RowOf
  <2>2. ASSUME NEW p \in Clients, ClientStep(p)
        PROVE  RunsOwn'
    <3>1. \A q \in Clients \ {p} : NoMeeting(q)'
      BY <2>2, OthersFrame DEF OthersKeep, RunsOwn, NoMeeting, IInv
    <3>2. NoMeeting(p)'
      BY <2>2, MeetingsStay DEF RunsOwn
    <3> QED BY <2>2, <3>1, <3>2, OwnObjectsStay, OwnRunStays, SharingStays DEF RunsOwn
  <2> QED BY <2>1, <2>2 DEF Next, ClientStep
<1> QED BY <1>1, <1>2, Invariance, PTL DEF Spec

(* No two code runs share an object, whatever constructors leave behind.   *)
THEOREM RunsShareNothing == ASSUME Unkeyed PROVE Spec => []ObjectsNotShared
<1>1. RunsOwn => ObjectsNotShared
  BY DEF RunsOwn
<1> QED BY <1>1, RunsOwnInvariance, PTL

-----------------------------------------------------------------------------
(* Whose config file it is *)

(* Until the config file is saved again, what was registered of it is what *)
(* the Config was parsed from.                                             *)
AsParsed(p) ==
    ~ edited[p] =>
        /\ pc[p] # "down" => file[p] = parsed[p]
        /\ pc[p] = "config_location" /\ conflict[p] # NoRow => conflict[p].hash = parsed[p]
        /\ refs[p]["config_location"] # Null =>
              RowOf("storage_location", refs[p]["config_location"]).hash = parsed[p]
        /\ refs[p]["config_object"] # Null =>
              LocationOfObject(refs[p]["config_object"]).hash = parsed[p]

(* The location and the object of a config file are rows that are kept.    *)
LEMMA ConfigRowsStay ==
    ASSUME IInv, RowsKept, NEW p \in Clients
    PROVE  /\ refs[p]["config_location"] # Null =>
                 tables'["storage_location"][refs[p]["config_location"]]
                     = RowOf("storage_location", refs[p]["config_location"])
           /\ refs[p]["config_object"] # Null =>
                 tables'["storage_location"][tables'["object"][refs[p]["config_object"]].storage_location]
                     = LocationOfObject(refs[p]["config_object"])
<1>1. ASSUME refs[p]["config_location"] # Null
      PROVE  refs[p]["config_location"] \in Ids("storage_location")
  BY <1>1, StepSets, TablesOfSteps DEF IInv, RefsOK
<1>2. ASSUME refs[p]["config_object"] # Null
      PROVE  \E i \in Ids("object"), l \in Ids("storage_location") :
                refs[p]["config_object"] = i /\ ObjectIs(i, "config_object", l)
  BY <1>2, HeldObject DEF IInv
<1>3. ASSUME refs[p]["config_object"] # Null
      PROVE  tables'["storage_location"][tables'["object"][refs[p]["config_object"]].storage_location]
                 = LocationOfObject(refs[p]["config_object"])
  <2>1. PICK i \in Ids("object"), l \in Ids("storage_location") :
           refs[p]["config_object"] = i /\ ObjectIs(i, "config_object", l)
    BY <1>2, <1>3
  <2> QED BY <2>1, InitConstants DEF RowsKept, ObjectIs, LocationOfObject, RowOf
<1> QED BY <1>1, <1>3, InitConstants DEF RowsKept, RowOf

(* A step that keeps a Config's ids, and its content, keeps what they say. *)
LEMMA SameAsParsed ==
    ASSUME IInv, RowsKept, NEW p \in Clients, AsParsed(p),
           refs'[p] = refs[p], edited'[p] = edited[p],
           parsed'[p] = parsed[p], file'[p] = file[p],
           pc'[p] = "down" \/ pc[p] # "down",
           conflict'[p] = NoRow \/ (conflict'[p] = conflict[p] /\ pc'[p] = pc[p])
    PROVE  AsParsed(p)'
BY ConfigRowsStay DEF AsParsed, RowOf, LocationOfObject

(* An answer to the POST of the config file's location is a row with the   *)
(* content that was parsed, and one to that of its object leads there.     *)
LEMMA AnswerAsParsed ==
    ASSUME IInv, RowsKept, NEW p \in Clients, AsParsed(p), NEW s \in Posts, s = pc[p],
           NEW i, Advance(p, i), conflict'[p] = NoRow, UNCHANGED <<file, edited>>,
           NEW row, Fits(p, s, row), i # Null => tables'[TableOf(s)][i] = row,
           ~ edited[p] /\ s = "config_location" => row.hash = parsed[p]
    PROVE  AsParsed(p)'
<1> USE DEF IInv, InitTypeOK
<1>1. /\ refs'[p] = [refs[p] EXCEPT ![s] = i] /\ parsed' = parsed
      /\ refs'[p][s] = i /\ \A r \in Posts \ {s} : refs'[p][r] = refs[p][r]
  BY DEF Advance
<1>2. pc[p] # "down"
  BY StepSets
<1> SUFFICES ASSUME ~ edited[p]
             PROVE  /\ file'[p] = parsed'[p]
                    /\ refs'[p]["config_location"] # Null =>
                          tables'["storage_location"][refs'[p]["config_location"]].hash = parsed'[p]
                    /\ refs'[p]["config_object"] # Null =>
                          tables'["storage_location"]
                              [tables'["object"][refs'[p]["config_object"]].storage_location].hash
                              = parsed'[p]
  BY DEF AsParsed, RowOf, LocationOfObject
<1>3. {"config_location", "config_object"} \subseteq Posts
  BY StepSets
<1>4. refs'[p]["config_location"] # Null =>
         tables'["storage_location"][refs'[p]["config_location"]].hash = parsed[p]
  <2>1. CASE s = "config_location"
    BY <1>1, <2>1, TablesOfSteps
  <2>2. CASE s # "config_location"
    BY <1>1, <1>3, <2>2, ConfigRowsStay DEF AsParsed
  <2> QED BY <2>1, <2>2
<1>5. refs'[p]["config_object"] # Null =>
         tables'["storage_location"][tables'["object"][refs'[p]["config_object"]].storage_location].hash
             = parsed[p]
  <2>1. CASE s = "config_object"
    <3>1. row.storage_location = refs[p]["config_location"] /\ row.storage_location # Null
      BY <2>1 DEF Fits, LocationOf
    <3> QED BY <1>1, <2>1, <3>1, TablesOfSteps, ConfigRowsStay DEF AsParsed
  <2>2. CASE s # "config_object"
    BY <1>1, <1>3, <2>2, ConfigRowsStay DEF AsParsed
  <2> QED BY <2>1, <2>2
<1> QED BY <1>1, <1>2, <1>4, <1>5 DEF AsParsed

(* The process that moves keeps to what it parsed.                         *)
LEMMA OwnAsParsed ==
    ASSUME IInv, NEW p \in Clients, AsParsed(p), ClientStep(p)
    PROVE  AsParsed(p)'
<1> USE DEF IInv, InitTypeOK
<1>0. RowsKept
  BY TablesGrow
<1>1. ASSUME Down(p), conflict'[p] = NoRow PROVE AsParsed(p)'
  <2>1. refs'[p] = NoRefs /\ pc'[p] = "down"
    BY <1>1 DEF Down
  <2> QED BY <1>1, <2>1, StepSets DEF AsParsed, NoRefs
<1>2. pc[p] \notin Posts => conflict[p] = NoRow
  BY DEF ConflictOK
<1>3. CASE Start(p)
  <2>1. conflict'[p] = NoRow /\ refs'[p] = NoRefs /\ file' = file
    BY <1>2, <1>3, StepSets DEF Start, clientVars, PermittedOK
  <2>2. pc'[p] = "down" \/ (pc'[p] = "users" /\ parsed'[p] = file[p])
    BY <1>3 DEF Start
  <2> QED BY <2>1, <2>2, StepSets DEF AsParsed, NoRefs
<1>4. CASE \E c \in Contents : Edit(p, c)
  <2>1. edited'[p]
    BY <1>4 DEF Edit
  <2> QED BY <2>1 DEF AsParsed
<1>5. CASE LookUpAccount(p) \/ QueryFileType(p)
  <2>1. conflict'[p] = NoRow /\ pc[p] # "down"
    BY <1>2, <1>5, StepSets DEF LookUpAccount, QueryFileType, clientVars, Accounts, FileTypes
  <2>2. CASE Down(p)
    BY <1>1, <2>1, <2>2
  <2>3. CASE UNCHANGED <<parsed, refs>>
    BY <1>0, <1>5, <2>1, <2>3, SameAsParsed DEF LookUpAccount, QueryFileType
  <2> QED BY <1>5, <2>2, <2>3 DEF LookUpAccount, QueryFileType
<1>6. CASE ReplyLost(p) \/ Fail(p) \/ Exit(p)
  <2>1. Down(p)
    BY <1>6 DEF ReplyLost, Fail, Exit
  <2>2. conflict'[p] = NoRow
    BY <1>2, <1>6, StepSets DEF ReplyLost, Created, Fail, CallFails, EndCall, Exit, clientVars
  <2> QED BY <1>1, <2>1, <2>2
<1>7. CASE PostStep(p)
  <2>1. PICK s \in Posts : s = pc[p]
    BY <1>7 DEF PostStep
  <2>2. TableOf(s) \in Tables /\ pc[p] # "down"
    BY <2>1, StepSets, TablesOfSteps
  <2>3. /\ UNCHANGED <<file, edited>>
        /\ \/ Created(p, TableOf(s), Row(p, s)) /\ Advance(p, Len(tables[TableOf(s)]) + 1)
           \/ Conflicts(p, TableOf(s), Row(p, s)) /\ UNCHANGED <<pc, parsed, refs>>
           \/ Queried(p) /\ Advance(p, Entry(p, TableOf(s)))
           \/ Refused(p, TableOf(s), Row(p, s)) /\ Down(p)
    BY <1>7, <2>1 DEF PostStep
  <2>4. s = "config_location" /\ ~ edited[p] => Row(p, s).hash = parsed[p]
    BY <2>1, <2>2 DEF AsParsed, Row, LocationRow, RootOf, LocationOf
  <2>5. CASE Created(p, TableOf(s), Row(p, s)) /\ Advance(p, Len(tables[TableOf(s)]) + 1)
    <3>1. Row(p, s) \in Rows /\ Fits(p, s, Row(p, s))
      BY <2>1, <2>5, RowFits DEF Created
    <3>2. PICK row \in Rows : row = Row(p, s)
      BY <3>1
    <3>3. tables'[TableOf(s)][Len(tables[TableOf(s)]) + 1] = row /\ conflict'[p] = NoRow
      BY <2>2, <2>5, <3>2, CreatedRow DEF Created
    <3>4. PICK i : i = Len(tables[TableOf(s)]) + 1
      OBVIOUS
    <3> QED BY <1>0, <2>1, <2>3, <2>4, <2>5, <3>1, <3>2, <3>3, <3>4, AnswerAsParsed
  <2>6. CASE Conflicts(p, TableOf(s), Row(p, s)) /\ UNCHANGED <<pc, parsed, refs>>
    <3>1. conflict'[p] = Row(p, s)
      BY <2>6 DEF Conflicts
    <3> QED BY <1>0, <2>1, <2>3, <2>4, <2>6, <3>1, ConfigRowsStay
         DEF AsParsed, RowOf, LocationOfObject
  <2>7. CASE Queried(p) /\ Advance(p, Entry(p, TableOf(s)))
    <3>1. PICK row \in Rows : row = conflict[p] /\ Fits(p, s, row)
      BY <2>1, <2>7 DEF Queried, ConflictOK
    <3>2. PICK i : i = Entry(p, TableOf(s))
      OBVIOUS
    <3>3. i # Null => tables'[TableOf(s)][i] = row
      BY <2>2, <2>7, <3>1, <3>2, EntryIsRow DEF Queried
    <3>4. ~ edited[p] /\ s = "config_location" => row.hash = parsed[p]
      BY <2>1, <2>7, <3>1 DEF Queried, AsParsed
    <3>5. conflict'[p] = NoRow
      BY <2>7 DEF Queried, EndCall
    <3> QED BY <1>0, <2>1, <2>3, <2>7, <3>1, <3>2, <3>3, <3>4, <3>5, AnswerAsParsed
  <2>8. CASE Refused(p, TableOf(s), Row(p, s)) /\ Down(p)
    BY <1>1, <2>8 DEF Refused, clientVars
  <2> QED BY <2>3, <2>5, <2>6, <2>7, <2>8
<1> QED BY <1>3, <1>4, <1>5, <1>6, <1>7 DEF ClientStep, ConstructorStep

(* Config files are their own user's to save.                              *)
LEMMA OthersFiles ==
    ASSUME NEW p \in Clients, ClientStep(p), InitTypeOK
    PROVE  \A q \in Clients \ {p} : file'[q] = file[q] /\ edited'[q] = edited[q]
BY DEF InitTypeOK, ClientStep, ConstructorStep, Start, Edit, LookUpAccount, QueryFileType, PostStep,
   ReplyLost, Fail, Exit

(* Every process keeps to what it parsed.                                  *)
LEMMA ParsedInvariance == Spec => [](\A p \in Clients : AsParsed(p))
<1>1. Init => \A p \in Clients : AsParsed(p)
  BY StepSets DEF Init, AsParsed, NoRefs, ClientInit
<1>2. IInv /\ (\A p \in Clients : AsParsed(p)) /\ [Next]_vars => (\A p \in Clients : AsParsed(p))'
  <2> SUFFICES ASSUME IInv, \A p \in Clients : AsParsed(p), [Next]_vars, NEW q \in Clients
               PROVE  AsParsed(q)'
    OBVIOUS
  <2>1. CASE UNCHANGED vars
    BY <2>1 DEF vars, clientVars, initVars, AsParsed, RowOf, LocationOfObject
  <2>2. ASSUME NEW p \in Clients, ClientStep(p)
        PROVE  AsParsed(q)'
    <3>1. CASE q = p
      BY <2>2, <3>1, OwnAsParsed
    <3>2. CASE q # p
      <4>1. RowsKept
        BY <2>2, TablesGrow DEF IInv
      <4> QED BY <2>2, <3>2, <4>1, OthersFrame, OthersFiles, SameAsParsed DEF OthersKeep, IInv
    <3> QED BY <3>1, <3>2
  <2> QED BY <2>1, <2>2 DEF Next, ClientStep
<1> QED BY <1>1, <1>2, Invariance, PTL DEF Spec

(* The code run of a Config describes that Config, with whatever rows of   *)
(* others it was made from.                                                *)
THEOREM RunsDescribe == ASSUME Unkeyed PROVE Spec => []RunDescribesItself
<1>1. IInv /\ RunsOwn /\ (\A p \in Clients : AsParsed(p)) => RunDescribesItself
  <2> SUFFICES ASSUME IInv, RunsOwn, NEW p \in Clients, AsParsed(p), pc[p] = "ready"
               PROVE  LET cr == RowOf("code_run", refs[p]["code_run"])
                          configAt == LocationOfObject(cr.model_config)
                          scriptAt == LocationOfObject(cr.submission_script)
                          repoAt == LocationOfObject(cr.code_repo)
                      IN  /\ configAt.path = ConfigPath[p]
                          /\ edited[p] \/ configAt.hash = parsed[p]
                          /\ scriptAt.path = ScriptPath[p] /\ scriptAt.hash = ScriptHash[p]
                          /\ repoAt.hash = CommitOf[parsed[p]]
    BY DEF RunDescribesItself
  <2> DEFINE cr == RowOf("code_run", refs[p]["code_run"])
  <2>1. /\ cr.model_config = refs[p]["config_object"] /\ refs[p]["config_object"] # Null
        /\ cr.submission_script = refs[p]["script_object"] /\ refs[p]["script_object"] # Null
        /\ cr.code_repo = refs[p]["repo_object"] /\ refs[p]["repo_object"] # Null
    BY DEF RunsOwn, OwnRun, ObjectSteps, FieldOf
  <2> HIDE DEF cr
  <2>2. PICK i \in Ids("object"), l \in Ids("storage_location") :
           cr.model_config = i /\ ObjectIs(i, "config_object", l) /\ ConfigAt(p, l)
    BY <2>1, HeldObject DEF IInv
  <2>3. PICK j \in Ids("object"), m \in Ids("storage_location") :
           cr.submission_script = j /\ ObjectIs(j, "script_object", m) /\ ScriptAt(p, m)
    BY <2>1, HeldObject DEF IInv
  <2>4. PICK k \in Ids("object"), n \in Ids("storage_location") :
           cr.code_repo = k /\ ObjectIs(k, "repo_object", n) /\ RepoAt(p, n)
    BY <2>1, HeldObject DEF IInv
  <2>5. /\ LocationOfObject(cr.model_config).path = ConfigPath[p]
        /\ edited[p] \/ LocationOfObject(cr.model_config).hash = parsed[p]
    BY <2>1, <2>2 DEF AsParsed, LocationOfObject, ObjectIs, ConfigAt, LocatedAt, RowOf
  <2>6. /\ LocationOfObject(cr.submission_script).path = ScriptPath[p]
        /\ LocationOfObject(cr.submission_script).hash = ScriptHash[p]
    BY <2>3 DEF LocationOfObject, ObjectIs, ScriptAt, LocatedAt, RowOf
  <2>7. LocationOfObject(cr.code_repo).hash = CommitOf[parsed[p]]
    BY <2>4 DEF LocationOfObject, ObjectIs, RepoAt, LocatedAt, RowOf
  <2> QED BY <2>5, <2>6, <2>7 DEF cr
<1> QED BY <1>1, Invariance, RunsOwnInvariance, ParsedInvariance, PTL

=============================================================================

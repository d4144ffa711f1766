----------------------------- MODULE SessionsProofs -----------------------------
(***************************************************************************)
(* Proofs about Sessions, for every set of processes, products, contents   *)
(* and names, every configuration and every value of the bounds.  All of   *)
(* finalise is as in Pipeline, and so are the lemmas about its steps; what *)
(* is new is a location whose file is not in the store.                    *)
(***************************************************************************)
EXTENDS Sessions, PipelineRecordProofs

(* A location is a stored file's, or one of a config file or a script:     *)
(* that one is public and, if the file lies in the store, in place until   *)
(* somebody saves one.                                                     *)
PlaceOK(l) ==
    IF l.name \in Sources
    THEN l.public /\ (edits = 0 => InPlace(l) \/ Displaced(l))
    ELSE Stored(l)

(* The inductive invariant: that of Pipeline with PlaceOK in the place of  *)
(* RegisteredFilesStored, and what the rows say.                           *)
SessionInv ==
    /\ TypeOK
    /\ source \in [Files -> Contents]
    /\ edits \in 0 .. MaxEdits
    /\ ContentAddressed
    /\ \A p \in Procs : LocalOK(p)
    /\ \A l \in locations : PlaceOK(l)
    /\ RecordsOK

-----------------------------------------------------------------------------
(* What the new steps change *)

(* A step of a call is one of Pipeline that saves no config file.          *)
LEMMA CallSteps ==
    ASSUME NEW p \in Procs, CallStep(p)
    PROVE  /\ FinaliseStep(p) \/ ProgramStep(p)
           /\ UNCHANGED <<source, edits>>
BY DEF CallStep, FinaliseStep, ProgramStep, userVars

(* The rows a new Config adds: everything else of the registry stays.      *)
LEMMA SessionRows ==
    ASSUME TypeOK, source \in [Files -> Contents], NEW p \in Procs, StartSession(p)
    PROVE  /\ SourceRow(ConfigOf[p]) \in Location /\ SourceRow(ScriptOf[p]) \in Location
           /\ locations' = locations \cup {SourceRow(ConfigOf[p]), SourceRow(ScriptOf[p])}
           /\ objects' \in Seq(Location) /\ Len(objects') = Len(objects) + 2
           /\ \A i \in 1 .. Len(objects) : objects'[i] = objects[i]
           /\ objects'[Len(objects) + 1] = SourceRow(ConfigOf[p])
           /\ objects'[Len(objects) + 2] = SourceRow(ScriptOf[p])
           /\ codeRuns' \in Seq(CodeRun) /\ Len(codeRuns') = Len(codeRuns) + 1
           /\ \A r \in 1 .. Len(codeRuns) : codeRuns'[r] = codeRuns[r]
           /\ codeRuns'[Len(codeRuns) + 1] = [outputs |-> {}, inputs |-> {}]
           /\ UNCHANGED <<namespaces, dataProducts>>
           /\ Len(objects) \in Nat /\ Len(codeRuns) \in Nat
           /\ RowsKept
<1> USE DEF TypeOK, RegistryTypeOK
<1> DEFINE config == SourceRow(ConfigOf[p])
           script == SourceRow(ScriptOf[p])
<1>1. config \in Location /\ script \in Location
  <2>1. ConfigOf[p] \in Files /\ ScriptOf[p] \in Files
    BY SessionConstants
  <2> QED BY <2>1, SessionConstants DEF SourceRow, Location
<1>2. [outputs |-> {}, inputs |-> {}] \in CodeRun
  BY DEF CodeRun
<1>3. /\ locations' = locations \cup {config, script}
      /\ objects' = Append(Append(objects, config), script)
      /\ codeRuns' = Append(codeRuns, [outputs |-> {}, inputs |-> {}])
      /\ UNCHANGED <<namespaces, dataProducts>>
  BY DEF StartSession
<1>4. /\ objects' \in Seq(Location) /\ Len(objects') = Len(objects) + 2
      /\ \A i \in 1 .. Len(objects) : objects'[i] = objects[i]
      /\ objects'[Len(objects) + 1] = config
      /\ objects'[Len(objects) + 2] = script
  <2> HIDE DEF config, script
  <2> QED BY <1>1, <1>3
<1>5. /\ codeRuns' \in Seq(CodeRun) /\ Len(codeRuns') = Len(codeRuns) + 1
      /\ \A r \in 1 .. Len(codeRuns) : codeRuns'[r] = codeRuns[r]
      /\ codeRuns'[Len(codeRuns) + 1] = [outputs |-> {}, inputs |-> {}]
  BY <1>2, <1>3
<1>6. Len(objects) \in Nat /\ Len(codeRuns) \in Nat
  OBVIOUS
<1> QED BY <1>1, <1>3, <1>4, <1>5, <1>6 DEF RowsKept

(* Of the processes, a new Config changes only its own pc and code run.    *)
LEMMA SessionLocals ==
    ASSUME TypeOK, NEW p \in Procs, StartSession(p)
    PROVE  /\ pc[p] = "down" /\ pc'[p] = "ready"
           /\ run'[p] = Len(codeRuns) + 1
           /\ \A q \in Procs \ {p} : pc'[q] = pc[q] /\ run'[q] = run[q]
           /\ UNCHANGED <<temp, store, dirs, result, writes, reads, outputs, inputs, given,
                          cur, hash, loc, obj, faults, written, source, edits>>
BY DEF StartSession, Step, Goto, fileVars, callVars, bounds, userVars, TypeOK, CallTypeOK, ConfigTypeOK

(* Types are kept.                                                         *)
LEMMA SessionTypes ==
    ASSUME TypeOK, source \in [Files -> Contents], NEW p \in Procs, StartSession(p)
    PROVE  TypeOK'
<1> USE DEF TypeOK
<1>1. RegistryTypeOK'
  BY SessionRows DEF RegistryTypeOK
<1>2. StoreTypeOK'
  BY SessionLocals DEF StoreTypeOK
<1>3. CallTypeOK'
  <2>1. pc' = [pc EXCEPT ![p] = "ready"]
    BY DEF StartSession, Step, Goto
  <2> QED BY <2>1, SessionLocals DEF CallTypeOK
<1>4. ConfigTypeOK'
  <2>1. run' = [run EXCEPT ![p] = Len(codeRuns) + 1] /\ Len(codeRuns) + 1 \in Nat
    BY SessionRows DEF StartSession
  <2> QED BY <2>1, SessionLocals DEF ConfigTypeOK
<1> QED BY <1>1, <1>2, <1>3, <1>4, SessionLocals

(* What finalise knows elsewhere stays true: the tables grow.              *)
LEMMA SessionLocalOK ==
    ASSUME TypeOK, source \in [Files -> Contents], NEW p \in Procs, StartSession(p),
           NEW q \in Procs, LocalOK(q)
    PROVE  LocalOK(q)'
<1>1. locations \subseteq locations'
  BY SessionRows
<1>2. CASE q = p
  BY <1>2, SessionLocals DEF LocalOK, LoopPCs, FinalisePCs, HashedPCs, LocatedPCs
<1>3. CASE q # p
  BY <1>1, <1>3, SessionLocals DEF LocalOK
<1> QED BY <1>2, <1>3

-----------------------------------------------------------------------------
(* The rows of a new Config *)

(* The new object refers to the new location, the new code run to nothing. *)
LEMMA SessionReferences ==
    ASSUME TypeOK, source \in [Files -> Contents], ReferencesResolve,
           NEW p \in Procs, StartSession(p)
    PROVE  ReferencesResolve'
<1> USE DEF ReferencesResolve
<1>1. \A i \in 1 .. Len(objects') : objects'[i] \in locations'
  BY SessionRows
<1>2. \A n \in Names : dataProducts'[n] <= Len(objects')
  BY SessionRows DEF TypeOK, RegistryTypeOK
<1>3. ASSUME NEW r \in 1 .. Len(codeRuns'), NEW i \in codeRuns'[r].outputs \cup codeRuns'[r].inputs
      PROVE  i <= Len(objects')
  <2>1. CASE r = Len(codeRuns) + 1
    BY <1>3, <2>1, SessionRows
  <2>2. CASE r \in 1 .. Len(codeRuns)
    <3>1. codeRuns[r] \in CodeRun /\ codeRuns'[r] = codeRuns[r]
      BY <2>2, SessionRows DEF TypeOK, RegistryTypeOK
    <3>2. i \in Nat /\ i <= Len(objects)
      BY <1>3, <2>2, <3>1 DEF CodeRun
    <3> QED BY <3>2, SessionRows
  <2> QED BY <2>1, <2>2, SessionRows
<1> QED BY <1>1, <1>2, <1>3

(* What RecordsOK says of every process, and of the code runs, stays true. *)
LEMMA SessionRecords ==
    ASSUME TypeOK, TypeOK', source \in [Files -> Contents], RecordsOK,
           NEW p \in Procs, StartSession(p)
    PROVE  RecordsOK'
<1> USE DEF RecordsOK
<1>0. /\ Known \subseteq Known'
      /\ \A i \in Known \ {NoObject} : objects'[i] = objects[i]
  BY SessionRows, KnownStays
<1>1. ReferencesResolve'
  BY SessionReferences
<1>2. OwnRuns'
  <2>1. \A q \in Procs \ {p} : pc[q] # "down" => run[q] \in 1 .. Len(codeRuns)
    BY DEF ProgressOK
  <2>2. \A q \in Procs \ {p} : pc[q] # "down" => run[q] # run'[p]
    BY <2>1, SessionRows, SessionLocals
  <2> QED BY <2>2, SessionLocals DEF OwnRuns
<1>3. ASSUME NEW q \in Procs
      PROVE  RefersOK(q)'
  <2>1. CASE q = p
    BY <1>0, <2>1, SessionLocals DEF RefersOK
  <2>2. CASE q # p
    BY <1>0, <2>2, SessionLocals DEF RefersOK
  <2> QED BY <2>1, <2>2
<1>4. \A q \in Procs, d \in Products : Done(q, d) => Done(q, d)'
  BY SessionRows, SessionLocals, DoneStays DEF Done
<1>5. ASSUME NEW q \in Procs
      PROVE  ProgressOK(q)'
  <2>1. CASE q = p
    BY <2>1, SessionRows, SessionLocals DEF ProgressOK, LocatedPCs, LoopPCs, FinalisePCs
  <2>2. CASE q # p
    <3>1. writes[q] \subseteq Products
      BY DEF TypeOK, ConfigTypeOK
    <3>2. run[q] \in 1 .. Len(codeRuns) => run'[q] \in 1 .. Len(codeRuns')
      BY <2>2, SessionRows, SessionLocals
    <3> QED BY <1>4, <2>2, <3>1, <3>2, SessionLocals DEF ProgressOK
  <2> QED BY <2>1, <2>2
<1>6. SuccessIsComplete'
  <2> SUFFICES ASSUME NEW q \in Procs, result'[q] = "ok"
               PROVE  Complete(q)'
    BY DEF SuccessIsComplete, Complete, Done
  <2>1. result[q] = "ok" /\ pc[q] = "ready" /\ run[q] \in 1 .. Len(codeRuns)
    BY SessionLocals DEF ProgressOK
  <2>2. q # p /\ run'[q] = run[q] /\ codeRuns'[run[q]] = codeRuns[run[q]]
    BY <2>1, SessionRows, SessionLocals
  <2>3. Complete(q) /\ writes[q] \subseteq Products
    BY <2>1, SuccessIsCompleteness DEF TypeOK, ConfigTypeOK
  <2> QED BY <1>4, <2>2, <2>3, SessionLocals DEF Complete, Recorded
<1> QED BY <1>1, <1>2, <1>3, <1>5, <1>6

-----------------------------------------------------------------------------
(* Where the files of the locations are *)

(* Config files and scripts have paths of their own: a row that finalise   *)
(* posts is not one of theirs, and its file is in the store.               *)
LEMMA CallPlaces ==
    ASSUME TypeOK, ContentAddressed, \A l \in locations : PlaceOK(l),
           NEW p \in Procs, LocalOK(p), CallStep(p)
    PROVE  \A l \in locations' : PlaceOK(l)'
<1>1. FinaliseStep(p) \/ ProgramStep(p)
  BY CallSteps
<1>2. source' = source /\ edits' = edits
  BY CallSteps
<1>3. /\ \A l \in locations : Stored(l) => Stored(l)'
      /\ \A l \in locations' \ locations : Stored(l)' /\ l.name \in Products
  BY <1>1, LocationsStep
<1>4. ASSUME NEW l \in locations
      PROVE  PlaceOK(l)'
  BY <1>2, <1>3 DEF PlaceOK, InPlace, Displaced
<1>5. ASSUME NEW l \in locations' \ locations
      PROVE  PlaceOK(l)'
  <2>1. l.name \notin Sources
    BY <1>3, SessionConstants
  <2> QED BY <1>3, <2>1 DEF PlaceOK
<1> QED BY <1>4, <1>5

(* A new Config's rows are of its config file and script as they are.      *)
LEMMA SessionPlaces ==
    ASSUME TypeOK, source \in [Files -> Contents], \A l \in locations : PlaceOK(l),
           NEW p \in Procs, StartSession(p)
    PROVE  \A l \in locations' : PlaceOK(l)'
<1>1. UNCHANGED <<store, source, edits>>
  BY SessionLocals
<1>2. ASSUME NEW f \in Files
      PROVE  PlaceOK(SourceRow(f))
  <2>1. PathOf[f] \in Sources
    BY DEF Sources
  <2> QED BY <2>1 DEF PlaceOK, InPlace, Displaced, SourceRow
<1>3. \A l \in locations' : PlaceOK(l)
  BY <1>2, SessionRows, SessionConstants
<1>4. ASSUME NEW l \in locations'
      PROVE  PlaceOK(l)'
  BY <1>1, <1>3 DEF PlaceOK, InPlace, Displaced, Stored
<1> QED BY <1>4

(* Who saves a config file or a script invalidates no more than the place  *)
(* of their own rows.                                                      *)
LEMMA EditKeeps ==
    ASSUME SessionInv, NEW f \in Files, NEW c \in Contents, Edit(f, c)
    PROVE  SessionInv'
<1> USE DEF SessionInv
<1>1. /\ UNCHANGED vars /\ edits' = edits + 1
      /\ source' = [source EXCEPT ![f] = c]
      /\ edits \in 0 .. MaxEdits /\ edits < MaxEdits /\ MaxEdits \in Nat
  BY SessionConstants DEF Edit
<1>2. UNCHANGED <<registryVars, fileVars, pc, result, configVars, callVars, bounds>>
  BY <1>1 DEF vars
<1>3. TypeOK' /\ ContentAddressed' /\ \A q \in Procs : LocalOK(q)'
  BY <1>2 DEF registryVars, fileVars, configVars, callVars, bounds, TypeOK, RegistryTypeOK,
     StoreTypeOK, CallTypeOK, ConfigTypeOK, ContentAddressed, LocalOK
<1>4. RecordsOK'
  BY <1>2 DEF registryVars, fileVars, configVars, callVars, RecordsOK, ReferencesResolve, OwnRuns,
     SuccessIsComplete, RefersOK, ProgressOK, Known, Done, LocationsOf, Recorded
<1>5. source' \in [Files -> Contents] /\ edits' \in 0 .. MaxEdits /\ edits' # 0
  BY <1>1
<1>6. \A l \in locations' : PlaceOK(l)'
  BY <1>2, <1>5 DEF registryVars, fileVars, PlaceOK, Stored
<1> QED BY <1>3, <1>4, <1>5, <1>6

-----------------------------------------------------------------------------
(* The invariant and what follows from it *)

(* The inductive invariant holds at first.                                 *)
LEMMA InitSessionInv == SessionInit => SessionInv
<1> SUFFICES ASSUME SessionInit PROVE SessionInv
  OBVIOUS
<1>1. IInv /\ RecordsOK
  BY InitIInv, InitRecords DEF SessionInit
<1>2. locations = {}
  BY DEF SessionInit, Init, RegistryInit
<1>3. source \in [Files -> Contents] /\ edits \in 0 .. MaxEdits
  BY SessionConstants DEF SessionInit
<1> QED BY <1>1, <1>2, <1>3 DEF SessionInv, IInv

(* A step of a call keeps it.                                              *)
LEMMA CallKeeps ==
    ASSUME SessionInv, NEW p \in Procs, CallStep(p)
    PROVE  SessionInv'
<1> USE DEF SessionInv
<1>0. (FinaliseStep(p) \/ ProgramStep(p)) /\ UNCHANGED <<source, edits>>
  BY CallSteps
<1>1. TypeOK'
  BY <1>0, StepTypeOK
<1>2. ContentAddressed'
  BY <1>0, StoreStep
<1>3. \A q \in Procs : LocalOK(q)'
  BY <1>0, <1>1, OwnLocalOK, OthersLocalOK
<1>4. \A l \in locations' : PlaceOK(l)'
  BY CallPlaces
<1>5. RecordsOK'
  BY <1>0, <1>1, RecordsStep
<1> QED BY <1>0, <1>1, <1>2, <1>3, <1>4, <1>5

(* The inductive invariant is preserved by every step.                     *)
LEMMA NextSessionInv == SessionInv /\ [SessionNext]_sessionVars => SessionInv'
<1> SUFFICES ASSUME SessionInv, [SessionNext]_sessionVars PROVE SessionInv'
  OBVIOUS
<1>1. CASE UNCHANGED sessionVars
  <2>1. UNCHANGED <<registryVars, fileVars, pc, result, configVars, callVars, bounds, source, edits>>
    BY <1>1 DEF sessionVars, userVars, vars
  <2>2. TypeOK' /\ ContentAddressed' /\ \A q \in Procs : LocalOK(q)'
    BY <2>1 DEF SessionInv, registryVars, fileVars, configVars, callVars, bounds, TypeOK, RegistryTypeOK,
       StoreTypeOK, CallTypeOK, ConfigTypeOK, ContentAddressed, LocalOK
  <2>3. RecordsOK'
    BY <2>1 DEF SessionInv, registryVars, fileVars, configVars, callVars, RecordsOK, ReferencesResolve,
       OwnRuns, SuccessIsComplete, RefersOK, ProgressOK, Known, Done, LocationsOf, Recorded
  <2>4. \A l \in locations' : PlaceOK(l)'
    BY <2>1 DEF SessionInv, registryVars, fileVars, PlaceOK, InPlace, Displaced, Stored
  <2> QED BY <2>1, <2>2, <2>3, <2>4 DEF SessionInv
<1>2. ASSUME NEW p \in Procs, StartSession(p)
      PROVE  SessionInv'
  <2> USE DEF SessionInv
  <2>1. TypeOK'
    BY <1>2, SessionTypes
  <2>2. ContentAddressed' /\ source' \in [Files -> Contents] /\ edits' \in 0 .. MaxEdits
    BY <1>2, SessionLocals DEF ContentAddressed
  <2>3. \A q \in Procs : LocalOK(q)'
    BY <1>2, SessionLocalOK
  <2>4. \A l \in locations' : PlaceOK(l)'
    BY <1>2, SessionPlaces
  <2>5. RecordsOK'
    BY <1>2, <2>1, SessionRecords
  <2> QED BY <2>1, <2>2, <2>3, <2>4, <2>5
<1> QED BY <1>1, <1>2, CallKeeps, EditKeeps DEF SessionNext

(* It holds in every behaviour.                                            *)
THEOREM SessionInvariance == SessionSpec => []SessionInv
BY InitSessionInv, NextSessionInv, PTL DEF SessionSpec

(* Every location of a data product names a file with its hash, and so     *)
(* does that of a config file or script in the store as long as none is    *)
(* saved again, though they all answer the same query.                     *)
THEOREM InPlaceThroughout == SessionSpec => []InPlaceUntilEdited
<1>1. SessionInv => InPlaceUntilEdited
  <2> SUFFICES ASSUME SessionInv, NEW l \in locations
               PROVE  InPlace(l) \/ (l.name \in Sources /\ (Displaced(l) \/ edits > 0))
    BY DEF InPlaceUntilEdited
  <2>1. PlaceOK(l) /\ edits \in Nat
    BY SessionConstants DEF SessionInv
  <2> QED BY <2>1 DEF PlaceOK, InPlace
<1> QED BY <1>1, SessionInvariance, PTL

(* A finalise that returned recorded everything also when it took the      *)
(* location of a config file or script, or was repeated after one threw.   *)
THEOREM SessionsRecordAll == SessionSpec => []SuccessIsComplete
<1>1. SessionInv => SuccessIsComplete
  BY DEF SessionInv, RecordsOK
<1> QED BY <1>1, SessionInvariance, PTL

(* No row dangles, with the rows a constructor adds among them.            *)
THEOREM SessionRowsResolve == SessionSpec => []ReferencesResolve
<1>1. SessionInv => ReferencesResolve
  BY DEF SessionInv, RecordsOK
<1> QED BY <1>1, SessionInvariance, PTL

(* A temporary file goes only into the store, or for a file that was       *)
(* registered with its content: one of the store, or a config file or a    *)
(* script, and then only when the run is public, as their rows are.        *)
THEOREM OnlySourcesTakeContent == SessionSpec => LostOnlyToSources
<1>1. ASSUME SessionInv, NEW p \in Procs, CallStep(p), NEW q \in Procs, NEW d \in Products,
             pc[q] \in FinalisePCs, pc'[q] # "down", temp[q][d] # NoFile, temp'[q][d] = NoFile
      PROVE  \/ \E n \in Names : store'[n][temp[q][d]] = temp[q][d]
             \/ /\ Public[q]
                /\ \E l \in locations : l.name \in Sources /\ l.hash = temp[q][d]
  <2> USE DEF SessionInv
  <2>1. \/ \E n \in Names : store'[n][temp[q][d]] = temp[q][d]
        \/ /\ p = q /\ pc[p] = "remove" /\ UNCHANGED store
           /\ loc[p] \in locations /\ loc[p].hash = temp[p][d]
    BY <1>1, CallSteps, TakenAway
  <2>2. ASSUME p = q, pc[p] = "remove", UNCHANGED store, loc[p] \in locations, loc[p].hash = temp[p][d]
        PROVE  \/ \E n \in Names : store'[n][temp[q][d]] = temp[q][d]
               \/ /\ Public[q]
                  /\ \E l \in locations : l.name \in Sources /\ l.hash = temp[q][d]
    <3>0. PICK l \in locations : l = loc[p]
      BY <2>2
    <3>1. CASE l.name \in Sources
      <4>1. l.public
        BY <1>1, <3>1 DEF PlaceOK
      <4>2. ProgressOK(p)
        BY <1>1 DEF RecordsOK
      <4>3. l.public = Public[p]
        BY <2>2, <3>0, <4>2 DEF ProgressOK, LocatedPCs
      <4> QED BY <2>2, <3>0, <3>1, <4>1, <4>3
    <3>2. CASE l.name \notin Sources
      <4>1. Stored(l)
        BY <1>1, <3>2 DEF PlaceOK
      <4>2. l.name \in Names
        BY <1>1 DEF TypeOK, RegistryTypeOK, Location
      <4> QED BY <2>2, <3>0, <4>1, <4>2 DEF Stored
    <3> QED BY <3>1, <3>2
  <2> QED BY <2>1, <2>2
<1>2. SessionInv /\ [SessionNext]_sessionVars =>
         [\A p \in Procs, d \in Products :
            (pc[p] \in FinalisePCs /\ pc'[p] # "down" /\ temp[p][d] # NoFile
               /\ temp'[p][d] = NoFile)
            => \/ \E n \in Names : store'[n][temp[p][d]] = temp[p][d]
               \/ /\ Public[p]
                  /\ \E l \in locations : l.name \in Sources /\ l.hash = temp[p][d]]_sessionVars
  <2>1. ASSUME NEW p \in Procs, StartSession(p)
        PROVE  temp' = temp
    BY <2>1 DEF StartSession, fileVars
  <2>2. ASSUME NEW f \in Files, NEW c \in Contents, Edit(f, c)
        PROVE  temp' = temp
    BY <2>2 DEF Edit, vars, fileVars
  <2> QED BY <1>1, <2>1, <2>2 DEF SessionNext
<1> QED BY <1>2, SessionInvariance, PTL DEF SessionSpec, LostOnlyToSources

(* Files of the store are written once with such rows among the locations. *)
THEOREM SessionStoreWrittenOnce ==
    SessionSpec => [][\A n \in Names, h \in Contents :
                         store[n][h] # NoFile => store'[n][h] = store[n][h]]_sessionVars
<1>1. SessionInv /\ [SessionNext]_sessionVars =>
         [\A n \in Names, h \in Contents :
             store[n][h] # NoFile => store'[n][h] = store[n][h]]_sessionVars
  <2>1. ASSUME NEW p \in Procs, StartSession(p)
        PROVE  store' = store
    BY <2>1 DEF StartSession, fileVars
  <2>2. ASSUME NEW f \in Files, NEW c \in Contents, Edit(f, c)
        PROVE  store' = store
    BY <2>2 DEF Edit, vars, fileVars
  <2> QED BY <2>1, <2>2, CallSteps, StoreStep DEF SessionInv, SessionNext
<1> QED BY <1>1, SessionInvariance, PTL DEF SessionSpec

(* Config files and scripts are registered as public all the same.         *)
AllPrivate == \A p \in Procs : ~Public[p]

(* What a finalise that returned did is there for every key it was to      *)
(* write: in a private run, with the file in the store under its hash.     *)
LEMMA PrivateIsRenamed ==
    ASSUME AllPrivate, SessionInv, NEW p \in Procs, result[p] = "ok", NEW d \in writes[p]
    PROVE  \E n \in Names : store[n][hash[p][d]] = hash[p][d]
<1> USE DEF SessionInv
<1>1. d \in Products /\ Done(p, d)
  BY SuccessIsCompleteness DEF RecordsOK, Complete, TypeOK, ConfigTypeOK
<1>2. PICK l \in LocationsOf(hash[p][d], Public[p]) : TRUE
  BY <1>1 DEF Done
<1>3. l \in locations /\ l.hash = hash[p][d] /\ l.public = FALSE
  BY <1>2 DEF LocationsOf, AllPrivate
<1>4. Stored(l)
  BY <1>3 DEF PlaceOK
<1>5. l.name \in Names
  BY <1>3 DEF TypeOK, RegistryTypeOK, Location
<1> QED BY <1>3, <1>4, <1>5 DEF Stored

(* finalise keeps the documented promise that it renames pending writes to *)
(* their hash when no run is public: the location of a config file or a    *)
(* script is then no answer to its query.                                  *)
THEOREM PrivateWritesAreRenamed ==
    ASSUME AllPrivate
    PROVE  SessionSpec => []WritesAreRenamed
<1>1. SessionInv => WritesAreRenamed
  BY PrivateIsRenamed DEF WritesAreRenamed
<1> QED BY <1>1, SessionInvariance, PTL

=============================================================================

-------------------------- MODULE PipelineRecordProofs --------------------------
(***************************************************************************)
(* What the rows of the registry say, proved of Pipeline: no row dangles,  *)
(* a name is published with the content its publisher hashed, a finalise   *)
(* that returned recorded everything and lists what it wrote, a path that  *)
(* was read stays good, retries cost no object without a fault, and all of *)
(* it together is a Catalogue.                                             *)
(***************************************************************************)
EXTENDS PipelineCatalogue, PipelineProofs, FiniteSetTheorems

(* An object that exists, or none.                                         *)
Known == 0 .. Len(objects)

(* Every object a process holds exists; the one it is about to publish has *)
(* the hash of its key's file.                                             *)
RefersOK(p) ==
    /\ obj[p] \in Known
    /\ \A d \in Products : /\ reads[p][d] \in Known
                           /\ outputs[p][d] \in Known
                           /\ inputs[p][d] \in Known
                           /\ given[p][d] \in Known
    /\ pc[p] \in {"get_object", "post_product", "get_component"} => obj[p] # NoObject
    /\ pc[p] = "post_product" => objects[obj[p]].hash = hash[p][cur[p]]

(* The loop of finalise is through with a key.                             *)
Done(p, d) ==
    /\ outputs[p][d] # NoObject
    /\ LocationsOf(hash[p][d], Public[p]) # {}

(* The loop is through with all keys before the one it is at; before the   *)
(* PATCH it is through with all, and inputs_ holds what reads_ does.       *)
ProgressOK(p) ==
    /\ pc[p] \in LocatedPCs => loc[p].public = Public[p]
    /\ pc[p] \in LoopPCs => \A d \in writes[p] : d < cur[p] => Done(p, d)
    /\ pc[p] = "patch" =>
          /\ \A d \in writes[p] : Done(p, d)
          /\ \A d \in Products : reads[p][d] # NoObject => inputs[p][d] = reads[p][d]
    /\ pc[p] # "down" => run[p] \in 1 .. Len(codeRuns)
    /\ result[p] = "ok" => pc[p] = "ready"

(* No two Configs share a code run: one's PATCH cannot undo another's.     *)
OwnRuns ==
    \A p, q \in Procs : p # q /\ pc[p] # "down" /\ pc[q] # "down" => run[p] # run[q]

(* What link_read gave for a key is the object under the name asked for.   *)
GivenOK(p) ==
    \A d \in Products : given[p][d] # NoObject => given[p][d] = dataProducts[UseName[p][d]]

RecordsOK ==
    /\ ReferencesResolve
    /\ OwnRuns
    /\ SuccessIsComplete
    /\ \A p \in Procs : RefersOK(p) /\ ProgressOK(p)

GivenAsAsked == \A p \in Procs : GivenOK(p)

(* What a Config has recorded as read under a key of its read section is   *)
(* the object under the name to use for the key.                           *)
ReadOK(p) ==
    \A d \in Products :
        /\ reads[p][d] # NoObject => d \in ReadNames[p] /\ reads[p][d] = dataProducts[UseName[p][d]]
        /\ inputs[p][d] # NoObject => d \in ReadNames[p] /\ inputs[p][d] = dataProducts[UseName[p][d]]

ReadsAsAsked == \A p \in Procs : ReadOK(p)

(* The key "data_product" is in no read section, or every key stands for   *)
(* the name it stands for: the entry that link_read looks up by mistake is *)
(* the right one.                                                          *)
LiteralIsHarmless ==
    \A p \in Procs : LiteralName \in ReadNames[p] =>
        \A d \in Products : UseName[p][d] = UseName[p][LiteralName]

(* Every key finalise is through with has a row under its name.            *)
NamedOK(p) ==
    /\ writes[p] \subseteq WriteNames[p]
    /\ \A d \in Products : outputs[p][d] # NoObject => dataProducts[d] # NoObject
    /\ pc[p] \in {"get_object", "get_component"} => dataProducts[cur[p]] # NoObject

AllNamed == \A p \in Procs : NamedOK(p)

(* The row is of the object that the Config lists; a row that finalise did *)
(* not find is nobody else's to make.                                      *)
OwnNamesOK(p) ==
    /\ \A d \in Products : outputs[p][d] # NoObject => outputs[p][d] = dataProducts[d]
    /\ pc[p] \in {"get_object", "get_component"} => obj[p] = dataProducts[cur[p]]
    /\ pc[p] \in {"post_object", "post_product"} => dataProducts[cur[p]] = NoObject

AllOwnNames == \A p \in Procs : OwnNamesOK(p)

(* No two processes write under the same key.                              *)
WritersDisjoint ==
    \A p, q \in Procs : p # q => WriteNames[p] \cap WriteNames[q] = {}

(* Every key is written under its own name.                                *)
WritesUseOwnName ==
    \A p \in Procs : \A d \in WriteNames[p] : UseName[p][d] = d

-----------------------------------------------------------------------------
(* What a step changes *)

(* The rows there are stay as they are.                                    *)
RowsKept ==
    /\ locations \subseteq locations'
    /\ Len(objects) <= Len(objects') /\ Len(codeRuns) <= Len(codeRuns')
    /\ \A i \in 1 .. Len(objects) : objects'[i] = objects[i]
    /\ \A n \in Names : dataProducts[n] # NoObject => dataProducts'[n] = dataProducts[n]

(* No step removes a row, or changes one but the code run of a PATCH.      *)
LEMMA RowsAreKept ==
    ASSUME TypeOK, NEW p \in Procs, FinaliseStep(p) \/ ProgramStep(p)
    PROVE  RowsKept
<1> USE DEF TypeOK, RegistryTypeOK
<1>1. locations \subseteq locations'
  BY LocationsFrame DEF PostLocationStep, PostLocation
<1>2. /\ Len(objects) <= Len(objects')
      /\ \A i \in 1 .. Len(objects) : objects'[i] = objects[i]
  <2>1. CASE PostObjectStep(p)
    <3>1. objects' = Append(objects, loc[p])
      BY <2>1 DEF PostObjectStep, PostObject
    <3>2. loc[p] \in Location \cup {NoLocation}
      BY DEF CallTypeOK
    <3>3. objects \in Seq(Location \cup {NoLocation})
      BY SeqDef
    <3> QED BY <3>1, <3>2, <3>3
  <2> QED BY <2>1, RegistryFrame
<1>3. Len(codeRuns) <= Len(codeRuns')
  <2>1. CASE Start(p)
    BY <2>1 DEF Start, PostCodeRun, CodeRun
  <2>2. CASE Patch(p)
    BY <2>2 DEF Patch, PatchCodeRun
  <2> QED BY <2>1, <2>2, RegistryFrame
<1>4. \A n \in Names : dataProducts[n] # NoObject => dataProducts'[n] = dataProducts[n]
  <2>1. CASE PostProductStep(p)
    BY <2>1 DEF PostProductStep, PostProduct
  <2> QED BY <2>1, RegistryFrame
<1> QED BY <1>1, <1>2, <1>3, <1>4 DEF RowsKept

(* What a process holds is its own, as in OthersKeep.                      *)
OthersHold(p) ==
    \A q \in Procs \ {p} :
        /\ reads'[q] = reads[q] /\ outputs'[q] = outputs[q]
        /\ inputs'[q] = inputs[q] /\ given'[q] = given[q]
        /\ obj'[q] = obj[q] /\ run'[q] = run[q] /\ result'[q] = result[q]

(* A step of one process leaves what the others hold alone.                *)
LEMMA OthersHoldTheirs ==
    ASSUME TypeOK, NEW p \in Procs, FinaliseStep(p) \/ ProgramStep(p)
    PROVE  OthersHold(p)
<1> USE DEF TypeOK, CallTypeOK, ConfigTypeOK, OthersHold
<1>1. CASE ProgramStep(p)
  BY <1>1 DEF ProgramStep, Start, Crash, Finalise, Iterate, MergeReads, Fail, LoseReply, Throw,
     LinkWrite, LinkRead, LinkReadCached, LinkReadQuery, ProgramWrite, DropLocals, Keep, callVars,
     configVars
<1>2. CASE HashStep(p) \/ FindLocation(p) \/ RemoveStep(p) \/ GetRoot(p)
  BY <1>2 DEF HashStep, FindLocation, RemoveStep, GetRoot, Throw, DropLocals, Keep, KeepCall
<1>3. CASE RenameStep(p) \/ RenameThrows(p) \/ PostLocationStep(p) \/ FileType(p) \/ FindNamespace(p)
  BY <1>3 DEF RenameStep, RenameThrows, PostLocationStep, FileType, FindNamespace, LoseReply, Throw,
     DropLocals, Keep, KeepCall
<1>4. CASE PostNamespaceStep(p) \/ FindProduct(p) \/ GetObject(p) \/ PostObjectStep(p)
  BY <1>4 DEF PostNamespaceStep, FindProduct, GetObject, PostObjectStep, LoseReply, Throw,
     DropLocals, Keep, KeepCall
<1>5. CASE PostProductStep(p) \/ GetComponent(p) \/ Patch(p) \/ PatchRefused(p)
  BY <1>5 DEF PostProductStep, GetComponent, Iterate, MergeReads, Patch, PatchRefused, LoseReply,
     Throw, DropLocals, Keep, KeepCall
<1> QED BY <1>1, <1>2, <1>3, <1>4, <1>5 DEF FinaliseStep

-----------------------------------------------------------------------------
(* Rows refer to rows *)

(* An object that exists goes on existing, as it was.                      *)
LEMMA KnownStays ==
    ASSUME TypeOK, RowsKept, TypeOK'
    PROVE  /\ Known \subseteq Known'
           /\ \A i \in Known \ {NoObject} : objects'[i] = objects[i]
BY DEF TypeOK, RegistryTypeOK, RowsKept, Known, NoObject

(* An object is posted for a registered location, a name for an object     *)
(* there is, and a code run lists what its process holds.                  *)
LEMMA ReferencesStep ==
    ASSUME TypeOK, TypeOK', ReferencesResolve, NEW p \in Procs, LocalOK(p), RefersOK(p), ProgressOK(p),
           FinaliseStep(p) \/ ProgramStep(p)
    PROVE  ReferencesResolve'
<1> USE DEF TypeOK, RegistryTypeOK
<1>0. RowsKept
  BY RowsAreKept
<1>1. \A i \in 1 .. Len(objects') : objects'[i] \in locations'
  <2>1. CASE PostObjectStep(p)
    <3>1. objects' = Append(objects, loc[p]) /\ loc[p] \in locations /\ UNCHANGED locations
      BY <2>1 DEF PostObjectStep, PostObject, LocalOK, LocatedPCs
    <3>2. \A i \in 1 .. Len(objects) : objects[i] \in locations
      BY DEF ReferencesResolve
    <3> QED BY <3>1, <3>2
  <2> QED BY <1>0, <2>1, RegistryFrame DEF RowsKept, ReferencesResolve
<1>2. \A n \in Names : dataProducts'[n] <= Len(objects')
  <2>1. CASE PostProductStep(p)
    BY <1>0, <2>1 DEF PostProductStep, PostProduct, RowsKept, ReferencesResolve, RefersOK, Known
  <2> QED BY <1>0, <2>1, RegistryFrame DEF RowsKept, ReferencesResolve
<1>3. \A r \in 1 .. Len(codeRuns') :
         \A i \in codeRuns'[r].outputs \cup codeRuns'[r].inputs : i <= Len(objects')
  <2> DEFINE Good(run_) == \A i \in run_.outputs \cup run_.inputs : i <= Len(objects)
  <2>0. \A r \in 1 .. Len(codeRuns) : Good(codeRuns[r])
    BY DEF ReferencesResolve
  <2>1. CASE Start(p)
    <3>1. codeRuns' = Append(codeRuns, [outputs |-> {}, inputs |-> {}]) /\ UNCHANGED objects
      BY <2>1 DEF Start, PostCodeRun
    <3>2. [outputs |-> {}, inputs |-> {}] \in CodeRun
      BY DEF CodeRun
    <3>3. \A r \in 1 .. Len(codeRuns') : Good(codeRuns'[r])
      BY <2>0, <3>1, <3>2
    <3> QED BY <3>1, <3>3
  <2>2. CASE Patch(p)
    <3> DEFINE new == [outputs |-> Recorded(outputs[p]), inputs |-> Recorded(inputs[p])]
    <3>1. codeRuns' = [codeRuns EXCEPT ![run[p]] = new] /\ UNCHANGED objects
      BY <2>2 DEF Patch, PatchCodeRun
    <3>2. Good(new)
      BY DEF RefersOK, Known, Recorded
    <3>3. Len(codeRuns') = Len(codeRuns)
      BY <3>1
    <3>4. \A r \in 1 .. Len(codeRuns') : codeRuns'[r] = new \/ codeRuns'[r] = codeRuns[r]
      BY <3>1, <3>3
    <3> HIDE DEF new
    <3>5. \A r \in 1 .. Len(codeRuns') : Good(codeRuns'[r])
      BY <2>0, <3>2, <3>3, <3>4
    <3> QED BY <3>1, <3>5
  <2>3. CASE UNCHANGED codeRuns
    <3>1. \A r \in 1 .. Len(codeRuns) : codeRuns[r].outputs \cup codeRuns[r].inputs \subseteq Nat
      <4>1. \A r \in 1 .. Len(codeRuns) : codeRuns[r] \in CodeRun
        OBVIOUS
      <4> QED BY <4>1 DEF CodeRun
    <3>2. ASSUME NEW r \in 1 .. Len(codeRuns), NEW i \in codeRuns[r].outputs \cup codeRuns[r].inputs
          PROVE  i <= Len(objects')
      <4>1. i \in Nat /\ i <= Len(objects)
        BY <2>0, <3>1
      <4> QED BY <1>0, <4>1 DEF RowsKept
    <3> QED BY <2>3, <3>2
  <2> QED BY <2>1, <2>2, <2>3, RegistryFrame
<1> QED BY <1>1, <1>2, <1>3 DEF ReferencesResolve

(* What the others hold goes on existing.                                  *)
LEMMA OthersRefer ==
    ASSUME TypeOK, TypeOK', NEW p \in Procs, FinaliseStep(p) \/ ProgramStep(p),
           NEW q \in Procs, q # p, RefersOK(q)
    PROVE  RefersOK(q)'
<1>1. /\ pc'[q] = pc[q] /\ cur'[q] = cur[q] /\ hash'[q] = hash[q] /\ obj'[q] = obj[q]
      /\ reads'[q] = reads[q] /\ outputs'[q] = outputs[q]
      /\ inputs'[q] = inputs[q] /\ given'[q] = given[q]
  BY OthersFrame, OthersHoldTheirs DEF OthersKeep, OthersHold
<1>2. /\ Known \subseteq Known'
      /\ \A i \in Known \ {NoObject} : objects'[i] = objects[i]
  BY RowsAreKept, KnownStays
<1> QED BY <1>1, <1>2 DEF RefersOK

(* A process only takes up objects from rows, or those it made.            *)
LEMMA OwnRefers ==
    ASSUME TypeOK, TypeOK', ReferencesResolve, NEW p \in Procs, LocalOK(p), RefersOK(p),
           FinaliseStep(p) \/ ProgramStep(p)
    PROVE  RefersOK(p)'
<1> USE DEF TypeOK, CallTypeOK, ConfigTypeOK
<1>0. /\ Known \subseteq Known'
      /\ \A i \in Known \ {NoObject} : objects'[i] = objects[i]
      /\ NoObject \in Known
      /\ \A n \in Names : dataProducts[n] \in Known
  <2>1. /\ Known \subseteq Known'
        /\ \A i \in Known \ {NoObject} : objects'[i] = objects[i]
    BY RowsAreKept, KnownStays
  <2>2. Len(objects) \in Nat /\ dataProducts \in [Names -> Nat]
    BY DEF RegistryTypeOK
  <2>3. \A n \in Names : dataProducts[n] \in Known
    BY <2>2 DEF Known, ReferencesResolve
  <2>4. NoObject \in Known
    BY <2>2 DEF Known, NoObject
  <2> QED BY <2>1, <2>3, <2>4
<1>1. \A d \in Products : /\ reads'[p][d] \in Known'
                          /\ outputs'[p][d] \in Known'
                          /\ inputs'[p][d] \in Known'
                          /\ given'[p][d] \in Known'
  <2>1. CASE Crash(p)
    BY <1>0, <2>1 DEF Crash
  <2>2. ASSUME NEW d \in Products, LinkRead(p, d)
        PROVE  /\ UNCHANGED <<outputs, inputs>>
               /\ \E i \in Known : \/ reads' = [reads EXCEPT ![p][d] = i]
                                   \/ reads' = reads
               /\ \E i \in Known : given' = [given EXCEPT ![p][d] = i]
    <3>1. CASE LinkReadCached(p, d)
      BY <1>0, <3>1 DEF LinkReadCached, RefersOK
    <3>2. CASE LinkReadQuery(p, d)
      <4>1. dataProducts[UseName[p][d]] \in Known
        BY <1>0, PipelineConstants
      <4> QED BY <3>2, <4>1 DEF LinkReadQuery
    <3> QED BY <2>2, <3>1, <3>2 DEF LinkRead
  <2>3. CASE \E d \in Products : LinkRead(p, d)
    <3>1. PICK d \in Products : LinkRead(p, d)
      BY <2>3
    <3>2. PICK i \in Known : reads' = [reads EXCEPT ![p][d] = i] \/ reads' = reads
      BY <2>2, <3>1
    <3>3. PICK j \in Known : given' = [given EXCEPT ![p][d] = j]
      BY <2>2, <3>1
    <3>4. UNCHANGED <<outputs, inputs>>
      BY <2>2, <3>1
    <3>5. \A e \in Products : reads'[p][e] \in Known /\ given'[p][e] \in Known
      BY <3>2, <3>3 DEF RefersOK
    <3> QED BY <1>0, <3>4, <3>5 DEF RefersOK
  <2>4. ASSUME NEW rest, Iterate(p, rest)
        PROVE  \A d \in Products : inputs'[p][d] \in Known
    <3> DEFINE merged ==
          [d \in Products |-> IF reads[p][d] = NoObject THEN inputs[p][d] ELSE reads[p][d]]
    <3>1. inputs' = inputs \/ inputs' = [inputs EXCEPT ![p] = merged]
      BY <2>4 DEF Iterate, MergeReads
    <3>2. \A d \in Products : merged[d] \in Known
      BY DEF RefersOK
    <3> HIDE DEF merged
    <3> QED BY <3>1, <3>2 DEF RefersOK
  <2>5. CASE Finalise(p)
    BY <1>0, <2>4, <2>5 DEF Finalise, RefersOK
  <2>6. CASE GetComponent(p)
    BY <1>0, <2>4, <2>6 DEF GetComponent, Keep, RefersOK
  <2>7. CASE UNCHANGED <<reads, outputs, inputs, given>>
    BY <1>0, <2>7 DEF RefersOK
  <2>8. CASE FinaliseStep(p) /\ ~ GetComponent(p)
    BY <2>7, <2>8 DEF FinaliseStep, HashStep, FindLocation, RemoveStep, GetRoot, RenameStep, RenameThrows,
       PostLocationStep, FileType, FindNamespace, PostNamespaceStep, FindProduct, GetObject,
       PostObjectStep, PostProductStep, Patch, PatchRefused, Keep, KeepCall
  <2> QED BY <2>1, <2>3, <2>5, <2>6, <2>7, <2>8
       DEF ProgramStep, Start, Fail, Keep, LinkWrite, ProgramWrite, configVars
<1>2. /\ obj'[p] \in Known'
      /\ pc'[p] \in {"get_object", "post_product", "get_component"} => obj'[p] # NoObject
      /\ pc'[p] = "post_product" => objects'[obj'[p]].hash = hash'[p][cur'[p]]
  <2>0. ASSUME Throw(p)
        PROVE  pc'[p] = "ready" /\ obj'[p] \in Known'
    BY <1>0, <2>0 DEF Throw, Goto, DropLocals
  <2>1. ASSUME NEW S \in SUBSET Products, Iterate(p, S)
        PROVE  pc'[p] \in {"hash", "patch"}
    BY <2>1 DEF Iterate, Goto
  <2>2. CASE ProgramStep(p)
    <3>1. pc'[p] \in {"down", "ready", "hash", "patch"}
      BY <2>0, <2>1, <2>2 DEF ProgramStep, Start, Crash, Finalise, Fail, LoseReply, LinkWrite, LinkRead, LinkReadCached,
         LinkReadQuery, ProgramWrite, Step, Goto
    <3>2. obj'[p] = obj[p] \/ obj'[p] = NoObject
      BY <2>2 DEF ProgramStep, Start, Crash, Finalise, Fail, LoseReply, Throw, DropLocals, LinkWrite,
         LinkRead, LinkReadCached, LinkReadQuery, ProgramWrite, callVars
    <3> QED BY <1>0, <3>1, <3>2 DEF RefersOK
  <2>3. CASE HashStep(p) \/ FindLocation(p) \/ RemoveStep(p) \/ GetRoot(p) \/ RenameStep(p)
              \/ RenameThrows(p) \/ PostLocationStep(p) \/ FileType(p)
    BY <1>0, <2>0, <2>3 DEF HashStep, FindLocation, RemoveStep, GetRoot, RenameStep, RenameThrows, PostLocationStep,
       FileType, LoseReply, Step, Goto, RefersOK
  <2>4. CASE FindNamespace(p) \/ PostNamespaceStep(p) \/ PatchRefused(p) \/ Patch(p)
    BY <1>0, <2>0, <2>4 DEF FindNamespace, PostNamespaceStep, PatchRefused, Patch, LoseReply, Goto, RefersOK
  <2>5. CASE FindProduct(p)
    <3>1. cur[p] \in Names
      BY <2>5, PipelineConstants DEF FindProduct, LocalOK, LoopPCs, FinalisePCs
    <3> QED BY <1>0, <2>5, <3>1 DEF FindProduct, HasProduct, Goto, RefersOK
  <2>6. CASE GetObject(p) \/ PostProductStep(p)
    BY <1>0, <2>0, <2>6 DEF GetObject, PostProductStep, LoseReply, Step, Goto, RefersOK
  <2>7. CASE PostObjectStep(p)
    <3>1. loc[p] \in Location /\ loc[p].hash = hash[p][cur[p]]
      BY <2>7 DEF PostObjectStep, LocalOK, LocatedPCs, RegistryTypeOK
    <3>2. objects' = Append(objects, loc[p])
      BY <2>7 DEF PostObjectStep, PostObject
    <3>3. objects'[Len(objects) + 1] = loc[p] /\ Len(objects') = Len(objects) + 1 /\ Len(objects) \in Nat
      BY <3>1, <3>2 DEF RegistryTypeOK
    <3>4. CASE Throw(p)
      BY <2>0, <3>4
    <3>5. CASE ~ Throw(p)
      BY <2>7, <3>1, <3>3, <3>5 DEF PostObjectStep, LoseReply, Goto, Keep, Known, NoObject
    <3> QED BY <3>4, <3>5
  <2>8. CASE GetComponent(p)
    BY <1>0, <2>1, <2>8 DEF GetComponent, DropLocals
  <2> QED BY <2>2, <2>3, <2>4, <2>5, <2>6, <2>7, <2>8 DEF FinaliseStep
<1> QED BY <1>1, <1>2 DEF RefersOK

-----------------------------------------------------------------------------
(* How far finalise has come *)

(* A key stays done while others move, and while its process works on      *)
(* another one.                                                            *)
LEMMA DoneStays ==
    ASSUME RowsKept, NEW q \in Procs, NEW d \in Products, Done(q, d),
           outputs'[q][d] # NoObject, hash'[q][d] = hash[q][d]
    PROVE  Done(q, d)'
BY DEF RowsKept, Done, LocationsOf

(* What ProgressOK says of a process stays true while others move.         *)
LEMMA OthersProgress ==
    ASSUME TypeOK, TypeOK', NEW p \in Procs, FinaliseStep(p) \/ ProgramStep(p),
           NEW q \in Procs, q # p, ProgressOK(q)
    PROVE  ProgressOK(q)'
<1>1. /\ pc'[q] = pc[q] /\ cur'[q] = cur[q] /\ hash'[q] = hash[q] /\ writes'[q] = writes[q]
      /\ loc'[q] = loc[q] /\ reads'[q] = reads[q] /\ outputs'[q] = outputs[q]
      /\ inputs'[q] = inputs[q] /\ run'[q] = run[q] /\ result'[q] = result[q]
  BY OthersFrame, OthersHoldTheirs DEF OthersKeep, OthersHold
<1>2. RowsKept
  BY RowsAreKept
<1>3. \A d \in Products : Done(q, d) => Done(q, d)'
  BY <1>1, <1>2, DoneStays DEF Done
<1>4. writes[q] \subseteq Products
  BY DEF TypeOK, ConfigTypeOK
<1>5. run[q] \in 1 .. Len(codeRuns) => run[q] \in 1 .. Len(codeRuns')
  BY <1>2 DEF RowsKept, TypeOK, RegistryTypeOK
<1> QED BY <1>1, <1>3, <1>4, <1>5 DEF ProgressOK

(* The loop goes to the least of the keys after the one it is at: all      *)
(* those before the new one are done when this one is.                     *)
LEMMA IterateProgress ==
    ASSUME TypeOK, NEW p \in Procs, NEW rest \in SUBSET Products, Iterate(p, rest),
           NEW W \in SUBSET Products, rest \subseteq W
    PROVE  /\ pc'[p] = "hash" => \A d \in W : d < cur'[p] => d \notin rest
           /\ pc'[p] = "patch" =>
                 /\ rest = {}
                 /\ \A d \in Products : reads[p][d] # NoObject => inputs'[p][d] = reads[p][d]
           /\ pc'[p] \in {"hash", "patch"}
<1> USE DEF TypeOK, CallTypeOK, ConfigTypeOK
<1>1. CASE rest = {}
  BY <1>1 DEF Iterate, Goto, MergeReads
<1>2. CASE rest # {}
  <2>1. pc'[p] = "hash" /\ cur'[p] = Least(rest)
    BY <1>2 DEF Iterate, Goto
  <2>2. \A e \in rest : Least(rest) <= e
    BY <1>2, KeysOrdered DEF Least
  <2>3. Least(rest) \in Products
    BY <1>2, LeastIsMember
  <2>4. \A d \in W : d < Least(rest) => d \notin rest
    <3> SUFFICES ASSUME NEW d \in W, d < Least(rest), d \in rest
                 PROVE  FALSE
      OBVIOUS
    <3>1. d \in Nat /\ Least(rest) \in Nat
      BY <2>3, PipelineConstants
    <3>2. Least(rest) <= d
      BY <2>2
    <3> HIDE DEF Least
    <3> QED BY <3>1, <3>2
  <2> QED BY <2>1, <2>4
<1> QED BY <1>1, <1>2

(* A step of finalise that goes on with the same key.                      *)
MovesOn(p) ==
    /\ pc[p] \in LoopPCs /\ pc'[p] \in LoopPCs
    /\ cur'[p] = cur[p] /\ writes'[p] = writes[p]
    /\ hash'[p] = hash[p] /\ outputs'[p] = outputs[p]

(* What else a process may do: leave finalise or stay outside of it, begin *)
(* it, be done with a key, or compute a hash.                              *)
LEMMA LoopSteps ==
    ASSUME TypeOK, NEW p \in Procs, FinaliseStep(p) \/ ProgramStep(p)
    PROVE  \/ pc'[p] \in {"down", "ready"}
           \/ Finalise(p) \/ GetComponent(p)
           \/ HashStep(p) /\ ~ Throw(p)
           \/ MovesOn(p)
<1> USE DEF TypeOK, CallTypeOK, ConfigTypeOK, LoopPCs, FinalisePCs, MovesOn
<1>1. ASSUME Throw(p)
      PROVE  pc'[p] = "ready"
  BY <1>1 DEF Throw, Goto
<1>2. CASE ProgramStep(p) /\ ~ Finalise(p)
  BY <1>1, <1>2 DEF ProgramStep, Start, Crash, Fail, LoseReply, LinkWrite, LinkRead,
     LinkReadCached, LinkReadQuery, ProgramWrite, Step, Goto
<1>3. CASE FindLocation(p) \/ RemoveStep(p) \/ GetRoot(p) \/ RenameStep(p) \/ FileType(p)
           \/ FindNamespace(p) \/ FindProduct(p) \/ GetObject(p)
  BY <1>3 DEF FindLocation, RemoveStep, GetRoot, RenameStep, FileType, FindNamespace,
     FindProduct, GetObject, Step, Goto, Keep, KeepCall
<1>4. CASE PostLocationStep(p) \/ PostNamespaceStep(p) \/ PostObjectStep(p) \/ PostProductStep(p)
  BY <1>1, <1>4 DEF PostLocationStep, PostNamespaceStep, PostObjectStep, PostProductStep,
     LoseReply, Goto, Keep
<1>5. CASE RenameThrows(p) \/ Patch(p) \/ PatchRefused(p) \/ Throw(p)
  BY <1>1, <1>5 DEF RenameThrows, Patch, PatchRefused, LoseReply, Goto
<1> QED BY <1>2, <1>3, <1>4, <1>5 DEF FinaliseStep

(* The steps of a process make the progress that the next one relies on.   *)
LEMMA OwnProgress ==
    ASSUME TypeOK, TypeOK', NEW p \in Procs, LocalOK(p), RefersOK(p), ProgressOK(p),
           FinaliseStep(p) \/ ProgramStep(p)
    PROVE  ProgressOK(p)'
<1>next. ASSUME NEW rest \in SUBSET Products, Iterate(p, rest), rest \subseteq writes[p]
      PROVE  /\ pc'[p] = "hash" => \A d \in writes[p] : d < cur'[p] => d \notin rest
             /\ pc'[p] = "patch" =>
                   /\ rest = {}
                   /\ \A d \in Products : reads[p][d] # NoObject => inputs'[p][d] = reads[p][d]
             /\ pc'[p] \in {"hash", "patch"}
  <2>1. writes[p] \in SUBSET Products
    BY DEF TypeOK, ConfigTypeOK
  <2> QED BY <1>next, <2>1, IterateProgress
<1> USE DEF TypeOK, CallTypeOK, ConfigTypeOK
<1>0. RowsKept /\ Len(codeRuns) \in Nat /\ Len(codeRuns') \in Nat
  BY RowsAreKept DEF RegistryTypeOK
<1>1. pc'[p] # "down" => run'[p] \in 1 .. Len(codeRuns')
  <2>1. CASE Start(p)
    <3>1. codeRuns' = Append(codeRuns, [outputs |-> {}, inputs |-> {}])
      BY <2>1 DEF Start, PostCodeRun
    <3>2. Len(codeRuns') = Len(codeRuns) + 1 /\ run'[p] = Len(codeRuns) + 1
      BY <2>1, <3>1 DEF Start, RegistryTypeOK, CodeRun
    <3> QED BY <1>0, <3>2
  <2>2. CASE Crash(p)
    BY <2>2 DEF Crash, Goto
  <2>3. CASE pc[p] # "down" /\ UNCHANGED run
    BY <1>0, <2>3 DEF ProgressOK, RowsKept
  <2>4. CASE FinaliseStep(p)
    BY <2>3, <2>4 DEF FinaliseStep, HashStep, FindLocation, RemoveStep, GetRoot, RenameStep, RenameThrows,
       PostLocationStep, FileType, FindNamespace, PostNamespaceStep, FindProduct, GetObject,
       PostObjectStep, PostProductStep, GetComponent, Patch, PatchRefused, Keep, Step
  <2> QED BY <2>1, <2>2, <2>3, <2>4
       DEF ProgramStep, Finalise, Fail, Keep, LinkWrite, LinkRead, LinkReadCached, LinkReadQuery,
           ProgramWrite, configVars, FinalisePCs
<1>2. result'[p] = "ok" => pc'[p] = "ready"
  <2>1. CASE ProgramStep(p)
    <3>1. CASE Start(p)
      BY <3>1 DEF Start, Step, Goto
    <3> QED BY <2>1, <3>1
         DEF ProgramStep, Crash, Finalise, Fail, LoseReply, Throw, LinkWrite, LinkRead,
             LinkReadCached, LinkReadQuery, ProgramWrite
  <2>2. CASE FinaliseStep(p)
    <3>1. pc[p] \in FinalisePCs
      BY <2>2 DEF FinaliseStep, HashStep, FindLocation, RemoveStep, GetRoot, RenameStep, RenameThrows,
         PostLocationStep, FileType, FindNamespace, PostNamespaceStep, FindProduct, GetObject,
         PostObjectStep, PostProductStep, GetComponent, Patch, PatchRefused, Step, FinalisePCs
    <3>2. result[p] # "ok"
      BY <3>1 DEF ProgressOK, FinalisePCs
    <3>3. result'[p] # "ok" \/ Patch(p)
      BY <2>2, <3>2 DEF FinaliseStep, HashStep, FindLocation, RemoveStep, GetRoot, RenameStep, RenameThrows,
         PostLocationStep, FileType, FindNamespace, PostNamespaceStep, FindProduct, GetObject,
         PostObjectStep, PostProductStep, GetComponent, PatchRefused, Throw, LoseReply, KeepCall
    <3> QED BY <3>3 DEF Patch, LoseReply, Throw, Goto
  <2> QED BY <2>1, <2>2
<1>3. pc'[p] \in LocatedPCs => loc'[p].public = Public[p]
  <2> USE DEF LocatedPCs
  <2>0. ASSUME Throw(p)
        PROVE  pc'[p] \notin LocatedPCs
    BY <2>0 DEF Throw, Goto
  <2>1. CASE ProgramStep(p)
    BY <2>0, <2>1 DEF ProgramStep, Start, Crash, Finalise, Iterate, Fail, LoseReply, LinkWrite, LinkRead,
       LinkReadCached, LinkReadQuery, ProgramWrite, Step, Goto, ProgressOK
  <2>2. CASE FindLocation(p)
    BY <2>2 DEF FindLocation, LocationsOf, Goto
  <2>3. CASE PostLocationStep(p)
    BY <2>0, <2>3 DEF PostLocationStep, LoseReply, Goto
  <2>4. CASE HashStep(p) \/ RenameStep(p) \/ RenameThrows(p) \/ GetComponent(p) \/ Patch(p) \/ PatchRefused(p)
    BY <2>0, <2>4 DEF HashStep, RenameStep, RenameThrows, GetComponent, Iterate, Patch, PatchRefused, LoseReply,
       Step, Goto
  <2>5. CASE RemoveStep(p) \/ GetRoot(p) \/ FileType(p) \/ FindNamespace(p) \/ PostNamespaceStep(p)
    BY <2>0, <2>5 DEF RemoveStep, GetRoot, FileType, FindNamespace, PostNamespaceStep, LoseReply,
       Step, Goto, ProgressOK
  <2>6. CASE FindProduct(p) \/ GetObject(p) \/ PostObjectStep(p) \/ PostProductStep(p)
    BY <2>0, <2>6 DEF FindProduct, GetObject, PostObjectStep, PostProductStep, LoseReply, Step, Goto,
       ProgressOK
  <2> QED BY <2>1, <2>2, <2>3, <2>4, <2>5, <2>6 DEF FinaliseStep
<1>4. /\ pc'[p] \in LoopPCs => \A d \in writes'[p] : d < cur'[p] => Done(p, d)'
      /\ pc'[p] = "patch" =>
            /\ \A d \in writes'[p] : Done(p, d)'
            /\ \A d \in Products : reads'[p][d] # NoObject => inputs'[p][d] = reads'[p][d]
  <2> USE DEF LoopPCs, FinalisePCs
  <2>0. writes[p] \in SUBSET Products /\ Products \subseteq Nat
    BY PipelineConstants
  <2>1. CASE pc'[p] \in {"down", "ready"}
    BY <2>1
  <2>2. CASE Finalise(p)
    <3>1. Iterate(p, writes[p]) /\ UNCHANGED <<writes, reads>>
      BY <2>2 DEF Finalise
    <3>2. /\ pc'[p] = "hash" => \A d \in writes[p] : d < cur'[p] => d \notin writes[p]
          /\ pc'[p] = "patch" =>
                /\ writes[p] = {}
                /\ \A d \in Products : reads[p][d] # NoObject => inputs'[p][d] = reads[p][d]
          /\ pc'[p] \in {"hash", "patch"}
      BY <1>next, <2>0, <3>1
    <3>3. writes'[p] = writes[p] /\ reads'[p] = reads[p]
      BY <3>1
    <3>4. CASE pc'[p] = "hash"
      BY <3>2, <3>3, <3>4
    <3>5. CASE pc'[p] = "patch"
      BY <3>2, <3>3, <3>5
    <3> QED BY <3>2, <3>4, <3>5
  <2>3. CASE HashStep(p) /\ ~ Throw(p)
    <3>1. /\ pc[p] = "hash" /\ pc'[p] = "find_location"
          /\ UNCHANGED <<writes, outputs, cur>>
          /\ hash' = [hash EXCEPT ![p][cur[p]] = temp[p][cur[p]]]
      BY <2>3 DEF HashStep, Goto, Keep
    <3>2. ASSUME NEW d \in writes[p], d < cur[p]
          PROVE  Done(p, d)'
      <4>1. Done(p, d)
        BY <3>1, <3>2 DEF ProgressOK
      <4>2. d # cur[p]
        BY <2>0, <3>2
      <4>3. hash'[p][d] = hash[p][d]
        BY <3>1, <4>2
      <4> QED BY <1>0, <2>0, <3>1, <4>1, <4>3, DoneStays DEF Done
    <3> QED BY <3>1, <3>2
  <2>4. CASE GetComponent(p)
    <3>0. PICK d \in Products : d = cur[p] /\ d \in writes[p]
      BY <2>0, <2>4 DEF GetComponent, LocalOK
    <3>00. PICK rest \in SUBSET Products : rest = {e \in writes[p] : e > d}
      BY <2>0
    <3>1. /\ pc[p] = "get_component" /\ Iterate(p, rest)
          /\ outputs' = [outputs EXCEPT ![p][d] = obj[p]]
          /\ UNCHANGED <<writes, reads, hash, locations>>
      BY <2>4, <3>0, <3>00 DEF GetComponent, Keep, registryVars
    <3>3. Done(p, d)'
      <4>1. loc[p] \in LocationsOf(hash[p][d], Public[p])
        BY <3>0, <3>1 DEF LocalOK, ProgressOK, LocatedPCs, LocationsOf
      <4>2. outputs'[p][d] = obj[p] /\ obj[p] # NoObject
        BY <3>0, <3>1 DEF RefersOK
      <4> QED BY <3>1, <4>1, <4>2 DEF Done, LocationsOf
    <3>4. ASSUME NEW e \in writes[p], e \notin rest
          PROVE  Done(p, e)'
      <4>1. CASE e = d
        BY <3>3, <4>1
      <4>2. CASE e # d
        <5>1. e < d
          <6>1. e \in Nat /\ d \in Nat
            BY <2>0
          <6>2. ~ (e > d)
            BY <3>00, <3>4
          <6> QED BY <4>2, <6>1, <6>2
        <5>2. Done(p, e)
          BY <3>0, <3>1, <5>1 DEF ProgressOK
        <5>3. outputs'[p][e] = outputs[p][e] /\ hash'[p][e] = hash[p][e]
          BY <2>0, <3>1, <4>2
        <5> QED BY <1>0, <2>0, <5>2, <5>3, DoneStays DEF Done
      <4> QED BY <4>1, <4>2
    <3>5. rest \subseteq writes[p]
      BY <3>00
    <3>6. /\ pc'[p] = "hash" => \A e \in writes[p] : e < cur'[p] => e \notin rest
          /\ pc'[p] = "patch" =>
                /\ rest = {}
                /\ \A e \in Products : reads[p][e] # NoObject => inputs'[p][e] = reads[p][e]
          /\ pc'[p] \in {"hash", "patch"}
      BY <1>next, <2>0, <3>1, <3>5
    <3>7. writes'[p] = writes[p] /\ reads'[p] = reads[p]
      BY <3>1
    <3>8. CASE pc'[p] = "hash"
      BY <3>4, <3>6, <3>7, <3>8
    <3>9. CASE pc'[p] = "patch"
      BY <3>4, <3>6, <3>7, <3>9
    <3> QED BY <3>6, <3>8, <3>9
  <2>5. CASE MovesOn(p)
    BY <1>0, <2>0, <2>5, DoneStays DEF MovesOn, ProgressOK, Done
  <2> QED BY <2>1, <2>2, <2>3, <2>4, <2>5, LoopSteps
<1> QED BY <1>1, <1>2, <1>3, <1>4 DEF ProgressOK

-----------------------------------------------------------------------------
(* What a finalise that returned has recorded *)

(* A new Config gets a code run that no other has.                         *)
LEMMA OwnRunsStep ==
    ASSUME TypeOK, OwnRuns, \A q \in Procs : ProgressOK(q),
           NEW p \in Procs, FinaliseStep(p) \/ ProgramStep(p)
    PROVE  OwnRuns'
<1> USE DEF TypeOK, CallTypeOK, ConfigTypeOK
<1>1. \A q \in Procs \ {p} : pc'[q] = pc[q] /\ run'[q] = run[q]
  BY OthersFrame, OthersHoldTheirs DEF OthersKeep, OthersHold
<1>2. CASE Start(p)
  <2>1. run'[p] = Len(codeRuns) + 1 /\ Len(codeRuns) \in Nat
    BY <1>2 DEF Start, RegistryTypeOK
  <2>2. \A q \in Procs \ {p} : pc[q] # "down" => run[q] \in 1 .. Len(codeRuns)
    BY DEF ProgressOK
  <2>3. \A q \in Procs \ {p} : pc[q] # "down" => run[q] # run'[p]
    BY <2>1, <2>2
  <2> QED BY <1>1, <2>3 DEF OwnRuns
<1>3. CASE Crash(p)
  BY <1>1, <1>3 DEF Crash, Goto, OwnRuns
<1>4. CASE pc[p] # "down" /\ UNCHANGED run
  BY <1>1, <1>4 DEF OwnRuns
<1>5. CASE FinaliseStep(p)
  BY <1>4, <1>5 DEF FinaliseStep, HashStep, FindLocation, RemoveStep, GetRoot, RenameStep, RenameThrows,
     PostLocationStep, FileType, FindNamespace, PostNamespaceStep, FindProduct, GetObject,
     PostObjectStep, PostProductStep, GetComponent, Patch, PatchRefused, Keep, Step
<1> QED BY <1>2, <1>3, <1>4, <1>5
     DEF ProgramStep, Finalise, Fail, Keep, LinkWrite, LinkRead, LinkReadCached, LinkReadQuery,
         ProgramWrite, configVars, FinalisePCs

(* What SuccessIsComplete says of one process.                             *)
Complete(p) ==
    /\ \A d \in writes[p] : Done(p, d) /\ outputs[p][d] \in codeRuns[run[p]].outputs
    /\ Recorded(reads[p]) \subseteq codeRuns[run[p]].inputs

(* SuccessIsComplete, process by process.                                  *)
LEMMA SuccessIsCompleteness ==
    SuccessIsComplete <=> \A p \in Procs : result[p] = "ok" => Complete(p)
BY DEF SuccessIsComplete, Complete, Done

(* The PATCH of a process does not touch the code run of another one.      *)
LEMMA OthersComplete ==
    ASSUME TypeOK, OwnRuns, \A r \in Procs : ProgressOK(r),
           NEW p \in Procs, FinaliseStep(p) \/ ProgramStep(p),
           NEW q \in Procs, q # p, result[q] = "ok", Complete(q)
    PROVE  Complete(q)'
<1>1. /\ hash'[q] = hash[q] /\ writes'[q] = writes[q] /\ reads'[q] = reads[q]
      /\ outputs'[q] = outputs[q] /\ run'[q] = run[q]
  BY OthersFrame, OthersHoldTheirs DEF OthersKeep, OthersHold
<1>2. pc[q] = "ready" /\ run[q] \in 1 .. Len(codeRuns)
  BY DEF ProgressOK
<1>3. codeRuns'[run[q]] = codeRuns[run[q]]
  <2> USE DEF TypeOK, RegistryTypeOK
  <2>1. CASE Start(p)
    <3>1. codeRuns' = Append(codeRuns, [outputs |-> {}, inputs |-> {}])
      BY <2>1 DEF Start, PostCodeRun
    <3>2. [outputs |-> {}, inputs |-> {}] \in CodeRun
      BY DEF CodeRun
    <3> QED BY <1>2, <3>1, <3>2
  <2>2. CASE Patch(p)
    <3>1. run[p] # run[q]
      BY <1>2, <2>2 DEF Patch, OwnRuns
    <3> QED BY <1>2, <2>2, <3>1 DEF Patch, PatchCodeRun
  <2> QED BY <2>1, <2>2, RegistryFrame
<1>4. \A d \in writes[q] : Done(q, d)'
  <2>1. writes[q] \subseteq Products
    BY DEF TypeOK, ConfigTypeOK
  <2> QED BY <1>1, <2>1, RowsAreKept, DoneStays DEF Complete, Done
<1> QED BY <1>1, <1>3, <1>4 DEF Complete, Recorded

(* Only a PATCH makes a call succeed,                                      *)
LEMMA OnlyPatchSucceeds ==
    ASSUME TypeOK, NEW p \in Procs, ProgressOK(p), FinaliseStep(p) \/ ProgramStep(p),
           result'[p] = "ok"
    PROVE  Patch(p) /\ UNCHANGED <<writes, reads, outputs, inputs, hash, run>>
<1> USE DEF TypeOK, CallTypeOK
<1>1. CASE ProgramStep(p)
  BY <1>1 DEF ProgramStep, Start, Step, ProgressOK, Crash, Finalise, Fail, LoseReply, Throw, LinkWrite,
     LinkRead, LinkReadCached, LinkReadQuery, ProgramWrite
<1>2. CASE FinaliseStep(p)
  <2>1. pc[p] \in FinalisePCs
    BY <1>2 DEF FinaliseStep, HashStep, FindLocation, RemoveStep, GetRoot, RenameStep, RenameThrows,
       PostLocationStep, FileType, FindNamespace, PostNamespaceStep, FindProduct, GetObject,
       PostObjectStep, PostProductStep, GetComponent, Patch, PatchRefused, Step, FinalisePCs
  <2>2. result[p] # "ok"
    BY <2>1 DEF ProgressOK, FinalisePCs
  <2>3. Patch(p)
    BY <1>2, <2>2 DEF FinaliseStep, HashStep, FindLocation, RemoveStep, GetRoot, RenameStep,
       RenameThrows, PostLocationStep, FileType, FindNamespace, PostNamespaceStep, FindProduct, GetObject,
       PostObjectStep, PostProductStep, GetComponent, PatchRefused, Throw, LoseReply, KeepCall
  <2> QED BY <2>3 DEF Patch, Keep
<1> QED BY <1>1, <1>2

(* and it sends all that was recorded.                                     *)
LEMMA OwnComplete ==
    ASSUME TypeOK, NEW p \in Procs, ProgressOK(p), FinaliseStep(p) \/ ProgramStep(p),
           result'[p] = "ok"
    PROVE  Complete(p)'
<1> USE DEF TypeOK, CallTypeOK, ConfigTypeOK
<1> DEFINE new == [outputs |-> Recorded(outputs[p]), inputs |-> Recorded(inputs[p])]
<1>1. /\ codeRuns' = [codeRuns EXCEPT ![run[p]] = new]
      /\ pc[p] = "patch"
      /\ UNCHANGED <<writes, reads, outputs, inputs, hash, run, locations>>
  BY OnlyPatchSucceeds DEF Patch, PatchCodeRun
<1>2. codeRuns'[run[p]] = new
  BY <1>1 DEF ProgressOK, RegistryTypeOK
<1>3. \A d \in writes[p] : Done(p, d) /\ outputs[p][d] \in Recorded(outputs[p])
  BY <1>1 DEF ProgressOK, Done, Recorded
<1>4. Recorded(reads[p]) \subseteq Recorded(inputs[p])
  BY <1>1 DEF ProgressOK, Recorded
<1>5. new.outputs = Recorded(outputs[p]) /\ new.inputs = Recorded(inputs[p])
  OBVIOUS
<1> HIDE DEF new
<1>6. \A d \in writes'[p] : Done(p, d)' /\ outputs'[p][d] \in codeRuns'[run'[p]].outputs
  BY <1>1, <1>2, <1>3, <1>5 DEF Done, LocationsOf
<1>7. Recorded(reads'[p]) \subseteq codeRuns'[run'[p]].inputs
  BY <1>1, <1>2, <1>4, <1>5
<1> QED BY <1>6, <1>7 DEF Complete, Recorded

-----------------------------------------------------------------------------
(* The invariant and what follows from it *)

(* The rows are in order at first.                                         *)
LEMMA InitRecords == Init => RecordsOK
<1> SUFFICES ASSUME Init PROVE RecordsOK
  OBVIOUS
<1> USE DEF Init, RegistryInit, NoObject
<1>1. ReferencesResolve
  BY DEF ReferencesResolve
<1>2. OwnRuns /\ SuccessIsComplete
  BY DEF OwnRuns, SuccessIsComplete
<1>3. \A p \in Procs : RefersOK(p) /\ ProgressOK(p)
  BY DEF RefersOK, ProgressOK, Known, LocatedPCs, LoopPCs, FinalisePCs
<1> QED BY <1>1, <1>2, <1>3 DEF RecordsOK

(* A step keeps them in order.  It does not matter where the files of the  *)
(* locations are.                                                          *)
LEMMA RecordsStep ==
    ASSUME TypeOK, TypeOK', \A q \in Procs : LocalOK(q), RecordsOK,
           NEW p \in Procs, FinaliseStep(p) \/ ProgramStep(p)
    PROVE  RecordsOK'
<1> USE DEF RecordsOK
<1>1. ReferencesResolve'
  BY ReferencesStep
<1>2. OwnRuns'
  BY OwnRunsStep
<1>3. \A q \in Procs : RefersOK(q)'
  BY OwnRefers, OthersRefer
<1>4. \A q \in Procs : ProgressOK(q)'
  BY OwnProgress, OthersProgress
<1>5. SuccessIsComplete'
  <2>1. ASSUME NEW q \in Procs, q # p, result'[q] = "ok"
        PROVE  Complete(q)'
    <3>1. result[q] = "ok"
      BY <2>1, OthersHoldTheirs DEF OthersHold
    <3> QED BY <2>1, <3>1, SuccessIsCompleteness, OthersComplete
  <2>2. result'[p] = "ok" => Complete(p)'
    BY OwnComplete
  <2> QED BY <2>1, <2>2 DEF SuccessIsComplete, Complete, Done
<1> QED BY <1>1, <1>2, <1>3, <1>4, <1>5

(* They stay in order.                                                     *)
LEMMA NextRecords == IInv /\ IInv' /\ RecordsOK /\ [Next]_vars => RecordsOK'
<1> SUFFICES ASSUME IInv, IInv', RecordsOK, [Next]_vars PROVE RecordsOK'
  OBVIOUS
<1>1. CASE UNCHANGED vars
  BY <1>1 DEF vars, registryVars, fileVars, configVars, callVars, RecordsOK, ReferencesResolve, OwnRuns,
     SuccessIsComplete, RefersOK, ProgressOK, Known, Done, LocationsOf, Recorded
<1>2. ASSUME NEW p \in Procs, FinaliseStep(p) \/ ProgramStep(p)
      PROVE  RecordsOK'
  BY <1>2, RecordsStep DEF IInv
<1> QED BY <1>1, <1>2 DEF Next

(* The records stay in order in every behaviour.                           *)
THEOREM RecordInvariance == Spec => []RecordsOK
BY InitRecords, NextRecords, Invariance, PTL DEF Spec

(* No row dangles: objects refer to registered locations, names and code   *)
(* runs to objects that exist.                                             *)
THEOREM NoRowDangles == Spec => []ReferencesResolve
<1>1. RecordsOK => ReferencesResolve
  BY DEF RecordsOK
<1> QED BY <1>1, RecordInvariance, PTL

(* A finalise that returned listed every key that was linked, whatever     *)
(* other processes sent in the meantime.                                   *)
THEOREM SuccessRecordsAll == Spec => []SuccessIsComplete
<1>1. RecordsOK => SuccessIsComplete
  BY DEF RecordsOK
<1> QED BY <1>1, RecordInvariance, PTL

(* The object a name is first published with has the hash its publisher    *)
(* computed, though objects were posted by others since.                   *)
THEOREM PublishedAsHashed == Spec => PublishesWhatWasWritten
<1>1. IInv /\ RecordsOK /\ [Next]_vars =>
         [\A n \in Names : (dataProducts[n] # dataProducts'[n]) =>
             \E p \in Procs : /\ pc[p] = "post_product"
                              /\ cur[p] = n
                              /\ objects[dataProducts'[n]].hash = hash[p][n]]_vars
  <2> SUFFICES ASSUME IInv, RecordsOK, NEW p \in Procs, FinaliseStep(p) \/ ProgramStep(p),
                      NEW n \in Names, dataProducts[n] # dataProducts'[n]
               PROVE  /\ pc[p] = "post_product"
                      /\ cur[p] = n
                      /\ objects[dataProducts'[n]].hash = hash[p][n]
    BY DEF Next
  <2>1. PostProductStep(p)
    BY RegistryFrame
  <2>2. /\ pc[p] = "post_product"
        /\ dataProducts' = [dataProducts EXCEPT ![cur[p]] =
                               IF @ = NoObject THEN obj[p] ELSE @]
    BY <2>1 DEF PostProductStep, PostProduct
  <2>3. n = cur[p] /\ dataProducts'[n] = obj[p]
    BY <2>2 DEF IInv, TypeOK, RegistryTypeOK
  <2>4. objects[obj[p]].hash = hash[p][cur[p]]
    BY <2>2 DEF RecordsOK, RefersOK
  <2> QED BY <2>2, <2>3, <2>4
<1> QED BY <1>1, Invariance, RecordInvariance, PTL DEF Spec, PublishesWhatWasWritten

(* What was recorded as read under a name stays what the name refers to:   *)
(* rows of names are never changed.                                        *)
LEMMA ReadStep ==
    ASSUME TypeOK, ReadsAsAsked, NEW p \in Procs, FinaliseStep(p) \/ ProgramStep(p)
    PROVE  ReadsAsAsked'
<1> USE DEF TypeOK, ConfigTypeOK
<1>1. ASSUME NEW q \in Procs, NEW d \in Products,
             NEW i \in {reads[q][d], inputs[q][d]}, i # NoObject
      PROVE  d \in ReadNames[q] /\ i = dataProducts'[UseName[q][d]]
  <2>1. UseName[q][d] \in Names
    BY PipelineConstants
  <2>2. d \in ReadNames[q] /\ i = dataProducts[UseName[q][d]]
    BY <1>1 DEF ReadsAsAsked, ReadOK
  <2> QED BY <1>1, <2>1, <2>2, RowsAreKept DEF RowsKept
<1>2. ASSUME NEW q \in Procs,
             \A d \in Products : /\ reads'[q][d] \in {NoObject, reads[q][d]}
                                 /\ inputs'[q][d] \in {NoObject, inputs[q][d], reads[q][d]}
      PROVE  ReadOK(q)'
  <2> SUFFICES ASSUME NEW d \in Products
               PROVE  /\ reads'[q][d] # NoObject =>
                            d \in ReadNames[q] /\ reads'[q][d] = dataProducts'[UseName[q][d]]
                      /\ inputs'[q][d] # NoObject =>
                            d \in ReadNames[q] /\ inputs'[q][d] = dataProducts'[UseName[q][d]]
    BY DEF ReadOK
  <2>1. /\ reads'[q][d] # NoObject => reads'[q][d] \in {reads[q][d], inputs[q][d]}
        /\ inputs'[q][d] # NoObject => inputs'[q][d] \in {reads[q][d], inputs[q][d]}
    BY <1>2
  <2> QED BY <1>1, <2>1
<1>3. ASSUME NEW q \in Procs \ {p}
      PROVE  ReadOK(q)'
  <2>1. reads'[q] = reads[q] /\ inputs'[q] = inputs[q]
    BY OthersHoldTheirs DEF OthersHold
  <2> QED BY <1>2, <2>1 DEF ReadOK
<1>4. CASE UNCHANGED <<reads, inputs>>
  BY <1>2, <1>3, <1>4 DEF ReadOK, ReadsAsAsked
<1>5. CASE Crash(p)
  BY <1>2, <1>3, <1>5 DEF Crash, ReadOK, ReadsAsAsked
<1>6. CASE Finalise(p) \/ GetComponent(p)
  <2>1. PICK rest : Iterate(p, rest)
    BY <1>6 DEF Finalise, GetComponent
  <2>2. UNCHANGED reads
    BY <1>6 DEF Finalise, GetComponent, Keep
  <2>3. \A d \in Products : inputs'[p][d] \in {inputs[p][d], reads[p][d]}
    BY <2>1 DEF Iterate, MergeReads
  <2>4. ReadOK(p)'
    <3>1. \A d \in Products : reads'[p][d] = reads[p][d]
      BY <2>2
    <3> QED BY <1>2, <2>3, <3>1
  <2> QED BY <1>3, <2>4 DEF ReadsAsAsked
<1>7. ASSUME NEW e \in Products, LinkRead(p, e)
      PROVE  ReadsAsAsked'
  <2>1. CASE LinkReadCached(p, e)
    BY <1>4, <2>1 DEF LinkReadCached
  <2>2. CASE LinkReadQuery(p, e)
    <3>1. /\ e \in ReadNames[p] /\ UNCHANGED <<inputs, dataProducts>>
          /\ reads' = [reads EXCEPT ![p][e] = dataProducts[UseName[p][e]]]
      BY <2>2 DEF LinkReadQuery, registryVars
    <3>2. /\ reads'[p][e] = dataProducts[UseName[p][e]]
          /\ \A d \in Products \ {e} : reads'[p][d] = reads[p][d]
      BY <3>1
    <3>3. ReadOK(p)'
      BY <3>1, <3>2 DEF ReadsAsAsked, ReadOK
    <3> QED BY <1>3, <3>3 DEF ReadsAsAsked
  <2> QED BY <1>7, <2>1, <2>2 DEF LinkRead
<1>8. CASE ProgramStep(p)
  BY <1>4, <1>5, <1>6, <1>7, <1>8
     DEF ProgramStep, Start, Fail, Keep, LinkWrite, ProgramWrite, configVars
<1>9. CASE FinaliseStep(p)
  BY <1>4, <1>6, <1>9 DEF FinaliseStep, HashStep, FindLocation, RemoveStep, GetRoot, RenameStep, RenameThrows,
     PostLocationStep, FileType, FindNamespace, PostNamespaceStep, FindProduct, GetObject,
     PostObjectStep, PostProductStep, Patch, PatchRefused, Keep, KeepCall
<1> QED BY <1>8, <1>9

(* A name that link_read resolved keeps its object, and the entry it looks *)
(* up first is of the name that was asked for.                             *)
LEMMA GivenStep ==
    ASSUME LiteralIsHarmless, TypeOK, ReadsAsAsked, GivenAsAsked, NEW p \in Procs,
           FinaliseStep(p) \/ ProgramStep(p)
    PROVE  GivenAsAsked'
<1> USE DEF TypeOK, ConfigTypeOK
<1>1. ASSUME NEW q \in Procs, NEW d \in Products, given'[q][d] # NoObject
      PROVE  given'[q][d] = dataProducts'[UseName[q][d]]
  <2> DEFINE n == UseName[q][d]
  <2>0. n \in Names
    BY PipelineConstants
  <2>1. CASE given'[q][d] = given[q][d]
    <3>1. dataProducts[n] # NoObject /\ given[q][d] = dataProducts[n]
      BY <1>1, <2>1 DEF GivenAsAsked, GivenOK
    <3> QED BY <2>0, <2>1, <3>1, RowsAreKept DEF RowsKept
  <2>2. CASE q # p
    BY <2>1, <2>2, OthersHoldTheirs DEF OthersHold
  <2>3. CASE q = p /\ given'[q][d] # given[q][d]
    <3>1. CASE FinaliseStep(p)
      BY <2>3, <3>1 DEF FinaliseStep, HashStep, FindLocation, RemoveStep, GetRoot, RenameStep, RenameThrows,
         PostLocationStep, FileType, FindNamespace, PostNamespaceStep, FindProduct, GetObject,
         PostObjectStep, PostProductStep, GetComponent, Patch, PatchRefused, Keep
    <3>2. CASE Crash(p)
      BY <1>1, <2>3, <3>2 DEF Crash
    <3>3. ASSUME NEW e \in Products, LinkRead(p, e)
          PROVE  given'[q][d] = dataProducts'[n]
      <4>1. PICK i : /\ given' = [given EXCEPT ![p][e] = i]
                     /\ i = dataProducts[UseName[p][e]]
                     /\ UNCHANGED dataProducts
        <5>1. CASE LinkReadQuery(p, e)
          BY <5>1 DEF LinkReadQuery, registryVars
        <5>2. CASE LinkReadCached(p, e)
          <6>1. /\ given' = [given EXCEPT ![p][e] = inputs[p][LiteralName]]
                /\ LiteralName \in Products /\ inputs[p][LiteralName] # NoObject
                /\ UNCHANGED dataProducts
            BY <5>2 DEF LinkReadCached, registryVars
          <6>2. /\ LiteralName \in ReadNames[p]
                /\ inputs[p][LiteralName] = dataProducts[UseName[p][LiteralName]]
            BY <6>1 DEF ReadsAsAsked, ReadOK
          <6>3. UseName[p][e] = UseName[p][LiteralName]
            BY <6>2 DEF LiteralIsHarmless
          <6> QED BY <6>1, <6>2, <6>3
        <5> QED BY <3>3, <5>1, <5>2 DEF LinkRead
      <4>2. d = e
        BY <2>3, <4>1
      <4> QED BY <2>3, <4>1, <4>2
    <3> QED BY <2>3, <3>1, <3>2, <3>3
         DEF ProgramStep, Start, Finalise, Fail, Keep, LinkWrite, ProgramWrite, configVars
  <2> QED BY <2>1, <2>2, <2>3
<1> QED BY <1>1 DEF GivenAsAsked, GivenOK

(* What a Config records as read is what its keys stand for, always.       *)
THEOREM ReadsAreAsAsked == Spec => []ReadsAsAsked
<1>1. Init => ReadsAsAsked
  BY DEF Init, ReadsAsAsked, ReadOK
<1>2. IInv /\ ReadsAsAsked /\ [Next]_vars => ReadsAsAsked'
  <2>1. CASE UNCHANGED vars
    BY <2>1 DEF vars, registryVars, configVars, ReadsAsAsked, ReadOK
  <2> QED BY <2>1, ReadStep DEF Next, IInv
<1> QED BY <1>1, <1>2, Invariance, PTL DEF Spec

(* Unless "data_product" is read beside keys of other names, link_read     *)
(* gives the file of what it is asked for.                                 *)
THEOREM LinkReadGivesIt ==
    ASSUME LiteralIsHarmless
    PROVE  Spec => []LinkReadGivesWhatWasAsked
<1>1. Init => GivenAsAsked
  BY DEF Init, GivenAsAsked, GivenOK
<1>2. IInv /\ ReadsAsAsked /\ GivenAsAsked /\ [Next]_vars => GivenAsAsked'
  <2>1. CASE UNCHANGED vars
    BY <2>1 DEF vars, registryVars, configVars, GivenAsAsked, GivenOK
  <2> QED BY <2>1, GivenStep DEF Next, IInv
<1>3. GivenAsAsked => LinkReadGivesWhatWasAsked
  BY DEF GivenAsAsked, GivenOK, LinkReadGivesWhatWasAsked
<1> QED BY <1>1, <1>2, <1>3, Invariance, ReadsAreAsAsked, PTL DEF Spec

(* And the path stays the path of what was asked for, with the file there. *)
THEOREM LinkedReadsAreGood ==
    ASSUME LiteralIsHarmless
    PROVE  Spec => []LinkedReadsStayGood
<1>1. IInv /\ RecordsOK /\ LinkReadGivesWhatWasAsked => LinkedReadsStayGood
  <2> SUFFICES ASSUME IInv, RecordsOK, LinkReadGivesWhatWasAsked, NEW p \in Procs, NEW d \in Products,
                      given[p][d] # NoObject
               PROVE  /\ Stored(objects[given[p][d]])
                      /\ given[p][d] = dataProducts[UseName[p][d]]
    BY DEF LinkedReadsStayGood
  <2>1. given[p][d] \in 1 .. Len(objects)
    BY DEF RecordsOK, RefersOK, Known, NoObject, IInv, TypeOK, RegistryTypeOK
  <2>2. Stored(objects[given[p][d]])
    BY <2>1 DEF RecordsOK, ReferencesResolve, IInv, RegisteredFilesStored
  <2> QED BY <2>2 DEF LinkReadGivesWhatWasAsked
<1> QED BY <1>1, Invariance, RecordInvariance, LinkReadGivesIt, PTL

-----------------------------------------------------------------------------
(* Under which name an output is published *)

(* An output is only recorded at the end of its key's turn.                *)
LEMMA OutputsFrame ==
    ASSUME TypeOK, NEW p \in Procs, FinaliseStep(p) \/ ProgramStep(p), NEW d \in Products
    PROVE  \/ outputs'[p][d] \in {NoObject, outputs[p][d]}
           \/ pc[p] = "get_component" /\ d = cur[p] /\ outputs'[p][d] = obj[p]
<1> USE DEF TypeOK, ConfigTypeOK
<1>1. CASE Crash(p)
  BY <1>1 DEF Crash
<1>2. CASE GetComponent(p)
  BY <1>2 DEF GetComponent
<1>3. CASE UNCHANGED outputs
  BY <1>3
<1>4. CASE ProgramStep(p) /\ ~ Crash(p)
  BY <1>3, <1>4 DEF ProgramStep, Start, Finalise, Fail, LinkWrite, LinkRead, LinkReadCached, LinkReadQuery,
     ProgramWrite, configVars
<1>5. CASE FinaliseStep(p) /\ ~ GetComponent(p)
  BY <1>3, <1>5 DEF FinaliseStep, HashStep, FindLocation, RemoveStep, GetRoot, RenameStep, RenameThrows,
     PostLocationStep, FileType, FindNamespace, PostNamespaceStep, FindProduct, GetObject,
     PostObjectStep, PostProductStep, Patch, PatchRefused
<1> QED BY <1>1, <1>2, <1>4, <1>5

(* Only a name without a row gets one: the name of the key of a process    *)
(* that posts its object under it.                                         *)
LEMMA ProductsFrame ==
    ASSUME TypeOK, NEW p \in Procs, FinaliseStep(p) \/ ProgramStep(p), NEW n \in Names
    PROVE  \/ dataProducts'[n] = dataProducts[n]
           \/ /\ pc[p] = "post_product" /\ n = cur[p]
              /\ dataProducts[n] = NoObject /\ dataProducts'[n] = obj[p]
BY RegistryFrame DEF PostProductStep, PostProduct, TypeOK, RegistryTypeOK

(* How finalise comes to the steps that deal with a name.                  *)
NameStep(p) ==
    /\ cur'[p] = cur[p]
    /\ \/ /\ pc'[p] = "get_object" /\ dataProducts' = dataProducts
          /\ dataProducts[cur[p]] # NoObject /\ obj'[p] = dataProducts[cur[p]]
       \/ /\ pc'[p] = "post_object" /\ dataProducts' = dataProducts
          /\ dataProducts[cur[p]] = NoObject
       \/ /\ pc[p] = "get_object" /\ pc'[p] = "get_component"
          /\ dataProducts' = dataProducts /\ obj'[p] = obj[p]
       \/ /\ pc[p] = "post_object" /\ pc'[p] = "post_product"
          /\ dataProducts' = dataProducts
       \/ /\ pc[p] = "post_product" /\ pc'[p] = "get_component" /\ obj'[p] = obj[p]
          /\ dataProducts' = [dataProducts EXCEPT ![cur[p]] = IF @ = NoObject THEN obj[p] ELSE @]

(* There is no other way.                                                  *)
LEMMA NameSteps ==
    ASSUME TypeOK, NEW p \in Procs, FinaliseStep(p) \/ ProgramStep(p),
           pc'[p] \in {"get_object", "post_object", "post_product", "get_component"}
    PROVE  NameStep(p)
<1> USE DEF TypeOK, CallTypeOK
<1>0. ~ Throw(p)
  BY DEF Throw, Goto
<1>1. CASE ProgramStep(p)
  BY <1>0, <1>1 DEF ProgramStep, Start, Crash, Finalise, Iterate, Fail, LoseReply, LinkWrite, LinkRead,
     LinkReadCached, LinkReadQuery, ProgramWrite, Step, Goto
<1>2. CASE FindProduct(p)
  BY <1>2 DEF FindProduct, HasProduct, Goto, KeepCall, registryVars, NameStep
<1>3. CASE GetObject(p)
  BY <1>3 DEF GetObject, Step, Goto, KeepCall, registryVars, NameStep
<1>4. CASE PostObjectStep(p)
  BY <1>0, <1>4 DEF PostObjectStep, PostObject, LoseReply, Goto, NameStep
<1>5. CASE PostProductStep(p)
  BY <1>0, <1>5 DEF PostProductStep, PostProduct, LoseReply, Goto, NameStep
<1>6. CASE HashStep(p) \/ FindLocation(p) \/ RemoveStep(p) \/ GetRoot(p) \/ RenameStep(p)
           \/ RenameThrows(p) \/ PostLocationStep(p) \/ FileType(p)
  BY <1>0, <1>6 DEF HashStep, FindLocation, RemoveStep, GetRoot, RenameStep, RenameThrows, PostLocationStep,
     FileType, LoseReply, Step, Goto
<1>7. CASE FindNamespace(p) \/ PostNamespaceStep(p) \/ GetComponent(p) \/ Patch(p) \/ PatchRefused(p)
  BY <1>0, <1>7 DEF FindNamespace, PostNamespaceStep, GetComponent, Iterate, Patch, PatchRefused, LoseReply, Goto
<1> QED BY <1>1, <1>2, <1>3, <1>4, <1>5, <1>6, <1>7 DEF FinaliseStep

(* Only keys of the write section are linked for writing.                  *)
LEMMA WritesStep ==
    ASSUME TypeOK, NEW p \in Procs, FinaliseStep(p) \/ ProgramStep(p),
           writes[p] \subseteq WriteNames[p]
    PROVE  writes'[p] \subseteq WriteNames[p]
<1> USE DEF TypeOK, ConfigTypeOK
<1>1. CASE ProgramStep(p)
  BY <1>1 DEF ProgramStep, Start, Crash, Finalise, Fail, Keep, LinkWrite, LinkRead, LinkReadCached,
     LinkReadQuery, ProgramWrite, configVars
<1>2. CASE FinaliseStep(p)
  BY <1>2 DEF FinaliseStep, HashStep, FindLocation, RemoveStep, GetRoot, RenameStep, RenameThrows,
     PostLocationStep, FileType, FindNamespace, PostNamespaceStep, FindProduct, GetObject,
     PostObjectStep, PostProductStep, GetComponent, Patch, PatchRefused, Keep
<1> QED BY <1>1, <1>2

(* A key that finalise is through with has a row: one it found or one that *)
(* it, or whoever came before it, made.                                    *)
LEMMA NamedStep ==
    ASSUME TypeOK, \A q \in Procs : LocalOK(q) /\ RefersOK(q), AllNamed,
           NEW p \in Procs, FinaliseStep(p) \/ ProgramStep(p)
    PROVE  AllNamed'
<1>0. /\ Products \subseteq Names
      /\ \A n \in Names : dataProducts[n] # NoObject => dataProducts'[n] # NoObject
      /\ \A q \in Procs : pc[q] \in LoopPCs => cur[q] \in Products
  BY PipelineConstants, RowsAreKept DEF RowsKept, LocalOK, TypeOK, ConfigTypeOK
<1>1. ASSUME NEW q \in Procs, q # p
      PROVE  NamedOK(q)'
  <2>1. /\ pc'[q] = pc[q] /\ cur'[q] = cur[q] /\ writes'[q] = writes[q]
        /\ outputs'[q] = outputs[q]
    BY <1>1, OthersFrame, OthersHoldTheirs DEF OthersKeep, OthersHold
  <2> QED BY <1>0, <2>1 DEF AllNamed, NamedOK, LoopPCs, FinalisePCs
<1>2. NamedOK(p)'
  <2>1. writes'[p] \subseteq WriteNames[p]
    BY WritesStep DEF AllNamed, NamedOK
  <2>2. ASSUME NEW d \in Products, outputs'[p][d] # NoObject
        PROVE  dataProducts'[d] # NoObject
    BY <1>0, <2>2, OutputsFrame DEF AllNamed, NamedOK
  <2>3. ASSUME pc'[p] \in {"get_object", "get_component"}
        PROVE  dataProducts'[cur'[p]] # NoObject
    <3>1. NameStep(p)
      BY <2>3, NameSteps
    <3>2. CASE pc[p] = "post_product"
      <4>1. obj[p] # NoObject /\ cur[p] \in Names
        BY <1>0, <3>2 DEF RefersOK, LoopPCs, FinalisePCs
      <4> QED BY <2>3, <3>1, <3>2, <4>1 DEF NameStep, TypeOK, RegistryTypeOK
    <3> QED BY <2>3, <3>1, <3>2 DEF NameStep, AllNamed, NamedOK
  <2> QED BY <2>1, <2>2, <2>3 DEF NamedOK
<1> QED BY <1>1, <1>2 DEF AllNamed

(* Nobody else posts under a key of this process: what finalise did not    *)
(* find it publishes itself, and what it lists is what is published.       *)
LEMMA OwnNamesStep ==
    ASSUME WritersDisjoint, TypeOK, \A q \in Procs : LocalOK(q) /\ RefersOK(q), AllNamed, AllOwnNames,
           NEW p \in Procs, FinaliseStep(p) \/ ProgramStep(p)
    PROVE  AllOwnNames'
<1>0. /\ Products \subseteq Names
      /\ \A n \in Names : dataProducts[n] # NoObject => dataProducts'[n] = dataProducts[n]
      /\ \A q \in Procs : pc[q] \in LoopPCs => cur[q] \in Products /\ cur[q] \in WriteNames[q]
  BY PipelineConstants, RowsAreKept DEF RowsKept, LocalOK, TypeOK, ConfigTypeOK, AllNamed, NamedOK
<1>1. ASSUME NEW q \in Procs, q # p
      PROVE  OwnNamesOK(q)'
  <2>1. /\ pc'[q] = pc[q] /\ cur'[q] = cur[q] /\ obj'[q] = obj[q]
        /\ outputs'[q] = outputs[q]
    BY <1>1, OthersFrame, OthersHoldTheirs DEF OthersKeep, OthersHold
  <2>2. \A d \in Products : outputs[q][d] # NoObject => outputs[q][d] = dataProducts'[d]
    BY <1>0 DEF AllOwnNames, OwnNamesOK
  <2>3. ASSUME pc[q] \in {"get_object", "get_component"}
        PROVE  obj[q] = dataProducts'[cur[q]]
    <3>1. cur[q] \in Names /\ dataProducts[cur[q]] # NoObject /\ obj[q] = dataProducts[cur[q]]
      BY <1>0, <2>3 DEF AllNamed, NamedOK, AllOwnNames, OwnNamesOK, LoopPCs, FinalisePCs
    <3> QED BY <1>0, <3>1
  <2>4. ASSUME pc[q] \in {"post_object", "post_product"}
        PROVE  dataProducts'[cur[q]] = NoObject
    <3>1. cur[q] \in Names /\ cur[q] \in WriteNames[q] /\ dataProducts[cur[q]] = NoObject
      BY <1>0, <2>4 DEF AllOwnNames, OwnNamesOK, LoopPCs, FinalisePCs
    <3>2. pc[p] = "post_product" => cur[p] \in WriteNames[p]
      BY <1>0 DEF LoopPCs, FinalisePCs
    <3>3. pc[p] = "post_product" => cur[p] # cur[q]
      BY <1>1, <3>1, <3>2 DEF WritersDisjoint
    <3> QED BY <3>1, <3>3, ProductsFrame
  <2> QED BY <2>1, <2>2, <2>3, <2>4 DEF OwnNamesOK
<1>2. OwnNamesOK(p)'
  <2>1. ASSUME NEW d \in Products, outputs'[p][d] # NoObject
        PROVE  outputs'[p][d] = dataProducts'[d]
    <3>1. outputs'[p][d] = dataProducts[d]
      BY <2>1, OutputsFrame DEF AllOwnNames, OwnNamesOK
    <3> QED BY <1>0, <2>1, <3>1
  <2>2. ASSUME pc'[p] \in {"get_object", "post_object", "post_product", "get_component"}
        PROVE  /\ pc'[p] \in {"get_object", "get_component"} => obj'[p] = dataProducts'[cur'[p]]
               /\ pc'[p] \in {"post_object", "post_product"} => dataProducts'[cur'[p]] = NoObject
    <3>1. NameStep(p)
      BY <2>2, NameSteps
    <3>2. CASE pc[p] = "post_product"
      <4>1. dataProducts[cur[p]] = NoObject /\ cur[p] \in Names
        BY <1>0, <3>2 DEF AllOwnNames, OwnNamesOK, LoopPCs, FinalisePCs
      <4> QED BY <2>2, <3>1, <3>2, <4>1 DEF NameStep, TypeOK, RegistryTypeOK
    <3> QED BY <2>2, <3>1, <3>2 DEF NameStep, AllOwnNames, OwnNamesOK
  <2> QED BY <2>1, <2>2 DEF OwnNamesOK
<1> QED BY <1>1, <1>2 DEF AllOwnNames

(* Names have rows when finalise is through with them, always.             *)
THEOREM OutputsAreNamed == Spec => []AllNamed
<1>1. Init => AllNamed
  BY PipelineConstants DEF Init, AllNamed, NamedOK
<1>2. IInv /\ RecordsOK /\ AllNamed /\ [Next]_vars => AllNamed'
  <2>1. CASE UNCHANGED vars
    BY <2>1 DEF vars, registryVars, configVars, callVars, AllNamed, NamedOK
  <2> QED BY <2>1, NamedStep DEF Next, IInv, RecordsOK
<1> QED BY <1>1, <1>2, Invariance, RecordInvariance, PTL DEF Spec

(* A finalise that returned published every output under the name to be    *)
(* used for it, if that is the key: with another one it does not.          *)
THEOREM OwnNamesArePublished ==
    ASSUME WritesUseOwnName
    PROVE  Spec => []PublishedUnderUseName
<1>1. RecordsOK /\ AllNamed /\ TypeOK => PublishedUnderUseName
  <2> SUFFICES ASSUME RecordsOK, AllNamed, TypeOK, NEW p \in Procs, result[p] = "ok", NEW d \in writes[p]
               PROVE  dataProducts[UseName[p][d]] # NoObject
    BY DEF PublishedUnderUseName
  <2>1. outputs[p][d] # NoObject
    BY DEF RecordsOK, SuccessIsComplete
  <2>2. d \in WriteNames[p] /\ d \in Products
    BY DEF AllNamed, NamedOK, TypeOK, ConfigTypeOK
  <2> QED BY <2>1, <2>2 DEF AllNamed, NamedOK, WritesUseOwnName
<1> QED BY <1>1, RecordInvariance, OutputsAreNamed, TypeCorrect, PTL

(* And what the code run lists is what is published, if no two processes   *)
(* write under one key: with a race for a key, one of them lists an object *)
(* that nobody finds under its name.                                       *)
THEOREM DisjointOutputsArePublished ==
    ASSUME WritersDisjoint
    PROVE  Spec => []OutputsArePublished
<1>1. Init => AllOwnNames
  BY DEF Init, AllOwnNames, OwnNamesOK
<1>2. IInv /\ RecordsOK /\ AllNamed /\ AllOwnNames /\ [Next]_vars => AllOwnNames'
  <2>1. CASE UNCHANGED vars
    BY <2>1 DEF vars, registryVars, configVars, callVars, AllOwnNames, OwnNamesOK
  <2> QED BY <2>1, OwnNamesStep DEF Next, IInv, RecordsOK
<1>3. RecordsOK /\ TypeOK /\ AllOwnNames => OutputsArePublished
  <2> SUFFICES ASSUME RecordsOK, TypeOK, AllOwnNames, NEW p \in Procs, result[p] = "ok", NEW d \in writes[p]
               PROVE  outputs[p][d] = dataProducts[d]
    BY DEF OutputsArePublished
  <2>1. outputs[p][d] # NoObject
    BY DEF RecordsOK, SuccessIsComplete
  <2>2. d \in Products
    BY DEF TypeOK, ConfigTypeOK
  <2> QED BY <2>1, <2>2 DEF AllOwnNames, OwnNamesOK
<1> QED BY <1>1, <1>2, <1>3, Invariance, RecordInvariance, OutputsAreNamed, TypeCorrect, PTL DEF Spec

-----------------------------------------------------------------------------
(* What is listed under a key *)

(* An object that may be listed for a key: the one its name is published   *)
(* with, or one with the content that was hashed for it.                   *)
Fits(p, d, i) == i = dataProducts[d] \/ objects[i].hash = hash[p][d]

Listed(p, d) == Fits(p, d, outputs[p][d])

(* The loop has listed what fits for the keys it is through with, and      *)
(* holds what fits the key it is at.                                       *)
ListingOK(p) ==
    /\ pc[p] \in LoopPCs => \A d \in writes[p] : d < cur[p] => Listed(p, d)
    /\ pc[p] = "patch" => \A d \in writes[p] : Listed(p, d)
    /\ pc[p] \in {"get_object", "get_component"} => Fits(p, cur[p], obj[p])
    /\ result[p] = "ok" => \A d \in writes[p] : Listed(p, d)

AllListed == \A p \in Procs : ListingOK(p)

(* What fits a key goes on fitting it.                                     *)
LEMMA FitsStays ==
    ASSUME TypeOK, RowsKept, NEW q \in Procs, NEW d \in Products, NEW i \in Known \ {NoObject},
           Fits(q, d, i), hash'[q][d] = hash[q][d]
    PROVE  i = dataProducts'[d] \/ objects'[i].hash = hash'[q][d]
<1>1. d \in Names /\ i \in 1 .. Len(objects)
  BY PipelineConstants DEF Known, NoObject, TypeOK, RegistryTypeOK
<1> QED BY <1>1 DEF Fits, RowsKept

(* What is listed for a key that finalise is through with stays so.        *)
LEMMA ListedStays ==
    ASSUME TypeOK, RowsKept, NEW q \in Procs, RefersOK(q), NEW d \in Products,
           Done(q, d), Listed(q, d), hash'[q][d] = hash[q][d], outputs'[q][d] = outputs[q][d]
    PROVE  Listed(q, d)'
<1>1. outputs[q][d] \in Known \ {NoObject}
  BY DEF RefersOK, Done
<1> QED BY <1>1, FitsStays DEF Listed, Fits

(* Others post objects and publish names: what a process has listed fits   *)
(* all the same.                                                           *)
LEMMA OthersListing ==
    ASSUME TypeOK, SuccessIsComplete, NEW p \in Procs, FinaliseStep(p) \/ ProgramStep(p),
           NEW q \in Procs, q # p, LocalOK(q), RefersOK(q), ProgressOK(q), ListingOK(q)
    PROVE  ListingOK(q)'
<1>1. /\ pc'[q] = pc[q] /\ cur'[q] = cur[q] /\ hash'[q] = hash[q] /\ writes'[q] = writes[q]
      /\ obj'[q] = obj[q] /\ outputs'[q] = outputs[q] /\ result'[q] = result[q]
  BY OthersFrame, OthersHoldTheirs DEF OthersKeep, OthersHold
<1>2. RowsKept /\ writes[q] \subseteq Products
  BY RowsAreKept DEF TypeOK, ConfigTypeOK
<1>3. \A d \in Products : Done(q, d) /\ Listed(q, d) => Listed(q, d)'
  BY <1>1, <1>2, ListedStays
<1>4. result[q] = "ok" => \A d \in writes[q] : Done(q, d)
  BY DEF SuccessIsComplete, Done
<1>5. ASSUME pc[q] \in {"get_object", "get_component"}
      PROVE  Fits(q, cur[q], obj[q])'
  <2>1. cur[q] \in Products /\ obj[q] \in Known \ {NoObject} /\ Fits(q, cur[q], obj[q])
    BY <1>2, <1>5 DEF LocalOK, RefersOK, ListingOK, LoopPCs, FinalisePCs
  <2> QED BY <1>1, <1>2, <2>1, FitsStays DEF Fits
<1> QED BY <1>1, <1>2, <1>3, <1>4, <1>5 DEF ListingOK, ProgressOK

(* A process takes the object of the row it found, or the one it made for  *)
(* what it hashed, and lists that.                                         *)
LEMMA OwnListing ==
    ASSUME TypeOK, NEW p \in Procs, LocalOK(p), RefersOK(p), ProgressOK(p), ListingOK(p),
           FinaliseStep(p) \/ ProgramStep(p)
    PROVE  ListingOK(p)'
<1>fits. ASSUME NEW d \in Products, NEW i \in Known \ {NoObject}, Fits(p, d, i),
                hash'[p][d] = hash[p][d]
         PROVE  i = dataProducts'[d] \/ objects'[i].hash = hash'[p][d]
  BY <1>fits, RowsAreKept, FitsStays
<1> USE DEF TypeOK, CallTypeOK, ConfigTypeOK
<1>0. RowsKept /\ writes[p] \in SUBSET Products /\ Products \subseteq Nat
  BY RowsAreKept, PipelineConstants
<1>1. result'[p] = "ok" => \A d \in writes'[p] : Listed(p, d)'
  <2> SUFFICES ASSUME result'[p] = "ok"
               PROVE  \A d \in writes'[p] : Listed(p, d)'
    OBVIOUS
  <2>1. /\ pc[p] = "patch" /\ UNCHANGED <<writes, outputs, hash, objects, dataProducts>>
    BY OnlyPatchSucceeds DEF Patch, PatchCodeRun
  <2> QED BY <2>1 DEF ListingOK, Listed, Fits
<1>2. pc'[p] \in {"get_object", "get_component"} => Fits(p, cur[p], obj[p])' /\ cur'[p] = cur[p]
  <2> SUFFICES ASSUME pc'[p] \in {"get_object", "get_component"}
               PROVE  Fits(p, cur[p], obj[p])' /\ cur'[p] = cur[p]
    OBVIOUS
  <2>1. NameStep(p)
    BY NameSteps
  <2>2. MovesOn(p)
    <3>1. ~ Throw(p)
      BY DEF Throw, Goto
    <3> QED BY <3>1, LoopSteps DEF Finalise, GetComponent, HashStep, Iterate, Goto
  <2>3. CASE pc'[p] = "get_object"
    BY <2>1, <2>3 DEF NameStep, Fits
  <2>4. CASE pc[p] \in {"get_object", "post_product"} /\ obj'[p] = obj[p]
    <3>1. PICK d \in Products, i \in Known \ {NoObject} :
             d = cur[p] /\ i = obj[p] /\ Fits(p, d, i)
      BY <1>0, <2>4 DEF LocalOK, RefersOK, ListingOK, Fits, LoopPCs, FinalisePCs
    <3>2. hash'[p][d] = hash[p][d] /\ cur'[p] = d
      BY <2>2, <3>1 DEF MovesOn
    <3>3. i = dataProducts'[d] \/ objects'[i].hash = hash'[p][d]
      BY <1>fits, <3>1, <3>2
    <3> QED BY <2>4, <3>1, <3>2, <3>3 DEF Fits
  <2> QED BY <2>1, <2>3, <2>4 DEF NameStep
<1>3. /\ pc'[p] \in LoopPCs => \A d \in writes'[p] : d < cur'[p] => Listed(p, d)'
      /\ pc'[p] = "patch" => \A d \in writes'[p] : Listed(p, d)'
  <2> USE DEF LoopPCs, FinalisePCs
  <2>1. CASE pc'[p] \in {"down", "ready"}
    BY <2>1
  <2>2. CASE Finalise(p)
    <3>1. Iterate(p, writes[p]) /\ writes'[p] = writes[p]
      BY <2>2 DEF Finalise
    <3>2. /\ pc'[p] = "hash" => \A d \in writes[p] : d < cur'[p] => d \notin writes[p]
          /\ pc'[p] = "patch" => writes[p] = {}
          /\ pc'[p] \in {"hash", "patch"}
      BY <1>0, <3>1, IterateProgress
    <3> QED BY <3>1, <3>2
  <2>3. CASE HashStep(p) /\ ~ Throw(p)
    <3>1. /\ pc[p] = "hash" /\ pc'[p] = "find_location"
          /\ UNCHANGED <<writes, outputs, cur>>
          /\ hash' = [hash EXCEPT ![p][cur[p]] = temp[p][cur[p]]]
      BY <2>3 DEF HashStep, Goto, Keep
    <3>2. ASSUME NEW d \in writes[p], d < cur[p]
          PROVE  Listed(p, d)'
      <4>1. Done(p, d) /\ Listed(p, d)
        BY <3>1, <3>2 DEF ProgressOK, ListingOK
      <4>2. d # cur[p]
        BY <1>0, <3>2
      <4>3. hash'[p][d] = hash[p][d]
        BY <3>1, <4>2
      <4> QED BY <1>0, <3>1, <4>1, <4>3, ListedStays
    <3> QED BY <3>1, <3>2
  <2>4. CASE GetComponent(p)
    <3>1. PICK d \in Products : d = cur[p] /\ d \in writes[p]
      BY <1>0, <2>4 DEF GetComponent, LocalOK
    <3>2. PICK rest \in SUBSET Products : rest = {e \in writes[p] : e > d}
      BY <1>0
    <3>3. /\ pc[p] = "get_component" /\ Iterate(p, rest)
          /\ outputs' = [outputs EXCEPT ![p][d] = obj[p]]
          /\ UNCHANGED <<writes, hash, objects, dataProducts>>
      BY <2>4, <3>1, <3>2 DEF GetComponent, Keep, registryVars
    <3>4. Listed(p, d)'
      BY <3>1, <3>3 DEF ListingOK, Listed, Fits
    <3>5. ASSUME NEW e \in writes[p], e \notin rest
          PROVE  Listed(p, e)'
      <4>1. CASE e = d
        BY <3>4, <4>1
      <4>2. CASE e # d
        <5>1. e < d
          <6>1. e \in Nat /\ d \in Nat /\ ~ (e > d)
            BY <1>0, <3>2, <3>5
          <6> QED BY <4>2, <6>1
        <5>2. Listed(p, e)
          BY <3>1, <3>3, <5>1 DEF ListingOK
        <5>3. outputs'[p][e] = outputs[p][e]
          BY <1>0, <3>3, <4>2
        <5> QED BY <3>3, <5>2, <5>3 DEF Listed, Fits
      <4> QED BY <4>1, <4>2
    <3>6. /\ pc'[p] = "hash" => \A e \in writes[p] : e < cur'[p] => e \notin rest
          /\ pc'[p] = "patch" => rest = {}
          /\ pc'[p] \in {"hash", "patch"}
      <4>1. rest \subseteq writes[p]
        BY <3>2
      <4> QED BY <1>0, <3>3, <4>1, IterateProgress
    <3>7. writes'[p] = writes[p]
      BY <3>3
    <3>8. CASE pc'[p] = "hash"
      BY <3>5, <3>6, <3>7, <3>8
    <3>9. CASE pc'[p] = "patch"
      BY <3>5, <3>6, <3>7, <3>9
    <3> QED BY <3>6, <3>8, <3>9
  <2>5. CASE MovesOn(p)
    <3>1. ASSUME NEW d \in writes[p], d < cur[p]
          PROVE  Listed(p, d)'
      <4>1. Done(p, d) /\ Listed(p, d)
        BY <2>5, <3>1 DEF MovesOn, ProgressOK, ListingOK
      <4> QED BY <1>0, <2>5, <4>1, ListedStays DEF MovesOn
    <3> QED BY <2>5, <3>1 DEF MovesOn
  <2> QED BY <2>1, <2>2, <2>3, <2>4, <2>5, LoopSteps
<1>4. (pc[p] \in {"get_object", "get_component"} => Fits(p, cur[p], obj[p]))'
  BY <1>2
<1> QED BY <1>1, <1>3, <1>4 DEF ListingOK

(* What a finalise that returned lists for a key is the object that is     *)
(* published under its name, or one with the content it hashed for it, who *)
(* ever posted what between its requests.                                  *)
THEOREM ListedAsWritten == Spec => []ListsWhatWasWritten
<1>1. Init => AllListed
  BY DEF Init, AllListed, ListingOK, LoopPCs, FinalisePCs
<1>2. IInv /\ RecordsOK /\ AllListed /\ [Next]_vars => AllListed'
  <2>1. CASE UNCHANGED vars
    BY <2>1 DEF vars, registryVars, configVars, callVars, AllListed, ListingOK, Listed, Fits
  <2>2. ASSUME IInv, RecordsOK, AllListed, NEW p \in Procs, FinaliseStep(p) \/ ProgramStep(p)
        PROVE  AllListed'
    BY <2>2, OwnListing, OthersListing DEF IInv, RecordsOK, AllListed
  <2> QED BY <2>1, <2>2 DEF Next
<1>3. AllListed => ListsWhatWasWritten
  BY DEF AllListed, ListingOK, Listed, Fits, ListsWhatWasWritten
<1> QED BY <1>1, <1>2, <1>3, Invariance, RecordInvariance, PTL DEF Spec

-----------------------------------------------------------------------------
(* What retries cost *)

(* A process and a name that have had their object: it is about to be      *)
(* published, or the name is, and the process will find it.                *)
Spent ==
    {x \in Procs \X Products :
        \/ pc[x[1]] = "post_product" /\ cur[x[1]] = x[2]
        \/ dataProducts[x[2]] # NoObject /\ ~ (pc[x[1]] = "post_object" /\ cur[x[1]] = x[2])}

(* Every object was the one of a process and a name, or was given up by a  *)
(* fault.                                                                  *)
ObjectsPaidFor == Len(objects) <= Cardinality(Spent) + faults

(* A step uses no fault or one.                                            *)
LEMMA FaultsFrame ==
    ASSUME TypeOK, NEW p \in Procs, FinaliseStep(p) \/ ProgramStep(p)
    PROVE  faults' = faults \/ UseFault
<1>1. CASE ProgramStep(p)
  BY <1>1 DEF ProgramStep, Start, Crash, Finalise, Fail, LoseReply, LinkWrite,
     LinkRead, LinkReadCached, LinkReadQuery, ProgramWrite, bounds
<1>2. CASE FinaliseStep(p)
  BY <1>2 DEF FinaliseStep, HashStep, FindLocation, RemoveStep, GetRoot, RenameStep, RenameThrows,
     PostLocationStep, FileType, FindNamespace, PostNamespaceStep, FindProduct, GetObject,
     PostObjectStep, PostProductStep, GetComponent, Patch, PatchRefused, LoseReply
<1> QED BY <1>1, <1>2

(* A process that is to publish its object does so, or fails.              *)
LEMMA AfterPostObject ==
    ASSUME TypeOK, NEW p \in Procs, FinaliseStep(p) \/ ProgramStep(p), pc[p] = "post_product"
    PROVE  \/ PostProductStep(p)
           \/ UseFault /\ pc'[p] \in {"ready", "down"}
<1> USE DEF TypeOK, CallTypeOK
<1>1. CASE ProgramStep(p)
  BY <1>1 DEF ProgramStep, Start, Crash, Finalise, Fail, LoseReply, Throw, LinkWrite,
     LinkRead, LinkReadCached, LinkReadQuery, ProgramWrite, Step, Goto
<1>2. CASE FinaliseStep(p)
  BY <1>2 DEF FinaliseStep, HashStep, FindLocation, RemoveStep, GetRoot, RenameStep, RenameThrows,
     PostLocationStep, FileType, FindNamespace, PostNamespaceStep, FindProduct, GetObject,
     PostObjectStep, GetComponent, Patch, PatchRefused, Step
<1> QED BY <1>1, <1>2

(* Only a fault gives up an object: no other step takes a pair out.        *)
LEMMA SpentStays ==
    ASSUME TypeOK, \A q \in Procs : RefersOK(q), NEW p \in Procs, FinaliseStep(p) \/ ProgramStep(p),
           NEW x \in Spent, x \notin Spent'
    PROVE  UseFault /\ x = <<p, cur[p]>> /\ pc[p] = "post_product"
<1>1. PICK q \in Procs, d \in Products : x = <<q, d>>
  BY DEF Spent
<1>2. d \in Names
  BY PipelineConstants
<1>3. /\ q # p => pc'[q] = pc[q] /\ cur'[q] = cur[q]
      /\ dataProducts[d] # NoObject => dataProducts'[d] # NoObject
  BY <1>2, OthersFrame, RowsAreKept DEF OthersKeep, RowsKept
<1>4. /\ \/ pc[q] = "post_product" /\ cur[q] = d
         \/ dataProducts[d] # NoObject /\ ~ (pc[q] = "post_object" /\ cur[q] = d)
      /\ ~ (pc'[q] = "post_product" /\ cur'[q] = d)
      /\ \/ dataProducts'[d] = NoObject
         \/ pc'[q] = "post_object" /\ cur'[q] = d
  BY <1>1 DEF Spent
<1>5. q = p
  BY <1>3, <1>4
<1>6. CASE pc'[p] = "post_object"
  <2>1. /\ cur'[p] = cur[p] /\ dataProducts[cur[p]] = NoObject /\ pc[p] # "post_product"
    BY <1>6, NameSteps, AfterPostObject
       DEF NameStep, PostProductStep, LoseReply, Throw, Goto, TypeOK, CallTypeOK
  <2>2. cur[p] # d
    BY <1>4, <1>5, <2>1
  <2> QED BY <1>3, <1>4, <1>5, <2>1, <2>2
<1>7. CASE pc'[p] # "post_object"
  <2>1. pc[p] = "post_product" /\ cur[p] = d /\ dataProducts'[d] = NoObject
    BY <1>3, <1>4, <1>5, <1>7
  <2>2. ~ PostProductStep(p)
    <3>1. obj[p] # NoObject
      BY <2>1 DEF RefersOK
    <3> QED BY <1>2, <2>1, <3>1 DEF PostProductStep, PostProduct, TypeOK, RegistryTypeOK
  <2> QED BY <1>1, <1>5, <2>1, <2>2, AfterPostObject
<1> QED BY <1>6, <1>7

(* Every object that is posted is the first of its process and name, or    *)
(* its answer is lost.                                                     *)
LEMMA PaidForStep ==
    ASSUME IsFiniteSet(Procs), IsFiniteSet(Products),
           TypeOK, TypeOK', \A q \in Procs : LocalOK(q) /\ RefersOK(q), ObjectsPaidFor,
           NEW p \in Procs, FinaliseStep(p) \/ ProgramStep(p)
    PROVE  ObjectsPaidFor'
<1>1. /\ IsFiniteSet(Spent) /\ IsFiniteSet(Spent')
      /\ Cardinality(Spent) \in Nat /\ Cardinality(Spent') \in Nat
  <2>1. IsFiniteSet(Procs \X Products)
    BY FS_Product
  <2>2. Spent \in SUBSET (Procs \X Products) /\ Spent' \in SUBSET (Procs \X Products)
    BY DEF Spent
  <2> QED BY <2>1, <2>2, FS_Subset, FS_CardinalityType
<1>2. /\ faults \in Nat /\ Len(objects) \in Nat /\ Len(objects') \in Nat
      /\ faults' = faults \/ faults' = faults + 1
  BY FaultsFrame DEF UseFault, TypeOK, RegistryTypeOK
<1>3. CASE ~ (Spent \subseteq Spent')
  <2>1. PICK x \in Spent : x \notin Spent'
    BY <1>3
  <2>2. UseFault /\ pc[p] = "post_product" /\ Spent \ {<<p, cur[p]>>} \subseteq Spent'
    BY <2>1, SpentStays
  <2>3. UNCHANGED objects
    BY <2>2, RegistryFrame DEF PostObjectStep
  <2>4. Cardinality(Spent) - 1 <= Cardinality(Spent')
    <3>1. /\ IsFiniteSet(Spent \ {<<p, cur[p]>>})
          /\ \/ Cardinality(Spent \ {<<p, cur[p]>>}) = Cardinality(Spent) - 1
             \/ Cardinality(Spent \ {<<p, cur[p]>>}) = Cardinality(Spent)
      BY <1>1, FS_RemoveElement
    <3>2. Cardinality(Spent \ {<<p, cur[p]>>}) <= Cardinality(Spent')
      BY <1>1, <2>2, FS_Subset
    <3> QED BY <1>1, <3>1, <3>2
  <2> QED BY <1>1, <1>2, <2>2, <2>3, <2>4 DEF ObjectsPaidFor, UseFault
<1>4. CASE Spent \subseteq Spent'
  <2>1. Cardinality(Spent) <= Cardinality(Spent')
    BY <1>1, <1>4, FS_Subset
  <2>2. CASE UNCHANGED objects
    BY <1>1, <1>2, <2>1, <2>2 DEF ObjectsPaidFor
  <2>3. CASE PostObjectStep(p)
    <3>1. Len(objects') = Len(objects) + 1
      BY <2>3 DEF PostObjectStep, PostObject, LocalOK, LocatedPCs, TypeOK, RegistryTypeOK
    <3>2. CASE LoseReply(p)
      BY <1>1, <1>2, <2>1, <3>1, <3>2 DEF LoseReply, UseFault, ObjectsPaidFor
    <3>3. CASE ~ LoseReply(p)
      <4>1. /\ pc[p] = "post_object" /\ pc'[p] = "post_product" /\ cur' = cur /\ faults' = faults
        BY <2>3, <3>3 DEF PostObjectStep, Goto, TypeOK, CallTypeOK
      <4>2. cur[p] \in Products
        BY <4>1 DEF LocalOK, LoopPCs, FinalisePCs, TypeOK, ConfigTypeOK
      <4>3. <<p, cur[p]>> \in Spent' \ Spent
        BY <4>1, <4>2 DEF Spent
      <4>4. Cardinality(Spent \cup {<<p, cur[p]>>}) = Cardinality(Spent) + 1
        BY <1>1, <4>3, FS_AddElement
      <4>5. Cardinality(Spent \cup {<<p, cur[p]>>}) <= Cardinality(Spent')
        BY <1>1, <1>4, <4>3, FS_Subset
      <4> QED BY <1>1, <1>2, <3>1, <4>1, <4>4, <4>5 DEF ObjectsPaidFor
    <3> QED BY <3>2, <3>3
  <2> QED BY <2>2, <2>3, RegistryFrame
<1> QED BY <1>3, <1>4

(* Calls that are repeated post one object for each process and name, and  *)
(* one more for each fault, however often a program writes and calls       *)
(* finalise again.                                                         *)
THEOREM RetriesAreCheap ==
    ASSUME IsFiniteSet(Procs), IsFiniteSet(Products)
    PROVE  Spec => []RetriesCostOneObject
<1>0. /\ IsFiniteSet(Procs \X Products)
      /\ Cardinality(Procs \X Products) = Cardinality(Procs) * Cardinality(Products)
  BY FS_Product
<1>1. Init => ObjectsPaidFor
  <2> SUFFICES ASSUME Init PROVE ObjectsPaidFor
    OBVIOUS
  <2>1. Len(objects) = 0 /\ faults = 0
    BY DEF Init, RegistryInit
  <2>2. Spent \in SUBSET (Procs \X Products)
    BY DEF Spent
  <2>3. Cardinality(Spent) \in Nat
    BY <1>0, <2>2, FS_Subset, FS_CardinalityType
  <2> QED BY <2>1, <2>3 DEF ObjectsPaidFor
<1>2. IInv /\ IInv' /\ RecordsOK /\ ObjectsPaidFor /\ [Next]_vars => ObjectsPaidFor'
  <2>1. CASE UNCHANGED vars
    BY <2>1 DEF vars, registryVars, callVars, bounds, ObjectsPaidFor, Spent
  <2>2. ASSUME IInv, IInv', RecordsOK, ObjectsPaidFor, NEW p \in Procs, FinaliseStep(p) \/ ProgramStep(p)
        PROVE  ObjectsPaidFor'
    BY <2>2, PaidForStep DEF IInv, RecordsOK
  <2> QED BY <2>1, <2>2 DEF Next
<1>3. TypeOK /\ ObjectsPaidFor => RetriesCostOneObject
  <2> SUFFICES ASSUME TypeOK, ObjectsPaidFor PROVE RetriesCostOneObject
    OBVIOUS
  <2>1. Spent \in SUBSET (Procs \X Products)
    BY DEF Spent
  <2>2. /\ Cardinality(Spent) <= Cardinality(Procs \X Products)
        /\ Cardinality(Spent) \in Nat /\ Cardinality(Procs \X Products) \in Nat
    BY <1>0, <2>1, FS_Subset, FS_CardinalityType
  <2>3. Len(objects) \in Nat /\ faults \in Nat
    BY DEF TypeOK, RegistryTypeOK
  <2>4. Len(objects) <= Cardinality(Procs \X Products) + faults
    BY <2>2, <2>3 DEF ObjectsPaidFor
  <2> QED BY <1>0, <2>4 DEF RetriesCostOneObject
<1> QED BY <1>1, <1>2, <1>3, Invariance, RecordInvariance, TypeCorrect, PTL DEF Spec

-----------------------------------------------------------------------------
(* Catalogue: the steps of Pipeline are its Keep (a rename) and Publish (a  *)
(* POST of a new name), or stutter.                                        *)

(* An empty store keeps nothing, an empty registry publishes nothing.      *)
LEMMA InitImplements == Init => Abstract!Init
<1> SUFFICES ASSUME Init PROVE Abstract!Init
  OBVIOUS
<1>1. \A c \in Contents, n \in Names : store[n][c] # c
  BY StoreConstants DEF Init, StoreInit
<1>2. KeptContents = {}
  BY <1>1 DEF KeptContents
<1>3. PublishedContent = [n \in Names |-> NoFile]
  BY DEF Init, RegistryInit, PublishedContent, HasProduct
<1> QED BY <1>2, <1>3 DEF Abstract!Init

(* A rename keeps a content.                                               *)
LEMMA RenameKeeps ==
    ASSUME IInv, NEW p \in Procs, RenameStep(p)
    PROVE  \E c \in Contents : Abstract!Keep(c)
<1> USE DEF IInv
<1>1. PICK n \in Names, c \in Contents : n = cur[p] /\ c = hash[p][n] /\ temp[p][n] = c
  BY PipelineConstants
     DEF RenameStep, Step, LocalOK, LoopPCs, FinalisePCs, HashedPCs, TypeOK, ConfigTypeOK
<1>2. store' = [store EXCEPT ![n][c] = c] /\ UNCHANGED <<dataProducts, objects>>
  BY <1>1 DEF RenameStep, RenameTemp, registryVars
<1>3. KeptContents' = KeptContents \cup {c}
  <2>1. \A m \in Names, d \in Contents :
           store'[m][d] = IF m = n /\ d = c THEN c ELSE store[m][d]
    BY <1>2 DEF TypeOK, StoreTypeOK
  <2> QED BY <2>1 DEF KeptContents
<1>4. PublishedContent' = PublishedContent
  BY <1>2 DEF PublishedContent, HasProduct
<1> QED BY <1>3, <1>4 DEF Abstract!Keep

(* Only the POST of a data product changes what a name means, and only of  *)
(* a name that meant nothing.                                              *)
LEMMA NamesKeepTheirMeaning ==
    ASSUME IInv, RecordsOK, NEW p \in Procs, FinaliseStep(p) \/ ProgramStep(p),
           NEW n \in Names, dataProducts'[n] = dataProducts[n]
    PROVE  PublishedContent'[n] = PublishedContent[n]
<1>1. RowsKept
  BY RowsAreKept DEF IInv
<1>2. CASE dataProducts[n] # NoObject
  <2>1. dataProducts[n] \in 1 .. Len(objects)
    BY <1>2 DEF RecordsOK, ReferencesResolve, IInv, TypeOK, RegistryTypeOK, NoObject
  <2>2. objects'[dataProducts[n]] = objects[dataProducts[n]]
    BY <1>1, <2>1 DEF RowsKept
  <2> QED BY <2>2 DEF PublishedContent, HasProduct
<1> QED BY <1>2 DEF PublishedContent, HasProduct

(* A POST of a new name publishes a content that is kept; one of a name    *)
(* that is there changes nothing.                                          *)
LEMMA PostPublishes ==
    ASSUME IInv, IInv', RecordsOK, NEW p \in Procs, PostProductStep(p)
    PROVE  \/ \E c \in Contents, n \in Names : Abstract!Publish(n, c)
           \/ UNCHANGED <<KeptContents, PublishedContent>>
<1> USE DEF IInv
<1>0. FinaliseStep(p)
  BY DEF FinaliseStep
<1>1. PICK n \in Names : n = cur[p]
  BY PipelineConstants DEF PostProductStep, LocalOK, LoopPCs, FinalisePCs, TypeOK, ConfigTypeOK
<1>2. /\ pc[p] = "post_product"
      /\ dataProducts' = [dataProducts EXCEPT ![n] = IF @ = NoObject THEN obj[p] ELSE @]
      /\ UNCHANGED <<objects, store>>
  BY <1>1 DEF PostProductStep, PostProduct, fileVars
<1>3. KeptContents' = KeptContents
  BY <1>2 DEF KeptContents
<1>4. CASE dataProducts[n] # NoObject
  <2>1. dataProducts' = dataProducts
    BY <1>2, <1>4 DEF TypeOK, RegistryTypeOK
  <2> QED BY <1>2, <1>3, <2>1 DEF PublishedContent, HasProduct
<1>5. CASE dataProducts[n] = NoObject
  <2>1. obj[p] \in 1 .. Len(objects)
    BY <1>2 DEF RecordsOK, RefersOK, Known, NoObject, TypeOK, RegistryTypeOK
  <2>2. PICK l \in locations : l = objects[obj[p]]
    BY <2>1 DEF RecordsOK, ReferencesResolve
  <2>3. l.hash \in Contents /\ l.name \in Names /\ store[l.name][l.hash] = l.hash
    BY DEF RegisteredFilesStored, Stored, TypeOK, RegistryTypeOK, Location
  <2>4. PICK c \in Contents : c = l.hash
    BY <2>3
  <2>5. c \in KeptContents
    BY <2>3, <2>4 DEF KeptContents
  <2>6. PublishedContent[n] = NoFile
    BY <1>5 DEF PublishedContent, HasProduct
  <2>7. PublishedContent' = [PublishedContent EXCEPT ![n] = c]
    <3>1. dataProducts'[n] = obj[p] /\ obj[p] # NoObject
      BY <1>2, <1>5, <2>1 DEF TypeOK, RegistryTypeOK, NoObject
    <3>2. PublishedContent'[n] = c
      BY <1>2, <2>2, <2>4, <3>1 DEF PublishedContent, HasProduct
    <3>3. \A m \in Names \ {n} : PublishedContent'[m] = PublishedContent[m]
      BY <1>0, <1>2, NamesKeepTheirMeaning DEF TypeOK, RegistryTypeOK
    <3>4. /\ PublishedContent' = [m \in Names |-> PublishedContent'[m]]
          /\ PublishedContent = [m \in Names |-> PublishedContent[m]]
      BY DEF PublishedContent
    <3> QED BY <3>2, <3>3, <3>4
  <2> QED BY <1>3, <2>5, <2>6, <2>7 DEF Abstract!Publish
<1> QED BY <1>4, <1>5

(* Every step is one of the catalogue, or leaves it as it is.              *)
LEMMA StepImplements ==
    ASSUME IInv, IInv', RecordsOK, [Next]_vars
    PROVE  [Abstract!Next]_<<KeptContents, PublishedContent>>
<1>1. CASE UNCHANGED vars
  BY <1>1 DEF vars, registryVars, fileVars, KeptContents, PublishedContent, HasProduct
<1>2. ASSUME NEW p \in Procs, FinaliseStep(p) \/ ProgramStep(p)
      PROVE  [Abstract!Next]_<<KeptContents, PublishedContent>>
  <2>1. CASE RenameStep(p)
    BY <2>1, RenameKeeps DEF Abstract!Next
  <2>2. CASE PostProductStep(p)
    BY <2>2, PostPublishes DEF Abstract!Next
  <2>3. CASE UNCHANGED <<store, dataProducts>>
    <3>1. KeptContents' = KeptContents
      BY <2>3 DEF KeptContents
    <3>2. \A n \in Names : PublishedContent'[n] = PublishedContent[n]
      BY <1>2, <2>3, NamesKeepTheirMeaning
    <3>3. /\ PublishedContent' = [m \in Names |-> PublishedContent'[m]]
          /\ PublishedContent = [m \in Names |-> PublishedContent[m]]
      BY DEF PublishedContent
    <3> QED BY <3>1, <3>2, <3>3
  <2> QED BY <1>2, <2>1, <2>2, <2>3, StoreFrame, RegistryFrame
<1> QED BY <1>1, <1>2 DEF Next

(* Whoever crashes, or loses a request, where: the registry and the store  *)
(* are a catalogue of names that are written once and of contents that are *)
(* kept for good.                                                          *)
THEOREM CatalogueIsImplemented == Spec => ImplementsCatalogue
<1>1. IInv /\ IInv' /\ RecordsOK /\ [Next]_vars
         => [Abstract!Next]_<<KeptContents, PublishedContent>>
  BY StepImplements
<1> QED BY <1>1, InitImplements, Invariance, RecordInvariance, PTL
        DEF Spec, ImplementsCatalogue, Abstract!Spec

=============================================================================

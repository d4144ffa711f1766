---------------------------- MODULE PipelineProofs ----------------------------
(***************************************************************************)
(* Proofs about Pipeline, for every set of processes, products, contents   *)
(* and names, every configuration and every value of the bounds.           *)
(***************************************************************************)
EXTENDS Pipeline, SequenceTheorems, TLAPS

-----------------------------------------------------------------------------
(* What a step changes *)

(* Only the rename of finalise changes a stored file.                      *)
LEMMA StoreFrame ==
    ASSUME NEW p \in Procs, FinaliseStep(p) \/ ProgramStep(p)
    PROVE  RenameStep(p) \/ UNCHANGED store
<1>1. CASE ProgramStep(p)
  BY <1>1 DEF ProgramStep, Start, Crash, Finalise, Fail, LinkWrite, LinkRead, LinkReadCached,
     LinkReadQuery, ProgramWrite, NewTempFile, WriteTemp, ForgetTemps, fileVars
<1>2. CASE FinaliseStep(p)
  BY <1>2 DEF FinaliseStep, HashStep, FindLocation, RemoveStep, RemoveTemp, GetRoot, RenameThrows,
     PostLocationStep, FileType, FindNamespace, PostNamespaceStep, FindProduct, GetObject,
     PostObjectStep, PostProductStep, GetComponent, Patch, PatchRefused, fileVars
<1> QED BY <1>1, <1>2

(* Only the POST of a storage location changes that table.                 *)
LEMMA LocationsFrame ==
    ASSUME NEW p \in Procs, FinaliseStep(p) \/ ProgramStep(p)
    PROVE  PostLocationStep(p) \/ UNCHANGED locations
<1>1. CASE ProgramStep(p)
  BY <1>1 DEF ProgramStep, Start, PostCodeRun, Crash, Finalise, Fail, LinkWrite, LinkRead,
     LinkReadCached, LinkReadQuery, ProgramWrite, registryVars
<1>2. CASE FinaliseStep(p)
  BY <1>2 DEF FinaliseStep, HashStep, FindLocation, RemoveStep, GetRoot, RenameStep, RenameThrows,
     FileType, FindNamespace, PostNamespaceStep, PostNamespace, FindProduct, GetObject,
     PostObjectStep, PostObject, PostProductStep, PostProduct, GetComponent, Patch, PatchRefused, PatchCodeRun,
     registryVars
<1> QED BY <1>1, <1>2

(* One lemma of this kind for each of the other tables of the registry.    *)
LEMMA RegistryFrame ==
    ASSUME NEW p \in Procs, FinaliseStep(p) \/ ProgramStep(p)
    PROVE  /\ PostNamespaceStep(p) \/ UNCHANGED namespaces
           /\ PostObjectStep(p) \/ UNCHANGED objects
           /\ PostProductStep(p) \/ UNCHANGED dataProducts
           /\ Start(p) \/ Patch(p) \/ UNCHANGED codeRuns
<1>1. CASE ProgramStep(p)
  BY <1>1 DEF ProgramStep, Start, PostCodeRun, Crash, Finalise, Fail, LinkWrite, LinkRead,
     LinkReadCached, LinkReadQuery, ProgramWrite, registryVars
<1>2. CASE FinaliseStep(p)
  BY <1>2 DEF FinaliseStep, HashStep, FindLocation, RemoveStep, GetRoot, RenameStep, RenameThrows,
     PostLocationStep, PostLocation, FileType, FindNamespace, PostNamespaceStep, PostNamespace,
     FindProduct, GetObject, PostObjectStep, PostObject, PostProductStep, PostProduct,
     GetComponent, Patch, PatchRefused, PatchCodeRun, registryVars
<1> QED BY <1>1, <1>2

(* A step of one process leaves the variables of the others alone.         *)
OthersKeep(p) ==
    \A q \in Procs \ {p} :
        /\ pc'[q] = pc[q]
        /\ cur'[q] = cur[q]
        /\ writes'[q] = writes[q]
        /\ hash'[q] = hash[q]
        /\ temp'[q] = temp[q]
        /\ loc'[q] = loc[q]

(* A step of a process leaves the local state of every other process       *)
(* alone.                                                                  *)
LEMMA OthersFrame ==
    ASSUME TypeOK, NEW p \in Procs, FinaliseStep(p) \/ ProgramStep(p)
    PROVE  OthersKeep(p)
<1> USE DEF TypeOK, StoreTypeOK, CallTypeOK, ConfigTypeOK, OthersKeep
<1>1. CASE ProgramStep(p)
  BY <1>1 DEF ProgramStep, Start, Crash, Finalise, Iterate, Fail, LoseReply, Throw, LinkWrite, LinkRead, LinkReadCached,
     LinkReadQuery, ProgramWrite, NewTempFile, WriteTemp, ForgetTemps, fileVars, Step, Goto, DropLocals, Keep, callVars, configVars
<1>2. CASE HashStep(p)
  BY <1>2 DEF HashStep, Goto, Throw, DropLocals, Keep, fileVars
<1>3. CASE FindLocation(p) \/ RemoveStep(p) \/ GetRoot(p)
  BY <1>3 DEF FindLocation, RemoveStep, RemoveTemp, GetRoot, Step, Goto, Keep, KeepCall, fileVars
<1>4. CASE RenameStep(p) \/ RenameThrows(p) \/ PostLocationStep(p)
  BY <1>4 DEF RenameStep, RenameTemp, RenameThrows, PostLocationStep, LoseReply, Throw, DropLocals, Step, Goto, Keep, KeepCall, fileVars
<1>5. CASE FileType(p) \/ FindNamespace(p) \/ PostNamespaceStep(p) \/ FindProduct(p) \/ GetObject(p)
  BY <1>5 DEF FileType, FindNamespace, PostNamespaceStep, FindProduct, GetObject, LoseReply, Throw, DropLocals, Step, Goto, Keep, KeepCall, fileVars
<1>6. CASE PostObjectStep(p) \/ PostProductStep(p) \/ GetComponent(p) \/ Patch(p) \/ PatchRefused(p)
  BY <1>6 DEF PostObjectStep, PostProductStep, GetComponent, Iterate, Patch, PatchRefused, LoseReply, Throw, DropLocals, Step, Goto, Keep, KeepCall, fileVars
<1> QED BY <1>1, <1>2, <1>3, <1>4, <1>5, <1>6 DEF FinaliseStep

-----------------------------------------------------------------------------
(* Types *)

(* The loop's next key is one of those that are left.                      *)
LEMMA LeastIsMember ==
    ASSUME NEW S \in SUBSET Products, S # {}
    PROVE  Least(S) \in S
BY KeysOrdered DEF Least

(* A code run that is patched stays a code run.                            *)
LEMMA PatchedRuns ==
    ASSUME codeRuns \in Seq(CodeRun), NEW r, NEW v \in CodeRun
    PROVE  [codeRuns EXCEPT ![r] = v] \in Seq(CodeRun)
<1>1. PICK n \in Nat : codeRuns \in [1 .. n -> CodeRun]
  BY SeqDef
<1>2. [codeRuns EXCEPT ![r] = v] \in [1 .. n -> CodeRun]
  BY <1>1
<1> QED BY <1>2, SeqDef

(* Every request keeps the types of the registry's tables; what finalise   *)
(* posts is a row because of LocalOK.                                      *)
LEMMA RegistryTypes ==
    ASSUME TypeOK, NEW p \in Procs, LocalOK(p), FinaliseStep(p) \/ ProgramStep(p)
    PROVE  RegistryTypeOK'
<1> USE DEF TypeOK, RegistryTypeOK
<1>0. pc[p] \in LoopPCs => cur[p] \in Names
  BY PipelineConstants DEF LocalOK, ConfigTypeOK
<1>1. namespaces' \in SUBSET Namespaces
  <2>1. CASE PostNamespaceStep(p)
    BY <1>0, <2>1, RegistryConstants DEF PostNamespaceStep, PostNamespace, LoopPCs, FinalisePCs
  <2> QED BY <2>1, RegistryFrame
<1>2. locations' \in SUBSET Location
  <2>1. CASE PostLocationStep(p)
    <3>1. cur[p] \in Names /\ hash[p][cur[p]] \in Contents /\ Public[p] \in BOOLEAN
      BY <1>0, <2>1, PipelineConstants DEF PostLocationStep, LocalOK, LoopPCs, FinalisePCs
    <3> QED BY <2>1, <3>1 DEF PostLocationStep, PostLocation, Location
  <2> QED BY <2>1, LocationsFrame
<1>3. objects' \in Seq(Location)
  <2>1. CASE PostObjectStep(p)
    <3>1. loc[p] \in Location
      BY <2>1 DEF PostObjectStep, LocalOK, LocatedPCs
    <3> QED BY <2>1, <3>1 DEF PostObjectStep, PostObject
  <2> QED BY <2>1, RegistryFrame
<1>4. dataProducts' \in [Names -> Nat]
  <2>1. CASE PostProductStep(p)
    BY <2>1 DEF PostProductStep, PostProduct, CallTypeOK, ObjectId
  <2> QED BY <2>1, RegistryFrame
<1>5. codeRuns' \in Seq(CodeRun)
  <2>1. CASE Start(p)
    BY <2>1 DEF Start, PostCodeRun, CodeRun
  <2>2. CASE Patch(p)
    <3>1. Recorded(outputs[p]) \in SUBSET Nat /\ Recorded(inputs[p]) \in SUBSET Nat
      BY DEF ConfigTypeOK, Recorded, ObjectId
    <3>2. [outputs |-> Recorded(outputs[p]), inputs |-> Recorded(inputs[p])] \in CodeRun
      BY <3>1 DEF CodeRun
    <3> QED BY <2>2, <3>2, PatchedRuns DEF Patch, PatchCodeRun
  <2> QED BY <2>1, <2>2, RegistryFrame
<1> QED BY <1>1, <1>2, <1>3, <1>4, <1>5

(* Every file operation keeps the types of the data store.                 *)
LEMMA StoreTypes ==
    ASSUME TypeOK, NEW p \in Procs, LocalOK(p), FinaliseStep(p) \/ ProgramStep(p)
    PROVE  StoreTypeOK'
<1> USE DEF TypeOK, StoreTypeOK
<1>1. CASE ProgramStep(p)
  <2>1. ASSUME NEW d \in Products, LinkWrite(p, d)
        PROVE  StoreTypeOK'
    <3>1. UseName[p][d] \in Names
      BY PipelineConstants
    <3> QED BY <2>1, <3>1 DEF LinkWrite, NewTempFile
  <2>2. ASSUME NEW d \in Products, NEW c \in Contents, ProgramWrite(p, d, c)
        PROVE  StoreTypeOK'
    BY <2>2 DEF ProgramWrite, WriteTemp
  <2>3. CASE Crash(p)
    BY <2>3 DEF Crash, ForgetTemps
  <2>4. CASE \/ Start(p) \/ Finalise(p) \/ Fail(p)
            \/ \E d \in Products : LinkRead(p, d)
    BY <2>4 DEF Start, Finalise, Fail, LinkRead, LinkReadCached, LinkReadQuery, fileVars
  <2> QED BY <1>1, <2>1, <2>2, <2>3, <2>4 DEF ProgramStep
<1>2. CASE RemoveStep(p)
  BY <1>2 DEF RemoveStep, RemoveTemp
<1>3. CASE RenameStep(p)
  <2>1. cur[p] \in Products
    BY <1>3 DEF RenameStep, Step, LocalOK, LoopPCs, FinalisePCs, ConfigTypeOK
  <2> QED BY <1>3, <2>1 DEF RenameStep, RenameTemp
<1>4. CASE FinaliseStep(p) /\ ~ RemoveStep(p) /\ ~ RenameStep(p)
  BY <1>4 DEF FinaliseStep, HashStep, FindLocation, GetRoot, RenameThrows,
     PostLocationStep, FileType, FindNamespace, PostNamespaceStep, FindProduct, GetObject,
     PostObjectStep, PostProductStep, GetComponent, Patch, PatchRefused, fileVars
<1> QED BY <1>1, <1>2, <1>3, <1>4

(* An exception, and the move to the next key, keep the types of the local *)
(* variables of a call.                                                    *)
LEMMA ThrowTypes ==
    ASSUME CallTypeOK, NEW p \in Procs, Throw(p), UNCHANGED hash
    PROVE  CallTypeOK'
<1> USE DEF CallTypeOK, Throw, Goto, DropLocals
<1>1. (pc \in [Procs -> FinalisePCs \cup {"down", "ready"}])'
  OBVIOUS
<1>2. (result \in [Procs -> {"none", "ok", "error"}])'
  OBVIOUS
<1>3. (cur \in [Procs -> Products \cup {NoKey}])'
  OBVIOUS
<1>4. (loc \in [Procs -> Location \cup {NoLocation}])'
  OBVIOUS
<1>5. (obj \in [Procs -> ObjectId])'
  BY DEF ObjectId, NoObject
<1> QED BY <1>1, <1>2, <1>3, <1>4, <1>5

(* The move to the next key of the loop, or out of it, keeps the types.    *)
LEMMA IterateTypes ==
    ASSUME TypeOK, NEW p \in Procs, NEW rest \in SUBSET Products, Iterate(p, rest)
    PROVE  /\ (pc \in [Procs -> FinalisePCs \cup {"down", "ready"}])'
           /\ (cur \in [Procs -> Products \cup {NoKey}])'
           /\ (inputs \in [Procs -> [Products -> ObjectId]])'
<1> USE DEF TypeOK, CallTypeOK, ConfigTypeOK, Iterate, Goto, MergeReads
<1>1. (pc \in [Procs -> FinalisePCs \cup {"down", "ready"}])'
  BY DEF FinalisePCs
<1>2. (cur \in [Procs -> Products \cup {NoKey}])'
  BY LeastIsMember
<1>3. (inputs \in [Procs -> [Products -> ObjectId]])'
  <2> DEFINE merged ==
        [d \in Products |-> IF reads[p][d] = NoObject THEN inputs[p][d] ELSE reads[p][d]]
  <2>1. merged \in [Products -> ObjectId]
    OBVIOUS
  <2>2. inputs' = inputs \/ inputs' = [inputs EXCEPT ![p] = merged]
    OBVIOUS
  <2> QED BY <2>1, <2>2
<1> QED BY <1>1, <1>2, <1>3

(* Every step keeps the types of the local variables of finalise.          *)
LEMMA CallTypes ==
    ASSUME TypeOK, NEW p \in Procs, LocalOK(p), FinaliseStep(p) \/ ProgramStep(p)
    PROVE  CallTypeOK'
<1> USE DEF TypeOK, CallTypeOK
<1>1. CASE Start(p) \/ Crash(p)
  <2>1. CASE Start(p)
    BY <2>1 DEF Start, Step, Goto, callVars
  <2>2. CASE Crash(p)
    <3>1. (pc \in [Procs -> FinalisePCs \cup {"down", "ready"}])'
      BY <2>2 DEF Crash, Goto
    <3>2. (result \in [Procs -> {"none", "ok", "error"}])'
      BY <2>2 DEF Crash
    <3>3. (cur \in [Procs -> Products \cup {NoKey}])'
      BY <2>2 DEF Crash
    <3>4. (hash \in [Procs -> [Products -> Contents \cup {NoFile}]])'
      BY <2>2 DEF Crash
    <3>5. (loc \in [Procs -> Location \cup {NoLocation}])'
      BY <2>2 DEF Crash, DropLocals
    <3>6. (obj \in [Procs -> ObjectId])'
      BY <2>2 DEF Crash, DropLocals, ObjectId, NoObject
    <3> QED BY <3>1, <3>2, <3>3, <3>4, <3>5, <3>6
  <2> QED BY <1>1, <2>1, <2>2
<1>2. CASE Finalise(p)
  <2>1. Iterate(p, writes[p]) /\ writes[p] \in SUBSET Products
    BY <1>2 DEF Finalise, ConfigTypeOK
  <2> QED BY <1>2, <2>1, IterateTypes DEF Finalise
<1>3. CASE Fail(p) \/ RenameThrows(p) \/ PatchRefused(p)
  BY <1>3, ThrowTypes DEF Fail, LoseReply, RenameThrows, PatchRefused
<1>4. CASE \E d \in Products :
              LinkWrite(p, d) \/ LinkRead(p, d) \/ \E c \in Contents : ProgramWrite(p, d, c)
  BY <1>4 DEF LinkWrite, LinkRead, LinkReadCached, LinkReadQuery, ProgramWrite, callVars
<1>5. CASE HashStep(p)
  <2>1. CASE Throw(p) /\ UNCHANGED hash
    BY <2>1, ThrowTypes
  <2>2. CASE /\ Goto(p, "find_location")
             /\ hash' = [hash EXCEPT ![p][cur[p]] = temp[p][cur[p]]]
             /\ UNCHANGED <<result, cur, loc, obj>>
    <3>1. cur[p] \in Products
      BY <1>5 DEF HashStep, LocalOK, LoopPCs, FinalisePCs, ConfigTypeOK
    <3> QED BY <2>2, <3>1 DEF Goto, StoreTypeOK, FinalisePCs
  <2> QED BY <1>5, <2>1, <2>2 DEF HashStep
<1>6. CASE FindLocation(p)
  <2>1. loc' = loc \/ \E l \in locations : loc' = [loc EXCEPT ![p] = l]
    BY <1>6 DEF FindLocation, LocationsOf
  <2>2. (loc \in [Procs -> Location \cup {NoLocation}])'
    BY <2>1 DEF RegistryTypeOK
  <2> QED BY <1>6, <2>2 DEF FindLocation, Goto, KeepCall, FinalisePCs
<1>7. CASE RemoveStep(p) \/ GetRoot(p) \/ RenameStep(p) \/ FileType(p) \/ FindNamespace(p) \/ GetObject(p)
  BY <1>7 DEF RemoveStep, GetRoot, RenameStep, FileType, FindNamespace, GetObject, Step, Goto,
     KeepCall, FinalisePCs
<1>8. CASE PostLocationStep(p)
  <2>1. CASE LoseReply(p)
    BY <1>8, <2>1, ThrowTypes DEF PostLocationStep, LoseReply
  <2>2. CASE ~ LoseReply(p)
    BY <1>8, <2>2, RegistryTypes DEF PostLocationStep, PostLocation, RegistryTypeOK, Goto, FinalisePCs
  <2> QED BY <2>1, <2>2
<1>9. CASE PostNamespaceStep(p) \/ PostProductStep(p)
  <2>1. CASE LoseReply(p)
    BY <1>9, <2>1, ThrowTypes DEF PostNamespaceStep, PostProductStep, LoseReply
  <2>2. CASE ~ LoseReply(p)
    BY <1>9, <2>2 DEF PostNamespaceStep, PostProductStep, Goto, FinalisePCs
  <2> QED BY <2>1, <2>2
<1>10. CASE FindProduct(p)
  <2>1. cur[p] \in Names
    BY <1>10, PipelineConstants DEF FindProduct, LocalOK, LoopPCs, FinalisePCs, ConfigTypeOK
  <2> QED BY <1>10, <2>1 DEF FindProduct, RegistryTypeOK, Goto, KeepCall, FinalisePCs, ObjectId
<1>11. CASE PostObjectStep(p)
  <2>1. CASE LoseReply(p)
    BY <1>11, <2>1, ThrowTypes DEF PostObjectStep, LoseReply
  <2>2. CASE ~ LoseReply(p)
    <3>1. Len(objects) + 1 \in ObjectId
      BY DEF RegistryTypeOK, ObjectId
    <3> QED BY <1>11, <2>2, <3>1 DEF PostObjectStep, Goto, FinalisePCs
  <2> QED BY <2>1, <2>2
<1>12. CASE GetComponent(p)
  <2>1. /\ Iterate(p, {e \in writes[p] : e > cur[p]})
        /\ {e \in writes[p] : e > cur[p]} \in SUBSET Products
    BY <1>12 DEF GetComponent, ConfigTypeOK
  <2> QED BY <1>12, <2>1, IterateTypes DEF GetComponent, DropLocals, ObjectId, NoObject, Keep
<1>13. CASE Patch(p)
  <2>1. CASE LoseReply(p)
    BY <1>13, <2>1, ThrowTypes DEF Patch, LoseReply
  <2>2. CASE ~ LoseReply(p)
    BY <1>13, <2>2 DEF Patch, Goto
  <2> QED BY <2>1, <2>2
<1> QED BY <1>1, <1>2, <1>3, <1>4, <1>5, <1>6, <1>7, <1>8, <1>9, <1>10, <1>11, <1>12, <1>13
        DEF FinaliseStep, ProgramStep

(* Every step keeps the types of a Config's fields.                        *)
LEMMA ConfigTypes ==
    ASSUME TypeOK, NEW p \in Procs, LocalOK(p), FinaliseStep(p) \/ ProgramStep(p)
    PROVE  ConfigTypeOK'
<1> USE DEF TypeOK, ConfigTypeOK
<1>1. CASE Start(p)
  <2>1. Len(codeRuns) + 1 \in Nat
    BY DEF RegistryTypeOK
  <2> QED BY <1>1, <2>1 DEF Start
<1>2. CASE Crash(p)
  <2> DEFINE none == [d \in Products |-> NoObject]
  <2>1. none \in [Products -> ObjectId]
    BY DEF NoObject, ObjectId
  <2>2. /\ run' = [run EXCEPT ![p] = 0]
        /\ writes' = [writes EXCEPT ![p] = {}]
        /\ reads' = [reads EXCEPT ![p] = none]
        /\ outputs' = [outputs EXCEPT ![p] = none]
        /\ inputs' = [inputs EXCEPT ![p] = none]
        /\ given' = [given EXCEPT ![p] = none]
    BY <1>2 DEF Crash
  <2> HIDE DEF none
  <2> QED BY <2>1, <2>2
<1>3. CASE Finalise(p)
  <2>1. Iterate(p, writes[p]) /\ writes[p] \in SUBSET Products
    BY <1>3 DEF Finalise
  <2> QED BY <1>3, <2>1, IterateTypes DEF Finalise
<1>4. ASSUME NEW d \in Products, LinkRead(p, d)
      PROVE  ConfigTypeOK'
  <2>1. CASE LinkReadCached(p, d)
    BY <2>1 DEF LinkReadCached
  <2>2. CASE LinkReadQuery(p, d)
    <3>1. UseName[p][d] \in Names
      BY PipelineConstants
    <3>2. dataProducts[UseName[p][d]] \in ObjectId
      BY <3>1 DEF RegistryTypeOK, ObjectId
    <3> QED BY <2>2, <3>2 DEF LinkReadQuery
  <2> QED BY <1>4, <2>1, <2>2 DEF LinkRead
<1>5. CASE \/ Fail(p)
           \/ \E d \in Products : LinkWrite(p, d) \/ \E c \in Contents : ProgramWrite(p, d, c)
  <2>1. CASE Fail(p)
    BY <2>1 DEF Fail, Keep
  <2>2. ASSUME NEW d \in Products, LinkWrite(p, d)
        PROVE  ConfigTypeOK'
    BY <2>2 DEF LinkWrite
  <2>3. ASSUME NEW d \in Products, NEW c \in Contents, ProgramWrite(p, d, c)
        PROVE  ConfigTypeOK'
    BY <2>3 DEF ProgramWrite, configVars
  <2> QED BY <1>5, <2>1, <2>2, <2>3
<1>6. CASE GetComponent(p)
  <2>1. /\ Iterate(p, {e \in writes[p] : e > cur[p]})
        /\ {e \in writes[p] : e > cur[p]} \in SUBSET Products
    BY <1>6 DEF GetComponent
  <2>2. (inputs \in [Procs -> [Products -> ObjectId]])'
    BY <2>1, IterateTypes
  <2> QED BY <1>6, <2>2 DEF GetComponent, Keep, CallTypeOK
<1>7. CASE FinaliseStep(p) /\ ~ GetComponent(p)
  BY <1>7 DEF FinaliseStep, HashStep, FindLocation, RemoveStep, GetRoot, RenameStep, RenameThrows,
     PostLocationStep, FileType, FindNamespace, PostNamespaceStep, FindProduct, GetObject,
     PostObjectStep, PostProductStep, Patch, PatchRefused, Keep, KeepCall
<1> QED BY <1>1, <1>2, <1>3, <1>4, <1>5, <1>6, <1>7 DEF ProgramStep

(* The counters of faults and of written files stay below their bounds.    *)
LEMMA BoundTypes ==
    ASSUME TypeOK, NEW p \in Procs, FinaliseStep(p) \/ ProgramStep(p)
    PROVE  (faults \in 0 .. MaxFaults /\ written \in 0 .. MaxWrites)'
<1> USE PipelineConstants DEF TypeOK
<1>1. CASE ProgramStep(p)
  BY <1>1 DEF ProgramStep, Start, Crash, Finalise, Fail, LoseReply, UseFault, Keep, LinkWrite,
     LinkRead, LinkReadCached, LinkReadQuery, ProgramWrite, bounds
<1>2. CASE FinaliseStep(p)
  BY <1>2 DEF FinaliseStep, HashStep, FindLocation, RemoveStep, GetRoot, RenameStep, RenameThrows,
     PostLocationStep, FileType, FindNamespace, PostNamespaceStep, FindProduct, GetObject,
     PostObjectStep, PostProductStep, GetComponent, Patch, PatchRefused, LoseReply, UseFault, Keep
<1> QED BY <1>1, <1>2

(* The type invariant is preserved by every step of a process.             *)
LEMMA StepTypeOK ==
    ASSUME TypeOK, NEW p \in Procs, LocalOK(p), FinaliseStep(p) \/ ProgramStep(p)
    PROVE  TypeOK'
<1>1. RegistryTypeOK'
  BY RegistryTypes
<1>2. StoreTypeOK'
  BY StoreTypes
<1>3. CallTypeOK'
  BY CallTypes
<1>4. ConfigTypeOK'
  BY ConfigTypes
<1>5. (faults \in 0 .. MaxFaults /\ written \in 0 .. MaxWrites)'
  BY BoundTypes
<1> QED BY <1>1, <1>2, <1>3, <1>4, <1>5 DEF TypeOK

-----------------------------------------------------------------------------
(* The files of the store *)

(* What a rename puts under a hash has that hash, and what a path of the   *)
(* store holds it holds for good.                                          *)
LEMMA StoreStep ==
    ASSUME TypeOK, ContentAddressed, NEW p \in Procs, LocalOK(p), FinaliseStep(p) \/ ProgramStep(p)
    PROVE  /\ ContentAddressed'
           /\ \A n \in Names, h \in Contents :
                 store[n][h] # NoFile => store'[n][h] = store[n][h]
<1>1. CASE UNCHANGED store
  BY <1>1 DEF ContentAddressed
<1>2. CASE RenameStep(p)
  <2> DEFINE d == cur[p]
             h == hash[p][cur[p]]
  <2>1. d \in Names /\ h \in Contents /\ temp[p][d] = h
    BY <1>2, PipelineConstants
       DEF RenameStep, Step, LocalOK, LoopPCs, FinalisePCs, HashedPCs, TypeOK, ConfigTypeOK
  <2>2. store' = [store EXCEPT ![d][h] = h]
    BY <1>2, <2>1 DEF RenameStep, RenameTemp
  <2> HIDE DEF d, h
  <2> QED BY <2>1, <2>2 DEF ContentAddressed, TypeOK, StoreTypeOK
<1> QED BY <1>1, <1>2, StoreFrame

(* What a step does to the table of locations keeps every stored file's    *)
(* row good, and the only row it adds is of a file that is in place, in    *)
(* the directory of a key.                                                 *)
LEMMA LocationsStep ==
    ASSUME TypeOK, ContentAddressed, NEW p \in Procs, LocalOK(p), FinaliseStep(p) \/ ProgramStep(p)
    PROVE  /\ \A l \in locations : Stored(l) => Stored(l)'
           /\ \A l \in locations' \ locations : Stored(l)' /\ l.name \in Products
<1>1. ASSUME NEW l \in Location, Stored(l)
      PROVE  Stored(l)'
  <2>1. l.name \in Names /\ l.hash \in Contents /\ store[l.name][l.hash] # NoFile
    BY <1>1, StoreConstants DEF Location, Stored
  <2> QED BY <1>1, <2>1, StoreStep DEF Stored
<1>2. \A l \in locations : Stored(l) => Stored(l)'
  BY <1>1 DEF TypeOK, RegistryTypeOK
<1>3. CASE UNCHANGED locations
  BY <1>2, <1>3
<1>4. CASE PostLocationStep(p)
  <2> DEFINE l == [name |-> cur[p], hash |-> hash[p][cur[p]], public |-> Public[p]]
  <2>1. locations' = locations \cup {l}
    BY <1>4 DEF PostLocationStep, PostLocation
  <2>2. l \in Location /\ Stored(l) /\ l.name \in Products
    BY <1>4, PipelineConstants
       DEF PostLocationStep, LocalOK, LoopPCs, FinalisePCs, TypeOK, ConfigTypeOK, Location, Stored
  <2> QED BY <1>1, <1>2, <2>1, <2>2
<1> QED BY <1>3, <1>4, LocationsFrame

(* A row is posted only for a file that is in place.                       *)
LEMMA RegisteredStep ==
    ASSUME TypeOK, ContentAddressed, RegisteredFilesStored, NEW p \in Procs, LocalOK(p),
           FinaliseStep(p) \/ ProgramStep(p)
    PROVE  RegisteredFilesStored'
BY LocationsStep DEF RegisteredFilesStored

-----------------------------------------------------------------------------
(* What finalise knows *)

(* The others cannot invalidate it: the table of locations and the store   *)
(* only grow.                                                              *)
LEMMA OthersLocalOK ==
    ASSUME TypeOK, ContentAddressed, NEW p \in Procs, LocalOK(p), FinaliseStep(p) \/ ProgramStep(p),
           NEW q \in Procs, q # p, LocalOK(q)
    PROVE  LocalOK(q)'
<1>1. /\ pc'[q] = pc[q] /\ cur'[q] = cur[q] /\ writes'[q] = writes[q]
      /\ hash'[q] = hash[q] /\ temp'[q] = temp[q] /\ loc'[q] = loc[q]
  BY OthersFrame DEF OthersKeep
<1>2. locations \subseteq locations'
  BY LocationsFrame DEF PostLocationStep, PostLocation
<1>3. pc[q] = "post_location" =>
        store'[cur[q]][hash[q][cur[q]]] = hash[q][cur[q]]
  <2>1. SUFFICES ASSUME pc[q] = "post_location"
                 PROVE  store'[cur[q]][hash[q][cur[q]]] = hash[q][cur[q]]
    OBVIOUS
  <2>2. cur[q] \in Names /\ hash[q][cur[q]] \in Contents
    BY <2>1, PipelineConstants DEF LocalOK, LoopPCs, FinalisePCs, TypeOK, ConfigTypeOK
  <2>3. store[cur[q]][hash[q][cur[q]]] = hash[q][cur[q]]
    BY <2>1 DEF LocalOK
  <2> QED BY <2>2, <2>3, StoreStep, StoreConstants
<1> QED BY <1>1, <1>2, <1>3 DEF LocalOK

(* A step of p brings finalise to a point where it knows what LocalOK says *)
(* for that point.                                                         *)
LEMMA OwnLocalOK ==
    ASSUME TypeOK, TypeOK', NEW p \in Procs, LocalOK(p), FinaliseStep(p) \/ ProgramStep(p)
    PROVE  LocalOK(p)'
<1> USE DEF LocalOK, LoopPCs, FinalisePCs, HashedPCs, LocatedPCs
<1>0. \A S \in SUBSET Products : Iterate(p, S) =>
         /\ pc'[p] \in {"hash", "patch"}
         /\ pc'[p] = "hash" => cur'[p] \in S
  BY LeastIsMember DEF Iterate, Goto, TypeOK, CallTypeOK
<1>1. CASE ProgramStep(p)
  <2>1. CASE Start(p) \/ Crash(p) \/ Fail(p)
    BY <2>1 DEF Start, Crash, Fail, LoseReply, Throw, Step, Goto, TypeOK, CallTypeOK
  <2>2. CASE Finalise(p)
    BY <1>0, <2>2 DEF Finalise, TypeOK, ConfigTypeOK
  <2>3. CASE \E d \in Products :
                LinkWrite(p, d) \/ LinkRead(p, d) \/ \E c \in Contents : ProgramWrite(p, d, c)
    BY <2>3 DEF LinkWrite, LinkRead, LinkReadCached, LinkReadQuery, ProgramWrite
  <2> QED BY <1>1, <2>1, <2>2, <2>3 DEF ProgramStep
<1>2. ASSUME Throw(p)
      PROVE  LocalOK(p)'
  BY <1>2 DEF Throw, Goto, TypeOK, CallTypeOK
<1>3. CASE HashStep(p)
  <2>1. CASE Throw(p)
    BY <1>2, <2>1
  <2>2. CASE ~ Throw(p)
    <3>1. /\ cur[p] \in Products /\ cur[p] \in writes[p]
          /\ temp[p][cur[p]] \in Contents
      BY <1>3, <2>2 DEF HashStep, TypeOK, ConfigTypeOK, StoreTypeOK
    <3>2. /\ pc'[p] = "find_location" /\ cur' = cur /\ writes' = writes /\ temp' = temp
          /\ hash' = [hash EXCEPT ![p][cur[p]] = temp[p][cur[p]]]
      BY <1>3, <2>2 DEF HashStep, Goto, Keep, fileVars, TypeOK, CallTypeOK
    <3> QED BY <3>1, <3>2 DEF TypeOK, CallTypeOK
  <2> QED BY <2>1, <2>2
<1>4. CASE FindLocation(p)
  BY <1>4 DEF FindLocation, LocationsOf, Goto, KeepCall, Keep, registryVars, fileVars, TypeOK, CallTypeOK
<1>5. CASE RemoveStep(p) \/ GetRoot(p)
  BY <1>5 DEF RemoveStep, RemoveTemp, GetRoot, Step, Goto, KeepCall, Keep, registryVars, fileVars,
     TypeOK, CallTypeOK
<1>6. CASE RenameStep(p)
  <2> DEFINE d == cur[p]
             h == hash[p][cur[p]]
  <2>1. d \in Names /\ h \in Contents /\ temp[p][d] = h /\ d \in writes[p]
    BY <1>6, PipelineConstants DEF RenameStep, Step, TypeOK, ConfigTypeOK
  <2>2. /\ store' = [store EXCEPT ![d][h] = h]
        /\ pc'[p] = "post_location" /\ cur' = cur /\ writes' = writes /\ hash' = hash
    BY <1>6, <2>1 DEF RenameStep, RenameTemp, Step, Goto, KeepCall, Keep, TypeOK, CallTypeOK
  <2>3. store'[d][h] = h
    BY <2>1, <2>2 DEF TypeOK, StoreTypeOK
  <2> QED BY <2>1, <2>2, <2>3
<1>7. CASE RenameThrows(p) \/ PatchRefused(p)
  BY <1>2, <1>7 DEF RenameThrows, PatchRefused
<1>8. CASE PostLocationStep(p)
  <2>1. CASE Throw(p)
    BY <1>2, <2>1
  <2>2. CASE ~ Throw(p)
    BY <1>8, <2>2 DEF PostLocationStep, PostLocation, LoseReply, Goto, Keep, fileVars, TypeOK, CallTypeOK
  <2> QED BY <2>1, <2>2
<1>9. CASE FileType(p) \/ FindNamespace(p) \/ FindProduct(p) \/ GetObject(p)
  BY <1>9 DEF FileType, FindNamespace, FindProduct, GetObject, Step, Goto, KeepCall, Keep,
     registryVars, fileVars, TypeOK, CallTypeOK
<1>10. CASE PostNamespaceStep(p) \/ PostObjectStep(p) \/ PostProductStep(p)
  <2>1. CASE Throw(p)
    BY <1>2, <2>1
  <2>2. CASE ~ Throw(p)
    BY <1>10, <2>2 DEF PostNamespaceStep, PostNamespace, PostObjectStep, PostObject, PostProductStep,
       PostProduct, LoseReply, Goto, Keep, fileVars, TypeOK, CallTypeOK
  <2> QED BY <2>1, <2>2
<1>11. CASE GetComponent(p)
  <2>1. {e \in writes[p] : e > cur[p]} \in SUBSET Products
    BY DEF TypeOK, ConfigTypeOK
  <2> QED BY <1>0, <1>11, <2>1 DEF GetComponent, Keep
<1>12. CASE Patch(p)
  BY <1>12 DEF Patch, LoseReply, Throw, Goto, TypeOK, CallTypeOK
<1> QED BY <1>1, <1>3, <1>4, <1>5, <1>6, <1>7, <1>8, <1>9, <1>10, <1>11, <1>12 DEF FinaliseStep

-----------------------------------------------------------------------------
(* The invariant and what follows from it *)

(* The inductive invariant holds at first.                                 *)
LEMMA InitIInv == Init => IInv
<1> SUFFICES ASSUME Init PROVE IInv
  OBVIOUS
<1>1. TypeOK
  BY PipelineConstants
     DEF Init, TypeOK, CallTypeOK, ConfigTypeOK, RegistryInit, StoreInit, RegistryTypeOK, StoreTypeOK,
         NoObject, NoLocation, NoKey, FinalisePCs, ObjectId, Location, CodeRun
<1>2. ContentAddressed /\ RegisteredFilesStored
  BY DEF Init, RegistryInit, StoreInit, ContentAddressed, RegisteredFilesStored
<1>3. \A p \in Procs : LocalOK(p)
  BY DEF Init, LocalOK, LoopPCs, FinalisePCs, HashedPCs, LocatedPCs
<1> QED BY <1>1, <1>2, <1>3 DEF IInv

(* The inductive invariant is preserved by every step.                     *)
LEMMA NextIInv == IInv /\ [Next]_vars => IInv'
<1> SUFFICES ASSUME IInv, [Next]_vars PROVE IInv'
  OBVIOUS
<1> USE DEF IInv
<1>1. CASE UNCHANGED vars
  BY <1>1 DEF vars, registryVars, fileVars, configVars, callVars, bounds, TypeOK, RegistryTypeOK,
     StoreTypeOK, CallTypeOK, ConfigTypeOK, ContentAddressed, RegisteredFilesStored, Stored, LocalOK
<1>2. ASSUME NEW p \in Procs, FinaliseStep(p) \/ ProgramStep(p)
      PROVE  IInv'
  <2>1. TypeOK'
    BY <1>2, StepTypeOK
  <2>2. ContentAddressed'
    BY <1>2, StoreStep
  <2>3. RegisteredFilesStored'
    BY <1>2, RegisteredStep
  <2>4. LocalOK(p)'
    BY <1>2, <2>1, OwnLocalOK
  <2>5. \A q \in Procs \ {p} : LocalOK(q)'
    BY <1>2, OthersLocalOK
  <2> QED BY <2>1, <2>2, <2>3, <2>4, <2>5
<1> QED BY <1>1, <1>2 DEF Next

(* The inductive invariant holds in every behaviour: what finalise knows   *)
(* of the file, its hash and its location at each of its requests is true  *)
(* whatever other processes do in between.                                 *)
THEOREM Invariance == Spec => []IInv
BY InitIInv, NextIInv, PTL DEF Spec

(* Every variable keeps its type, in every behaviour.                      *)
THEOREM TypeCorrect == Spec => []TypeOK
<1>1. IInv => TypeOK
  BY DEF IInv
<1> QED BY <1>1, Invariance, PTL

(* Every location the registry has names a stored file with its hash.      *)
THEOREM RegisteredFilesAreStored == Spec => []RegisteredFilesStored
<1>1. IInv => RegisteredFilesStored
  BY DEF IInv
<1> QED BY <1>1, Invariance, PTL

(* No step changes or removes a file of the store.                         *)
THEOREM StoreWrittenOnce == Spec => StoreIsWriteOnce
<1>1. IInv /\ [Next]_vars =>
         [\A n \in Names, h \in Contents :
             store[n][h] # NoFile => store'[n][h] = store[n][h]]_vars
  BY StoreStep DEF IInv, Next
<1> QED BY <1>1, Invariance, PTL DEF Spec, StoreIsWriteOnce

(* The two steps of finalise that take a temporary file away have moved it *)
(* into the store, or know a location that was registered for its content. *)
LEMMA TakenAway ==
    ASSUME TypeOK, NEW p \in Procs, LocalOK(p), FinaliseStep(p) \/ ProgramStep(p),
           NEW q \in Procs, NEW d \in Products,
           pc[q] \in FinalisePCs, pc'[q] # "down", temp[q][d] # NoFile, temp'[q][d] = NoFile
    PROVE  \/ \E n \in Names : store'[n][temp[q][d]] = temp[q][d]
           \/ /\ p = q /\ pc[p] = "remove" /\ UNCHANGED store
              /\ loc[p] \in locations /\ loc[p].hash = temp[p][d]
<1>1. p = q
  BY OthersFrame DEF OthersKeep
<1>2. CASE ProgramStep(p)
  <2>1. pc[p] # "ready" /\ pc[p] # "down"
    BY <1>1 DEF FinalisePCs
  <2>2. CASE Crash(p)
    BY <1>1, <2>2 DEF Crash, Goto, TypeOK, CallTypeOK
  <2>3. CASE Fail(p)
    BY <1>1, <2>3 DEF Fail, fileVars
  <2> QED BY <1>2, <2>1, <2>2, <2>3 DEF ProgramStep, Start, Finalise, LinkWrite, LinkRead,
     LinkReadCached, LinkReadQuery, ProgramWrite, Step
<1>3. CASE RemoveStep(p)
  <2>1. d = cur[p]
    BY <1>1, <1>3 DEF RemoveStep, RemoveTemp, TypeOK, StoreTypeOK
  <2>2. temp[p][d] = hash[p][d] /\ loc[p] \in locations /\ loc[p].hash = hash[p][d]
    BY <1>3, <2>1 DEF RemoveStep, Step, LocalOK, HashedPCs, LocatedPCs
  <2> QED BY <1>1, <1>3, <2>2 DEF RemoveStep, RemoveTemp, Step
<1>4. CASE RenameStep(p)
  <2>0. d = cur[p]
    BY <1>1, <1>4 DEF RenameStep, RenameTemp, TypeOK, StoreTypeOK
  <2>1. /\ temp[p][d] = hash[p][d]
        /\ d \in Names /\ hash[p][d] \in Contents
        /\ store' = [store EXCEPT ![d][hash[p][d]] = temp[p][d]]
    BY <1>4, <2>0, PipelineConstants
       DEF RenameStep, RenameTemp, Step, LocalOK, LoopPCs, FinalisePCs, HashedPCs
  <2>2. store'[d][temp[p][d]] = temp[p][d]
    BY <2>1 DEF TypeOK, StoreTypeOK
  <2> QED BY <1>1, <2>1, <2>2
<1>5. CASE FinaliseStep(p) /\ ~ RemoveStep(p) /\ ~ RenameStep(p)
  BY <1>5 DEF FinaliseStep, HashStep, FindLocation, GetRoot, RenameThrows,
     PostLocationStep, FileType, FindNamespace, PostNamespaceStep, FindProduct, GetObject,
     PostObjectStep, PostProductStep, GetComponent, Patch, PatchRefused, fileVars
<1> QED BY <1>2, <1>3, <1>4, <1>5

(* In Pipeline that location names a file of the store.                    *)
LEMMA ContentKeptStep ==
    ASSUME IInv, NEW p \in Procs, FinaliseStep(p) \/ ProgramStep(p),
           NEW q \in Procs, NEW d \in Products,
           pc[q] \in FinalisePCs, pc'[q] # "down", temp[q][d] # NoFile, temp'[q][d] = NoFile
    PROVE  \E n \in Names : store'[n][temp[q][d]] = temp[q][d]
<1>1. \A l \in locations : l.name \in Names /\ store[l.name][l.hash] = l.hash
  BY DEF IInv, RegisteredFilesStored, Stored, TypeOK, RegistryTypeOK, Location
<1>2. TypeOK /\ LocalOK(p)
  BY DEF IInv
<1> QED BY <1>1, <1>2, TakenAway

(* finalise takes no content away that the store does not have.            *)
THEOREM ContentIsKept == Spec => NoContentLost
<1>1. IInv /\ [Next]_vars =>
         [\A p \in Procs, d \in Products :
            (pc[p] \in FinalisePCs /\ pc'[p] # "down" /\ temp[p][d] # NoFile
               /\ temp'[p][d] = NoFile)
            => \E n \in Names : store'[n][temp[p][d]] = temp[p][d]]_vars
  BY ContentKeptStep DEF Next
<1> QED BY <1>1, Invariance, PTL DEF Spec, NoContentLost

=============================================================================

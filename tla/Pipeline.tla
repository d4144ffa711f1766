------------------------------- MODULE Pipeline -------------------------------
(***************************************************************************)
(* Runs of a program that records its data products with the FAIR data     *)
(* pipeline API: the life of a Config object (src/src/objects/config.cxx), *)
(* several of them at once, on one registry and one data store.            *)
(*                                                                         *)
(* A process makes a Config, asks it for paths (link_write, link_read),    *)
(* writes its files, and calls finalise, which moves every written file to *)
(* its content-addressed place and registers it, one HTTP request after    *)
(* another.  Each request and each file operation of finalise is one step; *)
(* between two of them other processes move, and the process may crash.  A *)
(* request may fail before or after the registry committed it, and finalise *)
(* then throws with everything done so far left in place.                  *)
(*                                                                         *)
(* link_write sends no request.  link_read sends only GETs for rows that   *)
(* never change once they exist, so it is one step.  Making the Config is  *)
(* one step here, the POST of its code run; ConfigInit has the others.     *)
(***************************************************************************)
EXTENDS Registry, DataStore, FiniteSets

CONSTANTS
    WriteNames,    \* WriteNames[p]: keys of the write section of p's config
    ReadNames,     \* ReadNames[p]: keys of its read section
    UseName,       \* UseName[p][d]: use.data_product of key d, or d itself
    Public,        \* Public[p]: run_metadata.public
    LiteralName,   \* the data product that is called "data_product"
    MaxRuns,       \* bound: Configs made in all
    MaxWrites,     \* bound: files the programs write in all
    MaxFaults      \* bound: failed requests and crashes in all

NoKey == 0

(* Keys are names, ordered as std::map orders them; a set of keys has a    *)
(* least one.                                                              *)
ASSUME KeysOrdered ==
    \A S \in SUBSET Products : S # {} => \E d \in S : \A e \in S : d <= e

ASSUME PipelineConstants ==
    /\ Products \subseteq Names
    /\ Products \subseteq Nat \ {NoKey}
    /\ WriteNames \in [Procs -> SUBSET Products]
    /\ ReadNames \in [Procs -> SUBSET Products]
    /\ UseName \in [Procs -> [Products -> Names]]
    /\ Public \in [Procs -> BOOLEAN]
    /\ MaxRuns \in Nat /\ MaxWrites \in Nat /\ MaxFaults \in Nat

VARIABLES
    pc,       \* pc[p]: "down" without a Config, "ready" while the program
              \* runs, or the request finalise is about to make
    result,   \* result[p]: how the last finalise ended, "none" before one
              \* and after the program links or writes again
    run,      \* run[p]: id of code_run_
    writes,   \* writes[p]: the keys of writes_
    reads,    \* reads[p][d]: the object whose component reads_[d] holds
    outputs,  \* outputs[p][d]: the same for outputs_[d]
    inputs,   \* inputs[p][d]: the same for inputs_[d]
    given,    \* given[p][d]: the object whose file link_read last gave for d
    cur,      \* cur[p]: the key finalise's loop over writes_ is at
    hash,     \* hash[p][d]: the hash finalise computed for d
    loc,      \* loc[p]: storageLocationObj
    obj,      \* obj[p]: obj
    faults,   \* failed requests and crashes so far
    written   \* files written so far

configVars == <<run, writes, reads, outputs, inputs, given>>
callVars == <<cur, hash, loc, obj>>
bounds == <<faults, written>>
vars == <<registryVars, fileVars, pc, result, configVars, callVars, bounds>>

(* The steps of finalise, each named for what the process does next.       *)
FinalisePCs ==
    {"hash", "find_location", "remove", "get_root", "rename", "post_location",
     "file_type", "find_namespace", "post_namespace", "find_product",
     "get_object", "post_object", "post_product", "get_component", "patch"}

NoLocation == [name |-> NoFile, hash |-> NoFile, public |-> FALSE]

ObjectId == Nat

CallTypeOK ==
    /\ pc \in [Procs -> FinalisePCs \cup {"down", "ready"}]
    /\ result \in [Procs -> {"none", "ok", "error"}]
    /\ cur \in [Procs -> Products \cup {NoKey}]
    /\ hash \in [Procs -> [Products -> Contents \cup {NoFile}]]
    /\ loc \in [Procs -> Location \cup {NoLocation}]
    /\ obj \in [Procs -> ObjectId]

ConfigTypeOK ==
    /\ run \in [Procs -> Nat]
    /\ writes \in [Procs -> SUBSET Products]
    /\ reads \in [Procs -> [Products -> ObjectId]]
    /\ outputs \in [Procs -> [Products -> ObjectId]]
    /\ inputs \in [Procs -> [Products -> ObjectId]]
    /\ given \in [Procs -> [Products -> ObjectId]]

(* Every variable of the registry, the store and the processes has its     *)
(* type.                                                                   *)
TypeOK ==
    /\ RegistryTypeOK
    /\ StoreTypeOK
    /\ CallTypeOK
    /\ ConfigTypeOK
    /\ faults \in 0 .. MaxFaults
    /\ written \in 0 .. MaxWrites

Init ==
    /\ RegistryInit
    /\ StoreInit
    /\ pc = [p \in Procs |-> "down"]
    /\ result = [p \in Procs |-> "none"]
    /\ run = [p \in Procs |-> 0]
    /\ writes = [p \in Procs |-> {}]
    /\ reads = [p \in Procs |-> [d \in Products |-> NoObject]]
    /\ outputs = [p \in Procs |-> [d \in Products |-> NoObject]]
    /\ inputs = [p \in Procs |-> [d \in Products |-> NoObject]]
    /\ given = [p \in Procs |-> [d \in Products |-> NoObject]]
    /\ cur = [p \in Procs |-> NoKey]
    /\ hash = [p \in Procs |-> [d \in Products |-> NoFile]]
    /\ loc = [p \in Procs |-> NoLocation]
    /\ obj = [p \in Procs |-> NoObject]
    /\ faults = 0
    /\ written = 0

-----------------------------------------------------------------------------
(* What the steps are made of *)

Goto(p, to) == pc' = [pc EXCEPT ![p] = to]

Step(p, from, to) == pc[p] = from /\ Goto(p, to)

(* The local variables of finalise, or of one iteration, go out of scope.  *)
DropLocals(p) ==
    /\ loc' = [loc EXCEPT ![p] = NoLocation]
    /\ obj' = [obj EXCEPT ![p] = NoObject]

(* An exception leaves finalise; the Config stays as it is at that point.  *)
Throw(p) ==
    /\ Goto(p, "ready")
    /\ result' = [result EXCEPT ![p] = "error"]
    /\ cur' = [cur EXCEPT ![p] = NoKey]
    /\ DropLocals(p)

UseFault ==
    /\ faults < MaxFaults
    /\ faults' = faults + 1

(* The registry committed a request, its answer was lost or unusable, and  *)
(* post_patch_request threw rest_apiquery_error.                           *)
LoseReply(p) == UseFault /\ Throw(p)

Least(S) == CHOOSE d \in S : \A e \in S : d <= e

(* finalise copies reads_ into inputs_, which it never clears.             *)
MergeReads(p) ==
    inputs' = [inputs EXCEPT ![p] =
        [d \in Products |-> IF reads[p][d] = NoObject THEN @[d] ELSE reads[p][d]]]

(* The loop over writes_ goes to the least of the keys left, or is over.   *)
Iterate(p, rest) ==
    IF rest = {}
    THEN /\ Goto(p, "patch")
         /\ cur' = [cur EXCEPT ![p] = NoKey]
         /\ MergeReads(p)
    ELSE /\ Goto(p, "hash")
         /\ cur' = [cur EXCEPT ![p] = Least(rest)]
         /\ UNCHANGED inputs

Recorded(f) == {f[d] : d \in Products} \ {NoObject}

-----------------------------------------------------------------------------
(* The program: Configs, links, files *)

(* A Config is made: its code run is posted.                               *)
Start(p) ==
    /\ Step(p, "down", "ready")
    /\ Len(codeRuns) < MaxRuns
    /\ PostCodeRun
    /\ run' = [run EXCEPT ![p] = Len(codeRuns) + 1]
    /\ UNCHANGED <<fileVars, result, writes, reads, outputs, inputs, given, callVars, bounds>>

(* The process dies, anywhere; another Config starts from nothing.         *)
Crash(p) ==
    /\ pc[p] # "down"
    /\ UseFault
    /\ Goto(p, "down")
    /\ ForgetTemps(p)
    /\ result' = [result EXCEPT ![p] = "none"]
    /\ run' = [run EXCEPT ![p] = 0]
    /\ writes' = [writes EXCEPT ![p] = {}]
    /\ reads' = [reads EXCEPT ![p] = [d \in Products |-> NoObject]]
    /\ outputs' = [outputs EXCEPT ![p] = [d \in Products |-> NoObject]]
    /\ inputs' = [inputs EXCEPT ![p] = [d \in Products |-> NoObject]]
    /\ given' = [given EXCEPT ![p] = [d \in Products |-> NoObject]]
    /\ hash' = [hash EXCEPT ![p] = [d \in Products |-> NoFile]]
    /\ cur' = [cur EXCEPT ![p] = NoKey]
    /\ DropLocals(p)
    /\ UNCHANGED <<registryVars, written>>

(* The directory is made for the use name; writes_[d] is overwritten when  *)
(* the key was linked before.  A key that is not in the write section      *)
(* throws and changes nothing.                                             *)
LinkWrite(p, d) ==
    /\ pc[p] = "ready"
    /\ d \in WriteNames[p]
    /\ NewTempFile(p, d, UseName[p][d])
    /\ writes' = [writes EXCEPT ![p] = @ \cup {d}]
    /\ result' = [result EXCEPT ![p] = "none"]
    /\ UNCHANGED <<registryVars, pc, run, reads, outputs, inputs, given, callVars, bounds>>

(* The program writes the file at the path link_write gave it.             *)
ProgramWrite(p, d, c) ==
    /\ pc[p] = "ready"
    /\ d \in writes[p]
    /\ written < MaxWrites
    /\ written' = written + 1
    /\ WriteTemp(p, d, c)
    /\ result' = [result EXCEPT ![p] = "none"]
    /\ UNCHANGED <<registryVars, pc, configVars, callVars, faults>>

(* link_read looks into inputs_ first, under the literal name              *)
(* "data_product"; an entry there is given whatever was asked for.         *)
LinkReadCached(p, d) ==
    /\ pc[p] = "ready"
    /\ LiteralName \in Products
    /\ inputs[p][LiteralName] # NoObject
    /\ given' = [given EXCEPT ![p][d] = inputs[p][LiteralName]]
    /\ result' = [result EXCEPT ![p] = "none"]
    /\ UNCHANGED <<registryVars, fileVars, pc, run, writes, reads, outputs, inputs, callVars, bounds>>

(* Otherwise it goes from the namespace to the data product, its object,   *)
(* the object's component, its location and the root.  A row that is       *)
(* missing, or a key that is not in the read section, throws.              *)
LinkReadQuery(p, d) ==
    /\ pc[p] = "ready"
    /\ LiteralName \in Products => inputs[p][LiteralName] = NoObject
    /\ d \in ReadNames[p]
    /\ LET n == UseName[p][d] IN
       /\ NamespaceOf[n] \in namespaces
       /\ HasProduct(n)
       /\ reads' = [reads EXCEPT ![p][d] = dataProducts[n]]
       /\ given' = [given EXCEPT ![p][d] = dataProducts[n]]
    /\ result' = [result EXCEPT ![p] = "none"]
    /\ UNCHANGED <<registryVars, fileVars, pc, run, writes, outputs, inputs, callVars, bounds>>

LinkRead(p, d) == LinkReadCached(p, d) \/ LinkReadQuery(p, d)

Finalise(p) ==
    /\ pc[p] = "ready"
    /\ Iterate(p, writes[p])
    /\ result' = [result EXCEPT ![p] = "none"]
    /\ UNCHANGED <<registryVars, fileVars, run, writes, reads, outputs, given, hash, loc, obj, bounds>>

-----------------------------------------------------------------------------
(* finalise, for the key d = cur[p]: the file *)

(* What a step leaves alone when it only moves finalise on.                *)
KeepCall == UNCHANGED <<result, cur, inputs>>

Keep == UNCHANGED <<run, writes, reads, given, written>>

(* Mutant: a hash computed by an earlier finalise is used again.           *)
HashStepCached(p) ==
    LET d == cur[p] IN
    /\ pc[p] = "hash"
    /\ \/ /\ temp[p][d] # NoFile
          /\ Goto(p, "find_location")
          /\ hash' = [hash EXCEPT ![p][d] = IF @ = NoFile THEN temp[p][d] ELSE @]
          /\ UNCHANGED <<result, cur, loc, obj>>
       \/ /\ temp[p][d] = NoFile
          /\ Throw(p)
          /\ UNCHANGED hash
    /\ Keep /\ UNCHANGED <<registryVars, fileVars, outputs, inputs, faults>>

(* Mutant: a key whose file is missing is skipped.                         *)
HashStepSkips(p) ==
    LET d == cur[p] IN
    /\ pc[p] = "hash"
    /\ \/ /\ temp[p][d] # NoFile
          /\ Goto(p, "find_location")
          /\ hash' = [hash EXCEPT ![p][d] = temp[p][d]]
          /\ UNCHANGED <<result, cur, inputs, loc, obj>>
       \/ /\ temp[p][d] = NoFile
          /\ Iterate(p, {e \in writes[p] : e > d})
          /\ UNCHANGED <<hash, result, loc, obj>>
    /\ Keep /\ UNCHANGED <<registryVars, fileVars, outputs, faults>>

(* The file must exist; its hash is computed.                              *)
HashStep(p) ==
    LET d == cur[p] IN
    /\ pc[p] = "hash"
    /\ \/ /\ temp[p][d] # NoFile
          /\ Goto(p, "find_location")
          /\ hash' = [hash EXCEPT ![p][d] = temp[p][d]]
          /\ UNCHANGED <<result, cur, loc, obj>>
       \/ /\ temp[p][d] = NoFile
          /\ Throw(p)
          /\ UNCHANGED hash
    /\ Keep /\ UNCHANGED <<registryVars, fileVars, outputs, inputs, faults>>

(* Mutant: the query forgets the hash.                                     *)
FindLocationAnyHash(p) ==
    LET found == {l \in locations : l.public = Public[p]} IN
    /\ pc[p] = "find_location"
    /\ \/ /\ \E l \in found : loc' = [loc EXCEPT ![p] = l]
          /\ Goto(p, "remove")
       \/ /\ found = {}
          /\ Goto(p, "rename")
          /\ UNCHANGED loc
    /\ KeepCall /\ Keep
    /\ UNCHANGED <<registryVars, fileVars, outputs, hash, obj, faults>>

(* Mutant: the location is registered before the file is moved there, as   *)
(* if the two were swapped.                                                *)
FindLocationPostsFirst(p) ==
    LET found == LocationsOf(hash[p][cur[p]], Public[p]) IN
    /\ pc[p] = "find_location"
    /\ \/ /\ \E l \in found : loc' = [loc EXCEPT ![p] = l]
          /\ Goto(p, "remove")
       \/ /\ found = {}
          /\ Goto(p, "post_location")
          /\ UNCHANGED loc
    /\ KeepCall /\ Keep
    /\ UNCHANGED <<registryVars, fileVars, outputs, hash, obj, faults>>

(* Is a file with this hash, and as public as this one, registered?        *)
FindLocation(p) ==
    LET found == LocationsOf(hash[p][cur[p]], Public[p]) IN
    /\ pc[p] = "find_location"
    /\ \/ /\ \E l \in found : loc' = [loc EXCEPT ![p] = l]
          /\ Goto(p, "remove")
       \/ /\ found = {}
          /\ Goto(p, "rename")
          /\ UNCHANGED loc
    /\ KeepCall /\ Keep
    /\ UNCHANGED <<registryVars, fileVars, outputs, hash, obj, faults>>

(* It is: the temporary file goes,                                         *)
RemoveStep(p) ==
    /\ Step(p, "remove", "get_root")
    /\ RemoveTemp(p, cur[p])
    /\ KeepCall /\ Keep
    /\ UNCHANGED <<registryVars, outputs, hash, loc, obj, faults>>

(* and the root of the registered location is fetched.                     *)
GetRoot(p) ==
    /\ Step(p, "get_root", "file_type")
    /\ KeepCall /\ Keep
    /\ UNCHANGED <<registryVars, fileVars, outputs, hash, loc, obj, faults>>

(* Mutant: the moved file is used without registering where it is.         *)
RenameStepUnregistered(p) ==
    LET d == cur[p] IN
    /\ Step(p, "rename", "file_type")
    /\ RenameTemp(p, d, d, hash[p][d])
    /\ loc' = [loc EXCEPT ![p] =
                  [name |-> d, hash |-> hash[p][d], public |-> Public[p]]]
    /\ KeepCall /\ Keep
    /\ UNCHANGED <<registryVars, outputs, hash, obj, faults>>

(* It is not: the file moves to the directory of the key, which exists     *)
(* when some link_write made it,                                           *)
RenameStep(p) ==
    LET d == cur[p] IN
    /\ Step(p, "rename", "post_location")
    /\ RenameTemp(p, d, d, hash[p][d])
    /\ KeepCall /\ Keep
    /\ UNCHANGED <<registryVars, outputs, hash, loc, obj, faults>>

(* link_write made another one (use.data_product is not the key): rename   *)
(* throws,                                                                 *)
RenameThrows(p) ==
    /\ pc[p] = "rename"
    /\ cur[p] \notin dirs
    /\ Throw(p)
    /\ Keep /\ UNCHANGED <<registryVars, fileVars, outputs, inputs, hash, faults>>

(* Mutant: the answer of the POST is not kept.                             *)
PostLocationStepForgets(p) ==
    LET l == [name |-> cur[p], hash |-> hash[p][cur[p]], public |-> Public[p]] IN
    /\ pc[p] = "post_location"
    /\ PostLocation(l)
    /\ \/ /\ Goto(p, "file_type")
          /\ UNCHANGED <<result, cur, loc, obj, faults>>
       \/ LoseReply(p)
    /\ Keep /\ UNCHANGED <<fileVars, outputs, inputs, hash>>

(* and its location is registered.                                         *)
PostLocationStep(p) ==
    LET l == [name |-> cur[p], hash |-> hash[p][cur[p]], public |-> Public[p]] IN
    /\ pc[p] = "post_location"
    /\ PostLocation(l)
    /\ \/ /\ Goto(p, "file_type")
          /\ loc' = [loc EXCEPT ![p] = l]
          /\ UNCHANGED <<result, cur, obj, faults>>
       \/ LoseReply(p)
    /\ Keep /\ UNCHANGED <<fileVars, outputs, inputs, hash>>

-----------------------------------------------------------------------------
(* finalise, for the key d = cur[p]: the rows *)

(* post_file_type queries by extension; the row is of no consequence here. *)
FileType(p) ==
    /\ Step(p, "file_type", "find_namespace")
    /\ KeepCall /\ Keep
    /\ UNCHANGED <<registryVars, fileVars, outputs, hash, loc, obj, faults>>

FindNamespace(p) ==
    /\ pc[p] = "find_namespace"
    /\ Goto(p, IF NamespaceOf[cur[p]] \in namespaces
               THEN "find_product" ELSE "post_namespace")
    /\ KeepCall /\ Keep
    /\ UNCHANGED <<registryVars, fileVars, outputs, hash, loc, obj, faults>>

PostNamespaceStep(p) ==
    /\ pc[p] = "post_namespace"
    /\ PostNamespace(NamespaceOf[cur[p]])
    /\ \/ /\ Goto(p, "find_product")
          /\ UNCHANGED <<result, cur, loc, obj, faults>>
       \/ LoseReply(p)
    /\ Keep /\ UNCHANGED <<fileVars, outputs, inputs, hash>>

(* Mutant: nobody asks whether the name is published already.              *)
FindProductUnasked(p) ==
    /\ Step(p, "find_product", "post_object")
    /\ KeepCall /\ Keep
    /\ UNCHANGED <<registryVars, fileVars, outputs, hash, loc, obj, faults>>

(* A row of this name decides which object is used, whatever it holds.     *)
FindProduct(p) ==
    LET n == cur[p] IN
    /\ pc[p] = "find_product"
    /\ \/ /\ HasProduct(n)
          /\ Goto(p, "get_object")
          /\ obj' = [obj EXCEPT ![p] = dataProducts[n]]
       \/ /\ ~ HasProduct(n)
          /\ Goto(p, "post_object")
          /\ UNCHANGED obj
    /\ KeepCall /\ Keep
    /\ UNCHANGED <<registryVars, fileVars, outputs, hash, loc, faults>>

GetObject(p) ==
    /\ Step(p, "get_object", "get_component")
    /\ KeepCall /\ Keep
    /\ UNCHANGED <<registryVars, fileVars, outputs, hash, loc, obj, faults>>

(* Mutant: the new object is given the id of the one before it.            *)
PostObjectStepOffByOne(p) ==
    /\ pc[p] = "post_object"
    /\ PostObject(loc[p])
    /\ \/ /\ Goto(p, "post_product")
          /\ obj' = [obj EXCEPT ![p] = IF Len(objects) = 0 THEN 1 ELSE Len(objects)]
          /\ UNCHANGED <<result, cur, loc, faults>>
       \/ LoseReply(p)
    /\ Keep /\ UNCHANGED <<fileVars, outputs, inputs, hash>>

PostObjectStep(p) ==
    /\ pc[p] = "post_object"
    /\ PostObject(loc[p])
    /\ \/ /\ Goto(p, "post_product")
          /\ obj' = [obj EXCEPT ![p] = Len(objects) + 1]
          /\ UNCHANGED <<result, cur, loc, faults>>
       \/ LoseReply(p)
    /\ Keep /\ UNCHANGED <<fileVars, outputs, inputs, hash>>

(* Mutant: a conflict is retried until the row refers to this object.      *)
PostProductStepRetries(p) ==
    LET n == cur[p] IN
    /\ pc[p] = "post_product"
    /\ PostProduct(n, obj[p])
    /\ \/ /\ Goto(p, IF dataProducts'[n] = obj[p] THEN "get_component" ELSE "post_product")
          /\ UNCHANGED <<result, cur, loc, obj, faults>>
       \/ LoseReply(p)
    /\ Keep /\ UNCHANGED <<fileVars, outputs, inputs, hash>>

(* A conflict is answered with a query that names the new object too: it   *)
(* finds nothing, nobody looks, and finalise goes on with its own object.  *)
PostProductStep(p) ==
    /\ pc[p] = "post_product"
    /\ PostProduct(cur[p], obj[p])
    /\ \/ /\ Goto(p, "get_component")
          /\ UNCHANGED <<result, cur, loc, obj, faults>>
       \/ LoseReply(p)
    /\ Keep /\ UNCHANGED <<fileVars, outputs, inputs, hash>>

(* The component of the object becomes this key's output.                  *)
GetComponent(p) ==
    LET d == cur[p] IN
    /\ pc[p] = "get_component"
    /\ outputs' = [outputs EXCEPT ![p][d] = obj[p]]
    /\ Iterate(p, {e \in writes[p] : e > d})
    /\ DropLocals(p)
    /\ Keep /\ UNCHANGED <<registryVars, fileVars, result, hash, faults>>

(* The code run is told its outputs and inputs, and finalise returns.      *)
Patch(p) ==
    /\ pc[p] = "patch"
    /\ PatchCodeRun(run[p], Recorded(outputs[p]), Recorded(inputs[p]))
    /\ \/ /\ Goto(p, "ready")
          /\ result' = [result EXCEPT ![p] = "ok"]
          /\ UNCHANGED <<cur, loc, obj, faults>>
       \/ LoseReply(p)
    /\ Keep /\ UNCHANGED <<fileVars, outputs, inputs, hash>>

(* Mutant: inputs are sent only along with outputs.                        *)
PatchRefusedWithoutOutputs(p) ==
    /\ pc[p] = "patch"
    /\ Recorded(outputs[p]) = {}
    /\ Throw(p)
    /\ Keep /\ UNCHANGED <<registryVars, fileVars, outputs, inputs, hash, faults>>

(* With nothing to tell, the body of the request is the text null, which   *)
(* the registry may refuse: then finalise throws.                          *)
PatchRefused(p) ==
    /\ pc[p] = "patch"
    /\ Recorded(outputs[p]) \cup Recorded(inputs[p]) = {}
    /\ Throw(p)
    /\ Keep /\ UNCHANGED <<registryVars, fileVars, outputs, inputs, hash, faults>>

(* A request, or a file operation, of finalise that fails with no effect.  *)
Fail(p) ==
    /\ pc[p] \in FinalisePCs
    /\ LoseReply(p)
    /\ Keep /\ UNCHANGED <<registryVars, fileVars, outputs, inputs, hash>>

-----------------------------------------------------------------------------

FinaliseStep(p) ==
    \/ HashStep(p) \/ FindLocation(p) \/ RemoveStep(p) \/ GetRoot(p)
    \/ RenameStep(p) \/ RenameThrows(p) \/ PostLocationStep(p) \/ FileType(p)
    \/ FindNamespace(p) \/ PostNamespaceStep(p) \/ FindProduct(p) \/ GetObject(p)
    \/ PostObjectStep(p) \/ PostProductStep(p) \/ GetComponent(p) \/ Patch(p)
    \/ PatchRefused(p)

ProgramStep(p) ==
    \/ Start(p) \/ Crash(p) \/ Finalise(p) \/ Fail(p)
    \/ \E d \in Products :
          \/ LinkWrite(p, d)
          \/ LinkRead(p, d)
          \/ \E c \in Contents : ProgramWrite(p, d, c)

Next == \E p \in Procs : FinaliseStep(p) \/ ProgramStep(p)

Spec == Init /\ [][Next]_vars

(* finalise waits for nobody: every request returns or throws, no lock is  *)
(* taken, so a call that has begun goes on.  Nothing makes a program call  *)
(* finalise, and nothing makes a request fail.                             *)
FairSpec == Spec /\ \A p \in Procs : WF_vars(FinaliseStep(p))

-----------------------------------------------------------------------------
(* Safety *)

Stored(l) == store[l.name][l.hash] = l.hash

(* Every storage location in the registry names a file that is in the data *)
(* store and has the hash the row gives, whoever crashed where: finalise   *)
(* moves the file before it posts the row and nothing replaces it later.   *)
RegisteredFilesStored == \A l \in locations : Stored(l)

(* No row dangles: objects refer to registered locations, data products    *)
(* and code runs to objects that exist.                                    *)
ReferencesResolve ==
    /\ \A i \in 1 .. Len(objects) : objects[i] \in locations
    /\ \A n \in Names : dataProducts[n] <= Len(objects)
    /\ \A r \in 1 .. Len(codeRuns) :
          \A i \in codeRuns[r].outputs \cup codeRuns[r].inputs : i <= Len(objects)

(* The path link_read gave a program stays good for as long as the program *)
(* lives: the file is there, and it is the one the registry has under the  *)
(* name that was asked for, whatever other processes register meanwhile.   *)
LinkedReadsStayGood ==
    \A p \in Procs, d \in Products : given[p][d] # NoObject =>
        /\ Stored(objects[given[p][d]])
        /\ given[p][d] = dataProducts[UseName[p][d]]

(* When finalise has returned, the code run lists an output for every key  *)
(* that was linked for writing and every object that was linked for        *)
(* reading, and each written file is registered with the hash it had.      *)
SuccessIsComplete ==
    \A p \in Procs : result[p] = "ok" =>
        /\ \A d \in writes[p] :
              /\ outputs[p][d] # NoObject
              /\ outputs[p][d] \in codeRuns[run[p]].outputs
              /\ LocationsOf(hash[p][d], Public[p]) # {}
        /\ Recorded(reads[p]) \subseteq codeRuns[run[p]].inputs

(* finalise takes a temporary file away only when its content is in the    *)
(* store: an exception, a crash or a race leaves every content somewhere.  *)
NoContentLost ==
    [][\A p \in Procs, d \in Products :
          (pc[p] \in FinalisePCs /\ pc'[p] # "down" /\ temp[p][d] # NoFile
             /\ temp'[p][d] = NoFile)
          => \E n \in Names : store'[n][temp[p][d]] = temp[p][d]]_vars

(* A file in the store is never changed and never removed, though several  *)
(* processes may move a file to the same place.                            *)
StoreIsWriteOnce ==
    [][\A n \in Names, h \in Contents :
          store[n][h] # NoFile => store'[n][h] = store[n][h]]_vars

(* A name is first published with the content its publisher hashed for it. *)
PublishesWhatWasWritten ==
    [][\A n \in Names : (dataProducts[n] # dataProducts'[n]) =>
          \E p \in Procs : /\ pc[p] = "post_product"
                           /\ cur[p] = n
                           /\ objects[dataProducts'[n]].hash = hash[p][n]]_vars

(* What a finalise that returned lists for a key is the object that the    *)
(* name is published with, or one with the content it hashed: who loses a  *)
(* race for the name (config.cxx:717) lists at least what it wrote, though *)
(* others post objects and publish between its requests.                   *)
ListsWhatWasWritten ==
    \A p \in Procs : result[p] = "ok" =>
        \A d \in writes[p] :
            \/ outputs[p][d] = dataProducts[d]
            \/ objects[outputs[p][d]].hash = hash[p][d]

(* A retry does not know what an earlier try has done, but it asks: calls  *)
(* that are repeated, for files written again too, post one object for     *)
(* each process and name in all, and one more for each request or process  *)
(* that failed between the POSTs of the object and of the data product.    *)
RetriesCostOneObject ==
    Len(objects) <= Cardinality(Procs) * Cardinality(Products) + faults

-----------------------------------------------------------------------------
(* The inductive invariant of the proofs (PipelineProofs): TypeOK and      *)
(* RegisteredFilesStored, and what finalise knows at each of its steps.    *)

LoopPCs == FinalisePCs \ {"patch"}

(* The hash is computed and the temporary file still has that content.     *)
HashedPCs == {"find_location", "remove", "rename"}

(* A registered location for the content is known.                         *)
LocatedPCs ==
    {"remove", "get_root", "file_type", "find_namespace", "post_namespace",
     "find_product", "get_object", "post_object", "post_product", "get_component"}

LocalOK(p) ==
    /\ pc[p] \in LoopPCs => cur[p] \in writes[p]
    /\ pc[p] \in LoopPCs \ {"hash"} => hash[p][cur[p]] \in Contents
    /\ pc[p] \in HashedPCs => temp[p][cur[p]] = hash[p][cur[p]]
    /\ pc[p] = "post_location" =>
          store[cur[p]][hash[p][cur[p]]] = hash[p][cur[p]]
    /\ pc[p] \in LocatedPCs =>
          loc[p] \in locations /\ loc[p].hash = hash[p][cur[p]]

ContentAddressed ==
    \A n \in Names, h \in Contents : store[n][h] \in {NoFile, h}

IInv ==
    /\ TypeOK
    /\ ContentAddressed
    /\ RegisteredFilesStored
    /\ \A p \in Procs : LocalOK(p)

-----------------------------------------------------------------------------
(* Liveness *)

(* A call of finalise ends: it returns, throws, or its process dies.       *)
FinaliseEnds ==
    \A p \in Procs : pc[p] \in FinalisePCs ~> pc[p] \in {"ready", "down"}

(* Every file was written, for keys without another name to use.           *)
AllWritten(p) == \A d \in writes[p] : temp[p][d] # NoFile /\ UseName[p][d] = d

(* While nothing fails, a finalise that finds every file written and has   *)
(* something to record succeeds, whatever other processes register at the  *)
(* same time: one that only reads, too.                                    *)
FinaliseSucceeds ==
    \A p \in Procs :
        \/ pc[p] = "hash" /\ cur[p] = Least(writes[p]) /\ AllWritten(p)
        \/ pc[p] = "patch" /\ Recorded(inputs[p]) # {}
        ~> result[p] = "ok" \/ faults > 0

-----------------------------------------------------------------------------
(* What the documentation says and the code does not do: each is checked   *)
(* by a run that finds it violated.                                        *)

(* The output a code run lists is the data product the registry has under  *)
(* that name (fdp.h: finalise records all data products to the registry).  *)
OutputsArePublished ==
    \A p \in Procs : result[p] = "ok" =>
        \A d \in writes[p] : outputs[p][d] = dataProducts[d]

(* A written data product is registered under the name to be used for it.  *)
PublishedUnderUseName ==
    \A p \in Procs : result[p] = "ok" =>
        \A d \in writes[p] : dataProducts[UseName[p][d]] # NoObject

(* link_read gives the file of the data product it is asked for.           *)
LinkReadGivesWhatWasAsked ==
    \A p \in Procs, d \in Products : given[p][d] # NoObject =>
        given[p][d] = dataProducts[UseName[p][d]]

=============================================================================

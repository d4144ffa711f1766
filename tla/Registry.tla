------------------------------ MODULE Registry ------------------------------
(***************************************************************************)
(* The FAIR data registry as the pipeline API uses it: tables of rows that *)
(* are only ever added, reached by GET queries and by POST and PATCH       *)
(* requests (src/src/registry/api.cxx).  The registry itself is a separate *)
(* service, so everything here is external: it is modelled from the        *)
(* queries config.cxx sends and from the answers it relies on.             *)
(*                                                                         *)
(* Two facts about POST matter.  A POST of a row that exists answers 409   *)
(* and changes nothing; the client then queries for exactly the row it     *)
(* posted.  Namespaces and storage locations are unique on all the fields  *)
(* posted, so for them that pair of requests is "get or create".  A data   *)
(* product is unique on its name alone, whatever object it refers to.      *)
(***************************************************************************)
EXTENDS Vocabulary, Naturals, Sequences

CONSTANTS
    Namespaces,   \* namespaces
    NamespaceOf   \* the namespace a name belongs to

ASSUME RegistryConstants == NamespaceOf \in [Names -> Namespaces]

NoObject == 0

(* A row of storage_location.  Its path is <namespace>/<name>/<hash>.<ext>; *)
(* the extension is left out and there is one storage root.                *)
Location == [name : Names, hash : Contents, public : BOOLEAN]

CodeRun == [outputs : SUBSET Nat, inputs : SUBSET Nat]

VARIABLES
    namespaces,   \* the namespaces that have a row
    locations,    \* the rows of storage_location
    objects,      \* objects[i]: the storage location object i refers to
    dataProducts, \* dataProducts[n]: the object the row named n refers to,
                  \* NoObject when there is no such row
    codeRuns      \* codeRuns[r]: the outputs and inputs code run r lists

registryVars == <<namespaces, locations, objects, dataProducts, codeRuns>>

RegistryTypeOK ==
    /\ namespaces \in SUBSET Namespaces
    /\ locations \in SUBSET Location
    /\ objects \in Seq(Location)
    /\ dataProducts \in [Names -> Nat]
    /\ codeRuns \in Seq(CodeRun)

RegistryInit ==
    /\ namespaces = {}
    /\ locations = {}
    /\ objects = <<>>
    /\ dataProducts = [n \in Names |-> NoObject]
    /\ codeRuns = <<>>

-----------------------------------------------------------------------------
(* Queries *)

(* GET storage_location?hash=&public=&storage_root=: any matching row may   *)
(* come first in the answer.                                               *)
LocationsOf(hash, public) ==
    {l \in locations : l.hash = hash /\ l.public = public}

(* GET data_product?name=&version=&namespace= *)
HasProduct(n) == dataProducts[n] # NoObject

-----------------------------------------------------------------------------
(* Requests that change a table *)

PostNamespace(ns) ==
    /\ namespaces' = namespaces \cup {ns}
    /\ UNCHANGED <<locations, objects, dataProducts, codeRuns>>

PostLocation(l) ==
    /\ locations' = locations \cup {l}
    /\ UNCHANGED <<namespaces, objects, dataProducts, codeRuns>>

(* Objects have no unique key: every POST makes one more.                  *)
PostObject(l) ==
    /\ objects' = Append(objects, l)
    /\ UNCHANGED <<namespaces, locations, dataProducts, codeRuns>>

(* The first row for a name stays; a later POST is answered 409.           *)
PostProduct(n, i) ==
    /\ dataProducts' = [dataProducts EXCEPT ![n] = IF @ = NoObject THEN i ELSE @]
    /\ UNCHANGED <<namespaces, locations, objects, codeRuns>>

PostCodeRun ==
    /\ codeRuns' = Append(codeRuns, [outputs |-> {}, inputs |-> {}])
    /\ UNCHANGED <<namespaces, locations, objects, dataProducts>>

(* PATCH code_run/r replaces the lists of outputs and inputs.              *)
PatchCodeRun(r, outs, ins) ==
    /\ codeRuns' = [codeRuns EXCEPT ![r] = [outputs |-> outs, inputs |-> ins]]
    /\ UNCHANGED <<namespaces, locations, objects, dataProducts>>

=============================================================================

------------------------------ MODULE ApiClient ------------------------------
(***************************************************************************)
(* API::post (src/src/registry/api.cxx) against the registry's tables: a   *)
(* POST that the registry answers 201, 409 or with another code, and after *)
(* 409 a GET that queries for exactly the fields that were posted.         *)
(*                                                                         *)
(* The tables are the registry's, a separate service: a row gets the next  *)
(* id, and a table may have a unique key.  The key may be narrower than    *)
(* the fields posted; the GET then finds nothing, and post returns null,   *)
(* which is not an error to it.                                            *)
(***************************************************************************)
EXTENDS Naturals, Sequences

CONSTANTS
    Clients,     \* processes, each with one request under way at most
    Tables,
    Keys,        \* the unique keys the registry's tables may have: functions
                 \* from tables to sets of fields, {} for a table without one
    MaxFaults    \* bound: requests that fail, and crashes

ASSUME ClientConstants ==
    /\ \A k \in Keys : DOMAIN k = Tables
    /\ MaxFaults \in Nat

VARIABLES
    key,         \* key[t]: the fields that are unique in t, never changes
    tables,      \* tables[t]: the rows of t, by id
    conflict,    \* conflict[p]: post_data of p's call of post when it was
                 \* answered 409, NoRow otherwise
    faults       \* faults so far

clientVars == <<key, tables, conflict, faults>>

Null == 0
NoRow == [none |-> TRUE]

ClientInit ==
    /\ key \in Keys
    /\ tables = [t \in Tables |-> <<>>]
    /\ conflict = [p \in Clients |-> NoRow]
    /\ faults = 0

Ids(t) == 1 .. Len(tables[t])

(* The rows of t that agree with r on the key of t.                        *)
Conflicting(t, r) ==
    {i \in Ids(t) : key[t] # {} /\ \A f \in key[t] : tables[t][i][f] = r[f]}

(* A field that should hold the URL of a row is empty.                     *)
RefFields == {"storage_root", "storage_location", "code_repo", "model_config",
              "submission_script"}

HasNullReference(r) == \E f \in DOMAIN r \cap RefFields : r[f] = Null

UseFault ==
    /\ faults < MaxFaults
    /\ faults' = faults + 1

EndCall(p) == conflict' = [conflict EXCEPT ![p] = NoRow]

-----------------------------------------------------------------------------

(* POST r to t: 201, the row is there.                                     *)
Created(p, t, r) ==
    /\ conflict[p] = NoRow
    /\ ~ HasNullReference(r)
    /\ Conflicting(t, r) = {}
    /\ tables' = [tables EXCEPT ![t] = Append(@, r)]
    /\ UNCHANGED <<key, conflict>>

(* Mutant: a conflict is tried again until it goes away.                   *)
ConflictsRetried(p, t, r) ==
    /\ conflict[p] = NoRow
    /\ ~ HasNullReference(r)
    /\ Conflicting(t, r) # {}
    /\ UNCHANGED clientVars

(* 409: post goes on to ask for the entry that exists.                     *)
Conflicts(p, t, r) ==
    /\ conflict[p] = NoRow
    /\ ~ HasNullReference(r)
    /\ Conflicting(t, r) # {}
    /\ conflict' = [conflict EXCEPT ![p] = r]
    /\ UNCHANGED <<key, tables, faults>>

(* The registry has no use for the row, and post throws.                   *)
Refused(p, t, r) ==
    /\ conflict[p] = NoRow
    /\ HasNullReference(r)
    /\ UNCHANGED clientVars

(* Mutant: the entry in conflict is returned, whatever else it holds.      *)
EntryByKey(p, t) == CHOOSE i \in Conflicting(t, conflict[p]) : TRUE

(* Mutant: the entry is not found in the answer.                           *)
EntryMissed(p, t) == Null

(* What post returns after 409: the first entry with every posted field.   *)
Entry(p, t) ==
    LET found == {i \in Ids(t) : tables[t][i] = conflict[p]}
    IN  IF found = {} THEN Null ELSE CHOOSE i \in found : \A j \in found : i <= j

Queried(p) ==
    /\ conflict[p] # NoRow
    /\ EndCall(p)
    /\ UNCHANGED <<key, tables, faults>>

(* A request gets no response, or one that is not JSON, and post throws.   *)
CallFails(p) ==
    /\ UseFault
    /\ EndCall(p)
    /\ UNCHANGED <<key, tables>>
=============================================================================

-------------------------------- MODULE CApi --------------------------------
(***************************************************************************)
(* The C interface (src/src/fdp_c_api.cxx) over the C++ pipeline           *)
(* (src/src/fdp.cxx): the life of the FdpDataPipeline structs a program    *)
(* holds pointers to, the shared pointers both languages may hold, the     *)
(* checks and the copy of the link functions, and the logging functions.   *)
(*                                                                         *)
(* A C++ pipeline is reduced to what the C functions show of it: which     *)
(* keys were linked for writing and which of their temporary files exist.  *)
(* Pipeline models what its finalise does.                                 *)
(***************************************************************************)
EXTENDS Logging

CONSTANTS
    Handles,     \* variables of type FdpDataPipeline* in the program
    Products,    \* keys of the write section of its config.yaml
    LinkArgs,  \* what it passes to the link functions: the address of a name,
               \* its length without terminator, a buffer's address and size
    NameLimit, \* 4096: names with no terminator within it are refused
    LinkLengths, \* the lengths a path of the data store can have
    MaxInits     \* bound: pipelines made in all

ASSUME CApiConstants ==
    /\ \A a \in LinkArgs : {a.name, a.length, a.buffer, a.size} \subseteq Nat
    /\ NameLimit \in Nat /\ LinkLengths \subseteq Nat
    /\ MaxInits \in Nat

VARIABLES
    handle,    \* handle[h]: the struct h points to, or NULL
    structs,   \* the structs that are allocated, each named by its pipeline
    shared,    \* the pipelines that C++ code holds a shared pointer to
    linked,    \* linked[i]: the keys pipeline i has in writes_
    given,     \* given[i]: those whose path the program got
    files,     \* files[i]: those whose temporary file exists
    inits,     \* pipelines made so far; the last one is number inits
    last       \* the last call: its function, its variable and what that
               \* pointed to before, the error code, and what the copy of a
               \* link function did
apiVars == <<handle, structs, shared, linked, given, files, inits, last>>
vars == <<apiVars, logVars>>

NULL == 0
Pipelines == 1 .. MaxInits

Functions == {"none", "init", "finalise", "link_read", "link_write", "other"}
ErrorCodes == {"NONE", "CONFIG_PARSE", "REST_API_QUERY", "OTHER"}

Call(fn, h, was, err) ==
    [fn |-> fn, handle |-> h, was |-> was, err |-> err, clash |-> FALSE, cut |-> FALSE]

Init ==
    /\ handle = [h \in Handles |-> NULL]
    /\ structs = {}
    /\ shared = {}
    /\ linked = [i \in Pipelines |-> {}]
    /\ given = [i \in Pipelines |-> {}]
    /\ files = [i \in Pipelines |-> {}]
    /\ inits = 0
    /\ last = Call("none", NULL, NULL, "NONE")
    /\ LoggingInit

-----------------------------------------------------------------------------

(* The codes of what the pipeline's functions throw.  Of the exceptions    *)
(* that have a code of their own only these two are ever thrown by them;   *)
(* std::runtime_error, filesystem_error and the like are OTHER.            *)
exception_to_err_code(fn) ==
    CASE fn \in {"init", "link_read"} -> {"CONFIG_PARSE", "REST_API_QUERY", "OTHER"}
      [] fn = "finalise" -> {"REST_API_QUERY", "OTHER"}
      [] fn = "link_write" -> {"CONFIG_PARSE", "OTHER"}

(* The constructor returns a pipeline, or throws.  The variable is set     *)
(* either way, whatever it pointed to.  The path of the config file is not *)
(* null: of a null pointer fdp_c_api.cxx:141 makes a string before the     *)
(* call that turns exceptions into error codes.                            *)
fdp_init(h) ==
    /\ \/ /\ inits < MaxInits
          /\ inits' = inits + 1
          /\ structs' = structs \cup {inits + 1}
          /\ handle' = [handle EXCEPT ![h] = inits + 1]
          /\ last' = Call("init", h, handle[h], "NONE")
       \/ \E err \in exception_to_err_code("init") :
             /\ handle' = [handle EXCEPT ![h] = NULL]
             /\ last' = Call("init", h, handle[h], err)
             /\ UNCHANGED <<inits, structs>>
    /\ UNCHANGED <<shared, linked, given, files>> /\ Logs

(* Mutant: a key without a file is passed over.                            *)
FinaliseSkips(i) == files' = [files EXCEPT ![i] = {}]

(* Config::finalise of pipeline i: every linked key must have its file,    *)
(* which it then takes away; when it throws, some may be gone already.     *)
FinaliseReturns(i) ==
    /\ linked[i] \subseteq files[i]
    /\ files' = [files EXCEPT ![i] = {}]

FinaliseThrows(i) ==
    \E rest \in SUBSET files[i] : files' = [files EXCEPT ![i] = rest]

(* Mutant: the variable is set to null whatever finalise did.              *)
PointerForgotten(h, err) == NULL

(* Mutant: the variable is not set to null.                                *)
PointerKept(h, err) == handle[h]

(* What the variable points to when fdp_finalise returns err.              *)
PointerAfter(h, err) == IF err = "NONE" THEN NULL ELSE handle[h]

fdp_finalise(h) ==
    LET i == handle[h] IN
    /\ \E err \in ErrorCodes :
          /\ last' = Call("finalise", h, i, err)
          /\ handle' = [handle EXCEPT ![h] = PointerAfter(h, err)]
          /\ \/ i = NULL /\ err = "OTHER" /\ UNCHANGED <<structs, files>>
             \/ i # NULL /\ err = "NONE" /\ FinaliseReturns(i) /\ structs' = structs \ {i}
             \/ /\ i # NULL /\ err \in exception_to_err_code("finalise")
                /\ FinaliseThrows(i)
                /\ UNCHANGED structs
    /\ UNCHANGED <<shared, linked, given, inits>> /\ Logs

-----------------------------------------------------------------------------
(* fdp_link_read and fdp_link_write *)

Greater(a, b) == IF a > b THEN a ELSE b
Lesser(a, b) == IF a < b THEN a ELSE b

(* Mutant: the terminator of the name is left out of the comparison.       *)
OverlapsOpen(a) ==
    Greater(a.name, a.buffer) < Lesser(a.name + a.length, a.buffer + a.size)

(* _fdp_link's test on the name and the buffer.                            *)
Overlaps(a) ==
    Greater(a.name, a.buffer) <= Lesser(a.name + a.length, a.buffer + a.size)

Fits(length, size) == length < size

(* The bytes of the name with its terminator, and of the whole buffer,     *)
(* which strncpy fills.                                                    *)
NameBytes(a) == a.name .. a.name + a.length
BufferBytes(a) == {a.buffer + k : k \in 0 .. a.size} \ {a.buffer + a.size}

(* The checks _fdp_link makes before it calls the pipeline.                *)
Refused(i, a) ==
    \/ i = NULL \/ a.name = NULL \/ a.buffer = NULL \/ a.size = 0
    \/ a.length >= NameLimit
    \/ Overlaps(a)

(* What _fdp_link returns of an answer of the pipeline, copied or too long.*)
Copied(fn, h, a, answer) ==
    IF Fits(answer, a.size)
    THEN [Call(fn, h, handle[h], "NONE") EXCEPT
             !.clash = NameBytes(a) \cap BufferBytes(a) # {},
             !.cut = answer + 1 > a.size]
    ELSE Call(fn, h, handle[h], "OTHER")

(* The call is refused, or the pipeline's function throws: link_write for  *)
(* a key the config does not have or a directory it cannot make, link_read *)
(* also for a query that fails.                                            *)
LinkFails(fn, h, a) ==
    /\ \E err \in ErrorCodes :
          /\ last' = Call(fn, h, handle[h], err)
          /\ IF Refused(handle[h], a)
             THEN err = "OTHER" ELSE err \in exception_to_err_code(fn)
    /\ UNCHANGED <<linked, given, files>>

(* link_write is called before the length of its answer is known, so an    *)
(* answer that does not fit is linked all the same.                        *)
fdp_link_write(h, d, a, answer) ==
    LET i == handle[h] IN
    /\ \/ LinkFails("link_write", h, a)
       \/ /\ ~ Refused(i, a)
          /\ linked' = [linked EXCEPT ![i] = @ \cup {d}]
          /\ files' = [files EXCEPT ![i] = @ \ {d}]
          /\ given' = [given EXCEPT ![i] = IF Fits(answer, a.size) THEN @ \cup {d} ELSE @ \ {d}]
          /\ last' = Copied("link_write", h, a, answer)
    /\ UNCHANGED <<handle, structs, shared, inits>> /\ Logs

(* What link_read keeps in the pipeline does not show in C.                *)
fdp_link_read(h, a, answer) ==
    /\ \/ LinkFails("link_read", h, a)
       \/ /\ ~ Refused(handle[h], a)
          /\ last' = Copied("link_read", h, a, answer)
          /\ UNCHANGED <<linked, given, files>>
    /\ UNCHANGED <<handle, structs, shared, inits>> /\ Logs

-----------------------------------------------------------------------------
(* The program *)

Other == last' = Call("other", NULL, NULL, "NONE")

(* It writes the file at a path it was given.                              *)
WriteFile(i, d) ==
    /\ i \in structs \cup shared
    /\ d \in given[i]
    /\ files' = [files EXCEPT ![i] = @ \cup {d}]
    /\ Other
    /\ UNCHANGED <<handle, structs, shared, linked, given, inits, logVars>>

(* Its C++ part takes a shared pointer out of a struct.                    *)
from_c_struct(h) ==
    /\ handle[h] # NULL
    /\ shared' = shared \cup {handle[h]}
    /\ Other
    /\ UNCHANGED <<handle, structs, linked, given, files, inits, logVars>>

(* It puts one into a struct of its own; a pipeline has one at a time here. *)
to_c_struct(h, i) ==
    /\ i \in shared \ structs
    /\ handle[h] = NULL
    /\ structs' = structs \cup {i}
    /\ handle' = [handle EXCEPT ![h] = i]
    /\ Other
    /\ UNCHANGED <<shared, linked, given, files, inits, logVars>>

(* It deletes a struct itself, and forgets the pointer it had.             *)
delete_c_struct(h) ==
    /\ handle[h] # NULL
    /\ structs' = structs \ {handle[h]}
    /\ handle' = [handle EXCEPT ![h] = NULL]
    /\ Other
    /\ UNCHANGED <<shared, linked, given, files, inits, logVars>>

(* The C++ part finalises the pipeline it holds.                           *)
DataPipeline_finalise(i) ==
    /\ i \in shared
    /\ FinaliseReturns(i) \/ FinaliseThrows(i)
    /\ Other
    /\ UNCHANGED <<handle, structs, shared, linked, given, inits>> /\ Logs

DropShared(i) ==
    /\ i \in shared
    /\ shared' = shared \ {i}
    /\ Other
    /\ UNCHANGED <<handle, structs, linked, given, files, inits, logVars>>

Next ==
    \/ \E h \in Handles :
          \/ fdp_init(h) \/ fdp_finalise(h) \/ from_c_struct(h) \/ delete_c_struct(h)
          \/ \E a \in LinkArgs, answer \in LinkLengths :
                \/ fdp_link_read(h, a, answer)
                \/ \E d \in Products : fdp_link_write(h, d, a, answer)
    \/ \E i \in Pipelines :
          \/ DataPipeline_finalise(i) \/ DropShared(i)
          \/ \E h \in Handles : to_c_struct(h, i)
          \/ \E d \in Products : WriteFile(i, d)
    \/ LoggingNext /\ UNCHANGED apiVars

Spec == Init /\ [][Next]_vars

-----------------------------------------------------------------------------

(* The types; a pointer that is not null points to an allocated struct.    *)
TypeOK ==
    /\ LoggingTypeOK
    /\ structs \subseteq Pipelines /\ shared \subseteq Pipelines
    /\ handle \in [Handles -> structs \cup {NULL}]
    /\ linked \in [Pipelines -> SUBSET Products]
    /\ given \in [Pipelines -> SUBSET Products]
    /\ files \in [Pipelines -> SUBSET Products]
    /\ inits \in 0 .. MaxInits
    /\ last.fn \in Functions /\ last.err \in ErrorCodes

(* A link function that reports success has not written over the name it   *)
(* was passed, and its buffer holds the whole path with its terminator.    *)
CopyIsSafe == last.err = "NONE" => ~ last.clash /\ ~ last.cut

(* fdp_finalise reports success only when the program got the path of      *)
(* every key that is linked.  A buffer that was too short leaves a link    *)
(* whose path nobody knows, and finalise fails until the key is linked     *)
(* again; earlier links and files of the key do not help.                  *)
LostPathBlocksFinalise ==
    [][(last'.fn = "finalise" /\ last'.err = "NONE" /\ last'.was \in structs)
       => linked[last'.was] \subseteq given[last'.was]]_vars

(* Structs that nobody points to.                                          *)
Lost == structs \ {handle[h] : h \in Handles}

(* Only fdp_init loses a pipeline, when it is called on a variable that    *)
(* points to one; every other sequence of calls keeps it within reach.     *)
OnlyInitLosesPipelines ==
    [][~ (Lost' \subseteq Lost) => last'.fn = "init" /\ last'.was # NULL]_vars
=============================================================================

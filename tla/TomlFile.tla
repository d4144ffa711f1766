------------------------------ MODULE TomlFile ------------------------------
(***************************************************************************)
(* The TOML files that programs keep point estimates and distributions in  *)
(* (src/src/utilities/data_io.cxx, src/src/objects/distribution.cxx): one  *)
(* file, a table for each component, written by appending and read by      *)
(* parsing it anew for every question.                                     *)
(*                                                                         *)
(* No lock is taken: between the check for a component and the append, and *)
(* between the two times a reader parses the file, other processes write.  *)
(* An append is one write of the stream's buffer, in append mode.          *)
(***************************************************************************)
EXTENDS Naturals, Sequences

CONSTANTS
    Procs,
    Components,
    Values,
    Own,         \* Own[p]: the components process p writes
    MaxCalls,    \* bound: calls in all
    MaxFaults    \* bound: processes that die, and writes that are lost

ASSUME TomlConstants ==
    /\ Own \in [Procs -> SUBSET Components]
    /\ MaxCalls \in Nat /\ MaxFaults \in Nat

VARIABLES
    exists,      \* the file exists
    entries,     \* the tables in it
    pc,          \* pc[p]: "idle", or what p's call does next
    call,        \* call[p]: the function, component, type and value of p's
                 \* last call; the value is the one written or read
    seen,        \* seen[p]: the tables read_data_from_toml returned to p
    result,      \* result[p]: how p's last call ended
    calls,
    faults
vars == <<exists, entries, pc, call, seen, result, calls, faults>>

(* What a table holds.  Every distribution the library writes has the keys *)
(* and floating numbers that it asks for when it reads one.                *)
Types == {"point-estimate", "distribution"}
Entry == [component : Components, type : Types, value : Values]

Any == "any"
Unknown == "unknown"
Call == [fn : {"none", "write", "read"}, component : Components \cup {Any},
         type : Types \cup {"none"}, value : Values \cup {Unknown}]
NoCall == [fn |-> "none", component |-> Any, type |-> "none", value |-> Unknown]

Init ==
    /\ exists = FALSE
    /\ entries = <<>>
    /\ pc = [p \in Procs |-> "idle"]
    /\ call = [p \in Procs |-> NoCall]
    /\ seen = [p \in Procs |-> <<>>]
    /\ result = [p \in Procs |-> "none"]
    /\ calls = 0
    /\ faults = 0

-----------------------------------------------------------------------------

Tables(f) == {f[i] : i \in 1 .. Len(f)}

Holds(f, c) == \E e \in Tables(f) : e.component = c

(* toml::parse refuses a file in which a table is defined twice.           *)
Parses(f) == \A i, j \in 1 .. Len(f) : f[i].component = f[j].component => i = j

Empty == exists /\ entries = <<>>

Goto(p, to) == pc' = [pc EXCEPT ![p] = to]

(* What a reader comes to know: which component, and its value.            *)
Note(p, c, v) ==
    call' = [call EXCEPT ![p] = [fn |-> @.fn, component |-> c, type |-> @.type, value |-> v]]

(* The call returns, throws a toml_error, or an exception that is none of  *)
(* the library's: the parser's, the file system's or std::out_of_range.    *)
End(p, how) ==
    /\ Goto(p, "idle")
    /\ result' = [result EXCEPT ![p] = how]

(* A program calls write_point_estimate or Distribution::write_to_toml,    *)
(* read_point_estimate_from_toml or the constructor of Distribution, the   *)
(* latter two with or without a component.                                 *)
Begin(p, fn, c, t, v, to) ==
    /\ pc[p] = "idle"
    /\ calls < MaxCalls
    /\ calls' = calls + 1
    /\ call' = [call EXCEPT ![p] = [fn |-> fn, component |-> c, type |-> t, value |-> v]]
    /\ Goto(p, to)
    /\ result' = [result EXCEPT ![p] = "none"]
    /\ UNCHANGED <<exists, entries, seen, faults>>

CallWrite(p) ==
    \E c \in Own[p], t \in Types, v \in Values : Begin(p, "write", c, t, v, "check")

CallRead(p) ==
    \E t \in Types :
        \/ Begin(p, "read", Any, t, Unknown, "first")
        \/ \E c \in Components : Begin(p, "read", c, t, Unknown, "load")

-----------------------------------------------------------------------------
(* write_toml_data *)

(* Mutant: a component that exists is written again.                       *)
CheckSkipped(p) ==
    /\ pc[p] = "check"
    /\ Goto(p, "open")
    /\ UNCHANGED <<exists, entries, call, seen, result, calls, faults>>

(* Mutant: the file is opened before the check.                            *)
CheckOpened(p) ==
    /\ pc[p] = "check"
    /\ exists' = TRUE
    /\ \/ /\ entries = <<>>
          /\ End(p, "toml_error")
       \/ /\ entries # <<>>
          /\ Goto(p, "open")
          /\ UNCHANGED result
    /\ UNCHANGED <<entries, call, seen, calls, faults>>

(* component_exists: a file that is not there has no component, an empty   *)
(* one is an error.                                                        *)
Check(p) ==
    /\ pc[p] = "check"
    /\ \/ /\ ~ exists \/ (~ Empty /\ Parses(entries) /\ ~ Holds(entries, call[p].component))
          /\ Goto(p, "open")
          /\ UNCHANGED result
       \/ /\ exists /\ Parses(entries)
          /\ Empty \/ Holds(entries, call[p].component)
          /\ End(p, "toml_error")
       \/ /\ ~ Parses(entries)
          /\ End(p, "other_error")
    /\ UNCHANGED <<exists, entries, call, seen, calls, faults>>

(* Mutant: the file is not opened to append.                               *)
OpenTruncates(p) ==
    /\ pc[p] = "open"
    /\ exists' = TRUE
    /\ entries' = <<>>
    /\ Goto(p, "append")
    /\ UNCHANGED <<call, seen, result, calls, faults>>

(* The directory and the file are made if need be, and either may be       *)
(* refused: only for the file is there an exception of the library's own.  *)
Open(p) ==
    /\ pc[p] = "open"
    /\ \/ /\ exists' = TRUE
          /\ Goto(p, "append")
          /\ UNCHANGED result
       \/ End(p, "toml_error") /\ UNCHANGED exists
       \/ ~ exists /\ End(p, "other_error") /\ UNCHANGED exists
    /\ UNCHANGED <<entries, call, seen, calls, faults>>

(* Mutant: the type tag is left out of what is written.                    *)
AppendEntryUntagged(p) ==
    /\ pc[p] = "append"
    /\ entries' = Append(entries, [component |-> call[p].component, value |-> call[p].value])
    /\ End(p, "ok")
    /\ UNCHANGED <<exists, call, seen, calls, faults>>

AppendEntry(p) ==
    /\ pc[p] = "append"
    /\ entries' = Append(entries, [component |-> call[p].component, type |-> call[p].type,
                                   value |-> call[p].value])
    /\ End(p, "ok")
    /\ UNCHANGED <<exists, call, seen, calls, faults>>

(* The disk is full: the stream fails, nobody looks, and the call returns. *)
LoseEntry(p) ==
    /\ pc[p] = "append"
    /\ faults < MaxFaults
    /\ faults' = faults + 1
    /\ End(p, "ok")
    /\ UNCHANGED <<exists, entries, call, seen, calls>>

-----------------------------------------------------------------------------
(* Reading *)

(* What parsing the file ends with when it does not succeed.               *)
Unreadable(p) ==
    \/ /\ ~ exists \/ Empty
       /\ End(p, "toml_error")
    \/ /\ ~ Parses(entries)
       /\ End(p, "other_error")

Readable == exists /\ ~ Empty /\ Parses(entries)

(* get_first_component: the first of a table that is not ordered.          *)
First(p) ==
    /\ pc[p] = "first"
    /\ \/ /\ Readable
          /\ \E e \in Tables(entries) : Note(p, e.component, Unknown)
          /\ Goto(p, "load")
          /\ UNCHANGED result
       \/ Unreadable(p) /\ UNCHANGED call
    /\ UNCHANGED <<exists, entries, seen, calls, faults>>

(* Mutant: the type of the component is not looked at.                     *)
TakeUntyped(p) ==
    \E e \in Tables(seen'[p]) :
        /\ e.component = call[p].component
        /\ End(p, "ok")
        /\ Note(p, call[p].component, e.value)

(* The component as the file was when it was read: not there, of another   *)
(* type, or its value.                                                     *)
Take(p) ==
    \/ /\ ~ Holds(seen'[p], call[p].component)
       /\ End(p, "other_error")
       /\ UNCHANGED call
    \/ \E e \in Tables(seen'[p]) :
        /\ e.component = call[p].component
        /\ \/ /\ e.type # call[p].type
              /\ End(p, "toml_error")
              /\ UNCHANGED call
           \/ /\ e.type = call[p].type
              /\ End(p, "ok")
              /\ Note(p, call[p].component, e.value)

(* read_data_from_toml.  A distribution is taken from what it returns.     *)
Load(p) ==
    /\ pc[p] = "load"
    /\ \/ /\ Readable
          /\ seen' = [seen EXCEPT ![p] = entries]
          /\ \/ call[p].type = "distribution" /\ Take(p)
             \/ /\ call[p].type = "point-estimate"
                /\ Goto(p, "component")
                /\ UNCHANGED <<call, result>>
       \/ Unreadable(p) /\ UNCHANGED <<call, seen>>
    /\ UNCHANGED <<exists, entries, calls, faults>>

(* Mutant: the file is not asked for the component.                        *)
FindComponentUnchecked(p) ==
    /\ pc[p] = "component"
    /\ UNCHANGED seen
    /\ Take(p)
    /\ UNCHANGED <<exists, entries, calls, faults>>

(* read_parameter_from_toml parses the file again to ask whether it has    *)
(* the component, and takes it from what it read before.                   *)
FindComponent(p) ==
    /\ pc[p] = "component"
    /\ UNCHANGED seen
    /\ \/ /\ Readable /\ Holds(entries, call[p].component)
          /\ Take(p)
       \/ /\ Parses(entries) /\ ~ Holds(entries, call[p].component)
          /\ End(p, "toml_error")
          /\ UNCHANGED call
       \/ ~ Parses(entries) /\ End(p, "other_error") /\ UNCHANGED call
    /\ UNCHANGED <<exists, entries, calls, faults>>

-----------------------------------------------------------------------------

(* The process dies in a call; another goes on in its place.               *)
Crash(p) ==
    /\ pc[p] # "idle"
    /\ faults < MaxFaults
    /\ faults' = faults + 1
    /\ End(p, "none")
    /\ UNCHANGED <<exists, entries, call, seen, calls>>

Next ==
    \E p \in Procs :
        \/ CallWrite(p) \/ CallRead(p)
        \/ Check(p) \/ Open(p) \/ AppendEntry(p) \/ LoseEntry(p)
        \/ First(p) \/ Load(p) \/ FindComponent(p)
        \/ Crash(p)

Spec == Init /\ [][Next]_vars

-----------------------------------------------------------------------------

(* Every variable has its type.                                            *)
TypeOK ==
    /\ exists \in BOOLEAN
    /\ entries \in Seq(Entry)
    /\ pc \in [Procs -> {"idle", "check", "open", "append", "first", "load", "component"}]
    /\ call \in [Procs -> Call]
    /\ seen \in [Procs -> Seq(Entry)]
    /\ result \in [Procs -> {"none", "ok", "toml_error", "other_error"}]
    /\ calls \in 0 .. MaxCalls
    /\ faults \in 0 .. MaxFaults

(* No two processes write the same component: if two do, both may find it  *)
(* missing and append it, and no later call can parse the file.            *)
WritersApart == \A p, q \in Procs : p # q => Own[p] \cap Own[q] = {}

(* As long as no two processes write the same component, the file always   *)
(* parses: calls that are repeated and processes that die between check    *)
(* and append do not make a table appear twice.                            *)
FileParses == WritersApart => Parses(entries)

(* What was written stays, in its place, whoever writes after it.          *)
NothingOverwritten ==
    [][/\ Len(entries') >= Len(entries)
       /\ \A i \in 1 .. Len(entries) : entries'[i] = entries[i]]_vars

(* A read that returned gave the value of the component it was asked for,  *)
(* or of some component when it was asked for none, as the file has it     *)
(* now, and the component is of the type the reader is for.                *)
ReadsAreTrue ==
    \A p \in Procs : (call[p].fn = "read" /\ result[p] = "ok") =>
        [component |-> call[p].component, type |-> call[p].type,
         value |-> call[p].value] \in Tables(entries)

(* A file stays empty, and thereby useless to all writers and readers,     *)
(* only when a process died after it made it, or when the disk took nothing*)
(* of a write that nevertheless returned: a write that throws never leaves *)
(* an empty file.                                                          *)
EmptyOnlyByFault ==
    Empty => faults > 0 \/ \E p \in Procs : pc[p] = "append"

(* A read of a point estimate throws something that is no toml_error only  *)
(* when the component was written while it read: the file has it by then,  *)
(* and a second try finds it (test_io.cxx, TestInvalidComponent, expects a *)
(* toml_error for a component that is not there).                          *)
MissesAreRaces ==
    WritersApart => \A p \in Procs :
        (call[p].fn = "read" /\ call[p].type = "point-estimate" /\ result[p] = "other_error")
        => Holds(entries, call[p].component)
=============================================================================

--------------------------- MODULE TomlFileProofs ---------------------------
(***************************************************************************)
(* Theorems about TomlFile: for any number of processes, components,       *)
(* values and calls.                                                       *)
(***************************************************************************)
EXTENDS TomlFile, TLAPS

(* A writer knows what it writes, and, when no other process writes its    *)
(* component, that the file lacks it once the check is over.               *)
WriterKnows ==
    \A p \in Procs :
        /\ pc[p] \in {"check", "open", "append"} =>
               /\ call[p].fn = "write"
               /\ call[p].component \in Own[p]
               /\ call[p].type \in Types
               /\ call[p].value \in Values
        /\ pc[p] = "append" => exists
        /\ WritersApart /\ pc[p] \in {"open", "append"} =>
               ~ Holds(entries, call[p].component)

(* What a reader parsed is still in the file.                              *)
SeenIsThere == \A p \in Procs : Tables(seen[p]) \subseteq Tables(entries)

(* A call that has not ended has no result.                                *)
NoResultYet == \A p \in Procs : pc[p] # "idle" => result[p] = "none"

NoFileIsEmpty == ~ exists => entries = <<>>

IInv ==
    /\ TypeOK
    /\ NoFileIsEmpty
    /\ WriterKnows
    /\ SeenIsThere
    /\ NoResultYet
    /\ FileParses
    /\ ReadsAreTrue
    /\ EmptyOnlyByFault
    /\ MissesAreRaces

-----------------------------------------------------------------------------
(* Appending to a file *)

(* The tables of a file with one more at its end.                          *)
LEMMA AppendTables ==
    ASSUME NEW f \in Seq(Entry), NEW e \in Entry
    PROVE  /\ Append(f, e) \in Seq(Entry)
           /\ Append(f, e) # <<>>
           /\ Tables(Append(f, e)) = Tables(f) \cup {e}
<1>1. /\ Append(f, e) \in Seq(Entry)
      /\ Len(Append(f, e)) = Len(f) + 1
      /\ \A i \in 1 .. Len(f) : Append(f, e)[i] = f[i]
      /\ Append(f, e)[Len(f) + 1] = e
      /\ Len(f) \in Nat
  OBVIOUS
<1>2. 1 .. (Len(f) + 1) = 1 .. Len(f) \cup {Len(f) + 1}
  BY <1>1
<1>3. Append(f, e) # <<>>
  BY <1>1
<1> QED
  BY <1>1, <1>2, <1>3 DEF Tables

(* A table of a component that the file lacks leaves it readable.          *)
LEMMA AppendParses ==
    ASSUME NEW f \in Seq(Entry), NEW e \in Entry,
           Parses(f), ~ Holds(f, e.component)
    PROVE  Parses(Append(f, e))
<1>1. /\ Len(Append(f, e)) = Len(f) + 1
      /\ \A i \in 1 .. Len(f) : Append(f, e)[i] = f[i]
      /\ Append(f, e)[Len(f) + 1] = e
      /\ Len(f) \in Nat
  OBVIOUS
<1>2. \A i \in 1 .. Len(f) : f[i].component # e.component
  BY DEF Holds, Tables
<1> QED
  BY <1>1, <1>2 DEF Parses

(* What a file holds it still holds when it has more tables.               *)
LEMMA HoldsMore ==
    ASSUME NEW f, NEW g, Tables(f) \subseteq Tables(g), NEW c, Holds(f, c)
    PROVE  Holds(g, c)
BY DEF Holds

-----------------------------------------------------------------------------
(* What a step does to the file *)

(* The file is left as it is, or the writer's table is added to its end.   *)
LEMMA EntriesStep ==
    ASSUME TypeOK, WriterKnows, TomlConstants, [Next]_vars
    PROVE  \/ entries' = entries
           \/ \E p \in Procs :
                /\ AppendEntry(p)
                /\ \E e \in Entry :
                     /\ e.component = call[p].component
                     /\ entries' = Append(entries, e)
<1>1. CASE UNCHANGED vars
  BY <1>1 DEF vars
<1>2. ASSUME NEW p \in Procs, AppendEntry(p)
      PROVE  \E e \in Entry :
                /\ e.component = call[p].component
                /\ entries' = Append(entries, e)
  <2> DEFINE e == [component |-> call[p].component, type |-> call[p].type,
                   value |-> call[p].value]
  <2>1. e \in Entry
    BY <1>2, TomlConstants DEF WriterKnows, AppendEntry, Entry, TomlConstants
  <2>2. entries' = Append(entries, e) /\ e.component = call[p].component
    BY <1>2 DEF AppendEntry
  <2> QED
    BY <2>1, <2>2
<1>3. ASSUME NEW p \in Procs,
             \/ CallWrite(p) \/ CallRead(p) \/ Check(p) \/ Open(p)
             \/ First(p) \/ Load(p) \/ FindComponent(p) \/ Crash(p) \/ LoseEntry(p)
      PROVE  entries' = entries
  BY <1>3 DEF CallWrite, CallRead, Begin, Check, Open, First, Load, FindComponent, Crash, LoseEntry
<1> QED
  BY <1>1, <1>2, <1>3 DEF Next

(* A step keeps the tables there are, in their order.                      *)
LEMMA EntriesGrow ==
    ASSUME TypeOK, WriterKnows, TomlConstants, [Next]_vars
    PROVE  /\ entries' \in Seq(Entry)
           /\ Tables(entries) \subseteq Tables(entries')
           /\ entries' # entries => entries' # <<>>
           /\ Len(entries') >= Len(entries)
           /\ \A i \in 1 .. Len(entries) : entries'[i] = entries[i]
<1>1. entries \in Seq(Entry)
  BY DEF TypeOK
<1>2. CASE entries' = entries
  BY <1>1, <1>2
<1>3. ASSUME NEW e \in Entry, entries' = Append(entries, e)
      PROVE  /\ entries' \in Seq(Entry)
             /\ Tables(entries) \subseteq Tables(entries')
             /\ entries' # <<>>
             /\ Len(entries') >= Len(entries)
             /\ \A i \in 1 .. Len(entries) : entries'[i] = entries[i]
  <2>1. /\ Len(entries') = Len(entries) + 1
        /\ Len(entries) \in Nat
        /\ \A i \in 1 .. Len(entries) : entries'[i] = entries[i]
    BY <1>1, <1>3
  <2> QED
    BY <1>1, <1>3, <2>1, AppendTables
<1> QED
  BY <1>2, <1>3, EntriesStep

-----------------------------------------------------------------------------
(* The parts of the invariant, one by one *)

(* Every step keeps the types.                                             *)
LEMMA StepTypeOK ==
    ASSUME IInv, TomlConstants, [Next]_vars
    PROVE  TypeOK'
<1>1. TypeOK /\ WriterKnows /\ SeenIsThere
  BY DEF IInv
<1>2. entries' \in Seq(Entry)
  BY <1>1, EntriesGrow
<1>3. CASE UNCHANGED vars
  BY <1>1, <1>3 DEF vars, TypeOK
<1>4. ASSUME NEW p \in Procs, CallWrite(p) \/ CallRead(p)
      PROVE  TypeOK'
  <2>1. Own[p] \subseteq Components
    BY TomlConstants DEF TomlConstants
  <2>2. PICK fn \in {"write", "read"}, c \in Components \cup {Any}, t \in Types,
             v \in Values \cup {Unknown}, to \in {"check", "first", "load"} :
             Begin(p, fn, c, t, v, to)
    BY <1>4, <2>1 DEF CallWrite, CallRead
  <2>3. [fn |-> fn, component |-> c, type |-> t, value |-> v] \in Call
    BY <2>2 DEF Call
  <2>4. calls' \in 0 .. MaxCalls
    BY <1>1, <2>2, TomlConstants DEF TypeOK, Begin, TomlConstants
  <2> QED
    BY <1>1, <1>2, <2>2, <2>3, <2>4 DEF TypeOK, Begin, Goto
<1>5. ASSUME NEW p \in Procs, Check(p) \/ Open(p) \/ AppendEntry(p)
      PROVE  TypeOK'
  BY <1>1, <1>2, <1>5 DEF TypeOK, Check, Open, AppendEntry, End, Goto
<1>6. ASSUME NEW p \in Procs, NEW c \in Components \cup {Any},
             NEW v \in Values \cup {Unknown}, Note(p, c, v)
      PROVE  call' \in [Procs -> Call]
  <2>1. call[p] \in Call
    BY <1>1 DEF TypeOK
  <2>2. [fn |-> call[p].fn, component |-> c, type |-> call[p].type, value |-> v] \in Call
    BY <2>1 DEF Call
  <2> QED
    BY <1>1, <1>6, <2>2 DEF TypeOK, Note
<1>7. \A f \in Seq(Entry) : Tables(f) \subseteq Entry
  BY DEF Tables
<1>8. \A e \in Entry : e.component \in Components /\ e.value \in Values
  BY DEF Entry
<1>9. ASSUME NEW p \in Procs, First(p)
      PROVE  TypeOK'
  <2>1. call' \in [Procs -> Call]
    <3>1. CASE call' = call
      BY <1>1, <3>1 DEF TypeOK
    <3>2. ASSUME NEW e \in Tables(entries), Note(p, e.component, Unknown)
          PROVE  call' \in [Procs -> Call]
      <4>1. e.component \in Components
        BY <1>1, <1>7, <1>8 DEF TypeOK
      <4> QED
        BY <3>2, <4>1, <1>6
    <3> QED
      BY <1>9, <3>1, <3>2 DEF First
  <2>2. result' \in [Procs -> {"none", "ok", "toml_error", "other_error"}]
    BY <1>1, <1>9 DEF TypeOK, First, Unreadable, End
  <2>3. pc' \in [Procs -> {"idle", "check", "open", "append", "first", "load", "component"}]
    BY <1>1, <1>9 DEF TypeOK, First, Unreadable, End, Goto
  <2> QED
    BY <1>1, <1>2, <1>9, <2>1, <2>2, <2>3 DEF TypeOK, First
<1>10. ASSUME NEW p \in Procs, Take(p), seen' \in [Procs -> Seq(Entry)]
       PROVE  /\ call' \in [Procs -> Call]
              /\ result' \in [Procs -> {"none", "ok", "toml_error", "other_error"}]
              /\ pc' \in [Procs -> {"idle", "check", "open", "append", "first", "load", "component"}]
  <2>1. ASSUME NEW e \in Tables(seen'[p]), Note(p, call[p].component, e.value)
        PROVE  call' \in [Procs -> Call]
    <3>1. e.value \in Values
      BY <1>7, <1>8, <1>10
    <3>2. call[p].component \in Components \cup {Any}
      BY <1>1 DEF TypeOK, Call
    <3> QED
      BY <1>6, <2>1, <3>1, <3>2
  <2>2. call' \in [Procs -> Call]
    BY <1>1, <1>10, <2>1 DEF Take, TypeOK
  <2> QED
    BY <1>1, <1>10, <2>2 DEF TypeOK, Take, End, Goto
<1>11. ASSUME NEW p \in Procs, Load(p) \/ FindComponent(p)
       PROVE  TypeOK'
  <2>1. seen' \in [Procs -> Seq(Entry)]
    BY <1>1, <1>11 DEF TypeOK, Load, FindComponent
  <2>2. CASE Take(p)
    BY <1>1, <1>2, <1>10, <1>11, <2>1, <2>2 DEF TypeOK, Load, FindComponent
  <2>3. CASE ~ Take(p)
    BY <1>1, <1>2, <1>11, <2>1, <2>3 DEF TypeOK, Load, FindComponent, Unreadable, End, Goto
  <2> QED
    BY <2>2, <2>3
<1>12. ASSUME NEW p \in Procs, Crash(p) \/ LoseEntry(p)
       PROVE  TypeOK'
  <2>1. CASE Crash(p)
    BY <1>1, <1>2, <2>1, TomlConstants DEF TypeOK, Crash, End, Goto, TomlConstants
  <2>2. CASE LoseEntry(p)
    BY <1>1, <1>2, <2>2, TomlConstants DEF TypeOK, LoseEntry, End, Goto, TomlConstants
  <2> QED
    BY <1>12, <2>1, <2>2
<1> QED
  BY <1>3, <1>4, <1>5, <1>9, <1>11, <1>12 DEF Next

(* There is a file when there are tables.                                  *)
LEMMA StepNoFileIsEmpty ==
    ASSUME IInv, [Next]_vars
    PROVE  NoFileIsEmpty'
<1>1. NoFileIsEmpty
  BY DEF IInv
<1>2. CASE UNCHANGED vars
  BY <1>1, <1>2 DEF vars, NoFileIsEmpty
<1>3. ASSUME NEW p \in Procs, AppendEntry(p)
      PROVE  exists'
  BY <1>3 DEF IInv, WriterKnows, AppendEntry
<1> QED
  BY <1>1, <1>2, <1>3 DEF Next, NoFileIsEmpty, CallWrite, CallRead, Begin, Check, Open,
     First, Load, FindComponent, Crash, LoseEntry

StepOf(p) ==
    \/ CallWrite(p) \/ CallRead(p)
    \/ Check(p) \/ Open(p) \/ AppendEntry(p)
    \/ First(p) \/ Load(p) \/ FindComponent(p)
    \/ Crash(p) \/ LoseEntry(p)

(* A step of one process leaves what the others know as it is.             *)
LEMMA OthersFrame ==
    ASSUME TypeOK, NEW p \in Procs, StepOf(p), NEW q \in Procs, q # p
    PROVE  /\ pc'[q] = pc[q]
           /\ call'[q] = call[q]
           /\ seen'[q] = seen[q]
           /\ result'[q] = result[q]
<1>1. CASE CallWrite(p) \/ CallRead(p)
  BY <1>1 DEF CallWrite, CallRead, Begin, Goto, TypeOK
<1>2. CASE Check(p) \/ Open(p) \/ AppendEntry(p) \/ Crash(p) \/ LoseEntry(p)
  BY <1>2 DEF Check, Open, AppendEntry, Crash, LoseEntry, End, Goto, TypeOK
<1>3. CASE First(p)
  BY <1>3 DEF First, Unreadable, Note, End, Goto, TypeOK
<1>4. CASE Load(p) \/ FindComponent(p)
  BY <1>4 DEF Load, FindComponent, Take, Unreadable, Note, End, Goto, TypeOK
<1> QED
  BY <1>1, <1>2, <1>3, <1>4 DEF StepOf

(* What a writer knows stays true until it appends.                        *)
LEMMA StepWriterKnows ==
    ASSUME IInv, TomlConstants, [Next]_vars
    PROVE  WriterKnows'
<1>1. TypeOK /\ WriterKnows
  BY DEF IInv
<1>2. CASE UNCHANGED vars
  BY <1>1, <1>2 DEF vars, WriterKnows
<1>3. ASSUME NEW p \in Procs, StepOf(p)
      PROVE  WriterKnows'
  <2>1. exists => exists'
    BY <1>3 DEF StepOf, CallWrite, CallRead, Begin, Check, Open, AppendEntry,
       First, Load, FindComponent, Crash, LoseEntry
  <2>2. ASSUME NEW q \in Procs, q # p, WritersApart, pc[q] \in {"open", "append"}
        PROVE  ~ Holds(entries', call[q].component)
    <3>1. ~ Holds(entries, call[q].component) /\ call[q].component \in Own[q]
      BY <1>1, <2>2 DEF WriterKnows
    <3>2. CASE entries' = entries
      BY <3>1, <3>2
    <3>3. CASE entries' # entries
      <4>1. AppendEntry(p)
        BY <1>3, <3>3 DEF StepOf, CallWrite, CallRead, Begin, Check, Open,
           First, Load, FindComponent, Crash, LoseEntry
      <4>2. call[p].component \in Own[p]
        BY <1>1, <4>1 DEF WriterKnows, AppendEntry
      <4>3. call[p].component # call[q].component
        BY <2>2, <3>1, <4>2 DEF WritersApart
      <4>4. PICK e \in Entry : e.component = call[p].component /\ entries' = Append(entries, e)
        <5>1. PICK r \in Procs : AppendEntry(r) /\ \E e \in Entry :
                /\ e.component = call[r].component
                /\ entries' = Append(entries, e)
          BY <1>1, <1>3, <3>3, EntriesStep DEF Next, StepOf
        <5>2. r = p
          BY <1>1, <4>1, <5>1 DEF AppendEntry, End, Goto, TypeOK
        <5> QED
          BY <5>1, <5>2
      <4>5. Tables(entries') = Tables(entries) \cup {e}
        BY <1>1, <4>4, AppendTables DEF TypeOK
      <4> QED
        BY <3>1, <4>3, <4>4, <4>5 DEF Holds
    <3> QED
      BY <3>2, <3>3
  <2>3. ASSUME NEW q \in Procs, q # p
        PROVE  /\ pc'[q] \in {"check", "open", "append"} =>
                      /\ call'[q].fn = "write"
                      /\ call'[q].component \in Own[q]
                      /\ call'[q].type \in Types
                      /\ call'[q].value \in Values
               /\ pc'[q] = "append" => exists'
               /\ WritersApart /\ pc'[q] \in {"open", "append"} =>
                      ~ Holds(entries', call'[q].component)
    <3>1. pc'[q] = pc[q] /\ call'[q] = call[q]
      BY <1>1, <1>3, <2>3, OthersFrame
    <3> QED
      BY <1>1, <2>1, <2>2, <2>3, <3>1 DEF WriterKnows
  <2>4. /\ pc'[p] \in {"check", "open", "append"} =>
               /\ call'[p].fn = "write"
               /\ call'[p].component \in Own[p]
               /\ call'[p].type \in Types
               /\ call'[p].value \in Values
        /\ pc'[p] = "append" => exists'
        /\ WritersApart /\ pc'[p] \in {"open", "append"} =>
               ~ Holds(entries', call'[p].component)
    <3>1. CASE CallWrite(p)
      BY <1>1, <3>1 DEF CallWrite, Begin, Goto, TypeOK
    <3>2. CASE CallRead(p)
      BY <1>1, <3>2 DEF CallRead, Begin, Goto, TypeOK
    <3>3. CASE Check(p)
      <4>1. ~ exists => entries = <<>>
        BY DEF IInv, NoFileIsEmpty
      <4>2. entries = <<>> => ~ Holds(entries, call[p].component)
        BY DEF Holds, Tables
      <4> QED
        BY <1>1, <3>3, <4>1, <4>2 DEF Check, End, Goto, TypeOK, WriterKnows
    <3>4. CASE Open(p)
      BY <1>1, <3>4 DEF Open, End, Goto, TypeOK, WriterKnows
    <3>5. CASE AppendEntry(p) \/ Crash(p) \/ LoseEntry(p)
      BY <1>1, <3>5 DEF AppendEntry, Crash, LoseEntry, End, Goto, TypeOK
    <3>6. CASE First(p)
      BY <1>1, <3>6 DEF First, Unreadable, End, Goto, TypeOK
    <3>7. CASE Load(p) \/ FindComponent(p)
      BY <1>1, <3>7 DEF Load, FindComponent, Take, Unreadable, End, Goto, TypeOK
    <3> QED
      BY <1>3, <3>1, <3>2, <3>3, <3>4, <3>5, <3>6, <3>7 DEF StepOf
  <2> QED
    BY <2>3, <2>4 DEF WriterKnows, WritersApart
<1> QED
  BY <1>2, <1>3 DEF Next, StepOf

(* Readers parse what is there, and nothing goes away.                     *)
LEMMA StepSeenIsThere ==
    ASSUME IInv, TomlConstants, [Next]_vars
    PROVE  SeenIsThere'
<1>1. TypeOK /\ WriterKnows /\ SeenIsThere
  BY DEF IInv
<1>2. Tables(entries) \subseteq Tables(entries')
  BY <1>1, EntriesGrow
<1>3. CASE seen' = seen
  BY <1>1, <1>2, <1>3 DEF SeenIsThere
<1>4. ASSUME NEW p \in Procs, Load(p), seen' # seen
      PROVE  SeenIsThere'
  <2>1. seen' = [seen EXCEPT ![p] = entries] /\ entries' = entries
    BY <1>4 DEF Load
  <2> QED
    BY <1>1, <2>1 DEF SeenIsThere, TypeOK
<1> QED
  BY <1>3, <1>4 DEF Next, vars, CallWrite, CallRead, Begin, Check, Open, AppendEntry,
     First, FindComponent, Crash, LoseEntry

(* A step keeps a file that parses one that parses.                        *)
LEMMA StepFileParses ==
    ASSUME IInv, TomlConstants, [Next]_vars
    PROVE  FileParses'
<1>1. TypeOK /\ WriterKnows /\ FileParses
  BY DEF IInv
<1>2. CASE entries' = entries
  BY <1>1, <1>2 DEF FileParses, WritersApart
<1>3. ASSUME NEW p \in Procs, AppendEntry(p), WritersApart,
             NEW e \in Entry, e.component = call[p].component, entries' = Append(entries, e)
      PROVE  Parses(entries')
  <2>1. ~ Holds(entries, e.component)
    BY <1>1, <1>3 DEF WriterKnows, AppendEntry
  <2> QED
    BY <1>1, <1>3, <2>1, AppendParses DEF FileParses, TypeOK
<1> QED
  BY <1>1, <1>2, <1>3, EntriesStep DEF FileParses, WritersApart

(* What a reader takes is in the file, and what it misses is not what it   *)
(* parsed.                                                                 *)
LEMMA TakeIsTrue ==
    ASSUME TypeOK, NEW p \in Procs, Take(p), seen'[p] \in Seq(Entry)
    PROVE  /\ result'[p] = "ok" =>
                 [component |-> call'[p].component, type |-> call'[p].type,
                  value |-> call'[p].value] \in Tables(seen'[p])
           /\ call'[p].component = call[p].component
<1>1. CASE UNCHANGED call /\ result'[p] # "ok"
  BY <1>1
<1>2. ASSUME NEW e \in Tables(seen'[p]), e.component = call[p].component,
             e.type = call[p].type, Note(p, call[p].component, e.value)
      PROVE  /\ [component |-> call'[p].component, type |-> call'[p].type,
                 value |-> call'[p].value] \in Tables(seen'[p])
             /\ call'[p].component = call[p].component
  <2>1. e \in Entry
    BY DEF Tables
  <2>2. call'[p] = [fn |-> call[p].fn, component |-> call[p].component,
                    type |-> call[p].type, value |-> e.value]
    BY <1>2 DEF Note, TypeOK
  <2>3. e = [component |-> e.component, type |-> e.type, value |-> e.value]
    BY <2>1 DEF Entry
  <2> QED
    BY <1>2, <2>2, <2>3
<1>3. \/ UNCHANGED call /\ result'[p] # "ok"
      \/ \E e \in Tables(seen'[p]) :
           /\ e.component = call[p].component
           /\ e.type = call[p].type
           /\ Note(p, call[p].component, e.value)
  BY DEF Take, End, TypeOK
<1> QED
  BY <1>1, <1>2, <1>3

(* A call has its result at its end, not before.                           *)
LEMMA StepNoResultYet ==
    ASSUME IInv, [Next]_vars
    PROVE  NoResultYet'
<1>1. TypeOK /\ NoResultYet
  BY DEF IInv
<1>2. CASE UNCHANGED vars
  BY <1>1, <1>2 DEF vars, NoResultYet
<1>3. ASSUME NEW p \in Procs, StepOf(p)
      PROVE  NoResultYet'
  <2>1. \A q \in Procs \ {p} : pc'[q] # "idle" => result'[q] = "none"
    BY <1>1, <1>3, OthersFrame DEF NoResultYet
  <2>2. pc'[p] # "idle" => result'[p] = "none"
    <3>1. CASE CallWrite(p) \/ CallRead(p)
      BY <1>1, <3>1 DEF CallWrite, CallRead, Begin, TypeOK
    <3>2. CASE Check(p) \/ Open(p) \/ AppendEntry(p) \/ Crash(p) \/ LoseEntry(p)
      BY <1>1, <3>2 DEF Check, Open, AppendEntry, Crash, LoseEntry, End, Goto, TypeOK, NoResultYet
    <3>3. CASE First(p)
      BY <1>1, <3>3 DEF First, Unreadable, End, Goto, TypeOK, NoResultYet
    <3>4. CASE Load(p) \/ FindComponent(p)
      BY <1>1, <3>4 DEF Load, FindComponent, Take, Unreadable, End, Goto, TypeOK, NoResultYet
    <3> QED
      BY <1>3, <3>1, <3>2, <3>3, <3>4 DEF StepOf
  <2> QED
    BY <2>1, <2>2 DEF NoResultYet
<1> QED
  BY <1>2, <1>3 DEF Next, StepOf

(* Every step keeps the results of reads true.                             *)
LEMMA StepReadsAreTrue ==
    ASSUME IInv, TomlConstants, [Next]_vars
    PROVE  ReadsAreTrue'
<1>1. TypeOK /\ WriterKnows /\ SeenIsThere /\ NoResultYet /\ ReadsAreTrue
  BY DEF IInv
<1>2. Tables(entries) \subseteq Tables(entries')
  BY <1>1, EntriesGrow
<1>3. CASE UNCHANGED vars
  BY <1>1, <1>2, <1>3 DEF vars, ReadsAreTrue
<1>4. ASSUME NEW p \in Procs, StepOf(p)
      PROVE  ReadsAreTrue'
  <2>1. ASSUME NEW q \in Procs, q # p, call'[q].fn = "read", result'[q] = "ok"
        PROVE  [component |-> call'[q].component, type |-> call'[q].type,
                value |-> call'[q].value] \in Tables(entries')
    <3>1. call'[q] = call[q] /\ result'[q] = result[q]
      BY <1>1, <1>4, <2>1, OthersFrame
    <3> QED
      BY <1>1, <1>2, <2>1, <3>1 DEF ReadsAreTrue
  <2>2. ASSUME call'[p].fn = "read", result'[p] = "ok"
        PROVE  [component |-> call'[p].component, type |-> call'[p].type,
                value |-> call'[p].value] \in Tables(entries')
    <3>1. CASE Take(p) /\ (Load(p) \/ FindComponent(p))
      <4>1. seen'[p] \in Seq(Entry) /\ Tables(seen'[p]) \subseteq Tables(entries')
        BY <1>1, <1>2, <3>1 DEF Load, FindComponent, SeenIsThere, TypeOK
      <4> QED
        BY <1>1, <2>2, <3>1, <4>1, TakeIsTrue
    <3>2. CASE ~ Take(p) /\ (Load(p) \/ FindComponent(p))
      <4>1. call' = call /\ (result' = result \/ result'[p] # "ok")
        BY <1>1, <3>2 DEF Load, FindComponent, Unreadable, End, TypeOK
      <4> QED
        BY <1>1, <1>2, <2>2, <4>1 DEF ReadsAreTrue
    <3>3. CASE CallWrite(p) \/ CallRead(p)
      BY <1>1, <2>2, <3>3 DEF CallWrite, CallRead, Begin, TypeOK
    <3>4. CASE AppendEntry(p)
      BY <1>1, <2>2, <3>4 DEF AppendEntry, WriterKnows
    <3>5. CASE LoseEntry(p)
      BY <1>1, <2>2, <3>5 DEF LoseEntry, WriterKnows
    <3>7. CASE Check(p) \/ Open(p) \/ Crash(p)
      <4>1. call' = call /\ (result' = result \/ result'[p] # "ok")
        BY <1>1, <3>7 DEF Check, Open, Crash, End, TypeOK
      <4> QED
        BY <1>1, <1>2, <2>2, <4>1 DEF ReadsAreTrue
    <3>6. CASE First(p)
      <4>1. result'[p] # "ok"
        BY <1>1, <3>6 DEF First, Unreadable, End, NoResultYet, IInv, TypeOK
      <4> QED
        BY <2>2, <4>1
    <3> QED
      BY <1>4, <3>1, <3>2, <3>3, <3>4, <3>5, <3>6, <3>7 DEF StepOf
  <2> QED
    BY <2>1, <2>2 DEF ReadsAreTrue
<1> QED
  BY <1>3, <1>4 DEF Next, StepOf

(* Only a fault leaves a file empty, before a step and after.              *)
LEMMA StepEmptyOnlyByFault ==
    ASSUME IInv, TomlConstants, [Next]_vars
    PROVE  EmptyOnlyByFault'
<1>1. TypeOK /\ WriterKnows /\ EmptyOnlyByFault
  BY DEF IInv
<1>2. entries' # entries => ~ Empty'
  BY <1>1, EntriesGrow DEF Empty
<1>3. CASE UNCHANGED vars
  BY <1>1, <1>3 DEF vars, EmptyOnlyByFault, Empty
<1>4. ASSUME NEW p \in Procs, StepOf(p), entries' = entries
      PROVE  EmptyOnlyByFault'
  <2>1. CASE Crash(p) \/ LoseEntry(p)
    BY <1>1, <2>1, TomlConstants DEF Crash, LoseEntry, EmptyOnlyByFault, TypeOK, TomlConstants
  <2>2. CASE Open(p)
    <3>1. CASE exists' = exists /\ pc[p] = "open" /\ faults' = faults
      <4>1. \A q \in Procs : pc[q] = "append" => pc'[q] = "append"
        BY <1>1, <1>4, <3>1, OthersFrame
      <4> QED
        BY <1>1, <1>4, <3>1, <4>1 DEF EmptyOnlyByFault, Empty
    <3>2. CASE pc' = [pc EXCEPT ![p] = "append"]
      BY <1>1, <3>2 DEF EmptyOnlyByFault, TypeOK
    <3> QED
      BY <2>2, <3>1, <3>2 DEF Open, Goto
  <2>3. CASE AppendEntry(p)
    BY <1>1, <1>2, <1>4, <2>3, EntriesStep DEF AppendEntry, EmptyOnlyByFault, Empty
  <2>4. CASE ~ Crash(p) /\ ~ LoseEntry(p) /\ ~ Open(p) /\ ~ AppendEntry(p)
    <3>1. pc[p] # "append" /\ exists' = exists /\ faults' = faults
      BY <1>4, <2>4 DEF StepOf, CallWrite, CallRead, Begin, Check, First, Load, FindComponent
    <3>2. \A q \in Procs : pc[q] = "append" => pc'[q] = "append"
      BY <1>1, <1>4, <3>1, OthersFrame
    <3> QED
      BY <1>1, <1>4, <3>1, <3>2 DEF EmptyOnlyByFault, Empty
  <2> QED
    BY <2>1, <2>2, <2>3, <2>4
<1> QED
  BY <1>2, <1>3, <1>4 DEF Next, StepOf, EmptyOnlyByFault

(* A step that misses a component met a writer.                            *)
LEMMA StepMissesAreRaces ==
    ASSUME IInv, TomlConstants, [Next]_vars
    PROVE  MissesAreRaces'
<1>1. TypeOK /\ WriterKnows /\ NoResultYet /\ FileParses /\ MissesAreRaces
  BY DEF IInv
<1>2. \A c : Holds(entries, c) => Holds(entries', c)
  BY <1>1, EntriesGrow, HoldsMore
<1>3. CASE UNCHANGED vars
  BY <1>1, <1>3 DEF vars, MissesAreRaces, WritersApart
<1>4. ASSUME NEW p \in Procs, StepOf(p), WritersApart,
             NEW q \in Procs, call'[q].fn = "read", call'[q].type = "point-estimate",
             result'[q] = "other_error"
      PROVE  Holds(entries', call'[q].component)
  <2>1. CASE call'[q] = call[q] /\ result'[q] = result[q]
    BY <1>1, <1>2, <1>4, <2>1 DEF MissesAreRaces
  <2>2. CASE q = p /\ ~ (call'[q] = call[q] /\ result'[q] = result[q])
    <3>1. Parses(entries)
      BY <1>1, <1>4 DEF FileParses
    <3>2. CASE FindComponent(p)
      <4>1. CASE Take(p) /\ Holds(entries, call[p].component) /\ entries' = entries
        <5>1. result'[p] = "other_error" => call' = call
          BY <1>1, <4>1 DEF Take, End, TypeOK
        <5> QED
          BY <1>4, <2>2, <4>1, <5>1
      <4>2. CASE End(p, "toml_error")
        BY <1>1, <1>4, <2>2, <4>2 DEF End, TypeOK
      <4> QED
        BY <3>1, <3>2, <4>1, <4>2 DEF FindComponent
    <3>3. CASE Load(p)
      <4>1. CASE call[p].type = "distribution" /\ Take(p)
        <5>1. call'[p].type = call[p].type
          BY <1>1, <4>1 DEF Take, Note, TypeOK
        <5> QED
          BY <1>4, <2>2, <4>1, <5>1
      <4>2. CASE ~ Take(p)
        BY <1>1, <1>4, <2>2, <3>1, <3>3, <4>2
           DEF Load, Unreadable, End, TypeOK, NoResultYet
      <4> QED
        BY <1>1, <1>4, <2>2, <3>1, <3>3, <4>1, <4>2
           DEF Load, Unreadable, End, TypeOK, NoResultYet
    <3>4. CASE First(p)
      BY <1>1, <1>4, <2>2, <3>1, <3>4 DEF First, Unreadable, End, TypeOK, NoResultYet
    <3>5. CASE AppendEntry(p) \/ Crash(p) \/ LoseEntry(p) \/ CallWrite(p) \/ CallRead(p)
      BY <1>1, <1>4, <2>2, <3>5
         DEF AppendEntry, Crash, LoseEntry, CallWrite, CallRead, Begin, End, TypeOK, NoResultYet
    <3>6. CASE Check(p)
      BY <1>1, <1>4, <2>2, <3>1, <3>6 DEF Check, End, TypeOK, NoResultYet
    <3>7. CASE Open(p)
      BY <1>1, <1>4, <2>2, <3>7 DEF Open, WriterKnows
    <3> QED
      BY <1>4, <3>2, <3>3, <3>4, <3>5, <3>6, <3>7 DEF StepOf
  <2> QED
    BY <1>1, <1>4, <2>1, <2>2, OthersFrame
<1> QED
  BY <1>3, <1>4 DEF Next, StepOf, MissesAreRaces, WritersApart

-----------------------------------------------------------------------------

(* The inductive invariant, from which the properties follow.              *)
THEOREM Invariance == Spec => []IInv
<1>1. Init => IInv
  <2> SUFFICES ASSUME Init PROVE IInv
    OBVIOUS
  <2>1. NoCall \in Call
    BY DEF NoCall, Call
  <2>2. <<>> \in Seq(Entry) /\ Tables(<<>>) = {} /\ Parses(<<>>)
    BY DEF Tables, Parses
  <2>3. TypeOK
    <3>1. call \in [Procs -> Call]
      BY <2>1 DEF Init
    <3>2. seen \in [Procs -> Seq(Entry)]
      BY <2>2 DEF Init
    <3>3. calls \in 0 .. MaxCalls /\ faults \in 0 .. MaxFaults
      BY TomlConstants DEF Init, TomlConstants
    <3> QED
      BY <2>2, <3>1, <3>2, <3>3 DEF Init, TypeOK
  <2> QED
    BY <2>2, <2>3 DEF Init, IInv, NoFileIsEmpty, WriterKnows, SeenIsThere, NoResultYet,
       FileParses, ReadsAreTrue, EmptyOnlyByFault, MissesAreRaces, Empty
<1>2. IInv /\ [Next]_vars => IInv'
  BY StepTypeOK, StepNoFileIsEmpty, StepWriterKnows, StepSeenIsThere, StepNoResultYet,
     StepFileParses, StepReadsAreTrue, StepEmptyOnlyByFault, StepMissesAreRaces,
     TomlConstants DEF IInv
<1> QED
  BY <1>1, <1>2, PTL DEF Spec

(* Every variable keeps its type.                                          *)
THEOREM TypeCorrect == Spec => []TypeOK
<1>1. IInv => TypeOK
  BY DEF IInv
<1> QED
  BY <1>1, Invariance, PTL

(* Programs that share a file and write components of their own never make *)
(* it unreadable (write_toml_data, component_exists).                      *)
THEOREM FileStaysReadable == Spec => []FileParses
<1>1. IInv => FileParses
  BY DEF IInv
<1> QED
  BY <1>1, Invariance, PTL

(* A read that returned gave what the file holds, of the type it is for    *)
(* (read_parameter_from_toml, Distribution::read_from_toml).               *)
THEOREM ReadsGiveWhatIsThere == Spec => []ReadsAreTrue
<1>1. IInv => ReadsAreTrue
  BY DEF IInv
<1> QED
  BY <1>1, Invariance, PTL

(* Without a crash no call leaves an empty file (write_toml_data).         *)
THEOREM NoEmptyFileLeft == Spec => []EmptyOnlyByFault
<1>1. IInv => EmptyOnlyByFault
  BY DEF IInv
<1> QED
  BY <1>1, Invariance, PTL

(* An exception other than toml_error from a read of a point estimate is   *)
(* due to a write in between (read_parameter_from_toml).                   *)
THEOREM OnlyRacesMiss == Spec => []MissesAreRaces
<1>1. IInv => MissesAreRaces
  BY DEF IInv
<1> QED
  BY <1>1, Invariance, PTL

(* No step changes or removes a table, whoever writes (write_toml_data).   *)
THEOREM TablesAreKept == Spec => NothingOverwritten
<1>1. IInv /\ [Next]_vars =>
        [/\ Len(entries') >= Len(entries)
         /\ \A i \in 1 .. Len(entries) : entries'[i] = entries[i]]_vars
  BY EntriesGrow, TomlConstants DEF IInv
<1> QED
  BY <1>1, Invariance, PTL DEF Spec, NothingOverwritten
=============================================================================

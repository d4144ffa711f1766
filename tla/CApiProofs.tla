------------------------------ MODULE CApiProofs ------------------------------
(***************************************************************************)
(* Theorems about CApi: ownership of the structs, the copy of the link     *)
(* functions, and what a lost path leads to, for all variables, keys,      *)
(* arguments and numbers of pipelines.                                     *)
(***************************************************************************)
EXTENDS CApi, TLAPS

(* A struct that was allocated is that of a pipeline that was made, and no *)
(* two variables point to the same one: from_c_struct copies a shared      *)
(* pointer, not the struct.                                                *)
StructsOwned ==
    /\ structs \subseteq 1 .. inits
    /\ shared \subseteq 1 .. inits
    /\ \A h, g \in Handles : h # g /\ handle[h] # NULL => handle[h] # handle[g]

(* A file is only at a path that the program was given.                    *)
FilesAreGiven == \A i \in Pipelines : files[i] \subseteq given[i]

(* The pipeline of a finalise that succeeded has no struct, until the next *)
(* call makes one.                                                         *)
FinalisedIsGone == last.fn = "finalise" /\ last.err = "NONE" => last.was \notin structs

(* The types of the variables of the C interface.                          *)
ApiTypeOK ==
    /\ structs \subseteq Pipelines /\ shared \subseteq Pipelines
    /\ handle \in [Handles -> structs \cup {NULL}]
    /\ linked \in [Pipelines -> SUBSET Products]
    /\ given \in [Pipelines -> SUBSET Products]
    /\ files \in [Pipelines -> SUBSET Products]
    /\ inits \in 0 .. MaxInits
    /\ last.fn \in Functions /\ last.err \in ErrorCodes

(* What the invariant says of the pipelines.                               *)
ApiOK == ApiTypeOK /\ StructsOwned /\ FilesAreGiven /\ FinalisedIsGone /\ CopyIsSafe

IInv == ApiOK /\ LoggingTypeOK

-----------------------------------------------------------------------------
(* The logger *)

(* The logger is not yet made.                                             *)
LEMMA InitLogger == LoggingInit => LoggingTypeOK
BY LevelsAssumption DEF LoggingInit, LoggingTypeOK, NoLogger, NoMessage, OFF

(* A call that logs something may make the logger; its sink keeps its      *)
(* level, and nothing of the program is printed.                           *)
LEMMA GetLoggerType ==
    LoggingTypeOK => /\ GetLogger \in [level : 0 .. OFF, sink : 0 .. OFF, made : BOOLEAN]
                     /\ GetLogger.made
                     /\ logger.made => GetLogger = logger
BY LevelsAssumption DEF LoggingTypeOK, GetLogger, OFF

(* Making the logger, or logging with it, keeps what is known of it.       *)
LEMMA LogsLogger == LoggingTypeOK /\ Logs => LoggingTypeOK'
BY GetLoggerType DEF Logs, LoggingTypeOK

(* The functions that log or set a level keep the types.                   *)
LEMMA NextLogger == LoggingTypeOK /\ LoggingNext => LoggingTypeOK'
<1> SUFFICES ASSUME LoggingTypeOK, LoggingNext PROVE LoggingTypeOK'
  OBVIOUS
<1>1. CASE fdp_get_log_level
  BY <1>1, LogsLogger DEF fdp_get_log_level
<1>2. ASSUME NEW l \in Levels, fdp_set_log_level(l) PROVE LoggingTypeOK'
  BY <1>2, GetLoggerType, LevelsAssumption
     DEF fdp_set_log_level, LoggingTypeOK
<1>3. ASSUME NEW l \in Levels, fdp_log(l) PROVE LoggingTypeOK'
  <2>1. CASE l = OFF
    <3>1. shown' = NoMessage /\ logger' = logger /\ env' = env
      BY <1>3, <2>1 DEF fdp_log
    <3>2. NoMessage \in [asked : 0 .. OFF, level : 0 .. OFF, printed : BOOLEAN, returned : {0, 1}]
      BY DEF NoMessage, OFF
    <3> QED BY <3>1, <3>2 DEF LoggingTypeOK
  <2>2. CASE l # OFF
    <3>1. /\ logger' = GetLogger
          /\ shown' = [asked |-> l, level |-> GetLogger.level, returned |-> 0,
                       printed |-> ShouldLog(GetLogger, MessageLevel(l))]
          /\ env' = env
      BY <1>3, <2>2 DEF fdp_log
    <3>2. l \in 0 .. 5 /\ MessageLevel(l) \in 0 .. 5
      BY <2>2, LevelsAssumption DEF OFF, MessageLevel, WARN, CRITICAL
    <3>3. ShouldLog(GetLogger, MessageLevel(l)) \in BOOLEAN
      BY <3>2, GetLoggerType DEF ShouldLog
    <3> QED
      BY <3>1, <3>2, <3>3, GetLoggerType
         DEF LoggingTypeOK, OFF
  <2> QED BY <2>1, <2>2
<1>4. ASSUME NEW l \in Levels, SetEnvironment(l) PROVE LoggingTypeOK'
  BY <1>4 DEF SetEnvironment, LoggingTypeOK
<1> QED BY <1>1, <1>2, <1>3, <1>4 DEF LoggingNext

-----------------------------------------------------------------------------
(* The copy *)

(* A call that passed the checks and whose answer fits writes outside the  *)
(* name and inside the buffer.                                             *)
LEMMA CopiedIsSafe ==
    ASSUME NEW fn, NEW h, NEW i, NEW a \in LinkArgs, NEW answer \in LinkLengths,
           ~ Refused(i, a)
    PROVE  LET c == Copied(fn, h, a, answer) IN
           /\ c.fn = fn /\ c.was = handle[h]
           /\ c.err \in {"NONE", "OTHER"}
           /\ c.err = "NONE" => ~ c.clash /\ ~ c.cut
<1> DEFINE c == Copied(fn, h, a, answer)
<1>1. /\ a.name \in Nat /\ a.length \in Nat /\ a.buffer \in Nat /\ a.size \in Nat
      /\ answer \in Nat
  BY CApiConstants
<1>2. NameBytes(a) \cap BufferBytes(a) = {}
  <2>1. SUFFICES ASSUME NEW x \in NameBytes(a), NEW k \in 0 .. a.size,
                        x = a.buffer + k, x # a.buffer + a.size
                 PROVE  FALSE
    BY DEF BufferBytes
  <2>2. /\ a.name <= x /\ x <= a.name + a.length
        /\ a.buffer <= x /\ x <= a.buffer + a.size
    BY <1>1, <2>1 DEF NameBytes
  <2>3. Overlaps(a)
    BY <1>1, <2>1, <2>2 DEF Overlaps, Greater, Lesser, NameBytes
  <2> QED BY <2>3 DEF Refused
<1>3. CASE Fits(answer, a.size)
  <2>1. c = [fn |-> fn, handle |-> h, was |-> handle[h], err |-> "NONE",
             clash |-> NameBytes(a) \cap BufferBytes(a) # {}, cut |-> answer + 1 > a.size]
    BY <1>3 DEF Copied, Call
  <2>2. ~ (answer + 1 > a.size)
    BY <1>1, <1>3 DEF Fits
  <2>3. /\ c.fn = fn /\ c.was = handle[h] /\ c.err = "NONE"
        /\ c.clash = (NameBytes(a) \cap BufferBytes(a) # {})
        /\ c.cut = (answer + 1 > a.size)
    <3> HIDE DEF c
    <3> QED BY <2>1
  <2> QED BY <2>2, <2>3, <1>2
<1>4. CASE ~ Fits(answer, a.size)
  BY <1>4 DEF Copied, Call
<1> QED BY <1>3, <1>4

-----------------------------------------------------------------------------
(* The calls *)

(* The fields of what the last call did.                                   *)
LEMMA CallFields ==
    ASSUME NEW fn, NEW h, NEW was, NEW err
    PROVE  LET c == Call(fn, h, was, err) IN
           /\ c.fn = fn /\ c.was = was /\ c.err = err
           /\ ~ c.clash /\ ~ c.cut
BY DEF Call

(* Every exception has a code, and it is not the one of success.           *)
LEMMA Errors ==
    \A fn \in {"init", "finalise", "link_read", "link_write"} :
        exception_to_err_code(fn) \subseteq ErrorCodes \ {"NONE"}
BY DEF exception_to_err_code, ErrorCodes

(* Before the first call nothing is held.                                  *)
LEMMA InitApi == Init => ApiOK
<1> SUFFICES ASSUME Init PROVE ApiOK
  OBVIOUS
<1>1. last.fn = "none" /\ last.err = "NONE" /\ ~ last.clash /\ ~ last.cut
  BY CallFields DEF Init
<1> QED
  BY <1>1, CApiConstants
     DEF Init, ApiOK, ApiTypeOK, StructsOwned, FilesAreGiven, FinalisedIsGone, CopyIsSafe,
         NULL, Functions, ErrorCodes

(* fdp_init makes a struct of a number of its own, or none.                *)
LEMMA InitCallApi ==
    ASSUME ApiOK, NEW h \in Handles, fdp_init(h)
    PROVE  ApiOK'
<1> USE CApiConstants DEF ApiOK
<1>1. UNCHANGED <<shared, linked, given, files>>
  BY DEF fdp_init
<1>2. CASE /\ inits < MaxInits
           /\ inits' = inits + 1
           /\ structs' = structs \cup {inits + 1}
           /\ handle' = [handle EXCEPT ![h] = inits + 1]
           /\ last' = Call("init", h, handle[h], "NONE")
  <2>1. /\ last'.fn = "init" /\ last'.err = "NONE" /\ ~ last'.clash /\ ~ last'.cut
    BY <1>2, CallFields
  <2>2. inits + 1 \in Pipelines /\ inits \in 0 .. MaxInits /\ inits + 1 \notin 1 .. inits
    BY <1>2 DEF ApiTypeOK, Pipelines
  <2>3. ApiTypeOK'
    BY <1>1, <1>2, <2>1, <2>2 DEF ApiTypeOK, Functions, ErrorCodes
  <2>4. StructsOwned'
    BY <1>1, <1>2, <2>2 DEF ApiTypeOK, StructsOwned, NULL
  <2> QED
    BY <1>1, <2>1, <2>3, <2>4 DEF FilesAreGiven, FinalisedIsGone, CopyIsSafe
<1>3. CASE /\ \E err \in exception_to_err_code("init") :
                 /\ handle' = [handle EXCEPT ![h] = NULL]
                 /\ last' = Call("init", h, handle[h], err)
           /\ UNCHANGED <<inits, structs>>
  <2>1. /\ last'.fn = "init" /\ last'.err \in ErrorCodes /\ ~ last'.clash /\ ~ last'.cut
    BY <1>3, CallFields, Errors
  <2>2. ApiTypeOK' /\ StructsOwned'
    BY <1>1, <1>3, <2>1 DEF ApiTypeOK, StructsOwned, Functions
  <2> QED
    BY <1>1, <2>1, <2>2 DEF FilesAreGiven, FinalisedIsGone, CopyIsSafe
<1> QED BY <1>2, <1>3 DEF fdp_init

(* Files only go when a pipeline finalises.                                *)
LEMMA FinaliseFiles ==
    ASSUME ApiOK, NEW i \in Pipelines, FinaliseReturns(i) \/ FinaliseThrows(i)
    PROVE  /\ files' \in [Pipelines -> SUBSET Products]
           /\ \A j \in Pipelines : files'[j] \subseteq files[j]
<1>1. CASE FinaliseReturns(i)
  BY <1>1 DEF FinaliseReturns, ApiOK, ApiTypeOK
<1>2. CASE FinaliseThrows(i)
  BY <1>2 DEF FinaliseThrows, ApiOK, ApiTypeOK
<1> QED BY <1>1, <1>2

(* fdp_finalise frees the struct that its variable, and no other, pointed  *)
(* to, and clears the variable; or leaves both.                            *)
LEMMA FinaliseCallApi ==
    ASSUME ApiOK, NEW h \in Handles, fdp_finalise(h)
    PROVE  ApiOK'
<1> DEFINE i == handle[h]
<1>1. PICK err \in ErrorCodes :
          /\ last' = Call("finalise", h, i, err)
          /\ handle' = [handle EXCEPT ![h] = PointerAfter(h, err)]
          /\ \/ i = NULL /\ err = "OTHER" /\ UNCHANGED <<structs, files>>
             \/ i # NULL /\ err = "NONE" /\ FinaliseReturns(i) /\ structs' = structs \ {i}
             \/ /\ i # NULL /\ err \in exception_to_err_code("finalise")
                /\ FinaliseThrows(i)
                /\ UNCHANGED structs
  BY DEF fdp_finalise
<1>2. UNCHANGED <<shared, linked, given, inits>>
  BY DEF fdp_finalise
<1>3. /\ last'.fn = "finalise" /\ last'.was = i /\ last'.err = err
      /\ ~ last'.clash /\ ~ last'.cut
  BY <1>1, CallFields
<1>4. i # NULL => i \in structs /\ i \in Pipelines
  BY DEF ApiOK, ApiTypeOK
<1>5. /\ files' \in [Pipelines -> SUBSET Products]
      /\ \A j \in Pipelines : files'[j] \subseteq files[j]
  BY <1>1, <1>4, FinaliseFiles DEF ApiOK, ApiTypeOK
<1>6. CASE err = "NONE"
  <2>1. /\ structs' = structs \ {i} /\ i # NULL
        /\ handle' = [handle EXCEPT ![h] = NULL]
    BY <1>1, <1>6, Errors DEF PointerAfter
  <2>2. \A g \in Handles : g # h => handle[g] # i
    BY <2>1 DEF ApiOK, StructsOwned
  <2>3. ApiTypeOK'
    BY <1>2, <1>3, <1>5, <2>1, <2>2 DEF ApiOK, ApiTypeOK, Functions
  <2>4. StructsOwned' /\ FilesAreGiven' /\ FinalisedIsGone' /\ CopyIsSafe'
    BY <1>2, <1>3, <1>5, <2>1
       DEF ApiOK, ApiTypeOK, StructsOwned, FilesAreGiven, FinalisedIsGone, CopyIsSafe
  <2> QED BY <2>3, <2>4 DEF ApiOK
<1>7. CASE err # "NONE"
  <2>1. structs' = structs /\ handle' = handle
    BY <1>1, <1>7 DEF PointerAfter, ApiOK, ApiTypeOK
  <2> QED
    BY <1>2, <1>3, <1>5, <1>7, <2>1
       DEF ApiOK, ApiTypeOK, StructsOwned, FilesAreGiven, FinalisedIsGone, CopyIsSafe, Functions
<1> QED BY <1>6, <1>7

(* A link function that was refused or threw left the pipeline alone.      *)
LEMMA LinkFailsApi ==
    ASSUME ApiOK, NEW h \in Handles, NEW a \in LinkArgs,
           NEW fn \in {"link_read", "link_write"}, LinkFails(fn, h, a),
           UNCHANGED <<handle, structs, shared, inits>>
    PROVE  ApiOK'
<1>1. /\ last'.fn = fn /\ last'.err \in ErrorCodes \ {"NONE"}
      /\ UNCHANGED <<linked, given, files>>
  BY CallFields, Errors DEF LinkFails, ErrorCodes
<1> QED
  BY <1>1
     DEF ApiOK, ApiTypeOK, StructsOwned, FilesAreGiven, FinalisedIsGone, CopyIsSafe, Functions

(* A link makes the key's file one that is not there yet, so that it does  *)
(* not matter whether the program got the path.                            *)
LEMMA LinkWriteApi ==
    ASSUME ApiOK, NEW h \in Handles, NEW d \in Products, NEW a \in LinkArgs,
           NEW answer \in LinkLengths, fdp_link_write(h, d, a, answer)
    PROVE  ApiOK'
<1> DEFINE i == handle[h]
<1>1. UNCHANGED <<handle, structs, shared, inits>>
  BY DEF fdp_link_write
<1>2. CASE LinkFails("link_write", h, a)
  BY <1>1, <1>2, LinkFailsApi
<1>3. CASE /\ ~ Refused(i, a)
           /\ linked' = [linked EXCEPT ![i] = @ \cup {d}]
           /\ files' = [files EXCEPT ![i] = @ \ {d}]
           /\ given' = [given EXCEPT ![i] = IF Fits(answer, a.size) THEN @ \cup {d} ELSE @ \ {d}]
           /\ last' = Copied("link_write", h, a, answer)
  <2>1. /\ last'.fn = "link_write" /\ last'.err \in {"NONE", "OTHER"}
        /\ last'.err = "NONE" => ~ last'.clash /\ ~ last'.cut
    BY <1>3, CopiedIsSafe
  <2>2. i \in Pipelines
    BY <1>3 DEF Refused, ApiOK, ApiTypeOK
  <2>3. ApiTypeOK'
    BY <1>1, <1>3, <2>1, <2>2 DEF ApiOK, ApiTypeOK, Functions, ErrorCodes
  <2>4. FilesAreGiven'
    BY <1>3, <2>2 DEF ApiOK, ApiTypeOK, FilesAreGiven
  <2> QED
    BY <1>1, <2>1, <2>3, <2>4 DEF ApiOK, StructsOwned, FinalisedIsGone, CopyIsSafe
<1> QED BY <1>2, <1>3 DEF fdp_link_write

(* fdp_link_read keeps the invariant.                                      *)
LEMMA LinkReadApi ==
    ASSUME ApiOK, NEW h \in Handles, NEW a \in LinkArgs,
           NEW answer \in LinkLengths, fdp_link_read(h, a, answer)
    PROVE  ApiOK'
<1>1. UNCHANGED <<handle, structs, shared, inits>>
  BY DEF fdp_link_read
<1>2. CASE LinkFails("link_read", h, a)
  BY <1>1, <1>2, LinkFailsApi
<1>3. CASE /\ ~ Refused(handle[h], a)
           /\ last' = Copied("link_read", h, a, answer)
           /\ UNCHANGED <<linked, given, files>>
  <2>1. /\ last'.fn = "link_read" /\ last'.err \in {"NONE", "OTHER"}
        /\ last'.err = "NONE" => ~ last'.clash /\ ~ last'.cut
    BY <1>3, CopiedIsSafe
  <2> QED
    BY <1>1, <1>3, <2>1
       DEF ApiOK, ApiTypeOK, StructsOwned, FilesAreGiven, FinalisedIsGone, CopyIsSafe,
           Functions, ErrorCodes
<1> QED BY <1>2, <1>3 DEF fdp_link_read

(* What the program does itself.                                           *)
LEMMA OtherFields ==
    Other => last'.fn = "other" /\ last'.err = "NONE" /\ ~ last'.clash /\ ~ last'.cut
BY CallFields DEF Other

(* The program writes only at paths it was given.                          *)
LEMMA WriteFileApi ==
    ASSUME ApiOK, NEW i \in Pipelines, NEW d \in Products, WriteFile(i, d)
    PROVE  ApiOK'
BY OtherFields
   DEF WriteFile, ApiOK, ApiTypeOK, StructsOwned, FilesAreGiven, FinalisedIsGone, CopyIsSafe,
       Functions, ErrorCodes

(* Taking a pipeline from its struct keeps the invariant.                  *)
LEMMA FromStructApi ==
    ASSUME ApiOK, NEW h \in Handles, from_c_struct(h)
    PROVE  ApiOK'
BY OtherFields
   DEF from_c_struct, ApiOK, ApiTypeOK, StructsOwned, FilesAreGiven, FinalisedIsGone,
       CopyIsSafe, Functions, ErrorCodes

(* A struct made for a shared pipeline is a new one.                       *)
LEMMA ToStructApi ==
    ASSUME ApiOK, NEW h \in Handles, NEW i \in Pipelines, to_c_struct(h, i)
    PROVE  ApiOK'
BY OtherFields
   DEF to_c_struct, ApiOK, ApiTypeOK, StructsOwned, FilesAreGiven, FinalisedIsGone,
       CopyIsSafe, Functions, ErrorCodes, NULL

(* Freeing a struct leaves no variable that points to it.                  *)
LEMMA DeleteStructApi ==
    ASSUME ApiOK, NEW h \in Handles, delete_c_struct(h)
    PROVE  ApiOK'
BY OtherFields
   DEF delete_c_struct, ApiOK, ApiTypeOK, StructsOwned, FilesAreGiven, FinalisedIsGone,
       CopyIsSafe, Functions, ErrorCodes

(* A pipeline finalised from C++ keeps the invariant.                      *)
LEMMA SharedFinaliseApi ==
    ASSUME ApiOK, NEW i \in Pipelines, DataPipeline_finalise(i)
    PROVE  ApiOK'
<1>1. /\ files' \in [Pipelines -> SUBSET Products]
      /\ \A j \in Pipelines : files'[j] \subseteq files[j]
  BY FinaliseFiles DEF DataPipeline_finalise
<1> QED
  BY <1>1, OtherFields
     DEF DataPipeline_finalise, ApiOK, ApiTypeOK, StructsOwned, FilesAreGiven, FinalisedIsGone,
         CopyIsSafe, Functions, ErrorCodes

(* So does one that C++ code lets go of.                                   *)
LEMMA DropSharedApi ==
    ASSUME ApiOK, NEW i \in Pipelines, DropShared(i)
    PROVE  ApiOK'
BY OtherFields
   DEF DropShared, ApiOK, ApiTypeOK, StructsOwned, FilesAreGiven, FinalisedIsGone, CopyIsSafe,
       Functions, ErrorCodes

(* A step in which no call of the C interface is made.                     *)
LEMMA SameApi == ApiOK /\ UNCHANGED apiVars => ApiOK'
BY DEF apiVars, ApiOK, ApiTypeOK, StructsOwned, FilesAreGiven, FinalisedIsGone, CopyIsSafe

-----------------------------------------------------------------------------
(* The invariant *)

(* The invariant is kept by every step.                                    *)
LEMMA NextApi == ApiOK /\ [Next]_vars => ApiOK'
<1> SUFFICES ASSUME ApiOK, [Next]_vars PROVE ApiOK'
  OBVIOUS
<1>1. ASSUME NEW h \in Handles, fdp_init(h) PROVE ApiOK'
  BY <1>1, InitCallApi
<1>2. ASSUME NEW h \in Handles, fdp_finalise(h) PROVE ApiOK'
  BY <1>2, FinaliseCallApi
<1>3. ASSUME NEW h \in Handles, from_c_struct(h) PROVE ApiOK'
  BY <1>3, FromStructApi
<1>4. ASSUME NEW h \in Handles, delete_c_struct(h) PROVE ApiOK'
  BY <1>4, DeleteStructApi
<1>5. ASSUME NEW h \in Handles, NEW a \in LinkArgs, NEW answer \in LinkLengths,
             fdp_link_read(h, a, answer)
      PROVE  ApiOK'
  BY <1>5, LinkReadApi
<1>6. ASSUME NEW h \in Handles, NEW d \in Products, NEW a \in LinkArgs,
             NEW answer \in LinkLengths, fdp_link_write(h, d, a, answer)
      PROVE  ApiOK'
  BY <1>6, LinkWriteApi
<1>7. ASSUME NEW i \in Pipelines, DataPipeline_finalise(i) PROVE ApiOK'
  BY <1>7, SharedFinaliseApi
<1>8. ASSUME NEW i \in Pipelines, DropShared(i) PROVE ApiOK'
  BY <1>8, DropSharedApi
<1>9. ASSUME NEW i \in Pipelines, NEW h \in Handles, to_c_struct(h, i) PROVE ApiOK'
  BY <1>9, ToStructApi
<1>10. ASSUME NEW i \in Pipelines, NEW d \in Products, WriteFile(i, d) PROVE ApiOK'
  BY <1>10, WriteFileApi
<1>11. CASE UNCHANGED apiVars
  BY <1>11, SameApi
<1>12. CASE UNCHANGED vars
  BY <1>12, SameApi DEF vars
<1> QED
  BY <1>1, <1>2, <1>3, <1>4, <1>5, <1>6, <1>7, <1>8, <1>9, <1>10, <1>11, <1>12 DEF Next

(* What any step does to the logger.                                       *)
LEMMA StepLogger == [Next]_vars => Logs \/ LoggingNext \/ UNCHANGED logVars
BY DEF Next, vars, fdp_init, fdp_finalise, from_c_struct, to_c_struct, delete_c_struct,
   fdp_link_read, fdp_link_write, DataPipeline_finalise, DropShared, WriteFile

(* A step that leaves the logger alone keeps what is known of it.          *)
LEMMA SameLogger == LoggingTypeOK /\ UNCHANGED logVars => LoggingTypeOK'
BY DEF logVars, LoggingTypeOK

(* The inductive invariant.                                                *)
THEOREM Invariance == Spec => []IInv
<1>1. Init => IInv
  BY InitApi, InitLogger DEF Init, IInv
<1>2. IInv /\ [Next]_vars => IInv'
  BY NextApi, StepLogger, LogsLogger, NextLogger, SameLogger DEF IInv
<1> QED BY <1>1, <1>2, PTL DEF Spec

(* Every variable keeps its type; a pointer that is not null points to an  *)
(* allocated struct, whoever frees which.                                  *)
THEOREM TypeCorrect == Spec => []TypeOK
<1>1. IInv => TypeOK
  BY DEF IInv, ApiOK, ApiTypeOK, LoggingTypeOK, TypeOK
<1> QED BY <1>1, Invariance, PTL

(* A link function that reports success has not written over the name, and *)
(* its buffer holds the whole path: for names, buffers and answers of any  *)
(* length, anywhere.                                                       *)
THEOREM CopiesAreSafe == Spec => []CopyIsSafe
<1>1. IInv => CopyIsSafe
  BY DEF IInv, ApiOK
<1> QED BY <1>1, Invariance, PTL

-----------------------------------------------------------------------------
(* Action properties *)

(* A step that looks like a finalise is one, or no call at all.            *)
LEMMA FinaliseOrNot ==
    ASSUME [Next]_vars
    PROVE  \/ \E h \in Handles : fdp_finalise(h)
           \/ last'.fn # "finalise"
           \/ UNCHANGED apiVars
<1>1. ASSUME NEW h \in Handles, fdp_init(h) PROVE last'.fn # "finalise"
  BY <1>1, CallFields DEF fdp_init
<1>2. ASSUME NEW h \in Handles, NEW a \in LinkArgs, NEW answer \in LinkLengths,
             fdp_link_read(h, a, answer)
      PROVE  last'.fn # "finalise"
  BY <1>2, CallFields, CopiedIsSafe DEF fdp_link_read, LinkFails
<1>3. ASSUME NEW h \in Handles, NEW d \in Products, NEW a \in LinkArgs,
             NEW answer \in LinkLengths, fdp_link_write(h, d, a, answer)
      PROVE  last'.fn # "finalise"
  BY <1>3, CallFields, CopiedIsSafe DEF fdp_link_write, LinkFails
<1>4. Other => last'.fn # "finalise"
  BY OtherFields
<1> QED
  BY <1>1, <1>2, <1>3, <1>4
     DEF Next, vars, from_c_struct, to_c_struct, delete_c_struct, DataPipeline_finalise,
         DropShared, WriteFile

(* fdp_finalise reports success only when the program got the path of      *)
(* every key that is linked.                                               *)
THEOREM LostPathsBlock == Spec => LostPathBlocksFinalise
<1>1. IInv /\ [Next]_vars =>
          [(last'.fn = "finalise" /\ last'.err = "NONE" /\ last'.was \in structs)
           => linked[last'.was] \subseteq given[last'.was]]_vars
  <2> SUFFICES ASSUME IInv, [Next]_vars,
                      last'.fn = "finalise", last'.err = "NONE", last'.was \in structs
               PROVE  linked[last'.was] \subseteq given[last'.was]
    OBVIOUS
  <2>1. CASE UNCHANGED apiVars
    BY <2>1 DEF apiVars, IInv, ApiOK, FinalisedIsGone
  <2>2. ASSUME NEW h \in Handles, fdp_finalise(h)
        PROVE  linked[last'.was] \subseteq given[last'.was]
    <3>1. last'.was = handle[h] /\ FinaliseReturns(handle[h])
      <4>1. PICK err \in ErrorCodes :
                /\ last' = Call("finalise", h, handle[h], err)
                /\ \/ err = "OTHER"
                   \/ FinaliseReturns(handle[h])
                   \/ err \in exception_to_err_code("finalise")
        BY <2>2 DEF fdp_finalise
      <4>2. err = "NONE" /\ last'.was = handle[h]
        BY <4>1, CallFields
      <4> QED BY <4>1, <4>2, Errors
    <3>2. handle[h] \in Pipelines
      BY <3>1 DEF IInv, ApiOK, ApiTypeOK
    <3>3. linked[handle[h]] \subseteq files[handle[h]]
      BY <3>1 DEF FinaliseReturns
    <3> QED BY <3>1, <3>2, <3>3 DEF IInv, ApiOK, FilesAreGiven
  <2> QED BY <2>1, <2>2, FinaliseOrNot
<1> QED BY <1>1, Invariance, PTL DEF Spec, LostPathBlocksFinalise

(* Only fdp_init, called on a variable that points to a pipeline, loses    *)
(* one.                                                                    *)
THEOREM OnlyInitLoses == Spec => OnlyInitLosesPipelines
<1>1. IInv /\ [Next]_vars =>
          [~ (Lost' \subseteq Lost) => last'.fn = "init" /\ last'.was # NULL]_vars
  <2> SUFFICES ASSUME IInv, [Next]_vars
               PROVE  Lost' \subseteq Lost \/ (last'.fn = "init" /\ last'.was # NULL)
    OBVIOUS
  <2>1. ASSUME UNCHANGED <<handle, structs>> PROVE Lost' \subseteq Lost
    BY <2>1 DEF Lost
  <2>2. ASSUME NEW h \in Handles, fdp_init(h)
        PROVE  Lost' \subseteq Lost \/ (last'.fn = "init" /\ last'.was # NULL)
    <3>1. last'.fn = "init" /\ last'.was = handle[h]
      BY <2>2, CallFields DEF fdp_init
    <3>2. CASE handle[h] = NULL
      <4>1. \/ /\ structs' = structs \cup {inits + 1}
               /\ handle' = [handle EXCEPT ![h] = inits + 1]
            \/ structs' = structs /\ handle' = [handle EXCEPT ![h] = NULL]
        BY <2>2 DEF fdp_init
      <4>2. \A s \in structs : s # NULL
        BY DEF IInv, ApiOK, ApiTypeOK, Pipelines, NULL
      <4> QED BY <3>2, <4>1, <4>2 DEF Lost, IInv, ApiOK, ApiTypeOK
    <3> QED BY <3>1, <3>2
  <2>3. ASSUME NEW h \in Handles, fdp_finalise(h) PROVE Lost' \subseteq Lost
    <3>1. \/ UNCHANGED <<handle, structs>>
          \/ structs' = structs \ {handle[h]} /\ handle' = [handle EXCEPT ![h] = NULL]
      BY <2>3, Errors DEF fdp_finalise, PointerAfter, IInv, ApiOK, ApiTypeOK
    <3> QED BY <2>1, <3>1 DEF Lost, IInv, ApiOK, ApiTypeOK
  <2>4. ASSUME NEW h \in Handles, delete_c_struct(h) PROVE Lost' \subseteq Lost
    BY <2>4 DEF delete_c_struct, Lost, IInv, ApiOK, ApiTypeOK
  <2>5. ASSUME NEW h \in Handles, NEW i \in Pipelines, to_c_struct(h, i)
        PROVE  Lost' \subseteq Lost
    <3>1. /\ structs' = structs \cup {i} /\ handle' = [handle EXCEPT ![h] = i]
          /\ handle[h] = NULL
      BY <2>5 DEF to_c_struct
    <3>2. \A s \in structs : s # NULL
      BY DEF IInv, ApiOK, ApiTypeOK, Pipelines, NULL
    <3> QED BY <3>1, <3>2 DEF Lost, IInv, ApiOK, ApiTypeOK
  <2>6. \/ UNCHANGED <<handle, structs>>
        \/ \E h \in Handles : \/ fdp_init(h) \/ fdp_finalise(h) \/ delete_c_struct(h)
                              \/ \E i \in Pipelines : to_c_struct(h, i)
    BY DEF Next, vars, apiVars, from_c_struct, fdp_link_read, fdp_link_write,
           DataPipeline_finalise, DropShared, WriteFile
  <2> QED BY <2>1, <2>2, <2>3, <2>4, <2>5, <2>6
<1> QED BY <1>1, Invariance, PTL DEF Spec, OnlyInitLosesPipelines
=============================================================================

------------------------------- MODULE Logging -------------------------------
(***************************************************************************)
(* The library's one logger (src/src/utilities/logging.cxx) and the C      *)
(* functions that reach it (src/src/fdp_c_api.cxx).  The logger is made at *)
(* its first use, with the level that the environment then has; its level  *)
(* and the level of the sink that filters messages are two values.         *)
(***************************************************************************)
EXTENDS Naturals

CONSTANT Levels    \* the levels a program uses, of 0 (TRACE) .. 6 (OFF)

WARN == 3
CRITICAL == 5
OFF == 6

ASSUME LevelsAssumption == Levels \subseteq 0 .. OFF

VARIABLES
    env,       \* what FDP_LOG_LEVEL says, OFF when it is not set
    logger,    \* the instance: its level, and its sink's, or NoLogger
    shown      \* the last message: the level asked for, the logger's level
               \* then, whether it was printed, and what fdp_log returned
logVars == <<env, logger, shown>>

NoLogger == [level |-> OFF, sink |-> OFF, made |-> FALSE]
NoMessage == [asked |-> OFF, level |-> OFF, printed |-> FALSE, returned |-> 1]

LoggingTypeOK ==
    /\ env \in Levels \cup {OFF}
    /\ logger \in [level : 0 .. OFF, sink : 0 .. OFF, made : BOOLEAN]
    /\ shown \in [asked : 0 .. OFF, level : 0 .. OFF, printed : BOOLEAN, returned : {0, 1}]

LoggingInit ==
    /\ env \in Levels \cup {OFF}
    /\ logger = NoLogger
    /\ shown = NoMessage

(* get_logger: the instance, made now if this is the first call.           *)
GetLogger ==
    IF logger.made THEN logger ELSE [level |-> env, sink |-> env, made |-> TRUE]

(* What any function of the library that logs does here.                   *)
Logs == logger' = GetLogger /\ UNCHANGED <<env, shown>>

ShouldLog(l, msg) == msg >= l.sink

(* critical() builds its messages at level WARN.                           *)
MessageLevel(asked) == IF asked = CRITICAL THEN WARN ELSE asked

fdp_set_log_level(l) ==
    /\ logger' = [GetLogger EXCEPT !.level = l]
    /\ UNCHANGED <<env, shown>>

(* fdp_get_log_level has no effect but to make the logger.                 *)
fdp_get_log_level == Logs

fdp_log(l) ==
    /\ \/ /\ l # OFF
          /\ logger' = GetLogger
          /\ shown' = [asked |-> l, level |-> GetLogger.level, returned |-> 0,
                       printed |-> ShouldLog(GetLogger, MessageLevel(l))]
       \/ /\ l = OFF
          /\ shown' = NoMessage
          /\ UNCHANGED logger
    /\ UNCHANGED env

(* The program changes its environment.                                    *)
SetEnvironment(l) ==
    /\ env' = l
    /\ UNCHANGED <<logger, shown>>

LoggingNext ==
    \/ fdp_get_log_level
    \/ \E l \in Levels : fdp_set_log_level(l) \/ fdp_log(l) \/ SetEnvironment(l)

LoggingSpec == LoggingInit /\ [][LoggingNext]_logVars

-----------------------------------------------------------------------------

(* Setting the log level makes the messages of that level and of greater   *)
(* ones appear (fdp.h on FdpLogLevel); the code sets the logger's level    *)
(* and goes on filtering by its sink's.                                    *)
LevelIsObeyed == (shown.returned = 0 /\ shown.asked >= shown.level) => shown.printed
=============================================================================

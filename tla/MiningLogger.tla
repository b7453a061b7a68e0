---------------------------- MODULE MiningLogger ----------------------------
(***************************************************************************)
(* lib/mining-logger.js: two logs kept in memory and written to two files, *)
(* one after the other, after every line.  A write replaces its file at    *)
(* once or fails (node-localstorage writes atomically; it throws when its  *)
(* quota is spent or the disk is full); the process may die between two    *)
(* writes, and the next start reads what the files then hold.              *)
(*                                                                         *)
(* A line is a number; its text, the time and the message, is left out.    *)
(***************************************************************************)
EXTENDS Integers, Sequences, SequencesExt

CONSTANTS
    Limit,         \* the number of lines above which a log is emptied: 1000
    Absent,        \* the content of a file that does not exist
    Null,          \* the value JSON.parse makes of a missing item
    WritesFail     \* whether writes may fail

ASSUME LimitAssumption == Limit \in Nat
ASSUME MarkersAssumption == Absent # Null /\ Absent \notin Seq(Nat) /\ Null \notin Seq(Nat)
ASSUME WritesFailAssumption == WritesFail \in BOOLEAN

VARIABLES
    stdLog, errorLog,    \* the logs in memory
    stdFile, errorFile,  \* (disk) the items "stdout" and "error"
    saving,    \* "down": no process; "stdout", "error": the write that is next; "idle"
    line,      \* (history) the number of the next line
    unsaved,   \* (history) a write has failed since the logs were last saved in full
    torn       \* (history) a first save ended after its first write

logVars == <<stdLog, errorLog, stdFile, errorFile, saving, line, unsaved, torn>>

Init ==
    /\ stdLog = <<>> /\ errorLog = <<>>
    /\ stdFile = Absent /\ errorFile = Absent
    /\ saving = "down"
    /\ line = 1
    /\ unsaved = FALSE
    /\ torn = FALSE

\* Mutant of Parse: what getItem returns is not parsed.
ParseNothing(file) == file

\* JSON.parse(getItem(..)): a missing item is null, and so is its parse.
Parse(file) == IF file = Absent THEN Null ELSE file

\* logsExist asks for the file of the standard log only.
LogsExist == stdFile # Absent

\* Mutant of Start: the logs of the last process are not read.
StartAfresh ==
    /\ saving = "down"
    /\ saving' = "stdout"
    /\ UNCHANGED <<stdLog, errorLog, stdFile, errorFile, line, unsaved, torn>>

\* init: the logs of the last process are read, and saved again.
Start ==
    /\ saving = "down"
    /\ stdLog' = IF LogsExist THEN Parse(stdFile) ELSE <<>>
    /\ errorLog' = IF LogsExist THEN Parse(errorFile) ELSE <<>>
    /\ saving' = "stdout"
    /\ UNCHANGED <<stdFile, errorFile, line, unsaved, torn>>

\* Mutant of Extended: a log is never emptied.
ExtendedForEver(log) == Append(log, line)

\* A log that has become longer than Limit is emptied before the line is added.
Extended(log) == Append(IF Len(log) > Limit THEN <<>> ELSE log, line)

\* appendToStandardLog, appendToErrorLog: a line, then saveLogs.
AppendToStandardLog ==
    /\ saving = "idle"
    /\ stdLog' = Extended(stdLog)
    /\ line' = line + 1
    /\ saving' = "stdout"
    /\ UNCHANGED <<errorLog, stdFile, errorFile, unsaved, torn>>

AppendToErrorLog ==
    /\ saving = "idle"
    /\ errorLog # Null
    /\ errorLog' = Extended(errorLog)
    /\ line' = line + 1
    /\ saving' = "stdout"
    /\ UNCHANGED <<stdLog, stdFile, errorFile, unsaved, torn>>

\* The length of null: appendToErrorLog throws before it has changed anything.
ErrorLogThrows == saving = "idle" /\ errorLog = Null

\* Mutant of SaveError: only the standard log is written.
SaveNothing ==
    /\ saving = "error"
    /\ saving' = "idle"
    /\ unsaved' = FALSE
    /\ UNCHANGED <<stdLog, errorLog, stdFile, errorFile, line, torn>>

\* saveLogs: the two writes.
SaveStdout ==
    /\ saving = "stdout"
    /\ stdFile' = stdLog
    /\ saving' = "error"
    /\ UNCHANGED <<stdLog, errorLog, errorFile, line, unsaved, torn>>

SaveError ==
    /\ saving = "error"
    /\ errorFile' = errorLog
    /\ saving' = "idle"
    /\ unsaved' = FALSE
    /\ UNCHANGED <<stdLog, errorLog, stdFile, line, torn>>

\* What ends a save between its writes tears the first one there ever was.
Tears == torn' = (torn \/ (saving = "error" /\ errorFile = Absent))

\* A write throws: saveLogs catches it and leaves the rest out.
SaveFails ==
    /\ WritesFail
    /\ saving \in {"stdout", "error"}
    /\ saving' = "idle"
    /\ unsaved' = TRUE
    /\ Tears
    /\ UNCHANGED <<stdLog, errorLog, stdFile, errorFile, line>>

\* The process ends, by itself or not; the files stay.
Stop ==
    /\ saving # "down"
    /\ saving' = "down"
    /\ stdLog' = <<>> /\ errorLog' = <<>>
    /\ Tears
    /\ UNCHANGED <<stdFile, errorFile, line, unsaved>>

Save == SaveStdout \/ SaveError \/ SaveFails

LogNext == Start \/ AppendToStandardLog \/ AppendToErrorLog \/ Save \/ Stop

LogSpec == Init /\ [][LogNext]_logVars

-----------------------------------------------------------------------------
(* Properties.                                                             *)

Logs == Seq(Nat)

\* Every variable keeps its type.
LogTypeOK ==
    /\ stdLog \in Logs /\ errorLog \in Logs \cup {Null}
    /\ stdFile \in Logs \cup {Absent} /\ errorFile \in Logs \cup {Absent, Null}
    /\ saving \in {"down", "stdout", "error", "idle"}
    /\ line \in Nat
    /\ unsaved \in BOOLEAN /\ torn \in BOOLEAN

\* The logs do not grow beyond one line more than Limit, in memory or on disk,
\* whatever fails and however often the process is started again.
LogsStayShort ==
    \A log \in {stdLog, errorLog, stdFile, errorFile} \ {Absent, Null} : Len(log) <= Limit + 1

\* The error log is lost, for this process and for all that follow, only if the very
\* first save ended between its writes: nothing else makes the miner forget it.
ErrorLogKept == errorLog = Null \/ errorFile = Null => torn

\* A line on disk stays there until its log is emptied, across restarts and crashes,
\* unless a write has failed.
LinesStayOnDisk ==
    [][ ~unsaved /\ ~unsaved' =>
        /\ stdFile' # stdFile /\ stdFile # Absent =>
             IsPrefix(stdFile, stdFile') \/ Len(stdFile) > Limit
        /\ errorFile' # errorFile /\ errorFile \notin {Absent, Null} =>
             IsPrefix(errorFile, errorFile') \/ Len(errorFile) > Limit ]_logVars
=============================================================================

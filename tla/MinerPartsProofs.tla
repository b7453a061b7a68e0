-------------------------- MODULE MinerPartsProofs --------------------------
(***************************************************************************)
(* Proofs about the parts that share nothing: the two logs and the stack   *)
(* of shares, for any number of shares and crashes, any limit of the logs  *)
(* and with or without writes that fail; the hash counter, whatever its    *)
(* width; the drafted addon, for an array of any length; the nonce scans,  *)
(* for every nonce range, intensity and block size, and whatever the       *)
(* nonces are worth.                                                       *)
(***************************************************************************)
EXTENDS PoolInterface, MinerParts, SequenceTheorems, FiniteSetTheorems, TLAPS

-----------------------------------------------------------------------------
(* The logs and the stack of shares.                                       *)

\* A log continues a file that exists, unless the file is due to be emptied.
Continues(log, file) == file \in {Absent, Null} \/ IsPrefix(file, log) \/ Len(file) > Limit

\* The file of the error log is written after that of the standard log, and only the end
\* of a first save leaves it behind.
FilesInv ==
    /\ saving = "error" => stdFile # Absent /\ stdFile = stdLog
    /\ stdFile = Absent => errorFile = Absent
    /\ stdFile # Absent /\ errorFile = Absent => torn \/ saving = "error"

\* Unless a write has failed, the files hold the logs between two saves, and the logs to
\* be saved continue the files.
DiskInv ==
    ~unsaved =>
        /\ saving = "idle" => stdFile = stdLog /\ errorFile = errorLog
        /\ saving = "stdout" => Continues(stdLog, stdFile)
        /\ saving \in {"stdout", "error"} => Continues(errorLog, errorFile)

LogInv == LogTypeOK /\ LogsStayShort /\ ErrorLogKept /\ FilesInv /\ DiskInv

PoolTypeOK ==
    /\ at \in [Shares -> {"none", "queued", "popped", "logged", "sent", "answered", "failed",
                          "lost"}]
    /\ stack \in Seq(Shares)
    /\ stops \in 0..MaxStops
    /\ died \in BOOLEAN

\* The shares on the stack, by position.
StackInv ==
    /\ \A i, j \in 1..Len(stack) : stack[i] = stack[j] => i = j
    /\ \A i \in 1..Len(stack) : at[stack[i]] = "queued"
    /\ \A s \in Shares : at[s] = "queued" => \E i \in 1..Len(stack) : stack[i] = s

PoolInv == PoolTypeOK /\ StackInv /\ DiesOnlyOfTornLogs

PoolIInv == LogInv /\ PoolInv


LEMMA PrefixFacts ==
  ASSUME NEW log \in Logs, NEW n \in Nat
  PROVE  IsPrefix(log, log) /\ IsPrefix(log, Append(log, n))
<1>1. IsPrefix(log, log)
  BY DEF Logs, IsPrefix
<1>2. Append(log, n) = log \o <<n>> /\ Len(log) \in Nat /\ <<n>> \in Seq(Nat)
  BY AppendIsConcat DEF Logs
<1>3. SubSeq(log \o <<n>>, 1, Len(log)) = SubSeq(log, 1, Len(log))
  BY <1>2, SubSeqOfConcat1 DEF Logs
<1>4. Len(log) <= Len(Append(log, n))
  BY DEF Logs
<1>5. QED
  BY <1>1, <1>2, <1>3, <1>4 DEF IsPrefix

\* A line more keeps a log short and continues its file.
LEMMA ExtendedFacts ==
  ASSUME NEW log \in Logs, line \in Nat, Len(log) <= Limit + 1
  PROVE  /\ Extended(log) \in Logs /\ Len(Extended(log)) <= Limit + 1
         /\ Continues(Extended(log), log)
<1>1. CASE Len(log) > Limit
  <2>1. Extended(log) = <<line>>
    BY <1>1 DEF Extended
  <2>2. QED
    BY <1>1, <2>1, LimitAssumption DEF Logs, Continues
<1>2. CASE ~(Len(log) > Limit)
  <2>1. Extended(log) = Append(log, line)
    BY <1>2 DEF Extended
  <2>2. Append(log, line) \in Logs /\ Len(Append(log, line)) <= Limit + 1
    BY <1>2, LimitAssumption DEF Logs
  <2>3. QED
    BY <2>1, <2>2, PrefixFacts DEF Continues
<1>3. QED
  BY <1>1, <1>2

LEMMA LogFacts ==
  ASSUME LogInv
  PROVE  /\ \A log \in {stdLog, errorLog, stdFile, errorFile} :
              log \in Logs => log # Absent /\ log # Null /\ Len(log) <= Limit + 1
         /\ <<>> \in Logs /\ Len(<<>>) <= Limit + 1 /\ Absent # Null
BY MarkersAssumption, LimitAssumption DEF LogInv, LogsStayShort, Logs

LEMMA StartKeeps ==
  ASSUME LogInv, Start
  PROVE  LogInv'
<1> USE DEF LogInv
<1>1. CASE LogsExist
  <2>1. /\ stdLog' = stdFile /\ stdFile \in Logs
        /\ errorLog' = IF errorFile = Absent THEN Null ELSE errorFile
        /\ saving = "down" /\ saving' = "stdout"
        /\ UNCHANGED <<stdFile, errorFile, line, unsaved, torn>>
    BY <1>1 DEF Start, Parse, LogsExist, LogTypeOK
  <2>2. LogTypeOK' /\ FilesInv'
    BY <2>1 DEF LogTypeOK, FilesInv
  <2>3. LogsStayShort' /\ ErrorLogKept'
    BY <1>1, <2>1 DEF LogsStayShort, ErrorLogKept, FilesInv, LogsExist, LogTypeOK
  <2>4. Continues(stdFile, stdFile) /\ Continues(errorLog', errorFile)
    BY <2>1, PrefixFacts DEF Continues, LogTypeOK
  <2>5. DiskInv'
    BY <2>1, <2>4 DEF DiskInv, Continues
  <2>6. QED
    BY <2>2, <2>3, <2>5
<1>2. CASE ~LogsExist
  <2>1. /\ stdLog' = <<>> /\ errorLog' = <<>> /\ stdFile = Absent /\ errorFile = Absent
        /\ saving = "down" /\ saving' = "stdout"
        /\ UNCHANGED <<stdFile, errorFile, line, unsaved, torn>>
    BY <1>2 DEF Start, LogsExist, FilesInv
  <2>2. LogTypeOK' /\ FilesInv'
    BY <2>1, LogFacts DEF LogTypeOK, FilesInv
  <2>3. LogsStayShort'
    BY <2>1, LogFacts DEF LogsStayShort
  <2>4. ErrorLogKept'
    BY <2>1, LogFacts, MarkersAssumption DEF ErrorLogKept, Logs
  <2>5. DiskInv'
    BY <2>1 DEF DiskInv, Continues
  <2>6. QED
    BY <2>2, <2>3, <2>4, <2>5
<1>3. QED
  BY <1>1, <1>2

LEMMA AppendKeeps ==
  ASSUME LogInv, AppendToStandardLog \/ AppendToErrorLog
  PROVE  LogInv'
<1> USE DEF LogInv
<1>1. /\ saving = "idle" /\ saving' = "stdout" /\ line' = line + 1 /\ line \in Nat
      /\ UNCHANGED <<stdFile, errorFile, unsaved, torn>>
  BY DEF AppendToStandardLog, AppendToErrorLog, LogTypeOK
<1>2. FilesInv'
  BY <1>1 DEF FilesInv
<1>3. CASE AppendToStandardLog
  <2>1. stdLog' = Extended(stdLog) /\ errorLog' = errorLog /\ stdLog \in Logs
    BY <1>3 DEF AppendToStandardLog, LogTypeOK
  <2>2. stdLog' \in Logs /\ Len(stdLog') <= Limit + 1 /\ Continues(stdLog', stdLog)
    BY <1>1, <2>1, LogFacts, ExtendedFacts
  <2>3. LogTypeOK' /\ LogsStayShort' /\ ErrorLogKept'
    BY <1>1, <2>1, <2>2 DEF LogTypeOK, LogsStayShort, ErrorLogKept
  <2>4. Continues(errorLog, errorLog)
    BY PrefixFacts DEF Continues, LogTypeOK
  <2>5. DiskInv'
    BY <1>1, <2>1, <2>2, <2>4 DEF DiskInv, Continues
  <2>6. QED
    BY <1>2, <2>3, <2>5
<1>4. CASE AppendToErrorLog
  <2>1. errorLog' = Extended(errorLog) /\ stdLog' = stdLog /\ errorLog \in Logs /\ stdLog \in Logs
    BY <1>4 DEF AppendToErrorLog, LogTypeOK
  <2>2. errorLog' \in Logs /\ Len(errorLog') <= Limit + 1 /\ Continues(errorLog', errorLog)
    BY <1>1, <2>1, LogFacts, ExtendedFacts
  <2>3. LogTypeOK' /\ LogsStayShort' /\ ErrorLogKept'
    BY <1>1, <2>1, <2>2, LogFacts, MarkersAssumption
       DEF LogTypeOK, LogsStayShort, ErrorLogKept, Logs
  <2>4. Continues(stdLog, stdLog)
    BY <2>1, PrefixFacts DEF Continues
  <2>5. DiskInv'
    BY <1>1, <2>1, <2>2, <2>4 DEF DiskInv, Continues
  <2>6. QED
    BY <1>2, <2>3, <2>5
<1>5. QED
  BY <1>3, <1>4

LEMMA SaveKeeps ==
  ASSUME LogInv, Save
  PROVE  LogInv'
<1> USE DEF LogInv
<1>1. CASE SaveStdout
  <2>1. /\ saving = "stdout" /\ saving' = "error" /\ stdFile' = stdLog /\ stdLog \in Logs
        /\ stdLog # Absent
        /\ UNCHANGED <<stdLog, errorLog, errorFile, line, unsaved, torn>>
    BY <1>1, LogFacts DEF SaveStdout, LogTypeOK
  <2>2. LogTypeOK' /\ LogsStayShort' /\ ErrorLogKept' /\ FilesInv'
    BY <2>1 DEF LogTypeOK, LogsStayShort, ErrorLogKept, FilesInv
  <2>3. DiskInv'
    BY <2>1 DEF DiskInv, Continues
  <2>4. QED
    BY <2>2, <2>3
<1>2. CASE SaveError
  <2>1. /\ saving = "error" /\ saving' = "idle" /\ errorFile' = errorLog /\ errorLog # Absent
        /\ UNCHANGED <<stdLog, errorLog, stdFile, line, torn>> /\ unsaved' = FALSE
    BY <1>2, LogFacts DEF SaveError, LogTypeOK
  <2>2. LogTypeOK' /\ LogsStayShort' /\ ErrorLogKept' /\ FilesInv'
    BY <2>1 DEF LogTypeOK, LogsStayShort, ErrorLogKept, FilesInv
  <2>3. DiskInv'
    BY <2>1 DEF DiskInv, FilesInv
  <2>4. QED
    BY <2>2, <2>3
<1>3. CASE SaveFails
  <2>1. /\ saving \in {"stdout", "error"} /\ saving' = "idle" /\ unsaved' = TRUE
        /\ (torn => torn') /\ (saving = "error" /\ errorFile = Absent => torn') /\ torn' \in BOOLEAN
        /\ UNCHANGED <<stdLog, errorLog, stdFile, errorFile, line>>
    BY <1>3 DEF SaveFails, Tears, LogTypeOK
  <2>2. LogTypeOK' /\ LogsStayShort' /\ ErrorLogKept' /\ FilesInv' /\ DiskInv'
    BY <2>1 DEF LogTypeOK, LogsStayShort, ErrorLogKept, FilesInv, DiskInv
  <2>3. QED
    BY <2>2
<1>4. QED
  BY <1>1, <1>2, <1>3 DEF Save

LEMMA StopKeeps ==
  ASSUME LogInv, Stop
  PROVE  LogInv' /\ (torn => torn')
<1> USE DEF LogInv
<1>1. /\ saving' = "down" /\ stdLog' = <<>> /\ errorLog' = <<>>
      /\ (torn => torn') /\ (saving = "error" /\ errorFile = Absent => torn') /\ torn' \in BOOLEAN
      /\ UNCHANGED <<stdFile, errorFile, line, unsaved>>
  BY DEF Stop, Tears, LogTypeOK
<1>2. LogTypeOK' /\ LogsStayShort' /\ ErrorLogKept'
  <2>1. LogTypeOK'
    BY <1>1, LogFacts DEF LogTypeOK
  <2>2. LogsStayShort'
    BY <1>1, LogFacts DEF LogsStayShort
  <2>3. ErrorLogKept'
    BY <1>1, LogFacts, MarkersAssumption DEF ErrorLogKept, Logs
  <2>4. QED
    BY <2>1, <2>2, <2>3
<1>3. FilesInv' /\ DiskInv'
  BY <1>1 DEF FilesInv, DiskInv
<1>4. QED
  BY <1>1, <1>2, <1>3

-----------------------------------------------------------------------------
(* The shares.                                                             *)

LEMMA FrontFacts ==
  ASSUME NEW S, NEW s \in Seq(S), NEW n \in Nat, Len(s) = n + 1
  PROVE  /\ Front(s) \in Seq(S) /\ Len(Front(s)) = n
         /\ \A i \in 1..n : Front(s)[i] = s[i]
         /\ Last(s) = s[n + 1] /\ Last(s) \in S
<1>1. 1 \in Int /\ n \in Int /\ \A i \in 1..n : s[i] \in S
  OBVIOUS
<1>2. /\ SubSeq(s, 1, n) \in Seq(S)
      /\ Len(SubSeq(s, 1, n)) = (IF 1 <= n THEN n - 1 + 1 ELSE 0)
      /\ \A i \in 1..(n - 1 + 1) : SubSeq(s, 1, n)[i] = s[1 + i - 1]
  BY <1>1, SubSeqProperties
<1>3. (IF 1 <= n THEN n - 1 + 1 ELSE 0) = n /\ n - 1 + 1 = n /\ \A i \in 1..n : 1 + i - 1 = i
  OBVIOUS
<1>4. Len(s) - 1 = n
  OBVIOUS
<1>5. Last(s) = s[n + 1] /\ s[n + 1] \in S
  BY DEF Last
<1>6. QED
  BY <1>2, <1>3, <1>4, <1>5, Zenon DEF Front

LEMMA QueueKeeps ==
  ASSUME PoolInv, NEW s \in Shares, Queue(s)
  PROVE  PoolInv'
<1>1. stack \in Seq(Shares) /\ Len(stack) \in Nat /\ \A i \in 1..Len(stack) : stack[i] \in Shares
  BY DEF PoolInv, PoolTypeOK
<1>2. /\ at[s] = "none" /\ at' = [at EXCEPT ![s] = "queued"] /\ stack' = Append(stack, s)
      /\ UNCHANGED <<stops, died, torn>>
  BY DEF Queue, logVars
<1>3. PoolTypeOK' /\ DiesOnlyOfTornLogs'
  BY <1>2 DEF PoolInv, PoolTypeOK, DiesOnlyOfTornLogs
<1>4. /\ Len(stack') = Len(stack) + 1 /\ stack'[Len(stack) + 1] = s
      /\ \A i \in 1..Len(stack) : stack'[i] = stack[i]
  BY <1>1, <1>2
<1>5. /\ \A i \in 1..Len(stack') : i = Len(stack) + 1 \/ i \in 1..Len(stack)
      /\ Len(stack) + 1 \in 1..Len(stack') /\ 1..Len(stack) \subseteq 1..Len(stack')
  BY <1>1, <1>4
<1>6. at'[s] = "queued" /\ \A o \in Shares \ {s} : at'[o] = at[o]
  BY <1>2 DEF PoolInv, PoolTypeOK
<1>7. \A i \in 1..Len(stack) : stack[i] # s
  BY <1>2 DEF PoolInv, StackInv
<1>8. \A i \in 1..Len(stack') : at'[stack'[i]] = "queued"
  BY <1>1, <1>4, <1>5, <1>6 DEF PoolInv, StackInv
<1>9. \A i, j \in 1..Len(stack') : stack'[i] = stack'[j] => i = j
  BY <1>4, <1>5, <1>7 DEF PoolInv, StackInv
<1>10. \A o \in Shares : at'[o] = "queued" => \E i \in 1..Len(stack') : stack'[i] = o
  BY <1>4, <1>5, <1>6 DEF PoolInv, StackInv
<1>11. QED
  BY <1>3, <1>8, <1>9, <1>10 DEF PoolInv, StackInv

LEMMA PopKeeps ==
  ASSUME PoolInv, Pop
  PROVE  PoolInv'
<1> DEFINE n == Len(stack) - 1
<1>1. stack \in Seq(Shares) /\ n \in Nat /\ Len(stack) = n + 1
  BY DEF Pop, PoolInv, PoolTypeOK
<1> HIDE DEF n
<1>2. /\ stack' = Front(stack) /\ at' = [at EXCEPT ![Last(stack)] = "popped"]
      /\ UNCHANGED <<stops, died, torn>>
  BY DEF Pop, AppendToStandardLog
<1>3. /\ stack' \in Seq(Shares) /\ Len(stack') = n /\ \A i \in 1..n : stack'[i] = stack[i]
      /\ Last(stack) = stack[n + 1] /\ Last(stack) \in Shares
  BY <1>1, <1>2, FrontFacts
<1>4. PoolTypeOK' /\ DiesOnlyOfTornLogs'
  BY <1>2, <1>3 DEF PoolInv, PoolTypeOK, DiesOnlyOfTornLogs
<1>5. /\ \A i \in 1..n : i \in 1..Len(stack) /\ i # n + 1 /\ n + 1 \in 1..Len(stack)
      /\ \A i \in 1..Len(stack) : i \in 1..n \/ i = n + 1
  BY <1>1
<1>6. at'[Last(stack)] = "popped" /\ \A o \in Shares \ {Last(stack)} : at'[o] = at[o]
  BY <1>2, <1>3 DEF PoolInv, PoolTypeOK
<1>7. \A i \in 1..n : stack[i] # Last(stack) /\ stack[i] \in Shares
  BY <1>1, <1>3, <1>5 DEF PoolInv, StackInv
<1>8. \A i \in 1..Len(stack') : at'[stack'[i]] = "queued"
  BY <1>3, <1>5, <1>6, <1>7 DEF PoolInv, StackInv
<1>9. \A i, j \in 1..Len(stack') : stack'[i] = stack'[j] => i = j
  BY <1>3, <1>5 DEF PoolInv, StackInv
<1>10. \A o \in Shares : at'[o] = "queued" => \E i \in 1..Len(stack') : stack'[i] = o
  BY <1>3, <1>5, <1>6 DEF PoolInv, StackInv
<1>11. QED
  BY <1>4, <1>8, <1>9, <1>10 DEF PoolInv, StackInv

\* A share that is not on the stack moves on.
LEMMA MoveKeeps ==
  ASSUME PoolInv, NEW s \in Shares, at[s] # "queued",
         NEW a \in {"logged", "sent", "answered", "failed"},
         at' = [at EXCEPT ![s] = a], UNCHANGED <<stack, stops, died, torn>>
  PROVE  PoolInv'
<1>1. stack \in Seq(Shares) /\ \A i \in 1..Len(stack) : stack[i] \in Shares
  BY DEF PoolInv, PoolTypeOK
<1>2. at'[s] = a /\ a # "queued" /\ \A o \in Shares \ {s} : at'[o] = at[o]
  BY DEF PoolInv, PoolTypeOK
<1>3. PoolTypeOK' /\ DiesOnlyOfTornLogs'
  BY DEF PoolInv, PoolTypeOK, DiesOnlyOfTornLogs
<1>4. StackInv'
  BY <1>1, <1>2 DEF PoolInv, StackInv
<1>5. QED
  BY <1>3, <1>4 DEF PoolInv

\* The end of the process leaves nothing on the stack.
LEMMA EndKeeps ==
  ASSUME PoolInv, End, died' => torn', died' \in BOOLEAN, stops' \in 0..MaxStops
  PROVE  PoolInv'
<1>1. /\ stack' = <<>>
      /\ at' = [s \in Shares |->
                  IF at[s] \in {"none", "answered", "failed"} THEN at[s] ELSE "lost"]
  BY DEF End
<1>2. PoolTypeOK' /\ DiesOnlyOfTornLogs'
  BY <1>1 DEF PoolInv, PoolTypeOK, DiesOnlyOfTornLogs
<1>3. StackInv'
  BY <1>1 DEF StackInv
<1>4. QED
  BY <1>2, <1>3 DEF PoolInv

-----------------------------------------------------------------------------

LEMMA PoolInitially ==
  ASSUME MaxStops \in Nat, PoolInit
  PROVE  PoolIInv
<1> <<>> \in Seq(Nat) /\ <<>> \in Seq(Shares)
  BY EmptySeq
<1>1. LogTypeOK
  BY DEF PoolInit, Init, LogTypeOK, Logs
<1>2. LogsStayShort
  BY LimitAssumption DEF PoolInit, Init, LogsStayShort
<1>3. ErrorLogKept
  BY MarkersAssumption DEF PoolInit, Init, ErrorLogKept
<1>4. FilesInv /\ DiskInv
  BY DEF PoolInit, Init, FilesInv, DiskInv
<1>5. PoolTypeOK
  <2>1. at = [s \in Shares |-> "none"] /\ stack = <<>> /\ stops = 0 /\ died = FALSE
    BY Zenon DEF PoolInit
  <2>2. stops \in 0..MaxStops
    BY <2>1
  <2>3. QED
    BY <2>1, <2>2 DEF PoolTypeOK
<1>6. StackInv /\ DiesOnlyOfTornLogs
  BY DEF PoolInit, StackInv, DiesOnlyOfTornLogs
<1>7. QED
  BY <1>1, <1>2, <1>3, <1>4, <1>5, <1>6 DEF PoolIInv, LogInv, PoolInv

LEMMA PoolStepKeeps ==
  ASSUME MaxStops \in Nat, PoolIInv, [Next]_vars
  PROVE  PoolIInv'
<1>1. LogInv /\ PoolInv
  BY DEF PoolIInv
<1>2. ASSUME UNCHANGED logVars
      PROVE  LogInv'
  BY <1>1, <1>2 DEF logVars, LogInv, LogTypeOK, LogsStayShort, ErrorLogKept, FilesInv, DiskInv,
                    Continues
<1>3. CASE Pop
  BY <1>1, <1>3, AppendKeeps, PopKeeps DEF Pop, PoolIInv
<1>4. CASE LogStep
  <2>1. LogInv' /\ UNCHANGED poolVars
    BY <1>1, <1>4, StartKeeps, SaveKeeps DEF LogStep
  <2>2. torn => torn'
    BY <1>4 DEF LogStep, Start, Save, SaveStdout, SaveError, SaveFails, Tears
  <2>3. PoolInv'
    BY <1>1, <2>1, <2>2 DEF poolVars, PoolInv, PoolTypeOK, StackInv, DiesOnlyOfTornLogs
  <2>4. QED
    BY <2>1, <2>3 DEF PoolIInv
<1>5. CASE Crash
  <2>1. LogInv' /\ (torn => torn')
    BY <1>1, <1>5, StopKeeps DEF Crash, End
  <2>2. (died' => torn') /\ died' \in BOOLEAN /\ stops' \in 0..MaxStops
    BY <1>1, <1>5, <2>1 DEF Crash, PoolInv, PoolTypeOK, DiesOnlyOfTornLogs
  <2>3. QED
    BY <1>1, <1>5, <2>1, <2>2, EndKeeps DEF Crash, PoolIInv
<1>6. ASSUME NEW s \in Shares, Queue(s)
      PROVE  PoolIInv'
  BY <1>1, <1>2, <1>6, QueueKeeps DEF Queue, PoolIInv
<1>7. ASSUME NEW s \in Shares, Log(s)
      PROVE  PoolIInv'
  BY <1>1, <1>7, AppendKeeps, MoveKeeps DEF Log, AppendToStandardLog, PoolIInv
<1>8. ASSUME NEW s \in Shares, Submit(s) \/ Answer(s)
      PROVE  PoolIInv'
  BY <1>1, <1>2, <1>8, MoveKeeps DEF Submit, Answer, logVars, PoolIInv
<1>9. ASSUME NEW s \in Shares, Fail(s)
      PROVE  PoolIInv'
  BY <1>1, <1>9, AppendKeeps, MoveKeeps DEF Fail, AppendToErrorLog, PoolIInv
<1>10. ASSUME NEW s \in Shares, Die(s)
       PROVE  PoolIInv'
  <2>1. LogInv' /\ (torn => torn')
    BY <1>1, <1>10, StopKeeps DEF Die, End
  <2>2. torn
    BY <1>1, <1>10 DEF Die, ErrorLogThrows, LogInv, ErrorLogKept
  <2>3. (died' => torn') /\ died' \in BOOLEAN /\ stops' \in 0..MaxStops
    BY <1>1, <1>10, <2>1, <2>2 DEF Die, PoolInv, PoolTypeOK
  <2>4. QED
    BY <1>1, <1>10, <2>1, <2>3, EndKeeps DEF Die, PoolIInv
<1>11. CASE UNCHANGED vars
  <2>1. LogInv'
    BY <1>2, <1>11 DEF vars
  <2>2. PoolInv'
    BY <1>1, <1>11 DEF vars, logVars, poolVars, PoolInv, PoolTypeOK, StackInv, DiesOnlyOfTornLogs
  <2>3. QED
    BY <2>1, <2>2 DEF PoolIInv
<1>12. QED
  BY <1>3, <1>4, <1>5, <1>6, <1>7, <1>8, <1>9, <1>10, <1>11 DEF Next, ShareStep

LEMMA PoolInductive ==
  ASSUME MaxStops \in Nat
  PROVE  Spec => []PoolIInv
<1>1. PoolInit => PoolIInv
  BY PoolInitially
<1>2. PoolIInv /\ [Next]_vars => PoolIInv'
  BY PoolStepKeeps
<1>3. QED
  BY <1>1, <1>2, PTL DEF Spec


\* Every variable of the pool interface and of its logs keeps its type.
THEOREM PoolTypesCorrect ==
  ASSUME MaxStops \in Nat
  PROVE  Spec => []TypeOK
<1>1. PoolIInv => TypeOK
  BY DEF PoolIInv, LogInv, PoolInv, PoolTypeOK, TypeOK
<1>2. QED
  BY <1>1, PoolInductive, PTL

\* A share is on the stack, once, exactly as long as it waits to be sent.
THEOREM StackCorrect ==
  ASSUME MaxStops \in Nat
  PROVE  Spec => []StackHoldsTheQueued
<1>1. PoolIInv => StackHoldsTheQueued
  <2> SUFFICES ASSUME PoolInv
               PROVE  StackHoldsTheQueued
    BY DEF PoolIInv
  <2>1. DOMAIN stack = 1..Len(stack) /\ \A i \in 1..Len(stack) : stack[i] \in Shares
    BY DEF PoolInv, PoolTypeOK
  <2>2. {stack[i] : i \in 1..Len(stack)} = {s \in Shares : at[s] = "queued"}
    BY <2>1 DEF PoolInv, StackInv
  <2>3. \A i, j \in 1..Len(stack) : stack[i] = stack[j] => i = j
    BY DEF PoolInv, StackInv
  <2>4. QED
    BY <2>1, <2>2, <2>3, Zenon DEF StackHoldsTheQueued
<1>2. QED
  BY <1>1, PoolInductive, PTL

\* No log grows beyond one line more than the limit, in memory or on disk; the error
\* log is lost only by a first save that ends between its writes; and a request that
\* fails ends the process only if the error log was lost.
THEOREM LogsSound ==
  ASSUME MaxStops \in Nat
  PROVE  Spec => []LogsAreSound
<1>1. PoolIInv => LogsAreSound
  BY DEF PoolIInv, LogInv, PoolInv, LogsAreSound
<1>2. QED
  BY <1>1, PoolInductive, PTL

\* A line on disk stays there until its log is emptied: what is saved continues the
\* file it replaces, as long as no write has failed.
THEOREM LinesStay ==
  ASSUME MaxStops \in Nat
  PROVE  Spec => LinesStayOnDisk
<1> DEFINE Kept(file, new) ==
      new # file /\ file \notin {Absent, Null} => IsPrefix(file, new) \/ Len(file) > Limit
<1>1. ASSUME PoolIInv, [Next]_vars, ~unsaved
      PROVE  Kept(stdFile, stdFile') /\ Kept(errorFile, errorFile')
  <2>1. CASE UNCHANGED <<stdFile, errorFile>>
    BY <2>1
  <2>2. CASE SaveStdout
    BY <1>1, <2>2 DEF SaveStdout, PoolIInv, LogInv, DiskInv, Continues
  <2>3. CASE SaveError
    BY <1>1, <2>3 DEF SaveError, PoolIInv, LogInv, DiskInv, Continues
  <2>4. UNCHANGED <<stdFile, errorFile>> \/ SaveStdout \/ SaveError
    BY <1>1 DEF Next, vars, logVars, Pop, LogStep, Start, Save, SaveFails, Crash, End, Stop, Queue,
                ShareStep, Log, Submit, Answer, Fail, Die, AppendToStandardLog, AppendToErrorLog
  <2>5. QED
    BY <2>1, <2>2, <2>3, <2>4
<1>2. PoolIInv /\ [Next]_vars =>
        [ ~unsaved /\ ~unsaved' =>
            /\ stdFile' # stdFile /\ stdFile # Absent =>
                 IsPrefix(stdFile, stdFile') \/ Len(stdFile) > Limit
            /\ errorFile' # errorFile /\ errorFile \notin {Absent, Null} =>
                 IsPrefix(errorFile, errorFile') \/ Len(errorFile) > Limit ]_logVars
  <2>1. PoolIInv /\ stdFile # Absent => stdFile # Null
    BY MarkersAssumption DEF PoolIInv, LogInv, LogTypeOK, Logs
  <2>2. QED
    BY <1>1, <2>1
<1>3. QED
  BY <1>2, PoolInductive, PTL DEF Spec, LinesStayOnDisk

USE CountAssumption

-----------------------------------------------------------------------------
(* The hash counter.                                                       *)

\* The counter that was read is still there when it is reset, together with what was
\* counted in between, as long as that has not wrapped: only the value is needed.
HashInv == Hashes!TypeOK /\ Hashes!EveryTryAccountedFor

LEMMA HashInitially ==
  ASSUME Hashes!Init
  PROVE  HashInv
BY DEF Hashes!Init, HashInv, Hashes!TypeOK, Hashes!EveryTryAccountedFor

LEMMA TryKeeps ==
  ASSUME HashInv, Hashes!Try
  PROVE  HashInv'
<1>1. CASE hashes + 1 < Modulus
  <2>1. hashes' = hashes + 1
    BY <1>1 DEF Hashes!Try, HashInv, Hashes!TypeOK
  <2>2. (IF step = "reset" THEN lost' = lost + 1 ELSE lost' = lost) /\ wraps' = wraps
    BY <1>1 DEF Hashes!Try, HashInv, Hashes!TypeOK
  <2> QED
    BY <1>1, <2>1, <2>2 DEF Hashes!Try, HashInv, Hashes!TypeOK, Hashes!EveryTryAccountedFor
<1>2. CASE hashes + 1 = Modulus
  <2>1. hashes' = 0
    BY <1>2 DEF Hashes!Try, HashInv, Hashes!TypeOK
  <2>2. CASE step = "reset"
    BY <1>2, <2>1, <2>2 DEF Hashes!Try, HashInv, Hashes!TypeOK, Hashes!EveryTryAccountedFor
  <2>3. CASE step = "read"
    <3>1. wraps' = wraps + 1 /\ lost' = lost /\ wraps \in Nat /\ lost \in Nat
      BY <1>2, <2>3 DEF Hashes!Try, HashInv, Hashes!TypeOK
    <3>2. wraps' * Modulus = wraps * Modulus + Modulus
      BY <3>1
    <3>3. wraps * Modulus \in Nat
      BY <3>1
    <3> QED
      BY <1>2, <2>1, <2>3, <3>1, <3>2, <3>3 DEF Hashes!Try, HashInv, Hashes!TypeOK, Hashes!EveryTryAccountedFor
  <2> QED
    BY <2>2, <2>3 DEF HashInv, Hashes!TypeOK
<1> QED
  BY <1>1, <1>2 DEF HashInv, Hashes!TypeOK

LEMMA HashStepKeeps ==
  ASSUME HashInv, [Hashes!Next]_(Hashes!vars)
  PROVE  HashInv'
<1>1. CASE Hashes!Try
  BY <1>1, TryKeeps
<1>2. CASE Hashes!Read
  BY <1>2 DEF Hashes!Read, HashInv, Hashes!TypeOK, Hashes!EveryTryAccountedFor
<1>3. CASE Hashes!Reset
  <2>1. wraps * Modulus \in Nat
    BY DEF HashInv, Hashes!TypeOK
  <2> QED
    BY <1>3, <2>1 DEF Hashes!Reset, HashInv, Hashes!TypeOK, Hashes!EveryTryAccountedFor
<1>4. CASE UNCHANGED Hashes!vars
  BY <1>4 DEF Hashes!vars, HashInv, Hashes!TypeOK, Hashes!EveryTryAccountedFor
<1> QED
  BY <1>1, <1>2, <1>3, <1>4 DEF Hashes!Next

LEMMA HashInductive ==
  Hashes!Spec => []HashInv
<1>1. Hashes!Init => HashInv
  BY HashInitially
<1>2. HashInv /\ [Hashes!Next]_(Hashes!vars) => HashInv'
  BY HashStepKeeps
<1>3. QED
  BY <1>1, <1>2, PTL DEF Hashes!Spec

-----------------------------------------------------------------------------
(* The drafted addon.                                                      *)

\* Between the comparison of the count and its increment there is room, whatever the
\* build makes of the count it has read: a clear only takes solutions away.
RoomInv ==
    /\ buffered \in 0..Size
    /\ minePc \in {"store", "count"} => index \in 0..(Size - 1) /\ buffered < Size

\* As long as no clear and no push have crossed, a push has read the count that is
\* still there, and a clear finds no push under way.
ArrayInv ==
    ~crossed /\ 0 \notin Nonces =>
        /\ minePc \in {"store", "count"} => index = buffered
        /\ clearing => solutions = Alpha!Empty /\ minePc \notin {"store", "count"}
        /\ ~clearing => \A i \in 0..(Size - 1) :
             (i < buffered \/ (minePc = "count" /\ i = index)) <=> solutions[i] # 0

NonceInv == minePc \in {"compare", "store"} => mineNonce \in Nonces

AlphaInv == Alpha!TypeOK /\ RoomInv /\ ArrayInv /\ NonceInv

LEMMA EmptyFacts ==
  /\ Alpha!Empty \in [0..(Size - 1) -> Nonces \cup {0}]
  /\ \A i \in 0..(Size - 1) : Alpha!Empty[i] = 0
BY DEF Alpha!Empty

LEMMA AlphaInitially ==
  ASSUME Alpha!Init
  PROVE  AlphaInv
<1>1. Alpha!TypeOK
  BY EmptyFacts DEF Alpha!Init, Alpha!TypeOK
<1>2. RoomInv
  BY DEF Alpha!Init, RoomInv
<1>3. ArrayInv
  BY EmptyFacts DEF Alpha!Init, ArrayInv
<1>4. NonceInv
  BY DEF Alpha!Init, NonceInv
<1>5. QED
  BY <1>1, <1>2, <1>3, <1>4 DEF AlphaInv

-----------------------------------------------------------------------------
(* The mining thread.                                                      *)

LEMMA CompareKeeps ==
  ASSUME AlphaInv, Alpha!Compare
  PROVE  AlphaInv'
<1>1. CASE mineNonce < difficultyTarget /\ Alpha!HasRoom
  <2>1. /\ minePc = "compare" /\ minePc' = "store" /\ index' = buffered /\ buffered \in 0..(Size - 1)
        /\ (~crossed' => ~crossed /\ ~clearing) /\ crossed' \in BOOLEAN
        /\ UNCHANGED <<difficultyTarget, solutions, buffered, mineNonce, clearing>>
    BY <1>1 DEF Alpha!Compare, Alpha!HasRoom, AlphaInv, RoomInv, Alpha!TypeOK
  <2>2. QED
    BY <2>1 DEF AlphaInv, Alpha!TypeOK, RoomInv, ArrayInv, NonceInv, Alpha!Empty
<1>2. CASE ~(mineNonce < difficultyTarget /\ Alpha!HasRoom)
  <2>1. /\ minePc = "compare" /\ minePc' = "draw" /\ crossed' = crossed
        /\ UNCHANGED <<difficultyTarget, solutions, buffered, mineNonce, clearing, index>>
    BY <1>2 DEF Alpha!Compare, AlphaInv, Alpha!TypeOK
  <2>2. QED
    BY <2>1 DEF AlphaInv, Alpha!TypeOK, RoomInv, ArrayInv, NonceInv, Alpha!Empty
<1>3. QED
  BY <1>1, <1>2

LEMMA StoreKeeps ==
  ASSUME AlphaInv, Alpha!Store
  PROVE  AlphaInv'
<1>1. /\ minePc = "store" /\ minePc' = "count" /\ index' \in 0..(Size - 1) /\ mineNonce \in Nonces
      /\ solutions' = [solutions EXCEPT ![index'] = mineNonce]
      /\ UNCHANGED <<difficultyTarget, buffered, mineNonce, clearing, crossed>>
  BY DEF Alpha!Store, AlphaInv, RoomInv, NonceInv
<1>2. Alpha!TypeOK' /\ RoomInv' /\ NonceInv'
  BY <1>1 DEF AlphaInv, Alpha!TypeOK, RoomInv, NonceInv
<1>3. ASSUME ~crossed, 0 \notin Nonces
      PROVE  ArrayInv'
  <2>1. ~clearing /\ index = buffered
    BY <1>1, <1>3 DEF AlphaInv, ArrayInv
  <2>2. index' = buffered
    BY <2>1 DEF Alpha!Store
  <2>3. \A i \in 0..(Size - 1) : solutions'[i] = IF i = buffered THEN mineNonce ELSE solutions[i]
    BY <1>1, <2>2 DEF AlphaInv, Alpha!TypeOK
  <2>4. \A i \in 0..(Size - 1) : i < buffered <=> solutions[i] # 0
    BY <1>1, <1>3, <2>1 DEF AlphaInv, ArrayInv
  <2>5. mineNonce # 0
    BY <1>1, <1>3
  <2>6. \A i \in 0..(Size - 1) : (i < buffered \/ i = buffered) <=> solutions'[i] # 0
    BY <2>3, <2>4, <2>5
  <2>7. QED
    BY <1>1, <2>1, <2>2, <2>6 DEF ArrayInv
<1>4. QED
  BY <1>1, <1>2, <1>3 DEF AlphaInv, ArrayInv

LEMMA CountKeeps ==
  ASSUME AlphaInv, Alpha!Count
  PROVE  AlphaInv'
<1>1. /\ minePc = "count" /\ minePc' = "draw" /\ buffered \in 0..(Size - 1) /\ index \in 0..(Size - 1)
      /\ buffered' \in {index + 1, buffered + 1}
      /\ UNCHANGED <<difficultyTarget, solutions, mineNonce, index, clearing, crossed>>
  BY DEF Alpha!Count, AlphaInv, RoomInv
<1>2. Alpha!TypeOK' /\ RoomInv' /\ NonceInv'
  BY <1>1 DEF AlphaInv, Alpha!TypeOK, RoomInv, NonceInv
<1>3. ASSUME ~crossed, 0 \notin Nonces
      PROVE  ArrayInv'
  <2>1. ~clearing /\ index = buffered /\ buffered' = buffered + 1
    BY <1>1, <1>3 DEF AlphaInv, ArrayInv
  <2>2. \A i \in 0..(Size - 1) : i < buffered' <=> i < buffered \/ i = index
    BY <1>1, <2>1
  <2>3. QED
    BY <1>1, <1>3, <2>1, <2>2 DEF AlphaInv, ArrayInv
<1>4. QED
  BY <1>1, <1>2, <1>3 DEF AlphaInv, ArrayInv

-----------------------------------------------------------------------------

LEMMA AlphaStepKeeps ==
  ASSUME AlphaInv, [Alpha!Next]_(Alpha!vars)
  PROVE  AlphaInv'
<1>1. ASSUME NEW target \in Targets, Alpha!SetDifficultyTarget(target)
      PROVE  AlphaInv'
  BY <1>1 DEF Alpha!SetDifficultyTarget, AlphaInv, Alpha!TypeOK, RoomInv, ArrayInv, NonceInv, Alpha!Empty
<1>2. CASE Alpha!StartMining
  BY <1>2 DEF Alpha!StartMining, AlphaInv, Alpha!TypeOK, RoomInv, ArrayInv, NonceInv, Alpha!Empty
<1>3. CASE Alpha!ClearArray
  <2>1. Alpha!TypeOK' /\ RoomInv' /\ NonceInv'
    <3>1. crossed' \in BOOLEAN
      BY <1>3, Zenon DEF Alpha!ClearArray
    <3>2. Alpha!TypeOK'
      BY <1>3, <3>1, EmptyFacts DEF Alpha!ClearArray, AlphaInv, Alpha!TypeOK
    <3>3. RoomInv' /\ NonceInv'
      BY <1>3 DEF Alpha!ClearArray, AlphaInv, RoomInv, NonceInv
    <3>4. QED
      BY <3>2, <3>3
  <2>2. ArrayInv'
    BY <1>3 DEF Alpha!ClearArray, Alpha!Empty, AlphaInv, ArrayInv
  <2>3. QED
    BY <2>1, <2>2 DEF AlphaInv
<1>4. CASE Alpha!ClearCount
  <2>1. Alpha!TypeOK'
    BY <1>4 DEF Alpha!ClearCount, AlphaInv, Alpha!TypeOK
  <2>2. RoomInv' /\ NonceInv'
    BY <1>4 DEF Alpha!ClearCount, AlphaInv, RoomInv, NonceInv
  <2>3. ArrayInv'
    BY <1>4 DEF Alpha!ClearCount, Alpha!Empty, AlphaInv, ArrayInv
  <2>4. QED
    BY <2>1, <2>2, <2>3 DEF AlphaInv
<1>5. CASE Alpha!Draw
  BY <1>5 DEF Alpha!Draw, AlphaInv, Alpha!TypeOK, RoomInv, ArrayInv, NonceInv, Alpha!Empty
<1>6. CASE Alpha!Compare \/ Alpha!Store \/ Alpha!Count
  BY <1>6, CompareKeeps, StoreKeeps, CountKeeps
<1>7. CASE UNCHANGED Alpha!vars
  BY <1>7 DEF Alpha!vars, AlphaInv, Alpha!TypeOK, RoomInv, ArrayInv, NonceInv, Alpha!Empty
<1>8. QED
  BY <1>1, <1>2, <1>3, <1>4, <1>5, <1>6, <1>7 DEF Alpha!Next

LEMMA AlphaInductive ==
  Alpha!Spec => []AlphaInv
<1>1. Alpha!Init => AlphaInv
  BY AlphaInitially
<1>2. AlphaInv /\ [Alpha!Next]_(Alpha!vars) => AlphaInv'
  BY AlphaStepKeeps
<1>3. QED
  BY <1>1, <1>2, PTL DEF Alpha!Spec

\* Whatever the width of the counter, the length of the array, the targets and nonces:
\* what hashes() has returned, what fell between a read and its reset, what wraps took
\* away and what is still counted add up to the tries; a push stays within the array,
\* whatever it reads again and whenever it is cleared; and what is in the array is what
\* is counted, unless a clear and a push have crossed.
THEOREM CountsExact ==
  Hashes!Spec /\ Alpha!Spec => []CountsAreExact
<1>1. HashInv => Hashes!EveryTryAccountedFor
  BY DEF HashInv
<1>2. AlphaInv => Alpha!IndexInBounds /\ Alpha!CountedAreThere
  BY DEF AlphaInv, RoomInv, ArrayInv, Alpha!IndexInBounds, Alpha!CountedAreThere
<1>3. HashInv /\ AlphaInv => CountsAreExact
  BY <1>1, <1>2 DEF CountsAreExact
<1>4. QED
  BY <1>3, HashInductive, AlphaInductive, PTL

HIDE CountAssumption

-----------------------------------------------------------------------------
(* The scans.                                                              *)

\* The nonces of the launch that is to come, or that has ended.
Launched == nonce..(nonce + Scan!Threads - 1)

ScanTypes ==
    /\ Scan!TypeOK /\ nonce <= Top
    /\ kind \in {"keccak256", "sha256t", "sha256d", "sha256s"}
    /\ quality \in [0..Top -> {"miss", "good", "equal", "bad"}]
    /\ max \in 0..Top /\ first \in 0..max

\* Nothing has been returned; a scan of keccak256 never passes max_nonce.
BeforeReturn ==
    /\ pc # "returned" => ret = 0
    /\ pc = "call" => nonce = first /\ tested = {}
    /\ pc \in {"launch", "check"} /\ kind = "keccak256" => nonce + throughput <= max

\* As long as no launch has run past the last nonce, nothing is tested from behind the
\* launch on, and with whole blocks nothing is left out before it.
TestedInv ==
    ~wrapped =>
        /\ first <= nonce
        /\ pc \in {"launch", "check"} => \A n \in tested : n < nonce + Scan!Threads
        /\ pc \in {"launch", "check"} /\ Scan!WholeBlocks => first..(nonce - 1) \subseteq tested
        /\ pc = "check" => nonce + throughput <= Top /\ Launched \subseteq tested

\* After a launch the first slot is empty only if there was nothing to report, and what
\* is in the slots is of that launch; what goes into hashes_done is its end.
SlotsInv ==
    pc = "check" /\ ~wrapped =>
        /\ slots[1] = Top => \A n \in Launched : quality[n] = "miss"
        /\ slots[1] # Top => slots[1] \in Launched /\ quality[slots[1]] # "miss"
        /\ slots[2] # Top => slots[2] \in Launched
        /\ ~crowded => \A m, n \in Launched : quality[m] # "miss" /\ quality[n] # "miss" => m = n
        /\ kind # "keccak256" => hashesDone = nonce - first + throughput

\* What has been left behind without a rival solves nothing.
BehindInv ==
    pc \in {"launch", "check"} /\ ~crowded /\ ~wrapped =>
        \A n \in first..(nonce - 1) : n \in tested => quality[n] # "good"

ScanInv == ScanTypes /\ BeforeReturn /\ TestedInv /\ SlotsInv /\ BehindInv /\ ScansAreSound

-----------------------------------------------------------------------------
(* Arithmetic of a launch.                                                 *)

\* U32 keeps what fits and gives a number that fits.
LEMMA U32Facts ==
  /\ \A n \in 0..Top : Scan!U32(n) = n
  /\ \A n \in Int : Scan!U32(n) \in 0..Top
BY ScanAssumption DEF Scan!U32

\* The SHA-256 kernels start no more threads than the throughput, and as many if that
\* is a multiple of the block.
LEMMA ThreadsFacts ==
  ASSUME throughput \in Nat
  PROVE  /\ Scan!Threads \in 0..throughput
         /\ Scan!WholeBlocks => Scan!Threads = throughput
<1> DEFINE q == throughput \div Block
<1>1. q \in Nat /\ throughput % Block \in Nat /\ throughput = Block * q + (throughput % Block)
  BY ScanAssumption
<1>2. q * Block \in Nat /\ q * Block = Block * q
  BY <1>1, ScanAssumption
<1>3. Scan!ShaThreads \in 0..throughput /\ (throughput % Block = 0 => Scan!ShaThreads = throughput)
  BY <1>1, <1>2 DEF Scan!ShaThreads
<1>4. QED
  BY <1>3 DEF Scan!Threads, Scan!KeccakThreads, Scan!WholeBlocks

\* The cardinality of ScanHash is that of this module.
LEMMA SameCardinality ==
  ASSUME NEW S
  PROVE  Scan!Cardinality(S) = Cardinality(S)
BY DEF Cardinality, Scan!Cardinality

\* A set with one element at most has no two.
LEMMA AtMostOne ==
  ASSUME NEW S, IsFiniteSet(S), Cardinality(S) <= 1, NEW a \in S, NEW b \in S
  PROVE  a = b
<1> SUFFICES ASSUME a # b
             PROVE  FALSE
  OBVIOUS
<1>1. IsFiniteSet({a}) /\ Cardinality({a}) = 1 /\ b \notin {a}
  BY FS_Singleton, Zenon
<1>2. Cardinality({a} \cup {b}) = Cardinality({a}) + 1
  BY <1>1, FS_AddElement, Zenon
<1>3. ({a} \cup {b}) \in SUBSET S
  OBVIOUS
<1>4. Cardinality({a} \cup {b}) <= Cardinality(S)
  BY <1>3, FS_Subset, Zenon
<1>5. Cardinality(S) \in Nat
  BY FS_CardinalityType
<1>6. QED
  BY <1>1, <1>2, <1>4, <1>5

\* A set of natural numbers up to Top that holds m..(n-1) has n - m elements or more.
LEMMA HoldsInterval ==
  ASSUME NEW S \in SUBSET (0..Top), NEW m \in Nat, NEW n \in Nat, m <= n, m..(n - 1) \subseteq S
  PROVE  n - m <= Cardinality(S)
<1>1. IsFiniteSet(0..Top)
  BY ScanAssumption, FS_Interval
<1>2. IsFiniteSet(S)
  BY <1>1, FS_Subset
<1>3. Cardinality(m..(n - 1)) = n - m
  <2>1. n - 1 \in Int /\ m \in Int
    OBVIOUS
  <2>2. Cardinality(m..(n - 1)) = IF m > n - 1 THEN 0 ELSE (n - 1) - m + 1
    BY <2>1, FS_Interval
  <2>3. QED
    BY <2>2
<1>4. Cardinality(m..(n - 1)) <= Cardinality(S)
  BY <1>2, FS_Subset
<1>5. QED
  BY <1>3, <1>4

\* What the host reads from the slots has been reported; the first is empty only if
\* nothing was, or the mark itself.
LEMMA SlotsFacts ==
  ASSUME NEW found \in SUBSET (0..Top), NEW s \in Scan!Slots(found)
  PROVE  /\ s \in (0..Top) \X (0..Top)
         /\ s[1] # Top => s[1] \in found
         /\ s[2] # Top => s[2] \in found
         /\ s[1] = Top => found \subseteq {Top} \/ Top \in found
<1>1. Top \in 0..Top
  BY ScanAssumption
<1>2. CASE found = {}
  BY <1>1, <1>2 DEF Scan!Slots
<1>3. CASE found # {} /\ kind = "keccak256"
  <2>1. CASE found \subseteq {Top}
    <3>1. s = <<Top, Top>>
      BY <1>3, <2>1 DEF Scan!Slots, Scan!KeccakSlots
    <3>2. QED
      BY <1>1, <2>1, <3>1
  <2>2. CASE ~(found \subseteq {Top})
    <3>1. s \in (found \ {Top}) \X (found \cup {Top})
      BY <1>3, <2>2 DEF Scan!Slots, Scan!KeccakSlots
    <3>2. QED
      BY <1>1, <3>1
  <2>3. QED
    BY <2>1, <2>2
<1>4. CASE found # {} /\ kind # "keccak256"
  BY <1>1, <1>4 DEF Scan!Slots, Scan!ShaSlots
<1>5. QED
  BY <1>2, <1>3, <1>4

\* A launch that stays below the last nonce hashes the nonces from nonce on.
LEMMA LaunchHashes ==
  ASSUME ScanTypes, nonce + throughput <= Top
  PROVE  /\ {Scan!U32(nonce + i) : i \in 0..(Scan!Threads - 1)} = Launched
         /\ \A n \in Launched : n \in 0..(Top - 1) /\ n < nonce + throughput
<1>1. throughput \in Nat /\ nonce \in Nat /\ Scan!Threads \in 0..throughput
  BY ThreadsFacts, ScanAssumption DEF ScanTypes, Scan!TypeOK
<1>2. \A i \in 0..(Scan!Threads - 1) : Scan!U32(nonce + i) = nonce + i
  BY <1>1, U32Facts, ScanAssumption
<1>3. \A n \in Launched : n - nonce \in 0..(Scan!Threads - 1) /\ nonce + (n - nonce) = n
  BY <1>1 DEF Launched
<1>4. \A i \in 0..(Scan!Threads - 1) : nonce + i \in Launched
  BY <1>1 DEF Launched
<1>5. \A n \in Launched : n \in 0..(Top - 1) /\ n < nonce + throughput
  BY <1>1, ScanAssumption DEF Launched
<1>6. QED
  BY <1>2, <1>3, <1>4, <1>5

-----------------------------------------------------------------------------
(* The steps of a scan.                                                    *)

LEMMA ScanInitially ==
  Scan!Init => ScanInv
<1> SUFFICES ASSUME Scan!Init
             PROVE  ScanInv
  OBVIOUS
<1>1. ScanTypes
  <2>1. quality \in [0..Top -> {"miss", "good", "equal", "bad"}]
    BY ScanAssumption DEF Scan!Init
  <2>2. 0 \in 0..Scan!Larger(Top, Intensity)
    BY ScanAssumption DEF Scan!Larger
  <2>3. nonce \in 0..(Top + 1) /\ nonce <= Top /\ max \in 0..Top /\ first \in 0..max
    BY ScanAssumption DEF Scan!Init
  <2>4. slots \in (0..Top) \X (0..Top) /\ hashesDone \in 0..Top
    BY ScanAssumption DEF Scan!Init
  <2>5. restart \in BOOLEAN /\ crowded \in BOOLEAN /\ wrapped \in BOOLEAN
    BY Zenon DEF Scan!Init
  <2>6. throughput \in 0..Scan!Larger(Top, Intensity)
    BY <2>2 DEF Scan!Init
  <2>7. /\ pc \in {"call", "launch", "check", "returned"} /\ ret \in 0..2 /\ tested \subseteq 0..Top
        /\ kind \in {"keccak256", "sha256t", "sha256d", "sha256s"}
    BY DEF Scan!Init
  <2>8. QED
    BY <2>1, <2>3, <2>4, <2>5, <2>6, <2>7 DEF ScanTypes, Scan!TypeOK
<1>2. BeforeReturn /\ TestedInv /\ SlotsInv /\ BehindInv
  BY ScanAssumption DEF Scan!Init, BeforeReturn, TestedInv, SlotsInv, BehindInv
<1>3. ScansAreSound
  BY DEF Scan!Init, ScansAreSound, Scan!NothingIsSkipped, Scan!RangeIsCovered,
         Scan!SoleSolutionIsReturned, Scan!HashesDoneWereHashed
<1>4. QED
  BY <1>1, <1>2, <1>3 DEF ScanInv

LEMMA CallKeeps ==
  ASSUME ScanInv, NEW initialised \in BOOLEAN, Scan!Call(initialised)
  PROVE  ScanInv'
<1>1. /\ pc = "call" /\ pc' = "launch" /\ throughput' = Scan!Throughput(initialised)
      /\ UNCHANGED <<kind, quality, first, max, nonce, slots, ret, hashesDone, restart, tested,
                     crowded, wrapped>>
  BY DEF Scan!Call
<1>2. nonce = first /\ tested = {} /\ ret = 0
  BY <1>1 DEF ScanInv, BeforeReturn
<1>3. /\ Scan!Throughput(initialised) \in 0..Scan!Larger(Top, Intensity)
      /\ kind = "keccak256" => first + Scan!Throughput(initialised) <= max
  BY ScanAssumption DEF Scan!Throughput, Scan!Smaller, Scan!Larger, ScanInv, ScanTypes
<1>4. ScanTypes'
  BY <1>1, <1>3 DEF ScanInv, ScanTypes, Scan!TypeOK, Scan!Larger
<1>5. BeforeReturn'
  BY <1>1, <1>2, <1>3 DEF BeforeReturn
<1>6. first..(nonce - 1) = {}
  BY <1>2 DEF ScanInv, ScanTypes
<1>7. TestedInv' /\ SlotsInv' /\ BehindInv'
  BY <1>1, <1>2, <1>6 DEF ScanInv, ScanTypes, TestedInv, SlotsInv, BehindInv
<1>8. ScansAreSound'
  BY <1>1 DEF ScansAreSound, Scan!NothingIsSkipped, Scan!RangeIsCovered,
              Scan!SoleSolutionIsReturned, Scan!HashesDoneWereHashed
<1>9. QED
  BY <1>4, <1>5, <1>7, <1>8 DEF ScanInv

LEMMA LaunchKeeps ==
  ASSUME ScanInv, Scan!Launch
  PROVE  ScanInv'
<1> DEFINE hashed == {Scan!U32(nonce + i) : i \in 0..(Scan!Threads - 1)}
           found == {n \in hashed : quality[n] # "miss"}
<1>1. /\ pc = "launch" /\ pc' = "check"
      /\ tested' = tested \cup hashed
      /\ crowded' = (crowded \/ Cardinality(found) > 1)
      /\ wrapped' = (wrapped \/ nonce + throughput > Top)
      /\ slots' \in Scan!Slots(found)
      /\ hashesDone' = IF kind = "keccak256" THEN hashesDone
                       ELSE Scan!U32(nonce - first + throughput)
      /\ UNCHANGED <<kind, quality, first, max, throughput, nonce, ret, restart>>
  BY SameCardinality DEF Scan!Launch, Scan!callVars
<1>2. /\ throughput \in Nat /\ nonce \in 0..Top /\ first \in 0..Top
      /\ Scan!Threads \in 0..throughput /\ Scan!Threads' = Scan!Threads
      /\ Scan!WholeBlocks' = Scan!WholeBlocks /\ Launched' = Launched
  <2>1. throughput \in Nat /\ nonce \in 0..Top /\ first \in 0..Top
    BY ScanAssumption DEF ScanInv, ScanTypes, Scan!TypeOK, Scan!Larger
  <2>2. Scan!Threads \in 0..throughput
    BY <2>1, ThreadsFacts
  <2>3. Scan!Threads' = Scan!Threads /\ Scan!WholeBlocks' = Scan!WholeBlocks
    BY <1>1 DEF Scan!Threads, Scan!KeccakThreads, Scan!ShaThreads, Scan!WholeBlocks
  <2>4. QED
    BY <1>1, <2>1, <2>2, <2>3 DEF Launched
<1>3. hashed \in SUBSET (0..Top) /\ found \in SUBSET (0..Top)
  <2>1. \A i \in 0..(Scan!Threads - 1) : nonce + i \in Int
    BY <1>2
  <2>2. QED
    BY <2>1, U32Facts
<1>4. ScanTypes'
  <2>1. nonce - first + throughput \in Int
    BY <1>2
  <2>2. hashesDone' \in 0..Top
    BY <1>1, <2>1, U32Facts DEF ScanInv, ScanTypes, Scan!TypeOK
  <2>3. slots' \in (0..Top) \X (0..Top)
    BY <1>1, <1>3, SlotsFacts
  <2>4. tested' \subseteq 0..Top
    BY <1>1, <1>3 DEF ScanInv, ScanTypes, Scan!TypeOK
  <2>5. crowded' \in BOOLEAN /\ wrapped' \in BOOLEAN
    BY <1>1, Zenon
  <2>6. QED
    BY <1>1, <2>2, <2>3, <2>4, <2>5 DEF ScanInv, ScanTypes, Scan!TypeOK
<1>5. BeforeReturn'
  BY <1>1 DEF ScanInv, BeforeReturn
<1>6. ASSUME ~wrapped'
      PROVE  TestedInv' /\ SlotsInv' /\ BehindInv'
  <2>1. ~wrapped /\ nonce + throughput <= Top
    <3>1. ~wrapped /\ ~(nonce + throughput > Top)
      BY <1>1, <1>6, Zenon
    <3>2. QED
      BY <1>2, <3>1, ScanAssumption
  <2>2. hashed = Launched /\ \A n \in Launched : n \in 0..(Top - 1) /\ n < nonce + throughput
    BY <2>1, LaunchHashes DEF ScanInv
  <2>3. \A n \in tested' : n < nonce + Scan!Threads
    BY <1>1, <1>2, <2>1, <2>2 DEF ScanInv, TestedInv, Launched
  <2>4. TestedInv'
    BY <1>1, <1>2, <2>1, <2>2, <2>3 DEF ScanInv, TestedInv
  <2>5. Top \notin found
    BY <2>2, ScanAssumption
  <2>6. /\ slots'[1] = Top => found = {}
        /\ slots'[1] # Top => slots'[1] \in found
        /\ slots'[2] # Top => slots'[2] \in found
    BY <1>1, <1>3, <2>5, SlotsFacts
  <2>7. ASSUME ~crowded', NEW m \in Launched, NEW n \in Launched,
               quality[m] # "miss", quality[n] # "miss"
        PROVE  m = n
    <3>1. m \in found /\ n \in found
      BY <2>2, <2>7
    <3>2. IsFiniteSet(found)
      <4>1. IsFiniteSet(0..Top)
        BY FS_Interval, ScanAssumption
      <4>2. QED
        BY <1>3, <4>1, FS_Subset
    <3>3. Cardinality(found) <= 1
      <4>1. ~(Cardinality(found) > 1)
        BY <1>1, <2>7, Zenon
      <4>2. QED
        BY <3>2, <4>1, FS_CardinalityType
    <3>4. QED
      BY <3>1, <3>2, <3>3, AtMostOne
  <2>8. kind # "keccak256" => hashesDone' = nonce - first + throughput
    <3>1. nonce - first + throughput \in 0..Top
      <4>1. first <= nonce
        BY <2>1 DEF ScanInv, TestedInv
      <4>2. QED
        BY <1>2, <2>1, <4>1, ScanAssumption
    <3>2. QED
      BY <1>1, <3>1, U32Facts
  <2>9. SlotsInv'
    BY <1>1, <1>2, <2>2, <2>6, <2>7, <2>8 DEF SlotsInv
  <2>10. BehindInv'
    <3>1. \A n \in first..(nonce - 1) : n \notin Launched
      BY <1>2 DEF Launched
    <3>2. QED
      BY <1>1, <2>1, <2>2, <3>1 DEF ScanInv, BehindInv
  <2>11. QED
    BY <2>4, <2>9, <2>10
<1>7. TestedInv' /\ SlotsInv' /\ BehindInv'
  BY <1>6 DEF TestedInv, SlotsInv, BehindInv
<1>8. ScansAreSound'
  BY <1>1 DEF ScansAreSound, Scan!NothingIsSkipped, Scan!RangeIsCovered,
              Scan!SoleSolutionIsReturned, Scan!HashesDoneWereHashed
<1>9. QED
  BY <1>4, <1>5, <1>7, <1>8 DEF ScanInv

-----------------------------------------------------------------------------
(* What the host does with the slots.                                      *)

\* The values a check works with.
LEMMA CheckFacts ==
  ASSUME ScanInv, pc = "check"
  PROVE  /\ Top \in Nat
         /\ throughput \in Nat /\ nonce \in 0..Top /\ first \in 0..max /\ max \in 0..Top
         /\ slots \in (0..Top) \X (0..Top) /\ hashesDone \in 0..Top /\ ret = 0
         /\ ~wrapped =>
              /\ first <= nonce /\ nonce + throughput <= Top
              /\ \A n \in Launched : n \in nonce..(nonce + throughput - 1)
              /\ Scan!WholeBlocks => first..(nonce + throughput - 1) \subseteq tested
<1>1. /\ throughput \in Nat /\ nonce \in 0..Top /\ first \in 0..max /\ max \in 0..Top
      /\ slots \in (0..Top) \X (0..Top) /\ hashesDone \in 0..Top
  <2>1. throughput \in Nat
    BY ScanAssumption DEF ScanInv, ScanTypes, Scan!TypeOK, Scan!Larger
  <2>2. QED
    BY <2>1, ScanAssumption DEF ScanInv, ScanTypes, Scan!TypeOK
<1>2. ret = 0
  BY DEF ScanInv, BeforeReturn
<1>3. ASSUME ~wrapped
      PROVE  /\ first <= nonce /\ nonce + throughput <= Top
             /\ \A n \in Launched : n \in nonce..(nonce + throughput - 1)
             /\ Scan!WholeBlocks => first..(nonce + throughput - 1) \subseteq tested
  <2>1. first <= nonce /\ nonce + throughput <= Top /\ Launched \subseteq tested
    BY <1>3 DEF ScanInv, TestedInv
  <2>2. Scan!Threads \in 0..throughput /\ (Scan!WholeBlocks => Scan!Threads = throughput)
    BY <1>1, ThreadsFacts
  <2>3. \A n \in Launched : n \in nonce..(nonce + throughput - 1)
    BY <1>1, <2>2 DEF Launched
  <2>4. ASSUME Scan!WholeBlocks
        PROVE  first..(nonce + throughput - 1) \subseteq tested
    <3>1. first..(nonce - 1) \subseteq tested
      BY <1>3, <2>4 DEF ScanInv, TestedInv
    <3>2. Launched = nonce..(nonce + throughput - 1)
      BY <2>2, <2>4 DEF Launched
    <3>3. \A n \in first..(nonce + throughput - 1) :
             n \in first..(nonce - 1) \/ n \in nonce..(nonce + throughput - 1)
      BY <1>1
    <3>4. QED
      BY <2>1, <3>1, <3>2, <3>3
  <2>5. QED
    BY <2>1, <2>3, <2>4
<1>4. QED
  BY <1>1, <1>2, <1>3, ScanAssumption

\* If the nonce in the first slot solves nothing, no nonce of the launch does.
LEMMA NoneSolves ==
  ASSUME ScanInv, pc = "check", ~wrapped, ~crowded,
         ~(Scan!Found /\ quality[slots[1]] = "good"),
         NEW n \in Launched
  PROVE  quality[n] # "good"
<1> SUFFICES ASSUME quality[n] = "good"
             PROVE  FALSE
  OBVIOUS
<1>1. quality[n] # "miss"
  OBVIOUS
<1>2. slots[1] # Top /\ slots[1] \in Launched /\ quality[slots[1]] # "miss"
  BY <1>1 DEF ScanInv, SlotsInv
<1>3. n = slots[1]
  BY <1>1, <1>2 DEF ScanInv, SlotsInv
<1>4. QED
  BY <1>2, <1>3 DEF Scan!Found

\* The scan goes on from n, not behind the launch and not before it.
LEMMA AgainKeeps ==
  ASSUME ScanInv, pc = "check", NEW n \in 0..Top, Scan!Again(n),
         UNCHANGED <<Scan!callVars, slots, restart, tested, crowded, wrapped>>,
         kind = "keccak256" => n + throughput <= max,
         ~wrapped => nonce <= n /\ n <= nonce + throughput,
         ~wrapped /\ ~crowded => \A m \in Launched : m < n => quality[m] # "good"
  PROVE  ScanInv'
<1>1. /\ nonce' = n /\ pc' = "launch"
      /\ UNCHANGED <<kind, quality, first, max, throughput, slots, restart, tested, crowded,
                     wrapped, hashesDone, ret>>
  BY DEF Scan!Again, Scan!callVars
<1>2. ScanTypes'
  BY <1>1, ScanAssumption DEF ScanInv, ScanTypes, Scan!TypeOK
<1>3. BeforeReturn'
  BY <1>1 DEF ScanInv, BeforeReturn
<1>4. Scan!Threads' = Scan!Threads /\ Scan!WholeBlocks' = Scan!WholeBlocks
  BY <1>1 DEF Scan!Threads, Scan!KeccakThreads, Scan!ShaThreads, Scan!WholeBlocks
<1>5. throughput \in Nat /\ nonce \in 0..Top /\ first \in 0..Top /\ Scan!Threads \in 0..throughput
  BY CheckFacts, ThreadsFacts, ScanAssumption
<1>6. ASSUME ~wrapped
      PROVE  TestedInv' /\ BehindInv'
  <2>1. first <= nonce /\ nonce <= n /\ n <= nonce + throughput /\ Launched \subseteq tested
    BY <1>6 DEF ScanInv, TestedInv
  <2>2. \A m \in tested : m \in 0..Top /\ m < nonce + Scan!Threads
    BY <1>6 DEF ScanInv, TestedInv, ScanTypes, Scan!TypeOK
  <2>3. \A m \in tested : m < n + Scan!Threads
    BY <1>5, <2>1, <2>2, ScanAssumption
  <2>4. Scan!WholeBlocks => first..(n - 1) \subseteq tested
    <3>1. Scan!WholeBlocks => first..(nonce + throughput - 1) \subseteq tested
      BY <1>6, CheckFacts
    <3>2. first..(n - 1) \subseteq first..(nonce + throughput - 1)
      BY <1>5, <2>1
    <3>3. QED
      BY <3>1, <3>2
  <2>5. TestedInv'
    BY <1>1, <1>4, <1>5, <2>1, <2>3, <2>4 DEF TestedInv
  <2>6. ASSUME ~crowded, NEW m \in first..(n - 1), m \in tested
        PROVE  quality[m] # "good"
    <3>1. CASE m < nonce
      BY <1>5, <1>6, <2>6, <3>1 DEF ScanInv, BehindInv
    <3>2. CASE m >= nonce
      <4>1. m \in Launched /\ m < n
        BY <1>5, <2>2, <2>6, <3>2 DEF Launched
      <4>2. QED
        BY <1>6, <2>6, <4>1
    <3>3. QED
      BY <1>5, <3>1, <3>2
  <2>7. BehindInv'
    BY <1>1, <2>6 DEF BehindInv
  <2>8. QED
    BY <2>5, <2>7
<1>7. TestedInv' /\ SlotsInv' /\ BehindInv'
  BY <1>1, <1>6 DEF TestedInv, SlotsInv, BehindInv
<1>8. ScansAreSound'
  BY <1>1 DEF ScansAreSound, Scan!NothingIsSkipped, Scan!RangeIsCovered,
              Scan!SoleSolutionIsReturned, Scan!HashesDoneWereHashed
<1>9. QED
  BY <1>2, <1>3, <1>7, <1>8 DEF ScanInv

\* The scan returns, and the next one goes on from n.
LEMMA ReturnKeeps ==
  ASSUME ScanInv, pc = "check", pc' = "returned",
         NEW n \in 0..Top, nonce' = n, ret' \in 0..2, hashesDone' \in 0..Top,
         UNCHANGED <<Scan!callVars, slots, restart, tested, crowded, wrapped>>,
         ~wrapped => first <= n /\ n <= nonce + throughput /\ hashesDone' <= nonce + throughput - first,
         ~wrapped /\ ~crowded /\ ret' = 0 => \A m \in Launched : m < n => quality[m] # "good",
         Scan!RangeIsCovered'
  PROVE  ScanInv'
<1>1. UNCHANGED <<kind, quality, first, max, throughput, slots, restart, tested, crowded, wrapped>>
  BY DEF Scan!callVars
<1>2. ScanTypes'
  BY <1>1, ScanAssumption DEF ScanInv, ScanTypes, Scan!TypeOK
<1>3. BeforeReturn' /\ SlotsInv' /\ BehindInv'
  BY DEF BeforeReturn, SlotsInv, BehindInv
<1>4. TestedInv'
  BY <1>1 DEF TestedInv
<1>5. Scan!WholeBlocks' = Scan!WholeBlocks
  BY <1>1 DEF Scan!WholeBlocks
<1>6. throughput \in Nat /\ nonce \in 0..Top /\ first \in 0..Top
  BY CheckFacts, ScanAssumption
<1>7. Scan!NothingIsSkipped'
  <2>1. ASSUME ~wrapped, Scan!WholeBlocks
        PROVE  first..(n - 1) \subseteq tested
    <3>1. first..(nonce + throughput - 1) \subseteq tested
      BY <2>1, CheckFacts
    <3>2. first..(n - 1) \subseteq first..(nonce + throughput - 1)
      BY <1>6, <2>1
    <3>3. QED
      BY <3>1, <3>2
  <2>2. QED
    BY <1>1, <1>5, <2>1 DEF Scan!NothingIsSkipped
<1>8. Scan!SoleSolutionIsReturned'
  <2>1. ASSUME ~crowded, ~wrapped, NEW m \in first..(n - 1), m \in tested, quality[m] = "good"
        PROVE  ret' > 0
    <3>1. m \in 0..Top /\ m < nonce + Scan!Threads
      BY <2>1 DEF ScanInv, TestedInv, ScanTypes, Scan!TypeOK
    <3>2. m >= nonce
      BY <1>6, <2>1, <3>1 DEF ScanInv, BehindInv
    <3>3. m \in Launched /\ m < n
      <4>1. Scan!Threads \in 0..throughput
        BY <1>6, ThreadsFacts
      <4>2. QED
        BY <1>6, <2>1, <3>1, <3>2, <4>1 DEF Launched
    <3>4. ret' # 0
      BY <2>1, <3>3
    <3>5. QED
      BY <3>4
  <2>2. QED
    BY <1>1, <2>1 DEF Scan!SoleSolutionIsReturned
<1>9. Scan!HashesDoneWereHashed'
  <2>1. ASSUME ~wrapped, Scan!WholeBlocks
        PROVE  hashesDone' <= Cardinality(tested)
    <3>1. first <= nonce /\ first..(nonce + throughput - 1) \subseteq tested
      BY <2>1, CheckFacts
    <3>2. tested \in SUBSET (0..Top) /\ nonce + throughput \in Nat
      BY <1>6 DEF ScanInv, ScanTypes, Scan!TypeOK
    <3>3. nonce + throughput - first <= Cardinality(tested)
      <4> DEFINE end == nonce + throughput
      <4>1. end \in Nat /\ first \in Nat /\ first <= end /\ first..(end - 1) \subseteq tested
        BY <1>6, <3>1, <3>2
      <4> HIDE DEF end
      <4>2. end - first <= Cardinality(tested)
        BY <3>2, <4>1, HoldsInterval
      <4>3. QED
        BY <1>6, <4>2 DEF end
    <3>4. Cardinality(tested) \in Nat
      <4>1. IsFiniteSet(0..Top)
        BY FS_Interval, ScanAssumption
      <4>2. QED
        BY <3>2, <4>1, FS_Subset, FS_CardinalityType
    <3>5. QED
      BY <1>6, <2>1, <3>3, <3>4
  <2>2. QED
    BY <1>1, <1>5, <2>1, SameCardinality DEF Scan!HashesDoneWereHashed
<1>10. QED
  BY <1>2, <1>3, <1>4, <1>7, <1>8, <1>9 DEF ScanInv, ScansAreSound

LEMMA KeccakKeeps ==
  ASSUME ScanInv, pc = "check", kind = "keccak256", Scan!KeccakCheck,
         UNCHANGED <<Scan!callVars, slots, restart, tested, crowded, wrapped>>
  PROVE  ScanInv'
<1>1. /\ Top \in Nat
      /\ throughput \in Nat /\ nonce \in 0..Top /\ first \in 0..max /\ max \in 0..Top
      /\ slots \in (0..Top) \X (0..Top) /\ ret = 0 /\ hashesDone \in 0..Top
  BY CheckFacts
<1>2. UNCHANGED <<kind, quality, first, max, throughput, slots, restart, tested, crowded, wrapped>>
  BY DEF Scan!callVars
<1>3. nonce + throughput <= max
  BY DEF ScanInv, BeforeReturn
<1>4. CASE Scan!Found /\ quality[slots[1]] = "good"
  <2>1. /\ ret' = IF Scan!Second THEN 2 ELSE 1
        /\ hashesDone' = Scan!U32(nonce - first + throughput)
        /\ nonce' = slots[1] /\ pc' = "returned"
    BY <1>4 DEF Scan!KeccakCheck
  <2>2. slots[1] \in 0..Top /\ ret' \in {1, 2} /\ hashesDone' \in 0..Top
    <3>1. nonce - first + throughput \in Int
      BY <1>1
    <3>2. QED
      BY <1>1, <2>1, <3>1, U32Facts
  <2>3. ASSUME ~wrapped
        PROVE  /\ first <= slots[1] /\ slots[1] <= nonce + throughput
               /\ hashesDone' <= nonce + throughput - first
    <3>1. slots[1] \in nonce..(nonce + throughput - 1) /\ first <= nonce
      BY <1>4, <2>3, CheckFacts DEF ScanInv, SlotsInv, Scan!Found
    <3>2. nonce - first + throughput \in 0..Top
      BY <1>1, <1>3, <3>1
    <3>3. hashesDone' = nonce - first + throughput
      BY <2>1, <3>2, U32Facts
    <3>4. QED
      BY <1>1, <3>1, <3>3
  <2>4. Scan!RangeIsCovered'
    BY <2>2 DEF Scan!RangeIsCovered
  <2>5. QED
    BY <2>1, <2>2, <2>3, <2>4, ReturnKeeps
<1>5. CASE ~(Scan!Found /\ quality[slots[1]] = "good")
  <2> DEFINE next == Scan!U32(nonce + throughput)
  <2>1. next = nonce + throughput
    BY <1>1, <1>3, U32Facts
  <2>2. next \in 0..Top /\ next <= max /\ nonce <= next
    BY <1>1, <1>3, <2>1
  <2>3. IF ~restart /\ max > next + throughput THEN Scan!Again(next) ELSE Scan!Leave(next)
    BY <1>5 DEF Scan!KeccakCheck
  <2>4. ~wrapped /\ ~crowded => \A m \in Launched : m < next => quality[m] # "good"
    BY <1>5, NoneSolves
  <2> HIDE DEF next
  <2>5. CASE ~restart /\ max > next + throughput
    <3>1. Scan!Again(next) /\ next + throughput <= max
      BY <1>1, <2>2, <2>3, <2>5
    <3>2. QED
      BY <2>1, <2>2, <2>4, <3>1, AgainKeeps
  <2>6. CASE ~(~restart /\ max > next + throughput)
    <3>1. /\ nonce' = next /\ pc' = "returned" /\ ret' = ret
          /\ hashesDone' = Scan!U32(next - first)
      BY <2>3, <2>6 DEF Scan!Leave
    <3>2. hashesDone' \in 0..Top /\ ret' \in 0..2
      BY <1>1, <2>2, <3>1, U32Facts
    <3>3. ~wrapped => first <= next /\ hashesDone' <= nonce + throughput - first
      <4>1. ~wrapped => first <= nonce
        BY CheckFacts
      <4>2. ~wrapped => next - first \in 0..Top
        BY <1>1, <2>2, <4>1
      <4>3. QED
        BY <1>1, <2>1, <2>2, <3>1, <4>1, <4>2, U32Facts
    <3>4. ~restart => max - next <= throughput
      BY <1>1, <2>2, <2>6
    <3>5. Scan!RangeIsCovered'
      BY <1>2, <2>2, <3>1, <3>4 DEF Scan!RangeIsCovered
    <3>6. QED
      BY <2>1, <2>2, <2>4, <3>1, <3>2, <3>3, <3>5, ReturnKeeps
  <2>7. QED
    BY <2>5, <2>6
<1>6. QED
  BY <1>4, <1>5

LEMMA ShaKeeps ==
  ASSUME ScanInv, pc = "check", kind # "keccak256",
         NEW goesOn \in BOOLEAN, ~goesOn => restart \/ kind = "sha256s",
         Scan!ShaCheck(goesOn),
         UNCHANGED <<Scan!callVars, slots, restart, tested, crowded, wrapped>>
  PROVE  ScanInv'
<1>1. /\ Top \in Nat
      /\ throughput \in Nat /\ nonce \in 0..Top /\ first \in 0..max /\ max \in 0..Top
      /\ slots \in (0..Top) \X (0..Top) /\ ret = 0 /\ hashesDone \in 0..Top
  BY CheckFacts
<1>2. UNCHANGED <<kind, quality, first, max, throughput, slots, restart, tested, crowded, wrapped>>
  BY DEF Scan!callVars
<1>3. ~wrapped => first <= nonce /\ nonce + throughput <= Top
  BY CheckFacts
<1>4. ASSUME ~wrapped, NEW i \in {1, 2}, slots[i] # Top
      PROVE  slots[i] \in nonce..(nonce + throughput - 1)
  BY <1>4, CheckFacts DEF ScanInv, SlotsInv
<1>5. ASSUME NEW n \in 0..Top, Scan!Leave(n), ~goesOn \/ n = max,
             ~wrapped => first <= n /\ n <= nonce + throughput,
             ~wrapped /\ ~crowded => \A m \in Launched : m < n => quality[m] # "good"
      PROVE  ScanInv'
  <2>1. nonce' = n /\ pc' = "returned" /\ ret' = ret /\ hashesDone' = Scan!U32(n - first)
    BY <1>5 DEF Scan!Leave
  <2>2. hashesDone' \in 0..Top /\ ret' \in 0..2
    BY <1>1, <2>1, U32Facts
  <2>3. ~wrapped => hashesDone' <= nonce + throughput - first
    <3>1. ~wrapped => n - first \in 0..Top
      BY <1>1, <1>5
    <3>2. QED
      BY <1>1, <1>5, <2>1, <3>1, U32Facts
  <2>4. Scan!RangeIsCovered'
    BY <1>2, <1>5, <2>1 DEF Scan!RangeIsCovered, ScanInv, ScanTypes
  <2>5. QED
    BY <1>5, <2>1, <2>2, <2>3, <2>4, ReturnKeeps
<1>6. CASE Scan!Found /\ quality[slots[1]] = "good"
  <2> DEFINE n == (IF Scan!Second THEN Scan!Larger(slots[1], slots[2]) ELSE slots[1]) + 1
  <2>1. /\ ret' = IF Scan!Second /\ quality[slots[2]] = "good" THEN 2 ELSE 1
        /\ nonce' = n /\ pc' = "returned" /\ hashesDone' = hashesDone
    BY <1>6 DEF Scan!ShaCheck, Scan!ShaReturn
  <2>2. ret' \in {1, 2}
    BY <2>1
  <2>3. n \in 0..Top
    BY <1>1, <1>6 DEF Scan!Found, Scan!Second, Scan!Larger
  <2>4. ~wrapped => first <= n /\ n <= nonce + throughput
    <3>1. ~wrapped => slots[1] \in nonce..(nonce + throughput - 1)
      BY <1>4, <1>6 DEF Scan!Found
    <3>2. ~wrapped /\ Scan!Second => slots[2] \in nonce..(nonce + throughput - 1)
      BY <1>4 DEF Scan!Second
    <3>3. QED
      BY <1>1, <1>3, <3>1, <3>2 DEF Scan!Larger
  <2>5. ~wrapped => hashesDone' <= nonce + throughput - first
    BY <1>1, <2>1 DEF ScanInv, SlotsInv
  <2>6. Scan!RangeIsCovered'
    BY <2>2 DEF Scan!RangeIsCovered
  <2> HIDE DEF n
  <2>7. QED
    BY <1>1, <2>1, <2>2, <2>3, <2>4, <2>5, <2>6, ReturnKeeps
<1>7. CASE Scan!Found /\ quality[slots[1]] = "bad"
  <2>1. IF goesOn THEN Scan!Again(slots[1] + 1) ELSE Scan!Leave(slots[1] + 1)
    BY <1>7 DEF Scan!ShaCheck
  <2>2. slots[1] + 1 \in 0..Top
    BY <1>1, <1>7 DEF Scan!Found
  <2>3. ~wrapped => nonce <= slots[1] + 1 /\ slots[1] + 1 <= nonce + throughput
    BY <1>1, <1>4, <1>7 DEF Scan!Found
  <2>4. ~wrapped /\ ~crowded => \A m \in Launched : m < slots[1] + 1 => quality[m] # "good"
    BY <1>7, NoneSolves
  <2>5. CASE goesOn
    BY <2>1, <2>2, <2>3, <2>4, <2>5, AgainKeeps
  <2>6. CASE ~goesOn
    <3>1. ~wrapped => first <= slots[1] + 1
      BY <1>1, <1>3, <2>2, <2>3
    <3>2. QED
      BY <1>5, <2>1, <2>2, <2>3, <2>4, <2>6, <3>1
  <2>7. QED
    BY <2>5, <2>6
<1>8. CASE ~(Scan!Found /\ quality[slots[1]] \in {"good", "bad"})
  <2>1. IF throughput + nonce >= max THEN Scan!Leave(max)
        ELSE IF goesOn THEN Scan!Again(Scan!U32(nonce + throughput))
                       ELSE Scan!Leave(Scan!U32(nonce + throughput))
    BY <1>8 DEF Scan!ShaCheck
  <2>2. ~wrapped /\ ~crowded => \A m \in Launched : quality[m] # "good"
    BY <1>8, NoneSolves
  <2>3. CASE throughput + nonce >= max
    BY <1>1, <1>5, <2>1, <2>2, <2>3
  <2>4. CASE ~(throughput + nonce >= max)
    <3>1. nonce + throughput \in 0..Top
      BY <1>1, <2>4
    <3>2. IF goesOn THEN Scan!Again(nonce + throughput) ELSE Scan!Leave(nonce + throughput)
      BY <2>1, <2>4, <3>1, U32Facts
    <3>3. CASE goesOn
      BY <1>1, <2>2, <3>1, <3>2, <3>3, AgainKeeps
    <3>4. CASE ~goesOn
      BY <1>1, <1>3, <1>5, <2>2, <3>1, <3>2, <3>4
    <3>5. QED
      BY <3>3, <3>4
  <2>5. QED
    BY <2>3, <2>4
<1>9. QED
  BY <1>6, <1>7, <1>8

LEMMA CheckKeeps ==
  ASSUME ScanInv, Scan!Check
  PROVE  ScanInv'
<1>1. /\ pc = "check" /\ kind \in {"keccak256", "sha256t", "sha256d", "sha256s"}
      /\ UNCHANGED <<Scan!callVars, slots, restart, tested, crowded, wrapped>>
  BY DEF Scan!Check, ScanInv, ScanTypes
<1>2. CASE kind = "keccak256"
  BY <1>1, <1>2, KeccakKeeps DEF Scan!Check
<1>3. CASE kind \in {"sha256t", "sha256d"}
  <2>1. Scan!ShaCheck(~restart)
    BY <1>1, <1>3 DEF Scan!Check, Scan!Sha256tCheck, Scan!Sha256dCheck
  <2>2. (~restart) \in BOOLEAN
    OBVIOUS
  <2>3. QED
    BY <1>1, <1>3, <2>1, <2>2, ShaKeeps
<1>4. CASE kind = "sha256s"
  BY <1>1, <1>4, ShaKeeps DEF Scan!Check, Scan!Sha256sCheck
<1>5. QED
  BY <1>1, <1>2, <1>3, <1>4

LEMMA RestartKeeps ==
  ASSUME ScanInv, Scan!Restart
  PROVE  ScanInv'
<1>1. /\ pc \in {"launch", "check"} /\ restart' = TRUE
      /\ UNCHANGED <<kind, quality, first, max, throughput, nonce, slots, pc, ret, hashesDone,
                     tested, crowded, wrapped>>
  BY DEF Scan!Restart, Scan!callVars
<1>2. Scan!Threads' = Scan!Threads /\ Scan!WholeBlocks' = Scan!WholeBlocks
  BY <1>1 DEF Scan!Threads, Scan!KeccakThreads, Scan!ShaThreads, Scan!WholeBlocks
<1>3. ScanTypes'
  BY <1>1 DEF ScanInv, ScanTypes, Scan!TypeOK
<1>4. BeforeReturn' /\ TestedInv' /\ SlotsInv' /\ BehindInv'
  BY <1>1, <1>2 DEF ScanInv, BeforeReturn, TestedInv, SlotsInv, BehindInv, Launched
<1>5. ScansAreSound'
  BY <1>1 DEF ScansAreSound, Scan!NothingIsSkipped, Scan!RangeIsCovered,
              Scan!SoleSolutionIsReturned, Scan!HashesDoneWereHashed
<1>6. QED
  BY <1>3, <1>4, <1>5 DEF ScanInv

LEMMA ScanStepKeeps ==
  ASSUME ScanInv, [Scan!Next]_(Scan!vars)
  PROVE  ScanInv'
<1>1. ASSUME NEW initialised \in BOOLEAN, Scan!Call(initialised)
      PROVE  ScanInv'
  BY <1>1, CallKeeps
<1>2. CASE Scan!Launch \/ Scan!Check \/ Scan!Restart
  BY <1>2, LaunchKeeps, CheckKeeps, RestartKeeps
<1>3. CASE UNCHANGED Scan!vars
  <2>1. UNCHANGED <<kind, quality, first, max, throughput, nonce, slots, pc, ret, hashesDone, restart,
                    tested, crowded, wrapped>>
    BY <1>3 DEF Scan!vars, Scan!callVars
  <2>2. Scan!Threads' = Scan!Threads /\ Scan!WholeBlocks' = Scan!WholeBlocks
    BY <2>1 DEF Scan!Threads, Scan!KeccakThreads, Scan!ShaThreads, Scan!WholeBlocks
  <2>3. ScanTypes'
    BY <2>1 DEF ScanInv, ScanTypes, Scan!TypeOK
  <2>4. BeforeReturn' /\ TestedInv' /\ SlotsInv' /\ BehindInv'
    BY <2>1, <2>2 DEF ScanInv, BeforeReturn, TestedInv, SlotsInv, BehindInv, Launched
  <2>5. ScansAreSound'
    BY <2>1, <2>2 DEF ScanInv, ScansAreSound, Scan!NothingIsSkipped, Scan!RangeIsCovered,
                      Scan!SoleSolutionIsReturned, Scan!HashesDoneWereHashed
  <2>6. QED
    BY <2>3, <2>4, <2>5 DEF ScanInv
<1>4. QED
  BY <1>1, <1>2, <1>3 DEF Scan!Next

LEMMA ScanInductive ==
  Scan!Spec => []ScanInv
<1>1. Scan!Init => ScanInv
  BY ScanInitially
<1>2. ScanInv /\ [Scan!Next]_(Scan!vars) => ScanInv'
  BY ScanStepKeeps
<1>3. QED
  BY <1>1, <1>2, PTL DEF Scan!Spec

\* Whatever the range, the intensity and the size of a block, and whatever the nonces
\* are worth: a scan leaves no nonce out before the one where the next goes on; one that
\* returns nothing has covered its range; a solution that has no rival in its launch is
\* returned or still ahead; and hashes_done counts only what was hashed.
THEOREM ScansSound ==
  Scan!Spec => []ScansAreSound
<1>1. ScanInv => ScansAreSound
  BY DEF ScanInv
<1>2. QED
  BY <1>1, ScanInductive, PTL

\* Every variable of the three parts keeps its type.
THEOREM TypesCorrect ==
  Hashes!Spec /\ Alpha!Spec /\ Scan!Spec => []MinerPartsTypeOK
<1>1. HashInv /\ AlphaInv /\ ScanInv => MinerPartsTypeOK
  BY DEF HashInv, AlphaInv, ScanInv, ScanTypes, MinerPartsTypeOK
<1>2. QED
  BY <1>1, HashInductive, AlphaInductive, ScanInductive, PTL
=============================================================================

--------------------------- MODULE PoolInterface ----------------------------
(***************************************************************************)
(* The sending half of lib/pool-interface.js: the stack of shares, the     *)
(* timer that takes one off it, and the submitShare requests, which        *)
(* overlap because the busy flag is never raised.  From the pop to the     *)
(* request the JavaScript thread logs two lines and does nothing else; an  *)
(* error of the request is logged by the error log, and what that throws   *)
(* nobody catches: the process ends, as node (>= 18, package.json) does.   *)
(* The pool is external: it answers a request, or never, or it fails.      *)
(***************************************************************************)
EXTENDS MiningLogger

CONSTANTS
    Shares,       \* the shares the session may hand over
    MaxStops      \* bound on the number of crashes

VARIABLES
    at,           \* where each share is
    stack,        \* queuedMiningSolutions
    stops,        \* number of crashes so far
    died          \* (history) an error nobody caught has ended the process

poolVars == <<at, stack, stops, died>>
vars == <<logVars, poolVars>>

PoolInit ==
    /\ Init
    /\ at = [s \in Shares |-> "none"]
    /\ stack = <<>>
    /\ stops = 0
    /\ died = FALSE

\* A share between its pop and its request keeps the JavaScript thread.
Free == saving = "idle" /\ \A s \in Shares : at[s] \notin {"popped", "logged"}

\* queueMiningSolution.
Queue(s) ==
    /\ Free
    /\ at[s] = "none"
    /\ at' = [at EXCEPT ![s] = "queued"]
    /\ stack' = Append(stack, s)
    /\ UNCHANGED <<logVars, stops, died>>

\* Mutant of Pop: the share is looked at and stays on the stack.
Peek ==
    /\ Free
    /\ stack # <<>>
    /\ at' = [at EXCEPT ![Last(stack)] = "popped"]
    /\ AppendToStandardLog
    /\ UNCHANGED <<stack, stops, died>>

\* Mutant of Pop: the busy flag is raised, until the answer comes.
PopWhenIdle ==
    /\ Free
    /\ \A s \in Shares : at[s] # "sent"
    /\ stack # <<>>
    /\ at' = [at EXCEPT ![Last(stack)] = "popped"]
    /\ stack' = Front(stack)
    /\ AppendToStandardLog
    /\ UNCHANGED <<stops, died>>

\* sendMiningSolutions, every 500 ms: the share queued last, "regardless".
Pop ==
    /\ Free
    /\ stack # <<>>
    /\ at' = [at EXCEPT ![Last(stack)] = "popped"]
    /\ stack' = Front(stack)
    /\ AppendToStandardLog
    /\ UNCHANGED <<stops, died>>

\* submitMiningSolution: a second line, then the request.
Log(s) ==
    /\ at[s] = "popped"
    /\ at' = [at EXCEPT ![s] = "logged"]
    /\ AppendToStandardLog
    /\ UNCHANGED <<stack, stops, died>>

Submit(s) ==
    /\ saving = "idle"
    /\ at[s] = "logged"
    /\ at' = [at EXCEPT ![s] = "sent"]
    /\ UNCHANGED <<logVars, stack, stops, died>>

\* The answer of the pool, whatever it says: only the error of a request is looked at.
Answer(s) ==
    /\ Free
    /\ at[s] = "sent"
    /\ at' = [at EXCEPT ![s] = "answered"]
    /\ UNCHANGED <<logVars, stack, stops, died>>

\* The request fails: the catch block logs it.
Fail(s) ==
    /\ Free
    /\ at[s] = "sent"
    /\ AppendToErrorLog
    /\ at' = [at EXCEPT ![s] = "failed"]
    /\ UNCHANGED <<stack, stops, died>>

\* The process ends: what it has queued or has not been answered is lost.
End ==
    /\ Stop
    /\ at' = [s \in Shares |->
                IF at[s] \in {"none", "answered", "failed"} THEN at[s] ELSE "lost"]
    /\ stack' = <<>>

\* The request fails and so does its logging.
Die(s) ==
    /\ Free
    /\ at[s] = "sent"
    /\ ErrorLogThrows
    /\ End
    /\ died' = TRUE
    /\ UNCHANGED stops

Crash ==
    /\ stops < MaxStops
    /\ End
    /\ stops' = stops + 1
    /\ UNCHANGED died

LogStep ==
    /\ Start \/ Save
    /\ UNCHANGED poolVars

ShareStep(s) == Log(s) \/ Submit(s) \/ Answer(s) \/ Fail(s) \/ Die(s)

Next ==
    \/ Pop \/ LogStep \/ Crash
    \/ \E s \in Shares : Queue(s) \/ ShareStep(s)

Spec == PoolInit /\ [][Next]_vars

\* The timer fires, a save ends, a request is answered or fails.
Fairness ==
    /\ WF_vars(Pop) /\ WF_vars(LogStep)
    /\ \A s \in Shares : WF_vars(Log(s) \/ Submit(s))

-----------------------------------------------------------------------------
(* Properties.                                                             *)

\* Every variable keeps its type.
TypeOK ==
    /\ LogTypeOK
    /\ at \in [Shares -> {"none", "queued", "popped", "logged", "sent", "answered", "failed",
                          "lost"}]
    /\ stack \in Seq(Shares)
    /\ stops \in 0..MaxStops
    /\ died \in BOOLEAN

\* A share is on the stack exactly as long as it waits to be sent: none is sent
\* twice, and none is left behind.
StackHoldsTheQueued ==
    /\ \A i, j \in DOMAIN stack : stack[i] = stack[j] => i = j
    /\ {stack[i] : i \in DOMAIN stack} = {s \in Shares : at[s] = "queued"}

\* An unreachable pool ends the miner only if the first save of its logs was torn.
DiesOnlyOfTornLogs == died => torn

\* The logs stay short, the error log is lost only by a torn first save, and only
\* where it is lost does a failed request end the miner (saveLogs, the catch block
\* of sendMiningSolutions).
LogsAreSound == LogsStayShort /\ ErrorLogKept /\ DiesOnlyOfTornLogs

\* Every share is sent, although answers to others may never come, unless the
\* process ends first.
EveryShareIsSent ==
    \A s \in Shares : at[s] = "queued" ~> at[s] \in {"sent", "answered", "failed", "lost"}
=============================================================================

------------------------------ MODULE CpuMiner ------------------------------
(***************************************************************************)
(* The CPU miner (cpp/cpuminer/cpuminer.cpp) behind the addon's run, stop  *)
(* and setters (addon.cc).  Three kinds of threads meet here:              *)
(*   - the JavaScript thread queues a run, sets parameters on the solvers  *)
(*     one after the other, takes the callback, and at exit stops the      *)
(*     miner and destroys it;                                              *)
(*   - the worker thread of the addon executes CpuMiner::run;              *)
(*   - N mining threads, one per solver, execute thr_func.                 *)
(*                                                                         *)
(* Each solver has the double buffers of Solver: a setter copies into the  *)
(* spare one and raises a flag in a second step; a try takes over what is  *)
(* ready, "buffer" before it hashes and "target" before it compares.  What *)
(* Solver does in three steps, the test of the flag, the swap and the      *)
(* lowering, is one step here: only the solver's own thread lowers its     *)
(* flag, the mutex keeps copies out between swap and lowering, and a flag  *)
(* raised in between is lowered like one that was raised before.           *)
(***************************************************************************)
EXTENDS Naturals

CONSTANTS
    N,          \* hardware_concurrency: the number of solvers and threads
    Nonces,     \* solutions a thread may draw
    Works,      \* challenge and address, as JavaScript may set them, and as they are zero
    Levels,     \* difficulty targets, likewise
    ZeroWork,   \* the challenge and address of a new solver
    ZeroLevel,  \* the target of a new solver
    None,       \* no solution yet, no setter call
    MaxCalls    \* bound: setter calls

ASSUME NAssumption == N \in Nat \ {0}
ASSUME ZeroAssumption == ZeroWork \in Works /\ ZeroLevel \in Levels
ASSUME MaxCallsAssumption == MaxCalls \in Nat

Threads == 1..N

Slots == {"buffer", "target"}

Values(s) == IF s = "buffer" THEN Works ELSE Levels

\* A value for each slot.
Job(w, l) == [s \in Slots |-> IF s = "buffer" THEN w ELSE l]

Jobs == {Job(w, l) : w \in Works, l \in Levels}

\* A nonce, the values it was tried with, and the slots of those that were astray.
Solutions == [nonce : Nonces, of : Jobs, astray : SUBSET Slots]

ASSUME NoneAssumption == None \notin Solutions \cup Slots

VARIABLES
    host,             \* the process: "up", "exiting", "gone" or "aborted"
    job,              \* the last arguments of the setters
    calls,            \* the setter calls so far
    setSlot,          \* the slot of the setter call under way, or None
    setNext,          \* the solver the setter loop is at
    setCopied,        \* it has copied there, and not yet raised the flag
    active,           \* m_buffer and m_target of each solver
    tmp,              \* m_buffer_tmp and m_target_tmp
    ready,            \* m_buffer_ready and m_target_ready
    worker,           \* where the worker thread is
    index,            \* the x of run's loops
    thr,              \* where each mining thread is
    candidate,        \* the solution thread t is about to store
    m_solution,
    m_bSolutionFound,
    m_bExit,
    current,          \* (history) the values of each slot current during this run
    past,             \* (history) the values of each slot set so far
    late,             \* (history) the slots last set while a run was under way
    order,            \* (history) whether a swap fell between a copy and its flag
    astray            \* (history) the slots of this try that such a swap set back

setterVars  == <<job, calls, setSlot, setNext, setCopied>>
bufferVars  == <<active, tmp, ready, order>>
workerVars  == <<worker, index>>
threadVars  == <<thr, candidate, astray>>
foundVars   == <<m_solution, m_bSolutionFound>>
historyVars == <<current, past, late>>
vars == <<host, setterVars, bufferVars, workerVars, threadVars, foundVars, m_bExit, historyVars>>

Init ==
    /\ host = "up"
    /\ job = Job(ZeroWork, ZeroLevel)
    /\ calls = 0
    /\ setSlot = None
    /\ setNext = 1
    /\ setCopied = FALSE
    /\ active = [t \in Threads |-> job]
    /\ tmp = [t \in Threads |-> job]
    /\ ready = [t \in Threads |-> [s \in Slots |-> FALSE]]
    /\ order = [t \in Threads |-> [s \in Slots |-> "clean"]]
    /\ worker = "none"
    /\ index = 1
    /\ thr = [t \in Threads |-> "off"]
    /\ candidate = [t \in Threads |-> None]
    /\ astray = [t \in Threads |-> {}]
    /\ m_solution = None
    /\ m_bSolutionFound = FALSE
    /\ m_bExit = FALSE
    /\ current = [s \in Slots |-> {}]
    /\ past = [s \in Slots |-> {job[s]}]
    /\ late = {}

-----------------------------------------------------------------------------
(* The JavaScript thread.                                                  *)

Free == host = "up" /\ setSlot = None

\* From the call of run() to the end of CpuMiner::run.
UnderWay == worker \notin {"none", "done"}

\* setChallengeNumber, setMinerAddress ("buffer") and setDifficultyTarget loop
\* over the solvers; the JavaScript thread does nothing else meanwhile.
BeginSet(s, v) ==
    /\ Free
    /\ calls < MaxCalls
    /\ calls' = calls + 1
    /\ job' = [job EXCEPT ![s] = v]
    /\ setSlot' = s
    /\ current' = IF UnderWay THEN [current EXCEPT ![s] = @ \cup {v}] ELSE current
    /\ past' = [past EXCEPT ![s] = @ \cup {v}]
    /\ late' = IF UnderWay THEN late \cup {s} ELSE late \ {s}
    /\ UNCHANGED <<host, setNext, setCopied, bufferVars, workerVars, threadVars, foundVars, m_bExit>>

\* The copy into the spare buffer, under the mutex.
CopySolver ==
    /\ host = "up"
    /\ setSlot # None
    /\ ~setCopied
    /\ setCopied' = TRUE
    /\ tmp' = [tmp EXCEPT ![setNext][setSlot] = job[setSlot]]
    /\ UNCHANGED <<host, job, calls, setSlot, setNext, active, ready, order, workerVars, threadVars,
                   foundVars, m_bExit, historyVars>>

\* Mutant of PublishSolver: the loop stops one solver short.
PublishSkipsLast ==
    /\ host = "up"
    /\ setSlot # None
    /\ setCopied
    /\ setCopied' = FALSE
    /\ ready' = [ready EXCEPT ![setNext][setSlot] = TRUE]
    /\ order' = [order EXCEPT ![setNext][setSlot] = IF @ = "crossed" THEN "spoiled" ELSE "clean"]
    /\ IF setNext + 1 >= N
         THEN setSlot' = None /\ setNext' = 1
         ELSE setSlot' = setSlot /\ setNext' = setNext + 1
    /\ UNCHANGED <<host, job, calls, active, tmp, workerVars, threadVars, foundVars, m_bExit, historyVars>>

\* The flag is raised after the mutex has been released; the loop goes on.
PublishSolver ==
    /\ host = "up"
    /\ setSlot # None
    /\ setCopied
    /\ setCopied' = FALSE
    /\ ready' = [ready EXCEPT ![setNext][setSlot] = TRUE]
    /\ order' = [order EXCEPT ![setNext][setSlot] = IF @ = "crossed" THEN "spoiled" ELSE "clean"]
    /\ IF setNext = N
         THEN setSlot' = None /\ setNext' = 1
         ELSE setSlot' = setSlot /\ setNext' = setNext + 1
    /\ UNCHANGED <<host, job, calls, active, tmp, workerVars, threadVars, foundVars, m_bExit, historyVars>>

\* mineCoins: stop, then run.  The session starts no run while one is under way.
Run ==
    /\ Free
    /\ worker = "none"
    /\ m_bExit' = TRUE
    /\ worker' = "queued"
    /\ current' = [s \in Slots |-> {job[s]}]
    /\ UNCHANGED <<host, setterVars, bufferVars, index, threadVars, foundVars, past, late>>

\* HandleOKCallback hands solution() to the JavaScript callback.
Deliver ==
    /\ Free
    /\ worker = "done"
    /\ worker' = "none"
    /\ current' = [s \in Slots |-> {}]
    /\ UNCHANGED <<host, setterVars, bufferVars, index, threadVars, foundVars, m_bExit, past, late>>

\* The handler of the process's exit event stops the miner ...
Exit ==
    /\ Free
    /\ host' = "exiting"
    /\ m_bExit' = TRUE
    /\ UNCHANGED <<setterVars, bufferVars, workerVars, threadVars, foundVars, historyVars>>

\* m_threads[t] holds a thread that run has not joined yet.
Joinable(t) ==
    \/ worker = "spawn" /\ t < index
    \/ worker = "join" /\ t >= index

\* ... and the addon's cleanup destroys it.  ~CpuMiner sleeps for threads that
\* are not joinable and does not wait for those that are; a std::thread that is
\* destroyed while joinable ends the process.
Destroy ==
    /\ host = "exiting"
    /\ m_bExit' = TRUE
    /\ host' = IF \E t \in Threads : Joinable(t) THEN "aborted" ELSE "gone"
    /\ UNCHANGED <<setterVars, bufferVars, workerVars, threadVars, foundVars, historyVars>>

-----------------------------------------------------------------------------
(* The worker thread: Miner::Execute, CpuMiner::run.                       *)

Alive == host \in {"up", "exiting"}

\* m_bExit = m_bSolutionFound = false assigns from right to left.
ResetFound ==
    /\ Alive
    /\ worker = "queued"
    /\ worker' = "reset"
    /\ m_bSolutionFound' = FALSE
    /\ UNCHANGED <<host, setterVars, bufferVars, index, threadVars, m_solution, m_bExit, historyVars>>

\* Mutant of ResetExit: run does not lower m_bExit.
KeepExit ==
    /\ Alive
    /\ worker = "reset"
    /\ worker' = "spawn"
    /\ index' = 1
    /\ UNCHANGED <<host, setterVars, bufferVars, threadVars, foundVars, m_bExit, historyVars>>

ResetExit ==
    /\ Alive
    /\ worker = "reset"
    /\ worker' = "spawn"
    /\ index' = 1
    /\ m_bExit' = FALSE
    /\ UNCHANGED <<host, setterVars, bufferVars, threadVars, foundVars, historyVars>>

\* Mutant of Spawn: the loop runs once past the last thread.
SpawnPastTheEnd ==
    /\ Alive
    /\ worker = "spawn"
    /\ thr' = [thr EXCEPT ![index] = "test"]
    /\ IF index > N
         THEN worker' = "join" /\ index' = 1
         ELSE worker' = worker /\ index' = index + 1
    /\ UNCHANGED <<host, setterVars, bufferVars, candidate, astray, foundVars, m_bExit, historyVars>>

Spawn ==
    /\ Alive
    /\ worker = "spawn"
    /\ thr' = [thr EXCEPT ![index] = "test"]
    /\ IF index = N
         THEN worker' = "join" /\ index' = 1
         ELSE worker' = worker /\ index' = index + 1
    /\ UNCHANGED <<host, setterVars, bufferVars, candidate, astray, foundVars, m_bExit, historyVars>>

\* Mutant of Join: the threads are detached instead.
Detach ==
    /\ Alive
    /\ worker = "join"
    /\ IF index = N
         THEN worker' = "done" /\ index' = 1
         ELSE worker' = worker /\ index' = index + 1
    /\ UNCHANGED <<host, setterVars, bufferVars, threadVars, foundVars, m_bExit, historyVars>>

\* Only a thread that has returned can be joined.
Join ==
    /\ Alive
    /\ worker = "join"
    /\ thr[index] = "off"
    /\ IF index = N
         THEN worker' = "done" /\ index' = 1
         ELSE worker' = worker /\ index' = index + 1
    /\ UNCHANGED <<host, setterVars, bufferVars, threadVars, foundVars, m_bExit, historyVars>>

Work == ResetFound \/ ResetExit \/ Spawn \/ Join

-----------------------------------------------------------------------------
(* The mining threads: thr_func.                                           *)

\* while (!m_bExit)
Test(t) ==
    /\ Alive
    /\ thr[t] = "test"
    /\ thr' = [thr EXCEPT ![t] = IF m_bExit THEN "off" ELSE "hash"]
    /\ UNCHANGED <<host, setterVars, bufferVars, workerVars, candidate, astray, foundVars, m_bExit,
                   historyVars>>

\* The setter is between the copy and the flag of slot s of solver t.
MidCopy(t, s) == setSlot = s /\ setNext = t /\ setCopied

\* Mutant of Take: the flag stays up.
TakeAgain(t, s) ==
    /\ IF ready[t][s]
         THEN /\ active' = [active EXCEPT ![t][s] = tmp[t][s]]
              /\ tmp' = [tmp EXCEPT ![t][s] = active[t][s]]
              /\ order' = [order EXCEPT ![t][s] = IF MidCopy(t, s) THEN "crossed" ELSE @]
         ELSE UNCHANGED <<active, tmp, order>>
    /\ ready' = ready

\* What is ready is swapped in and its flag lowered, under the mutex.
Take(t, s) ==
    IF ready[t][s]
      THEN /\ active' = [active EXCEPT ![t][s] = tmp[t][s]]
           /\ tmp' = [tmp EXCEPT ![t][s] = active[t][s]]
           /\ ready' = [ready EXCEPT ![t][s] = FALSE]
           /\ order' = [order EXCEPT ![t][s] = IF MidCopy(t, s) THEN "crossed" ELSE @]
      ELSE UNCHANGED bufferVars

\* The slots of this try that a crossed publication has set back, with slot s taken.
Astray(t, s) == IF order'[t][s] = "spoiled" THEN astray[t] \cup {s} ELSE astray[t]

\* A nonce is drawn and hashed with the challenge and address ...
Hash(t) ==
    /\ Alive
    /\ thr[t] = "hash"
    /\ thr' = [thr EXCEPT ![t] = "compare"]
    /\ Take(t, "buffer")
    /\ astray' = [astray EXCEPT ![t] = Astray(t, "buffer")]
    /\ UNCHANGED <<host, setterVars, workerVars, candidate, foundVars, m_bExit, historyVars>>

\* ... the digest is above the target ...
Miss(t) ==
    /\ Alive
    /\ thr[t] = "compare"
    /\ thr' = [thr EXCEPT ![t] = "test"]
    /\ Take(t, "target")
    /\ astray' = [astray EXCEPT ![t] = {}]
    /\ UNCHANGED <<host, setterVars, workerVars, candidate, foundVars, m_bExit, historyVars>>

\* ... or trySolution returns true: the nonce solves what was hashed, at the level
\* that was taken over since.
Hit(t) ==
    /\ Alive
    /\ thr[t] = "compare"
    /\ thr' = [thr EXCEPT ![t] = "found"]
    /\ Take(t, "target")
    /\ \E n \in Nonces :
         candidate' = [candidate EXCEPT
             ![t] = [nonce |-> n, of |-> active'[t], astray |-> Astray(t, "target")]]
    /\ astray' = [astray EXCEPT ![t] = {}]
    /\ UNCHANGED <<host, setterVars, workerVars, foundVars, m_bExit, historyVars>>

\* solutionFound: the solution is stored under the mutex, a later one over an
\* earlier one ...
Store(t) ==
    /\ Alive
    /\ thr[t] = "found"
    /\ thr' = [thr EXCEPT ![t] = "stop"]
    /\ m_solution' = candidate[t]
    /\ m_bSolutionFound' = TRUE
    /\ candidate' = [candidate EXCEPT ![t] = None]
    /\ UNCHANGED <<host, setterVars, bufferVars, workerVars, astray, m_bExit, historyVars>>

\* Mutant of Stop: the thread that found a solution stops, the others go on.
StopAlone(t) ==
    /\ Alive
    /\ thr[t] = "stop"
    /\ thr' = [thr EXCEPT ![t] = "off"]
    /\ UNCHANGED <<host, setterVars, bufferVars, workerVars, candidate, astray, foundVars, m_bExit,
                   historyVars>>

\* ... and every thread is told to stop.
Stop(t) ==
    /\ Alive
    /\ thr[t] = "stop"
    /\ thr' = [thr EXCEPT ![t] = "off"]
    /\ m_bExit' = TRUE
    /\ UNCHANGED <<host, setterVars, bufferVars, workerVars, candidate, astray, foundVars,
                   historyVars>>

Mine(t) == Test(t) \/ Hash(t) \/ Miss(t) \/ Hit(t) \/ Store(t) \/ Stop(t)

-----------------------------------------------------------------------------

Next ==
    \/ \E s \in Slots : \E v \in Values(s) : BeginSet(s, v)
    \/ CopySolver \/ PublishSolver \/ Run \/ Deliver \/ Exit \/ Destroy
    \/ Work
    \/ \E t \in Threads : Mine(t)

Spec == Init /\ [][Next]_vars

\* Every thread is scheduled; nothing says that a try ever hits, that a run is
\* ever started or that the process ever exits.
Fairness ==
    /\ WF_vars(CopySolver \/ PublishSolver)
    /\ WF_vars(Deliver)
    /\ WF_vars(Work)
    /\ \A t \in Threads : WF_vars(Mine(t))

LiveSpec == Spec /\ Fairness

-----------------------------------------------------------------------------
(* Properties.                                                             *)

\* Every variable keeps its type.
TypeOK ==
    /\ host \in {"up", "exiting", "gone", "aborted"}
    /\ job \in Jobs
    /\ calls \in 0..MaxCalls
    /\ setSlot \in Slots \cup {None}
    /\ setNext \in Threads
    /\ setCopied \in BOOLEAN
    /\ active \in [Threads -> Jobs]
    /\ tmp \in [Threads -> Jobs]
    /\ ready \in [Threads -> [Slots -> BOOLEAN]]
    /\ order \in [Threads -> [Slots -> {"clean", "crossed", "spoiled"}]]
    /\ worker \in {"none", "queued", "reset", "spawn", "join", "done"}
    /\ index \in Threads
    /\ thr \in [Threads -> {"off", "test", "hash", "compare", "found", "stop"}]
    /\ candidate \in [Threads -> Solutions \cup {None}]
    /\ astray \in [Threads -> SUBSET Slots]
    /\ m_solution \in Solutions \cup {None}
    /\ m_bSolutionFound \in BOOLEAN
    /\ m_bExit \in BOOLEAN
    /\ current \in [Slots -> SUBSET (Works \cup Levels)]
    /\ past \in [Slots -> SUBSET (Works \cup Levels)]
    /\ \A s \in Slots : current[s] \cup past[s] \subseteq Values(s)
    /\ late \subseteq Slots

\* No mining thread outlives the run that spawned it: when the JavaScript thread
\* reads m_solution without the mutex, and when the next run spawns over the old
\* handles, nothing writes and nothing is joinable.
NoThreadOutlivesItsRun ==
    worker \notin {"spawn", "join"} => \A t \in Threads : thr[t] = "off"

\* A run ends only by a solution of its own: neither the stop before it nor the
\* solution of an earlier run shows up in the callback.  What the solution hashes
\* and the level it meets were current at some moment of the run, whichever solver
\* found it and however far the setter loop had come, unless a swap between a copy
\* and its flag brought an older value back; then it is one that was set before.
RunEndsWithItsOwnHit ==
    host = "up" /\ worker = "done" =>
        /\ m_bSolutionFound
        /\ m_solution # None
        /\ \A s \in Slots :
             m_solution.of[s] \in (IF s \in m_solution.astray THEN past[s] ELSE current[s])

\* cpuminer.cpp:92-93: "When this function terminates, the "main" thread run()
\* should end and the caller can check the solution()."
FoundEndsRun ==
    \A t \in Threads : thr[t] \in {"found", "stop"} ~> worker = "done" \/ host # "up"

\* cpuminer.cpp:21-23, in the destructor: "Wait for run() to terminate.  This is
\* not very clean but it's the easiest portable way to exit gracefully if stop()
\* has not been called before the destructor."
GracefulExit ==
    host \in {"gone", "aborted"} => worker \notin {"spawn", "join"}

\* How JavaScript sees a run.
runPhase ==
    IF host # "up" THEN "halted"
    ELSE IF worker = "none" THEN "idle"
    ELSE IF worker = "done" THEN "ended"
    ELSE "running"

\* What solution() returns in the callback, with what it is for.
runOutcome ==
    IF host = "up" /\ worker = "done" /\ m_bSolutionFound
      THEN [nonce |-> m_solution.nonce,
            hashed |-> m_solution.of["buffer"], met |-> m_solution.of["target"]]
      ELSE None

Promise == INSTANCE MiningRun WITH phase <- runPhase, outcome <- runOutcome

\* The miner implements the promise of the addon: as far as JavaScript can see,
\* a run is started, ends by a solution of its own, for the parameters set last if
\* none was set during a run, and is delivered, whatever the threads, the setter
\* loops and the swaps do in between.
ImplementsMiningRun == Promise!Spec
=============================================================================

--------------------------- MODULE CpuMinerProofs ---------------------------
(***************************************************************************)
(* Proofs about CpuMiner for any number of threads, nonces and jobs.       *)
(***************************************************************************)
EXTENDS CpuMiner, TLAPS

\* The threads that run have been spawned and not been joined yet.
ThreadInv ==
    \A t \in Threads :
        /\ worker \notin {"spawn", "join"} => thr[t] = "off"
        /\ worker = "spawn" /\ t >= index => thr[t] = "off"
        /\ worker = "join" /\ t < index => thr[t] = "off"

\* The setter loop has not copied to solver t yet.
Pending(t, s) == setSlot = s /\ (t > setNext \/ (t = setNext /\ ~setCopied))

\* The value that solver t would use next.
Held(t, s) == IF ready[t][s] THEN tmp[t][s] ELSE active[t][s]

\* The state of the double buffers: unless a swap fell between a copy and its flag, the
\* solver holds the last value, or while the loop has not come to it a current one.
\* Such a swap needs a run under way, and the last copy made without one undoes it.
OrderInv(t, s) ==
    /\ order[t][s] = "clean" /\ ~Pending(t, s) /\ ~MidCopy(t, s) => Held(t, s) = job[s]
    /\ order[t][s] # "crossed" /\ MidCopy(t, s) => tmp[t][s] = job[s]
    /\ order[t][s] = "crossed" =>
         MidCopy(t, s) /\ active[t][s] = job[s] /\ ~ready[t][s] /\ s \in late
    /\ order[t][s] # "spoiled" /\ UnderWay => Held(t, s) \in current[s]
    /\ order[t][s] # "clean" => s \in late \/ Pending(t, s) \/ MidCopy(t, s)
    /\ {active[t][s], tmp[t][s]} \subseteq past[s]

\* What the setters have given: a slot that was last set while no run was under way has
\* had one value since.
SetterInv ==
    /\ setSlot = None => setNext = 1 /\ ~setCopied
    /\ setSlot # None /\ setSlot \notin late => ~UnderWay
    /\ \A s \in Slots :
         /\ job[s] \in past[s] /\ current[s] \subseteq past[s]
         /\ UnderWay => job[s] \in current[s]
         /\ UnderWay /\ s \notin late => current[s] = {job[s]}

BufferInv == \A t \in Threads, s \in Slots : OrderInv(t, s)

\* What a try has taken over is current, or noted as astray.
TryInv ==
    \A t \in Threads :
        /\ thr[t] # "compare" => astray[t] = {}
        /\ astray[t] \subseteq late \/ ~UnderWay
        /\ thr[t] = "compare" /\ "buffer" \notin astray[t] =>
             active[t]["buffer"] \in current["buffer"]

\* A solution is for values that were current during the run, or astray.
Own(x) ==
    /\ x \in Solutions
    /\ \A s \in Slots : x.of[s] \in past[s] /\ (s \notin x.astray => x.of[s] \in current[s])

\* As long as the process is not exiting, a thread of a run stops only after a
\* solution of that run has been stored.
FoundInv ==
    /\ \A t \in Threads : thr[t] = "found" => Own(candidate[t]) /\ candidate[t].astray \subseteq late
    /\ worker = "reset" => ~m_bSolutionFound
    /\ worker \in {"spawn", "join", "done"} /\ m_bSolutionFound => Own(m_solution)
    /\ worker \in {"spawn", "join"} /\ m_bSolutionFound => m_solution.astray \subseteq late
    /\ \A t \in Threads : thr[t] = "stop" => m_bSolutionFound
    /\ host = "up" /\ worker \in {"spawn", "join"} /\ m_bExit => m_bSolutionFound
    /\ \A t \in Threads :
         host = "up" /\ (worker = "join" \/ (worker = "spawn" /\ t < index)) /\ thr[t] = "off"
            => m_bSolutionFound
    /\ host = "up" /\ worker = "done" => m_bSolutionFound

IInv == TypeOK /\ ThreadInv /\ SetterInv /\ BufferInv /\ TryInv /\ FoundInv

-----------------------------------------------------------------------------

LEMMA ThreadsFacts ==
  /\ N \in Threads /\ 1 \in Threads
  /\ \A x \in Threads : x \in Nat /\ x >= 1 /\ x <= N /\ (x # N => x + 1 \in Threads)
  /\ \A x \in 0..N : x # 0 => x \in Threads
<1>1. N \in Nat /\ N >= 1
  BY NAssumption
<1>2. QED
  BY <1>1 DEF Threads

LEMMA JobFacts ==
  /\ \A w \in Works, l \in Levels : Job(w, l) \in Jobs
  /\ \A j \in Jobs : /\ j \in [Slots -> Works \cup Levels]
                     /\ \A s \in Slots : j[s] \in Values(s)
  /\ \A j \in Jobs, s \in Slots : \A v \in Values(s) : [j EXCEPT ![s] = v] \in Jobs
<1>1. \A w \in Works, l \in Levels : Job(w, l) \in Jobs
  BY DEF Jobs
<1>2. ASSUME NEW j \in Jobs
      PROVE  j \in [Slots -> Works \cup Levels] /\ \A s \in Slots : j[s] \in Values(s)
  BY DEF Jobs, Job, Slots, Values
<1>3. ASSUME NEW j \in Jobs, NEW s \in Slots, NEW v \in Values(s)
      PROVE  [j EXCEPT ![s] = v] \in Jobs
  <2>1. PICK w \in Works, l \in Levels : j = Job(w, l)
    BY DEF Jobs
  <2>2. CASE s = "buffer"
    <3>1. [j EXCEPT ![s] = v] = Job(v, l) /\ v \in Works
      BY <2>1, <2>2 DEF Job, Slots, Values
    <3>2. QED
      BY <3>1, <1>1
  <2>3. CASE s = "target"
    <3>1. [j EXCEPT ![s] = v] = Job(w, v) /\ v \in Levels
      BY <2>1, <2>3 DEF Job, Slots, Values
    <3>2. QED
      BY <3>1, <1>1
  <2>4. QED
    BY <2>2, <2>3 DEF Slots
<1>4. QED
  BY <1>1, <1>2, <1>3

\* One slot of one solver is changed.
LEMMA UpdateFacts ==
  ASSUME NEW X, NEW f \in [Threads -> [Slots -> X]], NEW t \in Threads, NEW s \in Slots, NEW v
  PROVE  /\ \A u \in Threads, q \in Slots :
              [f EXCEPT ![t][s] = v][u][q] = IF u = t /\ q = s THEN v ELSE f[u][q]
         /\ v \in X => [f EXCEPT ![t][s] = v] \in [Threads -> [Slots -> X]]
  OBVIOUS

LEMMA UpdateJobs ==
  ASSUME NEW f \in [Threads -> Jobs], NEW t \in Threads, NEW s \in Slots, NEW v \in Values(s)
  PROVE  /\ \A u \in Threads, q \in Slots :
              [f EXCEPT ![t][s] = v][u][q] = IF u = t /\ q = s THEN v ELSE f[u][q]
         /\ [f EXCEPT ![t][s] = v] \in [Threads -> Jobs]
<1>1. f \in [Threads -> [Slots -> Works \cup Levels]]
  BY JobFacts
<1>2. [f[t] EXCEPT ![s] = v] \in Jobs
  BY JobFacts
<1>3. QED
  BY <1>1, <1>2, UpdateFacts

\* What taking over slot s does to solver t, and to no other slot or solver.
LEMMA TakeFacts ==
  ASSUME TypeOK, NEW t \in Threads, NEW s \in Slots, Take(t, s)
  PROVE  /\ active' \in [Threads -> Jobs] /\ tmp' \in [Threads -> Jobs]
         /\ ready' \in [Threads -> [Slots -> BOOLEAN]]
         /\ order' \in [Threads -> [Slots -> {"clean", "crossed", "spoiled"}]]
         /\ \A u \in Threads, q \in Slots : u # t \/ q # s =>
              /\ active'[u][q] = active[u][q] /\ tmp'[u][q] = tmp[u][q]
              /\ ready'[u][q] = ready[u][q] /\ order'[u][q] = order[u][q]
         /\ active'[t][s] = Held(t, s) /\ ~ready'[t][s]
         /\ tmp'[t][s] \in {active[t][s], tmp[t][s]}
         /\ ~ready[t][s] => tmp'[t][s] = tmp[t][s]
         /\ order'[t][s] = IF ready[t][s] /\ MidCopy(t, s) THEN "crossed" ELSE order[t][s]
<1>1. /\ active \in [Threads -> Jobs] /\ tmp \in [Threads -> Jobs]
      /\ ready \in [Threads -> [Slots -> BOOLEAN]]
      /\ order \in [Threads -> [Slots -> {"clean", "crossed", "spoiled"}]]
  BY DEF TypeOK
<1>2. active[t][s] \in Values(s) /\ tmp[t][s] \in Values(s)
  BY <1>1, JobFacts
<1>3. CASE ready[t][s]
  <2>1. /\ active' = [active EXCEPT ![t][s] = tmp[t][s]]
        /\ tmp' = [tmp EXCEPT ![t][s] = active[t][s]]
        /\ ready' = [ready EXCEPT ![t][s] = FALSE]
        /\ order' = [order EXCEPT ![t][s] = IF MidCopy(t, s) THEN "crossed" ELSE order[t][s]]
    BY <1>1, <1>3 DEF Take
  <2>2. /\ active' \in [Threads -> Jobs]
        /\ \A u \in Threads, q \in Slots :
             active'[u][q] = IF u = t /\ q = s THEN tmp[t][s] ELSE active[u][q]
    <3>1. [active[t] EXCEPT ![s] = tmp[t][s]] \in Jobs
      BY <1>1, <1>2, JobFacts
    <3>2. active' = [active EXCEPT ![t] = [active[t] EXCEPT ![s] = tmp[t][s]]]
      BY <2>1
    <3>3. active \in [Threads -> [Slots -> Works \cup Levels]]
      BY <1>1, JobFacts
    <3>4. QED
      BY <1>1, <3>1, <3>2, <3>3
  <2>3. /\ tmp' \in [Threads -> Jobs]
        /\ \A u \in Threads, q \in Slots :
             tmp'[u][q] = IF u = t /\ q = s THEN active[t][s] ELSE tmp[u][q]
    <3>1. [tmp[t] EXCEPT ![s] = active[t][s]] \in Jobs
      BY <1>1, <1>2, JobFacts
    <3>2. tmp' = [tmp EXCEPT ![t] = [tmp[t] EXCEPT ![s] = active[t][s]]]
      BY <2>1
    <3>3. tmp \in [Threads -> [Slots -> Works \cup Levels]]
      BY <1>1, JobFacts
    <3>4. QED
      BY <1>1, <3>1, <3>2, <3>3
  <2>4. /\ ready' \in [Threads -> [Slots -> BOOLEAN]] /\ ~ready'[t][s]
        /\ \A u \in Threads, q \in Slots : u # t \/ q # s => ready'[u][q] = ready[u][q]
    BY <1>1, <2>1
  <2>5. (IF MidCopy(t, s) THEN "crossed" ELSE order[t][s]) \in {"clean", "crossed", "spoiled"}
    BY <1>1
  <2>6. /\ order' \in [Threads -> [Slots -> {"clean", "crossed", "spoiled"}]]
        /\ order'[t][s] = IF MidCopy(t, s) THEN "crossed" ELSE order[t][s]
        /\ \A u \in Threads, q \in Slots : u # t \/ q # s => order'[u][q] = order[u][q]
    BY <1>1, <2>1, <2>5, UpdateFacts
  <2>7. QED
    BY <1>3, <2>2, <2>3, <2>4, <2>6 DEF Held
<1>4. CASE ~ready[t][s]
  BY <1>1, <1>4 DEF Take, bufferVars, Held
<1>5. QED
  BY <1>3, <1>4

LEMMA TypeInit == Init => TypeOK
<1> SUFFICES ASSUME Init
             PROVE  TypeOK
  OBVIOUS
<1>1. index \in Threads /\ setNext \in Threads /\ calls \in 0..MaxCalls
  BY ThreadsFacts, MaxCallsAssumption DEF Init
<1>2. job \in Jobs /\ \A s \in Slots : job[s] \in Values(s)
  BY JobFacts, ZeroAssumption DEF Init
<1>3. /\ active \in [Threads -> Jobs] /\ tmp \in [Threads -> Jobs]
      /\ ready \in [Threads -> [Slots -> BOOLEAN]]
      /\ order \in [Threads -> [Slots -> {"clean", "crossed", "spoiled"}]]
  BY <1>2 DEF Init
<1>4. /\ current \in [Slots -> SUBSET (Works \cup Levels)]
      /\ past \in [Slots -> SUBSET (Works \cup Levels)]
      /\ \A s \in Slots : current[s] \cup past[s] \subseteq Values(s)
  BY <1>2 DEF Init, Values
<1>5. QED
  BY <1>1, <1>2, <1>3, <1>4 DEF Init, TypeOK

LEMMA TypeStep == TypeOK /\ [Next]_vars => TypeOK'
<1> SUFFICES ASSUME TypeOK, [Next]_vars
             PROVE  TypeOK'
  OBVIOUS
<1>1. ASSUME NEW s \in Slots, NEW v \in Values(s), BeginSet(s, v)
      PROVE  TypeOK'
  <2>1. job' \in Jobs /\ calls' \in 0..MaxCalls
    <3>1. job' \in Jobs
      BY <1>1, JobFacts DEF BeginSet, TypeOK
    <3>2. calls' \in 0..MaxCalls
      BY <1>1, MaxCallsAssumption DEF BeginSet, TypeOK
    <3>3. QED
      BY <3>1, <3>2
  <2>2. /\ current' \in [Slots -> SUBSET (Works \cup Levels)]
        /\ past' \in [Slots -> SUBSET (Works \cup Levels)]
        /\ \A q \in Slots : current'[q] \cup past'[q] \subseteq Values(q)
    BY <1>1 DEF BeginSet, TypeOK, Values
  <2>3. QED
    BY <1>1, <2>1, <2>2
       DEF BeginSet, TypeOK, bufferVars, workerVars, threadVars, foundVars
<1>2. CASE CopySolver
  <2>1. setSlot \in Slots /\ setNext \in Threads /\ job[setSlot] \in Values(setSlot)
    BY <1>2, JobFacts DEF CopySolver, TypeOK
  <2>2. tmp' \in [Threads -> Jobs]
    BY <1>2, <2>1, UpdateJobs DEF CopySolver, TypeOK
  <2>3. QED
    BY <1>2, <2>2 DEF CopySolver, TypeOK, workerVars, threadVars, foundVars, historyVars
<1>3. CASE PublishSolver
  <2>1. setSlot \in Slots /\ setNext \in Threads
    BY <1>3 DEF PublishSolver, TypeOK
  <2>2. setNext' \in Threads /\ setSlot' \in Slots \cup {None}
    BY <1>3, <2>1, ThreadsFacts DEF PublishSolver
  <2>3. ready' \in [Threads -> [Slots -> BOOLEAN]]
    BY <1>3, <2>1, UpdateFacts DEF PublishSolver, TypeOK
  <2>4. order' \in [Threads -> [Slots -> {"clean", "crossed", "spoiled"}]]
    BY <1>3, <2>1 DEF PublishSolver, TypeOK
  <2>5. QED
    BY <1>3, <2>2, <2>3, <2>4 DEF PublishSolver, TypeOK, workerVars, threadVars, foundVars, historyVars
<1>4. CASE Run \/ Deliver
  <2>1. \A q \in Slots : job[q] \in Values(q)
    BY JobFacts DEF TypeOK
  <2>2. \A q \in Slots : Values(q) \subseteq Works \cup Levels
    BY DEF Values
  <2>3. current' = [q \in Slots |-> {job[q]}] \/ current' = [q \in Slots |-> {}]
    BY <1>4 DEF Run, Deliver
  <2>4. \A q \in Slots : past[q] \subseteq Values(q)
    BY DEF TypeOK
  <2>5. /\ current' \in [Slots -> SUBSET (Works \cup Levels)]
        /\ \A q \in Slots : current'[q] \cup past[q] \subseteq Values(q)
    <3>1. ASSUME NEW q \in Slots
          PROVE  current'[q] \subseteq Values(q)
      BY <2>1, <2>3
    <3>2. QED
      BY <2>2, <2>3, <2>4, <3>1
  <2>6. past' = past
    BY <1>4 DEF Run, Deliver
  <2>7. QED
    BY <1>4, <2>5, <2>6 DEF Run, Deliver, TypeOK, setterVars, bufferVars, threadVars, foundVars
<1>5. CASE Exit \/ Destroy
  BY <1>5 DEF Exit, Destroy, TypeOK, setterVars, bufferVars, workerVars, threadVars, foundVars,
              historyVars
<1>6. CASE Work
  <2>1. index' \in Threads /\ thr' \in [Threads -> {"off", "test", "hash", "compare", "found", "stop"}]
    BY <1>6, ThreadsFacts DEF Work, ResetFound, ResetExit, Spawn, Join, TypeOK, threadVars
  <2>2. QED
    BY <1>6, <2>1 DEF Work, ResetFound, ResetExit, Spawn, Join, TypeOK, setterVars, bufferVars,
                      threadVars, foundVars, historyVars
<1>7. ASSUME NEW t \in Threads, Test(t) \/ Store(t) \/ Stop(t)
      PROVE  TypeOK'
  <2>1. CASE Test(t)
    BY <2>1 DEF Test, TypeOK, setterVars, bufferVars, workerVars, foundVars, historyVars
  <2>2. CASE Store(t)
    BY <2>2 DEF Store, TypeOK, setterVars, bufferVars, workerVars, historyVars
  <2>3. CASE Stop(t)
    BY <2>3 DEF Stop, TypeOK, setterVars, bufferVars, workerVars, foundVars, historyVars
  <2>4. QED
    BY <1>7, <2>1, <2>2, <2>3
<1>8. ASSUME NEW t \in Threads, Hash(t) \/ Miss(t) \/ Hit(t)
      PROVE  TypeOK'
  <2>1. PICK s \in Slots : Take(t, s) /\ (Hit(t) => s = "target")
    BY <1>8 DEF Hash, Miss, Hit, Slots
  <2>2. /\ active' \in [Threads -> Jobs] /\ tmp' \in [Threads -> Jobs]
        /\ ready' \in [Threads -> [Slots -> BOOLEAN]]
        /\ order' \in [Threads -> [Slots -> {"clean", "crossed", "spoiled"}]]
    BY <2>1, TakeFacts
  <2>3. \A q \in Slots : Astray(t, q) \subseteq Slots
    <3>1. astray[t] \subseteq Slots
      BY DEF TypeOK
    <3>2. QED
      BY <3>1 DEF Astray
  <2>4. astray' \in [Threads -> SUBSET Slots]
    <3>1. astray' = [astray EXCEPT ![t] = Astray(t, "buffer")] \/ astray' = [astray EXCEPT ![t] = {}]
      BY <1>8 DEF Hash, Miss, Hit
    <3>2. Astray(t, "buffer") \in SUBSET Slots
      BY <2>3 DEF Slots
    <3>3. QED
      BY <3>1, <3>2 DEF TypeOK
  <2>5. candidate' \in [Threads -> Solutions \cup {None}]
    <3>1. CASE Hit(t)
      <4>1. PICK n \in Nonces :
              candidate' = [candidate EXCEPT
                  ![t] = [nonce |-> n, of |-> active'[t], astray |-> Astray(t, "target")]]
        BY <3>1 DEF Hit
      <4>2. [nonce |-> n, of |-> active'[t], astray |-> Astray(t, "target")] \in Solutions
        BY <2>2, <2>3 DEF Solutions, Slots
      <4>3. QED
        BY <4>1, <4>2 DEF TypeOK
    <3>2. CASE ~Hit(t)
      BY <1>8, <3>2 DEF Hash, Miss, TypeOK
    <3>3. QED
      BY <3>1, <3>2
  <2>6. thr' \in [Threads -> {"off", "test", "hash", "compare", "found", "stop"}]
    BY <1>8 DEF Hash, Miss, Hit, TypeOK
  <2>7. UNCHANGED <<host, setterVars, workerVars, foundVars, m_bExit, historyVars>>
    BY <1>8 DEF Hash, Miss, Hit
  <2>8. QED
    BY <2>2, <2>4, <2>5, <2>6, <2>7 DEF TypeOK, setterVars, workerVars, foundVars, historyVars
<1>9. CASE UNCHANGED vars
  BY <1>9 DEF vars, TypeOK, setterVars, bufferVars, workerVars, threadVars, foundVars, historyVars
<1>10. QED
  BY <1>1, <1>2, <1>3, <1>4, <1>5, <1>6, <1>7, <1>8, <1>9 DEF Next, Mine

\* Every variable of the miner keeps its type; run's loops stay within the threads.
THEOREM TypeCorrect == Spec => []TypeOK
  BY TypeInit, TypeStep, PTL DEF Spec

-----------------------------------------------------------------------------

LEMMA InvInit == Init => ThreadInv /\ SetterInv /\ BufferInv /\ TryInv /\ FoundInv
<1> SUFFICES ASSUME Init
             PROVE  ThreadInv /\ SetterInv /\ BufferInv /\ TryInv /\ FoundInv
  OBVIOUS
<1>1. ThreadInv /\ TryInv /\ FoundInv
  BY DEF Init, ThreadInv, TryInv, FoundInv
<1>2. SetterInv
  BY DEF Init, SetterInv, UnderWay
<1>3. BufferInv
  BY NoneAssumption DEF Init, BufferInv, OrderInv, Held, Pending, MidCopy, UnderWay
<1>4. QED
  BY <1>1, <1>2, <1>3

LEMMA ThreadInvStep ==
  ASSUME TypeOK, ThreadInv, [Next]_vars
  PROVE  ThreadInv'
<1>1. CASE UNCHANGED <<worker, index, thr>>
  BY <1>1 DEF ThreadInv
<1>2. CASE Run \/ Deliver \/ ResetFound
  BY <1>2 DEF Run, Deliver, ResetFound, ThreadInv, threadVars
<1>3. CASE ResetExit
  BY <1>3 DEF ResetExit, ThreadInv, threadVars
<1>4. CASE Spawn
  <2>1. index \in Threads /\ worker = "spawn" /\ thr' = [thr EXCEPT ![index] = "test"]
    BY <1>4 DEF Spawn, TypeOK
  <2>2. CASE index = N
    <3>1. worker' = "join" /\ index' = 1
      BY <1>4, <2>2 DEF Spawn
    <3>2. \A t \in Threads : ~(t < index')
      BY <3>1, ThreadsFacts
    <3>3. QED
      BY <3>1, <3>2 DEF ThreadInv
  <2>3. CASE index # N
    <3>1. worker' = "spawn" /\ index' = index + 1
      BY <1>4, <2>1, <2>3 DEF Spawn
    <3>2. ASSUME NEW t \in Threads, t >= index'
          PROVE  t # index /\ t >= index
      BY <2>1, <3>1, <3>2, ThreadsFacts
    <3>3. QED
      BY <2>1, <3>1, <3>2 DEF ThreadInv, TypeOK
  <2>4. QED
    BY <2>2, <2>3
<1>5. CASE Join
  <2>1. index \in Threads /\ worker = "join" /\ thr[index] = "off" /\ thr' = thr
    BY <1>5 DEF Join, TypeOK, threadVars
  <2>2. CASE index = N
    BY <1>5, <2>1, <2>2, ThreadsFacts DEF Join, ThreadInv
  <2>3. CASE index # N
    BY <1>5, <2>1, <2>3, ThreadsFacts DEF Join, ThreadInv
  <2>4. QED
    BY <2>2, <2>3
<1>6. ASSUME NEW t \in Threads, Mine(t)
      PROVE  ThreadInv'
  <2>1. /\ thr[t] # "off"
        /\ \A u \in Threads \ {t} : thr'[u] = thr[u]
        /\ UNCHANGED <<worker, index>>
    BY <1>6 DEF Mine, Test, Hash, Miss, Hit, Store, Stop, TypeOK, workerVars
  <2>2. QED
    BY <2>1 DEF ThreadInv
<1>7. QED
  BY <1>1, <1>2, <1>3, <1>4, <1>5, <1>6
     DEF Next, Work, BeginSet, CopySolver, PublishSolver, Exit, Destroy, vars, workerVars, threadVars

\* The steps that take a slot over leave everything else of the setters alone.
LEMMA MineFacts ==
  ASSUME TypeOK, ThreadInv, NEW t \in Threads, Mine(t)
  PROVE  /\ worker \in {"spawn", "join"} /\ UnderWay /\ UnderWay'
         /\ UNCHANGED <<host, job, setSlot, setNext, setCopied, worker, index, current, past, late>>
         /\ \A u \in Threads \ {t} : /\ thr'[u] = thr[u] /\ astray'[u] = astray[u]
                                      /\ candidate'[u] = candidate[u]
  BY DEF Mine, Test, Hash, Miss, Hit, Store, Stop, TypeOK, ThreadInv, UnderWay, setterVars,
         workerVars, historyVars

\* A setter call gives one slot a new value.
LEMMA BeginFacts ==
  ASSUME TypeOK, NEW s \in Slots, NEW v, BeginSet(s, v), NEW q \in Slots
  PROVE  /\ job'[q] = IF q = s THEN v ELSE job[q]
         /\ past'[q] = IF q = s THEN past[q] \cup {v} ELSE past[q]
         /\ current'[q] = IF q = s /\ UnderWay THEN current[q] \cup {v} ELSE current[q]
<1>1. job \in [Slots -> Works \cup Levels] /\ job' = [job EXCEPT ![s] = v]
  BY JobFacts DEF TypeOK, BeginSet
<1>2. /\ past \in [Slots -> SUBSET (Works \cup Levels)]
      /\ past' = [past EXCEPT ![s] = past[s] \cup {v}]
  BY DEF TypeOK, BeginSet
<1>3. /\ current \in [Slots -> SUBSET (Works \cup Levels)]
      /\ current' = IF UnderWay THEN [current EXCEPT ![s] = current[s] \cup {v}] ELSE current
  BY DEF TypeOK, BeginSet
<1>4. QED
  BY <1>1, <1>2, <1>3

LEMMA SetterInvStep ==
  ASSUME TypeOK, ThreadInv, SetterInv, [Next]_vars
  PROVE  SetterInv'
<1>1. ASSUME NEW s \in Slots, NEW v \in Values(s), BeginSet(s, v)
      PROVE  SetterInv'
  <2>1. /\ setSlot = None /\ setSlot' = s /\ s # None /\ UNCHANGED <<worker, setNext, setCopied>>
        /\ late' = IF UnderWay THEN late \cup {s} ELSE late \ {s}
        /\ (UnderWay <=> UnderWay')
    BY <1>1, NoneAssumption DEF BeginSet, Free, workerVars, UnderWay
  <2>2. \A q \in Slots :
          /\ job'[q] = IF q = s THEN v ELSE job[q]
          /\ past'[q] = IF q = s THEN past[q] \cup {v} ELSE past[q]
          /\ current'[q] = IF q = s /\ UnderWay THEN current[q] \cup {v} ELSE current[q]
    BY <1>1, BeginFacts
  <2>3. QED
    BY <2>1, <2>2 DEF SetterInv
<1>2. CASE CopySolver \/ PublishSolver
  BY <1>2, NoneAssumption DEF CopySolver, PublishSolver, SetterInv, UnderWay, workerVars, historyVars
<1>3. CASE Run
  BY <1>3 DEF Run, Free, SetterInv, UnderWay, setterVars
<1>4. CASE Deliver
  BY <1>4 DEF Deliver, SetterInv, UnderWay, setterVars
<1>5. CASE Exit \/ Destroy
  BY <1>5 DEF Exit, Destroy, SetterInv, UnderWay, setterVars, workerVars, historyVars
<1>6. CASE Work
  BY <1>6 DEF Work, ResetFound, ResetExit, Spawn, Join, SetterInv, UnderWay, setterVars, historyVars
<1>7. ASSUME NEW t \in Threads, Mine(t)
      PROVE  SetterInv'
  BY <1>7, MineFacts DEF SetterInv
<1>8. CASE UNCHANGED vars
  BY <1>8 DEF vars, SetterInv, UnderWay, setterVars, workerVars, historyVars
<1>9. QED
  BY <1>1, <1>2, <1>3, <1>4, <1>5, <1>6, <1>7, <1>8 DEF Next

\* A swap between a copy and its flag falls into a run.
LEMMA DisorderIsLate ==
  ASSUME SetterInv, BufferInv, UnderWay, NEW t \in Threads, NEW s \in Slots, order[t][s] # "clean"
  PROVE  s \in late
  BY NoneAssumption DEF SetterInv, BufferInv, OrderInv, Pending, MidCopy

LEMMA BufferInvStep ==
  ASSUME TypeOK, ThreadInv, SetterInv, BufferInv, [Next]_vars
  PROVE  BufferInv'
<1>1. ASSUME NEW s \in Slots, NEW v \in Values(s), BeginSet(s, v)
      PROVE  BufferInv'
  <2>1. /\ setSlot = None /\ setSlot' = s /\ s # None /\ setNext' = 1 /\ setCopied' = FALSE
        /\ setNext = 1 /\ UNCHANGED <<active, tmp, ready, order>>
        /\ late' = IF UnderWay THEN late \cup {s} ELSE late \ {s}
        /\ (UnderWay <=> UnderWay')
    BY <1>1, NoneAssumption DEF BeginSet, Free, workerVars, bufferVars, UnderWay, SetterInv
  <2>2. \A q \in Slots :
          /\ job'[q] = IF q = s THEN v ELSE job[q]
          /\ past'[q] = IF q = s THEN past[q] \cup {v} ELSE past[q]
          /\ current'[q] = IF q = s /\ UnderWay THEN current[q] \cup {v} ELSE current[q]
    BY <1>1, BeginFacts
  <2>3. ASSUME NEW t \in Threads, NEW q \in Slots
        PROVE  OrderInv(t, q)'
    <3>1. /\ OrderInv(t, q) /\ ~Pending(t, q) /\ ~MidCopy(t, q) /\ ~MidCopy(t, q)'
          /\ Held(t, q)' = Held(t, q)
      BY <2>1, NoneAssumption DEF BufferInv, Pending, MidCopy, Held
    <3>2. CASE q = s
      <4>1. Pending(t, q)'
        BY <2>1, <3>2, ThreadsFacts DEF Pending
      <4>2. QED
        BY <2>1, <2>2, <3>1, <4>1 DEF OrderInv
    <3>3. CASE q # s
      <4>1. ~Pending(t, q)'
        BY <2>1, <3>3 DEF Pending
      <4>2. QED
        BY <2>1, <2>2, <3>1, <3>3, <4>1 DEF OrderInv
    <3>4. QED
      BY <3>2, <3>3
  <2>4. QED
    BY <2>3 DEF BufferInv
<1>2. CASE CopySolver
  <2>1. /\ setSlot \in Slots /\ setNext \in Threads /\ ~setCopied /\ setCopied' = TRUE
        /\ UNCHANGED <<job, setSlot, setNext, active, ready, order, worker, current, past, late>>
        /\ tmp' = [tmp EXCEPT ![setNext][setSlot] = job[setSlot]]
    BY <1>2 DEF CopySolver, TypeOK, workerVars, historyVars
  <2>2. job[setSlot] \in Values(setSlot) /\ tmp \in [Threads -> Jobs]
    BY <2>1, JobFacts DEF TypeOK
  <2>3. \A u \in Threads, q \in Slots :
          tmp'[u][q] = IF u = setNext /\ q = setSlot THEN job[setSlot] ELSE tmp[u][q]
    BY <2>1, <2>2, UpdateJobs
  <2>4. ASSUME NEW t \in Threads, NEW q \in Slots
        PROVE  OrderInv(t, q)'
    <3>1. OrderInv(t, q) /\ ~MidCopy(t, q) /\ (UnderWay <=> UnderWay')
      BY <2>1 DEF BufferInv, MidCopy, UnderWay
    <3>2. CASE t = setNext /\ q = setSlot
      <4>1. /\ MidCopy(t, q)' /\ tmp'[t][q] = job[q]
            /\ Held(t, q)' \in {Held(t, q), job[q]}
        BY <2>1, <2>3, <3>2 DEF MidCopy, Held
      <4>2. job[q] \in past[q] /\ (UnderWay => job[q] \in current[q])
        BY DEF SetterInv
      <4>3. QED
        BY <2>1, <3>1, <4>1, <4>2 DEF OrderInv
    <3>3. CASE ~(t = setNext /\ q = setSlot)
      <4>1. /\ tmp'[t][q] = tmp[t][q] /\ ~MidCopy(t, q)'
            /\ (Pending(t, q)' <=> Pending(t, q)) /\ Held(t, q)' = Held(t, q)
        BY <2>1, <2>3, <3>3, ThreadsFacts DEF MidCopy, Pending, Held
      <4>2. QED
        BY <2>1, <3>1, <4>1 DEF OrderInv
    <3>4. QED
      BY <3>2, <3>3
  <2>5. QED
    BY <2>4 DEF BufferInv
<1>3. CASE PublishSolver
  <2>1. /\ setSlot \in Slots /\ setNext \in Threads /\ setCopied /\ setCopied' = FALSE
        /\ UNCHANGED <<job, active, tmp, worker, current, past, late>>
        /\ ready' = [ready EXCEPT ![setNext][setSlot] = TRUE]
        /\ order' = [order EXCEPT ![setNext][setSlot] =
                       IF order[setNext][setSlot] = "crossed" THEN "spoiled" ELSE "clean"]
        /\ IF setNext = N THEN setSlot' = None /\ setNext' = 1
                          ELSE setSlot' = setSlot /\ setNext' = setNext + 1
    BY <1>3 DEF PublishSolver, TypeOK, workerVars, historyVars
  <2>2. \A u \in Threads, q \in Slots :
          /\ IF u = setNext /\ q = setSlot THEN ready'[u][q] ELSE ready'[u][q] = ready[u][q]
          /\ order'[u][q] = IF u = setNext /\ q = setSlot
                              THEN IF order[u][q] = "crossed" THEN "spoiled" ELSE "clean"
                              ELSE order[u][q]
    <3>1. /\ ready \in [Threads -> [Slots -> BOOLEAN]]
          /\ order \in [Threads -> [Slots -> {"clean", "crossed", "spoiled"}]]
      BY DEF TypeOK
    <3>2. \A u \in Threads, q \in Slots :
            IF u = setNext /\ q = setSlot THEN ready'[u][q] ELSE ready'[u][q] = ready[u][q]
      BY <2>1, <3>1
    <3>3. \A u \in Threads, q \in Slots :
            order'[u][q] = IF u = setNext /\ q = setSlot
                             THEN IF order[u][q] = "crossed" THEN "spoiled" ELSE "clean"
                             ELSE order[u][q]
      BY <2>1, <3>1
    <3>4. QED
      BY <3>2, <3>3
  <2>3. ASSUME NEW t \in Threads, NEW q \in Slots
        PROVE  OrderInv(t, q)'
    <3>1. OrderInv(t, q) /\ ~MidCopy(t, q)' /\ (UnderWay <=> UnderWay')
      BY <2>1 DEF BufferInv, MidCopy, UnderWay
    <3>2. CASE t = setNext /\ q = setSlot
      <4>1. MidCopy(t, q) /\ ~Pending(t, q)' /\ Held(t, q)' = tmp[t][q]
        <5>1. MidCopy(t, q)
          BY <2>1, <3>2 DEF MidCopy
        <5>2. setSlot' = None \/ setNext' = t + 1
          BY <2>1, <3>2
        <5>3. ~(t > t + 1) /\ t # t + 1
          BY ThreadsFacts
        <5>4. ~Pending(t, q)'
          BY <5>2, <5>3, NoneAssumption DEF Pending
        <5>5. Held(t, q)' = tmp[t][q]
          <6>1. ready'[t][q] /\ tmp' = tmp
            BY <2>1, <2>2, <3>2
          <6>2. QED
            BY <6>1 DEF Held
        <5>6. QED
          BY <5>1, <5>4, <5>5
      <4>2. order[t][q] = "crossed" => q \in late
        BY <3>1 DEF OrderInv
      <4>3. order[t][q] # "crossed" => tmp[t][q] = job[q]
        BY <3>1, <4>1 DEF OrderInv
      <4>4. UnderWay => job[q] \in current[q]
        BY DEF SetterInv
      <4>5. order'[t][q] = IF order[t][q] = "crossed" THEN "spoiled" ELSE "clean"
        BY <2>2, <3>2
      <4>6. {active'[t][q], tmp'[t][q]} \subseteq past'[q]
        BY <2>1, <3>1 DEF OrderInv
      <4>7. order'[t][q] = "clean" => Held(t, q)' = job'[q]
        BY <2>1, <4>1, <4>3, <4>5
      <4>8. order'[t][q] # "spoiled" /\ UnderWay' => Held(t, q)' \in current'[q]
        BY <2>1, <3>1, <4>1, <4>3, <4>4, <4>5
      <4>9. QED
        BY <2>1, <3>1, <4>2, <4>5, <4>6, <4>7, <4>8 DEF OrderInv
    <3>3. CASE ~(t = setNext /\ q = setSlot)
      <4>1. ~MidCopy(t, q) /\ Held(t, q)' = Held(t, q)
        BY <2>1, <2>2, <3>3 DEF MidCopy, Held
      <4>2. Pending(t, q)' <=> Pending(t, q)
        BY <2>1, <3>3, NoneAssumption, ThreadsFacts DEF Pending
      <4>3. QED
        BY <2>1, <2>2, <3>1, <3>3, <4>1, <4>2 DEF OrderInv
    <3>4. QED
      BY <3>2, <3>3
  <2>4. QED
    BY <2>3 DEF BufferInv
<1>4. CASE Run
  <2>1. /\ setSlot = None /\ UNCHANGED <<job, setSlot, setNext, setCopied, active, tmp, ready, order, past, late>>
        /\ current' = [s \in Slots |-> {job[s]}]
    BY <1>4 DEF Run, Free, setterVars, bufferVars
  <2>2. ASSUME NEW t \in Threads, NEW q \in Slots
        PROVE  OrderInv(t, q)'
    <3>1. /\ OrderInv(t, q) /\ ~Pending(t, q) /\ ~MidCopy(t, q) /\ ~Pending(t, q)' /\ ~MidCopy(t, q)'
          /\ Held(t, q)' = Held(t, q) /\ current'[q] = {job[q]}
      BY <2>1, NoneAssumption DEF BufferInv, Pending, MidCopy, Held
    <3>2. order[t][q] \in {"clean", "crossed", "spoiled"}
      BY DEF TypeOK
    <3>3. QED
      BY <2>1, <3>1, <3>2 DEF OrderInv
  <2>3. QED
    BY <2>2 DEF BufferInv
<1>5. CASE Deliver
  BY <1>5 DEF Deliver, BufferInv, OrderInv, UnderWay, Held, Pending, MidCopy, setterVars, bufferVars
<1>6. CASE Exit \/ Destroy
  BY <1>6 DEF Exit, Destroy, BufferInv, OrderInv, UnderWay, Held, Pending, MidCopy, setterVars,
              bufferVars, workerVars, historyVars
<1>7. CASE Work
  <2>1. /\ UNCHANGED <<job, setSlot, setNext, setCopied, active, tmp, ready, order, current, past, late>>
        /\ UnderWay' => UnderWay
    BY <1>7 DEF Work, ResetFound, ResetExit, Spawn, Join, UnderWay, setterVars, bufferVars, historyVars
  <2>2. ASSUME NEW t \in Threads, NEW q \in Slots
        PROVE  OrderInv(t, q)'
    BY <2>1 DEF BufferInv, OrderInv, Held, Pending, MidCopy
  <2>3. QED
    BY <2>2 DEF BufferInv
<1>8. ASSUME NEW t \in Threads, NEW s \in Slots, Mine(t), Take(t, s)
      PROVE  BufferInv'
  <2>1. /\ UnderWay /\ UnderWay'
        /\ UNCHANGED <<job, setSlot, setNext, setCopied, current, past, late>>
    BY <1>8, MineFacts
  <2>2. ASSUME NEW u \in Threads, NEW q \in Slots
        PROVE  OrderInv(u, q)'
    <3>1. /\ OrderInv(u, q) /\ (Pending(u, q)' <=> Pending(u, q)) /\ (MidCopy(u, q)' <=> MidCopy(u, q))
      BY <2>1 DEF BufferInv, Pending, MidCopy
    <3>2. CASE u # t \/ q # s
      <4>1. /\ active'[u][q] = active[u][q] /\ tmp'[u][q] = tmp[u][q]
            /\ ready'[u][q] = ready[u][q] /\ order'[u][q] = order[u][q]
        BY <1>8, <3>2, TakeFacts
      <4>2. Held(u, q)' = Held(u, q)
        BY <4>1 DEF Held
      <4>3. QED
        BY <2>1, <3>1, <4>1, <4>2 DEF OrderInv
    <3>3. CASE u = t /\ q = s
      <4>1. /\ active'[u][q] = Held(u, q) /\ ~ready'[u][q]
            /\ tmp'[u][q] \in {active[u][q], tmp[u][q]}
            /\ ~ready[u][q] => tmp'[u][q] = tmp[u][q]
            /\ order'[u][q] = IF ready[u][q] /\ MidCopy(u, q) THEN "crossed" ELSE order[u][q]
        BY <1>8, <3>3, TakeFacts
      <4>2. Held(u, q)' = Held(u, q)
        BY <4>1 DEF Held
      <4>3. CASE ready[u][q] /\ MidCopy(u, q)
        <5>1. q \in late
          BY <2>1, <4>3, NoneAssumption DEF MidCopy, SetterInv
        <5>2. Held(u, q) = job[q] /\ order[u][q] # "crossed"
          BY <3>1, <4>3 DEF OrderInv, Held
        <5>3. job[q] \in current[q] /\ job[q] \in past[q]
          BY <2>1 DEF SetterInv
        <5>4. QED
          BY <2>1, <3>1, <4>1, <4>2, <4>3, <5>1, <5>2, <5>3 DEF OrderInv
      <4>4. CASE ~(ready[u][q] /\ MidCopy(u, q))
        <5>1. order'[u][q] = order[u][q] /\ Held(u, q) \in past[q]
          BY <3>1, <4>1, <4>4 DEF OrderInv, Held
        <5>2. MidCopy(u, q) => tmp'[u][q] = tmp[u][q]
          BY <4>1, <4>4
        <5>3. order[u][q] = "crossed" => active'[u][q] = job[q]
          BY <3>1, <4>1 DEF OrderInv, Held
        <5>4. QED
          BY <2>1, <3>1, <4>1, <4>2, <5>1, <5>2, <5>3 DEF OrderInv
      <4>5. QED
        BY <4>3, <4>4
    <3>4. QED
      BY <3>2, <3>3
  <2>3. QED
    BY <2>2 DEF BufferInv
<1>9. ASSUME NEW t \in Threads, Test(t) \/ Store(t) \/ Stop(t)
      PROVE  BufferInv'
  BY <1>9 DEF Test, Store, Stop, BufferInv, OrderInv, UnderWay, Held, Pending, MidCopy, setterVars,
              bufferVars, workerVars, historyVars
<1>10. ASSUME NEW t \in Threads, Hash(t) \/ Miss(t) \/ Hit(t)
       PROVE  BufferInv'
  BY <1>8, <1>10 DEF Mine, Hash, Miss, Hit, Slots
<1>11. CASE UNCHANGED vars
  BY <1>11 DEF vars, BufferInv, OrderInv, UnderWay, Held, Pending, MidCopy, setterVars, bufferVars,
               workerVars, historyVars
<1>12. QED
  BY <1>1, <1>2, <1>3, <1>4, <1>5, <1>6, <1>7, <1>9, <1>10, <1>11 DEF Next, Mine

\* What a solver holds once it has taken a slot over is current, or the slot is astray.
LEMMA TakenIsCurrent ==
  ASSUME TypeOK, ThreadInv, SetterInv', BufferInv', NEW t \in Threads, NEW s \in Slots,
         Mine(t), Take(t, s)
  PROVE  /\ order'[t][s] # "spoiled" => active'[t][s] \in current'[s]
         /\ order'[t][s] = "spoiled" => s \in late'
         /\ \A q \in Slots : active'[t][q] \in past'[q]
<1>1. UnderWay' /\ ~ready'[t][s]
  BY MineFacts, TakeFacts
<1>2. Held(t, s)' = active'[t][s]
  BY <1>1 DEF Held
<1>3. order'[t][s] = "spoiled" => s \in late'
  BY <1>1, NoneAssumption DEF SetterInv, BufferInv, OrderInv, Pending, MidCopy
<1>4. order'[t][s] # "spoiled" => active'[t][s] \in current'[s]
  BY <1>1, <1>2 DEF BufferInv, OrderInv
<1>5. \A q \in Slots : active'[t][q] \in past'[q]
  BY DEF BufferInv, OrderInv
<1>6. QED
  BY <1>3, <1>4, <1>5

\* current and late only grow while a run is under way.
LEMMA Growth ==
  ASSUME TypeOK, [Next]_vars
  PROVE  /\ \A q \in Slots : past[q] \subseteq past'[q]
         /\ UnderWay => /\ late \subseteq late'
                        /\ \A q \in Slots : current[q] \subseteq current'[q]
         /\ worker = "done" /\ worker' = "done" => UNCHANGED current
<1>1. ASSUME NEW s \in Slots, NEW v \in Values(s), BeginSet(s, v)
      PROVE  /\ \A q \in Slots : past[q] \subseteq past'[q]
             /\ UnderWay => /\ late \subseteq late'
                            /\ \A q \in Slots : current[q] \subseteq current'[q]
             /\ worker = "done" /\ worker' = "done" => UNCHANGED current
  BY <1>1 DEF BeginSet, TypeOK, UnderWay
<1>2. CASE Run \/ Deliver
  BY <1>2 DEF Run, Deliver, UnderWay
<1>3. ASSUME NEW t \in Threads, Mine(t)
      PROVE  UNCHANGED historyVars
  BY <1>3 DEF Mine, Test, Hash, Miss, Hit, Store, Stop, historyVars
<1>4. QED
  BY <1>1, <1>2, <1>3
     DEF Next, Work, CopySolver, PublishSolver, Exit, Destroy, ResetFound, ResetExit, Spawn, Join,
         vars, historyVars

LEMMA TryInvStep ==
  ASSUME IInv, SetterInv', BufferInv', [Next]_vars
  PROVE  TryInv'
<1> USE DEF IInv
<1>1. ASSUME UNCHANGED <<thr, astray, active>>, UnderWay \/ ~UnderWay'
      PROVE  TryInv'
  <2>1. \A t \in Threads : thr[t] = "compare" => UnderWay
    BY DEF ThreadInv, UnderWay
  <2>2. /\ UnderWay => late \subseteq late' /\ current["buffer"] \subseteq current'["buffer"]
    BY Growth DEF Slots
  <2>3. QED
    BY <1>1, <2>1, <2>2 DEF TryInv
<1>2. ASSUME NEW s \in Slots, NEW v \in Values(s), BeginSet(s, v)
      PROVE  TryInv'
  BY <1>1, <1>2 DEF BeginSet, bufferVars, workerVars, threadVars, UnderWay
<1>3. CASE CopySolver \/ PublishSolver \/ Deliver \/ Exit \/ Destroy
  BY <1>1, <1>3 DEF CopySolver, PublishSolver, Deliver, Exit, Destroy, bufferVars, workerVars,
                    threadVars, UnderWay
<1>4. CASE Run
  <2>1. \A t \in Threads : thr[t] = "off"
    BY <1>4 DEF Run, ThreadInv
  <2>2. QED
    BY <1>4, <2>1 DEF Run, TryInv, threadVars
<1>5. CASE ResetFound \/ ResetExit \/ Join
  BY <1>1, <1>5 DEF ResetFound, ResetExit, Join, bufferVars, threadVars, UnderWay
<1>6. CASE Spawn
  <2>1. /\ index \in Threads /\ thr[index] # "compare" /\ thr' = [thr EXCEPT ![index] = "test"]
        /\ UNCHANGED <<astray, active, current, late>> /\ UnderWay
    <3>1. index \in Threads /\ index >= index
      <4>1. index \in Threads
        BY DEF TypeOK
      <4>2. index \in Nat
        BY <4>1, ThreadsFacts
      <4>3. QED
        BY <4>1, <4>2
    <3>2. thr[index] = "off"
      BY <1>6, <3>1 DEF Spawn, ThreadInv
    <3>3. QED
      BY <1>6, <3>1, <3>2 DEF Spawn, UnderWay, bufferVars, historyVars
  <2>2. QED
    BY <2>1 DEF TryInv, TypeOK
<1>7. ASSUME NEW t \in Threads, Mine(t)
      PROVE  TryInv'
  <2>1. /\ UnderWay /\ UnderWay' /\ UNCHANGED <<current, late>>
        /\ \A u \in Threads \ {t} : thr'[u] = thr[u] /\ astray'[u] = astray[u]
    BY <1>7, MineFacts
  <2>2. CASE Test(t) \/ Store(t) \/ Stop(t)
    BY <2>1, <2>2 DEF Test, Store, Stop, TryInv, TypeOK, bufferVars
  <2>3. CASE Hash(t)
    <3>1. /\ Take(t, "buffer") /\ thr[t] = "hash" /\ thr'[t] = "compare"
          /\ astray'[t] = IF order'[t]["buffer"] = "spoiled" THEN astray[t] \cup {"buffer"} ELSE astray[t]
      BY <2>3 DEF Hash, Astray, TypeOK
    <3>2. /\ order'[t]["buffer"] # "spoiled" => active'[t]["buffer"] \in current'["buffer"]
          /\ order'[t]["buffer"] = "spoiled" => "buffer" \in late'
      BY <1>7, <3>1, TakenIsCurrent DEF Slots
    <3>3. \A u \in Threads \ {t} : active'[u]["buffer"] = active[u]["buffer"]
      BY <3>1, TakeFacts DEF Slots
    <3>4. QED
      BY <2>1, <3>1, <3>2, <3>3 DEF TryInv
  <2>4. CASE Miss(t) \/ Hit(t)
    <3>1. Take(t, "target") /\ thr'[t] # "compare" /\ astray'[t] = {}
      BY <2>4 DEF Miss, Hit, TypeOK
    <3>2. \A u \in Threads \ {t} : active'[u]["buffer"] = active[u]["buffer"]
      BY <3>1, TakeFacts DEF Slots
    <3>3. QED
      BY <2>1, <3>1, <3>2 DEF TryInv
  <2>5. QED
    BY <1>7, <2>2, <2>3, <2>4 DEF Mine
<1>8. CASE UNCHANGED vars
  BY <1>1, <1>8 DEF vars, bufferVars, workerVars, threadVars, UnderWay
<1>9. QED
  BY <1>2, <1>3, <1>4, <1>5, <1>6, <1>7, <1>8 DEF Next, Work

\* What is a solution of this run stays one.
LEMMA StaysOwn ==
  ASSUME TypeOK, [Next]_vars, NEW x, Own(x), UnderWay \/ (worker = "done" /\ worker' = "done")
  PROVE  Own(x)'
  BY Growth DEF Own

LEMMA FoundInvStep ==
  ASSUME IInv, SetterInv', BufferInv', [Next]_vars
  PROVE  FoundInv'
<1> USE DEF IInv
<1>1. ASSUME UNCHANGED <<host, worker, index, thr, candidate, m_solution, m_bSolutionFound, m_bExit>>
      PROVE  FoundInv'
  <2>1. \A t \in Threads : thr[t] = "found" => UnderWay
    BY DEF ThreadInv, UnderWay
  <2>2. worker \in {"spawn", "join"} => UnderWay
    BY DEF UnderWay
  <2>3. \A t \in Threads : thr[t] = "found" => Own(candidate[t])' /\ candidate[t].astray \subseteq late'
    BY <1>1, <2>1, StaysOwn, Growth DEF FoundInv, Own
  <2>4. worker \in {"spawn", "join", "done"} /\ m_bSolutionFound => Own(m_solution)'
    BY <1>1, <2>2, StaysOwn DEF FoundInv, Own
  <2>5. worker \in {"spawn", "join"} /\ m_bSolutionFound => m_solution.astray \subseteq late'
    BY <2>2, Growth DEF FoundInv
  <2>6. QED
    BY <1>1, <2>3, <2>4, <2>5 DEF FoundInv, Own
<1>2. ASSUME NEW s \in Slots, NEW v \in Values(s), BeginSet(s, v)
      PROVE  FoundInv'
  BY <1>1, <1>2 DEF BeginSet, workerVars, threadVars, foundVars
<1>3. CASE CopySolver \/ PublishSolver
  BY <1>1, <1>3 DEF CopySolver, PublishSolver, workerVars, threadVars, foundVars
<1>4. CASE Run \/ Deliver
  BY <1>4 DEF Run, Deliver, FoundInv, ThreadInv, threadVars, foundVars
<1>5. CASE Exit \/ Destroy
  BY <1>5 DEF Exit, Destroy, Free, FoundInv, Own, workerVars, threadVars, foundVars, historyVars
<1>6. CASE ResetFound
  BY <1>6 DEF ResetFound, FoundInv, ThreadInv, threadVars
<1>7. CASE ResetExit
  <2>1. \A t \in Threads : thr[t] = "off" /\ ~(t < 1)
    BY <1>7, ThreadsFacts DEF ResetExit, ThreadInv
  <2>2. QED
    BY <1>7, <2>1 DEF ResetExit, FoundInv, threadVars, foundVars
<1>8. CASE Spawn
  <2>1. /\ index \in Threads
        /\ worker = "spawn" /\ worker' \in {"spawn", "join"}
        /\ thr' = [thr EXCEPT ![index] = "test"]
        /\ UNCHANGED <<host, m_bExit, m_bSolutionFound, m_solution, candidate, current, past, late>>
    BY <1>8 DEF Spawn, TypeOK, foundVars, historyVars
  <2>2. ASSUME NEW t \in Threads, t # index,
               worker' = "join" \/ (worker' = "spawn" /\ t < index')
        PROVE  t < index
    BY <1>8, <2>1, <2>2, ThreadsFacts DEF Spawn
  <2>3. QED
    BY <2>1, <2>2 DEF FoundInv, Own, TypeOK
<1>9. CASE Join
  <2>1. /\ index \in Threads
        /\ worker = "join" /\ worker' \in {"join", "done"} /\ thr[index] = "off"
        /\ UNCHANGED <<host, thr, candidate, m_bExit, m_bSolutionFound, m_solution, current, past, late>>
    BY <1>9 DEF Join, TypeOK, foundVars, threadVars, historyVars
  <2>2. host = "up" => m_bSolutionFound
    BY <2>1 DEF FoundInv
  <2>3. QED
    BY <2>1, <2>2 DEF FoundInv, Own
<1>10. ASSUME NEW t \in Threads, Mine(t)
       PROVE  FoundInv'
  <2>1. /\ worker \in {"spawn", "join"}
        /\ UNCHANGED <<host, worker, index, current, past, late>>
        /\ \A u \in Threads \ {t} : thr'[u] = thr[u] /\ candidate'[u] = candidate[u]
    BY <1>10, MineFacts
  <2>2. CASE Test(t)
    BY <2>1, <2>2 DEF Test, FoundInv, Own, TypeOK, foundVars
  <2>3. CASE Hash(t) \/ Miss(t)
    <3>1. /\ thr'[t] \notin {"found", "stop", "off"}
          /\ UNCHANGED <<candidate, m_solution, m_bSolutionFound, m_bExit>>
      BY <2>3 DEF Hash, Miss, TypeOK, foundVars
    <3>2. QED
      BY <2>1, <3>1 DEF FoundInv, Own
  <2>4. CASE Hit(t)
    <3> DEFINE x == candidate'[t]
    <3>1. /\ Take(t, "target") /\ thr[t] = "compare" /\ thr'[t] = "found"
          /\ UNCHANGED <<m_solution, m_bSolutionFound, m_bExit>>
      BY <2>4 DEF Hit, TypeOK, foundVars
    <3>2. x \in Solutions /\ x.of = active'[t] /\ x.astray = Astray(t, "target")
      <4>1. PICK n \in Nonces :
              candidate' = [candidate EXCEPT
                  ![t] = [nonce |-> n, of |-> active'[t], astray |-> Astray(t, "target")]]
        BY <2>4 DEF Hit
      <4>2. x = [nonce |-> n, of |-> active'[t], astray |-> Astray(t, "target")]
        BY <4>1 DEF TypeOK
      <4>3. Astray(t, "target") \subseteq Slots
        BY DEF Astray, TypeOK, Slots
      <4>4. active'[t] \in Jobs
        BY <3>1, TakeFacts DEF Slots
      <4>5. QED
        BY <4>2, <4>3, <4>4 DEF Solutions
    <3>3. /\ order'[t]["target"] # "spoiled" => active'[t]["target"] \in current'["target"]
          /\ order'[t]["target"] = "spoiled" => "target" \in late'
          /\ \A q \in Slots : active'[t][q] \in past'[q]
      BY <1>10, <3>1, TakenIsCurrent DEF Slots
    <3>4. x.astray \subseteq late
      BY <2>1, <3>2, <3>3 DEF Astray, TryInv, UnderWay
    <3>5. "buffer" \notin x.astray => active'[t]["buffer"] \in current["buffer"]
      <4>1. active'[t]["buffer"] = active[t]["buffer"]
        BY <3>1, TakeFacts DEF Slots
      <4>2. QED
        BY <3>1, <3>2, <4>1 DEF Astray, TryInv
    <3>6. "target" \notin x.astray => active'[t]["target"] \in current["target"]
      BY <2>1, <3>2, <3>3 DEF Astray
    <3>7. Own(x)
      BY <2>1, <3>2, <3>3, <3>5, <3>6 DEF Own, Slots
    <3>8. \A u \in Threads : thr'[u] = "found" => Own(candidate'[u]) /\ candidate'[u].astray \subseteq late
      BY <2>1, <3>4, <3>7 DEF FoundInv
    <3>9. QED
      BY <2>1, <3>1, <3>8 DEF FoundInv, Own
  <2>5. CASE Store(t)
    <3>1. /\ thr[t] = "found" /\ thr'[t] = "stop" /\ m_solution' = candidate[t]
          /\ m_bSolutionFound' = TRUE /\ m_bExit' = m_bExit
      BY <2>5 DEF Store, TypeOK
    <3>2. Own(m_solution)' /\ m_solution'.astray \subseteq late'
      BY <2>1, <3>1 DEF FoundInv, Own
    <3>3. QED
      BY <2>1, <3>1, <3>2 DEF FoundInv, Own
  <2>6. CASE Stop(t)
    BY <2>1, <2>6 DEF Stop, FoundInv, Own, TypeOK, foundVars
  <2>7. QED
    BY <1>10, <2>2, <2>3, <2>4, <2>5, <2>6 DEF Mine
<1>11. CASE UNCHANGED vars
  BY <1>1, <1>11 DEF vars, workerVars, threadVars, foundVars
<1>12. QED
  BY <1>2, <1>3, <1>4, <1>5, <1>6, <1>7, <1>8, <1>9, <1>10, <1>11 DEF Next, Work

LEMMA InductiveStep == IInv /\ [Next]_vars => IInv'
  BY TypeStep, ThreadInvStep, SetterInvStep, BufferInvStep, TryInvStep, FoundInvStep DEF IInv

LEMMA Inductive == Spec => []IInv
<1>1. Init => IInv
  BY TypeInit, InvInit DEF IInv
<1>2. QED
  BY <1>1, InductiveStep, PTL DEF Spec

\* The join loop of run does its work: outside spawning and joining, no mining
\* thread exists, so solution() and the next run meet no other thread.
THEOREM NoThreadOutlives == Spec => []NoThreadOutlivesItsRun
<1>1. IInv => NoThreadOutlivesItsRun
  BY DEF IInv, ThreadInv, NoThreadOutlivesItsRun
<1>2. QED
  BY <1>1, Inductive, PTL

\* A run that ends while the process is up has a solution of its own, whatever came
\* before it, for values that were current during it, or that a swap between a copy and
\* its flag brought back.
THEOREM OwnHit == Spec => []RunEndsWithItsOwnHit
<1>1. IInv => RunEndsWithItsOwnHit
  BY NoneAssumption DEF IInv, FoundInv, Own, RunEndsWithItsOwnHit
<1>2. QED
  BY <1>1, Inductive, PTL

-----------------------------------------------------------------------------

LEMMA PromiseInit == Init => Promise!Init
<1> SUFFICES ASSUME Init
             PROVE  Promise!Init
  OBVIOUS
<1>1. job \in Promise!Jobs
  BY ZeroAssumption DEF Init, Job, Slots, Promise!Jobs, Promise!Job, Promise!Slots
<1>2. QED
  BY <1>1 DEF Init, Slots, Promise!Init, Promise!Slots, runPhase, runOutcome

\* At the end of a run m_solution is what the promise allows: of a slot that was last set
\* without a run under way nothing is astray, and it has had one value.
LEMMA EndsAsPromised ==
  ASSUME IInv, UnderWay, Own(m_solution), m_solution.astray \subseteq late
  PROVE  /\ m_solution.nonce \in Nonces
         /\ m_solution.of["buffer"] \in Works /\ m_solution.of["target"] \in Levels
         /\ m_solution.of["buffer"] \in Promise!Possible("buffer")
         /\ m_solution.of["target"] \in Promise!Possible("target")
<1>1. ASSUME NEW s \in Slots
      PROVE  m_solution.of[s] \in Values(s) /\ m_solution.of[s] \in Promise!Possible(s)
  <2>1. m_solution.of \in Jobs
    BY DEF Own, Solutions
  <2>2. s \in late => m_solution.of[s] \in past[s]
    BY DEF Own
  <2>3. s \notin late => m_solution.of[s] \in {job[s]}
    BY DEF Own, IInv, SetterInv
  <2>4. QED
    BY <2>1, <2>2, <2>3, JobFacts DEF Promise!Possible
<1>2. m_solution.nonce \in Nonces
  BY DEF Own, Solutions
<1>3. QED
  BY <1>1, <1>2 DEF Slots, Values

\* Each step of the threads is a step of the promise or hidden by it.
LEMMA PromiseStep == IInv /\ [Next]_vars => [Promise!Next]_(Promise!vars)
<1> SUFFICES ASSUME IInv, [Next]_vars
             PROVE  [Promise!Next]_(Promise!vars)
  OBVIOUS
<1> USE DEF runPhase, runOutcome
<1>1. ASSUME NEW s \in Slots, NEW v \in Values(s), BeginSet(s, v)
      PROVE  Promise!Next
  <2>1. Promise!Set(s, v)
    <3>1. UNCHANGED <<runPhase, runOutcome>>
      BY <1>1 DEF BeginSet, workerVars, foundVars
    <3>2. runPhase # "halted" /\ (UnderWay <=> runPhase = "running")
      BY <1>1 DEF BeginSet, Free, UnderWay, IInv, TypeOK
    <3>3. QED
      BY <1>1, <3>1, <3>2 DEF BeginSet, Promise!Set
  <2>2. s \in Promise!Slots /\ v \in Promise!Values(s)
    BY DEF Slots, Values, Promise!Slots, Promise!Values
  <2>3. QED
    BY <2>1, <2>2 DEF Promise!Next
<1>2. CASE CopySolver \/ PublishSolver \/ ResetFound \/ ResetExit \/ Spawn
  BY <1>2 DEF CopySolver, PublishSolver, ResetFound, ResetExit, Spawn, Promise!vars, workerVars,
              foundVars, setterVars, historyVars
<1>3. CASE Run
  BY <1>3 DEF Run, Free, Promise!Start, Promise!Next, setterVars, foundVars
<1>4. CASE Deliver
  BY <1>4 DEF Deliver, Free, Promise!Deliver, Promise!Next, setterVars, foundVars
<1>5. CASE Exit
  BY <1>5 DEF Exit, Free, Promise!Halt, Promise!Next, setterVars, workerVars, foundVars, historyVars
<1>6. CASE Destroy
  BY <1>6 DEF Destroy, Promise!vars, setterVars, workerVars, foundVars, historyVars
<1>7. CASE Join
  <2>1. UNCHANGED <<host, job, past, late, m_solution, m_bSolutionFound>> /\ worker = "join"
    BY <1>7 DEF Join, setterVars, foundVars, historyVars
  <2>2. CASE host = "up" /\ worker' = "done"
    <3>1. m_bSolutionFound
      <4>1. index \in Threads /\ worker = "join" /\ thr[index] = "off"
        BY <1>7 DEF Join, IInv, TypeOK
      <4>2. QED
        BY <2>2, <4>1 DEF IInv, FoundInv
    <3>2. Own(m_solution) /\ m_solution.astray \subseteq late /\ UnderWay
      BY <2>1, <3>1 DEF IInv, FoundInv, UnderWay
    <3> DEFINE n == m_solution.nonce
               w == m_solution.of["buffer"]
               l == m_solution.of["target"]
    <3>3. /\ n \in Nonces /\ w \in Works /\ l \in Levels
          /\ w \in Promise!Possible("buffer") /\ l \in Promise!Possible("target")
      BY <3>2, EndsAsPromised
    <3>4. Promise!End(n, w, l)
      <4>1. runPhase = "running" /\ runPhase' = "ended"
        BY <2>1, <2>2
      <4>2. runOutcome' = [nonce |-> n, hashed |-> w, met |-> l]
        BY <2>1, <2>2, <3>1
      <4>3. QED
        BY <2>1, <3>3, <4>1, <4>2 DEF Promise!End
    <3>5. QED
      BY <3>3, <3>4 DEF Promise!Next
  <2>3. CASE ~(host = "up" /\ worker' = "done")
    <3>1. UNCHANGED <<runPhase, runOutcome>>
      BY <1>7, <2>1, <2>3 DEF Join
    <3>2. QED
      BY <2>1, <3>1 DEF Promise!vars
  <2>4. QED
    BY <2>2, <2>3
<1>8. ASSUME NEW t \in Threads, Mine(t)
      PROVE  UNCHANGED Promise!vars
  <2>1. worker \in {"spawn", "join"} /\ UNCHANGED <<host, worker, job, past, late>>
    BY <1>8, MineFacts DEF IInv
  <2>2. QED
    BY <2>1 DEF Promise!vars
<1>9. CASE UNCHANGED vars
  BY <1>9 DEF vars, setterVars, workerVars, foundVars, historyVars, Promise!vars
<1>10. QED
  BY <1>1, <1>2, <1>3, <1>4, <1>5, <1>6, <1>7, <1>8, <1>9 DEF Next, Work

\* With any number of threads the miner implements what MiningRun promises the
\* JavaScript session.
THEOREM Implements == Spec => ImplementsMiningRun
<1>1. QED
  BY PromiseInit, PromiseStep, Inductive, PTL DEF Spec, ImplementsMiningRun, Promise!Spec
=============================================================================

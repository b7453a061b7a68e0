------------------------ MODULE MiningSessionProofs -------------------------
(***************************************************************************)
(* Proofs about MiningSession for both styles, any number of challenges,   *)
(* any targets and nonces, any faults and any digest function.             *)
(***************************************************************************)
EXTENDS MiningSession, TLAPS

\* Solo style asks nobody for an address, and has read a target of the contract by
\* the time it asks for the challenge.
ReadInv ==
    MiningStyle = "solo" =>
        /\ loop # "address"
        /\ loop = "challenge" => read.target \in Targets

\* A run captures complete parameters, and ends with a solution; a turn that is not
\* rejected sets the challenge and the target.
ClosureInv ==
    /\ mining => /\ challengeNumber # Unset
                 /\ closure \in [challenge : Challenges, target : Targets]
    /\ challengeNumber = Unset => miningTarget = Unset
    /\ phase = "ended" => outcome \in Solutions

\* The session never runs ahead of the contract, nor a run ahead of the session.
OrderInv ==
    MiningStyle = "solo" =>
        closure.challenge <= challengeNumber /\ challengeNumber <= source.challenge

\* In an undisturbed run the solvers hold nothing but what the callback has captured,
\* and so whatever they find passes the verification.
RunInv ==
    mining /\ ~disturbed =>
        /\ closure = [challenge |-> challengeNumber, target |-> miningTarget]
        /\ late = {}
        /\ phase = "ended" => Verified(outcome.nonce)

IInv ==
    /\ TypeOK /\ ReadInv /\ ClosureInv /\ OrderInv /\ RunInv
    /\ SolversFollowSession /\ RestsOnlyWhenSolved

\* What a complete turn of the loop has collected.
Collected(p) ==
    /\ p \in [challenge : Challenges \cup {Unset}, target : Targets, address : BOOLEAN]
    /\ MiningStyle = "solo" => p.challenge = source.challenge

\* What the solvers hold after it.
For(p) == Addon!Job([challenge |-> p.challenge, address |-> HashingAddress], p.target)

-----------------------------------------------------------------------------

LEMMA UnsetFacts ==
  /\ Unset \notin Challenges /\ Unset \notin Targets /\ Unset \in Nat
  /\ Challenges \subseteq Nat /\ Targets \subseteq Nat
  BY BoundAssumption, TargetsAssumption DEF Challenges, Unset

\* A job is a value for each slot, and setting a slot replaces it.
LEMMA SlotFacts ==
  /\ Addon!Slots = {"buffer", "target"}
  /\ \A j \in Addon!Jobs : \E w \in Works, l \in Levels : j = Addon!Job(w, l)
  /\ \A w \in Works, l \in Levels : Addon!Job(w, l) \in Addon!Jobs
  /\ \A w, l : Addon!Job(w, l)["buffer"] = w /\ Addon!Job(w, l)["target"] = l
  /\ \A w, l, x : /\ [Addon!Job(w, l) EXCEPT !["buffer"] = x] = Addon!Job(x, l)
                  /\ [Addon!Job(w, l) EXCEPT !["target"] = x] = Addon!Job(w, x)
<1>1. Addon!Slots = {"buffer", "target"}
  BY DEF Addon!Slots
<1>2. \A j \in Addon!Jobs : \E w \in Works, l \in Levels : j = Addon!Job(w, l)
  BY DEF Addon!Jobs
<1>3. \A w \in Works, l \in Levels : Addon!Job(w, l) \in Addon!Jobs
  BY DEF Addon!Jobs
<1>4. \A w, l : Addon!Job(w, l)["buffer"] = w /\ Addon!Job(w, l)["target"] = l
  BY DEF Addon!Slots, Addon!Job
<1>5. ASSUME NEW w, NEW l, NEW x
      PROVE  /\ [Addon!Job(w, l) EXCEPT !["buffer"] = x] = Addon!Job(x, l)
             /\ [Addon!Job(w, l) EXCEPT !["target"] = x] = Addon!Job(w, x)
  BY DEF Addon!Slots, Addon!Job
<1>6. QED
  BY <1>1, <1>2, <1>3, <1>4, <1>5

LEMMA InvInit == Init => IInv
<1> SUFFICES ASSUME Init
             PROVE  IInv
  OBVIOUS
<1>1. 1 \in Challenges
  BY BoundAssumption DEF Challenges
<1>2. TypeOK
  <2> DEFINE w == [challenge |-> Unset, address |-> "zero"]
  <2>1. w \in Works /\ Unset \in Levels
    BY DEF Works, Levels
  <2>2. job \in Addon!Jobs /\ job["buffer"] = w /\ job["target"] = Unset
    BY <2>1, SlotFacts DEF Init
  <2>3. past["buffer"] = {w} /\ past["target"] = {Unset}
    BY <2>2, SlotFacts DEF Init
  <2>4. QED
    BY <1>1, <2>1, <2>2, <2>3 DEF Init, TypeOK
<1>3. OrderInv
  BY <1>1 DEF Init, OrderInv, Unset
<1>4. QED
  BY <1>2, <1>3 DEF Init, IInv, ReadInv, ClosureInv, RunInv, SolversFollowSession,
                    RestsOnlyWhenSolved

\* What the setters make of the job: it does not matter which of them are called.
LEMMA JobFacts ==
  ASSUME IInv, NEW p, Collected(p), ~Rejected(p)
  PROVE  /\ AfterAddress(p) = For(p)
         /\ challengeNumber # Unset => AfterTarget(p) = For(p)
         /\ {AfterChallenge(p), AfterTarget(p), AfterAddress(p)} \subseteq Addon!Jobs
<1>1. PICK c \in Challenges \cup {Unset}, a \in {"zero", HashingAddress}, l \in Levels :
        job = Addon!Job([challenge |-> c, address |-> a], l)
  <2>1. job \in Addon!Jobs
    BY DEF IInv, TypeOK
  <2>2. PICK w \in Works, l \in Levels : job = Addon!Job(w, l)
    BY <2>1, SlotFacts
  <2>3. w = [challenge |-> w.challenge, address |-> w.address]
    BY DEF Works
  <2>4. QED
    BY <2>2, <2>3 DEF Works
<1>2. p.challenge \in Challenges /\ p.target \in Targets
  BY DEF Collected, Rejected
<1>3. challengeNumber # Unset => c = challengeNumber /\ a = HashingAddress /\ l = miningTarget
  <2>1. job["buffer"] = [challenge |-> c, address |-> a] /\ job["target"] = l
    BY <1>1, SlotFacts
  <2> SUFFICES ASSUME challengeNumber # Unset
               PROVE  c = challengeNumber /\ a = HashingAddress /\ l = miningTarget
    OBVIOUS
  <2>2. /\ job["buffer"] = [challenge |-> challengeNumber, address |-> HashingAddress]
        /\ job["target"] = miningTarget
    BY SlotFacts DEF IInv, SolversFollowSession
  <2>3. QED
    BY <2>1, <2>2
<1>4. AfterChallenge(p) = Addon!Job([challenge |-> p.challenge, address |-> a], l)
  <2>1. CASE Resumes(p)
    <3>1. AfterChallenge(p) = [job EXCEPT !["buffer"] = [job["buffer"] EXCEPT !.challenge = p.challenge]]
      BY <2>1 DEF AfterChallenge
    <3>2. [job["buffer"] EXCEPT !.challenge = p.challenge] = [challenge |-> p.challenge, address |-> a]
      <4>1. job["buffer"] = [challenge |-> c, address |-> a]
        BY <1>1, SlotFacts
      <4>2. QED
        BY <4>1
    <3>3. QED
      BY <1>1, <3>1, <3>2, SlotFacts
  <2>2. CASE ~Resumes(p)
    <3>1. p.challenge = challengeNumber /\ challengeNumber # Unset
      BY <1>2, <2>2, UnsetFacts DEF Resumes
    <3>2. QED
      BY <1>1, <1>3, <2>2, <3>1 DEF AfterChallenge
  <2>3. QED
    BY <2>1, <2>2
<1>5. AfterTarget(p) = Addon!Job([challenge |-> p.challenge, address |-> a], p.target)
  <2>1. CASE Retargets(p)
    BY <1>4, <2>1, SlotFacts DEF AfterTarget
  <2>2. CASE ~Retargets(p)
    <3>1. p.target = miningTarget /\ challengeNumber # Unset
      BY <1>2, <2>2, UnsetFacts DEF Retargets, IInv, ClosureInv
    <3>2. QED
      BY <1>3, <1>4, <2>2, <3>1 DEF AfterTarget
  <2>3. QED
    BY <2>1, <2>2
<1>6. AfterAddress(p) = For(p)
  <2> DEFINE w == [challenge |-> p.challenge, address |-> a]
             x == [challenge |-> p.challenge, address |-> HashingAddress]
  <2>1. AfterTarget(p)["buffer"] = w
    BY <1>5, SlotFacts
  <2>2. AfterAddress(p) = [AfterTarget(p) EXCEPT !["buffer"] = [w EXCEPT !.address = HashingAddress]]
    BY <2>1 DEF AfterAddress
  <2>3. [w EXCEPT !.address = HashingAddress] = x
    OBVIOUS
  <2>4. AfterAddress(p) = [AfterTarget(p) EXCEPT !["buffer"] = x]
    BY <2>2, <2>3
  <2>5. AfterAddress(p) = [Addon!Job(w, p.target) EXCEPT !["buffer"] = x]
    BY <1>5, <2>4
  <2>6. [Addon!Job(w, p.target) EXCEPT !["buffer"] = x] = Addon!Job(x, p.target)
    BY DEF Addon!Slots, Addon!Job
  <2>7. QED
    BY <2>5, <2>6 DEF For
<1>7. {AfterChallenge(p), AfterTarget(p), AfterAddress(p)} \subseteq Addon!Jobs
  <2>1. /\ [challenge |-> p.challenge, address |-> a] \in Works
        /\ [challenge |-> p.challenge, address |-> HashingAddress] \in Works
        /\ p.target \in Levels
    BY <1>2 DEF Works, Levels
  <2>2. \A w \in Works, m \in Levels : Addon!Job(w, m) \in Addon!Jobs
    BY SlotFacts
  <2>3. AfterChallenge(p) \in Addon!Jobs /\ AfterTarget(p) \in Addon!Jobs
    BY <1>4, <1>5, <2>1, <2>2
  <2>4. AfterAddress(p) \in Addon!Jobs
    BY <1>6, <2>1, <2>2 DEF For
  <2>5. QED
    BY <2>3, <2>4
<1>8. QED
  BY <1>3, <1>5, <1>6, <1>7 DEF For

\* The setters give values of the slots.
LEMMA PastFacts ==
  ASSUME IInv, NEW p, Collected(p), ~Rejected(p), Refresh(p)
  PROVE  /\ past'["buffer"] \subseteq Works /\ past'["target"] \subseteq Levels
         /\ job' \in Addon!Jobs
<1>1. job' \in Addon!Jobs /\ AfterChallenge(p) \in Addon!Jobs
  BY JobFacts DEF Refresh
<1>2. \A j \in Addon!Jobs : j["buffer"] \in Works /\ j["target"] \in Levels
  BY SlotFacts
<1>3. /\ past'["buffer"] = past["buffer"] \cup {AfterChallenge(p)["buffer"], job'["buffer"]}
      /\ past'["target"] = past["target"] \cup {AfterChallenge(p)["target"], job'["target"]}
  BY SlotFacts DEF Refresh
<1>4. past["buffer"] \subseteq Works /\ past["target"] \subseteq Levels
  BY DEF IInv, TypeOK
<1>5. QED
  BY <1>1, <1>2, <1>3, <1>4

\* A turn that starts a run.
LEMMA StartStep ==
  ASSUME IInv, NEW p, Collected(p), ~Rejected(p), Starts(p), Complete(p)
  PROVE  IInv'
<1>1. /\ loop' = "timer" /\ source' = source
      /\ read' = [challenge |-> Unset, target |-> Unset, address |-> TRUE]
      /\ challengeNumber' = p.challenge /\ miningTarget' = p.target
      /\ mining' = TRUE /\ phase' = "running"
      /\ closure' = [challenge |-> p.challenge, target |-> p.target]
      /\ job' = AfterAddress(p)
      /\ late' = late \ (Called(p) \cup {"buffer"})
      /\ disturbed' = (late' # {})
      /\ UNCHANGED <<handed, aborted, outcome>>
  BY DEF Complete, Refresh
<1>2. p.challenge \in Challenges /\ p.target \in Targets
  BY DEF Collected, Rejected
<1>3. TypeOK'
  <2>1. /\ past'["buffer"] \subseteq Works /\ past'["target"] \subseteq Levels
        /\ job' \in Addon!Jobs
    BY PastFacts DEF Complete
  <2>2. disturbed' \in BOOLEAN /\ late' \subseteq Addon!Slots
    BY <1>1 DEF IInv, TypeOK
  <2>3. QED
    BY <1>1, <1>2, <2>1, <2>2 DEF IInv, TypeOK
<1>4. ReadInv' /\ ClosureInv'
  BY <1>1, <1>2, UnsetFacts DEF ReadInv, ClosureInv
<1>5. OrderInv'
  BY <1>1, <1>2, UnsetFacts DEF OrderInv, Collected
<1>6. RunInv' /\ RestsOnlyWhenSolved'
  BY <1>1 DEF RunInv, RestsOnlyWhenSolved
<1>7. SolversFollowSession'
  BY <1>1, JobFacts DEF SolversFollowSession, For
<1>8. QED
  BY <1>3, <1>4, <1>5, <1>6, <1>7 DEF IInv

\* A turn that starts none.
LEMMA GoOnStep ==
  ASSUME IInv, NEW p, Collected(p), ~Rejected(p), ~Starts(p), Complete(p)
  PROVE  IInv'
<1>1. /\ loop' = "timer" /\ source' = source
      /\ read' = [challenge |-> Unset, target |-> Unset, address |-> TRUE]
      /\ challengeNumber' = p.challenge /\ miningTarget' = p.target
      /\ job' = AfterTarget(p)
      /\ late' = IF phase = "running" THEN late \cup Called(p) ELSE late \ Called(p)
      /\ disturbed' = (disturbed \/ (mining /\ Called(p) # {}))
      /\ UNCHANGED <<mining, closure, phase, handed, aborted, outcome>>
  BY DEF Complete, Refresh
<1>2. p.challenge \in Challenges /\ p.target \in Targets
  BY DEF Collected, Rejected
<1>3. challengeNumber # Unset
  BY <1>2, UnsetFacts DEF IInv, ClosureInv, Starts, Resumes
<1>4. job' = For(p)
  BY <1>1, <1>3, JobFacts
<1>5. TypeOK'
  <2>1. /\ past'["buffer"] \subseteq Works /\ past'["target"] \subseteq Levels
        /\ job' \in Addon!Jobs
    BY PastFacts DEF Complete
  <2>2. disturbed' \in BOOLEAN
    BY <1>1
  <2>3. late' \subseteq Addon!Slots
    BY <1>1 DEF IInv, TypeOK, Called
  <2>4. QED
    BY <1>1, <1>2, <2>1, <2>2, <2>3 DEF IInv, TypeOK
<1>6. ReadInv' /\ ClosureInv'
  BY <1>1, <1>2, UnsetFacts DEF IInv, ReadInv, ClosureInv
<1>7. OrderInv'
  <2>1. challengeNumber \in Nat /\ closure.challenge \in Nat /\ source.challenge \in Nat
    BY UnsetFacts DEF IInv, TypeOK
  <2>2. QED
    BY <1>1, <2>1, UnsetFacts DEF IInv, OrderInv, Collected
<1>8. RunInv'
  <2> SUFFICES ASSUME mining, ~disturbed, Called(p) = {}
               PROVE  RunInv'
    BY <1>1 DEF RunInv
  <2>1. ~Resumes(p) /\ ~Retargets(p)
    BY SlotFacts DEF Called
  <2>2. challengeNumber' = challengeNumber /\ miningTarget' = miningTarget
    BY <1>1, <2>1 DEF Resumes, Retargets
  <2>3. late' = late
    BY <1>1
  <2>4. QED
    BY <1>1, <2>2, <2>3 DEF IInv, RunInv, Verified
<1>9. SolversFollowSession'
  BY <1>1, <1>4 DEF IInv, SolversFollowSession, For
<1>10. RestsOnlyWhenSolved'
  <2>1. ~mining => challengeNumber = p.challenge
    BY DEF Starts, Resumes
  <2>2. QED
    BY <1>1, <1>3, <2>1 DEF IInv, RestsOnlyWhenSolved
<1>11. QED
  BY <1>5, <1>6, <1>7, <1>8, <1>9, <1>10 DEF IInv

LEMMA CompleteStep ==
  ASSUME IInv, NEW p, Collected(p), Complete(p)
  PROVE  IInv'
<1>1. CASE Rejected(p)
  <2>1. /\ loop' = "timer" /\ source' = source /\ aborted' = TRUE
        /\ read' = [challenge |-> Unset, target |-> Unset, address |-> TRUE]
        /\ UNCHANGED <<challengeNumber, miningTarget, mining, closure, handed, disturbed,
                       phase, job, past, late, outcome>>
    BY <1>1 DEF Complete, addonVars
  <2>2. QED
    BY <2>1 DEF IInv, TypeOK, ReadInv, ClosureInv, OrderInv, RunInv, SolversFollowSession,
                RestsOnlyWhenSolved, Verified
<1>2. QED
  BY <1>1, StartStep, GoOnStep

-----------------------------------------------------------------------------

\* The answers that complete a turn carry what the contract or pool has.
LEMMA CollectedFacts ==
  ASSUME IInv
  PROVE  /\ CompleteSolo => /\ Collected([read EXCEPT !.challenge = source.challenge])
                            /\ Complete([read EXCEPT !.challenge = source.challenge])
         /\ CompletePool => /\ Collected([read EXCEPT !.target = source.target])
                            /\ Complete([read EXCEPT !.target = source.target])
<1>1. /\ source \in [challenge : Challenges, target : Targets]
      /\ read \in [challenge : Challenges \cup {Unset}, target : Targets \cup {Unset},
                   address : BOOLEAN]
  BY DEF IInv, TypeOK
<1>2. CompleteSolo => read.target \in Targets
  BY DEF IInv, ReadInv, CompleteSolo
<1>3. CompletePool => MiningStyle # "solo"
  BY DEF CompletePool
<1>4. QED
  BY <1>1, <1>2, <1>3 DEF Collected, CompleteSolo, CompletePool

LEMMA InductiveStep == IInv /\ [Next]_vars => IInv'
<1> SUFFICES ASSUME IInv, [Next]_vars
             PROVE  IInv'
  OBVIOUS
<1> USE DEF IInv
<1>1. ASSUME UNCHANGED <<sessionVars, addonVars>>, TypeOK', ReadInv', OrderInv'
      PROVE  IInv'
  BY <1>1 DEF sessionVars, addonVars, ClosureInv, RunInv, SolversFollowSession,
              RestsOnlyWhenSolved, Verified
<1>2. CASE NewBlock
  <2>1. PICK t \in Targets : source' = [challenge |-> source.challenge + 1, target |-> t]
    BY <1>2 DEF NewBlock
  <2>2. source.challenge + 1 \in Challenges /\ source.challenge \in Nat
    BY <1>2, BoundAssumption DEF NewBlock, TypeOK, Challenges
  <2>3. TypeOK' /\ ReadInv'
    BY <1>2, <2>1, <2>2 DEF NewBlock, TypeOK, ReadInv, sessionVars, addonVars
  <2>4. challengeNumber \in Nat
    BY UnsetFacts DEF TypeOK
  <2>5. OrderInv'
    BY <1>2, <2>1, <2>2, <2>4 DEF NewBlock, OrderInv, sessionVars
  <2>6. QED
    BY <1>1, <1>2, <2>3, <2>5 DEF NewBlock
<1>3. CASE NewShareTarget
  <2>1. TypeOK' /\ ReadInv' /\ OrderInv'
    BY <1>3 DEF NewShareTarget, TypeOK, ReadInv, OrderInv, sessionVars, addonVars
  <2>2. QED
    BY <1>1, <1>3, <2>1 DEF NewShareTarget
<1>4. CASE Wake \/ Reject
  <2>1. TypeOK' /\ ReadInv' /\ OrderInv'
    BY <1>4 DEF Wake, Reject, TypeOK, ReadInv, OrderInv, sessionVars, addonVars
  <2>2. QED
    BY <1>1, <1>4, <2>1 DEF Wake, Reject
<1>5. CASE ReadAddress
  <2>1. PICK present \in BOOLEAN : read' = [read EXCEPT !.address = present]
    BY <1>5 DEF ReadAddress
  <2>2. TypeOK' /\ ReadInv' /\ OrderInv'
    BY <1>5, <2>1 DEF ReadAddress, TypeOK, ReadInv, OrderInv, sessionVars, addonVars
  <2>3. QED
    BY <1>1, <1>5, <2>2 DEF ReadAddress
<1>6. CASE ReadTarget
  <2>1. TypeOK' /\ ReadInv' /\ OrderInv'
    BY <1>6 DEF ReadTarget, TypeOK, ReadInv, OrderInv, sessionVars, addonVars
  <2>2. QED
    BY <1>1, <1>6, <2>1 DEF ReadTarget
<1>7. CASE ReadChallenge
  <2>1. PICK c \in Challenges \cup {Unset} : read' = [read EXCEPT !.challenge = c]
    BY <1>7 DEF ReadChallenge, TypeOK
  <2>2. TypeOK' /\ ReadInv' /\ OrderInv'
    BY <1>7, <2>1 DEF ReadChallenge, TypeOK, ReadInv, OrderInv, sessionVars, addonVars
  <2>3. QED
    BY <1>1, <1>7, <2>2 DEF ReadChallenge
<1>8. CASE CompleteSolo \/ CompletePool
  BY <1>8, CollectedFacts, CompleteStep
<1>9. CASE Find
  <2>1. PICK n \in Nonces, w \in Addon!Possible("buffer"), l \in Addon!Possible("target") :
          Keccak(w.challenge, w.address, n) <= l /\ Addon!End(n, w, l)
    BY <1>9 DEF Find
  <2>2. /\ phase = "running" /\ phase' = "ended" /\ UNCHANGED <<job, past, late>>
        /\ outcome' = [nonce |-> n, hashed |-> w, met |-> l]
    BY <2>1 DEF Addon!End
  <2>3. UNCHANGED <<source, loop, read, sessionVars>>
    BY <1>9 DEF Find
  <2>4. outcome' \in Solutions /\ outcome'.nonce = n
    <3>1. \A j \in Addon!Jobs : j["buffer"] \in Works /\ j["target"] \in Levels
      BY SlotFacts
    <3>2. w \in Works /\ l \in Levels
      BY <3>1 DEF TypeOK, Addon!Possible
    <3>3. QED
      BY <2>2, <3>2 DEF Solutions
  <2>5. TypeOK' /\ ReadInv' /\ OrderInv' /\ ClosureInv'
    BY <2>2, <2>3, <2>4 DEF TypeOK, ReadInv, OrderInv, ClosureInv, sessionVars
  <2>6. RunInv'
    <3> SUFFICES ASSUME mining, ~disturbed
                 PROVE  RunInv'
      BY <2>3 DEF RunInv, sessionVars
    <3>1. /\ w = job["buffer"] /\ l = job["target"] /\ late = {}
          /\ closure = [challenge |-> challengeNumber, target |-> miningTarget]
      BY <2>1 DEF RunInv, Addon!Possible
    <3>2. /\ job["buffer"] = [challenge |-> challengeNumber, address |-> HashingAddress]
          /\ job["target"] = miningTarget
      BY SlotFacts DEF SolversFollowSession, ClosureInv
    <3>3. Keccak(closure.challenge, HashingAddress, n) <= closure.target
      BY <2>1, <3>1, <3>2
    <3>4. QED
      BY <2>2, <2>3, <2>4, <3>1, <3>3 DEF RunInv, Verified, sessionVars
  <2>7. SolversFollowSession' /\ RestsOnlyWhenSolved'
    BY <2>2, <2>3 DEF SolversFollowSession, RestsOnlyWhenSolved, sessionVars
  <2>8. QED
    BY <2>5, <2>6, <2>7
<1>10. CASE Callback
  <2> DEFINE b == [challenge |-> closure.challenge, target |-> closure.target,
                   nonce |-> outcome.nonce]
  <2>1. /\ phase = "ended" /\ phase' = "idle" /\ outcome' = None /\ UNCHANGED <<job, past, late>>
        /\ mining' = FALSE
        /\ UNCHANGED <<source, loop, read, challengeNumber, miningTarget, closure, aborted,
                       disturbed>>
    BY <1>10 DEF Callback, Addon!Deliver
  <2>2. handed' = IF Verified(outcome.nonce) THEN handed \cup {b} ELSE handed
    BY <1>10 DEF Callback
  <2>3. mining /\ closure \in [challenge : Challenges, target : Targets]
    BY <2>1 DEF SolversFollowSession, ClosureInv
  <2>4. b \in Blocks
    BY <2>1, <2>3 DEF ClosureInv, Blocks, Solutions
  <2>5. TypeOK'
    BY <2>1, <2>2, <2>4 DEF TypeOK
  <2>6. ReadInv' /\ OrderInv' /\ ClosureInv' /\ RunInv' /\ SolversFollowSession'
    BY <2>1 DEF ReadInv, OrderInv, ClosureInv, RunInv, SolversFollowSession
  <2>7. RestsOnlyWhenSolved'
    <3> SUFFICES ASSUME ~disturbed
                 PROVE  \E x \in handed' : x.challenge = challengeNumber'
      BY <2>1 DEF RestsOnlyWhenSolved
    <3>1. b \in handed' /\ b.challenge = challengeNumber
      BY <2>1, <2>2, <2>3 DEF RunInv
    <3>2. QED
      BY <2>1, <3>1
  <2>8. QED
    BY <2>5, <2>6, <2>7
<1>11. CASE UNCHANGED vars
  BY <1>11 DEF vars, sessionVars, addonVars, TypeOK, ReadInv, ClosureInv, OrderInv, RunInv,
               SolversFollowSession, RestsOnlyWhenSolved, Verified
<1>12. QED
  BY <1>2, <1>3, <1>4, <1>5, <1>6, <1>7, <1>8, <1>9, <1>10, <1>11 DEF Next, Collect

LEMMA Inductive == Spec => []IInv
  BY InvInit, InductiveStep, PTL DEF Spec

-----------------------------------------------------------------------------

\* Every variable keeps its type, whatever the awaits meet.
THEOREM TypeCorrect == Spec => []TypeOK
  BY Inductive, PTL DEF IInv

\* Whatever the turns of the loop collect, the solvers hold the parameters the
\* session believes they hold, and this.mining says whether a run is under way.
THEOREM SessionFollowed == Spec => []SolversFollowSession
  BY Inductive, PTL DEF IInv

\* In solo style the miner rests only on a challenge it has handed a block for,
\* or after a run whose parameters changed.
THEOREM Rests == Spec => []RestsOnlyWhenSolved
  BY Inductive, PTL DEF IInv

\* What an undisturbed run finds passes the verification of its callback and is handed
\* over: what the session gave the solvers in this turn and in all earlier ones is what
\* the callback has captured.
THEOREM HandedOver == Spec => UndisturbedRunsAreHandedOver
<1> DEFINE b == [challenge |-> closure.challenge, target |-> closure.target,
                 nonce |-> outcome.nonce]
           Handed == phase = "ended" /\ phase' = "idle" /\ ~disturbed => b \in handed'
<1>1. IInv /\ [Next]_vars => [Handed]_vars
  <2> SUFFICES ASSUME IInv, [Next]_vars, phase = "ended", phase' = "idle", ~disturbed
               PROVE  b \in handed'
    OBVIOUS
  <2>1. Callback
    BY DEF Next, Collect, vars, addonVars, NewBlock, NewShareTarget, Wake, ReadAddress,
           ReadTarget, ReadChallenge, Reject, CompleteSolo, CompletePool, Complete, Refresh,
           Find, Addon!End
  <2>2. Verified(outcome.nonce)
    BY DEF IInv, SolversFollowSession, RunInv
  <2>3. QED
    BY <2>1, <2>2 DEF Callback
<1>2. QED
  BY <1>1, Inductive, PTL DEF Spec, UndisturbedRunsAreHandedOver

\* A step that changes what the callback captures is a turn that starts a run.
LEMMA StartsOnly ==
  ASSUME IInv, [Next]_vars, closure' # closure
  PROVE  \E p : Collected(p) /\ ~Rejected(p) /\ Starts(p) /\ Complete(p)
<1>1. CompleteSolo \/ CompletePool
  BY DEF Next, Collect, vars, sessionVars, NewBlock, NewShareTarget, Wake, ReadAddress,
         ReadTarget, ReadChallenge, Reject, Find, Callback
<1>2. PICK p : Collected(p) /\ Complete(p)
  BY <1>1, CollectedFacts
<1>3. ~Rejected(p)
  BY <1>2 DEF Complete
<1>4. Starts(p)
  BY <1>2, <1>3 DEF Complete, Refresh
<1>5. QED
  BY <1>2, <1>3, <1>4

\* mineCoins starts a run, and gives its callback new parameters, only when the
\* run before has ended and its callback has been served.
THEOREM NoOverlap == Spec => RunsDoNotOverlap
<1>1. IInv /\ [Next]_vars => [closure' # closure => phase = "idle" /\ phase' = "running"]_vars
  <2> SUFFICES ASSUME IInv, [Next]_vars, closure' # closure
               PROVE  phase = "idle" /\ phase' = "running"
    OBVIOUS
  <2>1. PICK p : Collected(p) /\ ~Rejected(p) /\ Starts(p) /\ Complete(p)
    BY StartsOnly
  <2>2. QED
    BY <2>1 DEF Complete, Refresh, Starts, IInv, SolversFollowSession
<1>2. QED
  BY <1>1, Inductive, PTL DEF Spec, RunsDoNotOverlap

\* A run that starts in solo style is for a later challenge.
LEMMA StartsLater ==
  ASSUME IInv, [Next]_vars, MiningStyle = "solo", ~mining, mining'
  PROVE  closure'.challenge > closure.challenge
<1>1. CompleteSolo
  BY DEF Next, Collect, vars, sessionVars, NewBlock, NewShareTarget, Wake, ReadAddress,
         ReadTarget, ReadChallenge, Reject, Find, Callback, CompletePool
<1>2. PICK p : Collected(p) /\ Complete(p)
  BY <1>1, CollectedFacts
<1>3. Starts(p) /\ closure' = [challenge |-> p.challenge, target |-> p.target]
  BY <1>2 DEF Complete, Refresh
<1>4. p.challenge = source.challenge /\ p.challenge # challengeNumber
  BY <1>2, <1>3 DEF Collected, Starts, Resumes
<1>5. closure.challenge <= challengeNumber /\ challengeNumber <= source.challenge
  BY DEF IInv, OrderInv
<1>6. closure.challenge \in Nat /\ challengeNumber \in Nat /\ source.challenge \in Nat
  BY UnsetFacts DEF IInv, TypeOK
<1>7. QED
  BY <1>3, <1>4, <1>5, <1>6

\* In solo style each run is for a later challenge than the one before: the
\* contract only moves on, and a run starts only for what the session has not seen.
THEOREM OncePerChallenge == Spec => SoloMinesEachChallengeOnce
<1>1. IInv /\ [Next]_vars =>
        [MiningStyle = "solo" /\ ~mining /\ mining' => closure'.challenge > closure.challenge]_vars
  BY StartsLater
<1>2. QED
  BY <1>1, Inductive, PTL DEF Spec, SoloMinesEachChallengeOnce
=============================================================================

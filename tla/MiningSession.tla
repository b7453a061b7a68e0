--------------------------- MODULE MiningSession ----------------------------
(***************************************************************************)
(* The mining session of 0xbitcoinminer-accel.js: the loop that collects   *)
(* the mining parameters every few seconds, gives them to the solvers and  *)
(* starts runs, and the callback that verifies what a run found and hands  *)
(* it over for submission.  The session runs on the JavaScript thread: a   *)
(* step below is what happens between two awaits.                          *)
(*                                                                         *)
(* The addon is the one MiningRun promises: phase, job, past, late and     *)
(* outcome are its variables.  The source of the parameters, the token     *)
(* contract in solo style and the pool in pool style, changes at any time; *)
(* each await reads one value of it, whatever it is by then.  The          *)
(* difficulty, which is collected too, only travels with the block and is  *)
(* left out.                                                               *)
(***************************************************************************)
EXTENDS Integers

CONSTANTS
    MiningStyle,      \* "solo" or "pool"
    MaxChallenge,     \* bound: challenges are numbered 1 .. MaxChallenge
    Targets,          \* the targets the source may ask for
    Nonces,           \* the solutions a run may find
    Faults,           \* what a read may meet: a subset of {"reject", "absent"}
    Keccak(_, _, _),  \* the digest of challenge, address and nonce
    None              \* no solution

ASSUME StyleAssumption == MiningStyle \in {"solo", "pool"}
ASSUME BoundAssumption == MaxChallenge \in Nat \ {0}
ASSUME TargetsAssumption == Targets \subseteq Nat \ {0}
ASSUME FaultsAssumption ==
    Faults \subseteq (IF MiningStyle = "solo" THEN {"reject"} ELSE {"reject", "absent"})

Challenges == 1..MaxChallenge

\* The values of an unset challengeNumber or miningTarget, of a result that a
\* JSON-RPC answer lacks, and of the zero-filled buffers of a new solver.
Unset == 0

\* The address that is hashed with a challenge: the wallet's in solo style, the
\* pool's in pool style.
HashingAddress == IF MiningStyle = "solo" THEN "miner" ELSE "pool"

\* What the slots of the solvers hold: "buffer" and "target", as in MiningRun.
Works == [challenge : Challenges \cup {Unset}, address : {"zero", HashingAddress}]

Levels == Targets \cup {Unset}

Solutions == [nonce : Nonces, hashed : Works, met : Levels]

ASSUME NoneAssumption == None \notin Solutions

Blocks == [challenge : Challenges, target : Targets, nonce : Nonces]

VARIABLES
    source,            \* the challenge and target the contract or pool has now
    loop,              \* the await initMiningProcedure is at, or "timer"
    read,              \* the values collected so far in this turn of the loop
    challengeNumber,   \* this.challengeNumber
    miningTarget,      \* this.miningTarget
    mining,            \* this.mining
    closure,           \* the parameters the callback of the last run has captured
    handed,            \* the blocks handed to the network or pool interface
    aborted,           \* an assertion of solver.cpp has ended the process
    phase, job, past, late, outcome,   \* the addon, as in MiningRun
    disturbed          \* (history) the last run had parameters that were set during it
                       \* or during an earlier run

sessionVars == <<challengeNumber, miningTarget, mining, closure, handed, aborted, disturbed>>
addonVars == <<phase, job, past, late, outcome>>
vars == <<source, loop, read, sessionVars, addonVars>>

Addon == INSTANCE MiningRun

Init ==
    /\ source \in [challenge : {1}, target : Targets]
    /\ loop = "timer"
    /\ read = [challenge |-> Unset, target |-> Unset, address |-> TRUE]
    /\ challengeNumber = Unset
    /\ miningTarget = Unset
    /\ mining = FALSE
    /\ closure = [challenge |-> Unset, target |-> Unset]
    /\ handed = {}
    /\ aborted = FALSE
    /\ phase = "idle"
    /\ job = Addon!Job([challenge |-> Unset, address |-> "zero"], Unset)
    /\ past = [s \in Addon!Slots |-> {job[s]}]
    /\ late = {}
    /\ outcome = None
    /\ disturbed = FALSE

-----------------------------------------------------------------------------
(* The source of the parameters.                                           *)

\* A block is found, by anyone: a new challenge, perhaps with a new target.
NewBlock ==
    /\ source.challenge < MaxChallenge
    /\ \E t \in Targets :
         source' = [challenge |-> source.challenge + 1, target |-> t]
    /\ UNCHANGED <<loop, read, sessionVars, addonVars>>

\* A pool changes the share target of a miner as it sees fit.
NewShareTarget ==
    /\ MiningStyle = "pool"
    /\ \E t \in Targets \ {source.target} : source' = [source EXCEPT !.target = t]
    /\ UNCHANGED <<loop, read, sessionVars, addonVars>>

-----------------------------------------------------------------------------
(* collectMiningParameters: one await after the other.                     *)

\* The timer fires and the first request goes out.
Wake ==
    /\ ~aborted
    /\ loop = "timer"
    /\ loop' = IF MiningStyle = "solo" THEN "target" ELSE "address"
    /\ UNCHANGED <<source, read, sessionVars, addonVars>>

\* The pool's address; the answer may lack a result.
ReadAddress ==
    /\ ~aborted
    /\ loop = "address"
    /\ \E present \in (IF "absent" \in Faults THEN BOOLEAN ELSE {TRUE}) :
         read' = [read EXCEPT !.address = present]
    /\ loop' = "challenge"
    /\ UNCHANGED <<source, sessionVars, addonVars>>

\* In solo style the target is read before the challenge ...
ReadTarget ==
    /\ ~aborted
    /\ loop = "target"
    /\ MiningStyle = "solo"
    /\ read' = [read EXCEPT !.target = source.target]
    /\ loop' = "challenge"
    /\ UNCHANGED <<source, sessionVars, addonVars>>

\* ... in pool style the challenge before the target.  A challenge that is absent
\* leaves that of the last complete turn, the empty string if there was none.
ReadChallenge ==
    /\ ~aborted
    /\ loop = "challenge"
    /\ MiningStyle = "pool"
    /\ \E c \in {source.challenge} \cup (IF "absent" \in Faults THEN {challengeNumber} ELSE {}) :
         read' = [read EXCEPT !.challenge = c]
    /\ loop' = "target"
    /\ UNCHANGED <<source, sessionVars, addonVars>>

\* A request is rejected, or a target is absent (toBN throws): the turn of the
\* loop ends in its catch block and the parameters of the last one stay.
Reject ==
    /\ ~aborted
    /\ loop # "timer"
    /\ "reject" \in Faults
    /\ loop' = "timer"
    /\ UNCHANGED <<source, read, sessionVars, addonVars>>

-----------------------------------------------------------------------------
(* refreshCPUMinerWithParameters and mineCoins.                            *)

\* Mutant of Resumes: only a new challenge resumes, in pool style too.
ResumesOnNewChallengeOnly(p) == challengeNumber # p.challenge

\* Mutant of Resumes: a new target resumes as well.
ResumesOnNewTarget(p) ==
    \/ MiningStyle = "pool" /\ challengeNumber # Unset
    \/ challengeNumber # p.challenge
    \/ miningTarget # p.target

\* bResume: in pool style every turn but the first resumes; a new challenge
\* always does.  Either way setChallengeNumber is called.
Resumes(p) ==
    \/ MiningStyle = "pool" /\ challengeNumber # Unset
    \/ challengeNumber # p.challenge

\* Mutant of Retargets: a new target is noted, but not given to solvers that mine.
RetargetsAtRest(p) == miningTarget # p.target /\ ~mining

\* setDifficultyTarget is called when the target is another one.
Retargets(p) == miningTarget # p.target

\* The slots that are set before the run is started, if one is.
Called(p) == {s \in Addon!Slots : IF s = "buffer" THEN Resumes(p) ELSE Retargets(p)}

\* Mutant of Starts: this.mining is not asked.
StartsAnyway(p) == Resumes(p)

\* A run is started unless one is under way.
Starts(p) == Resumes(p) /\ ~mining

\* What the setters make of job, one after the other.  In pool style the old
\* challenge is set again before the new one.
AfterChallenge(p) ==
    IF Resumes(p) THEN [job EXCEPT !["buffer"].challenge = p.challenge] ELSE job

\* Mutant of AfterTarget: the new target is noted and not given to the solvers.
AfterNoTarget(p) == AfterChallenge(p)

AfterTarget(p) ==
    IF Retargets(p) THEN [AfterChallenge(p) EXCEPT !["target"] = p.target] ELSE AfterChallenge(p)

\* Mutant of AfterAddress: the addresses of the two styles are swapped.
AfterWrongAddress(p) ==
    [AfterTarget(p) EXCEPT
        !["buffer"].address = IF MiningStyle = "solo" THEN "pool" ELSE "miner"]

AfterAddress(p) == [AfterTarget(p) EXCEPT !["buffer"].address = HashingAddress]

\* setChallenge and setAddress assert the lengths of what they are given: neither
\* an empty challenge nor the address "undefined" has one.
Rejected(p) == p.challenge = Unset \/ (Starts(p) /\ ~p.address)

\* The setters are called before the run that is started, if one is; otherwise they
\* may fall into one.  The address is set whenever a run is started.
Refresh(p) ==
    /\ challengeNumber' = p.challenge
    /\ miningTarget' = p.target
    /\ IF Starts(p)
         THEN /\ mining' = TRUE
              /\ closure' = [challenge |-> p.challenge, target |-> p.target]
              /\ job' = AfterAddress(p)
              /\ phase' = "running"
              /\ late' = late \ (Called(p) \cup {"buffer"})
              /\ disturbed' = (late' # {})
         ELSE /\ job' = AfterTarget(p)
              /\ late' = IF phase = "running" THEN late \cup Called(p) ELSE late \ Called(p)
              /\ disturbed' = (disturbed \/ (mining /\ Called(p) # {}))
              /\ UNCHANGED <<mining, closure, phase>>
    /\ past' = [s \in Addon!Slots |-> past[s] \cup {AfterChallenge(p)[s], job'[s]}]
    /\ UNCHANGED <<handed, aborted, outcome>>

\* The last answer: the parameters are complete and given to the addon before
\* the JavaScript thread does anything else; then the timer is set again.
Complete(p) ==
    /\ loop' = "timer"
    /\ read' = [challenge |-> Unset, target |-> Unset, address |-> TRUE]
    /\ source' = source
    /\ IF Rejected(p)
         THEN /\ aborted' = TRUE
              /\ UNCHANGED <<challengeNumber, miningTarget, mining, closure, handed, disturbed,
                             addonVars>>
         ELSE Refresh(p)

CompleteSolo ==
    /\ ~aborted
    /\ loop = "challenge"
    /\ MiningStyle = "solo"
    /\ Complete([read EXCEPT !.challenge = source.challenge])

CompletePool ==
    /\ ~aborted
    /\ loop = "target"
    /\ MiningStyle = "pool"
    /\ Complete([read EXCEPT !.target = source.target])

-----------------------------------------------------------------------------
(* The addon and its callback.                                             *)

\* A thread finds a nonce for what it hashes and the target it compares with.
Find ==
    /\ ~aborted
    /\ \E n \in Nonces, w \in Addon!Possible("buffer"), l \in Addon!Possible("target") :
         Keccak(w.challenge, w.address, n) <= l /\ Addon!End(n, w, l)
    /\ UNCHANGED <<source, loop, read, sessionVars>>

\* Mutant of Verified: a digest equal to the target fails.
VerifiedStrictly(n) == Keccak(closure.challenge, HashingAddress, n) < closure.target

\* verifyAndSubmit hashes the nonce anew, with what the callback has captured.
Verified(n) == Keccak(closure.challenge, HashingAddress, n) <= closure.target

Callback ==
    /\ ~aborted
    /\ Addon!Deliver
    /\ handed' = IF Verified(outcome.nonce)
                   THEN handed \cup {[challenge |-> closure.challenge, target |-> closure.target,
                                      nonce |-> outcome.nonce]}
                   ELSE handed
    /\ mining' = FALSE
    /\ UNCHANGED <<source, loop, read, challengeNumber, miningTarget, closure, aborted, disturbed>>

-----------------------------------------------------------------------------

Collect ==
    \/ Wake \/ ReadAddress \/ ReadTarget \/ ReadChallenge \/ Reject
    \/ CompleteSolo \/ CompletePool

Next ==
    \/ NewBlock \/ NewShareTarget
    \/ Collect
    \/ Find
    \/ Callback

Spec == Init /\ [][Next]_vars

\* What of Next there is in pool style.
PoolNext ==
    \/ NewBlock \/ NewShareTarget
    \/ Wake \/ ReadAddress \/ ReadChallenge \/ CompletePool \/ Reject
    \/ Find
    \/ Callback

\* The event loop runs what is due: the timer, an answer, the callback.  The loop asks
\* again after a rejected request, and not every request of a kind is rejected.
PoolFairness ==
    /\ WF_vars(Wake) /\ WF_vars(Callback)
    /\ SF_vars(ReadAddress) /\ SF_vars(ReadChallenge) /\ SF_vars(CompletePool)

PoolSpec == Init /\ [][PoolNext]_vars /\ PoolFairness

-----------------------------------------------------------------------------
(* Properties.                                                             *)

\* Every variable keeps its type.
TypeOK ==
    /\ source \in [challenge : Challenges, target : Targets]
    /\ loop \in {"timer", "address", "target", "challenge"}
    /\ read \in [challenge : Challenges \cup {Unset}, target : Targets \cup {Unset},
                 address : BOOLEAN]
    /\ challengeNumber \in Challenges \cup {Unset}
    /\ miningTarget \in Targets \cup {Unset}
    /\ mining \in BOOLEAN
    /\ closure \in [challenge : Challenges \cup {Unset}, target : Targets \cup {Unset}]
    /\ handed \subseteq Blocks
    /\ aborted \in BOOLEAN
    /\ phase \in {"idle", "running", "ended"}
    /\ job \in Addon!Jobs
    /\ past["buffer"] \subseteq Works /\ past["target"] \subseteq Levels
    /\ late \subseteq Addon!Slots
    /\ outcome \in Solutions \cup {None}
    /\ disturbed \in BOOLEAN

\* Between the steps of the JavaScript thread the solvers hold what the session
\* believes they hold, and this.mining says whether a run is under way.
SolversFollowSession ==
    /\ mining = (phase # "idle")
    /\ challengeNumber # Unset =>
         job = Addon!Job([challenge |-> challengeNumber, address |-> HashingAddress], miningTarget)

\* What a run finds is handed over, verified against what its callback has captured,
\* if no setter was called during the run and none of its parameters dates from a call
\* during an earlier one: neither the turns that begin a run nor those between two runs
\* leave the solvers with anything else than the callback verifies against.
UndisturbedRunsAreHandedOver ==
    [][ phase = "ended" /\ phase' = "idle" /\ ~disturbed =>
          [challenge |-> closure.challenge, target |-> closure.target,
           nonce |-> outcome.nonce] \in handed' ]_vars

\* In solo style the miner rests only on a challenge it has handed a block for,
\* unless the run that ended was disturbed: what it found for other parameters, new
\* or old ones, fails the verification against those the callback has captured.
RestsOnlyWhenSolved ==
    MiningStyle = "solo" /\ ~mining /\ challengeNumber # Unset /\ ~disturbed =>
        \E b \in handed : b.challenge = challengeNumber

\* No run starts, and no callback captures other parameters, while a run is under
\* way or its callback has yet to come: CpuMiner relies on it, for a second run
\* would spawn over threads that are not joined.
RunsDoNotOverlap ==
    [][ closure' # closure => phase = "idle" /\ phase' = "running" ]_vars

\* In solo style no challenge is mined twice: each run is for a later challenge
\* than the one before.
SoloMinesEachChallengeOnce ==
    [][ MiningStyle = "solo" /\ ~mining /\ mining' => closure'.challenge > closure.challenge ]_vars

\* accel.js:195: "if we are in a pool, keep mining again because our soln probably
\* didnt solve the whole block and we want shares".  The miner mines again and again,
\* unless an answer without a result has ended the process.
PoolKeepsMining == []<>(mining \/ aborted)

\* README.md:79, on solo mining: "The ether is used for gas to make function calls
\* to the token smart contract when your miner finds a solution to the Proof of
\* Work."  A solution found for the challenge and target in force is handed over.
HandsOverWhatItFinds ==
    [][ phase = "ended" /\ phase' = "idle"
        /\ Keccak(challengeNumber, HashingAddress, outcome.nonce) <= miningTarget
          => \E b \in handed' : b.nonce = outcome.nonce ]_vars

\* solver.cpp:76, in setAddress: "assert(addr.length() == (ADDRESS_LENGTH * 2 + 2));"
\* and solver.cpp:83, in setChallenge: "assert(chal.length() == (UINT256_LENGTH * 2 + 2));"
AssertionsHold == ~aborted
=============================================================================

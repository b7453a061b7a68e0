------------------------------- MODULE Solver -------------------------------
(***************************************************************************)
(* One Solver of the CPU miner (cpp/cpuminer/solver.cpp).                  *)
(*                                                                         *)
(* The JavaScript thread (the setter) and one mining thread (the solver)   *)
(* share two double buffers: "buffer" holds the challenge and the address  *)
(* to hash, "target" holds the difficulty target.  A setter writes the     *)
(* spare copy under a mutex and raises a ready flag after it has released  *)
(* the mutex; trySolution tests the flag without the mutex, then swaps the *)
(* two copies and lowers the flag under it.                                *)
(***************************************************************************)
EXTENDS Naturals

CONSTANTS
    Challenges,       \* challenges JavaScript may set
    Addresses,        \* addresses JavaScript may set
    Targets,          \* difficulty targets JavaScript may set
    Nonces,           \* solutions a thread may try
    Zeros,            \* a zero-filled challenge or address
    Keccak(_, _, _)   \* the digest of challenge, address and nonce

ASSUME TargetsAssumption == Targets \subseteq Nat

Slots == {"buffer", "target"}

Works == [challenge : Challenges \cup {Zeros}, address : Addresses \cup {Zeros}]

Levels == [level : Targets \cup {0}]

\* What each double buffer can hold.
Contents(s) == IF s = "buffer" THEN Works ELSE Levels

VARIABLES
    work,      \* m_challenge and m_address: what updateBuffer copies
    target,    \* the argument of the last setTarget
    setter,    \* the slot the setter has copied and not yet published, or "idle"
    active,    \* m_buffer (without its nonce) and m_target
    tmp,       \* m_buffer_tmp and m_target_tmp
    ready,     \* m_buffer_ready and m_target_ready
    stage,     \* where trySolution is
    slot,      \* the slot stage is about
    nonce,     \* the solution being tried
    digest,    \* its digest, once hashed
    found,     \* what the last trySolution returned
    settled,   \* (history) the value each slot was given by the last call that returned
    crossing,  \* (history) whether a swap fell between a copy and its publication
    window,    \* (history) the values of each slot that were current during this try
    excused    \* (history) the slots that were not clean when this try began

setterVars  == <<work, target, setter>>
bufferVars  == <<active, tmp, ready>>
tryVars     == <<stage, slot, nonce, digest, found>>
historyVars == <<settled, crossing, window, excused>>
vars == <<setterVars, bufferVars, tryVars, historyVars>>

-----------------------------------------------------------------------------

\* What the last setter call, returned or not, gave to slot s.
Latest(s) == IF s = "buffer" THEN work ELSE target

\* Mutant of Locked: the setter copies without the mutex.
NeverLocked(s) == FALSE

\* The solver holds the mutex of slot s.
Locked(s) == stage = "clear" /\ slot = s

Init ==
    /\ work = [challenge |-> Zeros, address |-> Zeros]
    /\ target = [level |-> 0]
    /\ setter = "idle"
    /\ active = [s \in Slots |-> Latest(s)]
    /\ tmp = [s \in Slots |-> Latest(s)]
    /\ ready = [s \in Slots |-> FALSE]
    /\ stage = "between"
    /\ slot = "buffer"
    /\ nonce \in Nonces
    /\ digest = 0
    /\ found = FALSE
    /\ settled = [s \in Slots |-> Latest(s)]
    /\ crossing = [s \in Slots |-> "clean"]
    /\ window = [s \in Slots |-> {}]
    /\ excused = {}

-----------------------------------------------------------------------------
(* The setter: the JavaScript thread inside setChallenge, setAddress or    *)
(* setTarget.                                                              *)

\* The copy into the spare buffer, under the slot's mutex.
Copy(s, value) ==
    /\ setter = "idle"
    /\ ~Locked(s)
    /\ setter' = s
    /\ tmp' = [tmp EXCEPT ![s] = value]
    /\ window' = [window EXCEPT ![s] = IF stage = "between" THEN @ ELSE @ \cup {value}]
    /\ UNCHANGED <<active, ready, tryVars, settled, crossing, excused>>

SetChallenge(c) ==
    /\ work' = [work EXCEPT !.challenge = c]
    /\ target' = target
    /\ Copy("buffer", [work EXCEPT !.challenge = c])

\* Mutant of SetAddress: the address lands where the challenge belongs.
SetAddressAsChallenge(a) ==
    /\ work' = [work EXCEPT !.challenge = a]
    /\ target' = target
    /\ Copy("buffer", [work EXCEPT !.challenge = a])

SetAddress(a) ==
    /\ work' = [work EXCEPT !.address = a]
    /\ target' = target
    /\ Copy("buffer", [work EXCEPT !.address = a])

SetTarget(t) ==
    /\ target' = [level |-> t]
    /\ work' = work
    /\ Copy("target", [level |-> t])

\* The flag is raised after the mutex has been released; the call returns.
Publish ==
    /\ setter # "idle"
    /\ setter' = "idle"
    /\ ready' = [ready EXCEPT ![setter] = TRUE]
    /\ settled' = [settled EXCEPT ![setter] = Latest(setter)]
    /\ crossing' = [crossing EXCEPT ![setter] = IF @ = "crossed" THEN "spoiled" ELSE "clean"]
    /\ UNCHANGED <<work, target, active, tmp, tryVars, window, excused>>

Set ==
    \/ \E c \in Challenges : SetChallenge(c)
    \/ \E a \in Addresses : SetAddress(a)
    \/ \E t \in Targets : SetTarget(t)
    \/ Publish

-----------------------------------------------------------------------------
(* The solver: one call of trySolution after another, each on its slots    *)
(* "buffer" (hash) and "target" (trySolution itself) in turn.              *)

Begin(n) ==
    /\ stage = "between"
    /\ stage' = "check"
    /\ nonce' = n
    /\ found' = FALSE
    /\ window' = [s \in Slots |-> {settled[s], Latest(s)}]
    /\ excused' = {s \in Slots : crossing[s] # "clean"}
    /\ UNCHANGED <<setterVars, bufferVars, slot, digest, settled, crossing>>

\* Mutant of Check: the target's flag is never looked at.
CheckBufferOnly ==
    /\ stage = "check"
    /\ stage' = IF slot = "buffer" /\ ready[slot] THEN "swap" ELSE "use"
    /\ UNCHANGED <<setterVars, bufferVars, slot, nonce, digest, found, historyVars>>

\* The flag is tested without the mutex.
Check ==
    /\ stage = "check"
    /\ stage' = IF ready[slot] THEN "swap" ELSE "use"
    /\ UNCHANGED <<setterVars, bufferVars, slot, nonce, digest, found, historyVars>>

Swap ==
    /\ stage = "swap"
    /\ stage' = "clear"
    /\ active' = [active EXCEPT ![slot] = tmp[slot]]
    /\ tmp' = [tmp EXCEPT ![slot] = active[slot]]
    /\ crossing' = [crossing EXCEPT ![slot] = IF setter = slot THEN "crossed" ELSE @]
    /\ UNCHANGED <<setterVars, ready, slot, nonce, digest, found, settled, window, excused>>

\* Mutant of Clear: both ready flags are lowered.
ClearBoth ==
    /\ stage = "clear"
    /\ stage' = "use"
    /\ ready' = [s \in Slots |-> FALSE]
    /\ UNCHANGED <<setterVars, active, tmp, slot, nonce, digest, found, historyVars>>

Clear ==
    /\ stage = "clear"
    /\ stage' = "use"
    /\ ready' = [ready EXCEPT ![slot] = FALSE]
    /\ UNCHANGED <<setterVars, active, tmp, slot, nonce, digest, found, historyVars>>

Hash ==
    /\ stage = "use"
    /\ slot = "buffer"
    /\ stage' = "check"
    /\ slot' = "target"
    /\ digest' = Keccak(active[slot].challenge, active[slot].address, nonce)
    /\ UNCHANGED <<setterVars, bufferVars, nonce, found, historyVars>>

\* Mutant of Compare: the digest is compared with the spare target.
CompareSpare ==
    /\ stage = "use"
    /\ slot = "target"
    /\ stage' = "between"
    /\ slot' = "buffer"
    /\ found' = (digest <= tmp[slot].level)
    /\ UNCHANGED <<setterVars, bufferVars, nonce, digest, historyVars>>

Compare ==
    /\ stage = "use"
    /\ slot = "target"
    /\ stage' = "between"
    /\ slot' = "buffer"
    /\ found' = (digest <= active[slot].level)
    /\ UNCHANGED <<setterVars, bufferVars, nonce, digest, historyVars>>

Try == Check \/ Swap \/ Clear \/ Hash \/ Compare

Next == Set \/ Try \/ \E n \in Nonces : Begin(n)

Spec == Init /\ [][Next]_vars

\* A mining thread calls trySolution in a loop, and neither a try nor a setter
\* call, once begun, waits for anything but the other's short critical section.
Fairness ==
    /\ WF_vars(Publish)
    /\ WF_vars(Try)
    /\ WF_vars(\E n \in Nonces : Begin(n))

LiveSpec == Spec /\ Fairness

-----------------------------------------------------------------------------
(* Properties.                                                             *)

\* Every variable keeps its type.
TypeOK ==
    /\ work \in Works
    /\ target \in Levels
    /\ setter \in Slots \cup {"idle"}
    /\ active \in [Slots -> Works \cup Levels]
    /\ tmp \in [Slots -> Works \cup Levels]
    /\ settled \in [Slots -> Works \cup Levels]
    /\ window \in [Slots -> SUBSET (Works \cup Levels)]
    /\ \A s \in Slots :
         {active[s], tmp[s], settled[s]} \cup window[s] \subseteq Contents(s)
    /\ ready \in [Slots -> BOOLEAN]
    /\ stage \in {"between", "check", "swap", "clear", "use"}
    /\ slot \in Slots
    /\ nonce \in Nonces
    /\ found \in BOOLEAN
    /\ crossing \in [Slots -> {"clean", "crossed", "spoiled"}]
    /\ excused \subseteq Slots

\* Once a setter call has returned and the solver has taken it over (the flag
\* is down), the buffer the solver hashes or compares with holds the value that
\* call gave, unless a swap fell between the copy and its publication.
FreshUnlessCrossed ==
    \A s \in Slots :
        crossing[s] = "clean" /\ setter # s /\ ~ready[s] => active[s] = settled[s]

\* What a try uses was current at some moment of that try: the value of a setter
\* call that had returned when it began, or of one under way during it.  Tries
\* that began while the slot was disordered are excused.
UsesCurrentValues ==
    stage = "use" /\ slot \notin excused => active[slot] \in window[slot]

\* A solution that trySolution reports solves a challenge and address that were
\* current during the try, at a target that was, never a mixture from the past.
HitIsCurrent ==
    found /\ stage = "between" /\ excused = {} =>
        \E w \in window["buffer"], t \in window["target"] :
            Keccak(w.challenge, w.address, nonce) <= t.level

\* Whatever the setter does, the solver comes to use what was set last, again
\* and again, unless a crossed publication disordered the slot.
Converges ==
    \A s \in Slots : []<>(active[s] = Latest(s) \/ crossing[s] = "spoiled")

\* solver.cpp:93-94: "Double-buffer system, the trySolution() function will be
\* blocked only when a change occurs."  When it goes to take the mutex and no
\* setter call is under way, the spare buffer holds the change it blocks for.
BlocksOnlyOnChange ==
    stage = "swap" /\ setter # slot => tmp[slot] = settled[slot]
=============================================================================

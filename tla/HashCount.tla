----------------------------- MODULE HashCount ------------------------------
(***************************************************************************)
(* The hash counter of solver.cpp and addon.cc: an atomic unsigned integer *)
(* that the mining threads increment after each try and that hashes(), on  *)
(* the JavaScript thread, reads and resets in two steps.                   *)
(***************************************************************************)
EXTENDS Integers

CONSTANTS
    Modulus,     \* 2^32, the number of values of the counter
    MaxHashes    \* bound on the number of tries

VARIABLES
    hashes,      \* Solver::hashes
    value,       \* value in hashes()
    step,        \* "read" or "reset": what hashes() does next
    tried,       \* (history) all tries so far
    reported,    \* (history) the sum of the values returned
    lost,        \* (history) tries that fell between a read and its reset
    wraps        \* (history) how often the counter has wrapped around between two reads

vars == <<hashes, value, step, tried, reported, lost, wraps>>

Init ==
    /\ hashes = 0 /\ value = 0 /\ step = "read"
    /\ tried = 0 /\ reported = 0 /\ lost = 0 /\ wraps = 0

\* ++hashes in trySolution.
Try ==
    /\ tried < MaxHashes
    /\ tried' = tried + 1
    /\ hashes' = (hashes + 1) % Modulus
    /\ IF step = "reset"
         THEN lost' = lost + 1 /\ wraps' = wraps
         ELSE lost' = lost /\ wraps' = IF hashes + 1 = Modulus THEN wraps + 1 ELSE wraps
    /\ UNCHANGED <<value, step, reported>>

Read ==
    /\ step = "read"
    /\ value' = hashes
    /\ step' = "reset"
    /\ UNCHANGED <<hashes, tried, reported, lost, wraps>>

\* Mutant of Reset: the reset is forgotten.
KeepCounting ==
    /\ step = "reset"
    /\ hashes' = hashes
    /\ reported' = reported + value
    /\ step' = "read"
    /\ UNCHANGED <<value, tried, lost, wraps>>

Reset ==
    /\ step = "reset"
    /\ hashes' = 0
    /\ reported' = reported + value
    /\ step' = "read"
    /\ UNCHANGED <<value, tried, lost, wraps>>

Next == Try \/ Read \/ Reset

Spec == Init /\ [][Next]_vars

-----------------------------------------------------------------------------
(* Properties.                                                             *)

\* Every variable keeps its type.
TypeOK ==
    /\ hashes \in 0..(Modulus - 1) /\ value \in 0..(Modulus - 1)
    /\ step \in {"read", "reset"}
    /\ tried \in Nat /\ reported \in Nat /\ lost \in Nat /\ wraps \in Nat

\* The counter reports each try once, except those that fall between a read and its
\* reset and those a wrap takes away: a hash rate is never too high.
EveryTryAccountedFor ==
    tried = reported + lost + wraps * Modulus + (IF step = "read" THEN hashes ELSE value)
=============================================================================

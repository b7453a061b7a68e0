----------------------------- MODULE AlphaMiner -----------------------------
(***************************************************************************)
(* The addon of cpumineralpha.cc, a draft: one detached thread that draws  *)
(* nonces for ever and pushes those below the target to an array it shares *)
(* with JavaScript, without a lock.                                        *)
(***************************************************************************)
EXTENDS Integers

CONSTANTS
    Size,        \* 1000, the length of solutions
    Targets,     \* the targets JavaScript may set
    Nonces       \* what rand() may return

VARIABLES
    difficultyTarget,
    solutions,   \* the array
    buffered,    \* buffered_solutions_count
    pc,          \* the mining thread: "off", "draw", "compare", "store" or "count"
    nonce,       \* its nonce
    index,       \* buffered_solutions_count as it read it in pushSolutionToBuffer
    clearing,    \* clearSolutionsBuffer has filled the array and not reset the count
    crossed      \* (history) a clear fell into a push, or a push into a clear

vars == <<difficultyTarget, solutions, buffered, pc, nonce, index, clearing, crossed>>

Empty == [i \in 0..(Size - 1) |-> 0]

Init ==
    /\ difficultyTarget = 0 /\ solutions = Empty /\ buffered = 0
    /\ pc = "off" /\ nonce = 0 /\ index = 0
    /\ clearing = FALSE /\ crossed = FALSE

-----------------------------------------------------------------------------
(* JavaScript's calls, one at a time.                                      *)

SetDifficultyTarget(target) ==
    /\ ~clearing
    /\ difficultyTarget' = target
    /\ UNCHANGED <<solutions, buffered, pc, nonce, index, clearing, crossed>>

\* The program starts the thread once; a second one would share the array as well.
StartMining ==
    /\ ~clearing /\ pc = "off"
    /\ pc' = "draw"
    /\ UNCHANGED <<difficultyTarget, solutions, buffered, nonce, index, clearing, crossed>>

\* What getSolutionsBuffer returns: 0 for no solution, and for a solution that is 0.
SolutionsBuffer == IF buffered > 0 THEN solutions[0] ELSE 0

\* clearSolutionsBuffer fills the array, then resets the count.
ClearArray ==
    /\ ~clearing
    /\ solutions' = Empty
    /\ clearing' = TRUE
    /\ crossed' = (crossed \/ pc \in {"store", "count"})
    /\ UNCHANGED <<difficultyTarget, buffered, pc, nonce, index>>

\* Mutant of ClearCount: the count is left as it is.
ClearNoCount ==
    /\ clearing
    /\ buffered' = buffered
    /\ clearing' = FALSE
    /\ UNCHANGED <<difficultyTarget, solutions, pc, nonce, index, crossed>>

ClearCount ==
    /\ clearing
    /\ buffered' = 0
    /\ clearing' = FALSE
    /\ UNCHANGED <<difficultyTarget, solutions, pc, nonce, index, crossed>>

-----------------------------------------------------------------------------
(* The mining thread.                                                      *)

Draw ==
    /\ pc = "draw"
    /\ nonce' \in Nonces
    /\ pc' = "compare"
    /\ UNCHANGED <<difficultyTarget, solutions, buffered, index, clearing, crossed>>

\* Mutant of HasRoom: one solution more.
HasRoomForOneMore == buffered <= Size

HasRoom == buffered < Size

\* What is compared is the nonce itself: keccak256 still returns it as it is.
Compare ==
    /\ pc = "compare"
    /\ IF nonce < difficultyTarget /\ HasRoom
         THEN pc' = "store" /\ index' = buffered
         ELSE pc' = "draw" /\ UNCHANGED index
    /\ crossed' = (crossed \/ (pc' = "store" /\ clearing))
    /\ UNCHANGED <<difficultyTarget, solutions, buffered, nonce, clearing>>

\* The build may keep the count it compared in a register, or read it again.
Store ==
    /\ pc = "store"
    /\ index' \in {index, buffered}
    /\ solutions' = [solutions EXCEPT ![index'] = nonce]
    /\ pc' = "count"
    /\ UNCHANGED <<difficultyTarget, buffered, nonce, clearing, crossed>>

Count ==
    /\ pc = "count"
    /\ buffered' \in {index + 1, buffered + 1}
    /\ pc' = "draw"
    /\ UNCHANGED <<difficultyTarget, solutions, nonce, index, clearing, crossed>>

Next ==
    \/ \E target \in Targets : SetDifficultyTarget(target)
    \/ StartMining \/ ClearArray \/ ClearCount
    \/ Draw \/ Compare \/ Store \/ Count

Spec == Init /\ [][Next]_vars

-----------------------------------------------------------------------------
(* Properties.                                                             *)

\* Every variable keeps its type.
TypeOK ==
    /\ difficultyTarget \in Targets \cup {0} /\ nonce \in Nonces \cup {0}
    /\ solutions \in [0..(Size - 1) -> Nonces \cup {0}]
    /\ pc \in {"off", "draw", "compare", "store", "count"}
    /\ clearing \in BOOLEAN /\ crossed \in BOOLEAN

\* However a clear falls into it, a push of the one thread stays within the array.
IndexInBounds ==
    /\ buffered \in 0..Size
    /\ pc = "store" => index < Size /\ buffered < Size

\* What is in the array is what is counted, unless a clear and a push have crossed:
\* then solutions may be wiped out that still count, and JavaScript, shown the first
\* of them, be told there is none.  (A nonce of 0 always looks like none.)
CountedAreThere ==
    ~crossed /\ ~clearing /\ 0 \notin Nonces =>
        \A i \in 0..(Size - 1) :
            (i < buffered \/ (pc = "count" /\ i = index)) <=> solutions[i] # 0
=============================================================================

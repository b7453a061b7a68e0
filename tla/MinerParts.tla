----------------------------- MODULE MinerParts -----------------------------
(***************************************************************************)
(* Three parts of the miners that share nothing, side by side: the hash    *)
(* counter of addon.cc, the drafted addon cpumineralpha.cc and the nonce   *)
(* scans of the CUDA miners.  The constants stay parameters, so that what  *)
(* TLC checks for some values can be proved for all of them.               *)
(***************************************************************************)
EXTENDS Integers, FiniteSets

CONSTANTS
    Modulus, MaxHashes,                  \* of HashCount
    Size, Targets, Nonces,               \* of AlphaMiner
    Top, Intensity, Block, Qualities     \* of ScanHash

\* A counter has values, an array elements and a block threads.
ASSUME CountAssumption == Modulus \in Nat \ {0} /\ Size \in Nat \ {0}
ASSUME ScanAssumption ==
    /\ Top \in Nat /\ Intensity \in Nat /\ Block \in Nat \ {0}
    /\ Qualities \subseteq [0..Top -> {"miss", "good", "equal", "bad"}]

VARIABLES
    hashes, value, step, tried, reported, lost, wraps,       \* HashCount
    difficultyTarget, solutions, buffered, minePc, mineNonce, index, clearing,
    crossed,                                                 \* AlphaMiner
    kind, quality, first, max, throughput, nonce, slots, pc, ret, hashesDone, restart,
    tested, crowded, wrapped                                 \* ScanHash

Hashes == INSTANCE HashCount
Alpha == INSTANCE AlphaMiner WITH pc <- minePc, nonce <- mineNonce
Scan == INSTANCE ScanHash

countVars == <<hashes, value, step, tried, reported, lost, wraps>>
alphaVars == <<difficultyTarget, solutions, buffered, minePc, mineNonce, index, clearing, crossed>>
scanVars == <<kind, quality, first, max, throughput, nonce, slots, pc, ret, hashesDone, restart,
              tested, crowded, wrapped>>

-----------------------------------------------------------------------------
(* Properties of the parts, under their names.                             *)

\* Every variable of the three parts keeps its type.
MinerPartsTypeOK == Hashes!TypeOK /\ Alpha!TypeOK /\ Scan!TypeOK

\* What two threads count without a lock: the counter of addon.cc reports each try
\* once, but for those between the read and the reset of hashes() and those a wrap
\* takes away; a push of cpumineralpha.cc stays within its array, however a clear
\* falls into it, and what is counted is there, unless the two have crossed.
CountsAreExact == Hashes!EveryTryAccountedFor /\ Alpha!IndexInBounds /\ Alpha!CountedAreThere

\* A scan leaves no nonce out before the one where the next goes on; one that returns
\* nothing has covered its range; a solution with which no other competes is returned
\* or still ahead; hashes_done counts only what was hashed (the four scanhash_*).
ScansAreSound ==
    Scan!NothingIsSkipped /\ Scan!RangeIsCovered /\ Scan!SoleSolutionIsReturned /\ Scan!HashesDoneWereHashed

\* A scan returns, unless it has run past the last nonce (the four scanhash_*).
ScanReturns == Scan!ScanReturns
=============================================================================

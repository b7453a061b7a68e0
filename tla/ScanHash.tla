------------------------------ MODULE ScanHash ------------------------------
(***************************************************************************)
(* The nonce scans of the CUDA miners: scanhash_keccak256, scanhash_       *)
(* sha256t, scanhash_sha256d and the draft scanhash_sha256s.  A scan walks *)
(* from the nonce in pdata[19] to max_nonce, one kernel launch of          *)
(* throughput threads after the other.  The threads of a launch race for   *)
(* two result slots; what they report is hashed again on the CPU.          *)
(*                                                                         *)
(* A nonce is of a quality: "miss", the kernel does not report it; "good", *)
(* it meets the target; "equal", the words the kernel and the host compare *)
(* first are those of the target and the rest is larger; "bad", reported   *)
(* by the kernel and larger than the target on the CPU.                    *)
(***************************************************************************)
EXTENDS Integers, FiniteSets

CONSTANTS
    Top,        \* UINT32_MAX, the mark of an empty slot; nonces are 0 .. Top
    Intensity,  \* the throughput the card is set to
    Block,      \* threads per block of the SHA-256 kernels: 128
    Qualities   \* the assignments of qualities to nonces that are looked at

VARIABLES
    kind,       \* which scan: "keccak256", "sha256t", "sha256d" or "sha256s"
    quality,    \* the quality of each nonce
    first, max, \* first_nonce and max_nonce
    throughput,
    nonce,      \* pdata[19]
    slots,      \* the two result slots, as the host reads them
    pc,         \* "call", "launch", "check" or "returned"
    ret,        \* the value returned
    hashesDone, \* *hashes_done
    restart,    \* work_restart or scan_abort_flag
    tested,     \* (history) the nonces hashed so far
    crowded,    \* (history) a launch had more than one nonce to report
    wrapped     \* (history) a launch ran past the last nonce

callVars == <<kind, quality, first, max, throughput>>
vars == <<callVars, nonce, slots, pc, ret, hashesDone, restart, tested, crowded, wrapped>>

U32(n) == n % (Top + 1)

Init ==
    /\ kind \in {"keccak256", "sha256t", "sha256d", "sha256s"}
    /\ quality \in Qualities
    /\ max \in 0..Top /\ first \in 0..max
    /\ throughput = 0 /\ nonce = first /\ slots = <<Top, Top>>
    /\ pc = "call" /\ ret = 0 /\ hashesDone = 0
    /\ restart = FALSE /\ tested = {} /\ crowded = FALSE /\ wrapped = FALSE

Smaller(m, n) == IF m < n THEN m ELSE n
Larger(m, n) == IF m > n THEN m ELSE n

\* scanhash_keccak256 never asks for more than the range; the SHA-256 scans do
\* so in the first call for a card, before init is set.
Throughput(initialised) ==
    IF kind = "keccak256" \/ initialised THEN Smaller(Intensity, max - first) ELSE Intensity

Call(initialised) ==
    /\ pc = "call"
    /\ throughput' = Throughput(initialised)
    /\ pc' = "launch"
    /\ UNCHANGED <<kind, quality, first, max, nonce, slots, ret, hashesDone, restart, tested,
                   crowded, wrapped>>

\* keccak256_cpu_hash_80 rounds the number of blocks up, the threads past the
\* last nonce do nothing ...
KeccakThreads == throughput

\* Mutant of ShaThreads: the last block is left out.
ShaThreadsButOne == Larger(0, (throughput \div Block - 1) * Block)

\* ... sha256t_hash_80 rounds it down: what is left of a block is not hashed.
ShaThreads == (throughput \div Block) * Block

Threads == IF kind = "keccak256" THEN KeccakThreads ELSE ShaThreads

\* atomicCAS fills the first slot once; any later thread writes the second.  A nonce
\* that is the mark itself leaves the first slot empty, and may empty the second.
KeccakSlots(found) ==
    IF found \subseteq {Top} THEN {<<Top, Top>>}
    ELSE {s \in (found \ {Top}) \X (found \cup {Top}) :
            s[1] # s[2] /\ (Top \in found \/ (s[2] = Top) = (found = {s[1]}))}

\* atomicExch returns what was in the first slot; the writes of what it returned
\* into the second are not ordered, so a nonce can be written over by the mark.
ShaSlots(found) ==
    {s \in found \X (found \cup {Top}) : s[1] # s[2] \/ s[1] = Top}

Slots(found) ==
    IF found = {} THEN {<<Top, Top>>}
    ELSE IF kind = "keccak256" THEN KeccakSlots(found) ELSE ShaSlots(found)

Launch ==
    /\ pc = "launch"
    /\ LET hashed == {U32(nonce + i) : i \in 0..(Threads - 1)}
           found == {n \in hashed : quality[n] # "miss"}
       IN /\ tested' = tested \cup hashed
          /\ crowded' = (crowded \/ Cardinality(found) > 1)
          /\ wrapped' = (wrapped \/ nonce + throughput > Top)
          /\ slots' \in Slots(found)
    /\ hashesDone' = IF kind = "keccak256" THEN hashesDone
                                           ELSE U32(nonce - first + throughput)
    /\ pc' = "check"
    /\ UNCHANGED <<callVars, nonce, ret, restart>>

\* Mutant of Found: nonce 0 is taken for none.
FoundPastZero == slots[1] \notin {0, Top}

Found == slots[1] # Top
Second == slots[2] # Top

\* The loop ends with what has been scanned so far.
Leave(n) ==
    /\ nonce' = n
    /\ pc' = "returned"
    /\ hashesDone' = U32(n - first)
    /\ UNCHANGED ret

Again(n) ==
    /\ nonce' = n
    /\ pc' = "launch"
    /\ UNCHANGED <<hashesDone, ret>>

\* Mutant of KeccakCheck: the loop runs as long as a nonce is left.
KeccakCheckToTheEnd ==
    IF Found /\ quality[slots[1]] = "good"
      THEN /\ ret' = IF Second THEN 2 ELSE 1
           /\ hashesDone' = U32(nonce - first)
           /\ nonce' = slots[1]
           /\ pc' = "returned"
      ELSE LET next == U32(nonce + throughput) IN
           IF ~restart /\ max > next THEN Again(next) ELSE Leave(next)

\* The rest of the loop of scanhash_keccak256: only the first slot is validated;
\* another launch follows if a whole one fits below max_nonce.
KeccakCheck ==
    IF Found /\ quality[slots[1]] = "good"
      THEN /\ ret' = IF Second THEN 2 ELSE 1
           /\ hashesDone' = U32(nonce - first + throughput)
           /\ nonce' = slots[1]
           /\ pc' = "returned"
      ELSE LET next == U32(nonce + throughput) IN
           IF ~restart /\ max > next + throughput THEN Again(next) ELSE Leave(next)

\* A solution: both slots are validated, and the scan is to go on behind them.
ShaReturn ==
    /\ ret' = IF Second /\ quality[slots[2]] = "good" THEN 2 ELSE 1
    /\ nonce' = (IF Second THEN Larger(slots[1], slots[2]) ELSE slots[1]) + 1
    /\ pc' = "returned"
    /\ UNCHANGED hashesDone

\* The rest of the loop of the SHA-256 scans; a nonce that does not validate is
\* skipped by a continue, which still evaluates the condition of the loop.
ShaCheck(goesOn) ==
    CASE Found /\ quality[slots[1]] = "good" -> ShaReturn
      [] Found /\ quality[slots[1]] = "bad" ->
           IF goesOn THEN Again(slots[1] + 1) ELSE Leave(slots[1] + 1)
      [] OTHER ->
           IF throughput + nonce >= max THEN Leave(max)
           ELSE IF goesOn THEN Again(U32(nonce + throughput)) ELSE Leave(U32(nonce + throughput))

\* Mutant of Sha256tCheck: a nonce that does not validate ends its launch.
Sha256tCheckBehind ==
    IF Found /\ quality[slots[1]] = "bad" THEN Again(U32(nonce + throughput + 1))
    ELSE ShaCheck(~restart)

Sha256tCheck == ShaCheck(~restart)
Sha256dCheck == ShaCheck(~restart)

\* In the draft the condition is false: one launch and no more.
Sha256sCheck == ShaCheck(FALSE)

Check ==
    /\ pc = "check"
    /\ CASE kind = "keccak256" -> KeccakCheck
         [] kind = "sha256t" -> Sha256tCheck
         [] kind = "sha256d" -> Sha256dCheck
         [] kind = "sha256s" -> Sha256sCheck
    /\ UNCHANGED <<callVars, slots, restart, tested, crowded, wrapped>>

\* New work arrives.
Restart ==
    /\ pc \in {"launch", "check"} /\ ~restart
    /\ restart' = TRUE
    /\ UNCHANGED <<callVars, nonce, slots, pc, ret, hashesDone, tested, crowded, wrapped>>

Next ==
    \/ \E initialised \in BOOLEAN : Call(initialised)
    \/ Launch \/ Check \/ Restart

Spec == Init /\ [][Next]_vars

-----------------------------------------------------------------------------
(* Properties.                                                             *)

\* Every variable keeps its type.
TypeOK ==
    /\ throughput \in 0..Larger(Top, Intensity) /\ nonce \in 0..(Top + 1)
    /\ slots \in (0..Top) \X (0..Top)
    /\ pc \in {"call", "launch", "check", "returned"}
    /\ ret \in 0..2 /\ hashesDone \in 0..Top
    /\ restart \in BOOLEAN /\ crowded \in BOOLEAN /\ wrapped \in BOOLEAN
    /\ tested \subseteq 0..Top

WholeBlocks == kind = "keccak256" \/ throughput % Block = 0

\* No nonce is left out before the one where the next scan goes on, as long as the
\* throughput is a multiple of the block size, to which nothing rounds it.
NothingIsSkipped ==
    pc = "returned" /\ WholeBlocks /\ ~wrapped => first..(nonce - 1) \subseteq tested

\* A scan that returns nothing and was not told to restart has covered its range;
\* scanhash_keccak256 leaves out the end, always less than or as much as a launch.
RangeIsCovered ==
    pc = "returned" /\ ret = 0 /\ ~restart /\ WholeBlocks =>
        CASE kind = "keccak256" -> nonce <= max /\ max - nonce <= throughput
          [] kind \in {"sha256t", "sha256d"} -> nonce = max
          [] OTHER -> TRUE

\* Unless two threads of a launch compete for the slots, a nonce that solves the
\* work is either returned or still ahead of the next scan.
SoleSolutionIsReturned ==
    pc = "returned" /\ ~crowded /\ ~wrapped =>
        \A n \in first..(nonce - 1) : n \in tested /\ quality[n] = "good" => ret > 0

\* The hash rate is not overstated: hashes_done counts nonces that were hashed.
HashesDoneWereHashed ==
    pc = "returned" /\ WholeBlocks /\ ~wrapped => hashesDone <= Cardinality(tested)

\* A scan returns, although it goes back behind each nonce that does not validate,
\* unless it has run past the last nonce and starts over.
ScanReturns == pc = "launch" ~> pc = "returned" \/ wrapped
=============================================================================

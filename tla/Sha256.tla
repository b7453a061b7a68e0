------------------------------- MODULE Sha256 -------------------------------
(***************************************************************************)
(* The SHA-256 of cuda_sha256t.cu and cuda_sha256d.cu: what the host       *)
(* prepares of a header, and one thread of the kernel, step by step.  A    *)
(* word is the set of its bits that are one.  The working registers stay   *)
(* where they are: it is the names of a step's parameters that move.       *)
(***************************************************************************)
EXTENDS Integers, Sequences

VARIABLES
    words,      \* the twenty words of the header; the last one is the thread's nonce
    hashes,     \* how often the kernel hashes: 3 for sha256t, 2 for sha256d
    block,      \* the block it works on: 0 is the one of setBlock_80, hashes + 1 when done
    in,         \* the sixteen words of the block, then of the schedule
    state, reg, \* the chaining value and the registers a to h
    step        \* steps done in this block
shaVars == <<words, hashes, block, in, state, reg, step>>

WordOf(hi, lo) == {b \in 0..31 : ((IF b > 15 THEN hi ELSE lo) \div 2^(b % 16)) % 2 = 1}
Table(cells) == [i \in 1..Len(cells) |-> WordOf(cells[i][1], cells[i][2])]

\* cpu_K and cpu_H256, in halves.
K == Table(<<
    <<17034, 12184>>, <<28983, 17553>>, <<46528, 64463>>, <<59829, 56229>>, <<14678, 49755>>, <<23025, 4593>>, <<37439, 33444>>, <<43804, 24277>>,
    <<55303, 43672>>, <<4739, 23297>>, <<9265, 34238>>, <<21772, 32195>>, <<29374, 23924>>, <<32990, 45566>>, <<39900, 1703>>, <<49563, 61812>>,
    <<58523, 27073>>, <<61374, 18310>>, <<4033, 40390>>, <<9228, 41420>>, <<11753, 11375>>, <<19060, 33962>>, <<23728, 43484>>, <<30457, 35034>>,
    <<38974, 20818>>, <<43057, 50797>>, <<45059, 10184>>, <<48985, 32711>>, <<50912, 3059>>, <<54695, 37191>>, <<1738, 25425>>, <<5161, 10599>>,
    <<10167, 2693>>, <<11803, 8504>>, <<19756, 28156>>, <<21304, 3347>>, <<25866, 29524>>, <<30314, 2747>>, <<33218, 51502>>, <<37490, 11397>>,
    <<41663, 59553>>, <<43034, 26187>>, <<49739, 35696>>, <<51052, 20899>>, <<53650, 59417>>, <<54937, 1572>>, <<62478, 13701>>, <<4202, 41072>>,
    <<6564, 49430>>, <<7735, 27656>>, <<10056, 30540>>, <<13488, 48309>>, <<14620, 3251>>, <<20184, 43594>>, <<23452, 51791>>, <<26670, 28659>>,
    <<29839, 33518>>, <<30885, 25455>>, <<33992, 30740>>, <<36039, 520>>, <<37054, 65530>>, <<42064, 27883>>, <<48889, 41975>>, <<50801, 30962>> >>)
H256 == Table(<<
    <<27145, 58983>>, <<47975, 44677>>, <<15470, 62322>>, <<42319, 62778>>, <<20750, 21119>>, <<39685, 26764>>, <<8067, 55723>>, <<23520, 52505>> >>)

Xor(a, b) == (a \ b) \cup (b \ a)
Rotr(a, n) == {(b + 32 - n) % 32 : b \in a}
Shr(a, n) == {b - n : b \in {b \in a : b >= n}}
Swab(a) == {8 * (3 - (b \div 8)) + (b % 8) : b \in a}

\* Unsigned addition, bit after bit; the carry out of bit 31 is lost.
Bit(a, i) == IF i \in a THEN 1 ELSE 0
Add(a, b) ==
    LET carry[i \in 0..31] == IF i = 0 THEN 0 ELSE (Bit(a, i - 1) + Bit(b, i - 1) + carry[i - 1]) \div 2
    IN {i \in 0..31 : (Bit(a, i) + Bit(b, i) + carry[i]) % 2 = 1}
Sums(a, b) == [i \in 1..8 |-> Add(a[i], b[i])]

bsg2_0(x) == Xor(Xor(Rotr(x, 2), Rotr(x, 13)), Rotr(x, 22))
bsg2_1(x) == Xor(Xor(Rotr(x, 6), Rotr(x, 11)), Rotr(x, 25))
ssg2_0(x) == Xor(Xor(Rotr(x, 7), Rotr(x, 18)), Shr(x, 3))
ssg2_1(x) == Xor(Xor(Rotr(x, 17), Rotr(x, 19)), Shr(x, 10))
xandx(a, b, c) == Xor(Xor(b, c) \cap a, c)
andor32(a, b, c) == (a \cap b) \cup ((a \cup b) \cap c)

-----------------------------------------------------------------------------
(* One step.                                                               *)

\* sha2_step1, called for the k-th time: its parameters a to h are 0 to 7.
Stepped(r, k, word) ==
    LET At(p) == ((p + 64 - k) % 8) + 1
        R(p) == r[At(p)]
        t1 == Add(Add(Add(Add(R(7), bsg2_1(R(4))), xandx(R(4), R(5), R(6))), K[k + 1]), word)
        t2 == Add(bsg2_0(R(0)), andor32(R(0), R(1), R(2)))
    IN [r EXCEPT ![At(3)] = Add(@, t1), ![At(7)] = Add(t1, t2)]

\* Mutant of Scheduled: the words are taken from a block that is not a ring.
ScheduledFlat(w, k) ==
    LET pc == k % 16
        W(i) == IF pc < i THEN {} ELSE w[pc - i + 1]
    IN IF k < 16 THEN w ELSE [w EXCEPT ![pc + 1] = Add(Add(Add(ssg2_1(W(2)), W(7)), ssg2_0(W(15))), @)]

\* What sha2_step2 makes of the block before it does the same as sha2_step1.
Scheduled(w, k) ==
    LET pc == k % 16
        W(i) == w[((pc + 16 - i) % 16) + 1]
    IN IF k < 16 THEN w ELSE [w EXCEPT ![pc + 1] = Add(Add(Add(ssg2_1(W(2)), W(7)), ssg2_0(W(15))), @)]

StepOf(steps) ==
    /\ step < steps
    /\ in' = Scheduled(in, step)
    /\ reg' = Stepped(reg, step, in'[(step % 16) + 1])
    /\ step' = step + 1
    /\ UNCHANGED <<words, hashes, block, state>>

\* Mutant of LastSteps: one more is left out.
LastStepsFewer == 61

\* sha256_round_last leaves out the two steps that do not touch the registers it needs.
LastSteps == 62

\* sha256_round_body_host, sha256_round_body and sha256_round_last.
HostStep == block = 0 /\ StepOf(64)
BodyStep == block \in 1..(hashes - 1) /\ StepOf(64)
LastStep == block = hashes /\ StepOf(LastSteps)

-----------------------------------------------------------------------------
(* From block to block.                                                    *)

\* Mutant of Dat80: the length of the block is taken for that of the message.
Dat80Short(end) == end \o << {31} >> \o [i \in 1..11 |-> IF i = 11 THEN {7} ELSE {}]

\* The second block of a header: its last four words, the one, the 640 bits.
Dat80(end) == end \o << {31} >> \o [i \in 1..11 |-> IF i = 11 THEN {7, 9} ELSE {}]

\* The block of a digest.
DatDigest(buf) == buf \o << {31} >> \o [i \in 1..7 |-> IF i = 7 THEN {8} ELSE {}]

Fill(dat, buf) == in' = dat /\ state' = buf /\ reg' = buf /\ step' = 0

\* sha256t_setBlock_80 with the header in the order of the host, and the thread's start.
EndianData == [i \in 1..20 |-> Swab(words[i])]
ShaInit(headers) ==
    /\ words \in headers /\ hashes \in {2, 3} /\ block = 0
    /\ in = [i \in 1..16 |-> Swab(EndianData[i])] /\ state = H256 /\ reg = H256 /\ step = 0
SetBlock ==
    /\ block = 0 /\ step = 64
    /\ Fill(Dat80([i \in 1..4 |-> Swab(EndianData[16 + i])]), Sums(state, reg))
    /\ block' = 1
    /\ UNCHANGED <<words, hashes>>

\* sha256t_gpu_hash_shared, sha256d_gpu_hash_shared: the digest is hashed in its turn.
NextHash ==
    /\ block \in 1..(hashes - 1) /\ step = 64
    /\ Fill(DatDigest(Sums(state, reg)), H256)
    /\ block' = block + 1
    /\ UNCHANGED <<words, hashes>>

LastHash ==
    /\ block = hashes /\ step = LastSteps
    /\ state' = [state EXCEPT ![7] = Add(@, reg[7]), ![8] = Add(@, reg[8])]
    /\ block' = hashes + 1
    /\ UNCHANGED <<words, hashes, in, reg, step>>

\* A word is a number.
AtMost(a, b) == a = b \/ \E i \in b \ a : \A j \in (i + 1)..31 : j \in a <=> j \in b

\* Mutant of Reports: the words of the digest are not swapped.
ReportsUnswapped(buf, target) == buf[8] = {} /\ AtMost(buf[7], target[1])

\* The kernel's filter: the last two words of the digest, as one number of 64 bits,
\* against c_target[0], which is but the first of the two words of the target.
Reports(buf, target) == Swab(buf[8]) = {} /\ AtMost(Swab(buf[7]), target[1])

ShaNext == HostStep \/ BodyStep \/ LastStep \/ SetBlock \/ NextHash \/ LastHash
=============================================================================

------------------------------- MODULE Keccak -------------------------------
(***************************************************************************)
(* The three Keccak-f[1600] of the repository: that of the CPU miner       *)
(* (cpuminer/sha3.c), the unrolled one of misc/sha3.cpp and the kernels of *)
(* misc/cuda_keccak256.cu.  A lane is the set of its bits that are one;    *)
(* lane i of the code is element i + 1 of a sequence of 25.                *)
(***************************************************************************)
EXTENDS Integers, Sequences

VARIABLES
    lanes,      \* the state of keccakf
    round       \* the rounds done
keccakVars == <<lanes, round>>

LaneBits == 64
Lane == SUBSET (0..(LaneBits - 1))
State == [1..25 -> Lane]

Xor(a, b) == (a \ b) \cup (b \ a)
Rol(a, n) == {(i + n) % LaneBits : i \in a}
At(s, i) == s[i + 1]
Column(s, x) == Xor(Xor(Xor(Xor(At(s, x), At(s, x + 5)), At(s, x + 10)), At(s, x + 15)), At(s, x + 20))

\* The round constants, RC of sha3.c, KeccakF_RoundConstants of sha3.cpp and
\* keccak_round_constants35 of the kernels.
RC == <<
    {0}, {1, 7, 15}, {1, 3, 7, 15, 63}, {15, 31, 63}, {0, 1, 3, 7, 15}, {0, 31},
    {0, 7, 15, 31, 63}, {0, 3, 15, 63}, {1, 3, 7}, {3, 7}, {0, 3, 15, 31}, {1, 3, 31},
    {0, 1, 3, 7, 15, 31}, {0, 1, 3, 7, 63}, {0, 3, 7, 15, 63}, {0, 1, 15, 63}, {1, 15, 63}, {7, 63},
    {1, 3, 15}, {1, 3, 31, 63}, {0, 7, 15, 31, 63}, {7, 15, 63}, {0, 31}, {3, 15, 31, 63} >>

-----------------------------------------------------------------------------
(* sha3.c.                                                                 *)

Rho == <<1, 3, 6, 10, 15, 21, 28, 36, 45, 55, 2, 14, 27, 41, 56, 8, 25, 43, 62, 18, 39, 61, 20, 44>>
Pi == <<10, 7, 11, 17, 18, 3, 5, 16, 8, 21, 24, 4, 15, 23, 19, 13, 12, 2, 20, 14, 22, 9, 6, 1>>

Theta(a) ==
    LET b == <<Column(a, 0), Column(a, 1), Column(a, 2), Column(a, 3), Column(a, 4)>>
        d == [x \in 0..4 |-> Xor(At(b, (x + 4) % 5), Rol(At(b, (x + 1) % 5), 1))]
    IN <<>> \o [i \in 1..25 |-> Xor(a[i], d[(i - 1) % 5])]

\* Rho and pi, in place, after so many turns: t is the lane taken out to make room for
\* the one before.
Turned(a) ==
    LET turned[x \in 0..24] ==
          IF x = 0 THEN [a |-> a, t |-> At(a, 1)]
          ELSE LET at == turned[x - 1] IN
               [a |-> [at.a EXCEPT ![Pi[x] + 1] = Rol(at.t, Rho[x])], t |-> At(at.a, Pi[x])]
    IN turned
RhoPi(a) == Turned(a)[24].a

\* Mutant of Chi: the lane that is inverted and the other one are swapped.
ChiSwapped(a) ==
    <<>> \o [i \in 1..25 |->
        LET x == (i - 1) % 5
            y == i - x
        IN Xor(a[i], a[y + ((x + 1) % 5)] \ a[y + ((x + 2) % 5)])]

Chi(a) ==
    <<>> \o [i \in 1..25 |->
        LET x == (i - 1) % 5
            y == i - x
        IN Xor(a[i], a[y + ((x + 2) % 5)] \ a[y + ((x + 1) % 5)])]

Iota(a, c) == [a EXCEPT ![1] = Xor(@, c)]

\* The body of the loop of keccakf.
KeccakRound(a, c) == Iota(Chi(RhoPi(Theta(a))), c)

\* keccakf.
Rounds == 24
NextRound == round < Rounds /\ round' = round + 1 /\ lanes' = KeccakRound(lanes, RC[round + 1])

-----------------------------------------------------------------------------
(* sha3.cpp: each row of the result is made of five lanes, which no other  *)
(* row needs, turned by so much.                                           *)

Rows == <<
    <<0, 0>>, <<6, 44>>, <<12, 43>>, <<18, 21>>, <<24, 14>>,
    <<3, 28>>, <<9, 20>>, <<10, 3>>, <<16, 45>>, <<22, 61>>,
    <<1, 1>>, <<7, 6>>, <<13, 25>>, <<19, 8>>, <<20, 18>>,
    <<4, 27>>, <<5, 36>>, <<11, 10>>, <<17, 15>>, <<23, 56>>,
    <<2, 62>>, <<8, 55>>, <<14, 39>>, <<15, 41>>, <<21, 2>> >>

\* Half of the body of the loop: from the A lanes to the E lanes, or back.
UnrolledRound(a, c) ==
    LET b == [x \in 0..4 |-> Column(a, x)]
        d == [x \in 0..4 |-> Xor(b[(x + 4) % 5], Rol(b[(x + 1) % 5], 1))]
        bc == <<>> \o [i \in 1..25 |-> Rol(Xor(At(a, Rows[i][1]), d[Rows[i][1] % 5]), Rows[i][2])]
        e == <<>> \o [i \in 1..25 |->
                LET y == 5 * ((i - 1) \div 5) IN
                Xor(bc[i], bc[y + ((i + 1) % 5) + 1] \ bc[y + (i % 5) + 1])]
    IN Iota(e, c)

-----------------------------------------------------------------------------
(* cuda_keccak256.cu: in place, lane by lane, <<to, from, turn>>.          *)

Moves == <<
    <<1, 6, 44>>, <<6, 9, 20>>, <<9, 22, 61>>, <<22, 14, 39>>, <<14, 20, 18>>, <<20, 2, 62>>,
    <<2, 12, 43>>, <<12, 13, 25>>, <<13, 19, 8>>, <<19, 23, 56>>, <<23, 15, 41>>, <<15, 4, 27>>,
    <<4, 24, 14>>, <<24, 21, 2>>, <<21, 8, 55>>, <<8, 16, 45>>, <<16, 5, 36>>, <<5, 3, 28>>,
    <<3, 18, 21>>, <<18, 17, 15>>, <<17, 11, 10>>, <<11, 7, 6>>, <<7, 10, 3>> >>

BitSelect(a, b, c) == Xor(a, c \cap Xor(b, a))

\* Lanes 5 * y to 5 * y + 4: the first two are kept, for they are overwritten.
SelectRow(s, y) ==
    LET i == 5 * y + 1
        tmp1 == s[i]
        tmp2 == s[i + 1]
        s0 == [s EXCEPT ![i] = BitSelect(Xor(@, s[i + 2]), @, s[i + 1])]
        s1 == [s0 EXCEPT ![i + 1] = BitSelect(Xor(@, s0[i + 3]), @, s0[i + 2])]
        s2 == [s1 EXCEPT ![i + 2] = BitSelect(Xor(@, s1[i + 4]), @, s1[i + 3])]
        s3 == [s2 EXCEPT ![i + 3] = BitSelect(Xor(@, tmp1), @, s2[i + 4])]
    IN [s3 EXCEPT ![i + 4] = BitSelect(Xor(@, tmp2), @, tmp1)]

Sums(s) == <<Column(s, 0), Column(s, 1), Column(s, 2), Column(s, 3), Column(s, 4)>>

\* The rows of the state, one after the other.
Selected(s) ==
    LET selected[y \in 0..5] == IF y = 0 THEN s ELSE SelectRow(selected[y - 1], y - 1)
    IN selected
SelectRows(s) == Selected(s)[5]

\* One turn of the loop of keccak_block and of keccak256_gpu_hash_80, after so many moves.
Feed(s) == LET sums == Sums(s) IN [x \in 0..4 |-> Xor(At(sums, x), Rol(At(sums, (x + 2) % 5), 1))]
Moved(s) ==
    LET bc == Feed(s)
        moved[k \in 0..23] ==
          IF k = 0 THEN [s EXCEPT ![1] = Xor(@, bc[4])]
          ELSE LET t == moved[k - 1]
                   m == Moves[k]
               IN [t EXCEPT ![m[1] + 1] = Rol(Xor(At(t, m[2]), bc[(m[2] + 4) % 5]), m[3])]
    IN moved
KernelRound(s, c) ==
    LET tmp1 == Xor(At(s, 1), Feed(s)[0])
    IN Iota(SelectRows([Moved(s)[23] EXCEPT ![11] = Rol(tmp1, 1)]), c)

\* keccak256_gpu_hash_80: ten lanes of message, the lanes 10 and 16 of padding; the
\* lanes it does not set are the ones its first round leaves out.
PaddedMessage80(message) ==
    message \o << {0} >> \o [i \in 1..14 |-> IF i = 6 THEN {63} ELSE {}]

\* The first round of keccak256_gpu_hash_80, which leaves the empty lanes out:
\* <<to, from, sum, turn>>, from None for the sum alone.
None == -1
FirstMoves == <<
    <<1, 6, 0, 44>>, <<6, 9, 3, 20>>, <<9, None, 1, 61>>, <<22, None, 3, 39>>, <<14, None, 4, 18>>,
    <<20, 2, 1, 62>>, <<2, None, 1, 43>>, <<12, None, 2, 25>>, <<13, None, 3, 8>>, <<19, None, 2, 56>>,
    <<23, None, 4, 41>>, <<15, 4, 3, 27>>, <<4, None, 3, 14>>, <<24, None, 0, 2>>, <<21, 8, 2, 55>>,
    <<8, 16, 0, 45>>, <<16, 5, 4, 36>>, <<5, 3, 2, 28>>, <<3, None, 2, 21>>, <<18, None, 1, 15>>,
    <<17, None, 0, 10>>, <<11, 7, 1, 6>>, <<7, 10, 4, 3>> >>

FirstMoved(s) ==
    LET bc == Feed(s)
        moved[k \in 0..23] ==
          IF k = 0 THEN s
          ELSE LET m == FirstMoves[k]
                   lane == IF m[2] = None THEN {} ELSE At(s, m[2])
               IN [moved[k - 1] EXCEPT ![m[1] + 1] = Rol(Xor(lane, bc[m[3]]), m[4])]
    IN moved
FirstRound(message) ==
    LET s == PaddedMessage80(message)
        bc == Feed(s)
        moved == [FirstMoved(s)[23] EXCEPT ![1] = Xor(At(s, 0), bc[4]), ![11] = Rol(Xor(At(s, 1), bc[0]), 1)]
    IN Iota(SelectRows(moved), {0})

\* keccak256_gpu_hash_32: four lanes of message.
PaddedMessage32(message) ==
    message \o << {0} >> \o [i \in 1..20 |-> IF i = 12 THEN {63} ELSE {}]

\* Mutant of LastLane: the lane turned by 14 is not inverted.
LastLaneKept(s) ==
    LET t == Sums(s)
        s0 == Xor(At(s, 0), Xor(At(t, 4), Rol(At(t, 1), 1)))
        s18 == Xor(At(s, 18), Xor(At(t, 2), Rol(At(t, 4), 1)))
        s24 == Xor(At(s, 24), Xor(At(t, 3), Rol(At(t, 0), 1)))
    IN Xor(Rol(s18, 21), s0 \cap Rol(s24, 14))

\* The last round of keccak256_gpu_hash_80, cut down to what lane 3 needs.
LastLane(s) ==
    LET t == Sums(s)
        s0 == Xor(At(s, 0), Xor(At(t, 4), Rol(At(t, 1), 1)))
        s18 == Xor(At(s, 18), Xor(At(t, 2), Rol(At(t, 4), 1)))
        s24 == Xor(At(s, 24), Xor(At(t, 3), Rol(At(t, 0), 1)))
    IN Xor(Rol(s18, 21), s0 \ Rol(s24, 14))

\* The bytes of a lane, lowest first, as the sponge sees them.
LanesOf(bytes) ==
    <<>> \o [i \in 1..25 |->
        UNION {{8 * j + b : b \in bytes[8 * (i - 1) + j + 1]} : j \in {j \in 0..7 : 8 * (i - 1) + j < Len(bytes)}}]

-----------------------------------------------------------------------------
(* The sponge, on messages of lanes' bytes: what is absorbed, block after  *)
(* block.  Rate stands for 136.                                            *)

CONSTANTS Rate

\* Mutant of LastBlock: what is left is taken for a block when it is one byte short.
LastBlockFull(rest) ==
    [i \in 1..Rate |->
        IF i <= Len(rest) THEN rest[i] ELSE IF i = Rate THEN {7} ELSE IF i = Len(rest) + 1 THEN {0} ELSE {}]

\* hash: the delimiter behind what is left, the last bit of the frame, in one byte
\* if there is room for one only.
LastBlock(rest) ==
    [i \in 1..Rate |->
        Xor(Xor(IF i <= Len(rest) THEN rest[i] ELSE {}, IF i = Len(rest) + 1 THEN {0} ELSE {}),
            IF i = Rate THEN {7} ELSE {})]

\* What is behind the first so many bytes.
Behind(in, done) == SubSeq(in, done + 1, Len(in))

\* The blocks when so many bytes are still to be absorbed.
Absorbed(in) ==
    LET absorbed[inlen \in 0..Len(in)] ==
          LET rest == Behind(in, Len(in) - inlen) IN
          IF inlen >= Rate THEN <<SubSeq(rest, 1, Rate)>> \o absorbed[inlen - Rate] ELSE <<LastBlock(rest)>>
    IN absorbed[Len(in)]

\* crypto_hash of sha3.cpp: temp is what is left, then 1, then zeros.
TempBlock(rest) ==
    LET temp == rest \o << {0} >> \o [i \in 1..(Rate - Len(rest) - 1) |-> {}] IN
    [temp EXCEPT ![Rate] = @ \cup {7}]

CryptoAbsorbed(in) ==
    LET absorbed[inlen \in 0..Len(in)] ==
          LET rest == Behind(in, Len(in) - inlen) IN
          IF inlen >= Rate THEN <<SubSeq(rest, 1, Rate)>> \o absorbed[inlen - Rate] ELSE <<TempBlock(rest)>>
    IN absorbed[Len(in)]
=============================================================================

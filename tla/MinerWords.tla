----------------------------- MODULE MinerWords -----------------------------
(***************************************************************************)
(* The words of the device and the bytes of the solver, next to the        *)
(* operations and numbers they stand for, and the kernels' SHA-256 and the *)
(* three Keccak-f next to the standards.  An input is a kind and parts:    *)
(* the bits of a word, the characters of a target, the words of a digest   *)
(* and of a target, the lanes of a header.                                 *)
(***************************************************************************)
EXTENDS HeaderHash, Inputs

CONSTANTS
    NumBytes,   \* of SolverBytes
    Digests,    \* the digests a target is compared with
    Rate        \* of Keccak

VARIABLES
    lanes, round    \* of Keccak
keccakVars == <<lanes, round>>

ASSUME DigestAssumption == NumBytes \in Nat \ {0} /\ Digests \subseteq [1..NumBytes -> 0..255]

Cuda == INSTANCE CudaWords
Solver == INSTANCE SolverBytes

\* The characters that fromAscii knows.
HexCharacters == Solver!Digits \cup Solver!SmallLetters \cup Solver!BigLetters

\* What an input of these kinds is.
IsInput ==
    /\ Kind("word") => Parts \in Seq(0..63)
    /\ Kind("target") => Parts \in Seq(HexCharacters) /\ Len(Parts) <= 2 * NumBytes
    /\ Kind("filter") => Parts \in Seq(SUBSET (0..31))

-----------------------------------------------------------------------------
(* What cuda_helper.h promises, on words as sets of bits.                  *)

BitsOf(s) == {s[i] : i \in DOMAIN s}
Left(v, n) == {(b + n) % 64 : b \in v}
Right(v, n) == {(b + 64 - n) % 64 : b \in v}
Turned(v, width) == {width - 8 - 8 * (b \div 8) + (b % 8) : b \in v}

\* Each of the forms is the operation, given a word and its two halves.
RotatesLeft(v, a, n) ==
    {Cuda!ROTL64(v, n), Cuda!ROTL64_shifts(v, n), Cuda!ROTL64_select(v, n), Cuda!devectorize(Cuda!ROL2(a, n)),
     Cuda!devectorize(Cuda!ROL2_shifts(a, n)), Cuda!devectorize(Cuda!ROL2_misc(a, n))} = {Left(v, n)}
RotatesRight(v, a, n) ==
    {Cuda!ROTR64(v, n), Cuda!ROTR64_shifts(v, n), Cuda!devectorize(Cuda!ROR2(a, n)),
     Cuda!devectorize(Cuda!ROR2_shifts(a, n)), Cuda!devectorize(Cuda!ROR2_misc(a, n))} = {Right(v, n)}
Shifts(v, a, n) ==
    /\ Cuda!devectorize(Cuda!SHL2_shifts(a, n)) = Cuda!Up(v, n, 64)
    /\ Cuda!devectorize(Cuda!SHR2_shifts(a, n)) = Cuda!Down(v, n)
    /\ n < 32 => /\ Cuda!devectorize(Cuda!SHL2(a, n)) = Cuda!Up(v, n, 64)
                 /\ Cuda!devectorize(Cuda!SHR2(a, n)) = Cuda!Down(v, n)
RotatesBytes(v, a) ==
    /\ \A n \in {8, 16, 24} :
         Cuda!devectorize(Cuda!ROL_misc(a)[n]) = Left(v, n) /\ Cuda!devectorize(Cuda!ROR_misc(a)[n]) = Right(v, n)
    /\ Cuda!devectorize(Cuda!ROL8(a)) = Left(v, 8)
    /\ Cuda!devectorize(Cuda!ROR16(a)) = Right(v, 16) /\ Cuda!devectorize(Cuda!ROR24(a)) = Right(v, 24)
TurnsBytes(v, a) ==
    /\ {Cuda!cuda_swab64(v), Cuda!cuda_swab64_host(v)} = {Turned(v, 64)}
    /\ {Cuda!cuda_swab32(a[1]), Cuda!cuda_swab32_host(a[1])} = {Turned(a[1], 32)}
Mixes(a, b, c) ==
    Cuda!xor3x(a, b, c) = Xor(Xor(a, b), c) /\ Cuda!chi(a, b, c) = Xor(a, c \ b)

\* Every form of a rotation, of a byte order and of a Boolean table in the two
\* cuda_helper.h is the operation it stands for, rotations by 0, by 32 and past it
\* included; the shifts are, as far as both forms agree, by less than 32.
HelpersDoTheirOperation ==
    Kind("word") =>
        LET v == BitsOf(Parts)
            a == Cuda!vectorize(v)
        IN /\ \A n \in 0..63 : RotatesLeft(v, a, n) /\ RotatesRight(v, a, n) /\ Shifts(v, a, n)
           /\ RotatesBytes(v, a) /\ TurnsBytes(v, a)
           /\ Mixes(a[1], a[2], 16..31) /\ Mixes(a[1], 16..31, {0, 2, 17, 31})

-----------------------------------------------------------------------------
(* What solver.cpp promises of numbers.                                    *)

\* The number that digits to a base are, the highest first.
NumberOf(base, digits) ==
    LET upTo[i \in 0..Len(digits)] == IF i = 0 THEN 0 ELSE base * upTo[i - 1] + digits[i]
    IN upTo[Len(digits)]

\* A target is the number its digits are, however many there are of them, and bytes are
\* compared as the numbers they are; what a solution is written as is read back as it was
\* (setTarget, lte, bytesToString).
TargetIsItsNumber ==
    Kind("target") =>
        LET target == Solver!SetTarget(Solver!Prefix0x \o Parts)
            number == NumberOf(16, [i \in DOMAIN Parts |-> Solver!FromAscii(Parts[i])])
        IN /\ Len(target) = NumBytes
           /\ \A digest \in Digests :
                /\ Solver!Lte(digest, target) <=> NumberOf(256, digest) <= number
                /\ Solver!HexToBytes(Solver!BytesToString(digest)) = digest

\* The word operations of the device and the conversions of the solver keep the number
\* that words and bytes stand for.
WordsKeepTheirValue == HelpersDoTheirOperation /\ TargetIsItsNumber

-----------------------------------------------------------------------------
(* What the kernels promise of their hash.                                 *)

\* Against a target below 2^224 the kernel reports all that the host accepts by its two
\* highest words, and nothing else; against a larger one, nothing that the host refuses
\* (sha256t_gpu_hash_shared, c_target).
FilterIsThatOfTheHost ==
    Kind("filter") /\ Len(Parts) = 4 =>
        LET buf == << {}, {}, {}, {}, {}, {}, Swab(Parts[1]), Swab(Parts[2]) >>
            target == <<Parts[3], Parts[4]>>
            below == IF Parts[2] = Parts[4] THEN AtMost(Parts[1], Parts[3]) ELSE AtMost(Parts[2], Parts[4])
        IN (Reports(buf, target) => below) /\ (Parts[4] = {} /\ below => Reports(buf, target))

\* The SHA-256 of the kernels is the standard's, shortened last round included, and the
\* filter behind it passes what the host accepts.
Sha256IsFips180 == RegistersAreFips /\ LastWordsAreRight /\ FilterIsThatOfTheHost

-----------------------------------------------------------------------------
(* What the implementations of Keccak-f promise, round by round.           *)

Sponge == INSTANCE Keccak
Sha3 == INSTANCE KeccakReference

\* Any state, and that of any header of ten lanes.
KeccakInit ==
    /\ round = 0 /\ lanes \in Sponge!State
    /\ Kind("header") => Parts \in [1..10 -> Sponge!Lane] /\ lanes = Sponge!PaddedMessage80(Parts)
KeccakSpec == KeccakInit /\ [][Sponge!NextRound /\ UNCHANGED input]_<<keccakVars, input>>

\* The three round functions, in place with temporaries (sha3.c), unrolled (sha3.cpp)
\* and lane by lane on the device (cuda_keccak256.cu), are that of FIPS 202; so is the
\* first round that knows which lanes of a header are empty.
RoundsAgree ==
    round < Sponge!Rounds =>
        LET c == Sponge!RC[round + 1]
            next == Sponge!KeccakRound(lanes, c)
        IN /\ next = Sponge!UnrolledRound(lanes, c)
           /\ next = Sponge!KernelRound(lanes, c)
           /\ next = Sha3!Round(lanes, c)
           /\ Kind("header") /\ round = 0 => next = Sponge!FirstRound(Parts)

\* The last round of the mining kernel computes three lanes of twenty-five, and that is
\* enough for the lane it compares with the target (keccak256_gpu_hash_80).
LastLaneIsEnough ==
    round = Sponge!Rounds - 1 =>
        Sponge!LastLane(lanes) = Sponge!KeccakRound(lanes, Sponge!RC[Sponge!Rounds])[4]

\* The Keccak that the miner hashes with, on the host and on the device, is the
\* standard's, round by round, shortened rounds included.
KeccakIsFips202 == RoundsAgree /\ LastLaneIsEnough
=============================================================================

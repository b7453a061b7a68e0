----------------------------- MODULE HeaderHash -----------------------------
(***************************************************************************)
(* A thread of the SHA-256 kernels next to the SHA-256 of FIPS 180-4: the  *)
(* two go from step to step and from block to block together, and the      *)
(* standard goes on when the kernel has what it needs.                     *)
(***************************************************************************)
EXTENDS Sha256

VARIABLES
    fips    \* v of a round and W up to it, the hash value, the blocks to come, the rounds done

Fips == INSTANCE Sha256Reference
Digest == [i \in 1..8 |-> Fips!Plus(fips.hash[i], fips.v[i])]
Begun(hash, message, rest) == [v |-> hash, hash |-> hash, W |-> message, rest |-> rest, t |-> 0]

HeaderInit(headers) ==
    /\ ShaInit(headers)
    /\ fips = Begun(H256, SubSeq(words, 1, 16), SubSeq(Fips!Padded(words), 17, 32))

FipsRound ==
    /\ fips.t < 64
    /\ fips' = [fips EXCEPT !.t = @ + 1, !.v = Fips!Round(@, fips.W[fips.t + 1], K[fips.t + 1]),
                            !.W = Append(@, Fips!Next(@))]
FipsBlock ==
    fips' = IF fips.rest # <<>> THEN Begun(Digest, fips.rest, <<>>) ELSE Begun(H256, Fips!Padded(Digest), <<>>)

HostStepped == HostStep /\ FipsRound
BodyStepped == BodyStep /\ FipsRound
LastStepped == LastStep /\ FipsRound
BlockSet == SetBlock /\ FipsBlock
HashedOn == NextHash /\ FipsBlock
Hashed == LastHash /\ UNCHANGED fips
FipsAlone == block = hashes + 1 /\ FipsRound /\ UNCHANGED shaVars

HeaderNext ==
    HostStepped \/ BodyStepped \/ LastStepped \/ BlockSet \/ HashedOn \/ Hashed \/ FipsAlone

\* With any header.
HeaderSpec == HeaderInit([1..20 -> SUBSET (0..31)]) /\ [][HeaderNext]_<<shaVars, fips>>

-----------------------------------------------------------------------------

\* Step by step, the registers of the code are the variables of the standard under other
\* names, and its ring of sixteen words is the schedule (sha2_step1, sha2_step2, the
\* order of the parameters in sha256_round_body and sha256_round_last).
RegistersAreFips ==
    block <= hashes =>
        /\ step = fips.t /\ state = fips.hash
        /\ \A p \in 0..7 : reg[((p + 64 - step) % 8) + 1] = fips.v[p + 1]

\* The two rounds that sha256_round_last leaves out do not matter to what the kernel
\* looks at: the last two words of the digest are those of the standard.
LastWordsAreRight ==
    block = hashes + 1 /\ fips.t = 64 => state[7] = Digest[7] /\ state[8] = Digest[8]
=============================================================================

----------------------------- MODULE SoloMining -----------------------------
(***************************************************************************)
(* Solo style as a whole: the session of 0xbitcoinminer-accel.js, the      *)
(* network interface it hands its blocks to, and the token contract that   *)
(* both talk to.  The contract's challenge is the one the session collects *)
(* and the one a mint transaction has to solve, at the contract's target   *)
(* of that moment; minting, by this wallet or by anyone, begins the next.  *)
(***************************************************************************)
EXTENDS MiningSession, Sequences

CONSTANT NetworkFaults   \* what the interface's requests may meet

ASSUME SoloAssumption == MiningStyle = "solo"
ASSUME NetworkFaultsAssumption == NetworkFaults \subseteq {"failed", "unanswered"}

VARIABLES
    challengeOf, queue, last, at, txCount,     \* the network interface
    confirmed, mempool, minted, overlapped     \* the chain, as it sees it

Net == INSTANCE NetworkInterface WITH challenge <- source.challenge, Faults <- NetworkFaults

netVars == <<challengeOf, queue, last, at, txCount, confirmed, mempool, minted, overlapped>>
soloVars == <<vars, netVars>>

SoloInit == Init /\ Net!Init

-----------------------------------------------------------------------------

\* The timer of the session, its reads and the mining threads.
SessionStep ==
    /\ Collect \/ Find
    /\ UNCHANGED netVars

Found == [challenge |-> closure.challenge, target |-> closure.target, nonce |-> outcome.nonce]

\* The callback of a run: a verified solution goes to queueMiningSolution.
HandOver ==
    /\ Callback
    /\ IF Verified(outcome.nonce)
         THEN Net!Queue(Found, closure.challenge)
         ELSE UNCHANGED netVars

\* The timer of the interface, its requests and their answers.
NetworkStep ==
    /\ UNCHANGED vars
    /\ \/ Net!SendMiningSolutions
       \/ \E b \in Blocks :
            Net!ReadCount(b) \/ Net!SendTransaction(b) \/ Net!Receive(b) \/ Net!Fail(b)

\* The contract's test of a solution is that of the session, with its own target.
Meets(b) == Keccak(b.challenge, HashingAddress, b.nonce) <= source.target

\* The wallet's next transaction is mined.
MineTransaction ==
    \E tx \in mempool :
        /\ IF Meets(tx.block) /\ tx.block.challenge = source.challenge
             THEN NewBlock ELSE UNCHANGED vars
        /\ Net!MineTransaction(tx, Meets(tx.block))

OthersMint ==
    /\ NewBlock
    /\ Net!OthersMint

SoloNext ==
    \/ SessionStep
    \/ HandOver
    \/ NetworkStep
    \/ MineTransaction
    \/ OthersMint

SoloSpec == SoloInit /\ [][SoloNext]_soloVars

-----------------------------------------------------------------------------
(* Properties, beside those of the session, which the contract now drives. *)

\* Every variable keeps its type.
SoloTypeOK == TypeOK /\ Net!TypeOK

\* One block at most is handed over for a challenge, so the interface, which only
\* remembers the challenge submitted last and takes the last block first, never
\* drops a block and never submits a second one for a challenge.
OneBlockPerChallenge ==
    /\ \A b1, b2 \in handed : b1.challenge = b2.challenge => b1 = b2
    /\ \A b \in Blocks : at[b] # "skipped"

\* What has become of a block that will not mint: a request failed, its answer was
\* lost, the node refused it, or it does not meet the contract's target, and its
\* transaction reverts.
Lost(b) == at[b] \in {"failed", "unanswered", "refused"} \/ ~Meets(b)

\* The miner rests on the contract's challenge only as long as its block is on its
\* way, unless it was lost: nobody submits it again, and nothing mines on until
\* somebody else has minted.  It also rests after a run whose parameters changed.
RestsWhileOnTheWay ==
    ~mining /\ challengeNumber = source.challenge /\ ~disturbed =>
        \E b \in handed :
            /\ b.challenge = source.challenge
            /\ at[b] \in {"none", "count", "send", "wait"} \/ Lost(b)
            /\ at[b] = "none" => \E i \in DOMAIN queue : queue[i] = b
=============================================================================

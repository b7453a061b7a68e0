-------------------------- MODULE NetworkInterface --------------------------
(***************************************************************************)
(* lib/network-interface.js in solo style: the stack of solved blocks, the *)
(* timer that takes one off it, and the submissions it starts, each an     *)
(* async function that asks the node for the wallet's transaction count,   *)
(* sends a mint transaction with that count as its nonce, and waits until  *)
(* it is mined.  The busy flag is never raised, so submissions overlap.    *)
(*                                                                         *)
(* The node, the wallet's account and the token contract are external and  *)
(* modelled by what the code asks of them.  The wallet signs nothing else, *)
(* all transactions offer the same fee, and a transaction once accepted    *)
(* stays in the mempool until it is mined, which may be never.             *)
(***************************************************************************)
EXTENDS Integers, Sequences

CONSTANTS
    Blocks,        \* the solved blocks the session may hand over
    MaxChallenge,  \* bound: challenges are numbered 1 .. MaxChallenge
    Faults         \* what a request may meet: a subset of {"failed", "unanswered"}

ASSUME BoundAssumption == MaxChallenge \in Nat \ {0}
ASSUME FaultsAssumption == Faults \subseteq {"failed", "unanswered"}

Challenges == 1..MaxChallenge

\* The challenge of a block that has not been handed over, and the initial value
\* of lastSubmittedMiningSolutionChallengeNumber.
Unset == 0

VARIABLES
    challengeOf,   \* the challenge each block handed over solves
    queue,         \* queuedMiningSolutions
    last,          \* lastSubmittedMiningSolutionChallengeNumber
    at,            \* where the submission of a block is, or how it ended
    txCount,       \* the transaction count a submission was told
    challenge,     \* (external) the contract's current challenge
    confirmed,     \* (external) the number of the wallet's mined transactions
    mempool,       \* (external) the wallet's transactions that are not mined yet
    minted,        \* (external) the blocks that were rewarded
    overlapped     \* (history) blocks whose submission met another in flight

clientVars == <<challengeOf, queue, last>>
chainVars  == <<challenge, confirmed, mempool, minted>>
vars == <<clientVars, at, txCount, chainVars, overlapped>>

InFlight(b) == at[b] \in {"count", "send", "wait"}

Init ==
    /\ challengeOf = [b \in Blocks |-> Unset]
    /\ queue = <<>>
    /\ last = Unset
    /\ at = [b \in Blocks |-> "none"]
    /\ txCount = [b \in Blocks |-> 0]
    /\ challenge = 1
    /\ confirmed = 0
    /\ mempool = {}
    /\ minted = {}
    /\ overlapped = {}

-----------------------------------------------------------------------------
(* The session and the timer.                                              *)

\* queueMiningSolution: a block for a challenge the contract has reached.
Queue(b, c) ==
    /\ challengeOf[b] = Unset
    /\ c <= challenge
    /\ challengeOf' = [challengeOf EXCEPT ![b] = c]
    /\ queue' = Append(queue, b)
    /\ UNCHANGED <<last, at, txCount, chainVars, overlapped>>

\* pop: the block queued last.
Top == queue[Len(queue)]

\* A submission begins; those in flight with it overlap.
Begin(b) ==
    LET others == {o \in Blocks \ {b} : InFlight(o)} IN
    /\ at' = [at EXCEPT ![b] = "count"]
    /\ overlapped' = IF others = {} THEN overlapped ELSE overlapped \cup others \cup {b}

\* Mutant of SendMiningSolutions: the busy flag is raised until the submission ends.
SendWhenIdle ==
    /\ queue # <<>>
    /\ \A b \in Blocks : ~InFlight(b)
    /\ queue' = SubSeq(queue, 1, Len(queue) - 1)
    /\ IF challengeOf[Top] # last
         THEN last' = challengeOf[Top] /\ Begin(Top)
         ELSE at' = [at EXCEPT ![Top] = "skipped"] /\ UNCHANGED <<last, overlapped>>
    /\ UNCHANGED <<challengeOf, txCount, chainVars>>

\* Mutant of SendMiningSolutions: the block is noted instead of its challenge.
SendNotingTheBlock ==
    /\ queue # <<>>
    /\ queue' = SubSeq(queue, 1, Len(queue) - 1)
    /\ IF challengeOf[Top] # last
         THEN last' = Top /\ Begin(Top)
         ELSE at' = [at EXCEPT ![Top] = "skipped"] /\ UNCHANGED <<last, overlapped>>
    /\ UNCHANGED <<challengeOf, txCount, chainVars>>

\* Mutant of SendMiningSolutions: the busy flag is asked after the pop, so a block
\* taken while a submission is in flight is lost.
SendLosingWhenBusy ==
    /\ queue # <<>>
    /\ queue' = SubSeq(queue, 1, Len(queue) - 1)
    /\ IF \A b \in Blocks : ~InFlight(b)
         THEN last' = challengeOf[Top] /\ Begin(Top)
         ELSE at' = [at EXCEPT ![Top] = "skipped"] /\ UNCHANGED <<last, overlapped>>
    /\ UNCHANGED <<challengeOf, txCount, chainVars>>

\* sendMiningSolutions, every 500 ms: a block for the challenge submitted last is
\* dropped.
SendMiningSolutions ==
    /\ queue # <<>>
    /\ queue' = SubSeq(queue, 1, Len(queue) - 1)
    /\ IF challengeOf[Top] # last
         THEN last' = challengeOf[Top] /\ Begin(Top)
         ELSE at' = [at EXCEPT ![Top] = "skipped"] /\ UNCHANGED <<last, overlapped>>
    /\ UNCHANGED <<challengeOf, txCount, chainVars>>

-----------------------------------------------------------------------------
(* submitMiningSolution.                                                   *)

\* Mutant of ReadCount: transactions in the mempool are counted.
ReadPendingCount(b) ==
    /\ at[b] = "count"
    /\ txCount' = [txCount EXCEPT ![b] = confirmed + (IF mempool = {} THEN 0 ELSE 1)]
    /\ at' = [at EXCEPT ![b] = "send"]
    /\ UNCHANGED <<clientVars, chainVars, overlapped>>

\* getTransactionCount: the number of mined transactions.
ReadCount(b) ==
    /\ at[b] = "count"
    /\ txCount' = [txCount EXCEPT ![b] = confirmed]
    /\ at' = [at EXCEPT ![b] = "send"]
    /\ UNCHANGED <<clientVars, chainVars, overlapped>>

\* A node refuses a nonce that is used up, or that a transaction of the same fee
\* in its mempool has.
Refuses(nonce) == nonce < confirmed \/ \E tx \in mempool : tx.nonce = nonce

\* sendTransaction; the answer of a node that has accepted it may be lost.
SendTransaction(b) ==
    /\ at[b] = "send"
    /\ IF Refuses(txCount[b])
         THEN at' = [at EXCEPT ![b] = "refused"] /\ mempool' = mempool
         ELSE /\ mempool' = mempool \cup {[block |-> b, nonce |-> txCount[b]]}
              /\ \E s \in {"wait"} \cup (Faults \cap {"unanswered"}) : at' = [at EXCEPT ![b] = s]
    /\ UNCHANGED <<clientVars, txCount, challenge, confirmed, minted, overlapped>>

\* Mutant of Receive: the submission ends with the transaction's hash.
ReceiveHash(b) ==
    /\ at[b] = "wait"
    /\ at' = [at EXCEPT ![b] = "mined"]
    /\ UNCHANGED <<clientVars, txCount, chainVars, overlapped>>

\* wait() ends once the transaction is mined, whether it minted or reverted.
Receive(b) ==
    /\ at[b] = "wait"
    /\ \A tx \in mempool : tx.block # b
    /\ at' = [at EXCEPT ![b] = "mined"]
    /\ UNCHANGED <<clientVars, txCount, chainVars, overlapped>>

\* A request that did not reach the node: the error is caught and returned, and
\* nobody tries again.
Fail(b) ==
    /\ "failed" \in Faults
    /\ at[b] \in {"count", "send"}
    /\ at' = [at EXCEPT ![b] = "failed"]
    /\ UNCHANGED <<clientVars, txCount, chainVars, overlapped>>

-----------------------------------------------------------------------------
(* The chain.                                                              *)

\* The wallet's next transaction is mined: it mints if its block solves the current
\* challenge and meets the contract's target, which may not be the one it was mined
\* for; the challenge is then over.  Otherwise it reverts and its gas is spent.
MineTransaction(tx, meets) ==
    /\ tx.nonce = confirmed
    /\ confirmed' = confirmed + 1
    /\ mempool' = mempool \ {tx}
    /\ IF meets /\ challengeOf[tx.block] = challenge
         THEN /\ challenge < MaxChallenge
              /\ challenge' = challenge + 1
              /\ minted' = minted \cup {tx.block}
         ELSE UNCHANGED <<challenge, minted>>
    /\ UNCHANGED <<clientVars, at, txCount, overlapped>>

\* Somebody else mints.
OthersMint ==
    /\ challenge < MaxChallenge
    /\ challenge' = challenge + 1
    /\ UNCHANGED <<clientVars, at, txCount, confirmed, mempool, minted, overlapped>>

-----------------------------------------------------------------------------

Next ==
    \/ \E b \in Blocks, c \in Challenges : Queue(b, c)
    \/ SendMiningSolutions
    \/ \E b \in Blocks : ReadCount(b) \/ SendTransaction(b) \/ Receive(b) \/ Fail(b)
    \/ \E tx \in mempool, meets \in BOOLEAN : MineTransaction(tx, meets)
    \/ OthersMint

Spec == Init /\ [][Next]_vars

\* The timer fires and the node answers; nothing says that a transaction is mined.
Fairness ==
    /\ WF_vars(SendMiningSolutions)
    /\ \A b \in Blocks : WF_vars(ReadCount(b) \/ SendTransaction(b) \/ Receive(b) \/ Fail(b))

LiveSpec == Spec /\ Fairness

-----------------------------------------------------------------------------
(* Properties.                                                             *)

\* Every variable keeps its type.
TypeOK ==
    /\ challengeOf \in [Blocks -> Challenges \cup {Unset}]
    /\ queue \in Seq(Blocks)
    /\ last \in Challenges \cup {Unset}
    /\ at \in [Blocks -> {"none", "skipped", "count", "send", "wait", "mined", "refused",
                          "failed", "unanswered"}]
    /\ txCount \in [Blocks -> Nat]
    /\ challenge \in Challenges
    /\ confirmed \in Nat
    /\ mempool \subseteq [block : Blocks, nonce : Nat]
    /\ minted \subseteq Blocks
    /\ overlapped \subseteq Blocks

\* However the submissions overlap, at most one transaction of the wallet is ever
\* pending, and it is the next to be mined: none is left behind a gap in the nonces,
\* and the answers to the submissions cost at most one gas payment at a time.
OnePending ==
    /\ \A tx \in mempool : tx.nonce = confirmed
    /\ \A tx1, tx2 \in mempool : tx1 = tx2

\* Only a submission that overlapped another is refused, until an answer has been
\* lost: a transaction count that was current when read is still free when used.
RefusedOnlyIfOverlapped ==
    (\A b \in Blocks : at[b] # "unanswered") =>
        \A b \in Blocks : at[b] = "refused" => b \in overlapped

\* Every block handed over is taken off the stack, even while a transaction that is
\* never mined keeps a submission waiting.
EveryBlockIsTaken ==
    \A b \in Blocks : challengeOf[b] # Unset ~> at[b] # "none"

\* README.md:79, on solo mining: "The ether is used for gas to make function calls
\* to the token smart contract when your miner finds a solution to the Proof of
\* Work."  The node is given the transaction for a solution of the current challenge.
SolutionsReachTheContract ==
    \A b \in Blocks : at[b] = "refused" => challengeOf[b] # challenge
=============================================================================

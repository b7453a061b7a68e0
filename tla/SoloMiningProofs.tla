-------------------------- MODULE SoloMiningProofs --------------------------
(***************************************************************************)
(* Proofs about solo style as a whole, for any number of challenges, any   *)
(* targets and nonces, any digest function and any faults: the composition *)
(* implements both of its parts, whose invariants it therefore has, and    *)
(* together they have some of their own.                                   *)
(***************************************************************************)
EXTENDS SoloMining, MiningSessionProofs, SequenceTheorems

\* The interface knows what was handed over: blocks of different challenges, none of
\* them later than the last run's, and before the callback none of that run's.
HandedInv ==
    /\ \A b \in Blocks : challengeOf[b] = IF b \in handed THEN b.challenge ELSE Unset
    /\ \A b \in handed :
         b.challenge <= closure.challenge /\ (mining => b.challenge < closure.challenge)
    /\ \A b1, b2 \in handed : b1.challenge = b2.challenge => b1 = b2

\* The stack holds, once, the blocks that were handed over and not submitted; the
\* challenge noted as submitted is that of a block that was.
QueueInv ==
    /\ \A i \in 1..Len(queue) : queue[i] \in handed /\ at[queue[i]] = "none"
    /\ \A i, j \in 1..Len(queue) : queue[i] = queue[j] => i = j
    /\ \A b \in Blocks : at[b] # "none" => b \in handed
    /\ \A b \in handed : at[b] = "none" => \E i \in 1..Len(queue) : queue[i] = b
    /\ \A b \in Blocks : at[b] # "skipped"
    /\ last # Unset => \E b \in handed : at[b] # "none" /\ b.challenge = last

\* The transaction of a block is mined.
Settled(b) == at[b] = "mined" \/ (at[b] = "wait" /\ \A tx \in mempool : tx.block # b)

\* A transaction that was mined has ended its challenge or does not meet the target.
MinedInv ==
    /\ \A tx \in mempool : at[tx.block] # "none"
    /\ \A b \in Blocks : Settled(b) => b.challenge < source.challenge \/ ~Meets(b)

NetInv == Net!TypeOK /\ HandedInv /\ QueueInv /\ MinedInv

-----------------------------------------------------------------------------
(* What the session does, as the interface sees it.                        *)

LEMMA BlockFacts ==
  ASSUME IInv, HandedInv
  PROVE  /\ source.challenge \in Nat /\ closure.challenge \in Nat
         /\ closure.challenge <= source.challenge
         /\ \A b \in Blocks : b.challenge \in Nat /\ b.challenge # Unset
         /\ handed \subseteq Blocks
         /\ \A b \in handed : b.challenge <= source.challenge
<1>1. source.challenge \in Nat /\ closure.challenge \in Nat /\ challengeNumber \in Nat
  BY UnsetFacts DEF IInv, TypeOK
<1>2. closure.challenge <= source.challenge
  BY <1>1, SoloAssumption DEF IInv, OrderInv
<1>3. \A b \in Blocks : b.challenge \in Nat /\ b.challenge # Unset
  BY UnsetFacts DEF Blocks
<1>4. handed \subseteq Blocks
  BY DEF IInv, TypeOK
<1>5. QED
  BY <1>1, <1>2, <1>3, <1>4 DEF HandedInv

\* A step of the session implements one of MiningSession, and hands nothing over.
LEMMA SessionFacts ==
  ASSUME IInv, SessionStep
  PROVE  /\ Next /\ UNCHANGED netVars /\ handed' = handed /\ source' = source
         /\ \/ closure' = closure /\ mining' = mining
            \/ closure'.challenge > closure.challenge
<1>1. Next /\ UNCHANGED netVars
  BY DEF SessionStep, Next
<1>2. handed' = handed /\ source' = source
  BY DEF SessionStep, Collect, Wake, ReadAddress, ReadTarget, ReadChallenge, Reject, Find,
         CompleteSolo, CompletePool, Complete, Refresh, sessionVars
<1>3. (closure' = closure /\ mining' = mining) \/ (~mining /\ mining')
  BY DEF SessionStep, Collect, Wake, ReadAddress, ReadTarget, ReadChallenge, Reject, Find,
         CompleteSolo, CompletePool, Complete, Refresh, Starts, sessionVars
<1>4. QED
  BY <1>1, <1>2, <1>3, StartsLater, SoloAssumption

\* A callback either hands over a block of a challenge that no other block is for, or
\* leaves the interface alone.
LEMMA HandOverFacts ==
  ASSUME IInv, HandedInv, HandOver
  PROVE  /\ Next /\ mining /\ ~mining' /\ closure' = closure /\ source' = source
         /\ Found \in Blocks \ handed /\ Found.challenge = closure.challenge
         /\ \/ handed' = handed /\ UNCHANGED netVars
            \/ handed' = handed \cup {Found} /\ Net!Queue(Found, Found.challenge)
<1>1. Callback /\ phase = "ended"
  BY DEF HandOver, Callback, Addon!Deliver
<1>2. mining /\ ~mining' /\ closure' = closure /\ source' = source
  BY <1>1 DEF Callback, IInv, SolversFollowSession
<1>3. closure \in [challenge : Challenges, target : Targets] /\ outcome \in Solutions
  BY <1>1, <1>2 DEF IInv, ClosureInv
<1>4. Found \in Blocks /\ Found.challenge = closure.challenge
  BY <1>3 DEF Found, Blocks, Solutions
<1>5. Found \notin handed
  BY <1>2, <1>4, BlockFacts DEF HandedInv
<1>6. \/ handed' = handed /\ UNCHANGED netVars
      \/ handed' = handed \cup {Found} /\ Net!Queue(Found, Found.challenge)
  BY <1>1, <1>4 DEF HandOver, Callback, Found
<1>7. QED
  BY <1>1, <1>2, <1>4, <1>5, <1>6 DEF Next

\* A new challenge changes nothing of the session.
LEMMA NewBlockFacts ==
  ASSUME IInv, NewBlock
  PROVE  /\ Next /\ UNCHANGED <<handed, closure, mining>>
         /\ source'.challenge = source.challenge + 1
  BY DEF NewBlock, Next, sessionVars

\* The contract takes a mined transaction for a solution exactly if the interface's
\* module does.
LEMMA MineFacts ==
  ASSUME IInv, NetInv, NEW tx \in mempool,
         IF Meets(tx.block) /\ tx.block.challenge = source.challenge
           THEN NewBlock ELSE UNCHANGED vars,
         Net!MineTransaction(tx, Meets(tx.block))
  PROVE  /\ tx.block \in handed /\ challengeOf[tx.block] = tx.block.challenge
         /\ \E meets \in BOOLEAN : Net!MineTransaction(tx, meets)
         /\ mempool' = mempool \ {tx} /\ UNCHANGED <<challengeOf, queue, last, at>>
<1>1. tx.block \in Blocks
  BY DEF NetInv, Net!TypeOK
<1>2. tx.block \in handed /\ challengeOf[tx.block] = tx.block.challenge
  BY <1>1 DEF NetInv, MinedInv, QueueInv, HandedInv
<1>3. \E meets \in BOOLEAN : Net!MineTransaction(tx, meets)
  <2>1. CASE Meets(tx.block)
    BY <2>1 DEF Net!MineTransaction
  <2>2. CASE ~Meets(tx.block)
    BY <2>2 DEF Net!MineTransaction
  <2> QED
    BY <2>1, <2>2
<1>4. QED
  BY <1>2, <1>3 DEF Net!MineTransaction, Net!clientVars

\* Every step of the whole is one of the session, or leaves it alone, and one of the
\* interface, or leaves it alone.
LEMMA Implements ==
  ASSUME IInv, NetInv, [SoloNext]_soloVars
  PROVE  [Next]_vars /\ [Net!Next]_(Net!vars)
<1>1. CASE SessionStep
  BY <1>1, SessionFacts DEF netVars, Net!vars, Net!clientVars, Net!chainVars
<1>2. CASE HandOver
  <2>1. CASE UNCHANGED netVars
    BY <1>2, <2>1, HandOverFacts DEF NetInv, netVars, Net!vars, Net!clientVars, Net!chainVars
  <2>2. CASE Net!Queue(Found, Found.challenge)
    <3>1. Found \in Blocks /\ Found.challenge \in Challenges
      BY <1>2, HandOverFacts DEF NetInv, Blocks
    <3>2. Net!Challenges = Challenges
      BY DEF Net!Challenges, Challenges
    <3>3. Net!Next
      BY <2>2, <3>1, <3>2 DEF Net!Next
    <3>4. QED
      BY <1>2, <3>3, HandOverFacts DEF NetInv
  <2>3. QED
    BY <1>2, <2>1, <2>2, HandOverFacts DEF NetInv
<1>3. CASE NetworkStep
  BY <1>3 DEF NetworkStep, Net!Next
<1>4. CASE MineTransaction
  <2>1. PICK tx \in mempool :
          /\ IF Meets(tx.block) /\ tx.block.challenge = source.challenge
               THEN NewBlock ELSE UNCHANGED vars
          /\ Net!MineTransaction(tx, Meets(tx.block))
    BY <1>4 DEF MineTransaction
  <2>2. Net!Next
    BY <2>1, MineFacts DEF Net!Next
  <2>3. [Next]_vars
    BY <2>1 DEF Next
  <2>4. QED
    BY <2>2, <2>3
<1>5. CASE OthersMint
  BY <1>5 DEF OthersMint, Next, Net!Next
<1>6. CASE UNCHANGED soloVars
  BY <1>6 DEF soloVars, netVars, vars, Net!vars, Net!clientVars, Net!chainVars
<1>7. QED
  BY <1>1, <1>2, <1>3, <1>4, <1>5, <1>6 DEF SoloNext

-----------------------------------------------------------------------------
(* What the interface does keeps its invariants.                           *)

\* What popping a stack does.
LEMMA FrontFacts ==
  ASSUME NEW S, NEW s \in Seq(S), NEW n \in Nat, Len(s) = n + 1
  PROVE  /\ SubSeq(s, 1, n) \in Seq(S)
         /\ Len(SubSeq(s, 1, n)) = n
         /\ \A i \in 1..n : SubSeq(s, 1, n)[i] = s[i]
<1>1. 1 \in Int /\ n \in Int /\ \A i \in 1..n : s[i] \in S
  OBVIOUS
<1>2. /\ SubSeq(s, 1, n) \in Seq(S)
      /\ Len(SubSeq(s, 1, n)) = (IF 1 <= n THEN n - 1 + 1 ELSE 0)
      /\ \A i \in 1..(n - 1 + 1) : SubSeq(s, 1, n)[i] = s[1 + i - 1]
  BY <1>1, SubSeqProperties
<1>3. (IF 1 <= n THEN n - 1 + 1 ELSE 0) = n /\ n - 1 + 1 = n /\ \A i \in 1..n : 1 + i - 1 = i
  OBVIOUS
<1>4. QED
  BY <1>2, <1>3, Zenon

\* The timer takes the last block off the stack and always submits it.
LEMMA SendFacts ==
  ASSUME NetInv, Net!SendMiningSolutions
  PROVE  /\ Net!Top \in handed /\ Net!Top \in Blocks
         /\ at[Net!Top] = "none" /\ Net!Top = queue[Len(queue)]
         /\ at' = [at EXCEPT ![Net!Top] = "count"] /\ last' = Net!Top.challenge
         /\ queue' \in Seq(Blocks) /\ Len(queue) \in Nat \ {0} /\ Len(queue') = Len(queue) - 1
         /\ \A i \in 1..Len(queue') : queue'[i] = queue[i]
         /\ UNCHANGED <<challengeOf, mempool>>
<1>1. queue \in Seq(Blocks) /\ Len(queue) \in Nat \ {0} /\ queue' = SubSeq(queue, 1, Len(queue) - 1)
  BY DEF NetInv, Net!TypeOK, Net!SendMiningSolutions
<1>2. Len(queue) - 1 \in Nat /\ Len(queue) = (Len(queue) - 1) + 1
  BY <1>1
<1>3. /\ queue' \in Seq(Blocks) /\ Len(queue') = Len(queue) - 1
      /\ \A i \in 1..Len(queue') : queue'[i] = queue[i]
  BY <1>1, <1>2, FrontFacts, Zenon
<1>4. Net!Top = queue[Len(queue)] /\ Net!Top \in Blocks /\ Net!Top \in handed /\ at[Net!Top] = "none"
  BY <1>1 DEF Net!Top, NetInv, QueueInv
<1>5. challengeOf[Net!Top] = Net!Top.challenge /\ Net!Top.challenge # Unset
  BY <1>4, UnsetFacts DEF NetInv, HandedInv, Blocks
<1>6. challengeOf[Net!Top] # last
  <2> SUFFICES ASSUME challengeOf[Net!Top] = last
               PROVE  FALSE
    OBVIOUS
  <2>1. PICK b \in handed : at[b] # "none" /\ b.challenge = last
    BY <1>5 DEF NetInv, QueueInv
  <2>2. b = Net!Top
    BY <2>1, <1>4, <1>5 DEF NetInv, HandedInv
  <2>3. QED
    BY <2>1, <2>2, <1>4
<1>7. /\ at' = [at EXCEPT ![Net!Top] = "count"] /\ last' = Net!Top.challenge
      /\ UNCHANGED <<challengeOf, mempool>>
  BY <1>5, <1>6 DEF Net!SendMiningSolutions, Net!Begin, Net!chainVars
<1>8. QED
  BY <1>1, <1>3, <1>4, <1>7

\* A step of a submission changes where that submission is, and nothing of the session's.
LEMMA SubmissionFacts ==
  ASSUME NetInv, NEW b \in Blocks,
         Net!ReadCount(b) \/ Net!SendTransaction(b) \/ Net!Receive(b) \/ Net!Fail(b)
  PROVE  /\ UNCHANGED <<challengeOf, queue, last>>
         /\ at[b] # "none" /\ at'[b] # "none" /\ at'[b] # "skipped"
         /\ \A o \in Blocks \ {b} : at'[o] = at[o]
         /\ mempool \subseteq mempool' /\ \A tx \in mempool' \ mempool : tx.block = b
         /\ (at'[b] = "wait" => \E tx \in mempool' : tx.block = b)
         /\ (at'[b] = "mined" => Settled(b))
<1>1. at \in [Blocks -> {"none", "skipped", "count", "send", "wait", "mined", "refused",
                         "failed", "unanswered"}]
  BY DEF NetInv, Net!TypeOK
<1>2. CASE Net!ReadCount(b)
  BY <1>1, <1>2 DEF Net!ReadCount, Net!clientVars, Net!chainVars
<1>3. CASE Net!SendTransaction(b)
  <2>1. CASE Net!Refuses(txCount[b])
    BY <1>1, <1>3, <2>1 DEF Net!SendTransaction, Net!clientVars
  <2>2. CASE ~Net!Refuses(txCount[b])
    <3>1. PICK s \in {"wait", "unanswered"} : at' = [at EXCEPT ![b] = s]
      BY <1>3, <2>2 DEF Net!SendTransaction
    <3>2. mempool' = mempool \cup {[block |-> b, nonce |-> txCount[b]]}
      BY <1>3, <2>2 DEF Net!SendTransaction
    <3>3. /\ UNCHANGED <<challengeOf, queue, last>> /\ at[b] = "send" /\ at'[b] = s
          /\ \A o \in Blocks \ {b} : at'[o] = at[o]
      BY <1>1, <1>3, <3>1 DEF Net!SendTransaction, Net!clientVars
    <3>4. /\ mempool \subseteq mempool' /\ \A tx \in mempool' \ mempool : tx.block = b
          /\ \E tx \in mempool' : tx.block = b
      <4> DEFINE sent == [block |-> b, nonce |-> txCount[b]]
      <4>1. sent.block = b
        OBVIOUS
      <4>2. mempool' = mempool \cup {sent}
        BY <3>2
      <4> HIDE DEF sent
      <4>3. QED
        BY <4>1, <4>2
    <3>5. QED
      BY <3>1, <3>3, <3>4
  <2>3. QED
    BY <2>1, <2>2
<1>4. CASE Net!Receive(b)
  BY <1>1, <1>4 DEF Net!Receive, Net!clientVars, Net!chainVars, Settled
<1>5. CASE Net!Fail(b)
  BY <1>1, <1>5 DEF Net!Fail, Net!clientVars, Net!chainVars
<1>6. QED
  BY <1>2, <1>3, <1>4, <1>5

LEMMA NetTypeStep ==
  ASSUME NetInv, IInv, IInv', [Net!Next]_(Net!vars)
  PROVE  Net!TypeOK'
<1>1. Net!TypeOK /\ source.challenge' \in Net!Challenges
  BY DEF NetInv, IInv, TypeOK, Challenges, Net!Challenges
<1>2. ASSUME NEW b \in Blocks, NEW c \in Net!Challenges, Net!Queue(b, c)
      PROVE  Net!TypeOK'
  BY <1>1, <1>2 DEF Net!Queue, Net!TypeOK, Net!chainVars
<1>3. CASE Net!SendMiningSolutions
  <2>1. Net!Top \in Blocks /\ queue' \in Seq(Blocks) /\ at' = [at EXCEPT ![Net!Top] = "count"]
    BY <1>3, SendFacts
  <2>2. last' \in Net!Challenges \cup {Net!Unset}
    BY <1>1, <1>3, <2>1 DEF Net!SendMiningSolutions, Net!TypeOK
  <2>3. overlapped' \subseteq Blocks
    BY <1>1, <1>3, <2>1 DEF Net!SendMiningSolutions, Net!TypeOK, Net!Begin
  <2>4. QED
    BY <1>1, <1>3, <2>1, <2>2, <2>3 DEF Net!SendMiningSolutions, Net!TypeOK, Net!chainVars
<1>4. ASSUME NEW b \in Blocks, Net!ReadCount(b) \/ Net!Receive(b) \/ Net!Fail(b)
      PROVE  Net!TypeOK'
  BY <1>1, <1>4 DEF Net!ReadCount, Net!Receive, Net!Fail, Net!TypeOK, Net!clientVars,
                    Net!chainVars
<1>5. ASSUME NEW b \in Blocks, Net!SendTransaction(b)
      PROVE  Net!TypeOK'
  <2>1. CASE Net!Refuses(txCount[b])
    BY <1>1, <1>5, <2>1 DEF Net!SendTransaction, Net!TypeOK, Net!clientVars
  <2>2. CASE ~Net!Refuses(txCount[b])
    <3>1. PICK s \in {"wait", "unanswered"} : at' = [at EXCEPT ![b] = s]
      BY <1>5, <2>2 DEF Net!SendTransaction
    <3>2. QED
      BY <1>1, <1>5, <2>2, <3>1 DEF Net!SendTransaction, Net!TypeOK, Net!clientVars
  <2>3. QED
    BY <2>1, <2>2
<1>6. ASSUME NEW tx \in mempool, NEW meets \in BOOLEAN, Net!MineTransaction(tx, meets)
      PROVE  Net!TypeOK'
  BY <1>1, <1>6 DEF Net!MineTransaction, Net!TypeOK, Net!clientVars
<1>7. CASE Net!OthersMint
  BY <1>1, <1>7 DEF Net!OthersMint, Net!TypeOK, Net!clientVars
<1>8. CASE UNCHANGED Net!vars
  BY <1>1, <1>8 DEF Net!vars, Net!TypeOK, Net!clientVars, Net!chainVars
<1>9. QED
  BY <1>2, <1>3, <1>4, <1>5, <1>6, <1>7, <1>8 DEF Net!Next

-----------------------------------------------------------------------------
(* The invariants of the whole.                                            *)

LEMMA HandedStep ==
  ASSUME IInv, NetInv, IInv', [SoloNext]_soloVars
  PROVE  HandedInv'
<1>1. closure.challenge \in Nat /\ closure'.challenge \in Nat
  BY UnsetFacts DEF IInv, TypeOK
<1>2. \A b \in Blocks : b.challenge \in Nat
  BY BlockFacts DEF NetInv
<1>3. handed \subseteq Blocks /\ handed' \subseteq Blocks
  BY DEF IInv, TypeOK
<1>4. HandedInv
  BY DEF NetInv
<1>5. CASE SessionStep
  <2>1. UNCHANGED <<handed, challengeOf>>
    BY <1>5, SessionFacts DEF netVars
  <2>2. (closure' = closure /\ mining' = mining) \/ closure'.challenge > closure.challenge
    BY <1>5, SessionFacts
  <2>3. QED
    BY <1>1, <1>2, <1>3, <1>4, <2>1, <2>2 DEF HandedInv
<1>6. CASE HandOver
  <2>1. /\ mining /\ ~mining' /\ closure' = closure
        /\ Found \in Blocks \ handed /\ Found.challenge = closure.challenge
    BY <1>4, <1>6, HandOverFacts
  <2>2. CASE handed' = handed /\ UNCHANGED netVars
    BY <1>1, <1>2, <1>3, <1>4, <2>1, <2>2 DEF HandedInv, netVars
  <2>3. CASE handed' = handed \cup {Found} /\ Net!Queue(Found, Found.challenge)
    <3>1. challengeOf' = [challengeOf EXCEPT ![Found] = Found.challenge]
      BY <2>3 DEF Net!Queue
    <3>2. \A b \in Blocks : challengeOf'[b] = IF b \in handed' THEN b.challenge ELSE Unset
      BY <1>4, <2>1, <2>3, <3>1 DEF HandedInv, NetInv, Net!TypeOK
    <3>3. \A b \in handed : b.challenge < closure.challenge /\ b.challenge # Found.challenge
      BY <1>1, <1>2, <1>3, <1>4, <2>1 DEF HandedInv
    <3>4. QED
      BY <1>1, <1>2, <1>3, <1>4, <2>1, <2>3, <3>2, <3>3 DEF HandedInv
  <2>4. QED
    BY <1>4, <1>6, <2>2, <2>3, HandOverFacts
<1>7. CASE NetworkStep
  <2>1. UNCHANGED <<handed, closure, mining>>
    BY <1>7 DEF NetworkStep, vars, sessionVars
  <2>2. challengeOf' = challengeOf
    BY <1>7, SendFacts, SubmissionFacts DEF NetworkStep
  <2>3. QED
    BY <1>4, <2>1, <2>2 DEF HandedInv
<1>8. CASE MineTransaction
  <2>1. UNCHANGED <<handed, closure, mining, challengeOf>>
    BY <1>8, NewBlockFacts DEF MineTransaction, Net!MineTransaction, Net!clientVars, vars,
                               sessionVars
  <2>2. QED
    BY <1>4, <2>1 DEF HandedInv
<1>9. CASE OthersMint
  <2>1. UNCHANGED <<handed, closure, mining, challengeOf>>
    BY <1>9, NewBlockFacts DEF OthersMint, Net!OthersMint, Net!clientVars
  <2>2. QED
    BY <1>4, <2>1 DEF HandedInv
<1>10. CASE UNCHANGED soloVars
  BY <1>4, <1>10 DEF soloVars, netVars, vars, sessionVars, HandedInv
<1>11. QED
  BY <1>5, <1>6, <1>7, <1>8, <1>9, <1>10 DEF SoloNext

LEMMA QueueStep ==
  ASSUME IInv, NetInv, [SoloNext]_soloVars
  PROVE  QueueInv'
<1>1. queue \in Seq(Blocks) /\ Len(queue) \in Nat /\ \A i \in 1..Len(queue) : queue[i] \in Blocks
  BY DEF NetInv, Net!TypeOK
<1>2. QueueInv /\ handed \subseteq Blocks
  BY DEF NetInv, IInv, TypeOK
<1>3. ASSUME UNCHANGED <<handed, queue, last, at>>
      PROVE  QueueInv'
  BY <1>2, <1>3 DEF QueueInv
<1>4. CASE SessionStep
  BY <1>3, <1>4, SessionFacts DEF netVars
<1>5. CASE HandOver
  <2>1. Found \in Blocks \ handed
    BY <1>5, HandOverFacts DEF NetInv
  <2>2. CASE handed' = handed /\ UNCHANGED netVars
    BY <1>3, <2>2 DEF netVars
  <2>3. CASE handed' = handed \cup {Found} /\ Net!Queue(Found, Found.challenge)
    <3>1. /\ Len(queue') = Len(queue) + 1 /\ queue'[Len(queue) + 1] = Found
          /\ \A i \in 1..Len(queue) : queue'[i] = queue[i]
      BY <1>1, <2>1, <2>3 DEF Net!Queue
    <3>2. UNCHANGED <<last, at>> /\ at[Found] = "none"
      BY <1>2, <2>1, <2>3 DEF Net!Queue, QueueInv
    <3>3. /\ \A i \in 1..Len(queue') : i = Len(queue) + 1 \/ i \in 1..Len(queue)
          /\ Len(queue) + 1 \in 1..Len(queue') /\ 1..Len(queue) \subseteq 1..Len(queue')
      BY <1>1, <3>1
    <3>4. \A i \in 1..Len(queue) : queue[i] # Found
      BY <1>2, <2>1 DEF QueueInv
    <3>5. \A i \in 1..Len(queue') : queue'[i] \in handed' /\ at'[queue'[i]] = "none"
      BY <1>2, <2>3, <3>1, <3>2, <3>3 DEF QueueInv
    <3>6. \A i, j \in 1..Len(queue') : queue'[i] = queue'[j] => i = j
      BY <1>2, <3>1, <3>3, <3>4 DEF QueueInv
    <3>7. \A b \in handed' : at'[b] = "none" => \E i \in 1..Len(queue') : queue'[i] = b
      BY <1>2, <2>3, <3>1, <3>2, <3>3 DEF QueueInv
    <3>8. QED
      BY <1>2, <2>3, <3>2, <3>5, <3>6, <3>7 DEF QueueInv
  <2>4. QED
    BY <1>5, <2>2, <2>3, HandOverFacts DEF NetInv
<1>6. CASE NetworkStep /\ Net!SendMiningSolutions
  <2>1. handed' = handed
    BY <1>6 DEF NetworkStep, vars, sessionVars
  <2>2. /\ Net!Top \in handed /\ Net!Top \in Blocks /\ Net!Top = queue[Len(queue)]
        /\ at' = [at EXCEPT ![Net!Top] = "count"] /\ last' = Net!Top.challenge
        /\ Len(queue) \in Nat \ {0} /\ Len(queue') = Len(queue) - 1
        /\ \A i \in 1..Len(queue') : queue'[i] = queue[i]
    BY <1>6, SendFacts
  <2>3. at'[Net!Top] = "count" /\ \A b \in Blocks \ {Net!Top} : at'[b] = at[b]
    BY <2>2 DEF NetInv, Net!TypeOK
  <2>4. \A i \in 1..Len(queue) : i \in 1..Len(queue') \/ i = Len(queue)
    BY <2>2
  <2>5. \A i \in 1..Len(queue') : i \in 1..Len(queue) /\ i # Len(queue)
    BY <2>2
  <2>6. Len(queue) \in 1..Len(queue)
    BY <2>2
  <2>7. \A i \in 1..Len(queue') : queue[i] # Net!Top
    BY <1>2, <2>2, <2>5, <2>6 DEF QueueInv
  <2>8. \A i \in 1..Len(queue') : queue'[i] \in handed' /\ at'[queue'[i]] = "none"
    BY <1>1, <1>2, <2>1, <2>2, <2>3, <2>5, <2>7 DEF QueueInv
  <2>9. \A i, j \in 1..Len(queue') : queue'[i] = queue'[j] => i = j
    BY <1>2, <2>2, <2>5 DEF QueueInv
  <2>10. \A b \in handed' : at'[b] = "none" => \E i \in 1..Len(queue') : queue'[i] = b
    BY <1>2, <2>1, <2>2, <2>3, <2>4 DEF QueueInv
  <2>11. QED
    BY <1>2, <2>1, <2>2, <2>3, <2>8, <2>9, <2>10 DEF QueueInv
<1>7. ASSUME NetworkStep, NEW b \in Blocks,
             Net!ReadCount(b) \/ Net!SendTransaction(b) \/ Net!Receive(b) \/ Net!Fail(b)
      PROVE  QueueInv'
  <2>1. handed' = handed
    BY <1>7 DEF NetworkStep, vars, sessionVars
  <2>2. /\ UNCHANGED <<queue, last>> /\ at[b] # "none" /\ at'[b] # "none" /\ at'[b] # "skipped"
        /\ \A o \in Blocks \ {b} : at'[o] = at[o]
    BY <1>7, SubmissionFacts
  <2>3. QED
    BY <1>1, <1>2, <2>1, <2>2 DEF QueueInv
<1>8. CASE MineTransaction
  BY <1>3, <1>8, NewBlockFacts DEF MineTransaction, Net!MineTransaction, Net!clientVars, vars,
                                   sessionVars
<1>9. CASE OthersMint
  BY <1>3, <1>9, NewBlockFacts DEF OthersMint, Net!OthersMint, Net!clientVars
<1>10. CASE UNCHANGED soloVars
  BY <1>3, <1>10 DEF soloVars, netVars, vars, sessionVars
<1>11. QED
  BY <1>4, <1>5, <1>6, <1>7, <1>8, <1>9, <1>10 DEF SoloNext, NetworkStep

\* A new challenge leaves behind whatever has been mined.
LEMMA MinedUnderNewBlock ==
  ASSUME IInv, NetInv, source'.challenge = source.challenge + 1,
         \A b \in Blocks : Settled(b)' => b \in handed
  PROVE  \A b \in Blocks : Settled(b)' => b.challenge < source'.challenge
BY BlockFacts DEF NetInv

LEMMA MinedStep ==
  ASSUME IInv, NetInv, [SoloNext]_soloVars
  PROVE  MinedInv'
<1>1. at \in [Blocks -> {"none", "skipped", "count", "send", "wait", "mined", "refused",
                         "failed", "unanswered"}]
  BY DEF NetInv, Net!TypeOK
<1>2. MinedInv /\ mempool \subseteq [block : Blocks, nonce : Nat]
  BY DEF NetInv, Net!TypeOK
<1>3. \A b \in Blocks : Settled(b) => b \in handed
  BY DEF NetInv, QueueInv, Settled
<1>4. ASSUME UNCHANGED <<source, at, mempool>>
      PROVE  MinedInv'
  BY <1>2, <1>4 DEF MinedInv, Settled, Meets
<1>5. CASE SessionStep
  BY <1>4, <1>5, SessionFacts DEF netVars
<1>6. CASE HandOver
  BY <1>4, <1>6, HandOverFacts DEF NetInv, netVars, Net!Queue, Net!chainVars
<1>7. CASE NetworkStep /\ Net!SendMiningSolutions
  <2>1. source' = source /\ mempool' = mempool
    BY <1>7, SendFacts DEF NetworkStep, vars
  <2>2. Net!Top \in Blocks /\ at' = [at EXCEPT ![Net!Top] = "count"]
    BY <1>7, SendFacts
  <2>3. \A b \in Blocks : at'[b] = "count" \/ at'[b] = at[b]
    BY <1>1, <2>2
  <2>4. \A b \in Blocks : Settled(b)' => Settled(b)
    BY <2>1, <2>3 DEF Settled
  <2>5. \A tx \in mempool' : at'[tx.block] # "none"
    BY <1>2, <2>1, <2>3 DEF MinedInv
  <2>6. QED
    BY <1>2, <2>1, <2>4, <2>5 DEF MinedInv, Meets
<1>8. ASSUME NetworkStep, NEW b \in Blocks,
             Net!ReadCount(b) \/ Net!SendTransaction(b) \/ Net!Receive(b) \/ Net!Fail(b)
      PROVE  MinedInv'
  <2>1. source' = source
    BY <1>8 DEF NetworkStep, vars
  <2>2. /\ at'[b] # "none" /\ \A o \in Blocks \ {b} : at'[o] = at[o]
        /\ mempool \subseteq mempool' /\ \A tx \in mempool' \ mempool : tx.block = b
        /\ (at'[b] = "wait" => \E tx \in mempool' : tx.block = b)
        /\ (at'[b] = "mined" => Settled(b))
    BY <1>8, SubmissionFacts
  <2>3. \A o \in Blocks : Settled(o)' => Settled(o)
    BY <2>2 DEF Settled
  <2>4. \A tx \in mempool' : at'[tx.block] # "none"
    BY <1>2, <2>2 DEF MinedInv
  <2>5. QED
    BY <1>2, <2>1, <2>3, <2>4 DEF MinedInv, Meets
<1>9. CASE MineTransaction
  <2>1. PICK tx \in mempool :
          /\ IF Meets(tx.block) /\ tx.block.challenge = source.challenge
               THEN NewBlock ELSE UNCHANGED vars
          /\ Net!MineTransaction(tx, Meets(tx.block))
    BY <1>9 DEF MineTransaction
  <2>2. tx.block \in handed /\ mempool' = mempool \ {tx} /\ at' = at
    BY <2>1, MineFacts
  <2>3. \A t \in mempool' : at'[t.block] # "none"
    BY <1>2, <2>2 DEF MinedInv
  <2>4. \A b \in Blocks : Settled(b)' => Settled(b) \/ b = tx.block
    BY <2>2 DEF Settled
  <2>5. CASE Meets(tx.block) /\ tx.block.challenge = source.challenge
    <3>1. source'.challenge = source.challenge + 1
      BY <2>1, <2>5, NewBlockFacts
    <3>2. \A b \in Blocks : Settled(b)' => b \in handed
      BY <1>3, <2>2, <2>4
    <3>3. QED
      BY <2>3, <3>1, <3>2, MinedUnderNewBlock DEF MinedInv
  <2>6. CASE ~(Meets(tx.block) /\ tx.block.challenge = source.challenge)
    <3>1. source' = source
      BY <2>1, <2>6 DEF vars
    <3>2. tx.block.challenge < source.challenge \/ ~Meets(tx.block)
      BY <2>2, <2>6, BlockFacts DEF NetInv
    <3>3. QED
      BY <1>2, <2>3, <2>4, <3>1, <3>2 DEF MinedInv, Meets
  <2>7. QED
    BY <2>5, <2>6
<1>10. CASE OthersMint
  <2>1. source'.challenge = source.challenge + 1 /\ UNCHANGED <<at, mempool>>
    BY <1>10, NewBlockFacts DEF OthersMint, Net!OthersMint
  <2>2. \A b \in Blocks : Settled(b)' => b \in handed
    BY <1>3, <2>1 DEF Settled
  <2>3. QED
    BY <1>2, <2>1, <2>2, MinedUnderNewBlock DEF MinedInv
<1>11. CASE UNCHANGED soloVars
  BY <1>4, <1>11 DEF soloVars, netVars, vars
<1>12. QED
  BY <1>5, <1>6, <1>7, <1>8, <1>9, <1>10, <1>11 DEF SoloNext, NetworkStep

LEMMA SoloInvInit == SoloInit => IInv /\ NetInv
<1> SUFFICES ASSUME SoloInit
             PROVE  IInv /\ NetInv
  OBVIOUS
<1>1. Init /\ Net!Init /\ IInv
  BY InvInit DEF SoloInit
<1>2. handed = {} /\ mining = FALSE
  BY <1>1 DEF Init
<1>3. Net!TypeOK
  BY <1>1, BoundAssumption DEF Net!Init, Net!TypeOK, Net!Challenges
<1>4. HandedInv /\ QueueInv /\ MinedInv
  BY <1>1, <1>2 DEF Net!Init, HandedInv, QueueInv, MinedInv, Settled, Unset, Net!Unset
<1>5. QED
  BY <1>1, <1>3, <1>4 DEF NetInv

LEMMA SoloInductive == SoloSpec => [](IInv /\ NetInv)
<1>1. IInv /\ NetInv /\ [SoloNext]_soloVars => (IInv /\ NetInv)'
  <2> SUFFICES ASSUME IInv, NetInv, [SoloNext]_soloVars
               PROVE  IInv' /\ NetInv'
    OBVIOUS
  <2>1. [Next]_vars /\ [Net!Next]_(Net!vars)
    BY Implements
  <2>2. IInv'
    BY <2>1, InductiveStep
  <2>3. Net!TypeOK' /\ HandedInv' /\ QueueInv' /\ MinedInv'
    BY <2>1, <2>2, NetTypeStep, HandedStep, QueueStep, MinedStep
  <2>4. QED
    BY <2>2, <2>3 DEF NetInv
<1>2. QED
  BY <1>1, SoloInvInit, PTL DEF SoloSpec

-----------------------------------------------------------------------------

\* Every variable of the whole keeps its type.
THEOREM SoloTypeCorrect == SoloSpec => []SoloTypeOK
<1>1. IInv /\ NetInv => SoloTypeOK
  BY DEF IInv, NetInv, SoloTypeOK
<1>2. QED
  BY <1>1, SoloInductive, PTL

\* With the contract for its source, the session behaves as MiningSession says: what
\* is proved of it holds of the whole.
THEOREM ImplementsSession == SoloSpec => Spec
<1>1. SoloInit => Init
  BY DEF SoloInit
<1>2. IInv /\ NetInv /\ [SoloNext]_soloVars => [Next]_vars
  BY Implements
<1>3. QED
  BY <1>1, <1>2, SoloInductive, PTL DEF SoloSpec, Spec

\* Fed by the session's callback, the interface behaves as NetworkInterface says: each
\* block is queued once, for a challenge the contract has reached.
THEOREM ImplementsNetwork == SoloSpec => Net!Spec
<1>1. SoloInit => Net!Init
  BY DEF SoloInit
<1>2. IInv /\ NetInv /\ [SoloNext]_soloVars => [Net!Next]_(Net!vars)
  BY Implements
<1>3. QED
  BY <1>1, <1>2, SoloInductive, PTL DEF SoloSpec, Net!Spec

\* The interface submits one block for each challenge it is handed one for, and drops
\* none, although it only remembers the last: each run is for a later challenge.
THEOREM OneBlock == SoloSpec => []OneBlockPerChallenge
<1>1. IInv /\ NetInv => OneBlockPerChallenge
  BY DEF NetInv, HandedInv, QueueInv, OneBlockPerChallenge
<1>2. QED
  BY <1>1, SoloInductive, PTL

\* The miner rests on the contract's challenge only as long as its block may mint.
THEOREM RestsOnTheWay == SoloSpec => []RestsWhileOnTheWay
<1>1. IInv /\ NetInv => RestsWhileOnTheWay
  <2> SUFFICES ASSUME IInv, NetInv, ~mining, challengeNumber = source.challenge, ~disturbed
               PROVE  \E b \in handed :
                        /\ b.challenge = source.challenge
                        /\ at[b] \in {"none", "count", "send", "wait"} \/ Lost(b)
                        /\ at[b] = "none" => \E i \in DOMAIN queue : queue[i] = b
    BY DEF RestsWhileOnTheWay
  <2>1. source.challenge \in Nat /\ challengeNumber # Unset
    BY UnsetFacts DEF IInv, TypeOK
  <2>2. PICK b \in handed : b.challenge = source.challenge
    BY <2>1, SoloAssumption DEF IInv, RestsOnlyWhenSolved
  <2>3. b \in Blocks
    BY DEF IInv, TypeOK
  <2>4. at[b] = "none" => \E i \in DOMAIN queue : queue[i] = b
    BY <2>3 DEF NetInv, QueueInv, Net!TypeOK
  <2>5. at[b] = "mined" => ~Meets(b)
    BY <2>1, <2>2, <2>3 DEF NetInv, MinedInv, Settled
  <2>6. at[b] \in {"none", "count", "send", "wait"} \/ Lost(b)
    BY <2>3, <2>5 DEF NetInv, Net!TypeOK, QueueInv, Lost
  <2>7. QED
    BY <2>2, <2>4, <2>6
<1>2. QED
  BY <1>1, SoloInductive, PTL
=============================================================================

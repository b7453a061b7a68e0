----------------------- MODULE NetworkInterfaceProofs -----------------------
(***************************************************************************)
(* Proofs about NetworkInterface for any set of blocks and any number of   *)
(* challenges.                                                             *)
(***************************************************************************)
EXTENDS NetworkInterface, SequenceTheorems, TLAPS

\* A submission never holds a transaction count that is ahead of the chain.
CountInv == \A b \in Blocks : at[b] = "send" => txCount[b] <= confirmed

\* As long as no answer has been lost, a pending transaction has a submission that waits
\* for it, and a submission that is about to send either knows the current count
\* or has overlapped another.
OverlapInv ==
    (\A b \in Blocks : at[b] # "unanswered") =>
        /\ \A b, o \in Blocks : b # o /\ InFlight(b) /\ InFlight(o) => b \in overlapped
        /\ \A tx \in mempool : at[tx.block] = "wait"
        /\ \A b \in Blocks : at[b] = "send" /\ b \notin overlapped => txCount[b] = confirmed
        /\ \A b \in Blocks : at[b] = "refused" => b \in overlapped

\* A block is on the stack once, before its only submission.
QueueInv ==
    /\ \A i \in 1..Len(queue) : at[queue[i]] = "none" /\ challengeOf[queue[i]] # Unset
    /\ \A i, j \in 1..Len(queue) : queue[i] = queue[j] => i = j
    /\ \A b \in Blocks : challengeOf[b] = Unset => at[b] = "none"

IInv == TypeOK /\ QueueInv /\ CountInv /\ OnePending /\ OverlapInv

-----------------------------------------------------------------------------

LEMMA TypeInit == Init => TypeOK
<1> SUFFICES ASSUME Init
             PROVE  TypeOK
  OBVIOUS
<1>1. 1 \in Challenges
  BY BoundAssumption DEF Challenges
<1>2. QED
  BY <1>1 DEF Init, TypeOK

\* What popping a stack does.
LEMMA FrontFacts ==
  ASSUME NEW S, NEW s \in Seq(S), NEW n \in Nat, Len(s) = n + 1
  PROVE  /\ SubSeq(s, 1, n) \in Seq(S)
         /\ Len(SubSeq(s, 1, n)) = n
         /\ \A i \in 1..n : SubSeq(s, 1, n)[i] = s[i]
<1>1. 1 \in Int /\ n \in Int /\ \A i \in 1..n : s[i] \in S
  OBVIOUS
<1>2. /\ SubSeq(s, 1, n) \in Seq(S)
      /\ Len(SubSeq(s, 1, n)) = (IF 1 <= n THEN n - 1 + 1 ELSE 0)
      /\ \A i \in 1..(n - 1 + 1) : SubSeq(s, 1, n)[i] = s[1 + i - 1]
  BY <1>1, SubSeqProperties
<1>3. (IF 1 <= n THEN n - 1 + 1 ELSE 0) = n /\ n - 1 + 1 = n
  OBVIOUS
<1>4. \A i \in 1..n : 1 + i - 1 = i
  OBVIOUS
<1>5. Len(SubSeq(s, 1, n)) = n
  BY <1>2, <1>3, Zenon
<1>6. \A i \in 1..n : SubSeq(s, 1, n)[i] = s[i]
  BY <1>2, <1>3, <1>4, Zenon
<1>7. QED
  BY <1>2, <1>5, <1>6, Zenon

LEMMA PopFacts ==
  ASSUME TypeOK, queue # <<>>
  PROVE  /\ Top \in Blocks
         /\ SubSeq(queue, 1, Len(queue) - 1) \in Seq(Blocks)
         /\ Len(queue) \in 1..Len(queue)
         /\ Len(SubSeq(queue, 1, Len(queue) - 1)) = Len(queue) - 1
         /\ \A i \in 1..(Len(queue) - 1) : SubSeq(queue, 1, Len(queue) - 1)[i] = queue[i]
<1>1. queue \in Seq(Blocks) /\ Len(queue) \in Nat /\ Len(queue) > 0
  BY DEF TypeOK
<1>2. Len(queue) \in 1..Len(queue) /\ Len(queue) - 1 \in Nat /\ Len(queue) = (Len(queue) - 1) + 1
  BY <1>1
<1>3. Top \in Blocks
  BY <1>1, <1>2 DEF Top
<1>4. QED
  BY <1>1, <1>2, <1>3, FrontFacts, Zenon

LEMMA TypeStep == TypeOK /\ [Next]_vars => TypeOK'
<1> SUFFICES ASSUME TypeOK, [Next]_vars
             PROVE  TypeOK'
  OBVIOUS
<1>1. ASSUME NEW b \in Blocks, NEW c \in Challenges, Queue(b, c)
      PROVE  TypeOK'
  BY <1>1 DEF Queue, TypeOK, chainVars
<1>2. CASE SendMiningSolutions
  <2>1. Top \in Blocks /\ queue' \in Seq(Blocks)
    BY <1>2, PopFacts DEF SendMiningSolutions
  <2>2. CASE challengeOf[Top] # last
    BY <1>2, <2>1, <2>2 DEF SendMiningSolutions, Begin, TypeOK, chainVars
  <2>3. CASE challengeOf[Top] = last
    BY <1>2, <2>1, <2>3 DEF SendMiningSolutions, TypeOK, chainVars
  <2>4. QED
    BY <2>2, <2>3
<1>3. ASSUME NEW b \in Blocks, ReadCount(b)
      PROVE  TypeOK'
  BY <1>3 DEF ReadCount, TypeOK, clientVars, chainVars
<1>4. ASSUME NEW b \in Blocks, SendTransaction(b)
      PROVE  TypeOK'
  <2>1. CASE Refuses(txCount[b])
    BY <1>4, <2>1 DEF SendTransaction, TypeOK, clientVars
  <2>2. CASE ~Refuses(txCount[b])
    <3>1. PICK s \in {"wait", "unanswered"} : at' = [at EXCEPT ![b] = s]
      BY <1>4, <2>2 DEF SendTransaction
    <3>2. QED
      BY <1>4, <2>2, <3>1 DEF SendTransaction, TypeOK, clientVars
  <2>3. QED
    BY <2>1, <2>2
<1>5. ASSUME NEW b \in Blocks, Receive(b) \/ Fail(b)
      PROVE  TypeOK'
  BY <1>5 DEF Receive, Fail, TypeOK, clientVars, chainVars
<1>6. ASSUME NEW tx \in mempool, NEW meets \in BOOLEAN, MineTransaction(tx, meets)
      PROVE  TypeOK'
  <2>1. challenge' \in Challenges
    BY <1>6, BoundAssumption DEF MineTransaction, TypeOK, Challenges
  <2>2. QED
    BY <1>6, <2>1 DEF MineTransaction, TypeOK, clientVars
<1>7. CASE OthersMint
  <2>1. challenge' \in Challenges
    BY <1>7, BoundAssumption DEF OthersMint, TypeOK, Challenges
  <2>2. QED
    BY <1>7, <2>1 DEF OthersMint, TypeOK, clientVars
<1>8. CASE UNCHANGED vars
  BY <1>8 DEF vars, clientVars, chainVars, TypeOK
<1>9. QED
  BY <1>1, <1>2, <1>3, <1>4, <1>5, <1>6, <1>7, <1>8 DEF Next

\* Every variable of the interface keeps its type.
THEOREM TypeCorrect == Spec => []TypeOK
  BY TypeInit, TypeStep, PTL DEF Spec

-----------------------------------------------------------------------------

LEMMA InvInit == Init => QueueInv /\ CountInv /\ OnePending /\ OverlapInv
  BY DEF Init, QueueInv, CountInv, OnePending, OverlapInv, InFlight

LEMMA QueueStep ==
  ASSUME TypeOK, QueueInv, [Next]_vars
  PROVE  QueueInv'
<1>1. ASSUME NEW b \in Blocks, NEW c \in Challenges, Queue(b, c)
      PROVE  QueueInv'
  <2>1. queue \in Seq(Blocks) /\ Len(queue) \in Nat
    BY DEF TypeOK
  <2>2. /\ Len(queue') = Len(queue) + 1
        /\ \A i \in 1..Len(queue) : queue'[i] = queue[i]
        /\ queue'[Len(queue) + 1] = b
    BY <1>1, <2>1 DEF Queue
  <2>3. /\ challengeOf[b] = Unset /\ at[b] = "none" /\ at' = at
        /\ challengeOf' = [challengeOf EXCEPT ![b] = c] /\ c # Unset
    BY <1>1 DEF Queue, QueueInv, Challenges, Unset
  <2>4. \A i \in 1..Len(queue) : queue[i] \in Blocks /\ queue[i] # b
    BY <2>1, <2>3 DEF QueueInv
  <2>5. \A i \in 1..Len(queue') : i = Len(queue) + 1 \/ i \in 1..Len(queue)
    BY <2>1, <2>2
  <2>6. \A i \in 1..Len(queue') : at'[queue'[i]] = "none" /\ challengeOf'[queue'[i]] # Unset
    <3>1. challengeOf'[b] = c /\ \A o \in Blocks \ {b} : challengeOf'[o] = challengeOf[o]
      BY <2>3 DEF TypeOK
    <3>2. TAKE i \in 1..Len(queue')
    <3>3. CASE i = Len(queue) + 1
      BY <2>2, <2>3, <3>1, <3>3
    <3>4. CASE i \in 1..Len(queue)
      BY <2>2, <2>3, <2>4, <3>1, <3>4 DEF QueueInv
    <3>5. QED
      BY <2>5, <3>3, <3>4
  <2>7. \A i, j \in 1..Len(queue') : queue'[i] = queue'[j] => i = j
    BY <2>2, <2>4, <2>5 DEF QueueInv
  <2>8. QED
    BY <2>3, <2>6, <2>7 DEF QueueInv, TypeOK
<1>2. CASE SendMiningSolutions
  <2>1. Top \in Blocks /\ at[Top] = "none" /\ challengeOf[Top] # Unset
    BY <1>2, PopFacts DEF SendMiningSolutions, QueueInv, Top
  <2>2. /\ challengeOf' = challengeOf
        /\ \A b \in Blocks \ {Top} : at'[b] = at[b]
    BY <1>2, <2>1 DEF SendMiningSolutions, Begin, TypeOK
  <2>3. \A i \in 1..Len(queue') : /\ i \in 1..Len(queue) /\ i # Len(queue)
                                   /\ queue'[i] = queue[i] /\ queue[i] \in Blocks
    BY <1>2, PopFacts DEF SendMiningSolutions, TypeOK
  <2>4. \A i \in 1..Len(queue') : queue[i] # Top
    BY <1>2, <2>3, PopFacts DEF SendMiningSolutions, QueueInv, Top
  <2>5. QED
    BY <2>1, <2>2, <2>3, <2>4 DEF QueueInv
<1>3. ASSUME NEW b \in Blocks, ReadCount(b) \/ SendTransaction(b) \/ Receive(b) \/ Fail(b)
      PROVE  QueueInv'
  <2>1. /\ at[b] # "none" /\ UNCHANGED <<queue, challengeOf>>
        /\ \A o \in Blocks \ {b} : at'[o] = at[o]
    BY <1>3 DEF ReadCount, SendTransaction, Receive, Fail, TypeOK, clientVars
  <2>2. \A i \in 1..Len(queue) : queue[i] \in Blocks
    BY DEF TypeOK
  <2>3. QED
    BY <2>1, <2>2 DEF QueueInv
<1>4. CASE \E tx \in mempool, meets \in BOOLEAN : MineTransaction(tx, meets)
  BY <1>4 DEF MineTransaction, QueueInv, clientVars
<1>5. CASE OthersMint \/ UNCHANGED vars
  BY <1>5 DEF OthersMint, vars, clientVars, QueueInv
<1>6. QED
  BY <1>1, <1>2, <1>3, <1>4, <1>5 DEF Next

LEMMA PendingStep ==
  ASSUME TypeOK, CountInv, OnePending, [Next]_vars
  PROVE  CountInv' /\ OnePending'
<1>1. ASSUME NEW b \in Blocks, NEW c \in Challenges, Queue(b, c)
      PROVE  CountInv' /\ OnePending'
  BY <1>1 DEF Queue, CountInv, OnePending, chainVars
<1>2. CASE SendMiningSolutions
  <2>1. /\ UNCHANGED <<txCount, confirmed, mempool>>
        /\ \A b \in Blocks : at'[b] = "send" => at[b] = "send"
    BY <1>2, PopFacts DEF SendMiningSolutions, Begin, TypeOK, chainVars
  <2>2. QED
    BY <2>1 DEF CountInv, OnePending
<1>3. ASSUME NEW b \in Blocks, ReadCount(b)
      PROVE  CountInv' /\ OnePending'
  BY <1>3 DEF ReadCount, TypeOK, CountInv, OnePending, chainVars
<1>4. ASSUME NEW b \in Blocks, SendTransaction(b)
      PROVE  CountInv' /\ OnePending'
  <2>1. /\ UNCHANGED <<txCount, confirmed>>
        /\ \A o \in Blocks : at'[o] = "send" => at[o] = "send"
    BY <1>4 DEF SendTransaction, TypeOK
  <2>2. CountInv'
    BY <2>1 DEF CountInv
  <2>3. CASE Refuses(txCount[b])
    BY <1>4, <2>1, <2>2, <2>3 DEF SendTransaction, OnePending
  <2>4. CASE ~Refuses(txCount[b])
    <3>1. txCount[b] = confirmed
      BY <1>4, <2>4 DEF SendTransaction, Refuses, CountInv, TypeOK
    <3>2. mempool = {}
      BY <2>4, <3>1 DEF Refuses, OnePending
    <3>3. mempool' = {[block |-> b, nonce |-> confirmed]}
      BY <1>4, <2>4, <3>1, <3>2 DEF SendTransaction
    <3>4. QED
      BY <2>1, <2>2, <3>3 DEF OnePending
  <2>5. QED
    BY <2>3, <2>4
<1>5. ASSUME NEW b \in Blocks, Receive(b) \/ Fail(b)
      PROVE  CountInv' /\ OnePending'
  BY <1>5 DEF Receive, Fail, TypeOK, CountInv, OnePending, chainVars
<1>6. ASSUME NEW tx \in mempool, NEW meets \in BOOLEAN, MineTransaction(tx, meets)
      PROVE  CountInv' /\ OnePending'
  <2>1. mempool' = {}
    BY <1>6 DEF MineTransaction, OnePending
  <2>2. confirmed' = confirmed + 1 /\ UNCHANGED <<at, txCount>>
    BY <1>6 DEF MineTransaction
  <2>3. QED
    BY <2>1, <2>2 DEF OnePending, CountInv, TypeOK
<1>7. CASE OthersMint \/ UNCHANGED vars
  BY <1>7 DEF OthersMint, vars, chainVars, CountInv, OnePending
<1>8. QED
  BY <1>1, <1>2, <1>3, <1>4, <1>5, <1>6, <1>7 DEF Next

LEMMA OverlapStep ==
  ASSUME IInv, [Next]_vars
  PROVE  OverlapInv'
<1> USE DEF IInv
<1> SUFFICES ASSUME \A b \in Blocks : at'[b] # "unanswered"
             PROVE  OverlapInv'
  BY DEF OverlapInv
<1> \A b \in Blocks : at[b] # "unanswered"
  <2>1. CASE SendMiningSolutions
    BY <2>1, PopFacts DEF SendMiningSolutions, Begin, QueueInv, Top, TypeOK
  <2>2. CASE UNCHANGED at
    BY <2>2
  <2>3. ASSUME NEW b \in Blocks, ReadCount(b) \/ SendTransaction(b) \/ Receive(b) \/ Fail(b)
        PROVE  \A o \in Blocks : at[o] # "unanswered"
    BY <2>3 DEF ReadCount, SendTransaction, Receive, Fail, TypeOK
  <2>4. QED
    BY <2>1, <2>2, <2>3 DEF Next, Queue, MineTransaction, OthersMint, vars
<1>1. ASSUME NEW b \in Blocks, NEW c \in Challenges, Queue(b, c)
      PROVE  OverlapInv'
  BY <1>1 DEF Queue, OverlapInv, InFlight, chainVars
<1>2. CASE SendMiningSolutions
  <2>1. Top \in Blocks /\ at[Top] = "none"
    BY <1>2, PopFacts DEF SendMiningSolutions, QueueInv, Top
  <2>2. /\ UNCHANGED <<txCount, confirmed, mempool>>
        /\ \A tx \in mempool : tx.block # Top
    BY <1>2, <2>1 DEF SendMiningSolutions, OverlapInv, chainVars
  <2>3. CASE challengeOf[Top] # last
    <3>1. /\ at' = [at EXCEPT ![Top] = "count"]
          /\ overlapped \subseteq overlapped'
          /\ (\E o \in Blocks : o # Top /\ InFlight(o)) => Top \in overlapped'
          /\ \A o \in Blocks : o # Top /\ InFlight(o) => o \in overlapped'
      BY <1>2, <2>3 DEF SendMiningSolutions, Begin
    <3>2. QED
      BY <2>1, <2>2, <3>1 DEF OverlapInv, InFlight, TypeOK
  <2>4. CASE challengeOf[Top] = last
    <3>1. at' = [at EXCEPT ![Top] = "skipped"] /\ overlapped' = overlapped
      BY <1>2, <2>4 DEF SendMiningSolutions
    <3>2. QED
      BY <2>1, <2>2, <3>1 DEF OverlapInv, InFlight, TypeOK
  <2>5. QED
    BY <2>3, <2>4
<1>3. ASSUME NEW b \in Blocks, ReadCount(b)
      PROVE  OverlapInv'
  BY <1>3 DEF ReadCount, OverlapInv, InFlight, TypeOK, chainVars
<1>4. ASSUME NEW b \in Blocks, SendTransaction(b)
      PROVE  OverlapInv'
  <2>1. CASE Refuses(txCount[b])
    <3>1. b \in overlapped
      <4>1. CASE txCount[b] < confirmed
        BY <1>4, <4>1 DEF SendTransaction, OverlapInv, TypeOK
      <4>2. CASE \E tx \in mempool : tx.nonce = txCount[b]
        <5>1. PICK tx \in mempool : TRUE
          BY <4>2
        <5>2. tx.block \in Blocks /\ at[tx.block] = "wait" /\ at[b] = "send"
          BY <1>4 DEF SendTransaction, OverlapInv, TypeOK
        <5>3. QED
          BY <5>2 DEF OverlapInv, InFlight
      <4>3. QED
        BY <2>1, <4>1, <4>2 DEF Refuses
    <3>2. QED
      BY <1>4, <2>1, <3>1 DEF SendTransaction, OverlapInv, InFlight, TypeOK
  <2>2. CASE ~Refuses(txCount[b])
    <3>1. at' = [at EXCEPT ![b] = "wait"] /\ at[b] = "send"
      BY <1>4, <2>2 DEF SendTransaction, TypeOK
    <3>2. mempool' = mempool \cup {[block |-> b, nonce |-> txCount[b]]}
      BY <1>4, <2>2 DEF SendTransaction
    <3>3. UNCHANGED <<txCount, confirmed, overlapped>>
      BY <1>4 DEF SendTransaction
    <3>4. QED
      BY <3>1, <3>2, <3>3 DEF OverlapInv, InFlight, TypeOK
  <2>3. QED
    BY <2>1, <2>2
<1>5. ASSUME NEW b \in Blocks, Receive(b) \/ Fail(b)
      PROVE  OverlapInv'
  <2>1. CASE Receive(b)
    BY <2>1 DEF Receive, OverlapInv, InFlight, TypeOK, chainVars
  <2>2. CASE Fail(b)
    <3>1. at' = [at EXCEPT ![b] = "failed"] /\ InFlight(b) /\ at[b] # "wait"
      BY <2>2 DEF Fail, InFlight
    <3>2. UNCHANGED <<txCount, confirmed, mempool, overlapped>>
      BY <2>2 DEF Fail, chainVars
    <3>3. QED
      BY <3>1, <3>2 DEF OverlapInv, InFlight, TypeOK
  <2>3. QED
    BY <1>5, <2>1, <2>2
<1>6. ASSUME NEW tx \in mempool, NEW meets \in BOOLEAN, MineTransaction(tx, meets)
      PROVE  OverlapInv'
  <2>1. tx.block \in Blocks /\ at[tx.block] = "wait"
    BY DEF OverlapInv, TypeOK
  <2>2. \A b \in Blocks : at[b] = "send" => b \in overlapped
    BY <2>1 DEF OverlapInv, InFlight
  <2>3. QED
    BY <1>6, <2>2 DEF MineTransaction, OverlapInv, InFlight
<1>7. CASE OthersMint \/ UNCHANGED vars
  BY <1>7 DEF OthersMint, vars, chainVars, OverlapInv, InFlight
<1>8. QED
  BY <1>1, <1>2, <1>3, <1>4, <1>5, <1>6, <1>7 DEF Next

LEMMA Inductive == Spec => []IInv
<1>1. Init => IInv
  BY TypeInit, InvInit DEF IInv
<1>2. IInv /\ [Next]_vars => IInv'
  BY TypeStep, QueueStep, PendingStep, OverlapStep DEF IInv
<1>3. QED
  BY <1>1, <1>2, PTL DEF Spec

\* However many submissions overlap, the wallet has one pending transaction at most.
THEOREM AtMostOnePending == Spec => []OnePending
<1>1. IInv => OnePending
  BY DEF IInv
<1>2. QED
  BY <1>1, Inductive, PTL

\* A submission that overlaps no other is never refused, if no answer is lost.
THEOREM AloneIsAccepted == Spec => []RefusedOnlyIfOverlapped
<1>1. IInv => RefusedOnlyIfOverlapped
  BY DEF IInv, OverlapInv, RefusedOnlyIfOverlapped
<1>2. QED
  BY <1>1, Inductive, PTL
=============================================================================

---------------------------- MODULE SolverProofs ----------------------------
(***************************************************************************)
(* Proofs about Solver for any challenges, addresses, targets and nonces,  *)
(* and any digest function.                                                *)
(***************************************************************************)
EXTENDS Solver, TLAPS

\* A setter call publishes what it has copied, and what it has published is
\* what was set last.
SetterInv ==
    \A s \in Slots :
        /\ crossing[s] = "crossed" => setter = s
        /\ setter # s => settled[s] = Latest(s)
        /\ setter = s /\ Locked(s) => crossing[s] = "crossed"
        /\ setter = s /\ crossing[s] # "crossed" => tmp[s] = Latest(s)

\* The solver swaps and clears only under a raised flag.
FlagInv == stage \in {"swap", "clear"} => ready[slot]

\* Where the value of a clean slot is: in the spare buffer until the swap, in
\* the active one after it; the previous value stays active until publication.
CleanInv ==
    \A s \in Slots : crossing[s] = "clean" =>
        /\ setter = s /\ ~ready[s] => active[s] = settled[s]
        /\ setter # s /\ ready[s] /\ ~Locked(s) => tmp[s] = Latest(s)
        /\ setter # s /\ (~ready[s] \/ Locked(s)) => active[s] = Latest(s)

BufferInv == SetterInv /\ FlagInv /\ CleanInv

\* The try under way has yet to test the flag of slot s, or to swap it.
Ahead(s) ==
    /\ stage # "between"
    /\ \/ slot = s /\ stage \in {"check", "swap"}
       \/ slot = "buffer" /\ s = "target"

\* What the history of a try knows: the window holds the last value set, slots
\* ahead of a try that began clean are still clean, and slots behind hold a
\* value of the window.
WindowInv ==
    /\ \A s \in Slots :
         /\ stage # "between" => {settled[s], Latest(s)} \subseteq window[s]
         /\ Ahead(s) /\ s \notin excused => crossing[s] = "clean"
    /\ stage \in {"clear", "use"} /\ slot \notin excused => active[slot] \in window[slot]
    /\ stage = "between" => slot = "buffer"
    /\ stage # "between" /\ slot = "target" =>
         /\ "buffer" \notin excused => active["buffer"] \in window["buffer"]
         /\ digest = Keccak(active["buffer"].challenge, active["buffer"].address, nonce)
    /\ stage # "between" => ~found

IInv == TypeOK /\ BufferInv /\ WindowInv /\ HitIsCurrent

-----------------------------------------------------------------------------

LEMMA TypeInit == Init => TypeOK
<1> SUFFICES ASSUME Init
             PROVE  TypeOK
  OBVIOUS
<1>1. work \in Works /\ target \in Levels
  BY DEF Init, Works, Levels
<1>2. \A s \in Slots : Latest(s) \in Contents(s)
  BY <1>1 DEF Contents, Latest
<1>3. \A s \in Slots : Contents(s) \subseteq Works \cup Levels
  BY DEF Contents
<1>4. QED
  BY <1>1, <1>2, <1>3 DEF Init, TypeOK, Slots

LEMMA TypeStep == TypeOK /\ [Next]_vars => TypeOK'
<1> SUFFICES ASSUME TypeOK, [Next]_vars
             PROVE  TypeOK'
  OBVIOUS
<1> USE DEF TypeOK, Slots, Contents, Works, Levels
<1>1. ASSUME NEW c \in Challenges, SetChallenge(c)
      PROVE  TypeOK'
  BY <1>1 DEF SetChallenge, Copy, tryVars
<1>2. ASSUME NEW a \in Addresses, SetAddress(a)
      PROVE  TypeOK'
  BY <1>2 DEF SetAddress, Copy, tryVars
<1>3. ASSUME NEW t \in Targets, SetTarget(t)
      PROVE  TypeOK'
  BY <1>3 DEF SetTarget, Copy, tryVars
<1>4. CASE Publish
  BY <1>4 DEF Publish, tryVars, Latest
<1>5. ASSUME NEW n \in Nonces, Begin(n)
      PROVE  TypeOK'
  <2>1. \A s \in Slots : {settled[s], Latest(s)} \subseteq Contents(s)
    BY DEF Latest
  <2>2. /\ window' \in [Slots -> SUBSET (Works \cup Levels)]
        /\ \A s \in Slots : window'[s] \subseteq Contents(s)
    BY <1>5, <2>1 DEF Begin
  <2>3. excused' \subseteq Slots
    BY <1>5 DEF Begin
  <2>4. QED
    BY <1>5, <2>2, <2>3 DEF Begin, setterVars, bufferVars
<1>6. CASE Check
  BY <1>6 DEF Check, setterVars, bufferVars, historyVars
<1>7. CASE Swap
  BY <1>7 DEF Swap, setterVars
<1>8. CASE Clear
  BY <1>8 DEF Clear, setterVars, historyVars
<1>9. CASE Hash
  BY <1>9 DEF Hash, setterVars, bufferVars, historyVars
<1>10. CASE Compare
  BY <1>10 DEF Compare, setterVars, bufferVars, historyVars
<1>11. CASE UNCHANGED vars
  BY <1>11 DEF vars, setterVars, bufferVars, tryVars, historyVars
<1>12. QED
  BY <1>1, <1>2, <1>3, <1>4, <1>5, <1>6, <1>7, <1>8, <1>9, <1>10, <1>11
     DEF Next, Set, Try

\* Every variable keeps its type: no handler of solver.cpp ever puts a value of
\* one kind where another belongs.
THEOREM TypeCorrect == Spec => []TypeOK
  BY TypeInit, TypeStep, PTL DEF Spec

-----------------------------------------------------------------------------

\* A copy changes what is latest in one slot only, and only while no setter
\* call is waiting for publication.
LEMMA CopyFacts ==
  ASSUME NEW s \in Slots, NEW v, Copy(s, v), Latest(s)' = v,
         \A r \in Slots \ {s} : Latest(r)' = Latest(r),
         TypeOK, BufferInv
  PROVE  BufferInv'
<1>1. /\ setter = "idle" /\ setter' = s
      /\ \A r \in Slots : Latest(r)' = IF r = s THEN v ELSE Latest(r)
      /\ tmp' = [tmp EXCEPT ![s] = v]
      /\ ~Locked(s)
      /\ UNCHANGED <<active, ready, stage, slot, settled, crossing>>
  BY DEF Copy, tryVars
<1>2. SetterInv'
  BY <1>1 DEF BufferInv, SetterInv, Locked, Slots, TypeOK
<1>3. FlagInv'
  BY <1>1 DEF BufferInv, FlagInv
<1>4. ASSUME NEW r \in Slots, crossing'[r] = "clean"
      PROVE  /\ setter' = r /\ ~ready'[r] => active'[r] = settled'[r]
             /\ setter' # r /\ ready'[r] /\ ~Locked(r)' => tmp'[r] = Latest(r)'
             /\ setter' # r /\ (~ready'[r] \/ Locked(r)') => active'[r] = Latest(r)'
  <2>1. CASE r = s
    BY <1>1, <1>4, <2>1 DEF BufferInv, CleanInv, SetterInv, TypeOK, Slots
  <2>2. CASE r # s
    BY <1>1, <1>4, <2>2 DEF BufferInv, CleanInv, TypeOK, Slots, Locked
  <2>3. QED
    BY <2>1, <2>2
<1>5. CleanInv'
  BY <1>4 DEF CleanInv
<1>6. QED
  BY <1>2, <1>3, <1>5 DEF BufferInv

\* The conversion of Copy to the three setters.
LEMMA SetterFacts ==
  ASSUME TypeOK
  PROVE  /\ \A c \in Challenges : SetChallenge(c) =>
              Copy("buffer", work') /\ UNCHANGED target
         /\ \A a \in Addresses : SetAddress(a) =>
              Copy("buffer", work') /\ UNCHANGED target
         /\ \A t \in Targets : SetTarget(t) =>
              Copy("target", target') /\ UNCHANGED work
  BY DEF SetChallenge, SetAddress, SetTarget

LEMMA BufferInvStep ==
  ASSUME TypeOK, BufferInv, [Next]_vars
  PROVE  BufferInv'
<1>1. ASSUME Copy("buffer", work'), UNCHANGED target
      PROVE  BufferInv'
  BY <1>1, CopyFacts DEF Latest, Slots
<1>2. ASSUME Copy("target", target'), UNCHANGED work
      PROVE  BufferInv'
  BY <1>2, CopyFacts DEF Latest, Slots
<1>3. CASE Publish
  <2>1. \A s \in Slots : Latest(s)' = Latest(s)
    BY <1>3 DEF Publish, Latest
  <2>2. SetterInv'
    BY <1>3, <2>1 DEF Publish, BufferInv, SetterInv, TypeOK, Slots, Locked, tryVars
  <2>3. FlagInv'
    BY <1>3 DEF Publish, BufferInv, FlagInv, TypeOK, Slots, tryVars
  <2>4. CleanInv'
    BY <1>3, <2>1 DEF Publish, BufferInv, SetterInv, CleanInv, TypeOK, Slots, Locked, tryVars
  <2>5. QED
    BY <2>2, <2>3, <2>4 DEF BufferInv
<1>4. ASSUME NEW n \in Nonces, Begin(n)
      PROVE  BufferInv'
  BY <1>4 DEF Begin, BufferInv, SetterInv, FlagInv, CleanInv, Locked, Latest,
              setterVars, bufferVars
<1>5. CASE Check
  BY <1>5 DEF Check, BufferInv, SetterInv, FlagInv, CleanInv, Locked, Latest,
              setterVars, bufferVars, historyVars
<1>6. CASE Swap
  <2>1. \A s \in Slots : Latest(s)' = Latest(s)
    BY <1>6 DEF Swap, Latest, setterVars
  <2>2. SetterInv' /\ FlagInv'
    BY <1>6, <2>1 DEF Swap, BufferInv, SetterInv, FlagInv, TypeOK, Slots, Locked, setterVars
  <2>3. /\ UNCHANGED <<setter, ready, slot, settled>>
        /\ stage = "swap" /\ stage' = "clear"
        /\ active'[slot] = tmp[slot]
        /\ crossing'[slot] = IF setter = slot THEN "crossed" ELSE crossing[slot]
        /\ \A s \in Slots \ {slot} : /\ active'[s] = active[s] /\ tmp'[s] = tmp[s]
                                     /\ crossing'[s] = crossing[s]
    BY <1>6 DEF Swap, TypeOK, setterVars
  <2>4. CleanInv'
    <3>1. ASSUME NEW s \in Slots, s = slot, crossing'[s] = "clean"
          PROVE  setter # s /\ active'[s] = Latest(s)
      BY <2>3, <3>1 DEF BufferInv, FlagInv, CleanInv, Locked
    <3>2. ASSUME NEW s \in Slots, s # slot
          PROVE  ~Locked(s) /\ ~Locked(s)'
      BY <2>3, <3>2 DEF Locked
    <3>3. QED
      BY <2>1, <2>3, <3>1, <3>2 DEF BufferInv, FlagInv, CleanInv, Locked
  <2>5. QED
    BY <2>2, <2>4 DEF BufferInv
<1>7. CASE Clear
  BY <1>7 DEF Clear, BufferInv, SetterInv, FlagInv, CleanInv, TypeOK, Slots, Locked, Latest,
              setterVars, historyVars
<1>8. CASE Hash \/ Compare
  BY <1>8 DEF Hash, Compare, BufferInv, SetterInv, FlagInv, CleanInv, Locked, Latest,
              setterVars, bufferVars, historyVars
<1>9. CASE UNCHANGED vars
  BY <1>9 DEF vars, setterVars, bufferVars, tryVars, historyVars, BufferInv, SetterInv,
              FlagInv, CleanInv, Locked, Latest
<1>10. QED
  BY <1>1, <1>2, <1>3, <1>4, <1>5, <1>6, <1>7, <1>8, <1>9, SetterFacts DEF Next, Set, Try

LEMMA BufferInvInit == Init => BufferInv
  BY DEF Init, BufferInv, SetterInv, FlagInv, CleanInv, Slots, Latest, Locked

-----------------------------------------------------------------------------

\* A setter step keeps what a try knows: it only adds the new value to the window.
LEMMA WindowInvSetter ==
  ASSUME TypeOK, BufferInv, WindowInv, Set
  PROVE  WindowInv'
<1>1. ASSUME NEW s \in Slots, NEW v, Copy(s, v), Latest(s)' = v,
             \A r \in Slots \ {s} : Latest(r)' = Latest(r)
      PROVE  WindowInv'
  <2>1. /\ UNCHANGED <<active, ready, stage, slot, nonce, digest, found, settled, crossing, excused>>
        /\ \A r \in Slots : window[r] \subseteq window'[r]
        /\ stage # "between" => v \in window'[s]
    BY <1>1 DEF Copy, tryVars, TypeOK, Slots
  <2>2. \A r \in Slots : Latest(r)' = IF r = s THEN v ELSE Latest(r)
    BY <1>1
  <2>3. QED
    BY <2>1, <2>2 DEF WindowInv, Ahead, Slots, TypeOK
<1>2. ASSUME Copy("buffer", work'), UNCHANGED target
      PROVE  WindowInv'
  BY <1>1, <1>2 DEF Latest, Slots
<1>3. ASSUME Copy("target", target'), UNCHANGED work
      PROVE  WindowInv'
  BY <1>1, <1>3 DEF Latest, Slots
<1>4. CASE Publish
  <2>1. /\ \A s \in Slots : Latest(s)' = Latest(s)
        /\ UNCHANGED <<active, stage, slot, nonce, digest, found, window, excused>>
    BY <1>4 DEF Publish, Latest, tryVars
  <2>2. \A s \in Slots : /\ settled'[s] \in {settled[s], Latest(s)}
                         /\ crossing[s] = "clean" => crossing'[s] = "clean"
    BY <1>4 DEF Publish, TypeOK
  <2>3. QED
    BY <2>1, <2>2 DEF WindowInv, Ahead, Slots
<1>5. QED
  BY <1>2, <1>3, <1>4, SetterFacts DEF Set

\* A solver step takes a value from where BufferInv says the current one is.
LEMMA WindowInvSolver ==
  ASSUME TypeOK, BufferInv, WindowInv, HitIsCurrent,
         Try \/ (\E n \in Nonces : Begin(n)) \/ UNCHANGED vars
  PROVE  WindowInv'
<1>1. ASSUME NEW n \in Nonces, Begin(n)
      PROVE  WindowInv'
  BY <1>1 DEF Begin, WindowInv, Ahead, Latest, setterVars, bufferVars, TypeOK, Slots
<1>2. CASE Check
  <2>1. CASE ready[slot]
    BY <1>2, <2>1 DEF Check, WindowInv, Ahead, Latest, setterVars, bufferVars, historyVars
  <2>2. CASE ~ready[slot]
    <3>1. slot \notin excused => active[slot] \in window[slot]
      BY <1>2, <2>2 DEF Check, WindowInv, Ahead, BufferInv, SetterInv, CleanInv, TypeOK
    <3>2. QED
      BY <1>2, <2>2, <3>1
         DEF Check, WindowInv, Ahead, Latest, setterVars, bufferVars, historyVars
  <2>3. QED
    BY <2>1, <2>2
<1>3. CASE Swap
  <2>1. slot \notin excused => tmp[slot] \in window[slot]
    BY <1>3 DEF Swap, WindowInv, Ahead, BufferInv, SetterInv, FlagInv, CleanInv, TypeOK, Locked
  <2>2. /\ \A s \in Slots : Latest(s)' = Latest(s)
        /\ UNCHANGED <<slot, nonce, digest, found, settled, window, excused>>
        /\ stage' = "clear"
    BY <1>3 DEF Swap, Latest, setterVars
  <2>3. active'[slot] = tmp[slot] /\ \A s \in Slots \ {slot} :
           active'[s] = active[s] /\ crossing'[s] = crossing[s]
    BY <1>3 DEF Swap, TypeOK
  <2>4. QED
    BY <1>3, <2>1, <2>2, <2>3 DEF Swap, WindowInv, Ahead, Slots, TypeOK
<1>4. CASE Clear
  BY <1>4 DEF Clear, WindowInv, Ahead, Latest, setterVars, historyVars
<1>5. CASE Hash
  BY <1>5 DEF Hash, WindowInv, Ahead, Latest, setterVars, bufferVars, historyVars, Slots
<1>6. CASE Compare
  BY <1>6 DEF Compare, WindowInv, Ahead, Latest, setterVars, bufferVars, historyVars, Slots
<1>7. CASE UNCHANGED vars
  BY <1>7 DEF vars, setterVars, bufferVars, tryVars, historyVars, WindowInv, Ahead, Latest
<1>8. QED
  BY <1>1, <1>2, <1>3, <1>4, <1>5, <1>6, <1>7 DEF Try

\* What a hit stands for: the digest of values of the window, at a target of it.
LEMMA HitIsCurrentStep ==
  ASSUME TypeOK, WindowInv, HitIsCurrent, [Next]_vars
  PROVE  HitIsCurrent'
<1>1. ASSUME NEW s \in Slots, NEW v, Copy(s, v)
      PROVE  HitIsCurrent'
  BY <1>1 DEF Copy, HitIsCurrent, WindowInv, tryVars, TypeOK, Slots
<1>2. CASE Publish
  BY <1>2 DEF Publish, HitIsCurrent, tryVars
<1>3. ASSUME NEW n \in Nonces, Begin(n)
      PROVE  HitIsCurrent'
  BY <1>3 DEF Begin, HitIsCurrent
<1>4. CASE Check \/ Swap \/ Clear \/ Hash
  BY <1>4 DEF Check, Swap, Clear, Hash, HitIsCurrent
<1>5. CASE Compare
  BY <1>5 DEF Compare, HitIsCurrent, WindowInv, bufferVars, historyVars, Slots
<1>6. CASE UNCHANGED vars
  BY <1>6 DEF vars, setterVars, bufferVars, tryVars, historyVars, HitIsCurrent
<1>7. QED
  BY <1>1, <1>2, <1>3, <1>4, <1>5, <1>6, SetterFacts DEF Next, Set, Try, Slots

\* The invariant the safety theorems below are read off.
LEMMA Inductive == Spec => []IInv
<1>1. Init => WindowInv /\ HitIsCurrent
  BY DEF Init, WindowInv, HitIsCurrent, Ahead
<1>2. Init => IInv
  BY <1>1, TypeInit, BufferInvInit DEF IInv
<1>3. IInv /\ [Next]_vars => IInv'
  <2> SUFFICES ASSUME IInv, [Next]_vars
               PROVE  IInv'
    OBVIOUS
  <2>1. TypeOK'
    BY TypeStep DEF IInv
  <2>2. BufferInv'
    BY BufferInvStep DEF IInv
  <2>3. WindowInv'
    BY WindowInvSetter, WindowInvSolver DEF IInv, Next
  <2>4. HitIsCurrent'
    BY HitIsCurrentStep DEF IInv
  <2>5. QED
    BY <2>1, <2>2, <2>3, <2>4 DEF IInv
<1>4. QED
  BY <1>2, <1>3, PTL DEF Spec

\* A completed setChallenge, setAddress or setTarget takes effect: once the
\* solver has lowered the flag, it hashes and compares with what was set,
\* unless a swap fell between the copy of a call and its publication.
THEOREM Fresh == Spec => []FreshUnlessCrossed
<1>1. IInv => FreshUnlessCrossed
  BY DEF IInv, BufferInv, SetterInv, CleanInv, FreshUnlessCrossed
<1>2. QED
  BY <1>1, Inductive, PTL

\* Every try hashes a challenge and address, and compares with a target, that
\* were current at some moment of it: each double buffer is a regular register
\* for tries that begin while it is clean.
THEOREM CurrentValues == Spec => []UsesCurrentValues
<1>1. IInv => UsesCurrentValues
  BY DEF IInv, WindowInv, UsesCurrentValues
<1>2. QED
  BY <1>1, Inductive, PTL

\* What trySolution reports as a solution solves a challenge and an address that
\* were current during the try, at a target that was current during it.
THEOREM CurrentHits == Spec => []HitIsCurrent
<1>1. IInv => HitIsCurrent
  BY DEF IInv
<1>2. QED
  BY <1>1, Inductive, PTL
=============================================================================

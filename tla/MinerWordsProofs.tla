-------------------------- MODULE MinerWordsProofs --------------------------
(***************************************************************************)
(* Every word of the device, every target of the solver and every header:  *)
(* the forms of cuda_helper.h are the operations they stand for, for each  *)
(* of the 2^64 words, the solver's conversions keep the number that bytes  *)
(* are, however many there are of them, and the kernels compute what the   *)
(* standards say: SHA-256 of every header, Keccak of every state.          *)
(***************************************************************************)
EXTENDS MinerWords, SequenceTheorems, WellFoundedInduction, TLAPS

-----------------------------------------------------------------------------
(* The words of the device: a set of bits, by its members.                 *)

LEMMA InUp ==
  ASSUME NEW v, v \subseteq Int, NEW n \in Int, NEW width \in Int, NEW x \in Int
  PROVE  x \in Cuda!Up(v, n, width) <=> x < width /\ x - n \in v
BY DEF Cuda!Up

LEMMA InDown ==
  ASSUME NEW v, v \subseteq Int, NEW n \in Int, NEW x \in Int
  PROVE  x \in Cuda!Down(v, n) <=> x >= 0 /\ x + n \in v
BY DEF Cuda!Down

LEMMA InLow ==
  ASSUME NEW v, v \subseteq Int, NEW x \in Int
  PROVE  x \in Cuda!Low(v) <=> x < 32 /\ x \in v
BY DEF Cuda!Low

LEMMA InHigh ==
  ASSUME NEW v, v \subseteq Int, NEW x \in Int
  PROVE  x \in Cuda!High(v) <=> x >= 0 /\ x + 32 \in v
BY DEF Cuda!High

LEMMA InWhole ==
  ASSUME NEW a, a \subseteq Int, NEW b, b \subseteq Int, NEW x \in Int
  PROVE  x \in Cuda!devectorize(<<a, b>>) <=> x \in a \/ x - 32 \in b
<1>1. Cuda!devectorize(<<a, b>>) = a \cup {c + 32 : c \in b}
  BY DEF Cuda!devectorize
<1>2. ASSUME x - 32 \in b PROVE x \in {c + 32 : c \in b}
  <2>1. x = (x - 32) + 32
    OBVIOUS
  <2> QED BY <1>2, <2>1
<1>3. ASSUME x \in {c + 32 : c \in b} PROVE x - 32 \in b
  BY <1>3
<1> QED BY <1>1, <1>2, <1>3

LEMMA Halves ==
  ASSUME NEW v, v \subseteq 0..63
  PROVE  Cuda!Low(v) \subseteq 0..31 /\ Cuda!High(v) \subseteq 0..31
<1>1. \A b \in Cuda!Low(v) : b \in 0..31
  BY DEF Cuda!Low
<1>2. \A b \in Cuda!High(v) : b \in 0..31
  BY DEF Cuda!High
<1> QED BY <1>1, <1>2

LEMMA InLeft ==
  ASSUME NEW v, v \subseteq 0..63, NEW n \in 0..63, NEW x \in Int
  PROVE  x \in Left(v, n) <=> x \in 0..63 /\ (x - n \in v \/ x + 64 - n \in v)
<1>1. \A b \in v : (b + n) % 64 = IF b + n < 64 THEN b + n ELSE b + n - 64
  OBVIOUS
<1> QED BY <1>1 DEF Left

LEMMA InRight ==
  ASSUME NEW v, v \subseteq 0..63, NEW n \in 0..63, NEW x \in Int
  PROVE  x \in Right(v, n) <=> x \in 0..63 /\ (x + n \in v \/ x + n - 64 \in v)
<1>1. \A b \in v : (b + 64 - n) % 64 = IF b < n THEN b + 64 - n ELSE b - n
  OBVIOUS
<1> QED BY <1>1 DEF Right

LEMMA InUnion ==
  ASSUME NEW a, a \subseteq Int, NEW b, b \subseteq Int, NEW k \in 0..32, NEW x \in Int
  PROVE  /\ x \in Cuda!Up(b, k, 32) <=> x < 32 /\ x - k \in b
         /\ x \in Cuda!Down(a, k) <=> x >= 0 /\ x + k \in a
<1>1. k \in Int /\ 32 \in Int
  OBVIOUS
<1> QED BY <1>1, InUp, InDown

\* The word that is seen through a window k bits below the top of a word b that stands
\* before a word a.
Funnel(a, b, k) == {x \in 0..31 : x - k \in b \/ x + 32 - k \in a}

Shifted(a, b, i, j) == Cuda!Up(b, i, 32) \cup Cuda!Down(a, j)

LEMMA FunnelIsUnion ==
  ASSUME NEW a, a \subseteq 0..31, NEW b, b \subseteq 0..31, NEW i \in 0..32, NEW j \in 0..32, i + j = 32
  PROVE  Shifted(a, b, i, j) = Funnel(a, b, i)
<1>0. a \subseteq Int /\ b \subseteq Int
  OBVIOUS
<1>1. Cuda!Up(b, i, 32) \subseteq Int /\ Cuda!Down(a, j) \subseteq Int
  BY DEF Cuda!Up, Cuda!Down
<1>2. \A x \in Int : x \in Cuda!Up(b, i, 32) \cup Cuda!Down(a, j) <=> x \in Funnel(a, b, i)
  <2> TAKE x \in Int
  <2>1. x + 32 - i = x + j
    OBVIOUS
  <2>2. x \in Funnel(a, b, i) <=> x \in 0..31 /\ (x - i \in b \/ x + j \in a)
    BY <2>1 DEF Funnel
  <2>3. (x - i \in b => x >= 0) /\ (x + j \in a => x < 32)
    OBVIOUS
  <2>4. x \in Cuda!Up(b, i, 32) <=> x < 32 /\ x - i \in b
    BY <1>0, InUnion
  <2>5. x \in Cuda!Down(a, j) <=> x >= 0 /\ x + j \in a
    BY <1>0, InUnion
  <2> QED BY <2>2, <2>3, <2>4, <2>5
<1>3. Funnel(a, b, i) \subseteq Int
  BY DEF Funnel
<1> QED BY <1>1, <1>2, <1>3 DEF Shifted

LEMMA FunnelShifts ==
  ASSUME NEW a, a \subseteq 0..31, NEW b, b \subseteq 0..31, NEW n \in 0..63, NEW k \in 0..31,
         n = k \/ n = k + 32
  PROVE  Cuda!shf_l_wrap(a, b, n) = Funnel(a, b, k) /\ Cuda!shf_r_wrap(a, b, n) = Funnel(a, b, 32 - k)
<1> DEFINE j == 32 - k
<1>1. n % 32 = k /\ k \in 0..32 /\ j \in 0..32 /\ k + j = 32 /\ j + k = 32 /\ j = 32 - k
  OBVIOUS
<1> HIDE DEF j
<1>2. Shifted(a, b, k, j) = Funnel(a, b, k)
  BY <1>1, FunnelIsUnion
<1>3. Shifted(a, b, j, k) = Funnel(a, b, j)
  BY <1>1, FunnelIsUnion, ZenonT(60)
<1>4. Cuda!shf_l_wrap(a, b, n) = Shifted(a, b, k, j)
  BY <1>1 DEF Shifted, Cuda!shf_l_wrap
<1>5. Cuda!shf_r_wrap(a, b, n) = Shifted(a, b, j, k)
  BY <1>1 DEF Shifted, Cuda!shf_r_wrap
<1> QED BY <1>1, <1>2, <1>3, <1>4, <1>5

LEMMA SameWord ==
  ASSUME NEW a, NEW b, a \subseteq 0..63, b \subseteq 0..63, \A x \in 0..63 : x \in a <=> x \in b
  PROVE  a = b
OBVIOUS

LEMMA Joined ==
  ASSUME NEW a, a \subseteq 0..31, NEW b, b \subseteq 0..31
  PROVE  /\ Cuda!devectorize(<<a, b>>) \subseteq 0..63
         /\ \A x \in 0..63 : x \in Cuda!devectorize(<<a, b>>) <=> IF x < 32 THEN x \in a ELSE x - 32 \in b
<1>1. Cuda!devectorize(<<a, b>>) = a \cup {c + 32 : c \in b}
  BY DEF Cuda!devectorize
<1>2. \A x \in Cuda!devectorize(<<a, b>>) : x \in 0..63
  <2>1. \A x \in a : x \in 0..63
    OBVIOUS
  <2>2. \A c \in b : c + 32 \in 0..63
    OBVIOUS
  <2> QED BY <1>1, <2>1, <2>2
<1>3. a \subseteq Int /\ b \subseteq Int
  OBVIOUS
<1>4. ASSUME NEW x \in 0..63
      PROVE  x \in Cuda!devectorize(<<a, b>>) <=> IF x < 32 THEN x \in a ELSE x - 32 \in b
  <2>1. x \in Int
    OBVIOUS
  <2>2. x \in Cuda!devectorize(<<a, b>>) <=> x \in a \/ x - 32 \in b
    BY <1>3, <2>1, InWhole
  <2> QED BY <2>2
<1> QED BY <1>2, <1>4

LEMMA FunnelType ==
  ASSUME NEW a, NEW b, NEW k
  PROVE  Funnel(a, b, k) \subseteq 0..31
BY DEF Funnel

\* Two halves that are windows on a word and its halves exchanged are the word turned.
LEMMA TurnedLeft ==
  ASSUME NEW v, v \subseteq 0..63, NEW n \in 0..63, NEW k \in 0..32
  PROVE  LET lo == Cuda!Low(v)
             hi == Cuda!High(v)
         IN /\ n = k => Cuda!devectorize(<<Funnel(hi, lo, k), Funnel(lo, hi, k)>>) = Left(v, n)
            /\ n = k + 32 => Cuda!devectorize(<<Funnel(lo, hi, k), Funnel(hi, lo, k)>>) = Left(v, n)
            /\ n = 32 - k => Cuda!devectorize(<<Funnel(lo, hi, k), Funnel(hi, lo, k)>>) = Right(v, n)
            /\ n = 64 - k => Cuda!devectorize(<<Funnel(hi, lo, k), Funnel(lo, hi, k)>>) = Right(v, n)
<1> DEFINE lo == Cuda!Low(v)
           hi == Cuda!High(v)
           f == Funnel(hi, lo, k)
           g == Funnel(lo, hi, k)
<1>1. /\ Cuda!devectorize(<<f, g>>) \subseteq 0..63 /\ Cuda!devectorize(<<g, f>>) \subseteq 0..63
      /\ \A x \in 0..63 : x \in Cuda!devectorize(<<f, g>>) <=> IF x < 32 THEN x \in f ELSE x - 32 \in g
      /\ \A x \in 0..63 : x \in Cuda!devectorize(<<g, f>>) <=> IF x < 32 THEN x \in g ELSE x - 32 \in f
  <2> HIDE DEF lo, hi
  <2> QED BY FunnelType, Joined
<1>2. \A x \in Int : (x \in lo <=> x < 32 /\ x \in v) /\ (x \in hi <=> x >= 0 /\ x + 32 \in v)
  <2>1. v \subseteq Int
    OBVIOUS
  <2> QED BY <2>1, InLow, InHigh
<1>3. \A x \in Int : /\ x \in f <=> x \in 0..31 /\ (x - k \in lo \/ x + 32 - k \in hi)
                     /\ x \in g <=> x \in 0..31 /\ (x - k \in hi \/ x + 32 - k \in lo)
  <2> HIDE DEF lo, hi
  <2> QED BY DEF Funnel
<1>4. \A x \in Int : /\ x \in f <=> x \in 0..31 /\ (x - k \in v \/ x + 64 - k \in v)
                     /\ x \in g <=> x \in 0..31 /\ x + 32 - k \in v
  <2> HIDE DEF lo, hi, f, g
  <2> TAKE x \in Int
  <2>1. /\ x - k \in Int /\ x + 32 - k \in Int /\ (x + 32 - k) + 32 = x + 64 - k /\ (x - k) + 32 = x + 32 - k
        /\ (x \in 0..31 => x - k < 32 /\ x + 32 - k >= 0)
        /\ (x + 64 - k \in v => x + 32 - k <= 31)
    OBVIOUS
  <2>2. (x - k \in lo <=> x - k < 32 /\ x - k \in v) /\ (x - k \in hi <=> x - k >= 0 /\ x + 32 - k \in v)
    BY <1>2, <2>1
  <2>3. /\ x + 32 - k \in lo <=> x + 32 - k < 32 /\ x + 32 - k \in v
        /\ x + 32 - k \in hi <=> x + 32 - k >= 0 /\ x + 64 - k \in v
    BY <1>2, <2>1
  <2>4. x \in f <=> x \in 0..31 /\ (x - k \in v \/ x + 64 - k \in v)
    BY <1>3, <2>1, <2>2, <2>3
  <2>5. x \in g <=> x \in 0..31 /\ x + 32 - k \in v
    BY <1>3, <2>1, <2>2, <2>3
  <2> QED BY <2>4, <2>5
<1>5. \A x \in Int : /\ x \in Left(v, n) <=> x \in 0..63 /\ (x - n \in v \/ x + 64 - n \in v)
                     /\ x \in Right(v, n) <=> x \in 0..63 /\ (x + n \in v \/ x + n - 64 \in v)
  BY InLeft, InRight
<1>6. \A x \in 0..63 :
        /\ x \in Cuda!devectorize(<<f, g>>) <=> (x - k \in v \/ x + 64 - k \in v)
        /\ x \in Cuda!devectorize(<<g, f>>) <=> (x + 32 - k \in v \/ x - 32 - k \in v)
  <2> HIDE DEF lo, hi, f, g
  <2> TAKE x \in 0..63
  <2>1. CASE x < 32
    <3>1. x \in f <=> x - k \in v \/ x + 64 - k \in v
      BY <1>4, <2>1
    <3>2. x \in g <=> x + 32 - k \in v
      BY <1>4, <2>1
    <3>3. x - 32 - k \notin v
      BY <2>1
    <3> QED BY <1>1, <2>1, <3>1, <3>2, <3>3
  <2>2. CASE ~(x < 32)
    <3>1. /\ x - 32 \in Int /\ x - 32 \in 0..31 /\ (x - 32) - k = x - 32 - k
          /\ (x - 32) + 64 - k = x + 32 - k /\ (x - 32) + 32 - k = x - k
      BY <2>2
    <3>2. x - 32 \in f <=> x - 32 - k \in v \/ x + 32 - k \in v
      BY <1>4, <3>1
    <3>3. x - 32 \in g <=> x - k \in v
      BY <1>4, <3>1
    <3>4. x + 64 - k \notin v
      BY <2>2
    <3> QED BY <1>1, <2>2, <3>2, <3>3, <3>4
  <2> QED BY <2>1, <2>2
<1> HIDE DEF lo, hi, f, g
<1>7. Left(v, n) \subseteq 0..63 /\ Right(v, n) \subseteq 0..63
  <2>1. Left(v, n) \subseteq Int /\ Right(v, n) \subseteq Int
    BY DEF Left, Right
  <2> QED BY <1>5, <2>1
<1>8. ASSUME n = k PROVE Cuda!devectorize(<<f, g>>) = Left(v, n)
  <2>1. \A x \in 0..63 : x - n = x - k /\ x + 64 - n = x + 64 - k
    BY <1>8
  <2>2. \A x \in 0..63 : x \in Cuda!devectorize(<<f, g>>) <=> x \in Left(v, n)
    BY <1>5, <1>6, <2>1, SMTT(30)
  <2> QED BY <1>1, <1>7, <2>2, SameWord, Zenon
<1>9. ASSUME n = k + 32 PROVE Cuda!devectorize(<<g, f>>) = Left(v, n)
  <2>1. \A x \in 0..63 : x - n = x - 32 - k /\ x + 64 - n = x + 32 - k
    BY <1>9
  <2>2. \A x \in 0..63 : x \in Cuda!devectorize(<<g, f>>) <=> x \in Left(v, n)
    BY <1>5, <1>6, <2>1, SMTT(30)
  <2> QED BY <1>1, <1>7, <2>2, SameWord, Zenon
<1>10. ASSUME n = 32 - k PROVE Cuda!devectorize(<<g, f>>) = Right(v, n)
  <2>1. \A x \in 0..63 : x + n = x + 32 - k /\ x + n - 64 = x - 32 - k
    BY <1>10
  <2>2. \A x \in 0..63 : x \in Cuda!devectorize(<<g, f>>) <=> x \in Right(v, n)
    BY <1>5, <1>6, <2>1, SMTT(30)
  <2> QED BY <1>1, <1>7, <2>2, SameWord, Zenon
<1>11. ASSUME n = 64 - k PROVE Cuda!devectorize(<<f, g>>) = Right(v, n)
  <2>1. \A x \in 0..63 : x + n = x + 64 - k /\ x + n - 64 = x - k
    BY <1>11
  <2>2. \A x \in 0..63 : x \in Cuda!devectorize(<<f, g>>) <=> x \in Right(v, n)
    BY <1>5, <1>6, <2>1, SMTT(30)
  <2> QED BY <1>1, <1>7, <2>2, SameWord, Zenon
<1> QED BY <1>8, <1>9, <1>10, <1>11 DEF f, g, lo, hi

LEMMA FunnelEnds ==
  ASSUME NEW a, a \subseteq 0..31, NEW b, b \subseteq 0..31
  PROVE  Funnel(a, b, 0) = b /\ Funnel(a, b, 32) = a
<1>1. \A x \in 0..31 : (x \in Funnel(a, b, 0) <=> x \in b) /\ (x \in Funnel(a, b, 32) <=> x \in a)
  <2> TAKE x \in 0..31
  <2>1. x - 0 = x /\ x + 32 - 32 = x /\ x + 32 - 0 \notin a /\ x - 32 \notin b
    OBVIOUS
  <2>2. x \in Funnel(a, b, 0) <=> x - 0 \in b \/ x + 32 - 0 \in a
    BY DEF Funnel
  <2>3. x \in Funnel(a, b, 32) <=> x - 32 \in b \/ x + 32 - 32 \in a
    BY DEF Funnel
  <2> QED BY <2>1, <2>2, <2>3
<1>2. Funnel(a, b, 0) \subseteq 0..31 /\ Funnel(a, b, 32) \subseteq 0..31
  BY FunnelType
<1> QED BY <1>1, <1>2

\* Two shifts of the whole word.
LEMMA ShiftsTurn ==
  ASSUME NEW v, v \subseteq 0..63, NEW n \in 0..63
  PROVE  Cuda!ROTL64_shifts(v, n) = Left(v, n) /\ Cuda!ROTR64_shifts(v, n) = Right(v, n)
<1> DEFINE m == 64 - n
<1>1. v \subseteq Int /\ n \in Int /\ m \in Int /\ 64 \in Int /\ m = 64 - n
  OBVIOUS
<1> HIDE DEF m
<1>2. Cuda!ROTL64_shifts(v, n) = Cuda!Up(v, n, 64) \cup Cuda!Down(v, m)
  BY <1>1 DEF Cuda!ROTL64_shifts
<1>3. Cuda!ROTR64_shifts(v, n) = Cuda!Up(v, m, 64) \cup Cuda!Down(v, n)
  BY <1>1 DEF Cuda!ROTR64_shifts
<1>4. \A x \in Int : /\ x \in Cuda!Up(v, n, 64) <=> x < 64 /\ x - n \in v
                     /\ x \in Cuda!Up(v, m, 64) <=> x < 64 /\ x - m \in v
                     /\ x \in Cuda!Down(v, n) <=> x >= 0 /\ x + n \in v
                     /\ x \in Cuda!Down(v, m) <=> x >= 0 /\ x + m \in v
  BY <1>1, InUp, InDown
<1>5. \A x \in Int : /\ x \in Left(v, n) <=> x \in 0..63 /\ (x - n \in v \/ x + 64 - n \in v)
                     /\ x \in Right(v, n) <=> x \in 0..63 /\ (x + n \in v \/ x + n - 64 \in v)
  BY InLeft, InRight
<1>6. /\ Cuda!ROTL64_shifts(v, n) \subseteq Int /\ Cuda!ROTR64_shifts(v, n) \subseteq Int
      /\ Left(v, n) \subseteq Int /\ Right(v, n) \subseteq Int
  BY <1>1, <1>2, <1>3 DEF Left, Right, Cuda!Up, Cuda!Down
<1>7. \A x \in Int : x + 64 - n = x + m /\ x + n - 64 = x - m
  BY <1>1
<1>8. \A x \in Int : /\ x - n \in v => x >= 0
                     /\ x + m \in v => x < 64
                     /\ x + n \in v => x < 64
                     /\ x - m \in v => x >= 0
  BY <1>1
<1>9. \A x \in Int : x \in Cuda!ROTL64_shifts(v, n) <=> x \in Left(v, n)
  <2> TAKE x \in Int
  <2>1. x \in Cuda!ROTL64_shifts(v, n) <=> (x < 64 /\ x - n \in v) \/ (x >= 0 /\ x + m \in v)
    BY <1>2, <1>4
  <2>2. x \in Left(v, n) <=> x \in 0..63 /\ (x - n \in v \/ x + m \in v)
    BY <1>5, <1>7
  <2> QED BY <1>8, <2>1, <2>2
<1>10. \A x \in Int : x \in Cuda!ROTR64_shifts(v, n) <=> x \in Right(v, n)
  <2> TAKE x \in Int
  <2>1. x \in Cuda!ROTR64_shifts(v, n) <=> (x < 64 /\ x - m \in v) \/ (x >= 0 /\ x + n \in v)
    BY <1>3, <1>4
  <2>2. x \in Right(v, n) <=> x \in 0..63 /\ (x + n \in v \/ x - m \in v)
    BY <1>5, <1>7
  <2> QED BY <1>8, <2>1, <2>2
<1> QED BY <1>6, <1>9, <1>10

\* The forms by halves, with and without the instruction of the device.
LEMMA HalvesTurn ==
  ASSUME NEW v, v \subseteq 0..63, NEW n \in 0..63, NEW lo, NEW hi,
         lo = Cuda!Low(v), hi = Cuda!High(v)
  PROVE  /\ n < 32 =>
              /\ Cuda!devectorize(<<Cuda!shf_l_wrap(hi, lo, n), Cuda!shf_l_wrap(lo, hi, n)>>) = Left(v, n)
              /\ Cuda!devectorize(<<Cuda!shf_r_wrap(lo, hi, n), Cuda!shf_r_wrap(hi, lo, n)>>) = Right(v, n)
         /\ n >= 32 =>
              /\ Cuda!devectorize(<<Cuda!shf_l_wrap(lo, hi, n), Cuda!shf_l_wrap(hi, lo, n)>>) = Left(v, n)
              /\ Cuda!devectorize(<<Cuda!shf_r_wrap(hi, lo, n), Cuda!shf_r_wrap(lo, hi, n)>>) = Right(v, n)
<1>0. lo \subseteq 0..31 /\ hi \subseteq 0..31
  BY Halves
<1> DEFINE k == IF n < 32 THEN n ELSE n - 32
           j == 32 - k
<1>1. /\ k \in 0..31 /\ j \in 0..32 /\ k \in 0..32 /\ (n = k \/ n = k + 32) /\ j = 32 - k
      /\ n < 32 => n = k /\ n = 32 - j
      /\ n >= 32 => n = k + 32 /\ n = 64 - j
  OBVIOUS
<1> HIDE DEF k, j
<1>2. /\ Cuda!shf_l_wrap(lo, hi, n) = Funnel(lo, hi, k) /\ Cuda!shf_r_wrap(lo, hi, n) = Funnel(lo, hi, j)
      /\ Cuda!shf_l_wrap(hi, lo, n) = Funnel(hi, lo, k) /\ Cuda!shf_r_wrap(hi, lo, n) = Funnel(hi, lo, j)
  BY <1>0, <1>1, FunnelShifts
<1>3. /\ n = k => Cuda!devectorize(<<Funnel(hi, lo, k), Funnel(lo, hi, k)>>) = Left(v, n)
      /\ n = k + 32 => Cuda!devectorize(<<Funnel(lo, hi, k), Funnel(hi, lo, k)>>) = Left(v, n)
      /\ n = 32 - j => Cuda!devectorize(<<Funnel(lo, hi, j), Funnel(hi, lo, j)>>) = Right(v, n)
      /\ n = 64 - j => Cuda!devectorize(<<Funnel(hi, lo, j), Funnel(lo, hi, j)>>) = Right(v, n)
  BY <1>1, TurnedLeft, ZenonT(60)
<1> QED BY <1>1, <1>2, <1>3

\* The four shifts that make up half of a result.
MixedLeft(a, b, k) == Cuda!Up(a, k, 32) \cup Cuda!Down(b, 32 - k)
MixedRight(a, b, k) == Cuda!Down(a, k) \cup Cuda!Up(b, 32 - k, 32)

\* The forms by four shifts, for a number of bits up to 32 and for one above it.
LEMMA MixedTurn ==
  ASSUME NEW v, v \subseteq 0..63, NEW n \in 0..63, NEW k \in 0..32
  PROVE  LET lo == Cuda!Low(v)
             hi == Cuda!High(v)
         IN /\ n = k => /\ Cuda!devectorize(<<MixedLeft(lo, hi, k), MixedLeft(hi, lo, k)>>) = Left(v, n)
                        /\ Cuda!devectorize(<<MixedRight(lo, hi, k), MixedRight(hi, lo, k)>>) = Right(v, n)
            /\ n = k + 32 =>
                 /\ Cuda!devectorize(<<MixedLeft(hi, lo, k), MixedLeft(lo, hi, k)>>) = Left(v, n)
                 /\ Cuda!devectorize(<<MixedRight(hi, lo, k), MixedRight(lo, hi, k)>>) = Right(v, n)
<1> DEFINE lo == Cuda!Low(v)
           hi == Cuda!High(v)
           j == 32 - k
<1>0. lo \subseteq 0..31 /\ hi \subseteq 0..31
  BY Halves
<1>1. /\ j \in 0..32 /\ k + j = 32 /\ j + k = 32 /\ j = 32 - k
      /\ n = k => n = 32 - j
      /\ n = k + 32 => n = 64 - j
  OBVIOUS
<1> HIDE DEF j
<1>2. /\ Shifted(lo, hi, k, j) = Funnel(lo, hi, k) /\ Shifted(lo, hi, j, k) = Funnel(lo, hi, j)
      /\ Shifted(hi, lo, k, j) = Funnel(hi, lo, k) /\ Shifted(hi, lo, j, k) = Funnel(hi, lo, j)
  BY <1>0, <1>1, FunnelIsUnion
<1>3. /\ MixedLeft(lo, hi, k) = Shifted(hi, lo, k, j)
      /\ MixedLeft(hi, lo, k) = Shifted(lo, hi, k, j)
      /\ MixedRight(lo, hi, k) = Shifted(lo, hi, j, k)
      /\ MixedRight(hi, lo, k) = Shifted(hi, lo, j, k)
  BY <1>1 DEF Shifted, MixedLeft, MixedRight
<1>4. /\ n = k => Cuda!devectorize(<<Funnel(hi, lo, k), Funnel(lo, hi, k)>>) = Left(v, n)
      /\ n = k + 32 => Cuda!devectorize(<<Funnel(lo, hi, k), Funnel(hi, lo, k)>>) = Left(v, n)
      /\ n = 32 - j => Cuda!devectorize(<<Funnel(lo, hi, j), Funnel(hi, lo, j)>>) = Right(v, n)
      /\ n = 64 - j => Cuda!devectorize(<<Funnel(hi, lo, j), Funnel(lo, hi, j)>>) = Right(v, n)
  BY <1>1, TurnedLeft, ZenonT(60)
<1> QED BY <1>1, <1>2, <1>3, <1>4

LEMMA ROL2Turns ==
  ASSUME NEW v, v \subseteq 0..63, NEW n \in 0..63, NEW a, a = Cuda!vectorize(v)
  PROVE  /\ Cuda!ROTL64(v, n) = Left(v, n) /\ Cuda!ROTL64_select(v, n) = Left(v, n)
         /\ Cuda!devectorize(Cuda!ROL2(a, n)) = Left(v, n)
         /\ Cuda!ROTR64(v, n) = Right(v, n) /\ Cuda!devectorize(Cuda!ROR2(a, n)) = Right(v, n)
<1> DEFINE lo == Cuda!Low(v)
           hi == Cuda!High(v)
           l1 == <<Cuda!shf_l_wrap(hi, lo, n), Cuda!shf_l_wrap(lo, hi, n)>>
           l2 == <<Cuda!shf_l_wrap(lo, hi, n), Cuda!shf_l_wrap(hi, lo, n)>>
           r1 == <<Cuda!shf_r_wrap(lo, hi, n), Cuda!shf_r_wrap(hi, lo, n)>>
           r2 == <<Cuda!shf_r_wrap(hi, lo, n), Cuda!shf_r_wrap(lo, hi, n)>>
<1>1. a = <<lo, hi>>
  BY DEF Cuda!vectorize
<1>2. /\ n < 32 => Cuda!devectorize(l1) = Left(v, n) /\ Cuda!devectorize(r1) = Right(v, n)
      /\ n >= 32 => Cuda!devectorize(l2) = Left(v, n) /\ Cuda!devectorize(r2) = Right(v, n)
  BY HalvesTurn, Zenon
<1>3. /\ Cuda!ROTL64(v, n) = Cuda!devectorize(IF n >= 32 THEN l2 ELSE l1)
      /\ Cuda!ROTL64_select(v, n) = Cuda!devectorize(IF n < 32 THEN l1 ELSE l2)
      /\ Cuda!ROTR64(v, n) = Cuda!devectorize(IF n < 32 THEN r1 ELSE r2)
  BY DEF Cuda!ROTL64, Cuda!ROTL64_select, Cuda!ROTR64
<1>4. Cuda!ROL2(a, n) = IF n >= 32 THEN l2 ELSE l1
  BY <1>1 DEF Cuda!ROL2
<1>5. Cuda!ROR2(a, n) = IF n < 32 THEN r1 ELSE r2
  BY <1>1 DEF Cuda!ROR2
<1>6. n < 32 \/ n >= 32
  OBVIOUS
<1>7. ~(n < 32 /\ n >= 32)
  OBVIOUS
<1> HIDE DEF l1, l2, r1, r2
<1> QED BY <1>2, <1>3, <1>4, <1>5, <1>6, <1>7

LEMMA MiscTurns ==
  ASSUME NEW v, v \subseteq 0..63, NEW n \in 0..63, NEW a, a = Cuda!vectorize(v)
  PROVE  /\ Cuda!devectorize(Cuda!ROL2_misc(a, n)) = Left(v, n)
         /\ Cuda!devectorize(Cuda!ROR2_misc(a, n)) = Right(v, n)
<1> DEFINE lo == Cuda!Low(v)
           hi == Cuda!High(v)
<1>1. a = <<lo, hi>>
  BY DEF Cuda!vectorize
<1>2. /\ Cuda!ROL2_misc(a, n) = IF n <= 32 THEN <<MixedLeft(lo, hi, n), MixedLeft(hi, lo, n)>>
                                ELSE <<MixedLeft(hi, lo, n - 32), MixedLeft(lo, hi, n - 32)>>
      /\ Cuda!ROR2_misc(a, n) = IF n <= 32 THEN <<MixedRight(lo, hi, n), MixedRight(hi, lo, n)>>
                                ELSE <<MixedRight(hi, lo, n - 32), MixedRight(lo, hi, n - 32)>>
  <2> HIDE DEF lo, hi
  <2> QED BY <1>1 DEF Cuda!ROL2_misc, Cuda!ROR2_misc, MixedLeft, MixedRight
<1>3. CASE n <= 32
  <2>1. n \in 0..32
    BY <1>3
  <2>2. /\ Cuda!devectorize(<<MixedLeft(lo, hi, n), MixedLeft(hi, lo, n)>>) = Left(v, n)
        /\ Cuda!devectorize(<<MixedRight(lo, hi, n), MixedRight(hi, lo, n)>>) = Right(v, n)
    BY <2>1, MixedTurn, Zenon
  <2> HIDE DEF lo, hi
  <2> QED BY <1>2, <1>3, <2>2
<1>4. CASE ~(n <= 32)
  <2>1. PICK k \in 0..32 : n = k + 32 /\ n - 32 = k
    <3>1. n - 32 \in 0..32 /\ n = (n - 32) + 32
      BY <1>4
    <3> QED BY <3>1
  <2>2. /\ Cuda!devectorize(<<MixedLeft(hi, lo, k), MixedLeft(lo, hi, k)>>) = Left(v, n)
        /\ Cuda!devectorize(<<MixedRight(hi, lo, k), MixedRight(lo, hi, k)>>) = Right(v, n)
    BY <2>1, MixedTurn, Zenon
  <2> HIDE DEF lo, hi
  <2> QED BY <1>2, <1>4, <2>1, <2>2
<1> QED BY <1>3, <1>4

LEMMA ROR2ShiftsTurns ==
  ASSUME NEW v, v \subseteq 0..63, NEW n \in 0..63, NEW a, a = Cuda!vectorize(v)
  PROVE  Cuda!devectorize(Cuda!ROR2_shifts(a, n)) = Right(v, n)
<1> DEFINE lo == Cuda!Low(v)
           hi == Cuda!High(v)
<1>1. a = <<lo, hi>> /\ lo \subseteq 0..31 /\ hi \subseteq 0..31
  BY Halves DEF Cuda!vectorize
<1>2. /\ n = 0 => Cuda!ROR2_shifts(a, n) = <<lo, hi>>
      /\ n \in 1..31 => Cuda!ROR2_shifts(a, n) = <<MixedRight(lo, hi, n), MixedRight(hi, lo, n)>>
      /\ n = 32 => Cuda!ROR2_shifts(a, n) = <<hi, lo>>
      /\ n > 32 => Cuda!ROR2_shifts(a, n) = <<MixedRight(hi, lo, n - 32), MixedRight(lo, hi, n - 32)>>
  <2> HIDE DEF lo, hi
  <2>1. ASSUME n = 0 PROVE Cuda!ROR2_shifts(a, n) = <<lo, hi>>
    BY <1>1, <2>1 DEF Cuda!ROR2_shifts
  <2>2. ASSUME n \in 1..31 PROVE Cuda!ROR2_shifts(a, n) = <<MixedRight(lo, hi, n), MixedRight(hi, lo, n)>>
    BY <1>1, <2>2 DEF Cuda!ROR2_shifts, MixedRight
  <2>3. ASSUME n = 32 PROVE Cuda!ROR2_shifts(a, n) = <<hi, lo>>
    BY <1>1, <2>3 DEF Cuda!ROR2_shifts, Cuda!SWAPUINT2
  <2>4. ASSUME n > 32 PROVE Cuda!ROR2_shifts(a, n) = <<MixedRight(hi, lo, n - 32), MixedRight(lo, hi, n - 32)>>
    BY <1>1, <2>4 DEF Cuda!ROR2_shifts, MixedRight
  <2> QED BY <2>1, <2>2, <2>3, <2>4
<1>3. ASSUME NEW k \in 0..32
      PROVE  /\ n = 32 - k => Cuda!devectorize(<<Funnel(lo, hi, k), Funnel(hi, lo, k)>>) = Right(v, n)
             /\ n = 64 - k => Cuda!devectorize(<<Funnel(hi, lo, k), Funnel(lo, hi, k)>>) = Right(v, n)
  BY TurnedLeft
<1>4. ASSUME NEW k \in 0..32
      PROVE  /\ n = k => Cuda!devectorize(<<MixedRight(lo, hi, k), MixedRight(hi, lo, k)>>) = Right(v, n)
             /\ n = k + 32 => Cuda!devectorize(<<MixedRight(hi, lo, k), MixedRight(lo, hi, k)>>) = Right(v, n)
  BY MixedTurn, Zenon
<1> HIDE DEF lo, hi
<1>5. CASE n = 0
  <2>1. Funnel(lo, hi, 32) = lo /\ Funnel(hi, lo, 32) = hi
    BY <1>1, FunnelEnds
  <2>2. 32 \in 0..32 /\ n = 32 - 32
    BY <1>5
  <2>3. Cuda!devectorize(<<Funnel(lo, hi, 32), Funnel(hi, lo, 32)>>) = Right(v, n)
    BY <1>3, <2>2
  <2> QED BY <1>2, <1>5, <2>1, <2>3
<1>6. CASE n = 32
  <2>1. Funnel(lo, hi, 0) = hi /\ Funnel(hi, lo, 0) = lo
    BY <1>1, FunnelEnds, Zenon
  <2>2. 0 \in 0..32 /\ n = 32 - 0
    BY <1>6
  <2>3. Cuda!devectorize(<<Funnel(lo, hi, 0), Funnel(hi, lo, 0)>>) = Right(v, n)
    BY <1>3, <2>2
  <2> QED BY <1>2, <1>6, <2>1, <2>3
<1>7. CASE n \in 1..31
  <2>1. n \in 0..32
    BY <1>7
  <2>2. Cuda!devectorize(<<MixedRight(lo, hi, n), MixedRight(hi, lo, n)>>) = Right(v, n)
    BY <1>4, <2>1
  <2> QED BY <1>2, <1>7, <2>2
<1>8. CASE n > 32
  <2>1. PICK k \in 0..32 : n = k + 32 /\ n - 32 = k
    <3>1. n - 32 \in 0..32 /\ n = (n - 32) + 32
      BY <1>8
    <3> QED BY <3>1
  <2>2. Cuda!devectorize(<<MixedRight(hi, lo, k), MixedRight(lo, hi, k)>>) = Right(v, n)
    BY <1>4, <2>1
  <2> QED BY <1>2, <1>8, <2>1, <2>2
<1> QED BY <1>5, <1>6, <1>7, <1>8

LEMMA ROL2ShiftsTurns ==
  ASSUME NEW v, v \subseteq 0..63, NEW n \in 0..63, NEW a, a = Cuda!vectorize(v)
  PROVE  Cuda!devectorize(Cuda!ROL2_shifts(a, n)) = Left(v, n)
<1>1. CASE n = 0
  <2>1. Cuda!ROL2_shifts(a, n) = a /\ Cuda!ROR2_shifts(a, n) = a
    BY <1>1 DEF Cuda!ROL2_shifts, Cuda!ROR2_shifts
  <2>2. Right(v, n) = Left(v, n)
    <3>1. \A b \in v : (b + 64 - n) % 64 = b /\ (b + n) % 64 = b
      BY <1>1
    <3> QED BY <3>1 DEF Left, Right
  <2> QED BY <2>1, <2>2, ROR2ShiftsTurns
<1>2. CASE n # 0
  <2> DEFINE m == 64 - n
  <2>1. m \in 0..63 /\ m = 64 - n
    BY <1>2
  <2>2. Cuda!ROL2_shifts(a, n) = Cuda!ROR2_shifts(a, m)
    BY <1>2 DEF Cuda!ROL2_shifts
  <2>3. Right(v, m) = Left(v, n)
    <3>1. \A b \in v : b + 64 - m = b + n
      BY <2>1
    <3> QED BY <3>1 DEF Left, Right
  <2> HIDE DEF m
  <2>4. Cuda!devectorize(Cuda!ROR2_shifts(a, m)) = Right(v, m)
    BY <2>1, ROR2ShiftsTurns, Zenon
  <2> QED BY <2>2, <2>3, <2>4
<1> QED BY <1>1, <1>2

-----------------------------------------------------------------------------
(* The shifts of a word by its halves.                                     *)

LEMMA UpByHalves ==
  ASSUME NEW v, v \subseteq 0..63, NEW n \in 0..32
  PROVE  LET lo == Cuda!Low(v)
             hi == Cuda!High(v)
         IN /\ Cuda!devectorize(<<Cuda!Up(lo, n, 32), Funnel(lo, hi, n)>>) = Cuda!Up(v, n, 64)
            /\ Cuda!devectorize(<<Funnel(lo, hi, 32 - n), Cuda!Down(hi, n)>>) = Cuda!Down(v, n)
<1> DEFINE lo == Cuda!Low(v)
           hi == Cuda!High(v)
           f == Funnel(lo, hi, n)
           g == Funnel(lo, hi, 32 - n)
           u == Cuda!Up(lo, n, 32)
           d == Cuda!Down(hi, n)
<1>1. v \subseteq Int /\ lo \subseteq Int /\ hi \subseteq Int /\ lo \subseteq 0..31 /\ hi \subseteq 0..31
  <2>1. v \subseteq Int
    OBVIOUS
  <2>2. lo \subseteq 0..31 /\ hi \subseteq 0..31
    BY Halves
  <2> HIDE DEF lo, hi
  <2> QED BY <2>1, <2>2
<1>2. \A x \in Int : (x \in lo <=> x < 32 /\ x \in v) /\ (x \in hi <=> x >= 0 /\ x + 32 \in v)
  BY <1>1, InLow, InHigh
<1>3. \A x \in Int : /\ x \in f <=> x \in 0..31 /\ (x - n \in hi \/ x + 32 - n \in lo)
                     /\ x \in g <=> x \in 0..31 /\ (x - (32 - n) \in hi \/ x + 32 - (32 - n) \in lo)
  <2> HIDE DEF lo, hi
  <2> QED BY DEF Funnel
<1> HIDE DEF lo, hi
<1>4. \A x \in Int : (x \in u <=> x < 32 /\ x - n \in lo) /\ (x \in d <=> x >= 0 /\ x + n \in hi)
  BY <1>1, InUnion
<1>5. n \in Int /\ 64 \in Int
  OBVIOUS
<1>6. \A x \in Int : (x \in Cuda!Up(v, n, 64) <=> x < 64 /\ x - n \in v) /\ (x \in Cuda!Down(v, n) <=> x >= 0 /\ x + n \in v)
  BY <1>1, <1>5, InUp, InDown
<1>7. u \subseteq 0..31 /\ d \subseteq 0..31 /\ Cuda!Up(v, n, 64) \subseteq 0..63 /\ Cuda!Down(v, n) \subseteq 0..63
  <2>1. \A b \in lo : b \in 0..31
    BY <1>1
  <2>2. \A b \in hi : b \in 0..31
    BY <1>1
  <2>3. u \subseteq 0..31
    BY <2>1 DEF Cuda!Up
  <2>4. d \subseteq 0..31
    BY <2>2 DEF Cuda!Down
  <2>5. Cuda!Up(v, n, 64) \subseteq 0..63
    BY DEF Cuda!Up
  <2>6. Cuda!Down(v, n) \subseteq 0..63
    BY DEF Cuda!Down
  <2> QED BY <2>3, <2>4, <2>5, <2>6
<1>8. f \subseteq 0..31 /\ g \subseteq 0..31
  BY FunnelType
<1> HIDE DEF f, g, u, d
<1>9. /\ Cuda!devectorize(<<u, f>>) \subseteq 0..63 /\ Cuda!devectorize(<<g, d>>) \subseteq 0..63
      /\ \A x \in 0..63 : x \in Cuda!devectorize(<<u, f>>) <=> IF x < 32 THEN x \in u ELSE x - 32 \in f
      /\ \A x \in 0..63 : x \in Cuda!devectorize(<<g, d>>) <=> IF x < 32 THEN x \in g ELSE x - 32 \in d
  BY <1>7, <1>8, Joined
<1>10. \A x \in 0..63 : x \in Cuda!devectorize(<<u, f>>) <=> x \in Cuda!Up(v, n, 64)
  <2> TAKE x \in 0..63
  <2>1. x \in Cuda!Up(v, n, 64) <=> x - n \in v
    BY <1>6
  <2>2. CASE x < 32
    <3>1. x - n \in Int /\ x - n < 32
      BY <2>2
    <3> QED BY <1>2, <1>4, <1>9, <2>1, <2>2, <3>1
  <2>3. CASE ~(x < 32)
    <3>1. /\ x - 32 \in Int /\ x - 32 \in 0..31 /\ (x - 32) - n \in Int /\ ((x - 32) - n) + 32 = x - n
          /\ (x - 32) + 32 - n = x - n /\ x - n \in Int /\ (x - n < 32 \/ (x - 32) - n >= 0)
      BY <2>3
    <3>2. x - 32 \in f <=> (x - 32) - n \in hi \/ x - n \in lo
      BY <1>3, <3>1
    <3>3. (x - 32) - n \in hi <=> (x - 32) - n >= 0 /\ x - n \in v
      BY <1>2, <3>1
    <3>4. x - n \in lo <=> x - n < 32 /\ x - n \in v
      BY <1>2, <3>1
    <3> QED BY <1>9, <2>1, <2>3, <3>1, <3>2, <3>3, <3>4
  <2> QED BY <2>2, <2>3
<1>11. \A x \in 0..63 : x \in Cuda!devectorize(<<g, d>>) <=> x \in Cuda!Down(v, n)
  <2> TAKE x \in 0..63
  <2>1. x \in Cuda!Down(v, n) <=> x + n \in v
    BY <1>6
  <2>2. CASE x < 32
    <3>1. /\ x - (32 - n) \in Int /\ (x - (32 - n)) + 32 = x + n /\ x + 32 - (32 - n) = x + n
          /\ x + n \in Int /\ x \in 0..31 /\ (x + n < 32 \/ x - (32 - n) >= 0)
      BY <2>2
    <3>2. x \in g <=> x - (32 - n) \in hi \/ x + n \in lo
      BY <1>3, <3>1
    <3>3. x - (32 - n) \in hi <=> x - (32 - n) >= 0 /\ x + n \in v
      BY <1>2, <3>1
    <3>4. x + n \in lo <=> x + n < 32 /\ x + n \in v
      BY <1>2, <3>1
    <3> QED BY <1>9, <2>1, <2>2, <3>1, <3>2, <3>3, <3>4
  <2>3. CASE ~(x < 32)
    <3>1. /\ x - 32 \in Int /\ x - 32 >= 0 /\ (x - 32) + n \in Int /\ (x - 32) + n >= 0 /\ ((x - 32) + n) + 32 = x + n
      BY <2>3
    <3>2. x - 32 \in d <=> (x - 32) + n \in hi
      BY <1>4, <3>1
    <3>3. (x - 32) + n \in hi <=> x + n \in v
      BY <1>2, <3>1
    <3> QED BY <1>9, <2>1, <2>3, <3>2, <3>3
  <2> QED BY <2>2, <2>3
<1>12. Cuda!devectorize(<<u, f>>) = Cuda!Up(v, n, 64)
  BY <1>7, <1>9, <1>10, SameWord
<1>13. Cuda!devectorize(<<g, d>>) = Cuda!Down(v, n)
  BY <1>7, <1>9, <1>11, SameWord
<1> QED BY <1>12, <1>13 DEF u, f, g, d, lo, hi

\* By more than a half: the half that is left moves into the other.
LEMMA FarByHalves ==
  ASSUME NEW v, v \subseteq 0..63, NEW n \in 32..63
  PROVE  /\ Cuda!devectorize(<<{}, Cuda!Up(Cuda!Low(v), n - 32, 32)>>) = Cuda!Up(v, n, 64)
         /\ Cuda!devectorize(<<Cuda!Down(Cuda!High(v), n - 32), {}>>) = Cuda!Down(v, n)
<1> DEFINE lo == Cuda!Low(v)
           hi == Cuda!High(v)
           k == n - 32
           u == Cuda!Up(lo, k, 32)
           d == Cuda!Down(hi, k)
<1>1. v \subseteq Int /\ lo \subseteq Int /\ hi \subseteq Int /\ lo \subseteq 0..31 /\ hi \subseteq 0..31
  <2>1. v \subseteq Int
    OBVIOUS
  <2>2. lo \subseteq 0..31 /\ hi \subseteq 0..31
    BY Halves
  <2> HIDE DEF lo, hi
  <2> QED BY <2>1, <2>2
<1>2. \A x \in Int : (x \in lo <=> x < 32 /\ x \in v) /\ (x \in hi <=> x >= 0 /\ x + 32 \in v)
  BY <1>1, InLow, InHigh
<1>3. k \in 0..32 /\ n = k + 32 /\ n \in Int /\ 64 \in Int
  OBVIOUS
<1> HIDE DEF lo, hi, k
<1>4. \A x \in Int : (x \in u <=> x < 32 /\ x - k \in lo) /\ (x \in d <=> x >= 0 /\ x + k \in hi)
  BY <1>1, <1>3, InUnion
<1>5. \A x \in Int : (x \in Cuda!Up(v, n, 64) <=> x < 64 /\ x - n \in v) /\ (x \in Cuda!Down(v, n) <=> x >= 0 /\ x + n \in v)
  BY <1>1, <1>3, InUp, InDown
<1>6. u \subseteq 0..31 /\ d \subseteq 0..31 /\ Cuda!Up(v, n, 64) \subseteq 0..63 /\ Cuda!Down(v, n) \subseteq 0..63
  <2>1. \A b \in lo : b \in 0..31
    BY <1>1
  <2>2. \A b \in hi : b \in 0..31
    BY <1>1
  <2>3. u \subseteq 0..31
    BY <1>3, <2>1 DEF Cuda!Up
  <2>4. d \subseteq 0..31
    BY <1>3, <2>2 DEF Cuda!Down
  <2>5. Cuda!Up(v, n, 64) \subseteq 0..63
    BY DEF Cuda!Up
  <2>6. Cuda!Down(v, n) \subseteq 0..63
    BY DEF Cuda!Down
  <2> QED BY <2>3, <2>4, <2>5, <2>6
<1> HIDE DEF u, d
<1>7. /\ Cuda!devectorize(<<{}, u>>) \subseteq 0..63 /\ Cuda!devectorize(<<d, {}>>) \subseteq 0..63
      /\ \A x \in 0..63 : x \in Cuda!devectorize(<<{}, u>>) <=> IF x < 32 THEN x \in {} ELSE x - 32 \in u
      /\ \A x \in 0..63 : x \in Cuda!devectorize(<<d, {}>>) <=> IF x < 32 THEN x \in d ELSE x - 32 \in {}
  <2> DEFINE none == {}
  <2>1. none \subseteq 0..31
    OBVIOUS
  <2> HIDE DEF none
  <2>2. /\ Cuda!devectorize(<<none, u>>) \subseteq 0..63 /\ Cuda!devectorize(<<d, none>>) \subseteq 0..63
        /\ \A x \in 0..63 : x \in Cuda!devectorize(<<none, u>>) <=> IF x < 32 THEN x \in none ELSE x - 32 \in u
        /\ \A x \in 0..63 : x \in Cuda!devectorize(<<d, none>>) <=> IF x < 32 THEN x \in d ELSE x - 32 \in none
    BY <1>6, <2>1, Joined
  <2> QED BY <2>2 DEF none
<1>8. \A x \in 0..63 : x \in Cuda!devectorize(<<{}, u>>) <=> x \in Cuda!Up(v, n, 64)
  <2> TAKE x \in 0..63
  <2>1. x \in Cuda!Up(v, n, 64) <=> x - n \in v
    BY <1>5
  <2>2. CASE x < 32
    BY <1>3, <1>7, <2>1, <2>2
  <2>3. CASE ~(x < 32)
    <3>1. x - 32 \in Int /\ x - 32 < 32 /\ (x - 32) - k = x - n /\ x - n \in Int /\ x - n < 32
      BY <1>3, <2>3
    <3>2. x - 32 \in u <=> x - n \in lo
      BY <1>4, <3>1
    <3>3. x - n \in lo <=> x - n \in v
      BY <1>2, <3>1
    <3> QED BY <1>7, <2>1, <2>3, <3>2, <3>3
  <2> QED BY <2>2, <2>3
<1>9. \A x \in 0..63 : x \in Cuda!devectorize(<<d, {}>>) <=> x \in Cuda!Down(v, n)
  <2> TAKE x \in 0..63
  <2>1. x \in Cuda!Down(v, n) <=> x + n \in v
    BY <1>5
  <2>2. CASE x < 32
    <3>1. x \in Int /\ x + k \in Int /\ x + k >= 0 /\ (x + k) + 32 = x + n
      BY <1>3
    <3>2. x \in d <=> x + k \in hi
      BY <1>4, <3>1
    <3>3. x + k \in hi <=> x + n \in v
      BY <1>2, <3>1
    <3> QED BY <1>7, <2>1, <2>2, <3>2, <3>3
  <2>3. CASE ~(x < 32)
    BY <1>3, <1>7, <2>1, <2>3
  <2> QED BY <2>2, <2>3
<1>10. Cuda!devectorize(<<{}, u>>) = Cuda!Up(v, n, 64)
  BY <1>6, <1>7, <1>8, SameWord
<1>11. Cuda!devectorize(<<d, {}>>) = Cuda!Down(v, n)
  BY <1>6, <1>7, <1>9, SameWord
<1> QED BY <1>10, <1>11 DEF u, d, lo, hi, k

LEMMA EveryShift ==
  ASSUME NEW v, v \subseteq 0..63, NEW n \in 0..63, NEW a, a = Cuda!vectorize(v)
  PROVE  Shifts(v, a, n)
<1> DEFINE lo == Cuda!Low(v)
           hi == Cuda!High(v)
           up1 == <<Cuda!Up(lo, n, 32), Funnel(lo, hi, n)>>
           up2 == <<{}, Cuda!Up(lo, n - 32, 32)>>
           down1 == <<Funnel(lo, hi, 32 - n), Cuda!Down(hi, n)>>
           down2 == <<Cuda!Down(hi, n - 32), {}>>
<1>1. a[1] = lo /\ a[2] = hi /\ lo \subseteq 0..31 /\ hi \subseteq 0..31
  BY Halves DEF Cuda!vectorize
<1>2. n <= 32 => n \in 0..32 /\ 32 - n \in 0..32 /\ n + (32 - n) = 32 /\ (32 - n) + n = 32
  OBVIOUS
<1>3. n < 32 => n \in 0..31
  OBVIOUS
<1>4. ASSUME n <= 32
      PROVE  Cuda!devectorize(up1) = Cuda!Up(v, n, 64) /\ Cuda!devectorize(down1) = Cuda!Down(v, n)
  BY <1>2, <1>4, UpByHalves
<1>5. ASSUME n > 32
      PROVE  Cuda!devectorize(up2) = Cuda!Up(v, n, 64) /\ Cuda!devectorize(down2) = Cuda!Down(v, n)
  <2>1. n \in 32..63
    BY <1>5
  <2> QED BY <2>1, FarByHalves
<1> HIDE DEF lo, hi
<1>6. ASSUME n <= 32
      PROVE  Shifted(lo, hi, n, 32 - n) = Funnel(lo, hi, n) /\ Shifted(lo, hi, 32 - n, n) = Funnel(lo, hi, 32 - n)
  <2>1. \A i, j \in 0..32 : i + j = 32 => Shifted(lo, hi, i, j) = Funnel(lo, hi, i)
    BY <1>1, FunnelIsUnion
  <2> QED BY <1>2, <1>6, <2>1
<1>7. Cuda!SHL2_shifts(a, n) = IF n <= 32 THEN <<Cuda!Up(lo, n, 32), Shifted(lo, hi, n, 32 - n)>> ELSE up2
  BY <1>1 DEF Cuda!SHL2_shifts, Shifted
<1>8. Cuda!SHR2_shifts(a, n) = IF n <= 32 THEN <<Shifted(lo, hi, 32 - n, n), Cuda!Down(hi, n)>> ELSE down2
  <2>1. Cuda!Down(lo, n) \cup Cuda!Up(hi, 32 - n, 32) = Shifted(lo, hi, 32 - n, n)
    BY DEF Shifted
  <2>2. Cuda!SHR2_shifts(a, n) = IF n <= 32 THEN <<Cuda!Down(lo, n) \cup Cuda!Up(hi, 32 - n, 32), Cuda!Down(hi, n)>>
                                 ELSE down2
    BY <1>1 DEF Cuda!SHR2_shifts
  <2> QED BY <2>1, <2>2
<1>9. ASSUME n < 32
      PROVE  Cuda!shf_l_wrap(lo, hi, n) = Funnel(lo, hi, n) /\ Cuda!shf_r_wrap(lo, hi, n) = Funnel(lo, hi, 32 - n)
  BY <1>1, <1>3, <1>9, FunnelShifts, ZenonT(60)
<1>10. ASSUME n < 32 PROVE Cuda!SHL2(a, n) = up1 /\ Cuda!SHR2(a, n) = down1
  <2>1. ~(n >= 32)
    BY <1>10
  <2> QED BY <1>1, <1>9, <1>10, <2>1 DEF Cuda!SHL2, Cuda!SHR2, Cuda!shf_l_clamp, Cuda!shf_r_clamp
<1>11. n <= 32 \/ n > 32
  OBVIOUS
<1>12. n < 32 => n <= 32
  OBVIOUS
<1>13. ~(n <= 32 /\ n > 32)
  OBVIOUS
<1>14. CASE n <= 32
  <2>1. Cuda!SHL2_shifts(a, n) = up1 /\ Cuda!SHR2_shifts(a, n) = down1
    BY <1>6, <1>7, <1>8, <1>14
  <2> HIDE DEF up1, up2, down1, down2
  <2> QED BY <1>4, <1>10, <1>14, <2>1 DEF Shifts
<1>15. CASE n > 32
  <2>1. Cuda!SHL2_shifts(a, n) = up2 /\ Cuda!SHR2_shifts(a, n) = down2
    BY <1>7, <1>8, <1>13, <1>15
  <2> HIDE DEF up1, up2, down1, down2
  <2> QED BY <1>5, <1>12, <1>13, <1>15, <2>1 DEF Shifts
<1> QED BY <1>11, <1>14, <1>15

LEMMA EveryRotation ==
  ASSUME NEW v, v \subseteq 0..63, NEW n \in 0..63, NEW a, a = Cuda!vectorize(v)
  PROVE  RotatesLeft(v, a, n) /\ RotatesRight(v, a, n)
<1>1. /\ Cuda!ROTL64(v, n) = Left(v, n) /\ Cuda!ROTL64_select(v, n) = Left(v, n)
      /\ Cuda!devectorize(Cuda!ROL2(a, n)) = Left(v, n)
      /\ Cuda!ROTR64(v, n) = Right(v, n) /\ Cuda!devectorize(Cuda!ROR2(a, n)) = Right(v, n)
  BY ROL2Turns
<1>2. Cuda!ROTL64_shifts(v, n) = Left(v, n) /\ Cuda!ROTR64_shifts(v, n) = Right(v, n)
  BY ShiftsTurn
<1>3. Cuda!devectorize(Cuda!ROL2_misc(a, n)) = Left(v, n) /\ Cuda!devectorize(Cuda!ROR2_misc(a, n)) = Right(v, n)
  BY MiscTurns
<1>4. Cuda!devectorize(Cuda!ROL2_shifts(a, n)) = Left(v, n) /\ Cuda!devectorize(Cuda!ROR2_shifts(a, n)) = Right(v, n)
  BY ROL2ShiftsTurns, ROR2ShiftsTurns
<1>5. RotatesLeft(v, a, n)
  BY <1>1, <1>2, <1>3, <1>4 DEF RotatesLeft
<1>6. RotatesRight(v, a, n)
  BY <1>1, <1>2, <1>3, <1>4 DEF RotatesRight
<1> QED BY <1>5, <1>6

-----------------------------------------------------------------------------
(* The bytes of a word.                                                    *)

LEMMA InBytes ==
  ASSUME NEW v, v \subseteq 0..31, NEW at \in 0..3, NEW c \in Int
  PROVE  c \in Cuda!Bytes(v, at) <=> c \in 0..7 /\ 8 * at + c \in v
<1>1. \A b \in v : b \div 8 = at => b % 8 \in 0..7 /\ 8 * at + (b % 8) = b
  OBVIOUS
<1>2. ASSUME c \in 0..7 /\ 8 * at + c \in v
      PROVE  c \in Cuda!Bytes(v, at)
  <2>1. (8 * at + c) \div 8 = at /\ (8 * at + c) % 8 = c
    BY <1>2
  <2> QED BY <1>2, <2>1 DEF Cuda!Bytes
<1>3. ASSUME c \in Cuda!Bytes(v, at)
      PROVE  c \in 0..7 /\ 8 * at + c \in v
  BY <1>1, <1>3 DEF Cuda!Bytes
<1> QED BY <1>2, <1>3

\* Bit c of the byte that a selector stands for.
SelectedBit(a, b, s, c) == IF s < 4 THEN 8 * s + c \in a ELSE 8 * (s - 4) + c \in b

LEMMA InPerm ==
  ASSUME NEW a, a \subseteq 0..31, NEW b, b \subseteq 0..31,
         NEW s0 \in 0..7, NEW s1 \in 0..7, NEW s2 \in 0..7, NEW s3 \in 0..7
  PROVE  /\ Cuda!byte_perm(a, b, <<s3, s2, s1, s0>>) \subseteq 0..31
         /\ \A x \in 0..31 : x \in Cuda!byte_perm(a, b, <<s3, s2, s1, s0>>) <=>
              IF x < 8 THEN SelectedBit(a, b, s0, x)
              ELSE IF x < 16 THEN SelectedBit(a, b, s1, x - 8)
              ELSE IF x < 24 THEN SelectedBit(a, b, s2, x - 16) ELSE SelectedBit(a, b, s3, x - 24)
<1> DEFINE sel == <<s3, s2, s1, s0>>
           Byte(s) == Cuda!Bytes(IF s < 4 THEN a ELSE b, s % 4)
           From(k) == {8 * k + c : c \in Byte(sel[4 - k])}
           p == Cuda!byte_perm(a, b, sel)
<1>1. p = UNION {From(k) : k \in 0..3}
  BY DEF Cuda!byte_perm
<1>2. sel[4] = s0 /\ sel[3] = s1 /\ sel[2] = s2 /\ sel[1] = s3
  OBVIOUS
<1>3. ASSUME NEW s \in 0..7
      PROVE  Byte(s) \subseteq 0..7 /\ \A c \in 0..7 : c \in Byte(s) <=> SelectedBit(a, b, s, c)
  <2> DEFINE w == IF s < 4 THEN a ELSE b
             at == s % 4
  <2>1. w \subseteq 0..31 /\ at \in 0..3 /\ (s < 4 => at = s) /\ (~(s < 4) => at = s - 4)
    OBVIOUS
  <2> HIDE DEF w, at
  <2>2. \A c \in Int : c \in Cuda!Bytes(w, at) <=> c \in 0..7 /\ 8 * at + c \in w
    BY <2>1, InBytes
  <2>3. Cuda!Bytes(w, at) \subseteq Int
    BY <2>1 DEF Cuda!Bytes
  <2>4. Cuda!Bytes(w, at) \subseteq 0..7
    BY <2>2, <2>3
  <2>5. \A c \in 0..7 : c \in Cuda!Bytes(w, at) <=> SelectedBit(a, b, s, c)
    BY <2>1, <2>2 DEF SelectedBit, w
  <2> QED BY <2>4, <2>5 DEF w, at
<1> HIDE DEF sel, Byte
<1>4. From(0) = {8 * 0 + c : c \in Byte(s0)} /\ From(1) = {8 * 1 + c : c \in Byte(s1)}
      /\ From(2) = {8 * 2 + c : c \in Byte(s2)} /\ From(3) = {8 * 3 + c : c \in Byte(s3)}
  BY <1>2
<1>5. \A x \in Int : x \in p <=> \E k \in 0..3 : x \in From(k)
  <2> HIDE DEF From
  <2> QED BY <1>1
<1> HIDE DEF From
<1>6. /\ \A x \in Int : x \in From(0) <=> x \in 0..7 /\ SelectedBit(a, b, s0, x)
      /\ \A x \in Int : x \in From(1) <=> x \in 8..15 /\ SelectedBit(a, b, s1, x - 8)
      /\ \A x \in Int : x \in From(2) <=> x \in 16..23 /\ SelectedBit(a, b, s2, x - 16)
      /\ \A x \in Int : x \in From(3) <=> x \in 24..31 /\ SelectedBit(a, b, s3, x - 24)
  <2>1. ASSUME NEW k \in 0..3, NEW s \in 0..7, From(k) = {8 * k + c : c \in Byte(s)}, NEW x \in Int
        PROVE  x \in From(k) <=> x - 8 * k \in 0..7 /\ SelectedBit(a, b, s, x - 8 * k)
    <3>1. Byte(s) \subseteq 0..7 /\ \A c \in 0..7 : c \in Byte(s) <=> SelectedBit(a, b, s, c)
      BY <1>3
    <3>2. x \in From(k) <=> x - 8 * k \in Byte(s)
      <4>1. ASSUME x - 8 * k \in Byte(s) PROVE x \in From(k)
        <5>1. x = 8 * k + (x - 8 * k)
          OBVIOUS
        <5> QED BY <2>1, <4>1, <5>1
      <4>2. ASSUME x \in From(k) PROVE x - 8 * k \in Byte(s)
        <5>1. PICK c \in Byte(s) : x = 8 * k + c
          BY <2>1, <4>2
        <5>2. c \in Int
          BY <3>1
        <5> QED BY <5>1, <5>2
      <4> QED BY <4>1, <4>2
    <3> QED BY <3>1, <3>2
  <2>2. \A x \in Int : x \in From(0) <=> x - 0 \in 0..7 /\ SelectedBit(a, b, s0, x - 0)
    BY <1>4, <2>1
  <2>3. \A x \in Int : x \in From(1) <=> x - 8 \in 0..7 /\ SelectedBit(a, b, s1, x - 8)
    BY <1>4, <2>1
  <2>4. \A x \in Int : x \in From(2) <=> x - 16 \in 0..7 /\ SelectedBit(a, b, s2, x - 16)
    BY <1>4, <2>1
  <2>5. \A x \in Int : x \in From(3) <=> x - 24 \in 0..7 /\ SelectedBit(a, b, s3, x - 24)
    BY <1>4, <2>1
  <2>6. \A x \in Int : x - 0 = x
    OBVIOUS
  <2> QED BY <2>2, <2>3, <2>4, <2>5, <2>6
<1>7. p \subseteq Int
  <2>1. From(0) \subseteq Int /\ From(1) \subseteq Int /\ From(2) \subseteq Int /\ From(3) \subseteq Int
    BY <1>3, <1>4
  <2>2. \A k \in 0..3 : k = 0 \/ k = 1 \/ k = 2 \/ k = 3
    OBVIOUS
  <2>3. \A k \in 0..3 : From(k) \subseteq Int
    BY <2>1, <2>2
  <2> QED BY <1>1, <2>3
<1>8. \A x \in Int : x \in p <=> x \in From(0) \/ x \in From(1) \/ x \in From(2) \/ x \in From(3)
  <2>1. \A k \in 0..3 : k = 0 \/ k = 1 \/ k = 2 \/ k = 3
    OBVIOUS
  <2> QED BY <1>5, <2>1
<1> HIDE DEF p
<1>9. p \subseteq 0..31
  BY <1>6, <1>7, <1>8
<1>10. \A x \in 0..31 : x \in p <=>
              IF x < 8 THEN SelectedBit(a, b, s0, x)
              ELSE IF x < 16 THEN SelectedBit(a, b, s1, x - 8)
              ELSE IF x < 24 THEN SelectedBit(a, b, s2, x - 16) ELSE SelectedBit(a, b, s3, x - 24)
  BY <1>6, <1>8
<1> QED BY <1>9, <1>10 DEF p, sel

LEMMA SameHalf ==
  ASSUME NEW a, NEW b, a \subseteq 0..31, b \subseteq 0..31, \A x \in 0..31 : x \in a <=> x \in b
  PROVE  a = b
BY Zenon

\* The selectors that look at two words through a window.
LEMMA PermIsFunnel ==
  ASSUME NEW a, a \subseteq 0..31, NEW b, b \subseteq 0..31
  PROVE  /\ Cuda!byte_perm(a, b, <<6, 5, 4, 3>>) = Funnel(a, b, 8)
         /\ Cuda!byte_perm(a, b, <<5, 4, 3, 2>>) = Funnel(a, b, 16)
         /\ Cuda!byte_perm(a, b, <<2, 1, 0, 7>>) = Funnel(b, a, 8)
         /\ Cuda!byte_perm(a, b, <<1, 0, 7, 6>>) = Funnel(b, a, 16)
         /\ Cuda!byte_perm(a, b, <<0, 7, 6, 5>>) = Funnel(b, a, 24)
<1>1. \A s0, s1, s2, s3 \in 0..7 :
        /\ Cuda!byte_perm(a, b, <<s3, s2, s1, s0>>) \subseteq 0..31
        /\ \A x \in 0..31 : x \in Cuda!byte_perm(a, b, <<s3, s2, s1, s0>>) <=>
             IF x < 8 THEN SelectedBit(a, b, s0, x)
             ELSE IF x < 16 THEN SelectedBit(a, b, s1, x - 8)
             ELSE IF x < 24 THEN SelectedBit(a, b, s2, x - 16) ELSE SelectedBit(a, b, s3, x - 24)
  BY InPerm, Zenon
<1>2. ASSUME NEW c, NEW d, NEW k \in 0..32, NEW x \in 0..31
      PROVE  x \in Funnel(c, d, k) <=> x - k \in d \/ x + 32 - k \in c
  BY DEF Funnel
<1>3. Cuda!byte_perm(a, b, <<6, 5, 4, 3>>) = Funnel(a, b, 8)
  <2>1. 3 \in 0..7 /\ 4 \in 0..7 /\ 5 \in 0..7 /\ 6 \in 0..7 /\ 8 \in 0..32
    OBVIOUS
  <2>2. Cuda!byte_perm(a, b, <<6, 5, 4, 3>>) \subseteq 0..31
    BY <1>1, <2>1, Zenon
  <2>3. \A x \in 0..31 : x \in Cuda!byte_perm(a, b, <<6, 5, 4, 3>>) <=> x \in Funnel(a, b, 8)
    <3> TAKE x \in 0..31
    <3>1. x \in Cuda!byte_perm(a, b, <<6, 5, 4, 3>>) <=>
             IF x < 8 THEN SelectedBit(a, b, 3, x)
             ELSE IF x < 16 THEN SelectedBit(a, b, 4, x - 8)
             ELSE IF x < 24 THEN SelectedBit(a, b, 5, x - 16) ELSE SelectedBit(a, b, 6, x - 24)
      BY <1>1, <2>1, Zenon
    <3>2. x \in Funnel(a, b, 8) <=> x - 8 \in b \/ x + 32 - 8 \in a
      BY <1>2, <2>1
    <3> HIDE DEF Funnel
    <3> QED BY <3>1, <3>2 DEF SelectedBit
  <2>4. Funnel(a, b, 8) \subseteq 0..31
    BY FunnelType
  <2> QED BY <2>2, <2>3, <2>4, SameHalf
<1>4. Cuda!byte_perm(a, b, <<5, 4, 3, 2>>) = Funnel(a, b, 16)
  <2>1. 2 \in 0..7 /\ 3 \in 0..7 /\ 4 \in 0..7 /\ 5 \in 0..7 /\ 16 \in 0..32
    OBVIOUS
  <2>2. Cuda!byte_perm(a, b, <<5, 4, 3, 2>>) \subseteq 0..31
    BY <1>1, <2>1, Zenon
  <2>3. \A x \in 0..31 : x \in Cuda!byte_perm(a, b, <<5, 4, 3, 2>>) <=> x \in Funnel(a, b, 16)
    <3> TAKE x \in 0..31
    <3>1. x \in Cuda!byte_perm(a, b, <<5, 4, 3, 2>>) <=>
             IF x < 8 THEN SelectedBit(a, b, 2, x)
             ELSE IF x < 16 THEN SelectedBit(a, b, 3, x - 8)
             ELSE IF x < 24 THEN SelectedBit(a, b, 4, x - 16) ELSE SelectedBit(a, b, 5, x - 24)
      BY <1>1, <2>1, Zenon
    <3>2. x \in Funnel(a, b, 16) <=> x - 16 \in b \/ x + 32 - 16 \in a
      BY <1>2, <2>1
    <3> HIDE DEF Funnel
    <3> QED BY <3>1, <3>2 DEF SelectedBit
  <2>4. Funnel(a, b, 16) \subseteq 0..31
    BY FunnelType
  <2> QED BY <2>2, <2>3, <2>4, SameHalf
<1>5. Cuda!byte_perm(a, b, <<2, 1, 0, 7>>) = Funnel(b, a, 8)
  <2>1. 0 \in 0..7 /\ 1 \in 0..7 /\ 2 \in 0..7 /\ 7 \in 0..7 /\ 8 \in 0..32
    OBVIOUS
  <2>2. Cuda!byte_perm(a, b, <<2, 1, 0, 7>>) \subseteq 0..31
    BY <1>1, <2>1, Zenon
  <2>3. \A x \in 0..31 : x \in Cuda!byte_perm(a, b, <<2, 1, 0, 7>>) <=> x \in Funnel(b, a, 8)
    <3> TAKE x \in 0..31
    <3>1. x \in Cuda!byte_perm(a, b, <<2, 1, 0, 7>>) <=>
             IF x < 8 THEN SelectedBit(a, b, 7, x)
             ELSE IF x < 16 THEN SelectedBit(a, b, 0, x - 8)
             ELSE IF x < 24 THEN SelectedBit(a, b, 1, x - 16) ELSE SelectedBit(a, b, 2, x - 24)
      BY <1>1, <2>1, Zenon
    <3>2. x \in Funnel(b, a, 8) <=> x - 8 \in a \/ x + 32 - 8 \in b
      BY <1>2, <2>1
    <3> HIDE DEF Funnel
    <3> QED BY <3>1, <3>2 DEF SelectedBit
  <2>4. Funnel(b, a, 8) \subseteq 0..31
    BY FunnelType
  <2> QED BY <2>2, <2>3, <2>4, SameHalf
<1>6. Cuda!byte_perm(a, b, <<1, 0, 7, 6>>) = Funnel(b, a, 16)
  <2>1. 0 \in 0..7 /\ 1 \in 0..7 /\ 6 \in 0..7 /\ 7 \in 0..7 /\ 16 \in 0..32
    OBVIOUS
  <2>2. Cuda!byte_perm(a, b, <<1, 0, 7, 6>>) \subseteq 0..31
    BY <1>1, <2>1, Zenon
  <2>3. \A x \in 0..31 : x \in Cuda!byte_perm(a, b, <<1, 0, 7, 6>>) <=> x \in Funnel(b, a, 16)
    <3> TAKE x \in 0..31
    <3>1. x \in Cuda!byte_perm(a, b, <<1, 0, 7, 6>>) <=>
             IF x < 8 THEN SelectedBit(a, b, 6, x)
             ELSE IF x < 16 THEN SelectedBit(a, b, 7, x - 8)
             ELSE IF x < 24 THEN SelectedBit(a, b, 0, x - 16) ELSE SelectedBit(a, b, 1, x - 24)
      BY <1>1, <2>1, Zenon
    <3>2. x \in Funnel(b, a, 16) <=> x - 16 \in a \/ x + 32 - 16 \in b
      BY <1>2, <2>1
    <3> HIDE DEF Funnel
    <3> QED BY <3>1, <3>2 DEF SelectedBit
  <2>4. Funnel(b, a, 16) \subseteq 0..31
    BY FunnelType
  <2> QED BY <2>2, <2>3, <2>4, SameHalf
<1>7. Cuda!byte_perm(a, b, <<0, 7, 6, 5>>) = Funnel(b, a, 24)
  <2>1. 0 \in 0..7 /\ 5 \in 0..7 /\ 6 \in 0..7 /\ 7 \in 0..7 /\ 24 \in 0..32
    OBVIOUS
  <2>2. Cuda!byte_perm(a, b, <<0, 7, 6, 5>>) \subseteq 0..31
    BY <1>1, <2>1, Zenon
  <2>3. \A x \in 0..31 : x \in Cuda!byte_perm(a, b, <<0, 7, 6, 5>>) <=> x \in Funnel(b, a, 24)
    <3> TAKE x \in 0..31
    <3>1. x \in Cuda!byte_perm(a, b, <<0, 7, 6, 5>>) <=>
             IF x < 8 THEN SelectedBit(a, b, 5, x)
             ELSE IF x < 16 THEN SelectedBit(a, b, 6, x - 8)
             ELSE IF x < 24 THEN SelectedBit(a, b, 7, x - 16) ELSE SelectedBit(a, b, 0, x - 24)
      BY <1>1, <2>1, Zenon
    <3>2. x \in Funnel(b, a, 24) <=> x - 24 \in a \/ x + 32 - 24 \in b
      BY <1>2, <2>1
    <3> HIDE DEF Funnel
    <3> QED BY <3>1, <3>2 DEF SelectedBit
  <2>4. Funnel(b, a, 24) \subseteq 0..31
    BY FunnelType
  <2> QED BY <2>2, <2>3, <2>4, SameHalf
<1> QED BY <1>3, <1>4, <1>5, <1>6, <1>7

LEMMA BytesTurn ==
  ASSUME NEW v, v \subseteq 0..63, NEW a, a = Cuda!vectorize(v)
  PROVE  RotatesBytes(v, a)
<1> DEFINE lo == Cuda!Low(v)
           hi == Cuda!High(v)
<1>1. a[1] = lo /\ a[2] = hi /\ lo \subseteq 0..31 /\ hi \subseteq 0..31
  BY Halves DEF Cuda!vectorize
<1>2. \A n \in 0..63, k \in 0..32 :
        /\ n = k => Cuda!devectorize(<<Funnel(hi, lo, k), Funnel(lo, hi, k)>>) = Left(v, n)
        /\ n = 32 - k => Cuda!devectorize(<<Funnel(lo, hi, k), Funnel(hi, lo, k)>>) = Right(v, n)
  BY TurnedLeft
<1> HIDE DEF lo, hi
<1>3. /\ Cuda!devectorize(<<Funnel(hi, lo, 8), Funnel(lo, hi, 8)>>) = Left(v, 8)
      /\ Cuda!devectorize(<<Funnel(hi, lo, 16), Funnel(lo, hi, 16)>>) = Left(v, 16)
      /\ Cuda!devectorize(<<Funnel(hi, lo, 24), Funnel(lo, hi, 24)>>) = Left(v, 24)
      /\ Cuda!devectorize(<<Funnel(lo, hi, 24), Funnel(hi, lo, 24)>>) = Right(v, 8)
      /\ Cuda!devectorize(<<Funnel(lo, hi, 16), Funnel(hi, lo, 16)>>) = Right(v, 16)
      /\ Cuda!devectorize(<<Funnel(lo, hi, 8), Funnel(hi, lo, 8)>>) = Right(v, 24)
  <2>1. /\ 8 \in 0..63 /\ 16 \in 0..63 /\ 24 \in 0..63 /\ 8 \in 0..32 /\ 16 \in 0..32 /\ 24 \in 0..32
        /\ 8 = 32 - 24 /\ 16 = 32 - 16 /\ 24 = 32 - 8
    OBVIOUS
  <2> QED BY <1>2, <2>1
<1>4. \A c, d : c \subseteq 0..31 /\ d \subseteq 0..31 =>
        /\ Cuda!byte_perm(c, d, <<6, 5, 4, 3>>) = Funnel(c, d, 8)
        /\ Cuda!byte_perm(c, d, <<5, 4, 3, 2>>) = Funnel(c, d, 16)
        /\ Cuda!byte_perm(c, d, <<2, 1, 0, 7>>) = Funnel(d, c, 8)
        /\ Cuda!byte_perm(c, d, <<1, 0, 7, 6>>) = Funnel(d, c, 16)
        /\ Cuda!byte_perm(c, d, <<0, 7, 6, 5>>) = Funnel(d, c, 24)
  BY PermIsFunnel
<1>5. /\ Cuda!byte_perm(lo, hi, <<6, 5, 4, 3>>) = Funnel(lo, hi, 8)
      /\ Cuda!byte_perm(lo, hi, <<5, 4, 3, 2>>) = Funnel(lo, hi, 16)
      /\ Cuda!byte_perm(lo, hi, <<2, 1, 0, 7>>) = Funnel(hi, lo, 8)
      /\ Cuda!byte_perm(lo, hi, <<1, 0, 7, 6>>) = Funnel(hi, lo, 16)
      /\ Cuda!byte_perm(lo, hi, <<0, 7, 6, 5>>) = Funnel(hi, lo, 24)
  BY <1>1, <1>4, ZenonT(60)
<1>6. /\ Cuda!byte_perm(hi, lo, <<6, 5, 4, 3>>) = Funnel(hi, lo, 8)
      /\ Cuda!byte_perm(hi, lo, <<5, 4, 3, 2>>) = Funnel(hi, lo, 16)
      /\ Cuda!byte_perm(hi, lo, <<2, 1, 0, 7>>) = Funnel(lo, hi, 8)
      /\ Cuda!byte_perm(hi, lo, <<1, 0, 7, 6>>) = Funnel(lo, hi, 16)
      /\ Cuda!byte_perm(hi, lo, <<0, 7, 6, 5>>) = Funnel(lo, hi, 24)
  BY <1>1, <1>4, ZenonT(60)
<1>7. Cuda!ROL8(a) = <<Funnel(hi, lo, 8), Funnel(lo, hi, 8)>>
  BY <1>1, <1>5, <1>6 DEF Cuda!ROL8
<1>8. Cuda!ROR16(a) = <<Funnel(lo, hi, 16), Funnel(hi, lo, 16)>>
  BY <1>1, <1>5, <1>6 DEF Cuda!ROR16
<1>9. Cuda!ROR24(a) = <<Funnel(lo, hi, 8), Funnel(hi, lo, 8)>>
  BY <1>1, <1>5, <1>6 DEF Cuda!ROR24
<1>10. /\ Cuda!ROL_misc(a)[8] = Cuda!ByBytesLeft(a, <<2, 1, 0, 7>>)
       /\ Cuda!ROL_misc(a)[16] = Cuda!ByBytesLeft(a, <<1, 0, 7, 6>>)
       /\ Cuda!ROL_misc(a)[24] = Cuda!ByBytesLeft(a, <<0, 7, 6, 5>>)
       /\ Cuda!ROR_misc(a)[8] = Cuda!ByBytes(a, <<0, 7, 6, 5>>)
       /\ Cuda!ROR_misc(a)[16] = Cuda!ByBytes(a, <<1, 0, 7, 6>>)
       /\ Cuda!ROR_misc(a)[24] = Cuda!ByBytes(a, <<2, 1, 0, 7>>)
  BY DEF Cuda!ROL_misc, Cuda!ROR_misc
<1>11. /\ Cuda!ROL_misc(a)[8] = <<Funnel(hi, lo, 8), Funnel(lo, hi, 8)>>
       /\ Cuda!ROL_misc(a)[16] = <<Funnel(hi, lo, 16), Funnel(lo, hi, 16)>>
       /\ Cuda!ROL_misc(a)[24] = <<Funnel(hi, lo, 24), Funnel(lo, hi, 24)>>
  <2>1. \A s : Cuda!ByBytesLeft(a, s) = <<Cuda!byte_perm(lo, hi, s), Cuda!byte_perm(hi, lo, s)>>
    BY <1>1 DEF Cuda!ByBytesLeft
  <2>2. Cuda!ByBytesLeft(a, <<2, 1, 0, 7>>) = <<Funnel(hi, lo, 8), Funnel(lo, hi, 8)>>
    BY <1>5, <1>6, <2>1, SMTT(30)
  <2>3. Cuda!ByBytesLeft(a, <<1, 0, 7, 6>>) = <<Funnel(hi, lo, 16), Funnel(lo, hi, 16)>>
    BY <1>5, <1>6, <2>1, SMTT(30)
  <2>4. Cuda!ByBytesLeft(a, <<0, 7, 6, 5>>) = <<Funnel(hi, lo, 24), Funnel(lo, hi, 24)>>
    BY <1>5, <1>6, <2>1, SMTT(30)
  <2> QED BY <1>10, <2>2, <2>3, <2>4
<1>12. /\ Cuda!ROR_misc(a)[8] = <<Funnel(lo, hi, 24), Funnel(hi, lo, 24)>>
       /\ Cuda!ROR_misc(a)[16] = <<Funnel(lo, hi, 16), Funnel(hi, lo, 16)>>
       /\ Cuda!ROR_misc(a)[24] = <<Funnel(lo, hi, 8), Funnel(hi, lo, 8)>>
  <2>1. \A s : Cuda!ByBytes(a, s) = <<Cuda!byte_perm(hi, lo, s), Cuda!byte_perm(lo, hi, s)>>
    BY <1>1 DEF Cuda!ByBytes
  <2>2. Cuda!ByBytes(a, <<2, 1, 0, 7>>) = <<Funnel(lo, hi, 8), Funnel(hi, lo, 8)>>
    BY <1>5, <1>6, <2>1, SMTT(30)
  <2>3. Cuda!ByBytes(a, <<1, 0, 7, 6>>) = <<Funnel(lo, hi, 16), Funnel(hi, lo, 16)>>
    BY <1>5, <1>6, <2>1, SMTT(30)
  <2>4. Cuda!ByBytes(a, <<0, 7, 6, 5>>) = <<Funnel(lo, hi, 24), Funnel(hi, lo, 24)>>
    BY <1>5, <1>6, <2>1, SMTT(30)
  <2> QED BY <1>10, <2>2, <2>3, <2>4
<1>13. \A n \in {8, 16, 24} : n = 8 \/ n = 16 \/ n = 24
  OBVIOUS
<1>14. ASSUME NEW n \in {8, 16, 24}
       PROVE  Cuda!devectorize(Cuda!ROL_misc(a)[n]) = Left(v, n) /\ Cuda!devectorize(Cuda!ROR_misc(a)[n]) = Right(v, n)
  <2>1. CASE n = 8
    BY <1>3, <1>11, <1>12, <2>1
  <2>2. CASE n = 16
    BY <1>3, <1>11, <1>12, <2>2
  <2>3. CASE n = 24
    BY <1>3, <1>11, <1>12, <2>3
  <2> QED BY <2>1, <2>2, <2>3
<1> QED BY <1>3, <1>7, <1>8, <1>9, <1>14 DEF RotatesBytes

\* The byte order the other way round, by the place of a byte.
LEMMA InTurned ==
  ASSUME NEW m \in {4, 8}, NEW v, v \subseteq 0..(8 * m - 1)
  PROVE  /\ Turned(v, 8 * m) \subseteq 0..(8 * m - 1)
         /\ \A k \in 0..(m - 1), x \in Int :
              x \in (8 * k)..(8 * k + 7) => (x \in Turned(v, 8 * m) <=> x + (8 * m - 8 - 16 * k) \in v)
<1> DEFINE T(b) == 8 * m - 8 - 8 * (b \div 8) + (b % 8)
<1>1. Turned(v, 8 * m) = {T(b) : b \in v}
  BY DEF Turned
<1>2. ASSUME NEW b \in v
      PROVE  \E q \in 0..(m - 1), r \in 0..7 : b = 8 * q + r /\ T(b) = 8 * (m - 1 - q) + r
  <2> DEFINE q == b \div 8
             r == b % 8
  <2>1. b \in Int /\ b \in 0..(8 * m - 1)
    OBVIOUS
  <2>2. q \in Int /\ r \in 0..7 /\ b = 8 * q + r
    BY <2>1
  <2>3. q \in 0..(m - 1)
    <3> HIDE DEF q, r
    <3> QED BY <2>1, <2>2
  <2>4. T(b) = 8 * (m - 1 - q) + r
    <3>1. T(b) = 8 * m - 8 - 8 * q + r
      OBVIOUS
    <3> HIDE DEF T, q, r
    <3> QED BY <2>2, <3>1
  <2> HIDE DEF T, q, r
  <2> QED BY <2>2, <2>3, <2>4
<1>3. ASSUME NEW q \in 0..(m - 1), NEW r \in 0..7
      PROVE  T(8 * q + r) = 8 * (m - 1 - q) + r
  <2>1. (8 * q + r) \div 8 = q /\ (8 * q + r) % 8 = r
    OBVIOUS
  <2> QED BY <2>1
<1> HIDE DEF T
<1>4. Turned(v, 8 * m) \subseteq 0..(8 * m - 1)
  <2>1. \A b \in v : T(b) \in 0..(8 * m - 1)
    BY <1>2
  <2> QED BY <1>1, <2>1
<1>5. ASSUME NEW k \in 0..(m - 1), NEW x \in Int, x \in (8 * k)..(8 * k + 7)
      PROVE  x \in Turned(v, 8 * m) <=> x + (8 * m - 8 - 16 * k) \in v
  <2> DEFINE q == m - 1 - k
             r == x - 8 * k
             y == x + (8 * m - 8 - 16 * k)
  <2>1. q \in 0..(m - 1) /\ r \in 0..7 /\ y = 8 * q + r /\ x = 8 * (m - 1 - q) + r
    BY <1>5
  <2> HIDE DEF q, r, y
  <2>2. ASSUME y \in v PROVE x \in Turned(v, 8 * m)
    <3>1. T(y) = x
      BY <1>3, <2>1
    <3> QED BY <1>1, <2>2, <3>1
  <2>3. ASSUME x \in Turned(v, 8 * m) PROVE y \in v
    <3>1. PICK b \in v : T(b) = x
      BY <1>1, <2>3
    <3>2. PICK q1 \in 0..(m - 1), r1 \in 0..7 : b = 8 * q1 + r1 /\ T(b) = 8 * (m - 1 - q1) + r1
      BY <1>2
    <3>3. q1 = q /\ r1 = r
      BY <2>1, <3>1, <3>2
    <3> QED BY <2>1, <3>2, <3>3
  <2> QED BY <2>2, <2>3 DEF y
<1> QED BY <1>4, <1>5

LEMMA Swab32Turns ==
  ASSUME NEW v, v \subseteq 0..31
  PROVE  Cuda!cuda_swab32(v) = Turned(v, 32) /\ Cuda!cuda_swab32_host(v) = Turned(v, 32)
<1>1. /\ Turned(v, 32) \subseteq 0..31
      /\ \A k \in 0..3, x \in Int :
           x \in (8 * k)..(8 * k + 7) => (x \in Turned(v, 32) <=> x + (24 - 16 * k) \in v)
  <2> DEFINE m == 4
  <2>1. m \in {4, 8} /\ v \subseteq 0..(8 * m - 1)
    OBVIOUS
  <2> HIDE DEF m
  <2>2. /\ Turned(v, 8 * m) \subseteq 0..(8 * m - 1)
        /\ \A k \in 0..(m - 1), x \in Int :
             x \in (8 * k)..(8 * k + 7) => (x \in Turned(v, 8 * m) <=> x + (8 * m - 8 - 16 * k) \in v)
    BY <2>1, InTurned
  <2>3. 8 * m = 32 /\ 8 * m - 1 = 31 /\ m - 1 = 3 /\ \A k \in 0..3 : 8 * m - 8 - 16 * k = 24 - 16 * k
    BY DEF m
  <2> QED BY <2>2, <2>3
<1>2. /\ \A x \in 0..7 : x \in Turned(v, 32) <=> x + 24 \in v
      /\ \A x \in 8..15 : x \in Turned(v, 32) <=> x + 8 \in v
      /\ \A x \in 16..23 : x \in Turned(v, 32) <=> x - 8 \in v
      /\ \A x \in 24..31 : x \in Turned(v, 32) <=> x - 24 \in v
  <2>1. \A x \in 0..7 : x \in Turned(v, 32) <=> x + 24 \in v
    <3> TAKE x \in 0..7
    <3>1. 0 \in 0..3 /\ x \in (8 * 0)..(8 * 0 + 7) /\ x + (24 - 16 * 0) = x + 24
      OBVIOUS
    <3> QED BY <1>1, <3>1
  <2>2. \A x \in 8..15 : x \in Turned(v, 32) <=> x + 8 \in v
    <3> TAKE x \in 8..15
    <3>1. 1 \in 0..3 /\ x \in (8 * 1)..(8 * 1 + 7) /\ x + (24 - 16 * 1) = x + 8
      OBVIOUS
    <3> QED BY <1>1, <3>1
  <2>3. \A x \in 16..23 : x \in Turned(v, 32) <=> x - 8 \in v
    <3> TAKE x \in 16..23
    <3>1. 2 \in 0..3 /\ x \in (8 * 2)..(8 * 2 + 7) /\ x + (24 - 16 * 2) = x - 8
      OBVIOUS
    <3> QED BY <1>1, <3>1
  <2>4. \A x \in 24..31 : x \in Turned(v, 32) <=> x - 24 \in v
    <3> TAKE x \in 24..31
    <3>1. 3 \in 0..3 /\ x \in (8 * 3)..(8 * 3 + 7) /\ x + (24 - 16 * 3) = x - 24
      OBVIOUS
    <3> QED BY <1>1, <3>1
  <2> QED BY <2>1, <2>2, <2>3, <2>4
<1>3. \A x \in 0..31 : x \in 0..7 \/ x \in 8..15 \/ x \in 16..23 \/ x \in 24..31
  OBVIOUS
<1>4. /\ Cuda!cuda_swab32(v) \subseteq 0..31
      /\ \A x \in 0..31 : x \in Cuda!cuda_swab32(v) <=>
              IF x < 8 THEN SelectedBit(v, v, 3, x)
              ELSE IF x < 16 THEN SelectedBit(v, v, 2, x - 8)
              ELSE IF x < 24 THEN SelectedBit(v, v, 1, x - 16) ELSE SelectedBit(v, v, 0, x - 24)
  <2>1. 0 \in 0..7 /\ 1 \in 0..7 /\ 2 \in 0..7 /\ 3 \in 0..7
    OBVIOUS
  <2> QED BY <2>1, InPerm, Zenon DEF Cuda!cuda_swab32
<1>5. \A x \in 0..31 : x \in Cuda!cuda_swab32(v) <=> x \in Turned(v, 32)
  <2> TAKE x \in 0..31
  <2>1. CASE x \in 0..7
    BY <1>2, <1>4, <2>1 DEF SelectedBit
  <2>2. CASE x \in 8..15
    BY <1>2, <1>4, <2>2 DEF SelectedBit
  <2>3. CASE x \in 16..23
    BY <1>2, <1>4, <2>3 DEF SelectedBit
  <2>4. CASE x \in 24..31
    BY <1>2, <1>4, <2>4 DEF SelectedBit
  <2> QED BY <1>3, <2>1, <2>2, <2>3, <2>4
<1>6. /\ \A x \in Int : x \in Cuda!Up(v, 24, 32) <=> x < 32 /\ x - 24 \in v
      /\ \A x \in Int : x \in Cuda!Up(v, 8, 32) <=> x < 32 /\ x - 8 \in v
      /\ \A x \in Int : x \in Cuda!Down(v, 8) <=> x >= 0 /\ x + 8 \in v
      /\ \A x \in Int : x \in Cuda!Down(v, 24) <=> x >= 0 /\ x + 24 \in v
  <2>1. v \subseteq Int /\ 24 \in Int /\ 8 \in Int /\ 32 \in Int
    OBVIOUS
  <2> QED BY <2>1, InUp, InDown
<1>7. \A x : x \in Cuda!cuda_swab32_host(v) <=>
        \/ x \in 24..31 /\ x \in Cuda!Up(v, 24, 32)
        \/ x \in 16..23 /\ x \in Cuda!Up(v, 8, 32)
        \/ x \in 8..15 /\ x \in Cuda!Down(v, 8)
        \/ x \in 0..7 /\ x \in Cuda!Down(v, 24)
  BY DEF Cuda!cuda_swab32_host, Cuda!Masked
<1>8. Cuda!cuda_swab32_host(v) \subseteq 0..31
  BY <1>7
<1>9. \A x \in 0..31 : x \in Cuda!cuda_swab32_host(v) <=> x \in Turned(v, 32)
  BY <1>2, <1>6, <1>7
<1>10. Cuda!cuda_swab32(v) = Turned(v, 32)
  BY <1>1, <1>4, <1>5, SameHalf
<1>11. Cuda!cuda_swab32_host(v) = Turned(v, 32)
  BY <1>1, <1>8, <1>9, SameHalf
<1> QED BY <1>10, <1>11

LEMMA Swab64Turns ==
  ASSUME NEW v, v \subseteq 0..63
  PROVE  Cuda!cuda_swab64(v) = Turned(v, 64) /\ Cuda!cuda_swab64_host(v) = Turned(v, 64)
<1> DEFINE lo == Cuda!Low(v)
           hi == Cuda!High(v)
           tlo == Turned(lo, 32)
           thi == Turned(hi, 32)
<1>1. /\ Turned(v, 64) \subseteq 0..63
      /\ \A k \in 0..7, x \in Int :
           x \in (8 * k)..(8 * k + 7) => (x \in Turned(v, 64) <=> x + (56 - 16 * k) \in v)
  <2> DEFINE m == 8
  <2>1. m \in {4, 8} /\ v \subseteq 0..(8 * m - 1)
    OBVIOUS
  <2> HIDE DEF m
  <2>2. /\ Turned(v, 8 * m) \subseteq 0..(8 * m - 1)
        /\ \A k \in 0..(m - 1), x \in Int :
             x \in (8 * k)..(8 * k + 7) => (x \in Turned(v, 8 * m) <=> x + (8 * m - 8 - 16 * k) \in v)
    BY <2>1, InTurned, Zenon
  <2>3. 8 * m = 64 /\ 8 * m - 1 = 63 /\ m - 1 = 7 /\ \A k \in 0..7 : 8 * m - 8 - 16 * k = 56 - 16 * k
    BY DEF m
  <2> QED BY <2>2, <2>3
<1>2. lo \subseteq 0..31 /\ hi \subseteq 0..31 /\ v \subseteq Int
  <2>1. v \subseteq Int
    OBVIOUS
  <2> QED BY <2>1, Halves
<1>3. \A x \in Int : (x \in lo <=> x < 32 /\ x \in v) /\ (x \in hi <=> x >= 0 /\ x + 32 \in v)
  BY <1>2, InLow, InHigh
<1> HIDE DEF lo, hi
<1>4. ASSUME NEW w, w \subseteq 0..31
      PROVE  /\ Turned(w, 32) \subseteq 0..31
             /\ \A k \in 0..3, x \in Int :
                  x \in (8 * k)..(8 * k + 7) => (x \in Turned(w, 32) <=> x + (24 - 16 * k) \in w)
  <2> DEFINE m == 4
  <2>1. m \in {4, 8} /\ w \subseteq 0..(8 * m - 1)
    BY <1>4
  <2> HIDE DEF m
  <2>2. /\ Turned(w, 8 * m) \subseteq 0..(8 * m - 1)
        /\ \A k \in 0..(m - 1), x \in Int :
             x \in (8 * k)..(8 * k + 7) => (x \in Turned(w, 8 * m) <=> x + (8 * m - 8 - 16 * k) \in w)
    BY <2>1, InTurned
  <2>3. 8 * m = 32 /\ 8 * m - 1 = 31 /\ m - 1 = 3 /\ \A k \in 0..3 : 8 * m - 8 - 16 * k = 24 - 16 * k
    BY DEF m
  <2> QED BY <2>2, <2>3
<1>5. tlo \subseteq 0..31 /\ thi \subseteq 0..31
  BY <1>2, <1>4
<1>6. \A k \in 0..3, x \in Int : x \in (8 * k)..(8 * k + 7) => (x \in tlo <=> x + (24 - 16 * k) \in lo)
  BY <1>2, <1>4
<1>7. \A k \in 0..3, x \in Int : x \in (8 * k)..(8 * k + 7) => (x \in thi <=> x + (24 - 16 * k) \in hi)
  BY <1>2, <1>4
<1> HIDE DEF tlo, thi
<1>8. Cuda!cuda_swab64(v) = Cuda!devectorize(<<thi, tlo>>)
  <2>1. Cuda!cuda_swab32(lo) = tlo /\ Cuda!cuda_swab32(hi) = thi
    BY <1>2, Swab32Turns DEF tlo, thi
  <2> QED BY <2>1 DEF Cuda!cuda_swab64, lo, hi
<1>9. /\ Cuda!cuda_swab64(v) \subseteq 0..63
      /\ \A x \in 0..63 : x \in Cuda!cuda_swab64(v) <=> IF x < 32 THEN x \in thi ELSE x - 32 \in tlo
  <2>1. /\ Cuda!devectorize(<<thi, tlo>>) \subseteq 0..63
        /\ \A x \in 0..63 : x \in Cuda!devectorize(<<thi, tlo>>) <=> IF x < 32 THEN x \in thi ELSE x - 32 \in tlo
    BY <1>5, Joined
  <2> QED BY <1>8, <2>1
<1>10. ASSUME NEW x \in 0..63
       PROVE  x \in Cuda!cuda_swab64(v) <=> x \in Turned(v, 64)
  <2>1. PICK k \in 0..7 : x \in (8 * k)..(8 * k + 7)
    <3>1. x \div 8 \in 0..7 /\ x \in (8 * (x \div 8))..(8 * (x \div 8) + 7)
      OBVIOUS
    <3> QED BY <3>1
  <2>2. x \in Turned(v, 64) <=> x + (56 - 16 * k) \in v
    BY <1>1, <2>1
  <2>3. CASE x < 32
    <3>1. k \in 0..3 /\ x + (24 - 16 * k) \in Int /\ x + (24 - 16 * k) >= 0 /\ (x + (24 - 16 * k)) + 32 = x + (56 - 16 * k)
      BY <2>1, <2>3
    <3>2. x \in thi <=> x + (24 - 16 * k) \in hi
      BY <1>7, <2>1, <3>1
    <3>3. x + (24 - 16 * k) \in hi <=> x + (56 - 16 * k) \in v
      BY <1>3, <3>1
    <3> QED BY <1>9, <2>2, <2>3, <3>2, <3>3
  <2>4. CASE ~(x < 32)
    <3> DEFINE y == x - 32
               j == k - 4
               z == x + (56 - 16 * k)
    <3>1. /\ j \in 0..3 /\ y \in Int /\ y \in (8 * j)..(8 * j + 7) /\ y + (24 - 16 * j) = z
          /\ z \in Int /\ z < 32
      BY <2>1, <2>4
    <3> HIDE DEF y, j, z
    <3>2. y \in tlo <=> z \in lo
      BY <1>6, <3>1
    <3>3. z \in lo <=> z \in v
      BY <1>3, <3>1
    <3>4. x \in Cuda!cuda_swab64(v) <=> y \in tlo
      BY <1>9, <2>4 DEF y
    <3> QED BY <2>2, <3>2, <3>3, <3>4 DEF z
  <2> QED BY <2>3, <2>4
<1>11. Cuda!cuda_swab64(v) = Turned(v, 64)
  BY <1>1, <1>9, <1>10, SameWord
<1>12. ASSUME NEW first \in 0..63, NEW last \in 0..63, NEW n \in 0..63, NEW x \in Int
       PROVE  /\ x \in Cuda!Down(Cuda!Masked(v, first, last), n) <=> x >= 0 /\ x + n \in v /\ x + n \in first..last
              /\ x \in Cuda!Up(Cuda!Masked(v, first, last), n, 64) <=> x < 64 /\ x - n \in v /\ x - n \in first..last
  <2> DEFINE w == Cuda!Masked(v, first, last)
  <2>1. w \subseteq Int /\ n \in Int /\ 64 \in Int
    <3>1. w \subseteq v
      BY DEF Cuda!Masked
    <3>2. n \in Int /\ 64 \in Int
      OBVIOUS
    <3> HIDE DEF w
    <3>3. w \subseteq Int
      BY <1>2, <3>1
    <3> QED BY <3>2, <3>3
  <2>2. \A y : y \in w <=> y \in v /\ y \in first..last
    BY DEF Cuda!Masked
  <2> HIDE DEF w
  <2>3. x \in Cuda!Down(w, n) <=> x >= 0 /\ x + n \in w
    BY <2>1, InDown
  <2>4. x \in Cuda!Up(w, n, 64) <=> x < 64 /\ x - n \in w
    BY <2>1, InUp, Zenon
  <2> QED BY <2>2, <2>3, <2>4 DEF w
<1>13. ASSUME NEW x \in Int
       PROVE  x \in Cuda!cuda_swab64_host(v) <=>
                \/ x \in 0..7 /\ x + 56 \in v
                \/ x \in 8..15 /\ x + 40 \in v
                \/ x \in 16..23 /\ x + 24 \in v
                \/ x \in 24..31 /\ x + 8 \in v
                \/ x \in 32..39 /\ x - 8 \in v
                \/ x \in 40..47 /\ x - 24 \in v
                \/ x \in 48..55 /\ x - 40 \in v
                \/ x \in 56..63 /\ x - 56 \in v
  <2>1. x \in Cuda!Down(Cuda!Masked(v, 56, 63), 56) <=> x \in 0..7 /\ x + 56 \in v
    <3>1. 56 \in 0..63 /\ 63 \in 0..63 /\ 56 \in 0..63
      OBVIOUS
    <3>2. x \in Cuda!Down(Cuda!Masked(v, 56, 63), 56) <=> x >= 0 /\ x + 56 \in v /\ x + 56 \in 56..63
      BY <1>12, <3>1, Zenon
    <3> QED BY <3>2
  <2>2. x \in Cuda!Down(Cuda!Masked(v, 48, 55), 40) <=> x \in 8..15 /\ x + 40 \in v
    <3>1. 48 \in 0..63 /\ 55 \in 0..63 /\ 40 \in 0..63
      OBVIOUS
    <3>2. x \in Cuda!Down(Cuda!Masked(v, 48, 55), 40) <=> x >= 0 /\ x + 40 \in v /\ x + 40 \in 48..55
      BY <1>12, <3>1, Zenon
    <3> QED BY <3>2
  <2>3. x \in Cuda!Down(Cuda!Masked(v, 40, 47), 24) <=> x \in 16..23 /\ x + 24 \in v
    <3>1. 40 \in 0..63 /\ 47 \in 0..63 /\ 24 \in 0..63
      OBVIOUS
    <3>2. x \in Cuda!Down(Cuda!Masked(v, 40, 47), 24) <=> x >= 0 /\ x + 24 \in v /\ x + 24 \in 40..47
      BY <1>12, <3>1, Zenon
    <3> QED BY <3>2
  <2>4. x \in Cuda!Down(Cuda!Masked(v, 32, 39), 8) <=> x \in 24..31 /\ x + 8 \in v
    <3>1. 32 \in 0..63 /\ 39 \in 0..63 /\ 8 \in 0..63
      OBVIOUS
    <3>2. x \in Cuda!Down(Cuda!Masked(v, 32, 39), 8) <=> x >= 0 /\ x + 8 \in v /\ x + 8 \in 32..39
      BY <1>12, <3>1, Zenon
    <3> QED BY <3>2
  <2>5. x \in Cuda!Up(Cuda!Masked(v, 24, 31), 8, 64) <=> x \in 32..39 /\ x - 8 \in v
    <3>1. 24 \in 0..63 /\ 31 \in 0..63 /\ 8 \in 0..63
      OBVIOUS
    <3>2. x \in Cuda!Up(Cuda!Masked(v, 24, 31), 8, 64) <=> x < 64 /\ x - 8 \in v /\ x - 8 \in 24..31
      BY <1>12, <3>1, Zenon
    <3> QED BY <3>2
  <2>6. x \in Cuda!Up(Cuda!Masked(v, 16, 23), 24, 64) <=> x \in 40..47 /\ x - 24 \in v
    <3>1. 16 \in 0..63 /\ 23 \in 0..63 /\ 24 \in 0..63
      OBVIOUS
    <3>2. x \in Cuda!Up(Cuda!Masked(v, 16, 23), 24, 64) <=> x < 64 /\ x - 24 \in v /\ x - 24 \in 16..23
      BY <1>12, <3>1, Zenon
    <3> QED BY <3>2
  <2>7. x \in Cuda!Up(Cuda!Masked(v, 8, 15), 40, 64) <=> x \in 48..55 /\ x - 40 \in v
    <3>1. 8 \in 0..63 /\ 15 \in 0..63 /\ 40 \in 0..63
      OBVIOUS
    <3>2. x \in Cuda!Up(Cuda!Masked(v, 8, 15), 40, 64) <=> x < 64 /\ x - 40 \in v /\ x - 40 \in 8..15
      BY <1>12, <3>1, Zenon
    <3> QED BY <3>2
  <2>8. x \in Cuda!Up(Cuda!Masked(v, 0, 7), 56, 64) <=> x \in 56..63 /\ x - 56 \in v
    <3>1. 0 \in 0..63 /\ 7 \in 0..63 /\ 56 \in 0..63
      OBVIOUS
    <3>2. x \in Cuda!Up(Cuda!Masked(v, 0, 7), 56, 64) <=> x < 64 /\ x - 56 \in v /\ x - 56 \in 0..7
      BY <1>12, <3>1, Zenon
    <3> QED BY <3>2
  <2>9. x \in Cuda!cuda_swab64_host(v) <=>
          \/ x \in Cuda!Down(Cuda!Masked(v, 56, 63), 56)
          \/ x \in Cuda!Down(Cuda!Masked(v, 48, 55), 40)
          \/ x \in Cuda!Down(Cuda!Masked(v, 40, 47), 24)
          \/ x \in Cuda!Down(Cuda!Masked(v, 32, 39), 8)
          \/ x \in Cuda!Up(Cuda!Masked(v, 24, 31), 8, 64)
          \/ x \in Cuda!Up(Cuda!Masked(v, 16, 23), 24, 64)
          \/ x \in Cuda!Up(Cuda!Masked(v, 8, 15), 40, 64)
          \/ x \in Cuda!Up(Cuda!Masked(v, 0, 7), 56, 64)
    BY DEF Cuda!cuda_swab64_host
  <2> QED BY <2>1, <2>2, <2>3, <2>4, <2>5, <2>6, <2>7, <2>8, <2>9
<1>14. Cuda!cuda_swab64_host(v) \subseteq Int
  BY DEF Cuda!cuda_swab64_host, Cuda!Up, Cuda!Down, Cuda!Masked
<1>15. Cuda!cuda_swab64_host(v) \subseteq 0..63
  BY <1>13, <1>14
<1>16. ASSUME NEW x \in 0..63
       PROVE  x \in Cuda!cuda_swab64_host(v) <=> x \in Turned(v, 64)
  <2>1. CASE x \in 0..7
    <3>1. 0 \in 0..7 /\ x \in Int /\ x \in (8 * 0)..(8 * 0 + 7) /\ x + (56 - 16 * 0) = x + 56
      BY <2>1
    <3>2. x \in Turned(v, 64) <=> x + 56 \in v
      BY <1>1, <3>1
    <3> QED BY <1>13, <2>1, <3>2
  <2>2. CASE x \in 8..15
    <3>1. 1 \in 0..7 /\ x \in Int /\ x \in (8 * 1)..(8 * 1 + 7) /\ x + (56 - 16 * 1) = x + 40
      BY <2>2
    <3>2. x \in Turned(v, 64) <=> x + 40 \in v
      BY <1>1, <3>1
    <3> QED BY <1>13, <2>2, <3>2
  <2>3. CASE x \in 16..23
    <3>1. 2 \in 0..7 /\ x \in Int /\ x \in (8 * 2)..(8 * 2 + 7) /\ x + (56 - 16 * 2) = x + 24
      BY <2>3
    <3>2. x \in Turned(v, 64) <=> x + 24 \in v
      BY <1>1, <3>1
    <3> QED BY <1>13, <2>3, <3>2
  <2>4. CASE x \in 24..31
    <3>1. 3 \in 0..7 /\ x \in Int /\ x \in (8 * 3)..(8 * 3 + 7) /\ x + (56 - 16 * 3) = x + 8
      BY <2>4
    <3>2. x \in Turned(v, 64) <=> x + 8 \in v
      BY <1>1, <3>1
    <3> QED BY <1>13, <2>4, <3>2
  <2>5. CASE x \in 32..39
    <3>1. 4 \in 0..7 /\ x \in Int /\ x \in (8 * 4)..(8 * 4 + 7) /\ x + (56 - 16 * 4) = x - 8
      BY <2>5
    <3>2. x \in Turned(v, 64) <=> x - 8 \in v
      BY <1>1, <3>1
    <3> QED BY <1>13, <2>5, <3>2
  <2>6. CASE x \in 40..47
    <3>1. 5 \in 0..7 /\ x \in Int /\ x \in (8 * 5)..(8 * 5 + 7) /\ x + (56 - 16 * 5) = x - 24
      BY <2>6
    <3>2. x \in Turned(v, 64) <=> x - 24 \in v
      BY <1>1, <3>1
    <3> QED BY <1>13, <2>6, <3>2
  <2>7. CASE x \in 48..55
    <3>1. 6 \in 0..7 /\ x \in Int /\ x \in (8 * 6)..(8 * 6 + 7) /\ x + (56 - 16 * 6) = x - 40
      BY <2>7
    <3>2. x \in Turned(v, 64) <=> x - 40 \in v
      BY <1>1, <3>1
    <3> QED BY <1>13, <2>7, <3>2
  <2>8. CASE x \in 56..63
    <3>1. 7 \in 0..7 /\ x \in Int /\ x \in (8 * 7)..(8 * 7 + 7) /\ x + (56 - 16 * 7) = x - 56
      BY <2>8
    <3>2. x \in Turned(v, 64) <=> x - 56 \in v
      BY <1>1, <3>1
    <3> QED BY <1>13, <2>8, <3>2
  <2>9. x \in 0..7 \/ x \in 8..15 \/ x \in 16..23 \/ x \in 24..31 \/ x \in 32..39 \/ x \in 40..47 \/ x \in 48..55 \/ x \in 56..63
    OBVIOUS
  <2> QED BY <2>1, <2>2, <2>3, <2>4, <2>5, <2>6, <2>7, <2>8, <2>9
<1>17. Cuda!cuda_swab64_host(v) = Turned(v, 64)
  BY <1>1, <1>15, <1>16, SameWord
<1> QED BY <1>11, <1>17

-----------------------------------------------------------------------------
(* Three words at once.                                                    *)

LEMMA Mixed ==
  ASSUME NEW a, a \subseteq 0..31, NEW b, b \subseteq 0..31, NEW c, c \subseteq 0..31
  PROVE  Mixes(a, b, c)
<1> DEFINE Index(i) == (IF i \in a THEN 4 ELSE 0) + (IF i \in b THEN 2 ELSE 0) + (IF i \in c THEN 1 ELSE 0)
<1>1. \A i \in 0..31 : i \in Cuda!xor3x(a, b, c) <=> Index(i) \in {1, 2, 4, 7}
  BY DEF Cuda!xor3x, Cuda!lop3
<1>2. \A i \in 0..31 : i \in Cuda!chi(a, b, c) <=> Index(i) \in {1, 4, 6, 7}
  BY DEF Cuda!chi, Cuda!lop3
<1>3. Cuda!xor3x(a, b, c) \subseteq 0..31 /\ Cuda!chi(a, b, c) \subseteq 0..31
  BY DEF Cuda!xor3x, Cuda!chi, Cuda!lop3
<1>4. Xor(Xor(a, b), c) \subseteq 0..31 /\ Xor(a, c \ b) \subseteq 0..31
  BY DEF Xor
<1>5. \A i \in 0..31 : i \in Xor(Xor(a, b), c) <=> Index(i) \in {1, 2, 4, 7}
  BY DEF Xor
<1>6. \A i \in 0..31 : i \in Xor(a, c \ b) <=> Index(i) \in {1, 4, 6, 7}
  BY DEF Xor
<1> HIDE DEF Index
<1>7. Cuda!xor3x(a, b, c) = Xor(Xor(a, b), c)
  BY <1>1, <1>3, <1>4, <1>5, SameHalf
<1>8. Cuda!chi(a, b, c) = Xor(a, c \ b)
  BY <1>2, <1>3, <1>4, <1>6, SameHalf
<1> QED BY <1>7, <1>8 DEF Mixes

LEMMA HelpersCorrect ==
  ASSUME IsInput
  PROVE  HelpersDoTheirOperation
<1> SUFFICES ASSUME Kind("word") PROVE HelpersDoTheirOperation
  BY DEF HelpersDoTheirOperation
<1> DEFINE v == BitsOf(Parts)
           a == Cuda!vectorize(v)
<1>1. v \subseteq 0..63
  <2>1. PICK s \in Seq(0..63) : s = Parts
    BY DEF IsInput
  <2>2. \A i \in DOMAIN s : s[i] \in 0..63
    <3> DEFINE S == 0..63
    <3>1. s \in Seq(S)
      OBVIOUS
    <3> HIDE DEF S
    <3>2. \A i \in 1..Len(s) : s[i] \in S
      BY <3>1
    <3>3. DOMAIN s = 1..Len(s)
      BY <3>1
    <3> QED BY <3>2, <3>3 DEF S
  <2> QED BY <2>1, <2>2 DEF BitsOf
<1> HIDE DEF v
<1>2. a[1] \subseteq 0..31 /\ a[2] \subseteq 0..31
  BY <1>1, Halves DEF Cuda!vectorize
<1>3. a = Cuda!vectorize(v)
  OBVIOUS
<1> HIDE DEF a
<1>4. \A n \in 0..63 : RotatesLeft(v, a, n) /\ RotatesRight(v, a, n) /\ Shifts(v, a, n)
  BY <1>1, <1>3, EveryRotation, EveryShift
<1>5. RotatesBytes(v, a)
  BY <1>1, <1>3, BytesTurn
<1>6. TurnsBytes(v, a)
  BY <1>1, <1>2, Swab32Turns, Swab64Turns DEF TurnsBytes
<1>7. Mixes(a[1], a[2], 16..31)
  <2>1. 16..31 \subseteq 0..31
    OBVIOUS
  <2> QED BY <1>2, <2>1, Mixed
<1>8. Mixes(a[1], 16..31, {0, 2, 17, 31})
  <2>1. 16..31 \subseteq 0..31 /\ {0, 2, 17, 31} \subseteq 0..31
    OBVIOUS
  <2> QED BY <1>2, <2>1, Mixed
<1> QED BY <1>4, <1>5, <1>6, <1>7, <1>8 DEF HelpersDoTheirOperation, v, a

-----------------------------------------------------------------------------
(* Induction on the natural numbers, in terms of sets.                     *)

LEMMA LeastNat ==
  ASSUME NEW T, T \subseteq Nat, T # {}
  PROVE  \E n \in T : \A m \in T : n <= m
<1> DEFINE R == {ss \in Nat \X Nat : ss[1] < ss[2]}
<1>1. IsWellFoundedOn(R, Nat)
  BY NatLessThanWellFounded DEF OpToRel
<1>2. \E x \in T : \A y \in T : ~(<<y, x>> \in R)
  <2> HIDE DEF R
  <2> QED BY <1>1, WFMin
<1>3. PICK x \in T : \A y \in T : ~(<<y, x>> \in R)
  BY <1>2
<1>4. \A y \in T : x <= y
  <2> TAKE y \in T
  <2>1. ~(y < x)
    BY <1>3
  <2> QED BY <2>1
<1> QED BY <1>4

LEMMA Induct ==
  ASSUME NEW S, NEW m \in Nat, 0 \in S, \A n \in 0..(m - 1) : n \in S => n + 1 \in S
  PROVE  0..m \subseteq S
<1> DEFINE T == (0..m) \ S
<1>1. SUFFICES ASSUME T # {} PROVE FALSE
  OBVIOUS
<1>2. T \subseteq Nat
  OBVIOUS
<1>3. PICK n \in T : \A k \in T : n <= k
  <2> HIDE DEF T
  <2> QED BY <1>1, <1>2, LeastNat
<1>4. n # 0 /\ n - 1 \in 0..(m - 1) /\ n - 1 \notin T
  BY <1>3
<1> QED BY <1>3, <1>4

-----------------------------------------------------------------------------
(* Digits and the number that they are.                                    *)

LEMMA FunctionIsSeq ==
  ASSUME NEW S, NEW n \in Nat, NEW d \in [1..n -> S]
  PROVE  d \in Seq(S) /\ Len(d) = n
<1>1. d \in Seq(S)
  BY SeqDef
<1>2. Len(d) \in Nat /\ DOMAIN d = 1..Len(d) /\ DOMAIN d = 1..n
  BY <1>1, LenProperties
<1>3. \A i \in Int : i \in 1..Len(d) <=> i \in 1..n
  BY <1>2
<1>4. Len(d) <= n
  BY <1>2, <1>3
<1>5. n <= Len(d)
  BY <1>2, <1>3
<1> QED BY <1>1, <1>2, <1>4, <1>5

\* What the digits up to each one amount to.
Adds(f, base, d, n) ==
  /\ base \in {16, 256} /\ n \in Nat /\ d \in [1..n -> Nat]
  /\ f \in [0..n -> Nat] /\ f[0] = 0
  /\ \A i \in 1..n : f[i] = base * f[i - 1] + d[i]

LEMMA NumberAdds ==
  ASSUME NEW base \in {16, 256}, NEW n \in Nat, NEW d \in [1..n -> Nat]
  PROVE  \E f : Adds(f, base, d, n) /\ NumberOf(base, d) = f[n]
<1> DEFINE body(f, i) == IF i = 0 THEN 0 ELSE base * f[i - 1] + d[i]
           upTo == CHOOSE f : f = [i \in 0..Len(d) |-> body(f, i)]
<1>1. Len(d) = n
  BY FunctionIsSeq
<1>2. NumberOf(base, d) = upTo[Len(d)]
  BY DEF NumberOf
<1>3. \E f : f = [i \in 0..n |-> body(f, i)]
  <2> DEFINE S == {k \in 0..n : \E f : f = [i \in 0..k |-> body(f, i)]}
  <2>1. 0 \in S
    <3> DEFINE f == [i \in 0..0 |-> 0]
    <3>1. f = [i \in 0..0 |-> body(f, i)]
      OBVIOUS
    <3> HIDE DEF f, body
    <3> QED BY <3>1
  <2>2. ASSUME NEW k \in 0..(n - 1), k \in S PROVE k + 1 \in S
    <3>1. PICK f : f = [i \in 0..k |-> body(f, i)]
      BY <2>2
    <3> DEFINE last == base * f[k] + d[k + 1]
               g == [i \in 0..(k + 1) |-> IF i <= k THEN f[i] ELSE last]
    <3>2. ASSUME NEW i \in 0..(k + 1) PROVE g[i] = body(g, i)
      <4>1. CASE i = 0
        <5>1. g[i] = f[0]
          BY <4>1
        <5>2. f[0] = body(f, 0)
          BY <3>1
        <5> QED BY <4>1, <5>1, <5>2
      <4>2. CASE i \in 1..k
        <5>1. g[i] = f[i] /\ g[i - 1] = f[i - 1]
          BY <4>2
        <5>2. f[i] = body(f, i)
          BY <3>1, <4>2
        <5> HIDE DEF g
        <5> QED BY <4>2, <5>1, <5>2
      <4>3. CASE i = k + 1
        <5>1. g[i] = last /\ g[i - 1] = f[k]
          BY <4>3
        <5> HIDE DEF g
        <5> QED BY <4>3, <5>1
      <4> QED BY <4>1, <4>2, <4>3
    <3>3. g = [i \in 0..(k + 1) |-> g[i]]
      OBVIOUS
    <3> HIDE DEF g, body
    <3>4. g = [i \in 0..(k + 1) |-> body(g, i)]
      BY <3>2, <3>3
    <3>5. k + 1 \in 0..n
      OBVIOUS
    <3> QED BY <3>4, <3>5
  <2> HIDE DEF S
  <2>3. 0..n \subseteq S
    BY <2>1, <2>2, Induct
  <2>4. n \in S
    BY <2>3
  <2> QED BY <2>4 DEF S
<1>4. upTo = [i \in 0..n |-> body(upTo, i)]
  <2> HIDE DEF body
  <2> QED BY <1>1, <1>3, SMTT(30)
<1> HIDE DEF upTo
<1>5. upTo[0] = 0 /\ \A i \in 1..n : upTo[i] = base * upTo[i - 1] + d[i]
  BY <1>4
<1>6. \A i \in 0..n : upTo[i] \in Nat
  <2> DEFINE S == {k \in 0..n : upTo[k] \in Nat}
  <2>1. 0 \in S
    BY <1>5
  <2>2. ASSUME NEW k \in 0..(n - 1), k \in S PROVE k + 1 \in S
    <3>1. k + 1 \in 1..n /\ (k + 1) - 1 = k /\ upTo[k] \in Nat
      BY <2>2
    <3>2. upTo[k + 1] = base * upTo[k] + d[k + 1]
      BY <1>5, <3>1
    <3>3. d[k + 1] \in Nat
      BY <3>1
    <3> QED BY <3>1, <3>2, <3>3
  <2> HIDE DEF S
  <2>3. 0..n \subseteq S
    BY <2>1, <2>2, Induct
  <2> QED BY <2>3 DEF S
<1>7. upTo \in [0..n -> Nat]
  <2>1. upTo = [i \in 0..n |-> upTo[i]]
    BY <1>4
  <2> QED BY <1>6, <2>1
<1> QED BY <1>1, <1>2, <1>5, <1>7 DEF Adds

\* The digits decide it: two sequences that add up the same way are the same number.
LEMMA AddsTogether ==
  ASSUME NEW base, NEW n, NEW d, NEW f, Adds(f, base, d, n)
  PROVE  NumberOf(base, d) = f[n]
<1>0. base \in {16, 256} /\ n \in Nat /\ d \in [1..n -> Nat]
  BY DEF Adds
<1>1. PICK g : Adds(g, base, d, n) /\ NumberOf(base, d) = g[n]
  BY <1>0, NumberAdds
<1> DEFINE S == {k \in 0..n : f[k] = g[k]}
<1>2. 0 \in S
  BY <1>0, <1>1 DEF Adds
<1>3. ASSUME NEW k \in 0..(n - 1), k \in S PROVE k + 1 \in S
  <2>1. k + 1 \in 1..n /\ (k + 1) - 1 = k /\ f[k] = g[k]
    BY <1>0, <1>3
  <2>2. f[k + 1] = base * f[k] + d[k + 1] /\ g[k + 1] = base * g[k] + d[k + 1]
    BY <1>1, <2>1, SMTT(30) DEF Adds
  <2> QED BY <2>1, <2>2
<1> HIDE DEF S
<1>4. 0..n \subseteq S
  BY <1>0, <1>2, <1>3, Induct
<1> QED BY <1>0, <1>1, <1>4 DEF S

\* lte compares the numbers: of the prefixes, the one whose first different byte is the
\* smaller is the smaller number, by one at least.
LEMMA LteIsLessOrEqual ==
  ASSUME NEW n \in Nat, NEW l \in [1..n -> 0..255], NEW r \in [1..n -> 0..255]
  PROVE  Solver!Lte(l, r) <=> NumberOf(256, l) <= NumberOf(256, r)
<1>1. l \in [1..n -> Nat] /\ r \in [1..n -> Nat] /\ 256 \in {16, 256}
  <2>1. 0..255 \subseteq Nat
    OBVIOUS
  <2>2. \A d \in [1..n -> 0..255] : d \in [1..n -> Nat]
    BY <2>1, Zenon
  <2> QED BY <2>2
<1>2. PICK f : Adds(f, 256, l, n) /\ NumberOf(256, l) = f[n]
  BY <1>1, NumberAdds, ZenonT(60)
<1>3. PICK g : Adds(g, 256, r, n) /\ NumberOf(256, r) = g[n]
  BY <1>1, NumberAdds, ZenonT(60)
<1> DEFINE First(j) == l[j] # r[j] /\ \A k \in 1..(j - 1) : l[k] = r[k]
           Same(i) == (\A k \in 1..i : l[k] = r[k]) /\ f[i] = g[i]
           Less(i) == \E j \in 1..i : First(j) /\ l[j] < r[j] /\ f[i] < g[i]
           More(i) == \E j \in 1..i : First(j) /\ r[j] < l[j] /\ g[i] < f[i]
           S == {i \in 0..n : Same(i) \/ Less(i) \/ More(i)}
<1>4. /\ f[0] = 0 /\ g[0] = 0
      /\ \A i \in 0..n : f[i] \in Nat /\ g[i] \in Nat
      /\ \A i \in 1..n : f[i] = 256 * f[i - 1] + l[i] /\ g[i] = 256 * g[i - 1] + r[i]
      /\ \A i \in 1..n : l[i] \in 0..255 /\ r[i] \in 0..255
  <2>1. f[0] = 0 /\ (\A i \in 0..n : f[i] \in Nat) /\ \A i \in 1..n : f[i] = 256 * f[i - 1] + l[i]
    BY <1>2 DEF Adds
  <2>2. g[0] = 0 /\ (\A i \in 0..n : g[i] \in Nat) /\ \A i \in 1..n : g[i] = 256 * g[i - 1] + r[i]
    BY <1>3 DEF Adds
  <2>3. \A i \in 1..n : l[i] \in 0..255 /\ r[i] \in 0..255
    OBVIOUS
  <2> QED BY <2>1, <2>2, <2>3
<1>5. \A i \in 1..n : /\ l[i] < r[i] => l[i] # r[i] /\ l[i] <= r[i]
                      /\ l[i] = r[i] => l[i] <= r[i]
                      /\ r[i] < l[i] => r[i] # l[i] /\ ~(l[i] <= r[i])
                      /\ l[i] < r[i] \/ l[i] = r[i] \/ r[i] < l[i]
  <2> TAKE i \in 1..n
  <2> DEFINE x == l[i]
             y == r[i]
  <2>1. x \in 0..255 /\ y \in 0..255
    BY <1>4
  <2> HIDE DEF x, y
  <2>2. x < y => x # y /\ x <= y
    BY <2>1
  <2>3. x = y => x <= y
    BY <2>1
  <2>4. y < x => y # x /\ ~(x <= y)
    BY <2>1
  <2>5. x < y \/ x = y \/ y < x
    BY <2>1
  <2> QED BY <2>2, <2>3, <2>4, <2>5 DEF x, y
<1>6. 0 \in S
  <2>1. Same(0)
    BY <1>4
  <2> HIDE DEF Same, Less, More
  <2> QED BY <2>1
<1>7. ASSUME NEW k \in 0..(n - 1), k \in S PROVE k + 1 \in S
  <2> DEFINE m == k + 1
  <2>1. /\ m \in 1..n /\ m \in 0..n /\ m - 1 = k /\ k \in 0..n
        /\ f[k] \in Nat /\ g[k] \in Nat /\ l[m] \in 0..255 /\ r[m] \in 0..255
    BY <1>4, SMTT(30)
  <2>2. f[m] = 256 * f[k] + l[m] /\ g[m] = 256 * g[k] + r[m]
    BY <1>4, <2>1
  <2>3. /\ f[k] < g[k] => f[m] < g[m]
        /\ g[k] < f[k] => g[m] < f[m]
        /\ f[k] = g[k] /\ l[m] < r[m] => f[m] < g[m]
        /\ f[k] = g[k] /\ r[m] < l[m] => g[m] < f[m]
        /\ l[m] < r[m] \/ l[m] = r[m] \/ r[m] < l[m]
        /\ l[m] < r[m] => l[m] # r[m]
        /\ r[m] < l[m] => r[m] # l[m]
    <3> DEFINE a == f[k]
               b == g[k]
               x == l[m]
               y == r[m]
    <3>1. a \in Nat /\ b \in Nat /\ x \in 0..255 /\ y \in 0..255
      BY <2>1
    <3>2. f[m] = 256 * a + x /\ g[m] = 256 * b + y
      BY <2>2
    <3>3. /\ l[m] < r[m] \/ l[m] = r[m] \/ r[m] < l[m]
          /\ l[m] < r[m] => l[m] # r[m]
          /\ r[m] < l[m] => r[m] # l[m]
      BY <1>5, <2>1
    <3> HIDE DEF a, b, x, y
    <3>4. /\ a < b => 256 * a + x < 256 * b + y
          /\ b < a => 256 * b + y < 256 * a + x
          /\ a = b /\ x < y => 256 * a + x < 256 * b + y
          /\ a = b /\ y < x => 256 * b + y < 256 * a + x
      BY <3>1
    <3>5. /\ a < b => f[m] < g[m]
          /\ b < a => g[m] < f[m]
          /\ a = b /\ x < y => f[m] < g[m]
          /\ a = b /\ y < x => g[m] < f[m]
      BY <3>2, <3>4
    <3> QED BY <3>3, <3>5 DEF a, b, x, y
  <2>4. 1..m = 1..k \cup {m} /\ \A j \in 1..k : j \in 1..m
    BY <2>1
  <2> HIDE DEF m
  <2>5. CASE Same(k)
    <3>1. (\A j \in 1..k : l[j] = r[j]) /\ f[k] = g[k]
      BY <2>5
    <3>2. CASE l[m] = r[m]
      <4>1. Same(m)
        BY <2>1, <2>2, <2>4, <3>1, <3>2
      <4> QED BY <2>1, <4>1 DEF m
    <3>3. CASE l[m] < r[m]
      <4>1. First(m) /\ f[m] < g[m]
        BY <2>1, <2>3, <3>1, <3>3
      <4>2. Less(m)
        BY <2>1, <3>3, <4>1
      <4> QED BY <2>1, <4>2 DEF m
    <3>4. CASE r[m] < l[m]
      <4>1. First(m) /\ g[m] < f[m]
        BY <2>1, <2>3, <3>1, <3>4
      <4>2. More(m)
        BY <2>1, <3>4, <4>1
      <4> QED BY <2>1, <4>2 DEF m
    <3> QED BY <2>3, <3>2, <3>3, <3>4
  <2>6. CASE Less(k)
    <3>1. PICK j \in 1..k : First(j) /\ l[j] < r[j] /\ f[k] < g[k]
      BY <2>6
    <3>2. f[m] < g[m]
      BY <2>3, <3>1
    <3>3. Less(m)
      BY <2>4, <3>1, <3>2
    <3> QED BY <2>1, <3>3 DEF m
  <2>7. CASE More(k)
    <3>1. PICK j \in 1..k : First(j) /\ r[j] < l[j] /\ g[k] < f[k]
      BY <2>7
    <3>2. g[m] < f[m]
      BY <2>3, <3>1
    <3>3. More(m)
      BY <2>4, <3>1, <3>2
    <3> QED BY <2>1, <3>3 DEF m
  <2>8. Same(k) \/ Less(k) \/ More(k)
    BY <1>7
  <2> QED BY <2>5, <2>6, <2>7, <2>8
<1>8. n \in S
  <2> HIDE DEF S
  <2>1. 0..n \subseteq S
    BY <1>6, <1>7, Induct
  <2> QED BY <2>1
<1>9. Solver!Lte(l, r) <=> \A i \in 1..n : (\A j \in 1..(i - 1) : l[j] = r[j]) => l[i] <= r[i]
  BY DEF Solver!Lte
<1>10. f[n] \in Nat /\ g[n] \in Nat
  BY <1>4
<1>11. CASE Same(n)
  <2>1. \A i \in 1..n : l[i] <= r[i]
    BY <1>11, <1>5
  <2> QED BY <1>2, <1>3, <1>9, <1>10, <1>11, <2>1
<1>12. CASE Less(n)
  <2>1. PICK j \in 1..n : First(j) /\ l[j] < r[j] /\ f[n] < g[n]
    BY <1>12
  <2>2. ASSUME NEW i \in 1..n, \A k \in 1..(i - 1) : l[k] = r[k]
        PROVE  l[i] <= r[i]
    <3>1. i <= j
      <4>1. ~(j \in 1..(i - 1))
        BY <2>1, <2>2
      <4> QED BY <4>1
    <3>2. CASE i = j
      BY <1>5, <2>1, <3>2
    <3>3. CASE i < j
      <4>1. i \in 1..(j - 1)
        BY <3>3
      <4>2. l[i] = r[i]
        BY <2>1, <4>1
      <4> QED BY <1>5, <4>2
    <3> QED BY <3>1, <3>2, <3>3
  <2> QED BY <1>2, <1>3, <1>9, <1>10, <2>1, <2>2
<1>13. CASE More(n)
  <2>1. PICK j \in 1..n : First(j) /\ r[j] < l[j] /\ g[n] < f[n]
    BY <1>13
  <2>2. ~(l[j] <= r[j])
    BY <1>5, <2>1
  <2> QED BY <1>2, <1>3, <1>9, <1>10, <2>1, <2>2
<1> QED BY <1>8, <1>11, <1>12, <1>13

-----------------------------------------------------------------------------
(* Digits as characters.                                                   *)

LEMMA DigitsOf ==
  /\ \A c \in HexCharacters : Solver!FromAscii(c) \in 0..15
  /\ Solver!FromAscii(48) = 0
  /\ \A x \in 0..15 : Solver!FromAscii(Solver!Ascii(x)) = x
<1> USE DEF Solver!Digits, Solver!SmallLetters, Solver!BigLetters
<1>1. \A c \in 48..57 : Solver!FromAscii(c) = c - 48
  BY DEF Solver!FromAscii
<1>2. \A c \in 97..102 : Solver!FromAscii(c) = c - 97 + 10
  <2> TAKE c \in 97..102
  <2>1. c \notin 48..57 /\ c \notin 65..70
    OBVIOUS
  <2> QED BY <2>1 DEF Solver!FromAscii
<1>3. \A c \in 65..70 : Solver!FromAscii(c) = c - 65 + 10
  <2> TAKE c \in 65..70
  <2>1. c \notin 48..57 /\ c \notin 97..102
    OBVIOUS
  <2> QED BY <2>1 DEF Solver!FromAscii
<1>4. \A c \in HexCharacters : c \in 48..57 \/ c \in 97..102 \/ c \in 65..70
  BY DEF HexCharacters
<1>5. \A c \in HexCharacters : Solver!FromAscii(c) \in 0..15
  BY <1>1, <1>2, <1>3, <1>4
<1>6. Solver!FromAscii(48) = 0
  <2>1. 48 \in 48..57 /\ 48 - 48 = 0
    OBVIOUS
  <2> QED BY <1>1, <2>1
<1>7. ASSUME NEW x \in 0..15
      PROVE  Solver!FromAscii(Solver!Ascii(x)) = x
  <2>1. CASE x < 10
    <3>1. Solver!Ascii(x) = 48 + x /\ 48 + x \in 48..57 /\ (48 + x) - 48 = x
      BY <2>1 DEF Solver!Ascii
    <3> QED BY <1>1, <3>1
  <2>2. CASE ~(x < 10)
    <3>1. Solver!Ascii(x) = 97 + x - 10 /\ 97 + x - 10 \in 97..102 /\ (97 + x - 10) - 97 + 10 = x
      BY <2>2 DEF Solver!Ascii
    <3> QED BY <1>2, <3>1
  <2> QED BY <2>1, <2>2
<1> QED BY <1>5, <1>6, <1>7

\* What is written as characters is read back.
LEMMA ReadBack ==
  ASSUME NEW n \in Nat, NEW d \in [1..n -> 0..255]
  PROVE  Solver!HexToBytes(Solver!BytesToString(d)) = d
<1> DEFINE text == Solver!BytesToString(d)
           Half(i) == IF i % 2 = 1 THEN d[(i + 1) \div 2] \div 16 ELSE d[(i + 1) \div 2] % 16
<1>1. Len(d) = n /\ d = [j \in 1..n |-> d[j]]
  BY FunctionIsSeq
<1>2. text = [i \in 1..(2 * n) |-> Solver!Ascii(Half(i))]
  BY <1>1 DEF Solver!BytesToString
<1>3. Len(text) = 2 * n
  <2> DEFINE S == {text[i] : i \in 1..(2 * n)}
  <2>1. text = [i \in 1..(2 * n) |-> text[i]]
    BY <1>2
  <2> HIDE DEF text
  <2>2. text \in [1..(2 * n) -> S]
    BY <2>1
  <2>3. 2 * n \in Nat
    OBVIOUS
  <2> HIDE DEF S
  <2> QED BY <2>2, <2>3, FunctionIsSeq
<1>4. ASSUME NEW j \in 1..n
      PROVE  Solver!FromAscii(text[2 * j - 1]) * 16 + Solver!FromAscii(text[2 * j]) = d[j]
  <2>1. /\ 2 * j - 1 \in 1..(2 * n) /\ 2 * j \in 1..(2 * n)
        /\ (2 * j - 1) % 2 = 1 /\ (2 * j) % 2 = 0
        /\ ((2 * j - 1) + 1) \div 2 = j /\ (2 * j + 1) \div 2 = j
    OBVIOUS
  <2>2. Half(2 * j - 1) = d[j] \div 16 /\ Half(2 * j) = d[j] % 16
    BY <2>1
  <2> HIDE DEF Half
  <2>3. text[2 * j - 1] = Solver!Ascii(d[j] \div 16) /\ text[2 * j] = Solver!Ascii(d[j] % 16)
    BY <1>2, <2>1, <2>2
  <2>4. d[j] \in 0..255
    OBVIOUS
  <2>5. d[j] \div 16 \in 0..15 /\ d[j] % 16 \in 0..15 /\ (d[j] \div 16) * 16 + (d[j] % 16) = d[j]
    <3>1. \A x \in 0..255 : x \div 16 \in 0..15 /\ x % 16 \in 0..15 /\ (x \div 16) * 16 + (x % 16) = x
      OBVIOUS
    <3> QED BY <2>4, <3>1
  <2> HIDE DEF text
  <2>6. /\ Solver!FromAscii(text[2 * j - 1]) = d[j] \div 16
        /\ Solver!FromAscii(text[2 * j]) = d[j] % 16
    <3>1. /\ Solver!FromAscii(Solver!Ascii(d[j] \div 16)) = d[j] \div 16
          /\ Solver!FromAscii(Solver!Ascii(d[j] % 16)) = d[j] % 16
      BY <2>5, DigitsOf
    <3> QED BY <2>3, <3>1, Zenon
  <2> QED BY <2>5, <2>6, Zenon
<1> HIDE DEF text, Half
<1>5. (2 * n) \div 2 = n
  OBVIOUS
<1>6. Solver!HexToBytes(text) =
        [j \in 1..n |-> Solver!FromAscii(text[2 * j - 1]) * 16 + Solver!FromAscii(text[2 * j])]
  BY <1>3, <1>5 DEF Solver!HexToBytes
<1>7. Solver!HexToBytes(text) = [j \in 1..n |-> d[j]]
  BY <1>4, <1>6
<1> QED BY <1>1, <1>7 DEF text

\* A number in bytes is the number in the digits that its bytes are pairs of.
Pairs(h, n) == [j \in 1..n |-> h[2 * j - 1] * 16 + h[2 * j]]

LEMMA PairsOfDigits ==
  ASSUME NEW n \in Nat, NEW h \in [1..(2 * n) -> 0..15]
  PROVE  Pairs(h, n) \in [1..n -> 0..255] /\ NumberOf(256, Pairs(h, n)) = NumberOf(16, h)
<1> DEFINE bytes == Pairs(h, n)
<1>0. bytes = [j \in 1..n |-> h[2 * j - 1] * 16 + h[2 * j]]
  BY DEF Pairs
<1> HIDE DEF bytes
<1>1. \A i \in 1..(2 * n) : h[i] \in 0..15
  OBVIOUS
<1>2. \A x, y \in 0..15 : x * 16 + y \in 0..255
  OBVIOUS
<1>3. \A j \in 1..n : 2 * j - 1 \in 1..(2 * n) /\ 2 * j \in 1..(2 * n)
  OBVIOUS
<1>4. bytes \in [1..n -> 0..255]
  BY <1>0, <1>1, <1>2, <1>3, ZenonT(60)
<1>5. bytes \in [1..n -> Nat] /\ h \in [1..(2 * n) -> Nat] /\ 2 * n \in Nat
  <2>1. \A j \in 1..n : bytes[j] \in Nat
    <3>1. \A x \in 0..255 : x \in Nat
      OBVIOUS
    <3> QED BY <1>4, <3>1, ZenonT(60)
  <2>2. \A i \in 1..(2 * n) : h[i] \in Nat
    <3>1. \A x \in 0..15 : x \in Nat
      OBVIOUS
    <3> QED BY <1>1, <3>1
  <2>3. bytes \in [1..n -> Nat]
    BY <1>4, <2>1
  <2>4. h \in [1..(2 * n) -> Nat]
    BY <2>2
  <2> QED BY <2>3, <2>4
<1>6. PICK f : Adds(f, 16, h, 2 * n) /\ NumberOf(16, h) = f[2 * n]
  BY <1>5, NumberAdds
<1> DEFINE g == [j \in 0..n |-> f[2 * j]]
<1>7. Adds(g, 256, bytes, n)
  <2>1. /\ f[0] = 0
        /\ \A i \in 0..(2 * n) : f[i] \in Nat
        /\ \A i \in 1..(2 * n) : f[i] = 16 * f[i - 1] + h[i]
    BY <1>6 DEF Adds
  <2>2. \A j \in 0..n : 2 * j \in 0..(2 * n)
    OBVIOUS
  <2>3. g \in [0..n -> Nat] /\ g[0] = 0
    <3>1. 2 * 0 = 0 /\ 0 \in 0..n
      OBVIOUS
    <3> QED BY <2>1, <2>2, <3>1
  <2>4. ASSUME NEW j \in 1..n PROVE g[j] = 256 * g[j - 1] + bytes[j]
    <3> DEFINE a == f[2 * j - 2]
               b == f[2 * j - 1]
               x == h[2 * j - 1]
               y == h[2 * j]
    <3>1. /\ 2 * j - 1 \in 1..(2 * n) /\ 2 * j \in 1..(2 * n) /\ 2 * j - 2 \in 0..(2 * n) /\ 2 * j - 1 \in 0..(2 * n)
          /\ (2 * j - 1) - 1 = 2 * j - 2 /\ j - 1 \in 0..n /\ 2 * (j - 1) = 2 * j - 2 /\ j \in 0..n
      OBVIOUS
    <3>2. f[2 * j] = 16 * b + y /\ b = 16 * a + x
      BY <2>1, <3>1
    <3>3. a \in Nat /\ b \in Nat /\ x \in 0..15 /\ y \in 0..15
      BY <1>1, <2>1, <3>1
    <3>4. g[j] = f[2 * j] /\ g[j - 1] = a
      BY <3>1
    <3>5. bytes[j] = x * 16 + y
      BY <1>0
    <3> HIDE DEF a, b, x, y, g
    <3>6. 16 * (16 * a + x) + y = 256 * a + (x * 16 + y)
      BY <3>3
    <3> QED BY <3>2, <3>4, <3>5, <3>6
  <2> HIDE DEF g
  <2> QED BY <1>5, <2>3, <2>4 DEF Adds
<1>8. g[n] = f[2 * n]
  OBVIOUS
<1> HIDE DEF g
<1>9. NumberOf(256, bytes) = g[n]
  BY <1>7, AddsTogether
<1> QED BY <1>4, <1>6, <1>8, <1>9 DEF bytes

\* Zeros before the digits do not change the number.
Padded(h, d, z, m) == \A i \in 1..(z + m) : h[i] = IF i <= z THEN 0 ELSE d[i - z]

LEMMA LeadingZeros ==
  ASSUME NEW m \in Nat, NEW z \in Nat, NEW d \in [1..m -> Nat],
         NEW h \in [1..(z + m) -> Nat], Padded(h, d, z, m)
  PROVE  NumberOf(16, h) = NumberOf(16, d)
<1>0. \A i \in 1..(z + m) : h[i] = IF i <= z THEN 0 ELSE d[i - z]
  BY DEF Padded
<1>1. 16 \in {16, 256} /\ z + m \in Nat
  OBVIOUS
<1>2. PICK f : Adds(f, 16, d, m) /\ NumberOf(16, d) = f[m]
  BY <1>1, NumberAdds
<1> DEFINE g == [i \in 0..(z + m) |-> IF i <= z THEN 0 ELSE f[i - z]]
<1>3. Adds(g, 16, h, z + m)
  <2>1. f[0] = 0 /\ (\A i \in 0..m : f[i] \in Nat) /\ \A i \in 1..m : f[i] = 16 * f[i - 1] + d[i]
    BY <1>2 DEF Adds
  <2>2. \A i \in 0..(z + m) : ~(i <= z) => i - z \in 1..m /\ i - z \in 0..m
    OBVIOUS
  <2>3. g \in [0..(z + m) -> Nat] /\ g[0] = 0
    <3>1. 0 \in 0..(z + m) /\ 0 <= z /\ 0 \in Nat
      OBVIOUS
    <3> QED BY <2>1, <2>2, <3>1
  <2>4. ASSUME NEW i \in 1..(z + m) PROVE g[i] = 16 * g[i - 1] + h[i]
    <3>1. i \in 0..(z + m) /\ i - 1 \in 0..(z + m)
      OBVIOUS
    <3>2. CASE i <= z
      <4>1. g[i] = 0 /\ g[i - 1] = 0 /\ h[i] = 0
        BY <1>0, <3>1, <3>2
      <4> HIDE DEF g
      <4> QED BY <4>1
    <3>3. CASE i = z + 1
      <4>1. ~(i <= z) /\ i - z = 1 /\ i - 1 <= z /\ 1 \in 1..m /\ 1 - 1 = 0
        BY <3>3
      <4>2. g[i] = f[1] /\ g[i - 1] = 0 /\ h[i] = d[1]
        BY <1>0, <3>1, <4>1
      <4>3. f[1] = 16 * f[0] + d[1]
        BY <2>1, <4>1
      <4> HIDE DEF g
      <4> QED BY <2>1, <4>2, <4>3
    <3>4. CASE i > z + 1
      <4>1. ~(i <= z) /\ ~(i - 1 <= z) /\ i - z \in 1..m /\ (i - 1) - z = (i - z) - 1
        BY <3>4
      <4>2. g[i] = f[i - z] /\ g[i - 1] = f[(i - z) - 1] /\ h[i] = d[i - z]
        BY <1>0, <3>1, <4>1
      <4>3. f[i - z] = 16 * f[(i - z) - 1] + d[i - z]
        BY <2>1, <4>1
      <4> HIDE DEF g
      <4> QED BY <4>2, <4>3
    <3> QED BY <3>2, <3>3, <3>4
  <2> HIDE DEF g
  <2> QED BY <1>1, <2>3, <2>4 DEF Adds
<1>4. g[z + m] = f[m]
  <2>1. CASE m = 0
    <3>1. z + m <= z /\ z + m \in 0..(z + m)
      BY <2>1
    <3>2. f[m] = 0
      BY <1>2, <2>1 DEF Adds
    <3> QED BY <3>1, <3>2
  <2>2. CASE m # 0
    <3>1. ~(z + m <= z) /\ z + m \in 0..(z + m) /\ (z + m) - z = m
      BY <2>2
    <3> QED BY <3>1
  <2> QED BY <2>1, <2>2
<1> HIDE DEF g
<1>5. NumberOf(16, h) = g[z + m]
  BY <1>3, AddsTogether
<1> QED BY <1>2, <1>4, <1>5

\* setTarget drops the prefix and fills up with zeros.
LEMMA TargetDigits ==
  ASSUME NumBytes \in Nat \ {0}, NEW s \in Seq(HexCharacters), Len(s) <= 2 * NumBytes
  PROVE  LET target == Solver!SetTarget(Solver!Prefix0x \o s)
         IN /\ target \in [1..NumBytes -> 0..255]
            /\ NumberOf(256, target) = NumberOf(16, [i \in DOMAIN s |-> Solver!FromAscii(s[i])])
<1> DEFINE m == Len(s)
           z == 2 * NumBytes - m
           text == Solver!Prefix0x \o s
           zeros == [i \in 1..z |-> 48]
           hex == zeros \o s
           h == [i \in 1..(2 * NumBytes) |-> Solver!FromAscii(hex[i])]
           d == [i \in 1..m |-> Solver!FromAscii(s[i])]
           target == Solver!SetTarget(text)
<1>1. m \in Nat /\ DOMAIN s = 1..m /\ \A i \in 1..m : s[i] \in HexCharacters
  BY LenProperties, ElementOfSeq
<1>2. HexCharacters \subseteq Int /\ 48 \in HexCharacters
  BY DEF HexCharacters, Solver!Digits, Solver!SmallLetters, Solver!BigLetters
<1>3. z \in Nat /\ z + m = 2 * NumBytes /\ 2 * NumBytes \in Nat /\ (2 * NumBytes) \div 2 = NumBytes
  <2> HIDE DEF m
  <2>1. (2 * NumBytes) \div 2 = NumBytes
    OBVIOUS
  <2> QED BY <1>1, <2>1 DEF m
<1>4. s \in Seq(Int) /\ Solver!Prefix0x \in Seq(Int) /\ Len(Solver!Prefix0x) = 2
  <2>1. s \in Seq(Int)
    BY <1>2, SeqMonotonic
  <2>2. <<48, 120>> \in Seq(Int) /\ Len(<<48, 120>>) = 2
    OBVIOUS
  <2> QED BY <2>1, <2>2 DEF Solver!Prefix0x
<1>5. text \in Seq(Int) /\ Len(text) = 2 + m /\ \A i \in 1..m : text[i + 2] = s[i]
  <2>1. /\ text \in Seq(Int) /\ Len(text) = 2 + m
        /\ \A i \in 1..(2 + m) : text[i] = IF i <= 2 THEN Solver!Prefix0x[i] ELSE s[i - 2]
    <3> DEFINE p == Solver!Prefix0x
    <3> HIDE DEF p
    <3>1. p \in Seq(Int) /\ Len(p) = 2 /\ s \in Seq(Int)
      BY <1>4 DEF p
    <3>2. /\ p \o s \in Seq(Int) /\ Len(p \o s) = Len(p) + Len(s)
          /\ \A i \in 1..(Len(p) + Len(s)) : (p \o s)[i] = IF i <= Len(p) THEN p[i] ELSE s[i - Len(p)]
      BY <3>1, ConcatProperties, Zenon
    <3> QED BY <3>1, <3>2 DEF p
  <2> HIDE DEF text, m
  <2>2. \A i \in 1..m : i + 2 \in 1..(2 + m) /\ ~(i + 2 <= 2) /\ (i + 2) - 2 = i
    BY <1>1
  <2> QED BY <2>1, <2>2
<1> HIDE DEF m, z, text
<1>6. SubSeq(text, 3, Len(text)) = s
  <2> DEFINE u == SubSeq(text, 3, 2 + m)
  <2>1. \A i \in 3..(2 + m) : text[i] \in Int
    BY <1>1, <1>5, ElementOfSeq
  <2>2. /\ u \in Seq(Int) /\ Len(u) = IF 3 <= 2 + m THEN 2 + m - 3 + 1 ELSE 0
        /\ \A i \in 1..(2 + m - 3 + 1) : u[i] = text[3 + i - 1]
    <3> DEFINE S == Int
               from == 3
               to == 2 + m
    <3>1. from \in Int /\ to \in Int /\ \A i \in from..to : text[i] \in S
      BY <1>1, <2>1
    <3> HIDE DEF S, from, to
    <3>2. /\ SubSeq(text, from, to) \in Seq(S)
          /\ Len(SubSeq(text, from, to)) = IF from <= to THEN to - from + 1 ELSE 0
          /\ \A i \in 1..(to - from + 1) : SubSeq(text, from, to)[i] = text[from + i - 1]
      BY <3>1, SubSeqProperties
    <3> QED BY <1>1, <3>2 DEF S, from, to
  <2>3. 2 + m - 3 + 1 = m /\ (~(3 <= 2 + m) => m = 0) /\ \A i \in 1..m : 3 + i - 1 = i + 2
    BY <1>1
  <2> HIDE DEF u
  <2>4. Len(u) = m /\ \A i \in 1..m : u[i] = s[i]
    BY <1>5, <2>2, <2>3
  <2>5. u = s
    BY <1>4, <2>2, <2>4, SeqEqual DEF m
  <2> QED BY <1>5, <2>5 DEF u
<1>7. zeros \in Seq(HexCharacters) /\ Len(zeros) = z
  <2>1. zeros \in [1..z -> HexCharacters]
    BY <1>2
  <2> HIDE DEF zeros
  <2> QED BY <1>3, <2>1, FunctionIsSeq
<1>8. \A i \in 1..z : zeros[i] = 48
  OBVIOUS
<1> HIDE DEF zeros
<1>9. /\ hex \in Seq(HexCharacters) /\ Len(hex) = 2 * NumBytes
      /\ \A i \in 1..(2 * NumBytes) : hex[i] = IF i <= z THEN zeros[i] ELSE s[i - z]
  <2>1. /\ hex \in Seq(HexCharacters) /\ Len(hex) = Len(zeros) + Len(s)
        /\ \A i \in 1..(Len(zeros) + Len(s)) : hex[i] = IF i <= Len(zeros) THEN zeros[i] ELSE s[i - Len(zeros)]
    BY <1>7, ConcatProperties
  <2>2. Len(zeros) = z /\ Len(zeros) + Len(s) = 2 * NumBytes
    BY <1>3, <1>7 DEF m
  <2> HIDE DEF hex
  <2> QED BY <2>1, <2>2
<1> HIDE DEF hex
<1>10. target = Pairs(h, NumBytes)
  <2>1. 2 * NumBytes + 2 - Len(text) = z
    BY <1>1, <1>5 DEF z
  <2>2. target = Solver!HexToBytes(hex)
    BY <1>6, <2>1 DEF Solver!SetTarget, hex, zeros
  <2>3. \A j \in 1..NumBytes : 2 * j - 1 \in 1..(2 * NumBytes) /\ 2 * j \in 1..(2 * NumBytes)
    OBVIOUS
  <2>4. Solver!HexToBytes(hex) =
          [j \in 1..NumBytes |-> Solver!FromAscii(hex[2 * j - 1]) * 16 + Solver!FromAscii(hex[2 * j])]
    BY <1>3, <1>9 DEF Solver!HexToBytes
  <2> HIDE DEF target
  <2>5. \A j \in 1..NumBytes : h[2 * j - 1] = Solver!FromAscii(hex[2 * j - 1]) /\ h[2 * j] = Solver!FromAscii(hex[2 * j])
    BY <2>3
  <2> HIDE DEF h
  <2> QED BY <2>2, <2>4, <2>5 DEF Pairs
<1>11. \A i \in 1..(2 * NumBytes) : Solver!FromAscii(hex[i]) \in 0..15
  <2>1. \A i \in 1..(2 * NumBytes) : hex[i] \in HexCharacters
    BY <1>9, ElementOfSeq
  <2> QED BY <2>1, DigitsOf
<1>12. \A i \in 1..m : Solver!FromAscii(s[i]) \in 0..15
  BY <1>1, DigitsOf
<1>13. h \in [1..(2 * NumBytes) -> 0..15] /\ h \in [1..(z + m) -> Nat] /\ d \in [1..m -> Nat]
  <2>1. \A x \in 0..15 : x \in Nat
    OBVIOUS
  <2> QED BY <1>3, <1>11, <1>12, <2>1
<1>14. Padded(h, d, z, m)
  <2> SUFFICES ASSUME NEW i \in 1..(z + m) PROVE h[i] = IF i <= z THEN 0 ELSE d[i - z]
    BY Zenon DEF Padded
  <2>1. h[i] = Solver!FromAscii(hex[i]) /\ i \in 1..(2 * NumBytes)
    BY <1>3
  <2>2. CASE i <= z
    <3>1. i \in 1..z
      BY <1>1, <1>3, <2>2
    <3>2. hex[i] = 48
      BY <1>8, <1>9, <2>1, <2>2, <3>1
    <3> HIDE DEF h
    <3> QED BY <2>1, <2>2, <3>2, DigitsOf
  <2>3. CASE ~(i <= z)
    <3>1. i - z \in 1..m
      BY <1>1, <1>3, <2>3
    <3>2. hex[i] = s[i - z]
      BY <1>9, <2>1, <2>3
    <3>3. d[i - z] = Solver!FromAscii(s[i - z])
      BY <3>1
    <3> HIDE DEF h, d
    <3> QED BY <2>1, <2>3, <3>2, <3>3
  <2> QED BY <2>2, <2>3
<1>15. d = [i \in DOMAIN s |-> Solver!FromAscii(s[i])]
  BY <1>1
<1> HIDE DEF h, d, target
<1>16. NumberOf(16, h) = NumberOf(16, d)
  <2>1. m \in Nat /\ z \in Nat /\ d \in [1..m -> Nat] /\ h \in [1..(z + m) -> Nat]
    BY <1>1, <1>3, <1>13
  <2> QED BY <1>14, <2>1, LeadingZeros, ZenonT(60)
<1>17. target \in [1..NumBytes -> 0..255] /\ NumberOf(256, target) = NumberOf(16, h)
  <2>1. NumBytes \in Nat
    OBVIOUS
  <2> QED BY <1>10, <1>13, <2>1, PairsOfDigits, ZenonT(60)
<1> QED BY <1>15, <1>16, <1>17 DEF target, text

LEMMA TargetCorrect ==
  ASSUME IsInput
  PROVE  TargetIsItsNumber
<1> SUFFICES ASSUME Kind("target") PROVE TargetIsItsNumber
  BY DEF TargetIsItsNumber
<1> DEFINE target == Solver!SetTarget(Solver!Prefix0x \o Parts)
           number == NumberOf(16, [i \in DOMAIN Parts |-> Solver!FromAscii(Parts[i])])
<1>1. NumBytes \in Nat \ {0} /\ NumBytes \in Nat /\ Digests \subseteq [1..NumBytes -> 0..255]
  BY DigestAssumption
<1>2. Parts \in Seq(HexCharacters) /\ Len(Parts) <= 2 * NumBytes
  BY DEF IsInput
<1>3. target \in [1..NumBytes -> 0..255] /\ NumberOf(256, target) = number
  BY <1>1, <1>2, TargetDigits
<1> HIDE DEF target, number
<1>4. Len(target) = NumBytes
  BY <1>1, <1>3, FunctionIsSeq
<1>5. ASSUME NEW digest \in Digests
      PROVE  /\ Solver!Lte(digest, target) <=> NumberOf(256, digest) <= number
             /\ Solver!HexToBytes(Solver!BytesToString(digest)) = digest
  <2>1. digest \in [1..NumBytes -> 0..255]
    BY <1>1
  <2>2. Solver!Lte(digest, target) <=> NumberOf(256, digest) <= NumberOf(256, target)
    BY <1>1, <1>3, <2>1, LteIsLessOrEqual, ZenonT(60)
  <2>3. Solver!HexToBytes(Solver!BytesToString(digest)) = digest
    BY <1>1, <2>1, ReadBack
  <2> QED BY <1>3, <2>2, <2>3
<1> QED BY <1>4, <1>5 DEF TargetIsItsNumber, target, number

-----------------------------------------------------------------------------

\* Whatever the word, all forms of a rotation, of a shift, of a byte order and of a Boolean
\* table in the two cuda_helper.h are the operation they stand for; and whatever the
\* target and the digest, setTarget, lte and bytesToString keep the numbers they work on.
THEOREM WordsKeep ==
  ASSUME IsInput
  PROVE  WordsKeepTheirValue
<1>1. HelpersDoTheirOperation
  BY HelpersCorrect
<1>2. TargetIsItsNumber
  BY TargetCorrect
<1> QED BY <1>1, <1>2 DEF WordsKeepTheirValue

-----------------------------------------------------------------------------
(* Functions by recursion on a number.                                     *)

\* s[i] makes the i-th value of the one before it.
Recurs(f, n, V, z, s) == f \in [0..n -> V] /\ f[0] = z /\ \A i \in 1..n : f[i] = s[i][f[i - 1]]

Follows(g, n, V, z, s) == g[0] = z /\ \A i \in 1..n : g[i - 1] \in V => g[i] = s[i][g[i - 1]]

LEMMA ByRecursion ==
  ASSUME NEW n \in Nat, NEW V, NEW z \in V, NEW s \in [1..n -> [V -> V]]
  PROVE  \E f : Recurs(f, n, V, z, s)
<1> DEFINE S == {k \in 0..n : \E f : Recurs(f, k, V, z, s)}
<1>1. 0 \in S
  <2> DEFINE f == [i \in 0..0 |-> z]
  <2>1. Recurs(f, 0, V, z, s)
    BY DEF Recurs
  <2> HIDE DEF f
  <2> QED BY <2>1
<1>2. ASSUME NEW k \in 0..(n - 1), k \in S PROVE k + 1 \in S
  <2>1. PICK f : Recurs(f, k, V, z, s)
    BY <1>2
  <2> DEFINE g == [i \in 0..(k + 1) |-> IF i <= k THEN f[i] ELSE s[k + 1][f[k]]]
  <2>2. k + 1 \in 1..n /\ k + 1 \in 0..n /\ f[k] \in V /\ s[k + 1] \in [V -> V]
    <3>1. k + 1 \in 1..n /\ k \in 0..k
      OBVIOUS
    <3> QED BY <2>1, <3>1 DEF Recurs
  <2>3. s[k + 1][f[k]] \in V
    BY <2>2
  <2>4. g \in [0..(k + 1) -> V]
    BY <2>1, <2>3 DEF Recurs
  <2>5. g[0] = z
    BY <2>1 DEF Recurs
  <2>6. ASSUME NEW i \in 1..(k + 1) PROVE g[i] = s[i][g[i - 1]]
    <3>1. CASE i <= k
      <4>1. g[i] = f[i] /\ g[i - 1] = f[i - 1] /\ i \in 1..k
        BY <3>1
      <4> HIDE DEF g
      <4> QED BY <2>1, <4>1 DEF Recurs
    <3>2. CASE i = k + 1
      <4>1. g[i] = s[k + 1][f[k]] /\ g[i - 1] = f[k]
        BY <3>2
      <4> HIDE DEF g
      <4> QED BY <3>2, <4>1
    <3> QED BY <3>1, <3>2
  <2> HIDE DEF g
  <2>7. Recurs(g, k + 1, V, z, s)
    BY <2>4, <2>5, <2>6 DEF Recurs
  <2> QED BY <2>2, <2>7
<1> HIDE DEF S
<1>3. n \in S
  <2>1. 0..n \subseteq S
    BY <1>1, <1>2, Induct
  <2> QED BY <2>1
<1> QED BY <1>3 DEF S

LEMMA SameRecursion ==
  ASSUME NEW n \in Nat, NEW V, NEW z \in V, NEW s \in [1..n -> [V -> V]], NEW f, Recurs(f, n, V, z, s),
         NEW g, Follows(g, n, V, z, s)
  PROVE  \A i \in 0..n : g[i] = f[i]
<1> DEFINE S == {k \in 0..n : g[k] = f[k]}
<1>1. 0 \in S
  BY DEF Recurs, Follows
<1>2. ASSUME NEW k \in 0..(n - 1), k \in S PROVE k + 1 \in S
  <2>1. k + 1 \in 1..n /\ (k + 1) - 1 = k /\ g[k] = f[k] /\ k \in 0..n /\ k + 1 \in 0..n
    BY <1>2
  <2>2. f[k] \in V /\ f[k + 1] = s[k + 1][f[k]]
    BY <2>1 DEF Recurs
  <2>3. g[k + 1] = s[k + 1][g[k]]
    BY <2>1, <2>2 DEF Follows
  <2> QED BY <2>1, <2>2, <2>3
<1> HIDE DEF S
<1>3. 0..n \subseteq S
  BY <1>1, <1>2, Induct
<1> QED BY <1>3 DEF S

-----------------------------------------------------------------------------
(* The addition of words.                                                  *)

\* The carries of a sum, into each of its bits.
Carries(c, a, b) ==
  /\ c \in [0..31 -> {0, 1}] /\ c[0] = 0
  /\ \A i \in 1..31 : c[i] = (Bit(a, i - 1) + Bit(b, i - 1) + c[i - 1]) \div 2

LEMMA AddCarries ==
  ASSUME NEW a, NEW b
  PROVE  \E c : Carries(c, a, b) /\ Add(a, b) = {i \in 0..31 : (Bit(a, i) + Bit(b, i) + c[i]) % 2 = 1}
<1> DEFINE In(i, c) == (Bit(a, i - 1) + Bit(b, i - 1) + c) \div 2
           body(f, i) == IF i = 0 THEN 0 ELSE In(i, f[i - 1])
           carry == CHOOSE f : f = [i \in 0..31 |-> body(f, i)]
           s == [i \in 1..31 |-> [c \in {0, 1} |-> In(i, c)]]
<1>1. Add(a, b) = {i \in 0..31 : (Bit(a, i) + Bit(b, i) + carry[i]) % 2 = 1}
  BY DEF Add
<1>2. \A i : Bit(a, i) \in {0, 1} /\ Bit(b, i) \in {0, 1}
  BY DEF Bit
<1>3. \A i \in 1..31 : \A c \in {0, 1} : In(i, c) \in {0, 1}
  BY <1>2
<1>4. s \in [1..31 -> [{0, 1} -> {0, 1}]]
  <2> DEFINE row(i) == [c \in {0, 1} |-> In(i, c)]
  <2>1. \A i \in 1..31 : row(i) \in [{0, 1} -> {0, 1}]
    <3> HIDE DEF In
    <3> QED BY <1>3
  <2> HIDE DEF row
  <2>2. [i \in 1..31 |-> row(i)] \in [1..31 -> [{0, 1} -> {0, 1}]]
    BY <2>1
  <2> QED BY <2>2 DEF row
<1> HIDE DEF In
<1>5. \A i \in 1..31 : \A c \in {0, 1} : s[i][c] = In(i, c)
  OBVIOUS
<1> HIDE DEF s
<1>6. PICK f : Recurs(f, 31, {0, 1}, 0, s)
  BY <1>4, ByRecursion
<1>7. f = [i \in 0..31 |-> body(f, i)]
  <2>1. f[0] = body(f, 0) /\ f \in [0..31 -> {0, 1}]
    BY <1>6 DEF Recurs
  <2>2. ASSUME NEW i \in 1..31 PROVE f[i] = body(f, i)
    <3>1. f[i] = s[i][f[i - 1]] /\ f[i - 1] \in {0, 1}
      BY <1>6 DEF Recurs
    <3>2. s[i][f[i - 1]] = In(i, f[i - 1])
      BY <1>5, <3>1
    <3> QED BY <3>1, <3>2
  <2>3. \A i \in 0..31 : f[i] = body(f, i)
    BY <2>1, <2>2
  <2>4. f = [i \in 0..31 |-> f[i]]
    BY <2>1
  <2> HIDE DEF body
  <2> QED BY <2>3, <2>4
<1>8. carry = [i \in 0..31 |-> body(carry, i)]
  <2> HIDE DEF body
  <2> QED BY <1>7
<1> HIDE DEF carry
<1>9. carry[0] = 0 /\ \A i \in 1..31 : carry[i] = In(i, carry[i - 1])
  BY <1>8
<1>10. \A i \in 1..31 : carry[i - 1] \in {0, 1} => carry[i] = s[i][carry[i - 1]]
  BY <1>5, <1>9
<1>11. \A i \in 0..31 : carry[i] = f[i]
  <2> DEFINE V == {0, 1}
             n == 31
             z == 0
  <2>1. n \in Nat /\ z \in V /\ s \in [1..n -> [V -> V]] /\ Recurs(f, n, V, z, s) /\ Follows(carry, n, V, z, s)
    BY <1>4, <1>6, <1>9, <1>10 DEF Follows
  <2> HIDE DEF V, n, z
  <2>2. \A i \in 0..n : carry[i] = f[i]
    BY <2>1, SameRecursion
  <2> QED BY <2>2 DEF n
<1>12. carry \in [0..31 -> {0, 1}]
  <2>1. carry = [i \in 0..31 |-> carry[i]]
    <3> HIDE DEF body
    <3> QED BY <1>8
  <2>2. \A i \in 0..31 : carry[i] \in {0, 1}
    BY <1>6, <1>11 DEF Recurs
  <2> QED BY <2>1, <2>2
<1>13. Carries(carry, a, b)
  BY <1>9, <1>12 DEF Carries, In
<1> QED BY <1>1, <1>13

\* The number that the highest bits of a half are, and a number halved again and again.
Number(f, x, from) ==
  /\ f \in [0..16 -> Nat] /\ f[0] = 0
  /\ \A i \in 1..16 : f[i] = 2 * f[i - 1] + Bit(x, from + 16 - i)
Halved(f, m) ==
  /\ f \in [0..16 -> Nat] /\ f[0] = m
  /\ \A i \in 1..16 : f[i] = f[i - 1] \div 2

LEMMA HalfAdds ==
  ASSUME NEW x, NEW from \in {0, 16}
  PROVE  \E f : Number(f, x, from) /\ Fips!Half(x, from) = f[16]
<1> DEFINE In(i, c) == 2 * c + (IF from + 16 - i \in x THEN 1 ELSE 0)
           body(f, i) == IF i = 0 THEN 0 ELSE In(i, f[i - 1])
           number == CHOOSE f : f = [i \in 0..16 |-> body(f, i)]
           s == [i \in 1..16 |-> [c \in Nat |-> In(i, c)]]
<1>1. Fips!Half(x, from) = number[16]
  BY DEF Fips!Half
<1>2. \A i \in 1..16 : \A c \in Nat : In(i, c) \in Nat
  OBVIOUS
<1>3. s \in [1..16 -> [Nat -> Nat]]
  <2> DEFINE row(i) == [c \in Nat |-> In(i, c)]
  <2>1. \A i \in 1..16 : row(i) \in [Nat -> Nat]
    <3> HIDE DEF In
    <3> QED BY <1>2
  <2> HIDE DEF row
  <2>2. [i \in 1..16 |-> row(i)] \in [1..16 -> [Nat -> Nat]]
    BY <2>1
  <2> QED BY <2>2 DEF row
<1> HIDE DEF In
<1>4. \A i \in 1..16 : \A c \in Nat : s[i][c] = In(i, c)
  OBVIOUS
<1> HIDE DEF s
<1>5. PICK f : Recurs(f, 16, Nat, 0, s)
  BY <1>3, ByRecursion
<1>6. f = [i \in 0..16 |-> body(f, i)]
  <2>1. f[0] = body(f, 0) /\ f \in [0..16 -> Nat]
    BY <1>5 DEF Recurs
  <2>2. ASSUME NEW i \in 1..16 PROVE f[i] = body(f, i)
    <3>1. f[i] = s[i][f[i - 1]] /\ f[i - 1] \in Nat
      BY <1>5 DEF Recurs
    <3>2. s[i][f[i - 1]] = In(i, f[i - 1])
      BY <1>4, <3>1
    <3> QED BY <3>1, <3>2
  <2>3. \A i \in 0..16 : f[i] = body(f, i)
    BY <2>1, <2>2
  <2>4. f = [i \in 0..16 |-> f[i]]
    BY <2>1
  <2> HIDE DEF body
  <2> QED BY <2>3, <2>4
<1>7. number = [i \in 0..16 |-> body(number, i)]
  <2> HIDE DEF body
  <2> QED BY <1>6
<1> HIDE DEF number
<1>8. number[0] = 0 /\ \A i \in 1..16 : number[i] = In(i, number[i - 1])
  BY <1>7
<1>9. \A i \in 0..16 : number[i] = f[i]
  <2> DEFINE n == 16
             z == 0
             V == Nat
  <2>1. n \in Nat /\ z \in V /\ s \in [1..n -> [V -> V]] /\ Recurs(f, n, V, z, s) /\ Follows(number, n, V, z, s)
    BY <1>3, <1>4, <1>5, <1>8 DEF Follows
  <2> HIDE DEF n, z, V
  <2>2. \A i \in 0..n : number[i] = f[i]
    BY <2>1, SameRecursion, SMTT(30)
  <2> QED BY <2>2 DEF n
<1>10. number \in [0..16 -> Nat]
  <2>1. number = [i \in 0..16 |-> number[i]]
    <3> HIDE DEF body
    <3> QED BY <1>7
  <2>2. \A i \in 0..16 : number[i] \in Nat
    BY <1>5, <1>9 DEF Recurs
  <2> QED BY <2>1, <2>2
<1>11. Number(number, x, from)
  BY <1>8, <1>10 DEF Number, In, Bit
<1> QED BY <1>1, <1>11

LEMMA RestHalves ==
  ASSUME NEW m \in Nat
  PROVE  Halved(Fips!Rest(m), m)
<1> DEFINE In(i, c) == c \div 2
           body(f, i) == IF i = 0 THEN m ELSE In(i, f[i - 1])
           number == CHOOSE f : f = [i \in 0..16 |-> body(f, i)]
           s == [i \in 1..16 |-> [c \in Nat |-> In(i, c)]]
<1>1. Fips!Rest(m) = number
  BY DEF Fips!Rest
<1>2. \A i \in 1..16 : \A c \in Nat : In(i, c) \in Nat
  OBVIOUS
<1>3. s \in [1..16 -> [Nat -> Nat]]
  <2> DEFINE row(i) == [c \in Nat |-> In(i, c)]
  <2>1. \A i \in 1..16 : row(i) \in [Nat -> Nat]
    <3> HIDE DEF In
    <3> QED BY <1>2
  <2> HIDE DEF row
  <2>2. [i \in 1..16 |-> row(i)] \in [1..16 -> [Nat -> Nat]]
    BY <2>1
  <2> QED BY <2>2 DEF row
<1> HIDE DEF In
<1>4. \A i \in 1..16 : \A c \in Nat : s[i][c] = In(i, c)
  OBVIOUS
<1> HIDE DEF s
<1>5. PICK f : Recurs(f, 16, Nat, m, s)
  BY <1>3, ByRecursion
<1>6. f = [i \in 0..16 |-> body(f, i)]
  <2>1. f[0] = body(f, 0) /\ f \in [0..16 -> Nat]
    BY <1>5 DEF Recurs
  <2>2. ASSUME NEW i \in 1..16 PROVE f[i] = body(f, i)
    <3>1. f[i] = s[i][f[i - 1]] /\ f[i - 1] \in Nat
      BY <1>5 DEF Recurs
    <3>2. s[i][f[i - 1]] = In(i, f[i - 1])
      BY <1>4, <3>1
    <3> QED BY <3>1, <3>2
  <2>3. \A i \in 0..16 : f[i] = body(f, i)
    BY <2>1, <2>2
  <2>4. f = [i \in 0..16 |-> f[i]]
    BY <2>1
  <2> HIDE DEF body
  <2> QED BY <2>3, <2>4
<1>7. number = [i \in 0..16 |-> body(number, i)]
  <2> HIDE DEF body
  <2> QED BY <1>6
<1> HIDE DEF number
<1>8. number[0] = m /\ \A i \in 1..16 : number[i] = In(i, number[i - 1])
  BY <1>7
<1>9. \A i \in 0..16 : number[i] = f[i]
  <2> DEFINE n == 16
             z == m
             V == Nat
  <2>1. n \in Nat /\ z \in V /\ s \in [1..n -> [V -> V]] /\ Recurs(f, n, V, z, s) /\ Follows(number, n, V, z, s)
    BY <1>3, <1>4, <1>5, <1>8 DEF Follows
  <2> HIDE DEF n, z, V
  <2>2. \A i \in 0..n : number[i] = f[i]
    BY <2>1, SameRecursion, SMTT(30)
  <2> QED BY <2>2 DEF n
<1>10. number \in [0..16 -> Nat]
  <2>1. number = [i \in 0..16 |-> number[i]]
    <3> HIDE DEF body
    <3> QED BY <1>7
  <2>2. \A i \in 0..16 : number[i] \in Nat
    BY <1>5, <1>9 DEF Recurs
  <2> QED BY <2>1, <2>2
<1>11. Halved(number, m)
  BY <1>8, <1>10 DEF Halved, In
<1> QED BY <1>1, <1>11

\* The two halves of a sum, halved: what is above a bit, and the carry into it.
LEMMA SumHalves ==
  ASSUME NEW x, NEW y, NEW c, Carries(c, x, y), NEW from \in {0, 16},
         NEW f, Number(f, x, from), NEW g, Number(g, y, from),
         NEW h, Halved(h, f[16] + g[16] + c[from])
  PROVE  /\ \A k \in 0..15 : h[k] = f[16 - k] + g[16 - k] + c[from + k]
         /\ \A k \in 0..15 : h[k] % 2 = (Bit(x, from + k) + Bit(y, from + k) + c[from + k]) % 2
         /\ h[16] = (Bit(x, from + 15) + Bit(y, from + 15) + c[from + 15]) \div 2
<1>0. \A i : Bit(x, i) \in {0, 1} /\ Bit(y, i) \in {0, 1}
  BY DEF Bit
<1> DEFINE Above(k) == f[16 - k] + g[16 - k] + c[from + k]
           Here(k) == Bit(x, from + k) + Bit(y, from + k) + c[from + k]
<1>1. ASSUME NEW k \in 0..15
      PROVE  /\ Above(k) = 2 * (f[15 - k] + g[15 - k]) + Here(k)
             /\ f[15 - k] \in Nat /\ g[15 - k] \in Nat /\ Here(k) \in 0..3 /\ Above(k) \in Nat
  <2>1. 16 - k \in 1..16 /\ (16 - k) - 1 = 15 - k /\ from + 16 - (16 - k) = from + k /\ 15 - k \in 0..16
    OBVIOUS
  <2>2. f[16 - k] = 2 * f[15 - k] + Bit(x, from + k) /\ f[15 - k] \in Nat
    BY <2>1 DEF Number
  <2>3. g[16 - k] = 2 * g[15 - k] + Bit(y, from + k) /\ g[15 - k] \in Nat
    BY <2>1 DEF Number
  <2>4. c[from + k] \in {0, 1}
    BY DEF Carries
  <2> QED BY <1>0, <2>2, <2>3, <2>4
<1>2. ASSUME NEW k \in 0..15, h[k] = Above(k)
      PROVE  h[k + 1] = f[15 - k] + g[15 - k] + (Here(k) \div 2)
  <2>1. k + 1 \in 1..16 /\ (k + 1) - 1 = k
    OBVIOUS
  <2>2. h[k + 1] = h[k] \div 2
    BY <2>1 DEF Halved
  <2>3. \A u \in Nat, w \in 0..3 : (2 * u + w) \div 2 = u + (w \div 2)
    OBVIOUS
  <2>4. f[15 - k] + g[15 - k] \in Nat /\ Here(k) \in 0..3
    BY <1>1
  <2>5. h[k] = 2 * (f[15 - k] + g[15 - k]) + Here(k)
    BY <1>1, <1>2
  <2> HIDE DEF Here
  <2> QED BY <2>2, <2>3, <2>4, <2>5
<1>3. ASSUME NEW k \in 0..14 PROVE c[from + (k + 1)] = Here(k) \div 2
  <2>1. from + (k + 1) \in 1..31 /\ (from + (k + 1)) - 1 = from + k
    OBVIOUS
  <2> QED BY <2>1 DEF Carries
<1> DEFINE S == {k \in 0..15 : h[k] = Above(k)}
<1>4. 0 \in S
  BY DEF Halved
<1>5. ASSUME NEW k \in 0..(15 - 1), k \in S PROVE k + 1 \in S
  <2>1. k \in 0..15 /\ k \in 0..14 /\ k + 1 \in 0..15 /\ h[k] = Above(k)
    BY <1>5
  <2>2. h[k + 1] = f[15 - k] + g[15 - k] + (Here(k) \div 2)
    BY <1>2, <2>1
  <2>3. c[from + (k + 1)] = Here(k) \div 2
    BY <1>3, <2>1
  <2>4. 16 - (k + 1) = 15 - k
    OBVIOUS
  <2>5. h[k + 1] = Above(k + 1)
    <3> HIDE DEF Here
    <3> QED BY <2>2, <2>3, <2>4
  <2> HIDE DEF Above
  <2> QED BY <2>1, <2>5
<1> HIDE DEF S
<1>6. 0..15 \subseteq S
  BY <1>4, <1>5, Induct
<1>7. \A k \in 0..15 : h[k] = Above(k)
  BY <1>6 DEF S
<1>8. ASSUME NEW k \in 0..15 PROVE h[k] % 2 = Here(k) % 2
  <2>1. \A u \in Nat, w \in 0..3 : (2 * u + w) % 2 = w % 2
    OBVIOUS
  <2>2. f[15 - k] + g[15 - k] \in Nat /\ Here(k) \in 0..3
    BY <1>1
  <2>3. h[k] = 2 * (f[15 - k] + g[15 - k]) + Here(k)
    BY <1>1, <1>7
  <2> HIDE DEF Here
  <2> QED BY <2>1, <2>2, <2>3
<1>9. h[16] = Here(15) \div 2
  <2>1. 15 \in 0..15 /\ h[15] = Above(15)
    BY <1>7
  <2>2. h[15 + 1] = f[15 - 15] + g[15 - 15] + (Here(15) \div 2)
    BY <1>2, <2>1
  <2>3. f[0] = 0 /\ g[0] = 0
    BY DEF Number
  <2>4. Here(15) \div 2 \in Nat
    BY <1>1, <2>1
  <2> HIDE DEF Here
  <2> QED BY <2>2, <2>3, <2>4
<1> QED BY <1>7, <1>8, <1>9

\* The sum bit after bit is the sum of the numbers modulo 2^32.
LEMMA PlusIsAdd ==
  ASSUME NEW x, NEW y
  PROVE  Fips!Plus(x, y) = Add(x, y) /\ Add(x, y) \subseteq 0..31
<1>1. PICK c : Carries(c, x, y) /\ Add(x, y) = {i \in 0..31 : (Bit(x, i) + Bit(y, i) + c[i]) % 2 = 1}
  BY AddCarries
<1>2. PICK fl : Number(fl, x, 0) /\ Fips!Half(x, 0) = fl[16]
  BY HalfAdds
<1>3. PICK gl : Number(gl, y, 0) /\ Fips!Half(y, 0) = gl[16]
  BY HalfAdds
<1>4. PICK fh : Number(fh, x, 16) /\ Fips!Half(x, 16) = fh[16]
  BY HalfAdds
<1>5. PICK gh : Number(gh, y, 16) /\ Fips!Half(y, 16) = gh[16]
  BY HalfAdds
<1> DEFINE low == Fips!Half(x, 0) + Fips!Half(y, 0)
           high == Fips!Half(x, 16) + Fips!Half(y, 16) + Fips!Rest(low)[16]
<1>6. Fips!Plus(x, y) = Fips!Bits(low) \cup {b + 16 : b \in Fips!Bits(high)}
  BY DEF Fips!Plus
<1>7. low \in Nat /\ low = fl[16] + gl[16] + c[0]
  BY <1>1, <1>2, <1>3 DEF Number, Carries
<1> HIDE DEF low
<1>8. Halved(Fips!Rest(low), low)
  BY <1>7, RestHalves
<1>9. /\ \A k \in 0..15 : Fips!Rest(low)[k] % 2 = (Bit(x, k) + Bit(y, k) + c[k]) % 2
      /\ Fips!Rest(low)[16] = (Bit(x, 15) + Bit(y, 15) + c[15]) \div 2
  <2> DEFINE from == 0
  <2>1. /\ from \in {0, 16} /\ Number(fl, x, from) /\ Number(gl, y, from) /\ Carries(c, x, y)
        /\ Halved(Fips!Rest(low), fl[16] + gl[16] + c[from])
    BY <1>1, <1>2, <1>3, <1>7, <1>8
  <2> HIDE DEF from
  <2>2. /\ \A k \in 0..15 : Fips!Rest(low)[k] % 2 = (Bit(x, from + k) + Bit(y, from + k) + c[from + k]) % 2
        /\ Fips!Rest(low)[16] = (Bit(x, from + 15) + Bit(y, from + 15) + c[from + 15]) \div 2
    BY <2>1, SumHalves
  <2> QED BY <2>2 DEF from
<1>10. Fips!Rest(low)[16] = c[16]
  <2>1. c[16] = (Bit(x, 16 - 1) + Bit(y, 16 - 1) + c[16 - 1]) \div 2
    BY <1>1 DEF Carries
  <2> QED BY <1>9, <2>1
<1>11. high \in Nat /\ high = fh[16] + gh[16] + c[16]
  BY <1>1, <1>4, <1>5, <1>10 DEF Number, Carries
<1> HIDE DEF high
<1>12. Halved(Fips!Rest(high), high)
  BY <1>11, RestHalves
<1>13. \A k \in 0..15 : Fips!Rest(high)[k] % 2 = (Bit(x, 16 + k) + Bit(y, 16 + k) + c[16 + k]) % 2
  <2> DEFINE from == 16
  <2>1. /\ from \in {0, 16} /\ Number(fh, x, from) /\ Number(gh, y, from) /\ Carries(c, x, y)
        /\ Halved(Fips!Rest(high), fh[16] + gh[16] + c[from])
    BY <1>1, <1>4, <1>5, <1>11, <1>12
  <2> HIDE DEF from
  <2>2. \A k \in 0..15 : Fips!Rest(high)[k] % 2 = (Bit(x, from + k) + Bit(y, from + k) + c[from + k]) % 2
    BY <2>1, SumHalves
  <2> QED BY <2>2 DEF from
<1> DEFINE One(i) == (Bit(x, i) + Bit(y, i) + c[i]) % 2 = 1
<1>14. Fips!Bits(low) = {k \in 0..15 : One(k)} /\ Fips!Bits(high) = {k \in 0..15 : One(16 + k)}
  BY <1>9, <1>13 DEF Fips!Bits
<1> HIDE DEF One
<1>15. {b + 16 : b \in {k \in 0..15 : One(16 + k)}} = {i \in 16..31 : One(i)}
  <2>1. ASSUME NEW i \in 16..31, One(i) PROVE i \in {b + 16 : b \in {k \in 0..15 : One(16 + k)}}
    <3>1. i - 16 \in 0..15 /\ 16 + (i - 16) = i /\ (i - 16) + 16 = i
      OBVIOUS
    <3>2. i - 16 \in {k \in 0..15 : One(16 + k)}
      BY <2>1, <3>1
    <3> QED BY <3>1, <3>2
  <2>2. ASSUME NEW k \in 0..15, One(16 + k) PROVE k + 16 \in {i \in 16..31 : One(i)}
    <3>1. k + 16 \in 16..31 /\ k + 16 = 16 + k
      OBVIOUS
    <3> QED BY <2>2, <3>1
  <2> QED BY <2>1, <2>2
<1>16. Add(x, y) = {i \in 0..31 : One(i)}
  BY <1>1 DEF One
<1>17. {i \in 0..31 : One(i)} = {k \in 0..15 : One(k)} \cup {i \in 16..31 : One(i)}
  OBVIOUS
<1> QED BY <1>6, <1>14, <1>15, <1>16, <1>17

-----------------------------------------------------------------------------
(* The functions of a round.                                               *)

LEMMA RotrIsRot ==
  ASSUME NEW x, x \subseteq 0..31, NEW n \in 1..31
  PROVE  Rotr(x, n) = Fips!Rot(x, n)
<1>1. ASSUME NEW b \in x PROVE (b + 32 - n) % 32 \in Fips!Rot(x, n)
  <2>1. b \in 0..31
    OBVIOUS
  <2>2. (b + 32 - n) % 32 = IF b < n THEN b + 32 - n ELSE b - n
    BY <2>1
  <2>3. (((b + 32 - n) % 32) + n) % 32 = b /\ (b + 32 - n) % 32 \in 0..31
    BY <2>1, <2>2
  <2> QED BY <2>3 DEF Fips!Rot
<1>2. ASSUME NEW b \in Fips!Rot(x, n) PROVE b \in Rotr(x, n)
  <2>1. b \in 0..31 /\ (b + n) % 32 \in x
    BY <1>2 DEF Fips!Rot
  <2>2. (b + n) % 32 = IF b + n < 32 THEN b + n ELSE b + n - 32
    BY <2>1, SMTT(30)
  <2>3. (((b + n) % 32) + 32 - n) % 32 = b
    BY <2>1, <2>2
  <2> QED BY <2>1, <2>3 DEF Rotr
<1> QED BY <1>1, <1>2 DEF Rotr

LEMMA ShrIsShift ==
  ASSUME NEW x, x \subseteq 0..31, NEW n \in 1..31
  PROVE  Shr(x, n) = Fips!Shift(x, n)
<1>1. ASSUME NEW b \in x, b >= n PROVE b - n \in Fips!Shift(x, n)
  <2>1. b - n \in 0..31 /\ (b - n) + n = b
    BY <1>1
  <2> QED BY <2>1 DEF Fips!Shift
<1>2. ASSUME NEW b \in Fips!Shift(x, n) PROVE b \in Shr(x, n)
  <2>1. b + n \in x /\ b + n >= n /\ (b + n) - n = b
    BY <1>2 DEF Fips!Shift
  <2> QED BY <2>1 DEF Shr
<1> QED BY <1>1, <1>2 DEF Shr

LEMMA XorIsOdd ==
  ASSUME NEW a, NEW b, NEW c, a \subseteq 0..31, b \subseteq 0..31, c \subseteq 0..31
  PROVE  Xor(Xor(a, b), c) = Fips!Odd(a, b, c)
<1>1. \A i : i \in Xor(Xor(a, b), c) <=> i \in 0..31 /\ ((i \in a <=> i \in b) <=> i \in c)
  BY DEF Xor
<1> QED BY <1>1 DEF Fips!Odd

LEMMA RotType ==
  ASSUME NEW x, NEW n
  PROVE  Fips!Rot(x, n) \subseteq 0..31 /\ Fips!Shift(x, n) \subseteq 0..31
BY DEF Fips!Rot, Fips!Shift

LEMMA SigmasAgree ==
  ASSUME NEW x, x \subseteq 0..31
  PROVE  /\ bsg2_0(x) = Fips!Sigma0(x) /\ bsg2_1(x) = Fips!Sigma1(x)
         /\ ssg2_0(x) = Fips!sigma0(x) /\ ssg2_1(x) = Fips!sigma1(x)
<1>1. ASSUME NEW k \in 1..31, NEW m \in 1..31, NEW n \in 1..31
      PROVE  Xor(Xor(Rotr(x, k), Rotr(x, m)), Rotr(x, n)) = Fips!Odd(Fips!Rot(x, k), Fips!Rot(x, m), Fips!Rot(x, n))
  <2>1. Rotr(x, k) = Fips!Rot(x, k) /\ Rotr(x, m) = Fips!Rot(x, m) /\ Rotr(x, n) = Fips!Rot(x, n)
    BY RotrIsRot
  <2>2. Fips!Rot(x, k) \subseteq 0..31 /\ Fips!Rot(x, m) \subseteq 0..31 /\ Fips!Rot(x, n) \subseteq 0..31
    BY RotType
  <2> QED BY <2>1, <2>2, XorIsOdd
<1>2. ASSUME NEW k \in 1..31, NEW m \in 1..31, NEW n \in 1..31
      PROVE  Xor(Xor(Rotr(x, k), Rotr(x, m)), Shr(x, n)) = Fips!Odd(Fips!Rot(x, k), Fips!Rot(x, m), Fips!Shift(x, n))
  <2>1. Rotr(x, k) = Fips!Rot(x, k) /\ Rotr(x, m) = Fips!Rot(x, m) /\ Shr(x, n) = Fips!Shift(x, n)
    BY RotrIsRot, ShrIsShift
  <2>2. Fips!Rot(x, k) \subseteq 0..31 /\ Fips!Rot(x, m) \subseteq 0..31 /\ Fips!Shift(x, n) \subseteq 0..31
    BY RotType
  <2> QED BY <2>1, <2>2, XorIsOdd
<1>3. bsg2_0(x) = Fips!Sigma0(x)
  <2>1. 2 \in 1..31 /\ 13 \in 1..31 /\ 22 \in 1..31
    OBVIOUS
  <2>2. Xor(Xor(Rotr(x, 2), Rotr(x, 13)), Rotr(x, 22)) = Fips!Odd(Fips!Rot(x, 2), Fips!Rot(x, 13), Fips!Rot(x, 22))
    BY <1>1, <2>1
  <2> QED BY <2>2 DEF bsg2_0, Fips!Sigma0
<1>4. bsg2_1(x) = Fips!Sigma1(x)
  <2>1. 6 \in 1..31 /\ 11 \in 1..31 /\ 25 \in 1..31
    OBVIOUS
  <2>2. Xor(Xor(Rotr(x, 6), Rotr(x, 11)), Rotr(x, 25)) = Fips!Odd(Fips!Rot(x, 6), Fips!Rot(x, 11), Fips!Rot(x, 25))
    BY <1>1, <2>1
  <2> QED BY <2>2 DEF bsg2_1, Fips!Sigma1
<1>5. ssg2_0(x) = Fips!sigma0(x)
  <2>1. 7 \in 1..31 /\ 18 \in 1..31 /\ 3 \in 1..31
    OBVIOUS
  <2>2. Xor(Xor(Rotr(x, 7), Rotr(x, 18)), Shr(x, 3)) = Fips!Odd(Fips!Rot(x, 7), Fips!Rot(x, 18), Fips!Shift(x, 3))
    BY <1>2, <2>1
  <2> QED BY <2>2 DEF ssg2_0, Fips!sigma0
<1>6. ssg2_1(x) = Fips!sigma1(x)
  <2>1. 17 \in 1..31 /\ 19 \in 1..31 /\ 10 \in 1..31
    OBVIOUS
  <2>2. Xor(Xor(Rotr(x, 17), Rotr(x, 19)), Shr(x, 10)) = Fips!Odd(Fips!Rot(x, 17), Fips!Rot(x, 19), Fips!Shift(x, 10))
    BY <1>2, <2>1
  <2> QED BY <2>2 DEF ssg2_1, Fips!sigma1
<1> QED BY <1>3, <1>4, <1>5, <1>6

LEMMA ChoicesAgree ==
  ASSUME NEW a, NEW b, NEW c, a \subseteq 0..31, b \subseteq 0..31, c \subseteq 0..31
  PROVE  xandx(a, b, c) = Fips!Ch(a, b, c) /\ andor32(a, b, c) = Fips!Maj(a, b, c)
<1>1. \A i : i \in xandx(a, b, c) <=> i \in 0..31 /\ (IF i \in a THEN i \in b ELSE i \in c)
  BY DEF xandx, Xor
<1>2. \A i : i \in andor32(a, b, c) <=> i \in 0..31 /\ ((i \in a /\ i \in b) \/ (i \in a /\ i \in c) \/ (i \in b /\ i \in c))
  BY DEF andor32
<1> QED BY <1>1, <1>2 DEF Fips!Ch, Fips!Maj

\* Swapping the bytes of a word twice changes nothing.
LEMMA SwabTwice ==
  ASSUME NEW x, x \subseteq 0..31
  PROVE  Swab(Swab(x)) = x /\ Swab(x) \subseteq 0..31
<1> DEFINE Turn(b) == 8 * (3 - (b \div 8)) + (b % 8)
<1>1. ASSUME NEW b \in 0..31 PROVE Turn(b) \in 0..31 /\ Turn(Turn(b)) = b
  <2>1. b \div 8 \in 0..3 /\ b % 8 \in 0..7 /\ b = 8 * (b \div 8) + (b % 8)
    OBVIOUS
  <2>2. Turn(b) \in 0..31 /\ Turn(b) \div 8 = 3 - (b \div 8) /\ Turn(b) % 8 = b % 8
    <3>1. \A q \in 0..3, r \in 0..7 :
            /\ 8 * (3 - q) + r \in 0..31 /\ (8 * (3 - q) + r) \div 8 = 3 - q /\ (8 * (3 - q) + r) % 8 = r
      OBVIOUS
    <3> QED BY <2>1, <3>1
  <2> DEFINE t == Turn(b)
  <2>3. Turn(t) = 8 * (3 - (t \div 8)) + (t % 8)
    OBVIOUS
  <2>4. t \in 0..31 /\ t \div 8 = 3 - (b \div 8) /\ t % 8 = b % 8
    BY <2>2
  <2>5. Turn(t) = b
    <3> HIDE DEF t
    <3> QED BY <2>1, <2>3, <2>4
  <2> QED BY <2>2, <2>5
<1>2. \A a : Swab(a) = {Turn(b) : b \in a}
  BY DEF Swab
<1> HIDE DEF Turn
<1>3. Swab(x) \subseteq 0..31
  BY <1>1, <1>2
<1>4. Swab(Swab(x)) = x
  <2>1. \A b \in x : Turn(b) \in Swab(x) /\ Turn(Turn(b)) = b
    BY <1>1, <1>2
  <2>2. \A b \in x : b \in Swab(Swab(x))
    BY <1>2, <2>1
  <2>3. ASSUME NEW b \in Swab(Swab(x)) PROVE b \in x
    <3>1. PICK d \in Swab(x) : b = Turn(d)
      BY <1>2, <2>3
    <3>2. PICK e \in x : d = Turn(e)
      BY <1>2, <3>1
    <3> QED BY <1>1, <3>1, <3>2
  <2> QED BY <2>2, <2>3
<1> QED BY <1>3, <1>4

-----------------------------------------------------------------------------
(* A round of the standard and a step of the code.                         *)

WordsOf(n) == [1..n -> SUBSET (0..31)]

\* Where the step called for the k-th time finds its parameter p, and that the registers
\* are the variables of the standard under those names.
Place(p, k) == ((p + 64 - k) % 8) + 1
SameRegisters(r, v, k) == \A p \in 0..7 : r[((p + 64 - k) % 8) + 1] = v[p + 1]

LEMMA Places ==
  ASSUME NEW k \in 0..64
  PROVE  /\ \A p \in 0..7 : Place(p, k) \in 1..8
         /\ \A p, q \in 0..7 : Place(p, k) = Place(q, k) => p = q
         /\ \A p \in 1..7 : k < 64 => Place(p, k + 1) = Place(p - 1, k)
         /\ k < 64 => Place(0, k + 1) = Place(7, k)
<1>1. \A p \in 0..7 : Place(p, k) \in 1..8
  BY DEF Place
<1>2. ASSUME NEW p \in 0..7, NEW q \in 0..7, Place(p, k) = Place(q, k) PROVE p = q
  <2>1. (p + 64 - k) % 8 = (q + 64 - k) % 8
    BY <1>2 DEF Place
  <2> QED BY <2>1
<1>3. ASSUME NEW p \in 1..7 PROVE Place(p, k + 1) = Place(p - 1, k)
  <2>1. p + 64 - (k + 1) = (p - 1) + 64 - k
    OBVIOUS
  <2> QED BY <2>1 DEF Place
<1>4. ASSUME k < 64 PROVE Place(0, k + 1) = Place(7, k)
  <2>1. (0 + 64 - (k + 1)) % 8 = (7 + 64 - k) % 8
    BY <1>4
  <2> QED BY <2>1 DEF Place
<1> QED BY <1>1, <1>2, <1>3, <1>4

LEMMA StepIsRound ==
  ASSUME NEW k \in 0..63, NEW r \in WordsOf(8), NEW v \in WordsOf(8), NEW w, SameRegisters(r, v, k)
  PROVE  /\ Stepped(r, k, w) \in WordsOf(8) /\ Fips!Round(v, w, K[k + 1]) \in WordsOf(8)
         /\ SameRegisters(Stepped(r, k, w), Fips!Round(v, w, K[k + 1]), k + 1)
<1> DEFINE At(p) == ((p + 64 - k) % 8) + 1
           R(p) == r[At(p)]
           t1 == Add(Add(Add(Add(R(7), bsg2_1(R(4))), xandx(R(4), R(5), R(6))), K[k + 1]), w)
           t2 == Add(bsg2_0(R(0)), andor32(R(0), R(1), R(2)))
           T1 == Fips!Plus(Fips!Plus(Fips!Plus(Fips!Plus(v[8], Fips!Sigma1(v[5])), Fips!Ch(v[5], v[6], v[7])), K[k + 1]), w)
           T2 == Fips!Plus(Fips!Sigma0(v[1]), Fips!Maj(v[1], v[2], v[3]))
           s == Stepped(r, k, w)
           u == Fips!Round(v, w, K[k + 1])
<1>1. s = [r EXCEPT ![At(3)] = Add(@, t1), ![At(7)] = Add(t1, t2)]
  BY DEF Stepped
<1>2. u = <<Fips!Plus(T1, T2), v[1], v[2], v[3], Fips!Plus(v[4], T1), v[5], v[6], v[7]>>
  BY DEF Fips!Round
<1>3. \A p : At(p) = Place(p, k)
  BY DEF Place
<1>4. /\ R(0) = v[1] /\ R(1) = v[2] /\ R(2) = v[3] /\ R(3) = v[4]
      /\ R(4) = v[5] /\ R(5) = v[6] /\ R(6) = v[7] /\ R(7) = v[8]
  <2>1. \A p \in 0..7 : R(p) = v[p + 1]
    BY DEF SameRegisters
  <2> HIDE DEF R
  <2> QED BY <2>1
<1>5. \A i \in 1..8 : v[i] \subseteq 0..31
  BY DEF WordsOf
<1>6. /\ bsg2_1(v[5]) = Fips!Sigma1(v[5]) /\ bsg2_0(v[1]) = Fips!Sigma0(v[1])
      /\ xandx(v[5], v[6], v[7]) = Fips!Ch(v[5], v[6], v[7])
      /\ andor32(v[1], v[2], v[3]) = Fips!Maj(v[1], v[2], v[3])
  BY <1>5, SigmasAgree, ChoicesAgree
<1>7. t1 = T1 /\ t2 = T2
  <2> HIDE DEF R
  <2> QED BY <1>4, <1>6, PlusIsAdd
<1> HIDE DEF t1, t2, T1, T2, s, u
<1>8. Add(t1, t2) = Fips!Plus(T1, T2) /\ Add(v[4], t1) = Fips!Plus(v[4], T1)
  BY <1>7, PlusIsAdd
<1>9. Add(t1, t2) \in SUBSET (0..31) /\ Add(v[4], t1) \in SUBSET (0..31)
  BY PlusIsAdd
<1>10. /\ \A p \in 0..7 : At(p) \in 1..8
       /\ \A p, q \in 0..7 : At(p) = At(q) => p = q
       /\ \A p \in 1..7 : Place(p, k + 1) = At(p - 1)
       /\ Place(0, k + 1) = At(7)
  <2>1. k \in 0..64 /\ k < 64
    OBVIOUS
  <2> HIDE DEF At
  <2> QED BY <1>3, <2>1, Places
<1>11. s \in WordsOf(8)
  BY <1>1, <1>4, <1>9, <1>10 DEF WordsOf
<1>12. u \in WordsOf(8)
  <2>1. \A i \in 1..8 : u[i] \in SUBSET (0..31)
    BY <1>2, <1>5, <1>8, <1>9
  <2>2. u = [i \in 1..8 |-> u[i]]
    BY <1>2
  <2> QED BY <2>1, <2>2 DEF WordsOf
<1> HIDE DEF At
<1>13. s[At(3)] = Fips!Plus(v[4], T1) /\ s[At(7)] = Fips!Plus(T1, T2)
  <2>1. At(3) # At(7) /\ At(3) \in 1..8 /\ At(7) \in 1..8
    BY <1>10
  <2> QED BY <1>1, <1>4, <1>8, <2>1 DEF WordsOf
<1>14. ASSUME NEW p \in 0..7, p # 3, p # 7 PROVE s[At(p)] = v[p + 1]
  <2>1. At(p) # At(3) /\ At(p) # At(7) /\ At(p) \in 1..8
    BY <1>10, <1>14
  <2>2. s[At(p)] = r[At(p)]
    BY <1>1, <2>1 DEF WordsOf
  <2>3. r[At(p)] = v[p + 1]
    BY DEF SameRegisters, At
  <2> QED BY <2>2, <2>3
<1>15. SameRegisters(s, u, k + 1)
  <2>1. SUFFICES ASSUME NEW p \in 0..7 PROVE s[Place(p, k + 1)] = u[p + 1]
    BY DEF SameRegisters, Place
  <2>2. CASE p = 0
    BY <1>2, <1>10, <1>13, <2>2
  <2>3. CASE p = 4
    <3>1. Place(4, k + 1) = At(3)
      BY <1>10, <2>3
    <3> QED BY <1>2, <1>13, <2>3, <3>1
  <2>4. CASE p \notin {0, 4}
    <3>1. p \in 1..7 /\ p - 1 \in 0..7 /\ p - 1 # 3 /\ p - 1 # 7 /\ (p - 1) + 1 = p
      BY <2>4
    <3>2. s[Place(p, k + 1)] = v[p]
      BY <1>10, <1>14, <3>1
    <3>3. u[p + 1] = v[p]
      <4>1. p \in {1, 2, 3, 5, 6, 7}
        BY <2>4
      <4> QED BY <1>2, <4>1
    <3> QED BY <3>2, <3>3
  <2> QED BY <2>2, <2>3, <2>4
<1> QED BY <1>11, <1>12, <1>15 DEF s, u

\* The word that the standard makes of the sixteen before the j-th.
NextOf(W, j) ==
  Fips!Plus(Fips!Plus(Fips!Plus(Fips!sigma1(W[j - 2]), W[j - 7]), Fips!sigma0(W[j - 15])), W[j - 16])
IsSchedule(W) == \A j \in 17..Len(W) : W[j] = NextOf(W, j)

\* The last sixteen words that the code has come to are in its ring.
Held(k) == IF k < 16 THEN 0..15 ELSE (k - 16)..(k - 1)
InRing(w, W, k) == \A j \in Held(k) : w[(j % 16) + 1] = W[j + 1]

LEMMA PlusType ==
  ASSUME NEW x, NEW y
  PROVE  Fips!Plus(x, y) \in SUBSET (0..31)
BY PlusIsAdd

LEMMA Appended ==
  ASSUME NEW S, NEW W \in Seq(S), NEW x \in S
  PROVE  /\ Append(W, x) \in Seq(S) /\ Len(Append(W, x)) = Len(W) + 1
         /\ \A j \in 1..Len(W) : Append(W, x)[j] = W[j]
         /\ Append(W, x)[Len(W) + 1] = x
OBVIOUS

LEMMA ScheduleGrows ==
  ASSUME NEW W \in Seq(SUBSET (0..31)), IsSchedule(W), Len(W) >= 16
  PROVE  IsSchedule(Append(W, Fips!Next(W)))
<1> DEFINE x == Fips!Next(W)
           V == Append(W, x)
<1>1. x = NextOf(W, Len(W) + 1)
  BY DEF Fips!Next, NextOf
<1>2. x \in SUBSET (0..31)
  BY <1>1, PlusType DEF NextOf
<1> HIDE DEF x
<1>3. /\ Len(V) = Len(W) + 1 /\ Len(W) \in Nat
      /\ \A j \in 1..Len(W) : V[j] = W[j]
      /\ V[Len(W) + 1] = x
  BY <1>2, Appended, LenProperties
<1> HIDE DEF V
<1>4. ASSUME NEW j \in 17..(Len(W) + 1) PROVE NextOf(V, j) = NextOf(W, j)
  <2>1. j - 2 \in 1..Len(W) /\ j - 7 \in 1..Len(W) /\ j - 15 \in 1..Len(W) /\ j - 16 \in 1..Len(W)
    BY <1>3
  <2> QED BY <1>3, <2>1 DEF NextOf
<1>5. ASSUME NEW j \in 17..Len(V) PROVE V[j] = NextOf(V, j)
  <2>1. j \in 17..(Len(W) + 1)
    BY <1>3
  <2>2. CASE j = Len(W) + 1
    BY <1>1, <1>3, <1>4, <2>1, <2>2
  <2>3. CASE j # Len(W) + 1
    <3>1. j \in 17..Len(W) /\ j \in 1..Len(W)
      BY <1>3, <2>1, <2>3
    <3> QED BY <1>3, <1>4, <2>1, <3>1 DEF IsSchedule
  <2> QED BY <2>2, <2>3
<1> QED BY <1>5 DEF IsSchedule, V, x

LEMMA RingTurns ==
  ASSUME NEW k \in 0..63, NEW w \in WordsOf(16), NEW W \in Seq(SUBSET (0..31)), Len(W) = k + 16,
         IsSchedule(W), InRing(w, W, k)
  PROVE  /\ Scheduled(w, k) \in WordsOf(16)
         /\ Scheduled(w, k)[(k % 16) + 1] = W[k + 1]
         /\ InRing(Scheduled(w, k), W, k + 1)
<1>1. CASE k < 16
  <2>1. Scheduled(w, k) = w
    BY <1>1 DEF Scheduled
  <2>2. k \in Held(k)
    BY <1>1 DEF Held
  <2>3. Held(k + 1) = Held(k)
    <3>1. CASE k + 1 < 16
      BY <1>1, <3>1 DEF Held
    <3>2. CASE k + 1 = 16
      <4>1. (k + 1) - 16 = 0 /\ (k + 1) - 1 = 15
        BY <3>2
      <4> QED BY <1>1, <3>2, <4>1 DEF Held
    <3> QED BY <1>1, <3>1, <3>2
  <2> QED BY <2>1, <2>2, <2>3 DEF InRing
<1>2. CASE k >= 16
  <2> DEFINE pc == k % 16
             Word(i) == w[((pc + 16 - i) % 16) + 1]
             new == Add(Add(Add(ssg2_1(Word(2)), Word(7)), ssg2_0(Word(15))), w[pc + 1])
             s == Scheduled(w, k)
  <2>1. s = [w EXCEPT ![pc + 1] = new]
    BY <1>2 DEF Scheduled
  <2>2. \A j \in (k - 16)..(k - 1) : w[(j % 16) + 1] = W[j + 1]
    BY <1>2 DEF InRing, Held
  <2>3. ASSUME NEW i \in 1..16 PROVE (pc + 16 - i) % 16 = (k - i) % 16
    OBVIOUS
  <2>4. Word(2) = W[k - 1] /\ Word(7) = W[k - 6] /\ Word(15) = W[k - 14] /\ w[pc + 1] = W[k - 15]
    <3>1. \A i \in 1..15 : Word(i) = W[(k - i) + 1]
      <4> TAKE i \in 1..15
      <4> DEFINE j == k - i
      <4>1. j \in (k - 16)..(k - 1) /\ i \in 1..16
        OBVIOUS
      <4>2. (pc + 16 - i) % 16 = j % 16
        BY <2>3, <4>1
      <4>3. w[(j % 16) + 1] = W[j + 1]
        <5> HIDE DEF j
        <5> QED BY <2>2, <4>1
      <4> HIDE DEF pc
      <4> QED BY <4>2, <4>3
    <3>2. (k - 16) % 16 = pc
      OBVIOUS
    <3>3. k - 16 \in (k - 16)..(k - 1) /\ (k - 16) + 1 = k - 15
      OBVIOUS
    <3>4. w[pc + 1] = W[k - 15]
      <4> HIDE DEF pc
      <4> QED BY <2>2, <3>2, <3>3
    <3>5. (k - 2) + 1 = k - 1 /\ (k - 7) + 1 = k - 6 /\ (k - 15) + 1 = k - 14
      OBVIOUS
    <3> HIDE DEF Word
    <3> QED BY <3>1, <3>4, <3>5
  <2>5. new = NextOf(W, k + 1)
    <3>1. W[k - 1] \subseteq 0..31 /\ W[k - 14] \subseteq 0..31
      <4>1. k - 1 \in 1..Len(W) /\ k - 14 \in 1..Len(W)
        BY <1>2
      <4>2. \A i \in 1..Len(W) : W[i] \in SUBSET (0..31)
        BY LenProperties
      <4> QED BY <4>1, <4>2
    <3>2. (k + 1) - 2 = k - 1 /\ (k + 1) - 7 = k - 6 /\ (k + 1) - 15 = k - 14 /\ (k + 1) - 16 = k - 15
      OBVIOUS
    <3>3. ssg2_1(W[k - 1]) = Fips!sigma1(W[k - 1]) /\ ssg2_0(W[k - 14]) = Fips!sigma0(W[k - 14])
      BY <3>1, SigmasAgree
    <3> HIDE DEF Word
    <3> QED BY <2>4, <3>2, <3>3, PlusIsAdd DEF NextOf
  <2>6. new = W[k + 1] /\ new \in SUBSET (0..31)
    <3>1. k + 1 \in 17..Len(W)
      BY <1>2
    <3> HIDE DEF new
    <3> QED BY <2>5, <3>1, PlusType DEF IsSchedule, NextOf
  <2> HIDE DEF new, s
  <2>7. pc + 1 \in 1..16
    OBVIOUS
  <2>8. s \in WordsOf(16)
    <3> HIDE DEF pc
    <3> QED BY <2>1, <2>6, <2>7 DEF WordsOf
  <2>9. s[pc + 1] = new /\ \A i \in 1..16 : i # pc + 1 => s[i] = w[i]
    <3> HIDE DEF pc
    <3> QED BY <2>1, <2>7 DEF WordsOf
  <2>10. ASSUME NEW j \in Held(k + 1) PROVE s[(j % 16) + 1] = W[j + 1]
    <3>1. j \in (k - 15)..k
      <4>1. (k + 1) - 16 = k - 15 /\ (k + 1) - 1 = k
        OBVIOUS
      <4> QED BY <1>2, <2>10, <4>1 DEF Held
    <3>2. CASE j = k
      BY <2>6, <2>9, <3>2
    <3>3. CASE j # k
      <4>1. j \in (k - 16)..(k - 1) /\ (j % 16) + 1 # pc + 1 /\ (j % 16) + 1 \in 1..16
        BY <1>2, <3>1, <3>3
      <4>2. w[(j % 16) + 1] = W[j + 1]
        BY <2>2, <4>1
      <4>3. s[(j % 16) + 1] = w[(j % 16) + 1]
        <5> HIDE DEF pc
        <5> QED BY <2>9, <4>1
      <4> QED BY <4>2, <4>3
    <3> QED BY <3>2, <3>3
  <2> QED BY <2>6, <2>8, <2>9, <2>10 DEF InRing, s
<1> QED BY <1>1, <1>2

-----------------------------------------------------------------------------
(* The blocks of a message.                                                *)

LEMMA Lengths ==
  Fips!Bits(640) = {7, 9} /\ Fips!Bits(256) = {8}
<1>1. ASSUME NEW m \in Nat, NEW h, Halved(h, m)
      PROVE  /\ h[0] = m /\ h[1] = h[0] \div 2 /\ h[2] = h[1] \div 2 /\ h[3] = h[2] \div 2
             /\ h[4] = h[3] \div 2 /\ h[5] = h[4] \div 2 /\ h[6] = h[5] \div 2 /\ h[7] = h[6] \div 2
             /\ h[8] = h[7] \div 2 /\ h[9] = h[8] \div 2 /\ h[10] = h[9] \div 2 /\ h[11] = h[10] \div 2
             /\ h[12] = h[11] \div 2 /\ h[13] = h[12] \div 2 /\ h[14] = h[13] \div 2 /\ h[15] = h[14] \div 2
  <2>1. \A i \in 0..14 : h[i + 1] = h[i] \div 2
    <3> TAKE i \in 0..14
    <3>1. i + 1 \in 1..16 /\ (i + 1) - 1 = i
      OBVIOUS
    <3> QED BY <1>1, <3>1 DEF Halved
  <2> QED BY <1>1, <2>1 DEF Halved
<1>2. Fips!Bits(640) = {7, 9}
  <2> DEFINE h == Fips!Rest(640)
  <2>1. Halved(h, 640)
    BY RestHalves
  <2> HIDE DEF h
  <2>2. /\ h[0] = 640 /\ h[1] = 320 /\ h[2] = 160 /\ h[3] = 80 /\ h[4] = 40 /\ h[5] = 20 /\ h[6] = 10 /\ h[7] = 5
        /\ h[8] = 2 /\ h[9] = 1 /\ h[10] = 0 /\ h[11] = 0 /\ h[12] = 0 /\ h[13] = 0 /\ h[14] = 0 /\ h[15] = 0
    BY <1>1, <2>1
  <2>3. \A b \in 0..15 : h[b] % 2 = 1 <=> b \in {7, 9}
    BY <2>2
  <2> QED BY <2>3 DEF Fips!Bits, h
<1>3. Fips!Bits(256) = {8}
  <2> DEFINE h == Fips!Rest(256)
  <2>1. Halved(h, 256)
    BY RestHalves
  <2> HIDE DEF h
  <2>2. /\ h[0] = 256 /\ h[1] = 128 /\ h[2] = 64 /\ h[3] = 32 /\ h[4] = 16 /\ h[5] = 8 /\ h[6] = 4 /\ h[7] = 2
        /\ h[8] = 1 /\ h[9] = 0 /\ h[10] = 0 /\ h[11] = 0 /\ h[12] = 0 /\ h[13] = 0 /\ h[14] = 0 /\ h[15] = 0
    BY <1>1, <2>1
  <2>3. \A b \in 0..15 : h[b] % 2 = 1 <=> b \in {8}
    BY <2>2
  <2> QED BY <2>3 DEF Fips!Bits, h
<1> QED BY <1>2, <1>3

LEMMA WordsAreSeq ==
  ASSUME NEW n \in Nat, NEW d \in WordsOf(n)
  PROVE  d \in Seq(SUBSET (0..31)) /\ Len(d) = n
BY FunctionIsSeq DEF WordsOf

IsJoined(c, a, b, S) ==
  /\ c \in Seq(S) /\ Len(c) = Len(a) + Len(b)
  /\ \A i \in 1..(Len(a) + Len(b)) : c[i] = IF i <= Len(a) THEN a[i] ELSE b[i - Len(a)]

LEMMA Joins ==
  ASSUME NEW S, NEW a \in Seq(S), NEW b \in Seq(S)
  PROVE  IsJoined(a \o b, a, b, S)
BY ConcatProperties DEF IsJoined

\* A block is what it is made of, the one, and zeros but for the word at its end.
Block(d, m, x) == d \o << {31} >> \o [i \in 1..m |-> IF i = m THEN x ELSE {}]
Cells(d, n, x) == [i \in 1..16 |-> IF i <= n THEN d[i] ELSE IF i = n + 1 THEN {31} ELSE IF i = 16 THEN x ELSE {}]

LEMMA BlockIs ==
  ASSUME NEW n \in Nat, NEW d \in WordsOf(n), NEW m \in Nat \ {0}, NEW x \in SUBSET (0..31), n + 1 + m = 16
  PROVE  Block(d, m, x) = Cells(d, n, x)
<1> DEFINE W == SUBSET (0..31)
           one == << {31} >>
           end == [i \in 1..m |-> IF i = m THEN x ELSE {}]
<1>1. d \in Seq(W) /\ Len(d) = n
  BY WordsAreSeq
<1>2. one \in Seq(W) /\ Len(one) = 1 /\ one[1] = {31}
  OBVIOUS
<1>3. end \in WordsOf(m)
  BY DEF WordsOf
<1>4. end \in Seq(W) /\ Len(end) = m
  BY <1>3, WordsAreSeq
<1>5. \A i \in 1..m : end[i] = IF i = m THEN x ELSE {}
  OBVIOUS
<1> DEFINE first == d \o one
           all == first \o end
<1> HIDE DEF W, one, end
<1>6. /\ first \in Seq(W) /\ Len(first) = n + 1
      /\ \A i \in 1..(n + 1) : first[i] = IF i <= n THEN d[i] ELSE one[i - n]
  <2>0. IsJoined(first, d, one, W)
    BY <1>1, <1>2, Joins
  <2> QED BY <1>1, <1>2, <2>0 DEF IsJoined
<1> HIDE DEF first
<1>7. /\ all \in Seq(W) /\ Len(all) = 16
      /\ \A i \in 1..16 : all[i] = IF i <= n + 1 THEN first[i] ELSE end[i - (n + 1)]
  <2>0. IsJoined(all, first, end, W)
    BY <1>4, <1>6, Joins
  <2> QED BY <1>4, <1>6, <2>0 DEF IsJoined
<1> HIDE DEF all
<1>8. ASSUME NEW i \in 1..16
      PROVE  all[i] = IF i <= n THEN d[i] ELSE IF i = n + 1 THEN {31} ELSE IF i = 16 THEN x ELSE {}
  <2>1. CASE i <= n
    <3>1. i <= n + 1 /\ i \in 1..(n + 1)
      BY <2>1
    <3>2. all[i] = first[i]
      BY <1>7, <3>1
    <3>3. first[i] = d[i]
      BY <1>6, <2>1, <3>1
    <3> QED BY <2>1, <3>2, <3>3
  <2>2. CASE i = n + 1
    <3>1. i <= n + 1 /\ i \in 1..(n + 1) /\ ~(i <= n) /\ i - n = 1
      BY <2>2
    <3>2. all[i] = first[i]
      BY <1>7, <3>1
    <3>3. first[i] = one[1]
      BY <1>6, <3>1
    <3> QED BY <1>2, <2>2, <3>1, <3>2, <3>3
  <2>3. CASE i > n + 1
    <3>1. i - (n + 1) \in 1..m /\ (i - (n + 1) = m <=> i = 16) /\ ~(i <= n + 1) /\ ~(i <= n) /\ i # n + 1
      BY <2>3
    <3>2. all[i] = end[i - (n + 1)]
      BY <1>7, <3>1
    <3>3. end[i - (n + 1)] = IF i - (n + 1) = m THEN x ELSE {}
      BY <1>5, <3>1
    <3> QED BY <3>1, <3>2, <3>3
  <2> QED BY <2>1, <2>2, <2>3
<1>9. all = [i \in 1..16 |-> all[i]]
  BY <1>7, LenProperties
<1>10. all = [i \in 1..16 |-> IF i <= n THEN d[i] ELSE IF i = n + 1 THEN {31} ELSE IF i = 16 THEN x ELSE {}]
  BY <1>8, <1>9
<1> QED BY <1>10 DEF all, first, one, end, Block, Cells

\* A padded message is the message, the one, zeros and the length.
LEMMA PaddedIs ==
  ASSUME NEW n \in {8, 20}, NEW d \in WordsOf(n), NEW len, len = IF n = 8 THEN 16 ELSE 32
  PROVE  Fips!Padded(d)
           = [i \in 1..len |-> IF i <= n THEN d[i] ELSE IF i = n + 1 THEN {31}
                               ELSE IF i = len THEN Fips!Bits(32 * n) ELSE {}]
<1> DEFINE W == SUBSET (0..31)
           one == << {31} >>
           z == (29 - n) % 16
           mid == [i \in 1..z |-> {}]
           end == << {}, Fips!Bits(32 * n) >>
           first == d \o one
           begin == first \o mid
           all == begin \o end
<1>1. d \in Seq(W) /\ Len(d) = n
  BY WordsAreSeq
<1>2. Fips!Padded(d) = all
  BY <1>1 DEF Fips!Padded
<1>3. one \in Seq(W) /\ Len(one) = 1 /\ one[1] = {31}
  OBVIOUS
<1>4. z \in Nat /\ z = IF n = 8 THEN 5 ELSE 9
  OBVIOUS
<1> HIDE DEF z
<1>5. mid \in WordsOf(z)
  BY DEF WordsOf
<1>6. mid \in Seq(W) /\ Len(mid) = z
  BY <1>4, <1>5, WordsAreSeq
<1>7. \A i \in 1..z : mid[i] = {}
  OBVIOUS
<1>8. Fips!Bits(32 * n) \in W
  BY DEF Fips!Bits
<1>9. end \in Seq(W) /\ Len(end) = 2 /\ end[1] = {} /\ end[2] = Fips!Bits(32 * n)
  BY <1>8
<1> HIDE DEF W, one, mid, end
<1>10. /\ first \in Seq(W) /\ Len(first) = n + 1
       /\ \A i \in 1..(n + 1) : first[i] = IF i <= n THEN d[i] ELSE one[i - n]
  <2>0. IsJoined(first, d, one, W)
    BY <1>1, <1>3, Joins
  <2> QED BY <1>1, <1>3, <2>0 DEF IsJoined
<1> HIDE DEF first
<1>11. /\ begin \in Seq(W) /\ Len(begin) = n + 1 + z
       /\ \A i \in 1..(n + 1 + z) : begin[i] = IF i <= n + 1 THEN first[i] ELSE mid[i - (n + 1)]
  <2>0. IsJoined(begin, first, mid, W)
    BY <1>6, <1>10, Joins
  <2> QED BY <1>6, <1>10, <2>0 DEF IsJoined
<1> HIDE DEF begin
<1>12. /\ all \in Seq(W) /\ Len(all) = n + 1 + z + 2
       /\ \A i \in 1..(n + 1 + z + 2) : all[i] = IF i <= n + 1 + z THEN begin[i] ELSE end[i - (n + 1 + z)]
  <2>0. IsJoined(all, begin, end, W)
    BY <1>9, <1>11, Joins
  <2> QED BY <1>9, <1>11, <2>0 DEF IsJoined
<1>13. len = n + 1 + z + 2
  BY <1>4
<1> HIDE DEF all
<1>14. ASSUME NEW i \in 1..len
       PROVE  all[i] = IF i <= n THEN d[i] ELSE IF i = n + 1 THEN {31} ELSE IF i = len THEN Fips!Bits(32 * n) ELSE {}
  <2>0. n \in Nat /\ z \in Nat /\ len = n + 1 + z + 2 /\ i \in 1..(n + 1 + z + 2)
    BY <1>4, <1>13
  <2> DEFINE bits == Fips!Bits(32 * n)
  <2>a. end[2] = bits /\ end[1] = {}
    BY <1>9
  <2> HIDE DEF bits
  <2>1. CASE i <= n
    <3>1. i <= n + 1 /\ i \in 1..(n + 1) /\ i <= n + 1 + z /\ i \in 1..(n + 1 + z)
      BY <2>0, <2>1
    <3>2. all[i] = begin[i] /\ begin[i] = first[i] /\ first[i] = d[i]
      BY <1>10, <1>11, <1>12, <2>0, <2>1, <3>1
    <3> QED BY <2>1, <3>2
  <2>2. CASE i = n + 1
    <3>1. i <= n + 1 /\ i \in 1..(n + 1) /\ i <= n + 1 + z /\ i \in 1..(n + 1 + z) /\ ~(i <= n) /\ i - n = 1
      BY <2>0, <2>2
    <3>2. all[i] = begin[i]
      BY <1>12, <2>0, <3>1
    <3>3. begin[i] = first[i]
      BY <1>11, <3>1
    <3>4. first[i] = one[1]
      BY <1>10, <3>1
    <3> QED BY <1>3, <2>2, <3>1, <3>2, <3>3, <3>4
  <2>3. CASE i > n + 1 /\ i <= n + 1 + z
    <3>1. i - (n + 1) \in 1..z /\ i # len /\ i \in 1..(n + 1 + z) /\ ~(i <= n + 1) /\ ~(i <= n) /\ i # n + 1
      BY <2>0, <2>3
    <3>2. all[i] = begin[i]
      BY <1>12, <2>0, <2>3
    <3>3. begin[i] = mid[i - (n + 1)]
      BY <1>11, <3>1
    <3>4. mid[i - (n + 1)] = {}
      BY <1>7, <3>1
    <3> QED BY <3>1, <3>2, <3>3, <3>4
  <2>4. CASE i > n + 1 + z
    <3> DEFINE k == i - (n + 1 + z)
    <3>1. k \in {1, 2} /\ (k = 2 <=> i = len) /\ ~(i <= n + 1 + z) /\ ~(i <= n) /\ i # n + 1
      BY <2>0, <2>4
    <3>2. all[i] = end[k]
      BY <1>12, <2>0, <3>1
    <3> HIDE DEF k
    <3>3. CASE k = 1
      <4>1. all[i] = {} /\ i # len
        BY <2>a, <3>1, <3>2, <3>3
      <4> QED BY <3>1, <4>1
    <3>4. CASE k = 2
      <4>1. all[i] = bits /\ i = len
        BY <2>a, <3>1, <3>2, <3>4
      <4> QED BY <3>1, <4>1 DEF bits
    <3> QED BY <3>1, <3>3, <3>4
  <2> QED BY <2>0, <2>1, <2>2, <2>3, <2>4
<1>15. all = [i \in 1..len |-> all[i]]
  BY <1>12, <1>13, LenProperties
<1> QED BY <1>2, <1>14, <1>15

-----------------------------------------------------------------------------
(* What a block begins with.                                               *)

LEMMA H256Type == H256 \in WordsOf(8)
<1>1. \A hi, lo : WordOf(hi, lo) \in SUBSET (0..31)
  BY DEF WordOf
<1> DEFINE cells == <<
    <<27145, 58983>>, <<47975, 44677>>, <<15470, 62322>>, <<42319, 62778>>, <<20750, 21119>>, <<39685, 26764>>, <<8067, 55723>>, <<23520, 52505>> >>
<1>2. Len(cells) = 8
  OBVIOUS
<1>3. H256 = Table(cells)
  BY DEF H256
<1> HIDE DEF cells
<1>4. H256 = [i \in 1..8 |-> WordOf(cells[i][1], cells[i][2])]
  BY <1>2, <1>3 DEF Table
<1> QED BY <1>1, <1>4 DEF WordsOf

LEMMA SumsAreWords ==
  ASSUME NEW a, NEW b
  PROVE  Sums(a, b) \in WordsOf(8) /\ \A i \in 1..8 : Sums(a, b)[i] = Fips!Plus(a[i], b[i])
<1>1. \A i \in 1..8 : Add(a[i], b[i]) = Fips!Plus(a[i], b[i]) /\ Add(a[i], b[i]) \in SUBSET (0..31)
  BY PlusIsAdd
<1> QED BY <1>1 DEF Sums, WordsOf

LEMMA Beginning ==
  ASSUME words \in WordsOf(20)
  PROVE  /\ \A i \in 1..20 : Swab(EndianData[i]) = words[i]
         /\ [i \in 1..16 |-> Swab(EndianData[i])] \in WordsOf(16)
         /\ SubSeq(words, 1, 16) \in Seq(SUBSET (0..31)) /\ Len(SubSeq(words, 1, 16)) = 16
         /\ \A i \in 1..16 : [j \in 1..16 |-> Swab(EndianData[j])][i] = SubSeq(words, 1, 16)[i]
<1>1. \A i \in 1..20 : words[i] \in SUBSET (0..31)
  BY DEF WordsOf
<1>2. \A i \in 1..20 : Swab(EndianData[i]) = words[i]
  BY <1>1, SwabTwice DEF EndianData
<1>3. [i \in 1..16 |-> Swab(EndianData[i])] = [i \in 1..16 |-> words[i]]
  BY <1>2
<1> DEFINE s == SubSeq(words, 1, 16)
<1>4. s \in Seq(SUBSET (0..31)) /\ Len(s) = 16 /\ \A i \in 1..16 : s[i] = words[i]
  <2>1. \A i \in 1..16 : words[i] \in SUBSET (0..31)
    BY <1>1
  <2>2. 1 \in Int /\ 16 \in Int
    OBVIOUS
  <2> QED BY <2>1, <2>2, SubSeqProperties
<1> HIDE DEF s
<1>5. [i \in 1..16 |-> words[i]] \in WordsOf(16)
  BY <1>1 DEF WordsOf
<1> QED BY <1>2, <1>3, <1>4, <1>5 DEF s

LEMMA EndIsPadded ==
  ASSUME words \in WordsOf(20)
  PROVE  LET dat == Dat80([i \in 1..4 |-> Swab(EndianData[16 + i])])
         IN  dat \in WordsOf(16) /\ dat = SubSeq(Fips!Padded(words), 17, 32)
<1> DEFINE four == [i \in 1..4 |-> Swab(EndianData[16 + i])]
           dat == Dat80(four)
           rest == SubSeq(Fips!Padded(words), 17, 32)
<1>1. \A i \in 1..20 : words[i] \in SUBSET (0..31)
  BY DEF WordsOf
<1>2. four = [i \in 1..4 |-> words[16 + i]]
  <2>1. \A i \in 1..4 : 16 + i \in 1..20
    OBVIOUS
  <2> QED BY <2>1, Beginning
<1>3. four \in WordsOf(4)
  <2>1. \A i \in 1..4 : 16 + i \in 1..20
    OBVIOUS
  <2> QED BY <1>1, <1>2, <2>1 DEF WordsOf
<1>4. \A i \in 1..4 : four[i] = words[16 + i]
  BY <1>2
<1> HIDE DEF four
<1>5. dat = [i \in 1..16 |-> IF i <= 4 THEN four[i] ELSE IF i = 4 + 1 THEN {31} ELSE IF i = 16 THEN {7, 9} ELSE {}]
  <2> DEFINE n == 4
             m == 11
             x == {7, 9}
  <2>1. n \in Nat /\ m \in Nat \ {0} /\ x \in SUBSET (0..31) /\ n + 1 + m = 16 /\ four \in WordsOf(n)
    BY <1>3
  <2>2. dat = Block(four, m, x)
    BY DEF Dat80, Block
  <2> HIDE DEF dat, n, m, x
  <2>3. dat = Cells(four, n, x)
    BY <2>1, <2>2, BlockIs
  <2> QED BY <2>3 DEF n, x, Cells
<1>6. Fips!Padded(words)
        = [i \in 1..32 |-> IF i <= 20 THEN words[i] ELSE IF i = 20 + 1 THEN {31} ELSE IF i = 32 THEN {7, 9} ELSE {}]
  <2> DEFINE n == 20
             len == 32
  <2>1. n \in {8, 20} /\ words \in WordsOf(n) /\ len = IF n = 8 THEN 16 ELSE 32
    OBVIOUS
  <2>2. Fips!Bits(32 * n) = {7, 9}
    <3>1. 32 * n = 640
      OBVIOUS
    <3> QED BY <3>1, Lengths
  <2> HIDE DEF n, len
  <2>3. Fips!Padded(words)
          = [i \in 1..len |-> IF i <= n THEN words[i] ELSE IF i = n + 1 THEN {31} ELSE IF i = len THEN Fips!Bits(32 * n) ELSE {}]
    BY <2>1, PaddedIs
  <2> QED BY <2>2, <2>3 DEF n, len
<1> DEFINE p == Fips!Padded(words)
<1>7. \A i \in 1..32 : p[i] = IF i <= 20 THEN words[i] ELSE IF i = 21 THEN {31} ELSE IF i = 32 THEN {7, 9} ELSE {}
  BY <1>6
<1>8. \A i \in 17..32 : p[i] \in SUBSET (0..31)
  BY <1>1, <1>7
<1> HIDE DEF p
<1>9. rest \in Seq(SUBSET (0..31)) /\ Len(rest) = 16 /\ \A i \in 1..16 : rest[i] = p[17 + i - 1]
  <2>1. 17 \in Int /\ 32 \in Int
    OBVIOUS
  <2> QED BY <1>8, <2>1, SubSeqProperties DEF p
<1> HIDE DEF rest
<1>10. \A i \in 1..16 : dat[i] = IF i <= 4 THEN four[i] ELSE IF i = 5 THEN {31} ELSE IF i = 16 THEN {7, 9} ELSE {}
  BY <1>5
<1>11. dat = [i \in 1..16 |-> dat[i]]
  BY <1>5
<1> HIDE DEF dat
<1>12. ASSUME NEW i \in 1..16 PROVE rest[i] = dat[i] /\ dat[i] \in SUBSET (0..31)
  <2>1. 17 + i - 1 = 16 + i /\ 16 + i \in 1..32 /\ 16 + i \in 17..32
    OBVIOUS
  <2>2. rest[i] = p[16 + i]
    BY <1>9, <2>1
  <2>3. p[16 + i] = dat[i]
    <3>1. CASE i <= 4
      <4>1. p[16 + i] = words[16 + i] /\ dat[i] = four[i] /\ i \in 1..4 /\ 16 + i <= 20
        BY <1>7, <1>10, <2>1, <3>1
      <4> QED BY <1>4, <4>1
    <3>2. CASE i > 4
      <4>1. ~(16 + i <= 20) /\ (16 + i = 21 <=> i = 5) /\ (16 + i = 32 <=> i = 16) /\ ~(i <= 4)
        BY <3>2
      <4>2. p[16 + i] = IF 16 + i = 21 THEN {31} ELSE IF 16 + i = 32 THEN {7, 9} ELSE {}
        BY <1>7, <2>1, <4>1
      <4>3. dat[i] = IF i = 5 THEN {31} ELSE IF i = 16 THEN {7, 9} ELSE {}
        BY <1>10, <4>1
      <4> QED BY <4>1, <4>2, <4>3
    <3> QED BY <3>1, <3>2
  <2> QED BY <1>8, <2>1, <2>2, <2>3
<1>13. rest = [i \in 1..16 |-> rest[i]]
  BY <1>9, LenProperties
<1>14. rest = dat
  BY <1>11, <1>12, <1>13
<1>15. dat \in WordsOf(16)
  BY <1>11, <1>12 DEF WordsOf
<1> QED BY <1>14, <1>15 DEF dat, four, rest

LEMMA DigestIsPadded ==
  ASSUME NEW d \in WordsOf(8)
  PROVE  DatDigest(d) \in WordsOf(16) /\ DatDigest(d) = Fips!Padded(d)
<1> DEFINE cells(i) == IF i <= 8 THEN d[i] ELSE IF i = 8 + 1 THEN {31} ELSE IF i = 16 THEN {8} ELSE {}
<1>1. DatDigest(d) = [i \in 1..16 |-> cells(i)]
  <2> DEFINE n == 8
             m == 7
             x == {8}
  <2>1. n \in Nat /\ m \in Nat \ {0} /\ x \in SUBSET (0..31) /\ n + 1 + m = 16 /\ d \in WordsOf(n)
    OBVIOUS
  <2>2. DatDigest(d) = Block(d, m, x)
    BY DEF DatDigest, Block
  <2> HIDE DEF n, m, x
  <2>3. DatDigest(d) = Cells(d, n, x)
    BY <2>1, <2>2, BlockIs
  <2> QED BY <2>3 DEF n, x, Cells
<1>2. Fips!Padded(d) = [i \in 1..16 |-> cells(i)]
  <2> DEFINE n == 8
             len == 16
  <2>1. n \in {8, 20} /\ d \in WordsOf(n) /\ len = IF n = 8 THEN 16 ELSE 32
    OBVIOUS
  <2>2. Fips!Bits(32 * n) = {8}
    <3>1. 32 * n = 256
      OBVIOUS
    <3> QED BY <3>1, Lengths
  <2> HIDE DEF n, len
  <2>3. Fips!Padded(d)
          = [i \in 1..len |-> IF i <= n THEN d[i] ELSE IF i = n + 1 THEN {31} ELSE IF i = len THEN Fips!Bits(32 * n) ELSE {}]
    BY <2>1, PaddedIs
  <2> QED BY <2>2, <2>3 DEF n, len
<1>3. \A i \in 1..16 : cells(i) \in SUBSET (0..31)
  <2>1. \A i \in 1..8 : d[i] \in SUBSET (0..31)
    BY DEF WordsOf
  <2> QED BY <2>1
<1>4. [i \in 1..16 |-> cells(i)] \in WordsOf(16)
  <2> HIDE DEF cells
  <2> QED BY <1>3 DEF WordsOf
<1> QED BY <1>1, <1>2, <1>4

-----------------------------------------------------------------------------
(* The filter.                                                             *)

LEMMA FilterCorrect ==
  ASSUME IsInput
  PROVE  FilterIsThatOfTheHost
<1> SUFFICES ASSUME Kind("filter"), Len(Parts) = 4 PROVE FilterIsThatOfTheHost
  BY DEF FilterIsThatOfTheHost
<1> DEFINE buf == << {}, {}, {}, {}, {}, {}, Swab(Parts[1]), Swab(Parts[2]) >>
           target == <<Parts[3], Parts[4]>>
           below == IF Parts[2] = Parts[4] THEN AtMost(Parts[1], Parts[3]) ELSE AtMost(Parts[2], Parts[4])
<1>1. \A i \in 1..4 : Parts[i] \in SUBSET (0..31)
  <2>1. Parts \in Seq(SUBSET (0..31))
    BY DEF IsInput
  <2> QED BY <2>1, LenProperties
<1>2. Swab(buf[7]) = Parts[1] /\ Swab(buf[8]) = Parts[2] /\ target[1] = Parts[3]
  <2>1. Parts[1] \subseteq 0..31 /\ Parts[2] \subseteq 0..31
    BY <1>1
  <2> QED BY <2>1, SwabTwice
<1> HIDE DEF buf, target
<1>3. Reports(buf, target) <=> Parts[2] = {} /\ AtMost(Parts[1], Parts[3])
  BY <1>2 DEF Reports
<1>4. ASSUME NEW a \in SUBSET (0..31), a # {} PROVE AtMost({}, a) /\ ~AtMost(a, {})
  <2> DEFINE T == {31 - i : i \in a}
  <2>1. T \subseteq Nat /\ T # {}
    <3>1. \A i \in a : 31 - i \in Nat
      OBVIOUS
    <3>2. PICK i \in a : TRUE
      BY <1>4
    <3>3. 31 - i \in T
      OBVIOUS
    <3> QED BY <3>1, <3>3
  <2>2. PICK n \in T : \A m \in T : n <= m
    <3> HIDE DEF T
    <3> QED BY <2>1, LeastNat
  <2>3. PICK i \in a : n = 31 - i
    OBVIOUS
  <2>4. ASSUME NEW j \in (i + 1)..31 PROVE j \notin a
    <3>1. SUFFICES ASSUME j \in a PROVE FALSE
      OBVIOUS
    <3>2. 31 - j \in T /\ j > i /\ i \in 0..31
      BY <3>1
    <3>3. 31 - i <= 31 - j
      BY <2>2, <2>3, <3>2
    <3> QED BY <3>2, <3>3
  <2> HIDE DEF T
  <2> QED BY <1>4, <2>4 DEF AtMost
<1>5. Parts[4] \in SUBSET (0..31) /\ Parts[2] \in SUBSET (0..31)
  BY <1>1
<1>6. Reports(buf, target) => below
  <2> SUFFICES ASSUME Parts[2] = {}, AtMost(Parts[1], Parts[3]) PROVE below
    BY <1>3
  <2>1. CASE Parts[4] = {}
    BY <2>1
  <2>2. CASE Parts[4] # {}
    BY <1>4, <1>5, <2>2
  <2> QED BY <2>1, <2>2
<1>7. Parts[4] = {} /\ below => Reports(buf, target)
  <2>1. CASE Parts[2] = {}
    BY <1>3, <2>1
  <2>2. CASE Parts[2] # {}
    BY <1>4, <1>5, <2>2
  <2> QED BY <2>1, <2>2
<1> QED BY <1>6, <1>7 DEF FilterIsThatOfTheHost, buf, target

-----------------------------------------------------------------------------
(* The kernel next to the standard: the inductive invariant.               *)

\* What the variables of the standard and of the code are.
FipsTypeOK ==
  /\ fips \in [v : WordsOf(8), hash : WordsOf(8), W : Seq(SUBSET (0..31)), rest : Seq(SUBSET (0..31)), t : 0..64]
  /\ Len(fips.W) = fips.t + 16
ShaTypeOK ==
  /\ words \in WordsOf(20) /\ hashes \in {2, 3} /\ block \in 0..(hashes + 1)
  /\ in \in WordsOf(16) /\ state \in WordsOf(8) /\ reg \in WordsOf(8) /\ step \in 0..64

\* The blocks to come.
RestIsPadding == fips.rest = IF block = 0 THEN SubSeq(Fips!Padded(words), 17, 32) ELSE <<>>

\* While the code is at a block, its variables are those of the standard.
RingIsSchedule == block <= hashes => InRing(in, fips.W, fips.t)

\* What the kernel looks at is a word of the chaining value and one that the standard
\* goes on moving through its last two rounds.
LastWordsMove ==
  block = hashes + 1 =>
    /\ fips.t \in 62..64
    /\ state[7] = Add(fips.hash[7], fips.v[fips.t - 57])
    /\ state[8] = Add(fips.hash[8], fips.v[fips.t - 56])

HashInv ==
  /\ ShaTypeOK /\ FipsTypeOK /\ IsSchedule(fips.W) /\ RingIsSchedule /\ RegistersAreFips
  /\ RestIsPadding /\ LastWordsMove

LEMMA Small ==
  /\ \A j \in 0..15 : j % 16 = j /\ j + 1 \in 1..16
  /\ \A p \in 0..7 : (p + 64 - 0) % 8 = p
  /\ \A a, b \in Int : a <= b => a # b + 1
OBVIOUS

LEMMA RingBegins ==
  ASSUME NEW dat, NEW m, Len(m) = 16, \A i \in 1..16 : dat[i] = m[i]
  PROVE  IsSchedule(m) /\ InRing(dat, m, 0)
<1>1. IsSchedule(m)
  BY DEF IsSchedule
<1>2. Held(0) = 0..15
  BY DEF Held
<1>3. \A j \in 0..15 : dat[(j % 16) + 1] = m[j + 1]
  BY Small
<1> QED BY <1>1, <1>2, <1>3 DEF InRing

LEMMA RegistersBegin ==
  ASSUME NEW hash
  PROVE  SameRegisters(hash, hash, 0)
BY Small DEF SameRegisters

\* A block begins: the sixteen words of the code are those of the standard, and its
\* registers and its chaining value are one.
LEMMA Begins ==
  ASSUME ShaTypeOK', block' <= hashes',
         NEW hash \in WordsOf(8), NEW dat \in WordsOf(16), NEW m \in Seq(SUBSET (0..31)), Len(m) = 16,
         \A i \in 1..16 : dat[i] = m[i], NEW rest \in Seq(SUBSET (0..31)),
         rest = IF block' = 0 THEN SubSeq(Fips!Padded(words'), 17, 32) ELSE <<>>,
         fips' = Begun(hash, m, rest), in' = dat, state' = hash, reg' = hash, step' = 0
  PROVE  HashInv'
<1>1. /\ fips'.v = hash /\ fips'.hash = hash /\ fips'.W = m /\ fips'.rest = rest /\ fips'.t = 0
      /\ FipsTypeOK'
  BY DEF Begun, FipsTypeOK
<1>2. IsSchedule(m) /\ InRing(dat, m, 0)
  BY RingBegins
<1>3. SameRegisters(hash, hash, 0)
  BY RegistersBegin
<1>4. RegistersAreFips'
  BY <1>1, <1>3 DEF RegistersAreFips, SameRegisters
<1>5. RestIsPadding'
  BY <1>1 DEF RestIsPadding
<1>6. RingIsSchedule'
  BY <1>1, <1>2 DEF RingIsSchedule
<1>7. LastWordsMove'
  <2>1. hashes' \in Int /\ block' \in Int
    BY DEF ShaTypeOK
  <2>2. block' # hashes' + 1
    BY <2>1, Small
  <2> QED BY <2>2 DEF LastWordsMove
<1> QED BY <1>1, <1>2, <1>4, <1>5, <1>6, <1>7 DEF HashInv

LEMMA RoundType ==
  ASSUME NEW v \in WordsOf(8), NEW w, NEW c
  PROVE  LET u == Fips!Round(v, w, c)
         IN  /\ u \in WordsOf(8)
             /\ u[2] = v[1] /\ u[3] = v[2] /\ u[4] = v[3] /\ u[6] = v[5] /\ u[7] = v[6] /\ u[8] = v[7]
<1> DEFINE T1 == Fips!Plus(Fips!Plus(Fips!Plus(Fips!Plus(v[8], Fips!Sigma1(v[5])), Fips!Ch(v[5], v[6], v[7])), c), w)
           T2 == Fips!Plus(Fips!Sigma0(v[1]), Fips!Maj(v[1], v[2], v[3]))
           u == Fips!Round(v, w, c)
           x == Fips!Plus(T1, T2)
           y == Fips!Plus(v[4], T1)
<1>1. u = <<x, v[1], v[2], v[3], y, v[5], v[6], v[7]>>
  BY DEF Fips!Round
<1>2. x \in SUBSET (0..31) /\ y \in SUBSET (0..31)
  BY PlusType
<1>3. \A i \in 1..8 : v[i] \in SUBSET (0..31)
  BY DEF WordsOf
<1> HIDE DEF u, x, y
<1>4. u[2] = v[1] /\ u[3] = v[2] /\ u[4] = v[3] /\ u[6] = v[5] /\ u[7] = v[6] /\ u[8] = v[7]
  BY <1>1
<1>5. \A i \in 1..8 : u[i] \in SUBSET (0..31)
  <2>1. u[1] = x /\ u[5] = y
    BY <1>1
  <2>2. ASSUME NEW i \in 1..8, i # 1, i # 5 PROVE \E j \in 1..8 : u[i] = v[j]
    <3>1. i \in {2, 3, 4, 6, 7, 8}
      BY <2>2
    <3> QED BY <1>4, <3>1
  <2> QED BY <1>2, <1>3, <2>1, <2>2
<1>6. u = [i \in 1..8 |-> u[i]]
  BY <1>1
<1>7. u \in WordsOf(8)
  BY <1>5, <1>6 DEF WordsOf
<1> QED BY <1>4, <1>7 DEF u

\* What a round of the standard does to its variables.
LEMMA RoundGoes ==
  ASSUME FipsTypeOK, IsSchedule(fips.W), FipsRound
  PROVE  /\ FipsTypeOK' /\ IsSchedule(fips.W)' /\ fips.t \in 0..63
         /\ fips'.t = fips.t + 1 /\ fips'.hash = fips.hash /\ fips'.rest = fips.rest
         /\ fips'.v = Fips!Round(fips.v, fips.W[fips.t + 1], K[fips.t + 1])
         /\ \A j \in 1..Len(fips.W) : fips'.W[j] = fips.W[j]
<1>1. /\ fips.v \in WordsOf(8) /\ fips.hash \in WordsOf(8) /\ fips.W \in Seq(SUBSET (0..31))
      /\ fips.rest \in Seq(SUBSET (0..31)) /\ fips.t \in 0..63 /\ Len(fips.W) = fips.t + 16
  BY DEF FipsTypeOK, FipsRound
<1>2. /\ fips.t \in Int /\ fips.t + 1 \in 0..64 /\ Len(fips.W) >= 16
      /\ Len(fips.W) = fips.t + 16 /\ Len(fips.W) + 1 = fips.t + 17 /\ (fips.t + 1) + 16 = fips.t + 17
  <2>1. fips.t \in 0..63 /\ Len(fips.W) = fips.t + 16
    BY <1>1
  <2> DEFINE k == fips.t
             n == Len(fips.W)
  <2>2. k \in 0..63 /\ n = k + 16
    BY <2>1
  <2> HIDE DEF k, n
  <2>3. k \in Int /\ k + 1 \in 0..64 /\ n >= 16 /\ n = k + 16 /\ n + 1 = k + 17 /\ (k + 1) + 16 = k + 17
    BY <2>2
  <2> QED BY <2>3 DEF k, n
<1> DEFINE k == fips.t
           V == Append(fips.W, Fips!Next(fips.W))
           u == Fips!Round(fips.v, fips.W[k + 1], K[k + 1])
<1>3. fips' = [fips EXCEPT !.t = k + 1, !.v = u, !.W = V]
  BY DEF FipsRound
<1>4. u \in WordsOf(8)
  BY <1>1, RoundType
<1>5. Fips!Next(fips.W) \in SUBSET (0..31)
  BY PlusType DEF Fips!Next
<1>6. V \in Seq(SUBSET (0..31)) /\ Len(V) = k + 17 /\ \A j \in 1..Len(fips.W) : V[j] = fips.W[j]
  <2>1. V \in Seq(SUBSET (0..31)) /\ Len(V) = Len(fips.W) + 1 /\ \A j \in 1..Len(fips.W) : V[j] = fips.W[j]
    BY <1>1, <1>5, Appended
  <2> QED BY <1>2, <2>1
<1>7. IsSchedule(V)
  <2>1. Len(fips.W) >= 16
    BY <1>2
  <2> QED BY <1>1, <2>1, ScheduleGrows
<1> HIDE DEF V, u
<1>8. fips'.t = k + 1 /\ fips'.v = u /\ fips'.W = V /\ fips'.hash = fips.hash /\ fips'.rest = fips.rest
  BY <1>3 DEF FipsTypeOK
<1>9. FipsTypeOK'
  <2>1. fips' \in [v : WordsOf(8), hash : WordsOf(8), W : Seq(SUBSET (0..31)), rest : Seq(SUBSET (0..31)), t : 0..64]
    <3>1. k + 1 \in 0..64
      BY <1>2
    <3> QED BY <1>3, <1>4, <1>6, <3>1 DEF FipsTypeOK
  <2>2. Len(fips'.W) = fips'.t + 16
    BY <1>2, <1>6, <1>8
  <2> QED BY <2>1, <2>2 DEF FipsTypeOK
<1> QED BY <1>1, <1>6, <1>7, <1>8, <1>9 DEF u

LEMMA HeldBefore ==
  ASSUME NEW k \in 0..63, NEW j \in Held(k + 1)
  PROVE  j + 1 \in 1..(k + 16)
BY DEF Held

LEMMA RingKept ==
  ASSUME NEW k \in 0..63, NEW w, NEW W, NEW V, Len(W) = k + 16, \A j \in 1..Len(W) : V[j] = W[j], InRing(w, W, k + 1)
  PROVE  InRing(w, V, k + 1)
<1> SUFFICES ASSUME NEW j \in Held(k + 1) PROVE w[(j % 16) + 1] = V[j + 1]
  BY DEF InRing
<1>1. j + 1 \in 1..Len(W)
  BY HeldBefore, Zenon
<1>2. w[(j % 16) + 1] = W[j + 1]
  BY DEF InRing
<1> QED BY <1>1, <1>2

\* A step of the code in any of its blocks and a round of the standard.
LEMMA GoesOn ==
  ASSUME HashInv, block <= hashes, NEW n \in 0..64, StepOf(n), FipsRound
  PROVE  HashInv'
<1>1. /\ ShaTypeOK /\ FipsTypeOK /\ IsSchedule(fips.W) /\ InRing(in, fips.W, fips.t)
      /\ step = fips.t /\ state = fips.hash /\ SameRegisters(reg, fips.v, fips.t)
      /\ fips.rest = IF block = 0 THEN SubSeq(Fips!Padded(words), 17, 32) ELSE <<>>
  BY DEF HashInv, RingIsSchedule, RegistersAreFips, RestIsPadding, SameRegisters
<1> DEFINE k == fips.t
<1>2. /\ FipsTypeOK' /\ IsSchedule(fips.W)' /\ k \in 0..63
      /\ fips'.t = k + 1 /\ fips'.hash = fips.hash /\ fips'.rest = fips.rest
      /\ fips'.v = Fips!Round(fips.v, fips.W[k + 1], K[k + 1])
      /\ \A j \in 1..Len(fips.W) : fips'.W[j] = fips.W[j]
  BY <1>1, RoundGoes
<1>3. /\ words \in WordsOf(20) /\ hashes \in {2, 3} /\ block \in 0..(hashes + 1)
      /\ in \in WordsOf(16) /\ state \in WordsOf(8) /\ reg \in WordsOf(8)
      /\ fips.v \in WordsOf(8) /\ fips.W \in Seq(SUBSET (0..31)) /\ Len(fips.W) = k + 16
  BY <1>1 DEF ShaTypeOK, FipsTypeOK
<1>4. /\ in' = Scheduled(in, k) /\ reg' = Stepped(reg, k, in'[(k % 16) + 1]) /\ step' = k + 1
      /\ UNCHANGED <<words, hashes, block, state>>
  BY <1>1 DEF StepOf
<1> HIDE DEF k
<1>5. in' \in WordsOf(16) /\ in'[(k % 16) + 1] = fips.W[k + 1] /\ InRing(in', fips.W, k + 1)
  BY <1>1, <1>2, <1>3, <1>4, RingTurns DEF k
<1>6. reg' \in WordsOf(8) /\ SameRegisters(reg', fips'.v, k + 1)
  <2> DEFINE w == fips.W[k + 1]
  <2>1. reg' = Stepped(reg, k, w) /\ fips'.v = Fips!Round(fips.v, w, K[k + 1])
    BY <1>2, <1>4, <1>5
  <2>2. SameRegisters(reg, fips.v, k)
    BY <1>1 DEF k
  <2> HIDE DEF w
  <2> QED BY <1>2, <1>3, <2>1, <2>2, StepIsRound
<1>7. InRing(in', fips'.W, k + 1)
  BY <1>2, <1>3, <1>5, RingKept
<1>8. ShaTypeOK'
  <2>1. k + 1 \in 0..64
    BY <1>2
  <2> QED BY <1>3, <1>4, <1>5, <1>6, <2>1 DEF ShaTypeOK
<1>9. RegistersAreFips'
  BY <1>1, <1>2, <1>4, <1>6 DEF RegistersAreFips, SameRegisters
<1>10. RingIsSchedule' /\ RestIsPadding'
  BY <1>1, <1>2, <1>4, <1>7 DEF RingIsSchedule, RestIsPadding
<1>11. LastWordsMove'
  <2>1. hashes \in Int /\ block \in Int
    BY <1>3
  <2>2. block # hashes + 1
    BY <2>1, Small
  <2> QED BY <1>4, <2>2 DEF LastWordsMove
<1> QED BY <1>2, <1>8, <1>9, <1>10, <1>11 DEF HashInv

LEMMA HashInit ==
  ASSUME HeaderInit([1..20 -> SUBSET (0..31)])
  PROVE  HashInv
<1> DEFINE dat == [i \in 1..16 |-> Swab(EndianData[i])]
           m == SubSeq(words, 1, 16)
           rest == SubSeq(Fips!Padded(words), 17, 32)
<1>1. /\ words \in WordsOf(20) /\ hashes \in {2, 3} /\ block = 0 /\ step = 0
      /\ in = dat /\ state = H256 /\ reg = H256 /\ fips = Begun(H256, m, rest)
  BY DEF HeaderInit, ShaInit, WordsOf
<1>2. dat \in WordsOf(16) /\ m \in Seq(SUBSET (0..31)) /\ Len(m) = 16 /\ \A i \in 1..16 : dat[i] = m[i]
  BY <1>1, Beginning
<1>3. rest \in Seq(SUBSET (0..31))
  <2> DEFINE e == Dat80([i \in 1..4 |-> Swab(EndianData[16 + i])])
             n == 16
  <2>1. e \in WordsOf(n) /\ e = rest
    BY <1>1, EndIsPadded
  <2>2. n \in Nat
    OBVIOUS
  <2> HIDE DEF e, n, rest
  <2> QED BY <2>1, <2>2, WordsAreSeq
<1> HIDE DEF dat, m, rest
<1>4. /\ fips.v = H256 /\ fips.hash = H256 /\ fips.W = m /\ fips.rest = rest /\ fips.t = 0
      /\ fips = [v |-> H256, hash |-> H256, W |-> m, rest |-> rest, t |-> 0]
  BY <1>1 DEF Begun
<1>5. FipsTypeOK
  <2>1. fips.t \in 0..64 /\ fips.t + 16 = 16
    BY <1>4
  <2> QED BY <1>2, <1>3, <1>4, <2>1, H256Type DEF FipsTypeOK
<1>6. ShaTypeOK
  <2>1. 0 \in 0..64 /\ 0 \in 0..(hashes + 1)
    BY <1>1
  <2> QED BY <1>1, <1>2, <2>1, H256Type DEF ShaTypeOK
<1>7. IsSchedule(fips.W) /\ RingIsSchedule
  BY <1>1, <1>2, <1>4, RingBegins DEF RingIsSchedule
<1>8. RegistersAreFips
  BY <1>1, <1>4, RegistersBegin DEF RegistersAreFips, SameRegisters
<1>9. RestIsPadding
  BY <1>1, <1>4 DEF RestIsPadding, rest
<1>10. LastWordsMove
  BY <1>1 DEF LastWordsMove
<1> QED BY <1>5, <1>6, <1>7, <1>8, <1>9, <1>10 DEF HashInv

\* At the end of a block the sums of the code are the digest of the standard.
LEMMA SumsAreDigest ==
  ASSUME HashInv, block <= hashes, step = 64
  PROVE  Sums(state, reg) = Digest /\ Digest \in WordsOf(8)
<1>1. /\ step = fips.t /\ state = fips.hash
      /\ \A p \in 0..7 : reg[((p + 64 - step) % 8) + 1] = fips.v[p + 1]
  BY DEF HashInv, RegistersAreFips
<1>2. \A i \in 1..8 : reg[i] = fips.v[i]
  <2> TAKE i \in 1..8
  <2>1. i - 1 \in 0..7 /\ (((i - 1) + 64 - 64) % 8) + 1 = i /\ (i - 1) + 1 = i
    OBVIOUS
  <2> QED BY <1>1, <2>1
<1>3. Sums(state, reg) \in WordsOf(8) /\ \A i \in 1..8 : Sums(state, reg)[i] = Fips!Plus(state[i], reg[i])
  BY SumsAreWords
<1>4. Sums(state, reg) = [i \in 1..8 |-> Fips!Plus(state[i], reg[i])]
  BY <1>3 DEF WordsOf
<1> QED BY <1>1, <1>2, <1>3, <1>4 DEF Digest

LEMMA BlockStep ==
  ASSUME HashInv, BlockSet
  PROVE  HashInv'
<1> DEFINE dat == Dat80([i \in 1..4 |-> Swab(EndianData[16 + i])])
           none == <<>>
<1>1. /\ words \in WordsOf(20) /\ hashes \in {2, 3}
      /\ fips.rest = IF block = 0 THEN SubSeq(Fips!Padded(words), 17, 32) ELSE <<>>
  BY DEF HashInv, ShaTypeOK, RestIsPadding
<1>2. /\ block = 0 /\ step = 64 /\ block' = 1 /\ words' = words /\ hashes' = hashes
      /\ in' = dat /\ state' = Sums(state, reg) /\ reg' = Sums(state, reg) /\ step' = 0
      /\ FipsBlock
  BY DEF BlockSet, SetBlock, Fill
<1>3. dat \in WordsOf(16) /\ dat = fips.rest
  BY <1>1, <1>2, EndIsPadded
<1>4. block <= hashes /\ block' <= hashes' /\ 0 \in 0..64 /\ block' \in 0..(hashes' + 1) /\ block' # 0
  BY <1>1, <1>2
<1>5. state' = Digest /\ reg' = Digest /\ Digest \in WordsOf(8)
  BY <1>2, <1>4, SumsAreDigest
<1> HIDE DEF dat
<1>6. dat \in Seq(SUBSET (0..31)) /\ Len(dat) = 16
  <2> DEFINE n == 16
  <2>1. dat \in WordsOf(n) /\ n \in Nat
    BY <1>3
  <2> HIDE DEF n
  <2>2. dat \in Seq(SUBSET (0..31)) /\ Len(dat) = n
    BY <2>1, WordsAreSeq
  <2> QED BY <2>2 DEF n
<1>7. fips.rest # <<>>
  <2>1. Len(<<>>) = 0
    OBVIOUS
  <2>2. Len(dat) # Len(<<>>)
    BY <1>6, <2>1
  <2>3. dat # <<>>
    BY <2>2
  <2> QED BY <1>3, <2>3
<1>8. fips' = Begun(Digest, dat, none)
  BY <1>2, <1>3, <1>7 DEF FipsBlock
<1>9. ShaTypeOK'
  BY <1>1, <1>2, <1>3, <1>4, <1>5 DEF ShaTypeOK
<1>10. none \in Seq(SUBSET (0..31)) /\ none = IF block' = 0 THEN SubSeq(Fips!Padded(words'), 17, 32) ELSE <<>>
  BY <1>4
<1>11. \A i \in 1..16 : dat[i] = dat[i]
  OBVIOUS
<1> HIDE DEF none
<1> DEFINE d == Digest
<1>12. d \in WordsOf(8) /\ fips' = Begun(d, dat, none) /\ state' = d /\ reg' = d
  BY <1>5, <1>8
<1> HIDE DEF d
<1> QED BY <1>2, <1>3, <1>4, <1>6, <1>9, <1>10, <1>11, <1>12, Begins

LEMMA HashStep ==
  ASSUME HashInv, HashedOn
  PROVE  HashInv'
<1> DEFINE d == Sums(state, reg)
           dat == DatDigest(d)
           none == <<>>
           h == H256
<1>1. /\ words \in WordsOf(20) /\ hashes \in {2, 3}
      /\ fips.rest = IF block = 0 THEN SubSeq(Fips!Padded(words), 17, 32) ELSE <<>>
  BY DEF HashInv, ShaTypeOK, RestIsPadding
<1>2. /\ block \in 1..(hashes - 1) /\ step = 64 /\ block' = block + 1 /\ words' = words /\ hashes' = hashes
      /\ in' = dat /\ state' = h /\ reg' = h /\ step' = 0
      /\ FipsBlock
  BY DEF HashedOn, NextHash, Fill
<1>3. block # 0 /\ block <= hashes /\ block' <= hashes' /\ 0 \in 0..64 /\ block' \in 0..(hashes' + 1) /\ block' # 0
  BY <1>1, <1>2
<1>4. d = Digest /\ d \in WordsOf(8)
  BY <1>2, <1>3, SumsAreDigest
<1> HIDE DEF d
<1>5. dat \in WordsOf(16) /\ dat = Fips!Padded(d)
  BY <1>4, DigestIsPadded
<1>6. fips' = Begun(h, dat, none)
  BY <1>1, <1>2, <1>3, <1>4, <1>5 DEF FipsBlock
<1>7. h \in WordsOf(8)
  BY H256Type
<1> HIDE DEF dat, h
<1>8. dat \in Seq(SUBSET (0..31)) /\ Len(dat) = 16
  <2> DEFINE n == 16
  <2>1. dat \in WordsOf(n) /\ n \in Nat
    BY <1>5
  <2> HIDE DEF n
  <2>2. dat \in Seq(SUBSET (0..31)) /\ Len(dat) = n
    BY <2>1, WordsAreSeq
  <2> QED BY <2>2 DEF n
<1>9. ShaTypeOK'
  BY <1>1, <1>2, <1>3, <1>5, <1>7 DEF ShaTypeOK
<1>10. none \in Seq(SUBSET (0..31)) /\ none = IF block' = 0 THEN SubSeq(Fips!Padded(words'), 17, 32) ELSE <<>>
  BY <1>3
<1>11. \A i \in 1..16 : dat[i] = dat[i]
  OBVIOUS
<1> HIDE DEF none
<1> QED BY <1>2, <1>3, <1>5, <1>6, <1>7, <1>8, <1>9, <1>10, <1>11, Begins

LEMMA LastStepOf ==
  ASSUME HashInv, Hashed
  PROVE  HashInv'
<1>1. /\ ShaTypeOK /\ FipsTypeOK /\ IsSchedule(fips.W) /\ RegistersAreFips /\ RestIsPadding
  BY DEF HashInv
<1>2. /\ block = hashes /\ step = 62 /\ fips' = fips /\ words' = words /\ hashes' = hashes
      /\ in' = in /\ reg' = reg /\ step' = step /\ block' = hashes + 1
      /\ state' = [state EXCEPT ![7] = Add(@, reg[7]), ![8] = Add(@, reg[8])]
  BY DEF Hashed, LastHash, LastSteps
<1>3. hashes \in {2, 3} /\ block <= hashes /\ block # 0 /\ block' # 0 /\ ~(block' <= hashes') /\ block' \in 0..(hashes' + 1)
  BY <1>1, <1>2 DEF ShaTypeOK
<1>4. /\ step = fips.t /\ state = fips.hash
      /\ \A p \in 0..7 : reg[((p + 64 - step) % 8) + 1] = fips.v[p + 1]
  BY <1>1, <1>3 DEF RegistersAreFips
<1>5. reg[7] = fips.v[5] /\ reg[8] = fips.v[6]
  <2>1. /\ ((4 + 64 - 62) % 8) + 1 = 7 /\ ((5 + 64 - 62) % 8) + 1 = 8 /\ 4 \in 0..7 /\ 5 \in 0..7
        /\ 4 + 1 = 5 /\ 5 + 1 = 6
    OBVIOUS
  <2> QED BY <1>2, <1>4, <2>1
<1>6. state \in WordsOf(8)
  BY <1>1 DEF ShaTypeOK
<1>7. state'[7] = Add(state[7], reg[7]) /\ state'[8] = Add(state[8], reg[8]) /\ state' \in WordsOf(8)
  <2>1. Add(state[7], reg[7]) \in SUBSET (0..31) /\ Add(state[8], reg[8]) \in SUBSET (0..31)
    BY PlusIsAdd
  <2> QED BY <1>2, <1>6, <2>1 DEF WordsOf
<1>8. LastWordsMove'
  <2>1. fips.t \in 62..64 /\ fips.t - 57 = 5 /\ fips.t - 56 = 6
    BY <1>2, <1>4
  <2> QED BY <1>2, <1>4, <1>5, <1>7, <2>1 DEF LastWordsMove
<1>9. ShaTypeOK'
  BY <1>1, <1>2, <1>3, <1>7 DEF ShaTypeOK
<1>10. FipsTypeOK' /\ IsSchedule(fips.W)'
  BY <1>1, <1>2 DEF FipsTypeOK, IsSchedule, NextOf
<1>11. RestIsPadding'
  BY <1>1, <1>2, <1>3 DEF RestIsPadding
<1>12. RegistersAreFips' /\ RingIsSchedule'
  BY <1>3 DEF RegistersAreFips, RingIsSchedule
<1> QED BY <1>8, <1>9, <1>10, <1>11, <1>12 DEF HashInv

LEMMA AloneStep ==
  ASSUME HashInv, FipsAlone
  PROVE  HashInv'
<1>1. /\ ShaTypeOK /\ FipsTypeOK /\ IsSchedule(fips.W) /\ RestIsPadding /\ LastWordsMove
  BY DEF HashInv
<1>2. /\ block = hashes + 1 /\ FipsRound /\ words' = words /\ hashes' = hashes /\ block' = block
      /\ in' = in /\ state' = state /\ reg' = reg /\ step' = step
  BY DEF FipsAlone, shaVars
<1>3. hashes \in {2, 3} /\ block' # 0 /\ block # 0 /\ ~(block' <= hashes')
  BY <1>1, <1>2 DEF ShaTypeOK
<1>4. /\ FipsTypeOK' /\ IsSchedule(fips.W)' /\ fips.t \in 0..63
      /\ fips'.t = fips.t + 1 /\ fips'.hash = fips.hash /\ fips'.rest = fips.rest
      /\ fips'.v = Fips!Round(fips.v, fips.W[fips.t + 1], K[fips.t + 1])
  BY <1>1, <1>2, RoundGoes
<1>5. fips'.v[6] = fips.v[5] /\ fips'.v[7] = fips.v[6] /\ fips'.v[8] = fips.v[7]
  <2>1. fips.v \in WordsOf(8)
    BY <1>1 DEF FipsTypeOK
  <2> QED BY <1>4, <2>1, RoundType
<1>6. fips.t \in 62..64 /\ state[7] = Add(fips.hash[7], fips.v[fips.t - 57]) /\ state[8] = Add(fips.hash[8], fips.v[fips.t - 56])
  BY <1>1, <1>2 DEF LastWordsMove
<1>7. fips'.t \in 62..64 /\ fips'.v[fips'.t - 57] = fips.v[fips.t - 57] /\ fips'.v[fips'.t - 56] = fips.v[fips.t - 56]
  <2>1. CASE fips.t = 62
    <3>1. fips'.t = 63 /\ 62 - 57 = 5 /\ 62 - 56 = 6 /\ 63 - 57 = 6 /\ 63 - 56 = 7 /\ 63 \in 62..64
      BY <1>4, <2>1
    <3> QED BY <1>5, <2>1, <3>1
  <2>2. CASE fips.t = 63
    <3>1. fips'.t = 64 /\ 64 - 57 = 7 /\ 64 - 56 = 8 /\ 63 - 57 = 6 /\ 63 - 56 = 7 /\ 64 \in 62..64
      BY <1>4, <2>2
    <3> QED BY <1>5, <2>2, <3>1
  <2>3. fips.t = 62 \/ fips.t = 63
    BY <1>4, <1>6
  <2> QED BY <2>1, <2>2, <2>3
<1>8. LastWordsMove'
  BY <1>2, <1>4, <1>6, <1>7 DEF LastWordsMove
<1>9. ShaTypeOK'
  BY <1>1, <1>2 DEF ShaTypeOK
<1>10. RestIsPadding'
  BY <1>1, <1>2, <1>3, <1>4 DEF RestIsPadding
<1>11. RegistersAreFips' /\ RingIsSchedule'
  BY <1>3 DEF RegistersAreFips, RingIsSchedule
<1> QED BY <1>4, <1>8, <1>9, <1>10, <1>11 DEF HashInv

LEMMA HashNext ==
  ASSUME HashInv, [HeaderNext]_<<shaVars, fips>>
  PROVE  HashInv'
<1>1. CASE HostStepped \/ BodyStepped \/ LastStepped
  <2>1. FipsRound /\ \E n \in 0..64 : StepOf(n) /\ block <= hashes
    <3>1. hashes \in {2, 3}
      BY DEF HashInv, ShaTypeOK
    <3>2. 64 \in 0..64 /\ LastSteps \in 0..64
      BY DEF LastSteps
    <3>3. CASE HostStepped
      BY <3>1, <3>2, <3>3 DEF HostStepped, HostStep
    <3>4. CASE BodyStepped
      <4>1. block <= hashes
        BY <3>1, <3>4 DEF BodyStepped, BodyStep
      <4> QED BY <3>2, <3>4, <4>1 DEF BodyStepped, BodyStep
    <3>5. CASE LastStepped
      <4>1. block <= hashes
        BY <3>1, <3>5 DEF LastStepped, LastStep
      <4> QED BY <3>2, <3>5, <4>1 DEF LastStepped, LastStep
    <3> QED BY <1>1, <3>3, <3>4, <3>5
  <2> QED BY <2>1, GoesOn
<1>2. CASE BlockSet
  BY <1>2, BlockStep
<1>3. CASE HashedOn
  BY <1>3, HashStep
<1>4. CASE Hashed
  BY <1>4, LastStepOf
<1>5. CASE FipsAlone
  BY <1>5, AloneStep
<1>6. CASE UNCHANGED <<shaVars, fips>>
  BY <1>6 DEF HashInv, ShaTypeOK, FipsTypeOK, IsSchedule, NextOf, RingIsSchedule, InRing, RegistersAreFips,
     RestIsPadding, LastWordsMove, shaVars
<1> QED BY <1>1, <1>2, <1>3, <1>4, <1>5, <1>6 DEF HeaderNext

LEMMA HashIsRight ==
  ASSUME HashInv
  PROVE  RegistersAreFips /\ LastWordsAreRight
<1>1. RegistersAreFips
  BY DEF HashInv
<1>2. ASSUME block = hashes + 1, fips.t = 64 PROVE state[7] = Digest[7] /\ state[8] = Digest[8]
  <2>1. state[7] = Add(fips.hash[7], fips.v[fips.t - 57]) /\ state[8] = Add(fips.hash[8], fips.v[fips.t - 56])
    BY <1>2 DEF HashInv, LastWordsMove
  <2>2. fips.t - 57 = 7 /\ fips.t - 56 = 8 /\ 7 \in 1..8 /\ 8 \in 1..8
    BY <1>2
  <2>3. Digest[7] = Fips!Plus(fips.hash[7], fips.v[7]) /\ Digest[8] = Fips!Plus(fips.hash[8], fips.v[8])
    BY <2>2 DEF Digest
  <2> QED BY <2>1, <2>2, <2>3, PlusIsAdd
<1> QED BY <1>1, <1>2 DEF LastWordsAreRight

\* Whatever the header, one thread of the kernels, from the host's first block to the two
\* words it compares, goes from step to step as the SHA-256 of FIPS 180-4 does, the
\* rounds that its last block leaves out included; and whatever the digest and the
\* target, its filter passes what the host accepts (cuda_sha256t.cu, cuda_sha256d.cu).
THEOREM Sha256Keeps == HeaderSpec /\ []IsInput => []Sha256IsFips180
<1>1. HeaderInit([1..20 -> SUBSET (0..31)]) => HashInv
  BY HashInit
<1>2. HashInv /\ [HeaderNext]_<<shaVars, fips>> => HashInv'
  BY HashNext
<1>3. HashInv => RegistersAreFips /\ LastWordsAreRight
  BY HashIsRight
<1>4. IsInput => FilterIsThatOfTheHost
  BY FilterCorrect
<1>5. HashInv /\ IsInput => Sha256IsFips180
  BY <1>3, <1>4 DEF Sha256IsFips180
<1> QED BY <1>1, <1>2, <1>5, PTL DEF HeaderSpec

-----------------------------------------------------------------------------
(* Where the lanes of a state come from, and by how much they are turned.  *)

From == <<1, 7, 13, 19, 25, 4, 10, 11, 17, 23, 2, 8, 14, 20, 21, 5, 6, 12, 18, 24, 3, 9, 15, 16, 22>>
Off == <<0, 44, 43, 21, 14, 28, 20, 3, 45, 61, 1, 6, 25, 8, 18, 27, 36, 10, 15, 56, 62, 55, 39, 41, 2>>

\* The turn of rho and pi that sets a lane, and the move of the kernel that does.
SetBy == <<0, 24, 18, 6, 12, 7, 23, 2, 9, 22, 1, 3, 17, 16, 20, 13, 8, 4, 5, 15, 19, 10, 21, 14, 11>>
MovedBy == <<0, 1, 7, 19, 13, 18, 2, 23, 16, 3, 0, 22, 8, 9, 5, 12, 17, 21, 20, 10, 6, 15, 4, 11, 14>>

LEMMA Tables ==
    ASSUME NEW p \in 1..25
    PROVE  /\ From[p] \in 1..25 /\ Off[p] \in 0..63
           /\ SetBy[p] \in 0..24 /\ MovedBy[p] \in 0..23
BY DEF From, Off, SetBy, MovedBy

LEMMA TurnSets ==
    ASSUME NEW k \in 1..24
    PROVE  /\ Sponge!Pi[k] + 1 \in 1..25
           /\ SetBy[Sponge!Pi[k] + 1] = k
           /\ From[Sponge!Pi[k] + 1] = IF k = 1 THEN 2 ELSE Sponge!Pi[k - 1] + 1
           /\ Off[Sponge!Pi[k] + 1] = Sponge!Rho[k]
BY DEF Sponge!Pi, Sponge!Rho, SetBy, From, Off

LEMMA SetByTurn ==
    ASSUME NEW p \in 1..25, p # 1
    PROVE  SetBy[p] \in 1..24 /\ Sponge!Pi[SetBy[p]] + 1 = p
BY DEF Sponge!Pi, SetBy

LEMMA MoveSets ==
    ASSUME NEW k \in 1..23
    PROVE  /\ Sponge!Moves[k][1] + 1 \in 1..25
           /\ MovedBy[Sponge!Moves[k][1] + 1] = k
           /\ From[Sponge!Moves[k][1] + 1] = Sponge!Moves[k][2] + 1
           /\ Off[Sponge!Moves[k][1] + 1] = Sponge!Moves[k][3]
           /\ Sponge!Moves[k][2] \in 1..24
           /\ MovedBy[Sponge!Moves[k][2] + 1] = IF k < 23 THEN k + 1 ELSE 0
BY DEF Sponge!Moves, MovedBy, From, Off

LEMMA MovedByMove ==
    ASSUME NEW p \in 1..25, p # 1, p # 11
    PROVE  MovedBy[p] \in 1..23 /\ Sponge!Moves[MovedBy[p]][1] + 1 = p
BY DEF Sponge!Moves, MovedBy

-----------------------------------------------------------------------------
(* Rho and pi, in place.                                                   *)

TurnedLanes(a, k) ==
    [p \in 1..25 |-> IF 1 <= SetBy[p] /\ SetBy[p] <= k THEN Sponge!Rol(a[From[p]], Off[p]) ELSE a[p]]
LaneAfter(a, k) == IF k = 0 THEN a[2] ELSE a[Sponge!Pi[k] + 1]
AfterTurns(a, k) == [a |-> TurnedLanes(a, k), t |-> LaneAfter(a, k)]
OneTurn(at, x) ==
    [a |-> [at.a EXCEPT ![Sponge!Pi[x] + 1] = Sponge!Rol(at.t, Sponge!Rho[x])], t |-> Sponge!At(at.a, Sponge!Pi[x])]

LEMMA NoTurn ==
    ASSUME NEW a \in Sponge!State
    PROVE  AfterTurns(a, 0) = [a |-> a, t |-> Sponge!At(a, 1)]
<1>1. \A p \in 1..25 : ~(1 <= SetBy[p] /\ SetBy[p] <= 0)
  BY Tables
<1>2. TurnedLanes(a, 0) = [p \in 1..25 |-> a[p]]
  BY <1>1, Zenon DEF TurnedLanes
<1>3. a = [p \in 1..25 |-> a[p]]
  BY Zenon DEF Sponge!State
<1>4. LaneAfter(a, 0) = Sponge!At(a, 1)
  BY DEF LaneAfter, Sponge!At
<1> QED BY <1>2, <1>3, <1>4, Zenon DEF AfterTurns

LEMMA NextTurn ==
    ASSUME NEW a \in Sponge!State, NEW k \in 1..24
    PROVE  AfterTurns(a, k) = OneTurn(AfterTurns(a, k - 1), k)
<1> DEFINE q == Sponge!Pi[k] + 1
           r == Sponge!Rho[k]
           old == TurnedLanes(a, k - 1)
           new == TurnedLanes(a, k)
           t == LaneAfter(a, k - 1)
<1>1. q \in 1..25 /\ SetBy[q] = k /\ From[q] = (IF k = 1 THEN 2 ELSE Sponge!Pi[k - 1] + 1) /\ Off[q] = r
  BY TurnSets
<1>2. t = a[From[q]]
  BY <1>1 DEF LaneAfter
<1>3. new[q] = Sponge!Rol(t, r)
  <2>1. new[q] = Sponge!Rol(a[From[q]], Off[q])
    BY <1>1 DEF TurnedLanes
  <2> QED BY <1>1, <1>2, <2>1
<1>4. ASSUME NEW p \in 1..25, p # q PROVE new[p] = old[p]
  <2>1. SetBy[p] # k
    <3>1. CASE p = 1
      BY <3>1 DEF SetBy
    <3>2. CASE p # 1
      BY <3>2, <1>4, SetByTurn
    <3> QED BY <3>1, <3>2
  <2>2. SetBy[p] \in 0..24
    BY Tables
  <2>3. 1 <= SetBy[p] /\ SetBy[p] <= k <=> 1 <= SetBy[p] /\ SetBy[p] <= k - 1
    <3> DEFINE u == SetBy[p]
    <3>1. u \in Int /\ u # k
      BY <2>1, <2>2
    <3> HIDE DEF u
    <3>2. 1 <= u /\ u <= k <=> 1 <= u /\ u <= k - 1
      BY <3>1
    <3> QED BY <3>2 DEF u
  <2> QED BY <2>3, Zenon DEF TurnedLanes
<1>5. old[q] = a[q]
  BY <1>1 DEF TurnedLanes
<1>6. DOMAIN old = 1..25 /\ DOMAIN new = 1..25 /\ new = [p \in 1..25 |-> new[p]] /\ old = [p \in 1..25 |-> old[p]]
  BY Zenon DEF TurnedLanes
<1> HIDE DEF q, r, old, new, t
<1>7. new = [old EXCEPT ![q] = Sponge!Rol(t, r)]
  BY <1>3, <1>4, <1>6, Zenon
<1>8. LaneAfter(a, k) = a[q]
  BY DEF LaneAfter, q
<1>9. AfterTurns(a, k - 1).a = old /\ AfterTurns(a, k - 1).t = t
  BY DEF AfterTurns, old, t
<1>10. AfterTurns(a, k) = [a |-> new, t |-> old[q]]
  BY <1>5, <1>8, Zenon DEF AfterTurns, new
<1> QED BY <1>7, <1>9, <1>10, Zenon DEF OneTurn, Sponge!At, q, r

LEMMA TurnedIs ==
    ASSUME NEW a \in Sponge!State
    PROVE  \A k \in 0..24 : Sponge!Turned(a)[k] = AfterTurns(a, k)
<1> DEFINE body(f, x) == IF x = 0 THEN [a |-> a, t |-> Sponge!At(a, 1)]
                         ELSE LET at == f[x - 1] IN
                              [a |-> [at.a EXCEPT ![Sponge!Pi[x] + 1] = Sponge!Rol(at.t, Sponge!Rho[x])],
                               t |-> Sponge!At(at.a, Sponge!Pi[x])]
           f == CHOOSE f : f = [x \in 0..24 |-> body(f, x)]
           g == [x \in 0..24 |-> AfterTurns(a, x)]
           S == {k \in 0..24 : f[k] = g[k]}
<1>1. Sponge!Turned(a) = f
  BY DEF Sponge!Turned
<1>2. \A h : \A x \in 1..24 : body(h, x) = OneTurn(h[x - 1], x)
  <2>1. \A x \in 1..24 : x # 0
    OBVIOUS
  <2> QED BY <2>1, Zenon DEF OneTurn
<1>3. \A h : body(h, 0) = AfterTurns(a, 0)
  BY NoTurn, Zenon
<1>4. \A x \in 1..24 : x - 1 \in 0..24 /\ AfterTurns(a, x) = OneTurn(g[x - 1], x)
  BY NextTurn
<1> HIDE DEF body
<1>5. ASSUME NEW x \in 0..24 PROVE g[x] = body(g, x)
  <2>1. CASE x = 0
    BY <1>3, <2>1
  <2>2. CASE x # 0
    <3>1. x \in 1..24
      BY <2>2
    <3> HIDE DEF g
    <3>2. body(g, x) = AfterTurns(a, x)
      BY <1>2, <1>4, <3>1, Zenon
    <3> QED BY <3>2 DEF g
  <2> QED BY <2>1, <2>2
<1>6. g = [x \in 0..24 |-> body(g, x)]
  <2> DEFINE h == [x \in 0..24 |-> body(g, x)]
  <2>1. \A x \in 0..24 : g[x] = h[x]
    BY <1>5, Zenon
  <2> QED BY <2>1, Zenon
<1>7. f = [x \in 0..24 |-> body(f, x)]
  <2> HIDE DEF g
  <2> QED BY <1>6, Zenon
<1> HIDE DEF f
<1>8. f[0] = g[0]
  BY <1>3, <1>7
<1>9. ASSUME NEW k \in 0..23, f[k] = g[k] PROVE f[k + 1] = g[k + 1]
  <2>1. k + 1 \in 1..24 /\ k + 1 \in 0..24 /\ (k + 1) - 1 = k
    OBVIOUS
  <2>2. f[k + 1] = body(f, k + 1)
    BY <1>7, <2>1, Zenon
  <2>3. body(f, k + 1) = OneTurn(f[k], k + 1)
    BY <1>2, <2>1
  <2>4. g[k + 1] = OneTurn(g[k], k + 1)
    BY <1>4, <2>1
  <2> QED BY <1>9, <2>2, <2>3, <2>4, Zenon
<1>10. 0 \in S /\ \A k \in 0..(24 - 1) : k \in S => k + 1 \in S
  <2> HIDE DEF g
  <2> QED BY <1>8, <1>9
<1>11. 0..24 \subseteq S
  <2> HIDE DEF S
  <2> QED BY <1>10, Induct
<1> QED BY <1>1, <1>11, Zenon

LEMMA RhoPiIs ==
    ASSUME NEW a \in Sponge!State
    PROVE  Sponge!RhoPi(a) = [p \in 1..25 |-> IF p = 1 THEN a[1] ELSE Sponge!Rol(a[From[p]], Off[p])]
<1>1. Sponge!RhoPi(a) = AfterTurns(a, 24).a
  <2>1. 24 \in 0..24
    OBVIOUS
  <2> QED BY <2>1, TurnedIs, Zenon DEF Sponge!RhoPi
<1>2. AfterTurns(a, 24).a = TurnedLanes(a, 24)
  BY DEF AfterTurns
<1>3. \A p \in 1..25 : 1 <= SetBy[p] /\ SetBy[p] <= 24 <=> p # 1
  <2> TAKE p \in 1..25
  <2>1. CASE p = 1
    BY <2>1 DEF SetBy
  <2>2. CASE p # 1
    BY <2>2, SetByTurn
  <2> QED BY <2>1, <2>2
<1>4. ASSUME NEW p \in 1..25
      PROVE  (IF 1 <= SetBy[p] /\ SetBy[p] <= 24 THEN Sponge!Rol(a[From[p]], Off[p]) ELSE a[p])
             = IF p = 1 THEN a[1] ELSE Sponge!Rol(a[From[p]], Off[p])
  BY <1>3, Zenon
<1> QED BY <1>1, <1>2, <1>4, Zenon DEF TurnedLanes

-----------------------------------------------------------------------------
(* A round, lane by lane: what each of the four rounds is.                 *)

Fed(a, x) == Sponge!Xor(Sponge!Column(a, (x + 4) % 5), Sponge!Rol(Sponge!Column(a, (x + 1) % 5), 1))
Mixing(a, p) == Sponge!Xor(a[p], Fed(a, (p - 1) % 5))
Bent(a, p) == Sponge!Rol(Mixing(a, From[p]), Off[p])
Next(p, n) == 5 * ((p - 1) \div 5) + ((p - 1 + n) % 5) + 1
Chosen(b, p) == Sponge!Xor(b[p], b[Next(p, 2)] \ b[Next(p, 1)])
BentLanes(a) == [p \in 1..25 |-> Bent(a, p)]
Rounded(a, c) == [[p \in 1..25 |-> Chosen(BentLanes(a), p)] EXCEPT ![1] = Sponge!Xor(@, c)]

LEMMA Tupled ==
    ASSUME NEW n \in Nat, NEW S, NEW f \in [1..n -> S]
    PROVE  <<>> \o f = f
BY FunctionIsSeq, ConcatEmptySeq

LEMMA XorType ==
    ASSUME NEW a \in Sponge!Lane, NEW b \in Sponge!Lane
    PROVE  Sponge!Xor(a, b) \in Sponge!Lane
BY Zenon DEF Sponge!Xor, Sponge!Lane

LEMMA RolType ==
    ASSUME NEW a \in Sponge!Lane, NEW n \in 0..63
    PROVE  Sponge!Rol(a, n) \in Sponge!Lane
<1> DEFINE w == Sponge!LaneBits
<1>1. w \in Nat \ {0}
  BY DEF Sponge!LaneBits
<1> HIDE DEF w
<1>2. \A i \in 0..(w - 1) : (i + n) % w \in 0..(w - 1)
  BY <1>1, SMT
<1>3. a \subseteq 0..(w - 1)
  BY DEF Sponge!Lane, w
<1> QED BY <1>2, <1>3, Zenon DEF Sponge!Rol, Sponge!Lane, w

LEMMA RolNone ==
    ASSUME NEW a \in Sponge!Lane
    PROVE  Sponge!Rol(a, 0) = a
<1> DEFINE w == Sponge!LaneBits
<1>1. w \in Nat \ {0}
  BY DEF Sponge!LaneBits
<1> HIDE DEF w
<1>2. \A i \in 0..(w - 1) : (i + 0) % w = i
  BY <1>1, SMT
<1>3. a \subseteq 0..(w - 1)
  BY DEF Sponge!Lane, w
<1> QED BY <1>2, <1>3, Zenon DEF Sponge!Rol, w

LEMMA Columns ==
    ASSUME NEW a \in Sponge!State, NEW x \in 0..4
    PROVE  Sponge!Column(a, x) \in Sponge!Lane
<1>1. \A p \in 1..25 : a[p] \in Sponge!Lane
  BY Zenon DEF Sponge!State
<1>2. x + 1 \in 1..25 /\ x + 5 + 1 \in 1..25 /\ x + 10 + 1 \in 1..25 /\ x + 15 + 1 \in 1..25 /\ x + 20 + 1 \in 1..25
  OBVIOUS
<1> QED BY <1>1, <1>2, XorType, Zenon DEF Sponge!Column, Sponge!At

LEMMA LanesAreLanes ==
    ASSUME NEW a \in Sponge!State
    PROVE  /\ \A x \in 0..4 : Fed(a, x) \in Sponge!Lane
           /\ \A p \in 1..25 : Mixing(a, p) \in Sponge!Lane
           /\ BentLanes(a) \in Sponge!State
<1>1. ASSUME NEW x \in 0..4 PROVE Fed(a, x) \in Sponge!Lane
  <2>1. (x + 4) % 5 \in 0..4 /\ (x + 1) % 5 \in 0..4 /\ 1 \in 0..63
    OBVIOUS
  <2> QED BY <2>1, Columns, RolType, XorType, Zenon DEF Fed
<1>2. ASSUME NEW p \in 1..25 PROVE Mixing(a, p) \in Sponge!Lane
  <2>1. (p - 1) % 5 \in 0..4
    OBVIOUS
  <2>2. a[p] \in Sponge!Lane
    BY Zenon DEF Sponge!State
  <2> QED BY <1>1, <2>1, <2>2, XorType, Zenon DEF Mixing
<1>3. ASSUME NEW p \in 1..25 PROVE Bent(a, p) \in Sponge!Lane
  BY <1>2, Tables, RolType, Zenon DEF Bent
<1> QED BY <1>1, <1>2, <1>3, Zenon DEF BentLanes, Sponge!State

-----------------------------------------------------------------------------
(* The round of sha3.c and that of sha3.cpp.                               *)

LEMMA Rows3 ==
    ASSUME NEW p \in 1..25
    PROVE  /\ (p - ((p - 1) % 5)) + ((((p - 1) % 5) + 1) % 5) = Next(p, 1)
           /\ (p - ((p - 1) % 5)) + ((((p - 1) % 5) + 2) % 5) = Next(p, 2)
           /\ 5 * ((p - 1) \div 5) + (p % 5) + 1 = Next(p, 1)
           /\ 5 * ((p - 1) \div 5) + ((p + 1) % 5) + 1 = Next(p, 2)
           /\ Next(p, 1) \in 1..25 /\ Next(p, 2) \in 1..25
BY DEF Next

LEMMA ThetaIs ==
    ASSUME NEW a \in Sponge!State
    PROVE  Sponge!Theta(a) = [p \in 1..25 |-> Mixing(a, p)]
<1> DEFINE b == <<Sponge!Column(a, 0), Sponge!Column(a, 1), Sponge!Column(a, 2), Sponge!Column(a, 3), Sponge!Column(a, 4)>>
           d == [x \in 0..4 |-> Sponge!Xor(Sponge!At(b, (x + 4) % 5), Sponge!Rol(Sponge!At(b, (x + 1) % 5), 1))]
           m == [p \in 1..25 |-> Mixing(a, p)]
<1>1. \A x \in 0..4 : Sponge!At(b, x) = Sponge!Column(a, x)
  BY DEF Sponge!At
<1>2. ASSUME NEW x \in 0..4 PROVE d[x] = Fed(a, x)
  <2>1. (x + 4) % 5 \in 0..4 /\ (x + 1) % 5 \in 0..4
    OBVIOUS
  <2> HIDE DEF b
  <2> QED BY <1>1, <2>1, Zenon DEF Fed
<1> HIDE DEF d
<1>3. \A p \in 1..25 : (p - 1) % 5 \in 0..4
  OBVIOUS
<1>4. [p \in 1..25 |-> Sponge!Xor(a[p], d[(p - 1) % 5])] = m
  BY <1>2, <1>3, Zenon DEF Mixing
<1>5. m \in [1..25 -> Sponge!Lane]
  BY LanesAreLanes, Zenon
<1>6. <<>> \o m = m
  <2> HIDE DEF m
  <2>1. 25 \in Nat
    OBVIOUS
  <2> QED BY <1>5, <2>1, Tupled, Zenon
<1> QED BY <1>4, <1>6, Zenon DEF Sponge!Theta, d, b

LEMMA ChiIs ==
    ASSUME NEW a \in Sponge!State
    PROVE  Sponge!Chi(a) = [p \in 1..25 |-> Chosen(a, p)]
<1> DEFINE m == [p \in 1..25 |-> Chosen(a, p)]
           e(i) == LET x == (i - 1) % 5
                       y == i - x
                   IN Sponge!Xor(a[i], a[y + ((x + 2) % 5)] \ a[y + ((x + 1) % 5)])
<1>1. ASSUME NEW p \in 1..25 PROVE e(p) = Chosen(a, p)
  BY Rows3, Zenon DEF Chosen
<1>2. [p \in 1..25 |-> e(p)] = m
  <2> HIDE DEF e
  <2> QED BY <1>1, Zenon
<1>3. <<>> \o m = m
  <2> DEFINE V == {Chosen(a, p) : p \in 1..25}
  <2>1. m \in [1..25 -> V] /\ 25 \in Nat
    OBVIOUS
  <2> HIDE DEF m, V
  <2> QED BY <2>1, Tupled, Zenon
<1> QED BY <1>2, <1>3, Zenon DEF Sponge!Chi

LEMMA KeccakRoundIs ==
    ASSUME NEW a \in Sponge!State, NEW c
    PROVE  Sponge!KeccakRound(a, c) = Rounded(a, c)
<1> DEFINE s == [p \in 1..25 |-> Mixing(a, p)]
<1>1. Sponge!Theta(a) = s /\ s \in Sponge!State
  BY ThetaIs, LanesAreLanes, Zenon DEF Sponge!State
<1>2. Sponge!RhoPi(s) = BentLanes(a)
  <2>1. Sponge!RhoPi(s) = [p \in 1..25 |-> IF p = 1 THEN s[1] ELSE Sponge!Rol(s[From[p]], Off[p])]
    <3> HIDE DEF s
    <3> QED BY <1>1, RhoPiIs, Zenon
  <2>2. ASSUME NEW p \in 1..25
        PROVE  (IF p = 1 THEN s[1] ELSE Sponge!Rol(s[From[p]], Off[p])) = Bent(a, p)
    <3>1. CASE p = 1
      <4>1. From[1] = 1 /\ Off[1] = 0 /\ 1 \in 1..25
        BY DEF From, Off
      <4>2. Bent(a, 1) = Sponge!Rol(Mixing(a, 1), 0)
        BY <4>1, Zenon DEF Bent
      <4>3. Bent(a, 1) = s[1]
        BY <4>1, <4>2, RolNone, LanesAreLanes, Zenon
      <4> QED BY <3>1, <4>3, Zenon
    <3>2. CASE p # 1
      BY <3>2, Tables, Zenon DEF Bent
    <3> QED BY <3>1, <3>2
  <2> HIDE DEF s
  <2> QED BY <2>1, <2>2, Zenon DEF BentLanes
<1>3. Sponge!Chi(BentLanes(a)) = [p \in 1..25 |-> Chosen(BentLanes(a), p)]
  BY LanesAreLanes, ChiIs, Zenon
<1> HIDE DEF s
<1> QED BY <1>1, <1>2, <1>3, Zenon DEF Sponge!KeccakRound, Sponge!Iota, Rounded

LEMMA RowsTable ==
    ASSUME NEW p \in 1..25
    PROVE  Sponge!Rows[p][1] + 1 = From[p] /\ Sponge!Rows[p][1] % 5 = (From[p] - 1) % 5 /\ Sponge!Rows[p][2] = Off[p]
           /\ (From[p] - 1) % 5 \in 0..4
BY DEF Sponge!Rows, From, Off

LEMMA UnrolledRoundIs ==
    ASSUME NEW a \in Sponge!State, NEW c
    PROVE  Sponge!UnrolledRound(a, c) = Rounded(a, c)
<1> DEFINE b == [x \in 0..4 |-> Sponge!Column(a, x)]
           d == [x \in 0..4 |-> Sponge!Xor(b[(x + 4) % 5], Sponge!Rol(b[(x + 1) % 5], 1))]
           turned == [i \in 1..25 |-> Sponge!Rol(Sponge!Xor(Sponge!At(a, Sponge!Rows[i][1]), d[Sponge!Rows[i][1] % 5]), Sponge!Rows[i][2])]
           bc == <<>> \o turned
           e(i) == LET y == 5 * ((i - 1) \div 5) IN
                   Sponge!Xor(bc[i], bc[y + ((i + 1) % 5) + 1] \ bc[y + (i % 5) + 1])
<1>1. ASSUME NEW x \in 0..4 PROVE d[x] = Fed(a, x)
  <2>1. (x + 4) % 5 \in 0..4 /\ (x + 1) % 5 \in 0..4
    OBVIOUS
  <2> QED BY <2>1, Zenon DEF Fed
<1>2. turned = BentLanes(a)
  <2> HIDE DEF d
  <2>1. ASSUME NEW i \in 1..25
        PROVE  Sponge!Rol(Sponge!Xor(Sponge!At(a, Sponge!Rows[i][1]), d[Sponge!Rows[i][1] % 5]), Sponge!Rows[i][2]) = Bent(a, i)
    BY <1>1, RowsTable, Zenon DEF Bent, Mixing, Sponge!At
  <2> QED BY <2>1, Zenon DEF BentLanes
<1>3. bc = BentLanes(a)
  <2> HIDE DEF turned
  <2>1. BentLanes(a) \in [1..25 -> Sponge!Lane] /\ 25 \in Nat
    BY LanesAreLanes DEF Sponge!State
  <2> QED BY <1>2, <2>1, Tupled, Zenon
<1> HIDE DEF bc
<1>4. ASSUME NEW i \in 1..25 PROVE e(i) = Chosen(BentLanes(a), i)
  BY <1>3, Rows3, Zenon DEF Chosen
<1> DEFINE m == [p \in 1..25 |-> Chosen(BentLanes(a), p)]
<1>5. [i \in 1..25 |-> e(i)] = m
  <2> HIDE DEF e
  <2> QED BY <1>4, Zenon
<1>6. <<>> \o m = m
  <2> DEFINE V == {Chosen(BentLanes(a), p) : p \in 1..25}
  <2>1. m \in [1..25 -> V] /\ 25 \in Nat
    OBVIOUS
  <2> HIDE DEF m, V
  <2> QED BY <2>1, Tupled, Zenon
<1> QED BY <1>5, <1>6, Zenon DEF Sponge!UnrolledRound, Sponge!Iota, Rounded, bc, d, b

-----------------------------------------------------------------------------
(* The round of FIPS 202.                                                  *)

Steps == <<
    <<1, 0>>, <<0, 2>>, <<2, 1>>, <<1, 2>>, <<2, 3>>, <<3, 3>>, <<3, 0>>, <<0, 1>>, <<1, 3>>,
    <<3, 1>>, <<1, 4>>, <<4, 4>>, <<4, 0>>, <<0, 3>>, <<3, 4>>, <<4, 3>>, <<3, 2>>, <<2, 2>>,
    <<2, 0>>, <<0, 4>>, <<4, 2>>, <<2, 4>>, <<4, 1>>, <<1, 1>> >>
\* Which of the steps is at a lane.
StepAt == <<0, 1, 19, 7, 13, 8, 24, 3, 10, 23, 2, 4, 18, 17, 21, 14, 9, 5, 6, 16, 20, 11, 22, 15, 12>>

LEMMA StepGoes ==
    ASSUME NEW t \in 1..23
    PROVE  Steps[t + 1] = <<Steps[t][2], (2 * Steps[t][1] + 3 * Steps[t][2]) % 5>>
BY DEF Steps

LEMMA StepOnce ==
    ASSUME NEW t \in 1..24
    PROVE  StepAt[Steps[t][1] + 5 * Steps[t][2] + 1] = t
BY DEF Steps, StepAt

LEMMA WalkIs == \A t \in 0..23 : Sha3!Walk[t] = Steps[t + 1]
<1> DEFINE next(xy) == <<xy[2], (2 * xy[1] + 3 * xy[2]) % 5>>
           body(f, t) == IF t = 0 THEN <<1, 0>> ELSE LET xy == f[t - 1] IN <<xy[2], (2 * xy[1] + 3 * xy[2]) % 5>>
           f == CHOOSE f : f = [t \in 0..23 |-> body(f, t)]
           g == [t \in 0..23 |-> Steps[t + 1]]
           S == {t \in 0..23 : f[t] = g[t]}
<1>1. Sha3!Walk = f
  BY DEF Sha3!Walk
<1>2. \A h : \A t \in 1..23 : body(h, t) = next(h[t - 1])
  <2>1. \A t \in 1..23 : t # 0
    OBVIOUS
  <2> QED BY <2>1, Zenon
<1>3. \A h : body(h, 0) = <<1, 0>>
  BY Zenon
<1>4. g[0] = <<1, 0>>
  BY DEF Steps
<1>5. \A t \in 1..23 : t \in 0..23 /\ t - 1 \in 0..23 /\ g[t] = next(g[t - 1])
  <2> TAKE t \in 1..23
  <2>1. t \in 0..23 /\ t - 1 \in 0..23 /\ (t - 1) + 1 = t
    OBVIOUS
  <2>2. g[t] = Steps[t + 1] /\ g[t - 1] = Steps[t]
    BY <2>1, Zenon
  <2> HIDE DEF g
  <2> QED BY <2>1, <2>2, StepGoes, Zenon
<1> HIDE DEF body, next
<1>6. g = [t \in 0..23 |-> body(g, t)]
  <2> DEFINE h == [t \in 0..23 |-> body(g, t)]
  <2>1. \A t \in 0..23 : t = 0 \/ t \in 1..23
    OBVIOUS
  <2>2. \A t \in 0..23 : g[t] = body(g, t)
    <3> HIDE DEF g
    <3> QED BY <1>2, <1>3, <1>4, <1>5, <2>1, Zenon
  <2>3. \A t \in 0..23 : g[t] = h[t]
    <3> HIDE DEF g
    <3> QED BY <2>2, Zenon
  <2> QED BY <2>3, Zenon
<1>7. f = [t \in 0..23 |-> body(f, t)]
  <2> HIDE DEF g
  <2> QED BY <1>6, Zenon
<1> HIDE DEF f, g
<1>8. f[0] = g[0]
  BY <1>3, <1>4, <1>7
<1>9. ASSUME NEW k \in 0..22, f[k] = g[k] PROVE f[k + 1] = g[k + 1]
  <2>1. k + 1 \in 1..23 /\ k + 1 \in 0..23 /\ (k + 1) - 1 = k
    OBVIOUS
  <2>2. f[k + 1] = next(f[k])
    BY <1>2, <1>7, <2>1, Zenon
  <2> QED BY <1>5, <1>9, <2>1, <2>2, Zenon
<1>10. 0 \in S /\ \A k \in 0..(23 - 1) : k \in S => k + 1 \in S
  BY <1>8, <1>9
<1>11. 0..23 \subseteq S
  <2> HIDE DEF S
  <2> QED BY <1>10, Induct
<1>12. \A t \in 0..23 : f[t] = g[t]
  BY <1>11, Zenon
<1>13. \A t \in 0..23 : g[t] = Steps[t + 1]
  BY Zenon DEF g
<1> QED BY <1>1, <1>12, <1>13, Zenon

LEMMA Coordinates ==
    ASSUME NEW p \in 1..25
    PROVE  LET x == (p - 1) % 5
               from == (x + 3 * ((p - 1) \div 5)) % 5
           IN from \in 0..4 /\ x \in 0..4 /\ from + 5 * x + 1 = From[p]
BY DEF From

LEMMA StepSets ==
    ASSUME NEW p \in 1..25, p # 1
    PROVE  Steps[SetBy[p]] = <<(From[p] - 1) % 5, (From[p] - 1) \div 5>> /\ From[p] # 1
BY DEF From, SetBy, Steps

LEMMA Triangles ==
    ASSUME NEW k \in 1..24
    PROVE  (k * (k + 1)) \div 2 \in Nat /\ ((k * (k + 1)) \div 2) % 64 = Sponge!Rho[k]
<1> DEFINE t == <<1, 3, 6, 10, 15, 21, 28, 36, 45, 55, 66, 78, 91, 105, 120, 136, 153, 171, 190, 210, 231, 253, 276, 300>>
<1>1. k = 1 \/ k = 2 \/ k = 3 \/ k = 4 \/ k = 5 \/ k = 6 \/ k = 7 \/ k = 8 \/ k = 9 \/ k = 10 \/ k = 11 \/ k = 12
      \/ k = 13 \/ k = 14 \/ k = 15 \/ k = 16 \/ k = 17 \/ k = 18 \/ k = 19 \/ k = 20 \/ k = 21 \/ k = 22 \/ k = 23 \/ k = 24
  OBVIOUS
<1>2. (k * (k + 1)) \div 2 = t[k]
  BY <1>1
<1>3. t[k] \in Nat /\ t[k] % 64 = Sponge!Rho[k]
  BY DEF Sponge!Rho
<1> QED BY <1>2, <1>3

LEMMA FromOffset ==
    ASSUME NEW p \in 1..25, p # 1
    PROVE  /\ (SetBy[p] * (SetBy[p] + 1)) \div 2 \in Nat
           /\ ((SetBy[p] * (SetBy[p] + 1)) \div 2) % 64 = Off[p]
<1> DEFINE k == SetBy[p]
<1>1. k \in 1..24 /\ Sponge!Pi[k] + 1 = p
  BY SetByTurn
<1>2. Off[p] = Sponge!Rho[k]
  <2> HIDE DEF k
  <2> QED BY <1>1, TurnSets
<1> HIDE DEF k
<1>3. (k * (k + 1)) \div 2 \in Nat /\ ((k * (k + 1)) \div 2) % 64 = Sponge!Rho[k]
  BY <1>1, Triangles, Zenon
<1> QED BY <1>2, <1>3, Zenon DEF k

LEMMA OffsetIs ==
    ASSUME NEW p \in 1..25, p # 1, NEW x, NEW y, Steps[SetBy[p]] = <<x, y>>, ~(x = 0 /\ y = 0)
    PROVE  Sha3!Offset(x, y) = (SetBy[p] * (SetBy[p] + 1)) \div 2
<1> DEFINE k == SetBy[p]
           t == CHOOSE t \in 0..23 : Sha3!Walk[t] = <<x, y>>
<1>1. k \in 1..24 /\ k - 1 \in 0..23 /\ (k - 1) + 1 = k
  BY SetByTurn
<1> HIDE DEF k
<1>2. Sha3!Walk[k - 1] = <<x, y>>
  BY <1>1, WalkIs DEF k
<1>3. t \in 0..23 /\ Sha3!Walk[t] = <<x, y>>
  BY <1>1, <1>2, Zenon
<1> HIDE DEF t
<1>4. Steps[t + 1] = Steps[k]
  BY <1>3, WalkIs DEF k
<1>5. t + 1 \in 1..24
  BY <1>3
<1>6. StepAt[Steps[k][1] + 5 * Steps[k][2] + 1] = k /\ StepAt[Steps[t + 1][1] + 5 * Steps[t + 1][2] + 1] = t + 1
  BY <1>1, <1>5, StepOnce
<1>7. t + 1 = k
  BY <1>4, <1>6, Zenon
<1>8. Sha3!Offset(x, y) = ((t + 1) * (t + 2)) \div 2
  BY Zenon DEF Sha3!Offset, t
<1>9. t + 2 = k + 1
  BY <1>3, <1>7
<1> QED BY <1>7, <1>8, <1>9 DEF k

LEMMA TurnIsRol ==
    ASSUME NEW a \in Sponge!Lane, NEW m \in Nat, NEW n \in 0..63, m % 64 = n
    PROVE  Sha3!Turn(a, m) = Sponge!Rol(a, n)
<1>1. Sponge!LaneBits = 64
  BY DEF Sponge!LaneBits
<1> DEFINE q == m \div 64
<1>2. \A z \in 0..63 : (z + m) % 64 = (z + n) % 64
  <2>1. q \in Nat /\ m = n + 64 * q
    OBVIOUS
  <2> HIDE DEF q
  <2>2. \A z \in 0..63 : (z + (n + 64 * q)) % 64 = (z + n) % 64
    BY <2>1, SMT
  <2> QED BY <2>1, <2>2, Zenon
<1>3. a \subseteq 0..63
  BY DEF Sponge!Lane, Sponge!LaneBits
<1>4. \A z \in a : (z + m) % 64 = (z + n) % 64
  BY <1>2, <1>3
<1>5. {(z + m) % 64 : z \in a} = {(z + n) % 64 : z \in a}
  BY <1>4, Zenon
<1>6. Sponge!Rol(a, n) = {(z + n) % 64 : z \in a}
  BY <1>1, Zenon DEF Sponge!Rol
<1> QED BY <1>5, <1>6, Zenon DEF Sha3!Turn

LEMMA ParityIsColumn ==
    ASSUME NEW a, NEW x \in 0..8
    PROVE  Sha3!Parity(a, x) = Sponge!Column(a, x % 5)
<1> DEFINE r == x % 5
<1>1. r \in 0..4 /\ r + 5 * 0 + 1 = r + 1 /\ r + 5 * 1 + 1 = r + 5 + 1 /\ r + 5 * 2 + 1 = r + 10 + 1
      /\ r + 5 * 3 + 1 = r + 15 + 1 /\ r + 5 * 4 + 1 = r + 20 + 1
  OBVIOUS
<1>2. 0 % 5 = 0 /\ 1 % 5 = 1 /\ 2 % 5 = 2 /\ 3 % 5 = 3 /\ 4 % 5 = 4
  OBVIOUS
<1>3. /\ Sha3!LaneAt(a, x, 0) = Sponge!At(a, r) /\ Sha3!LaneAt(a, x, 1) = Sponge!At(a, r + 5)
      /\ Sha3!LaneAt(a, x, 2) = Sponge!At(a, r + 10) /\ Sha3!LaneAt(a, x, 3) = Sponge!At(a, r + 15)
      /\ Sha3!LaneAt(a, x, 4) = Sponge!At(a, r + 20)
  <2> HIDE DEF r
  <2>1. \A y : Sha3!LaneAt(a, x, y) = a[(r + 5 * (y % 5)) + 1]
    BY Zenon DEF Sha3!LaneAt, r
  <2> QED BY <1>1, <1>2, <2>1, Zenon DEF Sponge!At
<1> HIDE DEF r
<1>4. Sha3!Parity(a, x)
      = Sha3!Sum(Sha3!Sum(Sha3!Sum(Sponge!At(a, r), Sponge!At(a, r + 5)),
                          Sha3!Sum(Sponge!At(a, r + 10), Sponge!At(a, r + 15))), Sponge!At(a, r + 20))
  BY <1>3, Zenon DEF Sha3!Parity
<1>5. Sponge!Column(a, r) = Sha3!Parity(a, x)
  <2> DEFINE l0 == Sponge!At(a, r)
             l1 == Sponge!At(a, r + 5)
             l2 == Sponge!At(a, r + 10)
             l3 == Sponge!At(a, r + 15)
             l4 == Sponge!At(a, r + 20)
  <2>1. Sponge!Column(a, r) = Sponge!Xor(Sponge!Xor(Sponge!Xor(Sponge!Xor(l0, l1), l2), l3), l4)
    BY Zenon DEF Sponge!Column
  <2>2. Sha3!Parity(a, x) = Sha3!Sum(Sha3!Sum(Sha3!Sum(l0, l1), Sha3!Sum(l2, l3)), l4)
    BY <1>4, Zenon
  <2> HIDE DEF l0, l1, l2, l3, l4
  <2>3. Sha3!Sum(Sha3!Sum(Sha3!Sum(l0, l1), Sha3!Sum(l2, l3)), l4)
        = Sponge!Xor(Sponge!Xor(Sponge!Xor(Sponge!Xor(l0, l1), l2), l3), l4)
    BY SMT DEF Sha3!Sum, Sponge!Xor
  <2> QED BY <2>1, <2>2, <2>3, Zenon
<1> QED BY <1>5, Zenon DEF r

LEMMA ThetaStepIs ==
    ASSUME NEW a \in Sponge!State
    PROVE  Sha3!ThetaStep(a) = [p \in 1..25 |-> Mixing(a, p)]
<1> DEFINE d == [i \in 1..5 |-> Sha3!Sum(Sha3!Parity(a, i + 3), Sha3!Turn(Sha3!Parity(a, i), 1))]
           m == [p \in 1..25 |-> Mixing(a, p)]
<1>1. ASSUME NEW x \in 0..4 PROVE d[x + 1] = Fed(a, x)
  <2>1. x + 1 \in 1..5 /\ x + 1 \in 0..8 /\ (x + 1) + 3 = x + 4 /\ x + 4 \in 0..8 /\ (x + 4) % 5 \in 0..4 /\ (x + 1) % 5 \in 0..4
        /\ 1 \in Nat /\ 1 \in 0..63 /\ 1 % 64 = 1
    OBVIOUS
  <2>2. d[x + 1] = Sha3!Sum(Sha3!Parity(a, x + 4), Sha3!Turn(Sha3!Parity(a, x + 1), 1))
    BY <2>1, Zenon
  <2>3. Sha3!Parity(a, x + 4) = Sponge!Column(a, (x + 4) % 5) /\ Sha3!Parity(a, x + 1) = Sponge!Column(a, (x + 1) % 5)
    BY <2>1, ParityIsColumn
  <2>4. Sha3!Turn(Sponge!Column(a, (x + 1) % 5), 1) = Sponge!Rol(Sponge!Column(a, (x + 1) % 5), 1)
    BY <2>1, Columns, TurnIsRol, Zenon
  <2> HIDE DEF d
  <2> QED BY <2>2, <2>3, <2>4, Zenon DEF Fed, Sha3!Sum, Sponge!Xor
<1>2. d \in [1..5 -> {d[i] : i \in 1..5}] /\ 5 \in Nat
  OBVIOUS
<1>3. <<>> \o d = d
  <2> HIDE DEF d
  <2> QED BY <1>2, Tupled, Zenon
<1> HIDE DEF d
<1>4. \A p \in 1..25 : Sha3!Sum(a[p], d[Sha3!X(p) + 1]) = Mixing(a, p)
  <2> TAKE p \in 1..25
  <2>1. (p - 1) % 5 \in 0..4
    OBVIOUS
  <2> QED BY <1>1, <2>1, Zenon DEF Mixing, Sha3!X, Sha3!Sum, Sponge!Xor
<1>5. [p \in 1..25 |-> Sha3!Sum(a[p], d[Sha3!X(p) + 1])] = m
  BY <1>4, Zenon
<1>6. <<>> \o m = m
  <2>1. m \in [1..25 -> Sponge!Lane] /\ 25 \in Nat
    BY LanesAreLanes
  <2> HIDE DEF m
  <2> QED BY <2>1, Tupled, Zenon
<1>7. Sha3!ThetaStep(a) = <<>> \o [p \in 1..25 |-> Sha3!Sum(a[p], d[Sha3!X(p) + 1])]
  BY <1>3, Zenon DEF Sha3!ThetaStep, d
<1> QED BY <1>5, <1>6, <1>7, Zenon

LEMMA RhoPiStepIs ==
    ASSUME NEW a \in Sponge!State
    PROVE  Sha3!RhoPiStep(a) = [p \in 1..25 |-> Sponge!Rol(a[From[p]], Off[p])]
<1> DEFINE m == [p \in 1..25 |-> Sponge!Rol(a[From[p]], Off[p])]
           e(i) == LET from == (Sha3!X(i) + 3 * Sha3!Y(i)) % 5 IN
                   Sha3!Turn(Sha3!LaneAt(a, from, Sha3!X(i)), Sha3!Offset(from, Sha3!X(i)))
<1>1. ASSUME NEW p \in 1..25 PROVE e(p) = m[p]
  <2> DEFINE x == Sha3!X(p)
             from == (x + 3 * Sha3!Y(p)) % 5
  <2>1. x \in 0..4 /\ from \in 0..4 /\ from + 5 * x + 1 = From[p]
    BY Coordinates DEF Sha3!X, Sha3!Y
  <2> HIDE DEF x, from
  <2>2. from % 5 = from /\ x % 5 = x /\ (from + 5 * x) + 1 = From[p]
    BY <2>1
  <2>3. Sha3!LaneAt(a, from, x) = a[From[p]]
    BY <2>2, Zenon DEF Sha3!LaneAt
  <2>4. a[From[p]] \in Sponge!Lane
    BY Tables, Zenon DEF Sponge!State
  <2>5. Off[p] \in 0..63
    BY Tables
  <2>6. Sha3!Turn(a[From[p]], Sha3!Offset(from, x)) = Sponge!Rol(a[From[p]], Off[p])
    <3>1. CASE p = 1
      <4>1. From[p] = 1 /\ Off[p] = 0
        BY <3>1 DEF From, Off
      <4>2. from = 0 /\ x = 0
        BY <2>1, <4>1
      <4>3. Sha3!Offset(from, x) = 0 /\ 0 \in Nat /\ 0 % 64 = 0
        BY <4>2 DEF Sha3!Offset
      <4>4. Sha3!Turn(a[From[p]], 0) = Sponge!Rol(a[From[p]], 0)
        BY <2>4, <2>5, <4>1, <4>3, TurnIsRol
      <4> QED BY <4>1, <4>3, <4>4
    <3>2. CASE p # 1
      <4> DEFINE k == SetBy[p]
                 n == (k * (k + 1)) \div 2
      <4>1. n \in Nat /\ n % 64 = Off[p]
        BY <3>2, FromOffset, Zenon
      <4>2. Steps[SetBy[p]] = <<from, x>> /\ ~(from = 0 /\ x = 0)
        <5>1. (From[p] - 1) % 5 = from /\ (From[p] - 1) \div 5 = x
          BY <2>1
        <5>2. Steps[SetBy[p]] = <<from, x>> /\ From[p] # 1
          BY <3>2, <5>1, StepSets
        <5> QED BY <2>1, <5>2
      <4>3. Sha3!Offset(from, x) = n
        BY <3>2, <4>2, OffsetIs, Zenon
      <4> HIDE DEF n
      <4> QED BY <2>4, <2>5, <4>1, <4>3, TurnIsRol, Zenon
    <3> QED BY <3>1, <3>2
  <2> QED BY <2>3, <2>6, Zenon DEF x, from
<1>2. [i \in 1..25 |-> e(i)] = m
  <2> HIDE DEF e
  <2> QED BY <1>1, Zenon
<1>3. <<>> \o m = m
  <2>1. m \in [1..25 -> {m[i] : i \in 1..25}] /\ 25 \in Nat
    OBVIOUS
  <2> HIDE DEF m
  <2> QED BY <2>1, Tupled, Zenon
<1> QED BY <1>2, <1>3, Zenon DEF Sha3!RhoPiStep

LEMMA ChiStepIs ==
    ASSUME NEW a \in Sponge!State
    PROVE  Sha3!ChiStep(a) = [p \in 1..25 |-> Chosen(a, p)]
<1> DEFINE m == [p \in 1..25 |-> Chosen(a, p)]
           e(i) == Sha3!Sum(a[i], Sha3!LaneAt(a, Sha3!X(i) + 2, Sha3!Y(i)) \ Sha3!LaneAt(a, Sha3!X(i) + 1, Sha3!Y(i)))
<1>1. ASSUME NEW p \in 1..25 PROVE e(p) = Chosen(a, p)
  <2>1. /\ (((((p - 1) % 5) + 2) % 5) + 5 * (((p - 1) \div 5) % 5)) + 1 = Next(p, 2)
        /\ (((((p - 1) % 5) + 1) % 5) + 5 * (((p - 1) \div 5) % 5)) + 1 = Next(p, 1)
    BY DEF Next
  <2> QED BY <2>1, Zenon DEF Chosen, Sha3!Sum, Sponge!Xor, Sha3!LaneAt, Sha3!X, Sha3!Y
<1>2. [i \in 1..25 |-> e(i)] = m
  <2> HIDE DEF e
  <2> QED BY <1>1, Zenon
<1>3. <<>> \o m = m
  <2> DEFINE V == {Chosen(a, p) : p \in 1..25}
  <2>1. m \in [1..25 -> V] /\ 25 \in Nat
    OBVIOUS
  <2> HIDE DEF m, V
  <2> QED BY <2>1, Tupled, Zenon
<1> QED BY <1>2, <1>3, Zenon DEF Sha3!ChiStep

LEMMA ReferenceRoundIs ==
    ASSUME NEW a \in Sponge!State, NEW c
    PROVE  Sha3!Round(a, c) = Rounded(a, c)
<1> DEFINE s == [p \in 1..25 |-> Mixing(a, p)]
<1>1. Sha3!ThetaStep(a) = s /\ s \in Sponge!State
  BY ThetaStepIs, LanesAreLanes, Zenon DEF Sponge!State
<1>2. Sha3!RhoPiStep(s) = BentLanes(a)
  <2>1. Sha3!RhoPiStep(s) = [p \in 1..25 |-> Sponge!Rol(s[From[p]], Off[p])]
    <3> HIDE DEF s
    <3> QED BY <1>1, RhoPiStepIs, Zenon
  <2>2. \A p \in 1..25 : s[From[p]] = Mixing(a, From[p])
    BY Tables, Zenon
  <2> HIDE DEF s
  <2> QED BY <2>1, <2>2, Zenon DEF BentLanes, Bent
<1>3. Sha3!ChiStep(BentLanes(a)) = [p \in 1..25 |-> Chosen(BentLanes(a), p)]
  BY LanesAreLanes, ChiStepIs, Zenon
<1> HIDE DEF s
<1>4. Sha3!Round(a, c) = [[p \in 1..25 |-> Chosen(BentLanes(a), p)] EXCEPT ![1] = Sha3!Sum(@, c)]
  BY <1>1, <1>2, <1>3, Zenon DEF Sha3!Round
<1> QED BY <1>4, Zenon DEF Rounded, Sha3!Sum, Sponge!Xor

-----------------------------------------------------------------------------
(* The round of the kernels: the moves.                                    *)

MovedLanes(s, k) ==
    [p \in 1..25 |-> IF p = 1 \/ (1 <= MovedBy[p] /\ MovedBy[p] <= k) THEN Bent(s, p) ELSE s[p]]
OneMove(bc, t, k) ==
    [t EXCEPT ![Sponge!Moves[k][1] + 1] =
        Sponge!Rol(Sponge!Xor(Sponge!At(t, Sponge!Moves[k][2]), bc[(Sponge!Moves[k][2] + 4) % 5]), Sponge!Moves[k][3])]

LEMMA FeedIs ==
    ASSUME NEW s \in Sponge!State, NEW l \in 0..24
    PROVE  Sponge!Feed(s)[(l + 4) % 5] = Fed(s, l % 5)
<1> DEFINE sums == Sponge!Sums(s)
           x == (l + 4) % 5
<1>1. \A y \in 0..4 : Sponge!At(sums, y) = Sponge!Column(s, y)
  BY DEF Sponge!At, Sponge!Sums
<1>2. x \in 0..4 /\ (x + 2) % 5 \in 0..4 /\ ((l % 5) + 4) % 5 = x /\ ((l % 5) + 1) % 5 = (x + 2) % 5
  OBVIOUS
<1> HIDE DEF sums, x
<1>3. Sponge!Feed(s)[x] = Sponge!Xor(Sponge!At(sums, x), Sponge!Rol(Sponge!At(sums, (x + 2) % 5), 1))
  BY <1>2, Zenon DEF Sponge!Feed, sums
<1>4. Sponge!Feed(s)[x] = Fed(s, l % 5)
  BY <1>1, <1>2, <1>3, Zenon DEF Fed
<1> QED BY <1>4, Zenon DEF x

LEMMA BentFirst ==
    ASSUME NEW s \in Sponge!State
    PROVE  Bent(s, 1) = Sponge!Xor(s[1], Sponge!Feed(s)[4])
<1>1. From[1] = 1 /\ Off[1] = 0 /\ 1 \in 1..25
  BY DEF From, Off
<1>2. Bent(s, 1) = Mixing(s, 1)
  BY <1>1, RolNone, LanesAreLanes, Zenon DEF Bent
<1>3. 0 \in 0..24 /\ (0 + 4) % 5 = 4 /\ 0 % 5 = 0 /\ 1 - 1 = 0
  OBVIOUS
<1>4. Sponge!Feed(s)[4] = Fed(s, 0)
  BY <1>3, FeedIs
<1>5. Mixing(s, 1) = Sponge!Xor(s[1], Fed(s, 0))
  BY <1>3, Zenon DEF Mixing
<1> QED BY <1>2, <1>4, <1>5, Zenon

LEMMA NoMove ==
    ASSUME NEW s \in Sponge!State
    PROVE  MovedLanes(s, 0) = [s EXCEPT ![1] = Sponge!Xor(@, Sponge!Feed(s)[4])]
<1>1. \A p \in 1..25 : ~(1 <= MovedBy[p] /\ MovedBy[p] <= 0)
  BY Tables
<1>2. s = [p \in 1..25 |-> s[p]] /\ 1 \in 1..25
  BY DEF Sponge!State
<1>3. \A p \in 1..25 : MovedLanes(s, 0)[p] = IF p = 1 THEN Bent(s, 1) ELSE s[p]
  BY <1>1, Zenon DEF MovedLanes
<1>4. MovedLanes(s, 0) = [p \in 1..25 |-> MovedLanes(s, 0)[p]]
  BY Zenon DEF MovedLanes
<1> QED BY <1>2, <1>3, <1>4, BentFirst, Zenon

LEMMA NextMove ==
    ASSUME NEW s \in Sponge!State, NEW k \in 1..23
    PROVE  MovedLanes(s, k) = OneMove(Sponge!Feed(s), MovedLanes(s, k - 1), k)
<1> DEFINE q == Sponge!Moves[k][1] + 1
           l == Sponge!Moves[k][2]
           n == Sponge!Moves[k][3]
           old == MovedLanes(s, k - 1)
           new == MovedLanes(s, k)
<1>1. q \in 1..25 /\ MovedBy[q] = k /\ From[q] = l + 1 /\ Off[q] = n /\ l \in 1..24
  BY MoveSets
<1>2. MovedBy[l + 1] = IF k < 23 THEN k + 1 ELSE 0
  BY MoveSets
<1>3. q # 1
  <2>1. MovedBy[1] = 0 /\ k # 0
    BY DEF MovedBy
  <2> HIDE DEF q
  <2> QED BY <1>1, <2>1
<1> HIDE DEF q, l, n
<1>4. l + 1 \in 1..25 /\ l + 1 # 1 /\ ~(1 <= MovedBy[l + 1] /\ MovedBy[l + 1] <= k - 1)
  BY <1>1, <1>2
<1>5. Sponge!At(old, l) = s[From[q]]
  <2>1. old[l + 1] = s[l + 1]
    BY <1>4, Zenon DEF MovedLanes
  <2> HIDE DEF old
  <2> QED BY <1>1, <2>1, Zenon DEF Sponge!At
<1>6. Sponge!Feed(s)[(l + 4) % 5] = Fed(s, (From[q] - 1) % 5)
  <2>1. l \in 0..24 /\ From[q] - 1 = l
    BY <1>1
  <2> QED BY <2>1, FeedIs
<1>7. new[q] = Sponge!Rol(Sponge!Xor(Sponge!At(old, l), Sponge!Feed(s)[(l + 4) % 5]), n)
  <2>1. new[q] = Bent(s, q)
    BY <1>1 DEF MovedLanes
  <2> HIDE DEF old, new
  <2> QED BY <1>1, <1>5, <1>6, <2>1, Zenon DEF Bent, Mixing
<1>8. ASSUME NEW p \in 1..25, p # q PROVE new[p] = old[p]
  <2>1. MovedBy[p] # k
    <3>1. CASE p = 1 \/ p = 11
      BY <3>1 DEF MovedBy
    <3>2. CASE p # 1 /\ p # 11
      BY <3>2, <1>8, MovedByMove DEF q
    <3> QED BY <3>1, <3>2
  <2>2. MovedBy[p] \in 0..23
    BY Tables
  <2>3. 1 <= MovedBy[p] /\ MovedBy[p] <= k <=> 1 <= MovedBy[p] /\ MovedBy[p] <= k - 1
    <3> DEFINE u == MovedBy[p]
    <3>1. u \in Int /\ u # k
      BY <2>1, <2>2
    <3> HIDE DEF u
    <3>2. 1 <= u /\ u <= k <=> 1 <= u /\ u <= k - 1
      BY <3>1
    <3> QED BY <3>2 DEF u
  <2> QED BY <2>3, Zenon DEF MovedLanes
<1>9. new = [p \in 1..25 |-> new[p]] /\ old = [p \in 1..25 |-> old[p]]
  BY Zenon DEF MovedLanes
<1> HIDE DEF old, new
<1>10. new = [old EXCEPT ![q] = Sponge!Rol(Sponge!Xor(Sponge!At(old, l), Sponge!Feed(s)[(l + 4) % 5]), n)]
  BY <1>1, <1>7, <1>8, <1>9, Zenon
<1> QED BY <1>10, Zenon DEF OneMove, old, new, q, l, n

LEMMA MovedIs ==
    ASSUME NEW s \in Sponge!State
    PROVE  \A k \in 0..23 : Sponge!Moved(s)[k] = MovedLanes(s, k)
<1> DEFINE bc == Sponge!Feed(s)
           body(f, k) == IF k = 0 THEN [s EXCEPT ![1] = Sponge!Xor(@, bc[4])]
                         ELSE LET t == f[k - 1]
                                  m == Sponge!Moves[k]
                              IN [t EXCEPT ![m[1] + 1] = Sponge!Rol(Sponge!Xor(Sponge!At(t, m[2]), bc[(m[2] + 4) % 5]), m[3])]
           f == CHOOSE f : f = [k \in 0..23 |-> body(f, k)]
           g == [k \in 0..23 |-> MovedLanes(s, k)]
           S == {k \in 0..23 : f[k] = g[k]}
<1>1. Sponge!Moved(s) = f
  BY DEF Sponge!Moved
<1>2. \A h : \A k \in 1..23 : body(h, k) = OneMove(bc, h[k - 1], k)
  <2>1. \A k \in 1..23 : k # 0
    OBVIOUS
  <2> QED BY <2>1, Zenon DEF OneMove
<1>3. \A h : body(h, 0) = MovedLanes(s, 0)
  BY NoMove, Zenon
<1>4. \A k \in 1..23 : k - 1 \in 0..23 /\ MovedLanes(s, k) = OneMove(bc, g[k - 1], k)
  BY NextMove
<1> HIDE DEF body
<1>5. ASSUME NEW k \in 0..23 PROVE g[k] = body(g, k)
  <2>1. CASE k = 0
    BY <1>3, <2>1
  <2>2. CASE k # 0
    <3>1. k \in 1..23
      BY <2>2
    <3> HIDE DEF g
    <3>2. body(g, k) = MovedLanes(s, k)
      BY <1>2, <1>4, <3>1, Zenon
    <3> QED BY <3>2 DEF g
  <2> QED BY <2>1, <2>2
<1>6. g = [k \in 0..23 |-> body(g, k)]
  <2> DEFINE h == [k \in 0..23 |-> body(g, k)]
  <2>1. \A k \in 0..23 : g[k] = h[k]
    BY <1>5, Zenon
  <2> QED BY <2>1, Zenon
<1>7. f = [k \in 0..23 |-> body(f, k)]
  <2> HIDE DEF g
  <2> QED BY <1>6, Zenon
<1> HIDE DEF f
<1>8. f[0] = g[0]
  BY <1>3, <1>7
<1>9. ASSUME NEW k \in 0..22, f[k] = g[k] PROVE f[k + 1] = g[k + 1]
  <2>1. k + 1 \in 1..23 /\ k + 1 \in 0..23 /\ (k + 1) - 1 = k
    OBVIOUS
  <2>2. f[k + 1] = body(f, k + 1)
    BY <1>7, <2>1, Zenon
  <2>3. body(f, k + 1) = OneMove(bc, f[k], k + 1)
    BY <1>2, <2>1
  <2>4. g[k + 1] = OneMove(bc, g[k], k + 1)
    BY <1>4, <2>1
  <2> QED BY <1>9, <2>2, <2>3, <2>4, Zenon
<1>10. 0 \in S /\ \A k \in 0..(23 - 1) : k \in S => k + 1 \in S
  <2> HIDE DEF g
  <2> QED BY <1>8, <1>9
<1>11. 0..23 \subseteq S
  <2> HIDE DEF S
  <2> QED BY <1>10, Induct
<1> QED BY <1>1, <1>11, Zenon

-----------------------------------------------------------------------------
(* The round of the kernels: the rows.                                     *)

RowsChosen(s, n) == [p \in 1..25 |-> IF p <= 5 * n THEN Chosen(s, p) ELSE s[p]]

LEMMA BitSelects ==
    ASSUME NEW p, NEW q, NEW r
    PROVE  Sponge!BitSelect(Sponge!Xor(p, r), p, q) = Sponge!Xor(p, r \ q)
<1>1. \A a, b : \A z : z \in Sponge!Xor(a, b) <=> (z \in a <=> z \notin b)
  BY SMT DEF Sponge!Xor
<1>2. ASSUME NEW z
      PROVE  z \in Sponge!BitSelect(Sponge!Xor(p, r), p, q) <=> z \in Sponge!Xor(p, r \ q)
  <2>1. z \in Sponge!Xor(p, Sponge!Xor(p, r)) <=> z \in r
    BY <1>1, Zenon
  <2>2. z \in Sponge!BitSelect(Sponge!Xor(p, r), p, q)
        <=> (z \in Sponge!Xor(p, r) <=> ~(z \in q /\ z \in Sponge!Xor(p, Sponge!Xor(p, r))))
    BY <1>1, SMT DEF Sponge!BitSelect
  <2>3. z \in Sponge!Xor(p, r \ q) <=> (z \in p <=> ~(z \in r /\ z \notin q))
    BY <1>1, SMT
  <2>4. z \in Sponge!Xor(p, r) <=> (z \in p <=> z \notin r)
    BY <1>1, Zenon
  <2> QED BY <2>1, <2>2, <2>3, <2>4, Zenon
<1> QED BY <1>2, SMT

LEMMA Put ==
    ASSUME NEW f, f = [p \in 1..25 |-> f[p]], NEW i \in 1..25, NEW v
    PROVE  LET g == [f EXCEPT ![i] = v]
           IN g = [p \in 1..25 |-> g[p]] /\ g[i] = v /\ \A p \in 1..25 : p # i => g[p] = f[p]
<1> DEFINE g == [f EXCEPT ![i] = v]
<1>1. DOMAIN f = 1..25
  BY Zenon
<1>2. g[i] = v /\ \A p \in 1..25 : p # i => g[p] = f[p]
  BY <1>1
<1>3. g = [p \in 1..25 |-> g[p]]
  BY <1>1
<1> QED BY <1>2, <1>3, Zenon

LEMMA RowSelects ==
    ASSUME NEW s, DOMAIN s = 1..25, s = [p \in 1..25 |-> s[p]], NEW y \in 0..4
    PROVE  Sponge!SelectRow(s, y) = [p \in 1..25 |-> IF p \in (5 * y + 1)..(5 * y + 5) THEN Chosen(s, p) ELSE s[p]]
<1> DEFINE i == 5 * y + 1
           i1 == i + 1
           i2 == i + 2
           i3 == i + 3
           i4 == i + 4
           s0 == [s EXCEPT ![i] = Sponge!BitSelect(Sponge!Xor(@, s[i2]), @, s[i1])]
           s1 == [s0 EXCEPT ![i1] = Sponge!BitSelect(Sponge!Xor(@, s0[i3]), @, s0[i2])]
           s2 == [s1 EXCEPT ![i2] = Sponge!BitSelect(Sponge!Xor(@, s1[i4]), @, s1[i3])]
           s3 == [s2 EXCEPT ![i3] = Sponge!BitSelect(Sponge!Xor(@, s[i]), @, s2[i4])]
           s4 == [s3 EXCEPT ![i4] = Sponge!BitSelect(Sponge!Xor(@, s[i1]), @, s[i])]
<1>1. Sponge!SelectRow(s, y) = s4
  BY Zenon DEF Sponge!SelectRow
<1>2. /\ i \in 1..25 /\ i1 \in 1..25 /\ i2 \in 1..25 /\ i3 \in 1..25 /\ i4 \in 1..25
      /\ i # i1 /\ i # i2 /\ i # i3 /\ i # i4 /\ i1 # i2 /\ i1 # i3 /\ i1 # i4 /\ i2 # i3 /\ i2 # i4 /\ i3 # i4
  OBVIOUS
<1>3. \A p \in 1..25 : p \in (5 * y + 1)..(5 * y + 5) <=> p = i \/ p = i1 \/ p = i2 \/ p = i3 \/ p = i4
  OBVIOUS
<1>4. /\ Next(i, 1) = i1 /\ Next(i, 2) = i2 /\ Next(i1, 1) = i2 /\ Next(i1, 2) = i3 /\ Next(i2, 1) = i3
      /\ Next(i2, 2) = i4 /\ Next(i3, 1) = i4 /\ Next(i3, 2) = i /\ Next(i4, 1) = i /\ Next(i4, 2) = i1
  <2>1. (i - 1) \div 5 = y /\ (i1 - 1) \div 5 = y /\ (i2 - 1) \div 5 = y /\ (i3 - 1) \div 5 = y /\ (i4 - 1) \div 5 = y
    OBVIOUS
  <2>2. /\ (i - 1 + 1) % 5 = 1 /\ (i - 1 + 2) % 5 = 2 /\ (i1 - 1 + 1) % 5 = 2 /\ (i1 - 1 + 2) % 5 = 3
        /\ (i2 - 1 + 1) % 5 = 3 /\ (i2 - 1 + 2) % 5 = 4 /\ (i3 - 1 + 1) % 5 = 4 /\ (i3 - 1 + 2) % 5 = 0
        /\ (i4 - 1 + 1) % 5 = 0 /\ (i4 - 1 + 2) % 5 = 1
    OBVIOUS
  <2> QED BY <2>1, <2>2 DEF Next
<1> HIDE DEF i, i1, i2, i3, i4
<1>5. \A p, n, m : Next(p, 1) = n /\ Next(p, 2) = m => Sponge!BitSelect(Sponge!Xor(s[p], s[m]), s[p], s[n]) = Chosen(s, p)
  BY BitSelects, Zenon DEF Chosen
<1>6. s0 = [p \in 1..25 |-> s0[p]] /\ s0[i] = Chosen(s, i) /\ \A p \in 1..25 : p # i => s0[p] = s[p]
  <2>1. Sponge!BitSelect(Sponge!Xor(s[i], s[i2]), s[i], s[i1]) = Chosen(s, i)
    BY <1>4, <1>5, Zenon
  <2>2. s0 = [s EXCEPT ![i] = Chosen(s, i)]
    BY <2>1, Zenon
  <2> HIDE DEF s0
  <2> QED BY <1>2, <2>2, Put, Zenon
<1> HIDE DEF s0
<1>7. s1 = [p \in 1..25 |-> s1[p]] /\ s1[i1] = Chosen(s, i1) /\ \A p \in 1..25 : p # i1 => s1[p] = s0[p]
  <2>1. s0[i1] = s[i1] /\ s0[i2] = s[i2] /\ s0[i3] = s[i3]
    BY <1>2, <1>6, Zenon
  <2>2. Sponge!BitSelect(Sponge!Xor(s0[i1], s0[i3]), s0[i1], s0[i2]) = Chosen(s, i1)
    BY <1>4, <1>5, <2>1, Zenon
  <2>3. s1 = [s0 EXCEPT ![i1] = Chosen(s, i1)]
    BY <2>2, Zenon
  <2> HIDE DEF s1
  <2> QED BY <1>2, <1>6, <2>3, Put, Zenon
<1> HIDE DEF s1
<1>8. s2 = [p \in 1..25 |-> s2[p]] /\ s2[i2] = Chosen(s, i2) /\ \A p \in 1..25 : p # i2 => s2[p] = s1[p]
  <2>1. s1[i2] = s[i2] /\ s1[i3] = s[i3] /\ s1[i4] = s[i4]
    <3>1. s0[i2] = s[i2] /\ s0[i3] = s[i3] /\ s0[i4] = s[i4]
      BY <1>2, <1>6, Zenon
    <3>2. s1[i2] = s0[i2] /\ s1[i3] = s0[i3] /\ s1[i4] = s0[i4]
      BY <1>2, <1>7, Zenon
    <3> QED BY <3>1, <3>2, Zenon
  <2>2. Sponge!BitSelect(Sponge!Xor(s1[i2], s1[i4]), s1[i2], s1[i3]) = Chosen(s, i2)
    <3>1. Sponge!BitSelect(Sponge!Xor(s[i2], s[i4]), s[i2], s[i3]) = Chosen(s, i2)
      BY <1>4, <1>5, Zenon
    <3> QED BY <2>1, <3>1, Zenon
  <2>3. s2 = [s1 EXCEPT ![i2] = Chosen(s, i2)]
    BY <2>2, Zenon
  <2> HIDE DEF s2
  <2> QED BY <1>2, <1>7, <2>3, Put, Zenon
<1> HIDE DEF s2
<1>9. s3 = [p \in 1..25 |-> s3[p]] /\ s3[i3] = Chosen(s, i3) /\ \A p \in 1..25 : p # i3 => s3[p] = s2[p]
  <2>1. s2[i3] = s[i3] /\ s2[i4] = s[i4]
    <3>1. s0[i3] = s[i3] /\ s0[i4] = s[i4]
      BY <1>2, <1>6, Zenon
    <3>2. s1[i3] = s0[i3] /\ s1[i4] = s0[i4]
      BY <1>2, <1>7, Zenon
    <3>3. s2[i3] = s1[i3] /\ s2[i4] = s1[i4]
      BY <1>2, <1>8, Zenon
    <3> QED BY <3>1, <3>2, <3>3, Zenon
  <2>2. Sponge!BitSelect(Sponge!Xor(s2[i3], s[i]), s2[i3], s2[i4]) = Chosen(s, i3)
    <3>1. Sponge!BitSelect(Sponge!Xor(s[i3], s[i]), s[i3], s[i4]) = Chosen(s, i3)
      BY <1>4, <1>5, Zenon
    <3> QED BY <2>1, <3>1, Zenon
  <2>3. s3 = [s2 EXCEPT ![i3] = Chosen(s, i3)]
    BY <2>2, Zenon
  <2> HIDE DEF s3
  <2> QED BY <1>2, <1>8, <2>3, Put, Zenon
<1> HIDE DEF s3
<1>10. s4 = [p \in 1..25 |-> s4[p]] /\ s4[i4] = Chosen(s, i4) /\ \A p \in 1..25 : p # i4 => s4[p] = s3[p]
  <2>1. s3[i4] = s[i4]
    <3>1. s3[i4] = s2[i4] /\ s2[i4] = s1[i4]
      BY <1>2, <1>8, <1>9, Zenon
    <3>2. s1[i4] = s0[i4] /\ s0[i4] = s[i4]
      BY <1>2, <1>6, <1>7, Zenon
    <3> QED BY <3>1, <3>2, Zenon
  <2>2. Sponge!BitSelect(Sponge!Xor(s3[i4], s[i1]), s3[i4], s[i]) = Chosen(s, i4)
    BY <1>4, <1>5, <2>1, Zenon
  <2>3. s4 = [s3 EXCEPT ![i4] = Chosen(s, i4)]
    BY <2>2, Zenon
  <2> HIDE DEF s4
  <2> QED BY <1>2, <1>9, <2>3, Put, Zenon
<1> HIDE DEF s4
<1>11. ASSUME NEW p \in 1..25
       PROVE  s4[p] = IF p = i \/ p = i1 \/ p = i2 \/ p = i3 \/ p = i4 THEN Chosen(s, p) ELSE s[p]
  <2>1. p # i => s0[p] = s[p]
    BY <1>6, Zenon
  <2>2. p # i1 => s1[p] = s0[p]
    BY <1>7, Zenon
  <2>3. p # i2 => s2[p] = s1[p]
    BY <1>8, Zenon
  <2>4. p # i3 => s3[p] = s2[p]
    BY <1>9, Zenon
  <2>5. p # i4 => s4[p] = s3[p]
    BY <1>10, Zenon
  <2>6. CASE p = i
    BY <1>2, <1>6, <2>2, <2>3, <2>4, <2>5, <2>6, Zenon
  <2>7. CASE p = i1
    BY <1>2, <1>7, <2>3, <2>4, <2>5, <2>7, Zenon
  <2>8. CASE p = i2
    BY <1>2, <1>8, <2>4, <2>5, <2>8, Zenon
  <2>9. CASE p = i3
    BY <1>2, <1>9, <2>5, <2>9, Zenon
  <2>10. CASE p = i4
    BY <1>10, <2>10, Zenon
  <2>11. CASE p # i /\ p # i1 /\ p # i2 /\ p # i3 /\ p # i4
    BY <2>1, <2>2, <2>3, <2>4, <2>5, <2>11, Zenon
  <2> QED BY <2>6, <2>7, <2>8, <2>9, <2>10, <2>11, Zenon
<1>12. \A p \in 1..25 : s4[p] = IF p \in (5 * y + 1)..(5 * y + 5) THEN Chosen(s, p) ELSE s[p]
  BY <1>3, <1>11, Zenon
<1> QED BY <1>1, <1>10, <1>12, Zenon

LEMMA NextRow ==
    ASSUME NEW s, s = [p \in 1..25 |-> s[p]], NEW y \in 0..4
    PROVE  Sponge!SelectRow(RowsChosen(s, y), y) = RowsChosen(s, y + 1)
<1> DEFINE t == RowsChosen(s, y)
<1>1. t = [p \in 1..25 |-> t[p]] /\ DOMAIN t = 1..25 /\ \A p \in 1..25 : t[p] = IF p <= 5 * y THEN Chosen(s, p) ELSE s[p]
  BY Zenon DEF RowsChosen
<1> HIDE DEF t
<1>2. ASSUME NEW p \in 1..25, p \in (5 * y + 1)..(5 * y + 5) PROVE Chosen(t, p) = Chosen(s, p)
  <2>1. (p - 1) \div 5 = y /\ (p - 1 + 1) % 5 \in 0..4 /\ (p - 1 + 2) % 5 \in 0..4
    BY <1>2
  <2>2. Next(p, 1) = 5 * y + ((p - 1 + 1) % 5) + 1 /\ Next(p, 2) = 5 * y + ((p - 1 + 2) % 5) + 1
    BY <2>1, Zenon DEF Next
  <2>3. \A n \in 0..4 : 5 * y + n + 1 \in 1..25 /\ ~(5 * y + n + 1 <= 5 * y)
    OBVIOUS
  <2>4. Next(p, 1) \in 1..25 /\ Next(p, 2) \in 1..25 /\ ~(Next(p, 1) <= 5 * y) /\ ~(Next(p, 2) <= 5 * y)
    BY <2>1, <2>2, <2>3, Zenon
  <2>5. ~(p <= 5 * y)
    BY <1>2
  <2> QED BY <1>1, <2>4, <2>5, Zenon DEF Chosen
<1>3. \A p \in 1..25 : p <= 5 * (y + 1) <=> p <= 5 * y \/ p \in (5 * y + 1)..(5 * y + 5)
  OBVIOUS
<1>4. Sponge!SelectRow(t, y) = [p \in 1..25 |-> IF p \in (5 * y + 1)..(5 * y + 5) THEN Chosen(t, p) ELSE t[p]]
  BY <1>1, RowSelects
<1>5. \A p \in 1..25 : (IF p \in (5 * y + 1)..(5 * y + 5) THEN Chosen(t, p) ELSE t[p])
                       = IF p <= 5 * (y + 1) THEN Chosen(s, p) ELSE s[p]
  BY <1>1, <1>2, <1>3, Zenon
<1> QED BY <1>4, <1>5, Zenon DEF RowsChosen, t

LEMMA SelectRowsIs ==
    ASSUME NEW s, s = [p \in 1..25 |-> s[p]]
    PROVE  Sponge!SelectRows(s) = [p \in 1..25 |-> Chosen(s, p)]
<1> DEFINE body(f, y) == IF y = 0 THEN s ELSE Sponge!SelectRow(f[y - 1], y - 1)
           f == CHOOSE f : f = [y \in 0..5 |-> body(f, y)]
           g == [y \in 0..5 |-> RowsChosen(s, y)]
           S == {y \in 0..5 : f[y] = g[y]}
<1>1. Sponge!Selected(s) = f
  BY DEF Sponge!Selected
<1>2. \A h : \A y \in 1..5 : body(h, y) = Sponge!SelectRow(h[y - 1], y - 1)
  <2>1. \A y \in 1..5 : y # 0
    OBVIOUS
  <2> QED BY <2>1, Zenon
<1>3. \A h : body(h, 0) = RowsChosen(s, 0)
  <2>1. \A p \in 1..25 : ~(p <= 5 * 0)
    OBVIOUS
  <2>2. RowsChosen(s, 0) = s
    BY <2>1, Zenon DEF RowsChosen
  <2> QED BY <2>2, Zenon
<1>4. \A y \in 1..5 : y - 1 \in 0..5 /\ g[y] = Sponge!SelectRow(g[y - 1], y - 1)
  <2> TAKE y \in 1..5
  <2>1. y - 1 \in 0..4 /\ y - 1 \in 0..5 /\ y \in 0..5 /\ (y - 1) + 1 = y
    OBVIOUS
  <2>2. Sponge!SelectRow(RowsChosen(s, y - 1), y - 1) = RowsChosen(s, y)
    BY <2>1, NextRow
  <2> QED BY <2>1, <2>2, Zenon
<1> HIDE DEF body
<1>5. ASSUME NEW y \in 0..5 PROVE g[y] = body(g, y)
  <2>1. CASE y = 0
    BY <1>3, <2>1
  <2>2. CASE y # 0
    <3>1. y \in 1..5
      BY <2>2
    <3> HIDE DEF g
    <3> QED BY <1>2, <1>4, <3>1, Zenon
  <2> QED BY <2>1, <2>2
<1>6. g = [y \in 0..5 |-> body(g, y)]
  <2> DEFINE h == [y \in 0..5 |-> body(g, y)]
  <2>1. \A y \in 0..5 : g[y] = h[y]
    BY <1>5, Zenon
  <2> QED BY <2>1, Zenon
<1>7. f = [y \in 0..5 |-> body(f, y)]
  <2> HIDE DEF g
  <2> QED BY <1>6, Zenon
<1> HIDE DEF f
<1>8. f[0] = g[0]
  BY <1>3, <1>7
<1>9. ASSUME NEW k \in 0..4, f[k] = g[k] PROVE f[k + 1] = g[k + 1]
  <2>1. k + 1 \in 1..5 /\ k + 1 \in 0..5 /\ (k + 1) - 1 = k
    OBVIOUS
  <2>2. f[k + 1] = body(f, k + 1)
    BY <1>7, <2>1, Zenon
  <2>3. body(f, k + 1) = Sponge!SelectRow(f[k], k)
    BY <1>2, <2>1
  <2>4. g[k + 1] = Sponge!SelectRow(g[k], k)
    BY <1>4, <2>1
  <2> QED BY <1>9, <2>2, <2>3, <2>4, Zenon
<1>10. 0 \in S /\ \A k \in 0..(5 - 1) : k \in S => k + 1 \in S
  <2> HIDE DEF g
  <2> QED BY <1>8, <1>9
<1>11. 0..5 \subseteq S
  <2> HIDE DEF S
  <2> QED BY <1>10, Induct
<1>12. f[5] = RowsChosen(s, 5)
  <2>1. 5 \in 0..5
    OBVIOUS
  <2> QED BY <1>11, <2>1, Zenon
<1>13. \A p \in 1..25 : p <= 5 * 5
  OBVIOUS
<1>14. RowsChosen(s, 5) = [p \in 1..25 |-> Chosen(s, p)]
  BY <1>13, Zenon DEF RowsChosen
<1> QED BY <1>1, <1>12, <1>14, Zenon DEF Sponge!SelectRows

LEMMA LaneOne ==
    ASSUME NEW s \in Sponge!State
    PROVE  Bent(s, 11) = Sponge!Rol(Sponge!Xor(Sponge!At(s, 1), Sponge!Feed(s)[0]), 1)
<1>1. From[11] = 2 /\ Off[11] = 1 /\ 2 - 1 = 1 /\ 1 \in 0..24 /\ (1 + 4) % 5 = 0 /\ 1 % 5 = 1 /\ 1 + 1 = 2
  BY DEF From, Off
<1>2. Sponge!Feed(s)[0] = Fed(s, 1)
  BY <1>1, FeedIs
<1> QED BY <1>1, <1>2, Zenon DEF Bent, Mixing, Sponge!At

LEMMA KernelRoundIs ==
    ASSUME NEW s \in Sponge!State, NEW c
    PROVE  Sponge!KernelRound(s, c) = Rounded(s, c)
<1> DEFINE moved == MovedLanes(s, 23)
           lane == Sponge!Rol(Sponge!Xor(Sponge!At(s, 1), Sponge!Feed(s)[0]), 1)
           b == [moved EXCEPT ![11] = lane]
<1>1. Sponge!Moved(s)[23] = moved
  <2>1. 23 \in 0..23
    OBVIOUS
  <2> QED BY <2>1, MovedIs, Zenon
<1>2. lane = Bent(s, 11)
  BY LaneOne
<1>3. \A p \in 1..25 : p # 11 => moved[p] = Bent(s, p)
  <2> TAKE p \in 1..25
  <2>1. p # 1 /\ p # 11 => 1 <= MovedBy[p] /\ MovedBy[p] <= 23
    BY MovedByMove
  <2> QED BY <2>1, Zenon DEF MovedLanes
<1>4. b = BentLanes(s)
  <2>1. moved = [p \in 1..25 |-> moved[p]] /\ 11 \in 1..25
    BY DEF MovedLanes
  <2> HIDE DEF moved, lane
  <2> QED BY <1>2, <1>3, <2>1, Zenon DEF BentLanes
<1>5. Sponge!KernelRound(s, c) = Sponge!Iota(Sponge!SelectRows(b), c)
  BY <1>1, Zenon DEF Sponge!KernelRound
<1> HIDE DEF b
<1>6. BentLanes(s) = [p \in 1..25 |-> BentLanes(s)[p]]
  BY Zenon DEF BentLanes
<1>7. Sponge!SelectRows(BentLanes(s)) = [p \in 1..25 |-> Chosen(BentLanes(s), p)]
  BY <1>6, SelectRowsIs, Zenon
<1> QED BY <1>4, <1>5, <1>7, Zenon DEF Sponge!Iota, Rounded

-----------------------------------------------------------------------------
(* The first round of a header, and the last one of the mining kernel.     *)

LEMMA LanesAreSeq ==
    ASSUME NEW n \in Nat, NEW d \in [1..n -> Sponge!Lane]
    PROVE  d \in Seq(Sponge!Lane) /\ Len(d) = n
<1> DEFINE L == Sponge!Lane
<1>1. d \in [1..n -> L]
  OBVIOUS
<1> HIDE DEF L
<1>2. d \in Seq(L) /\ Len(d) = n
  BY <1>1, FunctionIsSeq
<1> QED BY <1>2, Zenon DEF L

LEMMA HeaderLanes ==
    ASSUME NEW m \in [1..10 -> Sponge!Lane]
    PROVE  /\ Sponge!PaddedMessage80(m) \in Sponge!State
           /\ \A p \in 12..25 : p # 17 => Sponge!PaddedMessage80(m)[p] = {}
<1> DEFINE one == << {0} >>
           rest == [i \in 1..14 |-> IF i = 6 THEN {63} ELSE {}]
           head == m \o one
           all == head \o rest
           L == Sponge!Lane
<1>1. {0} \in L /\ {63} \in L /\ {} \in L
  BY DEF Sponge!Lane, Sponge!LaneBits
<1>2. m \in Seq(L) /\ Len(m) = 10
  <2>1. 10 \in Nat
    OBVIOUS
  <2> QED BY <2>1, LanesAreSeq, Zenon
<1>3. one \in Seq(L) /\ Len(one) = 1
  <2> HIDE DEF L, rest
  <2> QED BY <1>1
<1>4. rest \in Seq(L) /\ Len(rest) = 14
  <2>1. 14 \in Nat
    OBVIOUS
  <2>2. rest \in [1..14 -> L]
    <3> HIDE DEF L
    <3> QED BY <1>1, Zenon
  <2> HIDE DEF rest
  <2> QED BY <2>1, <2>2, LanesAreSeq, Zenon
<1>5. \A i \in 1..14 : i # 6 => rest[i] = {}
  OBVIOUS
<1> HIDE DEF L, one, rest
<1>6. head \in Seq(L) /\ Len(head) = 11
  <2>1. head \in Seq(L) /\ Len(head) = Len(m) + Len(one)
    BY <1>2, <1>3, ConcatProperties
  <2> QED BY <1>2, <1>3, <2>1
<1> HIDE DEF head
<1>7. /\ all \in Seq(L) /\ Len(all) = 11 + 14
      /\ \A i \in 1..(11 + 14) : all[i] = IF i <= 11 THEN head[i] ELSE rest[i - 11]
  <2>1. /\ all \in Seq(L) /\ Len(all) = Len(head) + Len(rest)
        /\ \A i \in 1..(Len(head) + Len(rest)) : all[i] = IF i <= Len(head) THEN head[i] ELSE rest[i - Len(head)]
    BY <1>4, <1>6, ConcatProperties
  <2> HIDE DEF all
  <2> QED BY <1>4, <1>6, <2>1, Zenon
<1> HIDE DEF all
<1>8. all \in [1..25 -> L]
  <2>1. 11 + 14 = 25
    OBVIOUS
  <2>2. all \in [1..Len(all) -> L]
    BY <1>7, LenProperties
  <2> QED BY <1>7, <2>1, <2>2, Zenon
<1>9. ASSUME NEW p \in 12..25, p # 17 PROVE all[p] = {}
  <2>1. p \in 1..(11 + 14) /\ ~(p <= 11) /\ p - 11 \in 1..14 /\ p - 11 # 6
    BY <1>9
  <2> QED BY <1>5, <1>7, <2>1
<1>10. Sponge!PaddedMessage80(m) = all
  BY Zenon DEF Sponge!PaddedMessage80, all, head, one, rest
<1> QED BY <1>8, <1>9, <1>10, Zenon DEF Sponge!State, L

LEMMA FirstMoveSets ==
    ASSUME NEW k \in 1..23
    PROVE  /\ Sponge!FirstMoves[k][1] = Sponge!Moves[k][1]
           /\ Sponge!FirstMoves[k][3] = (Sponge!Moves[k][2] + 4) % 5
           /\ Sponge!FirstMoves[k][4] = Sponge!Moves[k][3]
           /\ \/ Sponge!FirstMoves[k][2] = Sponge!Moves[k][2] /\ Sponge!FirstMoves[k][2] # -1
              \/ Sponge!FirstMoves[k][2] = -1 /\ Sponge!Moves[k][2] \in 11..24 /\ Sponge!Moves[k][2] # 16
BY DEF Sponge!FirstMoves, Sponge!Moves, Sponge!None

FirstLanes(s, k) == [p \in 1..25 |-> IF 1 <= MovedBy[p] /\ MovedBy[p] <= k THEN Bent(s, p) ELSE s[p]]
OneFirstMove(s, t, k) ==
    LET m == Sponge!FirstMoves[k]
        lane == IF m[2] = Sponge!None THEN {} ELSE Sponge!At(s, m[2])
    IN [t EXCEPT ![m[1] + 1] = Sponge!Rol(Sponge!Xor(lane, Sponge!Feed(s)[m[3]]), m[4])]

LEMMA NextFirstMove ==
    ASSUME NEW s \in Sponge!State, \A p \in 12..25 : p # 17 => s[p] = {}, NEW k \in 1..23
    PROVE  FirstLanes(s, k) = OneFirstMove(s, FirstLanes(s, k - 1), k)
<1> DEFINE q == Sponge!Moves[k][1] + 1
           l == Sponge!Moves[k][2]
           n == Sponge!Moves[k][3]
           f == Sponge!FirstMoves[k]
           lane == IF f[2] = Sponge!None THEN {} ELSE Sponge!At(s, f[2])
           old == FirstLanes(s, k - 1)
           new == FirstLanes(s, k)
<1>1. q \in 1..25 /\ MovedBy[q] = k /\ From[q] = l + 1 /\ Off[q] = n /\ l \in 1..24
  BY MoveSets
<1>2. f[1] + 1 = q /\ f[3] = (l + 4) % 5 /\ f[4] = n
  BY FirstMoveSets
<1>3. lane = s[From[q]]
  <2>1. CASE f[2] = l /\ f[2] # -1
    BY <1>1, <2>1 DEF Sponge!None, Sponge!At
  <2>2. CASE f[2] = -1 /\ l \in 11..24 /\ l # 16
    <3>1. l + 1 \in 12..25 /\ l + 1 # 17
      BY <2>2
    <3>2. s[l + 1] = {}
      BY <3>1
    <3> QED BY <1>1, <2>2, <3>2 DEF Sponge!None
  <2> QED BY <2>1, <2>2, FirstMoveSets
<1> HIDE DEF q, l, n, f, lane
<1>4. Sponge!Feed(s)[(l + 4) % 5] = Fed(s, (From[q] - 1) % 5)
  <2>1. l \in 0..24 /\ From[q] - 1 = l
    BY <1>1
  <2> QED BY <2>1, FeedIs
<1>5. new[q] = Sponge!Rol(Sponge!Xor(lane, Sponge!Feed(s)[f[3]]), f[4])
  <2>1. new[q] = Bent(s, q)
    BY <1>1 DEF FirstLanes
  <2> HIDE DEF old, new
  <2> QED BY <1>1, <1>2, <1>3, <1>4, <2>1, Zenon DEF Bent, Mixing
<1>6. ASSUME NEW p \in 1..25, p # q PROVE new[p] = old[p]
  <2>1. MovedBy[p] # k
    <3>1. CASE p = 1 \/ p = 11
      BY <3>1 DEF MovedBy
    <3>2. CASE p # 1 /\ p # 11
      BY <3>2, <1>6, MovedByMove DEF q
    <3> QED BY <3>1, <3>2
  <2>2. MovedBy[p] \in 0..23
    BY Tables
  <2>3. 1 <= MovedBy[p] /\ MovedBy[p] <= k <=> 1 <= MovedBy[p] /\ MovedBy[p] <= k - 1
    <3> DEFINE u == MovedBy[p]
    <3>1. u \in Int /\ u # k
      BY <2>1, <2>2
    <3> HIDE DEF u
    <3>2. 1 <= u /\ u <= k <=> 1 <= u /\ u <= k - 1
      BY <3>1
    <3> QED BY <3>2 DEF u
  <2> QED BY <2>3, Zenon DEF FirstLanes
<1>7. new = [p \in 1..25 |-> new[p]] /\ old = [p \in 1..25 |-> old[p]]
  BY Zenon DEF FirstLanes
<1> HIDE DEF old, new
<1>8. new = [old EXCEPT ![f[1] + 1] = Sponge!Rol(Sponge!Xor(lane, Sponge!Feed(s)[f[3]]), f[4])]
  BY <1>1, <1>2, <1>5, <1>6, <1>7, Zenon
<1> QED BY <1>8, Zenon DEF OneFirstMove, old, new, f, lane

LEMMA FirstMovedIs ==
    ASSUME NEW s \in Sponge!State, \A p \in 12..25 : p # 17 => s[p] = {}
    PROVE  Sponge!FirstMoved(s)[23] = FirstLanes(s, 23)
<1> DEFINE bc == Sponge!Feed(s)
           body(f, k) == IF k = 0 THEN s
                         ELSE LET m == Sponge!FirstMoves[k]
                                  lane == IF m[2] = Sponge!None THEN {} ELSE Sponge!At(s, m[2])
                              IN [f[k - 1] EXCEPT ![m[1] + 1] = Sponge!Rol(Sponge!Xor(lane, bc[m[3]]), m[4])]
           f == CHOOSE f : f = [k \in 0..23 |-> body(f, k)]
           g == [k \in 0..23 |-> FirstLanes(s, k)]
           S == {k \in 0..23 : f[k] = g[k]}
<1>1. Sponge!FirstMoved(s) = f
  BY DEF Sponge!FirstMoved
<1>2. \A h : \A k \in 1..23 : body(h, k) = OneFirstMove(s, h[k - 1], k)
  <2>1. \A k \in 1..23 : k # 0
    OBVIOUS
  <2> QED BY <2>1, Zenon DEF OneFirstMove
<1>3. \A h : body(h, 0) = FirstLanes(s, 0)
  <2>1. \A p \in 1..25 : ~(1 <= MovedBy[p] /\ MovedBy[p] <= 0)
    BY Tables
  <2>2. s = [p \in 1..25 |-> s[p]]
    BY DEF Sponge!State
  <2>3. FirstLanes(s, 0) = s
    BY <2>1, <2>2, Zenon DEF FirstLanes
  <2> QED BY <2>3, Zenon
<1>4. \A k \in 1..23 : k - 1 \in 0..23 /\ FirstLanes(s, k) = OneFirstMove(s, g[k - 1], k)
  BY NextFirstMove
<1> HIDE DEF body
<1>5. ASSUME NEW k \in 0..23 PROVE g[k] = body(g, k)
  <2>1. CASE k = 0
    BY <1>3, <2>1
  <2>2. CASE k # 0
    <3>1. k \in 1..23
      BY <2>2
    <3> HIDE DEF g
    <3>2. body(g, k) = FirstLanes(s, k)
      BY <1>2, <1>4, <3>1, Zenon
    <3> QED BY <3>2 DEF g
  <2> QED BY <2>1, <2>2
<1>6. g = [k \in 0..23 |-> body(g, k)]
  <2> DEFINE h == [k \in 0..23 |-> body(g, k)]
  <2>1. \A k \in 0..23 : g[k] = h[k]
    BY <1>5, Zenon
  <2> QED BY <2>1, Zenon
<1>7. f = [k \in 0..23 |-> body(f, k)]
  <2> HIDE DEF g
  <2> QED BY <1>6, Zenon
<1> HIDE DEF f
<1>8. f[0] = g[0]
  BY <1>3, <1>7
<1>9. ASSUME NEW k \in 0..22, f[k] = g[k] PROVE f[k + 1] = g[k + 1]
  <2>1. k + 1 \in 1..23 /\ k + 1 \in 0..23 /\ (k + 1) - 1 = k
    OBVIOUS
  <2>2. f[k + 1] = body(f, k + 1)
    BY <1>7, <2>1, Zenon
  <2>3. body(f, k + 1) = OneFirstMove(s, f[k], k + 1)
    BY <1>2, <2>1
  <2>4. g[k + 1] = OneFirstMove(s, g[k], k + 1)
    BY <1>4, <2>1
  <2> QED BY <1>9, <2>2, <2>3, <2>4, Zenon
<1>10. 0 \in S /\ \A k \in 0..(23 - 1) : k \in S => k + 1 \in S
  <2> HIDE DEF g
  <2> QED BY <1>8, <1>9
<1>11. 0..23 \subseteq S
  <2> HIDE DEF S
  <2> QED BY <1>10, Induct
<1>12. f[23] = FirstLanes(s, 23)
  <2>1. 23 \in 0..23
    OBVIOUS
  <2> QED BY <1>11, <2>1, Zenon
<1> QED BY <1>1, <1>12, Zenon

LEMMA FirstRoundIs ==
    ASSUME NEW m \in [1..10 -> Sponge!Lane]
    PROVE  Sponge!FirstRound(m) = Rounded(Sponge!PaddedMessage80(m), {0})
<1> DEFINE s == Sponge!PaddedMessage80(m)
           moved == FirstLanes(s, 23)
           lane == Sponge!Rol(Sponge!Xor(Sponge!At(s, 1), Sponge!Feed(s)[0]), 1)
           first == Sponge!Xor(Sponge!At(s, 0), Sponge!Feed(s)[4])
           b == [moved EXCEPT ![1] = first, ![11] = lane]
<1>1. s \in Sponge!State /\ \A p \in 12..25 : p # 17 => s[p] = {}
  BY HeaderLanes, Zenon
<1> HIDE DEF s
<1>2. Sponge!FirstMoved(s)[23] = moved
  BY <1>1, FirstMovedIs, Zenon
<1>3. lane = Bent(s, 11)
  BY <1>1, LaneOne
<1>4. first = Bent(s, 1)
  <2>1. 0 + 1 = 1
    OBVIOUS
  <2> QED BY <1>1, <2>1, BentFirst, Zenon DEF Sponge!At
<1>5. \A p \in 1..25 : p # 1 /\ p # 11 => moved[p] = Bent(s, p)
  <2> TAKE p \in 1..25
  <2>1. p # 1 /\ p # 11 => 1 <= MovedBy[p] /\ MovedBy[p] <= 23
    BY MovedByMove
  <2> QED BY <2>1, Zenon DEF FirstLanes
<1>6. b = BentLanes(s)
  <2>1. moved = [p \in 1..25 |-> moved[p]] /\ 1 \in 1..25 /\ 11 \in 1..25 /\ 1 # 11
    BY DEF FirstLanes
  <2> DEFINE c == [moved EXCEPT ![1] = first]
  <2> HIDE DEF moved, lane, first
  <2>2. c = [p \in 1..25 |-> c[p]] /\ c[1] = first /\ \A p \in 1..25 : p # 1 => c[p] = moved[p]
    BY <2>1, Put
  <2>3. b = [c EXCEPT ![11] = lane]
    BY Zenon
  <2> HIDE DEF c, b
  <2>4. b = [p \in 1..25 |-> b[p]] /\ b[11] = lane /\ \A p \in 1..25 : p # 11 => b[p] = c[p]
    BY <2>1, <2>2, <2>3, Put
  <2>5. \A p \in 1..25 : b[p] = Bent(s, p)
    BY <1>3, <1>4, <1>5, <2>1, <2>2, <2>4, Zenon
  <2> QED BY <2>4, <2>5, Zenon DEF BentLanes
<1>7. Sponge!FirstRound(m) = Sponge!Iota(Sponge!SelectRows(b), {0})
  BY <1>2, Zenon DEF Sponge!FirstRound, s
<1> HIDE DEF b
<1>8. BentLanes(s) = [p \in 1..25 |-> BentLanes(s)[p]]
  BY Zenon DEF BentLanes
<1>9. Sponge!SelectRows(BentLanes(s)) = [p \in 1..25 |-> Chosen(BentLanes(s), p)]
  BY <1>8, SelectRowsIs, Zenon
<1> QED BY <1>6, <1>7, <1>9, Zenon DEF Sponge!Iota, Rounded, s

LEMMA LastLaneIs ==
    ASSUME NEW s \in Sponge!State, NEW c
    PROVE  Sponge!LastLane(s) = Rounded(s, c)[4]
<1> DEFINE t == Sponge!Sums(s)
           b == BentLanes(s)
<1>1. \A y \in 0..4 : Sponge!At(t, y) = Sponge!Column(s, y)
  BY DEF Sponge!At, Sponge!Sums
<1> HIDE DEF t
<1>2. /\ Fed(s, 0) = Sponge!Xor(Sponge!At(t, 4), Sponge!Rol(Sponge!At(t, 1), 1))
      /\ Fed(s, 3) = Sponge!Xor(Sponge!At(t, 2), Sponge!Rol(Sponge!At(t, 4), 1))
      /\ Fed(s, 4) = Sponge!Xor(Sponge!At(t, 3), Sponge!Rol(Sponge!At(t, 0), 1))
  <2>1. /\ (0 + 4) % 5 = 4 /\ (0 + 1) % 5 = 1 /\ (3 + 4) % 5 = 2 /\ (3 + 1) % 5 = 4 /\ (4 + 4) % 5 = 3 /\ (4 + 1) % 5 = 0
        /\ 0 \in 0..4 /\ 1 \in 0..4 /\ 2 \in 0..4 /\ 3 \in 0..4 /\ 4 \in 0..4
    OBVIOUS
  <2> QED BY <1>1, <2>1, Zenon DEF Fed
<1>3. /\ From[1] = 1 /\ Off[1] = 0 /\ From[4] = 19 /\ Off[4] = 21 /\ From[5] = 25 /\ Off[5] = 14
      /\ (1 - 1) % 5 = 0 /\ (19 - 1) % 5 = 3 /\ (25 - 1) % 5 = 4 /\ 0 + 1 = 1 /\ 18 + 1 = 19 /\ 24 + 1 = 25
      /\ 1 \in 1..25 /\ 4 \in 1..25 /\ 5 \in 1..25
  BY DEF From, Off
<1>4. /\ Mixing(s, 1) = Sponge!Xor(Sponge!At(s, 0), Fed(s, 0))
      /\ Mixing(s, 19) = Sponge!Xor(Sponge!At(s, 18), Fed(s, 3))
      /\ Mixing(s, 25) = Sponge!Xor(Sponge!At(s, 24), Fed(s, 4))
  BY <1>3, Zenon DEF Mixing, Sponge!At
<1>5. b[1] = Mixing(s, 1)
  BY <1>3, RolNone, LanesAreLanes, Zenon DEF BentLanes, Bent
<1>6. b[4] = Sponge!Rol(Mixing(s, 19), 21) /\ b[5] = Sponge!Rol(Mixing(s, 25), 14)
  BY <1>3, Zenon DEF BentLanes, Bent
<1>7. Sponge!LastLane(s) = Sponge!Xor(Sponge!Rol(Mixing(s, 19), 21), Mixing(s, 1) \ Sponge!Rol(Mixing(s, 25), 14))
  BY <1>2, <1>4, Zenon DEF Sponge!LastLane, t
<1>8. Next(4, 1) = 5 /\ Next(4, 2) = 1
  BY DEF Next
<1> HIDE DEF b
<1>9. Sponge!LastLane(s) = Chosen(b, 4)
  BY <1>5, <1>6, <1>7, <1>8, Zenon DEF Chosen
<1>10. Rounded(s, c)[4] = Chosen(b, 4)
  <2>1. 4 \in 1..25 /\ 4 # 1
    OBVIOUS
  <2> QED BY <2>1, Zenon DEF Rounded, b
<1> QED BY <1>9, <1>10, Zenon

-----------------------------------------------------------------------------
(* All the rounds.                                                         *)

LEMMA ConstantLanes ==
    ASSUME NEW r \in 0..23
    PROVE  Sponge!RC[r + 1] \in Sponge!Lane /\ Sponge!RC[1] = {0}
<1> DEFINE k == r + 1
<1>1. k \in 1..24
  OBVIOUS
<1> HIDE DEF k
<1>2. Sponge!RC[k] \subseteq 0..63
  BY <1>1 DEF Sponge!RC
<1>3. Sponge!RC[1] = {0}
  BY DEF Sponge!RC
<1> QED BY <1>2, <1>3 DEF Sponge!Lane, Sponge!LaneBits, k

LEMMA RoundedType ==
    ASSUME NEW s \in Sponge!State, NEW c \in Sponge!Lane
    PROVE  Rounded(s, c) \in Sponge!State
<1> DEFINE b == BentLanes(s)
           e == [p \in 1..25 |-> Chosen(b, p)]
<1>1. \A p \in 1..25 : b[p] \in Sponge!Lane
  BY LanesAreLanes, Zenon DEF Sponge!State
<1> HIDE DEF b
<1>2. ASSUME NEW p \in 1..25 PROVE Chosen(b, p) \in Sponge!Lane
  <2>1. b[Next(p, 2)] \ b[Next(p, 1)] \in Sponge!Lane
    BY <1>1, Rows3, Zenon DEF Sponge!Lane
  <2> QED BY <1>1, <2>1, XorType, Zenon DEF Chosen
<1>3. e \in [1..25 -> Sponge!Lane] /\ 1 \in 1..25
  BY <1>2
<1> HIDE DEF e
<1>4. Sponge!Xor(e[1], c) \in Sponge!Lane
  BY <1>3, XorType, Zenon
<1>5. [e EXCEPT ![1] = Sponge!Xor(@, c)] \in [1..25 -> Sponge!Lane]
  BY <1>3, <1>4, Zenon
<1> QED BY <1>5, Zenon DEF Rounded, Sponge!State, e, b

KeccakInv ==
    /\ lanes \in Sponge!State /\ round \in 0..Sponge!Rounds
    /\ Kind("header") => /\ Parts \in [1..10 -> Sponge!Lane]
                         /\ round = 0 => lanes = Sponge!PaddedMessage80(Parts)

LEMMA KeccakGoesOn == KeccakInv /\ [Sponge!NextRound /\ UNCHANGED input]_<<keccakVars, input>> => KeccakInv'
<1> SUFFICES ASSUME KeccakInv, [Sponge!NextRound /\ UNCHANGED input]_<<keccakVars, input>>
             PROVE  KeccakInv'
  OBVIOUS
<1>1. CASE Sponge!NextRound /\ UNCHANGED input
  <2>1. round \in 0..23 /\ round' = round + 1 /\ lanes' = Sponge!KeccakRound(lanes, Sponge!RC[round + 1])
    BY <1>1 DEF Sponge!NextRound, KeccakInv, Sponge!Rounds
  <2>2. lanes \in Sponge!State
    BY DEF KeccakInv
  <2>3. lanes' \in Sponge!State
    BY <2>1, <2>2, KeccakRoundIs, ConstantLanes, RoundedType
  <2>4. round' \in 0..Sponge!Rounds /\ round' # 0
    BY <2>1 DEF Sponge!Rounds
  <2> QED BY <1>1, <2>3, <2>4 DEF KeccakInv, Kind, Parts
<1>2. CASE UNCHANGED <<keccakVars, input>>
  BY <1>2 DEF KeccakInv, Kind, Parts, keccakVars
<1> QED BY <1>1, <1>2

LEMMA KeccakIsRight ==
    ASSUME KeccakInv
    PROVE  KeccakIsFips202
<1>1. lanes \in Sponge!State /\ round \in 0..24
  BY DEF KeccakInv, Sponge!Rounds
<1>2. ASSUME round < Sponge!Rounds, Kind("header"), round = 0
      PROVE  Sponge!KeccakRound(lanes, Sponge!RC[round + 1]) = Sponge!FirstRound(Parts)
  <2>1. Parts \in [1..10 -> Sponge!Lane] /\ lanes = Sponge!PaddedMessage80(Parts)
    BY <1>2 DEF KeccakInv
  <2>2. Sponge!RC[round + 1] = {0}
    <3>1. round \in 0..23 /\ round + 1 = 1
      BY <1>2
    <3> QED BY <3>1, ConstantLanes
  <2>3. Sponge!FirstRound(Parts) = Rounded(lanes, {0})
    BY <2>1, FirstRoundIs
  <2>4. Sponge!KeccakRound(lanes, {0}) = Rounded(lanes, {0})
    BY <1>1, KeccakRoundIs
  <2> QED BY <2>2, <2>3, <2>4
<1>3. RoundsAgree
  <2> DEFINE c == Sponge!RC[round + 1]
             next == Sponge!KeccakRound(lanes, c)
  <2>1. next = Rounded(lanes, c)
    BY <1>1, KeccakRoundIs, Zenon
  <2>2. next = Sponge!UnrolledRound(lanes, c)
    BY <1>1, <2>1, UnrolledRoundIs, Zenon
  <2>3. next = Sponge!KernelRound(lanes, c)
    BY <1>1, <2>1, KernelRoundIs, Zenon
  <2>4. next = Sha3!Round(lanes, c)
    BY <1>1, <2>1, ReferenceRoundIs, Zenon
  <2> QED BY <1>2, <2>2, <2>3, <2>4, Zenon DEF RoundsAgree
<1>4. LastLaneIsEnough
  BY <1>1, KeccakRoundIs, LastLaneIs, Zenon DEF LastLaneIsEnough
<1> QED BY <1>3, <1>4 DEF KeccakIsFips202

\* Whatever the state they start from, each round of the three permutations is that of
\* FIPS 202, lane by lane; so is the first round of the kernel that leaves the empty lanes
\* of a header out, whatever the header, and the one lane that its last round computes
\* is that of a whole round (sha3.c, sha3.cpp, cuda_keccak256.cu).
THEOREM KeccakKeeps == KeccakSpec => []KeccakIsFips202
<1>1. KeccakInit => KeccakInv
  BY DEF KeccakInit, KeccakInv, Sponge!Rounds
<1>2. KeccakInv /\ [Sponge!NextRound /\ UNCHANGED input]_<<keccakVars, input>> => KeccakInv'
  BY KeccakGoesOn
<1>3. KeccakInv => KeccakIsFips202
  BY KeccakIsRight
<1> QED BY <1>1, <1>2, <1>3, PTL DEF KeccakSpec
=============================================================================

-------------------------- MODULE KeccakReference ---------------------------
(***************************************************************************)
(* Keccak-f[1600] and the padding, as FIPS 202 defines them: A[x, y] is    *)
(* lane x + 5 * y.                                                         *)
(***************************************************************************)
EXTENDS Integers, Sequences

Sum(a, b) == (a \ b) \cup (b \ a)
Turn(a, n) == {(z + n) % 64 : z \in a}

\* rc(t) is the constant term of x^t modulo x^8 + x^6 + x^5 + x^4 + 1, over the field
\* of two elements: a polynomial is the set of its exponents, and to square it doubles them.
Reduced(p) ==
    LET reduced[k \in 0..8] ==
          IF k = 0 THEN p
          ELSE LET n == 16 - k
                   q == reduced[k - 1]
               IN IF n \in q THEN Sum(q, {n, n - 2, n - 3, n - 4, n - 8}) ELSE q
    IN reduced[8]
Power[t \in 0..167] == IF t = 0 THEN {0} ELSE Reduced({2 * n + (t % 2) : n \in Power[t \div 2]})
RoundConstant(round) == {2^j - 1 : j \in {j \in 0..6 : 0 \in Power[j + 7 * round]}}

\* The walk along which the offsets of rho grow.
Walk[t \in 0..23] ==
    IF t = 0 THEN <<1, 0>> ELSE LET xy == Walk[t - 1] IN <<xy[2], (2 * xy[1] + 3 * xy[2]) % 5>>
Offset(x, y) ==
    IF x = 0 /\ y = 0 THEN 0
    ELSE LET t == CHOOSE t \in 0..23 : Walk[t] = <<x, y>> IN ((t + 1) * (t + 2)) \div 2

LaneAt(A, x, y) == A[((x % 5) + 5 * (y % 5)) + 1]
X(i) == (i - 1) % 5
Y(i) == (i - 1) \div 5

Parity(A, x) ==
    Sum(Sum(Sum(LaneAt(A, x, 0), LaneAt(A, x, 1)), Sum(LaneAt(A, x, 2), LaneAt(A, x, 3))), LaneAt(A, x, 4))
ThetaStep(A) ==
    LET D == <<>> \o [i \in 1..5 |-> Sum(Parity(A, i + 3), Turn(Parity(A, i), 1))] IN
    <<>> \o [i \in 1..25 |-> Sum(A[i], D[X(i) + 1])]
RhoPiStep(A) ==
    <<>> \o [i \in 1..25 |->
        LET from == (X(i) + 3 * Y(i)) % 5 IN Turn(LaneAt(A, from, X(i)), Offset(from, X(i)))]
ChiStep(A) ==
    <<>> \o [i \in 1..25 |->
        Sum(A[i], LaneAt(A, X(i) + 2, Y(i)) \ LaneAt(A, X(i) + 1, Y(i)))]

\* A round with a constant.
Round(A, c) == [ChiStep(RhoPiStep(ThetaStep(A))) EXCEPT ![1] = Sum(@, c)]

\* pad10*1 in bytes, lowest bit first, and the blocks of a message.
Pad(rate, n) ==
    LET q == rate - (n % rate) IN
    IF q = 1 THEN << {0, 7} >> ELSE << {0} >> \o [i \in 1..(q - 2) |-> {}] \o << {7} >>
Blocks(message, rate) ==
    LET all == message \o Pad(rate, Len(message)) IN
    [b \in 1..(Len(all) \div rate) |-> SubSeq(all, (b - 1) * rate + 1, b * rate)]
=============================================================================

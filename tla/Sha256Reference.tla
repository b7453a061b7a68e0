-------------------------- MODULE Sha256Reference ---------------------------
(***************************************************************************)
(* SHA-256 as FIPS 180-4 defines it, a round at a time: the functions Ch   *)
(* and Maj, the schedule W, the padding.  Words are sets of bits, added as *)
(* the numbers they are.                                                   *)
(***************************************************************************)
EXTENDS Integers, Sequences

Odd(x, y, z) == {b \in 0..31 : (b \in x <=> b \in y) <=> b \in z}
Rot(x, n) == {b \in 0..31 : (b + n) % 32 \in x}
Shift(x, n) == {b \in 0..31 : b + n \in x}
Ch(x, y, z) == {b \in 0..31 : IF b \in x THEN b \in y ELSE b \in z}
Maj(x, y, z) == {b \in 0..31 : (b \in x /\ b \in y) \/ (b \in x /\ b \in z) \/ (b \in y /\ b \in z)}
Sigma0(x) == Odd(Rot(x, 2), Rot(x, 13), Rot(x, 22))
Sigma1(x) == Odd(Rot(x, 6), Rot(x, 11), Rot(x, 25))
sigma0(x) == Odd(Rot(x, 7), Rot(x, 18), Shift(x, 3))
sigma1(x) == Odd(Rot(x, 17), Rot(x, 19), Shift(x, 10))

\* The number that the bits of x from the given one are, sixteen of them, the highest
\* first; and what remains of a number after a bit has been taken from it, and so on.
Half(x, from) ==
    LET number[n \in 0..16] == IF n = 0 THEN 0 ELSE 2 * number[n - 1] + (IF from + 16 - n \in x THEN 1 ELSE 0)
    IN number[16]
Rest(n) == LET rest[b \in 0..16] == IF b = 0 THEN n ELSE rest[b - 1] \div 2 IN rest
Bits(n) == {b \in 0..15 : Rest(n)[b] % 2 = 1}

\* The sum of two words modulo 2^32, in halves.
Plus(x, y) ==
    LET low == Half(x, 0) + Half(y, 0)
        high == Half(x, 16) + Half(y, 16) + Rest(low)[16]
    IN Bits(low) \cup {b + 16 : b \in Bits(high)}

\* One round on <<a, b, c, d, e, f, g, h>> with W_t and K_t.
Round(v, W, K) ==
    LET T1 == Plus(Plus(Plus(Plus(v[8], Sigma1(v[5])), Ch(v[5], v[6], v[7])), K), W)
        T2 == Plus(Sigma0(v[1]), Maj(v[1], v[2], v[3]))
    IN <<Plus(T1, T2), v[1], v[2], v[3], Plus(v[4], T1), v[5], v[6], v[7]>>

\* The next word of a schedule, of the sixteen before it.
Next(W) ==
    LET t == Len(W) + 1
    IN Plus(Plus(Plus(sigma1(W[t - 2]), W[t - 7]), sigma0(W[t - 15])), W[t - 16])

\* A message of words, padded to blocks.
Padded(message) ==
    LET zeros == (29 - Len(message)) % 16
    IN message \o << {31} >> \o [i \in 1..zeros |-> {}] \o << {}, Bits(32 * Len(message)) >>
=============================================================================

---------------------------- MODULE SolverBytes -----------------------------
(***************************************************************************)
(* How solver.cpp reads and compares numbers: texts are sequences of       *)
(* characters, numbers are NumBytes bytes, the highest first, in place of  *)
(* the 32 of UINT256_LENGTH.                                               *)
(***************************************************************************)
EXTENDS Integers, Sequences

CONSTANTS NumBytes

Prefix0x == <<48, 120>>
Digits == 48..57
SmallLetters == 97..102
BigLetters == 65..70

\* fromAscii, of a digit.
FromAscii(c) ==
    CASE c \in Digits -> c - 48
      [] c \in SmallLetters -> c - 97 + 10
      [] c \in BigLetters -> c - 65 + 10

\* HexToBytes, behind the prefix: two characters at a time.
HexToBytes(hex) ==
    [j \in 1..(Len(hex) \div 2) |-> FromAscii(hex[2 * j - 1]) * 16 + FromAscii(hex[2 * j])]

\* Mutant of SetTarget: the digits are filled up on the right.
SetTargetLeft(target) ==
    HexToBytes(SubSeq(target, 3, Len(target)) \o [i \in 1..(2 * NumBytes + 2 - Len(target)) |-> 48])

\* setTarget, of a text of no more than NumBytes bytes: zeros take the place of what it
\* lacks, and its first two characters, the prefix, are dropped.
SetTarget(target) ==
    HexToBytes([i \in 1..(2 * NumBytes + 2 - Len(target)) |-> 48] \o SubSeq(target, 3, Len(target)))

\* bytesToString, with the table ascii.
Ascii(n) == IF n < 10 THEN 48 + n ELSE 97 + n - 10
BytesToString(bytes) ==
    [i \in 1..2 * Len(bytes) |->
        LET b == bytes[(i + 1) \div 2] IN Ascii(IF i % 2 = 1 THEN b \div 16 ELSE b % 16)]

\* lte: the first bytes that differ decide.
Lte(left, right) ==
    \A i \in DOMAIN left :
        (\A j \in 1..(i - 1) : left[j] = right[j]) => left[i] <= right[i]
=============================================================================

-------------------------------- MODULE Utf8 --------------------------------
(***************************************************************************)
(* utf.c of Jansson: UTF-8 encoding and its checks, on sequences of bytes. *)
(***************************************************************************)
EXTENDS Integers, Sequences

\* What utf8_encode writes: a first byte, and six bits in each of the others.
Continued(c) == 128 + (c % 64)
InTwo(c) == <<192 + c \div 64, Continued(c)>>
InThree(c) == <<224 + c \div 4096, Continued(c \div 64), Continued(c)>>
InFour(c) == <<240 + c \div 262144, Continued(c \div 4096), Continued(c \div 64), Continued(c)>>

\* utf8_encode; the empty sequence stands for its failure.
Encode(c) ==
    CASE c < 0 \/ c > 1114111 -> <<>>
      [] 0 <= c /\ c < 128 -> <<c>>
      [] 128 <= c /\ c < 2048 -> InTwo(c)
      [] 2048 <= c /\ c < 65536 -> InThree(c)
      [] 65536 <= c /\ c <= 1114111 -> InFour(c)

\* utf8_check_first: the length of the sequence a byte begins, 0 if it begins none.
CheckFirst(u) ==
    CASE u < 128 -> 1
      [] u \in 194..223 -> 2
      [] u \in 224..239 -> 3
      [] u \in 240..244 -> 4
      [] OTHER -> 0

Continues(u) == u \in 128..191

\* What utf8_check_full adds up, byte after byte.
Value(b) ==
    CASE Len(b) = 2 -> (b[1] % 32) * 64 + (b[2] % 64)
      [] Len(b) = 3 -> (b[1] % 16) * 4096 + (b[2] % 64) * 64 + (b[3] % 64)
      [] Len(b) = 4 -> (b[1] % 8) * 262144 + (b[2] % 64) * 4096 + (b[3] % 64) * 64 + (b[4] % 64)

\* Mutant of CheckFull: surrogates are let through.
CheckFullWithSurrogates(b) ==
    /\ \A i \in 2..Len(b) : Continues(b[i])
    /\ Value(b) <= 1114111
    /\ Value(b) >= (CASE Len(b) = 2 -> 128 [] Len(b) = 3 -> 2048 [] Len(b) = 4 -> 65536)

\* utf8_check_full, of two to four bytes.
CheckFull(b) ==
    /\ \A i \in 2..Len(b) : Continues(b[i])
    /\ Value(b) <= 1114111
    /\ ~(55296 <= Value(b) /\ Value(b) <= 57343)
    /\ Value(b) >= (CASE Len(b) = 2 -> 128 [] Len(b) = 3 -> 2048 [] Len(b) = 4 -> 65536)

\* The character at i: its bytes, if they are all there and valid, else none.
CharAt(s, i) ==
    LET n == CheckFirst(s[i]) IN
    IF n = 0 \/ i + n - 1 > Len(s) THEN <<>>
    ELSE IF n = 1 \/ CheckFull(SubSeq(s, i, i + n - 1)) THEN SubSeq(s, i, i + n - 1)
    ELSE <<>>

\* utf8_iterate and the code point it returns.
CodePoint(b) == IF Len(b) = 1 THEN b[1] ELSE Value(b)

\* utf8_check_string: where it is in the string after so many turns of its loop. It
\* stays where it finds no character.
Index(s) ==
    LET index[n \in 0..Len(s)] ==
          IF n = 0 THEN 1
          ELSE LET i == index[n - 1] IN IF i > Len(s) THEN i ELSE i + Len(CharAt(s, i))
    IN index
CheckString(s) == Index(s)[Len(s)] > Len(s)

-----------------------------------------------------------------------------
(* What UTF-8 is, by the Unicode standard's table of well-formed sequences *)
(* (table 3-7).                                                            *)

WellFormed(b) ==
    LET Trailing(i) == \A j \in i..Len(b) : b[j] \in 128..191 IN
    CASE Len(b) = 1 -> b[1] \in 0..127
      [] Len(b) = 2 -> b[1] \in 194..223 /\ Trailing(2)
      [] Len(b) = 3 ->
           /\ b[1] \in 224..239 /\ Trailing(2)
           /\ b[1] = 224 => b[2] >= 160
           /\ b[1] = 237 => b[2] <= 159
      [] Len(b) = 4 ->
           /\ b[1] \in 240..244 /\ Trailing(2)
           /\ b[1] = 240 => b[2] >= 144
           /\ b[1] = 244 => b[2] <= 143
      [] OTHER -> FALSE

\* A string is a sequence of well-formed characters.
IsUtf8(s) ==
    \E cuts \in SUBSET (1..Len(s)) :
        /\ 1 \in cuts \/ s = <<>>
        /\ \A i \in cuts :
             LET ends == {j \in 1..(Len(s) + 1) : j > i /\ (j = Len(s) + 1 \/ j \in cuts)}
                 j == CHOOSE j \in ends : \A k \in ends : j <= k
             IN WellFormed(SubSeq(s, i, j - 1))
=============================================================================

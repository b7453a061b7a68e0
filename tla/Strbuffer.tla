----------------------------- MODULE Strbuffer ------------------------------
(***************************************************************************)
(* strbuffer.c of Jansson: a buffer that grows.  Only its sizes matter.    *)
(***************************************************************************)
EXTENDS Integers

CONSTANTS
    SizeMax    \* STRBUFFER_SIZE_MAX, the largest size_t

Factor == 2

Greater(m, n) == IF m > n THEN m ELSE n
Wrap(n) == n % (SizeMax + 1)

\* A state in which the buffer may be: there is always room for the final zero.
IsBuffer(b) == b.size \in 1..SizeMax /\ b.length \in 0..(b.size - 1)

Refused == [size |-> 0, length |-> 0]

\* Mutant of Append: the first check is for twice the size only.
AppendUnchecked(b, n) ==
    IF n < b.size - b.length THEN [b EXCEPT !.length = @ + n]
    ELSE IF b.size > SizeMax \div Factor THEN Refused
    ELSE [size |-> Greater(Wrap(b.size * Factor), Wrap(b.length + n + 1)),
          length |-> Wrap(b.length + n)]

\* strbuffer_append_bytes: sizes are computed modulo SizeMax + 1, so it refuses first.
Append(b, n) ==
    IF n < b.size - b.length THEN [b EXCEPT !.length = @ + n]
    ELSE IF b.size > SizeMax \div Factor \/ n > SizeMax - 1 \/ b.length > Wrap(SizeMax - 1 - n)
      THEN Refused
    ELSE [size |-> Greater(Wrap(b.size * Factor), Wrap(b.length + n + 1)),
          length |-> Wrap(b.length + n)]

Pop(b) == IF b.length > 0 THEN [b EXCEPT !.length = @ - 1] ELSE b
Clear(b) == [b EXCEPT !.length = 0]

\* However much is appended, what was copied fits, with a zero behind it, or the
\* buffer is left as it is.
Fits(b, n) ==
    IsBuffer(b) =>
        LET r == Append(b, n) IN
        r # Refused => IsBuffer(r) /\ r.length = b.length + n /\ r.size >= b.size
=============================================================================

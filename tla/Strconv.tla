------------------------------- MODULE Strconv -------------------------------
(***************************************************************************)
(* strconv.c of Jansson and the conversions of integers: numbers to text   *)
(* and back.  A double is a decimal <<m, e>>, m * 10^e, m no multiple of   *)
(* ten, of at most Precision digits; minus zero is zero.                   *)
(***************************************************************************)
EXTENDS Integers, SequencesExt

CONSTANTS
    IntMax,      \* the largest json_int_t
    Precision,   \* the digits that tell doubles apart, 17
    MaxExp,      \* the largest decimal exponent of a double
    MinExp,      \* -MinExp is the smallest one of a normal double
    SubExp       \* -SubExp the smallest one of a subnormal double

Minus == 45
Plus == 43
Dot == 46
Zero == 48
LowerE == 101
UpperE == 69
Digit == 48..57

Refused == <<>>      \* out of range
Zeros(n) == [i \in 1..n |-> Zero]
Abs(n) == IF n < 0 THEN -n ELSE n

Natural(digits) == FoldLeft(LAMBDA n, c : 10 * n + (c - Zero), 0, digits)

RECURSIVE Decimal(_)
Decimal(n) == IF n < 10 THEN <<Zero + n>> ELSE Decimal(n \div 10) \o <<Zero + (n % 10)>>

Signed(n, digits) == IF n < 0 THEN <<Minus>> \o digits ELSE digits
FormatInteger(n) == Signed(n, Decimal(Abs(n)))

\* The whole number of a text with or without a sign, zero if there is none.
Whole(text) ==
    LET signed == text # <<>> /\ text[1] \in {Minus, Plus} IN
    (IF signed /\ text[1] = Minus THEN -1 ELSE 1) * Natural(IF signed THEN Tail(text) ELSE text)

\* strtoll; out of range is an error.
InRange(n) == IF n \in (-IntMax - 1)..IntMax THEN <<n>> ELSE Refused
Strtoll(text) == InRange(Whole(text))

-----------------------------------------------------------------------------
\* The double nearest to m * 10^e, of any number of digits.
RECURSIVE Nearest(_, _)
Nearest(m, e) ==
    IF m = 0 THEN <<0, 0>>
    ELSE IF m % 10 = 0 THEN Nearest(m \div 10, e + 1)
    ELSE IF Len(Decimal(Abs(m))) > Precision
      THEN Nearest((IF m < 0 THEN -1 ELSE 1) * ((Abs(m) + 5) \div 10), e + 1)
    ELSE <<m, e>>

Magnitude(x) == Len(Decimal(Abs(x[1]))) - 1 + x[2]

\* What the nearest double to x becomes, with errno.
Rounded(x) ==
    [value |-> IF x[1] # 0 /\ Magnitude(x) < -SubExp THEN <<0, 0>> ELSE x,
     erange |-> x[1] # 0 /\ Magnitude(x) \notin (-MinExp)..MaxExp]

\* How much of a text is ahead of the first of S.
Ahead(text, S) ==
    LET at == {i \in DOMAIN text : text[i] \in S} IN
    IF at = {} THEN Len(text) ELSE (CHOOSE i \in at : \A j \in at : i <= j) - 1

\* strtod of a text the lexer took for a number.
StrtodOf(digits, power) ==
    LET point == IF Dot \in Range(digits) THEN Len(digits) - Ahead(digits, {Dot}) - 1 ELSE 0
    IN Rounded(Nearest(Whole(SelectSeq(digits, LAMBDA c : c # Dot)), Whole(power) - point))
StrtodAt(text, e) == StrtodOf(SubSeq(text, 1, e), SubSeq(text, e + 2, Len(text)))
Strtod(text) == StrtodAt(text, Ahead(text, {LowerE, UpperE}))

\* jsonp_strtod: whatever strtod reports, unless it returned zero, is an overflow,
\* a subnormal number too.
Checked(r) == IF r.erange /\ r.value[1] # 0 THEN Refused ELSE r.value
JsonpStrtod(text) == Checked(Strtod(text))

\* printf's %.17g.
PrintG(x) ==
    LET d == Decimal(Abs(x[1]))
        at == Magnitude(x)
        power == (IF at < 0 THEN <<Minus>> ELSE <<Plus>>)
                 \o (IF Abs(at) < 10 THEN <<Zero>> ELSE <<>>) \o Decimal(Abs(at))
    IN Signed(x[1],
         CASE x[1] = 0 -> <<Zero>>
           [] at < -4 \/ at >= Precision ->
                <<d[1]>> \o (IF Len(d) > 1 THEN <<Dot>> \o Tail(d) ELSE <<>>) \o <<LowerE>> \o power
           [] at >= -4 /\ at < 0 -> <<Zero, Dot>> \o Zeros(-at - 1) \o d
           [] at >= 0 /\ x[2] < 0 -> SubSeq(d, 1, at + 1) \o <<Dot>> \o SubSeq(d, at + 2, Len(d))
           [] OTHER -> d \o Zeros(x[2]))

\* Mutant of Pointed: a real without a fraction is left as it is.
PointedNever(text) == text

\* jsonp_dtostr makes sure that a real has a dot or an exponent ...
Pointed(text) ==
    IF {Dot, LowerE} \cap Range(text) = {} THEN text \o <<Dot, Zero>> ELSE text

\* ... and takes the plus sign and the leading zeros out of the exponent.
Trimmed(text) ==
    IF LowerE \notin Range(text) THEN text
    ELSE LET e == CHOOSE i \in DOMAIN text : text[i] = LowerE
             start == IF text[e + 1] = Minus THEN e + 2 ELSE e + 1
             end == CHOOSE i \in (e + 2)..Len(text) :
                        text[i] # Zero /\ \A j \in (e + 2)..(i - 1) : text[j] = Zero
         IN SubSeq(text, 1, start - 1) \o SubSeq(text, end, Len(text))
Dtostr(x) == Trimmed(Pointed(PrintG(x)))
=============================================================================

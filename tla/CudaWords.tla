----------------------------- MODULE CudaWords ------------------------------
(***************************************************************************)
(* The words of cuda_helper.h: the rotations, shifts and byte orders that  *)
(* the kernels are written with, each in the forms that the preprocessor   *)
(* chooses from.  A word of 64 bits is the set of its bits that are one; a *)
(* uint2 is the pair <<x, y>> of its low and its high half.                *)
(***************************************************************************)
EXTENDS Integers, Sequences

Low(v) == {b \in v : b < 32}
High(v) == {b - 32 : b \in {b \in v : b >= 32}}
Up(v, n, width) == {b + n : b \in {b \in v : b + n < width}}
Down(v, n) == {b - n : b \in {b \in v : b >= n}}
Bytes(v, at) == {b % 8 : b \in {b \in v : b \div 8 = at}}

vectorize(v) == <<Low(v), High(v)>>
devectorize(u) == u[1] \cup {b + 32 : b \in u[2]}
SWAPUINT2(u) == <<u[2], u[1]>>

-----------------------------------------------------------------------------
(* The instructions of the device, as its manual has them.                 *)

shf_l_wrap(a, b, n) == Up(b, n % 32, 32) \cup Down(a, 32 - (n % 32))
shf_r_wrap(a, b, n) == Down(a, n % 32) \cup Up(b, 32 - (n % 32), 32)
shf_l_clamp(a, b, n) == IF n >= 32 THEN a ELSE shf_l_wrap(a, b, n)
shf_r_clamp(a, b, n) == IF n >= 32 THEN b ELSE shf_r_wrap(a, b, n)

\* __byte_perm: byte k of the result is the byte of a and b that nibble k selects.
byte_perm(a, b, selector) ==
    UNION {LET s == selector[4 - k] IN {8 * k + c : c \in Bytes(IF s < 4 THEN a ELSE b, s % 4)} : k \in 0..3}

-----------------------------------------------------------------------------
(* Rotations.                                                              *)

\* USE_ROT_ASM_OPT 1, by halves, and 2 and the host's macros, by two shifts.
ROTR64(v, n) ==
    LET lo == Low(v)
        hi == High(v)
    IN devectorize(IF n < 32 THEN <<shf_r_wrap(lo, hi, n), shf_r_wrap(hi, lo, n)>>
                   ELSE <<shf_r_wrap(hi, lo, n), shf_r_wrap(lo, hi, n)>>)
ROTR64_shifts(v, n) == Up(v, 64 - n, 64) \cup Down(v, n)

\* Mutant of ROTL64: a rotation by 32 does not swap the halves.
ROTL64_past(v, n) ==
    LET lo == Low(v)
        hi == High(v)
    IN devectorize(IF n > 32 THEN <<shf_l_wrap(lo, hi, n), shf_l_wrap(hi, lo, n)>>
                   ELSE <<shf_l_wrap(hi, lo, n), shf_l_wrap(lo, hi, n)>>)

ROTL64(v, n) ==
    LET lo == Low(v)
        hi == High(v)
    IN devectorize(IF n >= 32 THEN <<shf_l_wrap(lo, hi, n), shf_l_wrap(hi, lo, n)>>
                   ELSE <<shf_l_wrap(hi, lo, n), shf_l_wrap(lo, hi, n)>>)
ROTL64_shifts(v, n) == Up(v, n, 64) \cup Down(v, 64 - n)

\* USE_ROT_ASM_OPT 3: the halves are exchanged last.
ROTL64_select(v, n) ==
    LET vl == shf_l_wrap(Low(v), High(v), n)
        vh == shf_l_wrap(High(v), Low(v), n)
    IN devectorize(IF n < 32 THEN <<vh, vl>> ELSE <<vl, vh>>)

ROR2(a, n) ==
    IF n < 32 THEN <<shf_r_wrap(a[1], a[2], n), shf_r_wrap(a[2], a[1], n)>>
    ELSE <<shf_r_wrap(a[2], a[1], n), shf_r_wrap(a[1], a[2], n)>>
ROR2_shifts(a, n) ==
    LET Mixed(lo, hi, k) == <<Down(lo, k) \cup Up(hi, 32 - k, 32), Down(hi, k) \cup Up(lo, 32 - k, 32)>> IN
    CASE n = 0 -> a
      [] n \in 1..31 -> Mixed(a[1], a[2], n)
      [] n = 32 -> SWAPUINT2(a)
      [] n > 32 -> Mixed(a[2], a[1], n - 32)

ROL2(a, n) ==
    IF n >= 32 THEN <<shf_l_wrap(a[1], a[2], n), shf_l_wrap(a[2], a[1], n)>>
    ELSE <<shf_l_wrap(a[2], a[1], n), shf_l_wrap(a[1], a[2], n)>>
ROL2_shifts(a, n) == IF n = 0 THEN a ELSE ROR2_shifts(a, 64 - n)

\* The same of misc/cuda_helper.h, for devices without the instruction.
ROR2_misc(v, n) ==
    LET Mixed(lo, hi, k) == <<Down(lo, k) \cup Up(hi, 32 - k, 32), Down(hi, k) \cup Up(lo, 32 - k, 32)>> IN
    IF n <= 32 THEN Mixed(v[1], v[2], n) ELSE Mixed(v[2], v[1], n - 32)
ROL2_misc(v, n) ==
    LET Mixed(lo, hi, k) == <<Up(lo, k, 32) \cup Down(hi, 32 - k), Up(hi, k, 32) \cup Down(lo, 32 - k)>> IN
    IF n <= 32 THEN Mixed(v[1], v[2], n) ELSE Mixed(v[2], v[1], n - 32)

\* By whole bytes: those of cuda_helper.h, then those of misc/cuda_helper.h.
ROL8(a) == <<byte_perm(a[2], a[1], <<6, 5, 4, 3>>), byte_perm(a[2], a[1], <<2, 1, 0, 7>>)>>
ROR16(a) == <<byte_perm(a[2], a[1], <<1, 0, 7, 6>>), byte_perm(a[2], a[1], <<5, 4, 3, 2>>)>>
ROR24(a) == <<byte_perm(a[2], a[1], <<2, 1, 0, 7>>), byte_perm(a[2], a[1], <<6, 5, 4, 3>>)>>

ByBytes(a, selector) == <<byte_perm(a[2], a[1], selector), byte_perm(a[1], a[2], selector)>>
ByBytesLeft(a, selector) == <<byte_perm(a[1], a[2], selector), byte_perm(a[2], a[1], selector)>>
ROR_misc(a) ==
    [n \in {8, 16, 24} |->
        ByBytes(a, CASE n = 8 -> <<0, 7, 6, 5>> [] n = 16 -> <<1, 0, 7, 6>> [] n = 24 -> <<2, 1, 0, 7>>)]
ROL_misc(a) ==
    [n \in {8, 16, 24} |->
        ByBytesLeft(a, CASE n = 8 -> <<2, 1, 0, 7>> [] n = 16 -> <<1, 0, 7, 6>> [] n = 24 -> <<0, 7, 6, 5>>)]

-----------------------------------------------------------------------------
(* Three words at once: bit 4a + 2b + c of the table.                      *)

lop3(a, b, c, table) ==
    {i \in 0..31 :
        (IF i \in a THEN 4 ELSE 0) + (IF i \in b THEN 2 ELSE 0) + (IF i \in c THEN 1 ELSE 0) \in table}
xor3x(a, b, c) == lop3(a, b, c, {1, 2, 4, 7})
chi(a, b, c) == lop3(a, b, c, {1, 4, 6, 7})

-----------------------------------------------------------------------------
(* Shifts of a uint2, for the device and for the host.                     *)

SHL2(a, n) ==
    IF n < 32 THEN <<Up(a[1], n, 32), shf_l_clamp(a[1], a[2], n)>>
    ELSE <<Up(a[2], n, 32), shf_l_clamp(a[2], a[1], n)>>
SHL2_shifts(a, n) ==
    IF n <= 32 THEN <<Up(a[1], n, 32), Up(a[2], n, 32) \cup Down(a[1], 32 - n)>> ELSE << {}, Up(a[1], n - 32, 32) >>
SHR2(a, n) ==
    IF n < 32 THEN <<shf_r_clamp(a[1], a[2], n), Down(a[2], n)>>
    ELSE <<shf_l_clamp(a[2], a[1], n), Up(a[1], n, 32)>>
SHR2_shifts(a, n) ==
    IF n <= 32 THEN <<Down(a[1], n) \cup Up(a[2], 32 - n, 32), Down(a[2], n)>> ELSE <<Down(a[2], n - 32), {}>>

-----------------------------------------------------------------------------
(* Byte orders.                                                            *)

Masked(v, first, last) == {b \in v : b \in first..last}
cuda_swab32(v) == byte_perm(v, v, <<0, 1, 2, 3>>)
cuda_swab32_host(v) ==
    Masked(Up(v, 24, 32), 24, 31) \cup Masked(Up(v, 8, 32), 16, 23)
        \cup Masked(Down(v, 8), 8, 15) \cup Masked(Down(v, 24), 0, 7)

cuda_swab64(v) == devectorize(<<cuda_swab32(High(v)), cuda_swab32(Low(v))>>)
cuda_swab64_host(v) ==
    Down(Masked(v, 56, 63), 56) \cup Down(Masked(v, 48, 55), 40) \cup Down(Masked(v, 40, 47), 24)
        \cup Down(Masked(v, 32, 39), 8) \cup Up(Masked(v, 24, 31), 8, 64) \cup Up(Masked(v, 16, 23), 24, 64)
        \cup Up(Masked(v, 8, 15), 40, 64) \cup Up(Masked(v, 0, 7), 56, 64)
=============================================================================

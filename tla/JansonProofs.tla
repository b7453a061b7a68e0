---------------------------- MODULE JansonProofs ----------------------------
(***************************************************************************)
(* The hash table of Jansson is the ordered map an object promises to be,  *)
(* for any keys, hash function and numbers of buckets; its string buffer   *)
(* holds what is appended to it, for any size of size_t; and it takes a    *)
(* string for UTF-8 if the Unicode standard does, for any bytes.           *)
(***************************************************************************)
EXTENDS JsonHashtable, JsonBytes, SequenceTheorems, FiniteSetTheorems, WellFoundedInduction, TLAPS

-----------------------------------------------------------------------------
(* Induction on the natural numbers, in terms of sets.                     *)

LEMMA LeastNat ==
    ASSUME NEW T, T \subseteq Nat, T # {}
    PROVE  \E n \in T : \A m \in T : n <= m
<1> DEFINE R == {ss \in Nat \X Nat : ss[1] < ss[2]}
<1>1. IsWellFoundedOn(R, Nat)
  BY NatLessThanWellFounded DEF OpToRel
<1>2. \E x \in T : \A y \in T : ~(<<y, x>> \in R)
  <2> HIDE DEF R
  <2> QED BY <1>1, WFMin
<1>3. PICK x \in T : \A y \in T : ~(<<y, x>> \in R)
  BY <1>2
<1>4. \A y \in T : x <= y
  <2> TAKE y \in T
  <2>1. ~(y < x)
    BY <1>3
  <2> QED BY <2>1
<1> QED BY <1>4

LEMMA Induct ==
    ASSUME NEW S, NEW m \in Nat, 0 \in S, \A n \in 0..(m - 1) : n \in S => n + 1 \in S
    PROVE  0..m \subseteq S
<1> DEFINE T == (0..m) \ S
<1>1. SUFFICES ASSUME T # {} PROVE FALSE
  OBVIOUS
<1>2. T \subseteq Nat
  OBVIOUS
<1>3. PICK n \in T : \A k \in T : n <= k
  <2> HIDE DEF T
  <2> QED BY <1>1, <1>2, LeastNat
<1>4. n # 0 /\ n - 1 \in 0..(m - 1) /\ n - 1 \notin T
  BY <1>3
<1> QED BY <1>3, <1>4

-----------------------------------------------------------------------------
(* Sequences into which an element is inserted, or from which one is taken.*)

LEMMA Inserting ==
    ASSUME NEW S, NEW s \in Seq(S), NEW e \in S, NEW i \in 1..(Len(s) + 1)
    PROVE  /\ InsertAt(s, i, e) \in Seq(S)
           /\ Len(InsertAt(s, i, e)) = Len(s) + 1
           /\ \A j \in 1..(i - 1) : InsertAt(s, i, e)[j] = s[j]
           /\ InsertAt(s, i, e)[i] = e
           /\ \A j \in i..Len(s) : InsertAt(s, i, e)[j + 1] = s[j]
<1> DEFINE a == SubSeq(s, 1, i - 1)
           b == SubSeq(s, i, Len(s))
           c == a \o <<e>>
<1> Len(s) \in Nat /\ i \in Nat
  BY LenProperties
<1>1. a \in Seq(S) /\ Len(a) = i - 1 /\ \A j \in 1..(i - 1) : a[j] = s[j]
  BY SubSeqProperties, ElementOfSeq
<1>2. b \in Seq(S) /\ Len(b) = Len(s) - i + 1 /\ \A j \in 1..(Len(s) - i + 1) : b[j] = s[i + j - 1]
  BY SubSeqProperties, ElementOfSeq
<1>3. <<e>> \in Seq(S) /\ Len(<<e>>) = 1 /\ <<e>>[1] = e
  OBVIOUS
<1> HIDE DEF a, b
<1>4. c \in Seq(S) /\ Len(c) = Len(a) + 1
  BY <1>1, <1>3, ConcatProperties
<1>5. \A k \in 1..(Len(a) + 1) : c[k] = IF k <= Len(a) THEN a[k] ELSE <<e>>[k - Len(a)]
  BY <1>1, <1>3, ConcatProperties
<1>6. (\A j \in 1..(i - 1) : c[j] = s[j]) /\ c[i] = e
  BY <1>1, <1>3, <1>5
<1> HIDE DEF c
<1>7. c \o b \in Seq(S) /\ Len(c \o b) = Len(c) + Len(b)
  BY <1>2, <1>4, ConcatProperties
<1>8. \A k \in 1..(Len(c) + Len(b)) : (c \o b)[k] = IF k <= Len(c) THEN c[k] ELSE b[k - Len(c)]
  BY <1>2, <1>4, ConcatProperties
<1>9. ASSUME NEW j \in i..Len(s) PROVE (c \o b)[j + 1] = s[j]
  <2>1. (c \o b)[j + 1] = b[j + 1 - i]
    BY <1>1, <1>2, <1>4, <1>8
  <2>2. b[j + 1 - i] = s[i + (j + 1 - i) - 1]
    BY <1>2
  <2> QED BY <2>1, <2>2
<1>10. InsertAt(s, i, e) = c \o b
  BY DEF InsertAt, a, b, c
<1> QED BY <1>1, <1>2, <1>4, <1>6, <1>7, <1>8, <1>9, <1>10

LEMMA Removing ==
    ASSUME NEW S, NEW s \in Seq(S), NEW i \in 1..Len(s)
    PROVE  /\ RemoveAt(s, i) \in Seq(S)
           /\ Len(RemoveAt(s, i)) = Len(s) - 1
           /\ \A j \in 1..(i - 1) : RemoveAt(s, i)[j] = s[j]
           /\ \A j \in i..(Len(s) - 1) : RemoveAt(s, i)[j] = s[j + 1]
<1> DEFINE a == SubSeq(s, 1, i - 1)
           b == SubSeq(s, i + 1, Len(s))
<1> Len(s) \in Nat /\ i \in Nat
  BY LenProperties
<1>1. a \in Seq(S) /\ Len(a) = i - 1 /\ \A j \in 1..(i - 1) : a[j] = s[j]
  BY SubSeqProperties, ElementOfSeq
<1>2. b \in Seq(S) /\ Len(b) = Len(s) - i /\ \A j \in 1..(Len(s) - i) : b[j] = s[i + j]
  BY SubSeqProperties, ElementOfSeq
<1>3. RemoveAt(s, i) = a \o b
  BY DEF RemoveAt
<1> HIDE DEF a, b
<1>4. a \o b \in Seq(S) /\ Len(a \o b) = Len(a) + Len(b)
  BY <1>1, <1>2, ConcatProperties
<1>5. \A k \in 1..(Len(a) + Len(b)) : (a \o b)[k] = IF k <= Len(a) THEN a[k] ELSE b[k - Len(a)]
  BY <1>1, <1>2, ConcatProperties
<1>6. ASSUME NEW j \in i..(Len(s) - 1) PROVE (a \o b)[j] = s[j + 1]
  <2>1. (a \o b)[j] = b[j - (i - 1)]
    BY <1>1, <1>2, <1>5
  <2>2. b[j - (i - 1)] = s[i + (j - (i - 1))]
    BY <1>2
  <2> QED BY <2>1, <2>2
<1> QED BY <1>1, <1>2, <1>3, <1>4, <1>5, <1>6, SMTT(30)

LEMMA Elements ==
    ASSUME NEW S, NEW s \in Seq(S)
    PROVE  \A x : x \in Range(s) <=> \E i \in 1..Len(s) : s[i] = x
BY RangeEquality

LEMMA Appending ==
    ASSUME NEW S, NEW s \in Seq(S), NEW e \in S
    PROVE  Append(s, e) = InsertAt(s, Len(s) + 1, e)
<1> Len(s) \in Nat
  BY LenProperties
<1>1. /\ Append(s, e) \in Seq(S) /\ Len(Append(s, e)) = Len(s) + 1
      /\ (\A i \in 1..Len(s) : Append(s, e)[i] = s[i]) /\ Append(s, e)[Len(s) + 1] = e
  BY AppendProperties
<1> DEFINE t == InsertAt(s, Len(s) + 1, e)
<1>2. /\ t \in Seq(S) /\ Len(t) = Len(s) + 1
      /\ (\A i \in 1..((Len(s) + 1) - 1) : t[i] = s[i]) /\ t[Len(s) + 1] = e
  BY Inserting
<1> HIDE DEF t
<1>3. \A i \in 1..(Len(s) + 1) : Append(s, e)[i] = t[i]
  BY <1>1, <1>2
<1>4. Append(s, e) = t
  BY <1>1, <1>2, <1>3, SeqEqual
<1> QED BY <1>4 DEF t

\* No element is there twice.
Once(s) == \A i, j \in 1..Len(s) : s[i] = s[j] => i = j

LEMMA Positions ==
    ASSUME NEW S, NEW s \in Seq(S), Once(s), NEW i \in 1..Len(s)
    PROVE  Pos(s, s[i]) = i
<1>1. DOMAIN s = 1..Len(s)
  BY LenProperties
<1> QED BY <1>1 DEF Pos, Once

LEMMA InsertedOnce ==
    ASSUME NEW S, NEW s \in Seq(S), NEW e \in S, NEW i \in 1..(Len(s) + 1), Once(s), e \notin Range(s)
    PROVE  Once(InsertAt(s, i, e)) /\ Range(InsertAt(s, i, e)) = Range(s) \cup {e}
<1> DEFINE t == InsertAt(s, i, e)
<1> Len(s) \in Nat
  BY LenProperties
<1>1. /\ t \in Seq(S) /\ Len(t) = Len(s) + 1 /\ (\A j \in 1..(i - 1) : t[j] = s[j]) /\ t[i] = e
      /\ (\A j \in i..Len(s) : t[j + 1] = s[j])
  BY Inserting
<1>2. \A j \in 1..Len(s) : s[j] # e
  BY Elements
<1> HIDE DEF t
<1>3. \A m \in 1..Len(t) :
        \/ m < i /\ m \in 1..Len(s) /\ t[m] = s[m]
        \/ m = i /\ t[m] = e
        \/ m > i /\ m - 1 \in 1..Len(s) /\ t[m] = s[m - 1]
  <2> TAKE m \in 1..Len(t)
  <2>1. CASE m <= i
    BY <1>1, <2>1
  <2>2. CASE m > i
    <3>1. m - 1 \in i..Len(s)
      BY <1>1, <2>2
    <3> QED BY <1>1, <2>2, <3>1
  <2> QED BY <2>1, <2>2
<1>4. Once(t)
  BY <1>2, <1>3, SMTT(30) DEF Once
<1>5. Range(t) = Range(s) \cup {e}
  <2>1. ASSUME NEW x \in Range(t) PROVE x \in Range(s) \cup {e}
    BY <1>1, <1>3, <2>1, Elements, SMTT(30)
  <2>2. ASSUME NEW x \in Range(s) PROVE x \in Range(t)
    <3>1. PICK j \in 1..Len(s) : s[j] = x
      BY Elements
    <3>2. t[j] = x \/ t[j + 1] = x
      BY <1>1, <3>1
    <3>3. j \in 1..Len(t) /\ j + 1 \in 1..Len(t)
      BY <1>1
    <3> QED BY <1>1, <3>2, <3>3, Elements
  <2>3. e \in Range(t)
    BY <1>1, Elements
  <2> QED BY <2>1, <2>2, <2>3
<1> QED BY <1>4, <1>5 DEF t

LEMMA RemovedOnce ==
    ASSUME NEW S, NEW s \in Seq(S), NEW i \in 1..Len(s), Once(s)
    PROVE  Once(RemoveAt(s, i)) /\ Range(RemoveAt(s, i)) = Range(s) \ {s[i]}
<1> DEFINE t == RemoveAt(s, i)
<1> Len(s) \in Nat
  BY LenProperties
<1>1. /\ t \in Seq(S) /\ Len(t) = Len(s) - 1 /\ (\A j \in 1..(i - 1) : t[j] = s[j])
      /\ (\A j \in i..(Len(s) - 1) : t[j] = s[j + 1])
  BY Removing
<1> HIDE DEF t
<1>2. \A m \in 1..Len(t) :
        \/ m < i /\ m \in 1..Len(s) /\ t[m] = s[m]
        \/ m >= i /\ m + 1 \in 1..Len(s) /\ t[m] = s[m + 1]
  BY <1>1
<1>3. Once(t)
  BY <1>2 DEF Once
<1>4. Range(t) = Range(s) \ {s[i]}
  <2>1. ASSUME NEW x \in Range(t) PROVE x \in Range(s) \ {s[i]}
    <3>1. PICK m \in 1..Len(t) : t[m] = x
      BY <1>1, Elements
    <3>2. \E k \in 1..Len(s) : k # i /\ s[k] = x
      BY <1>2, <3>1
    <3> QED BY <3>2, Elements DEF Once
  <2>2. ASSUME NEW x \in Range(s) \ {s[i]} PROVE x \in Range(t)
    <3>1. PICK k \in 1..Len(s) : s[k] = x
      BY Elements
    <3>2. \E m \in 1..Len(t) : t[m] = x
      <4>1. CASE k < i
        <5>1. k \in 1..Len(t) /\ t[k] = x
          BY <1>1, <3>1, <4>1
        <5> QED BY <5>1
      <4>2. CASE k > i
        <5>1. k - 1 \in 1..Len(t) /\ k - 1 \in i..(Len(s) - 1)
          BY <1>1, <4>2
        <5>2. t[k - 1] = s[(k - 1) + 1]
          BY <1>1, <5>1
        <5> QED BY <3>1, <5>1, <5>2
      <4> QED BY <2>2, <3>1, <4>1, <4>2
    <3> QED BY <1>1, <3>2, Elements
  <2> QED BY <2>1, <2>2
<1> QED BY <1>3, <1>4 DEF t

-----------------------------------------------------------------------------
(* Tables: a list without repetitions, each bucket a segment of it.        *)

\* The pairs on list l that belong to bucket b of n are those from f to g.
IsBucket(l, f, g, n, b) ==
    \/ f = List /\ g = List /\ \A k \in 1..Len(l) : Hash(l[k]) % n # b
    \/ \E i, j \in 1..Len(l) :
         /\ i <= j /\ f = l[i] /\ g = l[j]
         /\ \A k \in 1..Len(l) : Hash(l[k]) % n = b <=> k \in i..j

IsTable(t, n) ==
    /\ t \in [list : Seq(Keys), first : [0..(n - 1) -> Keys \cup {List}],
              last : [0..(n - 1) -> Keys \cup {List}]]
    /\ Once(t.list)
    /\ \A b \in 0..(n - 1) : IsBucket(t.list, t.first[b], t.last[b], n, b)

LEMMA HashInTable ==
    ASSUME ConstantsOK, NEW key \in Keys, NEW n \in Nat \ {0}
    PROVE  Hash(key) % n \in 0..(n - 1)
BY DEF ConstantsOK

\* hashtable_find_pair walks along the pairs of the bucket, and no others.
LEMMA SegmentOfBucket ==
    ASSUME ConstantsOK, NEW n \in Nat \ {0}, NEW t, IsTable(t, n), NEW b \in 0..(n - 1)
    PROVE  Segment(t, b) = {key \in Range(t.list) : Hash(key) % n = b}
<1> t.list \in Seq(Keys) /\ Once(t.list) /\ Len(t.list) \in Nat
  BY LenProperties DEF IsTable
<1>1. IsBucket(t.list, t.first[b], t.last[b], n, b)
  BY DEF IsTable
<1>2. CASE t.first[b] = List
  <2>1. \A i \in 1..Len(t.list) : t.list[i] # List
    BY ElementOfSeq DEF ConstantsOK
  <2>2. \A k \in 1..Len(t.list) : Hash(t.list[k]) % n # b
    BY <1>1, <1>2, <2>1 DEF IsBucket
  <2>3. {key \in Range(t.list) : Hash(key) % n = b} = {}
    BY <2>2, Elements
  <2> QED BY <1>2, <2>3 DEF Segment
<1>3. CASE t.first[b] # List
  <2>1. PICK i, j \in 1..Len(t.list) :
          /\ i <= j /\ t.first[b] = t.list[i] /\ t.last[b] = t.list[j]
          /\ \A k \in 1..Len(t.list) : Hash(t.list[k]) % n = b <=> k \in i..j
    BY <1>1, <1>3 DEF IsBucket
  <2>2. Pos(t.list, t.first[b]) = i /\ Pos(t.list, t.last[b]) = j
    BY <2>1, Positions
  <2>3. Segment(t, b) = {t.list[k] : k \in i..j}
    BY <1>3, <2>2 DEF Segment
  <2>4. ASSUME NEW k \in i..j PROVE t.list[k] \in {key \in Range(t.list) : Hash(key) % n = b}
    <3>1. k \in 1..Len(t.list)
      OBVIOUS
    <3> QED BY <2>1, <3>1, Elements
  <2>5. ASSUME NEW key \in Range(t.list), Hash(key) % n = b PROVE key \in {t.list[k] : k \in i..j}
    <3>1. PICK k \in 1..Len(t.list) : t.list[k] = key
      BY Elements
    <3>2. k \in i..j
      BY <2>1, <2>5, <3>1
    <3> QED BY <3>1, <3>2
  <2> QED BY <2>3, <2>4, <2>5
<1> QED BY <1>2, <1>3

\* A bucket stays one when another's pair is put on the list, not in its middle.
LEMMA InsertedElsewhere ==
    ASSUME NEW l \in Seq(Keys), NEW key \in Keys, NEW p \in 1..(Len(l) + 1), NEW n, NEW b, NEW f, NEW g,
           IsBucket(l, f, g, n, b), Hash(key) % n # b,
           p <= Len(l) => Hash(l[p]) % n # b
    PROVE  IsBucket(InsertAt(l, p, key), f, g, n, b)
<1> DEFINE m == InsertAt(l, p, key)
<1> Len(l) \in Nat
  BY LenProperties
<1>1. /\ Len(m) = Len(l) + 1 /\ (\A j \in 1..(p - 1) : m[j] = l[j]) /\ m[p] = key
      /\ (\A j \in p..Len(l) : m[j + 1] = l[j])
  BY Inserting
<1> HIDE DEF m
<1>2. \A k \in 1..Len(m) :
        \/ k < p /\ k \in 1..Len(l) /\ m[k] = l[k]
        \/ k = p /\ m[k] = key
        \/ k > p /\ k - 1 \in p..Len(l) /\ m[k] = l[k - 1]
  <2> TAKE k \in 1..Len(m)
  <2>1. CASE k <= p
    BY <1>1, <2>1
  <2>2. CASE k > p
    <3>1. k - 1 \in p..Len(l)
      BY <1>1, <2>2
    <3>2. m[(k - 1) + 1] = l[k - 1]
      BY <1>1, <3>1
    <3> QED BY <2>2, <3>1, <3>2
  <2> QED BY <2>1, <2>2
<1>3. CASE f = List /\ g = List /\ \A k \in 1..Len(l) : Hash(l[k]) % n # b
  <2>1. ASSUME NEW k \in 1..Len(m) PROVE Hash(m[k]) % n # b
    <3>1. CASE k > p
      <4>1. k - 1 \in 1..Len(l)
        BY <1>2, <3>1
      <4> QED BY <1>2, <1>3, <3>1, <4>1
    <3> QED BY <1>2, <1>3, <3>1
  <2> QED BY <1>3, <2>1 DEF IsBucket, m
<1>4. ASSUME NEW i \in 1..Len(l), NEW j \in 1..Len(l), i <= j, f = l[i], g = l[j],
             \A k \in 1..Len(l) : Hash(l[k]) % n = b <=> k \in i..j
      PROVE  IsBucket(m, f, g, n, b)
  <2>1. p \notin i..j
    BY <1>4
  <2>2. CASE j < p
    <3>1. i \in 1..Len(m) /\ j \in 1..Len(m) /\ m[i] = f /\ m[j] = g
      BY <1>1, <1>4, <2>2
    <3>2. ASSUME NEW k \in 1..Len(m) PROVE Hash(m[k]) % n = b <=> k \in i..j
      <4>1. CASE k > p
        <5>1. k - 1 \in 1..Len(l) /\ m[k] = l[k - 1] /\ k - 1 \notin i..j
          BY <1>2, <2>2, <4>1
        <5> QED BY <1>4, <2>2, <4>1, <5>1
      <4>2. CASE k = p
        BY <1>1, <2>2, <4>2
      <4>3. CASE k < p
        BY <1>2, <1>4, <4>3
      <4> QED BY <4>1, <4>2, <4>3
    <3> QED BY <1>4, <3>1, <3>2 DEF IsBucket
  <2>3. CASE p < i
    <3>1. i + 1 \in 1..Len(m) /\ j + 1 \in 1..Len(m) /\ m[i + 1] = f /\ m[j + 1] = g
      <4>1. i \in p..Len(l) /\ j \in p..Len(l) /\ Len(m) = Len(l) + 1
        BY <1>1, <1>4, <2>3
      <4>2. m[i + 1] = l[i] /\ m[j + 1] = l[j]
        BY <1>1, <4>1
      <4> QED BY <1>4, <4>1, <4>2
    <3>2. ASSUME NEW k \in 1..Len(m) PROVE Hash(m[k]) % n = b <=> k \in (i + 1)..(j + 1)
      <4>1. CASE k > p
        <5>1. k - 1 \in 1..Len(l) /\ m[k] = l[k - 1]
          BY <1>2, <4>1
        <5>2. Hash(l[k - 1]) % n = b <=> k - 1 \in i..j
          BY <1>4, <5>1
        <5> QED BY <5>1, <5>2
      <4>2. CASE k = p
        BY <1>1, <2>3, <4>2
      <4>3. CASE k < p
        <5>1. k \in 1..Len(l) /\ m[k] = l[k] /\ k \notin i..j /\ k \notin (i + 1)..(j + 1)
          BY <1>2, <2>3, <4>3
        <5> QED BY <1>4, <5>1
      <4> QED BY <4>1, <4>2, <4>3
    <3>3. i + 1 <= j + 1
      BY <1>4
    <3> QED BY <3>1, <3>2, <3>3 DEF IsBucket
  <2> QED BY <2>1, <2>2, <2>3
<1>5. IsBucket(m, f, g, n, b)
  BY <1>3, <1>4 DEF IsBucket, m
<1> QED BY <1>5 DEF m

LEMMA InsertedHere ==
    ASSUME NEW l \in Seq(Keys), NEW key \in Keys, NEW n, NEW f, NEW g, NEW i \in 1..Len(l), NEW j \in 1..Len(l),
           i <= j, g = l[j], \A k \in 1..Len(l) : Hash(l[k]) % n = Hash(key) % n <=> k \in i..j
    PROVE  IsBucket(InsertAt(l, i, key), key, g, n, Hash(key) % n)
<1> DEFINE m == InsertAt(l, i, key)
<1> Len(l) \in Nat
  BY LenProperties
<1>1. /\ Len(m) = Len(l) + 1 /\ (\A k \in 1..(i - 1) : m[k] = l[k]) /\ m[i] = key
      /\ (\A k \in i..Len(l) : m[k + 1] = l[k])
  <2>1. i \in 1..(Len(l) + 1)
    OBVIOUS
  <2> QED BY <2>1, Inserting
<1> HIDE DEF m
<1>2. i \in 1..Len(m) /\ j + 1 \in 1..Len(m) /\ i <= j + 1 /\ m[i] = key /\ m[j + 1] = g
  BY <1>1
<1>3. ASSUME NEW k \in 1..Len(m) PROVE Hash(m[k]) % n = Hash(key) % n <=> k \in i..(j + 1)
  <2>1. CASE k < i
    <3>1. k \in 1..Len(l) /\ m[k] = l[k] /\ k \notin i..j /\ k \notin i..(j + 1)
      BY <1>1, <2>1
    <3> QED BY <3>1
  <2>2. CASE k = i
    BY <1>1, <2>2
  <2>3. CASE k > i
    <3>1. k - 1 \in i..Len(l) /\ k - 1 \in 1..Len(l)
      BY <1>1, <2>3
    <3>2. m[(k - 1) + 1] = l[k - 1]
      BY <1>1, <3>1
    <3>3. Hash(l[k - 1]) % n = Hash(key) % n <=> k - 1 \in i..j
      BY <3>1
    <3> QED BY <2>3, <3>2, <3>3
  <2> QED BY <2>1, <2>2, <2>3
<1> QED BY <1>2, <1>3 DEF IsBucket, m

LEMMA InsertedFirst ==
    ASSUME NEW l \in Seq(Keys), NEW key \in Keys, NEW n,
           \A k \in 1..Len(l) : Hash(l[k]) % n # Hash(key) % n
    PROVE  IsBucket(InsertAt(l, Len(l) + 1, key), key, key, n, Hash(key) % n)
<1> DEFINE i == Len(l) + 1
           m == InsertAt(l, i, key)
<1> Len(l) \in Nat
  BY LenProperties
<1>1. /\ Len(m) = Len(l) + 1 /\ (\A k \in 1..(i - 1) : m[k] = l[k]) /\ m[i] = key
  BY Inserting
<1> HIDE DEF m
<1>2. i \in 1..Len(m) /\ \A k \in 1..Len(m) : Hash(m[k]) % n = Hash(key) % n <=> k \in i..i
  BY <1>1
<1> QED BY <1>1, <1>2 DEF IsBucket, m

\* Table r has the pairs of table t, and key.
HasAlso(r, t, n, key) ==
    IsTable(r, n) /\ Len(r.list) = Len(t.list) + 1 /\ Range(r.list) = Range(t.list) \cup {key}

\* insert_to_bucket keeps a table, and puts the pair into it.
LEMMA InsertToBucketTable ==
    ASSUME ConstantsOK, NEW n \in Nat \ {0}, NEW t, IsTable(t, n), NEW key \in Keys, key \notin Range(t.list)
    PROVE  HasAlso(InsertToBucket(t, Hash(key) % n, key), t, n, key)
<1> DEFINE b == Hash(key) % n
           l == t.list
           r == InsertToBucket(t, b, key)
<1> l \in Seq(Keys) /\ Once(l) /\ Len(l) \in Nat
  BY LenProperties DEF IsTable
<1> b \in 0..(n - 1)
  BY HashInTable
<1>1. /\ t.first \in [0..(n - 1) -> Keys \cup {List}] /\ t.last \in [0..(n - 1) -> Keys \cup {List}]
      /\ \A c \in 0..(n - 1) : IsBucket(l, t.first[c], t.last[c], n, c)
  BY DEF IsTable
<1>2. \A k \in 1..Len(l) : l[k] \in Keys /\ l[k] # List
  BY ElementOfSeq, SMTT(30) DEF ConstantsOK
\* Where the pair comes to stand, and the ends of its bucket.
<1>3. PICK p \in 1..(Len(l) + 1), g \in Keys :
        /\ r = [list |-> InsertAt(l, p, key), first |-> [t.first EXCEPT ![b] = key],
                last |-> [t.last EXCEPT ![b] = g]]
        /\ p <= Len(l) => Hash(l[p]) % n = b
        /\ IsBucket(InsertAt(l, p, key), key, g, n, b)
  <2>1. CASE t.first[b] = List
    <3>1. \A k \in 1..Len(l) : Hash(l[k]) % n # b
      BY <1>1, <1>2, <2>1 DEF IsBucket
    <3>2. IsBucket(InsertAt(l, Len(l) + 1, key), key, key, n, b)
      BY <3>1, InsertedFirst
    <3>3. r = [list |-> InsertAt(l, Len(l) + 1, key), first |-> [t.first EXCEPT ![b] = key],
               last |-> [t.last EXCEPT ![b] = key]]
      BY <2>1, Appending DEF InsertToBucket
    <3>4. Len(l) + 1 \in 1..(Len(l) + 1) /\ ~(Len(l) + 1 <= Len(l))
      OBVIOUS
    <3> HIDE DEF r, b, l
    <3> QED BY <3>2, <3>3, <3>4
  <2>2. CASE t.first[b] # List
    <3>1. PICK i, j \in 1..Len(l) :
            /\ i <= j /\ t.first[b] = l[i] /\ t.last[b] = l[j]
            /\ \A k \in 1..Len(l) : Hash(l[k]) % n = b <=> k \in i..j
      BY <1>1, <2>2 DEF IsBucket
    <3>2. Pos(l, t.first[b]) = i
      BY <3>1, Positions
    <3>3. r = [list |-> InsertAt(l, i, key), first |-> [t.first EXCEPT ![b] = key],
               last |-> [t.last EXCEPT ![b] = l[j]]]
      <4>1. t = [list |-> l, first |-> t.first, last |-> t.last]
        BY DEF IsTable
      <4>2. t.last = [t.last EXCEPT ![b] = l[j]]
        BY <1>1, <3>1
      <4> QED BY <2>2, <3>2, <4>1, <4>2 DEF InsertToBucket
    <3>4. IsBucket(InsertAt(l, i, key), key, l[j], n, b)
      BY <3>1, InsertedHere
    <3>5. Hash(l[i]) % n = b
      BY <3>1
    <3>6. i \in 1..(Len(l) + 1) /\ l[j] \in Keys
      BY <1>2
    <3> QED BY <3>3, <3>4, <3>5, <3>6
  <2> QED BY <2>1, <2>2
<1> DEFINE m == InsertAt(l, p, key)
<1>4. m \in Seq(Keys) /\ Len(m) = Len(l) + 1
  BY Inserting
<1>5. Once(m) /\ Range(m) = Range(l) \cup {key}
  BY InsertedOnce
<1> HIDE DEF r
<1>6. r.list = m /\ r.first = [t.first EXCEPT ![b] = key] /\ r.last = [t.last EXCEPT ![b] = g]
  BY <1>3
<1>7. ASSUME NEW c \in 0..(n - 1) PROVE IsBucket(r.list, r.first[c], r.last[c], n, c)
  <2>1. CASE c = b
    BY <1>1, <1>3, <1>6, <2>1
  <2>2. CASE c # b
    <3>1. IsBucket(l, t.first[c], t.last[c], n, c)
      BY <1>1
    <3>2. p <= Len(l) => Hash(l[p]) % n # c
      BY <1>3, <2>2
    <3>3. IsBucket(m, t.first[c], t.last[c], n, c)
      BY <2>2, <3>1, <3>2, InsertedElsewhere
    <3> QED BY <1>1, <1>6, <2>2, <3>3
  <2> QED BY <2>1, <2>2
<1>8. r \in [list : Seq(Keys), first : [0..(n - 1) -> Keys \cup {List}],
             last : [0..(n - 1) -> Keys \cup {List}]]
  BY <1>1, <1>3, <1>4
<1>9. HasAlso(r, t, n, key)
  BY <1>4, <1>5, <1>6, <1>7, <1>8 DEF IsTable, HasAlso
<1> QED BY <1>9 DEF r

LEMMA NoPairsTable ==
    ASSUME NEW n \in Nat \ {0}
    PROVE  IsTable(NoPairs(n), n) /\ Len(NoPairs(n).list) = 0 /\ Range(NoPairs(n).list) = {}
<1>1. NoPairs(n).list = <<>> /\ <<>> \in Seq(Keys) /\ Len(<<>>) = 0
  BY DEF NoPairs
<1>2. Range(<<>>) = {}
  BY <1>1 DEF Range
<1> QED BY <1>1, <1>2 DEF IsTable, IsBucket, Once, NoPairs, NoBuckets

\* hashtable_do_rehash makes a table of the same pairs, if they are on the list once.
LEMMA RehashedTable ==
    ASSUME ConstantsOK, NEW n \in Nat \ {0}, list \in Seq(Keys), Once(list)
    PROVE  IsTable(Rehashed(n), n) /\ Len(Rehashed(n).list) = Len(list) /\ Range(Rehashed(n).list) = Range(list)
<1> DEFINE step(t, i) == InsertToBucket(t, Hash(list[i]) % n, list[i])
           body(f, i) == IF i = 0 THEN NoPairs(n) ELSE step(f[i - 1], i)
           loop == CHOOSE f : f = [i \in 0..Len(list) |-> body(f, i)]
<1> Len(list) \in Nat
  BY LenProperties
<1>1. Rehashed(n) = loop[Len(list)]
  BY DEF Rehashed
\* There is such a loop.
<1>2. \E f : f = [i \in 0..Len(list) |-> body(f, i)]
  <2> DEFINE S == {k \in 0..Len(list) : \E f : f = [i \in 0..k |-> body(f, i)]}
  <2> HIDE DEF step
  <2>1. 0 \in S
    <3> DEFINE f == [i \in 0..0 |-> NoPairs(n)]
    <3>1. f = [i \in 0..0 |-> body(f, i)]
      OBVIOUS
    <3> HIDE DEF f, body
    <3> QED BY <3>1
  <2>2. ASSUME NEW k \in 0..(Len(list) - 1), k \in S PROVE k + 1 \in S
    <3>1. PICK f : f = [i \in 0..k |-> body(f, i)]
      BY <2>2
    <3> DEFINE g == [i \in 0..(k + 1) |-> IF i <= k THEN f[i] ELSE step(f[k], k + 1)]
    <3>2. ASSUME NEW i \in 0..(k + 1) PROVE g[i] = body(g, i)
      <4>1. CASE i = 0
        <5>1. g[i] = f[0]
          BY <4>1
        <5>2. f[0] = body(f, 0)
          BY <3>1
        <5> QED BY <4>1, <5>1, <5>2
      <4>2. CASE i \in 1..k
        <5>1. g[i] = f[i] /\ g[i - 1] = f[i - 1]
          BY <4>2
        <5>2. f[i] = body(f, i)
          BY <3>1, <4>2
        <5> HIDE DEF g
        <5> QED BY <4>2, <5>1, <5>2
      <4>3. CASE i = k + 1
        <5>1. g[i] = step(f[k], k + 1) /\ g[i - 1] = f[k]
          BY <4>3
        <5> HIDE DEF g
        <5> QED BY <4>3, <5>1
      <4> QED BY <4>1, <4>2, <4>3
    <3>3. g = [i \in 0..(k + 1) |-> g[i]]
      OBVIOUS
    <3> HIDE DEF g, body
    <3>4. g = [i \in 0..(k + 1) |-> body(g, i)]
      BY <3>2, <3>3
    <3>5. k + 1 \in 0..Len(list)
      OBVIOUS
    <3> QED BY <3>4, <3>5
  <2> HIDE DEF S
  <2>3. 0..Len(list) \subseteq S
    BY <2>1, <2>2, Induct
  <2>4. Len(list) \in S
    BY <2>3
  <2> QED BY <2>4 DEF S
<1>3. loop = [i \in 0..Len(list) |-> body(loop, i)]
  <2> HIDE DEF body
  <2> QED BY <1>2
<1> HIDE DEF loop, step
<1>4. loop[0] = NoPairs(n) /\ \A i \in 1..Len(list) : loop[i] = step(loop[i - 1], i)
  BY <1>3
\* After i turns the first i pairs are in the table.
<1> DEFINE Done(i) ==
        /\ IsTable(loop[i], n) /\ Len(loop[i].list) = i
        /\ \A x : x \in Range(loop[i].list) <=> \E k \in 1..i : list[k] = x
    S == {i \in 0..Len(list) : Done(i)}
<1>5. 0 \in S
  <2>1. IsTable(loop[0], n) /\ Len(loop[0].list) = 0 /\ Range(loop[0].list) = {}
    BY <1>4, NoPairsTable
  <2>2. Done(0)
    BY <2>1
  <2> QED BY <2>2
<1>6. ASSUME NEW i \in 0..(Len(list) - 1), i \in S PROVE i + 1 \in S
  <2> DEFINE t == loop[i]
             key == list[i + 1]
             r == InsertToBucket(t, Hash(key) % n, key)
  <2>1. IsTable(t, n) /\ Len(t.list) = i /\ \A x : x \in Range(t.list) <=> \E k \in 1..i : list[k] = x
    BY <1>6
  <2>2. i + 1 \in 1..Len(list) /\ key \in Keys
    BY ElementOfSeq
  <2>3. key \notin Range(t.list)
    BY <2>1, <2>2 DEF Once
  <2>4. loop[i + 1] = r
    BY <1>4, <2>2 DEF step
  <2> HIDE DEF t, key
  <2>5. HasAlso(r, t, n, key)
    BY <2>1, <2>2, <2>3, InsertToBucketTable
  <2> HIDE DEF r
  <2>6. ASSUME NEW x PROVE x \in Range(r.list) <=> \E k \in 1..(i + 1) : list[k] = x
    <3>1. (\E k \in 1..(i + 1) : list[k] = x) <=> (\E k \in 1..i : list[k] = x) \/ list[i + 1] = x
      OBVIOUS
    <3> QED BY <2>1, <2>5, <3>1 DEF HasAlso, key
  <2>7. Done(i + 1)
    BY <2>1, <2>4, <2>5, <2>6 DEF HasAlso
  <2> QED BY <2>2, <2>7
<1> HIDE DEF S
<1>7. Len(list) \in S
  <2>1. \A i \in 0..(Len(list) - 1) : i \in S => i + 1 \in S
    BY <1>6
  <2>2. 0..Len(list) \subseteq S
    BY <1>5, <2>1, Induct
  <2> QED BY <2>2
<1>8. Done(Len(list))
  BY <1>7 DEF S
<1>9. Range(loop[Len(list)].list) = Range(list)
  <2>1. \A x : x \in Range(list) <=> \E k \in 1..Len(list) : list[k] = x
    BY Elements
  <2> QED BY <1>8, <2>1
<1> QED BY <1>1, <1>8, <1>9

\* A bucket stays one when another's pair is taken from the list.
LEMMA RemovedElsewhere ==
    ASSUME NEW l \in Seq(Keys), NEW p \in 1..Len(l), NEW n, NEW b, NEW f, NEW g,
           IsBucket(l, f, g, n, b), Hash(l[p]) % n # b
    PROVE  IsBucket(RemoveAt(l, p), f, g, n, b)
<1> DEFINE m == RemoveAt(l, p)
<1> Len(l) \in Nat
  BY LenProperties
<1>1. /\ Len(m) = Len(l) - 1 /\ (\A j \in 1..(p - 1) : m[j] = l[j])
      /\ (\A j \in p..(Len(l) - 1) : m[j] = l[j + 1])
  BY Removing
<1> HIDE DEF m
<1>2. \A k \in 1..Len(m) :
        \/ k < p /\ k \in 1..Len(l) /\ m[k] = l[k]
        \/ k >= p /\ k + 1 \in 1..Len(l) /\ m[k] = l[k + 1]
  BY <1>1
<1>3. CASE f = List /\ g = List /\ \A k \in 1..Len(l) : Hash(l[k]) % n # b
  <2>1. \A k \in 1..Len(m) : Hash(m[k]) % n # b
    BY <1>2, <1>3
  <2> QED BY <1>3, <2>1 DEF IsBucket, m
<1>4. ASSUME NEW i \in 1..Len(l), NEW j \in 1..Len(l), i <= j, f = l[i], g = l[j],
             \A k \in 1..Len(l) : Hash(l[k]) % n = b <=> k \in i..j
      PROVE  IsBucket(m, f, g, n, b)
  <2>1. p \notin i..j
    BY <1>4
  <2>2. CASE j < p
    <3>1. i \in 1..Len(m) /\ j \in 1..Len(m) /\ m[i] = f /\ m[j] = g
      <4>1. i \in 1..(p - 1) /\ j \in 1..(p - 1)
        BY <1>4, <2>2
      <4>2. i \in 1..Len(m) /\ j \in 1..Len(m)
        BY <1>1, <4>1
      <4> QED BY <1>1, <1>4, <4>1, <4>2
    <3>2. ASSUME NEW k \in 1..Len(m) PROVE Hash(m[k]) % n = b <=> k \in i..j
      <4>1. CASE k < p
        BY <1>2, <1>4, <4>1
      <4>2. CASE k >= p
        <5>1. k + 1 \in 1..Len(l) /\ m[k] = l[k + 1] /\ k + 1 \notin i..j /\ k \notin i..j
          BY <1>2, <2>2, <4>2
        <5> QED BY <1>4, <5>1
      <4> QED BY <4>1, <4>2
    <3> QED BY <1>4, <3>1, <3>2 DEF IsBucket
  <2>3. CASE p < i
    <3>1. i - 1 \in p..(Len(l) - 1) /\ j - 1 \in p..(Len(l) - 1)
      BY <1>4, <2>3
    <3>2. i - 1 \in 1..Len(m) /\ j - 1 \in 1..Len(m) /\ m[i - 1] = l[(i - 1) + 1] /\ m[j - 1] = l[(j - 1) + 1]
      BY <1>1, <3>1, SMTT(30)
    <3>3. f = m[i - 1] /\ g = m[j - 1] /\ i - 1 <= j - 1
      BY <1>4, <3>2
    <3>4. ASSUME NEW k \in 1..Len(m) PROVE Hash(m[k]) % n = b <=> k \in (i - 1)..(j - 1)
      <4>1. CASE k < p
        <5>1. k \in 1..Len(l) /\ m[k] = l[k] /\ k \notin i..j /\ k \notin (i - 1)..(j - 1)
          BY <1>2, <2>3, <4>1
        <5> QED BY <1>4, <5>1
      <4>2. CASE k >= p
        <5>1. k + 1 \in 1..Len(l) /\ m[k] = l[k + 1]
          BY <1>2, <4>2
        <5>2. Hash(l[k + 1]) % n = b <=> k + 1 \in i..j
          BY <1>4, <5>1
        <5> QED BY <5>1, <5>2
      <4> QED BY <4>1, <4>2
    <3> QED BY <3>2, <3>3, <3>4 DEF IsBucket
  <2> QED BY <2>1, <2>2, <2>3
<1>5. IsBucket(m, f, g, n, b)
  BY <1>3, <1>4 DEF IsBucket, m
<1> QED BY <1>5 DEF m

\* hashtable_do_del moves the ends of the bucket inwards where it has to.
LEMMA RemovedHere ==
    ASSUME ConstantsOK, NEW l \in Seq(Keys), Once(l), NEW p \in 1..Len(l), NEW n, NEW f, NEW g,
           IsBucket(l, f, g, n, Hash(l[p]) % n), NEW f2, NEW g2,
           f2 = IF l[p] # f THEN f ELSE IF l[p] = g THEN List ELSE l[p + 1],
           g2 = IF l[p] # g THEN g ELSE IF l[p] = f THEN List ELSE l[p - 1]
    PROVE  IsBucket(RemoveAt(l, p), f2, g2, n, Hash(l[p]) % n)
<1> DEFINE m == RemoveAt(l, p)
           b == Hash(l[p]) % n
<1> Len(l) \in Nat
  BY LenProperties
<1>1. /\ Len(m) = Len(l) - 1 /\ (\A k \in 1..(p - 1) : m[k] = l[k])
      /\ (\A k \in p..(Len(l) - 1) : m[k] = l[k + 1])
  BY Removing
<1>2. PICK i, j \in 1..Len(l) :
        /\ i <= j /\ f = l[i] /\ g = l[j]
        /\ \A k \in 1..Len(l) : Hash(l[k]) % n = b <=> k \in i..j
  BY DEF IsBucket
<1>3. p \in i..j
  BY <1>2
<1>4. (l[p] = f <=> p = i) /\ (l[p] = g <=> p = j)
  BY <1>2 DEF Once
<1> HIDE DEF m
<1>5. \A k \in 1..Len(m) :
        \/ k < p /\ k \in 1..Len(l) /\ m[k] = l[k]
        \/ k >= p /\ k + 1 \in 1..Len(l) /\ m[k] = l[k + 1]
  BY <1>1
<1>6. ASSUME NEW k \in 1..Len(m) PROVE Hash(m[k]) % n = b <=> k \in i..(j - 1)
  <2>1. CASE k < p
    <3>1. k \in 1..Len(l) /\ m[k] = l[k] /\ (k \in i..j <=> k \in i..(j - 1))
      BY <1>3, <1>5, <2>1
    <3> QED BY <1>2, <3>1
  <2>2. CASE k >= p
    <3>1. k + 1 \in 1..Len(l) /\ m[k] = l[k + 1] /\ (k + 1 \in i..j <=> k \in i..(j - 1))
      BY <1>3, <1>5, <2>2
    <3>2. Hash(l[k + 1]) % n = b <=> k + 1 \in i..j
      BY <1>2, <3>1
    <3> QED BY <3>1, <3>2
  <2> QED BY <2>1, <2>2
<1> HIDE DEF b
<1>7. CASE i = j
  <2>1. f2 = List /\ g2 = List
    BY <1>3, <1>4, <1>7
  <2>2. \A k \in 1..Len(m) : Hash(m[k]) % n # b
    BY <1>6, <1>7
  <2> QED BY <2>1, <2>2 DEF IsBucket, m, b
<1>8. CASE i < j
  <2>1. i \in 1..Len(m) /\ j - 1 \in 1..Len(m) /\ i <= j - 1
    BY <1>1, <1>8
  <2>2. f2 = m[i]
    <3>1. CASE p = i
      <4>1. i \in p..(Len(l) - 1)
        BY <1>8, <3>1
      <4> QED BY <1>1, <1>4, <1>8, <3>1, <4>1
    <3>2. CASE i < p
      BY <1>1, <1>2, <1>4, <3>2
    <3> QED BY <1>3, <3>1, <3>2
  <2>3. g2 = m[j - 1]
    <3>1. CASE p = j
      <4>1. j - 1 \in 1..(p - 1)
        BY <1>8, <3>1
      <4> QED BY <1>1, <1>4, <1>8, <3>1, <4>1
    <3>2. CASE p < j
      <4>1. j - 1 \in p..(Len(l) - 1)
        BY <3>2
      <4>2. m[j - 1] = l[(j - 1) + 1]
        BY <1>1, <4>1
      <4> QED BY <1>2, <1>4, <3>2, <4>2
    <3> QED BY <1>3, <3>1, <3>2
  <2> QED BY <1>6, <2>1, <2>2, <2>3 DEF IsBucket, m, b
<1> QED BY <1>2, <1>7, <1>8

-----------------------------------------------------------------------------
(* The order of the serial numbers.                                        *)

\* Sequence s of the n elements of P is the one in which their numbers grow.
Ordered(s, n, P, num) ==
    /\ s \in [1..n -> P] /\ Range(s) = P
    /\ \A i, j \in 1..n : i < j => num[s[i]] < num[s[j]]

LEMMA OrderedSeq ==
    ASSUME NEW n \in Nat, NEW P, NEW num \in [P -> Nat], NEW s, Ordered(s, n, P, num)
    PROVE  s \in Seq(P) /\ Len(s) = n /\ Once(s) /\ \A x \in P : \E i \in 1..n : s[i] = x
<1>1. s \in Seq(P) /\ Len(s) = n
  BY DEF Ordered
<1>2. \A i \in 1..n : s[i] \in P /\ num[s[i]] \in Nat
  BY DEF Ordered
<1>3. \A i, j \in 1..n : i < j => s[i] # s[j]
  BY <1>2 DEF Ordered
<1>4. Once(s)
  BY <1>1, <1>3 DEF Once
<1>5. \A x \in P : \E i \in 1..n : s[i] = x
  BY <1>1, Elements DEF Ordered
<1> QED BY <1>1, <1>4, <1>5

LEMMA OrderUnique ==
    ASSUME NEW n \in Nat, NEW P, NEW num \in [P -> Nat], NEW s, Ordered(s, n, P, num),
           NEW t, Ordered(t, n, P, num)
    PROVE  s = t
<1> DEFINE T == {i \in 1..n : s[i] # t[i]}
<1>1. /\ s \in [1..n -> P] /\ t \in [1..n -> P]
      /\ (\A i \in 1..n : num[s[i]] \in Nat /\ num[t[i]] \in Nat)
  BY DEF Ordered
<1>2. /\ \A i, j \in 1..n : i < j => num[s[i]] < num[s[j]]
      /\ \A i, j \in 1..n : i < j => num[t[i]] < num[t[j]]
  BY DEF Ordered
<1>3. /\ \A x \in P : \E i \in 1..n : s[i] = x
      /\ \A x \in P : \E i \in 1..n : t[i] = x
  BY OrderedSeq, SMTT(30)
<1>4. SUFFICES ASSUME T # {} PROVE FALSE
  BY <1>1, SMTT(30)
<1>5. PICK i \in T : \A j \in T : i <= j
  <2>1. T \subseteq Nat
    OBVIOUS
  <2> HIDE DEF T
  <2> QED BY <1>4, <2>1, LeastNat
<1>6. \A k \in 1..n : k < i => s[k] = t[k]
  BY <1>5
<1>7. PICK k \in 1..n : t[k] = s[i]
  BY <1>1, <1>3, <1>5
<1>8. PICK m \in 1..n : s[m] = t[i]
  BY <1>1, <1>3, <1>5
<1>9. k > i
  <2>1. k # i
    BY <1>5, <1>7
  <2>2. ~(k < i)
    BY <1>1, <1>2, <1>5, <1>6, <1>7
  <2> QED BY <1>5, <2>1, <2>2
<1>10. m > i
  <2>1. m # i
    BY <1>5, <1>8
  <2>2. ~(m < i)
    BY <1>1, <1>2, <1>5, <1>6, <1>8
  <2> QED BY <1>5, <2>1, <2>2
<1>11. num[t[i]] < num[s[i]] /\ num[s[i]] < num[t[i]]
  BY <1>2, <1>5, <1>7, <1>8, <1>9, <1>10
<1> QED BY <1>1, <1>5, <1>11

LEMMA OrderAppend ==
    ASSUME NEW n \in Nat, NEW P, NEW num \in [P -> Nat], NEW s, Ordered(s, n, P, num),
           NEW key, key \notin P, NEW v \in Nat, \A k \in P : num[k] < v,
           NEW num2, num2 = [k \in P \cup {key} |-> IF k \in P THEN num[k] ELSE v]
    PROVE  Ordered(Append(s, key), n + 1, P \cup {key}, num2)
<1> DEFINE Q == P \cup {key}
           t == Append(s, key)
<1>1. s \in Seq(P) /\ Len(s) = n /\ s \in Seq(Q) /\ (\A i \in 1..n : s[i] \in P) /\ Range(s) = P
  BY OrderedSeq DEF Ordered
<1>2. t \in Seq(Q) /\ Len(t) = n + 1 /\ (\A i \in 1..n : t[i] = s[i]) /\ t[n + 1] = key
  BY <1>1, AppendProperties
<1>3. Range(t) = Q
  <2>1. s \in Seq(Q) /\ key \in Q
    BY <1>1
  <2>2. \A x : x \in Range(t) <=> \E i \in 1..(n + 1) : t[i] = x
    BY <1>2, Elements, ZenonT(60)
  <2>3. \A x : x \in Range(s) <=> \E i \in 1..n : s[i] = x
    BY <1>1, Elements
  <2>4. ASSUME NEW x \in P PROVE x \in Range(t)
    <3>1. PICK i \in 1..n : s[i] = x
      BY <1>1, <2>3
    <3>2. i \in 1..(n + 1) /\ t[i] = x
      BY <1>2, <3>1
    <3> HIDE DEF t
    <3> QED BY <2>2, <3>2
  <2>5. key \in Range(t)
    BY <1>2, <2>2
  <2>6. ASSUME NEW x \in Range(t) PROVE x \in Q
    BY <1>2, RangeOfSeq
  <2> QED BY <2>4, <2>5, <2>6
<1> HIDE DEF t
<1>4. ASSUME NEW i \in 1..(n + 1), NEW j \in 1..(n + 1), i < j PROVE num2[t[i]] < num2[t[j]]
  <2>1. i \in 1..n /\ t[i] = s[i] /\ num2[t[i]] = num[s[i]]
    BY <1>1, <1>2, <1>4
  <2>2. CASE j \in 1..n
    BY <1>1, <1>2, <1>4, <2>1, <2>2 DEF Ordered
  <2>3. CASE j = n + 1
    BY <1>1, <1>2, <2>1, <2>3
  <2> QED BY <2>2, <2>3
<1>5. t \in [1..(n + 1) -> Q]
  BY <1>2, LenProperties
<1> QED BY <1>3, <1>4, <1>5 DEF Ordered, t

LEMMA OrderRemove ==
    ASSUME NEW n \in Nat, NEW P, NEW num \in [P -> Nat], NEW s, Ordered(s, n, P, num), NEW p \in 1..n,
           NEW num2, num2 = [k \in P \ {s[p]} |-> num[k]]
    PROVE  Ordered(RemoveAt(s, p), n - 1, P \ {s[p]}, num2)
<1> DEFINE Q == P \ {s[p]}
           t == RemoveAt(s, p)
<1>1. s \in Seq(P) /\ Len(s) = n /\ Once(s) /\ Range(s) = P
  BY OrderedSeq DEF Ordered
<1>2. /\ t \in Seq(P) /\ Len(t) = n - 1 /\ (\A j \in 1..(p - 1) : t[j] = s[j])
      /\ (\A j \in p..(n - 1) : t[j] = s[j + 1])
  BY <1>1, Removing
<1>3. Range(t) = Q
  BY <1>1, RemovedOnce
<1>4. t \in Seq(Q)
  BY <1>2, <1>3, SeqOfRange
<1> HIDE DEF t
<1>5. ASSUME NEW i \in 1..(n - 1), NEW j \in 1..(n - 1), i < j PROVE num2[t[i]] < num2[t[j]]
  <2>1. t[i] \in Q /\ t[j] \in Q
    BY <1>2, <1>4
  <2>2. num2[t[i]] = num[t[i]] /\ num2[t[j]] = num[t[j]]
    BY <2>1
  <2>3. PICK k \in 1..n, m \in 1..n : k < m /\ t[i] = s[k] /\ t[j] = s[m]
    <3>1. CASE j < p
      <4>1. i \in 1..n /\ j \in 1..n /\ t[i] = s[i] /\ t[j] = s[j]
        BY <1>2, <1>5, <3>1
      <4> QED BY <1>5, <4>1
    <3>2. CASE i < p /\ p <= j
      <4>1. i \in 1..n /\ j + 1 \in 1..n /\ t[i] = s[i] /\ t[j] = s[j + 1] /\ i < j + 1
        BY <1>2, <1>5, <3>2
      <4> QED BY <4>1
    <3>3. CASE p <= i
      <4>1. i + 1 \in 1..n /\ j + 1 \in 1..n /\ t[i] = s[i + 1] /\ t[j] = s[j + 1] /\ i + 1 < j + 1
        BY <1>2, <1>5, <3>3
      <4> QED BY <4>1
    <3> QED BY <1>5, <3>1, <3>2, <3>3
  <2>4. num[s[k]] < num[s[m]]
    BY <2>3 DEF Ordered
  <2> QED BY <2>2, <2>3, <2>4
<1>6. t \in [1..(n - 1) -> Q]
  BY <1>2, <1>4, LenProperties
<1> QED BY <1>3, <1>5, <1>6 DEF Ordered, t

-----------------------------------------------------------------------------
(* The inductive invariant.                                                *)

\* The pairs are on the list once; as long as there are buckets, they are a table of it.
ListInv ==
    /\ Once(list) /\ size = Len(list)
    /\ ~bucketsLost => IsTable(Table, NumBuckets)

\* A sequence of the pairs in which their serial numbers grow.
InOrder(s) == Ordered(s, Len(list), Pairs, serials)

\* No two pairs have the same serial number, and the next one is larger than all.
SerialInv ==
    /\ serial \in 0..MaxSerial /\ serials \in [Pairs -> 0..(serial - 1)]
    /\ \E s : InOrder(s)

\* An undisturbed iteration has seen what is on the list up to its pair.
IterInv ==
    iter \in Pairs /\ ~disturbed => \A i \in 1..Len(list) : i <= Pos(list, iter) => list[i] \in seen

TableInv == TableTypeOK /\ bucketsLost \in BOOLEAN /\ ListInv /\ SerialInv /\ IterInv

\* What Set and SetFails work on once they have rehashed, or need not.
NewSize == IF Full THEN Primes[order + 1] ELSE NumBuckets
NewTable == IF Full THEN Rehashed(NewSize) ELSE Table

LEMMA ListFacts ==
    ASSUME TableTypeOK
    PROVE  /\ list \in Seq(Keys) /\ Len(list) \in Nat /\ DOMAIN list = 1..Len(list) /\ Pairs \subseteq Keys
           /\ \A key : key \in Pairs <=> \E i \in 1..Len(list) : list[i] = key
BY LenProperties, RangeOfSeq, Elements DEF TableTypeOK, Pairs

LEMMA Buckets ==
    ASSUME ConstantsOK, NEW i \in DOMAIN Primes
    PROVE  Primes[i] \in Nat \ {0} /\ i \in 1..Len(Primes) /\ Len(Primes) \in Nat
BY LenProperties, ElementOfSeq DEF ConstantsOK

\* primes[] is not exhausted: there are not more pairs than keys.
LEMMA NextPrime ==
    ASSUME ConstantsOK, TableTypeOK, ListInv, Full
    PROVE  order + 1 \in DOMAIN Primes
<1>1. Len(list) \in Nat /\ list \in [1..Len(list) -> Keys]
  BY LenProperties DEF TableTypeOK
<1>2. Cardinality(Keys) \in Nat
  BY FS_CardinalityType DEF ConstantsOK
<1>3. Len(list) <= Cardinality(Keys)
  <2>1. SUFFICES ASSUME Cardinality(Keys) < Len(list) PROVE FALSE
    BY <1>1, <1>2
  <2>2. IsFiniteSet(1..Len(list)) /\ Cardinality(1..Len(list)) = Len(list)
    BY <1>1, FS_Interval
  <2>3. IsFiniteSet(Keys)
    BY DEF ConstantsOK
  <2>4. \E i, j \in 1..Len(list) : i # j /\ list[i] = list[j]
    BY <1>1, <2>1, <2>2, <2>3, FS_PigeonHole, SMTT(30)
  <2> QED BY <2>4 DEF ListInv, Once
<1>4. order \in 1..Len(Primes) /\ Len(Primes) \in Nat
  BY Buckets DEF TableTypeOK
<1>5. DOMAIN Primes = 1..Len(Primes)
  BY LenProperties DEF ConstantsOK
<1>6. Primes[order] <= Len(list) /\ Cardinality(Keys) < Primes[Len(Primes)] /\ Primes[order] \in Nat
  BY Buckets DEF TableTypeOK, ListInv, Full, NumBuckets, ConstantsOK
<1>7. order # Len(Primes)
  BY <1>1, <1>2, <1>3, <1>6
<1>8. order + 1 \in 1..Len(Primes)
  BY <1>4, <1>7
<1> QED BY <1>5, <1>8

LEMMA NewTableFacts ==
    ASSUME ConstantsOK, TableTypeOK, ListInv, ~bucketsLost
    PROVE  /\ NewSize \in Nat \ {0} /\ IsTable(NewTable, NewSize)
           /\ Range(NewTable.list) = Pairs /\ Len(NewTable.list) = Len(list)
           /\ ~Full => NewTable.list = list
           /\ (IF Full THEN order + 1 ELSE order) \in DOMAIN Primes
           /\ NewSize = Primes[IF Full THEN order + 1 ELSE order]
<1>1. CASE Full
  <2>1. order + 1 \in DOMAIN Primes
    BY <1>1, NextPrime
  <2>2. NewSize \in Nat \ {0}
    BY <1>1, <2>1, Buckets DEF NewSize
  <2>3. /\ IsTable(Rehashed(NewSize), NewSize) /\ Len(Rehashed(NewSize).list) = Len(list)
        /\ Range(Rehashed(NewSize).list) = Range(list)
    BY <2>2, RehashedTable DEF TableTypeOK, ListInv
  <2> QED BY <1>1, <2>1, <2>2, <2>3 DEF NewTable, NewSize, Pairs
<1>2. CASE ~Full
  <2>1. order \in DOMAIN Primes
    BY DEF TableTypeOK
  <2>2. NewSize = NumBuckets /\ NumBuckets \in Nat \ {0}
    BY <1>2, <2>1, Buckets DEF NewSize, NumBuckets
  <2>3. NewTable = Table /\ Table.list = list
    BY <1>2 DEF NewTable, Table
  <2> QED BY <1>2, <2>1, <2>2, <2>3 DEF ListInv, NumBuckets, Pairs
<1> QED BY <1>1, <1>2

LEMMA Found ==
    ASSUME ConstantsOK, TableTypeOK, ListInv, ~bucketsLost, NEW key \in Keys
    PROVE  /\ key \in Segment(NewTable, Hash(key) % NewSize) <=> key \in Pairs
           /\ Find(key) <=> key \in Pairs
           /\ NumBuckets \in Nat \ {0} /\ Bucket(key) \in 0..(NumBuckets - 1)
<1>1. NumBuckets \in Nat \ {0}
  BY Buckets DEF TableTypeOK, NumBuckets
<1>2. NewSize \in Nat \ {0} /\ IsTable(NewTable, NewSize) /\ Range(NewTable.list) = Pairs
  BY NewTableFacts
<1>3. Hash(key) % NewSize \in 0..(NewSize - 1) /\ Hash(key) % NumBuckets \in 0..(NumBuckets - 1)
  BY <1>1, <1>2, HashInTable
<1>4. key \in Segment(NewTable, Hash(key) % NewSize) <=> key \in Pairs
  <2>1. Segment(NewTable, Hash(key) % NewSize) = {k \in Range(NewTable.list) : Hash(k) % NewSize = Hash(key) % NewSize}
    BY <1>2, <1>3, SegmentOfBucket
  <2> QED BY <1>2, <2>1
<1>5. Find(key) <=> key \in Pairs
  <2>1. IsTable(Table, NumBuckets) /\ Table.list = list
    BY DEF ListInv, Table
  <2>2. Segment(Table, Hash(key) % NumBuckets) = {k \in Range(Table.list) : Hash(k) % NumBuckets = Hash(key) % NumBuckets}
    BY <1>1, <1>3, <2>1, SegmentOfBucket
  <2> QED BY <2>1, <2>2 DEF Find, Bucket, Pairs
<1> QED BY <1>1, <1>3, <1>4, <1>5 DEF Bucket

LEMMA TableIs ==
    ASSUME NEW t, NEW n, IsTable(t, n), list' = t.list, bucketFirst' = t.first, bucketLast' = t.last
    PROVE  Table' = t
<1>1. t = [list |-> t.list, first |-> t.first, last |-> t.last]
  BY DEF IsTable
<1> QED BY <1>1 DEF Table

\* hashtable_set: where the pairs are then.
LEMMA SetTable ==
    ASSUME ConstantsOK, TableTypeOK, ListInv, NEW key \in Keys, NEW value \in Values, Set(key, value)
    PROVE  /\ ~bucketsLost /\ ~bucketsLost' /\ order' \in DOMAIN Primes /\ IsTable(Table', NumBuckets')
           /\ disturbed' = (iter # NoIter /\ (disturbed \/ Full \/ ~(key \in Pairs)))
           /\ IF key \in Pairs
                THEN Pairs' = Pairs /\ Len(list') = Len(list) /\ (~Full => list' = list)
                ELSE Pairs' = Pairs \cup {key} /\ Len(list') = Len(list) + 1
<1> DEFINE t == NewTable
           n == NewSize
           old == key \in Segment(t, Hash(key) % n)
           r == IF old THEN t ELSE InsertToBucket(t, Hash(key) % n, key)
<1>1. ~bucketsLost /\ bucketsLost' = bucketsLost
  BY DEF Set
<1>2. /\ n \in Nat \ {0} /\ IsTable(t, n) /\ Range(t.list) = Pairs /\ Len(t.list) = Len(list)
      /\ (~Full => t.list = list) /\ (IF Full THEN order + 1 ELSE order) \in DOMAIN Primes
      /\ n = Primes[IF Full THEN order + 1 ELSE order]
  BY <1>1, NewTableFacts
<1>3. old <=> key \in Pairs
  BY <1>1, Found
<1>4. /\ order' = (IF Full THEN order + 1 ELSE order)
      /\ list' = r.list /\ bucketFirst' = r.first /\ bucketLast' = r.last
      /\ disturbed' = (iter # NoIter /\ (disturbed \/ Full \/ ~old))
  BY Zenon DEF Set, Store, NewTable, NewSize
<1> HIDE DEF t, n
<1>5. IsTable(r, n) /\ IF key \in Pairs
                       THEN Range(r.list) = Pairs /\ Len(r.list) = Len(list) /\ (~Full => r.list = list)
                       ELSE Range(r.list) = Pairs \cup {key} /\ Len(r.list) = Len(list) + 1
  <2>1. CASE key \in Pairs
    BY <1>2, <1>3, <2>1
  <2>2. CASE key \notin Pairs
    <3>1. r = InsertToBucket(t, Hash(key) % n, key)
      BY <1>3, <2>2
    <3>2. HasAlso(r, t, n, key)
      BY <1>2, <2>2, <3>1, InsertToBucketTable
    <3> HIDE DEF r
    <3> QED BY <1>2, <2>2, <3>2 DEF HasAlso
  <2> QED BY <2>1, <2>2
<1> HIDE DEF r
<1>6. Table' = r
  BY <1>4, <1>5, TableIs
<1>7. NumBuckets' = n
  BY <1>2, <1>4 DEF NumBuckets
<1>8. disturbed' = (iter # NoIter /\ (disturbed \/ Full \/ ~(key \in Pairs)))
  BY <1>3, <1>4, Zenon
<1>9. IF key \in Pairs
        THEN Pairs' = Pairs /\ Len(list') = Len(list) /\ (~Full => list' = list)
        ELSE Pairs' = Pairs \cup {key} /\ Len(list') = Len(list) + 1
  BY <1>4, <1>5 DEF Pairs
<1> QED BY <1>1, <1>2, <1>4, <1>5, <1>6, <1>7, <1>8, <1>9

LEMMA SetFailsTable ==
    ASSUME ConstantsOK, TableTypeOK, ListInv, NEW key \in Keys, SetFails(key)
    PROVE  /\ ~bucketsLost /\ ~bucketsLost' /\ order' \in DOMAIN Primes /\ IsTable(Table', NumBuckets')
           /\ Pairs' = Pairs /\ Len(list') = Len(list) /\ (~Full => list' = list)
<1>1. ~bucketsLost /\ bucketsLost' = bucketsLost
  BY DEF SetFails
<1> DEFINE t == NewTable
           n == NewSize
<1>2. /\ n \in Nat \ {0} /\ IsTable(t, n) /\ Range(t.list) = Pairs /\ Len(t.list) = Len(list)
      /\ (~Full => t.list = list) /\ (IF Full THEN order + 1 ELSE order) \in DOMAIN Primes
      /\ n = Primes[IF Full THEN order + 1 ELSE order]
  BY <1>1, NewTableFacts
<1>3. /\ order' = (IF Full THEN order + 1 ELSE order)
      /\ list' = t.list /\ bucketFirst' = t.first /\ bucketLast' = t.last
  BY Zenon DEF SetFails, NewTable, NewSize
<1> HIDE DEF t, n
<1>4. Table' = t
  BY <1>2, <1>3, TableIs
<1>5. NumBuckets' = n
  BY <1>2, <1>3 DEF NumBuckets
<1> QED BY <1>1, <1>2, <1>3, <1>4, <1>5 DEF Pairs

\* hashtable_do_del: the rest is a table.
LEMMA DelTable ==
    ASSUME ConstantsOK, TableTypeOK, ListInv, NEW key \in Keys, Del(key)
    PROVE  /\ ~bucketsLost /\ ~bucketsLost' /\ key \in Pairs /\ IsTable(Table', NumBuckets')
           /\ Pairs' = Pairs \ {key} /\ Len(list') = Len(list) - 1
<1> DEFINE n == NumBuckets
           b == Hash(key) % n
<1>1. ~bucketsLost /\ bucketsLost' = bucketsLost /\ order' = order
  BY DEF Del
<1>2. n \in Nat \ {0} /\ b \in 0..(n - 1) /\ key \in Pairs
  BY <1>1, Found DEF Del, Bucket
<1>3. list \in Seq(Keys) /\ Len(list) \in Nat /\ Once(list)
  BY ListFacts DEF ListInv
<1>4. PICK p \in 1..Len(list) : list[p] = key
  BY <1>2, ListFacts
<1>5. Pos(list, key) = p
  BY <1>3, <1>4, Positions
<1>6. /\ bucketFirst \in [0..(n - 1) -> Keys \cup {List}] /\ bucketLast \in [0..(n - 1) -> Keys \cup {List}]
      /\ \A c \in 0..(n - 1) : IsBucket(list, bucketFirst[c], bucketLast[c], n, c)
  BY <1>1 DEF ListInv, IsTable, Table
<1> DEFINE m == RemoveAt(list, p)
           f2 == IF list[p] # bucketFirst[b] THEN bucketFirst[b] ELSE IF list[p] = bucketLast[b] THEN List ELSE list[p + 1]
           g2 == IF list[p] # bucketLast[b] THEN bucketLast[b] ELSE IF list[p] = bucketFirst[b] THEN List ELSE list[p - 1]
<1>7. bucketFirst' = [bucketFirst EXCEPT ![b] = f2] /\ bucketLast' = [bucketLast EXCEPT ![b] = g2] /\ list' = m
  <2>1. Unlink(b, key) /\ list' = RemoveAt(list, Pos(list, key))
    BY DEF Del, Bucket
  <2>2. bucketFirst' = [bucketFirst EXCEPT ![b] = f2]
    BY <1>4, <1>5, <2>1 DEF Unlink
  <2>3. bucketLast' = [bucketLast EXCEPT ![b] = g2]
    BY <1>4, <1>5, <2>1 DEF Unlink
  <2> QED BY <1>5, <2>1, <2>2, <2>3
<1>8. IsBucket(m, f2, g2, n, b)
  <2>1. IsBucket(list, bucketFirst[b], bucketLast[b], n, Hash(list[p]) % n)
    BY <1>2, <1>4, <1>6
  <2>2. IsBucket(m, f2, g2, n, Hash(list[p]) % n)
    BY <1>3, <2>1, RemovedHere
  <2> QED BY <1>4, <2>2
<1>9. m \in Seq(Keys) /\ Len(m) = Len(list) - 1 /\ Once(m) /\ Range(m) = Range(list) \ {key}
  BY <1>3, <1>4, Removing, RemovedOnce
<1>10. bucketFirst[b] \in Keys \cup {List} /\ bucketLast[b] \in Keys \cup {List} /\ f2 \in Keys \cup {List} /\ g2 \in Keys \cup {List}
  <2>1. bucketFirst[b] \in Keys \cup {List} /\ bucketLast[b] \in Keys \cup {List}
    BY <1>2, <1>6
  <2>2. CASE bucketFirst[b] = List
    <3>1. f2 = bucketFirst[b]
      BY <1>4, <2>2 DEF ConstantsOK
    <3>2. \A k \in 1..Len(list) : list[k] \in Keys /\ list[k] # List
      BY <1>3, ElementOfSeq DEF ConstantsOK
    <3>3. IsBucket(list, bucketFirst[b], bucketLast[b], n, b)
      BY <1>2, <1>6
    <3>4. \A k \in 1..Len(list) : Hash(list[k]) % n # b
      BY <2>2, <3>2, <3>3 DEF IsBucket
    <3>5. FALSE
      BY <1>4, <3>4
    <3> QED BY <3>5
  <2>3. CASE bucketFirst[b] # List
    <3>1. IsBucket(list, bucketFirst[b], bucketLast[b], n, b)
      BY <1>2, <1>6
    <3>2. PICK i, j \in 1..Len(list) :
            /\ i <= j /\ bucketFirst[b] = list[i] /\ bucketLast[b] = list[j]
            /\ \A k \in 1..Len(list) : Hash(list[k]) % n = b <=> k \in i..j
      BY <2>3, <3>1 DEF IsBucket
    <3>3. p \in i..j
      BY <1>4, <3>2
    <3>4. list[p] = bucketLast[b] <=> p = j
      BY <1>3, <3>2 DEF Once
    <3>5. list[p] = bucketFirst[b] <=> p = i
      BY <1>3, <3>2 DEF Once
    <3>6. p # j => p + 1 \in 1..Len(list)
      BY <3>3
    <3>7. p # i => p - 1 \in 1..Len(list)
      BY <3>3
    <3>8. f2 \in Keys \cup {List}
      BY <1>3, <2>1, <3>4, <3>6, ElementOfSeq
    <3>9. g2 \in Keys \cup {List}
      BY <1>3, <2>1, <3>5, <3>7, ElementOfSeq
    <3> QED BY <2>1, <3>8, <3>9
  <2> QED BY <2>2, <2>3
<1> HIDE DEF n, b, f2, g2, m
<1>11. /\ bucketFirst' \in [0..(n - 1) -> Keys \cup {List}] /\ bucketLast' \in [0..(n - 1) -> Keys \cup {List}]
       /\ \A c \in 0..(n - 1) : bucketFirst'[c] = (IF c = b THEN f2 ELSE bucketFirst[c]) /\ bucketLast'[c] = IF c = b THEN g2 ELSE bucketLast[c]
  BY <1>2, <1>6, <1>7, <1>10
<1>12. ASSUME NEW c \in 0..(n - 1) PROVE IsBucket(list', bucketFirst'[c], bucketLast'[c], n, c)
  <2>1. CASE c = b
    BY <1>7, <1>8, <1>11, <2>1
  <2>2. CASE c # b
    <3>1. IsBucket(list, bucketFirst[c], bucketLast[c], n, c) /\ Hash(list[p]) % n # c
      BY <1>4, <1>6, <2>2 DEF b
    <3>2. IsBucket(m, bucketFirst[c], bucketLast[c], n, c)
      BY <1>3, <3>1, RemovedElsewhere DEF m
    <3> QED BY <1>7, <1>11, <2>2, <3>2
  <2> QED BY <2>1, <2>2
<1>13. NumBuckets' = n
  BY <1>1 DEF NumBuckets, n
<1>14. IsTable(Table', n)
  BY <1>7, <1>9, <1>11, <1>12 DEF IsTable, Table
<1>15. Pairs' = Pairs \ {key} /\ Len(list') = Len(list) - 1
  BY <1>7, <1>9 DEF Pairs
<1> QED BY <1>1, <1>2, <1>13, <1>14, <1>15

LEMMA ClearTable ==
    ASSUME ConstantsOK, TableTypeOK, ListInv, Clear
    PROVE  /\ ~bucketsLost /\ ~bucketsLost' /\ IsTable(Table', NumBuckets')
           /\ list' = <<>> /\ Pairs' = {} /\ Len(list') = 0
<1>1. ~bucketsLost /\ bucketsLost' = bucketsLost /\ order' = order /\ list' = <<>>
  BY DEF Clear
<1>2. NumBuckets \in Nat \ {0} /\ NumBuckets' = NumBuckets
  BY <1>1, Buckets DEF TableTypeOK, NumBuckets
<1>3. Table' = NoPairs(NumBuckets)
  BY DEF Clear, Table, NoPairs
<1>4. IsTable(Table', NumBuckets') /\ Len(NoPairs(NumBuckets).list) = 0 /\ Range(NoPairs(NumBuckets).list) = {}
  BY <1>2, <1>3, NoPairsTable
<1> QED BY <1>1, <1>2, <1>3, <1>4 DEF Pairs, NoPairs

LEMMA TableTypes ==
    ASSUME NEW t, NEW n, IsTable(t, n)
    PROVE  /\ t.list \in Seq(Keys) /\ Once(t.list)
           /\ DOMAIN t.first = DOMAIN t.last /\ Range(t.first) \cup Range(t.last) \subseteq Keys \cup {List}
BY DEF IsTable, Range

LEMMA ListTypes ==
    ASSUME NEW n, IsTable(Table', n)
    PROVE  /\ list' \in Seq(Keys) /\ Once(list') /\ Pairs' \subseteq Keys
           /\ DOMAIN bucketFirst' = DOMAIN bucketLast' /\ Range(bucketFirst') \cup Range(bucketLast') \subseteq Keys \cup {List}
<1>1. Table'.list = list' /\ Table'.first = bucketFirst' /\ Table'.last = bucketLast'
  BY DEF Table
<1>2. list' \in Seq(Keys)
  BY <1>1, TableTypes
<1> QED BY <1>1, <1>2, TableTypes, RangeOfSeq DEF Pairs

LEMMA SerialFacts ==
    ASSUME SerialInv
    PROVE  /\ serial \in Nat /\ serials \in [Pairs -> Nat]
           /\ \A k \in Pairs : serials[k] \in Nat /\ serials[k] < serial
BY DEF SerialInv

\* json_object_set: a new key goes to the end of the order.
LEMMA SetKeeps ==
    ASSUME ConstantsOK, TableInv, NEW key \in Keys, NEW value \in Values, Set(key, value)
    PROVE  /\ TableInv'
           /\ \A s : InOrder(s) => IF key \in Pairs THEN InOrder(s)' ELSE InOrder(Append(s, key))'
<1> TableTypeOK /\ ListInv /\ SerialInv /\ IterInv
  BY DEF TableInv
<1>1. /\ ~bucketsLost' /\ order' \in DOMAIN Primes /\ IsTable(Table', NumBuckets')
      /\ disturbed' = (iter # NoIter /\ (disturbed \/ Full \/ ~(key \in Pairs)))
      /\ IF key \in Pairs
           THEN Pairs' = Pairs /\ Len(list') = Len(list) /\ (~Full => list' = list)
           ELSE Pairs' = Pairs \cup {key} /\ Len(list') = Len(list) + 1
  BY SetTable
<1>2. /\ list' \in Seq(Keys) /\ Once(list') /\ Pairs' \subseteq Keys
      /\ DOMAIN bucketFirst' = DOMAIN bucketLast' /\ Range(bucketFirst') \cup Range(bucketLast') \subseteq Keys \cup {List}
  BY <1>1, ListTypes
<1>3. /\ size' = (IF key \in Pairs THEN size ELSE size + 1)
      /\ values' = [k \in Pairs \cup {key} |-> IF k = key THEN value ELSE values[k]]
      /\ serials' = [k \in Pairs \cup {key} |-> IF k \in Pairs THEN serials[k] ELSE serial]
      /\ serial < MaxSerial /\ serial' = serial + 1 /\ bucketsLost' = bucketsLost /\ iter' = iter /\ seen' = seen
  BY DEF Set, Store
<1>4. Pairs' = Pairs \cup {key}
  BY <1>1
<1>5. /\ serial \in Nat /\ serials \in [Pairs -> Nat] /\ serial \in 0..MaxSerial /\ MaxSerial \in Nat
      /\ \A k \in Pairs : serials[k] \in Nat /\ serials[k] < serial
  BY SerialFacts DEF SerialInv, ConstantsOK
<1>6. serial' \in 0..MaxSerial /\ serials' \in [Pairs' -> 0..(serial' - 1)] /\ serials' \in [Pairs' -> 0..MaxSerial]
  BY <1>3, <1>4, <1>5
<1>7. values' \in [Pairs' -> Values]
  BY <1>3, <1>4 DEF TableTypeOK
<1>8. TableTypeOK' /\ bucketsLost' \in BOOLEAN
  <2>1. iter' \in Keys \cup {NoIter} /\ seen' \subseteq Keys /\ order' \in DOMAIN Primes /\ bucketsLost' \in BOOLEAN
    BY <1>1, <1>3 DEF TableTypeOK, TableInv
  <2> QED BY <1>2, <1>6, <1>7, <2>1 DEF TableTypeOK
<1>9. ListInv'
  <2>1. Len(list) \in Nat
    BY ListFacts
  <2> QED BY <1>1, <1>2, <1>3, <2>1 DEF ListInv
<1>10. ASSUME NEW s, InOrder(s) PROVE IF key \in Pairs THEN InOrder(s)' ELSE InOrder(Append(s, key))'
  <2>1. Ordered(s, Len(list), Pairs, serials) /\ Len(list) \in Nat
    BY <1>10, ListFacts DEF InOrder
  <2>2. CASE key \in Pairs
    <3>1. serials' = serials
      BY <1>3, <1>5, <2>2
    <3> QED BY <1>1, <2>1, <2>2, <3>1 DEF InOrder
  <2>3. CASE key \notin Pairs
    <3>1. Ordered(Append(s, key), Len(list) + 1, Pairs \cup {key}, serials')
      BY <1>3, <1>5, <2>1, <2>3, OrderAppend
    <3> QED BY <1>1, <2>3, <3>1 DEF InOrder
  <2> QED BY <2>2, <2>3
<1>11. SerialInv'
  BY <1>6, <1>10 DEF SerialInv
<1>12. IterInv'
  <2>1. SUFFICES ASSUME iter' \in Pairs', ~disturbed'
                 PROVE  (\A i \in 1..Len(list) : i <= Pos(list, iter) => list[i] \in seen)'
    BY DEF IterInv
  <2>2. iter # NoIter
    BY <1>2, <1>3, <2>1 DEF ConstantsOK
  <2>3. ~disturbed /\ ~Full /\ key \in Pairs
    BY <1>1, <2>1, <2>2, Zenon
  <2>4. list' = list /\ iter \in Pairs
    BY <1>1, <1>3, <2>1, <2>3
  <2> QED BY <1>3, <2>3, <2>4 DEF IterInv
<1> QED BY <1>8, <1>9, <1>10, <1>11, <1>12 DEF TableInv

\* A set that fails leaves the object as it is, although it may have rehashed it.
LEMMA SetFailsKeeps ==
    ASSUME ConstantsOK, TableInv, NEW key \in Keys, SetFails(key)
    PROVE  TableInv' /\ values' = values /\ \A s : InOrder(s) => InOrder(s)'
<1> TableTypeOK /\ ListInv /\ SerialInv /\ IterInv
  BY DEF TableInv
<1>1. /\ ~bucketsLost' /\ order' \in DOMAIN Primes /\ IsTable(Table', NumBuckets')
      /\ Pairs' = Pairs /\ Len(list') = Len(list) /\ (~Full => list' = list)
  BY SetFailsTable
<1>2. /\ list' \in Seq(Keys) /\ Once(list') /\ Pairs' \subseteq Keys
      /\ DOMAIN bucketFirst' = DOMAIN bucketLast' /\ Range(bucketFirst') \cup Range(bucketLast') \subseteq Keys \cup {List}
  BY <1>1, ListTypes
<1>3. /\ size' = size /\ values' = values /\ serials' = serials /\ bucketsLost' = bucketsLost /\ iter' = iter /\ seen' = seen
      /\ serial < MaxSerial /\ serial' = serial + 1
  BY DEF SetFails
<1>4. disturbed' = (iter # NoIter /\ (disturbed \/ Full))
  BY Zenon DEF SetFails
<1>5. serial \in 0..MaxSerial /\ MaxSerial \in Nat /\ serials \in [Pairs -> 0..(serial - 1)]
  BY DEF SerialInv, ConstantsOK
<1>6. serial' \in 0..MaxSerial /\ serials' \in [Pairs' -> 0..(serial' - 1)] /\ serials' \in [Pairs' -> 0..MaxSerial]
  BY <1>1, <1>3, <1>5
<1>7. TableTypeOK' /\ bucketsLost' \in BOOLEAN
  <2>1. /\ iter' \in Keys \cup {NoIter} /\ seen' \subseteq Keys /\ order' \in DOMAIN Primes
        /\ bucketsLost' \in BOOLEAN /\ values' \in [Pairs' -> Values]
    BY <1>1, <1>3 DEF TableTypeOK, TableInv
  <2> QED BY <1>2, <1>6, <2>1 DEF TableTypeOK
<1>8. ListInv'
  BY <1>1, <1>2, <1>3 DEF ListInv
<1>9. ASSUME NEW s, InOrder(s) PROVE InOrder(s)'
  BY <1>1, <1>3, <1>9 DEF InOrder
<1>10. SerialInv'
  BY <1>6, <1>9 DEF SerialInv
<1>11. IterInv'
  <2>1. SUFFICES ASSUME iter' \in Pairs', ~disturbed'
                 PROVE  (\A i \in 1..Len(list) : i <= Pos(list, iter) => list[i] \in seen)'
    BY DEF IterInv
  <2>2. iter # NoIter
    BY <1>2, <1>3, <2>1 DEF ConstantsOK
  <2>3. ~disturbed /\ ~Full
    BY <1>4, <2>1, <2>2, Zenon
  <2>4. list' = list /\ iter \in Pairs
    BY <1>1, <1>3, <2>1, <2>3
  <2> QED BY <1>3, <2>3, <2>4 DEF IterInv
<1> QED BY <1>3, <1>7, <1>8, <1>9, <1>10, <1>11 DEF TableInv

LEMMA RehashFailsKeeps ==
    ASSUME ConstantsOK, TableInv, RehashFails
    PROVE  TableInv' /\ values' = values /\ \A s : InOrder(s) => InOrder(s)'
<1> TableTypeOK /\ ListInv /\ SerialInv /\ IterInv
  BY DEF TableInv
<1>1. /\ list' = list /\ bucketFirst' = bucketFirst /\ bucketLast' = bucketLast /\ size' = size /\ values' = values /\ serials' = serials
      /\ iter' = iter /\ seen' = seen /\ disturbed' = disturbed /\ bucketsLost' = TRUE /\ Full
      /\ serial < MaxSerial /\ serial' = serial + 1 /\ order' = order + 1
  BY DEF RehashFails
<1>2. order' \in DOMAIN Primes
  BY <1>1, NextPrime
<1>3. Pairs' = Pairs
  BY <1>1 DEF Pairs
<1>4. serial \in 0..MaxSerial /\ MaxSerial \in Nat /\ serials \in [Pairs -> 0..(serial - 1)]
  BY DEF SerialInv, ConstantsOK
<1>5. serial' \in 0..MaxSerial /\ serials' \in [Pairs' -> 0..(serial' - 1)]
  BY <1>1, <1>3, <1>4
<1>6. TableTypeOK' /\ bucketsLost' \in BOOLEAN
  BY <1>1, <1>2, <1>3 DEF TableTypeOK
<1>7. ListInv' /\ IterInv'
  BY <1>1, <1>3 DEF ListInv, IterInv
<1>8. ASSUME NEW s, InOrder(s) PROVE InOrder(s)'
  BY <1>1, <1>3, <1>8 DEF InOrder
<1>9. SerialInv'
  BY <1>5, <1>8 DEF SerialInv
<1> QED BY <1>1, <1>6, <1>7, <1>8, <1>9 DEF TableInv

\* json_object_del: the key is taken out of the order.
LEMMA DelKeeps ==
    ASSUME ConstantsOK, TableInv, NEW key \in Keys, Del(key)
    PROVE  /\ TableInv' /\ key \in Pairs /\ values' = [k \in Pairs \ {key} |-> values[k]]
           /\ \A s : InOrder(s) => \E p \in 1..Len(s) : s[p] = key /\ InOrder(RemoveAt(s, p))'
<1> TableTypeOK /\ ListInv /\ SerialInv /\ IterInv
  BY DEF TableInv
<1>1. /\ ~bucketsLost' /\ key \in Pairs /\ IsTable(Table', NumBuckets')
      /\ Pairs' = Pairs \ {key} /\ Len(list') = Len(list) - 1
  BY DelTable
<1>2. /\ list' \in Seq(Keys) /\ Once(list') /\ Pairs' \subseteq Keys
      /\ DOMAIN bucketFirst' = DOMAIN bucketLast' /\ Range(bucketFirst') \cup Range(bucketLast') \subseteq Keys \cup {List}
  BY <1>1, ListTypes
<1>3. /\ size' = size - 1 /\ bucketsLost' = bucketsLost /\ iter' = iter /\ seen' = seen /\ order' = order /\ serial' = serial
      /\ values' = [k \in Pairs \ {key} |-> values[k]] /\ serials' = [k \in Pairs \ {key} |-> serials[k]]
  BY DEF Del
<1>4. disturbed' = (iter # NoIter)
  BY DEF Del
<1>5. serial \in 0..MaxSerial /\ MaxSerial \in Nat /\ serials \in [Pairs -> 0..(serial - 1)]
  BY DEF SerialInv, ConstantsOK
<1>6. serial' \in 0..MaxSerial /\ serials' \in [Pairs' -> 0..(serial' - 1)] /\ serials' \in [Pairs' -> 0..MaxSerial]
  BY <1>1, <1>3, <1>5
<1>7. TableTypeOK' /\ bucketsLost' \in BOOLEAN
  <2>1. iter' \in Keys \cup {NoIter} /\ seen' \subseteq Keys /\ order' \in DOMAIN Primes /\ bucketsLost' \in BOOLEAN
    BY <1>1, <1>3 DEF TableTypeOK, TableInv
  <2>2. values' \in [Pairs' -> Values]
    BY <1>1, <1>3 DEF TableTypeOK
  <2> QED BY <1>2, <1>6, <2>1, <2>2 DEF TableTypeOK
<1>8. ListInv'
  BY <1>1, <1>2, <1>3 DEF ListInv
<1>9. ASSUME NEW s, InOrder(s) PROVE \E p \in 1..Len(s) : s[p] = key /\ InOrder(RemoveAt(s, p))'
  <2>1. Ordered(s, Len(list), Pairs, serials) /\ Len(list) \in Nat
    BY <1>9, ListFacts DEF InOrder
  <2>2. serials \in [Pairs -> Nat]
    BY SerialFacts
  <2>3. Len(s) = Len(list) /\ \E p \in 1..Len(list) : s[p] = key
    BY <1>1, <2>1, <2>2, OrderedSeq
  <2>4. PICK p \in 1..Len(list) : s[p] = key
    BY <2>3
  <2>5. Ordered(RemoveAt(s, p), Len(list) - 1, Pairs \ {key}, serials')
    BY <1>3, <2>1, <2>2, <2>4, OrderRemove
  <2>6. InOrder(RemoveAt(s, p))'
    BY <1>1, <2>5 DEF InOrder
  <2> QED BY <2>3, <2>4, <2>6
<1>10. SerialInv'
  BY <1>6, <1>9 DEF SerialInv
<1>11. IterInv'
  BY <1>2, <1>3, <1>4 DEF IterInv, ConstantsOK
<1> QED BY <1>1, <1>3, <1>7, <1>8, <1>9, <1>10, <1>11 DEF TableInv

LEMMA NothingOrdered ==
    ASSUME NEW num PROVE Ordered(<<>>, 0, {}, num)
<1>1. <<>> \in [1..0 -> {}] /\ DOMAIN <<>> = {}
  OBVIOUS
<1> QED BY <1>1 DEF Ordered, Range

LEMMA ClearKeeps ==
    ASSUME ConstantsOK, TableInv, Clear
    PROVE  TableInv' /\ values' = <<>> /\ InOrder(<<>>)'
<1> TableTypeOK /\ ListInv /\ SerialInv /\ IterInv
  BY DEF TableInv
<1>1. ~bucketsLost' /\ IsTable(Table', NumBuckets') /\ Pairs' = {} /\ Len(list') = 0
  BY ClearTable
<1>2. /\ list' \in Seq(Keys) /\ Once(list')
      /\ DOMAIN bucketFirst' = DOMAIN bucketLast' /\ Range(bucketFirst') \cup Range(bucketLast') \subseteq Keys \cup {List}
  BY <1>1, ListTypes
<1>3. /\ size' = 0 /\ bucketsLost' = bucketsLost /\ iter' = iter /\ seen' = seen /\ order' = order /\ serial' = 0
      /\ values' = <<>> /\ serials' = <<>>
  BY DEF Clear
<1>4. \A S : <<>> \in [{} -> S]
  OBVIOUS
<1>5. TableTypeOK' /\ bucketsLost' \in BOOLEAN
  <2>1. iter' \in Keys \cup {NoIter} /\ seen' \subseteq Keys /\ order' \in DOMAIN Primes /\ bucketsLost' \in BOOLEAN
    BY <1>1, <1>3 DEF TableTypeOK, TableInv
  <2>2. values' \in [Pairs' -> Values] /\ serials' \in [Pairs' -> 0..MaxSerial]
    BY <1>1, <1>3, <1>4
  <2> QED BY <1>2, <2>1, <2>2 DEF TableTypeOK
<1>6. ListInv'
  BY <1>1, <1>2, <1>3 DEF ListInv
<1>7. InOrder(<<>>)'
  BY <1>1, NothingOrdered DEF InOrder
<1>8. SerialInv'
  <2>1. serial' \in 0..MaxSerial /\ serials' \in [Pairs' -> 0..(serial' - 1)]
    BY <1>1, <1>3, <1>4 DEF ConstantsOK
  <2> QED BY <1>7, <2>1 DEF SerialInv
<1>9. IterInv'
  BY <1>1 DEF IterInv
<1> QED BY <1>3, <1>5, <1>6, <1>7, <1>8, <1>9 DEF TableInv

\* Steps that leave the pairs where they are: only the iteration remains to be looked at.
LEMMA Unmoved ==
    ASSUME TableInv, UNCHANGED <<list, bucketFirst, bucketLast, order, size, serials, serial, bucketsLost>>,
           values' \in [Pairs -> Values], iter' \in Keys \cup {NoIter}, seen' \subseteq Keys,
           iter' \in Pairs /\ ~disturbed' => \A i \in 1..Len(list) : i <= Pos(list, iter') => list[i] \in seen'
    PROVE  TableInv' /\ Pairs' = Pairs /\ \A s : InOrder(s) => InOrder(s)'
<1>1. Pairs' = Pairs
  BY DEF Pairs
<1>2. TableTypeOK' /\ bucketsLost' \in BOOLEAN
  BY <1>1 DEF TableTypeOK, TableInv
<1>3. ListInv'
  <2>1. Table' = Table /\ NumBuckets' = NumBuckets
    BY DEF Table, NumBuckets
  <2> QED BY <2>1 DEF ListInv, TableInv
<1>4. ASSUME NEW s, InOrder(s) PROVE InOrder(s)'
  BY <1>1, <1>4 DEF InOrder
<1>5. SerialInv'
  BY <1>1, <1>4 DEF SerialInv, TableInv
<1>6. IterInv'
  BY <1>1 DEF IterInv
<1> QED BY <1>1, <1>2, <1>3, <1>4, <1>5, <1>6 DEF TableInv

LEMMA PosFacts ==
    ASSUME TableTypeOK, ListInv
    PROVE  /\ \A i \in 1..Len(list) : Pos(list, list[i]) = i
           /\ \A key \in Pairs : Pos(list, key) \in 1..Len(list) /\ list[Pos(list, key)] = key
<1>1. \A i \in 1..Len(list) : Pos(list, list[i]) = i
  BY Positions DEF TableTypeOK, ListInv
<1>2. ASSUME NEW key \in Pairs PROVE Pos(list, key) \in 1..Len(list) /\ list[Pos(list, key)] = key
  <2>1. PICK i \in 1..Len(list) : list[i] = key
    BY ListFacts
  <2> QED BY <1>1, <2>1
<1> QED BY <1>1, <1>2

\* The iterator goes along the list, and what it passes is seen.
LEMMA IterKeeps ==
    ASSUME ConstantsOK, TableInv, Iter \/ (\E key \in Keys : IterAt(key)) \/ IterNext \/ Abandon
    PROVE  TableInv' /\ Pairs' = Pairs /\ values' = values /\ \A s : InOrder(s) => InOrder(s)'
<1> TableTypeOK /\ ListInv /\ SerialInv /\ IterInv
  BY DEF TableInv
<1>1. UNCHANGED <<list, bucketFirst, bucketLast, order, size, serials, serial, bucketsLost, values>>
  BY DEF Iter, IterAt, IterNext, Abandon, contents
<1>2. values' \in [Pairs -> Values]
  BY <1>1 DEF TableTypeOK
<1>3. list \in Seq(Keys) /\ Len(list) \in Nat /\ \A i \in 1..Len(list) : list[i] \in Keys /\ list[i] \in Pairs
  BY ListFacts
<1>4. CASE Iter
  <2>1. Len(list) > 0 /\ Head(list) = list[1] /\ iter' = Head(list) /\ seen' = {Head(list)}
    BY <1>3, <1>4, EmptySeq DEF Iter
  <2>2. Pos(list, iter') = 1
    BY <1>3, <2>1, PosFacts
  <2>3. iter' \in Keys \cup {NoIter} /\ seen' \subseteq Keys
    BY <1>3, <2>1
  <2>4. \A i \in 1..Len(list) : i <= Pos(list, iter') => list[i] \in seen'
    BY <2>1, <2>2
  <2> QED BY <1>1, <1>2, <2>3, <2>4, Unmoved
<1>5. ASSUME NEW key \in Keys, IterAt(key)
      PROVE  TableInv' /\ Pairs' = Pairs /\ values' = values /\ \A s : InOrder(s) => InOrder(s)'
  <2>1. iter' = key /\ seen' = {list[i] : i \in 1..Pos(list, key)} /\ ~bucketsLost /\ Find(key)
    BY <1>5 DEF IterAt
  <2>2. key \in Pairs
    BY <2>1, Found
  <2>3. Pos(list, key) \in 1..Len(list)
    BY <2>2, PosFacts
  <2>4. iter' \in Keys \cup {NoIter} /\ seen' \subseteq Keys
    BY <1>3, <2>1, <2>3
  <2>5. \A i \in 1..Len(list) : i <= Pos(list, iter') => list[i] \in seen'
    BY <2>1, <2>3
  <2> QED BY <1>1, <1>2, <2>4, <2>5, Unmoved
<1>6. CASE IterNext
  <2> DEFINE p == Pos(list, iter)
  <2>1. iter \in Pairs /\ disturbed' = disturbed /\ p \in 1..Len(list) /\ iter \in Keys /\ seen \subseteq Keys
    BY <1>6, PosFacts, ListFacts DEF IterNext, TableTypeOK
  <2>2. CASE p = Len(list)
    <3>1. iter' = NoIter /\ seen' = seen
      BY <1>6, <2>2 DEF IterNext
    <3>2. iter' \notin Pairs
      BY <3>1, ListFacts DEF ConstantsOK
    <3> QED BY <1>1, <1>2, <2>1, <3>1, <3>2, Unmoved
  <2>3. CASE p # Len(list)
    <3>1. iter' = list[p + 1] /\ seen' = seen \cup {list[p + 1]} /\ p + 1 \in 1..Len(list)
      BY <1>3, <1>6, <2>1, <2>3 DEF IterNext
    <3>2. Pos(list, iter') = p + 1
      BY <3>1, PosFacts
    <3>3. iter' \in Keys \cup {NoIter} /\ seen' \subseteq Keys
      BY <1>3, <2>1, <3>1
    <3>4. ASSUME iter' \in Pairs, ~disturbed', NEW i \in 1..Len(list), i <= p + 1 PROVE list[i] \in seen'
      BY <2>1, <3>1, <3>4 DEF IterInv
    <3> QED BY <1>1, <1>2, <3>2, <3>3, <3>4, Unmoved
  <2> QED BY <2>2, <2>3
<1>7. CASE Abandon
  <2>1. iter' = NoIter /\ seen' = seen /\ iter' \notin Pairs
    BY <1>7, ListFacts DEF Abandon, ConstantsOK
  <2>2. seen' \subseteq Keys
    BY <2>1 DEF TableTypeOK
  <2> QED BY <1>1, <1>2, <2>1, <2>2, Unmoved
<1> QED BY <1>1, <1>4, <1>5, <1>6, <1>7

LEMMA IterSetKeeps ==
    ASSUME ConstantsOK, TableInv, NEW value \in Values, IterSet(value)
    PROVE  /\ TableInv' /\ iter \in Pairs /\ values' = [values EXCEPT ![iter] = value]
           /\ \A s : InOrder(s) => InOrder(s)'
<1> TableTypeOK /\ ListInv /\ SerialInv /\ IterInv
  BY DEF TableInv
<1>1. /\ UNCHANGED <<list, bucketFirst, bucketLast, order, size, serials, serial, bucketsLost>> /\ UNCHANGED <<iter, seen, disturbed>>
      /\ iter \in Pairs /\ values' = [values EXCEPT ![iter] = value]
  BY DEF IterSet
<1>2. values' \in [Pairs -> Values] /\ iter' \in Keys \cup {NoIter} /\ seen' \subseteq Keys
  BY <1>1 DEF TableTypeOK
<1>3. iter' \in Pairs /\ ~disturbed' => \A i \in 1..Len(list) : i <= Pos(list, iter') => list[i] \in seen'
  BY <1>1 DEF IterInv
<1> QED BY <1>1, <1>2, <1>3, Unmoved

LEMMA StutterKeeps ==
    ASSUME TableInv, UNCHANGED tableVars
    PROVE  TableInv' /\ values' = values /\ \A s : InOrder(s) => InOrder(s)'
<1>1. /\ UNCHANGED <<list, bucketFirst, bucketLast, order, size, serials, serial, bucketsLost, values>>
      /\ UNCHANGED <<iter, seen, disturbed>>
  BY DEF tableVars, contents
<1>2. values' \in [Pairs -> Values] /\ iter' \in Keys \cup {NoIter} /\ seen' \subseteq Keys
  BY <1>1 DEF TableTypeOK, TableInv
<1>3. iter' \in Pairs /\ ~disturbed' => \A i \in 1..Len(list) : i <= Pos(list, iter') => list[i] \in seen'
  BY <1>1 DEF IterInv, TableInv
<1> QED BY <1>1, <1>2, <1>3, Unmoved

LEMMA TableInitially ==
    ASSUME ConstantsOK, TableInit
    PROVE  TableInv /\ InOrder(<<>>)
<1>1. 1 \in DOMAIN Primes /\ Primes[1] \in Nat \ {0}
  <2>1. Len(Primes) \in Nat \ {0} /\ DOMAIN Primes = 1..Len(Primes)
    BY EmptySeq, LenProperties DEF ConstantsOK
  <2> QED BY <2>1, Buckets
<1>2. Table = NoPairs(NumBuckets) /\ NumBuckets = Primes[1]
  BY DEF TableInit, Table, NoPairs, NumBuckets
<1>3. IsTable(Table, NumBuckets) /\ Len(list) = 0 /\ Pairs = {}
  <2>1. IsTable(Table, NumBuckets) /\ Len(Table.list) = 0 /\ Range(Table.list) = {}
    BY <1>1, <1>2, NoPairsTable
  <2> QED BY <2>1 DEF Table, Pairs
<1>4. /\ list \in Seq(Keys) /\ Once(list)
      /\ DOMAIN bucketFirst = DOMAIN bucketLast /\ Range(bucketFirst) \cup Range(bucketLast) \subseteq Keys \cup {List}
  <2>1. Table.list = list /\ Table.first = bucketFirst /\ Table.last = bucketLast
    BY DEF Table
  <2> QED BY <1>3, <2>1, TableTypes
<1>5. \A S : <<>> \in [{} -> S]
  OBVIOUS
<1>6. /\ values = <<>> /\ serials = <<>> /\ serial = 0 /\ order = 1 /\ size = 0 /\ bucketsLost = FALSE
      /\ iter = NoIter /\ seen = {}
  BY DEF TableInit
<1>7. TableTypeOK
  <2>1. values \in [Pairs -> Values] /\ serials \in [Pairs -> 0..MaxSerial]
    BY <1>3, <1>5, <1>6
  <2> QED BY <1>1, <1>4, <1>6, <2>1 DEF TableTypeOK
<1>8. ListInv /\ IterInv
  BY <1>3, <1>4, <1>6 DEF ListInv, IterInv
<1>9. InOrder(<<>>)
  BY <1>3, NothingOrdered DEF InOrder
<1>10. SerialInv
  <2>1. serial \in 0..MaxSerial /\ serials \in [Pairs -> 0..(serial - 1)]
    BY <1>3, <1>5, <1>6 DEF ConstantsOK
  <2> QED BY <1>9, <2>1 DEF SerialInv
<1> QED BY <1>6, <1>7, <1>8, <1>9, <1>10 DEF TableInv

LEMMA NextKeeps ==
    ASSUME ConstantsOK, TableInv, [TableNext]_tableVars
    PROVE  TableInv'
<1>1. ASSUME NEW key \in Keys, NEW value \in Values, Set(key, value) PROVE TableInv'
  BY <1>1, SetKeeps
<1>2. ASSUME NEW key \in Keys, SetFails(key) PROVE TableInv'
  BY <1>2, SetFailsKeeps
<1>3. ASSUME NEW key \in Keys, Del(key) PROVE TableInv'
  BY <1>3, DelKeeps
<1>4. CASE Iter \/ (\E key \in Keys : IterAt(key)) \/ IterNext \/ Abandon
  BY <1>4, IterKeeps
<1>5. ASSUME NEW value \in Values, IterSet(value) PROVE TableInv'
  BY <1>5, IterSetKeeps
<1>6. CASE RehashFails
  BY <1>6, RehashFailsKeeps
<1>7. CASE Clear
  BY <1>7, ClearKeeps
<1>8. CASE UNCHANGED tableVars
  BY <1>8, StutterKeeps
<1> QED BY <1>1, <1>2, <1>3, <1>4, <1>5, <1>6, <1>7, <1>8 DEF TableNext

\* Every variable of the hash table keeps its type, for any keys, hash function and
\* numbers of buckets (hashtable.c).
THEOREM TableTypesCorrect == TableSpec => []TableTypeOK
<1> ConstantsOK
  BY TableAssumption
<1>1. TableInit => TableInv
  BY TableInitially
<1>2. TableInv /\ [TableNext]_tableVars => TableInv'
  BY NextKeeps
<1>3. TableInv => TableTypeOK
  BY DEF TableInv
<1> QED BY <1>1, <1>2, <1>3, PTL DEF TableSpec

\* A bucket is a segment of the list.
LEMMA Partition ==
    ASSUME ConstantsOK, TableInv
    PROVE  BucketsPartitionTheList
<1> SUFFICES ASSUME ~bucketsLost PROVE BucketsPartitionTheList
  BY DEF BucketsPartitionTheList
<1> DEFINE n == NumBuckets
<1> TableTypeOK /\ ListInv
  BY DEF TableInv
<1>1. n \in Nat \ {0}
  BY Buckets DEF TableTypeOK, NumBuckets
<1>2. IsTable(Table, n) /\ Table.list = list /\ Table.first = bucketFirst /\ Table.last = bucketLast
  BY DEF ListInv, Table
<1>3. DOMAIN bucketFirst = 0..(n - 1) /\ DOMAIN bucketLast = 0..(n - 1)
  BY <1>2 DEF IsTable
<1>4. IsInjective(list)
  BY ListFacts DEF IsInjective, ListInv, Once
<1> HIDE DEF n
<1>5. ASSUME NEW b \in 0..(n - 1) PROVE bucketFirst[b] \in Pairs \cup {List} /\ bucketLast[b] \in Pairs \cup {List}
  <2>1. IsBucket(list, bucketFirst[b], bucketLast[b], n, b)
    BY <1>2 DEF IsTable
  <2> QED BY <2>1, ListFacts DEF IsBucket
<1>6. Range(bucketFirst) \cup Range(bucketLast) \subseteq Pairs \cup {List}
  BY <1>3, <1>5 DEF Range
<1>7. ASSUME NEW b \in DOMAIN bucketFirst PROVE Segment(Table, b) = {key \in Pairs : Bucket(key) = b}
  <2>1. Segment(Table, b) = {key \in Range(Table.list) : Hash(key) % n = b}
    BY <1>1, <1>2, <1>3, SegmentOfBucket
  <2> QED BY <1>2, <2>1 DEF Pairs, Bucket, n
<1> QED BY <1>4, <1>6, <1>7 DEF BucketsPartitionTheList, ListInv

\* An undisturbed iteration ends behind the last pair of the list.
LEMMA EndsBehindAll ==
    ASSUME ConstantsOK, TableInv, [TableNext]_tableVars, ~disturbed, iter \in Pairs, iter' = NoIter
    PROVE  Pairs \subseteq seen
<1> TableTypeOK /\ ListInv
  BY DEF TableInv
<1>1. iter # NoIter
  BY ListFacts DEF ConstantsOK
<1>2. ~Abandon /\ ~(iter = NoIter)
  BY <1>1 DEF Abandon
<1>3. CASE IterNext
  <2> DEFINE p == Pos(list, iter)
  <2>1. p \in 1..Len(list) /\ Len(list) \in Nat /\ \A i \in 1..Len(list) : list[i] \in Keys
    BY PosFacts, ListFacts
  <2>2. p = Len(list)
    <3>1. SUFFICES ASSUME p # Len(list) PROVE FALSE
      OBVIOUS
    <3>2. iter' = list[p + 1] /\ p + 1 \in 1..Len(list)
      BY <1>3, <2>1, <3>1 DEF IterNext
    <3> QED BY <2>1, <3>2 DEF ConstantsOK
  <2>3. \A i \in 1..Len(list) : list[i] \in seen
    BY <2>1, <2>2 DEF TableInv, IterInv
  <2> QED BY <2>3, ListFacts
<1>4. CASE iter' = iter
  BY <1>1, <1>4
<1>5. IterNext \/ iter' = iter
  BY <1>2 DEF TableNext, tableVars, Set, SetFails, Del, IterAt, IterSet, RehashFails, Clear, Iter
<1> QED BY <1>3, <1>4, <1>5

-----------------------------------------------------------------------------
(* The refinement.                                                         *)

LEMMA TheOrder ==
    ASSUME NEW n \in Nat, NEW P, NEW num \in [P -> Nat], NEW s, Ordered(s, n, P, num)
    PROVE  (CHOOSE t \in [1..n -> P] : Range(t) = P /\ \A i, j \in 1..n : i < j => num[t[i]] < num[t[j]]) = s
<1> DEFINE C == CHOOSE t \in [1..n -> P] : Range(t) = P /\ \A i, j \in 1..n : i < j => num[t[i]] < num[t[j]]
<1>1. Ordered(C, n, P, num)
  <2>1. \E t \in [1..n -> P] : Range(t) = P /\ \A i, j \in 1..n : i < j => num[t[i]] < num[t[j]]
    BY DEF Ordered
  <2>2. C \in [1..n -> P] /\ Range(C) = P /\ \A i, j \in 1..n : i < j => num[C[i]] < num[C[j]]
    BY <2>1
  <2> HIDE DEF C
  <2> QED BY <2>2 DEF Ordered
<1> HIDE DEF C
<1>2. C = s
  BY <1>1, OrderUnique
<1> QED BY <1>2 DEF C

LEMMA OrderNow ==
    ASSUME TableInv, NEW s, InOrder(s)
    PROVE  InsertionOrder = s /\ s \in Seq(Pairs) /\ DOMAIN s = 1..Len(s)
<1>1. Len(list) \in Nat /\ serials \in [Pairs -> Nat]
  BY ListFacts, SerialFacts DEF TableInv
<1>2. InsertionOrder = s
  BY <1>1, TheOrder DEF InOrder, InsertionOrder
<1>3. s \in Seq(Pairs)
  BY <1>1, OrderedSeq DEF InOrder
<1> QED BY <1>2, <1>3, LenProperties

LEMMA OrderThen ==
    ASSUME TableInv', NEW s, InOrder(s)'
    PROVE  InsertionOrder' = s
<1>1. Len(list') \in Nat
  BY LenProperties DEF TableInv, TableTypeOK
<1>2. serials' \in [Pairs' -> Nat]
  BY DEF TableInv, SerialInv
<1>3. Ordered(s, Len(list'), Pairs', serials')
  BY DEF InOrder
<1> QED BY <1>1, <1>2, <1>3, TheOrder DEF InsertionOrder

\* Every step of the hash table is one of the object, or changes nothing of it.
LEMMA NextImplements ==
    ASSUME ConstantsOK, TableInv, [TableNext]_tableVars
    PROVE  [Object!Next]_<<values, InsertionOrder>>
<1> TableInv'
  BY NextKeeps
<1>1. PICK s : InOrder(s)
  BY DEF TableInv, SerialInv
<1>2. InsertionOrder = s /\ s \in Seq(Pairs) /\ DOMAIN s = 1..Len(s)
  BY <1>1, OrderNow
<1>3. DOMAIN values = Pairs /\ values \in [Pairs -> Values] /\ Pairs \subseteq Keys
  BY ListFacts DEF TableInv, TableTypeOK
\* A step that keeps the values and the order.
<1>4. ASSUME values' = values, InOrder(s)' PROVE UNCHANGED <<values, InsertionOrder>>
  BY <1>2, <1>4, OrderThen
<1>5. ASSUME NEW key \in Keys, NEW value \in Values, Set(key, value) PROVE Object!Set(key, value)
  <2>1. IF key \in Pairs THEN InOrder(s)' ELSE InOrder(Append(s, key))'
    BY <1>1, <1>5, SetKeeps
  <2>2. values' = [k \in Pairs \cup {key} |-> IF k = key THEN value ELSE values[k]]
    BY <1>5 DEF Set, Store
  <2>3. InsertionOrder' = IF key \in Pairs THEN s ELSE Append(s, key)
    BY <2>1, OrderThen
  <2> QED BY <1>2, <1>3, <2>2, <2>3 DEF Object!Set
<1>6. ASSUME NEW key \in Keys, Del(key) PROVE Object!Del(key)
  <2>1. /\ key \in Pairs /\ values' = [k \in Pairs \ {key} |-> values[k]]
        /\ \E p \in 1..Len(s) : s[p] = key /\ InOrder(RemoveAt(s, p))'
    BY <1>1, <1>6, DelKeeps
  <2>2. PICK p \in 1..Len(s) : s[p] = key /\ InOrder(RemoveAt(s, p))'
    BY <2>1
  <2>3. InsertionOrder' = SubSeq(s, 1, p - 1) \o SubSeq(s, p + 1, Len(s))
    BY <2>2, OrderThen DEF RemoveAt
  <2> QED BY <1>2, <1>3, <2>1, <2>2, <2>3 DEF Object!Del
<1>7. ASSUME Clear PROVE Object!Clear
  BY <1>7, ClearKeeps, OrderThen DEF Object!Clear
<1>8. ASSUME NEW value \in Values, IterSet(value) PROVE Object!Set(iter, value) /\ iter \in Keys
  <2>1. iter \in Pairs /\ values' = [values EXCEPT ![iter] = value] /\ InOrder(s)'
    BY <1>1, <1>8, IterSetKeeps
  <2>2. values' = [k \in Pairs \cup {iter} |-> IF k = iter THEN value ELSE values[k]]
    BY <1>3, <2>1
  <2>3. InsertionOrder' = s
    BY <2>1, OrderThen
  <2> QED BY <1>2, <1>3, <2>1, <2>2, <2>3 DEF Object!Set
<1>9. ASSUME NEW key \in Keys, SetFails(key) PROVE UNCHANGED <<values, InsertionOrder>>
  BY <1>1, <1>4, <1>9, SetFailsKeeps
<1>10. ASSUME Iter \/ (\E key \in Keys : IterAt(key)) \/ IterNext \/ Abandon PROVE UNCHANGED <<values, InsertionOrder>>
  BY <1>1, <1>4, <1>10, IterKeeps
<1>11. ASSUME RehashFails PROVE UNCHANGED <<values, InsertionOrder>>
  BY <1>1, <1>4, <1>11, RehashFailsKeeps
<1>12. ASSUME UNCHANGED tableVars PROVE UNCHANGED <<values, InsertionOrder>>
  BY <1>1, <1>4, <1>12, StutterKeeps
<1> QED BY <1>5, <1>6, <1>7, <1>8, <1>9, <1>10, <1>11, <1>12 DEF TableNext, Object!Next

LEMMA InitImplements ==
    ASSUME ConstantsOK, TableInit
    PROVE  Object!Init
<1>1. InsertionOrder = <<>>
  BY TableInitially, OrderNow
<1> QED BY <1>1 DEF TableInit, Object!Init

\* For any keys, hash function and numbers of buckets: the hash table is the ordered
\* map an object promises to be, its buckets are disjoint segments of its list, and
\* an iteration that is not disturbed visits every key (hashtable.c).
THEOREM TableCorrect == TableSpec => TableIsAnObject
<1> ConstantsOK
  BY TableAssumption
<1>1. TableInit => TableInv /\ Object!Init
  BY TableInitially, InitImplements
<1>2. TableInv /\ [TableNext]_tableVars => TableInv'
  BY NextKeeps
<1>3. TableInv => BucketsPartitionTheList
  BY Partition
<1>4. TableInv /\ [TableNext]_tableVars => [~disturbed /\ iter \in Pairs /\ iter' = NoIter => Pairs \subseteq seen]_tableVars
  BY EndsBehindAll
<1>5. TableInv /\ [TableNext]_tableVars => [Object!Next]_<<values, InsertionOrder>>
  BY NextImplements
<1> QED BY <1>1, <1>2, <1>3, <1>4, <1>5, PTL DEF TableSpec, TableIsAnObject, IterationIsComplete, ImplementsObject, Object!Spec

-----------------------------------------------------------------------------
(* The string buffer.                                                      *)

LEMMA WrapSmall ==
    ASSUME SizeMax \in Nat, NEW n \in 0..SizeMax
    PROVE  Buffer!Wrap(n) = n
BY DEF Buffer!Wrap

\* For any size of size_t: whatever is appended to a buffer, it is refused, or what was
\* copied fits with its final zero behind it and the buffer has not shrunk, for the sizes
\* that are computed modulo 2^64 are exact (strbuffer_append_bytes); taking a character
\* back and emptying the buffer leave it one (strbuffer_pop, strbuffer_clear).
THEOREM BufferHolds ==
    ASSUME SizeMax \in Nat \ {0}, NEW b \in [size : 1..SizeMax, length : Nat], Buffer!IsBuffer(b),
           NEW n \in 0..SizeMax
    PROVE  Buffer!Fits(b, n) /\ Buffer!IsBuffer(Buffer!Pop(b)) /\ Buffer!IsBuffer(Buffer!Clear(b))
<1> USE DEF Buffer!IsBuffer
<1>1. b.size \in 1..SizeMax /\ b.length \in 0..(b.size - 1)
  OBVIOUS
<1>2. CASE n < b.size - b.length
  <2>1. Buffer!Append(b, n) = [b EXCEPT !.length = @ + n]
    BY <1>2 DEF Buffer!Append
  <2> QED BY <1>1, <1>2, <2>1 DEF Buffer!Fits, Buffer!Pop, Buffer!Clear
<1>3. CASE ~(n < b.size - b.length)
  <2>1. SUFFICES ASSUME Buffer!Append(b, n) # Buffer!Refused PROVE Buffer!Fits(b, n)
    BY <1>1 DEF Buffer!Fits, Buffer!Pop, Buffer!Clear
  <2>2. /\ ~(b.size > SizeMax \div 2) /\ ~(n > SizeMax - 1)
        /\ ~(b.length > Buffer!Wrap(SizeMax - 1 - n))
        /\ Buffer!Append(b, n) = [size |-> Buffer!Greater(Buffer!Wrap(b.size * 2), Buffer!Wrap(b.length + n + 1)),
                                  length |-> Buffer!Wrap(b.length + n)]
    BY <1>3, <2>1 DEF Buffer!Append, Buffer!Factor
  <2>3. b.size * 2 \in 0..SizeMax
    BY <1>1, <2>2
  <2>4. b.length + n + 1 \in 0..SizeMax /\ b.length + n \in 0..SizeMax
    <3>1. SizeMax - 1 - n \in 0..SizeMax
      BY <2>2
    <3>2. Buffer!Wrap(SizeMax - 1 - n) = SizeMax - 1 - n
      BY <3>1, WrapSmall
    <3> QED BY <1>1, <2>2, <3>1, <3>2
  <2>5. /\ Buffer!Wrap(b.size * 2) = b.size * 2
        /\ Buffer!Wrap(b.length + n + 1) = b.length + n + 1
        /\ Buffer!Wrap(b.length + n) = b.length + n
    BY <2>3, <2>4, WrapSmall
  <2>6. Buffer!Append(b, n) = [size |-> Buffer!Greater(b.size * 2, b.length + n + 1), length |-> b.length + n]
    BY <2>2, <2>5
  <2> QED BY <1>1, <2>3, <2>4, <2>6 DEF Buffer!Fits, Buffer!Greater
<1> QED BY <1>2, <1>3

-----------------------------------------------------------------------------
(* The characters of a string.                                             *)

LEMMA FirstLength ==
    ASSUME NEW u \in 0..255
    PROVE  CheckFirst(u) \in 0..4
BY DEF CheckFirst

\* What a byte begins.
LEMMA FirstRange ==
    ASSUME NEW u \in 0..255
    PROVE  /\ CheckFirst(u) \in 0..4
           /\ CheckFirst(u) = 1 <=> u \in 0..127
           /\ CheckFirst(u) = 2 <=> u \in 194..223
           /\ CheckFirst(u) = 3 <=> u \in 224..239
           /\ CheckFirst(u) = 4 <=> u \in 240..244
BY DEF CheckFirst

\* The six bits that a byte behind the first adds, and what the first one adds.
LEMMA Digits ==
    /\ \A y \in Int : 128 <= y /\ y <= 191 => y % 64 = y - 128
    /\ \A x \in Int : 194 <= x /\ x <= 223 => x % 32 = x - 192
    /\ \A x \in Int : 224 <= x /\ x <= 239 => x % 16 = x - 224
    /\ \A x \in Int : 240 <= x /\ x <= 244 => x % 8 = x - 240
BY SMT

\* What utf8_check_full joins from digits to the base 64 falls apart into them, and
\* its bounds, by the digits.
LEMMA TwoDigits ==
    ASSUME NEW x \in Int, 2 <= x, x <= 31, NEW y \in Int, 0 <= y, y <= 63, NEW v \in Int, v = x * 64 + y
    PROVE  128 <= v /\ v < 2048 /\ v \div 64 = x /\ v % 64 = y
BY SMT

LEMMA ThreeDigits ==
    ASSUME NEW x \in Int, 0 <= x, x <= 15, NEW y \in Int, 0 <= y, y <= 63,
           NEW z \in Int, 0 <= z, z <= 63, NEW v \in Int, v = x * 4096 + y * 64 + z
    PROVE  /\ 0 <= v /\ v < 65536
           /\ v >= 2048 <=> (x = 0 => y >= 32)
           /\ ~(55296 <= v /\ v <= 57343) <=> (x = 13 => y <= 31)
           /\ v \div 4096 = x /\ (v \div 64) % 64 = y /\ v % 64 = z
<1>1. 0 <= v /\ v < 65536
  BY SMT
<1>2. v >= 2048 <=> (x = 0 => y >= 32)
  BY SMT
<1>3. ~(55296 <= v /\ v <= 57343) <=> (x = 13 => y <= 31)
  BY SMT
<1>4. v \div 4096 = x
  BY SMT
<1>5. v \div 64 = x * 64 + y
  BY SMT
<1>6. (x * 64 + y) % 64 = y
  BY SMT
<1>7. v % 64 = z
  BY SMT
<1>8. (v \div 64) % 64 = y
  BY <1>5, <1>6, SMT
<1> QED BY <1>1, <1>2, <1>3, <1>4, <1>7, <1>8, SMT

LEMMA FourDigits ==
    ASSUME NEW x \in Int, 0 <= x, x <= 4, NEW y \in Int, 0 <= y, y <= 63,
           NEW z \in Int, 0 <= z, z <= 63, NEW w \in Int, 0 <= w, w <= 63, NEW v \in Int, v = x * 262144 + y * 4096 + z * 64 + w
    PROVE  /\ 0 <= v
           /\ v >= 65536 <=> (x = 0 => y >= 16)
           /\ v <= 1114111 <=> (x = 4 => y <= 15)
           /\ v \div 262144 = x /\ (v \div 4096) % 64 = y /\ (v \div 64) % 64 = z /\ v % 64 = w
<1>1. 0 <= v
  BY SMT
<1>2. v >= 65536 <=> (x = 0 => y >= 16)
  BY SMT
<1>3. v <= 1114111 <=> (x = 4 => y <= 15)
  BY SMT
<1>4. v \div 262144 = x
  BY SMT
<1>5. v \div 4096 = x * 64 + y
  BY SMT
<1>6. (x * 64 + y) % 64 = y
  BY SMT
<1>7. v \div 64 = x * 4096 + y * 64 + z
  BY SMT
<1>8. (x * 4096 + y * 64 + z) % 64 = z
  BY SMT
<1>9. v % 64 = w
  BY SMT
<1>10. (v \div 4096) % 64 = y /\ (v \div 64) % 64 = z
  BY <1>5, <1>6, <1>7, <1>8, SMT
<1> QED BY <1>1, <1>2, <1>3, <1>4, <1>9, <1>10, SMT

-----------------------------------------------------------------------------
(* A character by its bytes: the table, the check and the code point.      *)

\* The encoding by the range of the code point.
LEMMA Encoded ==
    ASSUME NEW v \in Int
    PROVE  /\ 0 <= v /\ v < 128 => Encode(v) = <<v>>
           /\ 128 <= v /\ v < 2048 => Encode(v) = InTwo(v)
           /\ 2048 <= v /\ v < 65536 => Encode(v) = InThree(v)
           /\ 65536 <= v /\ v <= 1114111 => Encode(v) = InFour(v)
<1>1. 0 <= v /\ v < 128 => Encode(v) = <<v>>
  BY SMT DEF Encode
<1>2. 128 <= v /\ v < 2048 => Encode(v) = InTwo(v)
  BY SMT DEF Encode
<1>3. 2048 <= v /\ v < 65536 => Encode(v) = InThree(v)
  BY SMT DEF Encode
<1>4. 65536 <= v /\ v <= 1114111 => Encode(v) = InFour(v)
  BY SMT DEF Encode
<1> QED BY <1>1, <1>2, <1>3, <1>4, SMT

LEMMA OneByte ==
    ASSUME NEW b, Len(b) = 1, b[1] \in 0..255
    PROVE  /\ WellFormed(b) <=> CheckFirst(b[1]) = 1
           /\ WellFormed(b) => Encode(CodePoint(b)) = <<b[1]>>
<1>1. WellFormed(b) <=> b[1] \in 0..127
  BY SMT DEF WellFormed
<1>2. CheckFirst(b[1]) = 1 <=> b[1] \in 0..127
  BY FirstRange, SMT
<1>3. ASSUME b[1] \in 0..127 PROVE Encode(CodePoint(b)) = <<b[1]>>
  <2> DEFINE c == b[1]
  <2>1. CodePoint(b) = c
    BY SMT DEF CodePoint
  <2>2. c \in Int /\ 0 <= c /\ c < 128
    BY <1>3, SMT
  <2> HIDE DEF c
  <2>3. Encode(c) = <<c>>
    BY <2>2, Encoded, SMT
  <2> QED BY <2>1, <2>3, SMT DEF c
<1> QED BY <1>1, <1>2, <1>3, SMT

LEMMA TwoBytes ==
    ASSUME NEW b, Len(b) = 2, b[1] \in 0..255, b[2] \in 0..255
    PROVE  /\ WellFormed(b) <=> CheckFirst(b[1]) = 2 /\ CheckFull(b)
           /\ WellFormed(b) => Encode(CodePoint(b)) = <<b[1], b[2]>>
<1>1. WellFormed(b) <=> b[1] \in 194..223 /\ b[2] \in 128..191
  BY SMT DEF WellFormed
<1>2. CheckFirst(b[1]) = 2 <=> b[1] \in 194..223
  BY FirstRange, SMT
<1> DEFINE v == Value(b)
<1>3. CheckFull(b) <=> b[2] \in 128..191 /\ v <= 1114111 /\ ~(55296 <= v /\ v <= 57343) /\ v >= 128
  BY SMT DEF CheckFull, Continues
<1>4. CodePoint(b) = v /\ v = (b[1] % 32) * 64 + (b[2] % 64)
  BY SMT DEF CodePoint, Value
<1>5. v \in Int
  BY <1>4, SMTT(30)
<1> HIDE DEF v
<1>6. ASSUME b[1] \in 194..223, b[2] \in 128..191
      PROVE  128 <= v /\ v < 2048 /\ Encode(v) = <<b[1], b[2]>>
  <2> DEFINE x == b[1] - 192
             y == b[2] - 128
  <2>1. x \in 2..31 /\ y \in 0..63 /\ b[1] = 192 + x /\ b[2] = 128 + y
    BY <1>6, SMT
  <2>2. v = x * 64 + y
    BY <1>4, <1>6, Digits, SMT
  <2> HIDE DEF x, y
  <2>3. 128 <= v /\ v < 2048 /\ v \div 64 = x /\ v % 64 = y
    BY <1>5, <2>1, <2>2, TwoDigits, SMT
  <2>4. Encode(v) = <<192 + x, 128 + y>>
    BY <1>5, <2>3, Encoded, SMTT(30) DEF InTwo, Continued
  <2> QED BY <2>1, <2>3, <2>4, SMT
<1>7. 128 <= v /\ v < 2048 => v <= 1114111 /\ ~(55296 <= v /\ v <= 57343) /\ v >= 128
  BY <1>5, SMT
<1> QED BY <1>1, <1>2, <1>3, <1>4, <1>6, <1>7, SMT

LEMMA ThreeBytes ==
    ASSUME NEW b, Len(b) = 3, b[1] \in 0..255, b[2] \in 0..255, b[3] \in 0..255
    PROVE  /\ WellFormed(b) <=> CheckFirst(b[1]) = 3 /\ CheckFull(b)
           /\ WellFormed(b) => Encode(CodePoint(b)) = <<b[1], b[2], b[3]>>
<1>1. WellFormed(b) <=> /\ b[1] \in 224..239 /\ b[2] \in 128..191 /\ b[3] \in 128..191
                        /\ b[1] = 224 => b[2] >= 160
                        /\ b[1] = 237 => b[2] <= 159
  BY SMT DEF WellFormed
<1>2. CheckFirst(b[1]) = 3 <=> b[1] \in 224..239
  BY FirstRange, SMT
<1> DEFINE v == Value(b)
<1>3. CheckFull(b) <=> /\ b[2] \in 128..191 /\ b[3] \in 128..191
                       /\ v <= 1114111 /\ ~(55296 <= v /\ v <= 57343) /\ v >= 2048
  BY SMT DEF CheckFull, Continues
<1>4. CodePoint(b) = v /\ v = (b[1] % 16) * 4096 + (b[2] % 64) * 64 + (b[3] % 64)
  BY SMT DEF CodePoint, Value
<1>5. v \in Int
  <2> DEFINE p == b[1] % 16
             q == b[2] % 64
             r == b[3] % 64
  <2>1. p \in Int /\ q \in Int /\ r \in Int
    BY SMT
  <2>2. v = p * 4096 + q * 64 + r
    BY <1>4, SMT
  <2> HIDE DEF p, q, r, v
  <2> QED BY <2>1, <2>2, SMT
<1> HIDE DEF v
<1>6. ASSUME b[1] \in 224..239, b[2] \in 128..191, b[3] \in 128..191
      PROVE  /\ 0 <= v /\ v < 65536
             /\ v >= 2048 <=> (b[1] = 224 => b[2] >= 160)
             /\ ~(55296 <= v /\ v <= 57343) <=> (b[1] = 237 => b[2] <= 159)
             /\ v >= 2048 => Encode(v) = <<b[1], b[2], b[3]>>
  <2> DEFINE x == b[1] - 224
             y == b[2] - 128
             z == b[3] - 128
  <2>1. /\ x \in 0..15 /\ y \in 0..63 /\ z \in 0..63
        /\ b[1] = 224 + x /\ b[2] = 128 + y /\ b[3] = 128 + z
    BY <1>6, SMT
  <2>2. v = x * 4096 + y * 64 + z
    BY <1>4, <1>6, Digits, SMT
  <2> HIDE DEF x, y, z
  <2>3. /\ 0 <= v /\ v < 65536
        /\ v >= 2048 <=> (x = 0 => y >= 32)
        /\ ~(55296 <= v /\ v <= 57343) <=> (x = 13 => y <= 31)
        /\ v \div 4096 = x /\ (v \div 64) % 64 = y /\ v % 64 = z
    BY <1>5, <2>1, <2>2, ThreeDigits, SMT
  <2>4. /\ b[1] = 224 <=> x = 0
        /\ b[1] = 237 <=> x = 13
        /\ b[2] >= 160 <=> y >= 32
        /\ b[2] <= 159 <=> y <= 31
    BY <2>1, SMT
  <2>5. ASSUME v >= 2048 PROVE Encode(v) = <<224 + x, 128 + y, 128 + z>>
    <3>1. 2048 <= v /\ v < 65536
      BY <2>3, <2>5, SMT
    <3>2. Encode(v) = InThree(v)
      BY <1>5, <3>1, Encoded, SMT
    <3> QED BY <2>3, <3>2, SMT DEF InThree, Continued
  <2> QED BY <2>1, <2>3, <2>4, <2>5, SMT
<1>7. 0 <= v /\ v < 65536 => v <= 1114111
  BY <1>5, SMT
<1> QED BY <1>1, <1>2, <1>3, <1>4, <1>6, <1>7, SMT

LEMMA FourBytes ==
    ASSUME NEW b, Len(b) = 4, b[1] \in 0..255, b[2] \in 0..255, b[3] \in 0..255, b[4] \in 0..255
    PROVE  /\ WellFormed(b) <=> CheckFirst(b[1]) = 4 /\ CheckFull(b)
           /\ WellFormed(b) => Encode(CodePoint(b)) = <<b[1], b[2], b[3], b[4]>>
<1>1. WellFormed(b) <=> /\ b[1] \in 240..244 /\ b[2] \in 128..191 /\ b[3] \in 128..191 /\ b[4] \in 128..191
                        /\ b[1] = 240 => b[2] >= 144
                        /\ b[1] = 244 => b[2] <= 143
  BY SMT DEF WellFormed
<1>2. CheckFirst(b[1]) = 4 <=> b[1] \in 240..244
  BY FirstRange, SMT
<1> DEFINE v == Value(b)
<1>3. CheckFull(b) <=> /\ b[2] \in 128..191 /\ b[3] \in 128..191 /\ b[4] \in 128..191
                       /\ v <= 1114111 /\ ~(55296 <= v /\ v <= 57343) /\ v >= 65536
  BY SMT DEF CheckFull, Continues
<1>4. CodePoint(b) = v /\ v = (b[1] % 8) * 262144 + (b[2] % 64) * 4096 + (b[3] % 64) * 64 + (b[4] % 64)
  BY SMT DEF CodePoint, Value
<1>5. v \in Int
  <2> DEFINE p == b[1] % 8
             q == b[2] % 64
             r == b[3] % 64
             s == b[4] % 64
  <2>1. p \in Int /\ q \in Int /\ r \in Int /\ s \in Int
    BY SMT
  <2>2. v = p * 262144 + q * 4096 + r * 64 + s
    BY <1>4, SMT
  <2> HIDE DEF p, q, r, s, v
  <2> QED BY <2>1, <2>2, SMT
<1> HIDE DEF v
<1>6. ASSUME b[1] \in 240..244, b[2] \in 128..191, b[3] \in 128..191, b[4] \in 128..191
      PROVE  /\ 0 <= v
             /\ v >= 65536 <=> (b[1] = 240 => b[2] >= 144)
             /\ v <= 1114111 <=> (b[1] = 244 => b[2] <= 143)
             /\ v >= 65536 /\ v <= 1114111 => Encode(v) = <<b[1], b[2], b[3], b[4]>>
  <2> DEFINE x == b[1] - 240
             y == b[2] - 128
             z == b[3] - 128
             w == b[4] - 128
  <2>1. /\ x \in 0..4 /\ y \in 0..63 /\ z \in 0..63 /\ w \in 0..63
        /\ b[1] = 240 + x /\ b[2] = 128 + y /\ b[3] = 128 + z /\ b[4] = 128 + w
    BY <1>6, SMT
  <2>2. v = x * 262144 + y * 4096 + z * 64 + w
    BY <1>4, <1>6, Digits, SMT
  <2> HIDE DEF x, y, z, w
  <2>3. /\ 0 <= v
        /\ v >= 65536 <=> (x = 0 => y >= 16)
        /\ v <= 1114111 <=> (x = 4 => y <= 15)
        /\ v \div 262144 = x /\ (v \div 4096) % 64 = y /\ (v \div 64) % 64 = z /\ v % 64 = w
    BY <1>5, <2>1, <2>2, FourDigits, SMT
  <2>4. /\ b[1] = 240 <=> x = 0
        /\ b[1] = 244 <=> x = 4
        /\ b[2] >= 144 <=> y >= 16
        /\ b[2] <= 143 <=> y <= 15
    BY <2>1, SMT
  <2>5. ASSUME v >= 65536, v <= 1114111 PROVE Encode(v) = <<240 + x, 128 + y, 128 + z, 128 + w>>
    <3>1. 65536 <= v /\ v <= 1114111
      BY <2>3, <2>5, SMT
    <3>2. Encode(v) = InFour(v)
      BY <1>5, <3>1, Encoded, SMT
    <3> QED BY <2>3, <3>2, SMT DEF InFour, Continued
  <2> QED BY <2>1, <2>3, <2>4, <2>5, SMT
<1>7. 0 <= v => (v >= 65536 => ~(55296 <= v /\ v <= 57343))
  BY <1>5, SMT
<1> QED BY <1>1, <1>2, <1>3, <1>4, <1>6, <1>7, SMT

AreAllBytes(b) == \A j \in 1..Len(b) : b[j] \in Byte
IsShort(b) == Len(b) \in {1, 2, 3, 4}
IsChecked(b) == CheckFirst(b[1]) = Len(b) /\ (Len(b) = 1 \/ CheckFull(b))

\* What the table takes is what the two checks take, for any bytes.
LEMMA TableIsChecks ==
    ASSUME NEW b, IsShort(b), AreAllBytes(b)
    PROVE  WellFormed(b) <=> IsChecked(b)
<1>1. CASE Len(b) = 1
  <2>1. b[1] \in 0..255
    BY <1>1 DEF Byte, AreAllBytes
  <2> QED BY <1>1, <2>1, OneByte DEF IsChecked
<1>2. CASE Len(b) = 2
  <2>1. b[1] \in 0..255 /\ b[2] \in 0..255
    BY <1>2 DEF Byte, AreAllBytes
  <2> QED BY <1>2, <2>1, TwoBytes, SMT DEF IsChecked
<1>3. CASE Len(b) = 3
  <2>1. b[1] \in 0..255 /\ b[2] \in 0..255 /\ b[3] \in 0..255
    BY <1>3 DEF Byte, AreAllBytes
  <2> QED BY <1>3, <2>1, ThreeBytes, SMT DEF IsChecked
<1>4. CASE Len(b) = 4
  <2>1. b[1] \in 0..255 /\ b[2] \in 0..255 /\ b[3] \in 0..255 /\ b[4] \in 0..255
    BY <1>4 DEF Byte, AreAllBytes
  <2> QED BY <1>4, <2>1, FourBytes, SMT DEF IsChecked
<1> QED BY <1>1, <1>2, <1>3, <1>4 DEF IsShort

LEMMA TableIsShort ==
    ASSUME NEW b, WellFormed(b)
    PROVE  Len(b) \in {1, 2, 3, 4}
BY DEF WellFormed

LEMMA EncodesBytes ==
    ASSUME NEW b \in Seq(Byte), WellFormed(b)
    PROVE  Encode(CodePoint(b)) = b
<1>1. Len(b) \in {1, 2, 3, 4} /\ \A j \in 1..Len(b) : b[j] \in Byte
  BY TableIsShort
<1>2. CASE Len(b) = 1
  <2>1. b = <<b[1]>>
    BY <1>1, <1>2
  <2>2. b[1] \in 0..255
    BY <1>1, <1>2 DEF Byte
  <2> QED BY <1>2, <2>1, <2>2, OneByte
<1>3. CASE Len(b) = 2
  <2>1. b = <<b[1], b[2]>>
    BY <1>1, <1>3
  <2>2. b[1] \in 0..255 /\ b[2] \in 0..255
    BY <1>1, <1>3 DEF Byte
  <2> QED BY <1>3, <2>1, <2>2, TwoBytes, SMT
<1>4. CASE Len(b) = 3
  <2>1. b = <<b[1], b[2], b[3]>>
    BY <1>1, <1>4
  <2>2. b[1] \in 0..255 /\ b[2] \in 0..255 /\ b[3] \in 0..255
    BY <1>1, <1>4 DEF Byte
  <2> QED BY <1>4, <2>1, <2>2, ThreeBytes, SMTT(30)
<1>5. CASE Len(b) = 4
  <2>1. b = <<b[1], b[2], b[3], b[4]>>
    BY <1>1, <1>5
  <2>2. b[1] \in 0..255 /\ b[2] \in 0..255 /\ b[3] \in 0..255 /\ b[4] \in 0..255
    BY <1>1, <1>5 DEF Byte
  <2> QED BY <1>5, <2>1, <2>2, FourBytes, SMTT(30)
<1> QED BY <1>1, <1>2, <1>3, <1>4, <1>5

-----------------------------------------------------------------------------
(* A string by its characters.                                             *)

\* From i up to, but not including, k there is one character.
Character(s, i, k) == WellFormed(SubSeq(s, i, k - 1))

\* Where a turn of the loop in utf8_check_string goes from i.
Turn(s, i) == IF i > Len(s) THEN i ELSE i + Len(CharAt(s, i))

LEMMA PartOf ==
    ASSUME NEW s \in Seq(Byte), NEW i \in Int, NEW k \in Int, 1 <= i, i < k, k <= Len(s) + 1
    PROVE  LET b == SubSeq(s, i, k - 1)
           IN  b \in Seq(Byte) /\ Len(b) = k - i /\ b[1] = s[i] /\ AreAllBytes(b)
<1> DEFINE b == SubSeq(s, i, k - 1)
           m == k - 1
<1>1. m \in Int /\ \A j \in i..m : s[j] \in Byte
  BY SMT
<1>2. /\ SubSeq(s, i, m) \in Seq(Byte)
      /\ Len(SubSeq(s, i, m)) = IF i <= m THEN m - i + 1 ELSE 0
      /\ \A j \in 1..(m - i + 1) : SubSeq(s, i, m)[j] = s[i + j - 1]
  <2> HIDE DEF m
  <2> QED BY <1>1, SubSeqProperties
<1>3. b \in Seq(Byte) /\ Len(b) = k - i /\ b[1] = s[i]
  <2>1. b = SubSeq(s, i, m)
    OBVIOUS
  <2> HIDE DEF b
  <2> QED BY <1>2, <2>1, SMT
<1>4. AreAllBytes(b)
  <2> HIDE DEF b
  <2> QED BY <1>3 DEF AreAllBytes
<1> QED BY <1>3, <1>4

LEMMA CharAtIsCharacter ==
    ASSUME NEW s \in Seq(Byte), NEW i \in 1..Len(s)
    PROVE  /\ Len(CharAt(s, i)) \in Nat
           /\ Turn(s, i) \in i..(Len(s) + 1)
           /\ Turn(s, i) # i => Character(s, i, Turn(s, i))
           /\ CharAt(s, i) # <<>> => CharAt(s, i) = SubSeq(s, i, Turn(s, i) - 1) /\ Turn(s, i) # i
           /\ \A k \in (i + 1)..(Len(s) + 1) : Character(s, i, k) => k = Turn(s, i)
<1> DEFINE n == CheckFirst(s[i])
<1>1. n \in {0, 1, 2, 3, 4} /\ Len(s) \in Nat /\ i \in Int /\ 1 <= i /\ i <= Len(s) /\ s[i] \in Byte
  <2>1. s[i] \in Byte /\ Len(s) \in Nat
    OBVIOUS
  <2>2. n \in 0..4
    <3>1. s[i] \in 0..255
      BY <2>1, Zenon DEF Byte
    <3>2. CheckFirst(s[i]) \in 0..4
      BY <3>1, FirstLength, Zenon
    <3> QED BY <3>2
  <2> QED BY <2>1, <2>2
<1>2. Turn(s, i) = i + Len(CharAt(s, i))
  BY <1>1, SMT DEF Turn
<1>3. CharAt(s, i) = IF n = 0 \/ i + n - 1 > Len(s) THEN <<>>
                     ELSE IF n = 1 \/ CheckFull(SubSeq(s, i, i + n - 1)) THEN SubSeq(s, i, i + n - 1)
                     ELSE <<>>
  BY DEF CharAt
<1> HIDE DEF n
<1>4. CASE CharAt(s, i) = <<>>
  <2>1. Len(CharAt(s, i)) = 0
    BY <1>4
  <2>2. Turn(s, i) = i
    BY <1>1, <1>2, <2>1
  <2>3. ASSUME NEW k \in (i + 1)..(Len(s) + 1), Character(s, i, k) PROVE FALSE
    <3> DEFINE b == SubSeq(s, i, k - 1)
    <3>1. k \in Int /\ i < k /\ k <= Len(s) + 1
      BY <1>1, <2>3
    <3>2. Len(b) = k - i /\ b[1] = s[i] /\ AreAllBytes(b)
      BY <1>1, <3>1, PartOf
    <3>3. WellFormed(b)
      BY <2>3 DEF Character
    <3> HIDE DEF b
    <3>4. IsShort(b)
      BY <3>3, TableIsShort DEF IsShort
    <3>5. n = Len(b) /\ (Len(b) = 1 \/ CheckFull(b))
      <4>1. IsChecked(b)
        BY <3>2, <3>3, <3>4, TableIsChecks
      <4> QED BY <3>2, <4>1, Zenon DEF n, IsChecked
    <3>6. i + n - 1 = k - 1 /\ n # 0 /\ ~(i + n - 1 > Len(s))
      <4>1. n = k - i /\ n # 0
        BY <3>2, <3>4, <3>5 DEF IsShort
      <4> QED BY <1>1, <3>1, <4>1
    <3>7. CharAt(s, i) = b
      BY <1>3, <3>5, <3>6 DEF b
    <3> QED BY <2>1, <3>4, <3>7 DEF IsShort
  <2> QED BY <1>1, <1>4, <2>1, <2>2, <2>3
<1>5. CASE CharAt(s, i) # <<>>
  <2> DEFINE t == i + n
             b == SubSeq(s, i, t - 1)
  <2>1. t \in Int /\ i < t /\ t <= Len(s) + 1 /\ n # 0 /\ i + n - 1 = t - 1
    BY <1>1, <1>3, <1>5
  <2>2. CharAt(s, i) = b /\ (n = 1 \/ CheckFull(b))
    BY <1>3, <1>5, <2>1
  <2>3. Len(b) = t - i /\ b[1] = s[i] /\ AreAllBytes(b)
    <3> HIDE DEF t
    <3> QED BY <1>1, <2>1, PartOf
  <2>4. Len(b) = n
    <3> HIDE DEF b
    <3> QED BY <1>1, <2>3
  <2>5. WellFormed(b)
    <3> HIDE DEF b, t
    <3>1. IsShort(b)
      BY <1>1, <2>1, <2>4 DEF IsShort
    <3>2. CheckFirst(b[1]) = Len(b)
      BY <2>3, <2>4, Zenon DEF n
    <3>3. Len(b) = 1 \/ CheckFull(b)
      BY <2>2, <2>4
    <3>4. IsChecked(b)
      BY <3>2, <3>3 DEF IsChecked
    <3> QED BY <2>3, <3>1, <3>4, TableIsChecks
  <2>6. Turn(s, i) = t
    <3> HIDE DEF b
    <3> QED BY <1>2, <2>2, <2>4
  <2>7. Character(s, i, t)
    BY <2>5 DEF Character
  <2>8. ASSUME NEW k \in (i + 1)..(Len(s) + 1), Character(s, i, k) PROVE k = t
    <3> DEFINE c == SubSeq(s, i, k - 1)
    <3>1. k \in Int /\ i < k /\ k <= Len(s) + 1
      BY <1>1, <2>8
    <3>2. Len(c) = k - i /\ c[1] = s[i] /\ AreAllBytes(c)
      BY <1>1, <3>1, PartOf
    <3>3. WellFormed(c)
      BY <2>8 DEF Character
    <3> HIDE DEF c, b
    <3>4. IsShort(c)
      BY <3>3, TableIsShort DEF IsShort
    <3>5. n = Len(c)
      <4>1. IsChecked(c)
        BY <3>2, <3>3, <3>4, TableIsChecks
      <4> QED BY <3>2, <4>1, Zenon DEF n, IsChecked
    <3> QED BY <1>1, <3>1, <3>2, <3>5
  <2>9. Len(CharAt(s, i)) \in Nat /\ t \in i..(Len(s) + 1) /\ t # i
    <3> HIDE DEF b
    <3> QED BY <1>1, <2>1, <2>2, <2>4
  <2> HIDE DEF t
  <2> QED BY <2>2, <2>6, <2>7, <2>8, <2>9
<1> QED BY <1>4, <1>5

-----------------------------------------------------------------------------
(* Functions by recursion on a number.                                     *)

\* s[i] makes the i-th value of the one before it.
Recurs(f, n, V, z, s) == f \in [0..n -> V] /\ f[0] = z /\ \A i \in 1..n : f[i] = s[i][f[i - 1]]

Follows(g, n, V, z, s) == g[0] = z /\ \A i \in 1..n : g[i - 1] \in V => g[i] = s[i][g[i - 1]]

LEMMA ByRecursion ==
  ASSUME NEW n \in Nat, NEW V, NEW z \in V, NEW s \in [1..n -> [V -> V]]
  PROVE  \E f : Recurs(f, n, V, z, s)
<1> DEFINE S == {k \in 0..n : \E f : Recurs(f, k, V, z, s)}
<1>1. 0 \in S
  <2> DEFINE f == [i \in 0..0 |-> z]
  <2>1. Recurs(f, 0, V, z, s)
    BY DEF Recurs
  <2> HIDE DEF f
  <2> QED BY <2>1
<1>2. ASSUME NEW k \in 0..(n - 1), k \in S PROVE k + 1 \in S
  <2>1. PICK f : Recurs(f, k, V, z, s)
    BY <1>2
  <2> DEFINE g == [i \in 0..(k + 1) |-> IF i <= k THEN f[i] ELSE s[k + 1][f[k]]]
  <2>2. k + 1 \in 1..n /\ k + 1 \in 0..n /\ f[k] \in V /\ s[k + 1] \in [V -> V]
    <3>1. k + 1 \in 1..n /\ k \in 0..k
      OBVIOUS
    <3> QED BY <2>1, <3>1 DEF Recurs
  <2>3. s[k + 1][f[k]] \in V
    BY <2>2
  <2>4. g \in [0..(k + 1) -> V]
    BY <2>1, <2>3 DEF Recurs
  <2>5. g[0] = z
    BY <2>1 DEF Recurs
  <2>6. ASSUME NEW i \in 1..(k + 1) PROVE g[i] = s[i][g[i - 1]]
    <3>1. CASE i <= k
      <4>1. g[i] = f[i] /\ g[i - 1] = f[i - 1] /\ i \in 1..k
        BY <3>1
      <4> HIDE DEF g
      <4> QED BY <2>1, <4>1 DEF Recurs
    <3>2. CASE i = k + 1
      <4>1. g[i] = s[k + 1][f[k]] /\ g[i - 1] = f[k]
        BY <3>2
      <4> HIDE DEF g
      <4> QED BY <3>2, <4>1
    <3> QED BY <3>1, <3>2
  <2> HIDE DEF g
  <2>7. Recurs(g, k + 1, V, z, s)
    BY <2>4, <2>5, <2>6 DEF Recurs
  <2> QED BY <2>2, <2>7
<1> HIDE DEF S
<1>3. n \in S
  <2>1. 0..n \subseteq S
    BY <1>1, <1>2, Induct
  <2> QED BY <2>1
<1> QED BY <1>3 DEF S

LEMMA SameRecursion ==
  ASSUME NEW n \in Nat, NEW V, NEW z \in V, NEW s \in [1..n -> [V -> V]], NEW f, Recurs(f, n, V, z, s),
         NEW g, Follows(g, n, V, z, s)
  PROVE  \A i \in 0..n : g[i] = f[i]
<1> DEFINE S == {k \in 0..n : g[k] = f[k]}
<1>1. 0 \in S
  BY DEF Recurs, Follows
<1>2. ASSUME NEW k \in 0..(n - 1), k \in S PROVE k + 1 \in S
  <2>1. k + 1 \in 1..n /\ (k + 1) - 1 = k /\ g[k] = f[k] /\ k \in 0..n /\ k + 1 \in 0..n
    BY <1>2
  <2>2. f[k] \in V /\ f[k + 1] = s[k + 1][f[k]]
    BY <2>1 DEF Recurs
  <2>3. g[k + 1] = s[k + 1][g[k]]
    BY <2>1, <2>2 DEF Follows
  <2> QED BY <2>1, <2>2, <2>3
<1> HIDE DEF S
<1>3. 0..n \subseteq S
  BY <1>1, <1>2, Induct
<1> QED BY <1>3 DEF S

-----------------------------------------------------------------------------
(* The loop over the characters of a string.                               *)

\* After as many turns as there are bytes, the index has gone as far as it goes.
LEMMA IndexTurns ==
    ASSUME NEW s \in Seq(Byte)
    PROVE  /\ Index(s) \in [0..Len(s) -> 1..(Len(s) + 1)]
           /\ Index(s)[0] = 1
           /\ \A k \in 1..Len(s) : Index(s)[k] = Turn(s, Index(s)[k - 1])
<1> DEFINE n == Len(s)
           V == 1..(n + 1)
           z == 1
           body(f, k) == IF k = 0 THEN 1
                         ELSE LET i == f[k - 1] IN IF i > Len(s) THEN i ELSE i + Len(CharAt(s, i))
           index == CHOOSE f : f = [k \in 0..Len(s) |-> body(f, k)]
           t == [k \in 1..n |-> [i \in V |-> Turn(s, i)]]
<1>1. Index(s) = index
  BY DEF Index
<1>2. n \in Nat /\ z \in V
  BY LenProperties
<1>3. \A i \in V : Turn(s, i) \in V
  <2> TAKE i \in V
  <2>1. CASE i = n + 1
    BY <1>2, <2>1 DEF Turn
  <2>2. CASE i # n + 1
    <3>1. i \in 1..Len(s)
      BY <1>2, <2>2
    <3>2. Turn(s, i) \in i..(Len(s) + 1)
      BY <3>1, CharAtIsCharacter
    <3> QED BY <1>2, <3>1, <3>2
  <2> QED BY <2>1, <2>2
<1>4. t \in [1..n -> [V -> V]]
  <2> DEFINE row == [i \in V |-> Turn(s, i)]
  <2>1. row \in [V -> V]
    <3> HIDE DEF V
    <3> QED BY <1>3
  <2> HIDE DEF row
  <2>2. [k \in 1..n |-> row] \in [1..n -> [V -> V]]
    BY <2>1
  <2> QED BY <2>2 DEF row
<1>5. \A f, k : k # 0 => body(f, k) = Turn(s, f[k - 1])
  BY DEF Turn
<1>6. \A f : body(f, 0) = 1
  OBVIOUS
<1> HIDE DEF body
<1>7. \A k \in 1..n : \A i \in V : t[k][i] = Turn(s, i)
  <2> HIDE DEF V, n
  <2> QED OBVIOUS
<1> HIDE DEF t, V, n, z
<1>8. PICK f : Recurs(f, n, V, z, t)
  BY <1>2, <1>4, ByRecursion
<1>9. /\ f \in [0..n -> V] /\ f[0] = 1
      /\ \A k \in 1..n : f[k - 1] \in V /\ f[k] = Turn(s, f[k - 1])
  <2>1. f \in [0..n -> V] /\ f[0] = z /\ \A k \in 1..n : f[k] = t[k][f[k - 1]]
    BY <1>8 DEF Recurs
  <2>2. \A k \in 1..n : k - 1 \in 0..n
    BY <1>2
  <2> QED BY <1>7, <2>1, <2>2 DEF z
<1>10. f = [k \in 0..n |-> body(f, k)]
  <2>1. \A k \in 0..n : f[k] = body(f, k)
    <3> TAKE k \in 0..n
    <3>1. CASE k = 0
      BY <1>6, <1>9, <3>1
    <3>2. CASE k # 0
      <4>1. k \in 1..n
        BY <1>2, <3>2
      <4> QED BY <1>5, <1>9, <3>2, <4>1
    <3> QED BY <3>1, <3>2
  <2>2. f = [k \in 0..n |-> f[k]]
    BY <1>9
  <2> QED BY <2>1, <2>2
<1>11. index = [k \in 0..n |-> body(index, k)]
  BY <1>10 DEF n
<1> HIDE DEF index
<1>12. index[0] = 1 /\ \A k \in 1..n : index[k] = Turn(s, index[k - 1])
  <2>1. 0 \in 0..n /\ \A k \in 1..n : k \in 0..n /\ k # 0
    BY <1>2
  <2>2. \A k \in 0..n : index[k] = body(index, k)
    BY <1>11
  <2> QED BY <1>5, <1>6, <2>1, <2>2
<1>13. Follows(index, n, V, z, t)
  BY <1>7, <1>12 DEF Follows, z
<1>14. \A k \in 0..n : index[k] = f[k]
  BY <1>2, <1>4, <1>8, <1>13, SameRecursion
<1>15. index \in [0..n -> V]
  <2>1. index = [k \in 0..n |-> index[k]]
    BY <1>11
  <2>2. \A k \in 0..n : index[k] \in V
    BY <1>9, <1>14
  <2> QED BY <2>1, <2>2
<1> QED BY <1>1, <1>12, <1>15 DEF n, V

\* The index does not go back, and goes no further from where it stops.
LEMMA IndexGrows ==
    ASSUME NEW s \in Seq(Byte), NEW m \in 0..Len(s), NEW k \in m..Len(s)
    PROVE  /\ Index(s)[m] <= Index(s)[k]
           /\ m < Len(s) /\ Index(s)[m + 1] = Index(s)[m] => Index(s)[k] = Index(s)[m]
<1> DEFINE f == Index(s)
           n == Len(s)
           d == k - m
           S == {j \in 0..d : f[m] <= f[m + j] /\ (m < n /\ f[m + 1] = f[m] => f[m + j] = f[m])}
<1>1. /\ f \in [0..n -> 1..(n + 1)]
      /\ \A j \in 1..n : f[j] = Turn(s, f[j - 1])
  BY IndexTurns
<1>2. n \in Nat /\ m \in Int /\ k \in Int /\ 0 <= m /\ m <= k /\ k <= n
  BY LenProperties
<1>3. \A i \in 1..(n + 1) : Turn(s, i) >= i
  <2> TAKE i \in 1..(n + 1)
  <2>1. CASE i = n + 1
    BY <1>2, <2>1 DEF Turn
  <2>2. CASE i # n + 1
    <3>1. i \in 1..Len(s)
      BY <1>2, <2>2
    <3>2. Turn(s, i) \in i..(Len(s) + 1)
      BY <3>1, CharAtIsCharacter
    <3> QED BY <1>2, <3>1, <3>2
  <2> QED BY <2>1, <2>2
<1> HIDE DEF f, n
<1>4. 0 \in S
  BY <1>1, <1>2
<1>5. ASSUME NEW j \in 0..(d - 1), j \in S PROVE j + 1 \in S
  <2>1. j + 1 \in 0..d /\ m + j \in 0..n /\ m + j + 1 \in 1..n /\ m + 1 \in 1..n /\ m \in 0..n
    BY <1>2
  <2>2. f[m + j + 1] = Turn(s, f[m + j]) /\ f[m + 1] = Turn(s, f[m])
    <3>1. (m + j + 1) - 1 = m + j /\ (m + 1) - 1 = m
      BY <1>2
    <3> QED BY <1>1, <2>1, <3>1
  <2>3. f[m + j] \in 1..(n + 1) /\ f[m] \in 1..(n + 1) /\ f[m + j + 1] \in 1..(n + 1)
    <3>1. m + j + 1 \in 0..n
      BY <1>2, <2>1
    <3> QED BY <1>1, <2>1, <3>1
  <2>4. f[m] <= f[m + j] /\ (m < n /\ f[m + 1] = f[m] => f[m + j] = f[m])
    BY <1>5
  <2>5. f[m] <= f[m + j + 1]
    <3>1. f[m + j] <= f[m + j + 1]
      BY <1>3, <2>2, <2>3
    <3> QED BY <1>2, <2>3, <2>4, <3>1
  <2>6. m + (j + 1) = m + j + 1
    BY <1>2
  <2> QED BY <2>1, <2>2, <2>4, <2>5, <2>6
<1>6. d \in Nat /\ m + d = k
  BY <1>2
<1> HIDE DEF S, d
<1>7. d \in S
  <2>1. 0..d \subseteq S
    <3>1. \A j \in 0..(d - 1) : j \in S => j + 1 \in S
      BY <1>5
    <3> QED BY <1>4, <1>6, <3>1, Induct
  <2> QED BY <1>6, <2>1
<1> QED BY <1>6, <1>7 DEF S, f, n

\* The character that begins at a cut ends before the next.
Ends(s, cuts, i) == {j \in 1..(Len(s) + 1) : j > i /\ (j = Len(s) + 1 \/ j \in cuts)}
IsNext(s, cuts, i, j) == j \in Ends(s, cuts, i) /\ \A k \in Ends(s, cuts, i) : j <= k

\* What IsUtf8 says of a cut.
CutAt(s, cuts, i) ==
    LET ends == {j \in 1..(Len(s) + 1) : j > i /\ (j = Len(s) + 1 \/ j \in cuts)}
        j == CHOOSE j \in ends : \A k \in ends : j <= k
    IN WellFormed(SubSeq(s, i, j - 1))

LEMMA ByCuts ==
    ASSUME NEW s \in Seq(Byte)
    PROVE  IsUtf8(s) <=> \E cuts \in SUBSET (1..Len(s)) :
                            /\ 1 \in cuts \/ s = <<>>
                            /\ \A i \in cuts : \E j \in Int : IsNext(s, cuts, i, j) /\ Character(s, i, j)
<1>1. Len(s) \in Nat
  BY LenProperties
<1>2. ASSUME NEW cuts \in SUBSET (1..Len(s)), NEW i \in cuts
      PROVE  CutAt(s, cuts, i) <=> \E l \in Int : IsNext(s, cuts, i, l) /\ Character(s, i, l)
  <2> DEFINE E == Ends(s, cuts, i)
             c == CHOOSE j \in E : \A k \in E : j <= k
  <2>1. E \subseteq Nat /\ Len(s) + 1 \in E
    <3>1. i \in 1..Len(s)
      BY <1>2
    <3> QED BY <1>1, <3>1 DEF Ends
  <2> HIDE DEF E
  <2>2. \E j \in E : \A k \in E : j <= k
    BY <2>1, LeastNat
  <2>3. c \in E /\ \A k \in E : c <= k
    BY <2>2
  <2> HIDE DEF c
  <2>4. ASSUME NEW j, j \in E, \A k \in E : j <= k PROVE j = c
    <3>1. j <= c /\ c <= j /\ j \in Nat /\ c \in Nat
      BY <2>1, <2>3, <2>4
    <3> QED BY <3>1
  <2>5. \A j : IsNext(s, cuts, i, j) <=> j = c
    <3>1. \A j : IsNext(s, cuts, i, j) <=> j \in E /\ \A k \in E : j <= k
      BY DEF IsNext, E
    <3> QED BY <2>3, <2>4, <3>1
  <2>6. c \in Int
    BY <2>1, <2>3
  <2>7. WellFormed(SubSeq(s, i, c - 1)) <=> \E l \in Int : IsNext(s, cuts, i, l) /\ Character(s, i, l)
    BY <2>5, <2>6 DEF Character
  <2>8. CutAt(s, cuts, i) <=> WellFormed(SubSeq(s, i, c - 1))
    BY Zenon DEF CutAt, c, E, Ends
  <2> QED BY <2>7, <2>8
<1>3. IsUtf8(s) <=> \E cuts \in SUBSET (1..Len(s)) :
                      (1 \in cuts \/ s = <<>>) /\ \A i \in cuts : CutAt(s, cuts, i)
  BY Zenon DEF IsUtf8, CutAt
<1> QED BY <1>2, <1>3, Zenon

LEMMA AcceptsOnlyUtf8 ==
    ASSUME NEW s \in Seq(Byte), CheckString(s)
    PROVE  IsUtf8(s)
<1> DEFINE f == Index(s)
           n == Len(s)
           cuts == {f[k] : k \in 0..n} \ {n + 1}
<1>1. /\ f \in [0..n -> 1..(n + 1)] /\ f[0] = 1
      /\ \A j \in 1..n : f[j] = Turn(s, f[j - 1])
  BY IndexTurns
<1>2. n \in Nat
  BY LenProperties
<1>3. f[n] = n + 1
  <2>1. f[n] > n
    BY DEF CheckString
  <2>2. f[n] \in 1..(n + 1)
    <3> HIDE DEF f, n
    <3> QED BY <1>1, <1>2
  <2> HIDE DEF f, n
  <2> QED BY <1>2, <2>1, <2>2
<1>4. cuts \in SUBSET (1..n)
  <2> HIDE DEF f, n
  <2> QED BY <1>1, <1>2
<1>5. 1 \in cuts \/ s = <<>>
  <2>1. n = 0 => s = <<>>
    BY EmptySeq
  <2>2. n # 0 => 1 \in cuts
    <3> HIDE DEF f, n
    <3> QED BY <1>1, <1>2
  <2> QED BY <2>1, <2>2
<1>6. ASSUME NEW i \in cuts PROVE \E j \in Int : IsNext(s, cuts, i, j) /\ Character(s, i, j)
  <2>1. PICK m \in 0..n : f[m] = i
    BY <1>6
  <2>2. i \in 1..n
    BY <1>4, <1>6
  <2>3. m \in 0..(n - 1)
    <3>1. m # n
      <4> HIDE DEF f, n
      <4> QED BY <1>2, <1>3, <2>1, <2>2
    <3> HIDE DEF f, n
    <3> QED BY <1>2, <3>1
  <2> DEFINE j == f[m + 1]
  <2>4. j = Turn(s, i)
    <3> HIDE DEF f, n
    <3>1. m + 1 \in 1..n /\ (m + 1) - 1 = m
      BY <1>2, <2>3
    <3> QED BY <1>1, <2>1, <3>1
  <2>5. j # i
    <3>1. n \in m..n
      BY <1>2
    <3>2. m < n /\ f[m + 1] = f[m] => f[n] = f[m]
      BY <3>1, IndexGrows
    <3> HIDE DEF f, n
    <3> QED BY <1>2, <1>3, <2>1, <2>2, <2>3, <3>2
  <2>6. j \in i..(n + 1) /\ Character(s, i, j)
    <3>1. Turn(s, i) \in i..(Len(s) + 1) /\ (Turn(s, i) # i => Character(s, i, Turn(s, i)))
      BY <2>2, CharAtIsCharacter
    <3> HIDE DEF f
    <3> QED BY <2>4, <2>5, <3>1
  <2>7. j \in Int /\ i < j /\ 1 <= j /\ j <= n + 1
    <3> HIDE DEF f, n, j
    <3> QED BY <1>2, <2>2, <2>5, <2>6
  <2>8. j \in Ends(s, cuts, i)
    <3>1. j = n + 1 \/ j \in cuts
      <4>1. m + 1 \in 0..n
        BY <1>2, <2>3
      <4> QED BY <4>1
    <3> HIDE DEF f, j, cuts
    <3> QED BY <1>2, <2>7, <3>1 DEF Ends
  <2>9. ASSUME NEW k \in Ends(s, cuts, i) PROVE j <= k
    <3>1. k \in 1..(n + 1) /\ k > i /\ (k = n + 1 \/ k \in cuts)
      BY <2>9 DEF Ends
    <3>2. CASE k = n + 1
      <4> HIDE DEF f, n, j
      <4> QED BY <1>2, <2>7, <3>2
    <3>3. CASE k \in cuts
      <4>1. PICK l \in 0..n : f[l] = k
        BY <3>3
      <4>2. CASE l <= m
        <5>1. l \in 0..Len(s) /\ m \in l..Len(s)
          BY <1>2, <4>2
        <5>2. f[l] <= f[m]
          BY <5>1, IndexGrows
        <5> HIDE DEF f, n
        <5> QED BY <1>2, <2>1, <2>2, <3>1, <4>1, <5>2
      <4>3. CASE l > m
        <5>1. m + 1 \in 0..Len(s) /\ l \in (m + 1)..Len(s)
          BY <1>2, <2>3, <4>3
        <5> DEFINE o == m + 1
        <5>2. f[o] <= f[l]
          <6> HIDE DEF o
          <6>1. o \in 0..Len(s) /\ l \in o..Len(s)
            BY <5>1 DEF o
          <6> QED BY <6>1, IndexGrows
        <5> QED BY <4>1, <5>2
      <4> QED BY <1>2, <4>2, <4>3
    <3> QED BY <3>1, <3>2, <3>3
  <2> HIDE DEF j, cuts
  <2>10. IsNext(s, cuts, i, j)
    BY <2>8, <2>9 DEF IsNext
  <2> QED BY <2>6, <2>7, <2>10
<1> HIDE DEF cuts, f
<1> QED BY <1>4, <1>5, <1>6, ByCuts

LEMMA AcceptsUtf8 ==
    ASSUME NEW s \in Seq(Byte), IsUtf8(s)
    PROVE  CheckString(s)
<1> DEFINE f == Index(s)
           n == Len(s)
<1>1. /\ f \in [0..n -> 1..(n + 1)] /\ f[0] = 1
      /\ \A j \in 1..n : f[j] = Turn(s, f[j - 1])
  BY IndexTurns
<1>2. n \in Nat
  BY LenProperties
<1>3. PICK cuts \in SUBSET (1..n) :
         /\ 1 \in cuts \/ s = <<>>
         /\ \A i \in cuts : \E j \in Int : IsNext(s, cuts, i, j) /\ Character(s, i, j)
  BY ByCuts
<1> DEFINE S == {k \in 0..n : f[k] = n + 1 \/ (f[k] \in cuts /\ f[k] >= k + 1)}
<1>4. 0 \in S
  <2>1. s = <<>> => n = 0
    OBVIOUS
  <2> HIDE DEF f, n
  <2> QED BY <1>1, <1>2, <1>3, <2>1
<1>5. ASSUME NEW k \in 0..(n - 1), k \in S PROVE k + 1 \in S
  <2>1. f[k + 1] = Turn(s, f[k]) /\ k + 1 \in 0..n
    <3> HIDE DEF f, n
    <3>1. k + 1 \in 1..n /\ (k + 1) - 1 = k
      BY <1>2
    <3> QED BY <1>1, <3>1
  <2>2. CASE f[k] = n + 1
    <3>1. Turn(s, n + 1) = n + 1
      BY <1>2 DEF Turn
    <3> HIDE DEF f, n
    <3> QED BY <2>1, <2>2, <3>1
  <2>3. CASE f[k] \in cuts /\ f[k] >= k + 1
    <3> DEFINE i == f[k]
    <3>1. i \in 1..n /\ i >= k + 1
      BY <2>3
    <3>2. PICK j \in Int : IsNext(s, cuts, i, j) /\ Character(s, i, j)
      BY <1>3, <2>3
    <3>3. j \in 1..(n + 1) /\ j > i /\ (j = n + 1 \/ j \in cuts)
      BY <3>2 DEF IsNext, Ends
    <3> HIDE DEF i, f
    <3>4. j = Turn(s, i)
      <4>1. j \in (i + 1)..(Len(s) + 1)
        BY <1>2, <3>1, <3>3
      <4>2. i \in 1..Len(s)
        BY <3>1
      <4> QED BY <3>2, <4>1, <4>2, CharAtIsCharacter
    <3>5. f[k + 1] = j
      BY <2>1, <3>4 DEF i
    <3>6. j >= (k + 1) + 1
      <4> HIDE DEF n
      <4> QED BY <1>2, <3>1, <3>3
    <3> QED BY <2>1, <3>3, <3>5, <3>6
  <2> QED BY <1>5, <2>2, <2>3
<1>6. n \in S
  <2> HIDE DEF S, n
  <2>1. 0..n \subseteq S
    <3>1. \A k \in 0..(n - 1) : k \in S => k + 1 \in S
      BY <1>5
    <3> QED BY <1>2, <1>4, <3>1, Induct
  <2> QED BY <1>2, <2>1
<1>7. f[n] > n
  <2>1. f[n] = n + 1 \/ f[n] >= n + 1
    BY <1>6
  <2>2. f[n] \in 1..(n + 1)
    <3> HIDE DEF f, n
    <3> QED BY <1>1, <1>2
  <2> HIDE DEF f, n
  <2> QED BY <1>2, <2>1, <2>2
<1> QED BY <1>7 DEF CheckString

\* A string is taken for UTF-8 if it is, and what is read is written as it was.
LEMMA Utf8Holds ==
    ASSUME AreBytes
    PROVE  Utf8IsItsTable
<1> SUFFICES ASSUME Kind("bytes")
             PROVE  /\ CheckString(Parts) <=> IsUtf8(Parts)
                    /\ Parts # <<>> /\ CharAt(Parts, 1) = Parts => Encode(CodePoint(Parts)) = Parts
  BY DEF Utf8IsItsTable
<1> DEFINE s == Parts
<1>1. s \in Seq(Byte)
  BY DEF AreBytes
<1> HIDE DEF s
<1>2. CheckString(s) <=> IsUtf8(s)
  BY <1>1, AcceptsOnlyUtf8, AcceptsUtf8
<1>3. ASSUME s # <<>>, CharAt(s, 1) = s PROVE Encode(CodePoint(s)) = s
  <2>1. 1 \in 1..Len(s)
    <3>1. Len(s) # 0 /\ Len(s) \in Nat
      BY <1>1, <1>3, EmptySeq, LenProperties
    <3> QED BY <3>1
  <2>2. s = SubSeq(s, 1, Turn(s, 1) - 1) /\ Character(s, 1, Turn(s, 1))
    BY <1>1, <1>3, <2>1, CharAtIsCharacter
  <2>3. WellFormed(s)
    BY <2>2 DEF Character
  <2> QED BY <1>1, <2>3, EncodesBytes
<1> QED BY <1>2, <1>3 DEF s

-----------------------------------------------------------------------------
(* What is checked of the bytes.                                           *)

LEMMA BufferFits ==
    ASSUME AreBytes
    PROVE  AppendsStayInside
<1> SUFFICES ASSUME Kind("sizes"), Len(Parts) = 3
             PROVE  Buffer!Fits([size |-> Parts[1], length |-> Parts[2]], Parts[3])
  BY DEF AppendsStayInside
<1> DEFINE m == Parts[1]
           l == Parts[2]
           n == Parts[3]
           b == [size |-> m, length |-> l]
<1>1. m \in 0..SizeMax /\ l \in 0..SizeMax /\ n \in 0..SizeMax
  <2>1. Parts \in Seq(0..SizeMax) /\ 1 \in 1..Len(Parts) /\ 2 \in 1..Len(Parts) /\ 3 \in 1..Len(Parts)
    BY DEF AreBytes
  <2> QED BY <2>1, ElementOfSeq
<1> HIDE DEF m, l, n
<1>2. CASE ~Buffer!IsBuffer(b)
  <2> HIDE DEF b
  <2>1. Buffer!Fits(b, n)
    BY <1>2 DEF Buffer!Fits
  <2> QED BY <2>1 DEF b, m, l, n
<1>3. CASE Buffer!IsBuffer(b)
  <2>1. b \in [size : 1..SizeMax, length : Nat]
    BY <1>1, <1>3 DEF Buffer!IsBuffer
  <2> HIDE DEF b
  <2>2. Buffer!Fits(b, n)
    BY <1>1, <1>3, <2>1, SizeAssumption, BufferHolds
  <2> QED BY <2>2 DEF b, m, l, n
<1> QED BY <1>2, <1>3

\* For any bytes and any size of size_t: utf8_check_string accepts a string exactly if it
\* is a sequence of the characters of the Unicode standard's table, what utf8_iterate
\* reads utf8_encode writes, and what strbuffer_append_bytes copies stays in the buffer.
THEOREM BytesSound ==
    ASSUME AreBytes
    PROVE  BytesAreSound
BY Utf8Holds, BufferFits DEF BytesAreSound
=============================================================================

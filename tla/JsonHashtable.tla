--------------------------- MODULE JsonHashtable ----------------------------
(***************************************************************************)
(* The hash table of Jansson (hashtable.c) as a JSON object uses it: one   *)
(* list of all pairs, on which a bucket is a segment from its first pair   *)
(* to its last, rehashed when there are as many pairs as buckets; and the  *)
(* serial numbers the object gives to its keys (value.c).  A pair is named *)
(* by its key, the head of the list is List.                               *)
(***************************************************************************)
EXTENDS Integers, Sequences, FiniteSets, SequencesExt

CONSTANTS
    Keys, Values,
    Hash(_),     \* hash_str
    Primes,      \* primes[], the numbers of buckets
    List,        \* &hashtable->list
    NoIter,      \* NULL, as an iterator
    MaxSerial    \* bound on the keys given a serial number

\* The head of the list and NULL are no pairs; and there are fewer keys than buckets
\* in the largest table, so a rehash does not read behind the end of primes[].
ConstantsOK ==
    /\ List \notin Keys /\ NoIter \notin Keys
    /\ \A key \in Keys : Hash(key) \in Nat
    /\ Primes \in Seq(Nat \ {0}) /\ Primes # <<>> /\ MaxSerial \in Nat
    /\ IsFiniteSet(Keys) /\ Cardinality(Keys) < Primes[Len(Primes)]

ASSUME TableAssumption == ConstantsOK

VARIABLES
    list,        \* the pairs from list.next on
    bucketFirst, \* bucket->first of each bucket: a pair or List
    bucketLast,  \* and bucket->last
    order,       \* num_buckets, the index into primes[], from 1
    size,
    serials,     \* pair->serial of each pair
    values,      \* pair->value of each pair
    serial,      \* the object's next serial number
    bucketsLost, \* the buckets are gone: a rehash could not allocate the new ones
    iter,        \* the client's iterator, NoIter when it has none
    seen,        \* (history) the keys the iteration has visited
    disturbed    \* (history) what an iteration walks along was changed under it

contents == <<list, bucketFirst, bucketLast, order, size, serials, values>>
tableVars == <<contents, serial, bucketsLost, iter, seen, disturbed>>

Pairs == Range(list)
NumBuckets == Primes[order]
Bucket(key) == Hash(key) % NumBuckets
Pos(l, key) == CHOOSE i \in DOMAIN l : l[i] = key

NoBuckets(n) == [b \in 0..(n - 1) |-> List]
NoPairs(n) == [list |-> <<>>, first |-> NoBuckets(n), last |-> NoBuckets(n)]

TableInit ==
    /\ list = <<>> /\ order = 1 /\ size = 0
    /\ bucketFirst = NoBuckets(Primes[1]) /\ bucketLast = NoBuckets(Primes[1])
    /\ serials = <<>> /\ values = <<>> /\ serial = 0 /\ bucketsLost = FALSE
    /\ iter = NoIter /\ seen = {} /\ disturbed = FALSE

\* hashtable_find_pair looks at these pairs.
Segment(t, b) ==
    IF t.first[b] = List THEN {}
    ELSE {t.list[i] : i \in Pos(t.list, t.first[b])..Pos(t.list, t.last[b])}

Table == [list |-> list, first |-> bucketFirst, last |-> bucketLast]

Find(key) == key \in Segment(Table, Bucket(key))

-----------------------------------------------------------------------------
(* Inserting and rehashing, on a record of the list and the buckets.       *)

\* insert_to_bucket: at the end of the list or in front of the bucket's first pair.
InsertToBucket(t, b, key) ==
    IF t.first[b] = List
      THEN [list |-> Append(t.list, key),
            first |-> [t.first EXCEPT ![b] = key], last |-> [t.last EXCEPT ![b] = key]]
      ELSE [t EXCEPT !.list = InsertAt(t.list, Pos(t.list, t.first[b]), key),
                     !.first[b] = key]

\* Mutant of Rehashed: the list is emptied before its first pair is read.
RehashedAfterInit(n) == NoPairs(n)

\* hashtable_do_rehash: the pairs, in their order, go to n new buckets.
Rehashed(n) ==
    LET loop[i \in 0..Len(list)] ==
          IF i = 0 THEN NoPairs(n)
                   ELSE InsertToBucket(loop[i - 1], Hash(list[i]) % n, list[i])
    IN loop[Len(list)]

Full == size >= NumBuckets

\* Mutant of Store: a key that is set again gets the next serial number.
StoreRenumbered(t, key, value) ==
    /\ list' = t.list /\ bucketFirst' = t.first /\ bucketLast' = t.last
    /\ size' = size + 1
    /\ values' = [k \in Pairs \cup {key} |-> IF k = key THEN value ELSE values[k]]
    /\ serials' = [k \in Pairs \cup {key} |-> IF k = key THEN serial ELSE serials[k]]

\* The end of hashtable_set, on the table t it has by then.
Store(t, key, value) ==
    /\ list' = t.list /\ bucketFirst' = t.first /\ bucketLast' = t.last
    /\ size' = IF key \in Pairs THEN size ELSE size + 1
    /\ values' = [k \in Pairs \cup {key} |-> IF k = key THEN value ELSE values[k]]
    /\ serials' = [k \in Pairs \cup {key} |-> IF k \in Pairs THEN serials[k] ELSE serial]

\* json_object_set_new_nocheck and hashtable_set.  The rehash comes first, for a key
\* that is set already too.
Set(key, value) ==
    /\ ~bucketsLost /\ serial < MaxSerial
    /\ LET rehash == Full
           n == IF rehash THEN Primes[order + 1] ELSE NumBuckets
           t == IF rehash THEN Rehashed(n) ELSE Table
           old == key \in Segment(t, Hash(key) % n)
       IN /\ order' = IF rehash THEN order + 1 ELSE order
          /\ Store(IF old THEN t ELSE InsertToBucket(t, Hash(key) % n, key), key, value)
          /\ disturbed' = (iter # NoIter /\ (disturbed \/ rehash \/ ~old))
    /\ serial' = serial + 1
    /\ UNCHANGED <<bucketsLost, iter, seen>>

\* No memory for a pair: a table may have been rehashed before.
SetFails(key) ==
    /\ ~bucketsLost /\ serial < MaxSerial /\ ~Find(key)
    /\ LET t == IF Full THEN Rehashed(Primes[order + 1]) ELSE Table
       IN list' = t.list /\ bucketFirst' = t.first /\ bucketLast' = t.last
    /\ order' = IF Full THEN order + 1 ELSE order
    /\ serial' = serial + 1
    /\ disturbed' = (iter # NoIter /\ (disturbed \/ Full))
    /\ UNCHANGED <<size, serials, values, bucketsLost, iter, seen>>

\* No memory for the buckets: the old ones are freed, and whatever looks up a key
\* from then on reads through a null pointer.
RehashFails ==
    /\ ~bucketsLost /\ Full /\ serial < MaxSerial
    /\ order' = order + 1
    /\ bucketsLost' = TRUE
    /\ serial' = serial + 1
    /\ UNCHANGED <<list, bucketFirst, bucketLast, size, serials, values, iter, seen, disturbed>>

\* Mutant of Unlink: the bucket's last pair stays what it was.
UnlinkKeepLast(b, key) ==
    /\ bucketFirst' = [bucketFirst EXCEPT ![b] =
                   IF key # @ THEN @ ELSE IF key = bucketLast[b] THEN List
                   ELSE list[Pos(list, key) + 1]]
    /\ bucketLast' = [bucketLast EXCEPT ![b] = IF key = @ /\ key = bucketFirst[b] THEN List ELSE @]

\* hashtable_do_del: the bucket's ends move inwards, to the neighbour on the list.
Unlink(b, key) ==
    /\ bucketFirst' = [bucketFirst EXCEPT ![b] =
                   IF key # @ THEN @ ELSE IF key = bucketLast[b] THEN List
                   ELSE list[Pos(list, key) + 1]]
    /\ bucketLast' = [bucketLast EXCEPT ![b] =
                  IF key # @ THEN @ ELSE IF key = bucketFirst[b] THEN List
                  ELSE list[Pos(list, key) - 1]]

Del(key) ==
    /\ ~bucketsLost /\ Find(key)
    /\ Unlink(Bucket(key), key)
    /\ list' = RemoveAt(list, Pos(list, key))
    /\ size' = size - 1
    /\ values' = [k \in Pairs \ {key} |-> values[k]]
    /\ serials' = [k \in Pairs \ {key} |-> serials[k]]
    /\ disturbed' = (iter # NoIter)
    /\ UNCHANGED <<order, serial, bucketsLost, iter, seen>>

\* json_object_clear: the number of buckets stays.
Clear ==
    /\ ~bucketsLost
    /\ list' = <<>> /\ size' = 0 /\ values' = <<>> /\ serials' = <<>>
    /\ bucketFirst' = NoBuckets(NumBuckets) /\ bucketLast' = NoBuckets(NumBuckets)
    /\ serial' = 0
    /\ disturbed' = (iter # NoIter)
    /\ UNCHANGED <<order, bucketsLost, iter, seen>>

-----------------------------------------------------------------------------
(* Iterating over the object, with other calls in between.                 *)

Iter ==
    /\ iter = NoIter /\ list # <<>>
    /\ iter' = Head(list)
    /\ seen' = {Head(list)}
    /\ disturbed' = FALSE
    /\ UNCHANGED <<contents, serial, bucketsLost>>

\* json_object_iter_at.
IterAt(key) ==
    /\ ~bucketsLost /\ iter = NoIter /\ Find(key)
    /\ iter' = key
    /\ seen' = {list[i] : i \in 1..Pos(list, key)}
    /\ disturbed' = FALSE
    /\ UNCHANGED <<contents, serial, bucketsLost>>

\* Mutant of IterNext: it stops in front of the last pair.
IterNextButOne ==
    /\ iter \in Pairs
    /\ LET i == Pos(list, iter) IN
       IF i >= Len(list) - 1
         THEN iter' = NoIter /\ UNCHANGED seen
         ELSE iter' = list[i + 1] /\ seen' = seen \cup {list[i + 1]}
    /\ UNCHANGED <<contents, serial, bucketsLost, disturbed>>

IterNext ==
    /\ iter \in Pairs
    /\ LET i == Pos(list, iter) IN
       IF i = Len(list)
         THEN iter' = NoIter /\ UNCHANGED seen
         ELSE iter' = list[i + 1] /\ seen' = seen \cup {list[i + 1]}
    /\ UNCHANGED <<contents, serial, bucketsLost, disturbed>>

\* json_object_iter_set_new.
IterSet(value) ==
    /\ iter \in Pairs
    /\ values' = [values EXCEPT ![iter] = value]
    /\ UNCHANGED <<list, bucketFirst, bucketLast, order, size, serials, serial, bucketsLost, iter, seen, disturbed>>

\* The iterator of a pair that was freed must not be used any more.
Abandon ==
    /\ iter # NoIter /\ iter \notin Pairs
    /\ iter' = NoIter
    /\ UNCHANGED <<contents, serial, bucketsLost, seen, disturbed>>

TableNext ==
    \/ \E key \in Keys :
         \/ \E value \in Values : Set(key, value)
         \/ SetFails(key) \/ Del(key) \/ IterAt(key)
    \/ \E value \in Values : IterSet(value)
    \/ RehashFails \/ Clear \/ Iter \/ IterNext \/ Abandon

TableSpec == TableInit /\ [][TableNext]_tableVars

-----------------------------------------------------------------------------
(* Properties.                                                             *)

\* Every variable keeps its type.
TableTypeOK ==
    /\ list \in Seq(Keys) /\ order \in DOMAIN Primes
    /\ DOMAIN bucketFirst = DOMAIN bucketLast /\ Range(bucketFirst) \cup Range(bucketLast) \subseteq Keys \cup {List}
    /\ values \in [Pairs -> Values] /\ serials \in [Pairs -> 0..MaxSerial]
    /\ iter \in Keys \cup {NoIter} /\ seen \subseteq Keys

\* A bucket is a segment of the list, the segments do not overlap, and a key is found
\* in its bucket if and only if it is in the list, once: what hashtable_find_pair
\* relies on when it walks from first to last.
BucketsPartitionTheList ==
    ~bucketsLost =>
      /\ size = Len(list) /\ IsInjective(list)
      /\ Range(bucketFirst) \cup Range(bucketLast) \subseteq Pairs \cup {List}
      /\ \A b \in DOMAIN bucketFirst : Segment(Table, b) = {key \in Pairs : Bucket(key) = b}

\* An iteration that is not disturbed by a new key, a deletion or a rehash visits
\* every key; setting the value of a key disturbs it only if it is time to rehash.
IterationIsComplete ==
    [][~disturbed /\ iter \in Pairs /\ iter' = NoIter => Pairs \subseteq seen]_tableVars

InsertionOrder ==
    CHOOSE s \in [1..Len(list) -> Pairs] :
        Range(s) = Pairs /\ \A i, j \in 1..Len(list) : i < j => serials[s[i]] < serials[s[j]]

Object == INSTANCE JsonObject WITH map <- values, order <- InsertionOrder

\* The object is the map it promises to be, its keys in the order of their serial
\* numbers being in the order in which they were first set.
ImplementsObject == Object!Spec

\* The hash table is the ordered map an object promises to be; its buckets are disjoint
\* segments of its list; and an iteration that is not disturbed visits every key
\* (hashtable.c).
TableIsAnObject == []BucketsPartitionTheList /\ IterationIsComplete /\ ImplementsObject
=============================================================================

----------------------------- MODULE JsonValues -----------------------------
(***************************************************************************)
(* The values of Jansson (value.c): reference counts, arrays, objects and  *)
(* scalars on a heap of a few blocks.  A client owns at most one reference *)
(* to a value and may use whatever it can reach; each of its calls is one  *)
(* step.  Memory runs out when no block is free, and may run out for what  *)
(* a value allocates besides its own block.  The hash table of an object   *)
(* is the map it promises to be (JsonHashtable).                           *)
(***************************************************************************)
EXTENDS Integers, Sequences, FiniteSets

LOCAL INSTANCE Functions
LOCAL INSTANCE SequencesExt

CONSTANTS
    Ids,         \* the blocks, numbers
    True,        \* a singleton: json_true, json_false or json_null
    NoValue,     \* NULL
    Keys,
    Scalars,     \* the contents of strings, integers and reals
    Kinds,       \* which of "string", "integer" and "real" the client makes
    InitialSize, \* 8, the capacity of a new array
    MaxEntries,  \* bound on the length of an array
    MaxCalls     \* bound on the number of calls

VARIABLES
    heap,        \* what is in each block
    held,        \* the values to which the client owns a reference
    leaked,      \* (history) a value with a reference that nobody owns any more
    freedUse,    \* (history) "none", or which argument a call used after freeing it
    calls        \* (history) the number of calls so far

vars == <<heap, held, leaked, freedUse, calls>>

Free == [type |-> "free", refcount |-> 0, table |-> <<>>, size |-> 0, members |-> <<>>,
         value |-> NoValue]

\* A new value: json_init and what the type adds.
New(type) == [Free EXCEPT !.type = type, !.refcount = 1]

Init ==
    /\ heap = [id \in Ids |-> Free] /\ held = {} /\ leaked = NoValue /\ freedUse = "none"
    /\ calls = 0

Has(h, type) == {id \in Ids : h[id].type = type}
Is(id, type) == id \in Has(heap, type)
FreeBlocks(h) == Has(h, "free")
NewBlock(h) == CHOOSE id \in FreeBlocks(h) : \A other \in FreeBlocks(h) : id <= other

\* The values in a container, in order, as often as they are there.
Contents(h, id) ==
    IF id = True THEN <<>>
    ELSE h[id].table \o [i \in 1..Cardinality(DOMAIN h[id].members) |->
                           h[id].members[SetToSeq(DOMAIN h[id].members)[i]]]

Children(h, id) == Range(Contents(h, id))

RECURSIVE ReachableFrom(_, _)
ReachableFrom(h, S) ==
    LET T == S \cup UNION {Children(h, id) : id \in S}
    IN IF T = S THEN S ELSE ReachableFrom(h, T)

Usable == ReachableFrom(heap, held) \cup {True}

\* Nothing in the value contains itself; json_equal and json_deep_copy do not end
\* on any other.
Acyclic(h, id) ==
    \A d \in ReachableFrom(h, {id}) : d \notin ReachableFrom(h, Children(h, d))

-----------------------------------------------------------------------------
(* Reference counts.  A singleton's count is (size_t)-1 and is left alone. *)

Incref(h, id) == IF id = True THEN h ELSE [h EXCEPT ![id].refcount = @ + 1]

\* json_decref and json_delete.
RECURSIVE Decref(_, _)
Decref(h, id) ==
    IF id = True THEN h
    ELSE IF h[id].refcount # 1 THEN [h EXCEPT ![id].refcount = @ - 1]
    ELSE [FoldLeft(Decref, [h EXCEPT ![id].refcount = 0], Contents(h, id)) EXCEPT ![id] = Free]

\* Mutant of Given: the reference of the set functions is not added.
GivenAsIs(v) == {[heap |-> heap, held |-> held \ {v}], [heap |-> heap, held |-> held]}

\* How a value gets to a function that takes over a reference: the _new functions
\* are given the client's own, the others are static inlines that add one.
Given(v) ==
    {[heap |-> heap, held |-> held \ {v}] : x \in {v} \cap held}
      \cup {[heap |-> Incref(heap, v), held |-> held]}

Refuse(g, v) ==
    /\ heap' = Decref(g.heap, v)
    /\ held' = g.held
    /\ UNCHANGED <<leaked, freedUse>>

\* The caller that owns a reference gives it up.
Release(v) ==
    /\ v \in held
    /\ heap' = Decref(heap, v)
    /\ held' = held \ {v}
    /\ UNCHANGED <<leaked, freedUse>>

Keep(v) ==
    /\ v \in Usable \ (held \cup {True})
    /\ heap' = Incref(heap, v)
    /\ held' = held \cup {v}
    /\ UNCHANGED <<leaked, freedUse>>

-----------------------------------------------------------------------------
(* Making and changing scalars, arrays and objects.                        *)

\* json_object, json_array, json_string, json_integer, json_real.
Make(new) ==
    /\ FreeBlocks(heap) # {}
    /\ heap' = [heap EXCEPT ![NewBlock(heap)] = new]
    /\ held' = held \cup {NewBlock(heap)}
    /\ UNCHANGED <<leaked, freedUse>>

MakeObject == Make(New("object"))
MakeArray == Make([New("array") EXCEPT !.size = InitialSize])
MakeScalar(kind, value) == Make([New(kind) EXCEPT !.value = value])

\* json_string_set, json_integer_set, json_real_set.
SetScalar(v, value) ==
    /\ v \in Usable \ {True} /\ heap[v].type \in Kinds
    /\ heap' = [heap EXCEPT ![v].value = value]
    /\ UNCHANGED <<held, leaked, freedUse>>

\* A value is refused for a container that is none, for itself, for a key that is
\* no UTF-8, an index out of range or want of memory: the reference is released.
InsertFails(c, v) ==
    /\ c \in Usable /\ v \in Usable
    /\ \E g \in Given(v) : Refuse(g, v)

\* Mutant of StoreMember: the value that was there is forgotten.
StoreMemberOnly(h, o, k, v) ==
    [h EXCEPT ![o].members = [j \in DOMAIN @ \cup {k} |-> IF j = k THEN v ELSE @[j]]]

\* json_object_set_new_nocheck past its checks: the value that was there goes first.
StoreMember(h, o, k, v) ==
    LET freed == IF k \in DOMAIN h[o].members THEN Decref(h, h[o].members[k]) ELSE h
    IN [freed EXCEPT ![o].members = [j \in DOMAIN @ \cup {k} |-> IF j = k THEN v ELSE @[j]]]

ObjectSet(o, k, v) ==
    /\ o \in Usable \cap Has(heap, "object") /\ v \in Usable \ {o}
    /\ \E g \in Given(v) :
         /\ heap' = StoreMember(g.heap, o, k, v)
         /\ held' = g.held
    /\ UNCHANGED <<leaked, freedUse>>

\* json_object_iter_set_new does not ask whether the value is the object itself.
IterSet(o, k, v) ==
    /\ o \in Usable \cap Has(heap, "object") /\ k \in DOMAIN heap[o].members /\ v \in Usable
    /\ \E g \in Given(v) :
         /\ heap' = StoreMember(g.heap, o, k, v)
         /\ held' = g.held
    /\ UNCHANGED <<leaked, freedUse>>

\* It refuses without releasing: the reference json_object_iter_set added is lost.
IterSetFails(v) ==
    /\ v \in Usable \ {True} /\ leaked = NoValue
    /\ heap' = Incref(heap, v)
    /\ leaked' = v
    /\ UNCHANGED <<held, freedUse>>

ObjectDel(o, k) ==
    /\ o \in Usable \cap Has(heap, "object") /\ k \in DOMAIN heap[o].members
    /\ heap' = [Decref(heap, heap[o].members[k]) EXCEPT
                  ![o].members = Restrict(@, DOMAIN @ \ {k})]
    /\ UNCHANGED <<held, leaked, freedUse>>

ObjectClear(o) ==
    /\ o \in Usable \cap Has(heap, "object")
    /\ heap' = [FoldLeft(Decref, heap, Contents(heap, o)) EXCEPT ![o].members = <<>>]
    /\ UNCHANGED <<held, leaked, freedUse>>

\* json_object_update sets the members of other one by one until memory runs out, its
\* two variants those which object has or has not and for which there is memory: the
\* keys that are set, in some order.
UpdateKeys(other) == UNION {SetToSeqs(S) : S \in SUBSET DOMAIN heap[other].members}

\* It stops at a value that is the object itself, what was set before stays set; and
\* it goes on to the next key even if the value that was replaced held the last
\* reference to other.
RECURSIVE Update(_, _, _, _)
Update(h, o, other, keys) ==
    IF h[other].type = "free" THEN [heap |-> h, freed |-> TRUE]
    ELSE IF keys = <<>> THEN [heap |-> h, freed |-> FALSE]
    ELSE LET v == h[other].members[Head(keys)] IN
         IF v = o THEN [heap |-> h, freed |-> FALSE]
         ELSE Update(StoreMember(Incref(h, v), o, Head(keys), v), o, other, Tail(keys))

ObjectUpdate(o, other) ==
    /\ o \in Usable \cap Has(heap, "object") /\ other \in Usable \cap Has(heap, "object")
    /\ \E keys \in UpdateKeys(other) :
         LET result == Update(heap, o, other, keys) IN
         /\ heap' = result.heap
         /\ freedUse' = IF ~result.freed THEN freedUse
                        ELSE IF other \in held THEN "own" ELSE "borrowed"
    /\ UNCHANGED <<held, leaked>>

-----------------------------------------------------------------------------
(* Arrays.                                                                 *)

Greater(m, n) == IF m > n THEN m ELSE n

\* json_array_grow.
Grown(array, amount) ==
    IF Len(array.table) + amount <= array.size THEN array
    ELSE [array EXCEPT !.size = Greater(array.size + amount, 2 * array.size)]

\* Mutant of Inserted: the array is not grown.
InsertedAsIs(array, i, v) == [array EXCEPT !.table = InsertAt(@, i, v)]

\* json_array_append_new and json_array_insert_new past their checks.
Inserted(array, i, v) == [Grown(array, 1) EXCEPT !.table = InsertAt(@, i, v)]

ArrayInsert(a, i, v) ==
    /\ a \in Usable \cap Has(heap, "array") /\ v \in Usable \ {a}
    /\ i \in 1..(Len(heap[a].table) + 1) /\ i <= MaxEntries
    /\ Len(heap[a].table) < MaxEntries
    /\ \E g \in Given(v) :
         /\ heap' = [g.heap EXCEPT ![a] = Inserted(g.heap[a], i, v)]
         /\ held' = g.held
    /\ UNCHANGED <<leaked, freedUse>>

ArraySet(a, i, v) ==
    /\ a \in Usable \cap Has(heap, "array") /\ v \in Usable \ {a}
    /\ i \in DOMAIN heap[a].table
    /\ \E g \in Given(v) :
         /\ heap' = [Decref(g.heap, g.heap[a].table[i]) EXCEPT ![a].table[i] = v]
         /\ held' = g.held
    /\ UNCHANGED <<leaked, freedUse>>

ArrayRemove(a, i) ==
    /\ a \in Usable \cap Has(heap, "array") /\ i \in DOMAIN heap[a].table
    /\ heap' = [Decref(heap, heap[a].table[i]) EXCEPT ![a].table = RemoveAt(@, i)]
    /\ UNCHANGED <<held, leaked, freedUse>>

ArrayClear(a) ==
    /\ a \in Usable \cap Has(heap, "array")
    /\ heap' = [FoldLeft(Decref, heap, heap[a].table) EXCEPT ![a].table = <<>>]
    /\ UNCHANGED <<held, leaked, freedUse>>

\* json_array_extend does not ask whether the array is among what it adds.
Extended(a, b) ==
    LET h == FoldLeft(Incref, heap, heap[b].table)
    IN [h EXCEPT ![a] = [Grown(h[a], Len(heap[b].table)) EXCEPT !.table = @ \o heap[b].table]]

ArrayExtend(a, b) ==
    /\ a \in Usable \cap Has(heap, "array") /\ b \in Usable \cap Has(heap, "array")
    /\ Len(heap[a].table) + Len(heap[b].table) <= MaxEntries
    /\ heap' = Extended(a, b)
    /\ UNCHANGED <<held, leaked, freedUse>>

-----------------------------------------------------------------------------
(* Equality and copies.                                                    *)

RECURSIVE Equal(_, _, _)

ObjectEqual(h, a, b) ==
    /\ Cardinality(DOMAIN h[a].members) = Cardinality(DOMAIN h[b].members)
    /\ \A k \in DOMAIN h[a].members :
         k \in DOMAIN h[b].members /\ Equal(h, h[a].members[k], h[b].members[k])

ArrayEqual(h, a, b) ==
    /\ Len(h[a].table) = Len(h[b].table)
    /\ \A i \in DOMAIN h[a].table : Equal(h, h[a].table[i], h[b].table[i])

Equal(h, a, b) ==
    \/ a = b
    \/ /\ True \notin {a, b} /\ h[a].type = h[b].type
       /\ CASE h[a].type = "object" -> ObjectEqual(h, a, b)
            [] h[a].type = "array" -> ArrayEqual(h, a, b)
            [] OTHER -> h[a].value = h[b].value

\* json_array_append and json_object_set of a value whose reference is added before.
Appended(h, a, v) == [h EXCEPT ![a] = Inserted(@, Len(@.table) + 1, v)]

\* A copy at c with the same values in it; members there is no memory for are missing.
ObjectCopy(h, o, c, kept) ==
    FoldLeft(LAMBDA g, k : StoreMember(Incref(g, h[o].members[k]), c, k, h[o].members[k]),
             [h EXCEPT ![c] = New("object")], SetToSeq(kept))

ArrayCopy(h, a, c) ==
    FoldLeft(LAMBDA g, v : Appended(Incref(g, v), c, v),
             [h EXCEPT ![c] = [New("array") EXCEPT !.size = InitialSize]], h[a].table)

ScalarCopy(h, v, c) == [h EXCEPT ![c] = [New(h[v].type) EXCEPT !.value = h[v].value]]

\* json_copy.
Copy(v) ==
    /\ v \in Usable \ {True} /\ FreeBlocks(heap) # {}
    /\ LET c == NewBlock(heap) IN
       /\ \/ /\ Is(v, "object")
             /\ \E kept \in SUBSET DOMAIN heap[v].members : heap' = ObjectCopy(heap, v, c, kept)
          \/ Is(v, "array") /\ heap' = ArrayCopy(heap, v, c)
          \/ heap[v].type \in Kinds /\ heap' = ScalarCopy(heap, v, c)
       /\ held' = held \cup {c}
    /\ UNCHANGED <<leaked, freedUse>>

\* Mutant of DeepCopied: only the outermost container is copied.
CopiedOnce(h, v) ==
    IF FreeBlocks(h) = {} THEN [heap |-> h, copy |-> NoValue]
    ELSE [heap |-> [FoldLeft(Incref, h, Contents(h, v)) EXCEPT
                      ![NewBlock(h)] = [h[v] EXCEPT !.refcount = 1]],
          copy |-> NewBlock(h)]

\* json_deep_copy: a value for which there is no memory is left out of the copy of
\* what contains it, and the call still succeeds.
RECURSIVE DeepCopied(_, _)

ObjectDeepCopy(h, o, c) ==
    LET Added(g, k) ==
            LET r == DeepCopied(g, h[o].members[k]) IN
            IF r.copy = NoValue THEN r.heap ELSE StoreMember(r.heap, c, k, r.copy)
    IN FoldLeft(Added, [h EXCEPT ![c] = New("object")], SetToSeq(DOMAIN h[o].members))

ArrayDeepCopy(h, a, c) ==
    LET Added(g, v) ==
            LET r == DeepCopied(g, v) IN
            IF r.copy = NoValue THEN r.heap ELSE Appended(r.heap, c, r.copy)
    IN FoldLeft(Added, [h EXCEPT ![c] = [New("array") EXCEPT !.size = InitialSize]], h[a].table)

DeepCopied(h, v) ==
    IF v = True THEN [heap |-> h, copy |-> True]
    ELSE IF FreeBlocks(h) = {} THEN [heap |-> h, copy |-> NoValue]
    ELSE LET c == NewBlock(h) IN
         [heap |-> CASE h[v].type = "object" -> ObjectDeepCopy(h, v, c)
                     [] h[v].type = "array" -> ArrayDeepCopy(h, v, c)
                     [] OTHER -> ScalarCopy(h, v, c),
          copy |-> c]

DeepCopy(v) ==
    /\ v \in Usable \ {True} /\ FreeBlocks(heap) # {} /\ Acyclic(heap, v)
    /\ LET r == DeepCopied(heap, v) IN
       /\ heap' = r.heap
       /\ held' = held \cup {r.copy}
    /\ UNCHANGED <<leaked, freedUse>>

-----------------------------------------------------------------------------
Next ==
    /\ freedUse = "none" /\ calls < MaxCalls
    /\ calls' = calls + 1
    /\ \/ MakeObject \/ MakeArray
       \/ \E kind \in Kinds, value \in Scalars : MakeScalar(kind, value)
       \/ \E v \in Ids :
            \/ Release(v) \/ Keep(v) \/ ObjectClear(v) \/ ArrayClear(v)
            \/ IterSetFails(v) \/ Copy(v) \/ DeepCopy(v)
            \/ \E value \in Scalars : SetScalar(v, value)
            \/ \E i \in 1..MaxEntries : ArrayRemove(v, i)
            \/ \E k \in Keys : ObjectDel(v, k)
            \/ \E w \in Ids \cup {True} :
                 \/ InsertFails(v, w)
                 \/ \E i \in 1..MaxEntries : ArraySet(v, i, w) \/ ArrayInsert(v, i, w)
                 \/ \E k \in Keys : ObjectSet(v, k, w) \/ IterSet(v, k, w)
            \/ \E w \in Ids : ObjectUpdate(v, w) \/ ArrayExtend(v, w)

Spec == Init /\ [][Next]_vars

-----------------------------------------------------------------------------
(* Properties.                                                             *)

\* Every variable keeps its type.
TypeOK ==
    /\ \A id \in Ids :
         /\ heap[id].type \in {"free", "object", "array"} \cup Kinds
         /\ heap[id].table \in Seq(Ids \cup {True})
         /\ heap[id].members \in UNION {[K -> Ids \cup {True}] : K \in SUBSET Keys}
    /\ held \subseteq Ids /\ leaked \in Ids \cup {NoValue}
    /\ freedUse \in {"none", "own", "borrowed"}

Count(s, v) == Cardinality({i \in DOMAIN s : s[i] = v})

References(v) ==
    (IF v \in held THEN 1 ELSE 0) + (IF v = leaked THEN 1 ELSE 0)
      + FoldSet(LAMBDA id, n : n + Count(Contents(heap, id), v), 0, Ids)

\* The count of a value is the number of references to it, whatever is set, replaced,
\* copied, refused or deleted: nothing is freed while it is in use, and all is freed
\* that nobody refers to.
RefcountsAreExact ==
    freedUse = "none" => \A id \in Ids : heap[id].refcount = References(id)

\* json_object_update never reads a freed argument to which the caller owns a
\* reference.  One that is only borrowed from the object it may free midway.
OwnArgumentsSurvive == freedUse # "own"

\* An array never holds more than its table has room for.
ArraysFitTheirTable == \A id \in Has(heap, "array") : Len(heap[id].table) <= heap[id].size

\* A deep copy is equal to its original, unless memory ran out, and shares no value
\* with it but singletons.
DeepCopiesAreEqual ==
    [][\A v \in Ids : DeepCopy(v) => \E c \in held' \ held :
         /\ FreeBlocks(heap') = {} \/ Equal(heap', v, c)
         /\ ReachableFrom(heap', {v}) \cap ReachableFrom(heap', {c}) \subseteq {True}]_vars
=============================================================================

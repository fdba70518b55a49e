-------------------------- MODULE Dictionary_proofs --------------------------
(***************************************************************************)
(* Proofs about Dictionary: the table stays sound, and implements IniMap,  *)
(* for every set of keys and values, every hash function, and however      *)
(* often memory is short; and about what is read into it: the program's    *)
(* configuration is what the lines of the ini file say, whatever they are. *)
(***************************************************************************)
EXTENDS Startup, FiniteSetTheorems, SequenceTheorems, TLAPS

\* A search that counts up stops at the least element.
LEMMA FirstIs ==
  ASSUME NEW S, S \subseteq Nat, S # {}
  PROVE  First(S) \in S /\ \A j \in S : First(S) <= j
<1> DEFINE T == {0 .. x : x \in S}
<1>1. T \subseteq FiniteSubsetsOf(Nat)
  <2> SUFFICES ASSUME NEW x \in S PROVE 0 .. x \in FiniteSubsetsOf(Nat) OBVIOUS
  <2>1. IsFiniteSet(0 .. x) BY FS_Interval
  <2>2. 0 .. x \subseteq Nat OBVIOUS
  <2> QED BY <2>1, <2>2 DEF FiniteSubsetsOf
<1>2. T # {} OBVIOUS
<1>3. PICK t \in T : \A u \in T : ~(<<u, t>> \in StrictSubsetOrdering(Nat))
  <2> HIDE DEF T
  <2> QED BY <1>1, <1>2, FS_StrictSubsetOrderingWellFounded, WFMin
<1>4. PICK x \in S : t = 0 .. x OBVIOUS
<1>5. ASSUME NEW y \in S, y < x PROVE FALSE
  <2>1. 0 .. y \subseteq 0 .. x BY <1>5
  <2>2. 0 .. y # 0 .. x BY <1>5
  <2>3. <<0 .. y, 0 .. x>> \in StrictSubsetOrdering(Nat)
    BY <2>1, <2>2 DEF StrictSubsetOrdering
  <2> QED BY <2>3, <1>3, <1>4
<1>6. \A y \in S : x <= y BY <1>5
<1> QED BY <1>6 DEF First
-----------------------------------------------------------------------------
\* The parts of a table, and what is sound about them.

Typed(d) ==
  d \in [size : Nat \ {0}, n : Nat,
         key : [Slots(d) -> Keys \cup {NULL}],
         val : [Slots(d) -> Values \cup {NULL}],
         hash : [Slots(d) -> Nat]]

Keyed(d) ==
  \A i \in Used(d) :
    /\ d.hash[i] = Hash[d.key[i]]
    /\ \A j \in Used(d) : d.key[i] = d.key[j] => i = j

Counted(d, lost) ==
  /\ d.n = Cardinality(Used(d)) + lost
  /\ d.n <= d.size

MapOf(d) == [k \in KeysIn(d) |-> dictionary_get(d, k, NULL)]

\* The slots of a dictionary, and those in use, can be counted.
LEMMA UsedIsFinite ==
  ASSUME NEW d, Typed(d)
  PROVE  /\ IsFiniteSet(Slots(d)) /\ Cardinality(Slots(d)) = d.size
         /\ IsFiniteSet(Used(d)) /\ Cardinality(Used(d)) \in Nat
<1>1. IsFiniteSet(Slots(d)) /\ Cardinality(Slots(d)) = d.size
  BY FS_Interval DEF Typed, Slots
<1>2. Used(d) \in SUBSET Slots(d) BY DEF Used
<1>3. IsFiniteSet(Used(d)) BY <1>1, <1>2, FS_Subset
<1> QED BY <1>1, <1>3, FS_CardinalityType

\* A key is found where it is.
LEMMA GetIs ==
  ASSUME NEW d, Typed(d), Keyed(d), NEW i \in Used(d), NEW def
  PROVE  /\ Holding(d, d.key[i]) = {i}
         /\ dictionary_get(d, d.key[i], def) = d.val[i]
<1>1. Holding(d, d.key[i]) = {i}
  BY DEF Holding, Keyed
<1>2. {i} \subseteq Nat /\ {i} # {}
  BY DEF Used, Slots, Typed
<1>3. First({i}) = i
  BY <1>2, FirstIs
<1> QED BY <1>1, <1>3 DEF dictionary_get

\* No slot holds a key that the dictionary does not have.
LEMMA NotHeld ==
  ASSUME NEW d, NEW key \in Keys, Keyed(d)
  PROVE  Holding(d, key) = {} <=> key \notin KeysIn(d)
BY DEF Holding, KeysIn, Keyed

\* A map with the values of the table is the table's map.
LEMMA MapIs ==
  ASSUME NEW d, Typed(d), Keyed(d), NEW m, m = [k \in KeysIn(d) |-> m[k]],
         \A i \in Used(d) : m[d.key[i]] = d.val[i]
  PROVE  MapOf(d) = m
<1>1. ASSUME NEW k \in KeysIn(d) PROVE dictionary_get(d, k, NULL) = m[k]
  <2>1. PICK i \in Used(d) : k = d.key[i]
    BY DEF KeysIn
  <2> QED BY <2>1, GetIs
<1> QED BY <1>1 DEF MapOf

\* What a used slot holds is what the dictionary says of its key.
LEMMA ValueOf ==
  ASSUME NEW d, Typed(d), Keyed(d), NEW i \in Used(d)
  PROVE  d.key[i] \in KeysIn(d) /\ MapOf(d)[d.key[i]] = d.val[i]
<1>1. d.key[i] \in KeysIn(d) BY DEF KeysIn
<1> QED BY <1>1, GetIs DEF MapOf

\* Growing changes nothing but the size.
LEMMA GrowIs ==
  ASSUME NEW d, Typed(d)
  PROVE  LET g == dictionary_grow(d) IN
           /\ Typed(g) /\ g.size = 2 * d.size /\ g.n = d.n /\ Used(g) = Used(d)
           /\ \A i \in Used(d) : g.key[i] = d.key[i] /\ g.val[i] = d.val[i] /\ g.hash[i] = d.hash[i]
<1> DEFINE g == dictionary_grow(d)
<1>1. g.size = 2 * d.size /\ g.n = d.n /\ Slots(g) = 0 .. 2 * d.size - 1
  BY DEF dictionary_grow, Slots
<1>2. d.size \in Nat \ {0} /\ d.n \in Nat /\ Slots(d) = 0 .. d.size - 1
  BY DEF Typed, Slots
<1>3. \A i \in Slots(g) :
        /\ g.key[i] = IF i < d.size THEN d.key[i] ELSE NULL
        /\ g.val[i] = IF i < d.size THEN d.val[i] ELSE NULL
        /\ g.hash[i] = IF i < d.size THEN d.hash[i] ELSE 0
  BY <1>1 DEF dictionary_grow
<1>4. \A i \in Slots(g) : i < d.size <=> i \in Slots(d)
  BY <1>1, <1>2
<1>5. Slots(d) \subseteq Slots(g)
  BY <1>1, <1>2
<1>6. Used(g) = Used(d)
  BY <1>3, <1>4, <1>5 DEF Used
<1>7. Typed(g)
  <2>1. \A i \in Slots(g) : /\ g.key[i] \in Keys \cup {NULL}
                            /\ g.val[i] \in Values \cup {NULL} /\ g.hash[i] \in Nat
    BY <1>3, <1>4 DEF Typed
  <2>2. g = [size |-> g.size, n |-> g.n, key |-> g.key, val |-> g.val, hash |-> g.hash]
    BY DEF dictionary_grow
  <2>3. /\ g.key = [i \in Slots(g) |-> g.key[i]] /\ g.val = [i \in Slots(g) |-> g.val[i]]
        /\ g.hash = [i \in Slots(g) |-> g.hash[i]]
    BY <1>1 DEF dictionary_grow
  <2>4. g.size \in Nat \ {0} /\ g.n \in Nat BY <1>1, <1>2
  <2> HIDE DEF g
  <2> QED BY <2>1, <2>2, <2>3, <2>4 DEF Typed
<1>8. \A i \in Used(d) : g.key[i] = d.key[i] /\ g.val[i] = d.val[i] /\ g.hash[i] = d.hash[i]
  BY <1>3, <1>4, <1>5 DEF Used
<1> HIDE DEF g
<1>9. QED
  BY <1>1, <1>6, <1>7, <1>8 DEF g

-----------------------------------------------------------------------------
\* dictionary_set() of a key that is there.
LEMMA OverwriteIs ==
  ASSUME NEW d, Typed(d), Keyed(d), NEW i \in Used(d), NEW v \in Values \cup {NULL}
  PROVE  LET e == [d EXCEPT !.val[i] = v] IN
           /\ Typed(e) /\ Keyed(e) /\ Used(e) = Used(d) /\ e.n = d.n /\ e.size = d.size
           /\ MapOf(e) = [k \in KeysIn(d) \cup {d.key[i]} |->
                            IF k = d.key[i] THEN v ELSE MapOf(d)[k]]
<1> DEFINE e == [d EXCEPT !.val[i] = v]
           m == [k \in KeysIn(d) \cup {d.key[i]} |-> IF k = d.key[i] THEN v ELSE MapOf(d)[k]]
<1>0. i \in Slots(d) BY DEF Used
<1>1. Typed(e) /\ e.n = d.n /\ e.size = d.size /\ e.key = d.key /\ e.hash = d.hash
  BY <1>0 DEF Typed, Slots
<1>2. e.val[i] = v /\ \A j \in Slots(d) \ {i} : e.val[j] = d.val[j]
  BY <1>0 DEF Typed
<1>3. Used(e) = Used(d)
  BY <1>1 DEF Used, Slots
<1> HIDE DEF e
<1>4. Keyed(e)
  BY <1>1, <1>3 DEF Keyed
<1>5. KeysIn(e) = KeysIn(d) /\ d.key[i] \in KeysIn(d)
  BY <1>1, <1>3 DEF KeysIn
<1>6. \A j \in Used(e) : m[e.key[j]] = e.val[j]
  <2> SUFFICES ASSUME NEW j \in Used(e) PROVE m[e.key[j]] = e.val[j] OBVIOUS
  <2>1. j \in Used(d) /\ e.key[j] = d.key[j] /\ d.key[j] \in KeysIn(d)
    BY <1>1, <1>3 DEF KeysIn
  <2>2. CASE j = i BY <2>1, <2>2, <1>2
  <2>3. CASE j # i
    <3>1. d.key[j] # d.key[i] BY <2>1, <2>3 DEF Keyed
    <3>2. e.val[j] = d.val[j] BY <2>1, <2>3, <1>2 DEF Used
    <3> QED BY <3>1, <3>2, <2>1, ValueOf
  <2> QED BY <2>2, <2>3
<1>7. MapOf(e) = m
  <2>1. m = [k \in KeysIn(e) |-> m[k]] BY <1>5
  <2> HIDE DEF m
  <2> QED BY <2>1, <1>1, <1>4, <1>6, MapIs
<1> QED BY <1>1, <1>3, <1>4, <1>7 DEF e

\* There is an empty slot as long as n has not reached the size.
LEMMA EmptySlotIs ==
  ASSUME NEW d, NEW lost \in Nat, Typed(d), Counted(d, lost), d.n < d.size
  PROVE  EmptySlot(d) \in Free(d)
<1>1. Free(d) # {}
  <2>1. Used(d) # Slots(d)
    BY UsedIsFinite DEF Counted, Typed
  <2> QED BY <2>1 DEF Free, Used
<1>2. Free(d) \subseteq Nat
  BY DEF Free, Slots, Typed
<1>3. {i \in Free(d) : i >= d.n} \subseteq Nat
  BY <1>2
<1> QED BY <1>1, <1>2, <1>3, FirstIs DEF EmptySlot

\* The insertion of a key that is not there, if it can be copied.
LEMMA InsertIs ==
  ASSUME NEW d, NEW lost \in Nat, Typed(d), Keyed(d), Counted(d, lost), d.n < d.size,
         NEW key \in Keys, key \notin KeysIn(d), NEW v \in Values \cup {NULL}, NEW short,
         short # "key"
  PROVE  LET e == Insert(d, key, v, short) IN
           /\ Typed(e) /\ Keyed(e) /\ Counted(e, lost)
           /\ MapOf(e) = [k \in KeysIn(d) \cup {key} |-> IF k = key THEN v ELSE MapOf(d)[k]]
<1> DEFINE i == EmptySlot(d)
           e == Put(d, i, key, v, Hash[key], d.n + 1)
           m == [k \in KeysIn(d) \cup {key} |-> IF k = key THEN v ELSE MapOf(d)[k]]
<1>1. i \in Slots(d) /\ i \notin Used(d)
  BY EmptySlotIs DEF Free
<1>2. Hash[key] \in Nat /\ d.n + 1 \in Nat /\ key # NULL
  BY DictionaryAssumption DEF Typed
<1> HIDE DEF i
<1>3. /\ Typed(e) /\ e.size = d.size /\ e.n = d.n + 1 /\ Slots(e) = Slots(d)
      /\ e.key[i] = key /\ e.val[i] = v /\ e.hash[i] = Hash[key]
      /\ \A j \in Slots(d) \ {i} :
           e.key[j] = d.key[j] /\ e.val[j] = d.val[j] /\ e.hash[j] = d.hash[j]
  BY <1>1, <1>2 DEF Put, Typed, Slots
<1> HIDE DEF e
<1>4. Used(e) = Used(d) \cup {i}
  BY <1>1, <1>2, <1>3 DEF Used
<1>5. \A j \in Used(d) :
        /\ j # i /\ e.key[j] = d.key[j] /\ e.val[j] = d.val[j] /\ e.hash[j] = d.hash[j]
        /\ d.key[j] # key /\ d.key[j] \in KeysIn(d)
  BY <1>1, <1>3 DEF Used, KeysIn
<1>6. Keyed(e)
  BY <1>3, <1>4, <1>5 DEF Keyed
<1>7. Counted(e, lost)
  <2>1. Cardinality(Used(e)) = Cardinality(Used(d)) + 1
    BY <1>1, <1>4, UsedIsFinite, FS_AddElement
  <2> QED BY <2>1, <1>3, UsedIsFinite DEF Counted, Typed
<1>8. KeysIn(e) = KeysIn(d) \cup {key}
  BY <1>3, <1>4, <1>5 DEF KeysIn
<1>9. \A j \in Used(e) : m[e.key[j]] = e.val[j]
  <2>1. m[e.key[i]] = e.val[i] BY <1>3
  <2>2. ASSUME NEW j \in Used(d) PROVE m[e.key[j]] = e.val[j]
    BY <1>5, ValueOf
  <2> QED BY <2>1, <2>2, <1>4
<1>10. MapOf(e) = m
  <2>1. m = [k \in KeysIn(e) |-> m[k]] BY <1>8
  <2> HIDE DEF m
  <2> QED BY <2>1, <1>3, <1>6, <1>9, MapIs
<1>11. Insert(d, key, v, short) = e
  BY DEF Insert, i, e
<1> QED BY <1>3, <1>6, <1>7, <1>10, <1>11

\* If it cannot, it is counted all the same.
LEMMA LoseIs ==
  ASSUME NEW d, NEW lost \in Nat, Typed(d), Keyed(d), Counted(d, lost), d.n < d.size,
         NEW key \in Keys, NEW v \in Values \cup {NULL}
  PROVE  LET e == Insert(d, key, v, "key") IN
           /\ Typed(e) /\ Keyed(e) /\ Counted(e, lost + 1) /\ MapOf(e) = MapOf(d)
<1> DEFINE i == EmptySlot(d)
           none == NULL
           e == Put(d, i, none, v, Hash[key], d.n + 1)
<1>1. i \in Slots(d) /\ i \notin Used(d)
  BY EmptySlotIs DEF Free
<1>2. Hash[key] \in Nat /\ d.n + 1 \in Nat /\ none \in Keys \cup {NULL}
  BY DictionaryAssumption DEF Typed
<1> HIDE DEF i, none
<1>3. /\ Typed(e) /\ e.size = d.size /\ e.n = d.n + 1 /\ Slots(e) = Slots(d)
      /\ e.key[i] = none
      /\ \A j \in Slots(d) \ {i} :
           e.key[j] = d.key[j] /\ e.val[j] = d.val[j] /\ e.hash[j] = d.hash[j]
  BY <1>1, <1>2 DEF Put, Typed, Slots
<1> HIDE DEF e
<1>4. Used(e) = Used(d)
  BY <1>1, <1>3 DEF Used, none
<1>5. \A j \in Used(d) : e.key[j] = d.key[j] /\ e.val[j] = d.val[j] /\ e.hash[j] = d.hash[j]
  BY <1>1, <1>3 DEF Used
<1>6. Keyed(e) BY <1>4, <1>5 DEF Keyed
<1>7. Counted(e, lost + 1)
  BY <1>3, <1>4, UsedIsFinite DEF Counted, Typed
<1>8. KeysIn(e) = KeysIn(d) BY <1>4, <1>5 DEF KeysIn
<1>9. MapOf(e) = MapOf(d)
  <2>1. MapOf(d) = [k \in KeysIn(e) |-> MapOf(d)[k]] BY <1>8 DEF MapOf
  <2>2. \A j \in Used(e) : MapOf(d)[e.key[j]] = e.val[j] BY <1>4, <1>5, ValueOf
  <2> QED BY <2>1, <2>2, <1>3, <1>6, MapIs
<1>10. Insert(d, key, v, "key") = e
  BY DEF Insert, i, e, none
<1>11. Typed(e) BY <1>3
<1> QED BY <1>11, <1>6, <1>7, <1>9, <1>10

\* dictionary_unset() of a key that is there.
LEMMA RemoveIs ==
  ASSUME NEW d, NEW lost \in Nat, Typed(d), Keyed(d), Counted(d, lost), NEW i \in Used(d)
  PROVE  LET e == Put(d, i, NULL, NULL, 0, d.n - 1) IN
           /\ Typed(e) /\ Keyed(e) /\ Counted(e, lost)
           /\ MapOf(e) = [k \in KeysIn(d) \ {d.key[i]} |-> MapOf(d)[k]]
<1> DEFINE none == NULL
           e == Put(d, i, none, none, 0, d.n - 1)
           m == [k \in KeysIn(d) \ {d.key[i]} |-> MapOf(d)[k]]
<1>1. i \in Slots(d) BY DEF Used
<1>2. d.n - 1 \in Nat /\ 0 \in Nat /\ none \in Keys \cup {NULL} /\ none \in Values \cup {NULL}
  <2>1. Cardinality(Used(d)) # 0 BY UsedIsFinite, FS_EmptySet
  <2> QED BY <2>1, UsedIsFinite DEF Counted, Typed
<1> HIDE DEF none
<1>3. /\ Typed(e) /\ e.size = d.size /\ e.n = d.n - 1 /\ Slots(e) = Slots(d)
      /\ e.key[i] = none
      /\ \A j \in Slots(d) \ {i} :
           e.key[j] = d.key[j] /\ e.val[j] = d.val[j] /\ e.hash[j] = d.hash[j]
  BY <1>1, <1>2 DEF Put, Typed, Slots
<1> HIDE DEF e
<1>4. Used(e) = Used(d) \ {i}
  BY <1>1, <1>3 DEF Used, none
<1>5. \A j \in Used(e) :
        /\ j \in Used(d) /\ e.key[j] = d.key[j] /\ e.val[j] = d.val[j] /\ e.hash[j] = d.hash[j]
        /\ d.key[j] # d.key[i] /\ d.key[j] \in KeysIn(d)
  BY <1>3, <1>4 DEF Used, KeysIn, Keyed
<1>6. Keyed(e) BY <1>5 DEF Keyed
<1>7. Counted(e, lost)
  <2>1. Cardinality(Used(e)) = Cardinality(Used(d)) - 1
    BY <1>4, UsedIsFinite, FS_RemoveElement
  <2> QED BY <2>1, <1>3, UsedIsFinite DEF Counted, Typed
<1>8. KeysIn(e) = KeysIn(d) \ {d.key[i]}
  <2>1. KeysIn(e) \subseteq KeysIn(d) \ {d.key[i]} BY <1>5 DEF KeysIn
  <2>2. ASSUME NEW j \in Used(d), d.key[j] # d.key[i] PROVE d.key[j] \in KeysIn(e)
    <3>1. j \in Used(e) BY <2>2, <1>4
    <3> QED BY <3>1, <1>5 DEF KeysIn
  <2> QED BY <2>1, <2>2 DEF KeysIn
<1>9. \A j \in Used(e) : m[e.key[j]] = e.val[j]
  BY <1>5, ValueOf
<1>10. MapOf(e) = m
  <2>1. m = [k \in KeysIn(e) |-> m[k]] BY <1>8
  <2> HIDE DEF m
  <2> QED BY <2>1, <1>3, <1>6, <1>9, MapIs
<1>11. Typed(e) BY <1>3
<1> QED BY <1>11, <1>6, <1>7, <1>10 DEF e, none

-----------------------------------------------------------------------------
\* What one call of dictionary_set() does to a sound table.
Stored(d, e, key, val) ==
  MapOf(e) = [k \in KeysIn(d) \cup {key} |-> IF k = key THEN val ELSE MapOf(d)[k]]

Effect(d, e, key, val, short) ==
  /\ short = "nothing" => Stored(d, e, key, val)
  /\ short = "val" => Stored(d, e, key, NULL)
  /\ short \in {"key", "slots"} => key \notin KeysIn(d) /\ MapOf(e) = MapOf(d)

\* dictionary_set() keeps the slots sound and has the effect a map would have,
\* whichever of its allocations comes back short.
LEMMA SetIs ==
  ASSUME NEW d, NEW lost \in Nat, Typed(d), Keyed(d), Counted(d, lost),
         NEW key \in Keys, NEW val \in Values \cup {NULL}, NEW short \in Missing(d, key, val)
  PROVE  LET e == dictionary_set(d, key, val, short) IN
           /\ Typed(e) /\ Keyed(e)
           /\ Counted(e, IF short = "key" THEN lost + 1 ELSE lost)
           /\ Effect(d, e, key, val, short)
<1> DEFINE e == dictionary_set(d, key, val, short)
           copy == IF short = "val" THEN NULL ELSE val
<1>0. copy \in Values \cup {NULL} OBVIOUS
<1>1. CASE Holding(d, key) # {}
  <2>1. PICK i \in Used(d) : d.key[i] = key BY <1>1 DEF Holding
  <2>2. First(Holding(d, key)) = i
    <3>1. Holding(d, key) = {i} BY <2>1, GetIs
    <3>2. {i} \subseteq Nat BY DEF Used, Slots, Typed
    <3> QED BY <3>1, <3>2, FirstIs
  <2>3. d.n > 0
    <3>1. Cardinality(Used(d)) # 0 BY UsedIsFinite, FS_EmptySet
    <3> QED BY <3>1, UsedIsFinite DEF Counted
  <2>4. e = [d EXCEPT !.val[i] = copy]
    BY <1>1, <2>2, <2>3 DEF dictionary_set
  <2>5. short # "key" /\ short # "slots" BY <1>1 DEF Missing
  <2> HIDE DEF copy, e
  <2>6. /\ Typed(e) /\ Keyed(e) /\ Used(e) = Used(d) /\ e.n = d.n /\ e.size = d.size
        /\ MapOf(e) = [k \in KeysIn(d) \cup {key} |-> IF k = key THEN copy ELSE MapOf(d)[k]]
    BY <1>0, <2>1, <2>4, OverwriteIs
  <2>7. Counted(e, lost) BY <2>6 DEF Counted
  <2>8. Effect(d, e, key, val, short) BY <2>5, <2>6 DEF Effect, Stored, copy
  <2> QED BY <2>5, <2>6, <2>7, <2>8 DEF e
<1>2. CASE Holding(d, key) = {} /\ short = "slots"
  <2>1. e = d BY <1>2 DEF dictionary_set
  <2>2. Effect(d, d, key, val, short) BY <1>2, NotHeld DEF Effect
  <2> QED BY <1>2, <2>1, <2>2
<1>3. CASE Holding(d, key) = {} /\ short # "slots"
  <2> DEFINE g == IF d.n = d.size THEN dictionary_grow(d) ELSE d
  <2>1. Typed(g) /\ Used(g) = Used(d) /\ g.n = d.n /\ g.n < g.size
        /\ \A i \in Used(d) : g.key[i] = d.key[i] /\ g.val[i] = d.val[i] /\ g.hash[i] = d.hash[i]
    <3>1. CASE d.n = d.size
      BY <3>1, GrowIs DEF Typed
    <3>2. CASE d.n # d.size
      BY <3>2 DEF Counted, Typed
    <3> QED BY <3>1, <3>2
  <2>2. e = Insert(g, key, copy, short)
    BY <1>3 DEF dictionary_set
  <2> HIDE DEF g, copy, e
  <2>3. Keyed(g) BY <2>1 DEF Keyed
  <2>4. Counted(g, lost) BY <2>1 DEF Counted, Typed
  <2>5. KeysIn(g) = KeysIn(d) BY <2>1 DEF KeysIn
  <2>6. MapOf(g) = MapOf(d)
    <3>1. MapOf(d) = [k \in KeysIn(g) |-> MapOf(d)[k]] BY <2>5 DEF MapOf
    <3>2. \A i \in Used(g) : MapOf(d)[g.key[i]] = g.val[i] BY <2>1, ValueOf
    <3> QED BY <3>1, <3>2, <2>1, <2>3, MapIs
  <2>7. key \notin KeysIn(d) BY <1>3, NotHeld
  <2>8. CASE short = "key"
    <3>1. /\ Typed(e) /\ Keyed(e) /\ Counted(e, lost + 1) /\ MapOf(e) = MapOf(g)
      BY <1>0, <2>1, <2>2, <2>3, <2>4, <2>8, LoseIs
    <3> QED BY <3>1, <2>6, <2>7, <2>8 DEF Effect, e
  <2>9. CASE short # "key"
    <3>1. /\ Typed(e) /\ Keyed(e) /\ Counted(e, lost)
          /\ MapOf(e) = [k \in KeysIn(g) \cup {key} |-> IF k = key THEN copy ELSE MapOf(g)[k]]
      BY <1>0, <2>1, <2>2, <2>3, <2>4, <2>5, <2>7, <2>9, InsertIs, SMTT(30)
    <3>2. Effect(d, e, key, val, short)
      BY <3>1, <2>5, <2>6, <2>9, <1>3 DEF Effect, Stored, copy
    <3> QED BY <3>1, <3>2, <2>9 DEF e
  <2> QED BY <2>8, <2>9
<1> QED BY <1>1, <1>2, <1>3

-----------------------------------------------------------------------------
\* The inductive invariant.  Without its arrays a dictionary stays empty.
DictInv ==
  /\ Typed(dict) /\ Keyed(dict) /\ Counted(dict, shortages.key)
  /\ shortages \in [{"val", "key", "slots"} -> Nat]
  /\ absent # {} => KeysIn(dict) = {}

\* dictionary_new() makes an empty map.
LEMMA NewIsSound ==
  DictInit => DictInv /\ MapOf(dict) = [k \in {} |-> NULL] /\ KeysIn(dict) = {}
<1> SUFFICES ASSUME DictInit
             PROVE  DictInv /\ MapOf(dict) = [k \in {} |-> NULL] /\ KeysIn(dict) = {}
  OBVIOUS
<1>1. Slots(dict) = 0 .. DICTMINSZ - 1 /\ dict.size = DICTMINSZ /\ dict.n = 0
  BY DEF DictInit, dictionary_new, Slots
<1>2. Typed(dict)
  BY <1>1, DictionaryAssumption DEF DictInit, dictionary_new, Typed
<1>3. Used(dict) = {}
  BY <1>1 DEF DictInit, dictionary_new, Used
<1>4. Keyed(dict) BY <1>3 DEF Keyed
<1>5. shortages \in [{"val", "key", "slots"} -> Nat] /\ shortages.key = 0
  BY DEF DictInit
<1>6. Counted(dict, 0)
  BY <1>1, <1>3, FS_EmptySet, DictionaryAssumption DEF Counted
<1>7. KeysIn(dict) = {} BY <1>3 DEF KeysIn
<1>8. MapOf(dict) = [k \in {} |-> NULL] BY <1>7 DEF MapOf
<1> QED BY <1>2, <1>4, <1>5, <1>6, <1>7, <1>8 DEF DictInv

\* A table that stays as it is stays sound.
LEMMA SameTable ==
  ASSUME DictInv, dict' = dict, absent' = absent, shortages' = shortages
  PROVE  DictInv' /\ MapOf(dict') = MapOf(dict) /\ KeysIn(dict') = KeysIn(dict)
<1>1. /\ Typed(dict') /\ Keyed(dict') /\ Counted(dict', shortages'.key)
      /\ KeysIn(dict') = KeysIn(dict)
  BY DEF DictInv
<1>2. DictInv' BY <1>1 DEF DictInv, Typed, Keyed, Counted, Used, Slots, KeysIn
<1> QED BY <1>1, <1>2

\* dictionary_set() keeps the table sound, and does what it says.
LEMMA SetIsSound ==
  ASSUME DictInv, NEW key \in Keys, NEW val \in Values \cup {NULL},
         NEW short \in Missing(dict, key, val), SetKey(key, val, short)
  PROVE  DictInv' /\ Effect(dict, dict', key, val, short)
<1>1. shortages.key \in Nat BY DEF DictInv
<1>2. dict' = dictionary_set(dict, key, val, short) /\ absent' = {} BY DEF SetKey
<1>3. /\ Typed(dict') /\ Keyed(dict') /\ Effect(dict, dict', key, val, short)
      /\ Counted(dict', IF short = "key" THEN shortages.key + 1 ELSE shortages.key)
  BY <1>1, <1>2, SetIs DEF DictInv
<1>4. short \in {"nothing", "val", "key", "slots"} BY DEF Missing
<1>5. /\ shortages' \in [{"val", "key", "slots"} -> Nat]
      /\ shortages'.key = IF short = "key" THEN shortages.key + 1 ELSE shortages.key
  BY <1>4 DEF SetKey, DictInv
<1> QED BY <1>2, <1>3, <1>5 DEF DictInv, Typed, Keyed, Counted, Used, Slots, KeysIn

\* dictionary_unset() keeps the table sound, and takes one key out.
LEMMA UnsetIsSound ==
  ASSUME DictInv, NEW key \in Keys, UnsetKey(key)
  PROVE  DictInv' /\ MapOf(dict') = [k \in KeysIn(dict) \ {key} |-> MapOf(dict)[k]]
<1>1. shortages' = shortages /\ absent' = absent /\ dict' = dictionary_unset(dict, key)
  BY DEF UnsetKey
<1>2. CASE Holding(dict, key) = {}
  <2>1. dict' = dict BY <1>1, <1>2 DEF dictionary_unset
  <2>2. DictInv' /\ MapOf(dict') = MapOf(dict) BY <1>1, <2>1, SameTable
  <2>3. key \notin KeysIn(dict) BY <1>2, NotHeld DEF DictInv
  <2>4. MapOf(dict) = [k \in KeysIn(dict) \ {key} |-> MapOf(dict)[k]]
    BY <2>3 DEF MapOf
  <2> QED BY <2>2, <2>4
<1>3. CASE Holding(dict, key) # {}
  <2>1. PICK i \in Used(dict) : dict.key[i] = key BY <1>3 DEF Holding
  <2>2. First(Holding(dict, key)) = i
    <3>1. Holding(dict, key) = {i} BY <2>1, GetIs DEF DictInv
    <3>2. {i} \subseteq Nat BY DEF Used, Slots, Typed, DictInv
    <3> QED BY <3>1, <3>2, FirstIs
  <2>3. dict' = Put(dict, i, NULL, NULL, 0, dict.n - 1)
    BY <1>1, <1>3, <2>2 DEF dictionary_unset
  <2>4. shortages.key \in Nat BY DEF DictInv
  <2>5. /\ Typed(dict') /\ Keyed(dict') /\ Counted(dict', shortages.key)
        /\ MapOf(dict') = [k \in KeysIn(dict) \ {key} |-> MapOf(dict)[k]]
    BY <2>1, <2>3, <2>4, RemoveIs DEF DictInv
  <2>6. absent = {} BY <2>1 DEF DictInv, KeysIn
  <2> QED BY <1>1, <2>5, <2>6 DEF DictInv, Typed, Keyed, Counted, Used, Slots, KeysIn
<1> QED BY <1>2, <1>3

\* No call leaves the slots unsound.
LEMMA CallIsSound == DictInv /\ [DictNext]_dictVars => DictInv'
<1> SUFFICES ASSUME DictInv, [DictNext]_dictVars PROVE DictInv'
  OBVIOUS
<1>1. CASE UNCHANGED <<dict, absent, shortages>>
  BY <1>1, SameTable
<1>2. ASSUME NEW key \in Keys, NEW val \in Values \cup {NULL},
             NEW short \in Missing(dict, key, val), SetKey(key, val, short)
      PROVE  DictInv'
  BY <1>2, SetIsSound
<1>3. ASSUME NEW key \in Keys, UnsetKey(key) PROVE DictInv'
  BY <1>3, UnsetIsSound
<1>4. ~UNCHANGED <<dict, absent, shortages>> =>
        \E key \in Keys :
          \/ \E val \in Values \cup {NULL} :
               \E short \in Missing(dict, key, val) : SetKey(key, val, short)
          \/ UnsetKey(key)
  BY DEF DictNext, CallDict, GetKey, EndDict, dictionary_del, UseNull, dictVars
<1> QED BY <1>1, <1>2, <1>3, <1>4

\* Whatever is called, the slots stay sound.
LEMMA AlwaysSound == DictSpec => []DictInv
<1>1. DictInit => DictInv BY NewIsSound
<1> QED BY <1>1, CallIsSound, PTL DEF DictSpec

\* No key is ever in two slots, n is right, and there is always a slot to be
\* found (dictionary.c:265-299).
THEOREM TableStaysSound == DictSpec => []SlotsSound
<1>1. DictInv => SlotsSound BY DEF DictInv, Keyed, Counted, SlotsSound
<1> QED BY <1>1, AlwaysSound, PTL

\* A value that is found, or that of the default.
LEMMA GetValue ==
  ASSUME DictInv, NEW key \in Keys, NEW def
  PROVE  dictionary_get(dict, key, def) =
           IF key \in KeysIn(dict) THEN MapOf(dict)[key] ELSE def
<1>1. CASE key \in KeysIn(dict)
  <2>1. PICK i \in Used(dict) : dict.key[i] = key BY <1>1 DEF KeysIn
  <2> QED BY <1>1, <2>1, GetIs DEF DictInv, MapOf
<1>2. CASE key \notin KeysIn(dict)
  <2>1. Holding(dict, key) = {} BY <1>2 DEF Holding, KeysIn
  <2> QED BY <1>2, <2>1 DEF dictionary_get
<1> QED BY <1>1, <1>2

\* Every call does to the map what the promise says of its arguments, and
\* returns what the promise says: what was last set for a key is what
\* dictionary_get() finds (dictionary.c:209-349).
THEOREM DictionaryImplementsMap == DictSpec => ImplementsMap
<1>1. DictInit => map!Init
  BY NewIsSound DEF map!Init, MapOf, DictInit
<1>2. DictInv /\ [DictNext]_dictVars => [map!Next]_<<MapOf(dict), call>>
  <2> SUFFICES ASSUME DictInv, [DictNext]_dictVars PROVE [map!Next]_<<MapOf(dict), call>>
    OBVIOUS
  <2>0. DOMAIN MapOf(dict) = KeysIn(dict) BY DEF MapOf
  <2>1. CASE UNCHANGED dictVars
    BY <2>1 DEF dictVars, MapOf, KeysIn, Used, Slots, dictionary_get, Holding
  <2>2. ASSUME NEW key \in Keys, NEW val \in Values \cup {NULL},
               NEW short \in Missing(dict, key, val), SetKey(key, val, short)
        PROVE  map!Next
    <3>1. Effect(dict, dict', key, val, short) BY <2>2, SetIsSound
    <3>2. short \in {"nothing", "val", "key", "slots"} BY DEF Missing
    <3>3. /\ call' = [op |-> "set", key |-> key, val |-> val, short |-> short,
                      ret |-> IF short = "slots" THEN -1 ELSE 0]
          /\ call.op \notin {"del", "killed"}
      BY <2>2 DEF SetKey, Running
    <3>4. map!Set(call')
      BY <2>0, <3>1, <3>2, <3>3 DEF map!Set, Effect, Stored, MapOf
    <3>5. call' \in map!Calls
      BY <3>2, <3>3 DEF map!Calls
    <3> QED BY <3>3, <3>4, <3>5 DEF map!Next
  <2>3. ASSUME NEW key \in Keys, UnsetKey(key) PROVE map!Next
    <3>1. MapOf(dict') = [k \in KeysIn(dict) \ {key} |-> MapOf(dict)[k]]
      BY <2>3, UnsetIsSound
    <3>2. call' = [op |-> "unset", key |-> key] /\ call.op \notin {"del", "killed"}
      BY <2>3 DEF UnsetKey, Running
    <3>3. map!Unset(call')
      BY <2>0, <3>1, <3>2 DEF map!Unset, MapOf
    <3>4. call' \in map!Calls
      BY <3>2 DEF map!Calls
    <3> QED BY <3>2, <3>3, <3>4 DEF map!Next
  <2>4. ASSUME NEW key \in Keys, NEW def \in Values, GetKey(key, def) PROVE map!Next
    <3>1. /\ call' = [op |-> "get", key |-> key, def |-> def,
                      ret |-> dictionary_get(dict, key, def)]
          /\ call.op \notin {"del", "killed"} /\ MapOf(dict') = MapOf(dict)
      BY <2>4, SameTable DEF GetKey, Running
    <3>2. dictionary_get(dict, key, def) =
            IF key \in KeysIn(dict) THEN MapOf(dict)[key] ELSE def
      BY GetValue
    <3>3. map!Get(call')
      BY <2>0, <3>1, <3>2 DEF map!Get, MapOf
    <3>4. dictionary_get(dict, key, def) \in Values \cup {NULL}
      <4>1. CASE key \in KeysIn(dict)
        <5>1. PICK i \in Used(dict) : dict.key[i] = key BY <4>1 DEF KeysIn
        <5>2. MapOf(dict)[key] = dict.val[i] BY <5>1, ValueOf DEF DictInv
        <5>3. dict.val[i] \in Values \cup {NULL} BY DEF DictInv, Typed, Used
        <5> QED BY <3>2, <4>1, <5>2, <5>3
      <4> QED BY <3>2, <4>1
    <3>5. call' \in map!Calls
      BY <3>1, <3>4 DEF map!Calls
    <3> QED BY <3>1, <3>3, <3>5 DEF map!Next
  <2>5. ASSUME EndDict PROVE map!Next
    <3>1. /\ call' = [op |-> "del"] \/ (call' = [op |-> "killed"] /\ absent # {})
          /\ call.op \notin {"del", "killed"} /\ MapOf(dict') = MapOf(dict)
      BY <2>5, SameTable DEF EndDict, dictionary_del, UseNull, Running
    <3>2. map!End(call')
      BY <2>0, <3>1 DEF map!End, MapOf, DictInv
    <3>3. call' \in map!Calls
      BY <3>1 DEF map!Calls
    <3> QED BY <3>1, <3>2, <3>3 DEF map!Next
  <2> QED BY <2>1, <2>2, <2>3, <2>4, <2>5 DEF DictNext, CallDict
<1> QED BY <1>1, <1>2, AlwaysSound, PTL DEF DictSpec, ImplementsMap, map!Spec, MapOf
-----------------------------------------------------------------------------
(* What is read into the dictionary. *)

\* The lines so far, and what there was no memory for.
FileTyped(f, gone) ==
  /\ f \in Seq(Lines) /\ gone \in Seq({"nothing", "line", "val", "key", "slots"})
  /\ Len(gone) = Len(f)

\* What line i says of a key.
SaidBy(f, gone, i) == IF gone[i] = "val" THEN NULL ELSE iniparser_line(f[i]).val

LastHeader(f, gone, s) ==
  \E h \in Headers(f, gone) :
    /\ iniparser_line(f[h]).name = s
    /\ \A g \in Headers(f, gone) : g <= h

SectionInv(f, gone, s) ==
  /\ s \in Sections
  /\ \A x \in Fields : s = SectionOf[x] <=> LastHeader(f, gone, SectionOf[x])

\* The dictionary has what the lines say of the fields.
ReadAs(d, f, gone) ==
  \A x \in Fields : LET about == About(f, gone, SectionOf[x], NameOfKey[x]) IN
    /\ KeyFor(x) \in KeysIn(d) <=> about # {}
    /\ \A i \in about : (\A j \in about : j <= i) => MapOf(d)[KeyFor(x)] = SaidBy(f, gone, i)

\* The buffer has what was read of the line that is coming.
LineInv ==
  /\ line = SubSeq(coming.text, 1, coming.at)
  /\ \/ coming = Nothing
     \/ coming.text \in Lines /\ coming.at \in 1 .. Len(coming.text)

ReadInv ==
  /\ FileTyped(file, lack)
  /\ load \in {"idle", "reading", "loaded", "failed", "killed"}
  /\ load \in {"idle", "reading"} => LineInv /\ SectionInv(file, lack, section)
  /\ load \in {"idle", "reading", "loaded"} => ReadAs(dict, file, lack)

\* What the file says with one line more.
Grows(f, gone, text, m, g, now) ==
  /\ FileTyped(f, gone) /\ text \in Lines
  /\ m \in {"nothing", "line", "val", "key", "slots"}
  /\ g = Append(f, text) /\ now = Append(gone, m)

\* One line more.
LEMMA LineMore ==
  ASSUME NEW f, NEW gone, NEW text, NEW m, NEW g, NEW now, Grows(f, gone, text, m, g, now)
  PROVE  /\ FileTyped(g, now) /\ Len(f) \in Nat /\ Len(g) = Len(f) + 1
         /\ DOMAIN f = 1 .. Len(f) /\ DOMAIN g = 1 .. Len(f) + 1
         /\ \A i \in 1 .. Len(f) : g[i] = f[i] /\ now[i] = gone[i]
         /\ g[Len(f) + 1] = text /\ now[Len(f) + 1] = m
<1>1. /\ f \in Seq(Lines) /\ gone \in Seq({"nothing", "line", "val", "key", "slots"})
      /\ Len(gone) = Len(f) /\ text \in Lines
      /\ m \in {"nothing", "line", "val", "key", "slots"}
      /\ g = Append(f, text) /\ now = Append(gone, m)
  BY DEF Grows, FileTyped
<1>2. /\ g \in Seq(Lines) /\ Len(g) = Len(f) + 1 /\ g[Len(f) + 1] = text
      /\ \A i \in 1 .. Len(f) : g[i] = f[i]
  BY <1>1, AppendProperties
<1>3. /\ now \in Seq({"nothing", "line", "val", "key", "slots"})
      /\ Len(now) = Len(gone) + 1 /\ now[Len(gone) + 1] = m
      /\ \A i \in 1 .. Len(gone) : now[i] = gone[i]
  BY <1>1, AppendProperties
<1>4. Len(f) \in Nat /\ DOMAIN f = 1 .. Len(f) /\ DOMAIN g = 1 .. Len(g)
  BY <1>1, <1>2, LenProperties
<1> QED BY <1>1, <1>2, <1>3, <1>4 DEF FileTyped

\* The headers with one line more.
LEMMA HeadersMore ==
  ASSUME NEW f, NEW gone, NEW text, NEW m, NEW g, NEW now, Grows(f, gone, text, m, g, now)
  PROVE  /\ Headers(g, now) =
              IF m # "line" /\ iniparser_line(text).kind = "section"
                THEN Headers(f, gone) \cup {Len(f) + 1} ELSE Headers(f, gone)
         /\ \A h \in Headers(f, gone) : h \in 1 .. Len(f) /\ g[h] = f[h]
<1>1. /\ Len(f) \in Nat
      /\ DOMAIN f = 1 .. Len(f) /\ DOMAIN g = 1 .. Len(f) + 1
      /\ \A i \in 1 .. Len(f) : g[i] = f[i] /\ now[i] = gone[i]
      /\ g[Len(f) + 1] = text /\ now[Len(f) + 1] = m
  BY LineMore
<1>2. \A i : i \in DOMAIN g <=> i \in DOMAIN f \/ i = Len(f) + 1
  BY <1>1
<1>3. \A i \in DOMAIN f : i \in Headers(g, now) <=> i \in Headers(f, gone)
  BY <1>1, <1>2, Zenon DEF Headers
<1>4. Len(f) + 1 \in Headers(g, now) <=> m # "line" /\ iniparser_line(text).kind = "section"
  BY <1>1, <1>2, Zenon DEF Headers
<1>5. Headers(g, now) \subseteq DOMAIN g /\ Headers(f, gone) \subseteq DOMAIN f
  BY DEF Headers
<1>6. \A h : h \in Headers(g, now) <=>
              \/ h \in Headers(f, gone)
              \/ h = Len(f) + 1 /\ m # "line" /\ iniparser_line(text).kind = "section"
  <2>1. Len(f) + 1 \notin DOMAIN f BY <1>1
  <2> QED BY <1>2, <1>3, <1>4, <1>5, <2>1, Zenon
<1>7. \A h \in Headers(f, gone) : h \in 1 .. Len(f) /\ g[h] = f[h]
  BY <1>1, <1>5
<1> QED BY <1>6, <1>7

\* A line stays under its header.
LEMMA UnderStays ==
  ASSUME NEW f, NEW gone, NEW text, NEW m, NEW g, NEW now, Grows(f, gone, text, m, g, now),
         NEW i \in 1 .. Len(f), NEW s
  PROVE  Under(g, now, i, s) <=> Under(f, gone, i, s)
<1>1. Len(f) \in Nat BY LineMore
<1>2. /\ \/ Headers(g, now) = Headers(f, gone)
         \/ Headers(g, now) = Headers(f, gone) \cup {Len(f) + 1}
      /\ \A h \in Headers(f, gone) : h \in 1 .. Len(f) /\ g[h] = f[h]
  BY HeadersMore
<1>3. \A h : h \in Headers(g, now) /\ h < i <=> h \in Headers(f, gone) /\ h < i
  BY <1>1, <1>2
<1>4. Under(g, now, i, s) <=>
        \E h : /\ h \in Headers(g, now) /\ h < i /\ iniparser_line(g[h]).name = s
               /\ \A c : c \in Headers(g, now) /\ c < i => ~(h < c)
  BY Zenon DEF Under
<1>5. Under(f, gone, i, s) <=>
        \E h : /\ h \in Headers(f, gone) /\ h < i /\ iniparser_line(f[h]).name = s
               /\ \A c : c \in Headers(f, gone) /\ c < i => ~(h < c)
  BY Zenon DEF Under
<1>6. \A h \in Headers(f, gone) : iniparser_line(g[h]).name = iniparser_line(f[h]).name
  BY <1>2
<1> QED BY <1>3, <1>4, <1>5, <1>6, Zenon

\* The new line is under the last header.
LEMMA UnderLast ==
  ASSUME NEW f, NEW gone, NEW text, NEW m, NEW g, NEW now, Grows(f, gone, text, m, g, now),
         ~(m # "line" /\ iniparser_line(text).kind = "section"), NEW s
  PROVE  /\ Under(g, now, Len(f) + 1, s) <=> LastHeader(f, gone, s)
         /\ LastHeader(g, now, s) <=> LastHeader(f, gone, s)
<1>1. Len(f) \in Nat BY LineMore
<1>2. /\ Headers(g, now) = Headers(f, gone)
      /\ \A h \in Headers(f, gone) : h \in 1 .. Len(f) /\ g[h] = f[h]
  BY HeadersMore
<1>3. \A h, c \in Headers(f, gone) :
        h < Len(f) + 1 /\ (~(h < c /\ c < Len(f) + 1) <=> c <= h)
  BY <1>1, <1>2
<1>4. \A h \in Headers(f, gone) : iniparser_line(g[h]).name = iniparser_line(f[h]).name
  BY <1>2
<1> QED BY <1>2, <1>3, <1>4, Zenon DEF Under, LastHeader

\* After a header, it is the last.
LEMMA LastIsNew ==
  ASSUME NEW f, NEW gone, NEW text, NEW m, NEW g, NEW now, Grows(f, gone, text, m, g, now),
         m # "line", iniparser_line(text).kind = "section", NEW s
  PROVE  LastHeader(g, now, s) <=> iniparser_line(text).name = s
<1>1. Len(f) \in Nat /\ g[Len(f) + 1] = text BY LineMore
<1>2. /\ Headers(g, now) = Headers(f, gone) \cup {Len(f) + 1}
      /\ \A h \in Headers(f, gone) : h \in 1 .. Len(f)
  BY HeadersMore
<1>3. \A h \in Headers(g, now) : h <= Len(f) + 1 /\ (Len(f) + 1 <= h => h = Len(f) + 1)
  BY <1>1, <1>2
<1>4. Len(f) + 1 \in Headers(g, now) BY <1>2
<1> QED BY <1>1, <1>3, <1>4 DEF LastHeader

\* Names of one token and of two.
LEMMA ShortNames ==
  ASSUME NEW a \in Tokens, NEW b \in Tokens
  PROVE  /\ <<a>> \in Seq(Tokens) /\ Len(<<a>>) = 1 /\ <<a>>[1] = a
         /\ <<a, b>> \in Seq(Tokens) /\ Len(<<a, b>>) = 2 /\ <<a, b>>[1] = a /\ <<a, b>>[2] = b
<1>1. <<a>> \in Seq(Tokens) /\ Len(<<a>>) = 1 /\ <<a>>[1] = a OBVIOUS
<1>2. <<a, b>> \in Seq(Tokens) OBVIOUS
<1>3. Len(<<a, b>>) = 2 /\ <<a, b>>[1] = a /\ <<a, b>>[2] = b OBVIOUS
<1> QED BY <1>1, <1>2, <1>3

\* What a key is made of.
LEMMA KeyParts ==
  ASSUME NEW s \in Seq(Tokens), NEW n \in Seq(Tokens)
  PROVE  /\ KeyIn(n, s) \in Seq(Tokens) /\ Len(KeyIn(n, s)) = Len(s) + 1 + Len(n)
         /\ \A i \in 1 .. Len(s) : KeyIn(n, s)[i] = s[i]
         /\ KeyIn(n, s)[Len(s) + 1] = ":"
         /\ \A i \in 1 .. Len(n) : KeyIn(n, s)[Len(s) + 1 + i] = n[i]
<1>1. PICK c : c = <<":">> OBVIOUS
<1>2. c \in Seq(Tokens) /\ Len(c) = 1 /\ c[1] = ":"
  <2>1. ":" \in Tokens BY IniAssumption
  <2> QED BY <1>1, <2>1
<1>3. PICK q : q = s \o c OBVIOUS
<1>4. PICK w : w = q \o n OBVIOUS
<1>5. Len(s) \in Nat /\ Len(n) \in Nat BY LenProperties
<1>6. /\ q \in Seq(Tokens) /\ Len(q) = Len(s) + 1
      /\ \A i \in 1 .. Len(s) + 1 : q[i] = IF i <= Len(s) THEN s[i] ELSE c[i - Len(s)]
  BY <1>2, <1>3, ConcatProperties
<1>7. /\ w \in Seq(Tokens) /\ Len(w) = Len(q) + Len(n)
      /\ \A i \in 1 .. Len(q) + Len(n) : w[i] = IF i <= Len(q) THEN q[i] ELSE n[i - Len(q)]
  BY <1>4, <1>6, ConcatProperties
<1>8. KeyIn(n, s) = w BY <1>1, <1>3, <1>4 DEF KeyIn
<1>9. q[Len(s) + 1] = ":" BY <1>2, <1>5, <1>6
<1>10. \A i \in 1 .. Len(s) : w[i] = s[i] BY <1>5, <1>6, <1>7
<1>11. w[Len(s) + 1] = ":" BY <1>5, <1>6, <1>7, <1>9
<1>12. ASSUME NEW i \in 1 .. Len(n) PROVE w[Len(s) + 1 + i] = n[i]
  <2>1. /\ Len(s) + 1 + i \in 1 .. Len(q) + Len(n) /\ ~(Len(s) + 1 + i <= Len(q))
        /\ Len(s) + 1 + i - Len(q) = i
    BY <1>5, <1>6
  <2>2. w[Len(s) + 1 + i] = n[Len(s) + 1 + i - Len(q)] BY <1>7, <2>1
  <2> QED BY <2>1, <2>2
<1> QED BY <1>6, <1>7, <1>8, <1>10, <1>11, <1>12

\* The sections and keys of the program.
LEMMA FieldFacts ==
  ASSUME NEW x \in Fields
  PROVE  /\ SectionOf[x] \in Seq(Tokens) /\ Len(SectionOf[x]) = 2
         /\ SectionOf[x][1] # ":" /\ SectionOf[x][2] # ":"
         /\ <<NameOfKey[x]>> \in Seq(Tokens) /\ Len(<<NameOfKey[x]>>) = 1
         /\ <<NameOfKey[x]>>[1] = NameOfKey[x] /\ NameOfKey[x] # ":"
         /\ KeyFor(x) \in Keys /\ KeyFor(x) \in Seq(Tokens) /\ Len(KeyFor(x)) = 4
         /\ SectionOf[x] \in Sections
<1>1. KeyFor(x) \in Keys /\ SectionOf[x] \in Sections BY FieldsAssumption
<1>2. PICK a \in {"d", "s"}, b \in {"atabase", "erver"}, k \in {"ip", "port", "user", "pwd", "db"} :
        SectionOf[x] = <<a, b>> /\ NameOfKey[x] = k
  BY DEF Fields, Texts, Ports, SectionOf, NameOfKey, database, server
<1>3. /\ SectionOf[x] \in Seq(Tokens) /\ Len(SectionOf[x]) = 2
      /\ SectionOf[x][1] # ":" /\ SectionOf[x][2] # ":"
  <2>1. SectionOf[x] \in Seq(Tokens) BY <1>1, IniAssumption
  <2>2. Len(<<a, b>>) = 2 /\ <<a, b>>[1] = a /\ <<a, b>>[2] = b OBVIOUS
  <2>3. a # ":" /\ b # ":" OBVIOUS
  <2> QED BY <1>2, <2>1, <2>2, <2>3
<1>4. /\ <<NameOfKey[x]>> \in Seq(Tokens) /\ Len(<<NameOfKey[x]>>) = 1
      /\ <<NameOfKey[x]>>[1] = NameOfKey[x] /\ NameOfKey[x] # ":"
  <2>1. NameOfKey[x] \in Tokens BY FieldsAssumption
  <2>2. NameOfKey[x] # ":" BY <1>2
  <2> QED BY <2>1, <2>2, ShortNames
<1>5. KeyFor(x) \in Seq(Tokens) /\ Len(KeyFor(x)) = 4
  <2>1. PICK s \in Seq(Tokens) : s = SectionOf[x] /\ Len(s) = 2 BY <1>3
  <2>2. PICK n \in Seq(Tokens) : n = <<NameOfKey[x]>> /\ Len(n) = 1 BY <1>4
  <2>3. KeyIn(n, s) \in Seq(Tokens) /\ Len(KeyIn(n, s)) = Len(s) + 1 + Len(n) BY KeyParts
  <2> QED BY <2>1, <2>2, <2>3 DEF KeyFor
<1> QED BY <1>1, <1>3, <1>4, <1>5

\* Two names can make the key of a field in one way only.
LEMMA KeyOf ==
  ASSUME NEW x \in Fields, NEW s \in Seq(Tokens), NEW n \in Seq(Tokens), n # << >>
  PROVE  KeyIn(n, s) = KeyFor(x) <=> s = SectionOf[x] /\ n = <<NameOfKey[x]>>
<1>1. s = SectionOf[x] /\ n = <<NameOfKey[x]>> => KeyIn(n, s) = KeyFor(x)
  BY DEF KeyFor
<1>2. ASSUME KeyIn(n, s) = KeyFor(x) PROVE s = SectionOf[x] /\ n = <<NameOfKey[x]>>
  <2>1. PICK t \in Seq(Tokens) : t = SectionOf[x] /\ Len(t) = 2 /\ t[1] # ":" /\ t[2] # ":"
    BY FieldFacts
  <2>2. PICK k \in Seq(Tokens) : k = <<NameOfKey[x]>> /\ Len(k) = 1 /\ k[1] # ":"
    BY FieldFacts
  <2>3. PICK w : w = KeyIn(n, s) OBVIOUS
  <2>4. w = KeyIn(k, t) BY <1>2, <2>1, <2>2, <2>3 DEF KeyFor
  <2>5. /\ Len(w) = 4 /\ w[1] = t[1] /\ w[2] = t[2] /\ w[3] = ":" /\ w[4] = k[1]
    <3>1. /\ Len(w) = Len(t) + 1 + Len(k) /\ w[Len(t) + 1] = ":"
          /\ \A i \in 1 .. Len(t) : w[i] = t[i]
          /\ \A i \in 1 .. Len(k) : w[Len(t) + 1 + i] = k[i]
      BY <2>4, KeyParts
    <3>2. w[1] = t[1] /\ w[2] = t[2] BY <2>1, <3>1
    <3>3. w[Len(t) + 1 + 1] = k[1] BY <2>2, <3>1
    <3>4. Len(t) + 1 = 3 /\ Len(t) + 1 + 1 = 4 BY <2>1
    <3> QED BY <2>1, <2>2, <3>1, <3>2, <3>3, <3>4
  <2>6. /\ Len(w) = Len(s) + 1 + Len(n) /\ w[Len(s) + 1] = ":"
        /\ \A i \in 1 .. Len(s) : w[i] = s[i]
        /\ \A i \in 1 .. Len(n) : w[Len(s) + 1 + i] = n[i]
    <3>1. /\ Len(KeyIn(n, s)) = Len(s) + 1 + Len(n) /\ KeyIn(n, s)[Len(s) + 1] = ":"
          /\ \A i \in 1 .. Len(s) : KeyIn(n, s)[i] = s[i]
          /\ \A i \in 1 .. Len(n) : KeyIn(n, s)[Len(s) + 1 + i] = n[i]
      BY KeyParts, Zenon
    <3> QED BY <2>3, <3>1, Zenon
  <2>7. Len(s) \in Nat /\ Len(n) \in Nat /\ Len(n) # 0
    BY LenProperties, EmptySeq
  <2>8. Len(s) # 0 /\ Len(s) # 1
    BY <2>1, <2>5, <2>6
  <2>9. Len(s) = 2 /\ Len(n) = 1
    <3>1. Len(s) + 1 + Len(n) = 4 BY <2>5, <2>6
    <3>2. \A i, j \in Nat : i + 1 + j = 4 /\ j # 0 /\ i # 0 /\ i # 1 => i = 2 /\ j = 1
      OBVIOUS
    <3> QED BY <2>7, <2>8, <3>1, <3>2, Zenon
  <2>10. s[1] = t[1] /\ s[2] = t[2] /\ n[1] = k[1]
    BY <2>5, <2>6, <2>9
  <2>11. s = t BY <2>1, <2>9, <2>10, SeqEqual
  <2>12. n = k BY <2>2, <2>9, <2>10, SeqEqual
  <2> QED BY <2>1, <2>2, <2>11, <2>12
<1> QED BY <1>1, <1>2

-----------------------------------------------------------------------------
\* What a line does to what has been read.

\* A line says something of the key "s:k".
Speaks(f, gone, text, s, k) ==
  LET l == iniparser_line(text) IN
  \/ l.kind = "value" /\ l.name = <<k>> /\ LastHeader(f, gone, s)
  \/ l.kind = "section" /\ l.name = KeyIn(<<k>>, s)

\* Of a key, a new line says something, or nothing, and the others what they said.
LEMMA AboutMore ==
  ASSUME NEW f, NEW gone, NEW text, NEW m, NEW g, NEW now, Grows(f, gone, text, m, g, now),
         NEW s, NEW k
  PROVE  /\ About(g, now, s, k) =
              IF m \notin {"line", "key", "slots"} /\ Speaks(f, gone, text, s, k)
                THEN About(f, gone, s, k) \cup {Len(f) + 1} ELSE About(f, gone, s, k)
         /\ \A i \in About(f, gone, s, k) :
              i \in 1 .. Len(f) /\ SaidBy(g, now, i) = SaidBy(f, gone, i)
         /\ SaidBy(g, now, Len(f) + 1) = IF m = "val" THEN NULL ELSE iniparser_line(text).val
<1>1. /\ Len(f) \in Nat
      /\ DOMAIN f = 1 .. Len(f) /\ DOMAIN g = 1 .. Len(f) + 1
      /\ \A i \in 1 .. Len(f) : g[i] = f[i] /\ now[i] = gone[i]
      /\ g[Len(f) + 1] = text /\ now[Len(f) + 1] = m
  BY LineMore
<1>2. \A i : i \in DOMAIN g <=> i \in DOMAIN f \/ i = Len(f) + 1
  BY <1>1
<1>3. ASSUME NEW i \in DOMAIN f
      PROVE  i \in About(g, now, s, k) <=> i \in About(f, gone, s, k)
  <2>1. i \in DOMAIN g /\ g[i] = f[i] /\ now[i] = gone[i]
    BY <1>1, <1>2
  <2>2. Under(g, now, i, s) <=> Under(f, gone, i, s)
    BY <1>1, UnderStays
  <2> QED BY <2>1, <2>2, Zenon DEF About
<1>4. Len(f) + 1 \in About(g, now, s, k) <=>
        m \notin {"line", "key", "slots"} /\ Speaks(f, gone, text, s, k)
  <2>1. Len(f) + 1 \in DOMAIN g BY <1>2
  <2>2. iniparser_line(text).kind = "value" =>
          (Under(g, now, Len(f) + 1, s) <=> LastHeader(f, gone, s))
    BY UnderLast
  <2> QED BY <1>1, <2>1, <2>2 DEF About, Speaks
<1>5. About(g, now, s, k) \subseteq DOMAIN g /\ About(f, gone, s, k) \subseteq DOMAIN f
  BY DEF About
<1>6. Len(f) + 1 \notin DOMAIN f
  BY <1>1
<1>7. \A i : i \in About(g, now, s, k) <=>
        \/ i \in About(f, gone, s, k)
        \/ i = Len(f) + 1 /\ m \notin {"line", "key", "slots"} /\ Speaks(f, gone, text, s, k)
  BY <1>2, <1>3, <1>4, <1>5, <1>6, Zenon
<1>8. \A i \in About(f, gone, s, k) :
        i \in 1 .. Len(f) /\ SaidBy(g, now, i) = SaidBy(f, gone, i)
  BY <1>1, <1>5 DEF SaidBy
<1>9. SaidBy(g, now, Len(f) + 1) = IF m = "val" THEN NULL ELSE iniparser_line(text).val
  BY <1>1 DEF SaidBy
<1> QED BY <1>7, <1>8, <1>9

\* A line that says nothing of the program's keys, or for which there was no memory.
LEMMA NothingSaid ==
  ASSUME NEW f, NEW gone, NEW text, NEW m, NEW g, NEW now, Grows(f, gone, text, m, g, now),
         NEW d, NEW e, MapOf(e) = MapOf(d), ReadAs(d, f, gone),
         \A x \in Fields :
           m \in {"line", "key", "slots"} \/ ~Speaks(f, gone, text, SectionOf[x], NameOfKey[x])
  PROVE  ReadAs(e, g, now)
<1>1. KeysIn(e) = KeysIn(d)
  <2>1. DOMAIN MapOf(e) = KeysIn(e) /\ DOMAIN MapOf(d) = KeysIn(d) BY DEF MapOf
  <2> QED BY <2>1
<1> SUFFICES ASSUME NEW x \in Fields
             PROVE  LET about == About(g, now, SectionOf[x], NameOfKey[x]) IN
                      /\ KeyFor(x) \in KeysIn(e) <=> about # {}
                      /\ \A i \in about : (\A j \in about : j <= i) =>
                           MapOf(e)[KeyFor(x)] = SaidBy(g, now, i)
  BY DEF ReadAs
<1>2. /\ About(g, now, SectionOf[x], NameOfKey[x]) = About(f, gone, SectionOf[x], NameOfKey[x])
      /\ \A i \in About(f, gone, SectionOf[x], NameOfKey[x]) :
           SaidBy(g, now, i) = SaidBy(f, gone, i)
  BY AboutMore
<1> QED BY <1>1, <1>2 DEF ReadAs

\* A line that is stored under the key it speaks of.
LEMMA LineStored ==
  ASSUME NEW f, NEW gone, NEW text, NEW m, NEW g, NEW now, Grows(f, gone, text, m, g, now),
         m # "line",
         NEW d, NEW e, NEW key, Effect(d, e, key, iniparser_line(text).val, m), ReadAs(d, f, gone),
         \A x \in Fields :
           key = KeyFor(x) <=> Speaks(f, gone, text, SectionOf[x], NameOfKey[x])
  PROVE  ReadAs(e, g, now)
<1>1. m \in {"nothing", "val", "key", "slots"} BY DEF Grows
<1>2. CASE m \in {"key", "slots"}
  BY <1>2, NothingSaid DEF Effect
<1>3. CASE m \in {"nothing", "val"}
  <2> DEFINE val == IF m = "val" THEN NULL ELSE iniparser_line(text).val
  <2>1. Stored(d, e, key, val) BY <1>3 DEF Effect
  <2>2. Len(f) \in Nat BY LineMore
  <2>3. SaidBy(g, now, Len(f) + 1) = val BY AboutMore
  <2> HIDE DEF val
  <2>4. KeysIn(e) = KeysIn(d) \cup {key}
    <3>1. DOMAIN MapOf(e) = KeysIn(e) BY DEF MapOf
    <3> QED BY <2>1, <3>1 DEF Stored
  <2> SUFFICES ASSUME NEW x \in Fields
               PROVE  LET about == About(g, now, SectionOf[x], NameOfKey[x]) IN
                        /\ KeyFor(x) \in KeysIn(e) <=> about # {}
                        /\ \A i \in about : (\A j \in about : j <= i) =>
                             MapOf(e)[KeyFor(x)] = SaidBy(g, now, i)
    BY DEF ReadAs
  <2> DEFINE A == About(f, gone, SectionOf[x], NameOfKey[x])
             B == About(g, now, SectionOf[x], NameOfKey[x])
  <2>5. /\ B = IF Speaks(f, gone, text, SectionOf[x], NameOfKey[x]) THEN A \cup {Len(f) + 1} ELSE A
        /\ \A i \in A : i \in 1 .. Len(f) /\ SaidBy(g, now, i) = SaidBy(f, gone, i)
    <3>1. m \notin {"line", "key", "slots"} BY <1>3
    <3>2. \A s, k :
            /\ About(g, now, s, k) =
                 IF m \notin {"line", "key", "slots"} /\ Speaks(f, gone, text, s, k)
                   THEN About(f, gone, s, k) \cup {Len(f) + 1} ELSE About(f, gone, s, k)
            /\ \A i \in About(f, gone, s, k) :
                 i \in 1 .. Len(f) /\ SaidBy(g, now, i) = SaidBy(f, gone, i)
      BY AboutMore
    <3> QED BY <3>1, <3>2
  <2>6. /\ KeyFor(x) \in KeysIn(d) <=> A # {}
        /\ \A i \in A : (\A j \in A : j <= i) => MapOf(d)[KeyFor(x)] = SaidBy(f, gone, i)
    BY DEF ReadAs
  <2> HIDE DEF A, B
  <2>7. CASE key = KeyFor(x)
    <3>1. B = A \cup {Len(f) + 1} BY <2>5, <2>7
    <3>2. MapOf(e)[KeyFor(x)] = val BY <2>1, <2>7 DEF Stored
    <3>3. ASSUME NEW i \in B, \A j \in B : j <= i PROVE i = Len(f) + 1
      <4>1. Len(f) + 1 <= i BY <3>1, <3>3
      <4>2. CASE i \in A
        <5>1. i \in 1 .. Len(f) BY <2>5, <4>2
        <5> QED BY <2>2, <4>1, <5>1
      <4>3. CASE i \notin A BY <3>1, <4>3
      <4> QED BY <4>2, <4>3
    <3>4. B # {} /\ KeyFor(x) \in KeysIn(e) BY <2>4, <2>7, <3>1
    <3>5. ASSUME NEW i \in B, \A j \in B : j <= i
          PROVE  MapOf(e)[KeyFor(x)] = SaidBy(g, now, i)
      <4>1. i = Len(f) + 1 BY <3>3, <3>5, Zenon
      <4> QED BY <2>3, <3>2, <4>1, Zenon
    <3> QED BY <3>4, <3>5, Zenon DEF B
  <2>8. CASE key # KeyFor(x)
    <3>1. B = A BY <2>5, <2>8
    <3>2. KeyFor(x) \in KeysIn(e) <=> KeyFor(x) \in KeysIn(d) BY <2>4, <2>8
    <3>3. KeyFor(x) \in KeysIn(d) => MapOf(e)[KeyFor(x)] = MapOf(d)[KeyFor(x)]
      BY <2>1, <2>8 DEF Stored
    <3> QED BY <2>5, <2>6, <3>1, <3>2, <3>3 DEF B
  <2> QED BY <2>7, <2>8
<1> QED BY <1>1, <1>2, <1>3

\* A line that is no header leaves the section alone.
LEMMA SectionStays ==
  ASSUME NEW f, NEW gone, NEW text, NEW m, NEW g, NEW now, Grows(f, gone, text, m, g, now),
         ~(m # "line" /\ iniparser_line(text).kind = "section"),
         NEW s, SectionInv(f, gone, s)
  PROVE  SectionInv(g, now, s)
<1>1. \A x \in Fields : LastHeader(g, now, SectionOf[x]) <=> LastHeader(f, gone, SectionOf[x])
  BY UnderLast
<1> QED BY <1>1 DEF SectionInv

\* A header starts its section, and one without a name none of the program's.
LEMMA SectionStarts ==
  ASSUME NEW f, NEW gone, NEW text, NEW m, NEW g, NEW now, Grows(f, gone, text, m, g, now),
         m # "line", iniparser_line(text).kind = "section",
         NEW s, SectionInv(f, gone, s), NEW r, r = SectionIn(iniparser_line(text), s)
  PROVE  /\ SectionInv(g, now, r) /\ r \in Keys /\ iniparser_line(text).val = NULL
         /\ \A x \in Fields :
              r = KeyFor(x) <=> Speaks(f, gone, text, SectionOf[x], NameOfKey[x])
<1>1. PICK n : n = iniparser_line(text).name OBVIOUS
<1>2. text \in Lines /\ s \in Sections BY DEF Grows, SectionInv
<1>3. n \in Sections /\ n \in Seq(Tokens) /\ s \in Seq(Tokens) BY <1>1, <1>2, IniAssumption
<1>4. iniparser_line(text).val = NULL BY DEF iniparser_line, Line
<1>5. r = n \/ (n = << >> /\ Len(r) = 1 /\ r \in Sections)
  <2>1. CASE n # << >> \/ s = << >>
    BY <1>1, <2>1 DEF SectionIn
  <2>2. CASE n = << >> /\ s # << >>
    <3>1. r = SubSeq(s, 1, 1) BY <1>1, <2>2 DEF SectionIn
    <3>2. Len(s) \in Nat /\ Len(s) # 0 BY <1>3, <2>2, LenProperties, EmptySeq
    <3>3. Len(r) = 1 BY <1>3, <3>1, <3>2
    <3>4. r \in Sections BY <1>2, <2>2, <3>1, IniAssumption
    <3> QED BY <2>2, <3>3, <3>4
  <2> QED BY <2>1, <2>2
<1>6. r \in Sections /\ r \in Keys BY <1>3, <1>5, IniAssumption
<1>7. Len(<< >>) = 0 OBVIOUS
<1>8. ASSUME NEW x \in Fields
      PROVE  (r = KeyFor(x) <=> n = KeyFor(x)) /\ (r = SectionOf[x] <=> n = SectionOf[x])
  <2>1. Len(KeyFor(x)) = 4 /\ Len(SectionOf[x]) = 2 BY FieldFacts
  <2> QED BY <1>5, <1>7, <2>1
<1>9. SectionInv(g, now, r)
  <2>1. \A x \in Fields : LastHeader(g, now, SectionOf[x]) <=> n = SectionOf[x]
    BY <1>1, LastIsNew
  <2> QED BY <1>6, <1>8, <2>1 DEF SectionInv
<1>10. \A x \in Fields : Speaks(f, gone, text, SectionOf[x], NameOfKey[x]) <=> n = KeyFor(x)
  BY <1>1 DEF Speaks, KeyFor
<1> QED BY <1>4, <1>6, <1>8, <1>9, <1>10

\* An assignment is stored under the key it is for.
LEMMA ValueKey ==
  ASSUME NEW f, NEW gone, NEW text \in Lines, iniparser_line(text).kind = "value",
         NEW s, SectionInv(f, gone, s)
  PROVE  LET key == KeyIn(iniparser_line(text).name, s) IN
         /\ key \in Keys /\ iniparser_line(text).val \in Values
         /\ \A x \in Fields :
              key = KeyFor(x) <=> Speaks(f, gone, text, SectionOf[x], NameOfKey[x])
<1>1. PICK n : n = iniparser_line(text).name OBVIOUS
<1>2. s \in Sections BY DEF SectionInv
<1>3. /\ n \in Seq(Tokens) /\ s \in Seq(Tokens)
      /\ KeyIn(n, s) \in Keys /\ iniparser_line(text).val \in Values
  BY <1>1, <1>2, IniAssumption
<1>4. n # << >> BY <1>1 DEF iniparser_line, Line
<1>5. ASSUME NEW x \in Fields
      PROVE  KeyIn(n, s) = KeyFor(x) <=> Speaks(f, gone, text, SectionOf[x], NameOfKey[x])
  <2>1. KeyIn(n, s) = KeyFor(x) <=> s = SectionOf[x] /\ n = <<NameOfKey[x]>>
    BY <1>3, <1>4, KeyOf
  <2>2. s = SectionOf[x] <=> LastHeader(f, gone, SectionOf[x]) BY DEF SectionInv
  <2> QED BY <1>1, <2>1, <2>2 DEF Speaks
<1> QED BY <1>1, <1>3, <1>5

-----------------------------------------------------------------------------
\* The steps of iniparser_load().

\* The dictionary is left alone, or a value is set.
LEMMA SoundOrSet ==
  ASSUME DictInv, UNCHANGED dictVars \/ dictionary_del \/ \E arrays : UseNull(arrays)
  PROVE  DictInv' /\ dict' = dict /\ MapOf(dict') = MapOf(dict)
<1>1. dict' = dict /\ absent' = absent /\ shortages' = shortages
  BY DEF dictVars, dictionary_del, UseNull
<1> QED BY <1>1, SameTable

\* A line that is a header or an assignment.
LEMMA AssignRead ==
  ASSUME ReadInv, DictInv, load = "reading", LineInv',
         NEW text \in Lines, file' = Append(file, text),
         NEW key \in Keys, NEW val \in Values \cup {NULL}, val = iniparser_line(text).val,
         Assign(key, val),
         \A x \in Fields :
           key = KeyFor(x) <=> Speaks(file, lack, text, SectionOf[x], NameOfKey[x]),
         \A m : m # "line" /\ Grows(file, lack, text, m, file', lack')
                  => SectionInv(file', lack', section')
  PROVE  ReadInv' /\ DictInv'
<1>1. CASE \E short \in Missing(dict, key, val) :
             /\ SetKey(key, val, short)
             /\ lack' = Append(lack, short)
             /\ load' = IF short # "slots" THEN "reading" ELSE IF errs THEN "failed" ELSE "loaded"
  <2>1. PICK short \in Missing(dict, key, val) :
             /\ SetKey(key, val, short)
             /\ lack' = Append(lack, short)
             /\ load' = IF short # "slots" THEN "reading" ELSE IF errs THEN "failed" ELSE "loaded"
    BY <1>1
  <2>2. DictInv' /\ Effect(dict, dict', key, val, short) BY <2>1, SetIsSound
  <2>3. short \in {"nothing", "val", "key", "slots"} BY DEF Missing
  <2>4. short # "line" /\ Grows(file, lack, text, short, file', lack')
    BY <2>1, <2>3 DEF Grows, ReadInv
  <2>5. FileTyped(file', lack') BY <2>4, LineMore
  <2>6. ReadAs(dict, file, lack) BY DEF ReadInv
  <2>7. ReadAs(dict', file', lack') BY <2>2, <2>4, <2>6, LineStored
  <2>8. SectionInv(file', lack', section') BY <2>4
  <2>9. load' \in {"idle", "reading", "loaded", "failed", "killed"} BY <2>1
  <2> QED BY <2>2, <2>5, <2>7, <2>8, <2>9 DEF ReadInv
<1>2. CASE UseNull(Arrays) /\ lack' = Append(lack, "nothing") /\ load' = "killed"
  <2>1. DictInv' BY <1>2, SoundOrSet
  <2>2. Grows(file, lack, text, "nothing", file', lack') BY <1>2 DEF Grows, ReadInv
  <2>3. FileTyped(file', lack') BY <2>2, LineMore
  <2> QED BY <1>2, <2>1, <2>3 DEF ReadInv
<1> QED BY <1>1, <1>2 DEF Assign

\* A line in which nothing is stored.
LEMMA LineIgnored ==
  ASSUME ReadInv, DictInv, load = "reading", LineInv',
         NEW text \in Lines, file' = Append(file, text),
         NEW m \in {"nothing", "line"}, lack' = Append(lack, m),
         UNCHANGED <<dictVars, section, load>>,
         m = "line" \/ iniparser_line(text).kind \in {"empty", "comment", "error"}
  PROVE  ReadInv' /\ DictInv'
<1>1. Grows(file, lack, text, m, file', lack') BY DEF Grows, ReadInv
<1>2. DictInv' /\ MapOf(dict') = MapOf(dict) BY SoundOrSet
<1>3. FileTyped(file', lack') BY <1>1, LineMore
<1>4. ReadAs(dict, file, lack) /\ SectionInv(file, lack, section) BY DEF ReadInv
<1>5. ReadAs(dict', file', lack') BY <1>1, <1>2, <1>4, NothingSaid DEF Speaks
<1>6. SectionInv(file', lack', section') BY <1>1, <1>4, SectionStays
<1> QED BY <1>2, <1>3, <1>5, <1>6 DEF ReadInv

\* A round of the loop.
LEMMA LineRead ==
  ASSUME ReadInv, DictInv, NEW text \in Lines, NEW n \in 0 .. Len(text), ReadLine(text, n)
  PROVE  ReadInv' /\ DictInv'
<1>1. PICK all : all = line \o SubSeq(text, coming.at + 1, n) OBVIOUS
<1>2. text \in Seq(Tokens) /\ Len(text) \in Nat BY IniAssumption, LenProperties
<1>3. LineInv /\ load = "reading" BY DEF ReadInv, ReadLine
<1>4. /\ coming.at \in 0 .. n
      /\ line = SubSeq(text, 1, coming.at)
  <2>1. CASE coming = Nothing
    <3>1. coming.at = 0 /\ coming.text = << >> BY <2>1 DEF Nothing
    <3>2. line = << >> /\ SubSeq(text, 1, 0) = << >>
      BY <1>3, <3>1, SubSeqEmpty DEF LineInv
    <3> QED BY <1>2, <3>1, <3>2
  <2>2. CASE coming # Nothing
    <3>1. coming.text \in Lines /\ coming.at \in 1 .. Len(coming.text) /\ text = coming.text
      BY <1>3, <2>2 DEF LineInv, ReadLine
    <3>2. n >= coming.at BY DEF ReadLine
    <3> QED BY <1>2, <1>3, <3>1, <3>2 DEF LineInv
  <2> QED BY <2>1, <2>2
<1>5. all = SubSeq(text, 1, n)
  <2>1. 1 \in 1 .. Len(text) + 1 /\ coming.at \in 1 - 1 .. Len(text) /\ n \in coming.at .. Len(text)
    BY <1>2, <1>4
  <2>2. SubSeq(text, 1, coming.at) \o SubSeq(text, coming.at + 1, n) = SubSeq(text, 1, n)
    BY <1>2, <2>1, ConcatAdjacentSubSeq
  <2> QED BY <1>1, <1>4, <2>2
<1>6. CASE Discard /\ UNCHANGED <<file, coming, line, section, errs, lack>>
  <2>1. DictInv' BY <1>6, SoundOrSet DEF Discard
  <2>2. load' \in {"failed", "killed"} BY <1>6 DEF Discard
  <2> QED BY <1>6, <2>1, <2>2 DEF ReadInv
<1>7. CASE /\ n > coming.at
           /\ coming' = [text |-> text, at |-> n] /\ line' = all
           /\ UNCHANGED <<dictVars, file, section, errs, load, lack>>
  <2>1. LineInv' BY <1>4, <1>5, <1>7 DEF LineInv
  <2>2. DictInv' /\ dict' = dict BY <1>7, SoundOrSet
  <2> QED BY <1>7, <2>1, <2>2 DEF ReadInv
<1>8. CASE /\ n = Len(text)
           /\ coming' = Nothing /\ line' = << >>
           /\ file' = Append(file, text)
           /\ Process(all) \/ TakeForEmpty
  <2>1. all = text BY <1>2, <1>5, <1>8, SubSeqFull
  <2>2. LineInv'
    <3>1. SubSeq(<< >>, 1, 0) = << >> BY SubSeqEmpty
    <3> QED BY <1>8, <3>1 DEF LineInv, Nothing
  <2>3. SectionInv(file, lack, section) BY <1>3 DEF ReadInv
  <2>4. CASE TakeForEmpty
    BY <1>3, <1>8, <2>2, <2>4, LineIgnored DEF TakeForEmpty
  <2>5. CASE /\ iniparser_line(text).kind = "section"
             /\ section' = SectionIn(iniparser_line(text), section)
             /\ Assign(section', NULL)
    <3>1. ASSUME NEW m, m # "line", Grows(file, lack, text, m, file', lack')
          PROVE  SectionInv(file', lack', section')
      BY <2>3, <2>5, <3>1, SectionStarts
    <3>2. \E m : m # "line" /\ Grows(file, lack, text, m, file', Append(lack, m))
      <4>1. Grows(file, lack, text, "nothing", file', Append(lack, "nothing"))
        BY <1>8 DEF Grows, ReadInv
      <4> QED BY <4>1
    <3>3. /\ section' \in Keys /\ iniparser_line(text).val = NULL
          /\ \A x \in Fields :
               section' = KeyFor(x) <=> Speaks(file, lack, text, SectionOf[x], NameOfKey[x])
      BY <2>3, <2>5, <3>2, SectionStarts
    <3> QED BY <1>3, <1>8, <2>2, <2>5, <3>1, <3>3, AssignRead
  <2>6. CASE /\ iniparser_line(text).kind = "value"
             /\ Assign(KeyIn(iniparser_line(text).name, section), iniparser_line(text).val)
             /\ section' = section
    <3>1. ASSUME NEW m, m # "line", Grows(file, lack, text, m, file', lack')
          PROVE  SectionInv(file', lack', section')
      BY <2>3, <2>6, <3>1, SectionStays
    <3>2. PICK key : key = KeyIn(iniparser_line(text).name, section) OBVIOUS
    <3>3. /\ key \in Keys /\ iniparser_line(text).val \in Values
          /\ \A x \in Fields :
               key = KeyFor(x) <=> Speaks(file, lack, text, SectionOf[x], NameOfKey[x])
      BY <2>3, <2>6, <3>2, ValueKey
    <3>4. Assign(key, iniparser_line(text).val) BY <2>6, <3>2
    <3> QED BY <1>3, <1>8, <2>2, <2>6, <3>1, <3>3, <3>4, AssignRead
  <2>7. CASE /\ iniparser_line(text).kind \in {"empty", "comment", "error"}
             /\ Harmless /\ section' = section
    BY <1>3, <1>8, <2>2, <2>7, LineIgnored DEF Harmless
  <2> QED BY <1>8, <2>1, <2>4, <2>5, <2>6, <2>7 DEF Process
<1> QED BY <1>1, <1>6, <1>7, <1>8 DEF ReadLine

\* A file that has not been read says nothing.
LEMMA NothingRead ==
  ASSUME IniInit
  PROVE  ReadInv /\ DictInv
<1>1. file = << >> /\ lack = << >> /\ line = << >> /\ section = << >> /\ coming = Nothing
      /\ load = "idle" /\ DictInit
  BY DEF IniInit
<1>2. DictInv /\ KeysIn(dict) = {} BY <1>1, NewIsSound
<1>3. DOMAIN file = {} /\ FileTyped(file, lack)
  <2>1. PICK e : e = << >> OBVIOUS
  <2>2. /\ e \in Seq(Lines) /\ e \in Seq({"nothing", "line", "val", "key", "slots"})
        /\ Len(e) = 0
    BY <2>1, EmptySeq
  <2>3. DOMAIN e = {} BY <2>2, LenProperties
  <2> QED BY <1>1, <2>1, <2>2, <2>3 DEF FileTyped
<1>4. Headers(file, lack) = {} /\ \A s, k : About(file, lack, s, k) = {}
  BY <1>3 DEF Headers, About
<1>5. LineInv
  <2>1. SubSeq(<< >>, 1, 0) = << >> BY SubSeqEmpty
  <2> QED BY <1>1, <2>1 DEF LineInv, Nothing
<1>6. SectionInv(file, lack, section)
  <2>1. ASSUME NEW x \in Fields PROVE section # SectionOf[x]
    <3>1. Len(SectionOf[x]) = 2 BY FieldFacts
    <3>2. Len(<< >>) = 0 OBVIOUS
    <3> QED BY <1>1, <3>1, <3>2
  <2>2. \A s : ~LastHeader(file, lack, s) BY <1>4 DEF LastHeader
  <2>3. section \in Sections BY <1>1, IniAssumption
  <2> QED BY <2>1, <2>2, <2>3 DEF SectionInv
<1>7. ReadAs(dict, file, lack) BY <1>2, <1>4 DEF ReadAs
<1> QED BY <1>1, <1>2, <1>3, <1>5, <1>6, <1>7 DEF ReadInv

\* A step of iniparser_load(), or none.
LEMMA LoadReads ==
  ASSUME ReadInv, DictInv, iniparser_load \/ UNCHANGED iniVars
  PROVE  ReadInv' /\ DictInv'
<1>1. CASE \E text \in Lines : \E n \in 0 .. Len(text) : ReadLine(text, n)
  BY <1>1, LineRead
<1>2. CASE UNCHANGED <<dictVars, file, coming, line, section, load, lack>>
  <2>1. DictInv' /\ dict' = dict BY <1>2, SoundOrSet
  <2> QED BY <1>2, <2>1 DEF ReadInv, LineInv
<1>3. CASE OpenIni
  <2>1. DictInv' /\ dict' = dict BY <1>3, SoundOrSet DEF OpenIni
  <2> QED BY <1>3, <2>1 DEF OpenIni, ReadInv, LineInv
<1>4. CASE EndOfFile
  <2>1. DictInv' /\ dict' = dict BY <1>4, SoundOrSet DEF EndOfFile, Discard
  <2>2. load = "reading" /\ load' \in {"loaded", "failed", "killed"}
    BY <1>4 DEF EndOfFile, Discard
  <2> QED BY <1>4, <2>1, <2>2 DEF EndOfFile, ReadInv
<1> QED BY <1>1, <1>2, <1>3, <1>4 DEF iniparser_load, iniVars

-----------------------------------------------------------------------------
\* The last of some lines.
LEMMA LastIs ==
  ASSUME NEW S, NEW n \in Nat, S \subseteq 1 .. n, S # {}
  PROVE  LET last == CHOOSE i \in S : \A j \in S : j <= i IN
           last \in S /\ \A j \in S : j <= last
<1> DEFINE T == {m \in Nat : \E i \in S : m = n - i}
<1>1. T \subseteq Nat /\ T # {}
  <2>1. PICK i : i \in S
    OBVIOUS
  <2>2. n - i \in T
    BY <2>1
  <2> QED BY <2>2
<1>2. First(T) \in T /\ \A m \in T : First(T) <= m
  <2> HIDE DEF T
  <2> QED BY <1>1, FirstIs
<1>3. PICK i \in S : First(T) = n - i
  BY <1>2
<1>4. \A j \in S : j <= i
  <2> SUFFICES ASSUME NEW j \in S PROVE j <= i
    OBVIOUS
  <2>1. n - j \in T
    OBVIOUS
  <2> QED BY <1>2, <1>3, <2>1
<1> QED BY <1>4

\* The dictionary says of a field what the lines say.
LEMMA FieldRead ==
  ASSUME DictInv, FileTyped(file, lack), ReadAs(dict, file, lack), NEW x \in Fields, NEW def
  PROVE  dictionary_get(dict, KeyFor(x), def) =
           Says(file, lack, SectionOf[x], NameOfKey[x], def)
<1> DEFINE A == About(file, lack, SectionOf[x], NameOfKey[x])
           last == CHOOSE i \in A : \A j \in A : j <= i
<1>1. dictionary_get(dict, KeyFor(x), def) =
        IF KeyFor(x) \in KeysIn(dict) THEN MapOf(dict)[KeyFor(x)] ELSE def
  BY FieldFacts, GetValue
<1>2. /\ KeyFor(x) \in KeysIn(dict) <=> A # {}
      /\ \A i \in A : (\A j \in A : j <= i) => MapOf(dict)[KeyFor(x)] = SaidBy(file, lack, i)
  BY DEF ReadAs
<1>3. CASE A = {}
  BY <1>1, <1>2, <1>3 DEF Says
<1>4. CASE A # {}
  <2>1. A \subseteq 1 .. Len(file) /\ Len(file) \in Nat
    <3>1. Len(file) \in Nat /\ DOMAIN file = 1 .. Len(file)
      BY LenProperties DEF FileTyped
    <3> QED BY <3>1 DEF About
  <2>2. last \in A /\ \A j \in A : j <= last
    <3> HIDE DEF A
    <3> QED BY <1>4, <2>1, LastIs
  <2>3. MapOf(dict)[KeyFor(x)] = SaidBy(file, lack, last)
    <3> HIDE DEF A, last
    <3> QED BY <1>2, <2>2
  <2>4. Says(file, lack, SectionOf[x], NameOfKey[x], def) = SaidBy(file, lack, last)
    BY <1>4, Zenon DEF Says, SaidBy
  <2> QED BY <1>1, <1>2, <1>4, <2>3, <2>4
<1> QED BY <1>3, <1>4

\* The configuration is what the dictionary has.
ConfigInv == main = "print" /\ load = "loaded" => config = ConfigIn(dict)

\* A step of the program, or none.
LEMMA MainReads ==
  ASSUME ReadInv, DictInv, ConfigInv, [Main]_<<iniVars, startVars>>
  PROVE  ReadInv' /\ DictInv' /\ ConfigInv'
<1>1. CASE UNCHANGED iniVars
  <2>1. ReadInv' /\ DictInv' BY <1>1, LoadReads
  <2>2. dict' = dict /\ load' = load BY <1>1 DEF iniVars, dictVars
  <2>3. main' = "print" /\ load = "loaded" => main = "print" /\ config' = config
    BY <1>1 DEF Main, CheckArguments, Load, LoadKilled, LoadFailed, Loaded, PrintConfig, Exit,
                startVars, iniVars, dictVars, dictionary_del, UseNull, Running
  <2> QED BY <2>1, <2>2, <2>3 DEF ConfigInv
<1>2. CASE Load
  <2>1. ReadInv' /\ DictInv' BY <1>2, LoadReads DEF Load
  <2>2. main' # "print" BY <1>2 DEF Load, startVars
  <2> QED BY <2>1, <2>2 DEF ConfigInv
<1>3. CASE Loaded
  <2>1. DictInv' /\ dict' = dict
    <3>1. UNCHANGED dictVars \/ dictionary_del \/ \E arrays : UseNull(arrays)
      BY <1>3 DEF Loaded
    <3> QED BY <3>1, SoundOrSet
  <2>2. ReadInv' BY <1>3, <2>1 DEF Loaded, ReadInv, LineInv
  <2>3. main' = "print" => config' = ConfigIn(dict) BY <1>3 DEF Loaded, Exit
  <2> QED BY <2>1, <2>2, <2>3 DEF ConfigInv
<1>4. UNCHANGED iniVars \/ Load \/ Loaded
  BY DEF Main, CheckArguments, LoadKilled, LoadFailed, PrintConfig
<1> QED BY <1>1, <1>2, <1>3, <1>4

\* Then it is what the lines say.
LEMMA ReadIsWritten ==
  ASSUME ReadInv, DictInv, ConfigInv
  PROVE  ConfigAsWritten
<1> SUFFICES ASSUME main = "print", load = "loaded", NEW x \in Fields
             PROVE  config[x] = Written(x)
  BY DEF ConfigAsWritten
<1>1. FileTyped(file, lack) /\ ReadAs(dict, file, lack) BY DEF ReadInv
<1>2. \A def : dictionary_get(dict, KeyFor(x), def) =
                 Says(file, lack, SectionOf[x], NameOfKey[x], def)
  BY <1>1, FieldRead
<1>3. config[x] = IF x \in Texts THEN dictionary_get(dict, KeyFor(x), Default[x])
                  ELSE PortOf(dictionary_get(dict, KeyFor(x), NULL), x)
  BY DEF ConfigInv, ConfigIn
<1> QED BY <1>2, <1>3 DEF Written

\* Whatever lines the ini file has, however they are cut, and whatever there is no
\* memory for, a configuration that was loaded is what the last assignments for
\* which there was memory say, and the default where there is none
\* (iniparser.c:637-697, 714-820, iniconfig.cpp:16-40).
THEOREM ConfigIsAsWritten == StartSpec => []ConfigAsWritten
<1>1. StartInit => ReadInv /\ DictInv /\ ConfigInv
  BY NothingRead DEF StartInit, ConfigInv
<1>2. ReadInv /\ DictInv /\ ConfigInv /\ [Main]_<<iniVars, startVars>>
        => (ReadInv /\ DictInv /\ ConfigInv)'
  BY MainReads
<1>3. ReadInv /\ DictInv /\ ConfigInv => ConfigAsWritten
  BY ReadIsWritten
<1> QED BY <1>1, <1>2, <1>3, PTL DEF StartSpec
=============================================================================

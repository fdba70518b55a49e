----------------------------- MODULE Dictionary -----------------------------
(***************************************************************************)
(* iniparser/src/dictionary.c: an unordered table of keys and values that  *)
(* doubles when it is full, with the number of keys counted beside it.     *)
(* Every allocation may fail.                                              *)
(***************************************************************************)
EXTENDS Integers, FiniteSets

CONSTANTS
  Keys, Values,
  NULL,         \* no key, or no value
  Hash,         \* dictionary_hash(): equal keys have equal hashes
  DICTMINSZ,    \* the size of a new dictionary
  (* Bounds of the model. *)
  MaxSize,      \* a dictionary of this size does not grow
  MaxShortages  \* how often each thing cannot be allocated

ASSUME DictionaryAssumption ==
  /\ NULL \notin Keys \cup Values
  /\ Hash \in [Keys -> Nat]
  /\ DICTMINSZ \in Nat \ {0} /\ MaxSize \in Nat /\ MaxShortages \in Nat

VARIABLES
  dict,        \* the dictionary
  absent,        \* the arrays dictionary_new() could not allocate
  shortages,   \* history: how often each other thing could not be allocated
  call         \* history: the last call, its arguments and its result

dictVars == <<dict, absent, shortages, call>>

Arrays == {"key", "val", "hash"}

Slots(d) == 0 .. d.size - 1
Used(d) == {i \in Slots(d) : d.key[i] # NULL}
Free(d) == Slots(d) \ Used(d)
Holding(d, key) == {i \in Used(d) : d.hash[i] = Hash[key] /\ d.key[i] = key}

\* Where a loop that counts up stops.
First(S) == CHOOSE i \in S : \A j \in S : i <= j

dictionary_new ==
  [size |-> DICTMINSZ, n |-> 0,
   key |-> [i \in 0 .. DICTMINSZ - 1 |-> NULL],
   val |-> [i \in 0 .. DICTMINSZ - 1 |-> NULL],
   hash |-> [i \in 0 .. DICTMINSZ - 1 |-> 0]]

dictionary_get(d, key, def) ==
  IF Holding(d, key) = {} THEN def ELSE d.val[First(Holding(d, key))]

\* Wrong on purpose: the hashes are not copied.
GrowWithoutHashes(d) ==
  LET Copied(a, none) == [i \in 0 .. 2 * d.size - 1 |-> IF i < d.size THEN a[i] ELSE none]
  IN [size |-> 2 * d.size, n |-> d.n, key |-> Copied(d.key, NULL),
      val |-> Copied(d.val, NULL), hash |-> [i \in 0 .. 2 * d.size - 1 |-> 0]]

dictionary_grow(d) ==
  LET Copied(a, none) == [i \in 0 .. 2 * d.size - 1 |-> IF i < d.size THEN a[i] ELSE none]
  IN [size |-> 2 * d.size, n |-> d.n, key |-> Copied(d.key, NULL),
      val |-> Copied(d.val, NULL), hash |-> Copied(d.hash, 0)]

\* The search for an empty slot starts at n and goes around.
EmptySlot(d) ==
  LET above == {i \in Free(d) : i >= d.n} IN First(IF above # {} THEN above ELSE Free(d))

Put(d, i, key, val, hash, n) ==
  [d EXCEPT !.key[i] = key, !.val[i] = val, !.hash[i] = hash, !.n = n]

\* Wrong on purpose: the new key goes to slot n, which unset() may have left
\* in use.
PutAtN(d, key, val, short) ==
  Put(d, d.n, key, val, Hash[key], d.n + 1)

Insert(d, key, val, short) ==
  Put(d, EmptySlot(d), IF short = "key" THEN NULL ELSE key, val, Hash[key], d.n + 1)

\* What there may be no memory for in a call of dictionary_set().
Missing(d, key, val) ==
  {"nothing"} \cup (IF val = NULL THEN {} ELSE {"val"})
    \cup (IF Holding(d, key) # {} THEN {} ELSE {"key"})
    \cup (IF Holding(d, key) = {} /\ d.n = d.size THEN {"slots"} ELSE {})

dictionary_set(d, key, val, short) ==
  LET copy == IF short = "val" THEN NULL ELSE val
      i == First(Holding(d, key))
  IN  IF d.n > 0 /\ Holding(d, key) # {} THEN [d EXCEPT !.val[i] = copy]
      ELSE IF short = "slots" THEN d   \* and the result is -1
      ELSE Insert(IF d.n = d.size THEN dictionary_grow(d) ELSE d, key, copy, short)

dictionary_unset(d, key) ==
  IF Holding(d, key) = {} THEN d
  ELSE Put(d, First(Holding(d, key)), NULL, NULL, 0, d.n - 1)

\* calloc() of an array may fail, and nobody looks.
DictInit ==
  /\ dict = dictionary_new /\ absent \in SUBSET Arrays
  /\ shortages = [m \in {"val", "key", "slots"} |-> 0]
  /\ call = [op |-> "new"]

Running == call.op \notin {"del", "killed"}

\* A call that uses one of these arrays, and there is none.
UseNull(arrays) ==
  /\ Running /\ absent \cap arrays # {}
  /\ call' = [op |-> "killed"]
  /\ UNCHANGED <<dict, absent, shortages>>

SetKey(key, val, short) ==
  /\ Running /\ absent = {}
  /\ dict.n < dict.size \/ dict.size < MaxSize
  /\ short \in Missing(dict, key, val)
  /\ dict' = dictionary_set(dict, key, val, short)
  /\ IF short = "nothing" THEN UNCHANGED shortages
     ELSE /\ shortages[short] < MaxShortages
          /\ shortages' = [shortages EXCEPT ![short] = @ + 1]
  /\ call' = [op |-> "set", key |-> key, val |-> val, short |-> short,
              ret |-> IF short = "slots" THEN -1 ELSE 0]
  /\ UNCHANGED absent

UnsetKey(key) ==
  /\ Running /\ "key" \notin absent
  /\ dict' = dictionary_unset(dict, key)
  /\ call' = [op |-> "unset", key |-> key]
  /\ UNCHANGED <<absent, shortages>>

GetKey(key, def) ==
  /\ Running /\ "key" \notin absent
  /\ call' = [op |-> "get", key |-> key, def |-> def, ret |-> dictionary_get(dict, key, def)]
  /\ UNCHANGED <<dict, absent, shortages>>

dictionary_del ==
  /\ Running /\ absent \cap {"key", "val"} = {}
  /\ call' = [op |-> "del"]
  /\ UNCHANGED <<dict, absent, shortages>>

CallDict(key, vals) ==
  \/ \E val \in vals \cup {NULL} : \E short \in Missing(dict, key, val) : SetKey(key, val, short)
  \/ UnsetKey(key)
  \/ \E def \in vals : GetKey(key, def)

\* dictionary_set() fills the first slot of each array, the others look for a
\* key in all, and dictionary_del() for values to be freed, too.
EndDict == dictionary_del \/ \E arrays \in {Arrays, {"key"}, {"key", "val"}} : UseNull(arrays)

DictNext == (\E key \in Keys : CallDict(key, Values)) \/ EndDict

DictSpec == DictInit /\ [][DictNext]_dictVars

-----------------------------------------------------------------------------

\* The table is sound: no key is in two slots, the hash beside a key is its
\* own, and n counts the slots in use and the keys that could not be copied, so that
\* there is an empty slot whenever the search for one starts, which would
\* never end otherwise.  Keys are looked up by hash, inserted into whatever
\* slot is free, copied when the table grows and taken out of the middle.
SlotsSound ==
  /\ \A i \in Used(dict) :
       /\ dict.hash[i] = Hash[dict.key[i]]
       /\ \A j \in Used(dict) : dict.key[i] = dict.key[j] => i = j
  /\ dict.n = Cardinality(Used(dict)) + shortages.key
  /\ dict.n <= dict.size

KeysIn(d) == {d.key[i] : i \in Used(d)}

map == INSTANCE IniMap WITH map <- [k \in KeysIn(dict) |-> dictionary_get(dict, k, NULL)]

\* The table implements the map: each call does what the map's does with the
\* same arguments, and returns the same.  dictionary_get() finds what was last
\* set for the key, whatever keys were set, set again or unset in the meantime;
\* where memory was short, the key of that call has no value, or is not added,
\* and no other is disturbed.
ImplementsMap == map!Spec
=============================================================================

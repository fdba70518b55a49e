------------------------- MODULE LogAppenders_proofs ------------------------
(***************************************************************************)
(* Proofs about how appenders are configured and how one keeps its events: *)
(* the categories' pointers are valid, a configuration that ends well is   *)
(* the one that was written, and one fails only if a definition is wrong   *)
(* or keys are interleaved; and the sink of a buffering appender is told   *)
(* of every trigger what led to it.                                        *)
(***************************************************************************)
EXTENDS LogConfig, LogBuffer, WellFoundedInduction, SequenceTheorems, TLAPS

\* The key that defines an appender, and what is made for it.
Def(n) == <<"appender", n>>
AsDefined(n) ==
  [name |-> n, layout |-> Value(<<"appender", n, "layout">>, "missing"),
   threshold |-> Value(<<"appender", n, "threshold">>, NOTSET)]

Listed(v) == {v.appenders[i] : i \in DOMAIN v.appenders}
Setting(s) == [priority |-> s.priority, additive |-> s.additive, appenders |-> s.appenders]

ConfType ==
  /\ properties \in Files \/ properties = << >>
  /\ step = [at |-> step.at, keys |-> step.keys, current |-> step.current, next |-> step.next]
  /\ step.at \in {"rest", "appenders", "categories"}
  /\ step.keys \subseteq AppenderKeys(properties)
  /\ step.at # "appenders" => step.keys = {}
  /\ step.next \in 1 .. Len(CatOrder)
  /\ step.at # "categories" => step.next = 1
  /\ outcome = [calls |-> outcome.calls, result |-> outcome.result]
  /\ outcome.result \in {"none", "done", "failed", "no file"}
  /\ step.at # "rest" => outcome.result = "none"
  /\ step.at # "rest" \/ outcome.result \in {"done", "failed"} => properties \in Files

\* The appenders are numbered, and those in the map of the configurator were
\* made for their names.
MadeInv ==
  /\ made \in Seq({made[i] : i \in DOMAIN made})
  /\ living \subseteq 1 .. Len(made)
  /\ strays \subseteq (1 .. Len(made)) \cup {NoAppender}
  /\ \A n \in DOMAIN allAppenders :
       \/ allAppenders[n] = NoAppender
       \/ allAppenders[n] \in 1 .. Len(made) /\ made[allAppenders[n]].name = n

\* The appender of this name was made by this configuration, as it was written.
Fresh(n) ==
  /\ n \in DOMAIN allAppenders /\ allAppenders[n] \in living \ strays
  /\ made[allAppenders[n]] = AsDefined(n)

\* So was every one whose definition has been read.
FreshInv ==
  step.at # "rest" \/ outcome.result = "done" =>
    \A n \in Defined(properties) : Def(n) \notin step.keys => Fresh(n)

\* The keys are taken in their order, and the definition of the current appender
\* was the last.
KeysInv ==
  step.at = "appenders" =>
    /\ \A k \in AppenderKeys(properties) \ step.keys, l \in step.keys : KeyOrder[k] < KeyOrder[l]
    /\ \A n \in Defined(properties) : Def(n) \notin step.keys =>
         /\ Def(step.current) \in AppenderKeys(properties) \ step.keys
         /\ KeyOrder[Def(n)] <= KeyOrder[Def(step.current)]
    /\ step.current # "" => Def(step.current) \in AppenderKeys(properties) \ step.keys

SettingsInv ==
  /\ settings = [c \in Categories |-> settings[c]]
  /\ \A c \in Categories : settings[c] = Setting(settings[c])

\* A category has what the file gives it.
AsWritten(c) ==
  LET v == properties[<<"category", c>>] IN
  /\ settings[c] = [priority |-> v.priority, additive |-> Value(<<"additivity", c>>, TRUE),
                    appenders |-> {allAppenders[n] : n \in Listed(v)}]
  /\ Listed(v) \subseteq DOMAIN allAppenders
  /\ \A n \in Listed(v) \ Defined(properties) : allAppenders[n] \in strays

Visited ==
  IF step.at = "categories" THEN 1 .. step.next - 1
  ELSE IF step.at = "rest" /\ outcome.result = "done" THEN 1 .. Len(CatOrder)
  ELSE {}

CategoriesInv ==
  \A i \in Visited : Has(properties, <<"category", CatOrder[i]>>) => AsWritten(CatOrder[i])

ConfInv ==
  /\ ConfType /\ MadeInv /\ FreshInv /\ KeysInv /\ SettingsInv /\ CategoriesInv
  /\ AppendersExist /\ FailsOnlyIf

-----------------------------------------------------------------------------
(* The data. *)

\* A set of numbers has a least one.
LEMMA LeastExists ==
  ASSUME NEW T \in SUBSET Nat, T # {}
  PROVE  \E x \in T : \A y \in T : x <= y
<1> DEFINE R == OpToRel(<, Nat)
<1>1. IsWellFoundedOn(R, Nat)
  BY NatLessThanWellFounded, Zenon DEF OpToRel
<1>2. \A x, y \in Nat : <<y, x>> \in R <=> y < x
  BY DEF OpToRel
<1> HIDE DEF R
<1>3. PICK x \in T : \A y \in T : ~ (<<y, x>> \in R)
  BY <1>1, WFMin
<1>4. \A y \in T : ~ (y < x)
  BY <1>2, <1>3
<1>5. QED
  BY <1>4

\* A sequence is one of its own elements.
LEMMA OwnElements ==
  ASSUME NEW S, NEW s \in Seq(S)
  PROVE  s \in Seq({s[i] : i \in DOMAIN s})
<1>1. Len(s) \in Nat /\ DOMAIN s = 1 .. Len(s) /\ s \in [1 .. Len(s) -> S]
  BY LenProperties
<1>2. s \in [1 .. Len(s) -> {s[i] : i \in DOMAIN s}]
  BY <1>1
<1>3. QED
  BY <1>1, <1>2, SeqDef

\* The file's appenders, and the keys they have.
LEMMA KeyFacts ==
  ASSUME NEW f \in Files
  PROVE  /\ \A n : n \in Defined(f) <=> Def(n) \in AppenderKeys(f)
         /\ \A n : Def(n)[1] = "appender" /\ Def(n)[2] = n /\ Len(Def(n)) = 2
         /\ \A k \in AppenderKeys(f) :
              /\ KeyOrder[k] \in Nat /\ k[2] # "" /\ (Len(k) = 2 => k = Def(k[2]))
              /\ k \in DOMAIN f
              /\ Def(k[2]) \in DOMAIN f => KeyOrder[Def(k[2])] <= KeyOrder[k]
         /\ \A j, k \in AppenderKeys(f) : KeyOrder[j] = KeyOrder[k] => j = k
<1>1. \A n : Def(n)[1] = "appender" /\ Def(n)[2] = n /\ Len(Def(n)) = 2
  BY DEF Def
<1>2. \A k \in AppenderKeys(f) :
        /\ k[2] # "" /\ (Len(k) = 2 => k = Def(k[2])) /\ k \in DOMAIN f /\ k[1] = "appender"
        /\ Def(k[2]) \in DOMAIN f => KeyOrder[Def(k[2])] <= KeyOrder[k]
  BY PropertiesAssumption DEF Def, AppenderKeys
<1>3. \A k \in AppenderKeys(f) : KeyOrder[k] \in Nat
  BY <1>2, ConfigAssumption
<1>4. \A j, k \in AppenderKeys(f) : KeyOrder[j] = KeyOrder[k] => j = k
  BY PropertiesAssumption
<1>5. ASSUME NEW n PROVE n \in Defined(f) <=> Def(n) \in AppenderKeys(f)
  <2>1. n \in Defined(f) => Def(n) \in AppenderKeys(f)
    BY <1>2 DEF Defined
  <2>2. Def(n) \in AppenderKeys(f) => n \in Defined(f)
    BY <1>1 DEF Defined
  <2>3. QED
    BY <2>1, <2>2
<1>6. QED
  BY <1>1, <1>2, <1>3, <1>4, <1>5

\* The next key is the first of those that are left.
LEMMA NextKeyFacts ==
  ASSUME ConfType, step.at = "appenders", step.keys # {}
  PROVE  /\ properties \in Files /\ NextKey \in step.keys /\ NextKey \in AppenderKeys(properties)
         /\ \A j \in step.keys : KeyOrder[NextKey] <= KeyOrder[j]
<1>1. properties \in Files /\ step.keys \subseteq AppenderKeys(properties)
  BY DEF ConfType
<1>2. \A k \in step.keys : KeyOrder[k] \in Nat
  BY <1>1, KeyFacts
<1> DEFINE T == {KeyOrder[k] : k \in step.keys}
<1>3. T \in SUBSET Nat /\ T # {}
  BY <1>2
<1>4. PICK x \in T : \A y \in T : x <= y
  BY <1>3, LeastExists
<1>5. \E k \in step.keys : \A j \in step.keys : KeyOrder[k] <= KeyOrder[j]
  BY <1>4
<1>6. NextKey \in step.keys /\ \A j \in step.keys : KeyOrder[NextKey] <= KeyOrder[j]
  BY <1>5 DEF NextKey
<1>7. QED
  BY <1>1, <1>6

\* The names are found up to the first that is not.
LEMMA FoundFacts ==
  ASSUME NEW names, names \in Seq({names[i] : i \in DOMAIN names})
  PROVE  /\ Found(names) \in 0 .. Len(names) /\ Len(names) \in Nat
         /\ DOMAIN names = 1 .. Len(names)
         /\ \A i \in 1 .. Found(names) : Has(allAppenders, names[i])
         /\ Found(names) < Len(names) => \E i \in DOMAIN names : ~Has(allAppenders, names[i])
<1> DEFINE missing == {i \in DOMAIN names : ~Has(allAppenders, names[i])}
<1>1. Len(names) \in Nat /\ DOMAIN names = 1 .. Len(names)
  BY LenProperties
<1>2. CASE missing = {}
  <2>1. Found(names) = Len(names)
    BY <1>2 DEF Found
  <2>2. QED
    BY <1>1, <1>2, <2>1
<1>3. CASE missing # {}
  <2> DEFINE first == CHOOSE i \in missing : \A j \in missing : i <= j
  <2>1. missing \in SUBSET Nat
    BY <1>1
  <2>2. \E i \in missing : \A j \in missing : i <= j
    BY <1>3, <2>1, LeastExists
  <2>3. first \in missing /\ \A j \in missing : first <= j
    BY <2>2
  <2>4. Found(names) = first - 1
    BY <1>3 DEF Found
  <2> HIDE DEF first
  <2>5. first \in 1 .. Len(names)
    BY <1>1, <2>3
  <2>6. \A i \in 1 .. first - 1 : i \in DOMAIN names /\ i \notin missing
    BY <1>1, <2>3, <2>5
  <2>7. QED
    BY <1>1, <2>3, <2>4, <2>5, <2>6
<1>4. QED
  BY <1>2, <1>3

-----------------------------------------------------------------------------
(* One step at a time. *)

\* A configuration that fails keeps what it must.
LEMMA FailureKeeps ==
  ASSUME ConfInv, Ends("failed"), step.at # "rest", properties' = properties,
         MadeInv', SettingsInv', AppendersExist',
         Faulty(properties) \/ Interleaved(properties)
  PROVE  ConfInv'
<1>1. /\ step' = Resting /\ step'.at = "rest" /\ step'.keys = {} /\ step'.next = 1
      /\ outcome' = [outcome EXCEPT !.result = "failed"] /\ properties \in Files
  BY DEF Ends, Resting, ConfInv, ConfType
<1>2. outcome = [calls |-> outcome.calls, result |-> outcome.result]
  BY DEF ConfInv, ConfType
<1>3. outcome' = [calls |-> outcome.calls, result |-> "failed"]
  BY <1>1, <1>2
<1>4. outcome'.result = "failed" /\ outcome'.calls = outcome.calls
  BY <1>3
<1>5. 1 \in 1 .. Len(CatOrder)
  <2>1. Len(CatOrder) \in Nat /\ CatOrder # << >> /\ CatOrder \in Seq(Categories)
    BY ConfigAssumption, LenProperties
  <2>2. Len(CatOrder) # 0
    BY <2>1, EmptySeq
  <2>3. QED
    BY <2>1, <2>2
<1>6. ConfType'
  <2>1. step' = [at |-> step'.at, keys |-> step'.keys, current |-> step'.current, next |-> step'.next]
    BY <1>1 DEF Resting
  <2>2. outcome' = [calls |-> outcome'.calls, result |-> outcome'.result]
    BY <1>3, <1>4
  <2>3. QED
    BY <1>1, <1>4, <1>5, <2>1, <2>2 DEF ConfType
<1>7. FreshInv' /\ KeysInv'
  BY <1>1, <1>4 DEF FreshInv, KeysInv
<1>8. CategoriesInv'
  BY <1>1, <1>4 DEF CategoriesInv, Visited
<1>9. FailsOnlyIf'
  BY DEF FailsOnlyIf, Faulty, Interleaved, Defined, AppenderKeys, Has
<1>10. QED
  BY <1>6, <1>7, <1>8, <1>9 DEF ConfInv

\* configure(): every definition is still to be read.
LEMMA ConfigureKeeps ==
  ASSUME ConfInv, NEW f \in Files, configure(f)
  PROVE  ConfInv'
<1>1. /\ outcome' = [calls |-> outcome.calls + 1, result |-> "none"] /\ properties' = f
      /\ step' = [Resting EXCEPT !.at = "appenders", !.keys = AppenderKeys(f)]
      /\ UNCHANGED <<allAppenders, made, living, byName, settings, strays>>
      /\ step.next \in 1 .. Len(CatOrder)
  BY DEF configure, ConfInv, ConfType
<1>2. step' = [at |-> "appenders", keys |-> AppenderKeys(f), current |-> "", next |-> 1]
  BY <1>1 DEF Resting
<1>3. step'.at = "appenders" /\ step'.keys = AppenderKeys(f) /\ step'.current = "" /\ step'.next = 1
  BY <1>2
<1>4. outcome'.result = "none" /\ outcome'.calls = outcome.calls + 1
  BY <1>1
<1>5. 1 \in 1 .. Len(CatOrder)
  <2>1. Len(CatOrder) \in Nat
    BY ConfigAssumption, LenProperties
  <2>2. QED
    BY <1>1, <2>1
<1>6. ConfType'
  BY <1>1, <1>2, <1>3, <1>4, <1>5 DEF ConfType
<1>7. MadeInv' /\ SettingsInv' /\ AppendersExist'
  BY <1>1 DEF ConfInv, MadeInv, SettingsInv, AppendersExist, Setting
<1>8. \A n \in Defined(f) : Def(n) \in AppenderKeys(f)
  BY KeyFacts
<1>9. FreshInv' /\ KeysInv'
  BY <1>1, <1>3, <1>8 DEF FreshInv, KeysInv
<1>10. CategoriesInv'
  BY <1>3 DEF CategoriesInv, Visited
<1>11. FailsOnlyIf'
  BY <1>4 DEF FailsOnlyIf
<1>12. QED
  BY <1>6, <1>7, <1>9, <1>10, <1>11 DEF ConfInv

\* Without a file nothing is done.
LEMMA NoFileKeeps ==
  ASSUME ConfInv, FileDoesNotExist
  PROVE  ConfInv'
<1>1. /\ step.at = "rest" /\ outcome' = [calls |-> outcome.calls + 1, result |-> "no file"]
      /\ UNCHANGED <<properties, allAppenders, made, living, settings, step, strays>>
  BY DEF FileDoesNotExist
<1>2. outcome'.result = "no file" /\ outcome'.calls = outcome.calls + 1
  BY <1>1
<1>3. ConfType'
  BY <1>1, <1>2 DEF ConfInv, ConfType
<1>4. MadeInv' /\ SettingsInv' /\ AppendersExist'
  BY <1>1 DEF ConfInv, MadeInv, SettingsInv, Setting, AppendersExist
<1>5. FreshInv' /\ KeysInv'
  BY <1>1, <1>2 DEF FreshInv, KeysInv
<1>6. CategoriesInv'
  BY <1>1, <1>2 DEF CategoriesInv, Visited
<1>7. FailsOnlyIf'
  BY <1>2 DEF FailsOnlyIf
<1>8. QED
  BY <1>3, <1>4, <1>5, <1>6, <1>7 DEF ConfInv

\* shutdown(): no category has an appender, and no configuration is current.
LEMMA ShutdownKeeps ==
  ASSUME ConfInv, NEW forced \in BOOLEAN, shutdown(forced)
  PROVE  ConfInv'
<1>1. /\ step.at = "rest" /\ outcome' = [calls |-> outcome.calls + 1, result |-> "none"]
      /\ settings' = [c \in Categories |-> [settings[c] EXCEPT !.appenders = {}]]
      /\ living' \subseteq living
      /\ UNCHANGED <<properties, allAppenders, made, step, strays>>
  BY DEF shutdown
<1>2. outcome'.result = "none" /\ outcome'.calls = outcome.calls + 1
  BY <1>1
<1>3. ConfType'
  BY <1>1, <1>2 DEF ConfInv, ConfType
<1>4. MadeInv'
  BY <1>1 DEF ConfInv, MadeInv
<1>5. \A c \in Categories : settings'[c] =
        [priority |-> settings[c].priority, additive |-> settings[c].additive, appenders |-> {}]
  <2>1. SUFFICES ASSUME NEW c \in Categories
                 PROVE  settings'[c] = [priority |-> settings[c].priority,
                                        additive |-> settings[c].additive, appenders |-> {}]
    OBVIOUS
  <2>2. settings[c] = [priority |-> settings[c].priority, additive |-> settings[c].additive,
                       appenders |-> settings[c].appenders]
    BY DEF ConfInv, SettingsInv, Setting
  <2>3. settings'[c] = [settings[c] EXCEPT !.appenders = {}]
    BY <1>1
  <2>4. QED
    BY <2>2, <2>3
<1>6. SettingsInv'
  BY <1>1, <1>5 DEF SettingsInv, Setting
<1>7. AppendersExist'
  <2>1. ASSUME NEW c \in Categories PROVE settings'[c].appenders = {}
    <3>1. settings'[c] = [priority |-> settings[c].priority, additive |-> settings[c].additive,
                          appenders |-> {}]
      BY <1>5
    <3>2. QED
      BY <3>1
  <2>2. \A c \in Categories : settings'[c].appenders \subseteq living' \cup strays'
    BY <2>1, Zenon
  <2>3. QED
    BY <2>2, Zenon DEF AppendersExist
<1>8. FreshInv' /\ KeysInv' /\ CategoriesInv' /\ FailsOnlyIf'
  BY <1>1, <1>2 DEF FreshInv, KeysInv, CategoriesInv, Visited, FailsOnlyIf
<1>9. QED
  BY <1>3, <1>4, <1>6, <1>7, <1>8 DEF ConfInv

\* The definitions have all been read.
LEMMA AppendersDoneKeeps ==
  ASSUME ConfInv, AppendersDone
  PROVE  ConfInv'
<1>1. /\ step.at = "appenders" /\ step.keys = {} /\ step' = [step EXCEPT !.at = "categories"]
      /\ UNCHANGED <<properties, allAppenders, made, living, byName, settings, outcome, strays>>
      /\ step = [at |-> step.at, keys |-> step.keys, current |-> step.current, next |-> step.next]
  BY DEF AppendersDone, ConfInv, ConfType
<1>2. step' = [at |-> "categories", keys |-> {}, current |-> step.current, next |-> step.next]
  BY <1>1
<1>3. step'.at = "categories" /\ step'.keys = {} /\ step'.next = step.next
  BY <1>2
<1>4. ConfType' /\ MadeInv' /\ SettingsInv' /\ AppendersExist'
  <2>1. ConfType'
    BY <1>1, <1>2, <1>3 DEF ConfInv, ConfType
  <2>2. MadeInv' /\ SettingsInv' /\ AppendersExist'
    BY <1>1 DEF ConfInv, MadeInv, SettingsInv, Setting, AppendersExist
  <2>3. QED
    BY <2>1, <2>2
<1>5. FreshInv'
  BY <1>1, <1>3 DEF ConfInv, FreshInv, Fresh, AsDefined, Value, Has
<1>6. KeysInv' /\ FailsOnlyIf'
  BY <1>1, <1>3 DEF ConfInv, ConfType, KeysInv, FailsOnlyIf
<1>7. CategoriesInv'
  <2>1. step.next = 1 /\ step'.next = 1
    BY <1>1, <1>3 DEF ConfInv, ConfType
  <2>2. Visited' = {}
    BY <1>3, <2>1 DEF Visited
  <2>3. QED
    BY <2>2 DEF CategoriesInv
<1>8. QED
  BY <1>4, <1>5, <1>6, <1>7 DEF ConfInv

\* The other properties of the appender that was made last are passed over.
LEMMA SkipKeeps ==
  ASSUME ConfInv, step.at = "appenders", step.keys # {}, NextKey[2] = step.current,
         step' = [step EXCEPT !.keys = @ \ {NextKey}],
         UNCHANGED <<properties, allAppenders, made, living, settings, outcome, strays>>
  PROVE  ConfInv'
<1> DEFINE key == NextKey
<1>0. /\ ConfType /\ properties \in Files /\ key \in step.keys
      /\ key \in AppenderKeys(properties)
      /\ \A j \in step.keys : KeyOrder[key] <= KeyOrder[j]
  BY NextKeyFacts DEF ConfInv
<1> HIDE DEF key
<1>1. step' = [at |-> "appenders", keys |-> step.keys \ {key}, current |-> step.current,
               next |-> step.next]
  BY <1>0 DEF ConfType, key
<1>2. /\ step'.at = "appenders" /\ step'.keys = step.keys \ {key}
      /\ step'.current = step.current /\ step'.next = step.next
  BY <1>1
<1>3. ConfType' /\ MadeInv' /\ SettingsInv' /\ AppendersExist' /\ FailsOnlyIf'
  <2>1. ConfType'
    BY <1>0, <1>1, <1>2 DEF ConfType
  <2>2. MadeInv' /\ SettingsInv' /\ AppendersExist'
    BY DEF ConfInv, MadeInv, SettingsInv, Setting, AppendersExist
  <2>3. FailsOnlyIf'
    BY DEF ConfInv, FailsOnlyIf, Faulty, Interleaved, Defined, AppenderKeys, Has
  <2>4. QED
    BY <2>1, <2>2, <2>3
<1>4. key[2] = step.current /\ key[2] # ""
  BY <1>0, KeyFacts DEF key
<1>5. Def(step.current) \in AppenderKeys(properties) \ step.keys
  BY <1>4 DEF ConfInv, KeysInv
<1>6. \A n : Def(n) # key \/ n = step.current
  BY <1>0, <1>4, KeyFacts
<1>7. \A n : Def(n) \notin step'.keys => Def(n) \notin step.keys
  BY <1>0, <1>2, <1>5, <1>6
<1>8. FreshInv'
  BY <1>0, <1>2, <1>7 DEF ConfInv, FreshInv, Fresh, AsDefined, Value, Has
<1>9. KeysInv'
  <2>1. \A k \in AppenderKeys(properties) \ step.keys, l \in step.keys : KeyOrder[k] < KeyOrder[l]
    BY DEF ConfInv, KeysInv
  <2>2. \A l \in step.keys \ {key} : KeyOrder[key] < KeyOrder[l]
    <3>1. SUFFICES ASSUME NEW l \in step.keys \ {key} PROVE KeyOrder[key] < KeyOrder[l]
      OBVIOUS
    <3>2. l \in AppenderKeys(properties) /\ l # key
      BY <1>0 DEF ConfType
    <3>3. KeyOrder[key] \in Nat /\ KeyOrder[l] \in Nat /\ KeyOrder[key] # KeyOrder[l]
      BY <1>0, <3>2, KeyFacts
    <3>4. KeyOrder[key] <= KeyOrder[l]
      BY <1>0
    <3>5. QED
      BY <3>3, <3>4
  <2>3. \A k \in AppenderKeys(properties) \ step'.keys, l \in step'.keys : KeyOrder[k] < KeyOrder[l]
    BY <1>2, <2>1, <2>2
  <2>4. \A n \in Defined(properties) : Def(n) \notin step'.keys =>
          KeyOrder[Def(n)] <= KeyOrder[Def(step.current)]
    BY <1>7 DEF ConfInv, KeysInv
  <2>5. properties' = properties
    OBVIOUS
  <2>6. QED
    BY <1>2, <1>5, <2>3, <2>4, <2>5 DEF KeysInv, AppenderKeys, Defined
<1>10. CategoriesInv'
  BY <1>2 DEF CategoriesInv, Visited
<1>11. QED
  BY <1>3, <1>8, <1>9, <1>10 DEF ConfInv

\* A property of an appender that is not the one made last: its definition is
\* missing, or another appender's lies between.
LEMMA PartialIsWrong ==
  ASSUME ConfInv, step.at = "appenders", step.keys # {}, NextKey[2] # step.current,
         Len(NextKey) # 2
  PROVE  Faulty(properties) \/ Interleaved(properties)
<1> DEFINE key == NextKey
           n == key[2]
           j == Def(n)
           k == Def(step.current)
<1>0. /\ ConfType /\ KeysInv /\ properties \in Files /\ key \in AppenderKeys(properties)
      /\ key \in step.keys /\ \A l \in step.keys : KeyOrder[key] <= KeyOrder[l]
  BY NextKeyFacts DEF ConfInv
<1>1. n # step.current /\ Len(key) # 2
  OBVIOUS
<1> HIDE DEF key
<1>2. CASE ~Has(properties, j)
  BY <1>0, <1>2 DEF Faulty, Def
<1>3. CASE Has(properties, j)
  <2>1. j[1] = "appender" /\ j[2] = n /\ Len(j) = 2 /\ k[2] = step.current
    BY <1>0, KeyFacts
  <2>2. j \in AppenderKeys(properties)
    BY <1>3, <2>1 DEF AppenderKeys, Has
  <2>3. j # key /\ j # k
    BY <1>1, <2>1
  <2>4. KeyOrder[j] <= KeyOrder[key]
    BY <1>0, <1>3, KeyFacts DEF Has
  <2>5. KeyOrder[j] \in Nat /\ KeyOrder[key] \in Nat /\ KeyOrder[j] # KeyOrder[key]
    BY <1>0, <2>2, <2>3, KeyFacts
  <2>6. j \notin step.keys
    BY <1>0, <2>4, <2>5
  <2>7. n \in Defined(properties)
    BY <1>0, <2>2, KeyFacts
  <2>8. k \in AppenderKeys(properties) \ step.keys /\ KeyOrder[j] <= KeyOrder[k]
    BY <1>0, <2>6, <2>7 DEF KeysInv
  <2>9. KeyOrder[k] \in Nat /\ KeyOrder[j] # KeyOrder[k]
    BY <1>0, <2>2, <2>3, <2>8, KeyFacts
  <2>10. KeyOrder[k] < KeyOrder[key]
    BY <1>0, <2>8 DEF KeysInv
  <2>11. KeyOrder[j] < KeyOrder[k]
    BY <2>5, <2>8, <2>9
  <2>12. k[2] # n
    BY <1>1, <2>1
  <2> HIDE DEF j, k
  <2>13. Interleaved(properties)
    BY <1>0, <2>1, <2>2, <2>8, <2>10, <2>11, <2>12 DEF Interleaved
  <2>14. QED
    BY <2>13
<1>4. QED
  BY <1>2, <1>3

\* The appender is the next one.
LEMMA MadeOne ==
  ASSUME MadeInv, NEW r, made' = Append(made, r)
  PROVE  /\ made' \in Seq({made'[i] : i \in DOMAIN made'})
         /\ Len(made) \in Nat /\ Len(made') = Len(made) + 1
         /\ \A i \in 1 .. Len(made) : made'[i] = made[i]
         /\ made'[Len(made) + 1] = r
<1> DEFINE S == {made[i] : i \in DOMAIN made}
           T == S \cup {r}
<1>1. made \in Seq(S) /\ S \subseteq T
  BY DEF MadeInv
<1> HIDE DEF S
<1>2. made \in Seq(T) /\ r \in T
  BY <1>1, SeqDef
<1> HIDE DEF T
<1>3. /\ made' \in Seq(T) /\ Len(made) \in Nat /\ Len(made') = Len(made) + 1
      /\ \A i \in 1 .. Len(made) : made'[i] = made[i]
      /\ made'[Len(made) + 1] = r
  BY <1>2, AppendProperties, LenProperties
<1>4. QED
  BY <1>3, OwnElements

\* An error leaves a null pointer in the map at most.
LEMMA ThrownInv ==
  ASSUME MadeInv, NEW name, ThrowsFor(name),
         \/ UNCHANGED <<made, living>>
         \/ \E r : made' = Append(made, r) /\ living' \in {living, living \cup {Len(made) + 1}}
  PROVE  MadeInv' /\ living \subseteq living'
<1>1. /\ made' \in Seq({made'[i] : i \in DOMAIN made'})
      /\ Len(made) \in Nat /\ Len(made') \in Nat /\ Len(made) <= Len(made')
      /\ \A i \in 1 .. Len(made) : made'[i] = made[i]
      /\ living \subseteq living' /\ living' \subseteq 1 .. Len(made')
  <2>1. CASE UNCHANGED <<made, living>>
    BY <2>1, LenProperties DEF MadeInv
  <2>2. CASE \E r : made' = Append(made, r) /\ living' \in {living, living \cup {Len(made) + 1}}
    <3>1. PICK r : made' = Append(made, r) /\ living' \in {living, living \cup {Len(made) + 1}}
      BY <2>2
    <3>2. /\ made' \in Seq({made'[i] : i \in DOMAIN made'})
          /\ Len(made) \in Nat /\ Len(made') = Len(made) + 1
          /\ \A i \in 1 .. Len(made) : made'[i] = made[i]
      BY <3>1, MadeOne
    <3>3. living \subseteq 1 .. Len(made)
      BY DEF MadeInv
    <3>4. living' \subseteq 1 .. Len(made') /\ living \subseteq living'
      BY <3>1, <3>2, <3>3
    <3>5. Len(made') \in Nat /\ Len(made) <= Len(made')
      BY <3>2
    <3>6. QED
      BY <3>2, <3>4, <3>5
  <2>3. QED
    BY <2>1, <2>2
<1>2. strays' = strays
  BY DEF ThrowsFor
<1>3. \A n \in DOMAIN allAppenders' :
        \/ allAppenders'[n] = NoAppender
        \/ n \in DOMAIN allAppenders /\ allAppenders'[n] = allAppenders[n]
  BY DEF ThrowsFor, With, Has
<1>4. 1 .. Len(made) \subseteq 1 .. Len(made')
  BY <1>1
<1>5. QED
  BY <1>1, <1>2, <1>3, <1>4 DEF MadeInv

\* One appender is made, or its definition is wrong.
LEMMA InstantiateKeeps ==
  ASSUME ConfInv, step.at = "appenders", step.keys # {}, NextKey[2] # step.current,
         Len(NextKey) = 2, instantiateAppender(NextKey[2])
  PROVE  ConfInv'
<1> DEFINE key == NextKey
           name == key[2]
           type == properties[<<"appender", name>>]
           layout == Value(<<"appender", name, "layout">>, "missing")
           limit == Value(<<"appender", name, "threshold">>, NOTSET)
           x == Len(made) + 1
           r == [name |-> name, layout |-> layout, threshold |-> limit]
<1>0. /\ ConfType /\ MadeInv /\ FreshInv /\ KeysInv /\ properties \in Files
      /\ key \in AppenderKeys(properties) /\ key \in step.keys
      /\ \A l \in step.keys : KeyOrder[key] <= KeyOrder[l]
      /\ key = Def(name) /\ name # "" /\ Has(properties, key)
      /\ SettingsInv /\ AppendersExist
  <2>1. /\ ConfType /\ properties \in Files /\ key \in AppenderKeys(properties)
        /\ key \in step.keys /\ \A l \in step.keys : KeyOrder[key] <= KeyOrder[l]
    BY NextKeyFacts DEF ConfInv
  <2>2. key = Def(name) /\ name # "" /\ Has(properties, key)
    BY <2>1, KeyFacts DEF Has
  <2>3. QED
    BY <2>1, <2>2 DEF ConfInv
<1>1. \/ type = "unknown" /\ ThrowsFor(name) /\ UNCHANGED <<made, living>>
      \/ /\ made' = Append(made, r) /\ type = "layout" /\ layout \in {"missing", "unknown"}
         /\ ThrowsFor(name) /\ living' = living \cup {x}
      \/ made' = Append(made, r) /\ limit = Bad /\ ThrowsFor(name) /\ living' = living
      \/ /\ made' = Append(made, r) /\ limit # Bad /\ living' = living \cup {x}
         /\ allAppenders' = With(allAppenders, name, x)
         /\ step' = [step EXCEPT !.keys = @ \ {key}, !.current = name]
         /\ UNCHANGED <<properties, settings, outcome, strays>>
  BY DEF instantiateAppender
<1> HIDE DEF key
<1>2. CASE /\ ThrowsFor(name)
           /\ \/ type = "unknown" /\ UNCHANGED <<made, living>>
              \/ /\ made' = Append(made, r) /\ type = "layout" /\ layout \in {"missing", "unknown"}
                 /\ living' = living \cup {x}
              \/ made' = Append(made, r) /\ limit = Bad /\ living' = living
  <2>1. MadeInv' /\ living \subseteq living'
    <3>1. \/ UNCHANGED <<made, living>>
          \/ \E s : made' = Append(made, s) /\ living' \in {living, living \cup {x}}
      BY <1>2
    <3>2. QED
      BY <1>0, <1>2, <3>1, ThrownInv
  <2>2. SettingsInv' /\ AppendersExist'
    BY <1>0, <1>2, <2>1 DEF ThrowsFor, SettingsInv, Setting, AppendersExist
  <2>3. Faulty(properties)
    <3>1. CASE type = "unknown"
      BY <1>0, <3>1 DEF Faulty, Def
    <3>2. CASE type = "layout" /\ layout \in {"missing", "unknown"}
      <4> DEFINE l == <<"appender", name, "layout">>
      <4>1. CASE Has(properties, l)
        <5>1. l[1] = "appender" /\ l[2] = name
          OBVIOUS
        <5>2. l \in AppenderKeys(properties)
          BY <4>1, <5>1 DEF AppenderKeys, Has
        <5>3. properties[l] # "missing"
          BY <1>0, <5>1, <5>2, PropertiesAssumption
        <5>4. properties[l] = "unknown"
          BY <3>2, <4>1, <5>3 DEF Value
        <5>5. QED
          BY <1>0, <3>2, <5>4 DEF Faulty, Def
      <4>2. CASE ~Has(properties, l)
        BY <1>0, <3>2, <4>2 DEF Faulty, Def
      <4>3. QED
        BY <4>1, <4>2
    <3>3. CASE limit = Bad
      <4> DEFINE t == <<"appender", name, "threshold">>
      <4>1. NOTSET # Bad
        BY PriorityAssumption, PropertiesAssumption
      <4>2. Has(properties, t) /\ properties[t] = Bad
        BY <3>3, <4>1 DEF Value
      <4>3. t[1] = "appender"
        OBVIOUS
      <4>4. t \in AppenderKeys(properties)
        BY <4>2, <4>3 DEF AppenderKeys, Has
      <4> HIDE DEF t
      <4>5. QED
        BY <4>2, <4>4 DEF Faulty
    <3>4. QED
      BY <1>2, <3>1, <3>2, <3>3
  <2>4. Ends("failed") /\ properties' = properties
    BY <1>2 DEF ThrowsFor
  <2>5. QED
    BY <2>1, <2>2, <2>3, <2>4, FailureKeeps
<1>3. CASE /\ made' = Append(made, r) /\ limit # Bad /\ living' = living \cup {x}
           /\ allAppenders' = With(allAppenders, name, x)
           /\ step' = [step EXCEPT !.keys = @ \ {key}, !.current = name]
           /\ UNCHANGED <<properties, settings, outcome, strays>>
  <2>1. /\ made' \in Seq({made'[i] : i \in DOMAIN made'})
        /\ Len(made) \in Nat /\ Len(made') = x
        /\ \A i \in 1 .. Len(made) : made'[i] = made[i]
        /\ made'[x] = r
    BY <1>0, <1>3, MadeOne
  <2>2. step' = [at |-> "appenders", keys |-> step.keys \ {key}, current |-> name,
                 next |-> step.next]
    BY <1>0, <1>3 DEF ConfType
  <2>3. /\ step'.at = "appenders" /\ step'.keys = step.keys \ {key} /\ step'.current = name
        /\ step'.next = step.next
    BY <2>2
  <2>4. /\ DOMAIN allAppenders' = DOMAIN allAppenders \cup {name} /\ allAppenders'[name] = x
        /\ \A n \in DOMAIN allAppenders : n # name => allAppenders'[n] = allAppenders[n]
    BY <1>3 DEF With
  <2> DEFINE s == r
  <2>5. r.name = name /\ r = AsDefined(name)
    BY DEF AsDefined
  <2> HIDE DEF r, limit, layout, type
  <2>6. x \in Nat /\ x \notin 1 .. Len(made) /\ 1 .. x = (1 .. Len(made)) \cup {x}
    BY <2>1
  <2> HIDE DEF x
  <2>7. MadeInv'
    <3>1. living' \subseteq 1 .. Len(made') /\ strays' \subseteq (1 .. Len(made')) \cup {NoAppender}
      BY <1>0, <1>3, <2>1, <2>6 DEF MadeInv
    <3>2. ASSUME NEW n \in DOMAIN allAppenders'
          PROVE  \/ allAppenders'[n] = NoAppender
                 \/ allAppenders'[n] \in 1 .. Len(made') /\ made'[allAppenders'[n]].name = n
      <4>1. CASE n = name
        BY <2>1, <2>4, <2>5, <2>6, <4>1
      <4>2. CASE n # name
        <5>1. n \in DOMAIN allAppenders /\ allAppenders'[n] = allAppenders[n]
          BY <2>4, <3>2, <4>2
        <5>2. \/ allAppenders[n] = NoAppender
              \/ allAppenders[n] \in 1 .. Len(made) /\ made[allAppenders[n]].name = n
          BY <1>0, <5>1 DEF MadeInv
        <5>3. QED
          BY <2>1, <2>6, <5>1, <5>2
      <4>3. QED
        BY <4>1, <4>2
    <3>3. QED
      BY <2>1, <3>1, <3>2 DEF MadeInv
  <2>8. ConfType'
    BY <1>0, <1>3, <2>2, <2>3 DEF ConfType
  <2>9. SettingsInv' /\ AppendersExist' /\ FailsOnlyIf'
    <3>1. SettingsInv' /\ AppendersExist'
      BY <1>0, <1>3 DEF SettingsInv, Setting, AppendersExist
    <3>2. FailsOnlyIf'
      BY <1>0, <1>3 DEF FailsOnlyIf, ConfType
    <3>3. QED
      BY <3>1, <3>2
  <2>10. CategoriesInv'
    BY <2>3 DEF CategoriesInv, Visited
  <2>11. \A n : Def(n) = key => n = name
    BY <1>0, KeyFacts
  <2>12. FreshInv'
    <3>1. SUFFICES ASSUME NEW n \in Defined(properties), Def(n) \notin step'.keys
                   PROVE  /\ n \in DOMAIN allAppenders' /\ allAppenders'[n] \in living' \ strays'
                          /\ made'[allAppenders'[n]] = AsDefined(n)
      BY <1>3 DEF FreshInv, Fresh, AsDefined, Value, Has, Defined, AppenderKeys
    <3>2. CASE n = name
      <4>1. x \notin strays
        BY <1>0, <2>6, ConfigAssumption DEF MadeInv
      <4>2. QED
        BY <1>3, <2>1, <2>4, <2>5, <3>2, <4>1
    <3>3. CASE n # name
      <4>1. Def(n) \notin step.keys
        BY <2>3, <2>11, <3>1, <3>3
      <4>2. /\ n \in DOMAIN allAppenders /\ allAppenders[n] \in living \ strays
            /\ made[allAppenders[n]] = AsDefined(n)
        BY <1>0, <3>1, <4>1 DEF FreshInv, Fresh
      <4>3. allAppenders[n] \in 1 .. Len(made)
        BY <1>0, <4>2 DEF MadeInv
      <4>4. QED
        BY <1>3, <2>1, <2>4, <3>3, <4>2, <4>3
    <3>4. QED
      BY <3>2, <3>3
  <2>13. KeysInv'
    <3>1. \A l \in step.keys \ {key} : KeyOrder[key] < KeyOrder[l]
      <4>1. SUFFICES ASSUME NEW l \in step.keys \ {key} PROVE KeyOrder[key] < KeyOrder[l]
        OBVIOUS
      <4>2. l \in AppenderKeys(properties) /\ l # key
        BY <1>0 DEF ConfType
      <4>3. KeyOrder[key] \in Nat /\ KeyOrder[l] \in Nat /\ KeyOrder[key] # KeyOrder[l]
        BY <1>0, <4>2, KeyFacts
      <4>4. KeyOrder[key] <= KeyOrder[l]
        BY <1>0
      <4>5. QED
        BY <4>3, <4>4
    <3>2. \A k \in AppenderKeys(properties) \ step'.keys, l \in step'.keys :
            KeyOrder[k] < KeyOrder[l]
      BY <1>0, <2>3, <3>1 DEF KeysInv
    <3>3. ASSUME NEW n \in Defined(properties), Def(n) \notin step'.keys
          PROVE  KeyOrder[Def(n)] <= KeyOrder[key]
      <4>1. Def(n) \in AppenderKeys(properties)
        BY <1>0, KeyFacts
      <4>2. KeyOrder[Def(n)] \in Nat /\ KeyOrder[key] \in Nat
        BY <1>0, <4>1, KeyFacts
      <4>3. CASE Def(n) = key
        BY <4>2, <4>3
      <4>4. CASE Def(n) # key
        <5>1. Def(n) \notin step.keys
          BY <2>3, <3>3, <4>4
        <5>2. KeyOrder[Def(n)] < KeyOrder[key]
          BY <1>0, <4>1, <5>1 DEF KeysInv
        <5>3. QED
          BY <4>2, <5>2
      <4>5. QED
        BY <4>3, <4>4
    <3>4. properties' = properties /\ key \notin step'.keys /\ Def(step'.current) = key
      BY <1>0, <1>3, <2>3
    <3>5. QED
      BY <1>0, <3>2, <3>3, <3>4 DEF KeysInv, AppenderKeys, Defined
  <2>14. QED
    BY <2>7, <2>8, <2>9, <2>10, <2>12, <2>13 DEF ConfInv
<1>4. QED
  BY <1>1, <1>2, <1>3

\* When a category is done the next one is, or the configuration.
LEMMA ProceedKeeps ==
  ASSUME ConfInv, step.at = "categories", Proceed, properties' = properties,
         MadeInv', SettingsInv', AppendersExist',
         \A n \in Defined(properties) : Fresh(n)',
         \A i \in Visited \cup {step.next} :
           Has(properties, <<"category", CatOrder[i]>>) => AsWritten(CatOrder[i])'
  PROVE  ConfInv'
<1>0. /\ step.keys = {} /\ step.next \in 1 .. Len(CatOrder) /\ outcome.result = "none"
      /\ step = [at |-> step.at, keys |-> step.keys, current |-> step.current, next |-> step.next]
      /\ outcome = [calls |-> outcome.calls, result |-> outcome.result]
      /\ properties \in Files
  BY DEF ConfInv, ConfType
<1>1. Len(CatOrder) \in Nat /\ step.next \in Nat
  BY <1>0, ConfigAssumption, LenProperties
<1>2. /\ ConfType' /\ step'.keys = {} /\ step'.at # "appenders" /\ outcome'.result # "failed"
      /\ Visited' = Visited \cup {step.next}
  <2>1. CASE step.next = Len(CatOrder)
    <3>1. step' = Resting /\ outcome' = [outcome EXCEPT !.result = "done"]
      BY <2>1 DEF Proceed, Ends
    <3>2. outcome' = [calls |-> outcome.calls, result |-> "done"]
      BY <1>0, <3>1
    <3>3. /\ step' = [at |-> "rest", keys |-> {}, current |-> "", next |-> 1]
      BY <3>1 DEF Resting
    <3>4. /\ step'.at = "rest" /\ step'.keys = {} /\ step'.current = "" /\ step'.next = 1
          /\ outcome'.calls = outcome.calls /\ outcome'.result = "done"
      BY <3>2, <3>3
    <3>5. ConfType'
      <4>1. outcome' = [calls |-> outcome'.calls, result |-> outcome'.result]
        BY <3>2, <3>4
      <4>2. step' = [at |-> step'.at, keys |-> step'.keys, current |-> step'.current,
                     next |-> step'.next]
        BY <3>3, <3>4
      <4>3. 1 \in 1 .. Len(CatOrder)
        BY <1>0, <1>1
      <4>4. QED
        BY <1>0, <3>4, <4>1, <4>2, <4>3 DEF ConfType
    <3>6. Visited = 1 .. step.next - 1 /\ Visited' = 1 .. Len(CatOrder)
      BY <3>4 DEF Visited
    <3>7. Visited' = Visited \cup {step.next}
      BY <1>0, <1>1, <2>1, <3>6
    <3>8. QED
      BY <3>4, <3>5, <3>7
  <2>2. CASE step.next # Len(CatOrder)
    <3>1. step' = [step EXCEPT !.next = @ + 1] /\ outcome' = outcome
      BY <2>2 DEF Proceed
    <3>2. step' = [at |-> "categories", keys |-> {}, current |-> step.current,
                   next |-> step.next + 1]
      BY <1>0, <3>1
    <3>3. /\ step'.at = "categories" /\ step'.keys = {} /\ step'.current = step.current
          /\ step'.next = step.next + 1
      BY <3>2
    <3>4. step.next + 1 \in 1 .. Len(CatOrder)
      BY <1>0, <1>1, <2>2
    <3>5. ConfType'
      BY <1>0, <3>1, <3>2, <3>3, <3>4 DEF ConfType
    <3>6. Visited = 1 .. step.next - 1 /\ Visited' = 1 .. (step.next + 1) - 1
      BY <3>3 DEF Visited
    <3>7. Visited' = Visited \cup {step.next}
      BY <1>0, <1>1, <3>6
    <3>8. QED
      BY <1>0, <3>1, <3>3, <3>5, <3>7
  <2>3. QED
    BY <2>1, <2>2
<1>3. FreshInv'
  BY DEF FreshInv, Defined, AppenderKeys
<1>4. KeysInv' /\ FailsOnlyIf'
  BY <1>2 DEF KeysInv, FailsOnlyIf
<1>5. CategoriesInv'
  BY <1>2 DEF CategoriesInv, Has
<1>6. QED
  BY <1>2, <1>3, <1>4, <1>5 DEF ConfInv

\* A category is given what is written, or its line is wrong.
LEMMA CategoryKeeps ==
  ASSUME ConfInv, ConfigureNext
  PROVE  ConfInv'
<1> DEFINE c == CatOrder[step.next]
           key == <<"category", c>>
           v == properties[key]
           found == Found(v.appenders)
           names == {v.appenders[i] : i \in 1 .. found}
           s == [priority |-> v.priority, additive |-> Value(<<"additivity", c>>, TRUE),
                 appenders |-> {allAppenders[n] : n \in names}]
<1>0. /\ ConfType /\ MadeInv /\ FreshInv /\ SettingsInv /\ CategoriesInv /\ AppendersExist
      /\ step.at = "categories" /\ step.keys = {} /\ properties \in Files
      /\ UNCHANGED <<properties, allAppenders, made, living, byName>>
      /\ step.next \in 1 .. Len(CatOrder)
  BY DEF ConfInv, ConfType, ConfigureNext, configureCategory
<1>1. c \in Categories
  <2>1. DOMAIN CatOrder = 1 .. Len(CatOrder)
    BY ConfigAssumption, LenProperties
  <2>2. QED
    BY <1>0, <2>1 DEF Categories
<1>2. \A n \in Defined(properties) : Fresh(n)
  BY <1>0 DEF FreshInv
<1>3. \/ /\ ~Has(properties, key) /\ UNCHANGED <<settings, strays>>
         /\ IF c = TheRoot THEN Ends("failed") ELSE Proceed
      \/ /\ Has(properties, key) /\ UNCHANGED <<settings, strays>> /\ Ends("failed")
         /\ v.priority = Bad \/ (c = TheRoot /\ v.priority >= NOTSET)
      \/ /\ Has(properties, key)
         /\ settings' = [settings EXCEPT ![c] = s]
         /\ strays' = strays \cup {allAppenders[n] : n \in names \ Defined(properties)}
         /\ IF found < Len(v.appenders) THEN Ends("failed") ELSE Proceed
  BY DEF ConfigureNext, configureCategory
<1> HIDE DEF c
<1>4. CASE /\ UNCHANGED <<settings, strays>>
           /\ \/ ~Has(properties, key) /\ IF c = TheRoot THEN Ends("failed") ELSE Proceed
              \/ /\ Has(properties, key) /\ Ends("failed")
                 /\ v.priority = Bad \/ (c = TheRoot /\ v.priority >= NOTSET)
  <2>1. MadeInv' /\ SettingsInv' /\ AppendersExist'
    BY <1>0, <1>4 DEF MadeInv, SettingsInv, Setting, AppendersExist
  <2>2. CASE Ends("failed") /\ Faulty(properties)
    BY <1>0, <2>1, <2>2, FailureKeeps
  <2>3. CASE Proceed /\ ~Has(properties, key)
    <3>1. \A n \in Defined(properties) : Fresh(n)'
      BY <1>0, <1>2, <1>4 DEF Fresh, AsDefined, Value, Has
    <3>2. ASSUME NEW i \in Visited \cup {step.next}, Has(properties, <<"category", CatOrder[i]>>)
          PROVE  AsWritten(CatOrder[i])'
      <4>1. i \in Visited
        BY <2>3, <3>2 DEF c
      <4>2. AsWritten(CatOrder[i])
        BY <1>0, <3>2, <4>1 DEF CategoriesInv
      <4>3. QED
        BY <1>0, <1>4, <4>2 DEF AsWritten, Value, Has, Defined, AppenderKeys, Listed
    <3>3. QED
      BY <1>0, <2>1, <2>3, <3>1, <3>2, ProceedKeeps
  <2>4. ~Has(properties, key) /\ c = TheRoot => Faulty(properties)
    BY DEF Faulty
  <2>5. Has(properties, key) /\ (v.priority = Bad \/ (c = TheRoot /\ v.priority >= NOTSET))
          => Faulty(properties)
    BY <1>1 DEF Faulty
  <2>6. CASE ~Has(properties, key)
    BY <1>4, <2>2, <2>3, <2>4, <2>6
  <2>7. QED
    BY <1>4, <2>2, <2>5, <2>6
<1>5. CASE /\ Has(properties, key)
           /\ settings' = [settings EXCEPT ![c] = s]
           /\ strays' = strays \cup {allAppenders[n] : n \in names \ Defined(properties)}
           /\ IF found < Len(v.appenders) THEN Ends("failed") ELSE Proceed
  <2>1. v.appenders \in Seq({v.appenders[i] : i \in DOMAIN v.appenders})
    BY <1>0, <1>1, <1>5, PropertiesAssumption DEF Has
  <2>2. /\ found \in 0 .. Len(v.appenders) /\ Len(v.appenders) \in Nat
        /\ DOMAIN v.appenders = 1 .. Len(v.appenders)
        /\ \A i \in 1 .. found : Has(allAppenders, v.appenders[i])
        /\ found < Len(v.appenders) =>
             \E i \in DOMAIN v.appenders : ~Has(allAppenders, v.appenders[i])
    <3> DEFINE list == v.appenders
    <3>1. list \in Seq({list[i] : i \in DOMAIN list})
      BY <2>1
    <3> HIDE DEF list
    <3>2. /\ Found(list) \in 0 .. Len(list) /\ Len(list) \in Nat
          /\ DOMAIN list = 1 .. Len(list)
          /\ \A i \in 1 .. Found(list) : Has(allAppenders, list[i])
          /\ Found(list) < Len(list) => \E i \in DOMAIN list : ~Has(allAppenders, list[i])
      BY <3>1, FoundFacts
    <3>3. QED
      BY <3>2 DEF list
  <2>3. \A n \in names : n \in DOMAIN allAppenders
    BY <2>2 DEF Has
  <2>4. \A n \in names \ Defined(properties) : allAppenders[n] \in strays'
    BY <1>5
  <2> HIDE DEF names, found, v
  <2>5. MadeInv'
    <3>1. strays' \subseteq (1 .. Len(made)) \cup {NoAppender}
      BY <1>0, <1>5, <2>3 DEF MadeInv
    <3>2. QED
      BY <1>0, <3>1 DEF MadeInv
  <2>6. /\ s.priority = v.priority /\ s.additive = Value(<<"additivity", c>>, TRUE)
        /\ s.appenders = {allAppenders[n] : n \in names} /\ s = Setting(s)
    BY DEF Setting
  <2> HIDE DEF s
  <2>7. settings' = [d \in Categories |-> IF d = c THEN s ELSE settings[d]]
    BY <1>0, <1>5 DEF SettingsInv
  <2>8. settings'[c] = s /\ \A d \in Categories : d # c => settings'[d] = settings[d]
    BY <1>1, <2>7
  <2>9. SettingsInv'
    <3>1. \A d \in Categories : settings'[d] = Setting(settings'[d])
      BY <1>0, <2>6, <2>8 DEF SettingsInv
    <3>2. settings' = [d \in Categories |-> settings'[d]]
      BY <2>7
    <3>3. QED
      BY <3>1, <3>2 DEF SettingsInv
  <2>10. AppendersExist'
    <3>1. \A n \in names : allAppenders[n] \in living \cup strays'
      BY <1>2, <2>4 DEF Fresh
    <3>2. \A d \in Categories : settings'[d].appenders \subseteq living \cup strays'
      BY <1>0, <1>5, <2>6, <2>8, <3>1 DEF AppendersExist
    <3>3. QED
      BY <1>0, <3>2 DEF AppendersExist
  <2>11. CASE found < Len(v.appenders)
    <3>1. PICK i \in DOMAIN v.appenders : v.appenders[i] \notin DOMAIN allAppenders
      BY <2>2, <2>11 DEF Has
    <3>2. v.appenders[i] \notin Defined(properties)
      BY <1>2, <3>1 DEF Fresh
    <3>3. Faulty(properties)
      BY <1>1, <1>5, <3>1, <3>2 DEF Faulty, v
    <3>4. QED
      BY <1>0, <1>5, <2>5, <2>9, <2>10, <2>11, <3>3, FailureKeeps
  <2>12. CASE ~(found < Len(v.appenders))
    <3>1. found = Len(v.appenders) /\ names = Listed(v)
      BY <2>2, <2>12 DEF names, Listed
    <3>2. ASSUME NEW n \in Defined(properties) PROVE Fresh(n)'
      <4>1. /\ n \in DOMAIN allAppenders /\ allAppenders[n] \in living \ strays
            /\ made[allAppenders[n]] = AsDefined(n) /\ AsDefined(n).name = n
        BY <1>2 DEF Fresh, AsDefined
      <4>2. ASSUME NEW m \in names \ Defined(properties) PROVE allAppenders[m] # allAppenders[n]
        <5>1. m # n /\ m \in DOMAIN allAppenders
          BY <2>3, <3>2, <4>2
        <5>2. allAppenders[m] = NoAppender \/ made[allAppenders[m]].name = m
          BY <1>0, <5>1 DEF MadeInv
        <5>3. allAppenders[n] # NoAppender
          <6>1. living \subseteq 1 .. Len(made) /\ Len(made) \in Nat
            BY <1>0, LenProperties DEF MadeInv
          <6>2. allAppenders[n] \in living
            BY <4>1, Zenon
          <6>3. \A x \in 1 .. Len(made) : x \in Nat
            BY <6>1
          <6>4. QED
            BY <6>1, <6>2, <6>3, ConfigAssumption
        <5>4. made[allAppenders[n]].name = n
          BY <4>1
        <5>5. QED
          BY <5>1, <5>2, <5>3, <5>4
      <4>3. allAppenders[n] \notin strays'
        BY <1>5, <4>1, <4>2
      <4>4. AsDefined(n)' = AsDefined(n)
        BY <1>0 DEF AsDefined, Value, Has
      <4>5. QED
        BY <1>0, <4>1, <4>3, <4>4 DEF Fresh
    <3>3. ASSUME NEW i \in Visited \cup {step.next}, Has(properties, <<"category", CatOrder[i]>>)
          PROVE  AsWritten(CatOrder[i])'
      <4> DEFINE d == CatOrder[i]
      <4>1. /\ \A k : Value(k, TRUE)' = Value(k, TRUE)
            /\ Defined(properties)' = Defined(properties)
        BY <1>0 DEF Value, Has
      <4>2. CASE d = c
        <5>1. settings'[c] = [priority |-> v.priority, additive |-> Value(<<"additivity", c>>, TRUE),
                              appenders |-> {allAppenders[n] : n \in Listed(v)}]
          BY <2>8, <3>1 DEF s
        <5>2. Listed(v) \subseteq DOMAIN allAppenders
          BY <2>3, <3>1
        <5>3. QED
          BY <1>0, <2>4, <3>1, <4>1, <4>2, <5>1, <5>2 DEF AsWritten, v
      <4>3. CASE d # c
        <5>1. i \in Visited
          BY <3>3, <4>3 DEF c
        <5>2. AsWritten(d)
          BY <1>0, <3>3, <5>1 DEF CategoriesInv
        <5>3. d \in Categories
          <6>1. DOMAIN CatOrder = 1 .. Len(CatOrder) /\ Len(CatOrder) \in Nat
            BY ConfigAssumption, LenProperties
          <6>2. i \in 1 .. Len(CatOrder)
            BY <1>0, <5>1, <6>1 DEF Visited
          <6>3. QED
            BY <6>1, <6>2 DEF Categories
        <5>4. settings'[d] = settings[d]
          BY <2>8, <4>3, <5>3
        <5>5. strays \subseteq strays'
          BY <1>5
        <5> HIDE DEF d
        <5>6. AsWritten(d)'
          BY <1>0, <4>1, <5>2, <5>4, <5>5 DEF AsWritten
        <5>7. QED
          BY <5>6 DEF d
      <4>4. QED
        BY <4>2, <4>3
    <3>4. Proceed
      BY <1>5, <2>12
    <3>5. QED
      BY <1>0, <2>5, <2>9, <2>10, <3>2, <3>3, <3>4, ProceedKeeps
  <2>13. QED
    BY <2>11, <2>12
<1>6. QED
  BY <1>3, <1>4, <1>5

\* Nothing has been configured.
LEMMA InitConf == ConfigInit => ConfInv
<1> SUFFICES ASSUME ConfigInit PROVE ConfInv
  OBVIOUS
<1>1. /\ properties = << >> /\ allAppenders = << >> /\ made = << >> /\ living = {}
      /\ settings = [c \in Categories |-> NewCategory(IF c = TheRoot THEN INFO ELSE NOTSET)]
      /\ step = Resting /\ outcome = [calls |-> 0, result |-> "none"] /\ strays = {}
  BY DEF ConfigInit
<1>2. /\ step = [at |-> "rest", keys |-> {}, current |-> "", next |-> 1]
  BY <1>1 DEF Resting
<1>3. /\ step.at = "rest" /\ step.keys = {} /\ step.current = "" /\ step.next = 1
      /\ outcome.calls = 0 /\ outcome.result = "none"
  <2>1. step.at = "rest" /\ step.keys = {} /\ step.current = "" /\ step.next = 1
    BY <1>2
  <2>2. outcome.calls = 0 /\ outcome.result = "none"
    BY <1>1
  <2>3. QED
    BY <2>1, <2>2
<1>4. 1 \in 1 .. Len(CatOrder)
  <2>1. Len(CatOrder) \in Nat /\ CatOrder # << >> /\ CatOrder \in Seq(Categories)
    BY ConfigAssumption, LenProperties
  <2>2. Len(CatOrder) # 0
    BY <2>1, EmptySeq
  <2>3. QED
    BY <2>1, <2>2
<1>5. ConfType
  BY <1>1, <1>2, <1>3, <1>4 DEF ConfType
<1>6. MadeInv
  <2>1. << >> \in Seq({}) /\ DOMAIN << >> = {}
    OBVIOUS
  <2>2. made \in Seq({made[i] : i \in DOMAIN made})
    BY <1>1, EmptySeq
  <2>3. DOMAIN allAppenders = {}
    BY <1>1, <2>1
  <2>4. QED
    BY <1>1, <2>2, <2>3 DEF MadeInv
<1>7. ASSUME NEW c \in Categories
      PROVE  settings[c] = Setting(settings[c]) /\ settings[c].appenders = {}
  <2> DEFINE first == IF c = TheRoot THEN INFO ELSE NOTSET
  <2>1. settings[c] = [priority |-> first, additive |-> TRUE, appenders |-> {}]
    BY <1>1 DEF NewCategory
  <2> HIDE DEF first
  <2>2. QED
    BY <2>1 DEF Setting
<1>8. SettingsInv
  <2>1. settings = [c \in Categories |-> settings[c]]
    BY <1>1
  <2>2. QED
    BY <1>7, <2>1 DEF SettingsInv
<1>9. AppendersExist
  <2>1. \A c \in Categories : settings[c].appenders \subseteq living \cup strays
    BY <1>7
  <2>2. QED
    BY <2>1 DEF AppendersExist
<1>10. FreshInv /\ KeysInv /\ CategoriesInv /\ FailsOnlyIf
  BY <1>3 DEF FreshInv, KeysInv, CategoriesInv, Visited, FailsOnlyIf
<1>11. QED
  BY <1>5, <1>6, <1>8, <1>9, <1>10 DEF ConfInv

\* A property of an appender that is not the current one's, and not a
\* definition, makes the configuration fail.
LEMMA InstantiateNextKeeps ==
  ASSUME ConfInv, InstantiateNext
  PROVE  ConfInv'
<1>1. step.at = "appenders" /\ step.keys # {}
  BY DEF InstantiateNext
<1>2. CASE NextKey[2] = step.current
  BY <1>1, <1>2, SkipKeeps DEF InstantiateNext
<1>3. CASE NextKey[2] # step.current /\ Len(NextKey) = 2
  BY <1>1, <1>3, InstantiateKeeps DEF InstantiateNext
<1>4. CASE NextKey[2] # step.current /\ Len(NextKey) # 2
  <2>1. /\ Ends("failed")
        /\ UNCHANGED <<properties, allAppenders, made, living, byName, settings, strays>>
    BY <1>4 DEF InstantiateNext
  <2>2. MadeInv' /\ SettingsInv' /\ AppendersExist'
    BY <2>1 DEF ConfInv, MadeInv, SettingsInv, Setting, AppendersExist
  <2>3. Faulty(properties) \/ Interleaved(properties)
    BY <1>1, <1>4, PartialIsWrong
  <2>4. QED
    BY <1>1, <2>1, <2>2, <2>3, FailureKeeps
<1>5. QED
  BY <1>2, <1>3, <1>4

\* Every step of the configurator keeps the invariant.
LEMMA ConfigNextKeeps == ConfInv /\ [ConfigNext]_confVars => ConfInv'
<1> SUFFICES ASSUME ConfInv, [ConfigNext]_confVars PROVE ConfInv'
  OBVIOUS
<1>1. CASE UNCHANGED confVars
  <2>1. /\ properties' = properties /\ allAppenders' = allAppenders /\ made' = made
        /\ living' = living /\ settings' = settings /\ step' = step /\ outcome' = outcome
        /\ strays' = strays
    BY <1>1 DEF confVars
  <2>2. ConfType' /\ MadeInv' /\ SettingsInv' /\ AppendersExist'
    <3>1. ConfType'
      BY <2>1 DEF ConfInv, ConfType, AppenderKeys
    <3>2. MadeInv' /\ SettingsInv' /\ AppendersExist'
      BY <2>1 DEF ConfInv, MadeInv, SettingsInv, Setting, AppendersExist
    <3>3. QED
      BY <3>1, <3>2
  <2>3. FreshInv' /\ KeysInv'
    BY <2>1 DEF ConfInv, FreshInv, KeysInv, Fresh, AsDefined, Value, Has, Defined, AppenderKeys
  <2>4. CategoriesInv'
    <3>1. Visited' = Visited
      BY <2>1 DEF Visited
    <3>2. /\ \A k : Value(k, TRUE)' = Value(k, TRUE) /\ Has(properties, k)' = Has(properties, k)
          /\ Defined(properties)' = Defined(properties)
      BY <2>1 DEF Value, Has
    <3>3. \A c : AsWritten(c) => AsWritten(c)'
      BY <2>1, <3>2 DEF AsWritten
    <3>4. CategoriesInv
      BY DEF ConfInv
    <3>5. QED
      BY <3>1, <3>2, <3>3, <3>4 DEF CategoriesInv
  <2>5. FailsOnlyIf'
    BY <2>1 DEF ConfInv, FailsOnlyIf, Faulty, Interleaved, Has, Defined, AppenderKeys
  <2>6. QED
    BY <2>2, <2>3, <2>4, <2>5 DEF ConfInv
<1>2. CASE ConfigNext
  <2>1. CASE FileDoesNotExist
    BY <2>1, NoFileKeeps
  <2>2. CASE ~FileDoesNotExist
    BY <1>2, <2>2, ConfigureKeeps, InstantiateNextKeeps, AppendersDoneKeeps, CategoryKeeps,
       ShutdownKeeps DEF ConfigNext
  <2>3. QED
    BY <2>1, <2>2
<1>3. QED
  BY <1>1, <1>2

\* The inductive invariant of the configurator.
THEOREM ConfigInvariance == ConfigSpec => []ConfInv
  BY InitConf, ConfigNextKeeps, PTL DEF ConfigSpec

\* A category's pointers are to appenders that live, but for those whose names
\* the file does not define.
THEOREM PointersAreValid == ConfigSpec => []AppendersExist
<1>1. ConfInv => AppendersExist
  BY DEF ConfInv
<1>2. QED
  BY ConfigInvariance, <1>1, PTL

\* A configuration fails for a definition that is wrong, or for two names of
\* which one is the start of the other.
THEOREM OnlyTheseFail == ConfigSpec => []FailsOnlyIf
<1>1. ConfInv => FailsOnlyIf
  BY DEF ConfInv
<1>2. QED
  BY ConfigInvariance, <1>1, PTL

\* What a category has after a configuration without error is what is written.
LEMMA WrittenIsConfigured == ConfInv => ConfiguredAsWritten
<1> SUFFICES ASSUME ConfInv, outcome.result = "done",
                    NEW c \in Categories, Has(properties, <<"category", c>>)
             PROVE  LET v == properties[<<"category", c>>]
                        Made(n) == [name |-> n,
                                    layout |-> Value(<<"appender", n, "layout">>, "missing"),
                                    threshold |-> Value(<<"appender", n, "threshold">>, NOTSET)]
                        names == {v.appenders[i] : i \in DOMAIN v.appenders}
                    IN  /\ settings[c].priority = v.priority
                        /\ settings[c].additive = Value(<<"additivity", c>>, TRUE)
                        /\ {made[x] : x \in settings[c].appenders \ strays} =
                             {Made(n) : n \in names \cap Defined(properties)}
  BY Zenon DEF ConfiguredAsWritten
<1> DEFINE v == properties[<<"category", c>>]
<1>1. step.at = "rest" /\ step.keys = {}
  BY DEF ConfInv, ConfType
<1>2. PICK i \in 1 .. Len(CatOrder) : c = CatOrder[i]
  BY ConfigAssumption, LenProperties DEF Categories
<1>3. AsWritten(c)
  BY <1>1, <1>2 DEF ConfInv, CategoriesInv, Visited
<1>4. /\ settings[c].priority = v.priority
      /\ settings[c].additive = Value(<<"additivity", c>>, TRUE)
      /\ settings[c].appenders = {allAppenders[n] : n \in Listed(v)}
  BY <1>3 DEF AsWritten
<1>5. /\ \A n \in Listed(v) \ Defined(properties) : allAppenders[n] \in strays
      /\ \A n \in Defined(properties) : allAppenders[n] \notin strays /\ made[allAppenders[n]] = AsDefined(n)
  BY <1>1, <1>3 DEF AsWritten, ConfInv, FreshInv, Fresh
<1>6. {made[x] : x \in settings[c].appenders \ strays} =
        {AsDefined(n) : n \in Listed(v) \cap Defined(properties)}
  BY <1>4, <1>5
<1>7. QED
  BY <1>4, <1>6 DEF AsDefined, Listed

\* After a configuration without error every category the file configures is as
\* written there, whatever was configured before.
THEOREM ConfiguredIsWritten == ConfigSpec => []ConfiguredAsWritten
  BY ConfigInvariance, WrittenIsConfigured, PTL

-----------------------------------------------------------------------------
(* The buffering appender. *)

Event == [priority : Priorities, threshold : Nat, chain : Seq(Filters), lossy : BOOLEAN]

BufferType ==
  /\ threshold \in Nat /\ chain \in Seq(Filters) /\ lossy \in BOOLEAN
  /\ sinkLimit \in SinkThresholds
  /\ queue \in Seq(Nat) /\ sink \in Seq(Seq(Nat))
  /\ given \in Seq(Event)

Triggers == {e \in Due : given[e].priority <= Level}
Pending == {e \in Due : \A u \in Triggers : u < e}

\* What led to a trigger.
Since(t) == {e \in Due : e <= t /\ \A u \in Triggers : u < t => u < e}

Lost(events) == \E e \in events : given[e].lossy

\* The queue holds the newest of these events, all of them or, if some were
\* given up, at least as many as it has room for.
Recent(q, due, lost) ==
  /\ q \in Seq(Nat)
  /\ \A j, k \in 1 .. Len(q) : j < k => q[k] < q[j]
  /\ \A j \in 1 .. Len(q) : q[j] \in due
  /\ \A e \in due, j \in 1 .. Len(q) : q[j] <= e => \E k \in 1 .. Len(q) : q[k] = e
  /\ \/ \A e \in due : Len(q) > 0 /\ q[Len(q)] <= e
     \/ Len(q) >= MaxBuffered /\ lost

\* A dump is of the newest of these events, the oldest first.
Explained(d, since, lost) ==
  /\ \A j, k \in DOMAIN d : j < k => d[j] < d[k]
  /\ {d[j] : j \in DOMAIN d} = {e \in since : e >= d[1]}
  /\ \/ \A e \in since : d[1] <= e
     \/ Len(d) >= MaxBuffered /\ lost

\* The dumps that end with an event.
Ending(s, t) == {i \in DOMAIN s : s[i][Len(s[i])] = t}

\* There is one, and it is of what led to it.
Told(s, t, since, lost) ==
  \E i \in Ending(s, t) : Ending(s, t) = {i} /\ Explained(s[i], since, lost)

\* No dump is empty, and a sink with a threshold has none.
SinkType ==
  /\ sinkLimit # NOTSET => sink = << >>
  /\ \A i \in DOMAIN sink : Len(sink[i]) > 0 /\ sink[i][Len(sink[i])] \in DOMAIN given

AllTold ==
  sinkLimit = NOTSET => \A t \in Triggers : Told(sink, t, Since(t), Lost(Since(t)))

BufferInv == BufferType /\ Recent(queue, Pending, Lost(Pending)) /\ SinkType /\ AllTold

\* What each filter decides, or the ones after it.
Deciding(f, c, n) ==
  f = [i \in 1 .. n |-> IF c[i] = "NEUTRAL" /\ i < n THEN f[i + 1] ELSE c[i]]

\* The filter that a question put to filter i stops at.
Stop(c, n, i, k) ==
  /\ i <= k /\ (c[k] # "NEUTRAL" \/ k = n)
  /\ \A j \in i .. k - 1 : c[j] = "NEUTRAL" /\ j # n

\* There is one that the question stops at.
LEMMA StopsAt ==
  ASSUME NEW n \in Nat \ {0}, NEW c, NEW i \in 1 .. n
  PROVE  \E k \in 1 .. n : Stop(c, n, i, k)
<1> DEFINE T == {k \in i .. n : c[k] # "NEUTRAL" \/ k = n}
<1>1. T \in SUBSET Nat /\ n \in T
  OBVIOUS
<1>2. PICK k \in T : \A j \in T : k <= j
  BY <1>1, LeastExists
<1>3. k \in 1 .. n /\ i <= k /\ (c[k] # "NEUTRAL" \/ k = n)
  BY <1>2
<1>4. ASSUME NEW j \in i .. k - 1 PROVE c[j] = "NEUTRAL" /\ j # n
  <2>1. j \in i .. n /\ ~(k <= j)
    BY <1>3, <1>4
  <2>2. j \notin T
    BY <1>2, <2>1
  <2>3. QED
    BY <2>1, <2>2
<1>5. QED
  BY <1>3, <1>4 DEF Stop

\* The recursion has a solution.
LEMMA DecisionExists ==
  ASSUME NEW n \in Nat \ {0}, NEW c
  PROVE  \E f : Deciding(f, c, n)
<1> DEFINE first(i) == CHOOSE k \in 1 .. n : Stop(c, n, i, k)
           g == [i \in 1 .. n |-> c[first(i)]]
<1>1. ASSUME NEW i \in 1 .. n PROVE first(i) \in 1 .. n /\ Stop(c, n, i, first(i))
  <2>1. \E k \in 1 .. n : Stop(c, n, i, k)
    BY StopsAt
  <2>2. QED
    BY <2>1
<1>2. ASSUME NEW i \in 1 .. n, NEW k \in 1 .. n, NEW m \in 1 .. n,
             Stop(c, n, i, k), Stop(c, n, i, m)
      PROVE  k = m
  <2>1. ~(k < m) /\ ~(m < k)
    BY <1>2 DEF Stop
  <2>2. QED
    BY <2>1
<1>3. ASSUME NEW i \in 1 .. n PROVE g[i] = IF c[i] = "NEUTRAL" /\ i < n THEN g[i + 1] ELSE c[i]
  <2>1. CASE c[i] = "NEUTRAL" /\ i < n
    <3>1. i + 1 \in 1 .. n
      BY <2>1
    <3>2. first(i + 1) \in 1 .. n /\ Stop(c, n, i + 1, first(i + 1))
      BY <1>1, <3>1
    <3> DEFINE k == first(i + 1)
    <3> HIDE DEF first
    <3>3. Stop(c, n, i, k)
      <4>1. i <= k /\ (c[k] # "NEUTRAL" \/ k = n)
        BY <3>2 DEF Stop
      <4>2. ASSUME NEW j \in i .. k - 1 PROVE c[j] = "NEUTRAL" /\ j # n
        BY <2>1, <3>2 DEF Stop
      <4>3. QED
        BY <4>1, <4>2 DEF Stop
    <3>4. first(i) = k
      BY <1>1, <1>2, <3>2, <3>3
    <3>5. QED
      BY <2>1, <3>1, <3>4
  <2>2. CASE ~(c[i] = "NEUTRAL" /\ i < n)
    <3>1. Stop(c, n, i, i)
      BY <2>2 DEF Stop
    <3>2. first(i) = i
      BY <1>1, <1>2, <3>1
    <3> HIDE DEF first
    <3>3. QED
      BY <2>2, <3>2
  <2>3. QED
    BY <2>1, <2>2
<1>4. g = [i \in 1 .. n |-> g[i]]
  OBVIOUS
<1> HIDE DEF g
<1>5. Deciding(g, c, n)
  BY <1>3, <1>4 DEF Deciding
<1>6. QED
  BY <1>5

\* And the solution is what the filter decides at which the question stops.
LEMMA DecisionIs ==
  ASSUME NEW n \in Nat \ {0}, NEW c, NEW f, Deciding(f, c, n),
         NEW k \in 1 .. n, Stop(c, n, 1, k)
  PROVE  f[1] = c[k]
<1>1. \A i \in 1 .. n : f[i] = IF c[i] = "NEUTRAL" /\ i < n THEN f[i + 1] ELSE c[i]
  BY DEF Deciding
<1> DEFINE B == {d \in 0 .. k - 1 : f[k - d] # c[k]}
<1>2. SUFFICES ASSUME B # {} PROVE FALSE
  <2>1. k - 1 \in 0 .. k - 1 /\ k - (k - 1) = 1
    OBVIOUS
  <2>2. f[1] # c[k] => k - 1 \in B
    BY <2>1
  <2>3. QED
    BY <1>2, <2>2
<1>3. B \in SUBSET Nat
  OBVIOUS
<1>4. PICK d \in B : \A e \in B : d <= e
  BY <1>2, <1>3, LeastExists
<1>5. d \in 0 .. k - 1 /\ f[k - d] # c[k]
  BY <1>4
<1>6. f[k] = c[k]
  BY <1>1 DEF Stop
<1>7. d # 0
  <2>1. d = 0 => k - d = k
    OBVIOUS
  <2>2. QED
    BY <1>5, <1>6, <2>1
<1>8. /\ d - 1 \in 0 .. k - 1 /\ ~(d <= d - 1) /\ k - (d - 1) = (k - d) + 1
      /\ k - d \in 1 .. k - 1 /\ k - d \in 1 .. n /\ k - d < n
  BY <1>5, <1>7
<1>9. f[k - d] = f[(k - d) + 1]
  BY <1>1, <1>8 DEF Stop
<1>10. d - 1 \in B
  BY <1>5, <1>8, <1>9
<1>11. QED
  BY <1>4, <1>8, <1>10

\* The first filter with an opinion decides, or the last one.
LEMMA DecideFacts ==
  ASSUME NEW p, chain \in Seq(Filters), chain # << >>
  PROVE  (decide(p) # "DENY") <=>
           \A i \in DOMAIN chain : chain[i][p] = "DENY" =>
             \E j \in 1 .. i - 1 : chain[j][p] # "NEUTRAL"
<1> DEFINE n == Len(chain)
           c == [i \in 1 .. n |-> chain[i][p]]
           f == CHOOSE h : Deciding(h, c, n)
<1>1. n \in Nat \ {0} /\ DOMAIN chain = 1 .. n
  <2>1. Len(chain) # 0
    BY EmptySeq
  <2>2. QED
    BY <2>1, LenProperties
<1>2. decide(p) = f[1]
  <2>1. \A h : Deciding(h, c, n) <=>
          h = [i \in 1 .. n |-> LET decision == chain[i][p] IN
                 IF decision = "NEUTRAL" /\ i < n THEN h[i + 1] ELSE decision]
    BY DEF Deciding
  <2>2. QED
    BY <2>1 DEF decide
<1>3. \A i \in 1 .. n : c[i] = chain[i][p]
  OBVIOUS
<1> HIDE DEF n, c
<1>4. Deciding(f, c, n)
  BY <1>1, DecisionExists
<1> HIDE DEF f
<1>5. PICK k \in 1 .. n : Stop(c, n, 1, k)
  <2>1. 1 \in 1 .. n
    BY <1>1
  <2>2. QED
    BY <1>1, <2>1, StopsAt
<1>6. decide(p) = c[k]
  <2>1. f[1] = c[k]
    BY <1>1, <1>4, <1>5, DecisionIs
  <2>2. QED
    BY <1>2, <2>1
<1>7. ASSUME c[k] # "DENY", NEW i \in 1 .. n, c[i] = "DENY"
      PROVE  \E j \in 1 .. i - 1 : c[j] # "NEUTRAL" /\ j \in 1 .. n
  <2>1. ~(i < k) /\ i # k
    BY <1>5, <1>7 DEF Stop
  <2>2. k \in 1 .. i - 1 /\ k # n
    BY <1>1, <1>5, <2>1
  <2>3. QED
    BY <1>5, <2>2 DEF Stop
<1>8. ASSUME c[k] = "DENY"
      PROVE  ~(\A i \in 1 .. n : c[i] = "DENY" => \E j \in 1 .. i - 1 : c[j] # "NEUTRAL")
  BY <1>5, <1>8 DEF Stop
<1>9. \A i \in 1 .. n : \A j \in 1 .. i - 1 : j \in 1 .. n /\ c[j] = chain[j][p]
  BY <1>1, <1>3
<1>10. QED
  BY <1>1, <1>3, <1>6, <1>7, <1>8, <1>9

\* The events to be appended, by what was given with them.
Wanted(g) ==
  /\ g.threshold = NOTSET \/ g.priority <= g.threshold
  /\ \A i \in DOMAIN g.chain :
       g.chain[i][g.priority] = "DENY" =>
         \E j \in 1 .. i - 1 : g.chain[j][g.priority] # "NEUTRAL"

\* What doAppend() lets through is what the history calls due.
LEMMA PassesFacts ==
  ASSUME BufferType, NEW p
  PROVE  Passes(p) <=> Wanted([priority |-> p, threshold |-> threshold,
                               chain |-> chain, lossy |-> lossy])
<1> DEFINE g == [priority |-> p, threshold |-> threshold, chain |-> chain, lossy |-> lossy]
<1>1. g.priority = p /\ g.threshold = threshold /\ g.chain = chain
  OBVIOUS
<1> HIDE DEF g
<1>2. Wanted(g) <=>
        /\ threshold = NOTSET \/ p <= threshold
        /\ \A i \in DOMAIN chain : chain[i][p] = "DENY" =>
             \E j \in 1 .. i - 1 : chain[j][p] # "NEUTRAL"
  BY <1>1, Zenon DEF Wanted
<1>3. CASE chain = << >>
  <2>1. DOMAIN chain = {}
    BY <1>3
  <2>2. QED
    BY <1>2, <1>3, <2>1 DEF Passes, Reaches, g
<1>4. CASE chain # << >>
  <2>1. chain \in Seq(Filters)
    BY DEF BufferType
  <2>2. QED
    BY <1>2, <1>4, <2>1, DecideFacts DEF Passes, Reaches, g
<1>5. QED
  BY <1>3, <1>4

\* A new event changes nothing of the earlier ones, and is due if it passes.
LEMMA DueStep ==
  ASSUME BufferType, NEW p \in Priorities,
         given' = Append(given, [priority |-> p, threshold |-> threshold,
                                 chain |-> chain, lossy |-> lossy])
  PROVE  LET n == Len(given) + 1 IN
           /\ n \in Nat /\ DOMAIN given = 1 .. n - 1 /\ DOMAIN given' = 1 .. n
           /\ given' \in Seq(Event) /\ Len(given') = n
           /\ \A e \in DOMAIN given : given'[e] = given[e]
           /\ given'[n].priority = p /\ given'[n].lossy = lossy
           /\ Due \subseteq DOMAIN given
           /\ Due' = IF Passes(p) THEN Due \cup {n} ELSE Due
<1> DEFINE n == Len(given) + 1
           g == [priority |-> p, threshold |-> threshold, chain |-> chain, lossy |-> lossy]
<1>1. given \in Seq(Event) /\ g \in Event
  <2>1. threshold \in Nat /\ chain \in Seq(Filters) /\ lossy \in BOOLEAN /\ given \in Seq(Event)
    BY DEF BufferType
  <2>2. QED
    BY <2>1, Zenon DEF Event
<1>2. g.priority = p /\ g.lossy = lossy /\ given' = Append(given, g)
  OBVIOUS
<1>3. Passes(p) <=> Wanted(g)
  BY PassesFacts
<1> HIDE DEF g
<1>4. /\ n \in Nat /\ DOMAIN given = 1 .. n - 1 /\ DOMAIN given' = 1 .. n /\ Len(given') = n
      /\ \A e \in DOMAIN given : given'[e] = given[e]
      /\ given'[n] = g /\ given' \in Seq(Event)
  BY <1>1, <1>2
<1> HIDE DEF n
<1>5. Due = {e \in DOMAIN given : Wanted(given[e])} /\ Due' = {e \in DOMAIN given' : Wanted(given'[e])}
  BY Zenon DEF Due, Wanted
<1>6. DOMAIN given' = DOMAIN given \cup {n}
  BY <1>4
<1>7. Due' = IF Passes(p) THEN Due \cup {n} ELSE Due
  <2>1. \A e : e \in Due' <=> (e \in Due \/ (e = n /\ Wanted(g)))
    BY <1>4, <1>5, <1>6
  <2>2. QED
    BY <1>3, <2>1
<1>8. QED
  BY <1>2, <1>4, <1>5, <1>7 DEF n

\* An event put in front of the newest ones, after making room for it.
LEMMA KeptFacts ==
  ASSUME NEW q, NEW due \in SUBSET Nat, NEW lost \in BOOLEAN, Recent(q, due, lost),
         NEW n \in Nat, \A e \in due : e < n, NEW more \in BOOLEAN, lost => more,
         NEW m, m = q \/ (m = SubSeq(q, 1, Len(q) - 1) /\ Len(q) = MaxBuffered /\ more)
  PROVE  /\ Recent(<<n>> \o m, due \cup {n}, more)
         /\ Len(<<n>> \o m) > 0 /\ (<<n>> \o m)[1] = n
<1> DEFINE kept == <<n>> \o m
<1>1. q \in Seq(Nat) /\ Len(q) \in Nat /\ MaxBuffered \in Nat \ {0}
  BY BufferAssumption, LenProperties DEF Recent
<1>2. /\ m \in Seq(Nat)
      /\ \/ Len(m) = Len(q)
         \/ Len(m) = Len(q) - 1 /\ Len(q) = MaxBuffered /\ more
      /\ \A j \in 1 .. Len(m) : m[j] = q[j]
  <2>1. CASE m = SubSeq(q, 1, Len(q) - 1) /\ Len(q) = MaxBuffered /\ more
    BY <1>1, <2>1, SubSeqProperties
  <2>2. CASE m = q
    BY <1>1, <2>2
  <2>3. QED
    BY <2>1, <2>2
<1>3. /\ kept \in Seq(Nat) /\ Len(kept) = Len(m) + 1 /\ kept[1] = n
      /\ \A j \in 1 .. Len(kept) : j > 1 => j - 1 \in 1 .. Len(m) /\ kept[j] = q[j - 1]
  <2>1. /\ kept \in Seq(Nat) /\ Len(kept) = Len(m) + 1 /\ kept[1] = n
        /\ \A j \in 1 .. Len(kept) : j > 1 => kept[j] = m[j - 1]
    BY <1>2
  <2>2. \A j \in 1 .. Len(kept) : j > 1 => j - 1 \in 1 .. Len(m)
    BY <2>1, <1>2, LenProperties
  <2>3. QED
    BY <1>2, <2>1, <2>2
<1> HIDE DEF kept
<1>4. /\ Len(m) \in Nat /\ Len(m) <= Len(q)
      /\ \A j \in 1 .. Len(m) : j \in 1 .. Len(q)
  BY <1>1, <1>2
<1>5. /\ \A j, k \in 1 .. Len(q) : j < k => q[k] < q[j]
      /\ \A j \in 1 .. Len(q) : q[j] \in due
      /\ \A e \in due, j \in 1 .. Len(q) : q[j] <= e => \E k \in 1 .. Len(q) : q[k] = e
      /\ \/ \A e \in due : Len(q) > 0 /\ q[Len(q)] <= e
         \/ Len(q) >= MaxBuffered /\ lost
  BY DEF Recent
<1>6. ASSUME NEW j \in 1 .. Len(kept) PROVE kept[j] \in due \cup {n}
  <2>1. CASE j = 1
    BY <1>3, <2>1
  <2>2. CASE j # 1
    <3>1. j - 1 \in 1 .. Len(q) /\ kept[j] = q[j - 1]
      BY <1>3, <1>4, <2>2
    <3>2. QED
      BY <1>5, <3>1
  <2>3. QED
    BY <2>1, <2>2
<1>7. ASSUME NEW j \in 1 .. Len(kept), NEW k \in 1 .. Len(kept), j < k PROVE kept[k] < kept[j]
  <2>1. k > 1 /\ k - 1 \in 1 .. Len(q) /\ kept[k] = q[k - 1]
    BY <1>3, <1>4, <1>7
  <2>2. CASE j = 1
    BY <1>3, <1>5, <2>1, <2>2
  <2>3. CASE j # 1
    <3>1. j - 1 \in 1 .. Len(q) /\ kept[j] = q[j - 1] /\ j - 1 < k - 1
      BY <1>3, <1>4, <1>7, <2>3
    <3>2. QED
      BY <1>5, <2>1, <3>1
  <2>4. QED
    BY <2>2, <2>3
<1>8. ASSUME NEW e \in due \cup {n}, NEW j \in 1 .. Len(kept), kept[j] <= e
      PROVE  \E k \in 1 .. Len(kept) : kept[k] = e
  <2>1. CASE e = n
    <3>1. 1 \in 1 .. Len(kept)
      BY <1>3, <1>4
    <3>2. QED
      BY <1>3, <2>1, <3>1
  <2>2. CASE e # n
    <3>1. e \in due /\ e \in Nat /\ e < n
      BY <2>2
    <3>2. j # 1
      BY <1>3, <1>8, <3>1
    <3>3. j - 1 \in 1 .. Len(m) /\ kept[j] = q[j - 1]
      BY <1>3, <3>2
    <3>4. PICK k \in 1 .. Len(q) : q[k] = e
      BY <1>4, <1>5, <1>8, <3>1, <3>3
    <3>5. k \in 1 .. Len(m)
      <4>1. SUFFICES ASSUME ~(k <= Len(m)) PROVE FALSE
        BY <1>4
      <4>2. j - 1 < k /\ j - 1 \in 1 .. Len(q)
        BY <1>4, <3>3, <4>1
      <4>3. q[k] < q[j - 1] /\ q[j - 1] \in Nat /\ q[j - 1] <= e
        BY <1>1, <1>5, <1>8, <3>3, <4>2
      <4>4. QED
        BY <3>1, <3>4, <4>3
    <3>6. k + 1 \in 1 .. Len(kept) /\ k + 1 > 1 /\ (k + 1) - 1 = k
      BY <1>3, <1>4, <3>5
    <3>7. kept[k + 1] = e
      BY <1>3, <3>4, <3>6
    <3>8. QED
      BY <3>6, <3>7
  <2>3. QED
    BY <2>1, <2>2
<1>9. \/ \A e \in due \cup {n} : Len(kept) > 0 /\ kept[Len(kept)] <= e
      \/ Len(kept) >= MaxBuffered /\ more
  <2>1. CASE Len(m) = Len(q) - 1 /\ Len(q) = MaxBuffered /\ more
    BY <1>1, <1>3, <2>1
  <2>2. CASE Len(m) = Len(q) /\ Len(q) >= MaxBuffered /\ lost
    BY <1>1, <1>3, <2>2
  <2>3. CASE Len(m) = Len(q) /\ \A e \in due : Len(q) > 0 /\ q[Len(q)] <= e
    <3>1. Len(m) = Len(q) /\ Len(kept) = Len(q) + 1
      BY <1>3, <2>3
    <3>2. CASE Len(q) = 0
      BY <1>3, <2>3, <3>1, <3>2
    <3>3. CASE Len(q) > 0
      <4>1. kept[Len(kept)] = q[Len(q)]
        <5>1. Len(kept) > 1 /\ Len(kept) \in 1 .. Len(kept) /\ Len(kept) - 1 = Len(q)
          BY <1>1, <3>1, <3>3
        <5>2. QED
          BY <1>3, <5>1
      <4>2. q[Len(q)] \in due /\ q[Len(q)] \in Nat
        BY <1>1, <1>5, <3>3
      <4>3. QED
        BY <1>1, <2>3, <3>1, <4>1, <4>2
    <3>4. QED
      BY <1>1, <3>2, <3>3
  <2>4. QED
    BY <1>2, <1>5, <2>1, <2>2, <2>3
<1>10. Recent(kept, due \cup {n}, more)
  BY <1>3, <1>6, <1>7, <1>8, <1>9, Zenon DEF Recent
<1>11. QED
  BY <1>3, <1>4, <1>10 DEF kept

Reversed(q) == [i \in 1 .. Len(q) |-> q[Len(q) + 1 - i]]

\* What a dump says of the newest events, when it is made of them.
LEMMA ReversedFacts ==
  ASSUME NEW q, NEW due \in SUBSET Nat, NEW lost \in BOOLEAN, Recent(q, due, lost), Len(q) > 0
  PROVE  LET d == Reversed(q) IN
           /\ d \in Seq(Nat) /\ Len(d) > 0 /\ d[Len(d)] = q[1]
           /\ Explained(d, due, lost)
<1> DEFINE d == Reversed(q)
<1>1. q \in Seq(Nat) /\ Len(q) \in Nat \ {0} /\ MaxBuffered \in Nat \ {0}
  BY BufferAssumption, LenProperties DEF Recent
<1>2. /\ DOMAIN d = 1 .. Len(q) /\ d \in Seq(Nat) /\ Len(d) = Len(q)
      /\ \A i \in 1 .. Len(q) : d[i] = q[Len(q) + 1 - i]
  <2>1. \A i \in 1 .. Len(q) : Len(q) + 1 - i \in 1 .. Len(q)
    BY <1>1
  <2>2. d \in [1 .. Len(q) -> Nat]
    BY <1>1, <2>1 DEF Reversed
  <2>3. QED
    BY <1>1, <2>2 DEF Reversed
<1> HIDE DEF d
<1>3. d[Len(d)] = q[1] /\ d[1] = q[Len(q)]
  <2>1. 1 \in 1 .. Len(q) /\ Len(q) \in 1 .. Len(q) /\ Len(q) + 1 - Len(q) = 1 /\ Len(q) + 1 - 1 = Len(q)
    BY <1>1
  <2>2. QED
    BY <1>2, <2>1
<1>4. /\ \A j, k \in 1 .. Len(q) : j < k => q[k] < q[j]
      /\ \A j \in 1 .. Len(q) : q[j] \in due
      /\ \A e \in due, j \in 1 .. Len(q) : q[j] <= e => \E k \in 1 .. Len(q) : q[k] = e
      /\ \/ \A e \in due : Len(q) > 0 /\ q[Len(q)] <= e
         \/ Len(q) >= MaxBuffered /\ lost
  BY DEF Recent
<1>5. ASSUME NEW j \in DOMAIN d, NEW k \in DOMAIN d, j < k PROVE d[j] < d[k]
  <2>1. /\ Len(q) + 1 - j \in 1 .. Len(q) /\ Len(q) + 1 - k \in 1 .. Len(q)
        /\ Len(q) + 1 - k < Len(q) + 1 - j
    <3>1. j \in 1 .. Len(q) /\ k \in 1 .. Len(q)
      BY <1>2
    <3>2. QED
      BY <1>1, <1>5, <3>1
  <2>2. d[j] = q[Len(q) + 1 - j] /\ d[k] = q[Len(q) + 1 - k]
    BY <1>2
  <2>3. QED
    BY <1>4, <2>1, <2>2
<1>6. ASSUME NEW j \in DOMAIN d PROVE d[j] \in due /\ d[j] >= d[1]
  <2>1. Len(q) + 1 - j \in 1 .. Len(q) /\ Len(q) \in 1 .. Len(q)
    BY <1>1, <1>2
  <2>2. d[j] \in due /\ d[j] \in Nat
    BY <1>2, <1>4, <2>1
  <2>3. CASE j = 1
    BY <2>2, <2>3
  <2>4. CASE j # 1
    <3>1. Len(q) + 1 - j < Len(q)
      BY <1>1, <1>2, <2>4
    <3>2. q[Len(q)] < q[Len(q) + 1 - j]
      BY <1>4, <2>1, <3>1
    <3>3. q[Len(q)] \in Nat
      BY <1>1, <2>1
    <3>4. d[j] = q[Len(q) + 1 - j] /\ d[1] = q[Len(q)]
      BY <1>2, <1>3
    <3>5. QED
      BY <2>2, <3>2, <3>3, <3>4
  <2>5. QED
    BY <2>3, <2>4
<1>7. ASSUME NEW e \in due, e >= d[1] PROVE \E j \in DOMAIN d : d[j] = e
  <2>1. Len(q) \in 1 .. Len(q) /\ q[Len(q)] \in Nat
    BY <1>1
  <2>2. PICK k \in 1 .. Len(q) : q[k] = e
    <3>1. q[Len(q)] <= e
      BY <1>3, <1>7, <2>1
    <3>2. QED
      BY <1>4, <2>1, <3>1
  <2>3. Len(q) + 1 - k \in 1 .. Len(q) /\ Len(q) + 1 - (Len(q) + 1 - k) = k
    BY <1>1
  <2>4. QED
    BY <1>2, <2>2, <2>3
<1>8. {d[j] : j \in DOMAIN d} = {e \in due : e >= d[1]}
  BY <1>6, <1>7
<1>9. \/ \A e \in due : d[1] <= e
      \/ Len(d) >= MaxBuffered /\ lost
  BY <1>2, <1>3, <1>4
<1>10. Explained(d, due, lost)
  BY <1>5, <1>8, <1>9, Zenon DEF Explained
<1>11. QED
  BY <1>1, <1>2, <1>3, <1>10 DEF d

\* What a dump adds to what the sink has.
LEMMA DumpAdds ==
  ASSUME NEW s \in Seq(Seq(Nat)), NEW q \in Seq(Nat),
         sinkLimit \in SinkThresholds
  PROVE  LET r == s \o Dump(q) IN
           /\ r \in Seq(Seq(Nat))
           /\ sinkLimit # NOTSET => r = s
           /\ sinkLimit = NOTSET =>
                /\ Len(r) = Len(s) + 1
                /\ \A i \in 1 .. Len(s) : r[i] = s[i]
                /\ r[Len(s) + 1] = Reversed(q)
<1> DEFINE r == s \o Dump(q)
<1>1. Reversed(q) \in Seq(Nat)
  <2>1. Len(q) \in Nat /\ \A i \in 1 .. Len(q) : Len(q) + 1 - i \in 1 .. Len(q)
    BY LenProperties
  <2>2. Reversed(q) \in [1 .. Len(q) -> Nat]
    BY <2>1 DEF Reversed
  <2>3. QED
    BY <2>1, <2>2 DEF Reversed
<1>2. Reaches(sinkLimit, NOTSET) <=> sinkLimit = NOTSET
  BY BufferAssumption, PriorityAssumption DEF Reaches
<1>3. Dump(q) = IF sinkLimit = NOTSET THEN <<Reversed(q)>> ELSE << >>
  BY <1>2 DEF Dump, Reversed
<1>4. CASE sinkLimit = NOTSET
  <2>1. r = s \o <<Reversed(q)>>
    BY <1>3, <1>4
  <2> DEFINE x == Reversed(q)
  <2>2. x \in Seq(Nat) /\ <<x>> \in Seq(Seq(Nat)) /\ Len(<<x>>) = 1 /\ <<x>>[1] = x
    BY <1>1
  <2> HIDE DEF x
  <2>3. s \o <<x>> \in Seq(Seq(Nat)) /\ Len(s \o <<x>>) = Len(s) + 1
    BY <2>2
  <2>4. (\A i \in 1 .. Len(s) : (s \o <<x>>)[i] = s[i]) /\ (s \o <<x>>)[Len(s) + 1] = x
    BY <2>2
  <2>5. r = s \o <<x>>
    BY <2>1 DEF x
  <2>6. QED
    BY <1>4, <2>3, <2>4, <2>5 DEF x
<1>5. CASE sinkLimit # NOTSET
  <2>1. r = s \o << >>
    BY <1>3, <1>5
  <2>2. r = s
    BY <2>1
  <2>3. QED
    BY <1>5, <2>2
<1>6. QED
  BY <1>4, <1>5

\* The dumps that end with an event are no others, when what is added ends with
\* other events.
LEMMA ToldStays ==
  ASSUME NEW s \in Seq(Seq(Nat)), NEW r \in Seq(Seq(Nat)), Len(s) <= Len(r),
         \A i \in 1 .. Len(s) : r[i] = s[i],
         NEW t, \A i \in 1 .. Len(r) : i > Len(s) => r[i][Len(r[i])] # t,
         NEW since, NEW lost, Told(s, t, since, lost)
  PROVE  Told(r, t, since, lost)
<1>1. Len(s) \in Nat /\ Len(r) \in Nat /\ DOMAIN s = 1 .. Len(s) /\ DOMAIN r = 1 .. Len(r)
  BY LenProperties
<1>2. \A i : i \in Ending(r, t) <=> i \in Ending(s, t)
  <2>1. ASSUME NEW i \in 1 .. Len(s) PROVE i \in 1 .. Len(r) /\ r[i] = s[i]
    BY <1>1
  <2>2. ASSUME NEW i \in 1 .. Len(r), i \notin 1 .. Len(s) PROVE r[i][Len(r[i])] # t
    BY <1>1, <2>2
  <2>3. QED
    BY <1>1, <2>1, <2>2, Zenon DEF Ending
<1>3. Ending(r, t) = Ending(s, t)
  BY <1>2
<1>4. \A i \in Ending(s, t) : r[i] = s[i]
  BY <1>1 DEF Ending
<1>5. QED
  BY <1>3, <1>4, Zenon DEF Told

\* And when only the last one ends with it, that is the one.
LEMMA ToldAtLast ==
  ASSUME NEW r \in Seq(Seq(Nat)), Len(r) > 0, NEW t,
         r[Len(r)][Len(r[Len(r)])] = t,
         \A i \in 1 .. Len(r) : i < Len(r) => r[i][Len(r[i])] # t,
         NEW since, NEW lost, Explained(r[Len(r)], since, lost)
  PROVE  Told(r, t, since, lost)
<1>1. Len(r) \in Nat /\ DOMAIN r = 1 .. Len(r)
  BY LenProperties
<1>2. Len(r) \in DOMAIN r
  BY <1>1
<1>3. ASSUME NEW i \in DOMAIN r, r[i][Len(r[i])] = t PROVE i = Len(r)
  BY <1>1, <1>3
<1>4. Ending(r, t) = {Len(r)}
  BY <1>2, <1>3, Zenon DEF Ending
<1>5. QED
  BY <1>4, Zenon DEF Told

\* The events of the history before and after one is given to doAppend().
LEMMA HistoryStep ==
  ASSUME BufferInv, NEW p \in Priorities, doAppend(p), NEW n, n = Len(given) + 1
  PROVE  /\ n \in Nat /\ DOMAIN given = 1 .. n - 1 /\ DOMAIN given' = 1 .. n
         /\ given' \in Seq(Event) /\ Len(given') = n
         /\ \A e \in Due : e \in Nat /\ e < n
         /\ \A e \in Due : given'[e] = given[e]
         /\ given'[n].lossy = lossy
         /\ Due' = IF Passes(p) THEN Due \cup {n} ELSE Due
         /\ Triggers' = IF Passes(p) /\ p <= Level THEN Triggers \cup {n} ELSE Triggers
         /\ Pending' = IF ~Passes(p) THEN Pending
                       ELSE IF p <= Level THEN {} ELSE Pending \cup {n}
         /\ \A t \in Triggers : Since(t)' = Since(t) /\ Lost(Since(t))' = Lost(Since(t))
         /\ Passes(p) /\ p <= Level => Since(n)' = Pending \cup {n}
<1>1. BufferType
  BY DEF BufferInv
<1>2. given' = Append(given, [priority |-> p, threshold |-> threshold,
                              chain |-> chain, lossy |-> lossy])
  BY DEF doAppend
<1>3. /\ n \in Nat /\ DOMAIN given = 1 .. n - 1 /\ DOMAIN given' = 1 .. n
      /\ given' \in Seq(Event) /\ Len(given') = n
      /\ \A e \in DOMAIN given : given'[e] = given[e]
      /\ given'[n].priority = p /\ given'[n].lossy = lossy
      /\ Due \subseteq DOMAIN given
      /\ Due' = IF Passes(p) THEN Due \cup {n} ELSE Due
  BY <1>1, <1>2, DueStep
<1>4. \A e \in Due : e \in Nat /\ e < n /\ given'[e] = given[e]
  BY <1>3
<1>5. Triggers' = {e \in Due' : given'[e].priority <= Level}
  BY Zenon DEF Triggers
<1>6. Triggers' = IF Passes(p) /\ p <= Level THEN Triggers \cup {n} ELSE Triggers
  <2>1. \A e : e \in Triggers' <=> (e \in Triggers \/ (e = n /\ Passes(p) /\ p <= Level))
    BY <1>3, <1>4, <1>5 DEF Triggers
  <2>2. QED
    BY <2>1
<1>7. \A u \in Triggers : u \in Due /\ u \in Nat /\ u < n
  BY <1>4 DEF Triggers
<1>8. Pending' = {e \in Due' : \A u \in Triggers' : u < e}
  BY Zenon DEF Pending
<1>9. Pending' = IF ~Passes(p) THEN Pending
                 ELSE IF p <= Level THEN {} ELSE Pending \cup {n}
  <2>1. CASE ~Passes(p)
    BY <1>3, <1>6, <1>8, <2>1 DEF Pending
  <2>2. CASE Passes(p) /\ p <= Level
    <3>1. n \in Triggers' /\ \A e \in Due' : e \in Nat /\ e <= n
      BY <1>3, <1>4, <1>6, <2>2
    <3>2. \A e \in Due' : ~(n < e)
      BY <1>3, <3>1
    <3>3. QED
      BY <1>8, <2>2, <3>1, <3>2
  <2>3. CASE Passes(p) /\ ~(p <= Level)
    <3>1. Triggers' = Triggers /\ Due' = Due \cup {n}
      BY <1>3, <1>6, <2>3
    <3>2. \A e : e \in Pending' <=> (e \in Pending \/ e = n)
      BY <1>4, <1>7, <1>8, <3>1 DEF Pending
    <3>3. QED
      BY <2>3, <3>2
  <2>4. QED
    BY <2>1, <2>2, <2>3
<1>10. ASSUME NEW t \in Triggers
       PROVE  Since(t)' = Since(t) /\ Lost(Since(t))' = Lost(Since(t))
  <2>1. t \in Nat /\ t < n
    BY <1>7
  <2>2. Since(t)' = {e \in Due' : e <= t /\ \A u \in Triggers' : u < t => u < e}
    BY Zenon DEF Since
  <2>3. ~(n <= t) /\ ~(n < t)
    BY <1>3, <2>1
  <2>4. \A e : e \in Due' /\ e <= t <=> e \in Due /\ e <= t
    BY <1>3, <2>3
  <2>5. \A e : (\A u \in Triggers' : u < t => u < e) <=> (\A u \in Triggers : u < t => u < e)
    BY <1>6, <2>3
  <2>6. Since(t)' = Since(t)
    BY <2>2, <2>4, <2>5 DEF Since
  <2>7. \A e \in Since(t) : given'[e] = given[e]
    BY <1>4 DEF Since
  <2>8. Lost(Since(t))' <=> \E e \in Since(t)' : given'[e].lossy
    BY Zenon DEF Lost
  <2>9. Lost(Since(t)) <=> \E e \in Since(t) : given[e].lossy
    BY Zenon DEF Lost
  <2>10. Lost(Since(t))' <=> Lost(Since(t))
    BY <2>6, <2>7, <2>8, <2>9
  <2>11. QED
    BY <2>6, <2>10, Zenon DEF Lost
<1>11. ASSUME Passes(p), p <= Level PROVE Since(n)' = Pending \cup {n}
  <2>1. Since(n)' = {e \in Due' : e <= n /\ \A u \in Triggers' : u < n => u < e}
    BY <1>2, Zenon DEF Since
  <2>2. Due' = Due \cup {n} /\ Triggers' = Triggers \cup {n}
    BY <1>3, <1>6, <1>11
  <2>3. ~(n < n) /\ n <= n
    BY <1>3
  <2>4. \A e : e \in Since(n)' <=> (e \in Pending \/ e = n)
    BY <1>4, <1>7, <2>1, <2>2, <2>3 DEF Pending
  <2>5. QED
    BY <2>4
<1>12. QED
  BY <1>3, <1>4, <1>6, <1>9, <1>10, <1>11

\* An event that passes is put in the queue, or handed on with what it holds.
LEMMA PassingKeeps ==
  ASSUME BufferInv, NEW p \in Priorities, doAppend(p), Passes(p)
  PROVE  BufferInv'
<1>1. PICK n : n = Len(given) + 1
  OBVIOUS
<1>2. /\ n \in Nat /\ DOMAIN given = 1 .. n - 1 /\ DOMAIN given' = 1 .. n
      /\ given' \in Seq(Event) /\ Len(given') = n
      /\ \A e \in Due : e \in Nat /\ e < n
      /\ \A e \in Due : given'[e] = given[e]
      /\ given'[n].lossy = lossy
      /\ Due' = Due \cup {n}
      /\ Triggers' = IF p <= Level THEN Triggers \cup {n} ELSE Triggers
      /\ Pending' = IF p <= Level THEN {} ELSE Pending \cup {n}
      /\ \A t \in Triggers : Since(t)' = Since(t) /\ Lost(Since(t))' = Lost(Since(t))
      /\ p <= Level => Since(n)' = Pending \cup {n}
  <2>1. Passes(p)
    OBVIOUS
  <2>2. QED
    BY <1>1, <2>1, HistoryStep
<1> DEFINE full == ~lossy /\ Len(queue) = MaxBuffered
           trig == p <= Level
           kept == <<n>> \o MakeRoom
           mid == sink \o (IF full THEN Dump(queue) ELSE << >>)
           more == \E e \in Pending \cup {n} : given'[e].lossy
<1>3. /\ threshold \in Nat /\ chain \in Seq(Filters) /\ lossy \in BOOLEAN
      /\ sinkLimit \in SinkThresholds /\ queue \in Seq(Nat) /\ sink \in Seq(Seq(Nat))
  BY DEF BufferInv, BufferType
<1>4. /\ threshold' = threshold /\ chain' = chain /\ lossy' = lossy /\ sinkLimit' = sinkLimit
      /\ queue' = IF trig THEN << >> ELSE kept
      /\ sink' = mid \o (IF trig THEN Dump(kept) ELSE << >>)
  <2>1. AppendBuffered(Len(given'), p) /\ UNCHANGED <<skeletonVars, lossy, sinkLimit, switched>>
    BY DEF doAppend
  <2>2. AppendBuffered(n, p)
    BY <1>2, <2>1
  <2>3. sink' = sink \o (IF full THEN Dump(queue) ELSE << >>) \o (IF trig THEN Dump(kept) ELSE << >>)
    BY <2>2, Zenon DEF AppendBuffered, eval
  <2>4. queue' = IF trig THEN << >> ELSE kept
    BY <2>2, Zenon DEF AppendBuffered, eval
  <2>5. QED
    BY <2>1, <2>3, <2>4 DEF skeletonVars
<1>5. /\ Recent(queue, Pending, Lost(Pending)) /\ SinkType /\ AllTold
  BY DEF BufferInv
<1>6. /\ Pending \in SUBSET Nat /\ \A e \in Pending : e < n /\ e \in Due /\ e \notin Triggers
      /\ \A u \in Triggers : u \in Due
  <2>1. \A e \in Pending : e \in Due /\ e \in Nat /\ e < n
    BY <1>2 DEF Pending
  <2>2. \A e \in Pending : e \notin Triggers
    <3>1. ASSUME NEW e \in Pending, e \in Triggers PROVE FALSE
      <4>1. e < e /\ e \in Nat
        BY <2>1, <3>1 DEF Pending
      <4>2. QED
        BY <4>1
    <3>2. QED
      BY <3>1
  <2>3. QED
    BY <2>1, <2>2 DEF Triggers
<1>7. /\ Lost(Pending) \in BOOLEAN /\ more \in BOOLEAN /\ full \in BOOLEAN /\ trig \in BOOLEAN
      /\ Lost(Pending) \/ lossy => more
  <2>1. Lost(Pending) <=> \E e \in Pending : given[e].lossy
    BY Zenon DEF Lost
  <2>2. \A e \in Pending : given'[e] = given[e]
    BY <1>2, <1>6
  <2>3. Lost(Pending) => more
    BY <2>1, <2>2
  <2>4. lossy => more
    BY <1>2
  <2>5. Lost(Pending) \in BOOLEAN
    BY Zenon DEF Lost
  <2>6. QED
    BY <2>3, <2>4, <2>5
<1>8. Recent(kept, Pending \cup {n}, more) /\ Len(kept) > 0 /\ kept[1] = n
  <2>1. MakeRoom = IF lossy /\ Len(queue) = MaxBuffered THEN SubSeq(queue, 1, Len(queue) - 1)
                   ELSE queue
    BY DEF MakeRoom
  <2>2. \A e \in Pending : e < n
    BY <1>6
  <2>3. \/ MakeRoom = queue
        \/ MakeRoom = SubSeq(queue, 1, Len(queue) - 1) /\ Len(queue) = MaxBuffered /\ more
    <3> HIDE DEF more
    <3>1. QED
      BY <1>7, <2>1
  <2> HIDE DEF more
  <2>4. /\ Recent(<<n>> \o MakeRoom, Pending \cup {n}, more)
        /\ Len(<<n>> \o MakeRoom) > 0 /\ (<<n>> \o MakeRoom)[1] = n
    <3>1. /\ Recent(queue, Pending, Lost(Pending)) /\ Pending \in SUBSET Nat /\ n \in Nat
          /\ Lost(Pending) \in BOOLEAN /\ more \in BOOLEAN /\ (Lost(Pending) => more)
      BY <1>2, <1>5, <1>6, <1>7
    <3>2. QED
      BY <2>2, <2>3, <3>1, KeptFacts
  <2>5. QED
    BY <2>4
<1> HIDE DEF kept
<1>9. Recent(queue', Pending', Lost(Pending)')
  <2>1. CASE trig
    <3>1. queue' = << >> /\ Pending' = {}
      BY <1>2, <1>4, <2>1
    <3>2. Recent(<< >>, {}, Lost(Pending)')
      BY DEF Recent
    <3>3. QED
      BY <3>1, <3>2
  <2>2. CASE ~trig
    <3>1. queue' = kept /\ Pending' = Pending \cup {n}
      BY <1>2, <1>4, <2>2
    <3>2. Lost(Pending)' <=> \E e \in Pending' : given'[e].lossy
      BY Zenon DEF Lost
    <3>3. Lost(Pending)' = more
      <4>1. Lost(Pending)' <=> more
        BY <3>1, <3>2
      <4>2. QED
        BY <4>1, Zenon DEF Lost
    <3>4. QED
      BY <1>8, <3>1, <3>3
  <2>3. QED
    BY <2>1, <2>2
<1>10. kept \in Seq(Nat) /\ queue' \in Seq(Nat)
  BY <1>8, <1>9 DEF Recent
<1> HIDE DEF full, trig, mid, more
<1>11. /\ mid \in Seq(Seq(Nat))
       /\ sinkLimit # NOTSET => mid = sink
       /\ sinkLimit = NOTSET =>
            /\ Len(mid) = IF full THEN Len(sink) + 1 ELSE Len(sink)
            /\ \A i \in 1 .. Len(sink) : mid[i] = sink[i]
            /\ full => mid[Len(sink) + 1] = Reversed(queue)
  <2>1. mid = sink \o (IF full THEN Dump(queue) ELSE << >>)
    BY DEF mid
  <2>2. QED
    <3>1. CASE full
      <4>1. mid = sink \o Dump(queue)
        BY <2>1, <3>1
      <4>2. /\ mid \in Seq(Seq(Nat))
            /\ sinkLimit # NOTSET => mid = sink
            /\ sinkLimit = NOTSET =>
                 /\ Len(mid) = Len(sink) + 1
                 /\ \A i \in 1 .. Len(sink) : mid[i] = sink[i]
                 /\ mid[Len(sink) + 1] = Reversed(queue)
        <5>1. sink \in Seq(Seq(Nat)) /\ queue \in Seq(Nat) /\ sinkLimit \in SinkThresholds
          BY <1>3
        <5>2. QED
          BY <4>1, <5>1, DumpAdds
      <4>3. QED
        BY <3>1, <4>2
    <3>2. CASE ~full
      <4>1. mid = sink \o << >>
        BY <2>1, <3>2
      <4>2. mid = sink
        BY <1>3, <4>1
      <4>3. QED
        BY <1>3, <3>2, <4>2
    <3>3. QED
      BY <3>1, <3>2
<1>12. /\ sink' \in Seq(Seq(Nat))
       /\ sinkLimit # NOTSET => sink' = mid
       /\ sinkLimit = NOTSET =>
            /\ Len(sink') = IF trig THEN Len(mid) + 1 ELSE Len(mid)
            /\ \A i \in 1 .. Len(mid) : sink'[i] = mid[i]
            /\ trig => sink'[Len(mid) + 1] = Reversed(kept)
  <2>1. CASE trig
    <3>1. sink' = mid \o Dump(kept)
      BY <1>4, <2>1
    <3>2. /\ sink' \in Seq(Seq(Nat))
          /\ sinkLimit # NOTSET => sink' = mid
          /\ sinkLimit = NOTSET =>
               /\ Len(sink') = Len(mid) + 1
               /\ \A i \in 1 .. Len(mid) : sink'[i] = mid[i]
               /\ sink'[Len(mid) + 1] = Reversed(kept)
      <4>1. mid \in Seq(Seq(Nat)) /\ kept \in Seq(Nat) /\ sinkLimit \in SinkThresholds
        BY <1>3, <1>10, <1>11
      <4>2. QED
        BY <3>1, <4>1, DumpAdds
    <3>3. QED
      BY <2>1, <3>2
  <2>2. CASE ~trig
    <3>1. sink' = mid \o << >>
      BY <1>4, <2>2
    <3>2. sink' = mid
      BY <1>11, <3>1
    <3>3. QED
      BY <1>11, <2>2, <3>2
  <2>3. QED
    BY <2>1, <2>2
<1>13. BufferType'
  BY <1>2, <1>3, <1>4, <1>10, <1>12, Zenon DEF BufferType
<1>14. ASSUME full
       PROVE  /\ Len(Reversed(queue)) > 0
              /\ Reversed(queue)[Len(Reversed(queue))] \in Pending
  <2>1. Len(queue) > 0
    BY <1>14, BufferAssumption DEF full
  <2>2. Len(Reversed(queue)) > 0 /\ Reversed(queue)[Len(Reversed(queue))] = queue[1]
    BY <1>5, <1>6, <1>7, <2>1, ReversedFacts
  <2>3. 1 \in 1 .. Len(queue)
    BY <1>3, <2>1
  <2>4. queue[1] \in Pending
    BY <1>5, <2>3 DEF Recent
  <2>5. QED
    BY <2>2, <2>4
<1>15. /\ Len(Reversed(kept)) > 0 /\ Reversed(kept)[Len(Reversed(kept))] = n
       /\ Explained(Reversed(kept), Pending \cup {n}, more)
  <2>1. Pending \cup {n} \in SUBSET Nat
    BY <1>2, <1>6
  <2>2. QED
    BY <1>7, <1>8, <2>1, ReversedFacts
<1>16. sinkLimit = NOTSET =>
         \A i \in 1 .. Len(mid) : Len(mid[i]) > 0 /\ mid[i][Len(mid[i])] \in DOMAIN given
  <2>1. SUFFICES ASSUME sinkLimit = NOTSET, NEW i \in 1 .. Len(mid)
                 PROVE  Len(mid[i]) > 0 /\ mid[i][Len(mid[i])] \in DOMAIN given
    BY Zenon
  <2>2. Len(sink) \in Nat /\ DOMAIN sink = 1 .. Len(sink)
    BY <1>3, LenProperties
  <2>3. CASE i \in 1 .. Len(sink)
    <3>1. mid[i] = sink[i]
      BY <1>11, <2>1, <2>3
    <3>2. QED
      BY <1>5, <2>2, <2>3, <3>1 DEF SinkType
  <2>4. CASE i \notin 1 .. Len(sink)
    <3>1. full /\ i = Len(sink) + 1
      BY <1>11, <2>1, <2>2, <2>4
    <3>2. mid[i] = Reversed(queue)
      BY <1>11, <2>1, <3>1
    <3>3. \A e \in Pending : e \in DOMAIN given
      BY <1>6 DEF Due
    <3>4. QED
      BY <1>14, <3>1, <3>2, <3>3
  <2>5. QED
    BY <2>3, <2>4
<1>17. SinkType'
  <2>1. CASE sinkLimit # NOTSET
    <3>1. sink' = sink /\ sink = << >>
      BY <1>5, <1>11, <1>12, <2>1 DEF SinkType
    <3>2. DOMAIN sink' = {}
      BY <3>1
    <3>3. QED
      BY <3>1, <3>2, Zenon DEF SinkType
  <2>2. CASE sinkLimit = NOTSET
    <3>1. DOMAIN sink' = 1 .. Len(sink') /\ Len(mid) \in Nat
      BY <1>11, <1>12, LenProperties
    <3>2. Len(sink') \in Nat
      BY <1>12, LenProperties
    <3>3. ASSUME NEW i \in 1 .. Len(sink')
          PROVE  Len(sink'[i]) > 0 /\ sink'[i][Len(sink'[i])] \in DOMAIN given'
      <4>1. CASE i \in 1 .. Len(mid)
        <5>1. sink'[i] = mid[i]
          BY <1>12, <2>2, <4>1
        <5>2. mid[i][Len(mid[i])] \in DOMAIN given'
          BY <1>2, <1>16, <2>2, <4>1
        <5>3. QED
          BY <1>16, <2>2, <4>1, <5>1, <5>2
      <4>2. CASE i \notin 1 .. Len(mid)
        <5>1. trig /\ i = Len(mid) + 1
          <6>1. Len(sink') = IF trig THEN Len(mid) + 1 ELSE Len(mid)
            BY <1>12, <2>2, Zenon
          <6>2. QED
            BY <3>1, <3>2, <4>2, <6>1
        <5>2. sink'[i] = Reversed(kept)
          BY <1>12, <2>2, <5>1
        <5>3. n \in DOMAIN given'
          BY <1>1, <1>2, <1>3
        <5>4. QED
          BY <1>15, <5>2, <5>3
      <4>3. QED
        BY <4>1, <4>2
    <3>4. sinkLimit' = NOTSET
      BY <1>4, <2>2
    <3>5. QED
      BY <3>1, <3>3, <3>4, Zenon DEF SinkType
  <2>3. QED
    BY <2>1, <2>2
<1>18. ASSUME sinkLimit = NOTSET, NEW t \in Triggers
       PROVE  Told(sink', t, Since(t), Lost(Since(t)))
  <2>1. Told(sink, t, Since(t), Lost(Since(t)))
    BY <1>5, <1>18, Zenon DEF AllTold
  <2>2. Len(sink) \in Nat /\ Len(mid) \in Nat /\ Len(sink') \in Nat
    BY <1>3, <1>11, <1>12, LenProperties
  <2>3. t \in Due /\ t < n /\ t \in Nat /\ t \notin Pending
    BY <1>2, <1>6, <1>18
  <2>4. Told(mid, t, Since(t), Lost(Since(t)))
    <3>1. ASSUME NEW i \in 1 .. Len(mid), i > Len(sink) PROVE mid[i][Len(mid[i])] # t
      <4>1. full /\ i = Len(sink) + 1
        BY <1>11, <1>18, <2>2, <3>1
      <4>2. mid[i] = Reversed(queue)
        BY <1>11, <1>18, <4>1
      <4>3. QED
        BY <1>14, <2>3, <4>1, <4>2
    <3>2. Len(sink) <= Len(mid) /\ \A i \in 1 .. Len(sink) : mid[i] = sink[i]
      BY <1>11, <1>18, <2>2
    <3>3. QED
      BY <1>3, <1>11, <2>1, <3>1, <3>2, ToldStays
  <2>5. ASSUME NEW i \in 1 .. Len(sink'), i > Len(mid) PROVE sink'[i][Len(sink'[i])] # t
    <3>1. trig /\ i = Len(mid) + 1
      BY <1>12, <1>18, <2>2, <2>5
    <3>2. sink'[i] = Reversed(kept)
      BY <1>12, <1>18, <3>1
    <3>3. t # n
      BY <2>3
    <3>4. QED
      BY <1>15, <3>2, <3>3
  <2>6. Len(mid) <= Len(sink') /\ \A i \in 1 .. Len(mid) : sink'[i] = mid[i]
    BY <1>12, <1>18, <2>2
  <2>7. QED
    BY <1>11, <1>12, <2>4, <2>5, <2>6, ToldStays
<1>19. ASSUME sinkLimit = NOTSET, trig
       PROVE  Told(sink', n, Pending \cup {n}, more)
  <2>1. Len(mid) \in Nat /\ Len(sink') = Len(mid) + 1
    BY <1>11, <1>12, <1>19, LenProperties
  <2>2. sink'[Len(sink')] = Reversed(kept)
    BY <1>12, <1>19, <2>1
  <2>3. ASSUME NEW i \in 1 .. Len(sink'), i < Len(sink') PROVE sink'[i][Len(sink'[i])] # n
    <3>1. i \in 1 .. Len(mid)
      BY <2>1, <2>3
    <3>2. sink'[i] = mid[i] /\ mid[i][Len(mid[i])] \in DOMAIN given
      BY <1>12, <1>16, <1>19, <3>1
    <3>3. n \notin DOMAIN given
      BY <1>2
    <3>4. QED
      BY <3>2, <3>3
  <2>4. Len(sink') > 0 /\ sink'[Len(sink')][Len(sink'[Len(sink')])] = n
    BY <1>15, <2>1, <2>2
  <2>5. Explained(sink'[Len(sink')], Pending \cup {n}, more)
    BY <1>15, <2>2
  <2>6. QED
    BY <1>12, <2>3, <2>4, <2>5, ToldAtLast
<1>20. ASSUME sinkLimit' = NOTSET, NEW t \in Triggers'
       PROVE  Told(sink', t, Since(t)', Lost(Since(t))')
  <2>1. sinkLimit = NOTSET
    BY <1>4, <1>20
  <2>2. CASE t \in Triggers
    <3>1. Since(t)' = Since(t) /\ Lost(Since(t))' = Lost(Since(t))
      BY <1>2, <2>2
    <3>2. QED
      BY <1>18, <2>1, <2>2, <3>1
  <2>3. CASE t \notin Triggers
    <3>1. trig /\ t = n
      BY <1>2, <1>20, <2>3 DEF trig
    <3>2. Since(n)' = Pending \cup {n}
      BY <1>2, <3>1 DEF trig
    <3>3. Lost(Since(n))' <=> \E e \in Since(n)' : given'[e].lossy
      BY Zenon DEF Lost
    <3>4. Lost(Since(n))' <=> more
      BY <3>2, <3>3 DEF more
    <3>5. Lost(Since(n))' = more
      BY <3>4, <1>7, Zenon DEF Lost
    <3>6. QED
      BY <1>19, <2>1, <3>1, <3>2, <3>5
  <2>4. QED
    BY <2>2, <2>3
<1>21. AllTold'
  BY <1>20, Zenon DEF AllTold
<1>22. QED
  BY <1>9, <1>13, <1>17, <1>21, Zenon DEF BufferInv

\* An event that does not pass leaves only its record.
LEMMA DroppingKeeps ==
  ASSUME BufferInv, NEW p \in Priorities, doAppend(p), ~Passes(p)
  PROVE  BufferInv'
<1>1. PICK n : n = Len(given) + 1
  OBVIOUS
<1>2. /\ n \in Nat /\ DOMAIN given = 1 .. n - 1 /\ DOMAIN given' = 1 .. n
      /\ given' \in Seq(Event)
      /\ \A e \in Due : given'[e] = given[e]
      /\ Triggers' = Triggers /\ Pending' = Pending
      /\ \A t \in Triggers : Since(t)' = Since(t) /\ Lost(Since(t))' = Lost(Since(t))
  <2>1. ~Passes(p)
    OBVIOUS
  <2>2. QED
    BY <1>1, <2>1, HistoryStep
<1>3. /\ threshold' = threshold /\ chain' = chain /\ lossy' = lossy /\ sinkLimit' = sinkLimit
      /\ queue' = queue /\ sink' = sink
  BY DEF doAppend, skeletonVars
<1>4. BufferType /\ Recent(queue, Pending, Lost(Pending)) /\ SinkType /\ AllTold
  BY DEF BufferInv
<1>5. BufferType'
  BY <1>2, <1>3, <1>4, Zenon DEF BufferType
<1>6. Lost(Pending)' = Lost(Pending)
  <2>1. Lost(Pending)' <=> \E e \in Pending' : given'[e].lossy
    BY Zenon DEF Lost
  <2>2. Lost(Pending) <=> \E e \in Pending : given[e].lossy
    BY Zenon DEF Lost
  <2>3. \A e \in Pending : given'[e] = given[e]
    BY <1>2 DEF Pending
  <2>4. Lost(Pending)' <=> Lost(Pending)
    BY <1>2, <2>1, <2>2, <2>3
  <2>5. QED
    BY <2>4, Zenon DEF Lost
<1>7. Recent(queue', Pending', Lost(Pending)')
  BY <1>2, <1>3, <1>4, <1>6
<1>8. SinkType'
  <2>1. \A x \in DOMAIN given : x \in DOMAIN given'
    BY <1>2
  <2>2. QED
    BY <1>3, <1>4, <2>1, Zenon DEF SinkType
<1>9. AllTold'
  <2>1. ASSUME sinkLimit' = NOTSET, NEW t \in Triggers'
        PROVE  Told(sink', t, Since(t)', Lost(Since(t))')
    <3>1. t \in Triggers /\ sinkLimit = NOTSET
      BY <1>2, <1>3, <2>1
    <3>2. Told(sink, t, Since(t), Lost(Since(t)))
      BY <1>4, <3>1, Zenon DEF AllTold
    <3>3. QED
      BY <1>2, <1>3, <3>1, <3>2
  <2>2. QED
    BY <2>1, Zenon DEF AllTold
<1>10. QED
  BY <1>5, <1>7, <1>8, <1>9, Zenon DEF BufferInv

\* The setters change what becomes of the events to come.
LEMMA SettersKeep ==
  ASSUME BufferInv, UNCHANGED <<queue, sinkLimit, sink, given>>,
         threshold' \in Nat, chain' \in Seq(Filters), lossy' \in BOOLEAN
  PROVE  BufferInv'
<1>1. queue' = queue /\ sinkLimit' = sinkLimit /\ sink' = sink /\ given' = given
  OBVIOUS
<1>2. BufferType /\ Recent(queue, Pending, Lost(Pending)) /\ SinkType /\ AllTold
  BY DEF BufferInv
<1>3. BufferType'
  BY <1>1, <1>2, Zenon DEF BufferType
<1>4. Due' = Due
  BY <1>1, Zenon DEF Due
<1>5. Triggers' = Triggers
  BY <1>1, <1>4, Zenon DEF Triggers
<1>6. Pending' = Pending /\ \A t : Since(t)' = Since(t)
  BY <1>4, <1>5, Zenon DEF Pending, Since
<1>7. Lost(Pending)' = Lost(Pending) /\ \A t : Lost(Since(t))' = Lost(Since(t))
  BY <1>1, <1>6, Zenon DEF Lost
<1>8. Recent(queue', Pending', Lost(Pending)')
  BY <1>1, <1>2, <1>6, <1>7
<1>9. SinkType'
  BY <1>1, <1>2, Zenon DEF SinkType
<1>10. AllTold'
  <2>1. ASSUME sinkLimit' = NOTSET, NEW t \in Triggers'
        PROVE  Told(sink', t, Since(t)', Lost(Since(t))')
    <3>1. Told(sink, t, Since(t), Lost(Since(t)))
      BY <1>1, <1>2, <1>5, <2>1, Zenon DEF AllTold
    <3>2. QED
      BY <1>1, <1>6, <1>7, <3>1
  <2>2. QED
    BY <2>1, Zenon DEF AllTold
<1>11. QED
  BY <1>3, <1>8, <1>9, <1>10, Zenon DEF BufferInv

\* Every step of the appender keeps the invariant.
LEMMA BufferNextKeeps == BufferInv /\ [BufferNext]_bufferVars => BufferInv'
<1> SUFFICES ASSUME BufferInv, [BufferNext]_bufferVars PROVE BufferInv'
  OBVIOUS
<1>1. threshold \in Nat /\ chain \in Seq(Filters) /\ lossy \in BOOLEAN
  BY DEF BufferInv, BufferType
<1>2. CASE \E p \in Priorities : doAppend(p)
  BY <1>2, PassingKeeps, DroppingKeeps
<1>3. CASE Switch
  <2>1. UNCHANGED <<queue, sinkLimit, sink, given>>
    BY <1>3 DEF Switch
  <2>2. threshold' \in Nat /\ chain' \in Seq(Filters) /\ lossy' \in BOOLEAN
    <3>1. CASE setLossy
      <4>1. threshold' = threshold /\ chain' = chain /\ lossy' = ~lossy
        BY <3>1 DEF setLossy, skeletonVars
      <4>2. QED
        BY <1>1, <4>1
    <3>2. ASSUME NEW p \in Priorities \cup {NOTSET}, setThreshold(p), lossy' = lossy
          PROVE  threshold' \in Nat /\ chain' \in Seq(Filters) /\ lossy' \in BOOLEAN
      <4>1. threshold' = p /\ chain' = chain
        BY <3>2 DEF setThreshold
      <4>2. p \in Nat
        BY PriorityAssumption
      <4>3. QED
        BY <1>1, <3>2, <4>1, <4>2
    <3>3. ASSUME NEW f \in Filters, setFilter(f) \/ appendChainedFilter(f), lossy' = lossy
          PROVE  threshold' \in Nat /\ chain' \in Seq(Filters) /\ lossy' \in BOOLEAN
      <4>1. threshold' = threshold /\ (chain' = <<f>> \/ chain' = Append(chain, f))
        BY <3>3 DEF setFilter, appendChainedFilter
      <4>2. <<f>> \in Seq(Filters) /\ Append(chain, f) \in Seq(Filters)
        BY <1>1
      <4>3. QED
        BY <1>1, <3>3, <4>1, <4>2
    <3>4. QED
      BY <1>3, <3>1, <3>2, <3>3 DEF Switch
  <2>3. QED
    BY <2>1, <2>2, SettersKeep
<1>4. CASE UNCHANGED bufferVars
  <2>1. /\ UNCHANGED <<queue, sinkLimit, sink, given>>
        /\ threshold' = threshold /\ chain' = chain /\ lossy' = lossy
    BY <1>4 DEF bufferVars, skeletonVars
  <2>2. threshold' \in Nat /\ chain' \in Seq(Filters) /\ lossy' \in BOOLEAN
    BY <1>1, <2>1
  <2>3. QED
    BY <2>1, <2>2, SettersKeep
<1>5. QED
  BY <1>2, <1>3, <1>4 DEF BufferNext

\* At first there is nothing to tell.
LEMMA InitBuffer == BufferInit => BufferInv
<1> SUFFICES ASSUME BufferInit PROVE BufferInv
  OBVIOUS
<1>1. /\ threshold = NOTSET /\ chain = << >> /\ queue = << >> /\ lossy = FALSE
      /\ sinkLimit \in SinkThresholds /\ sink = << >> /\ given = << >>
  BY DEF BufferInit, SkeletonInit
<1>2. NOTSET \in Nat
  BY PriorityAssumption
<1>3. BufferType
  <2>1. << >> \in Seq(Filters) /\ << >> \in Seq(Nat) /\ << >> \in Seq(Seq(Nat))
    OBVIOUS
  <2>2. << >> \in Seq(Event)
    OBVIOUS
  <2>3. QED
    BY <1>1, <1>2, <2>1, <2>2, Zenon DEF BufferType
<1>4. DOMAIN given = {} /\ DOMAIN sink = {}
  BY <1>1
<1>5. Due = {}
  BY <1>4, Zenon DEF Due
<1>6. Triggers = {} /\ Pending = {}
  BY <1>5 DEF Triggers, Pending
<1>7. Recent(queue, Pending, Lost(Pending))
  BY <1>1, <1>6 DEF Recent
<1>8. SinkType
  BY <1>1, <1>4 DEF SinkType
<1>9. AllTold
  BY <1>6 DEF AllTold
<1>10. QED
  BY <1>3, <1>7, <1>8, <1>9 DEF BufferInv

\* What was told of each trigger is what the property says of it.
LEMMA ToldIsExplained == BufferInv => TriggersExplained
<1> SUFFICES ASSUME BufferInv, NEW t \in Triggers
             PROVE  LET since == {e \in Due : e <= t /\ \A u \in Triggers : u < t => u < e}
                        told == {i \in DOMAIN sink : sink[i][Len(sink[i])] = t}
                    IN  IF sinkLimit # NOTSET THEN sink = << >>
                        ELSE \E i \in told :
                          /\ told = {i}
                          /\ \A j, k \in DOMAIN sink[i] : j < k => sink[i][j] < sink[i][k]
                          /\ {sink[i][j] : j \in DOMAIN sink[i]} = {e \in since : e >= sink[i][1]}
                          /\ \/ \A e \in since : sink[i][1] <= e
                             \/ Len(sink[i]) >= MaxBuffered /\ \E e \in since : given[e].lossy
  BY Zenon DEF TriggersExplained, Triggers
<1>1. CASE sinkLimit # NOTSET
  BY <1>1 DEF BufferInv, SinkType
<1>2. CASE sinkLimit = NOTSET
  <2>1. Told(sink, t, Since(t), Lost(Since(t)))
    BY <1>2, Zenon DEF BufferInv, AllTold
  <2>2. PICK i \in Ending(sink, t) :
          Ending(sink, t) = {i} /\ Explained(sink[i], Since(t), Lost(Since(t)))
    BY <2>1, Zenon DEF Told
  <2>3. QED
    BY <1>2, <2>2, Zenon DEF Ending, Explained, Since, Lost
<1>3. QED
  BY <1>1, <1>2

\* The inductive invariant of the buffering appender.
THEOREM BufferInvariance == BufferSpec => []BufferInv
  BY InitBuffer, BufferNextKeeps, PTL DEF BufferSpec

\* Every trigger is told to the sink once, with what led to it: all of it, or,
\* if the buffer was lossy, at least as many events as it holds.
THEOREM TriggersAreExplained == BufferSpec => []TriggersExplained
  BY BufferInvariance, ToldIsExplained, PTL
=============================================================================

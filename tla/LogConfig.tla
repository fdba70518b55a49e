------------------------------ MODULE LogConfig ------------------------------
(***************************************************************************)
(* log4cpp/src/PropertyConfiguratorImpl.cpp: an appender is made for every *)
(* "appender.<name>" of the properties, in the order of their keys, and    *)
(* then every category is given its priority and its appenders.  The first *)
(* error throws and leaves what was done.  The configurator is static: its *)
(* map of appenders outlives a configuration, and even the appenders.      *)
(***************************************************************************)
EXTENDS Priority

CONSTANTS
  Files,        \* property files: functions from keys to values
  KeyOrder,     \* the order of the appenders' keys in the std::map
  CatOrder,     \* the root, then the other categories in the order of their keys
  Bad,          \* a priority that is none
  NoAppender,   \* a null pointer
  (* Bounds of the model. *)
  MaxMade,      \* appenders that are made
  MaxConfigured \* configurations and shutdowns

Categories == {CatOrder[i] : i \in DOMAIN CatOrder}
TheRoot == CatOrder[1]

ASSUME ConfigAssumption ==
  /\ CatOrder \in Seq(Categories) /\ CatOrder # << >>
  /\ NoAppender \notin Nat
  /\ \A f \in Files, k \in UNION {DOMAIN g : g \in Files} :
       k[1] = "appender" => KeyOrder[k] \in Nat
  /\ MaxMade \in Nat /\ MaxConfigured \in Nat

AppenderKeys(p) == {k \in DOMAIN p : k[1] = "appender"}

\* A file is a map whose keys are ordered, a prefix before what it is one of.  No
\* appender's name is empty, and "missing" stands for a layout that is not there.
ASSUME PropertiesAssumption ==
  /\ Bad \notin Nat
  /\ \A f \in Files :
       /\ \A k \in AppenderKeys(f) :
            /\ k[2] # "" /\ (Len(k) = 2 => k = <<"appender", k[2]>>)
            /\ <<"appender", k[2]>> \in DOMAIN f =>
                 KeyOrder[<<"appender", k[2]>>] <= KeyOrder[k]
            /\ \A j \in AppenderKeys(f) : KeyOrder[j] = KeyOrder[k] => j = k
            /\ k = <<"appender", k[2], "layout">> => f[k] # "missing"
       /\ \A c \in Categories : <<"category", c>> \in DOMAIN f =>
            LET names == f[<<"category", c>>].appenders IN
              names \in Seq({names[i] : i \in DOMAIN names})

VARIABLES
  properties,    \* _properties of the configurator
  allAppenders,  \* _allAppenders of the configurator: names and appenders
  made,          \* every appender made, with what was configured for it
  living,        \* those not deleted
  byName,        \* Appender::_allAppenders
  settings,      \* the categories
  step,          \* where doConfigure() is, its keys, and the last appender made
  outcome,       \* how often it was called, and how it ended the last time
  strays         \* history: appenders attached for a name the file does not define

confVars ==
  <<properties, allAppenders, made, living, byName, settings, step, outcome, strays>>

Defined(p) == {k[2] : k \in {k \in AppenderKeys(p) : Len(k) = 2}}
Has(p, k) == k \in DOMAIN p

Resting == [at |-> "rest", keys |-> {}, current |-> "", next |-> 1]

NewCategory(priority) == [priority |-> priority, additive |-> TRUE, appenders |-> {}]

ConfigInit ==
  /\ properties = << >> /\ allAppenders = << >> /\ byName = << >>
  /\ made = << >> /\ living = {}
  /\ settings = [c \in Categories |-> NewCategory(IF c = TheRoot THEN INFO ELSE NOTSET)]
  /\ step = Resting /\ outcome = [calls |-> 0, result |-> "none"]
  /\ strays = {}

Ends(result) == step' = Resting /\ outcome' = [outcome EXCEPT !.result = result]

\* Properties.load() clears the properties, and inserts each line's unless its
\* key is there already.
configure(f) ==
  /\ step.at = "rest" /\ outcome.calls < MaxConfigured
  /\ outcome' = [calls |-> outcome.calls + 1, result |-> "none"]
  /\ properties' = f
  /\ step' = [Resting EXCEPT !.at = "appenders", !.keys = AppenderKeys(f)]
  /\ UNCHANGED <<allAppenders, made, living, byName, settings, strays>>

\* There is no such file: an exception before anything is done.
FileDoesNotExist ==
  /\ step.at = "rest" /\ outcome.calls < MaxConfigured
  /\ outcome' = [calls |-> outcome.calls + 1, result |-> "no file"]
  /\ UNCHANGED <<properties, allAppenders, made, living, byName, settings, step, strays>>

NextKey == CHOOSE k \in step.keys : \A j \in step.keys : KeyOrder[k] <= KeyOrder[j]

With(map, name, x) == [n \in DOMAIN map \cup {name} |-> IF n = name THEN x ELSE map[n]]
Without(map, name) == [n \in DOMAIN map \ {name} |-> map[n]]

\* An error in instantiateAppender(): whether _allAppenders[name] has been
\* evaluated by then, which makes a null pointer of it, is up to the compiler.
ThrowsFor(name) ==
  /\ Ends("failed")
  /\ allAppenders' \in
       {allAppenders, IF Has(allAppenders, name) THEN allAppenders
                      ELSE With(allAppenders, name, NoAppender)}
  /\ UNCHANGED <<properties, settings, strays>>

Value(key, def) == IF Has(properties, key) THEN properties[key] ELSE def

\* The appender, its layout and its threshold.
instantiateAppender(name) ==
  LET type == properties[<<"appender", name>>]
      layout == Value(<<"appender", name, "layout">>, "missing")
      threshold == Value(<<"appender", name, "threshold">>, NOTSET)
      x == Len(made) + 1
  IN  \/ /\ type = "unknown"
         /\ ThrowsFor(name) /\ UNCHANGED <<made, living, byName>>
      \/ /\ type # "unknown" /\ x <= MaxMade
         /\ made' = Append(made, [name |-> name, layout |-> layout, threshold |-> threshold])
         /\ IF type = "layout" /\ layout \in {"missing", "unknown"}
              THEN /\ ThrowsFor(name)          \* and the appender stays
                   /\ living' = living \cup {x} /\ byName' = With(byName, name, x)
            ELSE IF threshold = Bad
              THEN /\ ThrowsFor(name)          \* and the appender is deleted
                   /\ byName' = Without(byName, name) /\ UNCHANGED living
              ELSE /\ living' = living \cup {x} /\ byName' = With(byName, name, x)
                   /\ allAppenders' = With(allAppenders, name, x)
                   /\ step' = [step EXCEPT !.keys = @ \ {NextKey}, !.current = name]
                   /\ UNCHANGED <<properties, settings, outcome, strays>>

\* Wrong on purpose: the other properties of an appender are not skipped.
InstantiateEvery ==
  /\ step.at = "appenders" /\ step.keys # {}
  /\ IF Len(NextKey) = 2 THEN instantiateAppender(NextKey[2])
     ELSE /\ Ends("failed")
          /\ UNCHANGED <<properties, allAppenders, made, living, byName, settings, strays>>

\* One property of an appender.
InstantiateNext ==
  /\ step.at = "appenders" /\ step.keys # {}
  /\ LET name == NextKey[2] IN
       IF name = step.current
         THEN /\ step' = [step EXCEPT !.keys = @ \ {NextKey}]
              /\ UNCHANGED <<properties, allAppenders, made, living, byName>>
              /\ UNCHANGED <<settings, outcome, strays>>
       ELSE IF Len(NextKey) = 2 THEN instantiateAppender(name)
       ELSE /\ Ends("failed")
            /\ UNCHANGED <<properties, allAppenders, made, living, byName, settings, strays>>

AppendersDone ==
  /\ step.at = "appenders" /\ step.keys = {}
  /\ step' = [step EXCEPT !.at = "categories"]
  /\ UNCHANGED <<properties, allAppenders, made, living, byName, settings, outcome, strays>>

\* How many of the names are found before the first that is not.
Found(names) ==
  LET missing == {i \in DOMAIN names : ~Has(allAppenders, names[i])} IN
    IF missing = {} THEN Len(names)
    ELSE (CHOOSE i \in missing : \A j \in missing : i <= j) - 1

Proceed ==
  IF step.next = Len(CatOrder) THEN Ends("done")
  ELSE step' = [step EXCEPT !.next = @ + 1] /\ UNCHANGED outcome

\* Wrong on purpose: the appenders of the last configuration stay.
ConfigureOnTop(c) ==
  LET key == <<"category", c>>
      v == properties[key]
      found == Found(v.appenders)
      names == {v.appenders[i] : i \in 1 .. found}
  IN
  /\ UNCHANGED <<properties, allAppenders, made, living, byName>>
  /\ IF ~Has(properties, key) \/ v.priority = Bad
       THEN Ends("failed") /\ UNCHANGED <<settings, strays>>
     ELSE /\ settings' = [settings EXCEPT ![c] =
               [priority |-> v.priority, additive |-> Value(<<"additivity", c>>, TRUE),
                appenders |-> @.appenders \cup {allAppenders[n] : n \in names}]]
          /\ strays' = strays \cup {allAppenders[n] : n \in names \ Defined(properties)}
          /\ IF found < Len(v.appenders) THEN Ends("failed") ELSE Proceed

\* configureCategory(): the priority, the additivity, then the appenders, as far
\* as the first that is not found.
configureCategory(c) ==
  LET key == <<"category", c>>
      v == properties[key]
      found == Found(v.appenders)
      names == {v.appenders[i] : i \in 1 .. found}
  IN
  /\ UNCHANGED <<properties, allAppenders, made, living, byName>>
  /\ IF ~Has(properties, key)
       THEN /\ IF c = TheRoot THEN Ends("failed") ELSE Proceed
            /\ UNCHANGED <<settings, strays>>
     ELSE IF v.priority = Bad \/ (c = TheRoot /\ v.priority >= NOTSET)
       THEN Ends("failed") /\ UNCHANGED <<settings, strays>>
     ELSE /\ settings' = [settings EXCEPT ![c] =
               [priority |-> v.priority, additive |-> Value(<<"additivity", c>>, TRUE),
                appenders |-> {allAppenders[n] : n \in names}]]
          /\ strays' = strays \cup {allAppenders[n] : n \in names \ Defined(properties)}
          /\ IF found < Len(v.appenders) THEN Ends("failed") ELSE Proceed

ConfigureNext ==
  /\ step.at = "categories"
  /\ configureCategory(CatOrder[step.next])

\* Wrong on purpose: the categories keep their appenders.
DeleteOnly(forced) ==
  /\ step.at = "rest" /\ outcome.calls < MaxConfigured /\ forced
  /\ outcome' = [calls |-> outcome.calls + 1, result |-> "none"]
  /\ living' = living \ {byName[n] : n \in DOMAIN byName} /\ byName' = << >>
  /\ UNCHANGED <<properties, allAppenders, made, settings, step, strays>>

\* Category::shutdown() and shutdownForced(), which deletes every appender.
shutdown(forced) ==
  /\ step.at = "rest" /\ outcome.calls < MaxConfigured
  /\ outcome' = [calls |-> outcome.calls + 1, result |-> "none"]
  /\ settings' = [c \in Categories |-> [settings[c] EXCEPT !.appenders = {}]]
  /\ IF forced THEN living' = living \ {byName[n] : n \in DOMAIN byName} /\ byName' = << >>
     ELSE UNCHANGED <<living, byName>>
  /\ UNCHANGED <<properties, allAppenders, made, step, strays>>

ConfigNext ==
  \/ FileDoesNotExist \/ \E f \in Files : configure(f)
  \/ InstantiateNext \/ AppendersDone \/ ConfigureNext
  \/ \E forced \in BOOLEAN : shutdown(forced)

ConfigSpec == ConfigInit /\ [][ConfigNext]_confVars

-----------------------------------------------------------------------------

\* A category holds no pointer to an appender that is deleted, or was never
\* made, unless its file named an appender that it does not define: such a name
\* is found in what is left of an earlier configuration.
AppendersExist == \A c \in Categories : settings[c].appenders \subseteq living \cup strays

\* After a configuration without error every category the file configures has
\* its priority, its additivity, and exactly the appenders named, each made for
\* it with its own layout and threshold; whatever was configured, in part or in
\* vain, before.
ConfiguredAsWritten ==
  outcome.result = "done" =>
    \A c \in {c \in Categories : Has(properties, <<"category", c>>)} :
      LET v == properties[<<"category", c>>]
          Wanted(n) == [name |-> n, layout |-> Value(<<"appender", n, "layout">>, "missing"),
                        threshold |-> Value(<<"appender", n, "threshold">>, NOTSET)]
          names == {v.appenders[i] : i \in DOMAIN v.appenders}
      IN  /\ settings[c].priority = v.priority
          /\ settings[c].additive = Value(<<"additivity", c>>, TRUE)
          /\ {made[x] : x \in settings[c].appenders \ strays} =
               {Wanted(n) : n \in names \cap Defined(properties)}

\* The keys of one appender lie between those of another.
Interleaved(p) ==
  \E j, k, l \in AppenderKeys(p) :
    /\ KeyOrder[j] < KeyOrder[k] /\ KeyOrder[k] < KeyOrder[l]
    /\ j[2] = l[2] /\ j[2] # k[2]

\* A definition is wrong.
Faulty(p) ==
  \/ \E k \in AppenderKeys(p) :
       LET type == <<"appender", k[2]>> layout == <<"appender", k[2], "layout">> IN
         \/ ~Has(p, type) \/ p[type] = "unknown" \/ p[k] = Bad
         \/ (p[type] = "layout" /\ (Has(p, layout) => p[layout] = "unknown"))
  \/ ~Has(p, <<"category", TheRoot>>)
  \/ \E c \in {c \in Categories : Has(p, <<"category", c>>)} :
       LET v == p[<<"category", c>>] IN
         \/ v.priority = Bad \/ (c = TheRoot /\ v.priority >= NOTSET)
         \/ \E i \in DOMAIN v.appenders : v.appenders[i] \notin Defined(p)

\* A configuration with a file fails only if a definition in it is wrong, or if the
\* name of an appender is another's with a character before the dot added, such
\* as "A" and "A-1", so that the keys of one lie between those of the other.
FailsOnlyIf ==
  outcome.result = "failed" => Faulty(properties) \/ Interleaved(properties)
=============================================================================

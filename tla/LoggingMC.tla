----------------------------- MODULE LoggingMC ------------------------------
(***************************************************************************)
(* The parts of log4cpp and of the program's startup, for one run of TLC:  *)
(* the initial state chooses a part, the others stay at rest.  The parts   *)
(* share no step, so the states add up and do not multiply.                *)
(***************************************************************************)
EXTENDS RollingFileAppender, DailyRollingFileAppender, LogThreads, LogBuffer,
        LogConfigMC, StartupMC

CONSTANTS
  Widths, Numbers, Days,   \* what file names are made of
  child,                   \* a category below the root
  own, other,              \* two appenders
  (* Bounds of the model. *)
  MaxDailyEvents, MaxTrouble,
  DictKeys, DictValues  \* what is in a dictionary of its own

VARIABLE part

MCFileNames == {FileName, Rotated} \cup (Widths \X Numbers) \cup {<<d>> : d \in Days}

MCParent == [c \in {child} |-> Root]
MCDepth == [c \in Cats |-> IF c = Root THEN 0 ELSE 1]
MCNameOf == [a \in Appenders |-> "name"]

\* One denies what is not urgent, one accepts it.
MCFilters ==
  {[p \in Priorities |-> IF p = 700 THEN d ELSE "NEUTRAL"] : d \in {"DENY", "ACCEPT"}}

MCDictKeys == {database, server, <<"d">>}
MCDictValues == {<<"9x">>}

RollingAtRest ==
  /\ configured = 1 /\ maxBackupIndex = 1 /\ maxFileSize = 0
  /\ roll = AtRest /\ cuts = 0

DailyAtRest ==
  /\ now = 0 /\ mtime = [n \in FileNames |-> 0] /\ maxDaysToKeep = 0
  /\ logsTime = 0 /\ daily = Idle /\ stamps = <<>>

ThreadsAtRest == ThreadsInit

\* What one thread has configured before the others start.
Configured(set, at, owned) ==
  /\ known = Cats
  /\ life = [a \in Appenders |-> IF a \in set THEN "alive" ELSE "none"]
  /\ registry \in [Names -> set]
  /\ attached = at /\ owns = owned
  /\ lock = [l \in Locks |-> NoOne] /\ additive = [c \in Cats |-> TRUE]
  /\ pc = [t \in Threads |-> "idle"] /\ after = [t \in Threads |-> "idle"]
  /\ cat = [t \in Threads |-> Root] /\ app = [t \in Threads |-> NoOne]
  /\ todo = [t \in Threads |-> {}] /\ left = [t \in Threads |-> {}]
  /\ forced = [t \in Threads |-> FALSE] /\ event = [t \in Threads |-> 0]
  /\ events = <<>> /\ out = [a \in Appenders |-> <<>>] /\ changes = 0

Each(atRoot, atChild) == [c \in Cats |-> IF c = Root THEN atRoot ELSE atChild]

ThreadsSetUp ==
  \/ ThreadsInit
  \/ LET each == Each({other}, {own}) IN Configured({own, other}, each, each)
  \/ Configured({own}, Each({own}, {own}), Each({}, {}))
  \/ Configured({own, other}, Each({}, {own}), Each({}, {own}))

smallVars == <<confVars, bufferVars, iniVars, startVars>>

SmallAtRest == ConfigInit /\ BufferInit /\ StartInit

Parts ==
  {"file", "rolling", "daily", "threads", "configurator", "buffer", "dictionary", "startup"}

Init ==
  /\ part \in Parts
  /\ SmallAtRest /\ (part # "buffer" => sinkLimit = NOTSET)
  /\ part \notin {"dictionary", "startup"} => absent = {}
  /\ \/ part = "file" /\ FileInit /\ RollingAtRest /\ DailyAtRest /\ ThreadsAtRest
     \/ part = "rolling" /\ RollingInit /\ DailyAtRest /\ ThreadsAtRest
     \/ part = "daily" /\ DailyInit /\ RollingAtRest /\ ThreadsAtRest
     \/ part = "threads" /\ ThreadsSetUp /\ FileInit /\ RollingAtRest /\ DailyAtRest
     \/ /\ part \in {"configurator", "buffer", "dictionary", "startup"}
        /\ FileInit /\ RollingAtRest /\ DailyAtRest /\ ThreadsAtRest

largeVars == <<fileVars, rollVars, dailyVars, logVars>>

vars == <<part, largeVars, smallVars>>

LargeNext ==
  \/ part = "file" /\ FileNext /\ UNCHANGED <<rollVars, dailyVars, logVars>>
  \/ part = "rolling" /\ RollingNext /\ UNCHANGED <<dailyVars, logVars>>
  \/ /\ part = "daily" /\ DailyNext /\ UNCHANGED <<rollVars, logVars>>
     /\ logged' <= MaxDailyEvents
     /\ used'.crashes <= MaxTrouble /\ used'.faults + used'.calls <= MaxTrouble
  \/ part = "threads" /\ ThreadsNext /\ UNCHANGED <<fileVars, rollVars, dailyVars>>

\* Memory is short for one thing at most.
OneShortage ==
  LET lines == Cardinality({i \in DOMAIN lack' : lack'[i] = "line"}) IN
    lines + shortages'.val + shortages'.key + shortages'.slots <= 1

SmallNext ==
  \/ part = "configurator" /\ ConfigNext /\ UNCHANGED <<bufferVars, iniVars, startVars>>
  \/ part = "buffer" /\ BufferNext /\ UNCHANGED <<confVars, iniVars, startVars>>
  \/ /\ part = "dictionary"
     /\ (\E key \in DictKeys : CallDict(key, DictValues)) \/ EndDict
     /\ UNCHANGED <<file, coming, line, section, errs, load, lack>> /\ OneShortage
     /\ UNCHANGED <<startVars, confVars, bufferVars>>
  \/ part = "startup" /\ Main /\ OneShortage /\ UNCHANGED <<confVars, bufferVars>>

Next ==
  /\ UNCHANGED part
  /\ \/ LargeNext /\ UNCHANGED smallVars
     \/ SmallNext /\ UNCHANGED largeVars

Spec == Init /\ [][Next]_vars
=============================================================================

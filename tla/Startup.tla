------------------------------- MODULE Startup -------------------------------
(***************************************************************************)
(* src/main.cpp, src/common/iniconfig.cpp and configdef.h: the program     *)
(* sets its log up, loads its configuration from an ini file, logs it and  *)
(* exits.                                                                  *)
(***************************************************************************)
EXTENDS IniParser

CONSTANTS
  NumberOf,   \* strtol() of each value
  USHRT,      \* the values of an unsigned short
  Arbitrary   \* values an uninitialised port may have

ASSUME StartupAssumption ==
  /\ NumberOf \in [Values -> Int]
  /\ USHRT \in Nat \ {0} /\ Arbitrary \subseteq Nat

VARIABLES
  main,     \* where main() is
  code,     \* the code it exited with, or "killed"
  config    \* _config

startVars == <<main, code, config>>

Texts == {"db_ip", "db_user", "db_pwd", "db_name"}
Ports == {"db_port", "svr_port"}

database == <<"d", "atabase">>
server == <<"s", "erver">>

SectionOf == [db_ip |-> database, db_port |-> database, db_user |-> database,
              db_pwd |-> database, db_name |-> database, svr_port |-> server]
NameOfKey == [db_ip |-> "ip", db_port |-> "port", db_user |-> "user",
              db_pwd |-> "pwd", db_name |-> "db", svr_port |-> "port"]
Default == [db_ip |-> <<"127.0.0.1">>, db_port |-> 3306, db_user |-> <<"root">>,
            db_pwd |-> <<"123456">>, db_name |-> <<"qiniubike">>, svr_port |-> 9090]

Fields == Texts \cup Ports

KeyFor(f) == KeyIn(<<NameOfKey[f]>>, SectionOf[f])

ASSUME FieldsAssumption ==
  \A f \in Fields :
    KeyFor(f) \in Keys /\ SectionOf[f] \in Sections /\ NameOfKey[f] \in Tokens

\* iniparser_getint(), assigned to an unsigned short.
PortOf(val, f) == (IF val = NULL THEN Default[f] ELSE NumberOf[val]) % USHRT

StartInit ==
  /\ IniInit
  /\ main = "start" /\ code = "none" /\ config = << >>

Exit(with) == main' = "end" /\ code' = with

\* The number of arguments, and Logger::init().
CheckArguments ==
  /\ main = "start"
  /\ \/ Exit(-1)
     \/ Exit(-2)
     \/ main' = "load" /\ UNCHANGED code
  /\ UNCHANGED <<iniVars, config>>

Load == main = "load" /\ iniparser_load /\ UNCHANGED startVars

LoadKilled ==
  /\ main = "load" /\ load = "killed"
  /\ Exit("killed")
  /\ UNCHANGED <<iniVars, config>>

\* Iniconfig::loadfile() returns -1, which is true, and leaves in _config what
\* its default constructor made.
LoadFailed ==
  /\ main = "load" /\ load = "failed"
  /\ main' = "print"
  /\ \E unset \in [Ports -> Arbitrary] :
       config' = [f \in Fields |-> IF f \in Texts THEN << >> ELSE unset[f]]
  /\ UNCHANGED <<iniVars, code>>

\* What loadfile() finds in the dictionary.
ConfigIn(d) ==
  [f \in Fields |->
     IF f \in Texts THEN dictionary_get(d, KeyFor(f), Default[f])
     ELSE PortOf(dictionary_get(d, KeyFor(f), NULL), f)]

\* The dictionary is read, and deleted.  std::string(NULL) ends the process.
Loaded ==
  /\ main = "load" /\ load = "loaded"
  /\ \/ /\ UseNull({"key", "val"})
        /\ Exit("killed") /\ UNCHANGED config
     \/ /\ \E f \in Texts : ConfigIn(dict)[f] = NULL
        /\ Exit("killed") /\ UNCHANGED <<dictVars, config>>
     \/ /\ \A f \in Texts : ConfigIn(dict)[f] # NULL
        /\ dictionary_del
        /\ main' = "print" /\ config' = ConfigIn(dict) /\ UNCHANGED code
  /\ UNCHANGED <<file, coming, line, section, errs, load, lack>>

PrintConfig == main = "print" /\ Exit(0) /\ UNCHANGED <<iniVars, config>>

Main == CheckArguments \/ Load \/ LoadKilled \/ LoadFailed \/ Loaded \/ PrintConfig

StartSpec == StartInit /\ [][Main]_<<iniVars, startVars>>

-----------------------------------------------------------------------------

\* What the file says of a field.
Written(field) ==
  LET Said(def) == Says(file, lack, SectionOf[field], NameOfKey[field], def) IN
  IF field \in Texts THEN Said(Default[field]) ELSE PortOf(Said(NULL), field)

\* The configuration that is printed is what the last assignments that were read
\* say, and the default where there is none: however the lines are cut, sections,
\* comments, quotes and empty values are told apart, assignments under "[]" are
\* nobody's, and a section named like a key is taken for it.  Where memory was
\* short for a line, that line alone is missing, for a new key, that assignment,
\* and for a value, a port has its default; no other assignment is disturbed.
ConfigAsWritten ==
  (main = "print" /\ load = "loaded") => \A field \in Fields : config[field] = Written(field)

\* The program does not go on with a configuration it could not load: main()
\* logs that and returns -3 (main.cpp:22-27).
NoConfigNoStart == main = "print" => load = "loaded"
=============================================================================

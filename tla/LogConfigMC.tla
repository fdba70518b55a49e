----------------------------- MODULE LogConfigMC ----------------------------
(***************************************************************************)
(* Property files for LogConfig: an appender A that is defined in each     *)
(* way it can be, an appender A-1, whose keys lie between those of A, and  *)
(* what the root and one more category are given.                          *)
(***************************************************************************)
EXTENDS LogConfig, TLC

CONSTANT kid   \* a category

Key(a) == <<"appender", a>>
LayoutKey(a) == <<"appender", a, "layout">>

\* '-' is before '.'.
MCKeyOrder ==
  Key("A") :> 1 @@ Key("A-1") :> 2 @@ LayoutKey("A-1") :> 3 @@ LayoutKey("A") :> 4
    @@ <<"appender", "A", "threshold">> :> 5

MCCatOrder == <<"root", kid>>

Nobody == [k \in {} |-> 0]

DefinitionsOfA ==
  {Nobody, Key("A") :> "unknown", Key("A") :> "bare", Key("A") :> "layout",
   LayoutKey("A") :> "known"}
    \cup {Key("A") :> "layout" @@ LayoutKey("A") :> l : l \in {"known", "unknown"}}
    \cup {Key("A") :> "bare" @@ <<"appender", "A", "threshold">> :> t : t \in {INFO, Bad}}

DefinitionsOfOther == {Nobody, Key("A-1") :> "bare"}

Given(priority, names) == [priority |-> priority, appenders |-> names]

RootLine == <<"category", "root">> :> Given(INFO, <<"A">>)

OtherRootLines ==
  {Nobody} \cup {<<"category", "root">> :> v :
     v \in {Given(Bad, <<"A">>), Given(NOTSET, << >>), Given(INFO, <<"A-1", "A">>)}}

KidLines ==
  {Nobody, <<"category", kid>> :> Given(NOTSET, <<"A">>) @@ <<"additivity", kid>> :> FALSE}

MCFiles ==
  {a @@ b @@ RootLine @@ k : a \in DefinitionsOfA, b \in DefinitionsOfOther, k \in KidLines}
    \cup {(Key("A") :> "bare") @@ b @@ r @@ k :
             b \in DefinitionsOfOther, r \in OtherRootLines, k \in KidLines}
=============================================================================

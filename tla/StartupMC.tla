----------------------------- MODULE StartupMC ------------------------------
(***************************************************************************)
(* Values for the constants of Startup: lines for one text field and the   *)
(* two ports, a section that is named like a key, a comment behind a       *)
(* header, a value, a quoted value, and none, numbers beyond an unsigned   *)
(* short, and keys that share their hash.                                  *)
(***************************************************************************)
EXTENDS Startup

MCTokens ==
  {"#", ";", "\"", "'", "[", "]", "=", ":", "d", "atabase", "s", "erver",
   "ip", "port", "user", "pwd", "db", "9x", "70000"}

MCLines ==
  {<<"#", "=">>, <<"ip">>,
   <<"[", "d", "atabase", "]">>, <<"[", "s", "erver", "]">>, <<"[", "]">>,
   <<"[", "d", "atabase", ":", "ip", "]">>,
   <<"ip", "=", "9x", "#">>, <<"ip", "=", "\"", "#", "\"">>,
   <<"port", "=", "70000">>, <<"port", "=", "'", "'">>}

ParsedAs(kind) == {iniparser_line(text) : text \in {t \in MCLines : iniparser_line(t).kind = kind}}

MCSections == {<< >>, <<"d">>, <<"s">>} \cup {l.name : l \in ParsedAs("section")}

MCKeys ==
  MCSections \cup {KeyIn(l.name, s) : l \in ParsedAs("value"), s \in MCSections}
             \cup {KeyIn(<<k>>, database) : k \in {"user", "pwd", "db"}}

MCValues == {l.val : l \in ParsedAs("value")}

MCHash == [k \in MCKeys |-> Len(k)]

MCNumberOf == [v \in MCValues |-> CASE v = <<"70000">> -> 70000 [] v = <<"9x">> -> 9 [] OTHER -> 0]
=============================================================================

------------------------------- MODULE IniMap -------------------------------
(***************************************************************************)
(* What a dictionary of iniparser promises: a map from keys to values, or  *)
(* to NULL for a section, and what each call does to it and returns.  If   *)
(* memory is short, a value may become NULL or a new key may not be added, *)
(* but nothing else is disturbed; if there was none for the dictionary, a  *)
(* call may end the process.                                               *)
(***************************************************************************)
EXTENDS Integers

CONSTANTS Keys, Values, NULL

VARIABLES
  map,
  call   \* the last call: its arguments, what memory was short for, its result

Init ==
  /\ map = [k \in {} |-> NULL]
  /\ call = [op |-> "new"]

Calls ==
  [op : {"set"}, key : Keys, val : Values \cup {NULL},
   short : {"nothing", "val", "key", "slots"}, ret : {0, -1}]
    \cup [op : {"unset"}, key : Keys]
    \cup [op : {"get"}, key : Keys, def : Values \cup {NULL}, ret : Values \cup {NULL}]
    \cup [op : {"del", "killed"}]

\* What is stored is what was given, or NULL if the copy of the value failed.
\* Only where there is no memory to add a key nothing is stored, and the caller
\* is told so only if the table could not grow.
Set(c) ==
  LET Stores(v) == map' = [k \in DOMAIN map \cup {c.key} |-> IF k = c.key THEN v ELSE map[k]]
  IN
  /\ \/ c.short = "nothing" /\ Stores(c.val)
     \/ c.short = "val" /\ Stores(NULL)
     \/ c.short \in {"key", "slots"} /\ c.key \notin DOMAIN map /\ UNCHANGED map
  /\ c.ret = IF c.short = "slots" THEN -1 ELSE 0

Unset(c) == map' = [k \in DOMAIN map \ {c.key} |-> map[k]]

\* What was last set, even if it is NULL.
Get(c) ==
  /\ c.ret = IF c.key \in DOMAIN map THEN map[c.key] ELSE c.def
  /\ UNCHANGED map

\* A call may end the process only where nothing was ever stored.
End(c) ==
  /\ c.op = "killed" => DOMAIN map = {}
  /\ UNCHANGED map

Next ==
  /\ call'.op # "new" /\ call.op \notin {"del", "killed"}
  /\ call' \in Calls
  /\ CASE call'.op = "set" -> Set(call')
       [] call'.op = "unset" -> Unset(call')
       [] call'.op = "get" -> Get(call')
       [] OTHER -> End(call')

Spec == Init /\ [][Next]_<<map, call>>
=============================================================================

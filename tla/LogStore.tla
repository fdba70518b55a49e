------------------------------ MODULE LogStore ------------------------------
(***************************************************************************)
(* What the users of a file appender are promised of their events, without *)
(* files, names, sizes or days.  Events are numbered in the order they are *)
(* logged.  An event logged while a file is open is kept; room is made by  *)
(* forgetting the oldest events; and what was once forgotten never comes   *)
(* back.  Only after something failed, or the settings were changed, may   *)
(* the events kept have holes, and may events be missed.                   *)
(***************************************************************************)
EXTENDS Naturals

VARIABLES logged,   \* how many events were logged
          kept,     \* the events that can be read back from the files
          open,     \* does the appender have a file to write to?
          whole     \* has nothing failed yet?

vars == <<logged, kept, open, whole>>

Init ==
  /\ logged = 0 /\ kept = {}
  /\ open \in BOOLEAN
  /\ whole = TRUE

Log ==
  /\ logged' = logged + 1
  /\ kept' = IF open THEN kept \cup {logged'} ELSE kept
  /\ open' \in BOOLEAN
  /\ UNCHANGED whole

ForgetOldest ==
  /\ kept' \subseteq kept
  /\ \A gone \in kept \ kept', rest \in kept' : gone < rest
  /\ UNCHANGED <<logged, open, whole>>

OpenOrClose ==
  /\ open' \in BOOLEAN
  /\ UNCHANGED <<logged, kept, whole>>

Damage ==
  /\ whole' = FALSE
  /\ open' \in BOOLEAN
  /\ \/ logged' = logged /\ kept' \subseteq kept
     \/ logged' = logged + 1 /\ kept' \subseteq kept \cup {logged'}

Next == Log \/ ForgetOldest \/ OpenOrClose \/ Damage

Spec == Init /\ [][Next]_vars
=============================================================================

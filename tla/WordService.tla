----------------------------- MODULE WordService -----------------------------
(***************************************************************************)
(* What test/pthread/dome2.c says it does (lines 10-13): each string the   *)
(* main thread receives is at once counted, then its result is stored,     *)
(* before the next one is received, until "exit", which is counted and     *)
(* stored like any other.                                                  *)
(***************************************************************************)
EXTENDS Naturals, Sequences

CONSTANTS Strings,  \* what can be received
          Exit      \* the last one

VARIABLES lines,    \* the strings received
          counted, stored,
          ended

vars == <<lines, counted, stored, ended>>

Init == lines = <<>> /\ counted = <<>> /\ stored = <<>> /\ ended = FALSE

Receive ==
  /\ stored = lines
  /\ lines # <<>> => lines[Len(lines)] # Exit
  /\ \E w \in Strings : lines' = Append(lines, w)
  /\ UNCHANGED <<counted, stored, ended>>

Count ==
  /\ Len(counted) < Len(lines)
  /\ counted' = Append(counted, lines[Len(counted) + 1])
  /\ UNCHANGED <<lines, stored, ended>>

Store ==
  /\ Len(stored) < Len(counted)
  /\ stored' = Append(stored, counted[Len(stored) + 1])
  /\ UNCHANGED <<lines, counted, ended>>

End ==
  /\ stored = lines /\ lines # <<>> /\ lines[Len(lines)] = Exit
  /\ ended' = TRUE
  /\ UNCHANGED <<lines, counted, stored>>

Next == Receive \/ Count \/ Store \/ End

Spec == Init /\ [][Next]_vars
=============================================================================

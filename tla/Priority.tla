------------------------------ MODULE Priority ------------------------------
(***************************************************************************)
(* log4cpp/Priority.hh: the priorities of events, the most urgent one the  *)
(* least.                                                                  *)
(***************************************************************************)
EXTENDS Integers, Sequences

CONSTANTS
  Priorities,   \* the priorities events are logged with
  NOTSET,       \* as a threshold none, as a category's the parent's
  INFO          \* the root category's first priority

ASSUME PriorityAssumption ==
  NOTSET \in Nat /\ INFO \in 0 .. NOTSET - 1 /\ Priorities \subseteq 0 .. NOTSET - 1
=============================================================================

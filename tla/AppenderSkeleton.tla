-------------------------- MODULE AppenderSkeleton --------------------------
(***************************************************************************)
(* log4cpp/src/AppenderSkeleton.cpp and Filter.cpp: what doAppend() lets   *)
(* through to an appender's _append(), by the appender's threshold and its *)
(* chain of filters.                                                       *)
(***************************************************************************)
EXTENDS Priority

CONSTANT Filters   \* filters: functions from priorities to decisions

ASSUME FiltersAssumption == Filters \subseteq [Priorities -> {"DENY", "NEUTRAL", "ACCEPT"}]

VARIABLES
  threshold,   \* _threshold
  chain        \* _filter, and the filters chained to it

skeletonVars == <<threshold, chain>>

SkeletonInit == threshold = NOTSET /\ chain = << >>

\* decide() of filter i of the chain: a neutral decision is left to the next.
decide(priority) ==
  LET from[i \in 1 .. Len(chain)] ==
        LET decision == chain[i][priority] IN
          IF decision = "NEUTRAL" /\ i < Len(chain) THEN from[i + 1] ELSE decision
  IN  from[1]

Reaches(limit, priority) == limit = NOTSET \/ priority <= limit

\* doAppend()
Passes(priority) ==
  Reaches(threshold, priority) /\ (chain # << >> => decide(priority) # "DENY")

setThreshold(priority) == threshold' = priority /\ UNCHANGED chain

\* The filters that were there are deleted.
setFilter(filter) == chain' = <<filter>> /\ UNCHANGED threshold

\* appendChainedFilter() of the first filter.
appendChainedFilter(filter) ==
  /\ chain # << >> /\ chain' = Append(chain, filter)
  /\ UNCHANGED threshold
=============================================================================

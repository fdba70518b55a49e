----------------------------- MODULE LogBuffer ------------------------------
(***************************************************************************)
(* log4cpp/src/BufferingAppender.cpp: the events that pass the threshold   *)
(* and the filters are kept until one of them is a trigger, and are then   *)
(* handed to the sink in one piece, as an event of priority NOTSET.  A     *)
(* full buffer that is lossy gives up its oldest event.  One that is not   *)
(* is handed to the sink, but not emptied: it is only asked whether it is  *)
(* just full, so that it grows from then on, until the next trigger.       *)
(***************************************************************************)
EXTENDS AppenderSkeleton

CONSTANTS
  MaxBuffered,     \* max_size_
  Level,           \* level_ of the LevelEvaluator
  SinkThresholds,  \* thresholds the sink may have
  (* Bounds of the model. *)
  MaxAppended,     \* events
  MaxSwitched      \* calls of setters

ASSUME BufferAssumption ==
  /\ MaxBuffered \in Nat \ {0} /\ MaxAppended \in Nat /\ MaxSwitched \in Nat
  /\ Level \in Priorities /\ SinkThresholds \subseteq 0 .. NOTSET

VARIABLES
  queue,      \* queue_, the newest event first
  lossy,      \* lossy_
  sinkLimit,  \* the threshold of the sink
  sink,       \* what the sink has appended
  given,      \* history: every event given to doAppend(): its priority, and
              \* the settings at that time
  switched    \* how often a setter was called

bufferVars == <<skeletonVars, queue, lossy, sinkLimit, sink, given, switched>>

BufferInit ==
  /\ SkeletonInit
  /\ queue = << >> /\ lossy = FALSE
  /\ sinkLimit \in SinkThresholds /\ sink = << >>
  /\ given = << >> /\ switched = 0

\* dump(), from the oldest event to the newest: one event to the sink.
Dump(q) ==
  IF Reaches(sinkLimit, NOTSET) THEN <<[i \in 1 .. Len(q) |-> q[Len(q) + 1 - i]]>>
  ELSE << >>

eval(priority) == priority <= Level

\* Wrong on purpose: the newest event is given up.
MakeRoomAtFront ==
  IF lossy /\ Len(queue) = MaxBuffered THEN Tail(queue) ELSE queue

MakeRoom ==
  IF lossy /\ Len(queue) = MaxBuffered THEN SubSeq(queue, 1, Len(queue) - 1) ELSE queue

\* _append(): a dump if the buffer is full, and another if the event is a trigger.
AppendBuffered(event, priority) ==
  LET full == ~lossy /\ Len(queue) = MaxBuffered
      kept == <<event>> \o MakeRoom
  IN  /\ queue' = IF eval(priority) THEN << >> ELSE kept
      /\ sink' = sink \o (IF full THEN Dump(queue) ELSE << >>)
                      \o (IF eval(priority) THEN Dump(kept) ELSE << >>)

doAppend(priority) ==
  /\ Len(given) < MaxAppended
  /\ given' = Append(given, [priority |-> priority, threshold |-> threshold,
                             chain |-> chain, lossy |-> lossy])
  /\ \/ Passes(priority) /\ AppendBuffered(Len(given'), priority)
     \/ ~Passes(priority) /\ UNCHANGED <<queue, sink>>
  /\ UNCHANGED <<skeletonVars, lossy, sinkLimit, switched>>

setLossy == lossy' = ~lossy /\ UNCHANGED skeletonVars

Switch ==
  /\ switched < MaxSwitched /\ switched' = switched + 1
  /\ \/ setLossy
     \/ /\ \/ \E p \in Priorities \cup {NOTSET} : setThreshold(p)
           \/ \E f \in Filters : setFilter(f) \/ appendChainedFilter(f)
        /\ UNCHANGED lossy
  /\ UNCHANGED <<queue, sinkLimit, sink, given>>

BufferNext == (\E p \in Priorities : doAppend(p)) \/ Switch

BufferSpec == BufferInit /\ [][BufferNext]_bufferVars

-----------------------------------------------------------------------------

\* The events that were to be appended: within the threshold, and not denied by
\* the first filter with an opinion.
Due ==
  {e \in DOMAIN given :
     LET g == given[e] IN
       /\ g.threshold = NOTSET \/ g.priority <= g.threshold
       /\ \A i \in DOMAIN g.chain :
            g.chain[i][g.priority] = "DENY" =>
              \E j \in 1 .. i - 1 : g.chain[j][g.priority] # "NEUTRAL"}

\* The sink is told what led to a trigger: there is one dump that ends with it,
\* of consecutive events of those that were due, none of them from before the
\* last trigger, and as many as there were since or at least as many as the
\* buffer holds; all of them if it was never lossy.  But a sink with a threshold
\* is told nothing: no threshold lets NOTSET pass.
TriggersExplained ==
  LET triggers == {e \in Due : given[e].priority <= Level} IN
  \A t \in triggers :
    LET since == {e \in Due : e <= t /\ \A u \in triggers : u < t => u < e}
        told == {i \in DOMAIN sink : sink[i][Len(sink[i])] = t}
    IN  IF sinkLimit # NOTSET THEN sink = << >>
        ELSE \E i \in told :
          /\ told = {i}
          /\ \A j, k \in DOMAIN sink[i] : j < k => sink[i][j] < sink[i][k]
          /\ {sink[i][j] : j \in DOMAIN sink[i]} = {e \in since : e >= sink[i][1]}
          /\ \/ \A e \in since : sink[i][1] <= e
             \/ Len(sink[i]) >= MaxBuffered /\ \E e \in since : given[e].lossy
=============================================================================

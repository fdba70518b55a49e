----------------------------- MODULE EchoService -----------------------------
(***************************************************************************)
(* What a client of the echo server is promised, without descriptors,      *)
(* epoll, buffers or clocks: connections are independent; each is greeted  *)
(* once, then inputs and answers take turns, the i-th answer belonging to  *)
(* the i-th input, until the connection is closed, which may happen at any *)
(* time.  A client that aborts may have input swallowed without an answer, *)
(* but is sent nothing more.                                               *)
(***************************************************************************)
EXTENDS Naturals, Sequences

CONSTANTS Conns,       \* client connections
          Inputs,      \* what one read can return
          Answer(_)    \* the answer to an input

VARIABLES stage,       \* where the conversation is
          aborted,     \* has the client aborted?
          rd, wr       \* inputs taken and answers given, the greeting first

vars == <<stage, aborted, rd, wr>>

Init ==
  /\ stage = [c \in Conns |-> "absent"]
  /\ aborted = [c \in Conns |-> FALSE]
  /\ rd = [c \in Conns |-> <<>>]
  /\ wr = [c \in Conns |-> <<>>]

Accept(c) ==
  /\ stage[c] = "absent"
  /\ stage' = [stage EXCEPT ![c] = "greet"]
  /\ UNCHANGED <<aborted, rd, wr>>

Greet(c) ==
  /\ stage[c] = "greet" /\ ~aborted[c]
  /\ stage' = [stage EXCEPT ![c] = "input"]
  /\ wr' = [wr EXCEPT ![c] = Append(@, <<>>)]
  /\ UNCHANGED <<aborted, rd>>

Input(c) ==
  /\ stage[c] = "input" \/ (stage[c] = "answer" /\ aborted[c])
  /\ stage' = [stage EXCEPT ![c] = "answer"]
  /\ \E data \in Inputs : rd' = [rd EXCEPT ![c] = Append(@, data)]
  /\ UNCHANGED <<aborted, wr>>

Respond(c) ==
  /\ stage[c] = "answer" /\ ~aborted[c]
  /\ stage' = [stage EXCEPT ![c] = "input"]
  /\ wr' = [wr EXCEPT ![c] = Append(@, Answer(rd[c][Len(rd[c])]))]
  /\ UNCHANGED <<aborted, rd>>

Abort(c) ==
  /\ ~aborted[c]
  /\ aborted' = [aborted EXCEPT ![c] = TRUE]
  /\ UNCHANGED <<stage, rd, wr>>

Close(c) ==
  /\ stage[c] \in {"greet", "input", "answer"}
  /\ stage' = [stage EXCEPT ![c] = "closed"]
  /\ UNCHANGED <<aborted, rd, wr>>

Next == \E c \in Conns :
  Accept(c) \/ Greet(c) \/ Input(c) \/ Respond(c) \/ Abort(c) \/ Close(c)

Spec == Init /\ [][Next]_vars
=============================================================================

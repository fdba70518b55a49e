---------------------------- MODULE EchoServerMC ----------------------------
(***************************************************************************)
(* Instances of EchoServer for TLC.                                        *)
(***************************************************************************)
EXTENDS EchoServer, TLC

\* Clients are interchangeable: nothing orders or names them.
Symmetry == Permutations(Conns)

-----------------------------------------------------------------------------
(* The refinement of EchoService *)

\* The stage of a connection can be read off what the framework has stored for
\* its descriptor: the event it waits for and the handler that will write.
Stage(c) ==
  IF net[c].phase # "open"
  THEN IF net[c].phase = "closed" THEN "closed" ELSE "absent"
  ELSE LET fd == CHOOSE f \in ConnFds : sock[f] = c IN
       IF epoll_state[fd] = {"IN"} THEN "input"
       ELSE IF fd_table[fd].write_handler = "do_welcome_handler" THEN "greet" ELSE "answer"

\* What one read can return: adjacent chunks.
Runs == {[i \in 1 .. b - a + 1 |-> a + i - 1] : a \in Chunks, b \in Chunks} \ {<<>>}

Service == INSTANCE EchoService WITH
  Inputs <- Runs,
  Answer <- CString,
  stage <- [c \in Conns |-> Stage(c)],
  aborted <- [c \in Conns |-> net[c].rst],
  rd <- [c \in Conns |-> net[c].rd],
  wr <- [c \in Conns |-> net[c].wr]

\* The server keeps the promise of EchoService to each of its clients.
ServesEcho == Service!Spec
=============================================================================

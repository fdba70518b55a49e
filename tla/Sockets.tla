------------------------------- MODULE Sockets -------------------------------
(***************************************************************************)
(* The kernel's side of a TCP server that multiplexes with epoll, as the   *)
(* servers of this repository use it: an accept queue, one socket per      *)
(* accepted connection with a receive queue, FIN and RST, room in the send *)
(* buffer, the epoll interest list and the clock.  None of it is code of   *)
(* the repository; it is what its system calls rely on.                    *)
(*                                                                         *)
(* A client's data is a sequence of chunks numbered 1, 2, ...; TCP may     *)
(* deliver any number of adjacent chunks to one read().                    *)
(***************************************************************************)
EXTENDS Integers, Sequences, FiniteSets

CONSTANTS
  Conns,      \* client connections, one per connect()
  NoConn,     \* "this descriptor is closed"
  ConnFds,    \* the descriptors accept() can return
  ListenFd,   \* the listening socket's descriptor
  SndCap,     \* replies that fit in a send buffer before EPOLLOUT goes away
  Resets,     \* may a client abort its connection (RST)?
  CtlFails,   \* may EPOLL_CTL_ADD fail (max_user_watches)?
  StartTime,  \* clock value, in ticks, when the program starts
  (* Bounds of the model. *)
  MaxMsgs,    \* chunks one client sends
  LastInput,  \* clients act only up to this tick
  MaxTime     \* the clock stops at this tick

ASSUME SocketsAssumption ==
  /\ NoConn \notin Conns
  /\ ConnFds \subseteq Nat \ {0} /\ IsFiniteSet(ConnFds)
  /\ ListenFd \in Nat \ ConnFds
  /\ SndCap \in Nat \ {0}
  /\ Resets \in BOOLEAN /\ CtlFails \in BOOLEAN
  /\ StartTime \in Nat /\ MaxMsgs \in Nat /\ LastInput \in Nat /\ MaxTime \in Nat

VARIABLES
  now,        \* real time, in ticks
  acceptq,    \* connections the kernel has completed and accept() has not returned
  sock,       \* sock[fd]: the connection behind an open descriptor
  net,        \* net[c]: the state of connection c
  interest    \* interest[fd]: events registered with epoll, {} = not registered

netVars == <<acceptq, sock, net>>

Fds == ConnFds \cup {ListenFd}
Chunks == 1 .. MaxMsgs
Interest == SUBSET {"IN", "OUT"}

\* rcvq: what read() will return; fin/rst: the peer closed/aborted; err: the
\* socket's pending error; unread: replies the peer has not taken; rd and wr
\* are history: the results of the server's successful read()s and write()s.
NewNet == [phase |-> "new", sent |-> 0, rcvq |-> <<>>, fin |-> FALSE, rst |-> FALSE,
           err |-> "none", unread |-> 0, rd |-> <<>>, wr |-> <<>>]

NetOf(Reply) ==
  [phase : {"new", "queued", "open", "closed"}, sent : Nat, rcvq : Seq(Chunks),
   fin : BOOLEAN, rst : BOOLEAN, err : {"none", "ECONNRESET", "EPIPE"}, unread : Nat,
   rd : Seq(Seq(Chunks)), wr : Seq(Reply)]

SocketsInit ==
  /\ now = StartTime
  /\ acceptq = <<>>
  /\ sock = [fd \in ConnFds |-> NoConn]
  /\ net = [c \in Conns |-> NewNet]

-----------------------------------------------------------------------------
(* What the clients, the network and the clock do. *)

Alive(c) == net[c].phase \in {"queued", "open"} /\ ~net[c].rst

\* connect() completes: the connection waits in the accept queue.
Connect(c) ==
  /\ now <= LastInput
  /\ net[c].phase = "new"
  /\ net' = [net EXCEPT ![c].phase = "queued"]
  /\ acceptq' = Append(acceptq, c)
  /\ UNCHANGED sock

Send(c) ==
  /\ now <= LastInput
  /\ Alive(c) /\ ~net[c].fin /\ net[c].sent < MaxMsgs
  /\ net' = [net EXCEPT ![c].sent = @ + 1, ![c].rcvq = Append(@, net[c].sent + 1)]
  /\ UNCHANGED <<acceptq, sock>>

\* The client takes one reply out of the stream, which makes room for another.
Receive(c) ==
  /\ now <= LastInput
  /\ net[c].unread > 0
  /\ net' = [net EXCEPT ![c].unread = @ - 1]
  /\ UNCHANGED <<acceptq, sock>>

\* The client closes its sending side: after the queued data read() returns 0.
Fin(c) ==
  /\ now <= LastInput
  /\ Alive(c) /\ ~net[c].fin
  /\ net' = [net EXCEPT ![c].fin = TRUE]
  /\ UNCHANGED <<acceptq, sock>>

\* The client aborts.  The pending error is EPIPE if its FIN came first.
Reset(c) ==
  /\ Resets
  /\ now <= LastInput
  /\ Alive(c)
  /\ net' = [net EXCEPT ![c].rst = TRUE,
                        ![c].err = IF net[c].fin THEN "EPIPE" ELSE "ECONNRESET"]
  /\ UNCHANGED <<acceptq, sock>>

Client(c) == Connect(c) \/ Send(c) \/ Receive(c) \/ Fin(c) \/ Reset(c)

-----------------------------------------------------------------------------
(* System calls of the server. *)

FreeFds == {fd \in ConnFds : sock[fd] = NoConn}

\* POSIX: the lowest-numbered descriptor that is not open.
LowestFree(fd) == fd \in FreeFds /\ \A f \in FreeFds : fd <= f

\* accept() returns descriptor fd for the connection at the head of the queue.
Accept(fd) ==
  LET c == Head(acceptq) IN
  /\ LowestFree(fd)
  /\ sock' = [sock EXCEPT ![fd] = c]
  /\ net' = [net EXCEPT ![c].phase = "open"]
  /\ acceptq' = Tail(acceptq)

\* close(fd): the connection is gone, epoll forgets the descriptor and the next
\* accept() may return it again.
Close(fd) ==
  /\ sock' = [sock EXCEPT ![fd] = NoConn]
  /\ net' = [net EXCEPT ![sock[fd]].phase = "closed"]
  /\ interest' = [interest EXCEPT ![fd] = {}]
  /\ UNCHANGED acceptq

\* What a read() may return: it takes a nonempty prefix of the queue.
Readable(c) == {SubSeq(net[c].rcvq, 1, k) : k \in 1 .. Len(net[c].rcvq)}

ReadSome(c, data) ==
  /\ net' = [net EXCEPT ![c].rcvq = SubSeq(@, Len(data) + 1, Len(@)),
                        ![c].rd = Append(@, data)]
  /\ UNCHANGED <<acceptq, sock>>

\* read(fd) = 0: end of stream.  After a FIN it hides the pending error.
ReadEnd(c) ==
  /\ net[c].rcvq = <<>>
  /\ net[c].fin \/ (net[c].rst /\ net[c].err = "none")

\* read(fd) = -1: the pending error, reported once, or EAGAIN.
ReadError(c) ==
  /\ net[c].rcvq = <<>> /\ ~net[c].fin /\ (net[c].rst => net[c].err # "none")
  /\ net' = [net EXCEPT ![c].err = "none"]
  /\ UNCHANGED <<acceptq, sock>>

\* write(fd, data) takes everything: the peer's stream grows by data.
WriteAll(c, data) ==
  /\ ~net[c].rst /\ net[c].unread < SndCap
  /\ net' = [net EXCEPT ![c].unread = @ + 1, ![c].wr = Append(@, data)]
  /\ UNCHANGED <<acceptq, sock>>

\* write(fd) = -1: ECONNRESET, reported once, or EAGAIN.
WriteError(c) ==
  /\ \/ net[c].rst /\ net[c].err = "ECONNRESET"
     \/ ~net[c].rst /\ net[c].unread = SndCap
  /\ net' = [net EXCEPT ![c].err = "none"]
  /\ UNCHANGED <<acceptq, sock>>

\* write(fd) on a connection whose reset was reported already, or followed a
\* FIN: EPIPE, and SIGPIPE whose default action ends the process.
WriteBroken(c) == net[c].rst /\ net[c].err # "ECONNRESET"

\* What epoll_wait() reports for fd; HUP stands for EPOLLHUP and EPOLLERR,
\* which need no registration of their own.
Pending(fd) ==
  IF fd = ListenFd THEN IF acceptq = <<>> THEN {} ELSE {"IN"}
  ELSE LET n == net[sock[fd]] IN
       (IF n.rcvq # <<>> \/ n.fin \/ n.rst THEN {"IN"} ELSE {})
       \cup (IF n.unread < SndCap \/ n.rst THEN {"OUT"} ELSE {})
       \cup (IF n.rst THEN {"HUP"} ELSE {})

Reported(fd) == Pending(fd) \cap (interest[fd] \cup {"HUP"})

ReadyFds == {fd \in Fds : interest[fd] # {} /\ Reported(fd) # {}}

\* The sets of descriptors epoll_wait() may return: all that are ready, or as
\* many of them as its array holds.
epoll_wait(max) ==
  LET n == Cardinality(ReadyFds) IN
  {batch \in SUBSET ReadyFds : Cardinality(batch) = IF n < max THEN n ELSE max}

\* ADD needs a descriptor that is not registered, MOD and DEL one that is.
CtlLegal(op, fd) == (op = "ADD") <=> (interest[fd] = {})

CtlDone(op, fd, ev) ==
  /\ CtlLegal(op, fd)
  /\ interest' = [interest EXCEPT ![fd] = ev]

\* A legal ADD may still run into a limit.
CtlRefused(op, fd) ==
  /\ CtlLegal(op, fd) => op = "ADD" /\ CtlFails
  /\ UNCHANGED interest

epoll_ctl(op, fd, ev) == CtlDone(op, fd, ev) \/ CtlRefused(op, fd)
=============================================================================

----------------------------- MODULE EchoServer -----------------------------
(***************************************************************************)
(* The echo server of test/IO/EPOLL/epoll_framework/main.c on top of the   *)
(* event framework: one process, one thread, that for ever runs            *)
(*                                                                         *)
(*   comm_select -> checkTimeouts -> epoll_wait -> handlers -> clock       *)
(*                                                                         *)
(* Every connection is greeted, then served in turns of one read and one   *)
(* write, and closed when it says "quit", ends its stream or lets its      *)
(* deadline pass.  Each handler is one action: it makes one system call    *)
(* whose result depends on the clients, the rest is local to the process.  *)
(***************************************************************************)
EXTENDS CommEpoll

CONSTANTS
  WelcomeTimeout,  \* 30 s in the code: from accept() to the greeting
  EchoTimeout,     \* 10 s in the code: from then on
  AllocFails,      \* may malloc() return NULL?
  Quit,            \* the chunks that start with "quit"
  WithNul          \* the chunks that contain a 0 byte

ASSUME EchoAssumption ==
  /\ WelcomeTimeout \in Nat \ {0} /\ EchoTimeout \in Nat \ {0}
  /\ AllocFails \in BOOLEAN
  /\ Quit \subseteq Chunks /\ WithNul \subseteq Chunks
  \* Seconds since 1970: later than any timeout counted from 0.
  /\ StartTime > WelcomeTimeout * TicksPerSec /\ StartTime > EchoTimeout * TicksPerSec

VARIABLES
  heap,      \* connections whose ConnectStat is allocated
  send_buf,  \* send_buf[c]: the chunks after "->" in the ConnectStat of c
  events,    \* what the last epoll_wait() reported and is not dispatched yet
  current,   \* the event comm_call_handlers() is working on
  pc         \* where the loop is

serverVars == <<fd_table, epoll_state, epoll_fds, interest, acceptq, sock, net, heap, send_buf>>
vars == <<now, serverVars, timeVars, events, current, pc, proc>>

Net == NetOf(Seq(Chunks))
Event == [fd : Fds, ev : SUBSET {"IN", "OUT", "HUP"}, conn : Conns \cup {NoConn}]
NoEvent == [fd |-> ListenFd, ev |-> {}, conn |-> NoConn]

\* main(): listen, comm_init(), register the listening socket.
Init ==
  /\ SocketsInit
  /\ sys_curtime = 0 /\ current_dtime = 0 /\ last_timeout = 0
  /\ fd_table = [fd \in Fds |-> IF fd = ListenFd
                   THEN commUpdateReadHandler(EmptyFde, "accept_connection", NULL) ELSE EmptyFde]
  /\ epoll_state = [fd \in Fds |-> IF fd = ListenFd THEN {"IN"} ELSE {}]
  /\ interest = epoll_state
  /\ epoll_fds = 1
  /\ heap = {}
  /\ send_buf = [c \in Conns |-> <<>>]
  /\ events = {} /\ current = NoEvent
  /\ pc = "comm_select"
  /\ proc = "running"

-----------------------------------------------------------------------------
(* Handlers: d is the ConnectStat they were registered with. *)

\* What strlen() sees of the buffer: nothing after the first 0 byte, so at most
\* a part of the chunk that has it.
CString(data) ==
  LET cut == {i \in DOMAIN data : data[i] \in WithNul} IN
  IF cut = {} THEN data ELSE SubSeq(data, 1, CHOOSE i \in cut : \A j \in cut : i <= j)

\* Logging a failed read() or write() follows the same wild pointer as
\* xstrerror() (do_echo_response even prints an int as a string).
LogError ==
  /\ xstrerror
  /\ UNCHANGED <<fd_table, epoll_state, epoll_fds, interest, heap, send_buf>>

Die(signal) ==
  /\ proc' = signal
  /\ UNCHANGED serverVars

\* The listening socket blocks: without a connection accept() does not return.
\* stat_init() ends without a return statement.  The build is not optimised
\* (Makefile: -g -w) and leaves the allocation, which its last statement has
\* used, where the caller looks for the result: so in main.o, stat_init+0x5e.
accept_connection ==
  /\ acceptq # <<>>
  /\ UNCHANGED send_buf
  /\ \/ /\ FreeFds = {}    \* accept() = -1, EMFILE
        /\ UNCHANGED <<fd_table, epoll_state, epoll_fds, interest, netVars, heap, proc>>
     \/ \E new_fd \in FreeFds, ok \in {TRUE, ~AllocFails} :
          LET stat == IF ok THEN Head(acceptq) ELSE NULL
              F == commUpdateWriteHandler(fd_table[new_fd], "do_welcome_handler", stat) IN
          /\ Accept(new_fd)
          /\ heap' = heap \cup ({stat} \ {NULL})
          /\ Install(new_fd, commSetTimeout(F, WelcomeTimeout, "do_echo_timeout", stat), {"OUT"})

do_welcome_handler(fd, d) ==
  LET F == commUpdateReadHandler(fd_table[fd], "do_echo_handler", d) IN
  \/ /\ WriteAll(sock[fd], <<>>)
     /\ Install(fd, commSetTimeout(F, EchoTimeout, "do_echo_timeout", d), {"IN"})
     /\ UNCHANGED <<heap, send_buf>>
  \/ WriteError(sock[fd]) /\ LogError
  \/ WriteBroken(sock[fd]) /\ Die("SIGPIPE")

CloseAndFree(fd, d) ==
  \/ comm_close(fd) /\ heap' = heap \ {d} /\ UNCHANGED send_buf
  \/ DelCrashes(fd) /\ UNCHANGED serverVars

do_echo_handler(fd, d) ==
  LET F == commUpdateWriteHandler(fd_table[fd], "do_echo_response", d) IN
  \/ d = NULL /\ Die("SIGABRT")    \* assert(stat!=NULL)
  \/ /\ d # NULL
     /\ \E data \in Readable(sock[fd]) :
          IF data[1] \in Quit
          THEN CloseAndFree(fd, d)
          ELSE /\ ReadSome(sock[fd], data)
               /\ send_buf' = [send_buf EXCEPT ![d] = data]
               /\ Install(fd, commSetTimeout(F, EchoTimeout, "do_echo_timeout", d), {"OUT"})
               /\ UNCHANGED heap
  \/ d # NULL /\ ReadEnd(sock[fd]) /\ CloseAndFree(fd, d)
  \/ d # NULL /\ ReadError(sock[fd]) /\ LogError

\* write() of a nonempty buffer never returns 0: the branch that closes the
\* connection then cannot be reached.
do_echo_response(fd, d) ==
  LET F == commSetTimeout(fd_table[fd], EchoTimeout, "do_echo_timeout", d) IN
  \/ /\ WriteAll(sock[fd], CString(send_buf[d]))
     /\ Install(fd, commUpdateReadHandler(F, "do_echo_handler", d), {"IN"})
     /\ UNCHANGED <<heap, send_buf>>
  \/ WriteError(sock[fd]) /\ LogError
  \/ WriteBroken(sock[fd]) /\ Die("SIGPIPE")

\* Wrong on purpose: the timeout frees the ConnectStat and leaves the rest.
TimeoutOnlyFrees(fd, d) ==
  /\ heap' = heap \ {d}
  /\ UNCHANGED <<fd_table, epoll_state, epoll_fds, interest, netVars, send_buf, proc>>

do_echo_timeout(fd, d) == CloseAndFree(fd, d)

Call(handler, fd, d) ==
  \/ handler = "accept_connection" /\ accept_connection
  \/ handler = "do_welcome_handler" /\ do_welcome_handler(fd, d)
  \/ handler = "do_echo_handler" /\ do_echo_handler(fd, d)
  \/ handler = "do_echo_response" /\ do_echo_response(fd, d)
  \/ handler = "do_echo_timeout" /\ do_echo_timeout(fd, d)

-----------------------------------------------------------------------------
(* The loop: comm_select(), again and again. *)

At(place) == proc = "running" /\ pc = place

StartSelect ==
  /\ At("comm_select")
  /\ IF TimeoutCheckDue
     THEN pc' = "checkTimeouts" /\ last_timeout' = current_dtime
     ELSE pc' = "epoll_wait" /\ UNCHANGED last_timeout
  /\ UNCHANGED <<serverVars, sys_curtime, current_dtime, events, current, proc>>

\* The scan goes up the table; nothing it does makes an entry below expire.
ExpireTimeout(fd) ==
  /\ At("checkTimeouts")
  /\ Expired(fd) /\ \A f \in Fds : Expired(f) => fd <= f
  /\ IF fd_table[fd].timeout_handler # NoHandler
     THEN Call(fd_table[fd].timeout_handler, fd, fd_table[fd].timeout_data)
     ELSE CloseAndFree(fd, NULL)    \* comm_close() alone
  /\ UNCHANGED <<timeVars, events, current, pc>>

EndTimeouts ==
  /\ At("checkTimeouts")
  /\ \A fd \in Fds : ~Expired(fd)
  /\ pc' = "epoll_wait"
  /\ UNCHANGED <<serverVars, timeVars, events, current, proc>>

\* Any batch, in any order.
Batch ==
  \E batch \in epoll_wait(MaxEvents) :
    events' = {[fd |-> fd, ev |-> Reported(fd),
                conn |-> IF fd = ListenFd THEN NoConn ELSE sock[fd]] : fd \in batch}

\* Wrong on purpose: events are dispatched only after the timeouts that follow.
EpollWaitFirst ==
  /\ At("epoll_wait")
  /\ ReadyFds # {}
  /\ IF events = {} THEN Batch /\ pc' = "getCurrentTime"
                    ELSE UNCHANGED events /\ pc' = "dispatch"
  /\ UNCHANGED <<serverVars, timeVars, current, proc>>

EpollWait ==
  /\ At("epoll_wait")
  /\ ReadyFds # {}
  /\ Batch
  /\ pc' = "dispatch"
  /\ UNCHANGED <<serverVars, timeVars, current, proc>>

\* epoll_wait() returns 0 after msec, or is interrupted.
EpollTimeout ==
  /\ At("epoll_wait")
  /\ ReadyFds = {}
  /\ pc' = "getCurrentTime"
  /\ UNCHANGED <<serverVars, timeVars, events, current, proc>>

\* comm_call_handlers(), first half: the read handler sees every event but OUT.
CallReadHandler(e) ==
  LET F == fd_table[e.fd] IN
  /\ At("dispatch")
  /\ IF F.read_handler # NoHandler /\ ReadEvents(e.ev) # {}
     THEN Call(F.read_handler, e.fd, F.read_data)
     ELSE UNCHANGED <<serverVars, proc>>
  /\ events' = events \ {e}
  /\ current' = e
  /\ pc' = "write_event"
  /\ UNCHANGED timeVars

\* Second half: the table is read again, the write handler sees all but IN.
CallWriteHandler ==
  LET F == fd_table[current.fd] IN
  /\ At("write_event")
  /\ IF F.write_handler # NoHandler /\ WriteEvents(current.ev) # {}
     THEN Call(F.write_handler, current.fd, F.write_data)
     ELSE UNCHANGED <<serverVars, proc>>
  /\ current' = NoEvent
  /\ pc' = IF events = {} THEN "getCurrentTime" ELSE "dispatch"
  /\ UNCHANGED <<timeVars, events>>

EndSelect ==
  /\ At("getCurrentTime")
  /\ getCurrentTime
  /\ pc' = "comm_select"
  /\ UNCHANGED <<serverVars, events, current, proc>>

Server ==
  /\ \/ StartSelect
     \/ \E fd \in Fds : ExpireTimeout(fd)
     \/ EndTimeouts
     \/ EpollWait
     \/ EpollTimeout
     \/ \E e \in events : CallReadHandler(e)
     \/ CallWriteHandler
     \/ EndSelect
  /\ UNCHANGED now

processVars == <<interest, fd_table, epoll_state, epoll_fds, heap, send_buf,
                 timeVars, events, current, pc, proc>>

\* The clients and the clock, while the server runs.
Clients ==
  /\ proc = "running"
  /\ \E c \in Conns : Client(c)
  /\ UNCHANGED <<now, processVars>>

Clock ==
  /\ proc = "running"
  /\ Tick
  /\ UNCHANGED <<netVars, processVars>>

Next == Server \/ Clients \/ Clock

Spec == Init /\ [][Next]_vars

\* The process gets the processor and time passes; a client may stop for ever.
FairSpec == Spec /\ WF_vars(Server) /\ WF_vars(Clock)

-----------------------------------------------------------------------------
(* Invariants *)

\* Every variable has its type.
TypeOK ==
  /\ now \in Nat
  /\ acceptq \in Seq(Conns)
  /\ sock \in [ConnFds -> Conns \cup {NoConn}]
  /\ net \in [Conns -> Net]
  /\ interest \in [Fds -> Interest]
  /\ fd_table \in [Fds -> Fde]
  /\ epoll_state \in [Fds -> Interest]
  /\ epoll_fds \in Int
  /\ sys_curtime \in Nat /\ current_dtime \in Nat /\ last_timeout \in Nat
  /\ heap \subseteq Conns
  /\ send_buf \in [Conns -> Seq(Chunks)]
  /\ events \subseteq Event
  /\ current \in Event
  /\ pc \in {"comm_select", "checkTimeouts", "epoll_wait", "dispatch", "write_event",
             "getCurrentTime"}
  /\ proc \in {"running", "SIGSEGV", "SIGPIPE", "SIGABRT"}

Open(fd) == sock[fd] # NoConn

\* The framework's picture of epoll is right: a descriptor has an epoll state
\* exactly while it is open, the kernel watches it for that state (or not at
\* all, where registering it failed), and epoll_fds counts such descriptors
\* (comm_epoll.c: epoll_state, epoll_fds; the kernel's list is separate).
EpollInSync ==
  /\ \A fd \in ConnFds : Open(fd) <=> epoll_state[fd] # {}
  /\ \A fd \in Fds : interest[fd] = epoll_state[fd] \/ (CtlFails /\ interest[fd] = {})
  /\ epoll_fds = Cardinality({fd \in Fds : epoll_state[fd] # {}})

\* No open connection is stranded: whatever happened to it, a deadline is armed
\* and its handler will close the connection (main.c: every path that keeps a
\* connection has to leave the deadline of an earlier call in force).
NoneStranded ==
  \A fd \in ConnFds : Open(fd) =>
    fd_table[fd].timeout # 0 /\ fd_table[fd].timeout_handler = "do_echo_timeout"

\* No handler can be called with a ConnectStat that is freed or that belongs to
\* another connection, none is leaked, and a descriptor that accept() may
\* return again carries nothing over from its last owner (main.c hands one
\* pointer to three handlers and frees it in four places).
StatsOwned ==
  /\ \A fd \in ConnFds : LET F == fd_table[fd] IN
       IF Open(fd)
       THEN /\ F.timeout_data \in {sock[fd], NULL}
            /\ F.read_handler # NoHandler => F.read_data = F.timeout_data
            /\ F.write_handler # NoHandler => F.write_data = F.timeout_data
       ELSE F = EmptyFde
  /\ heap = {fd_table[fd].timeout_data : fd \in {f \in ConnFds : Open(f)}} \ {NULL}

\* An event that waits to be dispatched is about the connection its descriptor
\* still stands for, although handlers called before it in the same round may
\* close descriptors and accept() may reuse them.
EventsFresh ==
  /\ \A e \in events : e.fd \in ConnFds => sock[e.fd] = e.conn /\ e.conn # NoConn
  /\ current.fd \in ConnFds => sock[current.fd] \in {current.conn, NoConn}

\* After the greeting, the i-th thing a client is sent is the C string of the
\* i-th thing read from it, at most one reply is owed at any time, and none is
\* owed while the server waits for input (do_echo_handler and do_echo_response
\* alternate although both stay registered).  Only a reset may cost a reply.
RepliesMatchReads ==
  \A c \in Conns : LET n == net[c] IN
    /\ Len(n.wr) <= Len(n.rd) + 1
    /\ \A i \in 2 .. Len(n.wr) : n.wr[i] = CString(n.rd[i - 1])
    /\ ~n.rst => Len(n.wr) >= Len(n.rd)
    /\ \A fd \in ConnFds : sock[fd] = c /\ epoll_state[fd] = {"IN"} /\ ~n.rst
         => Len(n.wr) = Len(n.rd) + 1

\* A deadline is never seen as passed earlier than the clock's grain and one
\* round of the loop before its period is over (sys_curtime is a second's floor
\* and as old as the last round).  Deadlines set before the clock was first
\* read are another matter: see ClockIsSet.
NotBeforeTime ==
  \A fd \in ConnFds : LET F == fd_table[fd] IN
    Expired(fd) /\ F.timeout # F.period
      => now + MaxLag + TicksPerSec > F.armed + F.period * TicksPerSec

\* What can end the process: a client that aborts, which makes a write raise
\* SIGPIPE or a failed call be logged through a bad pointer; a descriptor epoll
\* has refused to watch as the framework asked, which is logged that way when
\* it is refused and when the connection is closed; and a ConnectStat there was
\* no memory for.  Nothing else the clients or the clock do, in particular no
\* handler that is called without something to read or room to write, and no
\* change of what a watched descriptor waits for.
EndsOnlyIf ==
  /\ proc = "SIGPIPE" => \E c \in Conns : net[c].rst
  /\ proc = "SIGSEGV" => \/ \E c \in Conns : net[c].rst
                         \/ \E fd \in ConnFds : interest[fd] = {} /\ epoll_state[fd] # {}
  /\ proc = "SIGABRT" => AllocFails

\* globals.h:64 offers the clock to all modules: a deadline set with it lies
\* after the start of the program.
ClockIsSet ==
  \A fd \in ConnFds : Open(fd) => fd_table[fd].timeout * TicksPerSec > StartTime

-----------------------------------------------------------------------------
(* Liveness *)

Ended == proc # "running"

\* Every connection is closed in the end, silent or not, registered with epoll
\* or not: once clients stop, the deadline catches it.
EveryConnectionCloses ==
  \A c \in Conns : net[c].phase = "open" ~> (net[c].phase = "closed" \/ Ended)

\* Whoever waits in the accept queue, be it for want of descriptors, is
\* accepted.
EveryConnectAccepted ==
  \A c \in Conns : net[c].phase = "queued" ~> (net[c].phase \in {"open", "closed"} \/ Ended)

\* While no deadline gets in the way, what a client sends is read and
\* answered, unless it does not take replies or its connection is closed.
InputIsAnswered ==
  \A c \in Conns : LET n == net[c] IN
    n.phase = "open" /\ n.rcvq # <<>>
      ~> (\/ n.rcvq = <<>> /\ Len(n.wr) = Len(n.rd) + 1
          \/ n.phase = "closed" \/ n.unread = SndCap \/ Ended)
=============================================================================

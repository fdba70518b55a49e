------------------------------ MODULE WebServer ------------------------------
(***************************************************************************)
(* The HTTP server of test/IO/EPOLL/epoll_web_server1.c: one process, one  *)
(* thread, one loop around epoll_wait().  What it knows of a connection is *)
(* in a ConnectStat on the heap, whose address epoll hands back with every *)
(* event.  A connection waits for a request or for room to send its page,  *)
(* never for both; there are no deadlines.                                 *)
(*                                                                         *)
(* A request is what one read() returned.  Tokens and the values of fields *)
(* lie within a chunk, texts hold no 0 byte, values fit in their arrays,   *)
(* and a form's name comes before its age, as in the server's own form.    *)
(***************************************************************************)
EXTENDS Sockets

CONSTANTS
  AllocFails,   \* may malloc() return NULL?
  Commit,       \* the chunks that start with "POST /commit"
  HeaderEnd,    \* the chunks that hold the blank line after a header
  NameField,    \* the chunks with "name=" (after the blank line, if any)
  AgeField,     \* the chunks with "age=", likewise
  BlankName,    \* those whose name is empty
  BlankAge,     \* those whose age is
  MaxEvents     \* length of the array given to epoll_wait(), 64

ASSUME WebAssumption ==
  /\ AllocFails \in BOOLEAN
  /\ Commit \subseteq Chunks /\ HeaderEnd \subseteq Chunks
  /\ NameField \subseteq Chunks /\ AgeField \subseteq Chunks
  /\ BlankName \subseteq NameField /\ BlankAge \subseteq AgeField
  /\ MaxEvents \in Nat \ {0}

VARIABLES
  stat,      \* stat[c]: the ConnectStat made for connection c
  heap,      \* the connections whose ConnectStat is allocated
  ptr,       \* ptr[fd]: data.ptr of fd's registration; NoConn is the listener's
  events,    \* what the last epoll_wait() reported and is not handled yet
  pc,        \* "epoll_wait", or "dispatch" while events are handled
  proc       \* "running", or the signal that ended the process

statVars == <<stat, heap, ptr>>
serverVars == <<statVars, interest, netVars>>
vars == <<now, serverVars, events, pc, proc>>

\* A value is the chunk it was copied from, 0 the empty string.
Values == Chunks \cup {0}

ConnectStat == [fd : Fds, handler : {"NULL", "welcome", "commit"}, name : Values, age : Values]
Page == [handler : {"welcome", "commit"}, name : Values, age : Values]
Event == [stat : Conns \cup {NoConn}, ev : SUBSET {"IN", "OUT", "HUP"}]

\* Wrong on purpose: what malloc() returned is not cleared.
InitWithoutMemset(fd) == [fd |-> fd, handler |-> "NULL", name |-> -1, age |-> -1]

stat_init(fd) == [fd |-> fd, handler |-> "NULL", name |-> 0, age |-> 0]

\* main(): listen, register the listening socket.
Init ==
  /\ SocketsInit
  /\ interest = [fd \in Fds |-> IF fd = ListenFd THEN {"IN"} ELSE {}]
  /\ ptr = [fd \in Fds |-> NoConn]
  /\ stat = [c \in Conns |-> stat_init(ListenFd)]
  /\ heap = {}
  /\ events = {}
  /\ pc = "epoll_wait"
  /\ proc = "running"

-----------------------------------------------------------------------------
(* Parsing *)

\* Where in a text, from chunk start on, one of the given chunks is; 0: nowhere.
strstr(data, start, chunks) ==
  LET hits == {i \in start .. Len(data) : data[i] \in chunks} IN
  IF hits = {} THEN 0 ELSE CHOOSE i \in hits : \A j \in hits : i <= j

BodyOf(data) == strstr(data, 1, HeaderEnd)

\* The name is searched from the header's end, the age from where that ended.
NameAt(data) == strstr(data, BodyOf(data), NameField)
AgeAt(data) ==
  strstr(data, IF NameAt(data) = 0 THEN BodyOf(data) ELSE NameAt(data), AgeField)

\* Wrong on purpose: an empty value is copied as well.
FillAlways(old, data, at, blank) ==
  IF at = 0 THEN old ELSE IF data[at] \in blank THEN 0 ELSE data[at]

\* An empty value does not replace what the ConnectStat holds.
Fill(old, data, at, blank) == IF at = 0 \/ data[at] \in blank THEN old ELSE data[at]

Parse(s, data) ==
  IF data[1] \notin Commit THEN [s EXCEPT !.handler = "welcome"]
  ELSE [s EXCEPT !.handler = "commit",
                 !.name = Fill(@, data, NameAt(data), BlankName),
                 !.age = Fill(@, data, AgeAt(data), BlankAge)]

\* The header's end is not in this read: strstr() returns NULL and is given it.
SearchesNull(data) == data[1] \in Commit /\ BodyOf(data) = 0

-----------------------------------------------------------------------------
(* Handlers *)

\* Wrong on purpose: the registration stays as it is.
RearmNothing(c, ev) == UNCHANGED <<interest, ptr>>

\* epoll_ctl(MOD): wait for ev next.  data.ptr has not changed since the ADD.
Rearm(c, ev) ==
  /\ epoll_ctl("MOD", stat[c].fd, ev)
  /\ ptr' = [ptr EXCEPT ![stat[c].fd] = c]

\* Wrong on purpose: the first thing waited for is room to send.
ConnectForOut(c, fd) ==
  /\ stat' = [stat EXCEPT ![c] = stat_init(fd)]
  /\ heap' = heap \cup {c}
  /\ epoll_ctl("ADD", fd, {"OUT"})
  /\ ptr' = [ptr EXCEPT ![fd] = c]

connect_handle(c, fd) ==
  /\ stat' = [stat EXCEPT ![c] = stat_init(fd)]
  /\ heap' = heap \cup {c}
  /\ epoll_ctl("ADD", fd, {"IN"})
  /\ ptr' = [ptr EXCEPT ![fd] = c]

\* An event of the listening socket.  Without a free descriptor accept() fails;
\* without memory connect_handle() writes through NULL.
AcceptClient ==
  \/ /\ FreeFds = {}
     /\ UNCHANGED <<serverVars, proc>>
  \/ \E new_fd \in FreeFds :
       /\ Accept(new_fd)
       /\ \/ connect_handle(Head(acceptq), new_fd) /\ UNCHANGED proc
          \/ AllocFails /\ proc' = "SIGSEGV" /\ UNCHANGED <<statVars, interest>>

\* Wrong on purpose: the end of the stream is only logged.
EndIgnored(c) == UNCHANGED serverVars

\* Wrong on purpose: the ConnectStat is freed, the connection stays.
EndWithoutClose(c) ==
  /\ heap' = heap \ {c}
  /\ UNCHANGED <<stat, ptr, interest, netVars>>

\* read() = 0.  EPOLL_CTL_DEL goes before the close, which implies it.
EndOfStream(c) ==
  /\ Close(stat[c].fd)
  /\ heap' = heap \ {c}
  /\ UNCHANGED <<stat, ptr>>

do_http_request(c) ==
  LET conn == sock[stat[c].fd] IN
  \/ \E data \in Readable(conn) :
       /\ ReadSome(conn, data)
       /\ IF SearchesNull(data)
          THEN proc' = "SIGSEGV" /\ UNCHANGED <<statVars, interest>>
          ELSE /\ stat' = [stat EXCEPT ![c] = Parse(@, data)]
               /\ Rearm(c, {"OUT"})
               /\ UNCHANGED <<heap, proc>>
  \/ ReadEnd(conn) /\ EndOfStream(c) /\ UNCHANGED proc
  \/ ReadError(conn) /\ UNCHANGED <<statVars, interest, proc>>

PageOf(s) ==
  IF s.handler = "welcome" THEN [handler |-> "welcome", name |-> 0, age |-> 0]
  ELSE [handler |-> "commit", name |-> s.name, age |-> s.age]

\* Nobody looks at what write() returned.
do_http_respone(c) ==
  LET conn == sock[stat[c].fd] IN
  IF stat[c].handler = "NULL"
  THEN proc' = "SIGSEGV" /\ UNCHANGED serverVars
  ELSE \/ /\ WriteAll(conn, PageOf(stat[c])) \/ WriteError(conn)
          /\ Rearm(c, {"IN"})
          /\ UNCHANGED <<stat, heap, proc>>
       \/ WriteBroken(conn) /\ proc' = "SIGPIPE" /\ UNCHANGED serverVars

-----------------------------------------------------------------------------
(* The loop *)

At(place) == proc = "running" /\ pc = place

EpollWait ==
  /\ At("epoll_wait")
  /\ ReadyFds # {}
  /\ \E batch \in epoll_wait(MaxEvents) :
       events' = {[stat |-> ptr[fd], ev |-> Reported(fd)] : fd \in batch}
  /\ pc' = "dispatch"
  /\ UNCHANGED <<serverVars, proc>>

\* One turn of the for loop, in any order.  The condition on the listening
\* socket is "(events) && EPOLLIN": any event will do.  An event of a
\* connection has the one bit it is registered for, besides HUP: the last,
\* empty branch is not taken.
Dispatch(e) ==
  /\ At("dispatch")
  /\ IF e.stat = NoConn THEN AcceptClient
     ELSE IF "IN" \in e.ev THEN do_http_request(e.stat)
     ELSE do_http_respone(e.stat)
  /\ events' = events \ {e}
  /\ pc' = IF events' = {} THEN "epoll_wait" ELSE "dispatch"

Server ==
  /\ EpollWait \/ \E e \in events : Dispatch(e)
  /\ UNCHANGED now

Clients ==
  /\ proc = "running"
  /\ \E c \in Conns : Client(c)
  /\ UNCHANGED <<now, statVars, interest, events, pc, proc>>

Next == Server \/ Clients

Spec == Init /\ [][Next]_vars

\* The process gets the processor; nothing is assumed of the clients.
FairSpec == Spec /\ WF_vars(Server)

-----------------------------------------------------------------------------
(* Invariants *)

\* Every variable has its type.
TypeOK ==
  /\ now \in Nat
  /\ acceptq \in Seq(Conns)
  /\ sock \in [ConnFds -> Conns \cup {NoConn}]
  /\ net \in [Conns -> NetOf(Page)]
  /\ interest \in [Fds -> Interest]
  /\ stat \in [Conns -> ConnectStat]
  /\ heap \subseteq Conns
  /\ ptr \in [Fds -> Conns \cup {NoConn}]
  /\ events \subseteq Event
  /\ pc \in {"epoll_wait", "dispatch"}
  /\ proc \in {"running", "SIGSEGV", "SIGPIPE"}

\* The ConnectStat c is allocated and its fd is the descriptor of c's socket.
Valid(c) == c \in heap /\ stat[c].fd \in ConnFds /\ sock[stat[c].fd] = c

\* The addresses epoll holds for the server stay good: whatever it may report,
\* now or in the rest of the array being handled, leads to a ConnectStat that
\* is still allocated and stands for the connection the event is about,
\* although connections close and accept() reuses descriptors in between; and
\* a ConnectStat lives exactly as long as its connection
\* (do_http_request closes and frees, 304-306; main trusts data.ptr, 160).
PointersValid ==
  /\ \A e \in events : e.stat # NoConn => Valid(e.stat)
  /\ \A fd \in ConnFds : interest[fd] # {} => Valid(ptr[fd]) /\ stat[ptr[fd]].fd = fd
  /\ proc = "running" => heap = {c \in Conns : net[c].phase = "open"}

\* The value a connection has submitted for a field by its k-th request: that
\* of the latest form that had one, or nothing.
Submitted(c, k, At_(_), blank) ==
  LET Given(i) == LET data == net[c].rd[i] IN
        /\ data[1] \in Commit
        /\ At_(data) # 0
        /\ data[At_(data)] \notin blank
      forms == {i \in 1 .. k : Given(i)} IN
  IF forms = {} THEN 0
  ELSE LET last == CHOOSE i \in forms : \A j \in forms : j <= i IN
       net[c].rd[last][At_(net[c].rd[last])]

\* The k-th page a client gets belongs to its k-th request, and shows what this
\* connection, and no other, has submitted up to then (the handler and the
\* values are kept in the ConnectStat between request and response).  One page
\* is owed at most; only a reset can cost one.
PagesMatchRequests ==
  \A c \in Conns : LET n == net[c] IN
    /\ \A k \in 1 .. Len(n.wr) :
         IF n.rd[k][1] \in Commit
         THEN n.wr[k] = [handler |-> "commit",
                         name |-> Submitted(c, k, NameAt, BlankName),
                         age |-> Submitted(c, k, AgeAt, BlankAge)]
         ELSE n.wr[k].handler = "welcome"
    /\ Len(n.wr) <= Len(n.rd)
    /\ ~n.rst => Len(n.rd) <= Len(n.wr) + 1

\* What can end the process: a form whose header came in an earlier read, a
\* failed malloc(), or a page sent to a client that has reset its connection
\* while the server was busy with it.  Nothing else, in any order of events.
EndsOnlyIf ==
  /\ proc = "SIGSEGV" =>
       AllocFails \/ \E c \in Conns : LET rd == net[c].rd IN
                       rd # <<>> /\ SearchesNull(rd[Len(rd)])
  /\ proc = "SIGPIPE" =>
       \E c \in Conns : LET n == net[c] IN n.rst /\ Len(n.wr) < Len(n.rd)

-----------------------------------------------------------------------------
(* Liveness *)

Ended == proc # "running"

\* A client that hangs up is let go, unless it leaves pages untaken for which
\* the send buffer has no room; if it resets its connection, in any case.
HangUpCloses ==
  \A c \in Conns : LET n == net[c] IN
    /\ n.phase = "open" /\ n.fin ~> (n.phase = "closed" \/ n.unread = SndCap \/ Ended)
    /\ n.phase = "open" /\ n.rst ~> (n.phase = "closed" \/ Ended)

\* What a client sends is read and answered, if the client takes its pages.
RequestIsAnswered ==
  \A c \in Conns : LET n == net[c] IN
    n.phase = "open" /\ n.rcvq # <<>>
      ~> (\/ n.rcvq = <<>> /\ Len(n.wr) = Len(n.rd)
          \/ n.rst \/ n.unread = SndCap \/ Ended)
=============================================================================

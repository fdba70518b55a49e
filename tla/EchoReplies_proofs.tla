-------------------------- MODULE EchoReplies_proofs --------------------------
(***************************************************************************)
(* Proofs about what EchoServer does for its clients: which replies they   *)
(* get, when their deadlines pass, what can end the process, and that it   *)
(* implements EchoService.  They rest on EchoServer_proofs!IInv, which     *)
(* says that the tables fit the sockets; the invariant here adds what the  *)
(* tables say about the conversation, the events that wait to be           *)
(* dispatched and the clock.                                               *)
(***************************************************************************)
EXTENDS EchoServerMC, EchoServer_proofs

\* A connection's conversation is before the greeting, waiting for input or
\* owing an answer, and the table and the epoll state show which.
Turn(fd) ==
  LET F == fd_table[fd]  n == net[sock[fd]] IN
  Open(fd) =>
    /\ F.timeout_data = NULL => AllocFails
    /\ \/ /\ epoll_state[fd] = {"OUT"} /\ F.write_handler = "do_welcome_handler"
          /\ F.read_handler = NoHandler
          /\ n.rd = <<>> /\ n.wr = <<>>
       \/ /\ epoll_state[fd] = {"IN"} /\ F.read_handler = "do_echo_handler"
          /\ Len(n.wr) = Len(n.rd) + 1
       \/ /\ epoll_state[fd] = {"OUT"} /\ F.write_handler = "do_echo_response"
          /\ F.read_handler = "do_echo_handler"
          /\ n.rd # <<>> /\ send_buf[sock[fd]] = n.rd[Len(n.rd)]
          /\ Len(n.wr) <= Len(n.rd) /\ (n.rst \/ Len(n.wr) = Len(n.rd))

\* What was read from a connection and written to it so far belongs together.
History(c) ==
  LET n == net[c] IN
  /\ n.phase \in {"new", "queued"} => n.rd = <<>> /\ n.wr = <<>>
  /\ n.phase = "open" => \E fd \in ConnFds : sock[fd] = c
  /\ Len(n.wr) <= Len(n.rd) + 1
  /\ \A i \in 2 .. Len(n.wr) : n.wr[i] = CString(n.rd[i - 1])
  /\ n.rst \/ Len(n.rd) <= Len(n.wr)

\* What waits to be read is the end of what the client has sent.
Stream(c) ==
  LET n == net[c] IN
  /\ Len(n.rcvq) <= n.sent /\ n.sent <= MaxMsgs
  /\ \A i \in 1 .. Len(n.rcvq) : n.rcvq[i] = n.sent - Len(n.rcvq) + i

\* A deadline is set from a clock that is at most a second and a round behind.
Deadline(fd) ==
  LET F == fd_table[fd] IN
  /\ F.period <= F.timeout
  /\ F.timeout # F.period =>
       F.armed < (F.timeout - F.period) * TicksPerSec + TicksPerSec + MaxLag

ClockOK ==
  /\ current_dtime <= now
  /\ sys_curtime = current_dtime \div TicksPerSec
  /\ current_dtime # 0 => now <= current_dtime + MaxLag

\* What an event reported of its connection and only the server can undo.
Caused(e) ==
  LET n == net[e.conn] IN
  /\ "HUP" \in e.ev => n.rst
  /\ "OUT" \in e.ev => n.rst \/ (n.unread < SndCap /\ epoll_state[e.fd] = {"OUT"})

\* An event that is not dispatched yet still says the truth about the connection
\* it was reported for.
Pends(e) ==
  e.fd \in ConnFds =>
    /\ sock[e.fd] = e.conn /\ e.conn \in Conns
    /\ Caused(e)
    /\ "IN" \in e.ev => \/ net[e.conn].rst
                        \/ /\ epoll_state[e.fd] = {"IN"}
                           /\ net[e.conn].fin \/ net[e.conn].rcvq # <<>>

\* The event whose read handler has run: its connection may be gone.
HalfDone(e) ==
  e.fd \in ConnFds =>
    /\ sock[e.fd] \in {e.conn, NoConn} /\ e.conn \in Conns
    /\ sock[e.fd] = e.conn => Caused(e)

EventsOK ==
  /\ \A e \in events : Pends(e)
  /\ \A e, f \in events : e.fd = f.fd => e = f
  /\ HalfDone(current)
  /\ current.fd \in ConnFds => \A e \in events : e.fd # current.fd
  /\ pc \notin {"dispatch", "write_event"} => events = {}
  /\ pc # "write_event" => current = NoEvent

Registrations == {fd \in Fds : epoll_state[fd] # {}}

\* The part of the invariant that is about the connections, in a state where
\* the tables are right.
Talk ==
  /\ \A fd \in ConnFds : Turn(fd) /\ Deadline(fd)
  /\ \A c \in Conns : History(c) /\ Stream(c)
  /\ epoll_fds = Cardinality(Registrations)
  /\ EndsOnlyIf

CInv == Talk /\ ClockOK /\ EventsOK

-----------------------------------------------------------------------------
(* What a handler does to its descriptor, as the rest of the proof sees it. *)

\* Watching fd for something else leaves the process running, or logs that epoll
\* has refused.
Watched(fd) ==
  proc' = "running" \/ (proc' = "SIGSEGV" /\ interest'[fd] = {} /\ epoll_state'[fd] # {})

\* A handler that goes on stores an entry F with a new deadline, waits for the
\* event ev, and the state of its connection becomes m.
Serves(fd, F, ev, m) ==
  /\ F \in Fde
  /\ F.read_handler = "do_echo_handler" /\ F.timeout_data = fd_table[fd].timeout_data
  /\ F.timeout = sys_curtime + EchoTimeout /\ F.armed = now /\ F.period = EchoTimeout
  /\ fd_table' = [fd_table EXCEPT ![fd] = F]
  /\ epoll_state' = [epoll_state EXCEPT ![fd] = ev]
  /\ epoll_fds' = epoll_fds
  /\ net' = [net EXCEPT ![sock[fd]] = m]
  /\ UNCHANGED <<acceptq, sock, heap>>
  /\ Watched(fd)

\* The connection after data was written to it, or read from it.
Written(n, data) == [n EXCEPT !.unread = @ + 1, !.wr = Append(@, data)]
Consumed(n, data) == [n EXCEPT !.rcvq = SubSeq(@, Len(data) + 1, Len(@)), !.rd = Append(@, data)]

Greets(fd) ==
  LET n == net[sock[fd]] IN
  /\ fd_table[fd].write_handler = "do_welcome_handler"
  /\ ~n.rst /\ n.unread < SndCap
  /\ \E F : F.write_handler = "do_welcome_handler" /\ Serves(fd, F, {"IN"}, Written(n, <<>>))
  /\ UNCHANGED send_buf

Answers(fd) ==
  LET n == net[sock[fd]] IN
  /\ fd_table[fd].write_handler = "do_echo_response"
  /\ ~n.rst /\ n.unread < SndCap
  /\ \E F : /\ F.write_handler = "do_echo_response"
            /\ Serves(fd, F, {"IN"}, Written(n, CString(send_buf[sock[fd]])))
  /\ UNCHANGED send_buf

Reads(fd, data) ==
  LET n == net[sock[fd]] IN
  /\ fd_table[fd].read_handler = "do_echo_handler" /\ data \in Readable(sock[fd])
  /\ \E F : /\ F.write_handler = "do_echo_response"
            /\ Serves(fd, F, {"OUT"}, Consumed(n, data))
  /\ send_buf' = [send_buf EXCEPT ![sock[fd]] = data]

Closes(fd) ==
  comm_close(fd) /\ heap' = heap \ {fd_table[fd].timeout_data} /\ UNCHANGED send_buf

Crashes(fd) == DelCrashes(fd) /\ UNCHANGED serverVars

ReadFails(fd) ==
  \/ Crashes(fd)
  \/ ReadError(sock[fd]) /\ LogError
  \/ fd_table[fd].timeout_data = NULL /\ Die("SIGABRT")

WriteFails(fd) ==
  \/ WriteError(sock[fd]) /\ LogError
  \/ WriteBroken(sock[fd]) /\ Die("SIGPIPE")

\* The entry that commSetTimeout() returns for EchoTimeout.
LEMMA EchoDeadline ==
  ASSUME LoopTypes, NEW F \in Fde, NEW d \in Conns \cup {NULL}
  PROVE  LET G == commSetTimeout(F, EchoTimeout, "do_echo_timeout", d) IN
         /\ G \in Fde
         /\ G.timeout = sys_curtime + EchoTimeout /\ G.armed = now /\ G.period = EchoTimeout
         /\ G.timeout_data = d
         /\ G.read_handler = F.read_handler /\ G.write_handler = F.write_handler
<1>1. "do_echo_timeout" \in Handlers \ {NoHandler} /\ EchoTimeout \in Nat \ {0}
  BY EchoAssumption DEF Handlers, NoHandler
<1>2. QED
  BY <1>1, SetTimeoutType

\* Storing an entry for an open descriptor adds no registration.
LEMMA InstallEffect ==
  ASSUME TableOK, proc = "running",
         NEW fd \in ConnFds, Open(fd), NEW F, NEW ev \in {{"IN"}, {"OUT"}},
         Install(fd, F, ev)
  PROVE  /\ fd_table' = [fd_table EXCEPT ![fd] = F]
         /\ epoll_state' = [epoll_state EXCEPT ![fd] = ev]
         /\ epoll_fds' = epoll_fds
         /\ Watched(fd)
<1>1. epoll_state[fd] # {} /\ ev # {}
  BY DEF TableOK, Fits
<1>2. CtlOp(fd, ev) = "MOD"
  BY <1>1 DEF CtlOp
<1>3. /\ fd_table' = [fd_table EXCEPT ![fd] = F]
      /\ epoll_state' = [epoll_state EXCEPT ![fd] = ev]
      /\ epoll_fds' = epoll_fds
  BY <1>2 DEF Install, epollSetEvents, RecordEvents
<1>4. epoll_state'[fd] # {}
  BY <1>1, <1>3 DEF TableOK, TableTypes, Fds
<1>5. CASE ev # epoll_state[fd] /\ CtlRefused("MOD", fd) /\ xstrerror
  BY <1>3, <1>4, <1>5 DEF CtlRefused, CtlLegal, xstrerror, Watched
<1>6. CASE proc' = proc
  BY <1>3, <1>6 DEF Watched
<1>7. QED
  BY <1>2, <1>3, <1>5, <1>6 DEF Install, epollSetEvents

\* The write handler of a connection greets it, answers it, or fails.
LEMMA WriteEffect ==
  ASSUME TableOK, LoopTypes, proc = "running", NEW fd \in ConnFds, Open(fd),
         Call(fd_table[fd].write_handler, fd, fd_table[fd].write_data)
  PROVE  Greets(fd) \/ Answers(fd) \/ WriteFails(fd)
<1> DEFINE d == fd_table[fd].write_data
           n == net[sock[fd]]
           R == commUpdateReadHandler(fd_table[fd], "do_echo_handler", d)
           T == commSetTimeout(fd_table[fd], EchoTimeout, "do_echo_timeout", d)
<1>1. /\ sock[fd] \in Conns /\ fd_table[fd] \in Fde /\ d \in Conns \cup {NULL}
      /\ d = fd_table[fd].timeout_data
      /\ fd_table[fd].write_handler \in {"do_welcome_handler", "do_echo_response"}
      /\ fd_table[fd].write_handler = "do_echo_response" => d = sock[fd]
  BY DEF TableOK, TableTypes, Open, Fits, Fds, Fde
<1>2. R \in Fde /\ R.read_handler = "do_echo_handler" /\ R.write_handler = fd_table[fd].write_handler
  BY <1>1 DEF commUpdateReadHandler, Fde, Handlers
<1>3. CASE do_welcome_handler(fd, d) /\ fd_table[fd].write_handler = "do_welcome_handler"
  <2> DEFINE F == commSetTimeout(R, EchoTimeout, "do_echo_timeout", d)
  <2>1. CASE WriteAll(sock[fd], <<>>) /\ Install(fd, F, {"IN"}) /\ UNCHANGED <<heap, send_buf>>
    <3> HIDE DEF R, d
    <3>1. /\ F \in Fde
          /\ F.timeout = sys_curtime + EchoTimeout /\ F.armed = now /\ F.period = EchoTimeout
          /\ F.timeout_data = d
          /\ F.read_handler = "do_echo_handler" /\ F.write_handler = "do_welcome_handler"
      BY <1>1, <1>2, <1>3, EchoDeadline
    <3> HIDE DEF F
    <3>2. Serves(fd, F, {"IN"}, Written(n, <<>>))
      BY <1>1, <2>1, <3>1, InstallEffect DEF Serves, Written, WriteAll
    <3>3. QED
      BY <1>3, <2>1, <3>1, <3>2 DEF Greets, WriteAll
  <2>2. QED
    BY <1>3, <2>1 DEF do_welcome_handler, WriteFails
<1>4. CASE do_echo_response(fd, d) /\ fd_table[fd].write_handler = "do_echo_response"
  <2> DEFINE F == commUpdateReadHandler(T, "do_echo_handler", d)
  <2>1. CASE WriteAll(sock[fd], CString(send_buf[d])) /\ Install(fd, F, {"IN"})
             /\ UNCHANGED <<heap, send_buf>>
    <3> HIDE DEF d
    <3>1. /\ T \in Fde
          /\ T.timeout = sys_curtime + EchoTimeout /\ T.armed = now /\ T.period = EchoTimeout
          /\ T.timeout_data = d
          /\ T.write_handler = "do_echo_response"
      BY <1>1, <1>4, EchoDeadline
    <3> HIDE DEF T
    <3>2. /\ F \in Fde
          /\ F.timeout = sys_curtime + EchoTimeout /\ F.armed = now /\ F.period = EchoTimeout
          /\ F.timeout_data = d
          /\ F.read_handler = "do_echo_handler" /\ F.write_handler = "do_echo_response"
      BY <1>1, <3>1 DEF commUpdateReadHandler, Fde, Handlers
    <3> HIDE DEF F
    <3>3. Serves(fd, F, {"IN"}, Written(n, CString(send_buf[sock[fd]])))
      BY <1>1, <1>4, <2>1, <3>2, InstallEffect DEF Serves, Written, WriteAll
    <3>4. QED
      BY <1>4, <2>1, <3>2, <3>3 DEF Answers, WriteAll
  <2>2. QED
    BY <1>4, <2>1 DEF do_echo_response, WriteFails
<1>5. QED
  BY <1>1, <1>3, <1>4 DEF Call

\* The read handler of a connection takes input, closes it, or fails.
LEMMA ReadEffect ==
  ASSUME TableOK, LoopTypes, proc = "running", NEW fd \in ConnFds, Open(fd),
         fd_table[fd].read_handler # NoHandler,
         Call(fd_table[fd].read_handler, fd, fd_table[fd].read_data)
  PROVE  (\E data \in Readable(sock[fd]) : Reads(fd, data)) \/ Closes(fd) \/ ReadFails(fd)
<1> DEFINE d == fd_table[fd].read_data
           n == net[sock[fd]]
           W == commUpdateWriteHandler(fd_table[fd], "do_echo_response", d)
           F == commSetTimeout(W, EchoTimeout, "do_echo_timeout", d)
<1>1. /\ sock[fd] \in Conns /\ fd_table[fd] \in Fde /\ d \in {sock[fd], NULL}
      /\ d = fd_table[fd].timeout_data
      /\ fd_table[fd].read_handler = "do_echo_handler"
  BY DEF TableOK, TableTypes, Open, Fits, Fds
<1>2. do_echo_handler(fd, d)
  BY <1>1 DEF Call
<1>3. ASSUME d # NULL, NEW data \in Readable(sock[fd]), ReadSome(sock[fd], data),
             send_buf' = [send_buf EXCEPT ![d] = data], Install(fd, F, {"OUT"}),
             UNCHANGED heap
      PROVE  Reads(fd, data)
  <2>1. W \in Fde /\ W.read_handler = "do_echo_handler" /\ W.write_handler = "do_echo_response"
    BY <1>1 DEF commUpdateWriteHandler, Fde, Handlers
  <2> HIDE DEF W, d
  <2>2. /\ F \in Fde
        /\ F.timeout = sys_curtime + EchoTimeout /\ F.armed = now /\ F.period = EchoTimeout
        /\ F.timeout_data = d
        /\ F.read_handler = "do_echo_handler" /\ F.write_handler = "do_echo_response"
    BY <1>1, <2>1, EchoDeadline
  <2> HIDE DEF F
  <2>3. Serves(fd, F, {"OUT"}, Consumed(n, data))
    BY <1>1, <1>3, <2>2, InstallEffect DEF Serves, Consumed, ReadSome
  <2>4. QED
    BY <1>1, <1>3, <2>2, <2>3 DEF Reads
<1>4. CASE CloseAndFree(fd, d)
  BY <1>1, <1>4 DEF CloseAndFree, Closes, ReadFails, Crashes
<1>5. QED
  BY <1>1, <1>2, <1>3, <1>4 DEF do_echo_handler, ReadFails

\* What happens when a deadline passes.
LEMMA TimeoutEffect ==
  ASSUME TableOK, NEW fd \in Fds, ExpireTimeout(fd)
  PROVE  fd \in ConnFds /\ Open(fd) /\ (Closes(fd) \/ Crashes(fd))
<1>1. fd # ListenFd
  BY DEF ExpireTimeout, Expired, TableOK, ListenerFits, commUpdateReadHandler, EmptyFde
<1>2. fd \in ConnFds /\ Open(fd)
  BY <1>1 DEF ExpireTimeout, Expired, Fds, TableOK, Fits, EmptyFde
<1>3. fd_table[fd].timeout_handler = "do_echo_timeout"
  BY <1>2 DEF TableOK, Fits
<1>4. QED
  BY <1>2, <1>3
     DEF ExpireTimeout, NoHandler, Call, do_echo_timeout, CloseAndFree, Closes, Crashes

-----------------------------------------------------------------------------
(* Facts about one connection, and about the clock. *)

\* What a write() adds to a connection, and what it leaves alone.
LEMMA WrittenType ==
  ASSUME NEW n \in Net, NEW data \in Seq(Chunks)
  PROVE  LET m == Written(n, data) IN
         /\ m.unread = n.unread + 1 /\ m.wr = Append(n.wr, data)
         /\ m.rd = n.rd /\ m.rcvq = n.rcvq /\ m.sent = n.sent /\ m.rst = n.rst /\ m.fin = n.fin
         /\ m.phase = n.phase /\ m.err = n.err
         /\ Len(m.wr) = Len(n.wr) + 1 /\ m.wr[Len(n.wr) + 1] = data
         /\ \A i \in 1 .. Len(n.wr) : m.wr[i] = n.wr[i]
         /\ Len(n.wr) \in Nat /\ Len(n.rd) \in Nat
<1>1. n.wr \in Seq(Seq(Chunks)) /\ n.rd \in Seq(Seq(Chunks))
  BY DEF Net, NetOf
<1>2. /\ Len(Append(n.wr, data)) = Len(n.wr) + 1
      /\ Append(n.wr, data)[Len(n.wr) + 1] = data
      /\ \A i \in 1 .. Len(n.wr) : Append(n.wr, data)[i] = n.wr[i]
      /\ Len(n.wr) \in Nat /\ Len(n.rd) \in Nat
  BY <1>1, AppendProperties, LenProperties
<1>3. QED
  BY <1>2 DEF Net, NetOf, Written

\* What a read() takes from a connection, and what it leaves alone.
LEMMA ConsumedType ==
  ASSUME NEW n \in Net, NEW data \in Seq(Chunks)
  PROVE  LET m == Consumed(n, data) IN
         /\ m.rcvq = SubSeq(n.rcvq, Len(data) + 1, Len(n.rcvq)) /\ m.rd = Append(n.rd, data)
         /\ m.wr = n.wr /\ m.unread = n.unread /\ m.sent = n.sent /\ m.rst = n.rst /\ m.fin = n.fin
         /\ m.phase = n.phase /\ m.err = n.err
         /\ Len(m.rd) = Len(n.rd) + 1 /\ m.rd[Len(n.rd) + 1] = data /\ m.rd # <<>>
         /\ \A i \in 1 .. Len(n.rd) : m.rd[i] = n.rd[i]
         /\ Len(n.wr) \in Nat /\ Len(n.rd) \in Nat
<1>1. n.wr \in Seq(Seq(Chunks)) /\ n.rd \in Seq(Seq(Chunks))
  BY DEF Net, NetOf
<1>2. /\ Len(Append(n.rd, data)) = Len(n.rd) + 1
      /\ Append(n.rd, data)[Len(n.rd) + 1] = data
      /\ \A i \in 1 .. Len(n.rd) : Append(n.rd, data)[i] = n.rd[i]
      /\ Len(n.wr) \in Nat /\ Len(n.rd) \in Nat
  BY <1>1, AppendProperties, LenProperties
<1>3. ASSUME NEW q, NEW r
      PROVE  LET m == [n EXCEPT !.rcvq = q, !.rd = r] IN
             /\ m.rcvq = q /\ m.rd = r
             /\ m.wr = n.wr /\ m.unread = n.unread /\ m.sent = n.sent /\ m.rst = n.rst
             /\ m.fin = n.fin /\ m.phase = n.phase /\ m.err = n.err
  BY DEF Net, NetOf
<1>4. Append(n.rd, data) # <<>>
  BY <1>2, EmptySeq
<1>5. QED
  BY <1>2, <1>3, <1>4 DEF Consumed

\* Whole seconds of a time in ticks.
LEMMA Seconds ==
  ASSUME NEW t \in Nat
  PROVE  /\ t \div TicksPerSec \in Nat
         /\ (t \div TicksPerSec) * TicksPerSec <= t
         /\ t < (t \div TicksPerSec) * TicksPerSec + TicksPerSec
BY CommAssumption

\* A deadline that is set now is as exact as the clock.
LEMMA ArmedDeadline ==
  ASSUME LoopTypes, ClockOK, NEW p \in Nat \ {0}, NEW F,
         F.timeout = sys_curtime + p, F.armed = now, F.period = p
  PROVE  /\ F.period <= F.timeout
         /\ F.timeout # F.period =>
              F.armed < (F.timeout - F.period) * TicksPerSec + TicksPerSec + MaxLag
<1>1. sys_curtime \in Nat /\ current_dtime \in Nat /\ now \in Nat
  BY DEF LoopTypes
<1>2. F.timeout - F.period = sys_curtime /\ F.period <= F.timeout
      /\ (F.timeout # F.period => sys_curtime # 0)
  BY <1>1
<1>3. ASSUME sys_curtime # 0 PROVE now < sys_curtime * TicksPerSec + TicksPerSec + MaxLag
  <2>1. current_dtime # 0
    <3>1. ASSUME current_dtime = 0 PROVE FALSE
      <4>1. (0 \div TicksPerSec) * TicksPerSec <= 0 /\ 0 \div TicksPerSec \in Nat
        BY Seconds
      <4>2. sys_curtime \in Nat \ {0} /\ sys_curtime * TicksPerSec <= 0
        BY <1>1, <1>3, <3>1, <4>1 DEF ClockOK
      <4>3. \A a \in Nat \ {0} : a * TicksPerSec \in Nat \ {0}
        BY CommAssumption
      <4>4. QED
        BY <4>2, <4>3
    <3>2. QED
      BY <3>1
  <2>2. current_dtime < sys_curtime * TicksPerSec + TicksPerSec
    BY <1>1, Seconds DEF ClockOK
  <2>3. sys_curtime * TicksPerSec \in Nat
    BY <1>1, CommAssumption
  <2>4. QED
    BY <1>1, <2>1, <2>2, <2>3, CommAssumption DEF ClockOK
<1>4. QED
  BY <1>1, <1>2, <1>3

\* Nothing is due before its time.
LEMMA NothingEarly ==
  ASSUME IInv, ClockOK, \A fd \in ConnFds : Deadline(fd)
  PROVE  NotBeforeTime
<1> SUFFICES ASSUME NEW fd \in ConnFds, Expired(fd), fd_table[fd].timeout # fd_table[fd].period
             PROVE  LET F == fd_table[fd] IN
                    now + MaxLag + TicksPerSec > F.armed + F.period * TicksPerSec
  BY DEF NotBeforeTime
<1> DEFINE F == fd_table[fd]
<1>1. F.timeout \in Nat /\ F.armed \in Nat /\ F.period \in Nat /\ fd \in Fds
  BY DEF IInv, TableOK, TableTypes, Fde, Fds
<1>2. sys_curtime \in Nat /\ current_dtime \in Nat /\ now \in Nat
  BY DEF IInv, LoopTypes
<1>3. F.timeout <= sys_curtime /\ F.timeout # F.period
  BY DEF Expired
<1>4. F.period <= F.timeout /\ F.armed < (F.timeout - F.period) * TicksPerSec + TicksPerSec + MaxLag
  BY <1>3 DEF Deadline
<1>5. sys_curtime * TicksPerSec <= now
  <2>1. sys_curtime * TicksPerSec <= current_dtime
    BY <1>2, Seconds DEF ClockOK
  <2>2. QED
    BY <1>2, <2>1, CommAssumption DEF ClockOK
<1> HIDE DEF F
<1>6. /\ (F.timeout - F.period) * TicksPerSec + F.period * TicksPerSec = F.timeout * TicksPerSec
      /\ F.timeout * TicksPerSec <= sys_curtime * TicksPerSec
  BY <1>1, <1>2, <1>3, CommAssumption
<1>7. /\ (F.timeout - F.period) * TicksPerSec \in Int /\ F.period * TicksPerSec \in Int
      /\ F.timeout * TicksPerSec \in Int /\ sys_curtime * TicksPerSec \in Int
      /\ TicksPerSec \in Int /\ MaxLag \in Int
  BY <1>1, <1>2, CommAssumption
<1>8. now + MaxLag + TicksPerSec > F.armed + F.period * TicksPerSec
  BY <1>1, <1>2, <1>4, <1>5, <1>6, <1>7
<1>9. QED
  BY <1>8 DEF F

-----------------------------------------------------------------------------
(* One lemma for each way a step can change what is said of connections. *)

\* Only the connection behind fd is touched.
Apart(fd) ==
  \A f \in ConnFds \ {fd} :
    /\ sock'[f] = sock[f] /\ fd_table'[f] = fd_table[f] /\ epoll_state'[f] = epoll_state[f]
    /\ Open(f) => net'[sock[f]] = net[sock[f]] /\ send_buf'[sock[f]] = send_buf[sock[f]]

\* A step for one descriptor leaves the turn and the deadline of the others alone.
LEMMA ApartTurns ==
  ASSUME NEW fd \in ConnFds, Apart(fd), NEW f \in ConnFds \ {fd}, Turn(f), Deadline(f)
  PROVE  Turn(f)' /\ Deadline(f)'
BY DEF Apart, Turn, Deadline, Open

\* No client that had aborted has not, and the process goes on, or has a reason
\* not to.
LEMMA EndsOnlyIfKept ==
  ASSUME EndsOnlyIf, \A c \in Conns : net[c].rst => net'[c].rst,
         \/ \E fd \in ConnFds : Watched(fd)
         \/ UNCHANGED <<proc, interest, epoll_state>>
  PROVE  EndsOnlyIf'
BY DEF EndsOnlyIf, Watched

\* The process dies of logging that epoll does not watch a descriptor.
LEMMA CrashesEnd ==
  ASSUME EndsOnlyIf, NEW fd \in ConnFds, Crashes(fd)
  PROVE  EndsOnlyIf'
BY DEF EndsOnlyIf, Crashes, DelCrashes, CtlRefused, CtlLegal, serverVars

\* A handler goes on with its connection.
LEMMA ServesTalk ==
  ASSUME IInv, Talk, ClockOK, NEW fd \in ConnFds, Open(fd), NEW c, c = sock[fd],
         NEW F, NEW ev \in {{"IN"}, {"OUT"}}, NEW m, Serves(fd, F, ev, m),
         m.rst = net[c].rst,
         send_buf' = send_buf \/ \E b : send_buf' = [send_buf EXCEPT ![c] = b],
         Turn(fd)', History(c)', Stream(c)'
  PROVE  Talk' /\ Apart(fd)
<1>1. c \in Conns /\ net \in [Conns -> Net] /\ fd_table \in [Fds -> Fde] /\ fd \in Fds
      /\ epoll_state \in [Fds -> Interest] /\ ConnFds \subseteq Fds /\ send_buf \in [Conns -> Seq(Chunks)]
      /\ sock \in [ConnFds -> Conns \cup {NoConn}]
  BY DEF IInv, TableOK, TableTypes, LoopTypes, Open, Fds
<1>2. \A f \in ConnFds : Open(f) => sock[f] \in Conns /\ (f # fd => sock[f] # c)
  BY <1>1 DEF IInv, TableOK, OnePlace, Open
<1>3. Apart(fd)
  BY <1>1, <1>2 DEF Serves, Apart
<1>4. \A b \in Conns : net'[b].rst = net[b].rst /\ (b # c => net'[b] = net[b])
  BY <1>1 DEF Serves
<1>5. ASSUME NEW f \in ConnFds PROVE Turn(f)' /\ Deadline(f)'
  <2>1. CASE f = fd
    <3>1. fd_table'[fd] = F
      BY <1>1 DEF Serves
    <3>2. EchoTimeout \in Nat \ {0}
      BY EchoAssumption
    <3>3. F.timeout = sys_curtime + EchoTimeout /\ F.armed = now /\ F.period = EchoTimeout
      BY DEF Serves
    <3>4. /\ F.period <= F.timeout
          /\ F.timeout # F.period =>
               F.armed < (F.timeout - F.period) * TicksPerSec + TicksPerSec + MaxLag
      BY <3>2, <3>3, ArmedDeadline DEF IInv
    <3>5. Deadline(fd)'
      BY <3>1, <3>4, Zenon DEF Deadline
    <3>6. QED
      BY <2>1, <3>5
  <2>2. CASE f # fd
    BY <1>3, <2>2, ApartTurns DEF Talk
  <2>3. QED
    BY <2>1, <2>2
<1>6. ASSUME NEW b \in Conns PROVE History(b)' /\ Stream(b)'
  <2>1. CASE b # c
    <3>1. net'[b] = net[b] /\ UNCHANGED sock
      BY <1>4, <2>1 DEF Serves
    <3>2. History(b) /\ Stream(b)
      BY DEF Talk
    <3>3. QED
      BY <3>1, <3>2 DEF History, Stream
  <2>2. QED
    BY <2>1
<1>7. epoll_fds' = Cardinality(Registrations')
  <2>1. epoll_state[fd] # {} /\ epoll_state'[fd] # {}
    BY <1>1 DEF Serves, IInv, TableOK, Fits
  <2>2. \A f \in Fds : epoll_state'[f] # {} <=> epoll_state[f] # {}
    BY <1>1, <2>1 DEF Serves
  <2>3. Registrations' = Registrations
    BY <2>2 DEF Registrations
  <2>4. QED
    BY <2>3 DEF Serves, Talk
<1>8. EndsOnlyIf'
  BY <1>4, EndsOnlyIfKept DEF Serves, Talk
<1>9. QED
  BY <1>3, <1>5, <1>6, <1>7, <1>8 DEF Talk

\* A handler closes its connection.
LEMMA ClosesTalk ==
  ASSUME IInv, Talk, proc = "running", NEW fd \in ConnFds, Open(fd), Closes(fd)
  PROVE  Talk' /\ Apart(fd) /\ sock'[fd] = NoConn
<1> DEFINE c == sock[fd]
<1>1. c \in Conns /\ net \in [Conns -> Net] /\ fd_table \in [Fds -> Fde] /\ fd \in Fds
      /\ epoll_state \in [Fds -> Interest] /\ ConnFds \subseteq Fds
      /\ sock \in [ConnFds -> Conns \cup {NoConn}]
  BY DEF IInv, TableOK, TableTypes, Open, Fds
<1>2. \A f \in ConnFds : Open(f) => sock[f] \in Conns /\ (f # fd => sock[f] # c)
  BY <1>1 DEF IInv, TableOK, OnePlace, Open
<1>3. /\ fd_table' = [fd_table EXCEPT ![fd] = EmptyFde]
      /\ epoll_state' = [epoll_state EXCEPT ![fd] = {}]
      /\ sock' = [sock EXCEPT ![fd] = NoConn]
      /\ net' = [net EXCEPT ![c] = [net[c] EXCEPT !.phase = "closed"]]
      /\ UNCHANGED <<send_buf, proc>>
      /\ epoll_fds' = IF {} = epoll_state[fd] THEN epoll_fds
                      ELSE CASE CtlOp(fd, {}) = "ADD" -> epoll_fds + 1
                             [] CtlOp(fd, {}) = "DEL" -> epoll_fds - 1
                             [] OTHER -> epoll_fds
  BY DEF Closes, comm_close, RecordEvents, Close
<1>4. Apart(fd) /\ sock'[fd] = NoConn
  BY <1>1, <1>2, <1>3 DEF Apart
<1>5. \A b \in Conns : b # c => net'[b] = net[b]
  BY <1>1, <1>3
<1> DEFINE m == [net[c] EXCEPT !.phase = "closed"]
<1>6. /\ net'[c] = m /\ m.phase = "closed"
      /\ m.rd = net[c].rd /\ m.wr = net[c].wr /\ m.rcvq = net[c].rcvq /\ m.sent = net[c].sent
      /\ m.rst = net[c].rst
  <2>1. net[c] \in Net
    BY <1>1
  <2>2. QED
    BY <1>1, <1>3, <2>1 DEF Net, NetOf
<1> HIDE DEF m
<1>7. ASSUME NEW f \in ConnFds PROVE Turn(f)' /\ Deadline(f)'
  <2>1. CASE f = fd
    BY <1>1, <1>3, <2>1 DEF Turn, Deadline, Open, EmptyFde
  <2>2. CASE f # fd
    BY <1>4, <2>2, ApartTurns DEF Talk
  <2>3. QED
    BY <2>1, <2>2
<1>8. ASSUME NEW b \in Conns PROVE History(b)' /\ Stream(b)'
  <2>1. History(b) /\ Stream(b)
    BY DEF Talk
  <2>2. CASE b # c
    <3>1. net'[b] = net[b]
      BY <1>5, <2>2
    <3>2. \A f \in ConnFds : sock[f] = b => sock'[f] = b
      BY <1>3, <2>2
    <3>3. QED
      BY <2>1, <3>1, <3>2 DEF History, Stream
  <2>3. CASE b = c
    BY <1>6, <2>1, <2>3 DEF History, Stream
  <2>4. QED
    BY <2>2, <2>3
<1>9. epoll_fds' = Cardinality(Registrations')
  <2>1. epoll_state[fd] # {}
    BY DEF IInv, TableOK, Fits
  <2>2. epoll_fds' = epoll_fds - 1
    BY <1>3, <2>1 DEF CtlOp
  <2>3. Registrations' = Registrations \ {fd} /\ fd \in Registrations
    BY <1>1, <1>3, <2>1 DEF Registrations
  <2>4. IsFiniteSet(Registrations)
    <3>1. IsFiniteSet(Fds)
      BY SocketsAssumption, FS_AddElement DEF Fds
    <3>2. Registrations \subseteq Fds
      BY DEF Registrations
    <3>3. QED
      BY <3>1, <3>2, FS_Subset
  <2>5. Cardinality(Registrations') = Cardinality(Registrations) - 1
    BY <2>3, <2>4, FS_RemoveElement
  <2>6. QED
    BY <2>2, <2>5 DEF Talk
<1>10. EndsOnlyIf'
  BY <1>3, <1>5, <1>6, EndsOnlyIfKept DEF Talk, Watched
<1>11. QED
  BY <1>4, <1>7, <1>8, <1>9, <1>10 DEF Talk

\* No descriptor is opened or closed and no input or reply changes hands.
LEMMA SameTalk ==
  ASSUME Talk, UNCHANGED <<sock, fd_table, epoll_state, epoll_fds, send_buf>>,
         sock \in [ConnFds -> Conns \cup {NoConn}],
         \A c \in Conns :
           /\ net'[c].rd = net[c].rd /\ net'[c].wr = net[c].wr
           /\ net[c].rst => net'[c].rst
           /\ \/ net'[c].phase = net[c].phase
              \/ net[c].phase = "new" /\ net'[c].phase = "queued"
           /\ Stream(c)',
         EndsOnlyIf'
  PROVE  Talk'
<1>1. ASSUME NEW fd \in ConnFds PROVE Turn(fd)' /\ Deadline(fd)'
  <2>1. Turn(fd) /\ Deadline(fd)
    BY DEF Talk
  <2>2. Open(fd) => sock[fd] \in Conns
    BY DEF Open
  <2>3. Deadline(fd)'
    BY <2>1 DEF Deadline
  <2>4. Turn(fd)'
    BY <2>1, <2>2 DEF Turn, Open
  <2>5. QED
    BY <2>3, <2>4
<1>2. ASSUME NEW c \in Conns PROVE History(c)' /\ Stream(c)'
  <2>1. History(c)
    BY DEF Talk
  <2>2. QED
    BY <2>1 DEF History
<1>3. epoll_fds' = Cardinality(Registrations')
  BY DEF Talk, Registrations
<1>4. QED
  BY <1>1, <1>2, <1>3 DEF Talk

\* A system call that fails clears the pending error of its connection.
LEMMA ErrorTalk ==
  ASSUME IInv, Talk, NEW c \in Conns, WriteError(c) \/ ReadError(c),
         UNCHANGED <<fd_table, epoll_state, epoll_fds, send_buf>>,
         proc' \in {"running", "SIGSEGV"}, proc' # "running" => net[c].rst
  PROVE  /\ Talk' /\ UNCHANGED sock
         /\ \A b \in Conns : \E e : net'[b] = [net[b] EXCEPT !.err = e]
<1>1. net \in [Conns -> Net] /\ sock \in [ConnFds -> Conns \cup {NoConn}]
  BY DEF IInv, TableOK, TableTypes
<1>2. net' = [net EXCEPT ![c] = [net[c] EXCEPT !.err = "none"]] /\ UNCHANGED sock
  BY DEF WriteError, ReadError
<1>3. ASSUME NEW b \in Conns
      PROVE  \E e : net'[b] = [net[b] EXCEPT !.err = e]
  <2>1. CASE b = c
    BY <1>1, <1>2, <2>1
  <2>2. CASE b # c
    <3>1. net'[b] = [net[b] EXCEPT !.err = net[b].err]
      BY <1>1, <1>2, <2>2 DEF Net, NetOf
    <3>2. QED
      BY <3>1
  <2>3. QED
    BY <2>1, <2>2
<1>4. ASSUME NEW b \in Conns
      PROVE  /\ net'[b].rd = net[b].rd /\ net'[b].wr = net[b].wr /\ net'[b].rst = net[b].rst
             /\ net'[b].phase = net[b].phase
             /\ net'[b].rcvq = net[b].rcvq /\ net'[b].sent = net[b].sent
  <2>1. PICK e : net'[b] = [net[b] EXCEPT !.err = e]
    BY <1>3
  <2>2. net[b] \in Net
    BY <1>1
  <2>3. QED
    BY <2>1, <2>2 DEF Net, NetOf
<1>5. \A b \in Conns : Stream(b)'
  BY <1>4 DEF Talk, Stream
<1>6. EndsOnlyIf'
  BY <1>4 DEF Talk, EndsOnlyIf
<1>7. Talk'
  BY <1>1, <1>2, <1>4, <1>5, <1>6, SameTalk
<1>8. QED
  BY <1>2, <1>3, <1>7

\* The death of the process changes nothing else.
LEMMA CrashTalk ==
  ASSUME IInv, Talk, NEW fd \in ConnFds, Crashes(fd)
  PROVE  Talk' /\ UNCHANGED <<sock, net, fd_table, epoll_state, send_buf>>
<1>1. UNCHANGED <<sock, net, fd_table, epoll_state, epoll_fds, send_buf>>
  BY DEF Crashes, serverVars
<1>2. EndsOnlyIf'
  BY CrashesEnd DEF Talk
<1>3. \A c \in Conns : Stream(c)'
  BY <1>1 DEF Talk, Stream
<1>4. Talk'
  BY <1>1, <1>2, <1>3, SameTalk DEF IInv, TableOK, TableTypes
<1>5. QED
  BY <1>1, <1>4

\* accept() returns a descriptor for a connection that waited in the queue.
LEMMA OpensTalk ==
  ASSUME IInv, Talk, ClockOK, proc = "running", NEW fd \in FreeFds, NEW ok \in {TRUE, ~AllocFails},
         NEW stat, stat = IF ok THEN Head(acceptq) ELSE NULL,
         NEW F, F = commSetTimeout(commUpdateWriteHandler(fd_table[fd], "do_welcome_handler", stat),
                                   WelcomeTimeout, "do_echo_timeout", stat),
         acceptq # <<>>, Accept(fd), Install(fd, F, {"OUT"}), UNCHANGED send_buf
  PROVE  /\ Talk' /\ Apart(fd)
         /\ LET c == Head(acceptq) IN
            /\ c \in Conns /\ net[c] \in Net /\ net[c].phase = "queued"
            /\ net' = [net EXCEPT ![c] = [net[c] EXCEPT !.phase = "open"]]
            /\ sock'[fd] = c /\ epoll_state'[fd] = {"OUT"}
            /\ fd_table'[fd].write_handler = "do_welcome_handler"
<1> DEFINE c == Head(acceptq)
<1>1. /\ fd \in ConnFds /\ fd \in Fds /\ ConnFds \subseteq Fds /\ ~Open(fd) /\ sock[fd] = NoConn
      /\ net \in [Conns -> Net] /\ fd_table \in [Fds -> Fde]
      /\ epoll_state \in [Fds -> Interest] /\ sock \in [ConnFds -> Conns \cup {NoConn}]
  BY DEF IInv, TableOK, TableTypes, FreeFds, Open, Fds
<1>2. c \in Conns /\ c # NoConn /\ stat \in {c, NULL}
  <2>1. c \in Conns
    BY HeadTailProperties DEF IInv, TableOK, TableTypes
  <2>2. QED
    BY <2>1, SocketsAssumption
<1>3. net[c].phase = "queued" /\ \A f \in ConnFds : sock[f] # c
  <2>1. Len(acceptq) \in Nat \ {0} /\ c = acceptq[1]
    BY HeadTailProperties, EmptySeq, LenProperties DEF IInv, TableOK, TableTypes
  <2>2. net[c].phase = "queued"
    BY <2>1 DEF IInv, TableOK, OnePlace
  <2>3. QED
    BY <1>1, <1>2, <2>2 DEF IInv, TableOK, Fits, Open
<1>4. fd_table[fd] = EmptyFde /\ epoll_state[fd] = {}
  BY <1>1 DEF IInv, TableOK, Fits
<1>5. /\ F.timeout = sys_curtime + WelcomeTimeout /\ F.armed = now /\ F.period = WelcomeTimeout
      /\ F.timeout_data = stat
      /\ F.read_handler = NoHandler /\ F.write_handler = "do_welcome_handler"
  <2> DEFINE W == commUpdateWriteHandler(EmptyFde, "do_welcome_handler", stat)
  <2>1. EmptyFde \in Fde /\ EmptyFde.read_handler = NoHandler
    BY DEF EmptyFde, Fde, Handlers, NoHandler
  <2>2. stat \in Conns \cup {NULL}
    BY <1>2
  <2>3. W \in Fde /\ W.read_handler = NoHandler /\ W.write_handler = "do_welcome_handler"
    BY <2>1, <2>2 DEF commUpdateWriteHandler, Fde, Handlers
  <2>4. "do_echo_timeout" \in Handlers \ {NoHandler} /\ WelcomeTimeout \in Nat \ {0}
    BY EchoAssumption DEF Handlers, NoHandler
  <2>5. F = commSetTimeout(W, WelcomeTimeout, "do_echo_timeout", stat)
    BY <1>4
  <2> HIDE DEF W
  <2>6. QED
    BY <2>2, <2>3, <2>4, <2>5, SetTimeoutType DEF IInv
<1>6. /\ fd_table' = [fd_table EXCEPT ![fd] = F]
      /\ epoll_state' = [epoll_state EXCEPT ![fd] = {"OUT"}]
      /\ epoll_fds' = epoll_fds + 1
      /\ sock' = [sock EXCEPT ![fd] = c]
      /\ net' = [net EXCEPT ![c] = [net[c] EXCEPT !.phase = "open"]]
  <2>1. CtlOp(fd, {"OUT"}) = "ADD"
    BY <1>4 DEF CtlOp
  <2>2. QED
    BY <1>4, <2>1 DEF Install, epollSetEvents, RecordEvents, Accept
<1> HIDE DEF c
<1>7. Apart(fd)
  BY <1>1, <1>3, <1>6 DEF Apart, Open
<1>8. \A b \in Conns : b # c => net'[b] = net[b]
  BY <1>1, <1>6
<1> DEFINE m == [net[c] EXCEPT !.phase = "open"]
<1>9. /\ net'[c] = m /\ m.phase = "open"
      /\ m.rd = net[c].rd /\ m.wr = net[c].wr /\ m.rcvq = net[c].rcvq /\ m.sent = net[c].sent
      /\ m.rst = net[c].rst
  <2>1. net[c] \in Net
    BY <1>1, <1>2
  <2>2. QED
    BY <1>1, <1>2, <1>6, <2>1 DEF Net, NetOf
<1> HIDE DEF m
<1>10. net[c].rd = <<>> /\ net[c].wr = <<>>
  BY <1>2, <1>3 DEF Talk, History
<1>11. ASSUME NEW f \in ConnFds PROVE Turn(f)' /\ Deadline(f)'
  <2>1. CASE f = fd
    <3>1. fd_table'[fd] = F /\ epoll_state'[fd] = {"OUT"} /\ sock'[fd] = c
      BY <1>1, <1>6
    <3>2. WelcomeTimeout \in Nat \ {0}
      BY EchoAssumption
    <3>3. /\ F.period <= F.timeout
          /\ F.timeout # F.period =>
               F.armed < (F.timeout - F.period) * TicksPerSec + TicksPerSec + MaxLag
      BY <1>5, <3>2, ArmedDeadline DEF IInv
    <3>4. Deadline(fd)'
      BY <3>1, <3>3, Zenon DEF Deadline
    <3>5. stat = NULL => AllocFails
      <4>1. c # NULL
        BY <1>2, CommAssumption
      <4>2. QED
        BY <4>1, Zenon DEF c
    <3>6. Turn(fd)'
      BY <1>5, <1>9, <1>10, <3>1, <3>5 DEF Turn
    <3>7. QED
      BY <2>1, <3>4, <3>6
  <2>2. CASE f # fd
    BY <1>1, <1>7, <2>2, ApartTurns DEF Talk
  <2>3. QED
    BY <2>1, <2>2
<1>12. ASSUME NEW b \in Conns PROVE History(b)' /\ Stream(b)'
  <2>1. History(b) /\ Stream(b)
    BY DEF Talk
  <2>2. CASE b # c
    <3>1. net'[b] = net[b]
      BY <1>8, <2>2
    <3>2. b # NoConn
      BY SocketsAssumption
    <3>3. \A f \in ConnFds : sock[f] = b => sock'[f] = b
      BY <1>1, <1>6, <3>2
    <3>4. QED
      BY <2>1, <3>1, <3>3 DEF History, Stream
  <2>3. CASE b = c
    <3>1. sock'[fd] = c
      BY <1>1, <1>6
    <3>2. History(b)'
      BY <1>1, <1>9, <2>1, <2>3, <3>1 DEF History
    <3>3. Stream(b)'
      BY <1>9, <2>1, <2>3 DEF Stream
    <3>4. QED
      BY <3>2, <3>3
  <2>4. QED
    BY <2>2, <2>3
<1>13. epoll_fds' = Cardinality(Registrations')
  <2>1. Registrations' = Registrations \cup {fd} /\ fd \notin Registrations
    BY <1>1, <1>4, <1>6 DEF Registrations
  <2>2. IsFiniteSet(Registrations)
    BY SocketsAssumption, FS_AddElement, FS_Subset DEF Fds, Registrations
  <2>3. Cardinality(Registrations') = Cardinality(Registrations) + 1
    BY <2>1, <2>2, FS_AddElement
  <2>4. QED
    BY <1>6, <2>3 DEF Talk
<1>14. EndsOnlyIf'
  <2>1. CtlOp(fd, {"OUT"}) = "ADD"
    BY <1>4 DEF CtlOp
  <2>2. interest[fd] = {} /\ epoll_state'[fd] # {}
    BY <1>1, <1>6 DEF IInv, TableOK, Fits
  <2>3. Watched(fd)
    BY <2>1, <2>2 DEF Install, epollSetEvents, CtlRefused, xstrerror, Watched
  <2>4. QED
    BY <1>1, <1>8, <1>9, <2>3, EndsOnlyIfKept DEF Talk
<1>15. Talk'
  BY <1>11, <1>12, <1>13, <1>14 DEF Talk
<1>16. /\ net[c] \in Net /\ sock'[fd] = c /\ epoll_state'[fd] = {"OUT"}
       /\ fd_table'[fd].write_handler = "do_welcome_handler"
  BY <1>1, <1>2, <1>5, <1>6
<1>17. QED
  BY <1>2, <1>3, <1>6, <1>7, <1>15, <1>16 DEF c

-----------------------------------------------------------------------------
(* The two halves of comm_call_handlers(). *)

\* There is something for the read handler of fd, or for its write handler.
CanRead(fd) ==
  LET n == net[sock[fd]] IN
  n.rst \/ (epoll_state[fd] = {"IN"} /\ (n.fin \/ n.rcvq # <<>>))

CanWrite(fd) ==
  LET n == net[sock[fd]] IN
  n.rst \/ (epoll_state[fd] = {"OUT"} /\ n.unread < SndCap)

\* The types of an open connection's parts.
LEMMA OpenTypes ==
  ASSUME IInv, NEW fd \in ConnFds, Open(fd)
  PROVE  /\ sock[fd] \in Conns /\ net[sock[fd]] \in Net /\ fd \in Fds
         /\ net \in [Conns -> Net] /\ fd_table \in [Fds -> Fde]
         /\ epoll_state \in [Fds -> Interest] /\ send_buf \in [Conns -> Seq(Chunks)]
         /\ sock \in [ConnFds -> Conns \cup {NoConn}]
         /\ net[sock[fd]].phase = "open"
BY DEF IInv, TableOK, TableTypes, LoopTypes, Fits, Open, Fds

\* The greeting is the first reply; an answer is the reply to the last input.
LEMMA RepliesTalk ==
  ASSUME IInv, Talk, ClockOK, NEW fd \in ConnFds, Open(fd), CanWrite(fd), NEW c, c = sock[fd],
         Greets(fd) \/ Answers(fd)
  PROVE  Talk' /\ Apart(fd) /\ UNCHANGED sock
<1> DEFINE n == net[c]
<1>1. /\ c \in Conns /\ n \in Net /\ fd \in Fds
      /\ net \in [Conns -> Net] /\ fd_table \in [Fds -> Fde]
      /\ epoll_state \in [Fds -> Interest] /\ send_buf \in [Conns -> Seq(Chunks)]
      /\ sock \in [ConnFds -> Conns \cup {NoConn}]
      /\ n.phase = "open"
  BY OpenTypes
<1>2. ~n.rst /\ epoll_state[fd] = {"OUT"} /\ UNCHANGED send_buf
  BY DEF Greets, Answers, CanWrite
<1>3. Turn(fd) /\ History(c) /\ Stream(c)
  BY <1>1 DEF Talk
<1>4. PICK data \in Seq(Chunks) :
        /\ \E F : Serves(fd, F, {"IN"}, Written(n, data))
        /\ \/ n.rd = <<>> /\ n.wr = <<>>
           \/ n.rd # <<>> /\ Len(n.wr) = Len(n.rd) /\ data = CString(n.rd[Len(n.rd)])
  <2>1. CASE Greets(fd)
    <3>1. n.rd = <<>> /\ n.wr = <<>>
      BY <1>2, <1>3, <2>1 DEF Greets, Turn
    <3>2. <<>> \in Seq(Chunks)
      BY EmptySeq
    <3>3. QED
      BY <2>1, <3>1, <3>2 DEF Greets
  <2>2. CASE Answers(fd)
    <3>1. n.rd # <<>> /\ Len(n.wr) = Len(n.rd) /\ send_buf[c] = n.rd[Len(n.rd)]
      BY <1>2, <1>3, <2>2 DEF Answers, Turn
    <3>2. CString(send_buf[c]) \in Seq(Chunks)
      BY <1>1, CStringType
    <3>3. QED
      BY <2>2, <3>1, <3>2 DEF Answers
  <2>3. QED
    BY <2>1, <2>2
<1>a. PICK F : Serves(fd, F, {"IN"}, Written(n, data))
  BY <1>4
<1> DEFINE m == Written(n, data)
<1> HIDE DEF n
<1>5. /\ m.wr = Append(n.wr, data)
      /\ m.rd = n.rd /\ m.rcvq = n.rcvq /\ m.sent = n.sent /\ m.rst = n.rst
      /\ m.phase = n.phase
      /\ Len(m.wr) = Len(n.wr) + 1 /\ m.wr[Len(n.wr) + 1] = data
      /\ \A i \in 1 .. Len(n.wr) : m.wr[i] = n.wr[i]
      /\ Len(n.wr) \in Nat /\ Len(n.rd) \in Nat
  BY <1>1, WrittenType
<1> HIDE DEF m
<1>6. /\ net'[c] = m /\ sock' = sock /\ fd_table'[fd] = F /\ epoll_state'[fd] = {"IN"}
      /\ F.read_handler = "do_echo_handler" /\ F.timeout_data = fd_table[fd].timeout_data
  BY <1>1, <1>a DEF Serves, n, m
<1>7. Len(n.wr) = Len(n.rd)
  BY <1>4
<1>8. Turn(fd)'
  BY <1>3, <1>5, <1>6, <1>7 DEF Turn, Open
<1>9. History(c)'
  <2>1. Len(n.wr) <= Len(n.rd) + 1 /\ \A i \in 2 .. Len(n.wr) : n.wr[i] = CString(n.rd[i - 1])
    BY <1>3 DEF History, n
  <2>2. ASSUME NEW i \in 2 .. Len(m.wr) PROVE m.wr[i] = CString(m.rd[i - 1])
    <3>1. CASE i = Len(n.wr) + 1
      <4>1. n.rd # <<>> /\ data = CString(n.rd[Len(n.rd)])
        <5>1. n.wr # <<>>
          BY <1>5, <3>1, EmptySeq
        <5>2. QED
          BY <1>4, <5>1
      <4>2. i - 1 = Len(n.rd)
        BY <1>5, <1>7, <3>1
      <4>3. QED
        BY <1>5, <3>1, <4>1, <4>2
    <3>2. CASE i # Len(n.wr) + 1
      <4>1. i \in 2 .. Len(n.wr) /\ i \in 1 .. Len(n.wr)
        BY <1>5, <3>2
      <4>2. QED
        BY <1>5, <2>1, <4>1
    <3>3. QED
      BY <3>1, <3>2
  <2>3. \E f \in ConnFds : sock'[f] = c
    BY <1>6
  <2>4. m.phase = "open"
    BY <1>1, <1>5
  <2>5. Len(m.wr) <= Len(m.rd) + 1 /\ Len(m.rd) <= Len(m.wr)
    BY <1>5, <1>7
  <2>6. QED
    BY <1>6, <2>2, <2>3, <2>4, <2>5 DEF History
<1>10. Stream(c)'
  BY <1>3, <1>5, <1>6 DEF Stream, n
<1>11. Talk' /\ Apart(fd)
  BY <1>1, <1>2, <1>a, <1>5, <1>8, <1>9, <1>10, ServesTalk DEF n, m
<1>12. QED
  BY <1>6, <1>11

\* A greeting, an answer or a failed write keeps every conversation in turn.
LEMMA WriteTalk ==
  ASSUME IInv, Talk, ClockOK, NEW fd \in ConnFds, Open(fd), CanWrite(fd),
         Greets(fd) \/ Answers(fd) \/ WriteFails(fd)
  PROVE  Talk' /\ Apart(fd) /\ UNCHANGED sock
<1>1. CASE Greets(fd) \/ Answers(fd)
  BY <1>1, RepliesTalk
<1>2. CASE WriteError(sock[fd]) /\ LogError
  <2>1. sock[fd] \in Conns /\ net[sock[fd]] \in Net /\ net \in [Conns -> Net]
    BY OpenTypes
  <2>2. net[sock[fd]].rst
    BY <1>2, <2>1, SocketsAssumption DEF WriteError, CanWrite, Net, NetOf
  <2>3. Talk' /\ UNCHANGED sock
    BY <1>2, <2>1, <2>2, ErrorTalk DEF LogError, xstrerror
  <2>4. Apart(fd)
    <3>1. \A b \in Conns : b # sock[fd] => net'[b] = net[b]
      BY <1>2, <2>1 DEF WriteError
    <3>2. QED
      BY <1>2, <2>3, <3>1 DEF LogError, Apart, Open, IInv, TableOK, TableTypes, OnePlace
  <2>5. QED
    BY <2>3, <2>4
<1>3. CASE WriteBroken(sock[fd]) /\ Die("SIGPIPE")
  <2>1. UNCHANGED <<sock, net, fd_table, epoll_state, epoll_fds, send_buf>>
    BY <1>3 DEF Die, serverVars
  <2>2. EndsOnlyIf'
    BY <1>3, <2>1, OpenTypes DEF Die, WriteBroken, EndsOnlyIf
  <2>3. \A c \in Conns : Stream(c)'
    BY <2>1 DEF Talk, Stream
  <2>4. Talk'
    BY <2>1, <2>2, <2>3, SameTalk DEF IInv, TableOK, TableTypes
  <2>5. QED
    BY <2>1, <2>4 DEF Apart
<1>4. QED
  BY <1>1, <1>2, <1>3 DEF WriteFails

\* Input is taken while the server waits for it, or from a client that aborted.
LEMMA ReadsTalk ==
  ASSUME IInv, Talk, ClockOK, NEW fd \in ConnFds, Open(fd), CanRead(fd), NEW c, c = sock[fd],
         NEW data \in Readable(c), Reads(fd, data)
  PROVE  /\ Talk' /\ Apart(fd) /\ UNCHANGED sock
         /\ net'[c].rst = net[c].rst /\ net'[c].unread = net[c].unread
         /\ epoll_state'[fd] = {"OUT"}
<1> DEFINE n == net[c]
<1>1. /\ c \in Conns /\ n \in Net /\ fd \in Fds
      /\ net \in [Conns -> Net] /\ fd_table \in [Fds -> Fde]
      /\ epoll_state \in [Fds -> Interest] /\ send_buf \in [Conns -> Seq(Chunks)]
      /\ sock \in [ConnFds -> Conns \cup {NoConn}]
      /\ n.phase = "open"
  BY OpenTypes
<1>2. Turn(fd) /\ History(c) /\ Stream(c)
  BY <1>1 DEF Talk
<1>3. PICK F : /\ F.write_handler = "do_echo_response"
               /\ Serves(fd, F, {"OUT"}, Consumed(n, data))
  BY DEF Reads
<1>4. send_buf' = [send_buf EXCEPT ![c] = data] /\ fd_table[fd].read_handler = "do_echo_handler"
  BY DEF Reads
<1>5. data \in Seq(Chunks) /\ Len(data) <= Len(n.rcvq) /\ n.rcvq \in Seq(Chunks)
  BY <1>1, ReadableType DEF Net, NetOf
<1>6. Len(n.wr) <= Len(n.rd) + 1 /\ (n.rst \/ Len(n.wr) = Len(n.rd) + 1)
  <2>1. n.rst \/ epoll_state[fd] = {"IN"}
    BY DEF CanRead
  <2>2. {"IN"} # {"OUT"}
    OBVIOUS
  <2>3. QED
    BY <1>2, <1>4, <2>1, <2>2 DEF Turn, History, NoHandler
<1> DEFINE m == Consumed(n, data)
<1> HIDE DEF n
<1>7. /\ m.rcvq = SubSeq(n.rcvq, Len(data) + 1, Len(n.rcvq)) /\ m.rd = Append(n.rd, data)
      /\ m.wr = n.wr /\ m.unread = n.unread /\ m.sent = n.sent /\ m.rst = n.rst
      /\ m.phase = n.phase
      /\ Len(m.rd) = Len(n.rd) + 1 /\ m.rd[Len(n.rd) + 1] = data /\ m.rd # <<>>
      /\ \A i \in 1 .. Len(n.rd) : m.rd[i] = n.rd[i]
      /\ Len(n.wr) \in Nat /\ Len(n.rd) \in Nat
  BY <1>1, <1>5, ConsumedType
<1> HIDE DEF m
<1>8. /\ net'[c] = m /\ sock' = sock /\ fd_table'[fd] = F /\ epoll_state'[fd] = {"OUT"}
      /\ send_buf'[c] = data
      /\ F.read_handler = "do_echo_handler" /\ F.timeout_data = fd_table[fd].timeout_data
  BY <1>1, <1>3, <1>4 DEF Serves, n, m
<1>9. Turn(fd)'
  <2>1. send_buf'[c] = m.rd[Len(m.rd)] /\ Len(m.wr) <= Len(m.rd)
        /\ (m.rst \/ Len(m.wr) = Len(m.rd))
    BY <1>6, <1>7, <1>8
  <2>2. fd_table[fd].timeout_data = NULL => AllocFails
    BY <1>2 DEF Turn
  <2>3. QED
    BY <1>3, <1>7, <1>8, <2>1, <2>2 DEF Turn
<1>10. History(c)'
  <2>1. \A i \in 2 .. Len(n.wr) : n.wr[i] = CString(n.rd[i - 1])
    BY <1>2 DEF History, n
  <2>2. ASSUME NEW i \in 2 .. Len(m.wr) PROVE m.wr[i] = CString(m.rd[i - 1])
    <3>1. i \in 2 .. Len(n.wr) /\ i - 1 \in 1 .. Len(n.rd)
      BY <1>6, <1>7
    <3>2. QED
      BY <1>7, <2>1, <3>1
  <2>3. \E f \in ConnFds : sock'[f] = c
    BY <1>8
  <2>4. m.phase = "open"
    BY <1>1, <1>7
  <2>5. Len(m.wr) <= Len(m.rd) + 1 /\ (m.rst \/ Len(m.rd) <= Len(m.wr))
    BY <1>6, <1>7
  <2>6. QED
    BY <1>8, <2>2, <2>3, <2>4, <2>5 DEF History
<1>11. Stream(c)'
  <2> DEFINE q == n.rcvq
             k == Len(data)
  <2>1. q \in Seq(Chunks) /\ k \in Nat /\ Len(q) \in Nat /\ k <= Len(q) /\ n.sent \in Nat
    BY <1>1, <1>5, LenProperties DEF Net, NetOf
  <2>2. /\ Len(m.rcvq) = Len(q) - k
        /\ \A i \in 1 .. Len(q) - k : m.rcvq[i] = q[k + i]
    <3>1. m.rcvq = SubSeq(q, k + 1, Len(q))
      BY <1>7
    <3>2. k + 1 \in 1 .. Len(q) + 1 /\ Len(q) - (k + 1) + 1 = Len(q) - k
      BY <2>1
    <3> HIDE DEF q, k
    <3>3. \A i \in k + 1 .. Len(q) : q[i] \in Chunks
      BY <2>1, ElementOfSeq
    <3>4. /\ Len(m.rcvq) = IF k + 1 <= Len(q) THEN Len(q) - (k + 1) + 1 ELSE 0
          /\ \A i \in 1 .. Len(q) - (k + 1) + 1 : m.rcvq[i] = q[k + 1 + i - 1]
      BY <2>1, <3>1, <3>3, SubSeqProperties
    <3>5. \A i \in 1 .. Len(q) - k : k + 1 + i - 1 = k + i
      BY <2>1
    <3>6. Len(m.rcvq) = Len(q) - k
      BY <2>1, <3>4
    <3>7. ASSUME NEW i \in 1 .. Len(q) - k PROVE m.rcvq[i] = q[k + i]
      <4>1. i \in 1 .. Len(q) - (k + 1) + 1
        BY <3>2
      <4>2. m.rcvq[i] = q[k + 1 + i - 1]
        BY <3>4, <4>1
      <4>3. QED
        BY <3>5, <4>2
    <3>8. QED
      BY <3>6, <3>7
  <2>3. Len(q) <= n.sent /\ n.sent <= MaxMsgs
        /\ \A i \in 1 .. Len(q) : q[i] = n.sent - Len(q) + i
    BY <1>2 DEF Stream, n
  <2> HIDE DEF q, k
  <2>4. ASSUME NEW i \in 1 .. Len(m.rcvq) PROVE m.rcvq[i] = n.sent - Len(m.rcvq) + i
    <3>1. i \in 1 .. Len(q) - k /\ k + i \in 1 .. Len(q)
      BY <2>1, <2>2
    <3>2. q[k + i] = n.sent - Len(q) + (k + i)
      BY <2>3, <3>1
    <3>3. QED
      BY <2>1, <2>2, <3>1, <3>2
  <2>5. Len(m.rcvq) <= n.sent
    BY <2>1, <2>2, <2>3
  <2>6. QED
    BY <1>7, <1>8, <2>3, <2>4, <2>5 DEF Stream
<1>12. Talk' /\ Apart(fd)
  BY <1>1, <1>3, <1>4, <1>7, <1>9, <1>10, <1>11, ServesTalk DEF n, m
<1>13. QED
  BY <1>7, <1>8, <1>12 DEF n

\* After the read handler of fd, the connection of fd is closed or as the event
\* that made it run reported it.
LEMMA ReadTalk ==
  ASSUME IInv, Talk, ClockOK, proc = "running", NEW fd \in ConnFds, Open(fd), CanRead(fd), NEW c, c = sock[fd],
         \/ \E data \in Readable(c) : Reads(fd, data)
         \/ Closes(fd)
         \/ ReadFails(fd)
  PROVE  /\ Talk' /\ Apart(fd)
         /\ \/ sock'[fd] = NoConn
            \/ /\ sock'[fd] = c /\ net'[c].rst = net[c].rst /\ net'[c].unread = net[c].unread
               /\ epoll_state'[fd] \in {{"OUT"}, epoll_state[fd]}
<1>0. /\ c \in Conns /\ net[c] \in Net /\ net \in [Conns -> Net]
      /\ sock \in [ConnFds -> Conns \cup {NoConn}]
  BY OpenTypes
<1>1. CASE \E data \in Readable(c) : Reads(fd, data)
  BY <1>1, ReadsTalk
<1>2. CASE Closes(fd)
  BY <1>2, ClosesTalk
<1>3. CASE ReadError(c) /\ LogError
  <2>1. net[c].rst
    BY <1>3 DEF ReadError, CanRead
  <2>2. /\ Talk' /\ UNCHANGED sock
        /\ \A b \in Conns : \E e : net'[b] = [net[b] EXCEPT !.err = e]
    BY <1>0, <1>3, <2>1, ErrorTalk DEF LogError, xstrerror
  <2>3. PICK e : net'[c] = [net[c] EXCEPT !.err = e]
    BY <1>0, <2>2
  <2>4. net'[c].rst = net[c].rst /\ net'[c].unread = net[c].unread
    BY <1>0, <2>3 DEF Net, NetOf
  <2>5. Apart(fd)
    <3>1. \A b \in Conns : b # c => net'[b] = net[b]
      BY <1>0, <1>3 DEF ReadError
    <3>2. QED
      BY <1>3, <2>2, <3>1 DEF LogError, Apart, Open, IInv, TableOK, TableTypes, OnePlace
  <2>6. QED
    BY <1>3, <2>2, <2>4, <2>5 DEF LogError
<1>4. CASE fd_table[fd].timeout_data = NULL /\ Die("SIGABRT")
  <2>1. UNCHANGED <<sock, net, fd_table, epoll_state, epoll_fds, send_buf>>
    BY <1>4 DEF Die, serverVars
  <2>2. EndsOnlyIf'
    <3>1. AllocFails
      BY <1>4 DEF Talk, Turn
    <3>2. QED
      BY <1>4, <3>1 DEF Die, EndsOnlyIf
  <2>3. \A b \in Conns : Stream(b)'
    BY <2>1 DEF Talk, Stream
  <2>4. Talk'
    BY <1>0, <2>1, <2>2, <2>3, SameTalk
  <2>5. QED
    BY <2>1, <2>4 DEF Apart
<1>5. CASE Crashes(fd)
  <2>1. Talk' /\ UNCHANGED <<sock, net, fd_table, epoll_state, send_buf>>
    BY <1>5, CrashTalk
  <2>2. QED
    BY <2>1 DEF Apart
<1>6. QED
  BY <1>1, <1>2, <1>3, <1>4, <1>5 DEF ReadFails

-----------------------------------------------------------------------------
(* The events, and the steps of the loop. *)

\* An event stays true while the server works for another descriptor.
LEMMA PendsKept ==
  ASSUME NEW fd \in ConnFds, Apart(fd), NEW e, e.fd # fd, Pends(e)
  PROVE  Pends(e)'
<1> SUFFICES ASSUME e.fd \in ConnFds PROVE Pends(e)'
  BY DEF Pends
<1>1. sock[e.fd] = e.conn /\ e.conn \in Conns /\ Open(e.fd)
  BY SocketsAssumption DEF Pends, Open
<1>2. /\ sock'[e.fd] = e.conn /\ epoll_state'[e.fd] = epoll_state[e.fd]
      /\ net'[e.conn] = net[e.conn]
  BY <1>1 DEF Apart
<1>3. QED
  BY <1>1, <1>2 DEF Pends, Caused

\* Nothing but the place in the loop changes.
LEMMA TalkUnchanged ==
  ASSUME Talk, UNCHANGED <<serverVars, proc>>
  PROVE  /\ Talk'
         /\ \A e : (Pends(e) => Pends(e)') /\ (HalfDone(e) => HalfDone(e)')
<1>1. UNCHANGED <<sock, net, fd_table, epoll_state, epoll_fds, interest, send_buf, proc>>
  BY DEF serverVars
<1>2. ASSUME NEW fd \in ConnFds PROVE Turn(fd)' /\ Deadline(fd)'
  BY <1>1 DEF Talk, Turn, Deadline, Open
<1>3. ASSUME NEW c \in Conns PROVE History(c)' /\ Stream(c)'
  BY <1>1 DEF Talk, History, Stream
<1>4. epoll_fds' = Cardinality(Registrations') /\ EndsOnlyIf'
  BY <1>1 DEF Talk, Registrations, EndsOnlyIf
<1>5. ASSUME NEW e PROVE (Pends(e) => Pends(e)') /\ (HalfDone(e) => HalfDone(e)')
  BY <1>1 DEF Pends, HalfDone, Caused
<1>6. QED
  BY <1>2, <1>3, <1>4, <1>5 DEF Talk

\* What an event can be about.
LEMMA EventTypes ==
  ASSUME IInv
  PROVE  /\ \A e \in events : e.fd \in Fds /\ e.ev \subseteq {"IN", "OUT", "HUP"}
         /\ current.fd \in Fds /\ current.ev \subseteq {"IN", "OUT", "HUP"}
         /\ NoEvent.fd = ListenFd /\ ListenFd \notin ConnFds /\ Fds = ConnFds \cup {ListenFd}
BY SocketsAssumption DEF IInv, LoopTypes, Event, NoEvent, Fds

\* accept_connection leaves the connections that are open alone.
LEMMA AcceptTalk ==
  ASSUME IInv, Talk, ClockOK, proc = "running", accept_connection
  PROVE  /\ Talk'
         /\ \A e : e.fd \in Fds /\ Pends(e) => Pends(e)'
<1>1. CASE UNCHANGED <<fd_table, epoll_state, epoll_fds, interest, netVars, heap, proc>>
  <2>1. UNCHANGED <<serverVars, proc>>
    BY <1>1 DEF accept_connection, serverVars, netVars
  <2>2. QED
    BY <2>1, TalkUnchanged
<1>2. ASSUME NEW new_fd \in FreeFds, NEW ok \in {TRUE, ~AllocFails},
             NEW stat, stat = IF ok THEN Head(acceptq) ELSE NULL,
             NEW F, F = commSetTimeout(commUpdateWriteHandler(fd_table[new_fd], "do_welcome_handler", stat),
                                       WelcomeTimeout, "do_echo_timeout", stat),
             Accept(new_fd), Install(new_fd, F, {"OUT"})
      PROVE  Talk' /\ \A e : e.fd \in Fds /\ Pends(e) => Pends(e)'
  <2>1. acceptq # <<>> /\ UNCHANGED send_buf
    BY DEF accept_connection
  <2>2. Talk' /\ Apart(new_fd)
    BY <1>2, <2>1, OpensTalk
  <2>3. ASSUME NEW e, e.fd \in Fds, Pends(e) PROVE Pends(e)'
    <3>1. new_fd \in ConnFds /\ sock[new_fd] = NoConn
      BY DEF FreeFds
    <3>2. e.fd # new_fd
      BY <2>3, <3>1, SocketsAssumption DEF Pends
    <3>3. QED
      BY <2>2, <2>3, <3>1, <3>2, PendsKept
  <2>4. QED
    BY <2>2, <2>3
<1>3. QED
  BY <1>1, <1>2 DEF accept_connection

\* What the read half of comm_call_handlers() comes to.
LEMMA ReadHalfEffect ==
  ASSUME IInv, CInv, NEW e \in events, CallReadHandler(e)
  PROVE  \/ UNCHANGED <<serverVars, proc>>
         \/ e.fd = ListenFd /\ accept_connection
         \/ /\ e.fd \in ConnFds /\ Open(e.fd) /\ CanRead(e.fd)
            /\ sock[e.fd] = e.conn /\ e.conn \in Conns /\ Caused(e)
            /\ \/ \E data \in Readable(e.conn) : Reads(e.fd, data)
               \/ Closes(e.fd)
               \/ ReadFails(e.fd)
<1> DEFINE fd == e.fd
<1>1. fd \in Fds /\ e.ev \subseteq {"IN", "OUT", "HUP"} /\ Pends(e)
  BY EventTypes DEF CInv, EventsOK
<1>2. ASSUME fd_table[fd].read_handler # NoHandler, ReadEvents(e.ev) # {},
             Call(fd_table[fd].read_handler, fd, fd_table[fd].read_data), fd = ListenFd
      PROVE  accept_connection
  <2>1. fd_table[fd].read_handler = "accept_connection"
    BY <1>2 DEF IInv, TableOK, ListenerFits, commUpdateReadHandler, EmptyFde
  <2>2. QED
    BY <1>2, <2>1 DEF Call
<1>3. ASSUME fd_table[fd].read_handler # NoHandler, ReadEvents(e.ev) # {},
             Call(fd_table[fd].read_handler, fd, fd_table[fd].read_data), fd \in ConnFds
      PROVE  /\ Open(fd) /\ CanRead(fd)
             /\ sock[fd] = e.conn /\ e.conn \in Conns /\ Caused(e)
             /\ \/ \E data \in Readable(e.conn) : Reads(fd, data)
                \/ Closes(fd)
                \/ ReadFails(fd)
  <2>1. sock[fd] = e.conn /\ e.conn \in Conns /\ Caused(e) /\ Open(fd)
    BY <1>1, <1>3, SocketsAssumption DEF Pends, Open
  <2>2. "IN" \in e.ev \/ "HUP" \in e.ev
    BY <1>1, <1>3 DEF ReadEvents
  <2>3. CanRead(fd)
    BY <1>1, <1>3, <2>1, <2>2 DEF Pends, Caused, CanRead
  <2>4. QED
    BY <1>3, <2>1, <2>3, ReadEffect DEF IInv, CallReadHandler, At
<1>4. QED
  BY <1>1, <1>2, <1>3, EventTypes DEF CallReadHandler

\* What the write half comes to.
LEMMA WriteHalfEffect ==
  ASSUME IInv, CInv, CallWriteHandler
  PROVE  \/ UNCHANGED <<serverVars, proc>>
         \/ /\ current.fd \in ConnFds /\ Open(current.fd) /\ CanWrite(current.fd)
            /\ Greets(current.fd) \/ Answers(current.fd) \/ WriteFails(current.fd)
<1> DEFINE fd == current.fd
           c == current.conn
<1>1. fd \in Fds /\ current.ev \subseteq {"IN", "OUT", "HUP"} /\ HalfDone(current)
  BY EventTypes DEF CInv, EventsOK
<1>2. CASE /\ fd_table[fd].write_handler # NoHandler /\ WriteEvents(current.ev) # {}
           /\ Call(fd_table[fd].write_handler, fd, fd_table[fd].write_data)
  <2>1. fd \in ConnFds
    <3>1. fd_table[ListenFd].write_handler = NoHandler
      BY DEF IInv, TableOK, ListenerFits, commUpdateReadHandler, EmptyFde
    <3>2. QED
      BY <1>1, <1>2, <3>1, EventTypes
  <2>2. Open(fd)
    BY <1>2, <2>1 DEF IInv, TableOK, Fits, EmptyFde
  <2>3. sock[fd] = c /\ c \in Conns /\ Caused(current)
    BY <1>1, <2>1, <2>2 DEF HalfDone, Open
  <2>4. "OUT" \in current.ev \/ "HUP" \in current.ev
    BY <1>1, <1>2 DEF WriteEvents
  <2>5. CanWrite(fd)
    BY <2>3, <2>4 DEF Caused, CanWrite
  <2>6. QED
    BY <1>2, <2>1, <2>2, <2>5, WriteEffect DEF IInv, CallWriteHandler, At
<1>3. QED
  BY <1>2 DEF CallWriteHandler

\* The read half of an event, whole.
LEMMA ReadHalfStep ==
  ASSUME IInv, CInv, NEW e \in events, CallReadHandler(e)
  PROVE  Talk' /\ EventsOK'
<1> DEFINE fd == e.fd
           c == e.conn
<1>1. events' = events \ {e} /\ current' = e /\ pc' = "write_event"
  BY DEF CallReadHandler
<1>2. Pends(e) /\ \A f \in events' : f \in events /\ f.fd \in Fds /\ f.fd # fd /\ Pends(f)
  BY <1>1, EventTypes DEF CInv, EventsOK
<1>3. \A f, g \in events' : f.fd = g.fd => f = g
  BY <1>2 DEF CInv, EventsOK
<1>4. ASSUME Talk', HalfDone(e)', \A f \in events' : Pends(f)'
      PROVE  Talk' /\ EventsOK'
  BY <1>1, <1>2, <1>3, <1>4 DEF EventsOK
<1>5. CASE UNCHANGED <<serverVars, proc>>
  <2>1. HalfDone(e)
    BY <1>2 DEF Pends, HalfDone
  <2>2. QED
    BY <1>2, <1>4, <1>5, <2>1, TalkUnchanged DEF CInv
<1>6. CASE fd = ListenFd /\ accept_connection
  <2>1. Talk' /\ \A f \in events' : Pends(f)'
    BY <1>2, <1>6, AcceptTalk DEF CInv, CallReadHandler, At
  <2>2. HalfDone(e)'
    BY <1>6, SocketsAssumption DEF HalfDone
  <2>3. QED
    BY <1>4, <2>1, <2>2
<1>7. CASE /\ fd \in ConnFds /\ Open(fd) /\ CanRead(fd)
           /\ sock[fd] = c /\ c \in Conns /\ Caused(e)
           /\ \/ \E data \in Readable(c) : Reads(fd, data)
              \/ Closes(fd)
              \/ ReadFails(fd)
  <2>1. /\ Talk' /\ Apart(fd)
        /\ \/ sock'[fd] = NoConn
           \/ /\ sock'[fd] = c /\ net'[c].rst = net[c].rst /\ net'[c].unread = net[c].unread
              /\ epoll_state'[fd] \in {{"OUT"}, epoll_state[fd]}
    BY <1>7, ReadTalk DEF CInv, CallReadHandler, At
  <2>2. HalfDone(e)'
    BY <1>7, <2>1, SocketsAssumption DEF HalfDone, Caused
  <2>3. \A f \in events' : Pends(f)'
    BY <1>2, <1>7, <2>1, PendsKept
  <2>4. QED
    BY <1>4, <2>1, <2>2, <2>3
<1>8. QED
  BY <1>5, <1>6, <1>7, ReadHalfEffect

\* The write half of an event, whole.
LEMMA WriteHalfStep ==
  ASSUME IInv, CInv, CallWriteHandler
  PROVE  Talk' /\ EventsOK'
<1> DEFINE fd == current.fd
<1>1. /\ events' = events /\ current' = NoEvent
      /\ pc' = IF events = {} THEN "getCurrentTime" ELSE "dispatch"
  BY DEF CallWriteHandler
<1>2. \A f \in events : f.fd \in Fds /\ Pends(f) /\ (fd \in ConnFds => f.fd # fd)
  BY EventTypes DEF CInv, EventsOK
<1>3. ASSUME Talk', \A f \in events : Pends(f)'
      PROVE  Talk' /\ EventsOK'
  <2>1. HalfDone(NoEvent)' /\ NoEvent.fd \notin ConnFds
    BY SocketsAssumption DEF HalfDone, NoEvent
  <2>2. \A f, g \in events : f.fd = g.fd => f = g
    BY DEF CInv, EventsOK
  <2>3. QED
    BY <1>1, <1>3, <2>1, <2>2 DEF EventsOK
<1>4. CASE UNCHANGED <<serverVars, proc>>
  BY <1>2, <1>3, <1>4, TalkUnchanged DEF CInv
<1>5. CASE /\ fd \in ConnFds /\ Open(fd) /\ CanWrite(fd)
           /\ Greets(fd) \/ Answers(fd) \/ WriteFails(fd)
  <2>1. Talk' /\ Apart(fd)
    BY <1>5, WriteTalk DEF CInv
  <2>2. \A f \in events : Pends(f)'
    BY <1>2, <1>5, <2>1, PendsKept
  <2>3. QED
    BY <1>3, <2>1, <2>2
<1>6. QED
  BY <1>4, <1>5, WriteHalfEffect

\* epoll_wait() returns only events of descriptors that are open.
LEMMA EpollWaitStep ==
  ASSUME IInv, CInv, EpollWait
  PROVE  EventsOK'
<1>1. current = NoEvent /\ current' = NoEvent /\ pc' = "dispatch"
      /\ UNCHANGED <<sock, net, epoll_state>>
  BY DEF CInv, EventsOK, EpollWait, At, serverVars
<1> DEFINE Ev(f) == [fd |-> f, ev |-> Reported(f),
                     conn |-> IF f = ListenFd THEN NoConn ELSE sock[f]]
<1>2. PICK batch \in SUBSET ReadyFds : events' = {Ev(f) : f \in batch}
  BY DEF EpollWait, Batch, epoll_wait
<1>3. ASSUME NEW f \in ReadyFds, f \in ConnFds PROVE Pends(Ev(f))
  <2>1. f \in Fds /\ f # ListenFd /\ interest[f] # {}
    BY <1>3, SocketsAssumption DEF ReadyFds
  <2>2. Open(f) /\ interest[f] = epoll_state[f]
    BY <1>3, <2>1 DEF IInv, TableOK, Fits
  <2>3. sock[f] \in Conns
    BY <1>3, <2>2 DEF IInv, TableOK, TableTypes, Open
  <2>4. epoll_state[f] \in {{"IN"}, {"OUT"}}
    BY <1>3, <2>2 DEF CInv, Talk, Turn
  <2>5. LET n == net[sock[f]] IN
        /\ "HUP" \in Reported(f) => n.rst
        /\ "OUT" \in Reported(f) => (n.rst \/ n.unread < SndCap) /\ "OUT" \in epoll_state[f]
        /\ "IN" \in Reported(f) => (n.rcvq # <<>> \/ n.fin \/ n.rst) /\ "IN" \in epoll_state[f]
    BY <2>1, <2>2 DEF Reported, Pending
  <2>6. /\ "OUT" \in epoll_state[f] => epoll_state[f] = {"OUT"}
        /\ "IN" \in epoll_state[f] => epoll_state[f] = {"IN"}
    BY <2>4
  <2>7. Ev(f).fd = f /\ Ev(f).conn = sock[f] /\ Ev(f).ev = Reported(f)
    BY <2>1
  <2> HIDE DEF Ev
  <2>8. QED
    BY <2>2, <2>3, <2>5, <2>6, <2>7 DEF Pends, Caused
<1>4. \A e \in events' : Pends(e)
  <2>1. ASSUME NEW f \in ReadyFds PROVE Pends(Ev(f))
    <3>1. f \notin ConnFds => Pends(Ev(f))
      BY DEF Pends
    <3>2. QED
      BY <1>3, <3>1
  <2> HIDE DEF Ev
  <2>2. QED
    BY <1>2, <2>1
<1>5. \A e, f \in events' : e.fd = f.fd => e = f
  <2>1. \A f : Ev(f).fd = f
    OBVIOUS
  <2> HIDE DEF Ev
  <2>2. QED
    BY <1>2, <2>1
<1>6. ASSUME NEW e, Pends(e) PROVE Pends(e)'
  BY <1>1, <1>6 DEF Pends, Caused
<1>7. HalfDone(current)' /\ current'.fd \notin ConnFds
  BY <1>1, SocketsAssumption DEF HalfDone, NoEvent
<1>8. QED
  BY <1>1, <1>4, <1>5, <1>6, <1>7 DEF EventsOK

\* A step of the server, whichever it is.
LEMMA ServerCInv ==
  ASSUME IInv, CInv, Server
  PROVE  CInv'
<1>0. now' = now
  BY DEF Server
<1>a. ASSUME UNCHANGED <<sys_curtime, current_dtime>> PROVE ClockOK'
  BY <1>0, <1>a DEF CInv, ClockOK
\* A step between the rounds: no event waits.
<1>b. ASSUME Talk', UNCHANGED <<events, current>>, pc \notin {"dispatch", "write_event"},
             pc' \in {"comm_select", "checkTimeouts", "epoll_wait", "getCurrentTime"}
      PROVE  Talk' /\ EventsOK'
  <2>1. events = {} /\ current = NoEvent
    BY <1>b DEF CInv, EventsOK
  <2>2. HalfDone(current)' /\ current'.fd \notin ConnFds
    BY <1>b, <2>1, SocketsAssumption DEF HalfDone, NoEvent
  <2>3. QED
    BY <1>b, <2>1, <2>2 DEF EventsOK
<1>1. CASE StartSelect
  BY <1>1, <1>a, <1>b, TalkUnchanged DEF StartSelect, At, CInv
<1>2. ASSUME NEW fd \in Fds, ExpireTimeout(fd) PROVE CInv'
  <2>1. fd \in ConnFds /\ Open(fd) /\ (Closes(fd) \/ Crashes(fd))
    BY <1>2, TimeoutEffect DEF IInv
  <2>2. Talk'
    BY <1>2, <2>1, ClosesTalk, CrashTalk DEF CInv, ExpireTimeout, At
  <2>3. QED
    BY <1>2, <1>a, <1>b, <2>2 DEF ExpireTimeout, At, timeVars, CInv
<1>3. CASE EndTimeouts
  BY <1>3, <1>a, <1>b, TalkUnchanged DEF EndTimeouts, At, timeVars, CInv
<1>4. CASE EpollWait
  BY <1>4, <1>a, EpollWaitStep, TalkUnchanged DEF EpollWait, timeVars, CInv
<1>5. CASE EpollTimeout
  BY <1>5, <1>a, <1>b, TalkUnchanged DEF EpollTimeout, At, timeVars, CInv
<1>6. ASSUME NEW e \in events, CallReadHandler(e) PROVE CInv'
  BY <1>6, <1>a, ReadHalfStep DEF CallReadHandler, timeVars, CInv
<1>7. CASE CallWriteHandler
  BY <1>7, <1>a, WriteHalfStep DEF CallWriteHandler, timeVars, CInv
<1>8. CASE EndSelect
  <2>1. Talk' /\ EventsOK'
    BY <1>8, <1>b, TalkUnchanged DEF EndSelect, At, CInv
  <2>2. ClockOK'
    BY <1>0, <1>8, CommAssumption DEF EndSelect, getCurrentTime, ClockOK, IInv, LoopTypes
  <2>3. QED
    BY <2>1, <2>2 DEF CInv
<1>9. QED
  BY <1>1, <1>2, <1>3, <1>4, <1>5, <1>6, <1>7, <1>8 DEF Server

-----------------------------------------------------------------------------
(* The clients and the clock. *)

\* A client only adds to what the server can read, only makes room for what it
\* can write, and what it sends is the next chunk.
LEMMA ClientEffect ==
  ASSUME IInv, Talk, NEW c \in Conns, Client(c)
  PROVE  /\ UNCHANGED sock
         /\ \A b \in Conns :
              /\ net'[b].rd = net[b].rd /\ net'[b].wr = net[b].wr
              /\ net[b].rst => net'[b].rst
              /\ net[b].fin => net'[b].fin
              /\ net[b].rcvq # <<>> => net'[b].rcvq # <<>>
              /\ net[b].unread < SndCap => net'[b].unread < SndCap
              /\ \/ net'[b].phase = net[b].phase
                 \/ net[b].phase = "new" /\ net'[b].phase = "queued"
              /\ Stream(b)'
<1>1. net \in [Conns -> Net] /\ net[c] \in Net /\ \A b \in Conns : Stream(b)
  BY DEF IInv, TableOK, TableTypes, Talk
<1> DEFINE n == net[c]
           Safe(m) == /\ m.rd = n.rd /\ m.wr = n.wr
                      /\ n.rst => m.rst
                      /\ n.fin => m.fin
                      /\ n.rcvq # <<>> => m.rcvq # <<>>
                      /\ n.unread < SndCap => m.unread < SndCap
                      /\ m.phase = n.phase \/ (n.phase = "new" /\ m.phase = "queued")
                      /\ Len(m.rcvq) <= m.sent /\ m.sent <= MaxMsgs
                      /\ \A i \in 1 .. Len(m.rcvq) : m.rcvq[i] = m.sent - Len(m.rcvq) + i
<1>2. Len(n.rcvq) <= n.sent /\ n.sent <= MaxMsgs
      /\ \A i \in 1 .. Len(n.rcvq) : n.rcvq[i] = n.sent - Len(n.rcvq) + i
  BY <1>1 DEF Stream
<1>3. UNCHANGED sock /\ \E m : net' = [net EXCEPT ![c] = m] /\ Safe(m)
  <2>1. CASE Connect(c)
    <3> DEFINE m == [n EXCEPT !.phase = "queued"]
    <3>1. Safe(m)
      BY <1>1, <1>2, <2>1 DEF Net, NetOf, Connect
    <3>2. net' = [net EXCEPT ![c] = m] /\ UNCHANGED sock
      BY <2>1 DEF Connect
    <3>3. QED
      BY <3>1, <3>2
  <2>2. CASE Send(c)
    <3> DEFINE q == Append(n.rcvq, n.sent + 1)
               m == [n EXCEPT !.sent = @ + 1, !.rcvq = q]
    <3>1. n.sent + 1 \in Chunks /\ n.sent \in Nat /\ n.rcvq \in Seq(Chunks) /\ n.sent < MaxMsgs
      BY <1>1, <2>2, SocketsAssumption DEF Net, NetOf, Send, Chunks
    <3>2. /\ Len(n.rcvq) \in Nat /\ Len(q) = Len(n.rcvq) + 1 /\ q[Len(n.rcvq) + 1] = n.sent + 1
          /\ \A i \in 1 .. Len(n.rcvq) : q[i] = n.rcvq[i]
      BY <3>1, AppendProperties, LenProperties
    <3>3. q # <<>>
      BY <3>2, EmptySeq, SMTT(30)
    <3> HIDE DEF q
    <3>4. /\ m.rcvq = q /\ m.sent = n.sent + 1
          /\ m.rd = n.rd /\ m.wr = n.wr /\ m.rst = n.rst /\ m.fin = n.fin
          /\ m.unread = n.unread /\ m.phase = n.phase
      BY <1>1 DEF Net, NetOf
    <3> HIDE DEF m
    <3>5. ASSUME NEW i \in 1 .. Len(q) PROVE q[i] = m.sent - Len(q) + i
      <4>1. CASE i = Len(n.rcvq) + 1
        BY <3>1, <3>2, <3>4, <4>1
      <4>2. CASE i # Len(n.rcvq) + 1
        <5>1. i \in 1 .. Len(n.rcvq)
          BY <3>2, <4>2
        <5>2. q[i] = n.sent - Len(n.rcvq) + i
          BY <1>2, <3>2, <5>1
        <5>3. Len(q) = Len(n.rcvq) + 1 /\ m.sent = n.sent + 1 /\ q[i] = n.sent - Len(n.rcvq) + i
          BY <3>2, <3>4, <5>2
        <5> HIDE DEF n
        <5>4. \A a, b \in Nat : (a + 1) - (b + 1) + i = a - b + i
          BY <5>1
        <5>5. QED
          BY <3>1, <3>2, <5>3, <5>4
      <4>3. QED
        BY <4>1, <4>2
    <3>6. Len(q) <= m.sent /\ m.sent <= MaxMsgs
      BY <1>2, <3>1, <3>2, <3>4, SocketsAssumption
    <3>7. net' = [net EXCEPT ![c] = m] /\ UNCHANGED sock
      BY <2>2 DEF Send, q, m
    <3>8. Safe(m)
      BY <3>3, <3>4, <3>5, <3>6
    <3>9. QED
      BY <3>7, <3>8
  <2>3. CASE Receive(c)
    <3> DEFINE m == [n EXCEPT !.unread = @ - 1]
    <3>1. n.unread < SndCap => n.unread - 1 < SndCap
      BY <1>1, SocketsAssumption DEF Net, NetOf
    <3>2. Safe(m)
      BY <1>1, <1>2, <3>1 DEF Net, NetOf
    <3>3. net' = [net EXCEPT ![c] = m] /\ UNCHANGED sock
      BY <2>3 DEF Receive
    <3>4. QED
      BY <3>2, <3>3
  <2>4. CASE Fin(c)
    <3> DEFINE m == [n EXCEPT !.fin = TRUE]
    <3>1. Safe(m)
      BY <1>1, <1>2 DEF Net, NetOf
    <3>2. net' = [net EXCEPT ![c] = m] /\ UNCHANGED sock
      BY <2>4 DEF Fin
    <3>3. QED
      BY <3>1, <3>2
  <2>5. CASE Reset(c)
    <3> DEFINE e == IF n.fin THEN "EPIPE" ELSE "ECONNRESET"
               m == [n EXCEPT !.rst = TRUE, !.err = e]
    <3>2. net' = [net EXCEPT ![c] = m] /\ UNCHANGED sock
      BY <2>5 DEF Reset
    <3> HIDE DEF e
    <3>1. Safe(m)
      BY <1>1, <1>2 DEF Net, NetOf
    <3>3. QED
      BY <3>1, <3>2
  <2>6. QED
    BY <2>1, <2>2, <2>3, <2>4, <2>5 DEF Client
<1>4. PICK m : net' = [net EXCEPT ![c] = m] /\ Safe(m)
  BY <1>3
<1>5. ASSUME NEW b \in Conns, b # c PROVE net'[b] = net[b]
  BY <1>1, <1>4, <1>5
<1>6. ASSUME NEW b \in Conns, b # c PROVE Stream(b)'
  BY <1>1, <1>5, <1>6 DEF Stream
<1>7. net'[c] = m
  BY <1>1, <1>4
<1>8. Stream(c)'
  BY <1>4, <1>7 DEF Stream
<1>9. QED
  BY <1>3, <1>4, <1>5, <1>6, <1>7, <1>8

\* A step of a client: it sends, closes or resets.
LEMMA ClientCInv ==
  ASSUME IInv, CInv, Clients
  PROVE  CInv'
<1>1. PICK c \in Conns : Client(c)
  BY DEF Clients
<1>2. /\ UNCHANGED sock
      /\ \A b \in Conns :
              /\ net'[b].rd = net[b].rd /\ net'[b].wr = net[b].wr
              /\ net[b].rst => net'[b].rst
              /\ net[b].fin => net'[b].fin
              /\ net[b].rcvq # <<>> => net'[b].rcvq # <<>>
              /\ net[b].unread < SndCap => net'[b].unread < SndCap
              /\ \/ net'[b].phase = net[b].phase
                 \/ net[b].phase = "new" /\ net'[b].phase = "queued"
              /\ Stream(b)'
  BY <1>1, ClientEffect DEF CInv
<1>3. UNCHANGED <<fd_table, epoll_state, epoll_fds, interest, send_buf, sys_curtime,
                  current_dtime, now, events, current, pc, proc>>
  BY DEF Clients, processVars, timeVars
<1>4. EndsOnlyIf'
  BY <1>2, <1>3, EndsOnlyIfKept DEF CInv, Talk
<1>5. Talk'
  BY <1>2, <1>3, <1>4, SameTalk DEF CInv, IInv, TableOK, TableTypes
<1>6. ASSUME NEW e, Pends(e) PROVE Pends(e)'
  BY <1>2, <1>3, <1>6 DEF Pends, Caused
<1>7. HalfDone(current)'
  BY <1>2, <1>3 DEF HalfDone, Caused, CInv, EventsOK
<1>8. EventsOK'
  BY <1>3, <1>6, <1>7 DEF CInv, EventsOK
<1>9. ClockOK'
  BY <1>3 DEF CInv, ClockOK
<1>10. QED
  BY <1>5, <1>8, <1>9 DEF CInv

\* A tick of the clock passes no deadline that has been set.
LEMMA ClockCInv ==
  ASSUME IInv, CInv, Clock
  PROVE  CInv'
<1>1. UNCHANGED <<serverVars, proc>>
  BY DEF Clock, netVars, processVars, serverVars
<1>2. Talk' /\ \A e : (Pends(e) => Pends(e)') /\ (HalfDone(e) => HalfDone(e)')
  BY <1>1, TalkUnchanged DEF CInv
<1>3. UNCHANGED <<events, current, pc, sys_curtime, current_dtime>>
  BY DEF Clock, processVars, timeVars
<1>4. EventsOK'
  BY <1>2, <1>3 DEF CInv, EventsOK
<1>5. ClockOK'
  BY <1>3, CommAssumption DEF Clock, Tick, CInv, ClockOK, IInv, LoopTypes
<1>6. QED
  BY <1>2, <1>4, <1>5 DEF CInv

-----------------------------------------------------------------------------
(* The invariant. *)

\* No conversation has begun.
LEMMA InitCInv == Init => CInv
<1> SUFFICES ASSUME Init PROVE CInv
  OBVIOUS
<1>1. ListenFd \in Fds /\ ConnFds \subseteq Fds /\ ListenFd \notin ConnFds
  BY SocketsAssumption DEF Fds
<1>2. ASSUME NEW fd \in ConnFds PROVE Turn(fd) /\ Deadline(fd)
  BY <1>1 DEF Init, SocketsInit, Turn, Open, Deadline, EmptyFde
<1>3. ASSUME NEW c \in Conns PROVE History(c) /\ Stream(c)
  <2>1. /\ net[c].phase = "new" /\ net[c].rd = <<>> /\ net[c].wr = <<>> /\ net[c].rcvq = <<>>
        /\ net[c].sent = 0
    BY DEF Init, SocketsInit, NewNet
  <2>2. Len(<<>>) = 0
    BY EmptySeq
  <2>3. QED
    BY <2>1, <2>2, SocketsAssumption DEF History, Stream
<1>4. epoll_fds = Cardinality(Registrations)
  <2>1. Registrations = {ListenFd}
    BY <1>1 DEF Init, Registrations
  <2>2. QED
    BY <2>1, FS_Singleton DEF Init
<1>5. EndsOnlyIf
  BY DEF Init, EndsOnlyIf
<1>6. ClockOK
  <2>1. 0 \div TicksPerSec = 0
    BY CommAssumption
  <2>2. QED
    BY <2>1, SocketsAssumption DEF Init, SocketsInit, ClockOK
<1>7. EventsOK
  BY <1>1 DEF Init, EventsOK, HalfDone, NoEvent
<1>8. QED
  BY <1>2, <1>3, <1>4, <1>5, <1>6, <1>7 DEF CInv, Talk

\* Conversations stay in turn, whoever steps.
LEMMA NextCInv == IInv /\ CInv /\ [Next]_vars => CInv'
<1> SUFFICES ASSUME IInv, CInv, [Next]_vars PROVE CInv'
  OBVIOUS
<1>1. CASE UNCHANGED vars
  <2>1. UNCHANGED <<serverVars, proc>> /\ UNCHANGED <<events, current, pc, now, sys_curtime, current_dtime>>
    BY <1>1 DEF vars, timeVars
  <2>2. Talk' /\ \A e : (Pends(e) => Pends(e)') /\ (HalfDone(e) => HalfDone(e)')
    BY <2>1, TalkUnchanged DEF CInv
  <2>3. EventsOK' /\ ClockOK'
    BY <2>1, <2>2 DEF CInv, EventsOK, ClockOK
  <2>4. QED
    BY <2>2, <2>3 DEF CInv
<1>2. QED
  BY <1>1, ServerCInv, ClientCInv, ClockCInv DEF Next

\* What the proofs below use of every reachable state.
THEOREM ConversationInvariance == Spec => [](IInv /\ CInv)
<1>1. Init => IInv /\ CInv
  BY InitIInv, InitCInv
<1>2. (IInv /\ CInv) /\ [Next]_vars => (IInv /\ CInv)'
  BY NextIInv, NextCInv
<1>3. QED
  BY <1>1, <1>2, PTL DEF Spec

\* The framework's picture of what epoll watches is right, and it counts its
\* registrations.
THEOREM PictureIsRight == Spec => []EpollInSync
<1> SUFFICES ASSUME IInv, CInv PROVE EpollInSync
  BY ConversationInvariance, PTL
<1>1. \A fd \in ConnFds : Open(fd) <=> epoll_state[fd] # {}
  BY DEF IInv, TableOK, Fits
<1>2. ASSUME NEW fd \in Fds
      PROVE  interest[fd] = epoll_state[fd] \/ (CtlFails /\ interest[fd] = {})
  BY DEF IInv, TableOK, Fits, ListenerFits, Fds
<1>3. QED
  BY <1>1, <1>2 DEF CInv, Talk, Registrations, EpollInSync

\* No event is dispatched to a connection it was not reported for.
THEOREM EventsAreFresh == Spec => []EventsFresh
<1> SUFFICES ASSUME IInv, CInv PROVE EventsFresh
  BY ConversationInvariance, PTL
<1>1. \A e \in events : e.fd \in ConnFds => sock[e.fd] = e.conn /\ e.conn # NoConn
  BY SocketsAssumption DEF CInv, EventsOK, Pends
<1>2. current.fd \in ConnFds => sock[current.fd] \in {current.conn, NoConn}
  BY DEF CInv, EventsOK, HalfDone
<1>3. QED
  BY <1>1, <1>2 DEF EventsFresh

\* Every reply is the answer to the input it follows, and none is owed while the
\* server waits for input.
THEOREM RepliesAreAnswers == Spec => []RepliesMatchReads
<1> SUFFICES ASSUME IInv, CInv PROVE RepliesMatchReads
  BY ConversationInvariance, PTL
<1> SUFFICES ASSUME NEW c \in Conns
             PROVE  LET n == net[c] IN
                    /\ Len(n.wr) <= Len(n.rd) + 1
                    /\ \A i \in 2 .. Len(n.wr) : n.wr[i] = CString(n.rd[i - 1])
                    /\ ~n.rst => Len(n.wr) >= Len(n.rd)
                    /\ \A fd \in ConnFds : sock[fd] = c /\ epoll_state[fd] = {"IN"} /\ ~n.rst
                         => Len(n.wr) = Len(n.rd) + 1
  BY DEF RepliesMatchReads
<1>1. History(c)
  BY DEF CInv, Talk
<1>2. net[c].wr \in Seq(Seq(Chunks)) /\ net[c].rd \in Seq(Seq(Chunks))
  BY DEF IInv, TableOK, TableTypes, Net, NetOf
<1>3. Len(net[c].wr) \in Nat /\ Len(net[c].rd) \in Nat
  BY <1>2, LenProperties
<1>4. ASSUME NEW fd \in ConnFds, sock[fd] = c, epoll_state[fd] = {"IN"}
      PROVE  Len(net[c].wr) = Len(net[c].rd) + 1
  <2>1. Open(fd) /\ Turn(fd)
    BY <1>4, SocketsAssumption DEF Open, CInv, Talk
  <2>2. {"IN"} # {"OUT"}
    OBVIOUS
  <2>3. QED
    BY <1>4, <2>1, <2>2 DEF Turn
<1>5. QED
  BY <1>1, <1>3, <1>4 DEF History

\* Only a client that aborts, a descriptor epoll has refused to watch, or a
\* failed allocation can end the process.
THEOREM OnlyAbortsEndIt == Spec => []EndsOnlyIf
<1>1. CInv => EndsOnlyIf
  BY DEF CInv, Talk
<1>2. QED
  BY <1>1, ConversationInvariance, PTL

\* No deadline passes earlier than the clock's grain and one round before time.
THEOREM DeadlinesAreKept == Spec => []NotBeforeTime
<1>1. IInv /\ CInv => NotBeforeTime
  BY NothingEarly DEF CInv, Talk
<1>2. QED
  BY <1>1, ConversationInvariance, PTL

-----------------------------------------------------------------------------
(* The refinement of EchoService. *)

\* For the client c nothing has happened that EchoService speaks of.
Same(c) ==
  /\ Stage(c)' = Stage(c)
  /\ net'[c].rst = net[c].rst /\ net'[c].rd = net[c].rd /\ net'[c].wr = net[c].wr

\* The steps of one client's conversation.
SameInput(c) == net'[c].rst = net[c].rst /\ net'[c].rd = net[c].rd
SameTexts(c) == SameInput(c) /\ net'[c].wr = net[c].wr

Moves(c) ==
  \/ Stage(c) = "absent" /\ Stage(c)' = "greet" /\ SameTexts(c)
  \/ /\ Stage(c) = "greet" /\ Stage(c)' = "input" /\ ~net[c].rst
     /\ SameInput(c) /\ net'[c].wr = Append(net[c].wr, <<>>)
  \/ /\ Stage(c) = "input" \/ (Stage(c) = "answer" /\ net[c].rst)
     /\ Stage(c)' = "answer" /\ net'[c].rst = net[c].rst /\ net'[c].wr = net[c].wr
     /\ \E data \in Runs : net'[c].rd = Append(net[c].rd, data)
  \/ /\ Stage(c) = "answer" /\ Stage(c)' = "input" /\ ~net[c].rst
     /\ SameInput(c) /\ net'[c].wr = Append(net[c].wr, CString(net[c].rd[Len(net[c].rd)]))
  \/ /\ Stage(c)' = Stage(c) /\ ~net[c].rst /\ net'[c].rst = TRUE
     /\ net'[c].rd = net[c].rd /\ net'[c].wr = net[c].wr
  \/ Stage(c) \in {"greet", "input", "answer"} /\ Stage(c)' = "closed" /\ SameTexts(c)

\* A step of one client's conversation is a step of EchoService.
LEMMA ServiceStep ==
  ASSUME NEW c \in Conns, \A b \in Conns \ {c} : Same(b), Moves(c)
  PROVE  Service!Next
<1> DEFINE stage == [b \in Conns |-> Stage(b)]
           aborted == [b \in Conns |-> net[b].rst]
           rd == [b \in Conns |-> net[b].rd]
           wr == [b \in Conns |-> net[b].wr]
<1>1. ASSUME NEW x, Stage(c)' = x
      PROVE  [b \in Conns |-> Stage(b)'] = [stage EXCEPT ![c] = x]
  BY <1>1 DEF Same
<1>2. ASSUME NEW x, net'[c].rst = x
      PROVE  aborted' = [aborted EXCEPT ![c] = x]
  BY <1>2 DEF Same
<1>3. ASSUME NEW x, net'[c].rd = x
      PROVE  rd' = [rd EXCEPT ![c] = x]
  BY <1>3 DEF Same
<1>4. ASSUME NEW x, net'[c].wr = x
      PROVE  wr' = [wr EXCEPT ![c] = x]
  BY <1>4 DEF Same
<1>5. /\ net'[c].rst = net[c].rst => UNCHANGED aborted
      /\ net'[c].rd = net[c].rd => UNCHANGED rd
      /\ net'[c].wr = net[c].wr => UNCHANGED wr
  BY DEF Same
<1>6. Stage(c)' = Stage(c) => UNCHANGED stage
  BY DEF Same
<1>7. stage[c] = Stage(c) /\ aborted[c] = net[c].rst /\ rd[c] = net[c].rd /\ wr[c] = net[c].wr
  OBVIOUS
<1>8. ASSUME Stage(c) = "absent", Stage(c)' = "greet", SameTexts(c)
      PROVE  Service!Accept(c)
  BY <1>1, <1>5, <1>7, <1>8 DEF SameInput, SameTexts, Service!Accept
<1>9. ASSUME Stage(c) = "greet", Stage(c)' = "input", ~net[c].rst,
             SameInput(c), net'[c].wr = Append(net[c].wr, <<>>)
      PROVE  Service!Greet(c)
  BY <1>1, <1>4, <1>5, <1>7, <1>9 DEF SameInput, Service!Greet
<1>10. ASSUME Stage(c) = "input" \/ (Stage(c) = "answer" /\ net[c].rst), Stage(c)' = "answer",
              net'[c].rst = net[c].rst, net'[c].wr = net[c].wr,
              NEW data \in Runs, net'[c].rd = Append(net[c].rd, data)
       PROVE  Service!Input(c)
  BY <1>1, <1>3, <1>5, <1>7, <1>10 DEF Service!Input
<1>11. ASSUME Stage(c) = "answer", Stage(c)' = "input", ~net[c].rst, SameInput(c),
              net'[c].wr = Append(net[c].wr, CString(net[c].rd[Len(net[c].rd)]))
       PROVE  Service!Respond(c)
  BY <1>1, <1>4, <1>5, <1>7, <1>11 DEF SameInput, Service!Respond
<1>12. ASSUME Stage(c)' = Stage(c), ~net[c].rst, net'[c].rst = TRUE,
              net'[c].rd = net[c].rd, net'[c].wr = net[c].wr
       PROVE  Service!Abort(c)
  BY <1>2, <1>5, <1>6, <1>7, <1>12 DEF Service!Abort
<1>13. ASSUME Stage(c) \in {"greet", "input", "answer"}, Stage(c)' = "closed", SameTexts(c)
       PROVE  Service!Close(c)
  BY <1>1, <1>5, <1>7, <1>13 DEF SameInput, SameTexts, Service!Close
<1>14. QED
  BY <1>8, <1>9, <1>10, <1>11, <1>12, <1>13 DEF Moves, Service!Next

\* The stage of the connection behind an open descriptor.
StageAt(fd) ==
  IF epoll_state[fd] = {"IN"} THEN "input"
  ELSE IF fd_table[fd].write_handler = "do_welcome_handler" THEN "greet" ELSE "answer"

\* A connection that one descriptor is for is that descriptor's.
LEMMA OneDescriptor ==
  ASSUME NEW S, NEW f \in ConnFds, \A g \in ConnFds : S[g] = S[f] => g = f
  PROVE  (CHOOSE g \in ConnFds : S[g] = S[f]) = f
<1>1. \E g \in ConnFds : S[g] = S[f]
  OBVIOUS
<1>2. QED
  BY <1>1

\* Where the service sees a connection is where its descriptor is.
LEMMA OpenStage ==
  ASSUME IInv, NEW fd \in ConnFds, Open(fd), NEW c, c = sock[fd]
  PROVE  Stage(c) = StageAt(fd)
<1>1. net[c].phase = "open" /\ \A g \in ConnFds : sock[g] = sock[fd] => g = fd
  BY DEF IInv, TableOK, Fits, OnePlace, Open
<1>2. (CHOOSE f \in ConnFds : sock[f] = c) = fd
  BY <1>1, OneDescriptor
<1>3. QED
  BY <1>1, <1>2 DEF Stage, StageAt

\* The same after the step.
LEMMA OpenStageNext ==
  ASSUME IInv', NEW fd \in ConnFds, Open(fd)', NEW c, c = sock'[fd]
  PROVE  Stage(c)' = StageAt(fd)'
<1>1. net'[c].phase = "open" /\ \A g \in ConnFds : sock'[g] = sock'[fd] => g = fd
  BY DEF IInv, TableOK, Fits, OnePlace, Open
<1>2. (CHOOSE f \in ConnFds : sock'[f] = c) = fd
  BY <1>1, OneDescriptor
<1>3. QED
  BY <1>1, <1>2 DEF Stage, StageAt

\* Nothing happens to a client while the server works for another, or for none.
LEMMA SameStage ==
  ASSUME IInv, CInv, IInv', NEW b \in Conns,
         \/ net'[b].phase = net[b].phase
         \/ net[b].phase = "new" /\ net'[b].phase = "queued",
         \A f \in ConnFds : sock[f] = b =>
           sock'[f] = b /\ fd_table'[f] = fd_table[f] /\ epoll_state'[f] = epoll_state[f]
  PROVE  Stage(b)' = Stage(b)
<1>1. CASE net[b].phase # "open"
  BY <1>1 DEF Stage
<1>2. CASE net[b].phase = "open"
  <2>1. PICK f \in ConnFds : sock[f] = b
    BY <1>2 DEF CInv, Talk, History
  <2>2. Open(f) /\ Open(f)' /\ sock'[f] = b
    BY <2>1, SocketsAssumption DEF Open
  <2>3. Stage(b) = StageAt(f) /\ Stage(b)' = StageAt(f)'
    BY <2>1, <2>2, OpenStage, OpenStageNext
  <2>4. StageAt(f)' = StageAt(f)
    BY <2>1 DEF StageAt
  <2>5. QED
    BY <2>3, <2>4
<1>3. QED
  BY <1>1, <1>2

\* A step for one descriptor changes nothing the service sees of another's connection.
LEMMA ApartSame ==
  ASSUME IInv, CInv, IInv', NEW fd \in ConnFds, Apart(fd), NEW b \in Conns, sock[fd] # b,
         net'[b] = net[b]
  PROVE  Same(b)
<1>1. \A f \in ConnFds : sock[f] = b =>
        sock'[f] = b /\ fd_table'[f] = fd_table[f] /\ epoll_state'[f] = epoll_state[f]
  BY DEF Apart
<1>2. QED
  BY <1>1, SameStage DEF Same

\* A handler that goes on.
LEMMA ServesMoves ==
  ASSUME IInv, CInv, IInv', NEW fd \in ConnFds, Open(fd), NEW c, c = sock[fd],
         Apart(fd), NEW F, NEW ev \in {{"IN"}, {"OUT"}}, NEW m, Serves(fd, F, ev, m)
  PROVE  /\ c \in Conns /\ net[c] \in Net /\ net'[c] = m
         /\ \A b \in Conns \ {c} : Same(b)
         /\ Stage(c) = StageAt(fd)
         /\ Stage(c)' = IF ev = {"IN"} THEN "input"
                        ELSE IF F.write_handler = "do_welcome_handler" THEN "greet" ELSE "answer"
<1>1. /\ c \in Conns /\ net[c] \in Net /\ fd \in Fds
      /\ net \in [Conns -> Net] /\ fd_table \in [Fds -> Fde]
      /\ epoll_state \in [Fds -> Interest]
  BY OpenTypes
<1>2. /\ net'[c] = m /\ \A b \in Conns \ {c} : net'[b] = net[b]
      /\ sock' = sock /\ fd_table'[fd] = F /\ epoll_state'[fd] = ev
  BY <1>1 DEF Serves
<1>3. Open(fd)'
  BY <1>2 DEF Open
<1>4. Stage(c) = StageAt(fd) /\ Stage(c)' = StageAt(fd)'
  BY <1>2, <1>3, OpenStage, OpenStageNext
<1>5. StageAt(fd)' = IF ev = {"IN"} THEN "input"
                     ELSE IF F.write_handler = "do_welcome_handler" THEN "greet" ELSE "answer"
  BY <1>2 DEF StageAt
<1>6. \A b \in Conns \ {c} : Same(b)
  BY <1>2, ApartSame
<1>7. QED
  BY <1>1, <1>2, <1>4, <1>5, <1>6

\* One read returns adjacent chunks.
LEMMA ReadableRuns ==
  ASSUME IInv, CInv, NEW c \in Conns, NEW data \in Readable(c)
  PROVE  data \in Runs
<1> DEFINE q == net[c].rcvq
           s == net[c].sent
           a == s - Len(q) + 1
<1>1. q \in Seq(Chunks) /\ s \in Nat /\ Len(q) \in Nat
  <2>1. net[c] \in Net
    BY DEF IInv, TableOK, TableTypes
  <2>2. QED
    BY <2>1, LenProperties DEF Net, NetOf
<1>2. /\ Len(q) <= s /\ s <= MaxMsgs
      /\ \A i \in 1 .. Len(q) : q[i] = s - Len(q) + i
  BY DEF CInv, Talk, Stream
<1>3. PICK k \in 1 .. Len(q) : data = SubSeq(q, 1, k)
  BY DEF Readable
<1> DEFINE b == a + k - 1
<1> HIDE DEF q, s
<1>4. a \in Chunks /\ b \in Chunks /\ b - a + 1 = k
  BY <1>1, <1>2, <1>3, SocketsAssumption DEF Chunks
<1>5. data \in Seq(Chunks) /\ Len(data) = k /\ \A i \in 1 .. k : data[i] = q[i]
  <2>1. \A i \in 1 .. k : q[i] \in Chunks
    BY <1>1, <1>3, ElementOfSeq
  <2>2. /\ data \in Seq(Chunks)
        /\ Len(data) = IF 1 <= k THEN k - 1 + 1 ELSE 0
        /\ \A i \in 1 .. k - 1 + 1 : data[i] = q[1 + i - 1]
    BY <1>1, <1>3, <2>1, SubSeqProperties
  <2>3. Len(data) = k
    BY <1>1, <1>3, <2>2
  <2>4. ASSUME NEW i \in 1 .. k PROVE data[i] = q[i]
    <3>1. i \in 1 .. k - 1 + 1 /\ 1 + i - 1 = i
      BY <1>1, <1>3
    <3>2. QED
      BY <2>2, <3>1
  <2>5. QED
    BY <2>2, <2>3, <2>4
<1>6. \A i \in 1 .. k : data[i] = a + i - 1
  BY <1>1, <1>2, <1>3, <1>5
<1> DEFINE run == [i \in 1 .. b - a + 1 |-> a + i - 1]
<1>7. data \in [1 .. k -> Chunks]
  BY <1>5, LenProperties
<1>8. data = run
  BY <1>4, <1>6, <1>7
<1>9. data # <<>>
  BY <1>1, <1>3, <1>5, EmptySeq
<1> HIDE DEF a, b
<1>10. QED
  BY <1>4, <1>8, <1>9 DEF Runs

\* A greeting is the service's greeting, an answer its answer.
LEMMA RepliesMoves ==
  ASSUME IInv, CInv, IInv', NEW fd \in ConnFds, Open(fd), CanWrite(fd), NEW c, c = sock[fd],
         Greets(fd) \/ Answers(fd)
  PROVE  Service!Next
<1> DEFINE n == net[c]
<1>1. Apart(fd)
  BY RepliesTalk DEF CInv
<1>2. Turn(fd) /\ epoll_state[fd] = {"OUT"} /\ ~n.rst /\ {"IN"} # {"OUT"}
  BY DEF CInv, Talk, Greets, Answers, CanWrite
<1>3. CASE Greets(fd)
  <2>1. PICK F : F.write_handler = "do_welcome_handler" /\ Serves(fd, F, {"IN"}, Written(n, <<>>))
    BY <1>3 DEF Greets
  <2>2. /\ c \in Conns /\ n \in Net /\ net'[c] = Written(n, <<>>)
        /\ \A b \in Conns \ {c} : Same(b)
        /\ Stage(c) = StageAt(fd) /\ Stage(c)' = "input"
    BY <1>1, <2>1, ServesMoves
  <2>3. Stage(c) = "greet"
    BY <1>2, <1>3, <2>2 DEF StageAt, Greets
  <2>4. net'[c].rst = n.rst /\ net'[c].rd = n.rd /\ net'[c].wr = Append(n.wr, <<>>)
    <3>1. \A d \in Seq(Chunks) : LET m == Written(n, d) IN
            m.rst = n.rst /\ m.rd = n.rd /\ m.wr = Append(n.wr, d)
      BY <2>2, WrittenType
    <3>2. <<>> \in Seq(Chunks)
      BY EmptySeq
    <3>3. LET m == Written(n, <<>>) IN m.rst = n.rst /\ m.rd = n.rd /\ m.wr = Append(n.wr, <<>>)
      BY <3>1, <3>2, Zenon
    <3>4. QED
      BY <2>2, <3>3
  <2>5. Moves(c)
    BY <1>2, <2>2, <2>3, <2>4 DEF Moves, SameInput
  <2>6. QED
    BY <2>2, <2>5, ServiceStep
<1>4. CASE Answers(fd)
  <2> DEFINE data == CString(send_buf[c])
  <2>1. PICK F : F.write_handler = "do_echo_response" /\ Serves(fd, F, {"IN"}, Written(n, data))
    BY <1>4 DEF Answers
  <2>2. /\ c \in Conns /\ n \in Net /\ net'[c] = Written(n, data)
        /\ \A b \in Conns \ {c} : Same(b)
        /\ Stage(c) = StageAt(fd) /\ Stage(c)' = "input"
    BY <1>1, <2>1, ServesMoves
  <2>3. Stage(c) = "answer" /\ send_buf[c] = n.rd[Len(n.rd)]
    BY <1>2, <1>4, <2>2 DEF StageAt, Answers, Turn
  <2>4. data \in Seq(Chunks)
    BY <2>2, CStringType DEF IInv, LoopTypes
  <2>5. net'[c].rst = n.rst /\ net'[c].rd = n.rd /\ net'[c].wr = Append(n.wr, data)
    BY <2>2, <2>4, WrittenType, SMTT(30)
  <2>6. Moves(c)
    BY <1>2, <2>2, <2>3, <2>5 DEF Moves, SameInput
  <2>7. QED
    BY <2>2, <2>6, ServiceStep
<1>5. QED
  BY <1>3, <1>4

\* A read() is the service's taking of a line.
LEMMA ReadsMoves ==
  ASSUME IInv, CInv, IInv', NEW fd \in ConnFds, Open(fd), CanRead(fd), NEW c, c = sock[fd],
         NEW data \in Readable(c), Reads(fd, data)
  PROVE  Service!Next
<1> DEFINE n == net[c]
<1>1. Apart(fd)
  BY ReadsTalk DEF CInv
<1>2. Turn(fd) /\ {"IN"} # {"OUT"} /\ fd_table[fd].read_handler # NoHandler
      /\ (n.rst \/ epoll_state[fd] = {"IN"})
  BY DEF CInv, Talk, Reads, CanRead, NoHandler
<1>3. PICK F : F.write_handler = "do_echo_response" /\ Serves(fd, F, {"OUT"}, Consumed(n, data))
  BY DEF Reads
<1>4. /\ c \in Conns /\ n \in Net /\ net'[c] = Consumed(n, data)
      /\ \A b \in Conns \ {c} : Same(b)
      /\ Stage(c) = StageAt(fd) /\ Stage(c)' = "answer"
  BY <1>1, <1>2, <1>3, ServesMoves
<1>5. Stage(c) = "input" \/ (Stage(c) = "answer" /\ n.rst)
  BY <1>2, <1>4 DEF StageAt, Turn
<1>6. data \in Runs /\ data \in Seq(Chunks)
  BY <1>4, ReadableRuns, ReadableType
<1>7. net'[c].rst = n.rst /\ net'[c].wr = n.wr /\ net'[c].rd = Append(n.rd, data)
  BY <1>4, <1>6, ConsumedType
<1>8. Moves(c)
  BY <1>4, <1>5, <1>6, <1>7 DEF Moves
<1>9. QED
  BY <1>4, <1>8, ServiceStep

\* close() of a descriptor ends the service's conversation.
LEMMA ClosesMoves ==
  ASSUME IInv, CInv, IInv', proc = "running", NEW fd \in ConnFds, Open(fd), Closes(fd), NEW c, c = sock[fd]
  PROVE  Service!Next
<1>1. Apart(fd)
  BY ClosesTalk DEF CInv
<1>2. /\ c \in Conns /\ net[c] \in Net /\ net \in [Conns -> Net] /\ net[c].phase = "open"
  BY OpenTypes
<1>3. net' = [net EXCEPT ![c] = [net[c] EXCEPT !.phase = "closed"]]
  BY DEF Closes, comm_close, Close
<1>4. \A b \in Conns \ {c} : Same(b)
  BY <1>1, <1>2, <1>3, ApartSame
<1>5. /\ net'[c].phase = "closed" /\ net'[c].rst = net[c].rst
      /\ net'[c].rd = net[c].rd /\ net'[c].wr = net[c].wr
  BY <1>2, <1>3 DEF Net, NetOf
<1>6. Stage(c)' = "closed" /\ Stage(c) \in {"input", "greet", "answer"}
  BY <1>2, <1>5 DEF Stage
<1>7. Moves(c)
  BY <1>5, <1>6 DEF Moves, SameInput, SameTexts
<1>8. QED
  BY <1>2, <1>4, <1>7, ServiceStep

\* Nothing a client could see changes.
LEMMA Stutters ==
  ASSUME IInv, CInv, IInv', UNCHANGED <<sock, fd_table, epoll_state>>,
         \A c \in Conns :
           /\ net'[c].rd = net[c].rd /\ net'[c].wr = net[c].wr /\ net'[c].rst = net[c].rst
           /\ \/ net'[c].phase = net[c].phase
              \/ net[c].phase = "new" /\ net'[c].phase = "queued"
  PROVE  UNCHANGED Service!vars
<1>1. \A c \in Conns : Stage(c)' = Stage(c)
  BY SameStage
<1>2. QED
  BY <1>1 DEF Service!vars

\* A failed call.
LEMMA FailsStutters ==
  ASSUME IInv, CInv, IInv', NEW fd \in ConnFds, Open(fd), ReadFails(fd) \/ WriteFails(fd)
  PROVE  UNCHANGED Service!vars
<1>1. sock[fd] \in Conns /\ net \in [Conns -> Net]
  BY OpenTypes
<1>2. UNCHANGED <<sock, fd_table, epoll_state>>
  BY DEF ReadFails, WriteFails, Crashes, LogError, Die, serverVars, ReadError, WriteError
<1>3. net' = net \/ net' = [net EXCEPT ![sock[fd]] = [net[sock[fd]] EXCEPT !.err = "none"]]
  BY DEF ReadFails, WriteFails, Crashes, Die, serverVars, ReadError, WriteError
<1>4. ASSUME NEW c \in Conns
      PROVE  /\ net'[c].rd = net[c].rd /\ net'[c].wr = net[c].wr /\ net'[c].rst = net[c].rst
             /\ net'[c].phase = net[c].phase
  <2>1. net[c] \in Net
    BY <1>1
  <2>2. net'[c] = net[c] \/ net'[c] = [net[c] EXCEPT !.err = "none"]
    BY <1>1, <1>3
  <2>3. QED
    BY <2>1, <2>2 DEF Net, NetOf
<1>5. QED
  BY <1>2, <1>4, Stutters

\* accept() begins a conversation of the service, or fails without one.
LEMMA AcceptMoves ==
  ASSUME IInv, CInv, IInv', proc = "running", accept_connection
  PROVE  Service!Next \/ UNCHANGED Service!vars
<1>1. CASE UNCHANGED <<fd_table, epoll_state, epoll_fds, interest, netVars, heap, proc>>
  BY <1>1, Stutters DEF netVars
<1>2. ASSUME NEW new_fd \in FreeFds, NEW ok \in {TRUE, ~AllocFails},
             NEW stat, stat = IF ok THEN Head(acceptq) ELSE NULL,
             NEW F, F = commSetTimeout(commUpdateWriteHandler(fd_table[new_fd], "do_welcome_handler", stat),
                                       WelcomeTimeout, "do_echo_timeout", stat),
             Accept(new_fd), Install(new_fd, F, {"OUT"})
      PROVE  Service!Next
  <2>1. acceptq # <<>> /\ UNCHANGED send_buf
    BY DEF accept_connection
  <2>2. new_fd \in ConnFds /\ sock[new_fd] = NoConn
    BY DEF FreeFds
  <2>3. PICK c : c = Head(acceptq)
    OBVIOUS
  <2>4. /\ Apart(new_fd)
        /\ c \in Conns /\ net[c] \in Net /\ net[c].phase = "queued"
        /\ net' = [net EXCEPT ![c] = [net[c] EXCEPT !.phase = "open"]]
        /\ sock'[new_fd] = c /\ epoll_state'[new_fd] = {"OUT"}
        /\ fd_table'[new_fd].write_handler = "do_welcome_handler"
    BY <1>2, <2>1, <2>3, OpensTalk DEF CInv
  <2>5. net \in [Conns -> Net]
    BY DEF IInv, TableOK, TableTypes
  <2>6. ASSUME NEW b \in Conns \ {c} PROVE Same(b)
    <3>1. net'[b] = net[b] /\ sock[new_fd] # b
      BY <2>2, <2>4, <2>5, SocketsAssumption
    <3>2. QED
      BY <2>2, <2>4, <3>1, ApartSame
  <2>7. /\ net'[c].rst = net[c].rst /\ net'[c].rd = net[c].rd /\ net'[c].wr = net[c].wr
    BY <2>4, <2>5 DEF Net, NetOf
  <2>8. Stage(c) = "absent"
    BY <2>4 DEF Stage
  <2>9. Stage(c)' = "greet"
    <3>1. Open(new_fd)'
      BY <2>4, SocketsAssumption DEF Open
    <3>2. Stage(c)' = StageAt(new_fd)'
      BY <2>2, <2>4, <3>1, OpenStageNext
    <3>3. {"OUT"} # {"IN"}
      OBVIOUS
    <3>4. QED
      BY <2>4, <3>2, <3>3 DEF StageAt
  <2>10. Moves(c)
    BY <2>7, <2>8, <2>9 DEF Moves, SameInput, SameTexts
  <2>11. QED
    BY <2>4, <2>6, <2>10, ServiceStep
<1>3. QED
  BY <1>1, <1>2 DEF accept_connection

\* A step of a client: an abort, or nothing that EchoService speaks of.
LEMMA ClientMoves ==
  ASSUME IInv, CInv, IInv', NEW c \in Conns, Client(c), UNCHANGED <<fd_table, epoll_state>>
  PROVE  Service!Next \/ UNCHANGED Service!vars
<1>1. /\ UNCHANGED sock
      /\ \A b \in Conns :
              /\ net'[b].rd = net[b].rd /\ net'[b].wr = net[b].wr
              /\ net[b].rst => net'[b].rst
              /\ \/ net'[b].phase = net[b].phase
                 \/ net[b].phase = "new" /\ net'[b].phase = "queued"
  BY ClientEffect DEF CInv
<1>2. net \in [Conns -> Net] /\ net[c] \in Net
  BY DEF IInv, TableOK, TableTypes
<1>3. \A b \in Conns : Stage(b)' = Stage(b)
  BY <1>1, SameStage
<1>4. CASE Reset(c)
  <2>1. ~net[c].rst
    BY <1>4 DEF Reset, Alive
  <2>2. net'[c].rst = TRUE /\ \A b \in Conns \ {c} : net'[b] = net[b]
    BY <1>2, <1>4 DEF Reset, Net, NetOf
  <2>3. Moves(c) /\ \A b \in Conns \ {c} : Same(b)
    BY <1>1, <1>3, <2>1, <2>2 DEF Moves, Same
  <2>4. QED
    BY <2>3, ServiceStep
<1>5. CASE ~Reset(c)
  <2>1. net'[c].rst = net[c].rst /\ \A b \in Conns \ {c} : net'[b] = net[b]
    BY <1>2, <1>5 DEF Client, Connect, Send, Receive, Fin, Net, NetOf
  <2>2. \A b \in Conns : net'[b].rst = net[b].rst
    BY <2>1
  <2>3. UNCHANGED Service!vars
    BY <1>1, <2>2, Stutters
  <2>4. QED
    BY <2>3
<1>6. QED
  BY <1>4, <1>5

\* A step of the server is one of the service, or the service sees nothing.
LEMMA ServerMoves ==
  ASSUME IInv, CInv, IInv', Server
  PROVE  Service!Next \/ UNCHANGED Service!vars
<1>1. ASSUME UNCHANGED serverVars PROVE UNCHANGED Service!vars
  BY <1>1, Stutters DEF serverVars
<1>2. ASSUME NEW fd \in Fds, ExpireTimeout(fd)
      PROVE  Service!Next \/ UNCHANGED Service!vars
  <2>1. fd \in ConnFds /\ Open(fd) /\ (Closes(fd) \/ Crashes(fd)) /\ proc = "running"
    BY <1>2, TimeoutEffect DEF IInv, ExpireTimeout, At
  <2>2. QED
    BY <1>1, <2>1, ClosesMoves DEF Crashes
<1>3. ASSUME NEW e \in events, CallReadHandler(e)
      PROVE  Service!Next \/ UNCHANGED Service!vars
  BY <1>1, <1>3, ReadHalfEffect, AcceptMoves, ReadsMoves, ClosesMoves, FailsStutters
     DEF CallReadHandler, At
<1>4. ASSUME CallWriteHandler
      PROVE  Service!Next \/ UNCHANGED Service!vars
  BY <1>1, <1>4, WriteHalfEffect, RepliesMoves, FailsStutters
<1>5. QED
  BY <1>1, <1>2, <1>3, <1>4
     DEF Server, StartSelect, EndTimeouts, EpollWait, EpollTimeout, EndSelect

\* A step of anybody is one of the service, or the service sees nothing.
LEMMA NextMoves ==
  ASSUME IInv, CInv, IInv', [Next]_vars
  PROVE  [Service!Next]_Service!vars
<1>1. CASE Server
  BY <1>1, ServerMoves
<1>2. CASE Clients
  BY <1>2, ClientMoves DEF Clients, processVars
<1>3. CASE Clock \/ UNCHANGED vars
  <2>1. UNCHANGED <<sock, net, fd_table, epoll_state>>
    BY <1>3 DEF Clock, netVars, processVars, vars, serverVars
  <2>2. QED
    BY <2>1, Stutters
<1>4. QED
  BY <1>1, <1>2, <1>3 DEF Next

\* The echo server keeps the promise of EchoService to each of its clients:
\* main.c's handlers, the tables of comm.c and the loop implement it.
THEOREM EchoImplementsService == Spec => ServesEcho
<1>1. Init => Service!Init
  <2> SUFFICES ASSUME Init PROVE Service!Init
    OBVIOUS
  <2>1. \A c \in Conns : /\ Stage(c) = "absent" /\ net[c].rst = FALSE
                         /\ net[c].rd = <<>> /\ net[c].wr = <<>>
    BY DEF Init, SocketsInit, NewNet, Stage
  <2>2. QED
    BY <2>1 DEF Service!Init
<1>2. (IInv /\ CInv) /\ (IInv /\ CInv)' /\ [Next]_vars => [Service!Next]_Service!vars
  BY NextMoves
<1>3. QED
  BY <1>1, <1>2, ConversationInvariance, PTL DEF Spec, ServesEcho, Service!Spec
====

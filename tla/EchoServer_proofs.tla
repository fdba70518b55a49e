-------------------------- MODULE EchoServer_proofs --------------------------
(***************************************************************************)
(* Proofs about EchoServer, for any number of clients and descriptors, any *)
(* timeouts and any bounds.                                                *)
(***************************************************************************)
EXTENDS EchoServer, SequenceTheorems, FiniteSetTheorems, WellFoundedInduction, TLAPS

\* What the framework's table and the epoll state hold for a descriptor agrees
\* with whether, and for which connection, the descriptor is open.
Fits(fd) ==
  LET F == fd_table[fd] IN
  IF Open(fd)
  THEN /\ net[sock[fd]].phase = "open"
       /\ F.timeout # 0 /\ F.timeout_handler = "do_echo_timeout"
       /\ F.timeout_data \in {sock[fd], NULL}
       /\ F.read_handler \in {NoHandler, "do_echo_handler"}
       /\ F.write_handler \in {"do_welcome_handler", "do_echo_response"}
       /\ F.read_handler # NoHandler => F.read_data = F.timeout_data
       /\ F.write_data = F.timeout_data
       /\ F.write_handler = "do_echo_response" => F.write_data # NULL
       /\ epoll_state[fd] # {}
       /\ interest[fd] = epoll_state[fd] \/ (CtlFails /\ interest[fd] = {})
  ELSE F = EmptyFde /\ epoll_state[fd] = {} /\ interest[fd] = {}

\* The listening socket is never touched after start.
ListenerFits ==
  /\ fd_table[ListenFd] = commUpdateReadHandler(EmptyFde, "accept_connection", NULL)
  /\ epoll_state[ListenFd] = {"IN"} /\ interest[ListenFd] = {"IN"}

\* A connection is in at most one place: in the queue or behind a descriptor.
OnePlace ==
  /\ \A i \in 1 .. Len(acceptq) : net[acceptq[i]].phase = "queued"
  /\ \A i, j \in 1 .. Len(acceptq) : acceptq[i] = acceptq[j] => i = j
  /\ \A f, g \in ConnFds : Open(f) /\ sock[f] = sock[g] => f = g

\* A ConnectStat is allocated exactly while a descriptor's deadline refers to it.
HeapFits ==
  \A c \in Conns : c \in heap <=> \E fd \in ConnFds : Open(fd) /\ fd_table[fd].timeout_data = c

TableTypes ==
  /\ acceptq \in Seq(Conns)
  /\ sock \in [ConnFds -> Conns \cup {NoConn}]
  /\ net \in [Conns -> Net]
  /\ interest \in [Fds -> Interest]
  /\ fd_table \in [Fds -> Fde]
  /\ epoll_state \in [Fds -> Interest]
  /\ epoll_fds \in Int
  /\ heap \subseteq Conns

TableOK ==
  /\ TableTypes
  /\ \A fd \in ConnFds : Fits(fd)
  /\ ListenerFits
  /\ OnePlace
  /\ HeapFits

LoopTypes ==
  /\ now \in Nat
  /\ sys_curtime \in Nat /\ current_dtime \in Nat /\ last_timeout \in Nat
  /\ send_buf \in [Conns -> Seq(Chunks)]
  /\ events \subseteq Event
  /\ current \in Event
  /\ pc \in {"comm_select", "checkTimeouts", "epoll_wait", "dispatch", "write_event",
             "getCurrentTime"}
  /\ proc \in {"running", "SIGSEGV", "SIGPIPE", "SIGABRT"}

IInv == TableOK /\ LoopTypes

-----------------------------------------------------------------------------
(* The state of a connection keeps its type under every system call. *)

KeepsPhase(n) == {m \in Net : m.phase = n.phase}

\* What is done to a connection leaves a connection.
LEMMA NetType ==
  ASSUME NEW n \in Net
  PROVE  /\ \A p \in {"new", "queued", "open", "closed"} : [n EXCEPT !.phase = p] \in Net
         /\ [n EXCEPT !.fin = TRUE] \in KeepsPhase(n)
         /\ [n EXCEPT !.err = "none"] \in KeepsPhase(n)
         /\ \A e \in {"EPIPE", "ECONNRESET"} :
              [n EXCEPT !.rst = TRUE, !.err = e] \in KeepsPhase(n)
         /\ n.unread > 0 => [n EXCEPT !.unread = @ - 1] \in KeepsPhase(n)
         /\ n.sent < MaxMsgs =>
              [n EXCEPT !.sent = @ + 1, !.rcvq = Append(@, n.sent + 1)] \in KeepsPhase(n)
         /\ \A d \in Seq(Chunks) :
              /\ [n EXCEPT !.unread = @ + 1, !.wr = Append(@, d)] \in KeepsPhase(n)
              /\ Len(d) <= Len(n.rcvq) =>
                   [n EXCEPT !.rcvq = SubSeq(@, Len(d) + 1, Len(@)), !.rd = Append(@, d)]
                     \in KeepsPhase(n)
<1>1. n.sent < MaxMsgs => n.sent + 1 \in Chunks
  BY SocketsAssumption DEF Net, NetOf, Chunks
<1>2. n.sent < MaxMsgs => Append(n.rcvq, n.sent + 1) \in Seq(Chunks)
  BY <1>1, AppendProperties DEF Net, NetOf
<1>3. ASSUME NEW d \in Seq(Chunks)
      PROVE  Append(n.wr, d) \in Seq(Seq(Chunks)) /\ Append(n.rd, d) \in Seq(Seq(Chunks))
  BY AppendProperties DEF Net, NetOf
<1>4. ASSUME NEW d \in Seq(Chunks), Len(d) <= Len(n.rcvq)
      PROVE  SubSeq(n.rcvq, Len(d) + 1, Len(n.rcvq)) \in Seq(Chunks)
  <2>1. n.rcvq \in Seq(Chunks)
    BY DEF Net, NetOf
  <2>2. Len(d) \in Nat /\ Len(n.rcvq) \in Nat
    BY <2>1, LenProperties
  <2>3. QED
    BY <2>1, <2>2, <1>4, SubSeqProperties
<1>5. ASSUME NEW p \in {"new", "queued", "open", "closed"} PROVE [n EXCEPT !.phase = p] \in Net
  BY DEF Net, NetOf
<1>6. [n EXCEPT !.fin = TRUE] \in KeepsPhase(n)
  BY DEF Net, NetOf, KeepsPhase
<1>7. [n EXCEPT !.err = "none"] \in KeepsPhase(n)
  BY DEF Net, NetOf, KeepsPhase
<1>8. ASSUME NEW e \in {"EPIPE", "ECONNRESET"} PROVE [n EXCEPT !.rst = TRUE, !.err = e] \in KeepsPhase(n)
  BY DEF Net, NetOf, KeepsPhase
<1>9. ASSUME NEW k \in Nat PROVE [n EXCEPT !.unread = k] \in KeepsPhase(n)
  BY DEF Net, NetOf, KeepsPhase
<1>10. ASSUME NEW k \in Nat, NEW q \in Seq(Chunks)
       PROVE  [n EXCEPT !.sent = k, !.rcvq = q] \in KeepsPhase(n)
  BY DEF Net, NetOf, KeepsPhase
<1>11. ASSUME NEW k \in Nat, NEW q \in Seq(Seq(Chunks))
       PROVE  [n EXCEPT !.unread = k, !.wr = q] \in KeepsPhase(n)
  BY DEF Net, NetOf, KeepsPhase
<1>12. ASSUME NEW q \in Seq(Chunks), NEW r \in Seq(Seq(Chunks))
       PROVE  [n EXCEPT !.rcvq = q, !.rd = r] \in KeepsPhase(n)
  BY DEF Net, NetOf, KeepsPhase
<1>13. /\ n.sent + 1 \in Nat /\ n.unread + 1 \in Nat
       /\ n.unread > 0 => n.unread - 1 \in Nat
  BY DEF Net, NetOf
<1>14. QED
  BY <1>2, <1>3, <1>4, <1>5, <1>6, <1>7, <1>8, <1>9, <1>10, <1>11, <1>12, <1>13

\* commSetTimeout with a handler arms a deadline and keeps the other handlers.
LEMMA SetTimeoutType ==
  ASSUME NEW F \in Fde, NEW t \in Nat \ {0}, NEW h \in Handlers \ {NoHandler},
         NEW d \in Conns \cup {NULL}, LoopTypes
  PROVE  LET G == commSetTimeout(F, t, h, d) IN
         /\ G \in Fde
         /\ G.timeout # 0 /\ G.timeout = sys_curtime + t
         /\ G.armed = now /\ G.period = t
         /\ G.timeout_handler = h /\ G.timeout_data = d
         /\ G.read_handler = F.read_handler /\ G.read_data = F.read_data
         /\ G.write_handler = F.write_handler /\ G.write_data = F.write_data
<1>1. sys_curtime \in Nat /\ now \in Nat /\ sys_curtime + t \in Nat \ {0} /\ ~(t < 0)
  BY DEF LoopTypes
<1>2. commSetTimeout(F, t, h, d) =
        [F EXCEPT !.timeout_handler = h, !.timeout_data = d, !.timeout = sys_curtime + t,
                  !.armed = now, !.period = t]
  BY <1>1 DEF commSetTimeout
<1>3. QED
  BY <1>1, <1>2 DEF Fde

-----------------------------------------------------------------------------
(* One lemma for each way a step can change the tables. *)

\* Nothing but the state of a connection changes, and no connection is opened
\* or closed by it.
LEMMA QuietStep ==
  ASSUME TableOK,
         UNCHANGED <<acceptq, sock, interest, fd_table, epoll_state, epoll_fds, heap>>,
         net' \in [Conns -> Net],
         \A c \in Conns : net'[c].phase = net[c].phase
  PROVE  TableOK'
<1>1. TableTypes'
  BY DEF TableOK, TableTypes
<1>2. ASSUME NEW fd \in ConnFds PROVE Fits(fd)'
  BY <1>2, SocketsAssumption DEF TableOK, TableTypes, Fits, Open
<1>3. ListenerFits'
  BY DEF TableOK, ListenerFits, commUpdateReadHandler, EmptyFde
<1>4. OnePlace'
  <2>1. \A i \in 1 .. Len(acceptq) : acceptq[i] \in Conns
    BY ElementOfSeq DEF TableOK, TableTypes
  <2>2. QED
    BY <2>1 DEF TableOK, OnePlace, Open
<1>5. HeapFits'
  BY DEF TableOK, HeapFits, Open
<1>6. QED
  BY <1>1, <1>2, <1>3, <1>4, <1>5 DEF TableOK

\* Watching a descriptor for something else asks the kernel, and leaves a known
\* way to end.
LEMMA InstallCalls ==
  ASSUME NEW fd, NEW F, NEW ev, Install(fd, F, ev)
  PROVE  /\ ev # epoll_state[fd] =>
              CtlDone(CtlOp(fd, ev), fd, ev) \/ CtlRefused(CtlOp(fd, ev), fd)
         /\ proc' \in {proc, "running", "SIGSEGV"}
BY DEF Install, epollSetEvents, xstrerror

\* A handler stores a new entry for its descriptor.
LEMMA InstallStep ==
  ASSUME TableOK,
         NEW fd \in ConnFds, Open(fd),
         NEW F \in Fde, NEW ev \in {{"IN"}, {"OUT"}},
         F.timeout # 0, F.timeout_handler = "do_echo_timeout",
         F.timeout_data = fd_table[fd].timeout_data,
         F.read_handler \in {NoHandler, "do_echo_handler"},
         F.write_handler \in {"do_welcome_handler", "do_echo_response"},
         F.read_handler # NoHandler => F.read_data = F.timeout_data,
         F.write_data = F.timeout_data,
         F.write_handler = "do_echo_response" => F.write_data # NULL,
         Install(fd, F, ev),
         UNCHANGED <<acceptq, sock, heap>>,
         net' \in [Conns -> Net],
         \A c \in Conns : net'[c].phase = net[c].phase
  PROVE  TableOK'
<1>0. fd \in Fds /\ fd # ListenFd /\ ev \in Interest
  BY SocketsAssumption DEF Fds, Interest
<1>a. /\ fd_table' = [fd_table EXCEPT ![fd] = F]
      /\ epoll_state' = [epoll_state EXCEPT ![fd] = ev]
      /\ epoll_fds' \in Int
  BY DEF Install, epollSetEvents, RecordEvents, TableOK, TableTypes
<1>b. /\ interest' \in [Fds -> Interest]
      /\ \A f \in Fds \ {fd} : interest'[f] = interest[f]
      /\ interest'[fd] = ev \/ (CtlFails /\ interest'[fd] = {})
  <2>1. CASE ev = epoll_state[fd]
    BY <1>0, <2>1 DEF Install, epollSetEvents, TableOK, TableTypes, Fits
  <2>2. CASE ev # epoll_state[fd]
    <3>1. CtlOp(fd, ev) = "MOD"
      BY DEF CtlOp, TableOK, Fits
    <3>2. CtlDone("MOD", fd, ev) \/ CtlRefused("MOD", fd)
      BY <2>2, <3>1, InstallCalls
    <3>3. interest[fd] # {} \/ (CtlFails /\ interest[fd] = {})
      BY DEF TableOK, Fits
    <3>4. QED
      BY <1>0, <3>2, <3>3 DEF CtlDone, CtlRefused, CtlLegal, TableOK, TableTypes
  <2>3. QED
    BY <2>1, <2>2
<1>1. TableTypes'
  BY <1>0, <1>a, <1>b DEF TableOK, TableTypes
<1>2. ASSUME NEW f \in ConnFds PROVE Fits(f)'
  <2>0. f \in Fds
    BY DEF Fds
  <2>1. CASE f = fd
    BY <1>0, <1>a, <1>b, <2>0, <2>1 DEF TableOK, TableTypes, Fits, Open
  <2>2. CASE f # fd
    BY <1>0, <1>a, <1>b, <2>0, <2>2 DEF TableOK, TableTypes, Fits, Open
  <2>3. QED
    BY <2>1, <2>2
<1>3. ListenerFits'
  BY <1>0, <1>a, <1>b DEF TableOK, TableTypes, ListenerFits, Fds
<1>4. OnePlace'
  <2>1. \A i \in 1 .. Len(acceptq) : acceptq[i] \in Conns
    BY ElementOfSeq DEF TableOK, TableTypes
  <2>2. QED
    BY <2>1 DEF TableOK, OnePlace, Open
<1>5. HeapFits'
  <2>1. \A f \in ConnFds : fd_table'[f].timeout_data = fd_table[f].timeout_data
    BY <1>a DEF TableOK, TableTypes, Fds
  <2>2. QED
    BY <2>1 DEF TableOK, HeapFits, Open
<1>6. QED
  BY <1>1, <1>2, <1>3, <1>4, <1>5 DEF TableOK

\* A handler closes its descriptor and frees its ConnectStat.
LEMMA CloseStep ==
  ASSUME TableOK,
         NEW fd \in ConnFds, Open(fd),
         comm_close(fd), heap' = heap \ {fd_table[fd].timeout_data}
  PROVE  TableOK'
<1>0. fd \in Fds /\ fd # ListenFd /\ EmptyFde \in Fde /\ sock[fd] \in Conns
  BY SocketsAssumption DEF Fds, Fde, EmptyFde, Handlers, NoHandler, Open, TableOK, TableTypes
<1>a. /\ fd_table' = [fd_table EXCEPT ![fd] = EmptyFde]
      /\ epoll_state' = [epoll_state EXCEPT ![fd] = {}]
      /\ interest' = [interest EXCEPT ![fd] = {}]
      /\ epoll_fds' \in Int
      /\ sock' = [sock EXCEPT ![fd] = NoConn]
      /\ net' = [net EXCEPT ![sock[fd]].phase = "closed"]
      /\ acceptq' = acceptq
      /\ heap' = heap \ {fd_table[fd].timeout_data}
  BY DEF comm_close, RecordEvents, Close, TableOK, TableTypes
<1>1. TableTypes'
  <2>1. net' \in [Conns -> Net]
    BY <1>0, <1>a, NetType DEF TableOK, TableTypes
  <2>2. QED
    BY <1>0, <1>a, <2>1 DEF TableOK, TableTypes, Interest
<1>p. \A c \in Conns : c # sock[fd] => net'[c] = net[c]
  BY <1>0, <1>a DEF TableOK, TableTypes
<1>2. ASSUME NEW f \in ConnFds PROVE Fits(f)'
  <2>0. f \in Fds
    BY DEF Fds
  <2>1. CASE f = fd
    BY <1>0, <1>a, <2>0, <2>1 DEF TableOK, TableTypes, Fits, Open
  <2>2. CASE f # fd
    <3>1. Open(f) => sock[f] # sock[fd] /\ sock[f] \in Conns
      BY <2>2 DEF TableOK, TableTypes, OnePlace, Open
    <3>2. fd_table'[f] = fd_table[f] /\ epoll_state'[f] = epoll_state[f]
          /\ interest'[f] = interest[f] /\ sock'[f] = sock[f]
      BY <1>0, <1>a, <2>0, <2>2 DEF TableOK, TableTypes
    <3>3. QED
      BY <1>p, <3>1, <3>2 DEF TableOK, Fits, Open
  <2>3. QED
    BY <2>1, <2>2
<1>3. ListenerFits'
  BY <1>0, <1>a DEF TableOK, TableTypes, ListenerFits, Fds
<1>4. OnePlace'
  <2>1. \A i \in 1 .. Len(acceptq) : acceptq[i] \in Conns /\ acceptq[i] # sock[fd]
    <3>1. net[sock[fd]].phase = "open"
      BY DEF TableOK, Fits
    <3>2. QED
      BY <3>1, ElementOfSeq DEF TableOK, TableTypes, OnePlace
  <2>2. QED
    BY <1>a, <1>p, <2>1 DEF TableOK, TableTypes, OnePlace, Open
<1>5. HeapFits'
  <2>1. \A f \in ConnFds \ {fd} : /\ fd_table'[f] = fd_table[f]
                                  /\ sock'[f] = sock[f]
    BY <1>a DEF TableOK, TableTypes, Fds
  <2>2. sock'[fd] = NoConn
    BY <1>a DEF TableOK, TableTypes
  <2>3. ASSUME NEW c \in Conns
        PROVE  c \in heap' <=> \E f \in ConnFds : Open(f)' /\ fd_table'[f].timeout_data = c
    <3>1. \A f \in ConnFds \ {fd} : Open(f) /\ fd_table[f].timeout_data = c => sock[f] = c
      BY CommAssumption DEF TableOK, Fits
    <3>2. fd_table[fd].timeout_data \in {sock[fd], NULL}
      BY DEF TableOK, Fits
    <3>3. c # fd_table[fd].timeout_data =>
             (c \in heap' <=> \E f \in ConnFds \ {fd} : Open(f) /\ fd_table[f].timeout_data = c)
      BY <1>a DEF TableOK, HeapFits
    <3>4. c = fd_table[fd].timeout_data =>
             ~ \E f \in ConnFds \ {fd} : Open(f) /\ fd_table[f].timeout_data = c
      BY <3>1, <3>2, CommAssumption DEF TableOK, OnePlace
    <3>5. QED
      BY <1>a, <2>1, <2>2, <3>3, <3>4 DEF Open
  <2>4. QED
    BY <2>3 DEF HeapFits
<1>6. QED
  BY <1>1, <1>2, <1>3, <1>4, <1>5 DEF TableOK

\* accept_connection opens a descriptor for the connection at the head of the
\* queue, or leaves the tables alone when there is none to open.
LEMMA AcceptStep ==
  ASSUME TableOK, LoopTypes, accept_connection
  PROVE  TableOK' /\ proc' \in {proc, "running", "SIGSEGV"}
<1>1. CASE UNCHANGED <<fd_table, epoll_state, epoll_fds, interest, netVars, heap, proc>>
  BY <1>1, QuietStep DEF netVars, TableOK, TableTypes
<1>2. ASSUME NEW fd \in FreeFds, NEW ok \in {TRUE, ~AllocFails},
             NEW stat, stat = IF ok THEN Head(acceptq) ELSE NULL,
             NEW F, F = commSetTimeout(commUpdateWriteHandler(fd_table[fd], "do_welcome_handler", stat),
                                       WelcomeTimeout, "do_echo_timeout", stat),
             Accept(fd),
             heap' = heap \cup ({stat} \ {NULL}),
             Install(fd, F, {"OUT"})
      PROVE  TableOK' /\ proc' \in {proc, "running", "SIGSEGV"}
  <2> DEFINE c == Head(acceptq)
  <2>0. /\ fd \in ConnFds /\ fd \in Fds /\ fd # ListenFd /\ ~Open(fd)
        /\ acceptq # <<>> /\ c \in Conns /\ stat \in {c, NULL}
    BY <1>2, SocketsAssumption DEF accept_connection, FreeFds, Fds, Open, TableOK, TableTypes
  <2>1. /\ fd_table[fd] = EmptyFde /\ epoll_state[fd] = {} /\ interest[fd] = {}
    BY <2>0 DEF TableOK, Fits
  <2>2. /\ F \in Fde
        /\ F.timeout # 0 /\ F.timeout_handler = "do_echo_timeout" /\ F.timeout_data = stat
        /\ F.read_handler = NoHandler /\ F.write_handler = "do_welcome_handler"
        /\ F.write_data = stat
    <3>1. EmptyFde \in Fde
      BY DEF EmptyFde, Fde, Handlers, NoHandler
    <3>3. stat \in Conns \cup {NULL}
      BY <2>0
    <3> DEFINE W == commUpdateWriteHandler(EmptyFde, "do_welcome_handler", stat)
    <3>4. /\ W \in Fde
          /\ W.read_handler = NoHandler /\ W.write_handler = "do_welcome_handler"
          /\ W.write_data = stat
      <4>1. EmptyFde.read_handler = NoHandler
        BY DEF EmptyFde
      <4>2. QED
        BY <3>1, <3>3, <4>1 DEF commUpdateWriteHandler, Fde, Handlers
    <3>5. F = commSetTimeout(W, WelcomeTimeout, "do_echo_timeout", stat)
      BY <1>2, <2>1
    <3>6. "do_echo_timeout" \in Handlers \ {NoHandler} /\ WelcomeTimeout \in Nat \ {0}
      BY EchoAssumption DEF Handlers, NoHandler
    <3> HIDE DEF W
    <3>7. QED
      BY <1>2, <3>3, <3>4, <3>5, <3>6, SetTimeoutType
  <2>3. /\ fd_table' = [fd_table EXCEPT ![fd] = F]
        /\ epoll_state' = [epoll_state EXCEPT ![fd] = {"OUT"}]
        /\ epoll_fds' \in Int
        /\ sock' = [sock EXCEPT ![fd] = c]
        /\ net' = [net EXCEPT ![c].phase = "open"]
        /\ acceptq' = Tail(acceptq)
    BY <1>2 DEF Install, epollSetEvents, RecordEvents, Accept, TableOK, TableTypes
  <2>4. /\ interest' \in [Fds -> Interest]
        /\ \A f \in Fds \ {fd} : interest'[f] = interest[f]
        /\ interest'[fd] = {"OUT"} \/ (CtlFails /\ interest'[fd] = {})
    <3>1. CtlOp(fd, {"OUT"}) = "ADD"
      BY <2>1 DEF CtlOp
    <3>2. CtlDone("ADD", fd, {"OUT"}) \/ CtlRefused("ADD", fd)
      BY <1>2, <2>1, <3>1, InstallCalls
    <3>3. QED
      BY <2>0, <2>1, <3>2 DEF CtlDone, CtlRefused, CtlLegal, TableOK, TableTypes, Interest
  <2>5. net' \in [Conns -> Net] /\ net'[c].phase = "open" /\ \A d \in Conns \ {c} : net'[d] = net[d]
    <3>1. [net[c] EXCEPT !.phase = "open"] \in Net /\ net[c] \in Net
      BY <2>0, NetType DEF TableOK, TableTypes
    <3>2. [net[c] EXCEPT !.phase = "open"].phase = "open"
      BY <3>1 DEF Net, NetOf
    <3>3. QED
      BY <2>0, <2>3, <3>1, <3>2 DEF TableOK, TableTypes
  <2>6. /\ \A i \in 1 .. Len(acceptq) : acceptq[i] \in Conns
        /\ c = acceptq[1] /\ Len(acceptq) \in Nat \ {0}
        /\ Len(acceptq') = Len(acceptq) - 1
        /\ \A i \in 1 .. Len(acceptq') : acceptq'[i] = acceptq[i + 1]
    BY <2>0, <2>3, ElementOfSeq, HeadTailProperties, EmptySeq DEF TableOK, TableTypes
  <2>7. net[c].phase = "queued" /\ \A f \in ConnFds : sock[f] # c
    <3>1. net[c].phase = "queued"
      BY <2>6 DEF TableOK, OnePlace
    <3>2. QED
      BY <2>0, <3>1, SocketsAssumption DEF TableOK, Fits, Open
  <2>11. TableTypes'
    <3>1. acceptq' \in Seq(Conns)
      BY <2>0, <2>3, HeadTailProperties DEF TableOK, TableTypes
    <3>2. heap' \subseteq Conns
      BY <1>2, <2>0 DEF TableOK, TableTypes
    <3>3. QED
      BY <2>0, <2>2, <2>3, <2>4, <2>5, <3>1, <3>2 DEF TableOK, TableTypes, Interest
  <2>12. ASSUME NEW f \in ConnFds PROVE Fits(f)'
    <3>0. f \in Fds
      BY DEF Fds
    <3>1. CASE f = fd
      <4>1. fd_table'[f] = F /\ epoll_state'[f] = {"OUT"} /\ sock'[f] = c
        BY <2>0, <2>3, <3>0, <3>1 DEF TableOK, TableTypes
      <4>2. QED
        BY <2>0, <2>2, <2>4, <2>5, <3>1, <4>1, SocketsAssumption DEF Fits, Open, NoHandler
    <3>2. CASE f # fd
      <4>1. /\ fd_table'[f] = fd_table[f] /\ epoll_state'[f] = epoll_state[f]
            /\ interest'[f] = interest[f] /\ sock'[f] = sock[f]
        BY <2>0, <2>3, <2>4, <3>0, <3>2 DEF TableOK, TableTypes
      <4>2. Open(f) => sock[f] \in Conns \ {c}
        BY <2>7 DEF TableOK, TableTypes, Open
      <4>3. QED
        BY <2>5, <4>1, <4>2 DEF TableOK, Fits, Open
    <3>3. QED
      BY <3>1, <3>2
  <2>13. ListenerFits'
    BY <2>0, <2>3, <2>4 DEF TableOK, TableTypes, ListenerFits, Fds
  <2>14. OnePlace'
    <3>1. \A i \in 1 .. Len(acceptq') : i + 1 \in 1 .. Len(acceptq) /\ acceptq'[i] # c
      BY <2>6 DEF TableOK, OnePlace
    <3>2. \A i \in 1 .. Len(acceptq') : net'[acceptq'[i]].phase = "queued"
      BY <2>5, <2>6, <3>1 DEF TableOK, OnePlace
    <3>3. \A i, j \in 1 .. Len(acceptq') : acceptq'[i] = acceptq'[j] => i = j
      BY <2>6, <3>1 DEF TableOK, OnePlace
    <3>4. \A f, g \in ConnFds : Open(f)' /\ sock'[f] = sock'[g] => f = g
      BY <2>0, <2>3, <2>7 DEF TableOK, TableTypes, OnePlace, Open
    <3>5. QED
      BY <3>2, <3>3, <3>4 DEF OnePlace
  <2>15. HeapFits'
    <3>1. \A f \in ConnFds \ {fd} : fd_table'[f] = fd_table[f] /\ sock'[f] = sock[f]
      BY <2>3 DEF TableOK, TableTypes, Fds
    <3>2. fd_table'[fd].timeout_data = stat /\ sock'[fd] = c /\ c # NoConn
      BY <2>0, <2>2, <2>3, SocketsAssumption DEF TableOK, TableTypes
    <3>3. ASSUME NEW d \in Conns
          PROVE  d \in heap' <=> \E f \in ConnFds : Open(f)' /\ fd_table'[f].timeout_data = d
      <4>1. d \in heap <=> \E f \in ConnFds \ {fd} : Open(f) /\ fd_table[f].timeout_data = d
        BY <2>0 DEF TableOK, HeapFits
      <4>2. d \in heap' <=> d \in heap \/ d = stat
        BY <1>2, CommAssumption
      <4>3. QED
        BY <2>0, <3>1, <3>2, <4>1, <4>2 DEF Open
    <3>4. QED
      BY <3>3 DEF HeapFits
  <2>16. QED
    BY <1>2, <2>11, <2>12, <2>13, <2>14, <2>15, InstallCalls DEF TableOK
<1>3. QED
  BY <1>1, <1>2 DEF accept_connection
-----------------------------------------------------------------------------
(* The handlers. *)

\* What every handler preserves: the tables, the buffers, and a known way to end.
Kept == TableOK' /\ send_buf' \in [Conns -> Seq(Chunks)]
                 /\ proc' \in {"running", "SIGSEGV", "SIGPIPE", "SIGABRT"}

\* The part of a buffer that strlen() counts is made of the buffer's chunks.
LEMMA CStringType ==
  ASSUME NEW data \in Seq(Chunks)
  PROVE  CString(data) \in Seq(Chunks)
<1> DEFINE cut == {i \in DOMAIN data : data[i] \in WithNul}
<1>1. CASE cut = {}
  BY <1>1 DEF CString
<1>2. CASE cut # {}
  <2>1. cut \subseteq Nat /\ cut \subseteq 1 .. Len(data) /\ Len(data) \in Nat
    BY LenProperties
  <2> DEFINE less == {ss \in Nat \X Nat : ss[1] < ss[2]}
  <2>2. IsWellFoundedOn(less, Nat)
    BY NatLessThanWellFounded DEF OpToRel
  <2> HIDE DEF less, cut
  <2>3. PICK x \in cut : \A y \in cut : ~(<<y, x>> \in less)
    BY <1>2, <2>1, <2>2, WFMin
  <2> USE DEF less
  <2>4. \A y \in cut : x <= y
    <3>1. ASSUME NEW y \in cut, y < x PROVE FALSE
      <4>1. <<y, x>> \in less
        BY <2>1, <3>1
      <4>2. QED
        BY <2>3, <4>1
    <3>2. QED
      BY <2>1, <3>1
  <2> DEFINE k == CHOOSE i \in cut : \A j \in cut : i <= j
  <2>5. k \in cut
    BY <2>4
  <2>6. CString(data) = SubSeq(data, 1, k)
    BY <1>2 DEF CString, cut
  <2> HIDE DEF k
  <2>7. \A i \in 1 .. k : data[i] \in Chunks
    BY <2>1, <2>5, ElementOfSeq
  <2>8. QED
    BY <2>1, <2>5, <2>6, <2>7, SubSeqProperties
<1>3. QED
  BY <1>1, <1>2

\* A prefix of the receive queue is a sequence of chunks no longer than it.
LEMMA ReadableType ==
  ASSUME NEW c \in Conns, net[c] \in Net, NEW data \in Readable(c)
  PROVE  data \in Seq(Chunks) /\ Len(data) <= Len(net[c].rcvq)
<1>1. net[c].rcvq \in Seq(Chunks)
  BY DEF Net, NetOf
<1>2. PICK k \in 1 .. Len(net[c].rcvq) : data = SubSeq(net[c].rcvq, 1, k)
  BY DEF Readable
<1>3. Len(net[c].rcvq) \in Nat /\ \A i \in 1 .. Len(net[c].rcvq) : net[c].rcvq[i] \in Chunks
  BY <1>1, LenProperties, ElementOfSeq
<1>4. QED
  BY <1>2, <1>3, SubSeqProperties

\* One connection's record is replaced by a record of the same phase.
LEMMA NetUpdate ==
  ASSUME net \in [Conns -> Net], NEW c \in Conns, NEW m \in Net, m.phase = net[c].phase,
         net' = [net EXCEPT ![c] = m]
  PROVE  net' \in [Conns -> Net] /\ \A d \in Conns : net'[d].phase = net[d].phase
  OBVIOUS

\* The system calls that transfer data open and close no connection.
LEMMA TransferType ==
  ASSUME net \in [Conns -> Net], NEW c \in Conns,
         \/ \E d \in Seq(Chunks) : WriteAll(c, d)
         \/ \E d \in Readable(c) : ReadSome(c, d)
         \/ WriteError(c)
         \/ ReadError(c)
  PROVE  /\ net' \in [Conns -> Net]
         /\ \A d \in Conns : net'[d].phase = net[d].phase
         /\ UNCHANGED <<acceptq, sock>>
<1>0. net[c] \in Net
  OBVIOUS
<1>1. CASE \E d \in Seq(Chunks) : WriteAll(c, d)
  <2>1. PICK d \in Seq(Chunks) : WriteAll(c, d)
    BY <1>1
  <2> DEFINE m == [net[c] EXCEPT !.unread = @ + 1, !.wr = Append(@, d)]
  <2>2. m \in KeepsPhase(net[c])
    BY <1>0, NetType
  <2>3. net' = [net EXCEPT ![c] = m]
    BY <2>1 DEF WriteAll
  <2> HIDE DEF m
  <2>4. QED
    BY <2>1, <2>2, <2>3, NetUpdate DEF KeepsPhase, WriteAll
<1>2. CASE \E d \in Readable(c) : ReadSome(c, d)
  <2>1. PICK d \in Readable(c) : ReadSome(c, d)
    BY <1>2
  <2> DEFINE m == [net[c] EXCEPT !.rcvq = SubSeq(@, Len(d) + 1, Len(@)), !.rd = Append(@, d)]
  <2>a. d \in Seq(Chunks) /\ Len(d) <= Len(net[c].rcvq)
    BY <1>0, ReadableType
  <2>2. m \in KeepsPhase(net[c])
    BY <1>0, <2>a, NetType
  <2>3. net' = [net EXCEPT ![c] = m]
    BY <2>1 DEF ReadSome
  <2> HIDE DEF m
  <2>4. QED
    BY <2>1, <2>2, <2>3, NetUpdate DEF KeepsPhase, ReadSome
<1>3. CASE WriteError(c) \/ ReadError(c)
  <2> DEFINE m == [net[c] EXCEPT !.err = "none"]
  <2>1. m \in KeepsPhase(net[c])
    BY <1>0, NetType
  <2>2. net' = [net EXCEPT ![c] = m]
    BY <1>3 DEF WriteError, ReadError
  <2> HIDE DEF m
  <2>3. QED
    BY <1>3, <2>1, <2>2, NetUpdate DEF KeepsPhase, WriteError, ReadError
<1>4. QED
  BY <1>1, <1>2, <1>3

\* A failed call changes nothing but the pending error, and may end the process.
LEMMA ErrorStep ==
  ASSUME TableOK, LoopTypes, NEW c \in Conns, WriteError(c) \/ ReadError(c), LogError
  PROVE  Kept
<1>1. net \in [Conns -> Net]
  BY DEF TableOK, TableTypes
<1>2. /\ net' \in [Conns -> Net]
      /\ \A d \in Conns : net'[d].phase = net[d].phase
      /\ UNCHANGED <<acceptq, sock>>
  BY <1>1, TransferType
<1>3. TableOK'
  BY <1>2, QuietStep DEF LogError
<1>4. QED
  BY <1>3 DEF Kept, LogError, xstrerror, LoopTypes

\* A signal leaves everything as it is.
LEMMA DieStep ==
  ASSUME TableOK, LoopTypes, NEW s \in {"SIGPIPE", "SIGABRT"}, Die(s)
  PROVE  Kept
<1>1. TableOK'
  BY QuietStep DEF Die, serverVars, TableOK, TableTypes
<1>2. QED
  BY <1>1 DEF Kept, Die, serverVars, LoopTypes

\* Closing a descriptor, or dying of the attempt.
LEMMA CloseAndFreeStep ==
  ASSUME TableOK, LoopTypes, NEW fd \in ConnFds, Open(fd),
         CloseAndFree(fd, fd_table[fd].timeout_data)
  PROVE  Kept
<1>1. CASE DelCrashes(fd) /\ UNCHANGED serverVars
  <2>1. TableOK'
    BY <1>1, QuietStep DEF serverVars, TableOK, TableTypes
  <2>2. QED
    BY <1>1, <2>1 DEF Kept, DelCrashes, serverVars, LoopTypes
<1>2. CASE comm_close(fd) /\ heap' = heap \ {fd_table[fd].timeout_data} /\ UNCHANGED send_buf
  BY <1>2, CloseStep DEF Kept, comm_close, LoopTypes
<1>3. QED
  BY <1>1, <1>2 DEF CloseAndFree

\* The greeting.
LEMMA WelcomeStep ==
  ASSUME TableOK, LoopTypes, NEW fd \in ConnFds, Open(fd),
         fd_table[fd].write_handler = "do_welcome_handler",
         do_welcome_handler(fd, fd_table[fd].write_data)
  PROVE  Kept
<1> DEFINE d == fd_table[fd].write_data
           R == commUpdateReadHandler(fd_table[fd], "do_echo_handler", d)
           F == commSetTimeout(R, EchoTimeout, "do_echo_timeout", d)
<1>1. sock[fd] \in Conns /\ fd_table[fd] \in Fde /\ d = fd_table[fd].timeout_data
  BY DEF TableOK, TableTypes, Open, Fits, Fds
<1>2. CASE WriteAll(sock[fd], <<>>) /\ Install(fd, F, {"IN"}) /\ UNCHANGED <<heap, send_buf>>
  <2>1. /\ R \in Fde /\ R.read_handler = "do_echo_handler" /\ R.read_data = d
        /\ R.write_handler = "do_welcome_handler" /\ R.write_data = d
    BY <1>1 DEF commUpdateReadHandler, Fde, Handlers
  <2>2. "do_echo_timeout" \in Handlers \ {NoHandler} /\ EchoTimeout \in Nat \ {0}
        /\ d \in Conns \cup {NULL}
    BY <1>1, EchoAssumption DEF Handlers, NoHandler, Fde
  <2> HIDE DEF R, d
  <2>3. /\ F \in Fde
        /\ F.timeout # 0 /\ F.timeout_handler = "do_echo_timeout" /\ F.timeout_data = d
        /\ F.read_handler = "do_echo_handler" /\ F.read_data = d
        /\ F.write_handler = "do_welcome_handler" /\ F.write_data = d
    BY <2>1, <2>2, SetTimeoutType
  <2> HIDE DEF F
  <2>4. /\ net' \in [Conns -> Net]
        /\ \A c \in Conns : net'[c].phase = net[c].phase
        /\ UNCHANGED <<acceptq, sock>>
    BY <1>1, <1>2, TransferType, EmptySeq DEF TableOK, TableTypes
  <2>5. TableOK'
    BY <1>1, <1>2, <2>3, <2>4, InstallStep
  <2>6. QED
    BY <1>2, <2>5, InstallCalls DEF Kept, LoopTypes
<1>3. CASE WriteError(sock[fd]) /\ LogError
  BY <1>1, <1>3, ErrorStep
<1>4. CASE WriteBroken(sock[fd]) /\ Die("SIGPIPE")
  BY <1>4, DieStep
<1>5. QED
  BY <1>2, <1>3, <1>4 DEF do_welcome_handler

\* Reading a request.
LEMMA EchoStep ==
  ASSUME TableOK, LoopTypes, NEW fd \in ConnFds, Open(fd),
         fd_table[fd].read_handler = "do_echo_handler",
         do_echo_handler(fd, fd_table[fd].read_data)
  PROVE  Kept
<1> DEFINE d == fd_table[fd].read_data
           W == commUpdateWriteHandler(fd_table[fd], "do_echo_response", d)
           F == commSetTimeout(W, EchoTimeout, "do_echo_timeout", d)
<1>1. /\ sock[fd] \in Conns /\ fd_table[fd] \in Fde /\ d = fd_table[fd].timeout_data
      /\ fd_table[fd].read_handler \in {NoHandler, "do_echo_handler"}
  BY DEF TableOK, TableTypes, Open, Fits, Fds, NoHandler
<1>2. CASE CloseAndFree(fd, d)
  BY <1>1, <1>2, CloseAndFreeStep
<1>3. ASSUME d # NULL, NEW data \in Readable(sock[fd]), ReadSome(sock[fd], data),
             send_buf' = [send_buf EXCEPT ![d] = data], Install(fd, F, {"OUT"}),
             UNCHANGED heap
      PROVE  Kept
  <2>1. /\ W \in Fde /\ W.read_handler = "do_echo_handler" /\ W.read_data = d
        /\ W.write_handler = "do_echo_response" /\ W.write_data = d
    BY <1>1 DEF commUpdateWriteHandler, Fde, Handlers
  <2>2. "do_echo_timeout" \in Handlers \ {NoHandler} /\ EchoTimeout \in Nat \ {0}
        /\ d \in Conns \cup {NULL}
    BY <1>1, <1>3, EchoAssumption DEF Handlers, NoHandler, Fde
  <2> HIDE DEF W, d
  <2>3. /\ F \in Fde
        /\ F.timeout # 0 /\ F.timeout_handler = "do_echo_timeout" /\ F.timeout_data = d
        /\ F.read_handler = "do_echo_handler" /\ F.read_data = d
        /\ F.write_handler = "do_echo_response" /\ F.write_data = d
    BY <2>1, <2>2, SetTimeoutType
  <2> HIDE DEF F
  <2>4. /\ net' \in [Conns -> Net]
        /\ \A c \in Conns : net'[c].phase = net[c].phase
        /\ UNCHANGED <<acceptq, sock>>
    BY <1>1, <1>3, TransferType DEF TableOK, TableTypes
  <2>5. TableOK'
    BY <1>1, <1>3, <2>3, <2>4, InstallStep
  <2>6. data \in Seq(Chunks)
    BY <1>1, <1>3, ReadableType DEF TableOK, TableTypes
  <2>7. QED
    BY <1>3, <2>2, <2>5, <2>6, InstallCalls DEF Kept, LoopTypes
<1>4. CASE Die("SIGABRT")
  BY <1>4, DieStep
<1>5. CASE ReadError(sock[fd]) /\ LogError
  BY <1>1, <1>5, ErrorStep
<1>6. QED
  BY <1>2, <1>3, <1>4, <1>5 DEF do_echo_handler

\* Answering it.
LEMMA ResponseStep ==
  ASSUME TableOK, LoopTypes, NEW fd \in ConnFds, Open(fd),
         fd_table[fd].write_handler = "do_echo_response",
         do_echo_response(fd, fd_table[fd].write_data)
  PROVE  Kept
<1> DEFINE d == fd_table[fd].write_data
           T == commSetTimeout(fd_table[fd], EchoTimeout, "do_echo_timeout", d)
           F == commUpdateReadHandler(T, "do_echo_handler", d)
<1>1. /\ sock[fd] \in Conns /\ fd_table[fd] \in Fde /\ d = fd_table[fd].timeout_data
      /\ d \in Conns
  BY DEF TableOK, TableTypes, Open, Fits, Fds, Fde
<1>2. CASE WriteAll(sock[fd], CString(send_buf[d])) /\ Install(fd, F, {"IN"})
           /\ UNCHANGED <<heap, send_buf>>
  <2>1. "do_echo_timeout" \in Handlers \ {NoHandler} /\ EchoTimeout \in Nat \ {0}
    BY EchoAssumption DEF Handlers, NoHandler
  <2>2. CString(send_buf[d]) \in Seq(Chunks)
    BY <1>1, CStringType DEF LoopTypes
  <2>3. /\ net' \in [Conns -> Net]
        /\ \A c \in Conns : net'[c].phase = net[c].phase
        /\ UNCHANGED <<acceptq, sock>>
    BY <1>1, <1>2, <2>2, TransferType DEF TableOK, TableTypes
  <2>a. /\ fd_table[fd].write_handler = "do_echo_response" /\ fd_table[fd].write_data = d
        /\ fd_table[fd] \in Fde /\ d \in Conns \cup {NULL}
    BY <1>1
  <2> HIDE DEF d
  <2>4. /\ T \in Fde
        /\ T.timeout # 0 /\ T.timeout_handler = "do_echo_timeout" /\ T.timeout_data = d
        /\ T.write_handler = "do_echo_response" /\ T.write_data = d
    BY <2>1, <2>a, SetTimeoutType
  <2> HIDE DEF T
  <2>5. /\ F \in Fde
        /\ F.timeout # 0 /\ F.timeout_handler = "do_echo_timeout" /\ F.timeout_data = d
        /\ F.read_handler = "do_echo_handler" /\ F.read_data = d
        /\ F.write_handler = "do_echo_response" /\ F.write_data = d
    BY <1>1, <2>4 DEF commUpdateReadHandler, Fde, Handlers
  <2> HIDE DEF F
  <2>6. d # NULL
    BY <1>1, CommAssumption
  <2>7. TableOK'
    BY <1>1, <1>2, <2>3, <2>5, <2>6, InstallStep
  <2>8. QED
    BY <1>2, <2>7, InstallCalls DEF Kept, LoopTypes
<1>3. CASE WriteError(sock[fd]) /\ LogError
  BY <1>1, <1>3, ErrorStep
<1>4. CASE WriteBroken(sock[fd]) /\ Die("SIGPIPE")
  BY <1>4, DieStep
<1>5. QED
  BY <1>2, <1>3, <1>4 DEF do_echo_response

\* The handlers stored for fd, with their data.
Registered(fd) ==
  LET F == fd_table[fd] IN
  {<<F.read_handler, F.read_data>>, <<F.write_handler, F.write_data>>,
   <<F.timeout_handler, F.timeout_data>>}

\* Whatever handler the table holds for a descriptor can be called.
LEMMA CallStep ==
  ASSUME TableOK, LoopTypes, NEW fd \in Fds, NEW h, NEW d, <<h, d>> \in Registered(fd),
         h # NoHandler, Call(h, fd, d)
  PROVE  Kept
<1>1. CASE fd = ListenFd
  <2>1. h = "accept_connection"
    BY <1>1 DEF Registered, TableOK, ListenerFits, commUpdateReadHandler, EmptyFde
  <2>2. accept_connection
    BY <2>1 DEF Call
  <2>3. TableOK' /\ proc' \in {proc, "running", "SIGSEGV"}
    BY <2>2, AcceptStep
  <2>4. QED
    BY <2>2, <2>3 DEF Kept, LoopTypes, accept_connection
<1>2. CASE fd \in ConnFds
  <2>1. Open(fd)
    BY <1>2 DEF TableOK, Fits, Registered, EmptyFde
  <2>2. /\ fd_table[fd].timeout_handler = "do_echo_timeout"
        /\ fd_table[fd].read_handler \in {NoHandler, "do_echo_handler"}
        /\ fd_table[fd].write_handler \in {"do_welcome_handler", "do_echo_response"}
    BY <1>2, <2>1 DEF TableOK, Fits
  <2>3. CASE h = fd_table[fd].read_handler /\ d = fd_table[fd].read_data
    BY <1>2, <2>1, <2>2, <2>3, EchoStep DEF Call
  <2>4. CASE h = fd_table[fd].write_handler /\ d = fd_table[fd].write_data
    BY <1>2, <2>1, <2>2, <2>4, WelcomeStep, ResponseStep DEF Call
  <2>5. CASE h = fd_table[fd].timeout_handler /\ d = fd_table[fd].timeout_data
    <3>1. CloseAndFree(fd, fd_table[fd].timeout_data)
      BY <2>2, <2>5 DEF Call, do_echo_timeout
    <3>2. QED
      BY <1>2, <2>1, <3>1, CloseAndFreeStep
  <2>6. QED
    BY <2>3, <2>4, <2>5 DEF Registered
<1>3. QED
  BY <1>1, <1>2 DEF Fds

-----------------------------------------------------------------------------
(* The clients. *)

\* A completed connect() joins the queue.
LEMMA ConnectStep ==
  ASSUME TableOK, NEW c \in Conns, Connect(c),
         UNCHANGED <<interest, fd_table, epoll_state, epoll_fds, heap>>
  PROVE  TableOK'
<1>1. /\ net[c] \in Net /\ net[c].phase = "new"
      /\ net' = [net EXCEPT ![c].phase = "queued"]
      /\ acceptq' = Append(acceptq, c) /\ UNCHANGED sock
  BY DEF Connect, TableOK, TableTypes
<1>2. net' \in [Conns -> Net] /\ net'[c].phase = "queued" /\ \A b \in Conns \ {c} : net'[b] = net[b]
  <2>1. [net[c] EXCEPT !.phase = "queued"] \in Net
    BY <1>1, NetType
  <2>2. [net[c] EXCEPT !.phase = "queued"].phase = "queued"
    BY <1>1 DEF Net, NetOf
  <2>3. QED
    BY <1>1, <2>1, <2>2 DEF TableOK, TableTypes
<1>3. /\ acceptq' \in Seq(Conns) /\ Len(acceptq) \in Nat /\ Len(acceptq') = Len(acceptq) + 1
      /\ \A i \in 1 .. Len(acceptq) : acceptq'[i] = acceptq[i]
      /\ acceptq'[Len(acceptq) + 1] = c
  BY <1>1, AppendProperties, LenProperties DEF TableOK, TableTypes
<1>4. \A i \in 1 .. Len(acceptq) : acceptq[i] \in Conns \ {c}
  BY <1>1, ElementOfSeq DEF TableOK, TableTypes, OnePlace
<1>5. \A f \in ConnFds : Open(f) => sock[f] \in Conns \ {c}
  BY <1>1 DEF TableOK, TableTypes, Fits, Open
<1>6. TableTypes'
  BY <1>1, <1>2, <1>3 DEF TableOK, TableTypes
<1>7. ASSUME NEW f \in ConnFds PROVE Fits(f)'
  <2>1. Fits(f)
    BY DEF TableOK
  <2>2. QED
    BY <1>1, <1>2, <1>5, <2>1 DEF Fits, Open
<1>8. ListenerFits'
  BY DEF TableOK, ListenerFits, commUpdateReadHandler, EmptyFde
<1>9. OnePlace'
  <2>1. ASSUME NEW i \in 1 .. Len(acceptq') PROVE net'[acceptq'[i]].phase = "queued"
    BY <1>2, <1>3, <1>4 DEF TableOK, OnePlace
  <2>2. ASSUME NEW i \in 1 .. Len(acceptq'), NEW j \in 1 .. Len(acceptq'), acceptq'[i] = acceptq'[j]
        PROVE  i = j
    BY <1>3, <1>4, <2>2 DEF TableOK, OnePlace
  <2>3. QED
    BY <1>1, <2>1, <2>2 DEF TableOK, OnePlace, Open
<1>10. HeapFits'
  BY <1>1 DEF TableOK, HeapFits, Open
<1>11. QED
  BY <1>6, <1>7, <1>8, <1>9, <1>10 DEF TableOK

\* What a client does touches no table of the server.
LEMMA ClientStep ==
  ASSUME TableOK, NEW c \in Conns, Client(c),
         UNCHANGED <<interest, fd_table, epoll_state, epoll_fds, heap>>
  PROVE  TableOK'
<1>0. net \in [Conns -> Net] /\ net[c] \in Net
  BY DEF TableOK, TableTypes
<1>1. CASE Connect(c)
  BY <1>1, ConnectStep
<1>2. ASSUME NEW m \in KeepsPhase(net[c]), net' = [net EXCEPT ![c] = m], UNCHANGED <<acceptq, sock>>
      PROVE  TableOK'
  <2>1. net' \in [Conns -> Net] /\ \A d \in Conns : net'[d].phase = net[d].phase
    BY <1>0, <1>2, NetUpdate DEF KeepsPhase
  <2>2. QED
    BY <1>2, <2>1, QuietStep
<1>3. CASE Send(c)
  <2> DEFINE m == [net[c] EXCEPT !.sent = @ + 1, !.rcvq = Append(@, net[c].sent + 1)]
  <2>1. m \in KeepsPhase(net[c])
    BY <1>0, <1>3, NetType DEF Send
  <2>2. net' = [net EXCEPT ![c] = m] /\ UNCHANGED <<acceptq, sock>>
    BY <1>3 DEF Send
  <2> HIDE DEF m
  <2>3. QED
    BY <1>2, <2>1, <2>2
<1>4. CASE Receive(c)
  <2> DEFINE m == [net[c] EXCEPT !.unread = @ - 1]
  <2>1. m \in KeepsPhase(net[c])
    BY <1>0, <1>4, NetType DEF Receive
  <2>2. net' = [net EXCEPT ![c] = m] /\ UNCHANGED <<acceptq, sock>>
    BY <1>4 DEF Receive
  <2> HIDE DEF m
  <2>3. QED
    BY <1>2, <2>1, <2>2
<1>5. CASE Fin(c)
  <2> DEFINE m == [net[c] EXCEPT !.fin = TRUE]
  <2>1. m \in KeepsPhase(net[c])
    BY <1>0, NetType
  <2>2. net' = [net EXCEPT ![c] = m] /\ UNCHANGED <<acceptq, sock>>
    BY <1>5 DEF Fin
  <2> HIDE DEF m
  <2>3. QED
    BY <1>2, <2>1, <2>2
<1>6. CASE Reset(c)
  <2> DEFINE e == IF net[c].fin THEN "EPIPE" ELSE "ECONNRESET"
             m == [net[c] EXCEPT !.rst = TRUE, !.err = e]
  <2>1. e \in {"EPIPE", "ECONNRESET"}
    OBVIOUS
  <2>2. net' = [net EXCEPT ![c] = m] /\ UNCHANGED <<acceptq, sock>>
    BY <1>6 DEF Reset
  <2> HIDE DEF e
  <2>3. m \in KeepsPhase(net[c])
    BY <1>0, <2>1, NetType
  <2> HIDE DEF m
  <2>4. QED
    BY <1>2, <2>2, <2>3
<1>7. QED
  BY <1>1, <1>3, <1>4, <1>5, <1>6 DEF Client

-----------------------------------------------------------------------------
(* The invariant. *)

\* Nothing but the loop moves.
LEMMA LoopStep ==
  ASSUME TableOK, UNCHANGED serverVars
  PROVE  TableOK'
BY QuietStep DEF serverVars, TableOK, TableTypes

\* The server starts with its tables in order.
LEMMA InitIInv == Init => IInv
<1> SUFFICES ASSUME Init PROVE IInv
  OBVIOUS
<1>1. /\ NewNet \in Net /\ EmptyFde \in Fde
      /\ commUpdateReadHandler(EmptyFde, "accept_connection", NULL) \in Fde
  <2>1. NewNet \in Net
    BY DEF NewNet, Net, NetOf
  <2>2. EmptyFde \in Fde
    BY DEF EmptyFde, Fde, Handlers, NoHandler
  <2>3. QED
    BY <2>1, <2>2 DEF commUpdateReadHandler, Fde, Handlers
<1>2. ListenFd \in Fds /\ ConnFds \subseteq Fds /\ ListenFd \notin ConnFds
  BY SocketsAssumption DEF Fds
<1>3. TableTypes
  BY <1>1, <1>2, EmptySeq DEF Init, SocketsInit, TableTypes, Interest
<1>4. ASSUME NEW fd \in ConnFds PROVE Fits(fd)
  BY <1>2 DEF Init, SocketsInit, Fits, Open
<1>5. ListenerFits
  BY <1>2 DEF Init, ListenerFits
<1>6. OnePlace
  BY EmptySeq DEF Init, SocketsInit, OnePlace, Open
<1>7. HeapFits
  BY DEF Init, SocketsInit, HeapFits, Open
<1>8. LoopTypes
  BY <1>2, EmptySeq, SocketsAssumption DEF Init, SocketsInit, LoopTypes, Event, NoEvent
<1>9. QED
  BY <1>3, <1>4, <1>5, <1>6, <1>7, <1>8 DEF IInv, TableOK

\* A step of the server, whichever it is.
LEMMA ServerStep == IInv /\ Server => IInv'
<1> SUFFICES ASSUME TableOK, LoopTypes, Server PROVE TableOK' /\ LoopTypes'
  BY DEF IInv
<1>0. UNCHANGED now
  BY DEF Server
<1>1. CASE StartSelect
  BY <1>0, <1>1, LoopStep DEF StartSelect, LoopTypes, serverVars, At
<1>2. ASSUME NEW fd \in Fds, ExpireTimeout(fd) PROVE TableOK' /\ LoopTypes'
  <2>1. fd_table[fd].timeout_handler # NoHandler
    <3>1. fd # ListenFd
      BY <1>2 DEF ExpireTimeout, Expired, TableOK, ListenerFits, commUpdateReadHandler, EmptyFde
    <3>2. fd \in ConnFds /\ Open(fd)
      BY <1>2, <3>1 DEF ExpireTimeout, Expired, Fds, TableOK, Fits, EmptyFde
    <3>3. QED
      BY <3>2 DEF TableOK, Fits, NoHandler
  <2>2. Call(fd_table[fd].timeout_handler, fd, fd_table[fd].timeout_data)
    BY <1>2, <2>1 DEF ExpireTimeout
  <2>3. Kept
    BY <1>2, <2>1, <2>2, CallStep DEF Registered
  <2>4. QED
    BY <1>0, <1>2, <2>3 DEF Kept, ExpireTimeout, LoopTypes, timeVars
<1>3. CASE EndTimeouts
  BY <1>0, <1>3, LoopStep DEF EndTimeouts, LoopTypes, serverVars, timeVars
<1>4. CASE EpollWait
  <2>1. PICK batch \in SUBSET ReadyFds :
          events' = {[fd |-> fd, ev |-> Reported(fd),
                      conn |-> IF fd = ListenFd THEN NoConn ELSE sock[fd]] : fd \in batch}
    BY <1>4 DEF EpollWait, Batch, epoll_wait
  <2>2. ASSUME NEW fd \in ReadyFds
        PROVE  /\ fd \in Fds /\ Reported(fd) \in SUBSET {"IN", "OUT", "HUP"}
               /\ (IF fd = ListenFd THEN NoConn ELSE sock[fd]) \in Conns \cup {NoConn}
    <3>1. fd \in Fds
      BY DEF ReadyFds
    <3>2. interest[fd] \subseteq {"IN", "OUT"}
      BY <3>1 DEF TableOK, TableTypes, Interest
    <3>3. QED
      BY <3>1, <3>2 DEF Reported, Fds, TableOK, TableTypes
  <2>3. events' \subseteq Event
    BY <2>1, <2>2 DEF Event
  <2>4. QED
    BY <1>0, <1>4, <2>3, LoopStep DEF EpollWait, LoopTypes, serverVars, timeVars
<1>5. CASE EpollTimeout
  BY <1>0, <1>5, LoopStep DEF EpollTimeout, LoopTypes, serverVars, timeVars
<1>6. ASSUME NEW e \in events, CallReadHandler(e) PROVE TableOK' /\ LoopTypes'
  <2>1. e \in Event /\ e.fd \in Fds /\ events' \subseteq Event /\ current' = e
    BY <1>6 DEF CallReadHandler, LoopTypes, Event
  <2>2. Kept
    <3>1. CASE UNCHANGED <<serverVars, proc>>
      BY <3>1, LoopStep DEF Kept, LoopTypes, serverVars
    <3>2. CASE /\ fd_table[e.fd].read_handler # NoHandler
               /\ Call(fd_table[e.fd].read_handler, e.fd, fd_table[e.fd].read_data)
      BY <2>1, <3>2, CallStep DEF Registered
    <3>3. QED
      BY <1>6, <3>1, <3>2 DEF CallReadHandler
  <2>3. QED
    BY <1>0, <1>6, <2>1, <2>2 DEF Kept, CallReadHandler, LoopTypes, timeVars
<1>7. CASE CallWriteHandler
  <2>1. current.fd \in Fds /\ NoEvent \in Event
    BY SocketsAssumption DEF LoopTypes, Event, NoEvent, Fds
  <2>2. Kept
    <3>1. CASE UNCHANGED <<serverVars, proc>>
      BY <3>1, LoopStep DEF Kept, LoopTypes, serverVars
    <3>2. CASE /\ fd_table[current.fd].write_handler # NoHandler
               /\ Call(fd_table[current.fd].write_handler, current.fd, fd_table[current.fd].write_data)
      BY <2>1, <3>2, CallStep DEF Registered
    <3>3. QED
      BY <1>7, <3>1, <3>2 DEF CallWriteHandler
  <2>3. QED
    BY <1>0, <1>7, <2>1, <2>2 DEF Kept, CallWriteHandler, LoopTypes, timeVars
<1>8. CASE EndSelect
  <2>1. now \div TicksPerSec \in Nat
    BY CommAssumption DEF LoopTypes
  <2>2. QED
    BY <1>0, <1>8, <2>1, LoopStep DEF EndSelect, getCurrentTime, LoopTypes, serverVars
<1>9. QED
  BY <1>1, <1>2, <1>3, <1>4, <1>5, <1>6, <1>7, <1>8 DEF Server

\* The invariant is inductive.
LEMMA NextIInv == IInv /\ [Next]_vars => IInv'
<1> SUFFICES ASSUME IInv, [Next]_vars PROVE IInv'
  OBVIOUS
<1>1. CASE Server
  BY <1>1, ServerStep
<1>2. CASE Clients
  <2>1. TableOK'
    BY <1>2, ClientStep DEF Clients, processVars, IInv
  <2>2. QED
    BY <1>2, <2>1 DEF Clients, processVars, timeVars, IInv, LoopTypes
<1>3. CASE Clock
  <2>1. TableOK'
    BY <1>3, QuietStep DEF Clock, netVars, processVars, IInv, TableOK, TableTypes
  <2>2. QED
    BY <1>3, <2>1 DEF Clock, Tick, processVars, timeVars, IInv, LoopTypes
<1>4. CASE UNCHANGED vars
  <2>1. TableOK'
    BY <1>4, LoopStep DEF vars, IInv
  <2>2. QED
    BY <1>4, <2>1 DEF vars, serverVars, timeVars, IInv, LoopTypes
<1>5. QED
  BY <1>1, <1>2, <1>3, <1>4 DEF Next

\* The tables of the server, the descriptors and the callback data on the heap
\* agree in every state.
THEOREM Invariance == Spec => []IInv
BY InitIInv, NextIInv, PTL DEF Spec

\* Every variable keeps its type.
THEOREM TypeCorrect == Spec => []TypeOK
<1>1. IInv => TypeOK
  BY DEF IInv, TableOK, TableTypes, LoopTypes, TypeOK
<1>2. QED
  BY <1>1, Invariance, PTL

\* An open connection always has a deadline that will close it: no handler of
\* main.c can forget one.
THEOREM NoneIsStranded == Spec => []NoneStranded
<1>1. IInv => NoneStranded
  BY DEF IInv, TableOK, Fits, NoneStranded
<1>2. QED
  BY <1>1, Invariance, PTL

\* No ConnectStat is leaked, used after it is freed, or used for another
\* connection than its own.
THEOREM StatsAreOwned == Spec => []StatsOwned
<1> SUFFICES ASSUME IInv PROVE StatsOwned
  BY Invariance, PTL
<1>1. ASSUME NEW fd \in ConnFds
      PROVE  LET F == fd_table[fd] IN
             IF Open(fd)
             THEN /\ F.timeout_data \in {sock[fd], NULL}
                  /\ F.read_handler # NoHandler => F.read_data = F.timeout_data
                  /\ F.write_handler # NoHandler => F.write_data = F.timeout_data
             ELSE F = EmptyFde
  BY DEF IInv, TableOK, Fits
<1>2. heap = {fd_table[fd].timeout_data : fd \in {f \in ConnFds : Open(f)}} \ {NULL}
  <2>1. \A fd \in ConnFds : Open(fd) => sock[fd] \in Conns
    BY DEF IInv, TableOK, TableTypes, Open
  <2>2. heap \subseteq Conns
    BY DEF IInv, TableOK, TableTypes
  <2>3. QED
    BY <1>1, <2>1, <2>2, CommAssumption DEF IInv, TableOK, HeapFits
<1>3. QED
  BY <1>1, <1>2 DEF StatsOwned
=============================================================================

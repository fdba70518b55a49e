------------------------------ MODULE CommEpoll ------------------------------
(***************************************************************************)
(* The event framework of test/IO/EPOLL/epoll_framework (comm.c,           *)
(* comm_epoll.c): the table of handlers per descriptor, the epoll state it *)
(* believes the kernel has, and its once-a-second view of the clock.       *)
(*                                                                         *)
(* Time is counted in ticks, TicksPerSec to the second: current_dtime (a   *)
(* double in the code) and last_timeout are ticks, sys_curtime and the     *)
(* timeouts are whole seconds.                                             *)
(***************************************************************************)
EXTENDS Sockets

CONSTANTS
  NULL,         \* the null pointer, as handler data
  TicksPerSec,
  MaxEvents,    \* MAX_EVENTS: events one epoll_wait() returns
  MaxLag        \* bound: ticks from one getCurrentTime() to the next

ASSUME CommAssumption ==
  /\ NULL \notin Conns
  /\ TicksPerSec \in Nat \ {0}
  /\ MaxEvents \in Nat \ {0}
  /\ MaxLag \in Nat \ {0}

VARIABLES
  fd_table,       \* fd_table[fd]: handlers, their data and the deadline
  epoll_state,    \* what the framework thinks is registered for fd
  epoll_fds,      \* how many descriptors it thinks are registered
  sys_curtime,    \* seconds, as of the last getCurrentTime()
  current_dtime,  \* ticks, as of the last getCurrentTime()
  last_timeout,   \* current_dtime when checkTimeouts() last ran
  proc            \* "running", or what ended the process

timeVars == <<sys_curtime, current_dtime, last_timeout>>

NoHandler == "NULL"
Handlers == {NoHandler, "accept_connection", "do_welcome_handler", "do_echo_handler",
             "do_echo_response", "do_echo_timeout"}

\* armed and period are history: when, and for how many seconds, the deadline
\* in timeout was set.
Fde == [read_handler : Handlers, read_data : Conns \cup {NULL},
        write_handler : Handlers, write_data : Conns \cup {NULL},
        timeout_handler : Handlers, timeout_data : Conns \cup {NULL},
        timeout : Nat, armed : Nat, period : Nat]

\* A zeroed table entry.
EmptyFde == [read_handler |-> NoHandler, read_data |-> NULL,
             write_handler |-> NoHandler, write_data |-> NULL,
             timeout_handler |-> NoHandler, timeout_data |-> NULL,
             timeout |-> 0, armed |-> 0, period |-> 0]

-----------------------------------------------------------------------------
(* Operations on one table entry F.  The two Update functions of the code go  *)
(* on to call epollSetEvents for the event of the handler they store.        *)

commUpdateReadHandler(F, handler, data) ==
  [F EXCEPT !.read_handler = handler, !.read_data = data]

commUpdateWriteHandler(F, handler, data) ==
  [F EXCEPT !.write_handler = handler, !.write_data = data]

\* Wrong on purpose (see PROJECT.json, mutants): the test for "keep the handler
\* that is there" inverted; the deadline counted from the last check, or
\* downwards.
SetTimeoutInverted(F, timeout, handler, data) ==
  [F EXCEPT !.timeout_handler = IF handler = NoHandler THEN handler ELSE @,
            !.timeout_data = data, !.timeout = sys_curtime + timeout,
            !.armed = now, !.period = timeout]

SetTimeoutFromLastCheck(F, timeout, handler, data) ==
  [F EXCEPT !.timeout_handler = handler, !.timeout_data = data,
            !.timeout = last_timeout \div TicksPerSec + timeout,
            !.armed = now, !.period = timeout]

SetTimeoutBackwards(F, timeout, handler, data) ==
  [F EXCEPT !.timeout_handler = handler, !.timeout_data = data,
            !.timeout = sys_curtime - timeout, !.armed = now, !.period = timeout]

\* The new deadline counts from sys_curtime, not from the real time.
commSetTimeout(F, timeout, handler, data) ==
  LET keep == handler = NoHandler /\ data = NULL IN
  IF timeout < 0
  THEN [F EXCEPT !.timeout_handler = NoHandler, !.timeout_data = NULL, !.timeout = 0]
  ELSE [F EXCEPT !.timeout_handler = IF keep THEN @ ELSE handler,
                 !.timeout_data = IF keep THEN @ ELSE data,
                 !.timeout = sys_curtime + timeout,
                 !.armed = now, !.period = timeout]

-----------------------------------------------------------------------------
(* Operations on the whole framework. *)

\* Formatting the reason of a failed call: strerror() is not declared, so its
\* result is cut to 32 bits, and xstrerror() reads the first byte through it.
xstrerror == proc' \in {"running", "SIGSEGV"}

CtlOp(fd, ev) ==
  CASE ev = {} -> "DEL"
    [] ev # {} /\ epoll_state[fd] # {} -> "MOD"
    [] OTHER -> "ADD"

\* Wrong on purpose: ADD falls through to the DEL case of the switch.
RecordEventsNoBreak(fd, ev) ==
  /\ epoll_state' = [epoll_state EXCEPT ![fd] = ev]
  /\ epoll_fds' = IF ev = {} /\ epoll_state[fd] # {} THEN epoll_fds - 1 ELSE epoll_fds

\* The bookkeeping of epollSetEvents(): done before epoll_ctl() is called, and
\* kept when the call fails.
RecordEvents(fd, ev) ==
  /\ epoll_state' = [epoll_state EXCEPT ![fd] = ev]
  /\ epoll_fds' = IF ev = epoll_state[fd] THEN epoll_fds
                  ELSE CASE CtlOp(fd, ev) = "ADD" -> epoll_fds + 1
                         [] CtlOp(fd, ev) = "DEL" -> epoll_fds - 1
                         [] OTHER -> epoll_fds

\* Wrong on purpose: new interest is added to what is watched already.
SetEventsCumulative(fd, ev) ==
  LET all == epoll_state[fd] \cup ev IN
  /\ RecordEvents(fd, all)
  /\ \/ all = epoll_state[fd] /\ UNCHANGED <<interest, proc>>
     \/ all # epoll_state[fd] /\ CtlDone(CtlOp(fd, all), fd, all) /\ UNCHANGED proc
     \/ all # epoll_state[fd] /\ CtlRefused(CtlOp(fd, all), fd) /\ xstrerror

\* Make epoll watch fd for exactly the events ev: waiting to read stops waiting
\* to write, and the other way round.  A call that fails is logged, which the
\* process may not survive; what the handler would have stored after that is
\* taken as stored, in a memory that nobody reads again.
epollSetEvents(fd, ev) ==
  /\ RecordEvents(fd, ev)
  /\ \/ ev = epoll_state[fd] /\ UNCHANGED <<interest, proc>>
     \/ ev # epoll_state[fd] /\ CtlDone(CtlOp(fd, ev), fd, ev) /\ UNCHANGED proc
     \/ ev # epoll_state[fd] /\ CtlRefused(CtlOp(fd, ev), fd) /\ xstrerror

\* Store F for fd and watch it for ev: what a handler does that goes on.
Install(fd, F, ev) ==
  /\ fd_table' = [fd_table EXCEPT ![fd] = F]
  /\ epollSetEvents(fd, ev)

\* Wrong on purpose: the table entry is not zeroed; the descriptor is not closed.
CloseKeepsEntry(fd) ==
  /\ UNCHANGED <<fd_table, proc>>
  /\ RecordEvents(fd, {})
  /\ Close(fd)

CloseLeaksFd(fd) ==
  /\ Install(fd, EmptyFde, {})
  /\ UNCHANGED netVars

\* Whatever epoll_ctl(DEL) says, close() removes fd from epoll.
comm_close(fd) ==
  /\ fd_table' = [fd_table EXCEPT ![fd] = EmptyFde]
  /\ RecordEvents(fd, {})
  /\ Close(fd)
  /\ UNCHANGED proc

\* A descriptor epoll does not watch: logging that DEL failed may end the
\* process before close().
DelCrashes(fd) ==
  /\ epoll_state[fd] # {}
  /\ CtlRefused("DEL", fd)
  /\ proc' = "SIGSEGV"

\* Wrong on purpose: no mask; the masks swapped.
AllEvents(ev) == ev
WriteEventsSwapped(ev) == ev \ {"OUT"}

\* do_epoll_select() hides the other direction from each half of
\* comm_call_handlers(); errors and hang-ups are for both.
ReadEvents(ev) == ev \ {"OUT"}
WriteEvents(ev) == ev \ {"IN"}

\* checkTimeouts(): the deadline of fd has passed, as far as the framework's
\* clock tells.
Expired(fd) == fd_table[fd].timeout # 0 /\ fd_table[fd].timeout <= sys_curtime

\* "Check timeouts once per second": 0.999 s, which is TicksPerSec ticks.
TimeoutCheckDue == last_timeout + TicksPerSec <= current_dtime

getCurrentTime ==
  /\ current_dtime' = now
  /\ sys_curtime' = now \div TicksPerSec
  /\ UNCHANGED last_timeout

\* The clock ticks, but the program never needs more than MaxLag ticks from one
\* getCurrentTime() to the next (epoll_wait() alone may take a second).
Tick ==
  /\ now < MaxTime
  /\ now < (IF current_dtime = 0 THEN StartTime ELSE current_dtime) + MaxLag
  /\ now' = now + 1

=============================================================================

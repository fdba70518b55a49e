\* Two clients that may abort, one descriptor for both; epoll_ctl() and malloc()
\* may fail.  The process may end, and everything with it: no deadlock check.
SPECIFICATION Spec
CONSTANTS
  Conns = {c1, c2}
  NoConn = NoConn
  NULL = NULL
  ConnFds = {5}
  ListenFd = 3
  SndCap = 2
  Resets = TRUE
  CtlFails = TRUE
  AllocFails = TRUE
  StartTime = 3
  TicksPerSec = 1
  WelcomeTimeout = 2
  EchoTimeout = 1
  MaxEvents = 3
  MaxLag = 1
  MaxMsgs = 2
  LastInput = 5
  MaxTime = 6
  Quit = {2}
  WithNul = {}
SYMMETRY Symmetry
CHECK_DEADLOCK FALSE
INVARIANTS
  TypeOK
  EpollInSync
  NoneStranded
  StatsOwned
  EndsOnlyIf
PROPERTIES
  ServesEcho

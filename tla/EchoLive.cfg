\* Two clients that act in the first second, one descriptor, weak fairness of the
\* process and the clock, which goes on for every deadline.  An aborting client may
\* end the process.
SPECIFICATION FairSpec
CONSTANTS
  Conns = {c1, c2}
  NoConn = NoConn
  NULL = NULL
  ConnFds = {5}
  ListenFd = 3
  SndCap = 1
  Resets = TRUE
  CtlFails = TRUE
  AllocFails = FALSE
  StartTime = 3
  TicksPerSec = 1
  WelcomeTimeout = 2
  EchoTimeout = 1
  MaxEvents = 3
  MaxLag = 1
  MaxMsgs = 1
  LastInput = 3
  MaxTime = 9
  Quit = {}
  WithNul = {}
CHECK_DEADLOCK FALSE
PROPERTIES
  EveryConnectionCloses
  EveryConnectAccepted

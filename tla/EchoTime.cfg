\* Two ticks to the second and two ticks of lag, one client: rounding.
SPECIFICATION Spec
CONSTANTS
  Conns = {c1}
  NoConn = NoConn
  NULL = NULL
  ConnFds = {5}
  ListenFd = 3
  SndCap = 1
  Resets = FALSE
  CtlFails = FALSE
  AllocFails = FALSE
  StartTime = 7
  TicksPerSec = 2
  WelcomeTimeout = 3
  EchoTimeout = 2
  MaxEvents = 3
  MaxLag = 2
  MaxMsgs = 2
  LastInput = 11
  MaxTime = 17
  Quit = {}
  WithNul = {}
INVARIANTS
  NotBeforeTime

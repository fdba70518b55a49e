\* Two clients that never abort, two descriptors.
SPECIFICATION Spec
CONSTANTS
  Conns = {c1, c2}
  NoConn = NoConn
  NULL = NULL
  ConnFds = {5, 6}
  ListenFd = 3
  SndCap = 2
  Resets = FALSE
  CtlFails = FALSE
  AllocFails = FALSE
  StartTime = 3
  TicksPerSec = 1
  WelcomeTimeout = 2
  EchoTimeout = 1
  MaxEvents = 3
  MaxLag = 1
  MaxMsgs = 2
  LastInput = 5
  MaxTime = 7
  Quit = {2}
  WithNul = {1}
SYMMETRY Symmetry
INVARIANTS
  EventsFresh
  RepliesMatchReads

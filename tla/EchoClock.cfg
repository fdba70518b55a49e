\* The clock globals.h:64 offers to all modules, from the first round on.
SPECIFICATION Spec
CONSTANTS
  Conns = {c1}
  NoConn = NoConn
  NULL = NULL
  ConnFds = {5}
  ListenFd = 3
  SndCap = 2
  Resets = FALSE
  CtlFails = FALSE
  AllocFails = FALSE
  StartTime = 3
  TicksPerSec = 1
  WelcomeTimeout = 2
  EchoTimeout = 1
  MaxEvents = 3
  MaxLag = 1
  MaxMsgs = 2
  LastInput = 5
  MaxTime = 7
  Quit = {2}
  WithNul = {1}
INVARIANTS
  ClockIsSet

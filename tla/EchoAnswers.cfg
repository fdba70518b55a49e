\* Two clients, two descriptors, and a clock that stands still: no deadline passes,
\* except those set before the first getCurrentTime().
SPECIFICATION FairSpec
CONSTANTS
  Conns = {c1, c2}
  NoConn = NoConn
  NULL = NULL
  ConnFds = {5, 6}
  ListenFd = 3
  SndCap = 3
  Resets = FALSE
  CtlFails = FALSE
  AllocFails = FALSE
  StartTime = 3
  TicksPerSec = 1
  WelcomeTimeout = 2
  EchoTimeout = 1
  MaxEvents = 3
  MaxLag = 1
  MaxMsgs = 2
  LastInput = 3
  MaxTime = 3
  Quit = {}
  WithNul = {1}
PROPERTIES
  InputIsAnswered

\* Two clients, one descriptor, four chunks of which any may share a read() with the
\* next ones: the beginning of a form, the rest of its header with a name and an age,
\* a form with an empty name and no age, what may be the rest of it.
SPECIFICATION FairSpec
CONSTANTS
  Conns = {c1, c2}
  NoConn = NoConn
  ConnFds = {5}
  ListenFd = 3
  SndCap = 1
  Resets = TRUE
  CtlFails = FALSE
  AllocFails = FALSE
  StartTime = 0
  MaxMsgs = 4
  LastInput = 0
  MaxTime = 0
  MaxEvents = 3
  Commit = {1, 3}
  HeaderEnd = {2, 3}
  NameField = {2, 3, 4}
  AgeField = {2, 4}
  BlankName = {3}
  BlankAge = {}
CHECK_DEADLOCK FALSE
INVARIANTS
  PagesMatchRequests
  EndsOnlyIf
PROPERTIES
  HangUpCloses
  RequestIsAnswered

\* Three clients compete for two descriptors; resets, a failing epoll_ctl() or malloc().
SPECIFICATION Spec
CONSTANTS
  Conns = {c1, c2, c3}
  NoConn = NoConn
  ConnFds = {5, 6}
  ListenFd = 3
  SndCap = 1
  Resets = TRUE
  CtlFails = TRUE
  AllocFails = TRUE
  StartTime = 0
  MaxMsgs = 1
  LastInput = 0
  MaxTime = 0
  MaxEvents = 3
  Commit = {1}
  HeaderEnd = {1}
  NameField = {1}
  AgeField = {1}
  BlankName = {}
  BlankAge = {}
SYMMETRY Symmetry
CHECK_DEADLOCK FALSE
INVARIANTS
  TypeOK
  PointersValid

SPECIFICATION Spec
CHECK_DEADLOCK FALSE
CONSTANTS
  FileName = log
  Rotated = rotated
  Unlinked = unlinked
  Closed = closed
  Widths = {1, 2}
  Numbers = {1, 2, 3}
  Days = {0, 1, 2, 3}
  FileNames <- MCFileNames
  MaxEvents = 6
  MaxCrashes = 2
  MaxFaults = 1
  MaxCalls = 1
  Indexes = {0, 2, 3}
  Radix = 3
  MaxFileSize = 2
  Sizes = {1, 3}
  DaysToKeep = {0, 1}
  DayLength = 2
  Wrap = 64
  MaxTime = 5
  MaxDailyEvents = 3
  MaxTrouble = 1
  Threads = {t1, t2}
  Admins = {t1}
  Root = root
  child = child
  Cats = {root, child}
  Parent <- MCParent
  Depth <- MCDepth
  own = own
  other = other
  Appenders = {own, other}
  Names = {"name"}
  NameOf <- MCNameOf
  NoOne = none
  MaxLogged = 2
  MaxChanges = 2
  NULL = null
  Keys <- MCKeys
  Values <- MCValues
  Hash <- MCHash
  DICTMINSZ = 1
  MaxSize = 4
  MaxShortages = 1
  Sections <- MCSections
  Tokens <- MCTokens
  Lines <- MCLines
  MaxLines = 3
  NumberOf <- MCNumberOf
  USHRT = 65536
  Arbitrary = {7}
  DictKeys <- MCDictKeys
  DictValues <- MCDictValues
  kid = "kid"
  Files <- MCFiles
  KeyOrder <- MCKeyOrder
  CatOrder <- MCCatOrder
  NOTSET = 800
  INFO = 600
  Bad = bad
  NoAppender = noAppender
  MaxMade = 3
  MaxConfigured = 3
  Priorities = {300, 700}
  Filters <- MCFilters
  SinkThresholds = {400, 800}
  Level = 300
  MaxBuffered = 2
  MaxAppended = 5
  MaxSwitched = 2
INVARIANTS
  LockOrder
  Serialized
  NoneUsedAfterDelete
  SameOrder
  BackupsInOrder
  DaysInOrder
  DayIsRight
  SlotsSound
  ConfigAsWritten
  AppendersExist
  ConfiguredAsWritten
  FailsOnlyIf
  TriggersExplained
PROPERTIES
  KeepsRecent
  KeepsDays
  ImplementsLogStore
  

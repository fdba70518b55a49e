\* Threads may be arbitrarily late: does the program still end?
SPECIFICATION FairSpec
CONSTANTS
  Words = {a}
  Exit = exit
  Empty = empty
  Torn = torn
  TornExit = tornExit
  MaxLines = 2
  MaxPosts = 2
CHECK_DEADLOCK FALSE
PROPERTIES
  EndsAfterExit

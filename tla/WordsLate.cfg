\* sleep(1) is always long enough, or the threads are arbitrarily late: two
\* different lines, "exit" or the end of input.
SPECIFICATION FairSpec
CONSTANTS
  Words = {a, b}
  Exit = exit
  Empty = empty
  Torn = torn
  TornExit = tornExit
  MaxLines = 3
  MaxPosts = 4
CHECK_DEADLOCK FALSE
INVARIANTS
  TypeOK
  NeverBehind
  EndsOnExit
PROPERTIES
  ServesWords
  EndsIfPrompt

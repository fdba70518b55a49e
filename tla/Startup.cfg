SPECIFICATION StartSpec
CHECK_DEADLOCK FALSE
CONSTANTS
  NULL = null
  Keys <- MCKeys
  Values <- MCValues
  Hash <- MCHash
  DICTMINSZ = 1
  MaxSize = 4
  MaxShortages = 1
  Sections <- MCSections
  Tokens <- MCTokens
  Lines <- MCLines
  MaxLines = 3
  NumberOf <- MCNumberOf
  USHRT = 65536
  Arbitrary = {7}
INVARIANT NoConfigNoStart

SPECIFICATION FairSpec
CONSTANTS
  MaxLate = 1
  MaxLag = 1
  FoldShift = 0
  Horizon = 170
  NoCode = NoCode
INVARIANTS StaleByOneWindow CountdownHonest
PROPERTIES ExpiredIsReplaced

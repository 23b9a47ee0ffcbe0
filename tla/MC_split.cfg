CONSTANTS
  FS_MAXFILENAME = 2
  Texts <- MCTexts
  Lengths = {0}
SPECIFICATION Spec
CHECK_DEADLOCK FALSE
INVARIANTS
  SplitExact
  NothingLost

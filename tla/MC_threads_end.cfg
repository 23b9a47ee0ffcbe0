CONSTANTS
  Connections = {c1, c2}
  Lines <- MCLines
  Messages <- MCMessages
  Arrivals <- MCWaits
  FS_MAXUSERNAME = 1
  INT_MAXDIGITS = 2
  UINT_MAX = 15
  Digits <- MCDigits
  Blanks = {" "}
  STACK_ROOM = 14
  MAX_FD = 1
  Nobody = Nobody
  Garbage = Garbage
SPECIFICATION FairSpec
PROPERTIES
  ThreadsEnd
  ClientsHearBack

CONSTANTS
  Users = {u1, u2}
  UINT_MAX = 3
  Numbers <- MCNumbers
  NotANumber = NotANumber
  MaxAccepted = 4
  MaxCrashes = 1
SPECIFICATION Spec
INVARIANTS
  TypeOK
  SequencesIncrease
  OwnSessions
  IdsUnique

CONSTANTS
  FS_MAXFILENAME = 2
  FS_MAXPATHNAME = 4
  FS_BLOCKSIZE = 2
  FS_MAXFILEBLOCKS = 2
  Calls <- MCCalls
  NewSessionText = "n"
  StoredBlock <- MCStored
  Nothing = Nothing
SPECIFICATION Spec
CHECK_DEADLOCK FALSE
INVARIANTS
  OnlyWhatWasAsked
  WellFormedServed
  IllFormedRefused
  AnswerFits

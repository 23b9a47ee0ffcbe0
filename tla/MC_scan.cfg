CONSTANTS
  n = n
  none = none
  noname = noname
  zero = zero
  FS_DISKSIZE = 5
  FS_DIRENTRIES = 2
  FS_MAXFILEBLOCKS = 2
  Users = {}
  Names <- MCNames
  Data <- MCData
  NoUser = none
  NoName = noname
  Zero = zero
  Disks <- MCDisks
SPECIFICATION Spec
CHECK_DEADLOCK FALSE
INVARIANTS
  ScanExact

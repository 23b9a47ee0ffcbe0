CONSTANTS
  u1 = u1
  u2 = u2
  a = a
  b = b
  c = c
  none = none
  noname = noname
  zero = zero
  x = x
  FS_DISKSIZE = 9
  FS_DIRENTRIES = 1
  FS_MAXFILEBLOCKS = 2
  Users <- MCUsers
  Names <- MCNames
  Data <- MCData
  NoUser = none
  NoName = noname
  Zero = zero
  Threads = {t1, t2}
  Requests <- CrashRequests
  InitDisk <- TreeDisk
  MaxRequests = 3
  MaxCrashes = 2
SPECIFICATION Spec
SYMMETRY ThreadSymmetry
INVARIANTS
  TreeWellFormed
  IInv
PROPERTIES
  RestartReclaims
  ImplementsNamespace

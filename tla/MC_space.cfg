CONSTANTS
  u1 = u1
  u2 = u2
  a = a
  b = b
  c = c
  none = none
  noname = noname
  zero = zero
  x = x
  FS_DISKSIZE = 5
  FS_DIRENTRIES = 2
  FS_MAXFILEBLOCKS = 2
  Users <- MCUsers
  Names <- MCNames
  Data <- MCData
  NoUser = none
  NoName = noname
  Zero = zero
  Threads = {t1, t2}
  Requests <- SpaceRequests
  InitDisk <- FreshDisk
  MaxRequests = 4
  MaxCrashes = 0
SPECIFICATION Spec
SYMMETRY ThreadSymmetry
INVARIANTS
  NoSpaceOnlyWhenFull

CONSTANTS
  u = u
  Clients = {c1, c2}
  Users = {u}
  UserOf <- MCUserOf
  Threads = {t1, t2}
  UINT_MAX = 4
  FirstSequence <- MCFirst
  MaxCalls = 2
  MaxCrashes = 1
  Nobody = Nobody
  NoSession = NoSession
  NotANumber = NotANumber
SPECIFICATION Spec
INVARIANTS
  SessionIsNew

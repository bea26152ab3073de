\* One Java thread; every failure path; roles registered again after destroy.
CONSTANTS
  c1 = c1
  c2 = c2
  h1 = h1
  h2 = h2
  NoHandle = NoHandle
  NoCaller = NoCaller
  Callers <- MC_OneCaller
  Handles <- MC_Handles
  Roles <- MC_BothRoles
  MaxThreads = 2
  MaxOps = 6
  Failures = TRUE
  Reregister = TRUE
SPECIFICATION Spec
INVARIANTS OneThreadPerHandle NoOrphanThread
PROPERTIES ThreadExitLiveness

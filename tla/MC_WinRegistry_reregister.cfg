\* One role destroyed and registered again at once.
CONSTANTS
  c1 = c1
  c2 = c2
  h1 = h1
  h2 = h2
  NoHandle = NoHandle
  NoCaller = NoCaller
  Callers <- MC_OneCaller
  Handles <- MC_OneHandle
  Roles <- MC_DataRole
  MaxThreads = 2
  MaxOps = 3
  Failures = FALSE
  Reregister = TRUE
SPECIFICATION Spec
INVARIANT NoFlagWhileRegistered

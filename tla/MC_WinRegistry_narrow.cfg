\* Both roles on one port; destroying one of them.
CONSTANTS
  c1 = c1
  c2 = c2
  h1 = h1
  h2 = h2
  NoHandle = NoHandle
  NoCaller = NoCaller
  Callers <- MC_OneCaller
  Handles <- MC_OneHandle
  Roles <- MC_BothRoles
  MaxThreads = 2
  MaxOps = 3
  Failures = FALSE
  Reregister = FALSE
SPECIFICATION Spec
INVARIANT NoFlagWhileRegistered

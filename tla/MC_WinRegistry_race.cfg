\* Two Java threads registering the two roles of one port.
CONSTANTS
  c1 = c1
  c2 = c2
  h1 = h1
  h2 = h2
  NoHandle = NoHandle
  NoCaller = NoCaller
  Callers <- MC_TwoCallers
  Handles <- MC_OneHandle
  Roles <- MC_BothRoles
  MaxThreads = 2
  MaxOps = 2
  Failures = FALSE
  Reregister = FALSE
SPECIFICATION Spec
INVARIANT OneThreadPerHandle

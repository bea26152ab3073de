\* Linux: set-up failures, status changes, removal and unregister over two registrations.
CONSTANTS
  Platform = "linux"
  InitLines <- MC_AnyLines
  JvmPortInit = "set"
  MaxChanges = 3
  MaxRegs = 3
SPECIFICATION Spec
INVARIANTS TypeOK RegisteredMeansServing
PROPERTIES ExitLiveness Refines

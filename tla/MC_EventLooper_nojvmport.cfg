\* Unregister in a process where no port monitor has run.
CONSTANTS
  Platform = "linux"
  InitLines <- MC_LinesLow
  JvmPortInit = "null"
  MaxChanges = 0
  MaxRegs = 1
SPECIFICATION Spec
INVARIANT NoCrashOnExit

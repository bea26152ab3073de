\* Linux: status changes while the thread is between two TIOCMIWAIT calls.
CONSTANTS
  Platform = "linux"
  InitLines <- MC_LinesLow
  JvmPortInit = "set"
  MaxChanges = 2
  MaxRegs = 1
SPECIFICATION Spec
PROPERTY StatusConverges

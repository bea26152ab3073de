\* macOS polling loop with status changes from any starting state.
CONSTANTS
  Platform = "macos"
  InitLines <- MC_AnyLines
  JvmPortInit = "set"
  MaxChanges = 3
  MaxRegs = 2
SPECIFICATION Spec
PROPERTY StatusConverges

\* macOS: an event listener stopped while a port monitor holds driver references.
CONSTANTS
  m1 = m1
  d1 = d1
  Null = Null
  Platform = "macos"
  InitLines <- MC_LinesLow
  MaxChanges = 0
  MaxRegs = 1
  Monitors <- MC_Monitors
  Devices <- MC_Devices
  PortOf <- MC_PortOf
  StatErrno <- MC_NoEnt
  PmSize = 2
  MaxEvents = 1
  Exits = TRUE
SPECIFICATION Spec
INVARIANT MonRefsTracked

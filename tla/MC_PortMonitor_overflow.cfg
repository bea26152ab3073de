\* macOS: pm_index only grows, so enough plugs write past pm_info.
CONSTANTS
  m1 = m1
  m2 = m2
  d1 = d1
  d2 = d2
  Null = Null
  Platform = "macos"
  Monitors <- MC_OneMonitor
  Devices <- MC_OneDevice
  PortOf <- MC_PortOf1
  StatErrno <- MC_NoEnt
  PmSize = 2
  MaxEvents = 4
  Exits = FALSE
SPECIFICATION Spec
INVARIANT PmInBounds

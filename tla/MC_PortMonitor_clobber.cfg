\* macOS, two monitors: one monitor's exit handler clears the other's pm_info entries, which are then never freed.
CONSTANTS
  m1 = m1
  m2 = m2
  d1 = d1
  d2 = d2
  Null = Null
  Platform = "macos"
  Monitors <- MC_TwoMonitors
  Devices <- MC_TwoDevices
  PortOf <- MC_PortOf2
  StatErrno <- MC_NoEnt
  PmSize = 4
  MaxEvents = 0
  Exits = TRUE
SPECIFICATION Spec
INVARIANT NoRefLeak

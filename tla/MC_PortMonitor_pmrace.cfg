\* macOS, two monitors: unlocked pm_info[pm_index] = ref; pm_index++ loses a reference.
CONSTANTS
  m1 = m1
  m2 = m2
  d1 = d1
  d2 = d2
  Null = Null
  Platform = "macos"
  Monitors <- MC_TwoMonitors
  Devices <- MC_TwoDevices
  PortOf <- MC_PortOf2
  StatErrno <- MC_NoEnt
  PmSize = 4
  MaxEvents = 0
  Exits = FALSE
SPECIFICATION Spec
INVARIANT RefsTracked

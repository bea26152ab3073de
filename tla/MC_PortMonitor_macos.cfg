\* macOS run loop, one monitor, two USB devices: pm_info tracks and the exit handler frees every driver reference.
CONSTANTS
  m1 = m1
  m2 = m2
  d1 = d1
  d2 = d2
  Null = Null
  Platform = "macos"
  Monitors <- MC_OneMonitor
  Devices <- MC_TwoDevices
  PortOf <- MC_PortOf1
  StatErrno <- MC_NoEntOrAcces
  PmSize = 6
  MaxEvents = 4
  Exits = TRUE
SPECIFICATION Spec
INVARIANTS RefsTracked NoRefLeak

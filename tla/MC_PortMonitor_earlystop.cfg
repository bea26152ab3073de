\* Linux: stopping a monitor before it installs its SIGUSR1 handler ends the process.
CONSTANTS
  m1 = m1
  m2 = m2
  d1 = d1
  d2 = d2
  Null = Null
  Platform = "linux"
  Monitors <- MC_OneMonitor
  Devices <- MC_OneDevice
  PortOf <- MC_PortOf1
  StatErrno <- MC_NoEnt
  PmSize = 1
  MaxEvents = 0
  Exits = TRUE
SPECIFICATION Spec
INVARIANT NoCrashOnStop

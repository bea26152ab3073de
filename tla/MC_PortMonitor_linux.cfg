\* Linux udev loop, one monitor, two USB devices: removals of the watched port are reported.
CONSTANTS
  m1 = m1
  m2 = m2
  d1 = d1
  d2 = d2
  Null = Null
  Platform = "linux"
  Monitors <- MC_OneMonitor
  Devices <- MC_TwoDevices
  PortOf <- MC_PortOf1
  StatErrno <- MC_NoEnt
  PmSize = 1
  MaxEvents = 6
  Exits = TRUE
SPECIFICATION Spec

PROPERTY RemovalReported

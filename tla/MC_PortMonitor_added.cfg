\* macOS: a device plugged before device_added drains the first batch, or joined to a batch with another, gets no added-event.
CONSTANTS
  m1 = m1
  m2 = m2
  d1 = d1
  d2 = d2
  Null = Null
  Platform = "macos"
  Monitors <- MC_OneMonitor
  Devices <- MC_TwoDevices
  PortOf <- MC_PortOf1
  StatErrno <- MC_NoEnt
  PmSize = 4
  MaxEvents = 2
  Exits = FALSE
SPECIFICATION Spec
INVARIANT AddedExactlyOnce

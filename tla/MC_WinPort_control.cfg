CONSTANTS
  com1 = com1
  h1 = h1
  h2 = h2
  none = none
  Ports <- MC_Ports
  Handles <- MC_Handles
  NoPort = none
  BaudCodes <- MC_BaudCodes
  DcbInit <- MC_DcbInit
  MaxCalls = 3
SPECIFICATION Spec
INVARIANT ControlApplied

\* Every wrapper and query on one port with two handle values: a port left
\* in the break state is one whose last sendBreak reported the failure.
CONSTANTS
  com1 = com1
  h1 = h1
  h2 = h2
  none = none
  Ports <- MC_Ports
  Handles <- MC_Handles
  NoPort = none
  BaudCodes <- MC_BaudCodes
  DcbInit <- MC_DcbInit
  MaxCalls = 4
SPECIFICATION Spec
INVARIANT TypeOK BreakReported

\* getSerialPortNames from every starting value of count: the call returns.
CONSTANTS
  Entries = 2
  DwordBits = 3
SPECIFICATION Spec
INVARIANT TypeOK
PROPERTY Returns

\* ERROR_MORE_DATA in the fill loop returns NULL with the registry key open.
CONSTANTS
  Entries = 2
  DwordBits = 3
SPECIFICATION Spec
INVARIANT KeyClosed

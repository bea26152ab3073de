\* The fill loop advances count instead of i: a returned array has one name set.
CONSTANTS
  Entries = 2
  DwordBits = 3
SPECIFICATION Spec
INVARIANT NamesListed

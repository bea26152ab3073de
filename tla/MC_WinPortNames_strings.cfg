\* The fill loop creates a String per pass until count wraps.
CONSTANTS
  Entries = 2
  DwordBits = 3
SPECIFICATION Spec
INVARIANT StringsBounded

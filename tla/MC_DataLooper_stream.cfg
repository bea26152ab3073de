\* data_looper when a read() that transfers bytes leaves errno at 0 (glibc on
\* Linux): every read is delivered at once; checks the byte stream.
CONSTANTS
  b1 = b1
  b2 = b2
  junk = junk
  Bytes <- MC_Bytes
  Junk <- junk
  Chunk = 2
  MaxBytes = 4
  Threshold = 2
  MaxErrWakeups = 2
  MaxRegs = 3
  SuccessErrno = {"0"}
  EmptyRead = {"zero", "eagain"}
SPECIFICATION Spec
INVARIANT DataIntegrity

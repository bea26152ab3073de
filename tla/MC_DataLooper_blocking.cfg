\* data_looper on a port opened for blocking reads, with reads that may
\* report EINTR after transferring bytes: after a partial read has drained
\* the port, the read loop calls read() again without a readiness check.
\* A thread blocked in read() is a real stop, so deadlock is not checked.
CONSTANTS
  b1 = b1
  b2 = b2
  junk = junk
  Bytes <- MC_OneByte
  Junk <- junk
  Chunk = 2
  MaxBytes = 2
  Threshold = 2
  MaxErrWakeups = 0
  MaxRegs = 1
  SuccessErrno = {"0", "EINTR"}
  EmptyRead = {}
SPECIFICATION Spec
PROPERTY ExitLiveness
CHECK_DEADLOCK FALSE

\* macOS data_looper: is a port that hangs up while the listener is
\* registered ever reported to the sink?  (kevent reports EV_EOF, which the
\* code reads as data.)
CONSTANTS
  b1 = b1
  b2 = b2
  junk = junk
  Bytes <- MC_Bytes
  Junk <- junk
  Chunk = 2
  MaxBytes = 3
  Threshold = 2
  MaxErrWakeups = 3
  MaxRegs = 2
  SuccessErrno = {"0", "EINTR"}
  EmptyRead = {"zero", "eagain"}
SPECIFICATION Spec

PROPERTY HangupReported

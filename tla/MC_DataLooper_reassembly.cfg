\* data_looper when a read() that transferred bytes leaves errno = EINTR:
\* the partial-read path of lines 362-385 hands the sink reassembled data.
CONSTANTS
  b1 = b1
  b2 = b2
  junk = junk
  Bytes <- MC_Bytes
  Junk <- junk
  Chunk = 2
  MaxBytes = 3
  Threshold = 2
  MaxErrWakeups = 0
  MaxRegs = 1
  SuccessErrno = {"0", "EINTR"}
  EmptyRead = {"zero", "eagain"}
SPECIFICATION Spec
INVARIANT DataIntegrity

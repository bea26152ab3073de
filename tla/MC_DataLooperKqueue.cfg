\* macOS data_looper with reads that may report EINTR after transferring
\* bytes, a non-blocking port that may hang up or be closed: set-up failures,
\* exit handshake, liveness and the refinement of ListenerLifecycle.
CONSTANTS
  b1 = b1
  b2 = b2
  junk = junk
  Bytes <- MC_Bytes
  Junk <- junk
  Chunk = 2
  MaxBytes = 3
  Threshold = 2
  MaxErrWakeups = 3
  MaxRegs = 2
  SuccessErrno = {"0", "EINTR"}
  EmptyRead = {"zero", "eagain"}
SPECIFICATION Spec
INVARIANTS TypeOK NoLeakOnExit RegisteredMeansServing
PROPERTIES ExitLiveness Refines

-------------------------- MODULE DataLooperKqueue --------------------------
(***************************************************************************)
(* data_looper() of unix_like_serial_lib.c, macOS build: a pipe and a      *)
(* kqueue instead of an eventfd and an epoll set.  The read loop (lines    *)
(* 354-422), the caller's register/unregister and the device are the same *)
(* code or the same protocol as in the Linux build, and are taken from     *)
(* DataLooper through D; the pipe's write end plays the eventfd's part, so *)
(* DataLooper's evfdCount is the number of bytes written to the pipe.      *)
(* What differs is written here: set-up (lines 255-287), the kevent call   *)
(* and the tests on evlist (305-352), the EV_ERROR branch (438-450) and    *)
(* teardown (333-342).                                                     *)
(*                                                                         *)
(* kevent re-adds both descriptors on every call.  A hung-up tty reports   *)
(* EVFILT_READ with EV_EOF, a flag the code never tests, so it is read     *)
(* like data; EV_ERROR comes only from re-adding a port descriptor the     *)
(* application has closed (fdOpen = FALSE), and such an entry is returned  *)
(* before the triggered events.                                            *)
(***************************************************************************)
EXTENDS Integers, Sequences, SequencesExt

CONSTANTS Bytes, Junk, Chunk, MaxBytes, Threshold, MaxErrWakeups, MaxRegs,
          SuccessErrno, EmptyRead

VARIABLES
  caller, tpc, mutexHeld, initDone, exitFlag,   \* as in DataLooper
  pipeBytes,    \* bytes written to pipe1[1] and never read
  held,         \* "jvm", "pipe" (both ends), "kq"
  evlist,       \* struct kevent evlist[2]: [ident, error (EV_ERROR)]
  rx, portErr,  \* the device, as in DataLooper
  fdOpen,       \* the application has not closed the port descriptor
  buffer, finalBuf, index, partialData, errorCount, sink, sent, errWakeups, regs

vars == <<caller, tpc, mutexHeld, initDone, exitFlag, pipeBytes, held, evlist,
          rx, portErr, fdOpen, buffer, finalBuf, index, partialData, errorCount,
          sink, sent, errWakeups, regs>>
threadLocals == <<buffer, finalBuf, index, partialData, errorCount>>

D == INSTANCE DataLooper WITH events <- evlist, evfdCount <- pipeBytes

KqResources == {"jvm", "pipe", "kq"}

PortEntry == [ident |-> "port", error |-> FALSE]
ErrorEntry == [ident |-> "port", error |-> TRUE]    \* data = EBADF
PipeEntry == [ident |-> "pipe", error |-> FALSE]

\* evlist is an uninitialised stack array: before kevent fills a cell, its
\* ident may equal either descriptor or neither.
StackEntries == {[ident |-> i, error |-> FALSE] : i \in {"port", "pipe", "other"}}

-----------------------------------------------------------------------------
(* Set-up, lines 134-291: the four JNI failure points shared with Linux,   *)
(* then pipe() and kqueue().                                                *)
InitFailPoints == {"attach", "class", "mid", "mide", "pipe", "kqueue"}

Acquired(f) ==
  CASE f = "attach"                               -> {}
    [] f \in {"class", "mid", "mide", "pipe"}     -> {"jvm"}
    [] f = "kqueue"                               -> {"jvm", "pipe"}

\* Mutant of ReleasedOn: the kqueue() failure branch forgets to close the pipe.
ReleasedOnKeepsPipe(f) ==
  CASE f = "attach"                               -> {}
    [] f \in {"class", "mid", "mide", "pipe"}     -> {"jvm"}
    [] f = "kqueue"                               -> {"jvm"}

ReleasedOn(f) ==
  CASE f = "attach"                               -> {}
    [] f \in {"class", "mid", "mide", "pipe"}     -> {"jvm"}
    [] f = "kqueue"                               -> {"jvm", "pipe"}

\* Mutant of InitCode: the kqueue() failure branch leaves data_init_done at 0.
InitCodeKqueueUnset(f) ==
  IF f \in {"attach", "class", "mid", "mide"} THEN D!JniError
  ELSE IF f = "kqueue" THEN 0 ELSE D!OsError

InitCode(f) == IF f \in {"attach", "class", "mid", "mide"} THEN D!JniError ELSE D!OsError

ThreadLock == D!ThreadLock /\ UNCHANGED fdOpen

ThreadInitFail(f) ==
  /\ tpc = "init"
  /\ held' = Acquired(f) \ ReleasedOn(f)
  /\ initDone' = InitCode(f)
  /\ mutexHeld' = FALSE /\ tpc' = "exited"
  /\ UNCHANGED <<caller, exitFlag, pipeBytes, evlist, rx, portErr, fdOpen,
                 threadLocals, sink, sent, errWakeups, regs>>

ThreadInitOk ==
  /\ tpc = "init"
  /\ held' = KqResources
  /\ initDone' = D!Success
  /\ mutexHeld' = FALSE /\ tpc' = "wait"
  /\ UNCHANGED <<caller, exitFlag, pipeBytes, evlist, rx, portErr, fdOpen,
                 threadLocals, sink, sent, errWakeups, regs>>

-----------------------------------------------------------------------------
(* kevent(kq, chlist, 2, evlist, 2, NULL), lines 306-311: the returned      *)
(* entries fill evlist[0..ret-1]; evlist[ret..1] keep what they held.        *)
Triggered == (IF fdOpen /\ (rx # <<>> \/ portErr) THEN {PortEntry} ELSE {})
             \cup (IF pipeBytes > 0 THEN {PipeEntry} ELSE {})

KeventResults ==
  { (IF fdOpen THEN <<>> ELSE <<ErrorEntry>>) \o s : s \in SetToSeqs(Triggered) }
    \ {<<>>}

KeventFill(res) == [i \in 0..1 |-> IF i < Len(res) THEN res[i + 1] ELSE evlist[i]]

\* Mutant of ExitSeen: the pipe alone ends the thread, without the flag test.
ExitSeenNoFlag(ev) == "pipe" \in {ev[0].ident, ev[1].ident}

\* Mutant of ExitSeen: only evlist[0] is tested for the pipe.
ExitSeenFirstOnly(ev) == ev[0].ident = "pipe" /\ exitFlag = 1

\* Lines 331-333: the pipe in either cell, and data_thread_exit == 1.
ExitSeen(ev) == "pipe" \in {ev[0].ident, ev[1].ident} /\ exitFlag = 1

\* Line 351: evlist[0] is the port without EV_ERROR.
ReadSelected(ev) == ev[0].ident = "port" /\ ~ev[0].error

\* Lines 333-342: close(kq), close both pipe ends, DetachCurrentThread.
WaitExit ==
  /\ tpc = "wait"
  /\ \E res \in KeventResults : evlist' = KeventFill(res) /\ ExitSeen(evlist')
  /\ held' = {} /\ tpc' = "exited"
  /\ UNCHANGED <<caller, mutexHeld, initDone, exitFlag, pipeBytes, rx, portErr,
                 fdOpen, threadLocals, sink, sent, errWakeups, regs>>

WaitData ==
  /\ tpc = "wait"
  /\ \E res \in KeventResults :
        evlist' = KeventFill(res) /\ ~ExitSeen(evlist') /\ ReadSelected(evlist')
  /\ tpc' = "read"
  /\ UNCHANGED <<caller, mutexHeld, initDone, exitFlag, pipeBytes, held, rx,
                 portErr, fdOpen, threadLocals, sink, sent, errWakeups, regs>>

\* Lines 438-449: EV_ERROR on evlist[0] is counted; every Threshold-th one
\* calls insertInDataErrorQueue(evlist[0].data).
WaitError ==
  /\ tpc = "wait" /\ errWakeups < MaxErrWakeups
  /\ \E res \in KeventResults :
        /\ evlist' = KeventFill(res)
        /\ ~ExitSeen(evlist') /\ ~ReadSelected(evlist') /\ evlist'[0].error
  /\ IF D!ThresholdReached(errorCount + 1)
       THEN sink' = Append(sink, D!LinkErrorCall) /\ errorCount' = 0
       ELSE errorCount' = errorCount + 1 /\ UNCHANGED sink
  /\ errWakeups' = errWakeups + 1
  /\ UNCHANGED <<caller, tpc, mutexHeld, initDone, exitFlag, pipeBytes, held, rx,
                 portErr, fdOpen, buffer, finalBuf, index, partialData, sent, regs>>

-----------------------------------------------------------------------------
(* The read loop is DataLooper's, on an open descriptor.  On a closed one   *)
(* read() fails with EBADF: insertInDataErrorQueue(errno), back to kevent.  *)
ReadOpen == fdOpen /\ UNCHANGED fdOpen

ReadComplete(n) == D!ReadComplete(n) /\ ReadOpen
ReadInterrupted(n) == D!ReadInterrupted(n) /\ ReadOpen
ReadFails == D!ReadFails /\ ReadOpen
ReadZero == D!ReadZero /\ ReadOpen

ReadBadFd ==
  /\ tpc = "read" /\ ~fdOpen
  /\ sink' = Append(sink, D!ReadErrorCall)
  /\ tpc' = "wait"
  /\ UNCHANGED <<caller, mutexHeld, initDone, exitFlag, pipeBytes, held, evlist,
                 rx, portErr, fdOpen, threadLocals, sent, errWakeups, regs>>

-----------------------------------------------------------------------------
(* The caller and the device as in DataLooper; a new thread starts with     *)
(* evlist uninitialised.  The application may close the port while the      *)
(* listener is registered.                                                  *)
Register ==
  /\ caller = "idle" /\ tpc \in {"none", "exited"} /\ fdOpen
  /\ regs < MaxRegs
  /\ caller' = "waiting" /\ tpc' = "start"
  /\ initDone' = 0 /\ exitFlag' = 0 /\ pipeBytes' = 0
  /\ evlist' \in [0..1 -> StackEntries]
  /\ buffer' = [i \in 0..Chunk - 1 |-> Junk]
  /\ finalBuf' = [i \in 0..3 * Chunk - 1 |-> Junk]
  /\ index' = 0 /\ partialData' = FALSE /\ errorCount' = 0
  /\ regs' = regs + 1
  /\ UNCHANGED <<mutexHeld, held, rx, portErr, fdOpen, sink, sent, errWakeups>>

AwaitInit == D!AwaitInit /\ UNCHANGED fdOpen
Unregister == D!Unregister /\ UNCHANGED fdOpen
UnregisterWake == D!UnregisterWake /\ UNCHANGED fdOpen

CloseFd ==
  /\ fdOpen /\ caller = "registered"
  /\ fdOpen' = FALSE
  /\ UNCHANGED <<caller, tpc, mutexHeld, initDone, exitFlag, pipeBytes, held,
                 evlist, rx, portErr, threadLocals, sink, sent, errWakeups, regs>>

Arrive(b) == D!Arrive(b) /\ UNCHANGED fdOpen
Unplug == D!Unplug /\ UNCHANGED fdOpen

-----------------------------------------------------------------------------
Init == D!Init /\ fdOpen = TRUE

ThreadNext ==
  \/ ThreadLock
  \/ \E f \in InitFailPoints : ThreadInitFail(f)
  \/ ThreadInitOk
  \/ WaitExit \/ WaitData \/ WaitError
  \/ \E n \in 1..Chunk : ReadComplete(n) \/ ReadInterrupted(n)
  \/ ReadFails \/ ReadZero \/ ReadBadFd

CallerNext == Register \/ AwaitInit \/ Unregister \/ UnregisterWake \/ CloseFd

DeviceNext == (\E b \in Bytes : Arrive(b)) \/ Unplug

Finished ==
  /\ regs = MaxRegs \/ ~fdOpen
  /\ caller = "idle" /\ tpc \in {"none", "exited"}
  /\ UNCHANGED vars

Next == ThreadNext \/ CallerNext \/ DeviceNext \/ Finished

\* As in DataLooper: the thread is scheduled, register's wait loop runs until
\* it sees the result, an unregister that has set the flag writes the pipe;
\* the application and the device are not fair.
Spec == Init /\ [][Next]_vars /\ WF_vars(ThreadNext) /\ WF_vars(AwaitInit)
        /\ WF_vars(UnregisterWake)

-----------------------------------------------------------------------------
TypeOK ==
  /\ caller \in {"idle", "waiting", "registered", "stopping"}
  /\ tpc \in {"none", "start", "init", "wait", "read", "exited"}
  /\ held \subseteq KqResources /\ fdOpen \in BOOLEAN /\ pipeBytes \in {0, 1}
  /\ tpc = "none" \/ evlist \in [0..1 -> StackEntries \cup {ErrorEntry}]  \* no thread, no evlist
  /\ errorCount \in 0..Threshold - 1
  /\ \A i \in DOMAIN sink : sink[i].kind \in {"data", "rxerr", "linkerr"}

(* Every exit of the macOS data_looper (six set-up failures, the exit on    *)
(* unregister) leaves no pipe end, kqueue or JVM attachment behind.         *)
NoLeakOnExit == D!NoLeakOnExit

(* register reports success only while the thread is in its kevent/read     *)
(* loop holding its pipe, kqueue and JVM attachment, also when evlist[1]    *)
(* is stale or was never written (line 331 reads it after a one-entry       *)
(* kevent).                                                                 *)
RegisteredMeansServing ==
  caller = "registered" => tpc \in {"wait", "read"} /\ held = KqResources

(* After unregister has set data_thread_exit and written the pipe, the      *)
(* thread ends, whichever order kevent returns the pipe and the port in,    *)
(* also while the port is hung up or closed and wakes kevent every time.    *)
ExitLiveness == D!ExitLiveness

(* macOS: DataLooper's HangupReported.  A hung-up tty reports EVFILT_READ  *)
(* with EV_EOF, which line 351 does not test: the thread reads 0 bytes and  *)
(* goes back to kevent, and the sink is never told.                         *)
HangupReported == D!HangupReported

LL == INSTANCE ListenerLifecycle
        WITH reg <- D!RegOf(caller), life <- D!LifeOf(tpc), stop <- (exitFlag = 1)

(* The macOS data_looper and its caller implement ListenerLifecycle: the    *)
(* thread leaves its loop only when asked, whatever evlist[1] holds.        *)
Refines == LL!Spec

=============================================================================

---------------------------- MODULE EventLooper ----------------------------
(***************************************************************************)
(* event_looper and event_exit_signal_handler of unix_like_serial_lib.c    *)
(* (lines 460-624): the thread that reports modem-status changes of one    *)
(* port, on Linux (blocking in TIOCMIWAIT, every change delivered) or on   *)
(* macOS (polling every 500 ms, a change delivered only when the status    *)
(* differs from the last one).  The thread has no exit flag: it ends only  *)
(* when SIGUSR1 runs event_exit_signal_handler in it.                      *)
(*                                                                         *)
(* The JNI caller that starts the thread, waits for event_init_done and    *)
(* sends SIGUSR1 on unregister is not in this repository; it is modelled   *)
(* from spec.md 4.1 and 4.2.  jvm_port, read by the handler, is written    *)
(* only by port_monitor (line 765): here it is a variable left as the      *)
(* process found it.                                                       *)
(***************************************************************************)
EXTENDS Integers, Sequences

CONSTANTS
  Platform,      \* "linux" or "macos"
  InitLines,     \* the status-line states the port may start in
  JvmPortInit,   \* "set" if a port monitor has run in this process, else "null"
  MaxChanges,    \* bound on status-line changes
  MaxRegs        \* bound on register calls

\* The modem-status bits of TIOCMGET (ioctl-types.h / ttycom.h).
TIOCM_CTS == 32
TIOCM_CD  == 64
TIOCM_RI  == 128
TIOCM_DSR == 256
MsrBits == {TIOCM_CTS, TIOCM_CD, TIOCM_RI, TIOCM_DSR}

ASSUME /\ Platform \in {"linux", "macos"}
       /\ InitLines \subseteq SUBSET MsrBits /\ InitLines # {}
       /\ JvmPortInit \in {"set", "null"}
       /\ MaxChanges \in Nat /\ MaxRegs \in Nat

VARIABLES
  caller,      \* the Java side: "idle", "waiting" (for event_init_done), "registered"
  tpc,         \* the thread: "none", "start", "init", "wait", "get", "exited", "crashed"
  mutexHeld,   \* params->mutex held by the thread (lines 495-544)
  initDone,    \* params->event_init_done
  handler,     \* the process's SIGUSR1 disposition: "default" or "event"
  sigPending,  \* SIGUSR1 sent to the thread and not yet handled
  jvmPort,     \* the global jvm_port: "null" or "set"
  lines,       \* the port's modem-status lines that are high
  changed,     \* a change happened while the thread was inside TIOCMIWAIT
  present,     \* the device is plugged in
  oldstate,    \* macOS: the last status delivered by this thread
  delivered,   \* the events delivered to this registration's looper, in order
  changes,     \* history: status-line changes so far
  regs         \* history: register calls so far

vars == <<caller, tpc, mutexHeld, initDone, handler, sigPending, jvmPort,
          lines, changed, present, oldstate, delivered, changes, regs>>

-----------------------------------------------------------------------------
Success == 1
JniError == -240

\* Mutant of Decode: RI is given the bit 0x10 instead of 0x08.
DecodeRiWide(ls) ==
  (IF TIOCM_CTS \in ls THEN 1 ELSE 0) + (IF TIOCM_DSR \in ls THEN 2 ELSE 0)
  + (IF TIOCM_CD \in ls THEN 4 ELSE 0) + (IF TIOCM_RI \in ls THEN 16 ELSE 0)

\* Lines 581-597: the status bits become the event mask CTS = 1, DSR = 2,
\* DCD = 4, RI = 8.
Decode(ls) ==
  (IF TIOCM_CTS \in ls THEN 1 ELSE 0) + (IF TIOCM_DSR \in ls THEN 2 ELSE 0)
  + (IF TIOCM_CD \in ls THEN 4 ELSE 0) + (IF TIOCM_RI \in ls THEN 8 ELSE 0)

\* The set-up failure points, in code order (lines 500-540).
InitFailPoints == {"attach", "class", "mid", "signal"}

\* Mutant of InitCode: the signal() failure branch reports success.
InitCodeSignalOk(f) == IF f = "signal" THEN Success ELSE JniError

\* Mutant of InitCode: the signal() failure branch exits without setting
\* event_init_done, which stays 0.
InitCodeSignalUnset(f) == IF f = "signal" THEN 0 ELSE JniError

\* Every failure branch sets event_init_done = -240.
InitCode(f) == JniError

\* Line 495.
ThreadLock ==
  /\ tpc = "start" /\ ~mutexHeld
  /\ mutexHeld' = TRUE /\ tpc' = "init"
  /\ UNCHANGED <<caller, initDone, handler, sigPending, jvmPort, lines, changed,
                 present, oldstate, delivered, changes, regs>>

\* Lines 500-540: AttachCurrentThread, GetObjectClass, GetMethodID or
\* signal(SIGUSR1) fails: event_init_done, unlock, pthread_exit.
ThreadInitFail(f) ==
  /\ tpc = "init"
  /\ initDone' = InitCode(f)
  /\ mutexHeld' = FALSE /\ tpc' = "exited"
  /\ UNCHANGED <<caller, handler, sigPending, jvmPort, lines, changed, present,
                 oldstate, delivered, changes, regs>>

\* Lines 533 and 543-544: the handler is installed for the whole process,
\* then success is reported and the mutex released.
ThreadInitOk ==
  /\ tpc = "init"
  /\ handler' = "event"
  /\ initDone' = Success
  /\ mutexHeld' = FALSE /\ tpc' = "wait"
  /\ UNCHANGED <<caller, sigPending, jvmPort, lines, changed, present, oldstate,
                 delivered, changes, regs>>

\* Linux, line 560: TIOCMIWAIT returns once a status line has changed since
\* the call began.  With the device gone it fails at once and the loop
\* continues (line 564): a spin that changes no state.
WaitReturn ==
  /\ Platform = "linux"
  /\ tpc = "wait" /\ present /\ changed
  /\ changed' = FALSE /\ tpc' = "get"
  /\ UNCHANGED <<caller, mutexHeld, initDone, handler, sigPending, jvmPort,
                 lines, present, oldstate, delivered, changes, regs>>

\* macOS, line 569: usleep(500000).
Sleep ==
  /\ Platform = "macos"
  /\ tpc = "wait"
  /\ tpc' = "get"
  /\ UNCHANGED <<caller, mutexHeld, initDone, handler, sigPending, jvmPort,
                 lines, changed, present, oldstate, delivered, changes, regs>>

\* Mutant of Report: oldstate is not updated after a delivery.
ReportKeepsOld(ev) ==
  IF Platform = "linux" \/ ev # oldstate
    THEN delivered' = Append(delivered, ev) /\ UNCHANGED oldstate
    ELSE UNCHANGED <<delivered, oldstate>>

\* Lines 599-620: Linux delivers every event; macOS only one that differs
\* from oldstate, which it then updates.
Report(ev) ==
  IF Platform = "linux" THEN delivered' = Append(delivered, ev) /\ UNCHANGED oldstate
  ELSE IF ev # oldstate THEN delivered' = Append(delivered, ev) /\ oldstate' = ev
  ELSE UNCHANGED <<delivered, oldstate>>

\* Lines 573-620: TIOCMGET, decode, report, back to the wait.
GetStatus ==
  /\ tpc = "get" /\ present
  /\ Report(Decode(lines))
  /\ tpc' = "wait"
  /\ UNCHANGED <<caller, mutexHeld, initDone, handler, sigPending, jvmPort,
                 lines, changed, present, changes, regs>>

\* Lines 574-579: TIOCMGET fails on a removed device: continue.
GetFails ==
  /\ tpc = "get" /\ ~present
  /\ tpc' = "wait"
  /\ UNCHANGED <<caller, mutexHeld, initDone, handler, sigPending, jvmPort,
                 lines, changed, present, oldstate, delivered, changes, regs>>

\* Mutant of ExitHandler: the handler detaches but does not end the thread.
ExitHandlerReturns == IF jvmPort = "null" THEN "crashed" ELSE tpc

\* Lines 461-471: DetachCurrentThread through jvm_port, then pthread_exit; a
\* NULL jvm_port is dereferenced and the process dies.
ExitHandler == IF jvmPort = "null" THEN "crashed" ELSE "exited"

\* SIGUSR1 is taken while the thread runs its loop.  Under the default
\* disposition the signal ends the process.
SignalTaken ==
  /\ sigPending /\ tpc \in {"wait", "get"}
  /\ sigPending' = FALSE
  /\ tpc' = IF handler = "event" THEN ExitHandler ELSE "crashed"
  /\ UNCHANGED <<caller, mutexHeld, initDone, handler, jvmPort, lines, changed,
                 present, oldstate, delivered, changes, regs>>

-----------------------------------------------------------------------------
(* The caller, from spec.md 4.1-4.2: register starts event_looper (locals  *)
(* zeroed, lines 476-493) and waits for event_init_done under the mutex;   *)
(* unregister sends SIGUSR1 to the thread.  Nothing runs once the process *)
(* has died.                                                               *)
Register ==
  /\ caller = "idle" /\ tpc \in {"none", "exited"}
  /\ regs < MaxRegs
  /\ caller' = "waiting" /\ tpc' = "start"
  /\ initDone' = 0 /\ oldstate' = 0 /\ delivered' = <<>>
  /\ regs' = regs + 1
  /\ UNCHANGED <<mutexHeld, handler, sigPending, jvmPort, lines, changed,
                 present, changes>>

AwaitInit ==
  /\ tpc # "crashed"
  /\ caller = "waiting" /\ ~mutexHeld /\ initDone # 0
  /\ caller' = IF initDone = Success THEN "registered" ELSE "idle"
  /\ UNCHANGED <<tpc, mutexHeld, initDone, handler, sigPending, jvmPort, lines,
                 changed, present, oldstate, delivered, changes, regs>>

Unregister ==
  /\ tpc # "crashed"
  /\ caller = "registered"
  /\ sigPending' = TRUE /\ caller' = "idle"
  /\ UNCHANGED <<tpc, mutexHeld, initDone, handler, jvmPort, lines, changed,
                 present, oldstate, delivered, changes, regs>>

(* The device: a status line toggles, or the device is removed.            *)
Toggle(b) ==
  /\ present /\ changes < MaxChanges
  /\ lines' = IF b \in lines THEN lines \ {b} ELSE lines \cup {b}
  /\ changed' = (changed \/ tpc = "wait")
  /\ changes' = changes + 1
  /\ UNCHANGED <<caller, tpc, mutexHeld, initDone, handler, sigPending, jvmPort,
                 present, oldstate, delivered, regs>>

Remove ==
  /\ present /\ present' = FALSE
  /\ UNCHANGED <<caller, tpc, mutexHeld, initDone, handler, sigPending, jvmPort,
                 lines, changed, oldstate, delivered, changes, regs>>

-----------------------------------------------------------------------------
Init ==
  /\ caller = "idle" /\ tpc = "none" /\ mutexHeld = FALSE /\ initDone = 0
  /\ handler = "default" /\ sigPending = FALSE /\ jvmPort = JvmPortInit
  /\ lines \in InitLines /\ changed = FALSE /\ present = TRUE
  /\ oldstate = 0 /\ delivered = <<>> /\ changes = 0 /\ regs = 0

ThreadNext ==
  \/ ThreadLock \/ (\E f \in InitFailPoints : ThreadInitFail(f)) \/ ThreadInitOk
  \/ WaitReturn \/ Sleep \/ GetStatus \/ GetFails \/ SignalTaken

CallerNext == Register \/ AwaitInit \/ Unregister

DeviceNext == (\E b \in MsrBits : Toggle(b)) \/ Remove

\* The application may stop calling whenever no call of its is in progress,
\* and nothing runs once the process has died; a thread still running is
\* judged by ExitLiveness.
Finished ==
  /\ caller = "idle" \/ tpc = "crashed"
  /\ UNCHANGED vars

Next ==
  \/ ThreadNext
  \/ CallerNext
  \/ DeviceNext
  \/ Finished

\* The thread is an OS thread, the kernel runs a pending signal's handler
\* when the thread next runs, and the caller's wait for event_init_done
\* loops until it sees a result.
Spec == Init /\ [][Next]_vars /\ WF_vars(ThreadNext) /\ WF_vars(AwaitInit)

-----------------------------------------------------------------------------
\* The status the application last heard of; a listener told nothing takes
\* every line as low, as the macOS thread's oldstate = 0 does (line 491).
LastEvent == IF delivered = <<>> THEN 0 ELSE delivered[Len(delivered)]

TypeOK ==
  /\ caller \in {"idle", "waiting", "registered"}
  /\ tpc \in {"none", "start", "init", "wait", "get", "exited", "crashed"}
  /\ mutexHeld \in BOOLEAN /\ initDone \in {0, Success, JniError}
  /\ handler \in {"default", "event"} /\ sigPending \in BOOLEAN
  /\ jvmPort \in {"null", "set"}
  /\ lines \subseteq MsrBits /\ changed \in BOOLEAN /\ present \in BOOLEAN
  /\ oldstate \in 0..15
  /\ delivered \in Seq(0..15)
  /\ changes \in 0..MaxChanges /\ regs \in 0..MaxRegs

\* register returns success only when the thread is in its loop with the
\* SIGUSR1 handler installed, so that unregister can stop it.
RegisteredMeansServing ==
  caller = "registered" => tpc \in {"wait", "get"} /\ handler = "event"

\* After unregister has sent SIGUSR1 the thread ends, also when the device
\* has been removed and the Linux loop spins on a failing TIOCMIWAIT.
ExitLiveness == sigPending ~> tpc = "exited"

\* The process survives an unregister: event_exit_signal_handler never
\* dereferences a NULL jvm_port (line 464).
NoCrashOnExit == tpc # "crashed"

\* While a listener is registered and the device present, the status it
\* last received comes to match the lines (spec.md 4.4: the loop reports
\* status changes).
StatusConverges ==
  (caller = "registered" /\ present)
    ~> (LastEvent = Decode(lines) \/ caller # "registered" \/ ~present)


-----------------------------------------------------------------------------
(* Refinement.  Seen from outside, set-up (lock and init) is the listener  *)
(* "starting", the TIOCMIWAIT/poll loop "serving", and a thread that has   *)
(* ended (or died with the process) "ended".  The request to stop is the   *)
(* pending SIGUSR1, and stays visible after the handler has ended a thread *)
(* that had started serving.                                               *)
LifeOf(t) ==
  CASE t = "none"                    -> "none"
    [] t \in {"start", "init"}       -> "starting"
    [] t \in {"wait", "get"}         -> "serving"
    [] t \in {"exited", "crashed"}   -> "ended"

LL == INSTANCE ListenerLifecycle
        WITH reg <- caller, life <- LifeOf(tpc),
             stop <- (sigPending \/ (tpc = "exited" /\ initDone = Success))

(* event_looper and its caller implement the listener promise: register    *)
(* answers only once set-up has ended, each of the four failure branches   *)
(* publishing a non-zero event_init_done; success means a thread in its    *)
(* loop; the thread leaves its loop only through the SIGUSR1 handler, and  *)
(* a thread sent SIGUSR1 ends.                                             *)
Refines == LL!Spec

=============================================================================

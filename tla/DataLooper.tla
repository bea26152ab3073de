----------------------------- MODULE DataLooper -----------------------------
(***************************************************************************)
(* The data listener thread data_looper() of unix_like_serial_lib.c, Linux *)
(* build (epoll + eventfd), together with the JNI-layer caller that starts *)
(* it (register: spawn, then wait for data_init_done under the mutex) and  *)
(* stops it (unregister: set data_thread_exit, then write the eventfd).    *)
(* The caller's code is not in this repository; its two operations are     *)
(* modelled from spec.md section 4.1.                                       *)
(*                                                                         *)
(* Bytes are model values; the kernel receive queue of the port is rx.     *)
(* The thread's two stack buffers buffer[0..Chunk-1] and                   *)
(* final_buf[0..3*Chunk-1] are kept cell by cell, because the partial-read *)
(* path indexes them; a cell never written holds Junk (uninitialised).     *)
(***************************************************************************)
EXTENDS Integers, Sequences, SequencesExt

CONSTANTS
  Bytes,          \* byte values the device may send
  Junk,           \* content of a stack cell never written (model value)
  Chunk,          \* sizeof(buffer): 1024 in the code
  MaxBytes,       \* bound on the bytes the device sends in one behaviour
  Threshold,      \* the errorCount value at which the sink is called: 100
  MaxErrWakeups,  \* bound on epoll wake-ups with EPOLLERR|EPOLLHUP
  MaxRegs,        \* bound on register calls in one behaviour
  SuccessErrno,   \* errno values a read() returning > 0 may leave: {0} or {0, EINTR}
  EmptyRead       \* what read() on an empty, healthy port returns:
                  \* a subset of {"zero", "eagain"}; {} means it blocks

ASSUME /\ Junk \notin Bytes
       /\ Chunk \in Nat \ {0}
       /\ MaxBytes \in Nat /\ MaxErrWakeups \in Nat /\ MaxRegs \in Nat
       /\ Threshold \in Nat \ {0}
       /\ SuccessErrno \subseteq {"0", "EINTR"} /\ "0" \in SuccessErrno
       /\ EmptyRead \subseteq {"zero", "eagain"}

VARIABLES
  caller,       \* JNI caller: "idle", "waiting" (for init-done), "registered",
                \* "stopping" (unregister between its flag and its eventfd write)
  tpc,          \* thread: "none", "start", "init", "wait", "read", "exited"
  mutexHeld,    \* params->mutex held by the thread (lines 134-291)
  initDone,     \* params->data_init_done: 0 pending, 1 success, < 0 error
  exitFlag,     \* params->data_thread_exit
  evfdCount,    \* the eventfd counter (never read back, so never drained)
  held,         \* resources the thread holds: "jvm" attachment, "evfd", "epfd"
  events,       \* events[0..1] as filled by the last epoll_wait
  rx,           \* bytes queued in the port's receive buffer
  portErr,      \* the port is hung up (device removed): EPOLLERR|EPOLLHUP
  buffer,       \* jbyte buffer[1024]
  finalBuf,     \* jbyte final_buf[1024 * 3]
  index,        \* local index
  partialData,  \* local partialData = 1
  errorCount,   \* local errorCount
  sink,         \* calls made on the looper object, in order
  sent,         \* history: every byte the device sent
  errWakeups,   \* history: epoll wake-ups taking the EPOLLERR|EPOLLHUP branch
  regs          \* history: register calls so far

vars == <<caller, tpc, mutexHeld, initDone, exitFlag, evfdCount, held, events,
          rx, portErr, buffer, finalBuf, index, partialData, errorCount, sink,
          sent, errWakeups, regs>>
threadLocals == <<buffer, finalBuf, index, partialData, errorCount>>

-----------------------------------------------------------------------------
Success == 1
JniError == -240          \* data_init_done = -240 on a JNI failure
OsError == -1             \* data_init_done = negative * errno (errno abstracted)
Resources == {"jvm", "evfd", "epfd"}

NoEvent == [fd |-> "none", in |-> FALSE, err |-> FALSE]  \* calloc'd entry
PortEvent == [fd |-> "port", in |-> TRUE, err |-> portErr]
ExitEvent == [fd |-> "evfd", in |-> TRUE, err |-> FALSE]

DataCall(s) == [kind |-> "data", bytes |-> s]   \* insertInDataQueue(bytes)
ReadErrorCall == [kind |-> "rxerr", bytes |-> <<>>]  \* insertInDataErrorQueue(errno)
LinkErrorCall == [kind |-> "linkerr", bytes |-> <<>>] \* insertInDataErrorQueue(events)

\* Mutant of Cells: the byte array is created one byte short.
CellsShort(arr, k) == [i \in 1..k - 1 |-> arr[i - 1]]

\* The first k cells of a stack array, as the byte array NewByteArray(k) gets.
Cells(arr, k) == [i \in 1..k |-> arr[i - 1]]

-----------------------------------------------------------------------------
(* Thread set-up, lines 134-291.  The failure points in code order; each   *)
(* one sets data_init_done, releases what its branch releases, unlocks the *)
(* mutex and calls pthread_exit.                                           *)
InitFailPoints == {"attach", "class", "mid", "mide", "eventfd",
                   "epoll_create", "ctl_port", "ctl_exit"}

\* What the thread holds when the failure at point f is detected.
Acquired(f) ==
  CASE f = "attach"                      -> {}
    [] f \in {"class", "mid", "mide", "eventfd"} -> {"jvm"}
    [] f = "epoll_create"                -> {"jvm", "evfd"}
    [] f \in {"ctl_port", "ctl_exit"}    -> {"jvm", "evfd", "epfd"}

\* Mutant of ReleasedOn: the epoll_ctl(evfd) failure branch forgets close(evfd).
ReleasedOnKeepsEvfd(f) ==
  CASE f = "attach"                      -> {}
    [] f \in {"class", "mid", "mide", "eventfd"} -> {"jvm"}
    [] f = "epoll_create"                -> {"jvm", "evfd"}
    [] f = "ctl_port"                    -> {"jvm", "evfd", "epfd"}
    [] f = "ctl_exit"                    -> {"jvm", "epfd"}

\* What the branch of failure point f closes or detaches.
ReleasedOn(f) ==
  CASE f = "attach"                      -> {}
    [] f \in {"class", "mid", "mide", "eventfd"} -> {"jvm"}
    [] f = "epoll_create"                -> {"jvm", "evfd"}
    [] f \in {"ctl_port", "ctl_exit"}    -> {"jvm", "evfd", "epfd"}

\* Mutant of InitCode: the epoll_ctl(evfd) failure branch leaves data_init_done
\* as the success value.
InitCodeCtlExitSuccess(f) ==
  IF f \in {"attach", "class", "mid", "mide"} THEN JniError
  ELSE IF f = "ctl_exit" THEN Success ELSE OsError

\* Mutant of InitCode: the eventfd() failure branch returns without storing
\* its error in data_init_done, which stays 0.
InitCodeEventfdUnset(f) ==
  IF f \in {"attach", "class", "mid", "mide"} THEN JniError
  ELSE IF f = "eventfd" THEN 0 ELSE OsError

InitCode(f) == IF f \in {"attach", "class", "mid", "mide"} THEN JniError ELSE OsError

ThreadLock ==
  /\ tpc = "start" /\ ~mutexHeld
  /\ mutexHeld' = TRUE /\ tpc' = "init"
  /\ UNCHANGED <<caller, initDone, exitFlag, evfdCount, held, events, rx, portErr,
                 threadLocals, sink, sent, errWakeups, regs>>

ThreadInitFail(f) ==
  /\ tpc = "init"
  /\ held' = Acquired(f) \ ReleasedOn(f)
  /\ initDone' = InitCode(f)
  /\ mutexHeld' = FALSE /\ tpc' = "exited"
  /\ UNCHANGED <<caller, exitFlag, evfdCount, events, rx, portErr, threadLocals,
                 sink, sent, errWakeups, regs>>

ThreadInitOk ==
  /\ tpc = "init"
  /\ held' = Resources
  /\ initDone' = Success
  /\ mutexHeld' = FALSE /\ tpc' = "wait"
  /\ UNCHANGED <<caller, exitFlag, evfdCount, events, rx, portErr, threadLocals,
                 sink, sent, errWakeups, regs>>

-----------------------------------------------------------------------------
(* The wait loop, lines 294-346.  The port is registered level-triggered   *)
(* for EPOLLIN|EPOLLPRI|EPOLLERR|EPOLLHUP; a hung-up tty reports EPOLLIN    *)
(* together with EPOLLERR|EPOLLHUP.  The eventfd is readable once written.  *)
\* Mutant of Ready: the eventfd is never added to the epoll set.
ReadyWithoutEvfd == IF rx # <<>> \/ portErr THEN {PortEvent} ELSE {}

Ready == (IF rx # <<>> \/ portErr THEN {PortEvent} ELSE {})
         \cup (IF evfdCount > 0 THEN {ExitEvent} ELSE {})

\* epoll_wait returning ret = Len(order) > 0 ready entries in the kernel's
\* order: it fills events[0..ret-1] and leaves events[ret..] as they were.
\* (ret <= 0 makes the loop 'continue' with nothing changed.)
EpollResult(order) ==
  [i \in 0..1 |-> IF i < Len(order) THEN order[i + 1] ELSE events[i]]

\* Line 314: the exit flag is consulted only when the eventfd is among
\* events[0] and events[1].
ExitSeen(ev) == "evfd" \in {ev[0].fd, ev[1].fd} /\ exitFlag = 1

\* Mutant of ReadSelected: the EPOLLERR test is left out, so a hung-up port
\* (EPOLLIN|EPOLLERR|EPOLLHUP) is read instead of counted.
ReadSelectedNoErrTest(ev) == ev[0].in

\* Line 348: the port is read when events[0], whichever fd it is, has
\* EPOLLIN without EPOLLERR.
ReadSelected(ev) == ev[0].in /\ ~ev[0].err

WaitExit ==
  /\ tpc = "wait" /\ Ready # {}
  /\ \E order \in SetToSeqs(Ready) :
        /\ events' = EpollResult(order)
        /\ ExitSeen(events')
  /\ held' = {}      \* close(epfd), close(evfd), DetachCurrentThread
  /\ tpc' = "exited"
  /\ UNCHANGED <<caller, mutexHeld, initDone, exitFlag, evfdCount, rx, portErr,
                 threadLocals, sink, sent, errWakeups, regs>>

WaitData ==
  /\ tpc = "wait" /\ Ready # {}
  /\ \E order \in SetToSeqs(Ready) :
        /\ events' = EpollResult(order)
        /\ ~ExitSeen(events') /\ ReadSelected(events')
  /\ tpc' = "read"
  /\ UNCHANGED <<caller, mutexHeld, initDone, exitFlag, evfdCount, held, rx,
                 portErr, threadLocals, sink, sent, errWakeups, regs>>

\* Mutant of ThresholdReached: '>' written for '=='.
ThresholdPassed(c) == c > Threshold

\* Line 429: if(errorCount == 100).
ThresholdReached(c) == c = Threshold

\* Lines 426-435: EPOLLERR|EPOLLHUP on events[0] counts an error; the sink
\* is told on every Threshold-th one and the count starts again.
WaitLinkError ==
  /\ tpc = "wait" /\ Ready # {}
  /\ errWakeups < MaxErrWakeups
  /\ \E order \in SetToSeqs(Ready) :
        /\ events' = EpollResult(order)
        /\ ~ExitSeen(events') /\ ~ReadSelected(events') /\ events'[0].err
  /\ IF ThresholdReached(errorCount + 1)
       THEN /\ sink' = Append(sink, LinkErrorCall)
            /\ errorCount' = 0
       ELSE /\ errorCount' = errorCount + 1
            /\ UNCHANGED sink
  /\ errWakeups' = errWakeups + 1
  /\ UNCHANGED <<caller, tpc, mutexHeld, initDone, exitFlag, evfdCount, held, rx,
                 portErr, buffer, finalBuf, index, partialData, sent, regs>>

-----------------------------------------------------------------------------
(* The read loop, lines 354-422: read(fd, buffer, sizeof(buffer)) until a  *)
(* delivery, an error or a zero return ends it.  A read of n > 0 bytes     *)
(* fills buffer[0..n-1].  When partialData is set, the code copies         *)
(* buffer[i] to final_buf[i] for index <= i < n and hands final_buf[0 ..   *)
(* index+n-1] to the sink; partialData and index are never reset.          *)
ReadBuffer(n) == [i \in 0..Chunk - 1 |-> IF i < n THEN rx[i + 1] ELSE buffer[i]]

CopyPartial(buf, n) ==
  [i \in 0..3 * Chunk - 1 |-> IF index <= i /\ i < n THEN buf[i] ELSE finalBuf[i]]

ReadLimit == IF Len(rx) < Chunk THEN Len(rx) ELSE Chunk

\* ret > 0 && errno == 0: deliver and go back to epoll_wait.
ReadComplete(n) ==
  /\ tpc = "read" /\ ~portErr
  /\ n \in 1..ReadLimit
  /\ LET buf == ReadBuffer(n)
         fb  == CopyPartial(buf, n)
     IN /\ buffer' = buf
        /\ IF partialData
             THEN /\ finalBuf' = fb
                  /\ sink' = Append(sink, DataCall(Cells(fb, index + n)))
             ELSE /\ sink' = Append(sink, DataCall(Cells(buf, n)))
                  /\ UNCHANGED finalBuf
  /\ rx' = SubSeq(rx, n + 1, Len(rx))
  /\ tpc' = "wait"
  /\ UNCHANGED <<caller, mutexHeld, initDone, exitFlag, evfdCount, held, events,
                 portErr, index, partialData, errorCount, sent, errWakeups, regs>>

\* ret > 0 && errno == EINTR: keep the partial data and read again.
ReadInterrupted(n) ==
  /\ tpc = "read" /\ ~portErr
  /\ "EINTR" \in SuccessErrno
  /\ n \in 1..ReadLimit
  /\ LET buf == ReadBuffer(n)
     IN /\ buffer' = buf
        /\ finalBuf' = CopyPartial(buf, n)
  /\ index' = n
  /\ partialData' = TRUE
  /\ rx' = SubSeq(rx, n + 1, Len(rx))
  /\ UNCHANGED <<caller, tpc, mutexHeld, initDone, exitFlag, evfdCount, held,
                 events, portErr, errorCount, sink, sent, errWakeups, regs>>

\* ret < 0, errno other than EINTR (EAGAIN on an empty non-blocking port):
\* insertInDataErrorQueue(errno), then back to epoll_wait.
ReadFails ==
  /\ tpc = "read" /\ ~portErr /\ rx = <<>>
  /\ "eagain" \in EmptyRead
  /\ sink' = Append(sink, ReadErrorCall)
  /\ tpc' = "wait"
  /\ UNCHANGED <<caller, mutexHeld, initDone, exitFlag, evfdCount, held, events,
                 rx, portErr, threadLocals, sent, errWakeups, regs>>

\* ret == 0 (a hung-up tty, or an empty port with VMIN = 0): break, deliver
\* nothing, back to epoll_wait.
ReadZero ==
  /\ tpc = "read"
  /\ \/ portErr
     \/ rx = <<>> /\ "zero" \in EmptyRead
  /\ tpc' = "wait"
  /\ UNCHANGED <<caller, mutexHeld, initDone, exitFlag, evfdCount, held, events,
                 rx, portErr, threadLocals, sink, sent, errWakeups, regs>>

-----------------------------------------------------------------------------
(* The caller (spec.md 4.1 register/unregister, the Linux JNI layer).      *)
(* register spawns data_looper and blocks until data_init_done is no       *)
(* longer 0, reading it under the mutex; a new thread is spawned only once *)
(* the previous one has ended.  unregister sets data_thread_exit and then  *)
(* writes 1 to the eventfd.                                                *)
Register ==
  /\ caller = "idle" /\ tpc \in {"none", "exited"}
  /\ regs < MaxRegs
  /\ caller' = "waiting" /\ tpc' = "start"
  /\ initDone' = 0 /\ exitFlag' = 0 /\ evfdCount' = 0
  /\ events' = [i \in 0..1 |-> NoEvent]
  /\ buffer' = [i \in 0..Chunk - 1 |-> Junk]
  /\ finalBuf' = [i \in 0..3 * Chunk - 1 |-> Junk]
  /\ index' = 0 /\ partialData' = FALSE /\ errorCount' = 0
  /\ regs' = regs + 1
  /\ UNCHANGED <<mutexHeld, held, rx, portErr, sink, sent, errWakeups>>

AwaitInit ==
  /\ caller = "waiting" /\ ~mutexHeld /\ initDone # 0
  /\ caller' = IF initDone = Success THEN "registered" ELSE "idle"
  /\ UNCHANGED <<tpc, mutexHeld, initDone, exitFlag, evfdCount, held, events, rx,
                 portErr, threadLocals, sink, sent, errWakeups, regs>>

\* Unregister sets the exit flag, then forces the wake-up (spec.md 4.1): two
\* stores, between which the thread may run and read data_thread_exit.
Unregister ==
  /\ caller = "registered"
  /\ exitFlag' = 1 /\ caller' = "stopping"
  /\ UNCHANGED <<tpc, mutexHeld, initDone, evfdCount, held, events, rx, portErr,
                 threadLocals, sink, sent, errWakeups, regs>>

UnregisterWake ==
  /\ caller = "stopping"
  /\ evfdCount' = 1 /\ caller' = "idle"
  /\ UNCHANGED <<tpc, mutexHeld, initDone, exitFlag, held, events, rx, portErr,
                 threadLocals, sink, sent, errWakeups, regs>>

(* The device: bytes arrive, or the device is unplugged (the tty hangs up). *)
Arrive(b) ==
  /\ Len(sent) < MaxBytes
  /\ rx' = Append(rx, b) /\ sent' = Append(sent, b)
  /\ UNCHANGED <<caller, tpc, mutexHeld, initDone, exitFlag, evfdCount, held,
                 events, portErr, threadLocals, sink, errWakeups, regs>>

Unplug ==
  /\ ~portErr /\ portErr' = TRUE
  /\ UNCHANGED <<caller, tpc, mutexHeld, initDone, exitFlag, evfdCount, held,
                 events, rx, threadLocals, sink, sent, errWakeups, regs>>

-----------------------------------------------------------------------------
Init ==
  /\ caller = "idle" /\ tpc = "none" /\ mutexHeld = FALSE
  /\ initDone = 0 /\ exitFlag = 0 /\ evfdCount = 0 /\ held = {}
  /\ events = [i \in 0..1 |-> NoEvent]
  /\ rx = <<>> /\ portErr = FALSE
  /\ buffer = [i \in 0..Chunk - 1 |-> Junk]
  /\ finalBuf = [i \in 0..3 * Chunk - 1 |-> Junk]
  /\ index = 0 /\ partialData = FALSE /\ errorCount = 0
  /\ sink = <<>> /\ sent = <<>> /\ errWakeups = 0 /\ regs = 0

ThreadNext ==
  \/ ThreadLock
  \/ \E f \in InitFailPoints : ThreadInitFail(f)
  \/ ThreadInitOk
  \/ WaitExit \/ WaitData \/ WaitLinkError
  \/ \E n \in 1..Chunk : ReadComplete(n) \/ ReadInterrupted(n)
  \/ ReadFails \/ ReadZero

CallerNext == Register \/ AwaitInit \/ Unregister \/ UnregisterWake

DeviceNext == (\E b \in Bytes : Arrive(b)) \/ Unplug

\* Every register call has been made and answered, no thread is running.
Finished ==
  /\ regs = MaxRegs /\ caller = "idle" /\ tpc = "exited"
  /\ UNCHANGED vars

Next == ThreadNext \/ CallerNext \/ DeviceNext \/ Finished

\* The thread is an OS thread and is scheduled; the caller's wait for
\* data_init_done is a loop that runs until it sees the result, and an
\* unregister that has set the flag goes on to its eventfd write.  Register,
\* Unregister and the device act when they choose.
Spec == Init /\ [][Next]_vars /\ WF_vars(ThreadNext) /\ WF_vars(AwaitInit)
        /\ WF_vars(UnregisterWake)

-----------------------------------------------------------------------------
TypeOK ==
  /\ caller \in {"idle", "waiting", "registered", "stopping"}
  /\ tpc \in {"none", "start", "init", "wait", "read", "exited"}
  /\ mutexHeld \in BOOLEAN
  /\ initDone \in {0, Success, JniError, OsError}
  /\ exitFlag \in {0, 1} /\ evfdCount \in {0, 1}
  /\ held \subseteq Resources
  /\ events \in [0..1 -> {NoEvent, ExitEvent,
                          [fd |-> "port", in |-> TRUE, err |-> FALSE],
                          [fd |-> "port", in |-> TRUE, err |-> TRUE]}]
  /\ rx \in Seq(Bytes) /\ sent \in Seq(Bytes) /\ portErr \in BOOLEAN
  /\ buffer \in [0..Chunk - 1 -> Bytes \cup {Junk}]
  /\ finalBuf \in [0..3 * Chunk - 1 -> Bytes \cup {Junk}]
  /\ index \in 0..Chunk /\ partialData \in BOOLEAN
  /\ errorCount \in 0..Threshold - 1
  /\ \A i \in DOMAIN sink : sink[i].kind \in {"data", "rxerr", "linkerr"}

\* The bytes handed to insertInDataQueue, in call order, as one sequence.
DeliveredBytes ==
  FlattenSeq([i \in 1..Len(SelectSeq(sink, LAMBDA c : c.kind = "data")) |->
                SelectSeq(sink, LAMBDA c : c.kind = "data")[i].bytes])

(* Every exit path of data_looper (the eight set-up failures and the exit   *)
(* on unregister) leaves the thread holding no descriptor and no JVM        *)
(* attachment.                                                              *)
NoLeakOnExit == tpc \in {"none", "exited"} => held = {}

(* When register has returned success to the caller, the data_looper thread *)
(* it started is in its wait/read loop holding its epoll set, its eventfd   *)
(* and its JVM attachment: data_init_done = 1 is published only by a thread *)
(* that completed set-up.                                                   *)
RegisteredMeansServing ==
  caller = "registered" => tpc \in {"wait", "read"} /\ held = Resources

(* The application receives exactly the bytes the device sent, in order,    *)
(* without loss, duplication or invented bytes, up to what is still queued  *)
(* or unread: the concatenation of the insertInDataQueue arguments is a     *)
(* prefix of the bytes sent.  It rests on the read loop's partial-data      *)
(* reassembly into final_buf.                                               *)
DataIntegrity == IsPrefix(DeliveredBytes, sent)

(* Once unregister has set data_thread_exit and written the eventfd, the    *)
(* data_looper thread eventually ends, whatever it was doing (blocked in    *)
(* epoll_wait, inside the read loop, or spinning on a hung-up port).        *)
ExitLiveness == exitFlag = 1 ~> tpc = "exited"

(* A port that hangs up while the data listener is registered is           *)
(* eventually reported through insertInDataErrorQueue (spec.md 4.2 and 8:   *)
(* sustained link errors reach the sink at every Threshold-th occurrence),  *)
(* unless the listener is stopped first: the EPOLLERR|EPOLLHUP branch of    *)
(* lines 424-436 must be taken rather than the read loop.                   *)
HangupReported ==
  (portErr /\ caller = "registered")
    ~> (\E i \in DOMAIN sink : sink[i].kind = "linkerr") \/ caller # "registered"


-----------------------------------------------------------------------------
(* Refinement.  The thread's program counter, seen from outside, is the     *)
(* listener phase of ListenerLifecycle: set-up (lock and init) is           *)
(* "starting", the wait/read loop is "serving"; data_thread_exit = 1 is the *)
(* request to stop.  Every other step of the thread and the device is a     *)
(* stuttering step of the abstract listener.                                *)
LifeOf(t) ==
  CASE t = "none"               -> "none"
    [] t \in {"start", "init"}  -> "starting"
    [] t \in {"wait", "read"}   -> "serving"
    [] t = "exited"             -> "ended"

\* The registration is withdrawn once unregister has set the flag; its
\* eventfd write is a stuttering step of the abstract listener.
RegOf(c) == IF c = "stopping" THEN "idle" ELSE c

LL == INSTANCE ListenerLifecycle
        WITH reg <- RegOf(caller), life <- LifeOf(tpc), stop <- (exitFlag = 1)

(* data_looper and its caller implement the listener promise: register     *)
(* answers only once set-up has ended, with success only for a serving     *)
(* thread (every one of the eight failure branches publishes a non-zero    *)
(* data_init_done, so the caller's wait always ends); the thread leaves    *)
(* its loop only when told to; a thread told to stop ends.                 *)
Refines == LL!Spec

=============================================================================

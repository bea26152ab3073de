---------------------------- MODULE PortMonitor ----------------------------
(***************************************************************************)
(* The port presence monitor of unix_like_serial_lib.c: port_monitor       *)
(* (lines 762-997), with on Linux its udev loop and on macOS its IOKit run *)
(* loop and the callbacks device_added and device_removed (lines 661-754), *)
(* and exitMonitor_signal_handler (lines 628-659).  Several monitors, one  *)
(* per watched port, may run at once; on macOS they share the global      *)
(* table pm_info[2048] and its index pm_index (lines 81-82).               *)
(*                                                                         *)
(* The JNI calls that start a monitor and stop it with SIGUSR1 are not in  *)
(* this repository and are modelled from spec.md 4.5.  The port_info       *)
(* given to a macOS monitor is taken to have data pointing to itself, so   *)
(* that device_added reads and writes the tempVal set at line 947.         *)
(*                                                                         *)
(* The OS is modelled by what the code relies on: udev queues an "add" or  *)
(* "remove" for every USB device plugged or unplugged once the monitor     *)
(* receives (line 857); IOKit hands the devices present when the           *)
(* notification is armed (line 980) to the first device_added call, may    *)
(* hand several new devices to one later call, and calls device_removed    *)
(* for each driver reference whose device goes away.  stat() of the        *)
(* watched path succeeds while the port is there, and fails with an errno *)
(* of StatErrno once it has gone; on Linux the port returns under a new    *)
(* name (line 892), so its path never comes back.                          *)
(***************************************************************************)
EXTENDS Integers, Sequences, FiniteSets

CONSTANTS
  Platform,     \* "linux" or "macos"
  Monitors,     \* the monitor threads (one per watched port)
  Devices,      \* USB devices
  PortOf,       \* PortOf[m]: the device of the port monitor m watches
  StatErrno,    \* the errno values stat() may give for a path that has gone
  PmSize,       \* the size of pm_info: 2048 in the code
  MaxEvents,    \* bound on plug and unplug events
  Exits,        \* the application may unregister monitors
  Null          \* an empty pm_info entry

ASSUME /\ Platform \in {"linux", "macos"}
       /\ PortOf \in [Monitors -> Devices]
       /\ StatErrno # {} /\ PmSize \in Nat \ {0} /\ MaxEvents \in Nat
       /\ Exits \in BOOLEAN

\* The errno values device_removed and the udev loop log and ignore
\* (lines 674-694 and 904-924).
BenignErrno == {"EACCES", "ELOOP", "ENAMETOOLONG", "ENOMEM", "ENOTDIR",
                "EOVERFLOW", "EFAULT"}

VARIABLES
  mpc,         \* each monitor: "idle", "init", "run", "iter", "incr", "exited", "crashed"
  handler,     \* the process's SIGUSR1 disposition: "default" or "monitor"
  jvmPort,     \* the global jvm_port
  sigPending,  \* SIGUSR1 sent to the monitor and not yet handled
  plugged,     \* the USB devices present
  gen,         \* gen[d]: the plug event that created d's current service
  pathOk,      \* stat() of the monitor's port_name succeeds
  queue,       \* the udev events or IOKit callbacks pending for the monitor
  tempVal,     \* macOS: port_info->tempVal
  iter,        \* macOS: the devices left in device_added's iterator
  pmInfo,      \* macOS: pm_info
  pmIndex,     \* macOS: pm_index
  oob,         \* a write at pm_index >= PmSize
  refs,        \* macOS: the driver_ref structures allocated and not freed
  sink,        \* the codes passed to each monitor's onPortMonitorEvent
  plugs,       \* history: devices plugged while each monitor was receiving
  gone,        \* history: times each monitor's port went away while it ran
  events       \* history: plug and unplug events so far

vars == <<mpc, handler, jvmPort, sigPending, plugged, gen, pathOk, queue, tempVal,
          iter, pmInfo, pmIndex, oob, refs, sink, plugs, gone, events>>

Slots == 0..PmSize - 1
\* An IOKit service object: a device and the plug event that made it.
Services(ds) == {<<d, gen[d]>> : d \in ds}
Added(ds) == [kind |-> "added", devs |-> ds]
Terminated(r) == [kind |-> "term", ref |-> r]
Receiving(m) == mpc[m] \in {"run", "iter", "incr"}

-----------------------------------------------------------------------------
(* Start-up, lines 762-986.                                                *)

\* The failure points of each build, in code order; each ends the thread
\* with pthread_exit and reports nothing to the caller.
InitFailPoints ==
  IF Platform = "linux"
    THEN {"attach", "class", "mid", "udev_new", "monitor_new", "filter",
          "enable", "signal"}
    ELSE {"attach", "class", "mid", "signal", "matching"}

\* The failure point after which SIGUSR1 is already handled (line 950).
HandlerInstalledBefore(f) == Platform = "macos" /\ f = "matching"

\* Line 765: the thread records the JVM in jvm_port first.
StartMonitor(m) ==
  /\ mpc[m] = "idle" /\ PortOf[m] \in plugged
  /\ mpc' = [mpc EXCEPT ![m] = "init"]
  /\ jvmPort' = "set"
  /\ UNCHANGED <<handler, sigPending, plugged, gen, pathOk, queue, tempVal, iter,
                 pmInfo, pmIndex, oob, refs, sink, plugs, gone, events>>

\* Lines 794-876 (Linux) or 794-965 (macOS): a failure ends the thread.
InitFail(m, f) ==
  /\ mpc[m] = "init"
  /\ mpc' = [mpc EXCEPT ![m] = "exited"]
  /\ handler' = IF HandlerInstalledBefore(f) THEN "monitor" ELSE handler
  /\ UNCHANGED <<jvmPort, sigPending, plugged, gen, pathOk, queue, tempVal, iter,
                 pmInfo, pmIndex, oob, refs, sink, plugs, gone, events>>

\* Linux lines 822-878: the udev monitor receives from now on and SIGUSR1
\* is handled.  macOS lines 942-983: tempVal = 0, SIGUSR1 handled, and the
\* notification armed with the devices present as its first batch.
InitOk(m) ==
  /\ mpc[m] = "init"
  /\ mpc' = [mpc EXCEPT ![m] = "run"]
  /\ handler' = "monitor"
  /\ queue' = [queue EXCEPT ![m] = IF Platform = "macos"
                                     THEN <<Added(Services(plugged))>> ELSE <<>>]
  /\ tempVal' = [tempVal EXCEPT ![m] = 0]
  /\ UNCHANGED <<jvmPort, sigPending, plugged, gen, pathOk, iter, pmInfo, pmIndex,
                 oob, refs, sink, plugs, gone, events>>

-----------------------------------------------------------------------------
(* The Linux loop, lines 878-937: select, receive one device, act on its   *)
(* action after a 500 ms delay.                                            *)

RecvAdd(m) ==
  /\ Platform = "linux" /\ mpc[m] = "run"
  /\ queue[m] # <<>> /\ Head(queue[m]) = "add"
  /\ queue' = [queue EXCEPT ![m] = Tail(@)]
  /\ sink' = [sink EXCEPT ![m] = Append(@, 1)]
  /\ UNCHANGED <<mpc, handler, jvmPort, sigPending, plugged, gen, pathOk, tempVal,
                 iter, pmInfo, pmIndex, oob, refs, plugs, gone, events>>

\* Mutant of Confirms: ENOENT is taken as a benign error too.
ConfirmsNoEnoent(m, e) == ~pathOk[m] /\ e \notin BenignErrno \cup {"ENOENT"}

\* stat(port_name) failed with errno e, and e is not one of the benign ones
\* (lines 900-930, 670-703).
Confirms(m, e) == ~pathOk[m] /\ e \notin BenignErrno

\* The udev "remove" branch, lines 899-931.
RecvRemove(m) ==
  /\ Platform = "linux" /\ mpc[m] = "run"
  /\ queue[m] # <<>> /\ Head(queue[m]) = "remove"
  /\ queue' = [queue EXCEPT ![m] = Tail(@)]
  /\ \E e \in StatErrno :
       sink' = IF Confirms(m, e) THEN [sink EXCEPT ![m] = Append(@, 2)] ELSE sink
  /\ UNCHANGED <<mpc, handler, jvmPort, sigPending, plugged, gen, pathOk, tempVal,
                 iter, pmInfo, pmIndex, oob, refs, plugs, gone, events>>

-----------------------------------------------------------------------------
(* The macOS run loop, lines 983-986, and its callbacks.                   *)

\* Line 726: the first call marks the initial enumeration as seen.
MarkSeen(t) == 1

\* device_added, lines 712-728: the first call only sets tempVal, later
\* ones call onPortMonitorEvent(1) once; then the iterator is walked.
DeviceAdded(m) ==
  /\ Platform = "macos" /\ mpc[m] = "run"
  /\ queue[m] # <<>> /\ Head(queue[m]).kind = "added"
  /\ sink' = IF tempVal[m] # 0 THEN [sink EXCEPT ![m] = Append(@, 1)] ELSE sink
  /\ tempVal' = [tempVal EXCEPT ![m] = MarkSeen(@)]
  /\ iter' = [iter EXCEPT ![m] = Head(queue[m]).devs]
  /\ queue' = [queue EXCEPT ![m] = Tail(@)]
  /\ mpc' = [mpc EXCEPT ![m] = "iter"]
  /\ UNCHANGED <<handler, jvmPort, sigPending, plugged, gen, pathOk, pmInfo, pmIndex,
                 oob, refs, plugs, gone, events>>

\* Lines 731-751: for the next service, malloc a driver_ref, install the
\* interest notification, and store it at pm_info[pm_index].
IterStore(m) ==
  /\ mpc[m] = "iter"
  /\ \E svc \in iter[m] :
       LET r == [mon |-> m, svc |-> svc] IN
       /\ refs' = refs \cup {r}
       /\ iter' = [iter EXCEPT ![m] = @ \ {svc}]
       /\ IF pmIndex < PmSize
            THEN pmInfo' = [pmInfo EXCEPT ![pmIndex] = r] /\ UNCHANGED oob
            ELSE oob' = TRUE /\ UNCHANGED pmInfo
  /\ mpc' = [mpc EXCEPT ![m] = "incr"]
  /\ UNCHANGED <<handler, jvmPort, sigPending, plugged, gen, pathOk, queue, tempVal,
                 pmIndex, sink, plugs, gone, events>>

\* Mutant of NextIndex: pm_index is not advanced.
NextIndexStuck(i) == i

\* Line 752: pm_index++.
NextIndex(i) == i + 1

IterIncr(m) ==
  /\ mpc[m] = "incr"
  /\ pmIndex' = NextIndex(pmIndex)
  /\ mpc' = [mpc EXCEPT ![m] = "iter"]
  /\ UNCHANGED <<handler, jvmPort, sigPending, plugged, gen, pathOk, queue, tempVal,
                 iter, pmInfo, oob, refs, sink, plugs, gone, events>>

\* Line 731: IOIteratorNext returns 0; back to the run loop.
IterDone(m) ==
  /\ mpc[m] = "iter" /\ iter[m] = {}
  /\ mpc' = [mpc EXCEPT ![m] = "run"]
  /\ UNCHANGED <<handler, jvmPort, sigPending, plugged, gen, pathOk, queue, tempVal,
                 iter, pmInfo, pmIndex, oob, refs, sink, plugs, gone, events>>

\* device_removed, lines 664-706: stat of the monitor's own port_name
\* decides, whichever device has gone.
DeviceRemoved(m) ==
  /\ Platform = "macos" /\ mpc[m] = "run"
  /\ queue[m] # <<>> /\ Head(queue[m]).kind = "term"
  /\ queue' = [queue EXCEPT ![m] = Tail(@)]
  /\ \E e \in StatErrno :
       sink' = IF Confirms(m, e) THEN [sink EXCEPT ![m] = Append(@, 2)] ELSE sink
  /\ UNCHANGED <<mpc, handler, jvmPort, sigPending, plugged, gen, pathOk, tempVal,
                 iter, pmInfo, pmIndex, oob, refs, plugs, gone, events>>

-----------------------------------------------------------------------------
(* SIGUSR1, exitMonitor_signal_handler, lines 628-659.                     *)

\* macOS lines 643-650: free every entry whose monitor is the signalled
\* thread.
ReleaseOwned(m) == refs \ {pmInfo[x] : x \in {y \in Slots : pmInfo[y] # Null
                                                /\ pmInfo[y].mon = m}}

\* Mutant of ExitMonitor: the thread exits without walking pm_info.
ExitMonitorNoCleanup(m) ==
  /\ mpc' = [mpc EXCEPT ![m] = "exited"]
  /\ UNCHANGED <<refs, pmInfo>>

\* Linux: detach and pthread_exit (631-636).  macOS: release the thread's
\* entries, set every entry of pm_info to 0 (651), pthread_exit.
ExitMonitor(m) ==
  /\ mpc' = [mpc EXCEPT ![m] = "exited"]
  /\ IF Platform = "macos"
       THEN /\ refs' = ReleaseOwned(m)
            /\ pmInfo' = [x \in Slots |-> Null]
       ELSE UNCHANGED <<refs, pmInfo>>

\* The signal reaches the thread; with no handler installed yet, SIGUSR1's
\* default action ends the whole process.  A thread that has already ended
\* is not signalled (pthread_kill gives ESRCH).
SignalTaken(m) ==
  /\ sigPending[m]
  /\ sigPending' = [sigPending EXCEPT ![m] = FALSE]
  /\ IF mpc[m] \in {"exited", "crashed"}
       THEN UNCHANGED <<mpc, refs, pmInfo>>
     ELSE IF handler = "default"
       THEN mpc' = [x \in Monitors |-> IF mpc[x] = "idle" THEN "idle"
                                       ELSE "crashed"]
            /\ UNCHANGED <<refs, pmInfo>>
     ELSE ExitMonitor(m)
  /\ UNCHANGED <<handler, jvmPort, plugged, gen, pathOk, queue, tempVal, iter,
                 pmIndex, oob, sink, plugs, gone, events>>

-----------------------------------------------------------------------------
(* The application (spec.md 4.5), modelled from the spec: it starts a      *)
(* monitor for a port that is present, and may stop it at any time.        *)

Unregister(m) ==
  /\ Exits /\ mpc[m] \in {"init", "run", "iter", "incr"} /\ ~sigPending[m]
  /\ "crashed" \notin {mpc[x] : x \in Monitors}
  /\ sigPending' = [sigPending EXCEPT ![m] = TRUE]
  /\ UNCHANGED <<mpc, handler, jvmPort, plugged, gen, pathOk, queue, tempVal,
                 iter, pmInfo, pmIndex, oob, refs, sink, plugs, gone, events>>

(* The devices.  A plug reaches every receiving monitor: on Linux as a udev *)
(* "add", on macOS joined to the last pending device_added batch or as a   *)
(* new one.  An unplug reaches Linux monitors as a udev "remove" and macOS *)
(* monitors as device_removed for each of their references to the service. *)

\* The pending events of a monitor after a plug of service svc; on macOS
\* merge says whether IOKit joins it to the last pending batch.
Enqueued(q, svc, merge) ==
  IF Platform = "linux" THEN Append(q, "add")
  ELSE IF merge /\ q # <<>> /\ q[Len(q)].kind = "added"
    THEN [q EXCEPT ![Len(q)] = Added(@.devs \cup {svc})]
  ELSE Append(q, Added({svc}))

Plug(d) ==
  /\ d \notin plugged /\ events < MaxEvents
  /\ plugged' = plugged \cup {d}
  /\ gen' = [gen EXCEPT ![d] = events + 1]
  /\ pathOk' = [m \in Monitors |->
                  pathOk[m] \/ (PortOf[m] = d /\ (Platform = "macos" \/ mpc[m] = "idle"))]
  /\ \E merge \in [Monitors -> BOOLEAN] :
       queue' = [m \in Monitors |->
                   IF Receiving(m) THEN Enqueued(queue[m], <<d, events + 1>>, merge[m])
                   ELSE queue[m]]
  /\ plugs' = [m \in Monitors |-> plugs[m] + (IF Receiving(m) THEN 1 ELSE 0)]
  /\ events' = events + 1
  /\ UNCHANGED <<mpc, handler, jvmPort, sigPending, tempVal, iter, pmInfo,
                 pmIndex, oob, refs, sink, gone>>

\* The device_removed calls IOKit makes for monitor m when svc terminates:
\* one per reference m holds to it, in no particular order.
Terminations(m, svc) ==
  {r \in refs : r.mon = m /\ r.svc = svc}

\* Lines 758-760 assume the watched port stays until the monitor is
\* initialised.
Unplug(d) ==
  /\ d \in plugged /\ events < MaxEvents
  /\ \A m \in Monitors : mpc[m] = "init" => PortOf[m] # d
  /\ plugged' = plugged \ {d}
  /\ pathOk' = [m \in Monitors |-> pathOk[m] /\ PortOf[m] # d]
  /\ queue' = [m \in Monitors |->
                 IF ~Receiving(m) THEN queue[m]
                 ELSE IF Platform = "linux" THEN Append(queue[m], "remove")
                 ELSE queue[m] \o [i \in 1..Cardinality(Terminations(m, <<d, gen[d]>>))
                                    |-> Terminated(<<d, gen[d]>>)]]
  /\ gone' = [m \in Monitors |->
                gone[m] + (IF Receiving(m) /\ pathOk[m] /\ PortOf[m] = d
                             THEN 1 ELSE 0)]
  /\ events' = events + 1
  /\ UNCHANGED <<mpc, handler, jvmPort, sigPending, gen, tempVal, iter, pmInfo,
                 pmIndex, oob, refs, sink, plugs>>

-----------------------------------------------------------------------------

Init ==
  /\ mpc = [m \in Monitors |-> "idle"]
  /\ handler = "default"
  /\ jvmPort = "null"
  /\ sigPending = [m \in Monitors |-> FALSE]
  /\ plugged \in SUBSET Devices
  /\ gen = [d \in Devices |-> 0]
  /\ pathOk = [m \in Monitors |-> PortOf[m] \in plugged]
  /\ queue = [m \in Monitors |-> <<>>]
  /\ tempVal = [m \in Monitors |-> 0]
  /\ iter = [m \in Monitors |-> {}]
  /\ pmInfo = [x \in Slots |-> Null]
  /\ pmIndex = 0
  /\ oob = FALSE
  /\ refs = {}
  /\ sink = [m \in Monitors |-> <<>>]
  /\ plugs = [m \in Monitors |-> 0]
  /\ gone = [m \in Monitors |-> 0]
  /\ events = 0

\* The steps of monitor thread m.
MonitorNext(m) ==
  \/ \E f \in InitFailPoints : InitFail(m, f)
  \/ InitOk(m)
  \/ RecvAdd(m) \/ RecvRemove(m)
  \/ DeviceAdded(m) \/ IterStore(m) \/ IterIncr(m) \/ IterDone(m)
  \/ DeviceRemoved(m)
  \/ SignalTaken(m)

DeviceNext == \E d \in Devices : Plug(d) \/ Unplug(d)

\* Every event is used up and every monitor is idle, blocked in its wait
\* with nothing pending, or gone.
Finished ==
  /\ events = MaxEvents
  /\ \A m \in Monitors :
       /\ ~sigPending[m]
       /\ mpc[m] \in {"idle", "exited", "crashed"}
          \/ (mpc[m] = "run" /\ queue[m] = <<>>)
  /\ UNCHANGED vars

Next ==
  \/ \E m \in Monitors : StartMonitor(m) \/ Unregister(m) \/ MonitorNext(m)
  \/ DeviceNext
  \/ Finished

\* Each monitor is an OS thread: once a step of it is enabled it is taken.
Spec == Init /\ [][Next]_vars /\ \A m \in Monitors : WF_vars(MonitorNext(m))

-----------------------------------------------------------------------------
(* Properties.                                                             *)

\* How many times monitor m has called onPortMonitorEvent with code.
Reports(m, code) == Cardinality({i \in DOMAIN sink[m] : sink[m][i] = code})

\* struct driver_ref (header lines 75-79): the IOKit service, and in data the
\* port_info of the monitor that made it; its notification lives and dies with it.
Refs == [mon : Monitors, svc : Devices \X Nat]

TypeOK ==
  /\ mpc \in [Monitors -> {"idle", "init", "run", "iter", "incr", "exited",
                           "crashed"}]
  /\ handler \in {"default", "monitor"} /\ jvmPort \in {"null", "set"}
  /\ sigPending \in [Monitors -> BOOLEAN]
  /\ plugged \subseteq Devices /\ gen \in [Devices -> 0..MaxEvents]
  /\ pathOk \in [Monitors -> BOOLEAN]
  /\ tempVal \in [Monitors -> {0, 1}]
  /\ pmInfo \in [Slots -> Refs \cup {Null}] /\ pmIndex \in Nat
  /\ refs \subseteq Refs
  /\ \A m \in Monitors : iter[m] \subseteq Devices \X Nat
  /\ \A m \in Monitors : \A i \in DOMAIN sink[m] : sink[m][i] \in {1, 2}
  \* a thread is in device_added's loop only on macOS
  /\ Platform = "linux" => \A m \in Monitors : mpc[m] \notin {"iter", "incr"}

\* spec.md 8: each time the watched port goes away while the monitor runs,
\* the udev "remove" or IOKit device_removed path, after its stat() of the
\* port, eventually calls the sink with 2 (unless the monitor is stopped).
RemovalReported ==
  \A m \in Monitors, k \in 1..MaxEvents :
    (Receiving(m) /\ gone[m] >= k) ~> (Reports(m, 2) >= k \/ ~Receiving(m))

\* spec.md 8: a removal yields exactly one removed-event, so the sink never
\* hears 2 more often than the watched path has disappeared.  Linux and
\* macOS both stat the watched path on the removal of any USB device.
RemovedAtMostOnce == \A m \in Monitors : Reports(m, 2) <= gone[m]

\* spec.md 8: the initial enumeration is suppressed, and every device
\* plugged after the monitor is armed yields exactly one added-event: when
\* a monitor is idle in its run loop, it has reported 1 once per such plug.
AddedExactlyOnce ==
  \A m \in Monitors :
    (mpc[m] = "run" /\ queue[m] = <<>>) => Reports(m, 1) = plugs[m]

\* macOS: every driver_ref device_added allocated and nobody freed is held
\* in pm_info, so that the exit handler can find and free it; pm_index and
\* pm_info are shared by all monitors and written without a lock.
RefsTracked == \A r \in refs : \E x \in Slots : pmInfo[x] = r

\* spec.md 4.5: a stopped monitor has released every driver reference and
\* notification it created.
NoRefLeak ==
  \A m \in Monitors : mpc[m] = "exited" => \A r \in refs : r.mon # m

\* macOS: device_added never writes past the end of pm_info (line 751).
PmInBounds == ~oob

\* spec.md 7: nothing in the subsystem terminates the process; stopping a
\* monitor must not deliver SIGUSR1 to a process with no handler for it.
NoCrashOnStop == \A m \in Monitors : mpc[m] # "crashed"

=============================================================================

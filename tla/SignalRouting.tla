---------------------------- MODULE SignalRouting ----------------------------
(***************************************************************************)
(* event_looper and port_monitor in one process.  Both stop their thread  *)
(* with SIGUSR1, and both install its handler with signal() (lines 533,   *)
(* 871 and 950), which sets the disposition of the whole process: the     *)
(* handler that runs in a signalled thread is the one installed last,      *)
(* whichever thread installed it.  The global jvm_port is shared too: the  *)
(* monitor writes it (line 765) and both handlers read it on Linux.        *)
(*                                                                         *)
(* The two components are the modules EventLooper and PortMonitor, with    *)
(* the disposition handler and jvm_port shared; every step of either is a  *)
(* step of the composition except the delivery of SIGUSR1, which is        *)
(* written here from both handlers (lines 461-471 and 628-659).  Once the *)
(* process has died nothing runs.                                          *)
(***************************************************************************)
EXTENDS Integers, Sequences, FiniteSets

CONSTANTS Platform, InitLines, MaxChanges, MaxRegs,
          Monitors, Devices, PortOf, StatErrno, PmSize, MaxEvents, Exits, Null

VARIABLES
  handler, jvmPort,                  \* shared: SIGUSR1 disposition, jvm_port
  caller, tpc, mutexHeld, initDone, evPending, lines, changed, present,
  oldstate, delivered, changes, regs,                    \* the event listener
  mpc, monPending, plugged, gen, pathOk, queue, tempVal, iter, pmInfo,
  pmIndex, oob, refs, sink, plugs, gone, events          \* the port monitors

evVars == <<caller, tpc, mutexHeld, initDone, evPending, lines, changed, present,
            oldstate, delivered, changes, regs>>
monVars == <<mpc, monPending, plugged, gen, pathOk, queue, tempVal, iter, pmInfo,
             pmIndex, oob, refs, sink, plugs, gone, events>>
vars == <<handler, jvmPort, evVars, monVars>>

\* No port monitor has run when the process starts, so jvm_port is NULL.
E == INSTANCE EventLooper WITH sigPending <- evPending, JvmPortInit <- "null"
P == INSTANCE PortMonitor WITH sigPending <- monPending

ProcessAlive == tpc # "crashed" /\ \A m \in Monitors : mpc[m] # "crashed"

\* SIGUSR1 with no handler installed, or a NULL jvm_port dereferenced in a
\* handler, ends the process: every thread that has started dies.
ProcessDies ==
  /\ tpc' = IF tpc = "none" THEN "none" ELSE "crashed"
  /\ mpc' = [x \in Monitors |-> IF mpc[x] = "idle" THEN "idle" ELSE "crashed"]

-----------------------------------------------------------------------------
(* The steps of each component other than signal delivery.                  *)

EvStep ==
  /\ \/ E!ThreadLock \/ (\E f \in E!InitFailPoints : E!ThreadInitFail(f))
     \/ E!ThreadInitOk \/ E!WaitReturn \/ E!Sleep \/ E!GetStatus \/ E!GetFails
     \/ E!CallerNext \/ E!DeviceNext
  /\ UNCHANGED monVars

MonStep(m) ==
  /\ \/ P!StartMonitor(m) \/ P!Unregister(m)
     \/ \E f \in P!InitFailPoints : P!InitFail(m, f)
     \/ P!InitOk(m) \/ P!RecvAdd(m) \/ P!RecvRemove(m)
     \/ P!DeviceAdded(m) \/ P!IterStore(m) \/ P!IterIncr(m) \/ P!IterDone(m)
     \/ P!DeviceRemoved(m)
  /\ UNCHANGED evVars

MonDevices == P!DeviceNext /\ UNCHANGED evVars

-----------------------------------------------------------------------------
(* SIGUSR1 reaches the event thread.  event_exit_signal_handler, and the    *)
(* Linux branch of exitMonitor_signal_handler, detach through jvm_port and *)
(* exit.  The macOS branch of exitMonitor_signal_handler frees the pm_info *)
(* entries of the signalled thread (the event thread owns none), zeroes    *)
(* all of pm_info and exits.                                               *)
EvSignalTaken ==
  /\ ProcessAlive /\ evPending /\ tpc \in {"wait", "get"}
  /\ evPending' = FALSE
  /\ IF handler = "default" \/ (jvmPort = "null" /\ (handler = "event" \/ Platform = "linux"))
       THEN ProcessDies /\ UNCHANGED <<pmInfo, refs>>
       ELSE /\ tpc' = "exited" /\ UNCHANGED <<mpc, refs>>
            /\ pmInfo' = IF handler = "monitor" /\ Platform = "macos"
                           THEN [x \in P!Slots |-> Null] ELSE pmInfo
  /\ UNCHANGED <<handler, jvmPort, caller, mutexHeld, initDone, lines, changed,
                 present, oldstate, delivered, changes, regs, monPending, plugged,
                 gen, pathOk, queue, tempVal, iter, pmIndex, oob, sink, plugs,
                 gone, events>>

(* SIGUSR1 reaches monitor m.  Under the monitor's handler it runs         *)
(* ExitMonitor; under event_exit_signal_handler it detaches through        *)
(* jvm_port (set by this monitor) and exits without walking pm_info.       *)
MonSignalTaken(m) ==
  /\ ProcessAlive /\ monPending[m]
  /\ monPending' = [monPending EXCEPT ![m] = FALSE]
  /\ IF mpc[m] = "exited"
       THEN UNCHANGED <<tpc, mpc, refs, pmInfo>>
     ELSE IF handler = "default"
       THEN ProcessDies /\ UNCHANGED <<refs, pmInfo>>
     ELSE IF handler = "monitor"
       THEN P!ExitMonitor(m) /\ UNCHANGED tpc
     ELSE mpc' = [mpc EXCEPT ![m] = "exited"] /\ UNCHANGED <<tpc, refs, pmInfo>>
  /\ UNCHANGED <<handler, jvmPort, caller, mutexHeld, initDone, evPending, lines,
                 changed, present, oldstate, delivered, changes, regs, plugged,
                 gen, pathOk, queue, tempVal, iter, pmIndex, oob, sink, plugs,
                 gone, events>>

-----------------------------------------------------------------------------
Init == E!Init /\ P!Init

Next ==
  \/ ProcessAlive /\ (EvStep \/ MonDevices \/ \E m \in Monitors : MonStep(m))
  \/ EvSignalTaken
  \/ \E m \in Monitors : MonSignalTaken(m)
  \/ UNCHANGED vars

Spec == Init /\ [][Next]_vars

(* spec.md 4.5: a stopped monitor has released every driver reference and *)
(* notification it created, also when an event listener was registered    *)
(* after the monitor started and its signal() call replaced the monitor's *)
(* SIGUSR1 handler.                                                        *)
NoRefLeak ==
  \A m \in Monitors : mpc[m] = "exited" => \A r \in refs : r.mon # m

(* macOS: every driver reference a monitor holds stays findable in pm_info, *)
(* also when the event listener is stopped while a port monitor's handler  *)
(* is the one installed.                                                    *)
MonRefsTracked == P!RefsTracked

=============================================================================

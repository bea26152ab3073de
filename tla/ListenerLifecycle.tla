-------------------------- MODULE ListenerLifecycle --------------------------
(***************************************************************************)
(* What the native library promises about one listener thread and the     *)
(* caller that starts and stops it (spec.md 4.1 and 5), stated without     *)
(* epoll, descriptors or buffers.  The caller's register call starts a     *)
(* listener and blocks until the listener has either come up or given up;  *)
(* it reports success only for a listener that is serving.  unregister     *)
(* asks the listener to stop, and a listener asked to stop eventually      *)
(* ends.  A new listener is started only after the previous one ended.     *)
(*                                                                         *)
(* DataLooper, DataLooperKqueue and EventLooper (each thread with its      *)
(* caller) are shown to implement this module; see their Refines.          *)
(***************************************************************************)

VARIABLES
  reg,    \* the caller: "idle", "waiting" (inside register), "registered"
  life,   \* the listener: "none", "starting", "serving", "ended"
  stop    \* the caller has asked the current listener to stop

llvars == <<reg, life, stop>>

Init == reg = "idle" /\ life = "none" /\ stop = FALSE

(* register: start a listener once the previous one has ended, then wait.  *)
Start ==
  /\ reg = "idle" /\ life \in {"none", "ended"}
  /\ reg' = "waiting" /\ life' = "starting" /\ stop' = FALSE

(* The listener's set-up fails (it releases what it took and ends) or       *)
(* succeeds (it starts serving).                                            *)
StartFail == life = "starting" /\ life' = "ended" /\ UNCHANGED <<reg, stop>>

StartOk == life = "starting" /\ life' = "serving" /\ UNCHANGED <<reg, stop>>

(* register returns once the outcome of set-up is known.                    *)
Answer ==
  /\ reg = "waiting" /\ life # "starting"
  /\ reg' = IF life = "serving" THEN "registered" ELSE "idle"
  /\ UNCHANGED <<life, stop>>

(* unregister asks the serving listener to stop and returns.                *)
Stop == reg = "registered" /\ reg' = "idle" /\ stop' = TRUE /\ UNCHANGED life

(* A serving listener that was asked to stop ends.                          *)
Stopped == life = "serving" /\ stop /\ life' = "ended" /\ UNCHANGED <<reg, stop>>

ListenerStep == StartFail \/ StartOk \/ Stopped

Next == Start \/ ListenerStep \/ Answer \/ Stop

(* The listener is a scheduled thread and register's wait loop runs until   *)
(* it sees the answer; the caller starts and stops listeners at will.       *)
Spec == Init /\ [][Next]_llvars /\ WF_llvars(ListenerStep) /\ WF_llvars(Answer)

TypeOK ==
  /\ reg \in {"idle", "waiting", "registered"}
  /\ life \in {"none", "starting", "serving", "ended"}
  /\ stop \in BOOLEAN

(* The promise of register: a caller told "registered" has a serving        *)
(* listener.                                                                *)
RegisteredServing == reg = "registered" => life = "serving"

(* The promise of unregister: a listener asked to stop eventually ends.     *)
StopEnds == stop ~> life = "ended"

=============================================================================

---------------------------- MODULE WinRegistry ----------------------------
(***************************************************************************)
(* The Windows listener registry of windows_serial.c: the table            *)
(* handle_looper_info[MAX_NUM_THREADS] with dtp_index, the critical        *)
(* section csmutex, and the JNI calls setUpDataLooperThread,               *)
(* setUpEventLooperThread (with setupLooperThread), destroyDataLooperThread *)
(* and destroyEventLooperThread, made by several Java threads at once.     *)
(*                                                                         *)
(* The thread body event_data_looper is not in this repository; it is      *)
(* modelled from spec.md (4.1, 4.2): at start it adds the comm-mask bits   *)
(* of its enabled roles; each SetCommMask on its port makes its pending    *)
(* WaitCommEvent return, after which it exits if thread_exit is set, and   *)
(* frees its registry entry on exit.                                       *)
(*                                                                         *)
(* A comm mask (a DWORD of EV_* bits) is modelled as its set of bits, so   *)
(* that | is \cup and & is \cap.                                           *)
(***************************************************************************)
EXTENDS Integers, FiniteSets

CONSTANTS
  Callers,      \* Java threads calling into the library
  Handles,      \* open port handles (HANDLE values)
  NoHandle,     \* the 0 of an unused table entry
  NoCaller,     \* csmutex not owned
  Roles,        \* subset of {"data", "event"} the application uses
  MaxThreads,   \* MAX_NUM_THREADS: 1024 in the code
  MaxOps,       \* bound on JNI calls in one behaviour
  Failures,     \* NewGlobalRef, _beginthreadex and SetCommMask may fail
  Reregister    \* the application may register a role again after destroying it

ASSUME /\ NoHandle \notin Handles /\ NoCaller \notin Callers
       /\ Roles \subseteq {"data", "event"} /\ Roles # {}
       /\ MaxThreads \in Nat \ {0} /\ MaxOps \in Nat
       /\ Failures \in BOOLEAN /\ Reregister \in BOOLEAN

EV_RXCHAR == 1
EV_RXFLAG == 2
EV_CTS    == 8
EV_DSR    == 16
EV_RLSD   == 32
EV_BREAK  == 64
EV_ERR    == 128
EV_RING   == 256

EvBits == {EV_RXCHAR, EV_RXFLAG, EV_CTS, EV_DSR, EV_RLSD, EV_BREAK, EV_ERR, EV_RING}

Slots == 0..MaxThreads - 1

VARIABLES
  slots,      \* handle_looper_info[x]: hComm, thread_exit, data/event_enabled
  tstate,     \* the thread started for entry x: "none", "created", "running", "exited"
  woken,      \* a SetCommMask has made that thread's WaitCommEvent return
  dtpIndex,   \* dtp_index
  oob,        \* a write to handle_looper_info[dtp_index] fell outside the table
  commMask,   \* the comm mask of each port
  csOwner,    \* owner of csmutex
  csDepth,    \* its recursion count
  pc,         \* each caller's position in its JNI call
  op,         \* each caller's current call: [kind, h, role]
  lmask,      \* each caller's local event_mask read by GetCommMask
  roles,      \* what the application believes is registered per handle
  used,       \* history: the roles ever registered per handle
  ops         \* history: JNI calls started

vars == <<slots, tstate, woken, dtpIndex, oob, commMask, csOwner, csDepth,
          pc, op, lmask, roles, used, ops>>

-----------------------------------------------------------------------------
\* The events each set-up call adds (lines 1291 and 1336).
RoleBits(r) ==
  IF r = "data" THEN {EV_RXCHAR}
  ELSE {EV_BREAK, EV_CTS, EV_DSR, EV_ERR, EV_RING, EV_RLSD, EV_RXFLAG}

OtherRole(r) == IF r = "data" THEN "event" ELSE "data"

FreeEntry == [h |-> NoHandle, exit |-> 0, data |-> FALSE, event |-> FALSE]

\* Mutant of Lookup: the scan stops one entry short of the table's end.
LookupShort(h) == {x \in Slots : x < MaxThreads - 1 /\ slots[x].h = h}

\* Mutant of Lookup: entries whose thread was told to exit are skipped.
LookupUnflagged(h) == {x \in Slots : slots[x].h = h /\ slots[x].exit = 0}

\* The linear scan for ptr->hComm == hComm (lines 1280-1286, 1325-1331,
\* 1435-1441): the indices that match; the scan takes the lowest.
Lookup(h) == {x \in Slots : slots[x].h = h}

FirstOf(S) == CHOOSE x \in S : \A y \in S : x <= y

\* SetCommMask(h, m): sets the mask and makes every WaitCommEvent pending on
\* that port return.
SetMask(h, m) ==
  /\ commMask' = [commMask EXCEPT ![h] = m]
  /\ woken' = [y \in Slots |-> woken[y] \/ (slots[y].h = h /\ tstate[y] = "running")]

\* LeaveCriticalSection(&csmutex) by c.
LeaveCS(c) ==
  /\ csDepth' = csDepth - 1
  /\ csOwner' = IF csDepth = 1 THEN NoCaller ELSE c

Return(c) == pc' = [pc EXCEPT ![c] = "idle"]
Goto(c, l) == pc' = [pc EXCEPT ![c] = l]

\* What the Java side has in flight on handle h.
InFlight(h) == {op[c].role : c \in {d \in Callers : pc[d] # "idle" /\ op[d].h = h}}

-----------------------------------------------------------------------------
(* setUpDataLooperThread / setUpEventLooperThread (lines 1266-1349).       *)

\* Entry and the unlocked scan for an entry of hComm (lines 1269-1286): if
\* one is found the call goes on to update the mask, else to
\* setupLooperThread (line 1302 / 1347). The application registers a role
\* that is neither registered nor in flight on h (again only if Reregister).
StartSetUp(c, h, r) ==
  /\ pc[c] = "idle" /\ ops < MaxOps
  /\ r \notin roles[h] \cup InFlight(h)
  /\ Reregister \/ r \notin used[h]
  /\ op' = [op EXCEPT ![c] = [kind |-> "setup", h |-> h, role |-> r]]
  /\ ops' = ops + 1
  /\ Goto(c, IF Lookup(h) # {} THEN "getmask" ELSE "enter")
  /\ UNCHANGED <<slots, tstate, woken, dtpIndex, oob, commMask, csOwner,
                 csDepth, lmask, roles, used>>

\* GetCommMask(hComm, &event_mask) (lines 1290 / 1335).
GetMask(c) ==
  /\ pc[c] = "getmask"
  /\ lmask' = [lmask EXCEPT ![c] = commMask[op[c].h]]
  /\ Goto(c, "setmask")
  /\ UNCHANGED <<slots, tstate, woken, dtpIndex, oob, commMask, csOwner,
                 csDepth, op, roles, used, ops>>

\* SetCommMask(hComm, event_mask | bits) fails: -240 (lines 1292-1299).
SetMaskFails(c) ==
  /\ pc[c] = "setmask" /\ Failures
  /\ Return(c)
  /\ UNCHANGED <<slots, tstate, woken, dtpIndex, oob, commMask, csOwner,
                 csDepth, op, lmask, roles, used, ops>>

\* SetCommMask succeeds (lines 1291-1292); the function then ends without a
\* return statement (line 1304 / 1349), so the value the Java side sees is
\* whatever the build leaves in the return register: success or not.
SetMaskOk(c) ==
  LET h == op[c].h
      r == op[c].role
  IN /\ pc[c] = "setmask"
     /\ SetMask(h, lmask[c] \cup RoleBits(r))
     /\ \E seen \in BOOLEAN :
          /\ roles' = IF seen THEN [roles EXCEPT ![h] = @ \cup {r}] ELSE roles
          /\ used' = IF seen THEN [used EXCEPT ![h] = @ \cup {r}] ELSE used
     /\ Return(c)
     /\ UNCHANGED <<slots, tstate, dtpIndex, oob, csOwner, csDepth, op,
                    lmask, ops>>

(* setupLooperThread (lines 1351-1401).                                     *)

\* EnterCriticalSection(&csmutex) (line 1359): recursive for its owner.
Enter(c) ==
  /\ pc[c] = "enter"
  /\ csOwner \in {NoCaller, c}
  /\ csOwner' = c /\ csDepth' = csDepth + 1
  /\ Goto(c, "ref")
  /\ UNCHANGED <<slots, tstate, woken, dtpIndex, oob, commMask, op, lmask,
                 roles, used, ops>>

\* NewGlobalRef fails: return -240 with csmutex still held (lines 1361-1365).
RefFails(c) ==
  /\ pc[c] = "ref" /\ Failures
  /\ Return(c)
  /\ UNCHANGED <<slots, tstate, woken, dtpIndex, oob, commMask, csOwner,
                 csDepth, op, lmask, roles, used, ops>>

\* handle_looper_info[dtp_index] = params (lines 1368-1378), with
\* thread_exit = 0; an index past the table writes out of bounds.
Publish(c) ==
  LET r == op[c].role IN
  /\ pc[c] = "ref"
  /\ IF dtpIndex < MaxThreads
       THEN /\ slots' = [slots EXCEPT ![dtpIndex] =
                  [h |-> op[c].h, exit |-> 0,
                   data |-> r = "data", event |-> r = "event"]]
            /\ UNCHANGED oob
       ELSE /\ oob' = TRUE
            /\ UNCHANGED slots
  /\ Goto(c, "spawn")
  /\ UNCHANGED <<tstate, woken, dtpIndex, commMask, csOwner, csDepth, op,
                 lmask, roles, used, ops>>

\* _beginthreadex fails: return -240, csmutex still held, the entry just
\* written left in the table (lines 1381-1392).
SpawnFails(c) ==
  /\ pc[c] = "spawn" /\ Failures
  /\ Return(c)
  /\ UNCHANGED <<slots, tstate, woken, dtpIndex, oob, commMask, csOwner,
                 csDepth, op, lmask, roles, used, ops>>

\* The thread is started on that entry, dtp_index++, csmutex left, return 0
\* without waiting for the thread's initialisation (lines 1381-1400).
SpawnOk(c) ==
  LET h == op[c].h
      r == op[c].role
  IN /\ pc[c] = "spawn"
     /\ tstate' = IF dtpIndex < MaxThreads
                    THEN [tstate EXCEPT ![dtpIndex] = "created"] ELSE tstate
     /\ woken' = IF dtpIndex < MaxThreads
                   THEN [woken EXCEPT ![dtpIndex] = FALSE] ELSE woken
     /\ dtpIndex' = dtpIndex + 1
     /\ LeaveCS(c)
     /\ roles' = [roles EXCEPT ![h] = @ \cup {r}]
     /\ used' = [used EXCEPT ![h] = @ \cup {r}]
     /\ Return(c)
     /\ UNCHANGED <<slots, oob, commMask, op, lmask, ops>>

(* destroyDataLooperThread / destroyEventLooperThread (lines 1408-1496).  *)

\* The test of lines 1412-1421 / 1459-1468: b = a & EV_CTS (resp. EV_RXCHAR)
\* with a = 0, so (b & event_mask) == 1 never holds, whatever is registered.
\* A mask equals 1 when its only bit is EV_RXCHAR.
OtherBit(r) == IF r = "data" THEN {EV_CTS} ELSE {EV_RXCHAR}
KeepThread(r, mask) == LET a == {}
                           b == a \cap OtherBit(r)
                       IN (b \cap mask) = {EV_RXCHAR}

\* Entry, GetCommMask and the test (lines 1409-1421): if the other listener
\* is judged present only the mask is narrowed to its events (lines
\* 1422-1431), else the call goes on to flag the thread. The application
\* destroys a role it has registered and has no call in flight on.
StartDestroy(c, h, r) ==
  /\ pc[c] = "idle" /\ ops < MaxOps
  /\ r \in roles[h] \ InFlight(h)
  /\ op' = [op EXCEPT ![c] = [kind |-> "destroy", h |-> h, role |-> r]]
  /\ ops' = ops + 1
  /\ IF KeepThread(r, commMask[h])
       THEN /\ SetMask(h, RoleBits(OtherRole(r)))
            /\ roles' = [roles EXCEPT ![h] = @ \ {r}]
            /\ Return(c)
       ELSE /\ Goto(c, "dflag")
            /\ UNCHANGED <<commMask, woken, roles>>
  /\ UNCHANGED <<slots, tstate, dtpIndex, oob, csOwner, csDepth, lmask, used>>

\* The unlocked scan sets thread_exit = 1 on the first entry of hComm
\* (lines 1434-1441 / 1481-1488).
DestroyFlag(c) ==
  LET hit == Lookup(op[c].h) IN
  /\ pc[c] = "dflag"
  /\ slots' = IF hit = {} THEN slots
              ELSE [slots EXCEPT ![FirstOf(hit)].exit = 1]
  /\ Goto(c, "dwake")
  /\ UNCHANGED <<tstate, woken, dtpIndex, oob, commMask, csOwner, csDepth,
                 op, lmask, roles, used, ops>>

\* Mutant of ExitWake: the wake-up call is left out.
ExitWakeNone(h) == UNCHANGED <<commMask, woken>>

\* SetCommMask(hComm, EV_BREAK) to make WaitCommEvent return (line 1445).
ExitWake(h) == SetMask(h, {EV_BREAK})

\* The wake-up and return 0 (lines 1443-1448 / 1490-1495).
DestroyWake(c) ==
  /\ pc[c] = "dwake"
  /\ ExitWake(op[c].h)
  /\ roles' = [roles EXCEPT ![op[c].h] = @ \ {op[c].role}]
  /\ Return(c)
  /\ UNCHANGED <<slots, tstate, dtpIndex, oob, csOwner, csDepth, op, lmask,
                 used, ops>>

-----------------------------------------------------------------------------
(* event_data_looper, from spec.md 4.1-4.3 (its code is not in src/).     *)

ThreadBits(e) == (IF e.data THEN RoleBits("data") ELSE {})
                   \cup (IF e.event THEN RoleBits("event") ELSE {})

\* The thread's start: it exits at once if already asked to, else adds the
\* events of its enabled roles to the port's mask and enters its wait.
ThreadStart(x) ==
  LET e == slots[x] IN
  /\ tstate[x] = "created"
  /\ \/ /\ e.exit = 1
        /\ tstate' = [tstate EXCEPT ![x] = "exited"]
        /\ slots' = [slots EXCEPT ![x] = FreeEntry]
        /\ UNCHANGED <<commMask, woken>>
     \/ /\ e.exit = 0
        /\ tstate' = [tstate EXCEPT ![x] = "running"]
        /\ SetMask(e.h, commMask[e.h] \cup ThreadBits(e))
        /\ UNCHANGED slots
  /\ UNCHANGED <<dtpIndex, oob, csOwner, csDepth, pc, op, lmask, roles,
                 used, ops>>

\* WaitCommEvent returns after a SetCommMask; the thread exits, freeing its
\* entry, if thread_exit is set, and waits again otherwise.
ThreadWake(x) ==
  /\ tstate[x] = "running" /\ woken[x]
  /\ woken' = [woken EXCEPT ![x] = FALSE]
  /\ IF slots[x].exit = 1
       THEN /\ tstate' = [tstate EXCEPT ![x] = "exited"]
            /\ slots' = [slots EXCEPT ![x] = FreeEntry]
       ELSE UNCHANGED <<tstate, slots>>
  /\ UNCHANGED <<dtpIndex, oob, commMask, csOwner, csDepth, pc, op, lmask,
                 roles, used, ops>>

-----------------------------------------------------------------------------
\* Lines 67-71 and 91: an empty table, dtp_index 0, csmutex free; every
\* port opened with an empty comm mask.
Init ==
  /\ slots = [x \in Slots |-> FreeEntry]
  /\ tstate = [x \in Slots |-> "none"]
  /\ woken = [x \in Slots |-> FALSE]
  /\ dtpIndex = 0 /\ oob = FALSE
  /\ commMask = [h \in Handles |-> {}]
  /\ csOwner = NoCaller /\ csDepth = 0
  /\ pc = [c \in Callers |-> "idle"]
  /\ op = [c \in Callers |-> [kind |-> "none", h |-> NoHandle, role |-> "data"]]
  /\ lmask = [c \in Callers |-> {}]
  /\ roles = [h \in Handles |-> {}]
  /\ used = [h \in Handles |-> {}]
  /\ ops = 0

\* The steps of a call already started.
Continue(c) ==
  \/ GetMask(c) \/ SetMaskFails(c) \/ SetMaskOk(c)
  \/ Enter(c) \/ RefFails(c) \/ Publish(c) \/ SpawnFails(c) \/ SpawnOk(c)
  \/ DestroyFlag(c) \/ DestroyWake(c)

CallerNext(c) ==
  \/ \E h \in Handles, r \in Roles : StartSetUp(c, h, r) \/ StartDestroy(c, h, r)
  \/ Continue(c)

ThreadNext(x) == ThreadStart(x) \/ ThreadWake(x)

\* Every caller back in Java: the application may stop calling.
Finished == (\A c \in Callers : pc[c] = "idle") /\ UNCHANGED vars

Next ==
  \/ \E c \in Callers : CallerNext(c)
  \/ \E x \in Slots : ThreadNext(x)
  \/ Finished

\* Threads are OS-scheduled and a call in progress runs to its end.
Spec == Init /\ [][Next]_vars
        /\ \A c \in Callers : WF_vars(Continue(c))
        /\ \A x \in Slots : WF_vars(ThreadNext(x))

-----------------------------------------------------------------------------
Entry == [h : Handles \cup {NoHandle}, exit : {0, 1}, data : BOOLEAN, event : BOOLEAN]
Pc == {"idle", "getmask", "setmask", "enter", "ref", "spawn", "dflag", "dwake"}

\* The types of the state.
TypeOK ==
  /\ slots \in [Slots -> Entry]
  /\ tstate \in [Slots -> {"none", "created", "running", "exited"}]
  /\ woken \in [Slots -> BOOLEAN]
  /\ dtpIndex \in 0..MaxOps /\ oob \in BOOLEAN
  /\ commMask \in [Handles -> SUBSET EvBits]
  /\ csOwner \in Callers \cup {NoCaller} /\ csDepth \in 0..MaxOps
  /\ pc \in [Callers -> Pc]
  /\ op \in [Callers -> [kind : {"none", "setup", "destroy"},
                         h : Handles \cup {NoHandle}, role : {"data", "event"}]]
  /\ lmask \in [Callers -> SUBSET EvBits]
  /\ roles \in [Handles -> SUBSET Roles] /\ used \in [Handles -> SUBSET Roles]
  /\ ops \in 0..MaxOps

\* The threads started for handle h and not yet ended.
LiveThreads(h) == {x \in Slots : tstate[x] \in {"created", "running"} /\ slots[x].h = h}

\* A set-up call starts a thread only when the scan finds none for the handle
\* (lines 1280-1303): a port never has two looper threads, which would both
\* consume its comm events.
OneThreadPerHandle == \A h \in Handles : Cardinality(LiveThreads(h)) <= 1

\* Once the application has destroyed every listener of a port (and has no
\* call in flight on it), each looper thread of that port has been told to
\* exit: destroy*LooperThread flags the thread the scan finds.
NoOrphanThread ==
  \A h \in Handles : \A x \in LiveThreads(h) :
    roles[h] \cup InFlight(h) = {} => slots[x].exit = 1

\* A thread flagged to exit ends: the SetCommMask(EV_BREAK) of the destroy
\* call makes its WaitCommEvent return (line 1445).
ThreadExitLiveness ==
  \A x \in Slots : (tstate[x] = "running" /\ slots[x].exit = 1) ~> (tstate[x] = "exited")

\* Every role the application holds registered, with no call in flight, is
\* served by a live unflagged thread of the port whose mask asks for its
\* events (spec.md 4.1: unregistering one role leaves the other running).
RolesServed ==
  \A h \in Handles : \A r \in roles[h] \ InFlight(h) :
    \E x \in LiveThreads(h) :
      /\ slots[x].exit = 0
      /\ tstate[x] = "created" \/ commMask[h] \cap RoleBits(r) # {}

\* A thread is told to exit only when the application has no listener left
\* on its port: destroying one role of two leaves the thread running for the
\* other (spec.md 4.1; the comments of lines 1422 and 1469).
NoFlagWhileRegistered ==
  \A h \in Handles : \A x \in LiveThreads(h) :
    slots[x].exit = 1 => roles[h] \ InFlight(h) = {}

\* csmutex is held only while setupLooperThread runs (lines 1359-1399): a
\* caller back in Java never still owns it.
CsOnlyInSetup == csOwner # NoCaller => pc[csOwner] \in {"ref", "spawn"}

\* Every write to handle_looper_info[dtp_index] (line 1377) is inside the
\* table of MAX_NUM_THREADS entries.
RegistryInBounds == ~oob

=============================================================================

------------------------------ MODULE WinPort ------------------------------
(***************************************************************************)
(* The port wrappers of windows_serial.c: openComPort, closeComPort,       *)
(* readBytes, writeBytes, configureComPortData, configureComPortControl,   *)
(* setRTS/setDTR, the queries and sendBreak (lines 182-1258).  Each call   *)
(* runs in the calling Java thread without touching library state, so a   *)
(* call is one step; what the Win32 and JNI functions it calls return is a *)
(* nondeterministic choice among the outcomes the code tells apart.        *)
(*                                                                         *)
(* The OS side is the table of handle values, and per port its DCB, its    *)
(* break state and its modem control lines.  A DCB keeps the fields the   *)
(* code writes; the flow-control flags are summarised as "none", "hw" or   *)
(* "sw".  The JNI side is counted:                                         *)
(* string and array elements pinned, and event objects created, by calls   *)
(* that have returned.                                                     *)
(***************************************************************************)
EXTENDS Integers, FiniteSets, TLC

CONSTANTS
  Ports,        \* COM port names
  Handles,      \* HANDLE values CreateFile may return
  NoPort,       \* a handle value that refers to nothing
  BaudCodes,    \* baudRateTranslated values the application may pass
  DcbInit,      \* the DCBs a port may have been left with
  MaxCalls      \* bound on JNI calls

ASSUME NoPort \notin Ports /\ MaxCalls \in Nat

\* DWORD baud = -1 (line 465) holds 2^32 - 1, beyond TLC's 32-bit signed
\* integers; the model writes that one DWORD value as -1.
BaudUnset == -1

ONESTOPBIT == 0
ONE5STOPBITS == 1
TWOSTOPBITS == 2
NOPARITY == 0
ODDPARITY == 1
EVENPARITY == 2
MARKPARITY == 3
SPACEPARITY == 4

\* Lines 484-545: the codes Windows maps to a CBR_ rate ...
CbrOf == (4 :> 110 @@ 8 :> 300 @@ 9 :> 600 @@ 10 :> 1200 @@ 12 :> 2400
          @@ 13 :> 4800 @@ 14 :> 9600 @@ 14400 :> 14400 @@ 15 :> 19200
          @@ 16 :> 38400 @@ 17 :> 57600 @@ 18 :> 115200 @@ 128000 :> 128000
          @@ 256000 :> 256000)
\* ... the codes it rejects with -EINVAL (251: a custom rate) ...
Unsupported == {1, 2, 3, 5, 6, 7, 11, 251} \cup 19..31
\* ... and the default branch, which leaves baud at its initial -1.
BaudFor(code) == IF code \in DOMAIN CbrOf THEN CbrOf[code] ELSE BaudUnset

\* Lines 260-280: 9600 8N1, no flow control.
SaneDcb == [baud |-> 9600, size |-> 8, stop |-> ONESTOPBIT, parity |-> NOPARITY,
            fparity |-> FALSE, flow |-> "none"]

VARIABLES
  hmap,      \* the OS handle table: the port a handle value refers to
  held,      \* the handles openComPort returned and closeComPort has not closed
  dcb,       \* each port's device control block
  brk,       \* each port's transmit line is held in the break state
  lines,     \* the modem control lines each port drives (RTS, DTR)
  pins,      \* JNI string and array elements not released after the call returned
  evts,      \* event objects not closed after the call returned
  breakRet,  \* the result of the last sendBreak on each port
  last,      \* the last call: its function, handle, argument and result
  crashed,   \* the process has died
  calls      \* history: JNI calls made

vars == <<hmap, held, dcb, brk, lines, pins, evts, breakRet, last, crashed, calls>>

Call(fn, h, arg, ret) ==
  /\ last' = [fn |-> fn, h |-> h, arg |-> arg, ret |-> ret]
  /\ calls' = calls + 1

Live == ~crashed /\ calls < MaxCalls

-----------------------------------------------------------------------------
(* openComPort, lines 182-320.  GetStringUTFChars pins the name; it is      *)
(* released only after GetCommState has succeeded (line 258).  CreateFile  *)
(* failing with an error the code does not map falls through with          *)
(* INVALID_HANDLE_VALUE, on which GetCommState fails.  lpCommTimeouts is   *)
(* an uninitialised pointer written through at lines 295-299: the build    *)
(* either faults, or zeroes whatever the pointer reaches and hands those   *)
(* zeroes to SetCommTimeouts, which then clears the timeouts as intended.  *)
(* A failed SetCommState returns -EINVAL for ERROR_INVALID_PARAMETER and   *)
(* -240 otherwise (lines 281-291; line 284 tests the undeclared erroVal,   *)
(* read as the errorVal it stands for).                                    *)
OpenFails(p) ==
  /\ Live
  /\ \E step \in {"utf", "create_mapped", "create_other", "getstate"} :
       /\ Call("open", NoPort, p, CASE step = "utf" -> "-240"
                                    [] step = "create_mapped" -> "errno"
                                    [] OTHER -> "EINVAL")
       /\ pins' = pins + (IF step = "utf" THEN 0 ELSE 1)
  /\ UNCHANGED <<hmap, held, dcb, brk, lines, evts, breakRet, crashed>>

OpenSetupFails(p) ==
  /\ Live
  /\ \E step \in {"setstate_inval", "setstate", "tmo_fault", "settimeouts"} :
       /\ crashed' = (step = "tmo_fault")
       /\ Call("open", NoPort, p, IF step = "setstate_inval" THEN "EINVAL" ELSE "-240")
       /\ IF step \in {"setstate_inval", "setstate"}
            THEN UNCHANGED <<dcb, lines>>
            ELSE dcb' = [dcb EXCEPT ![p] = SaneDcb] /\ lines' = [lines EXCEPT ![p] = {}]
  /\ UNCHANGED <<hmap, held, brk, pins, evts, breakRet>>

\* A COM port admits one open handle: CreateFile on a port that is already
\* open fails (ERROR_ACCESS_DENIED, one of OpenFails' mapped errors).
OpenOk(p) ==
  /\ Live /\ \A g \in Handles : hmap[g] # p
  /\ \E h \in Handles :
       /\ hmap[h] = NoPort
       /\ hmap' = [hmap EXCEPT ![h] = p]
       /\ held' = held \cup {h}
       /\ Call("open", h, p, "handle")
  /\ dcb' = [dcb EXCEPT ![p] = SaneDcb]
  /\ lines' = [lines EXCEPT ![p] = {}]
  /\ UNCHANGED <<brk, pins, evts, breakRet, crashed>>

(* closeComPort, lines 322-350: FlushFileBuffers (a failure is only logged) *)
(* then CloseHandle.                                                        *)
CloseComPort(h) ==
  /\ Live /\ h \in held
  /\ \E ok \in BOOLEAN :
       /\ hmap' = IF ok THEN [hmap EXCEPT ![h] = NoPort] ELSE hmap
       /\ held' = IF ok THEN held \ {h} ELSE held
       /\ Call("close", h, NoPort, IF ok THEN "0" ELSE "-240")
  /\ UNCHANGED <<dcb, brk, lines, pins, evts, breakRet, crashed>>

-----------------------------------------------------------------------------
(* readBytes, lines 352-401.  The overlapped event is closed only on the   *)
(* path that returns data (line 398).  The -240 and -errno returns (lines  *)
(* 367, 383-387) are ints returned as a jbyteArray: the JVM takes them for *)
(* a reference, and may fault on it.                                        *)
ReadBytes(h) ==
  /\ Live /\ h \in held
  /\ \E step \in {"event_fail", "done", "pending_done", "pending_fail",
                  "mapped_error", "other_error"} :
       /\ evts' = evts + (IF step \in {"event_fail", "done", "pending_done"} THEN 0 ELSE 1)
       /\ crashed' \in IF step \in {"event_fail", "mapped_error"} THEN BOOLEAN ELSE {FALSE}
       /\ Call("read", h, NoPort, step)
  /\ UNCHANGED <<hmap, held, dcb, brk, pins, lines, breakRet>>

(* writeBytes, lines 411-454.  GetByteArrayElements pins the buffer first; *)
(* the buffer and the event are released only on the success path.        *)
WriteBytes(h) ==
  /\ Live /\ h \in held
  /\ \E step \in {"event_fail", "done", "pending_done", "pending_fail",
                  "mapped_error", "other_error"} :
       /\ pins' = pins + (IF step \in {"done", "pending_done"} THEN 0 ELSE 1)
       /\ evts' = evts + (IF step \in {"event_fail", "done", "pending_done"} THEN 0 ELSE 1)
       /\ Call("write", h, NoPort, step)
  /\ UNCHANGED <<hmap, held, dcb, brk, lines, breakRet, crashed>>

-----------------------------------------------------------------------------
(* configureComPortData, lines 461-598: GetCommState, the baud table, then *)
(* ByteSize = dataBits, StopBits and Parity only for the codes the code    *)
(* knows (fParity set before the parity test), SetCommState, PurgeComm.    *)
StopOf(s, old) == CASE s = 1 -> ONESTOPBIT [] s = 4 -> ONE5STOPBITS
                    [] s = 2 -> TWOSTOPBITS [] OTHER -> old
ParityOf(p, old) == CASE p = 1 -> NOPARITY [] p = 2 -> ODDPARITY [] p = 3 -> EVENPARITY
                      [] p = 4 -> MARKPARITY [] p = 5 -> SPACEPARITY [] OTHER -> old

NewDataDcb(d, bits, stop, par, code) ==
  [d EXCEPT !.baud = BaudFor(code), !.size = bits % 256,
            !.stop = StopOf(stop, d.stop),
            !.parity = ParityOf(par, d.parity), !.fparity = (par # 1)]

ConfigureData(h, bits, stop, par, code) ==
  LET p == hmap[h] IN
  /\ Live /\ h \in held
  /\ \/ Call("data", h, code, "-240") /\ UNCHANGED dcb            \* GetCommState fails
     \/ code \in Unsupported /\ Call("data", h, code, "EINVAL") /\ UNCHANGED dcb
     \/ /\ code \notin Unsupported
        /\ \E ok \in BOOLEAN :                                       \* SetCommState
             /\ dcb' = IF ok THEN [dcb EXCEPT ![p] = NewDataDcb(@, bits, stop, par, code)]
                       ELSE dcb
             /\ Call("data", h, code, IF ok THEN "0" ELSE "-240")
  /\ UNCHANGED <<hmap, held, brk, lines, pins, evts, breakRet, crashed>>

(* configureComPortControl, lines 606-662: GetCommState, the flow-control  *)
(* fields are set in the local dcb, and the call returns 0 without a       *)
(* SetCommState: the port is left as it was.                               *)
ConfigureControl(h, flow) ==
  /\ Live /\ h \in held
  /\ \E ok \in BOOLEAN : Call("control", h, flow, IF ok THEN "0" ELSE "-240")
  /\ UNCHANGED <<hmap, held, dcb, brk, lines, pins, evts, breakRet, crashed>>

\* Mutant of SendBreak: the result of ClearCommBreak is not checked.
SendBreakIgnoresClear(h) ==
  LET p == hmap[h] IN
  /\ Live /\ h \in held
  /\ \E set \in BOOLEAN, cleared \in BOOLEAN :
       /\ brk' = [brk EXCEPT ![p] = IF set THEN ~cleared ELSE @]
       /\ breakRet' = [breakRet EXCEPT ![p] = IF set THEN "0" ELSE "-240"]
       /\ Call("break", h, NoPort, breakRet'[p])
  /\ UNCHANGED <<hmap, held, dcb, lines, pins, evts, crashed>>

(* sendBreak, lines 1208-1231: SetCommBreak, Sleep, ClearCommBreak.        *)
SendBreak(h) ==
  LET p == hmap[h] IN
  /\ Live /\ h \in held
  /\ \E set \in BOOLEAN, cleared \in BOOLEAN :
       /\ brk' = [brk EXCEPT ![p] = IF set THEN ~cleared ELSE @]
       /\ breakRet' = [breakRet EXCEPT ![p] = IF set /\ cleared THEN "0" ELSE "-240"]
       /\ Call("break", h, NoPort, breakRet'[p])
  /\ UNCHANGED <<hmap, held, dcb, lines, pins, evts, crashed>>

(* setRTS and setDTR, lines 669-716: EscapeCommFunction raises or lowers  *)
(* the line.                                                                *)
EscapeComm(h, line, on) ==
  LET p == hmap[h] IN
  /\ Live /\ h \in held
  /\ \E ok \in BOOLEAN :
       /\ lines' = IF ~ok THEN lines
                   ELSE [lines EXCEPT ![p] = IF on THEN @ \cup {line} ELSE @ \ {line}]
       /\ Call(line, h, on, IF ok THEN "0" ELSE "-240")
  /\ UNCHANGED <<hmap, held, dcb, brk, pins, evts, breakRet, crashed>>

(* The queries, lines 725-1258, change nothing on the port; each is one   *)
(* Win32 call whose failure the code reports as -240.                      *)
(* getCurrentConfigurationW, lines 725-1098: GetCommState; on success the   *)
(* 28 DCB fields are formatted into strings (left out).  On failure it     *)
(* returns the int -240 as a jobjectArray, a reference the JVM may crash   *)
(* on.                                                                     *)
GetConfiguration(h) ==
  /\ Live /\ h \in held
  /\ \/ Call("config", h, NoPort, "-240") /\ crashed' \in BOOLEAN
     \/ Call("config", h, NoPort, "0") /\ UNCHANGED crashed
  /\ UNCHANGED <<hmap, held, dcb, brk, lines, pins, evts, breakRet>>

(* getByteCount, lines 1107-1130: ClearCommError; -240 in val[0] when it   *)
(* fails.  (Line 1116 passes the COMSTAT by value and line 1126 applies -> *)
(* to it: the file does not compile as written; the model takes the       *)
(* evident intent, &comstat.)                                              *)
GetByteCount(h) ==
  /\ Live /\ h \in held
  /\ \E ok \in BOOLEAN : Call("count", h, NoPort, IF ok THEN "0" ELSE "-240")
  /\ UNCHANGED <<hmap, held, dcb, brk, lines, pins, evts, breakRet, crashed>>

(* clearPortIOBuffers, lines 1137-1160: the purge flags; with neither      *)
(* buffer asked for, PORTIOBUFFER stays -1, every PURGE_ flag, so PurgeComm *)
(* also aborts pending reads and writes.                                   *)
PurgeFlags(rx, tx) ==
  IF ~rx /\ ~tx THEN {"RXABORT", "TXABORT", "RXCLEAR", "TXCLEAR"}
  ELSE {f \in {"RXCLEAR", "TXCLEAR"} : (f = "RXCLEAR" /\ rx) \/ (f = "TXCLEAR" /\ tx)}

ClearBuffers(h, rx, tx) ==
  /\ Live /\ h \in held
  /\ \E ok \in BOOLEAN : Call("purge", h, PurgeFlags(rx, tx), IF ok THEN "0" ELSE "-240")
  /\ UNCHANGED <<hmap, held, dcb, brk, lines, pins, evts, breakRet, crashed>>

(* getLinesStatus, lines 1171-1199: GetCommModemStatus; -240 in status[0]  *)
(* when it fails.                                                          *)
GetLinesStatus(h) ==
  /\ Live /\ h \in held
  /\ \E ok \in BOOLEAN : Call("lines", h, NoPort, IF ok THEN "0" ELSE "-240")
  /\ UNCHANGED <<hmap, held, dcb, brk, lines, pins, evts, breakRet, crashed>>

(* getInterruptCount, lines 1240-1245: no Win32 call.  sizeof(count_info)  *)
(* is 48 bytes, used as an element count of the 12-int array: the result   *)
(* holds 36 ints read past the array, which the model calls "garbage".     *)
GetInterruptCount(h) ==
  /\ Live /\ h \in held
  /\ Call("interrupts", h, NoPort, "garbage")
  /\ UNCHANGED <<hmap, held, dcb, brk, lines, pins, evts, breakRet, crashed>>

(* setMinDataLength, lines 1256-1258: unsupported, returns -1.             *)
SetMinDataLength(h) ==
  /\ Live /\ h \in held
  /\ Call("minlen", h, NoPort, "-1")
  /\ UNCHANGED <<hmap, held, dcb, brk, lines, pins, evts, breakRet, crashed>>

-----------------------------------------------------------------------------
Init ==
  /\ hmap = [h \in Handles |-> NoPort] /\ held = {}
  /\ dcb \in [Ports -> DcbInit]
  /\ brk = [p \in Ports |-> FALSE] /\ breakRet = [p \in Ports |-> "none"]
  /\ lines \in [Ports -> SUBSET {"RTS", "DTR"}]
  /\ pins = 0 /\ evts = 0 /\ crashed = FALSE /\ calls = 0
  /\ last = [fn |-> "none", h |-> NoPort, arg |-> NoPort, ret |-> "0"]

Next ==
  \/ \E p \in Ports : OpenFails(p) \/ OpenSetupFails(p) \/ OpenOk(p)
  \/ \E h \in Handles :
       \/ CloseComPort(h) \/ ReadBytes(h) \/ WriteBytes(h) \/ SendBreak(h)
       \/ GetConfiguration(h) \/ GetByteCount(h) \/ GetLinesStatus(h)
       \/ GetInterruptCount(h) \/ SetMinDataLength(h)
       \/ \E rx, tx \in BOOLEAN : ClearBuffers(h, rx, tx)
       \/ \E f \in {1, 2, 3} : ConfigureControl(h, f)
       \/ \E line \in {"RTS", "DTR"}, on \in BOOLEAN : EscapeComm(h, line, on)
       \/ \E bits \in {7, 8}, stop \in {1, 2}, par \in {1, 3}, code \in BaudCodes :
            ConfigureData(h, bits, stop, par, code)
  \/ (crashed \/ calls = MaxCalls) /\ UNCHANGED vars

Spec == Init /\ [][Next]_vars

-----------------------------------------------------------------------------
Results == {"0", "-240", "EINVAL", "-1", "garbage"}

TypeOK ==
  /\ hmap \in [Handles -> Ports \cup {NoPort}] /\ held \subseteq Handles
  /\ brk \in [Ports -> BOOLEAN] /\ lines \in [Ports -> SUBSET {"RTS", "DTR"}]
  /\ breakRet \in [Ports -> {"none", "0", "-240"}]
  /\ pins \in Nat /\ evts \in Nat /\ crashed \in BOOLEAN /\ calls \in 0..MaxCalls
  /\ \A h \in held : hmap[h] \in Ports

(* sendBreak returns 0 only after ClearCommBreak has taken the line out of *)
(* the break state (lines 1221-1228): a port left holding a break is one   *)
(* whose last sendBreak reported -240, so the application knows to retry.  *)
BreakReported == \A p \in Ports : brk[p] => breakRet[p] = "-240"

FlowOf(f) == CASE f = 1 -> "none" [] f = 2 -> "hw" [] f = 3 -> "sw"

(* configureComPortControl: when it returns 0 the port uses the flow        *)
(* control the application asked for (the method's contract in the Java    *)
(* layer, and what lines 624-654 compute).                                 *)
ControlApplied ==
  (last.fn = "control" /\ last.ret = "0")
    => dcb[hmap[last.h]].flow = FlowOf(last.arg)

(* Every JNI call releases what it pinned (ReleaseStringUTFChars,          *)
(* ReleaseByteArrayElements) and closes the event objects it created        *)
(* before it returns, on its error paths too.                              *)
NoCallLeak == pins = 0 /\ evts = 0

(* configureComPortData returns 0 only with a real baud rate in the DCB.   *)
BaudValid ==
  (last.fn = "data" /\ last.ret = "0") => dcb[hmap[last.h]].baud # BaudUnset

=============================================================================

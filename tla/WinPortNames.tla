---------------------------- MODULE WinPortNames ----------------------------
(***************************************************************************)
(* getSerialPortNames of windows_serial.c (lines 117-181): the names of    *)
(* the COM ports are the values of HKLM\HARDWARE\DEVICEMAP\SERIALCOMM.     *)
(* The function opens the key, counts its values with RegEnumValueA, and  *)
(* then fills a String array of that size, reading the values again.       *)
(*                                                                         *)
(* Each loop iteration is one step.  The registry key holds Entries       *)
(* values.  count is a DWORD declared without an initialiser (line 124):  *)
(* it starts at any value the stack held.  The value-name size argument   *)
(* is &name_of_value (a char array passed as a DWORD pointer) and         *)
(* lpcbData is uninitialised, so for an index that exists RegEnumValueA    *)
(* may report ERROR_MORE_DATA as well as success.  DWORD arithmetic is    *)
(* kept modulo 2^DwordBits; the code's width, 32, is beyond TLC, and the   *)
(* wrap it leads to happens the same way at any width.                     *)
(***************************************************************************)
EXTENDS Naturals, FiniteSets

CONSTANTS
  Entries,      \* values under the SERIALCOMM key
  DwordBits     \* width of a DWORD in the model

ASSUME Entries \in Nat /\ DwordBits \in Nat \ {0}

Dword == 2 ^ DwordBits

VARIABLES
  pc,          \* "open", "count", "fill", "done"
  count,       \* local DWORD count
  i,           \* local loop index of the fill loop
  keyOpen,     \* phkey is open
  portsFound,  \* ports_found: 0 for NULL, else the length of the array allocated
  filled,      \* indices of ports_found given a String
  strings      \* Strings NewStringUTF created in this call

vars == <<pc, count, i, keyOpen, portsFound, filled, strings>>

\* RegEnumValueA(phkey, idx, ...): an index past the last value gives
\* ERROR_NO_MORE_ITEMS; an existing one succeeds or, with the wrong size
\* arguments, gives ERROR_MORE_DATA.
EnumAt(idx) == IF idx < Entries THEN {"success", "more_data"} ELSE {"no_more"}

Init ==
  /\ pc = "open" /\ count \in 0..Dword - 1 /\ i = 0
  /\ keyOpen = FALSE /\ portsFound = 0 /\ filled = {} /\ strings = 0

(* Lines 128-139: RegOpenKeyEx; on failure return NULL.                    *)
OpenKey ==
  /\ pc = "open"
  /\ \/ pc' = "done" /\ UNCHANGED keyOpen
     \/ pc' = "count" /\ keyOpen' = TRUE
  /\ UNCHANGED <<count, i, portsFound, filled, strings>>

(* Lines 143-152: while more entries, RegEnumValueA(count) and count++ on  *)
(* success; any other result ends the loop.  Lines 155-156: when count > 0 *)
(* the array of count Strings is allocated.                                *)
CountStep ==
  /\ pc = "count"
  /\ \E r \in EnumAt(count) :
       IF r = "success"
       THEN count' = (count + 1) % Dword /\ UNCHANGED <<pc, portsFound>>
       ELSE /\ pc' = "fill" /\ UNCHANGED count
            /\ portsFound' = count
  /\ UNCHANGED <<i, keyOpen, filled, strings>>

(* Lines 157-168: for(i=0; i<count; count++): the loop advances count, not *)
(* i, so every pass reads value 0 again.  ERROR_MORE_DATA or another error *)
(* returns NULL without RegCloseKey.                                       *)
FillStep ==
  /\ pc = "fill" /\ i < count
  /\ \E r \in EnumAt(i) :
       IF r = "success"
       THEN /\ filled' = filled \cup {i} /\ strings' = strings + 1
            /\ count' = (count + 1) % Dword /\ UNCHANGED <<pc, portsFound>>
       ELSE /\ pc' = "done" /\ portsFound' = 0
            /\ UNCHANGED <<count, filled, strings>>
  /\ UNCHANGED <<i, keyOpen>>

(* Lines 171-172: the loop is over: RegCloseKey and return ports_found.    *)
CloseKey ==
  /\ pc = "fill" /\ ~(i < count)
  /\ pc' = "done" /\ keyOpen' = FALSE
  /\ UNCHANGED <<count, i, portsFound, filled, strings>>

Done == pc = "done" /\ UNCHANGED vars

Next == OpenKey \/ CountStep \/ FillStep \/ CloseKey \/ Done

Spec == Init /\ [][Next]_vars /\ WF_vars(Next)

-----------------------------------------------------------------------------
TypeOK ==
  /\ pc \in {"open", "count", "fill", "done"}
  /\ count \in 0..Dword - 1 /\ i \in 0..Dword - 1 /\ keyOpen \in BOOLEAN
  /\ portsFound \in 0..Dword - 1
  /\ filled \subseteq 0..Dword - 1 /\ strings \in Nat

(* getSerialPortNames returns NULL or one name per value of the key: an    *)
(* array of Entries Strings, each of them set.                             *)
NamesListed ==
  (pc = "done" /\ portsFound # 0)
    => portsFound = Entries /\ filled = 0..Entries - 1

(* Every return closes the registry key the function opened.               *)
KeyClosed == pc = "done" => ~keyOpen

(* The call creates at most one String per port: the JVM's local          *)
(* reference table is not filled by a loop that does not advance.          *)
StringsBounded == strings <= Entries

(* The call returns.                                                       *)
Returns == <>(pc = "done")
=============================================================================

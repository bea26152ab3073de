----------------------------- MODULE MC_WinPort -----------------------------
(* Model values for checking WinPort with TLC.                             *)
EXTENDS WinPort

CONSTANTS com1, h1, h2, none

MC_Ports == {com1}
MC_Handles == {h1, h2}
\* A port a previous program left at 115200 8N1 with hardware flow control.
MC_DcbInit == {[baud |-> 115200, size |-> 8, stop |-> ONESTOPBIT, parity |-> NOPARITY,
                fparity |-> FALSE, flow |-> "hw"]}
\* 9600, a custom rate (rejected) and a code outside the table.
MC_BaudCodes == {14, 251, 99}
=============================================================================

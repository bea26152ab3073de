--------------------------- MODULE MC_WinRegistry ---------------------------
(* Model values for checking WinRegistry with TLC.                         *)
EXTENDS WinRegistry

CONSTANTS c1, c2, h1, h2

MC_OneCaller == {c1}
MC_TwoCallers == {c1, c2}
MC_Handles == {h1, h2}
MC_OneHandle == {h1}
MC_BothRoles == {"data", "event"}
MC_DataRole == {"data"}
=============================================================================

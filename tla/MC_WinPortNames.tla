--------------------------- MODULE MC_WinPortNames ---------------------------
(* WinPortNames for TLC: two COM ports under the key and a 3-bit DWORD,    *)
(* so that an uninitialised count can start past, at and below Entries and *)
(* the fill loop's count++ wraps within 8 passes.                          *)
EXTENDS WinPortNames
=============================================================================

--------------------------- MODULE MC_DataLooper ---------------------------
(* Instantiation of DataLooper for TLC: two byte values, a 2-byte read     *)
(* buffer (so a 3-byte burst needs two reads and a partial read leaves     *)
(* stale cells behind), the error-notification threshold at 2.             *)
EXTENDS DataLooper

CONSTANTS b1, b2, junk

MC_Bytes == {b1, b2}
MC_OneByte == {b1}
=============================================================================

------------------------ MODULE MC_DataLooperKqueue ------------------------
(* Instantiation of DataLooperKqueue for TLC, with the bounds of           *)
(* MC_DataLooper.                                                           *)
EXTENDS DataLooperKqueue

CONSTANTS b1, b2, junk

MC_Bytes == {b1, b2}
=============================================================================

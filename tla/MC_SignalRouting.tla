-------------------------- MODULE MC_SignalRouting --------------------------
(* SignalRouting for TLC: one event listener and one port monitor, whose   *)
(* port is USB device d1.                                                   *)
EXTENDS SignalRouting

CONSTANTS m1, d1

MC_Monitors == {m1}
MC_Devices == {d1}
MC_PortOf == [m \in {m1} |-> d1]
MC_LinesLow == {{}}
MC_NoEnt == {"ENOENT"}
=============================================================================

--------------------------- MODULE MC_PortMonitor ---------------------------
(* Instances of PortMonitor for TLC: one or two monitors, one or two USB    *)
(* devices, device d1 the port of monitor m1 and d2 that of m2.            *)
EXTENDS PortMonitor

CONSTANTS m1, m2, d1, d2

MC_OneMonitor == {m1}
MC_TwoMonitors == {m1, m2}
MC_OneDevice == {d1}
MC_TwoDevices == {d1, d2}
MC_PortOf1 == [m \in {m1} |-> d1]
MC_PortOf2 == [m \in {m1, m2} |-> IF m = m1 THEN d1 ELSE d2]
MC_NoEnt == {"ENOENT"}
MC_NoEntOrAcces == {"ENOENT", "EACCES"}
=============================================================================

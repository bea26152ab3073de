--------------------------- MODULE MC_EventLooper ---------------------------
(* Definitions for checking EventLooper with TLC.                          *)
EXTENDS EventLooper

\* Every line low at start, or any state at all.
MC_LinesLow == {{}}
MC_AnyLines == SUBSET MsrBits
=============================================================================

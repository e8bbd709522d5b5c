--------------------------- MODULE MCNvdWatermark ---------------------------
(* Small instances of NvdWatermark for TLC. *)
EXTENDS NvdWatermark, TLC
=============================================================================

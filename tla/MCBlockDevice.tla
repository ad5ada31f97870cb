--------------------------- MODULE MCBlockDevice ---------------------------
(***************************************************************************)
(* BlockDevice for TLC: two trackers, sectors of two beats, and buffers    *)
(* that hold one item each, so that every stall can happen.                *)
(***************************************************************************)
EXTENDS BlockDevice
=============================================================================

------------------------- MODULE MCDriverLifecycle --------------------------
(* DriverLifecycle for TLC: one load of the driver, every stage cap, every *)
(* failure; a start() makes at most seven DMA regions.                     *)
EXTENDS DriverLifecycle
=============================================================================

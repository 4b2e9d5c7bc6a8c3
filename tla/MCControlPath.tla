--------------------------- MODULE MCControlPath ----------------------------
(* ControlPath for TLC: up to two unrelated control frames.             *)
EXTENDS ControlPath
=============================================================================

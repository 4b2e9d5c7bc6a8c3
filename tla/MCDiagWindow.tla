---------------------------- MODULE MCDiagWindow ----------------------------
(* DiagWindow for TLC: the whole bring-up sequence, no bounds needed.      *)
EXTENDS DiagWindow
=============================================================================

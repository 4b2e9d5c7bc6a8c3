--------------------------- MODULE MCWmiHandshake ---------------------------
(* WmiHandshake for TLC: a target that grants one, two or three credits    *)
(* while WMI_INIT costs two, so that a grant is too small, exact or ample. *)
EXTENDS WmiHandshake
=============================================================================

----------------------------- MODULE MCCopyPair -----------------------------
(* CopyPair for TLC: a ring of four entries and five frames each way, so   *)
(* that every index wraps, and two polls per wait.                         *)
EXTENDS CopyPair
=============================================================================

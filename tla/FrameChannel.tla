---------------------------- MODULE FrameChannel ----------------------------
(***************************************************************************)
(* What a Copy Engine ring pair promises to the layers above it (BMI, HTC, *)
(* WMI): two one-way channels with at most one frame in flight each, that  *)
(* neither lose, duplicate, reorder nor tear a frame.  The class comment   *)
(* of CE.hpp calls this "one command in flight".                           *)
(***************************************************************************)
EXTENDS Naturals, Sequences

VARIABLES toTarget,     \* frame under way to the target: <<>> or <<f>>
          atTarget,     \* frames the target has, oldest first
          toHost,       \* frame under way to the host: <<>> or <<f>>
          atHost        \* frames the host has copied out, oldest first

vars == <<toTarget, atTarget, toHost, atHost>>

Init == /\ toTarget = <<>>
        /\ atTarget = <<>>
        /\ toHost = <<>>
        /\ atHost = <<>>

(* The n-th frame of a direction, whole: its length, its first and its     *)
(* second half all belong to frame n.                                      *)
Whole(n) == [nbytes |-> n, lo |-> n, hi |-> n]

Send == /\ toTarget = <<>>
        /\ toTarget' = <<Whole(Len(atTarget) + 1)>>
        /\ UNCHANGED <<atTarget, toHost, atHost>>

Deliver == /\ toTarget # <<>>
           /\ atTarget' = atTarget \o toTarget
           /\ toTarget' = <<>>
           /\ UNCHANGED <<toHost, atHost>>

Emit == /\ toHost = <<>>
        /\ toHost' = <<Whole(Len(atHost) + 1)>>
        /\ UNCHANGED <<toTarget, atTarget, atHost>>

Receive == /\ toHost # <<>>
           /\ atHost' = atHost \o toHost
           /\ toHost' = <<>>
           /\ UNCHANGED <<toTarget, atTarget>>

Next == Send \/ Deliver \/ Emit \/ Receive

Spec == Init /\ [][Next]_vars
=============================================================================

----------------------------- MODULE MCBuffers ------------------------------
(***************************************************************************)
(* RecordWalk and LogTail for TLC: one walk over one buffer; the log is    *)
(* written beside the walk over an empty container only.                   *)
(***************************************************************************)
EXTENDS RecordWalk, LogTail

(* Lengths are taken modulo 64 here, and Corrupt declares one that wraps. *)
Corrupt == [Rec("other", 63) EXCEPT !.size = 0]
Name(who, len) == [Rec("name", len) EXCEPT !.holds = who]
Board(who) == [Rec("name", 12) EXCEPT !.holds = "list", !.inner = <<who, "data">>]
Credits(len, grants) == [Rec("credits", len) EXCEPT !.grants = grants]

MCRecords ==
  [fw     |-> {Rec("image", 0), Rec("image", 1), Rec("image", 4), Rec("otp", 2),
               Rec("version", 1), Rec("version", 2), Rec("other", 3), Corrupt},
   board  |-> {Name("mine", 3), Name("other", 3), Rec("data", 4), Rec("data", 1),
               Board("mine"), Corrupt},
   svc    |-> {Rec("event", 6), Rec("event", 5), Rec("array", 4), Rec("array", 6),
               Rec("other", 1), Corrupt},
   rdy    |-> {Rec("event", 4), Rec("event", 3), Rec("other", 2), Corrupt},
   credit |-> {Credits(4, <<1>>), Credits(8, <<2, 1>>), Credits(6, <<1, 3>>),
               Rec("other", 3), Rec("credits", 0), Corrupt}]

vars == <<walkVars, tailVars>>
Init == WalkInit /\ LogInit
Next == \/ WalkNext /\ UNCHANGED tailVars
        \/ walk = "fw" /\ recs = <<>> /\ LogNext /\ UNCHANGED walkVars

(* A walk is a loop without waits. *)
Spec == Init /\ [][Next]_vars /\ WF_vars(WalkNext /\ UNCHANGED tailVars)
=============================================================================

------------------------- MODULE WmiHandshakeProofs -------------------------
(***************************************************************************)
(* Proofs about WmiHandshake for every number of credits the target may    *)
(* grant and every cost of WMI_INIT.                                       *)
(***************************************************************************)
EXTENDS WmiHandshake, TLAPS

BeforeInit == {"prearm", "p1_recv", "p1_event", "init"}
AfterInit  == {"p3_recv", "p3_event", "online"}

(* WMI_INIT exists once: not sent, on the ring, or with the target; and    *)
(* the target holds credits only of a WMI_INIT it took.                    *)
OneInit ==
  /\ pc \in BeforeInit => ~cmd /\ ~initGot
  /\ pc \in AfterInit => ~cmd /\ initGot
  /\ cmd => ~initGot /\ (pc = "init_wait" \/ reason = "send")
  /\ reason = "send" => pc = "fail"
  /\ pc = "init_wait" => cmd \/ initGot
  /\ ~initGot => held = 0 /\ landed.credits = 0

(* What has landed or was copied out the target has sent, into a posted    *)
(* entry; a frame recvWmi refuses brings no credits.                       *)
FramesSent ==
  /\ landed # NoFrame => armed
  /\ \A f \in {landed, ev} : /\ f.id = "SERVICE_READY" => svcSent
                             /\ f.id = "READY" => rdySent
  /\ landed.cls = "refused" => landed.credits = 0

(* The phases: SERVICE_READY is known once phase 1 is over, and the        *)
(* credits for WMI_INIT are there until they are paid.                     *)
Phases ==
  /\ fwKnown => svcSent
  /\ pc \in AfterInit \cup {"init", "init_wait"} => fwKnown
  /\ pc = "online" => rdySent
  /\ pc = "init_wait" => fWmiCredits >= InitCost
  /\ pc \in {"p3_recv", "p3_event"} => tries < MaxTries

IInv == TypeOK /\ OneInit /\ FramesSent /\ Phases /\ CreditsBalanced /\ WaitsArmed

-----------------------------------------------------------------------------
(* The credits of any frame are a number, none or those of one WMI_INIT.   *)
LEMMA FrameFacts ==
  ASSUME NEW f \in Frame \cup {NoFrame}
  PROVE  /\ f.credits \in {0, InitCost} /\ f.credits \in Nat
         /\ f.id \in Ids /\ f.cls \in Classes \cup {"none"}
BY CreditAssumption DEF Frame, NoFrame, Ids, Classes

(* No frame has no credits, and is none of the frames. *)
LEMMA NoFrameFacts ==
  /\ NoFrame.credits = 0 /\ NoFrame.cls = "none" /\ NoFrame.id = "other"
  /\ NoFrame \notin Frame
BY DEF NoFrame, Frame, Classes

(* The handshake starts in the invariant. *)
LEMMA InitHolds == Init => IInv
<1> SUFFICES ASSUME Init PROVE IInv
  OBVIOUS
<1>1. TypeOK
  <2>1. fTotalCredits \in 1 .. MaxCredits /\ fWmiCredits \in 0 .. MaxCredits + InitCost
    BY CreditAssumption DEF Init
  <2>2. tries \in 0 .. MaxTries
    BY DEF Init, MaxTries
  <2> QED BY <2>1, <2>2 DEF Init, TypeOK, Labels, Reasons
<1>2. OneInit /\ FramesSent /\ Phases
  BY NoFrameFacts DEF Init, OneInit, FramesSent, Phases, BeforeInit, AfterInit
<1>3. CreditsBalanced /\ WaitsArmed
  BY CreditAssumption, NoFrameFacts DEF Init, CreditsBalanced, Unpaid, WaitsArmed
<1> QED BY <1>1, <1>2, <1>3 DEF IInv

(* A frame received, in phase 1 or 3: the credits move to the host, and    *)
(* the event is one the target has sent.                                   *)
LEMMA RecvStep ==
  ASSUME IInv, NEW label, NEW next, RecvWmi(label, next),
         \/ label = "p1_recv" /\ next = "p1_event"
         \/ label = "p3_recv" /\ next = "p3_event"
  PROVE  IInv'
<1>f. /\ landed \in Frame /\ landed.credits \in {0, InitCost} /\ landed.credits \in Nat
      /\ landed.id \in Ids /\ landed.cls \in Classes
  BY FrameFacts DEF IInv, TypeOK, RecvWmi, Frame
<1>n. NoFrame.credits = 0 /\ NoFrame.cls = "none" /\ NoFrame.id = "other"
  BY NoFrameFacts
<1>c. fWmiCredits' = fWmiCredits + landed.credits
  BY <1>f DEF RecvWmi, IInv, FramesSent, TypeOK
<1>p. pc' \in {next, "fail"} /\ pc = label /\ landed' = NoFrame /\ armed' = FALSE
  BY DEF RecvWmi, Fail
<1>r. reason # "send" /\ reason' # "send" /\ pc' # "init_wait" /\ Unpaid = 0 /\ Unpaid' = 0
  <2>1. reason # "send" /\ pc # "init_wait" /\ pc' # "init_wait"
    BY <1>p DEF IInv, OneInit
  <2>2. reason' # "send"
    BY <2>1, <1>f DEF RecvWmi, Fail, Classes
  <2> QED BY <2>1, <2>2 DEF Unpaid
<1>b. fWmiCredits + held + landed.credits = fTotalCredits
  BY <1>r DEF IInv, TypeOK, CreditsBalanced
<1>1. TypeOK'
  <2>1. fWmiCredits' \in 0 .. MaxCredits + InitCost
    BY <1>b, <1>c, <1>f, CreditAssumption DEF IInv, TypeOK
  <2>2. reason' \in Reasons
    BY <1>f DEF RecvWmi, Fail, Reasons, Classes, IInv, TypeOK
  <2>3. ev' \in Frame \cup {NoFrame}
    BY <1>f DEF RecvWmi, IInv, TypeOK
  <2> QED BY <2>1, <2>2, <2>3, <1>p DEF IInv, TypeOK, Labels, RecvWmi, target
<1>2. OneInit'
  BY <1>p, <1>n, <1>r DEF IInv, OneInit, BeforeInit, AfterInit, RecvWmi, target
<1>3. FramesSent'
  BY <1>p, <1>n DEF IInv, FramesSent, RecvWmi, target
<1>4. Phases'
  BY <1>p, <1>n DEF IInv, Phases, BeforeInit, AfterInit, RecvWmi, target
<1>5. CreditsBalanced'
  <2>1. held' = held /\ fTotalCredits' = fTotalCredits /\ landed'.credits = 0
    BY <1>p, <1>n DEF RecvWmi, target
  <2> QED BY <2>1, <1>b, <1>c, <1>f, <1>r, CreditAssumption DEF IInv, TypeOK, CreditsBalanced
<1>6. WaitsArmed'
  BY <1>p DEF WaitsArmed
<1> QED BY <1>1, <1>2, <1>3, <1>4, <1>5, <1>6 DEF IInv

(* A wait that times out leaves everything but the verdict alone. *)
LEMMA TimeoutStep ==
  ASSUME IInv, NEW label, RecvTimeout(label), label \in {"p1_recv", "p3_recv"}
  PROVE  IInv'
BY DEF RecvTimeout, Fail, ring, target, IInv, TypeOK, OneInit, FramesSent, Phases,
       CreditsBalanced, Unpaid, WaitsArmed, BeforeInit, AfterInit, Labels, Reasons

(* A frame sent by the target takes its credits along. *)
LEMMA EmitStep ==
  ASSUME IInv, NEW f \in Frame,
         EmitServiceReady(f) \/ EmitReady(f) \/ EmitChatter(f)
  PROVE  IInv'
<1>f. f.credits \in {0, InitCost} /\ f.credits \in Nat /\ f.id \in Ids /\ f # NoFrame
  BY FrameFacts, NoFrameFacts
<1>n. NoFrame.credits = 0
  BY NoFrameFacts
<1>e. Emit(f)
  BY DEF EmitServiceReady, EmitReady, EmitChatter
<1>h. held' \in {0, InitCost} /\ held' + f.credits = held
  BY <1>e, <1>f, CreditAssumption DEF Emit, IInv, TypeOK
<1>1. TypeOK'
  BY <1>e, <1>f, <1>h DEF Emit, EmitServiceReady, EmitReady, EmitChatter, host, IInv, TypeOK
<1>2. OneInit'
  BY <1>e, <1>f, <1>h DEF Emit, host, IInv, TypeOK, OneInit
<1>3. FramesSent'
  <2>1. landed' = f /\ armed' /\ ev' = ev
    BY <1>e DEF Emit, host
  <2>2. /\ f.id = "SERVICE_READY" => svcSent'
        /\ f.id = "READY" => rdySent'
        /\ f.cls = "refused" => f.credits = 0
    BY DEF EmitServiceReady, EmitReady, EmitChatter
  <2>3. (svcSent => svcSent') /\ (rdySent => rdySent')
    BY DEF EmitServiceReady, EmitReady, EmitChatter
  <2> QED BY <2>1, <2>2, <2>3 DEF IInv, FramesSent
<1>4. Phases'
  BY <1>e DEF Emit, EmitServiceReady, EmitReady, EmitChatter, host, IInv, Phases
<1>5. CreditsBalanced'
  <2>1. /\ Unpaid' = Unpaid /\ fTotalCredits' = fTotalCredits
        /\ fWmiCredits' = fWmiCredits /\ landed'.credits = f.credits /\ landed.credits = 0
    BY <1>e, <1>n DEF Emit, host, Unpaid
  <2>2. fWmiCredits' + held' + landed'.credits = fWmiCredits + held + landed.credits
    BY <2>1, <1>h, <1>f, CreditAssumption DEF IInv, TypeOK
  <2> QED BY <2>1, <2>2 DEF IInv, CreditsBalanced
<1>6. WaitsArmed'
  BY <1>e DEF Emit, host, IInv, WaitsArmed
<1> QED BY <1>1, <1>2, <1>3, <1>4, <1>5, <1>6 DEF IInv

-----------------------------------------------------------------------------
(* Every step keeps the invariant: one step of the proof per action.       *)
LEMMA StepHolds == IInv /\ [Next]_vars => IInv'
<1> SUFFICES ASSUME IInv, [Next]_vars PROVE IInv'
  OBVIOUS
<1> USE CreditAssumption
<1>f. landed.credits \in Nat
  BY FrameFacts DEF IInv, TypeOK
<1>1. CASE PreArm
  BY <1>1 DEF PreArm, target, IInv, TypeOK, OneInit, FramesSent, Phases,
         CreditsBalanced, Unpaid, WaitsArmed, BeforeInit, AfterInit, Labels
<1>2. CASE P1Recv
  BY <1>2, RecvStep DEF P1Recv
<1>3. CASE P1Timeout
  BY <1>3, TimeoutStep DEF P1Timeout
<1>4. CASE P1Event
  BY <1>4 DEF P1Event, Fail, target, IInv, TypeOK, OneInit, FramesSent, Phases,
         CreditsBalanced, Unpaid, WaitsArmed, BeforeInit, AfterInit, Labels, Reasons
<1>5. CASE InitNoCredits
  BY <1>5 DEF InitNoCredits, Fail, ring, target, IInv, TypeOK, OneInit, FramesSent, Phases,
         CreditsBalanced, Unpaid, WaitsArmed, BeforeInit, AfterInit, Labels, Reasons
<1>6. CASE InitNotSent
  BY <1>6 DEF InitNotSent, Fail, target, IInv, TypeOK, OneInit, FramesSent, Phases,
         CreditsBalanced, Unpaid, WaitsArmed, BeforeInit, AfterInit, Labels, Reasons
<1>7. CASE InitBell
  BY <1>7 DEF InitBell, target, IInv, TypeOK, OneInit, FramesSent, Phases,
         CreditsBalanced, Unpaid, WaitsArmed, BeforeInit, AfterInit, Labels
<1>8. CASE InitSent
  <2>1. fWmiCredits' \in 0 .. MaxCredits + InitCost
    BY <1>8 DEF InitSent, IInv, TypeOK, Phases
  <2>2. CreditsBalanced'
    <3>1. Unpaid = InitCost /\ Unpaid' = 0
      BY <1>8 DEF InitSent, target, IInv, OneInit, Unpaid
    <3> QED BY <1>8, <1>f, <3>1 DEF InitSent, ring, target, IInv, TypeOK, CreditsBalanced
  <2> QED BY <1>8, <2>1, <2>2 DEF InitSent, ring, target, IInv, TypeOK, OneInit, FramesSent,
             Phases, WaitsArmed, BeforeInit, AfterInit, Labels, MaxTries
<1>9. CASE InitTimeout
  BY <1>9 DEF InitTimeout, Fail, ring, target, IInv, TypeOK, OneInit, FramesSent, Phases,
         CreditsBalanced, Unpaid, WaitsArmed, BeforeInit, AfterInit, Labels, Reasons
<1>10. CASE P3Recv
  BY <1>10, RecvStep DEF P3Recv
<1>11. CASE P3Timeout
  BY <1>11, TimeoutStep DEF P3Timeout
<1>12. CASE P3Event
  BY <1>12 DEF P3Event, Fail, target, IInv, TypeOK, OneInit, FramesSent, Phases,
         CreditsBalanced, Unpaid, WaitsArmed, BeforeInit, AfterInit, Labels, Reasons, MaxTries
<1>13. CASE \E f \in Frame : EmitServiceReady(f) \/ EmitReady(f) \/ EmitChatter(f)
  BY <1>13, EmitStep
<1>14. CASE TakeInit
  <2>1. held = 0 /\ held' = InitCost
    BY <1>14 DEF TakeInit, IInv, TypeOK, OneInit
  <2>2. CreditsBalanced'
    BY <1>14, <1>f, <2>1 DEF TakeInit, host, IInv, TypeOK, OneInit, CreditsBalanced, Unpaid,
         BeforeInit, AfterInit, Labels
  <2> QED BY <1>14, <2>1, <2>2 DEF TakeInit, host, IInv, TypeOK, OneInit, FramesSent,
             Phases, WaitsArmed, BeforeInit, AfterInit
<1>15. CASE UNCHANGED vars
  BY <1>15 DEF vars, host, ring, target, IInv, TypeOK, OneInit, FramesSent, Phases,
         CreditsBalanced, Unpaid, WaitsArmed
<1> QED BY <1>1, <1>2, <1>3, <1>4, <1>5, <1>6, <1>7, <1>8, <1>9, <1>10, <1>11, <1>12,
          <1>13, <1>14, <1>15 DEF Next, Host, Target

(* The inductive invariant of the handshake, from waitServiceAndReady's    *)
(* first wmiArmRecv to its verdict.                                        *)
THEOREM HandshakeInvariance == Spec => []IInv
BY InitHolds, StepHolds, PTL DEF Spec

(* Labels, frames, counters and credits of the handshake keep their types; *)
(* fWmiCredits in particular never goes below zero in sendWmi.             *)
THEOREM HandshakeTypes == Spec => []TypeOK
<1>1. IInv => TypeOK
  BY DEF IInv
<1> QED BY <1>1, HandshakeInvariance, PTL

(* waitServiceAndReady returns true only after SERVICE_READY, WMI_INIT and *)
(* READY, in a target that may send anything in between.                   *)
THEOREM OnlineCorrect == Spec => []OnlineMeansHandshake
<1>1. IInv => OnlineMeansHandshake
  BY DEF IInv, OneInit, Phases, AfterInit, OnlineMeansHandshake
<1> QED BY <1>1, HandshakeInvariance, PTL

(* sendWmi's payment and applyCreditReport's returns balance against the   *)
(* credits of HTC READY in every state, for every grant and every cost; a  *)
(* WMI_INIT that timed out and arrived is the one excess, and it is exact. *)
THEOREM CreditsCorrect == Spec => []CreditsBalanced
<1>1. IInv => CreditsBalanced
  BY DEF IInv
<1> QED BY <1>1, HandshakeInvariance, PTL

(* No wait of the handshake is entered without a posted receive entry.     *)
THEOREM WaitsArmedCorrect == Spec => []WaitsArmed
<1>1. IInv => WaitsArmed
  BY DEF IInv
<1> QED BY <1>1, HandshakeInvariance, PTL

-----------------------------------------------------------------------------
(* The wait is bounded.                                                    *)

(* The steps waitServiceAndReady may still take when the target stays      *)
(* silent; a frame that has landed is worth one more pass of phase 1.      *)
Phase1   == {"prearm", "p1_recv", "p1_event"}
FromInit == 2 * MaxTries + 4
Pending  == IF landed = NoFrame THEN 0 ELSE 2
StepsLeft ==
  CASE pc = "prearm"    -> FromInit + 2 + Pending
    [] pc = "p1_recv"   -> FromInit + 1 + Pending
    [] pc = "p1_event"  -> FromInit + 2 + Pending
    [] pc = "init"      -> FromInit
    [] pc = "init_wait" -> FromInit - 1
    [] pc = "p3_recv"   -> 2 * (MaxTries - tries) + 2
    [] pc = "p3_event"  -> 2 * (MaxTries - tries) + 1
    [] OTHER            -> 0

(* Every host step uses some of them up; of the target's steps only a      *)
(* frame sent in phase 1 gives more, and never more than two.              *)
StepsShrink ==
  [][/\ Host => StepsLeft' < StepsLeft
     /\ Target => \/ StepsLeft' = StepsLeft
                  \/ pc \in Phase1 /\ landed = NoFrame /\ StepsLeft' = StepsLeft + 2]_vars

(* The steps left run out exactly at the verdict. *)
StepsBounded ==
  StepsLeft \in 0 .. FromInit + 4 /\ (StepsLeft = 0 <=> pc \in {"online", "fail"})

(* The measure is in its range. *)
LEMMA StepsInRange == TypeOK => StepsBounded
<1> SUFFICES ASSUME TypeOK PROVE StepsBounded
  OBVIOUS
<1>1. FromInit = 14 /\ MaxTries = 5 /\ Pending \in {0, 2}
  BY DEF FromInit, MaxTries, Pending
<1>2. tries \in 0 .. 5 /\ pc \in Labels
  BY DEF TypeOK, MaxTries
<1>3. CASE pc \in Phase1
  <2>1. StepsLeft \in {16 + Pending, 15 + Pending}
    BY <1>1, <1>3 DEF StepsLeft, Phase1
  <2> QED BY <1>1, <1>3, <2>1 DEF StepsBounded, Phase1
<1>4. CASE pc \in {"init", "init_wait"}
  <2>1. StepsLeft \in {14, 13}
    BY <1>1, <1>4 DEF StepsLeft
  <2> QED BY <1>1, <1>4, <2>1 DEF StepsBounded
<1>5. CASE pc \in {"p3_recv", "p3_event"}
  <2>1. StepsLeft \in {2 * (5 - tries) + 2, 2 * (5 - tries) + 1}
    BY <1>1, <1>5 DEF StepsLeft
  <2> QED BY <1>1, <1>2, <1>5, <2>1 DEF StepsBounded
<1>6. CASE pc \in {"online", "fail"}
  <2>1. StepsLeft = 0
    BY <1>6 DEF StepsLeft
  <2> QED BY <1>1, <1>6, <2>1 DEF StepsBounded
<1> QED BY <1>2, <1>3, <1>4, <1>5, <1>6 DEF Labels, Phase1

(* A host step lowers it. *)
LEMMA HostSteps == TypeOK /\ Host => StepsLeft' < StepsLeft
<1> SUFFICES ASSUME TypeOK, Host PROVE StepsLeft' < StepsLeft
  OBVIOUS
<1>1. /\ FromInit = 14 /\ MaxTries = 5 /\ Pending \in {0, 2} /\ Pending' \in {0, 2}
      /\ tries \in 0 .. 5
  BY DEF FromInit, MaxTries, Pending, TypeOK
<1>2. CASE PreArm
  <2>1. pc = "prearm" /\ pc' = "p1_recv" /\ Pending' = Pending
    BY <1>2 DEF PreArm, Pending
  <2> QED BY <1>1, <2>1 DEF StepsLeft
<1>3. CASE P1Recv
  <2>1. pc = "p1_recv" /\ pc' \in {"p1_event", "fail"} /\ Pending = 2 /\ Pending' = 0
    BY <1>3 DEF P1Recv, RecvWmi, Fail, Pending
  <2> QED BY <1>1, <2>1 DEF StepsLeft
<1>4. CASE P1Event
  <2>1. pc = "p1_event" /\ pc' \in {"p1_recv", "init", "fail"} /\ Pending' = Pending
    BY <1>4 DEF P1Event, Fail, Pending
  <2> QED BY <1>1, <2>1 DEF StepsLeft
<1>5. CASE InitBell
  BY <1>1, <1>5 DEF InitBell, StepsLeft
<1>6. CASE InitSent
  BY <1>1, <1>6 DEF InitSent, StepsLeft
<1>7. CASE P3Recv
  <2>1. pc = "p3_recv" /\ pc' \in {"p3_event", "fail"} /\ tries' = tries
    BY <1>7 DEF P3Recv, RecvWmi, Fail
  <2> QED BY <1>1, <2>1 DEF StepsLeft
<1>8. CASE P3Event
  <2>1. /\ pc = "p3_event"
        /\ pc' \in {"online", "fail"} \/ (pc' = "p3_recv" /\ tries' = tries + 1)
    BY <1>8 DEF P3Event, Fail
  <2> QED BY <1>1, <2>1 DEF StepsLeft
<1>9. CASE P1Timeout \/ InitNoCredits \/ InitNotSent \/ InitTimeout \/ P3Timeout
  <2>1. /\ pc \in {"p1_recv", "init", "init_wait", "p3_recv"} /\ pc' = "fail"
    BY <1>9 DEF P1Timeout, P3Timeout, RecvTimeout, InitNoCredits, InitNotSent,
                InitTimeout, Fail
  <2> QED BY <1>1, <2>1 DEF StepsLeft
<1> QED BY <1>2, <1>3, <1>4, <1>5, <1>6, <1>7, <1>8, <1>9 DEF Host

(* The target raises it by one pass of phase 1 at most. *)
LEMMA TargetSteps ==
  Target => \/ StepsLeft' = StepsLeft
            \/ pc \in Phase1 /\ landed = NoFrame /\ StepsLeft' = StepsLeft + 2
<1> SUFFICES ASSUME Target
             PROVE  \/ StepsLeft' = StepsLeft
                    \/ pc \in Phase1 /\ landed = NoFrame /\ StepsLeft' = StepsLeft + 2
  OBVIOUS
<1>1. pc' = pc /\ tries' = tries
  BY DEF Target, EmitServiceReady, EmitReady, EmitChatter, Emit, TakeInit, host
<1>2. Pending' = Pending \/ (landed = NoFrame /\ Pending = 0 /\ Pending' = 2)
  BY DEF Target, EmitServiceReady, EmitReady, EmitChatter, Emit, TakeInit, Pending
<1>3. FromInit = 14
  BY DEF FromInit, MaxTries
<1>4. CASE pc \in Phase1
  BY <1>1, <1>2, <1>3, <1>4 DEF StepsLeft, Phase1
<1>5. CASE pc \notin Phase1
  BY <1>1, <1>5 DEF StepsLeft, Phase1, FromInit, MaxTries
<1> QED BY <1>4, <1>5

(* The variant behind HandshakeEnds and Phase3Ends: from WMI_INIT on       *)
(* waitServiceAndReady takes at most 14 more steps whatever the target     *)
(* sends, and before it only frames of the target, two steps each, keep it *)
(* going.                                                                  *)
THEOREM WaitBounded == Spec => []StepsBounded /\ StepsShrink
<1>1. TypeOK => StepsBounded
  BY StepsInRange
<1>2. TypeOK /\ [Next]_vars =>
        [/\ Host => StepsLeft' < StepsLeft
         /\ Target => \/ StepsLeft' = StepsLeft
                      \/ /\ pc \in Phase1 /\ landed = NoFrame
                         /\ StepsLeft' = StepsLeft + 2]_vars
  BY HostSteps, TargetSteps
<1> QED BY <1>1, <1>2, HandshakeTypes, PTL DEF Spec, StepsShrink
=============================================================================

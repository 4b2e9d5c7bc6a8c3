---------------------------- MODULE WmiHandshake ----------------------------
(***************************************************************************)
(* Wmi::waitServiceAndReady (WMI.cpp) over the WMI endpoint of Htc         *)
(* (HTC.cpp): SERVICE_READY, then WMI_INIT under HTC credits, then READY.  *)
(*                                                                         *)
(* The CE3/CE2 pair underneath is the channel CopyPair implements: one     *)
(* posted receive entry, one frame in flight each way, nothing lost or     *)
(* torn.  The target's firmware is external: it announces SERVICE_READY    *)
(* once, answers WMI_INIT with READY, returns credits in the trailer of    *)
(* any later frame, and sends unrelated, credit-only and malformed frames  *)
(* whenever a receive entry is posted.                                     *)
(***************************************************************************)
EXTENDS Naturals

CONSTANTS MaxCredits,    \* bound: credits the target grants in HTC READY
          InitCost       \* ceil(232 / fCreditSize), credits WMI_INIT needs

(* connectService announces fTotalCredits in 8 bits and keeps 16: the two  *)
(* agree up to 255.                                                        *)
ASSUME CreditAssumption == MaxCredits \in 1 .. 255 /\ InitCost \in Nat \ {0}

MaxTries == 5            \* phase 3 loop bound of waitServiceAndReady

VARIABLES
  pc,          \* host: label of waitServiceAndReady
  ev,          \* host: event copied out by recvWmi
  fwKnown,     \* host: fFwBuild != 0 || fAbi[0] != 0
  fWmiCredits, \* host: tx credits of the WMI endpoint
  tries,       \* host: phase 3 counter
  reason,      \* why the wait failed, "none" before
  armed,       \* CE2: a receive entry is posted (rxArmed() == 1)
  landed,      \* CE2: the frame in the rx buffer, NoFrame if none
  cmd,         \* CE3: WMI_INIT is on the ring and not consumed
  svcSent, initGot, rdySent, held,  \* target
  fTotalCredits \* credits the target granted in HTC READY

host   == <<pc, ev, fwKnown, fWmiCredits, tries, reason>>
ring   == <<armed, landed, cmd>>
target == <<svcSent, initGot, rdySent, held, fTotalCredits>>
vars   == <<host, ring, target>>

(* What recvWmi makes of a frame: refused (short, foreign endpoint, bad    *)
(* length or trailer), empty (trailer only), runt (payload under 4 bytes)  *)
(* or an event with an id; wf: its TLVs parse; build: SERVICE_READY names  *)
(* a non-zero firmware build; credits: in its trailer.                     *)
Classes == {"refused", "empty", "runt", "event"}
Ids     == {"SERVICE_READY", "READY", "other"}
Frame   == [cls : Classes, id : Ids, wf : BOOLEAN, build : BOOLEAN,
            credits : {0, InitCost}]
NoFrame == [cls |-> "none", id |-> "other", wf |-> FALSE, build |-> FALSE, credits |-> 0]

Reasons == {"none", "timeout", "refused", "empty", "runt", "parse", "credits", "send", "tries"}
Labels  == {"prearm", "p1_recv", "p1_event", "init", "init_wait", "p3_recv",
            "p3_event", "online", "fail"}

(* The host's position, the posted entry, the rx buffer, the credits and   *)
(* the target's counters keep their types; credits fit their 16 bits.      *)
TypeOK ==
  /\ pc \in Labels /\ ev \in Frame \cup {NoFrame} /\ fwKnown \in BOOLEAN
  /\ fTotalCredits \in 1 .. MaxCredits /\ fWmiCredits \in 0 .. MaxCredits + InitCost
  /\ tries \in 0 .. MaxTries /\ reason \in Reasons
  /\ armed \in BOOLEAN /\ landed \in Frame \cup {NoFrame} /\ cmd \in BOOLEAN
  /\ svcSent \in BOOLEAN /\ initGot \in BOOLEAN /\ rdySent \in BOOLEAN
  /\ held \in {0, InitCost}

(* HTC is connected and set up: connectService gave WMI all tx credits. *)
Init ==
  /\ pc = "prearm" /\ ev = NoFrame /\ fwKnown = FALSE
  /\ fTotalCredits \in 1 .. MaxCredits /\ fWmiCredits = fTotalCredits /\ tries = 0 /\ reason = "none"
  /\ armed = FALSE /\ landed = NoFrame /\ cmd = FALSE
  /\ svcSent = FALSE /\ initGot = FALSE /\ rdySent = FALSE
  /\ held = 0

Fail(why) == pc' = "fail" /\ reason' = why

-----------------------------------------------------------------------------
(* Htc::recvWmi as both wait loops call it: consume the landed frame, take *)
(* the credits of its trailer, copy the payload out.  A result under 4     *)
(* bytes ends the wait.  The entry is not posted again here.               *)
RecvWmi(label, next) ==
  /\ pc = label /\ landed # NoFrame
  /\ armed' = FALSE /\ landed' = NoFrame
  /\ fWmiCredits' = fWmiCredits + (IF landed.cls = "refused" THEN 0 ELSE landed.credits)
  /\ IF landed.cls = "event"
     THEN pc' = next /\ ev' = landed /\ UNCHANGED reason
     ELSE Fail(landed.cls) /\ UNCHANGED ev
  /\ UNCHANGED <<fwKnown, tries, cmd, target>>

(* recvWait ran out of budget: the entry, if posted, stays posted. *)
RecvTimeout(label) ==
  /\ pc = label /\ landed = NoFrame
  /\ Fail("timeout")
  /\ UNCHANGED <<ev, fwKnown, fWmiCredits, tries, ring, target>>

(* wmiArmRecv before SETUP_COMPLETE-driven events can arrive. *)
PreArm ==
  /\ pc = "prearm" /\ pc' = "p1_recv" /\ armed' = TRUE
  /\ UNCHANGED <<ev, fwKnown, fWmiCredits, tries, reason, landed, cmd, target>>

P1Recv    == RecvWmi("p1_recv", "p1_event")

(* Mutant: a silent target is polled again. *)
P1TimeoutRetried == pc = "p1_recv" /\ landed = NoFrame /\ UNCHANGED vars

P1Timeout == RecvTimeout("p1_recv")

(* Mutant: phase 1 without the re-arm. *)
P1EventNoArm ==
  /\ pc = "p1_event"
  /\ fwKnown' = (fwKnown \/ (ev.id = "SERVICE_READY" /\ ev.build))
  /\ pc' = IF fwKnown' THEN "init" ELSE "p1_recv"
  /\ UNCHANGED <<reason, armed, ev, fWmiCredits, tries, landed, cmd, target>>

(* Phase 1 body: re-arm, then SERVICE_READY is parsed and anything else    *)
(* skipped; the loop ends once a build or ABI version is known.  A bad     *)
(* service bitmap is found when the build is stored already.               *)
P1Event ==
  /\ pc = "p1_event" /\ armed' = TRUE
  /\ IF ev.id = "SERVICE_READY" /\ ~ev.wf
     THEN Fail("parse") /\ fwKnown' \in {fwKnown, fwKnown \/ ev.build}
     ELSE /\ fwKnown' = (fwKnown \/ (ev.id = "SERVICE_READY" /\ ev.build))
          /\ pc' = IF fwKnown' THEN "init" ELSE "p1_recv"
          /\ UNCHANGED reason
  /\ UNCHANGED <<ev, fWmiCredits, tries, landed, cmd, target>>

(* Phase 2: sendInit through sendWmi.  Not enough credits, or an engine    *)
(* that fails the pre-wait, ends the wait with nothing sent.               *)
InitNoCredits ==
  /\ pc = "init" /\ fWmiCredits < InitCost /\ Fail("credits")
  /\ UNCHANGED <<ev, fwKnown, fWmiCredits, tries, ring, target>>

InitNotSent ==
  /\ pc = "init" /\ fWmiCredits >= InitCost /\ Fail("send") /\ armed' = TRUE
  /\ UNCHANGED <<ev, fwKnown, fWmiCredits, tries, landed, cmd, target>>

(* Mutant: sent without looking at the credits. *)
InitBellUnchecked ==
  /\ pc = "init" /\ armed' = TRUE /\ cmd' = TRUE /\ pc' = "init_wait"
  /\ UNCHANGED <<ev, fwKnown, fWmiCredits, tries, reason, landed, target>>

(* wmiPostRecvIfIdle, the frame on the ring, the doorbell. *)
InitBell ==
  /\ pc = "init" /\ fWmiCredits >= InitCost
  /\ armed' = TRUE /\ cmd' = TRUE /\ pc' = "init_wait"
  /\ UNCHANGED <<ev, fwKnown, fWmiCredits, tries, reason, landed, target>>

(* The completion wait saw the engine consume it: pay the credits. *)
InitSent ==
  /\ pc = "init_wait" /\ ~cmd
  /\ fWmiCredits' = fWmiCredits - InitCost
  /\ pc' = "p3_recv" /\ tries' = 0
  /\ UNCHANGED <<ev, fwKnown, reason, ring, target>>

(* Mutant: sendWmi pays before it knows whether the frame went out. *)
InitTimeoutPaid ==
  /\ pc = "init_wait" /\ cmd /\ Fail("send")
  /\ fWmiCredits' = fWmiCredits - InitCost
  /\ UNCHANGED <<ev, fwKnown, tries, ring, target>>

(* The completion wait gave up: no credit is paid, the frame stays on the  *)
(* ring and may still reach the target.                                    *)
InitTimeout ==
  /\ pc = "init_wait" /\ cmd /\ Fail("send")
  /\ UNCHANGED <<ev, fwKnown, fWmiCredits, tries, ring, target>>

P3Recv    == RecvWmi("p3_recv", "p3_event")
P3Timeout == RecvTimeout("p3_recv")

(* Mutants: any event taken for READY; a skipped event is not counted. *)
P3EventAnyId ==
  /\ pc = "p3_event" /\ armed' = TRUE /\ pc' = "online"
  /\ UNCHANGED <<reason, ev, fwKnown, fWmiCredits, tries, landed, cmd, target>>
P3EventUncounted ==
  /\ pc = "p3_event" /\ armed' = TRUE
  /\ pc' = IF ev.id = "READY" THEN "online" ELSE "p3_recv"
  /\ UNCHANGED <<reason, ev, fwKnown, fWmiCredits, tries, landed, cmd, target>>

(* Phase 3 body: re-arm, READY is parsed, anything else counts as a try. *)
P3Event ==
  /\ pc = "p3_event" /\ armed' = TRUE
  /\ \/ /\ ev.id = "READY" /\ ev.wf
        /\ pc' = "online" /\ UNCHANGED <<reason, tries>>
     \/ /\ ev.id = "READY" /\ ~ev.wf
        /\ Fail("parse") /\ UNCHANGED tries
     \/ /\ ev.id # "READY" /\ tries + 1 < MaxTries
        /\ tries' = tries + 1 /\ pc' = "p3_recv" /\ UNCHANGED reason
     \/ /\ ev.id # "READY" /\ tries + 1 = MaxTries
        /\ tries' = tries + 1 /\ Fail("tries")
  /\ UNCHANGED <<ev, fwKnown, fWmiCredits, landed, cmd, target>>

Host == \/ PreArm \/ P1Recv \/ P1Timeout \/ P1Event
        \/ InitNoCredits \/ InitNotSent \/ InitBell \/ InitSent \/ InitTimeout
        \/ P3Recv \/ P3Timeout \/ P3Event

-----------------------------------------------------------------------------
(* The target's firmware (external).                                       *)

(* A frame goes out when an entry is posted and the buffer is free; its    *)
(* trailer may return the credits WMI_INIT holds.                          *)
Emit(f) ==
  /\ armed /\ landed = NoFrame
  /\ f.credits \in {0, held} /\ landed' = f /\ held' = held - f.credits
  /\ UNCHANGED <<host, armed, cmd, initGot, fTotalCredits>>

EmitServiceReady(f) ==
  /\ f.cls = "event" /\ f.id = "SERVICE_READY" /\ ~svcSent
  /\ svcSent' = TRUE /\ UNCHANGED rdySent /\ Emit(f)

EmitReady(f) ==
  /\ f.cls = "event" /\ f.id = "READY" /\ initGot /\ ~rdySent
  /\ rdySent' = TRUE /\ UNCHANGED svcSent /\ Emit(f)

EmitChatter(f) ==
  /\ f.id = "other" /\ f.wf /\ ~f.build
  /\ f.cls = "refused" => f.credits = 0
  /\ UNCHANGED <<svcSent, rdySent>> /\ Emit(f)

TakeInit ==
  /\ cmd /\ cmd' = FALSE /\ initGot' = TRUE /\ held' = held + InitCost
  /\ UNCHANGED <<host, armed, landed, svcSent, rdySent, fTotalCredits>>

Target == \/ \E f \in Frame : EmitServiceReady(f) \/ EmitReady(f) \/ EmitChatter(f)
          \/ TakeInit

Next == Host \/ Target

(* The host thread runs until the handshake is over; recvWait and send     *)
(* always return (CopyPair: CallsReturn).  Nothing is assumed of the       *)
(* target.                                                                 *)
Spec == Init /\ [][Next]_vars /\ WF_vars(Host)

-----------------------------------------------------------------------------
(* Properties.                                                             *)

(* The driver calls WMI online only when the whole handshake took place:   *)
(* the target announced SERVICE_READY with a build, then took WMI_INIT,    *)
(* then answered READY, whatever unrelated frames came in between.         *)
OnlineMeansHandshake == pc = "online" => fwKnown /\ svcSent /\ initGot /\ rdySent

(* The credits of a WMI_INIT the target has and sendWmi has not paid for:  *)
(* the completion wait has not seen it yet, or gave up on it for good.     *)
Unpaid == IF initGot /\ (pc = "init_wait" \/ reason = "send") THEN InitCost ELSE 0

(* HTC credit accounting, in every state, failed ones included: what the   *)
(* host believes it may spend, what the target holds and what is on its    *)
(* way back in a trailer add up to the credits granted at connect, and     *)
(* exceed them by one WMI_INIT exactly if the target has it unpaid.  A     *)
(* completion wait that times out on a frame that still arrives leaves     *)
(* that excess behind; no other path loses or makes credits.               *)
CreditsBalanced ==
  fWmiCredits + held + landed.credits = fTotalCredits + Unpaid

(* Every wait of the handshake has a receive entry posted or a frame       *)
(* already landed: the host never sits out a timeout the target could not  *)
(* have prevented (recvWmi does not re-arm, waitServiceAndReady must).     *)
WaitsArmed == pc \in {"p1_recv", "init_wait", "p3_recv"} => armed

(* waitServiceAndReady comes to a verdict when the target goes silent, at  *)
(* any point; only a target that sends unrelated events forever can keep   *)
(* it in phase 1, whose loop has no bound.                                 *)
Flood == []<><<\E f \in Frame : EmitChatter(f)>>_vars
HandshakeEnds == Flood \/ <>(pc \in {"online", "fail"})

(* From WMI_INIT on the verdict comes whatever the target sends: phase 3   *)
(* counts the events it skips.                                             *)
Phase3Ends == pc \in {"init", "init_wait", "p3_recv"} ~> pc \in {"online", "fail"}

(* WMI.cpp: "Skip unrelated events; only a timeout or a parse failure ends *)
(* the wait" of phase 1.  A frame recvWmi refuses as malformed is counted  *)
(* as a parse failure.                                                     *)
Phase1EndsOnTimeoutOrParse ==
  pc = "fail" /\ ~fwKnown => reason \in {"timeout", "parse", "refused", "runt"}
=============================================================================

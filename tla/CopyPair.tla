------------------------------ MODULE CopyPair ------------------------------
(***************************************************************************)
(* One CECopyPair (CE.cpp): a source ring host->target and a destination   *)
(* ring target->host over one shared DMA region, driven by the WMI path    *)
(* (CEManager::wmiArmRecv, wmiPostRecvIfIdle, Htc::sendWmi and             *)
(* Htc::recvWmi).                                                          *)
(*                                                                         *)
(* Three actors run concurrently: the host thread, which only polls (the   *)
(* driver has no interrupts); the source engine, which reads the tx buffer *)
(* by DMA; and the destination engine, which moves its read index, then    *)
(* writes the rx buffer and then the descriptor.  The engines are hardware *)
(* and modelled from what the driver relies on.                            *)
(*                                                                         *)
(* A frame is its number in its direction; a buffer that holds a frame, a  *)
(* descriptor's nbytes for it, and each half of a copy of it, are that     *)
(* number, and 0 is an empty buffer or an nbytes of zero.                  *)
(***************************************************************************)
EXTENDS Naturals, Sequences

CONSTANTS RingN,        \* kRingN, entries of a ring
          PollBudget,   \* polls of one wait loop ("deadline")
          MaxSend,      \* bound: frames sent to the target
          MaxEvents     \* bound: frames the target sends

ASSUME RingAssumption   == RingN \in Nat /\ RingN >= 2
ASSUME BudgetAssumption == PollBudget \in Nat /\ PollBudget >= 1
ASSUME BoundAssumption  == MaxSend \in Nat /\ MaxEvents \in Nat

VARIABLES
  pc, ret, polls,                   \* host thread: label, label after a post, loop counter
  fSrcWrite, sendResult, nsent,     \* source ring, host side; frames doorbelled
  fTxCpu, fSrcDesc, hwSrcWr,        \* tx buffer, descriptors' nbytes, SR_WR_INDEX
  SRRI, srcEng, fetched, delivered, \* source engine and what the target got
  fDstWrite, fDstSw, fRxNbytes,     \* destination ring, host side
  buf, got,                         \* first half copied out; frames copied out
  fDstDesc, hwDstWr,                \* descriptors' nbytes, DST_WR_INDEX
  fRxCpu, DRRI, landIdx, dstEng,    \* rx buffer, destination engine
  nemit, nland                      \* frames begun, frames whose descriptor landed

ctl   == <<pc, ret, polls>>
txSw  == <<fSrcWrite, sendResult, nsent>>
txMem == <<fTxCpu, fSrcDesc, hwSrcWr>>
txEng == <<SRRI, srcEng, fetched, delivered>>
rxSw  == <<fDstWrite, fDstSw, fRxNbytes, buf, got>>
rxMem == <<fDstDesc, hwDstWr>>
rxEng == <<fRxCpu, DRRI, landIdx, dstEng, nemit, nland>>
vars  == <<ctl, txSw, txMem, txEng, rxSw, rxMem, rxEng>>

Idx == 0 .. RingN - 1
Labels == {"idle", "post_desc", "post_bell", "tx_prewait", "tx_copy", "tx_desc",
           "tx_bell", "tx_wait", "rx_poll", "rx_desc", "rx_copy_lo", "rx_copy_hi"}
Copy(max) == [nbytes : 0 .. max, lo : 0 .. max, hi : 0 .. max]
Results == {"none", "pending", "ok", "refused", "busy", "timeout"}

(* Mutant: the mask is forgotten. *)
RingNextNoMask(i) == i + 1

(* (i + 1) & kRingMask *)
RingNext(i) == IF i + 1 = RingN THEN 0 ELSE i + 1

(* (fDstWrite - fDstSw) & kRingMask *)
rxArmed == IF fDstWrite >= fDstSw THEN fDstWrite - fDstSw
                                  ELSE (fDstWrite + RingN) - fDstSw

TypeHost ==
  /\ pc \in Labels /\ ret \in {"idle", "tx_prewait"} /\ polls \in 0 .. PollBudget

TypeTx ==
  /\ fSrcWrite \in Idx /\ sendResult \in Results /\ nsent \in 0 .. MaxSend
  /\ fTxCpu \in 0 .. MaxSend /\ fSrcDesc \in [Idx -> 0 .. MaxSend] /\ hwSrcWr \in Idx
  /\ SRRI \in Idx /\ srcEng \in {"idle", "fetching"}
  /\ fetched \in [nbytes : 0 .. MaxSend, lo : 0 .. MaxSend]
  /\ delivered \in Seq(Copy(MaxSend))

TypeRx ==
  /\ fDstWrite \in Idx /\ fDstSw \in Idx /\ fRxNbytes \in 0 .. MaxEvents
  /\ buf \in 0 .. MaxEvents /\ got \in Seq(Copy(MaxEvents))
  /\ fDstDesc \in [Idx -> 0 .. MaxEvents] /\ hwDstWr \in Idx
  /\ fRxCpu \in 0 .. MaxEvents /\ DRRI \in Idx /\ landIdx \in Idx
  /\ dstEng \in {"payload", "desc"}
  /\ nemit \in 0 .. MaxEvents /\ nland \in 0 .. MaxEvents

(* The host thread's labels and counters, the ring indices, the buffers    *)
(* and the frames copied keep their types; an index never leaves its ring. *)
TypeOK == TypeHost /\ TypeTx /\ TypeRx

(* CECopyPair::init after a CE reset: zeroed region, zeroed indices, rings *)
(* programmed, both engines alive and at index 0.                          *)
Init ==
  /\ pc = "idle" /\ ret = "idle" /\ polls = 0
  /\ fSrcWrite = 0 /\ sendResult = "none" /\ nsent = 0
  /\ fTxCpu = 0 /\ fSrcDesc = [i \in Idx |-> 0] /\ hwSrcWr = 0
  /\ SRRI = 0 /\ srcEng = "idle" /\ fetched = [nbytes |-> 0, lo |-> 0]
  /\ delivered = <<>>
  /\ fDstWrite = 0 /\ fDstSw = 0 /\ fRxNbytes = 0 /\ buf = 0 /\ got = <<>>
  /\ fDstDesc = [i \in Idx |-> 0] /\ hwDstWr = 0
  /\ fRxCpu = 0 /\ DRRI = 0 /\ landIdx = 0 /\ dstEng = "payload"
  /\ nemit = 0 /\ nland = 0

Goto(from, to) == pc = from /\ pc' = to /\ UNCHANGED <<ret, polls>>

-----------------------------------------------------------------------------
(* The host thread: the calls of the WMI path.                             *)

(* Mutant: arm without looking at rxArmed. *)
WmiArmRecvAlways ==
  /\ pc = "idle"
  /\ pc' = "post_desc" /\ ret' = "idle" /\ polls' = 0
  /\ UNCHANGED <<txSw, txMem, txEng, rxSw, rxMem, rxEng>>

(* wmiArmRecv: post a receive only when none is in flight. *)
WmiArmRecv ==
  /\ pc = "idle" /\ rxArmed = 0
  /\ pc' = "post_desc" /\ ret' = "idle" /\ polls' = 0
  /\ UNCHANGED <<txSw, txMem, txEng, rxSw, rxMem, rxEng>>

(* sendWmi: wmiPostRecvIfIdle, then CECopyPair::send. *)
SendCall ==
  /\ pc = "idle" /\ nsent < MaxSend
  /\ pc' = IF rxArmed # 0 THEN "tx_prewait" ELSE "post_desc"
  /\ ret' = "tx_prewait" /\ polls' = 0
  /\ sendResult' = "pending"
  /\ UNCHANGED <<fSrcWrite, nsent, txMem, txEng, rxSw, rxMem, rxEng>>

(* send with a length of zero or beyond the tx buffer: refused untouched. *)
SendBadLen ==
  /\ pc = "idle" /\ sendResult' = "refused"
  /\ UNCHANGED <<ctl, fSrcWrite, nsent, txMem, txEng, rxSw, rxMem, rxEng>>

(* postRecv: the descriptor, then the index and the doorbell. *)
PostDesc ==
  /\ Goto("post_desc", "post_bell")
  /\ fDstDesc' = [fDstDesc EXCEPT ![fDstWrite] = 0]
  /\ UNCHANGED <<txSw, txMem, txEng, rxSw, hwDstWr, rxEng>>

PostBell ==
  /\ Goto("post_bell", ret)
  /\ fDstWrite' = RingNext(fDstWrite) /\ hwDstWr' = fDstWrite'
  /\ UNCHANGED <<txSw, txMem, txEng, fDstSw, fRxNbytes, buf, got, fDstDesc, rxEng>>

(* send's two polling loops on SRRI: one read, then PollBudget more. *)
SendPoll(label, next, failure) ==
  /\ pc = label
  /\ \/ SRRI = fSrcWrite /\ pc' = next /\ polls' = 0
        /\ sendResult' = IF next = "idle" THEN "ok" ELSE sendResult
     \/ SRRI # fSrcWrite /\ polls < PollBudget /\ pc' = label /\ polls' = polls + 1
        /\ UNCHANGED sendResult
     \/ SRRI # fSrcWrite /\ polls = PollBudget /\ pc' = "idle" /\ polls' = 0
        /\ sendResult' = failure
  /\ UNCHANGED <<ret, fSrcWrite, nsent, txMem, txEng, rxSw, rxMem, rxEng>>

(* Mutants: no pre-wait; a completion timeout reported as success. *)
PreWaitSkipped ==
  /\ Goto("tx_prewait", "tx_copy")
  /\ UNCHANGED <<txSw, txMem, txEng, rxSw, rxMem, rxEng>>
CompletionIgnored == SendPoll("tx_wait", "idle", "ok")

PreWait    == SendPoll("tx_prewait", "tx_copy", "busy")
Completion == SendPoll("tx_wait", "idle", "timeout")

TxCopy ==
  /\ Goto("tx_copy", "tx_desc")
  /\ fTxCpu' = nsent + 1
  /\ UNCHANGED <<txSw, fSrcDesc, hwSrcWr, txEng, rxSw, rxMem, rxEng>>

TxDesc ==
  /\ Goto("tx_desc", "tx_bell")
  /\ fSrcDesc' = [fSrcDesc EXCEPT ![fSrcWrite] = nsent + 1]
  /\ UNCHANGED <<txSw, fTxCpu, hwSrcWr, txEng, rxSw, rxMem, rxEng>>

(* Mutant: the index advances, the doorbell register is not written. *)
TxBellForgotten ==
  /\ Goto("tx_bell", "tx_wait")
  /\ fSrcWrite' = RingNext(fSrcWrite) /\ nsent' = nsent + 1
  /\ UNCHANGED <<sendResult, txMem, txEng, rxSw, rxMem, rxEng>>

TxBell ==
  /\ Goto("tx_bell", "tx_wait")
  /\ fSrcWrite' = RingNext(fSrcWrite) /\ hwSrcWr' = fSrcWrite'
  /\ nsent' = nsent + 1
  /\ UNCHANGED <<sendResult, fTxCpu, fSrcDesc, txEng, rxSw, rxMem, rxEng>>

(* recvWait: poll DRRI against the oldest unconsumed entry. *)
RecvCall ==
  /\ pc = "idle" /\ pc' = "rx_poll" /\ polls' = 0
  /\ UNCHANGED <<ret, txSw, txMem, txEng, rxSw, rxMem, rxEng>>

RecvPoll ==
  /\ pc = "rx_poll"
  /\ \/ polls < PollBudget /\ DRRI # fDstSw /\ pc' = "rx_desc" /\ UNCHANGED polls
     \/ polls < PollBudget /\ DRRI = fDstSw /\ pc' = "rx_poll" /\ polls' = polls + 1
     \/ polls = PollBudget /\ pc' = "idle" /\ polls' = 0
  /\ UNCHANGED <<ret, txSw, txMem, txEng, rxSw, rxMem, rxEng>>

(* Mutants: a race-guard poll that costs no budget; no race guard at all. *)
RecvNotLandedFree ==
  /\ pc = "rx_desc" /\ fDstDesc[fDstSw] = 0 /\ pc' = "rx_poll"
  /\ UNCHANGED <<ret, polls, txSw, txMem, txEng, rxSw, rxMem, rxEng>>
RecvConsumeAny ==
  /\ pc = "rx_desc" /\ pc' = "rx_copy_lo" /\ polls' = 0
  /\ fRxNbytes' = fDstDesc[fDstSw]
  /\ fDstSw' = RingNext(fDstSw)
  /\ UNCHANGED <<ret, txSw, txMem, txEng, fDstWrite, buf, got, rxMem, rxEng>>

(* The race guard: DRRI moved, nbytes still 0, so nothing is consumed and  *)
(* the poll counts against the budget.                                     *)
RecvNotLanded ==
  /\ pc = "rx_desc" /\ fDstDesc[fDstSw] = 0
  /\ pc' = "rx_poll" /\ polls' = polls + 1
  /\ UNCHANGED <<ret, txSw, txMem, txEng, rxSw, rxMem, rxEng>>

RecvConsume ==
  /\ pc = "rx_desc" /\ fDstDesc[fDstSw] # 0
  /\ pc' = "rx_copy_lo" /\ polls' = 0
  /\ fRxNbytes' = fDstDesc[fDstSw]
  /\ fDstSw' = RingNext(fDstSw)
  /\ UNCHANGED <<ret, txSw, txMem, txEng, fDstWrite, buf, got, rxMem, rxEng>>

(* recvWmi reads the header and copies the payload out of the shared       *)
(* buffer byte by byte: here one half, then the other.                     *)
CopyLo ==
  /\ Goto("rx_copy_lo", "rx_copy_hi")
  /\ buf' = fRxCpu
  /\ UNCHANGED <<txSw, txMem, txEng, fDstWrite, fDstSw, fRxNbytes, got, rxMem, rxEng>>

CopyHi ==
  /\ Goto("rx_copy_hi", "idle")
  /\ got' = Append(got, [nbytes |-> fRxNbytes, lo |-> buf, hi |-> fRxCpu])
  /\ UNCHANGED <<txSw, txMem, txEng, fDstWrite, fDstSw, fRxNbytes, buf, rxMem, rxEng>>

Call == WmiArmRecv \/ SendCall \/ SendBadLen \/ RecvCall
Step == \/ PostDesc \/ PostBell \/ PreWait \/ TxCopy \/ TxDesc \/ TxBell \/ Completion
        \/ RecvPoll \/ RecvNotLanded \/ RecvConsume \/ CopyLo \/ CopyHi

-----------------------------------------------------------------------------
(* The engines (hardware).                                                 *)

(* Fetch the descriptor at SRRI and the first half of the buffer. *)
EngFetch ==
  /\ srcEng = "idle" /\ SRRI # hwSrcWr
  /\ srcEng' = "fetching"
  /\ fetched' = [nbytes |-> fSrcDesc[SRRI], lo |-> fTxCpu]
  /\ UNCHANGED <<ctl, txSw, txMem, SRRI, delivered, rxSw, rxMem, rxEng>>

(* Fetch the second half, hand the frame to the target, move SRRI. *)
EngDeliver ==
  /\ srcEng = "fetching"
  /\ srcEng' = "idle"
  /\ delivered' = Append(delivered,
                         [nbytes |-> fetched.nbytes, lo |-> fetched.lo, hi |-> fTxCpu])
  /\ SRRI' = RingNext(SRRI)
  /\ UNCHANGED <<ctl, txSw, txMem, fetched, rxSw, rxMem, rxEng>>

(* The target has a frame and an entry is posted: DRRI moves first. *)
EngAccept ==
  /\ DRRI # hwDstWr /\ nemit < MaxEvents
  /\ DRRI' = RingNext(DRRI) /\ nemit' = nemit + 1
  /\ UNCHANGED <<ctl, txSw, txMem, txEng, rxSw, rxMem, fRxCpu, landIdx, dstEng, nland>>

(* The payload of the oldest accepted frame lands, then its descriptor. *)
EngPayload ==
  /\ dstEng = "payload" /\ nland < nemit
  /\ dstEng' = "desc" /\ fRxCpu' = nland + 1
  /\ UNCHANGED <<ctl, txSw, txMem, txEng, rxSw, rxMem, DRRI, landIdx, nemit, nland>>

EngDesc ==
  /\ dstEng = "desc"
  /\ fDstDesc' = [fDstDesc EXCEPT ![landIdx] = nland + 1]
  /\ dstEng' = "payload" /\ landIdx' = RingNext(landIdx) /\ nland' = nland + 1
  /\ UNCHANGED <<ctl, txSw, txMem, txEng, rxSw, hwDstWr, fRxCpu, DRRI, nemit>>

Engine == EngFetch \/ EngDeliver \/ EngAccept \/ EngPayload \/ EngDesc

Next == Call \/ Step \/ Engine

(* A started call keeps running: the host thread is never parked by the    *)
(* driver.  Nothing is assumed of the callers or of the engines.           *)
Spec == Init /\ [][Next]_vars /\ WF_vars(Step)

-----------------------------------------------------------------------------
(* Properties.                                                             *)


(* CECopyPair::send returning true means the target has every frame the    *)
(* host ever doorbelled, this one included; the completion poll compares   *)
(* two indices modulo the ring size and could be fooled by a wrap.         *)
SendOkMeansDelivered == sendResult = "ok" => Len(delivered) = nsent

(* Until the engine has consumed a doorbelled frame, no step changes the   *)
(* tx buffer or the descriptor it is described by, also when the           *)
(* completion wait timed out and the caller sends again (the pre-wait of   *)
(* CECopyPair::send is what protects it).                                  *)
TxHeldUntilConsumed ==
  [][nsent > Len(delivered) => /\ fTxCpu' = fTxCpu
                               /\ fSrcDesc'[SRRI] = fSrcDesc[SRRI]]_vars

(* While recvWmi reads the single shared rx buffer, the destination engine *)
(* has no posted entry and no write under way (CE.hpp: a second post       *)
(* "would let the engine DMA both entries into the same address").         *)
RxQuietWhileRead ==
  pc \in {"rx_copy_lo", "rx_copy_hi"} => DRRI = hwDstWr /\ nland = nemit

(* Frames of one direction begun and not done, each whole. *)
InFlight(done, begun) ==
  [i \in 1 .. (begun - done) |->
     [nbytes |-> done + i, lo |-> done + i, hi |-> done + i]]

(* What the WMI path gets from its two rings is the abstract channel:      *)
(* frames whole, once and in order, at most one in flight per direction,   *)
(* through timeouts of send and of recvWait and the DRRI race.             *)
Channel == INSTANCE FrameChannel WITH
  toTarget <- InFlight(Len(delivered), nsent),
  atTarget <- delivered,
  toHost   <- InFlight(Len(got), nemit),
  atHost   <- got
ImplementsChannel == Channel!Spec

(* send, postRecv and recvWait always return, whatever the engines do: a   *)
(* dead engine costs the poll budget, never a hang (the nbytes == 0 guard  *)
(* of recvWait counts against the same budget).                            *)
CallsReturn == pc # "idle" ~> pc = "idle"

(* A frame whose doorbell was rung reaches the target even when send gave  *)
(* up waiting for it, provided the source engine keeps running.            *)
SourceEngineRuns == WF_vars(EngFetch) /\ WF_vars(EngDeliver)
SentIsDelivered ==
  SourceEngineRuns => \A n \in 1 .. MaxSend : nsent >= n ~> Len(delivered) >= n
=============================================================================

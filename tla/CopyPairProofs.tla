--------------------------- MODULE CopyPairProofs ---------------------------
(***************************************************************************)
(* Proofs about CopyPair for every ring size, poll budget and number of    *)
(* frames.                                                                 *)
(***************************************************************************)
EXTENDS CopyPair, TLAPS

Whole(n) == [nbytes |-> n, lo |-> n, hi |-> n]
Copying  == {"rx_copy_lo", "rx_copy_hi"}
Posting  == {"post_desc", "post_bell"}
Filling  == {"tx_copy", "tx_desc", "tx_bell"}

(* The source ring: everything consumed, or exactly one frame in flight    *)
(* that the buffer and the descriptor at SRRI still describe.              *)
TxFree == nsent = Len(delivered) /\ SRRI = fSrcWrite /\ srcEng = "idle"

TxBusy ==
  /\ nsent = Len(delivered) + 1 /\ RingNext(SRRI) = fSrcWrite
  /\ fTxCpu = nsent /\ fSrcDesc[SRRI] = nsent
  /\ srcEng = "fetching" => fetched = [nbytes |-> nsent, lo |-> nsent]
  /\ pc \notin Filling

TxInv ==
  /\ hwSrcWr = fSrcWrite
  /\ \A i \in 1 .. Len(delivered) : delivered[i] = Whole(i)
  /\ TxFree \/ TxBusy
  /\ pc \in {"tx_prewait"} \cup Filling => nsent < MaxSend /\ sendResult = "pending"
  /\ pc \in Posting /\ ret = "tx_prewait" => nsent < MaxSend /\ sendResult = "pending"
  /\ pc = "tx_wait" => sendResult = "pending"
  /\ pc \in {"tx_desc", "tx_bell"} => fTxCpu = nsent + 1
  /\ pc = "tx_bell" => fSrcDesc[fSrcWrite] = nsent + 1
  /\ sendResult = "ok" => nsent = Len(delivered)

(* The destination ring: nothing posted; posted and untouched; accepted    *)
(* and landing; or landed and waiting for recvWait.                        *)
RxNone ==
  /\ fDstWrite = fDstSw /\ DRRI = fDstSw /\ landIdx = fDstSw
  /\ dstEng = "payload" /\ nland = nemit
  /\ IF pc \in Copying THEN nemit = Len(got) + 1 ELSE nemit = Len(got)

RxPosted ==
  /\ fDstWrite = RingNext(fDstSw) /\ DRRI = fDstSw /\ landIdx = fDstSw
  /\ dstEng = "payload" /\ nland = nemit /\ nemit = Len(got)
  /\ fDstDesc[fDstSw] = 0 /\ pc \notin Copying \cup Posting

RxLanding ==
  /\ fDstWrite = RingNext(fDstSw) /\ DRRI = fDstWrite /\ landIdx = fDstSw
  /\ nemit = Len(got) + 1 /\ nland = Len(got)
  /\ fDstDesc[fDstSw] = 0 /\ pc \notin Copying \cup Posting
  /\ dstEng = "desc" => fRxCpu = nemit

RxLanded ==
  /\ fDstWrite = RingNext(fDstSw) /\ DRRI = fDstWrite /\ landIdx = fDstWrite
  /\ dstEng = "payload" /\ nland = nemit /\ nemit = Len(got) + 1
  /\ fDstDesc[fDstSw] = nemit /\ fRxCpu = nemit /\ pc \notin Copying \cup Posting

RxInv ==
  /\ hwDstWr = fDstWrite
  /\ \A i \in 1 .. Len(got) : got[i] = Whole(i)
  /\ RxNone \/ RxPosted \/ RxLanding \/ RxLanded
  /\ pc = "post_bell" => fDstDesc[fDstWrite] = 0
  /\ pc \in Copying => fRxNbytes = nemit /\ fRxCpu = nemit
  /\ pc = "rx_copy_hi" => buf = nemit
  /\ pc = "rx_desc" => polls < PollBudget /\ DRRI # fDstSw

IInv == TypeOK /\ TxInv /\ RxInv

-----------------------------------------------------------------------------
(* The ring's successor, (i + 1) & kRingMask, stays on the ring and never  *)
(* maps an index to itself: an index comparison tells 0 from 1 in flight.  *)
LEMMA RingNextFacts ==
  ASSUME NEW i \in Idx
  PROVE  RingNext(i) \in Idx /\ RingNext(i) # i
BY RingAssumption DEF RingNext, Idx

(* rxArmed() is zero exactly when the two indices meet. *)
LEMMA RxArmedFacts ==
  ASSUME TypeOK
  PROVE  rxArmed = 0 <=> fDstWrite = fDstSw
BY RingAssumption DEF TypeOK, TypeRx, Idx, rxArmed

(* A log that grows by its next whole frame stays whole, once and in order. *)
LEMMA AppendWhole ==
  ASSUME NEW S, NEW s \in Seq(S), \A i \in 1 .. Len(s) : s[i] = Whole(i),
         NEW t, t = Append(s, Whole(Len(s) + 1))
  PROVE  Len(t) = Len(s) + 1 /\ \A i \in 1 .. Len(t) : t[i] = Whole(i)
<1>1. Len(t) = Len(s) + 1
  OBVIOUS
<1>2. ASSUME NEW i \in 1 .. Len(t) PROVE t[i] = Whole(i)
  <2>1. CASE i = Len(s) + 1
    BY <2>1
  <2>2. CASE i \in 1 .. Len(s)
    BY <2>2
  <2> QED
    BY <1>1, <2>1, <2>2
<1> QED
  BY <1>1, <1>2

(* CECopyPair::init establishes the invariant. *)
LEMMA InitIInv == Init => IInv
<1> SUFFICES ASSUME Init PROVE IInv
  OBVIOUS
<1> USE DEF Init, Idx
<1>1. TypeOK
    BY RingAssumption, BudgetAssumption, BoundAssumption
    DEF TypeOK, TypeHost, TypeTx, TypeRx, Labels, Results
<1>2. TxInv
  BY DEF TxInv, TxFree, Filling, Posting
<1>3. RxInv
  BY DEF RxInv, RxNone, Copying
<1> QED
  BY <1>1, <1>2, <1>3 DEF IInv

(* Every step keeps the types: no index leaves its ring. *)
LEMMA TypeStep == IInv /\ [Next]_vars => TypeOK'
<1> SUFFICES ASSUME IInv, [Next]_vars PROVE TypeOK'
  OBVIOUS
<1>a. TypeHost /\ TypeTx /\ TypeRx
  BY DEF IInv, TypeOK
<1>b. /\ pc = "rx_desc" => polls < PollBudget
      /\ pc \in Filling => nsent < MaxSend
  BY DEF IInv, TxInv, RxInv
<1>c. nland < nemit \/ dstEng = "payload"
  BY DEF IInv, TypeOK, TypeRx, RxInv, RxNone, RxPosted, RxLanding, RxLanded
<1> USE <1>a, <1>b, <1>c, RingAssumption, BudgetAssumption, BoundAssumption, RingNextFacts
<1> USE DEF ctl, txSw, txMem, txEng, rxSw, rxMem, rxEng, Goto, Filling
<1>1. CASE WmiArmRecv
  <2>1. TypeHost'
    BY <1>1 DEF TypeHost, Labels, WmiArmRecv
  <2>2. TypeTx'
    BY <1>1 DEF TypeTx, Results, WmiArmRecv
  <2>3. TypeRx'
    BY <1>1 DEF TypeRx, WmiArmRecv
  <2> QED
    BY <2>1, <2>2, <2>3 DEF TypeOK
<1>2. CASE SendCall
  <2>1. TypeHost'
    BY <1>2 DEF TypeHost, Labels, SendCall
  <2>2. TypeTx'
    BY <1>2 DEF TypeTx, Results, SendCall
  <2>3. TypeRx'
    BY <1>2 DEF TypeRx, SendCall
  <2> QED
    BY <2>1, <2>2, <2>3 DEF TypeOK
<1>3. CASE SendBadLen
  <2>1. TypeHost'
    BY <1>3 DEF TypeHost, Labels, SendBadLen
  <2>2. TypeTx'
    BY <1>3 DEF TypeTx, Results, SendBadLen
  <2>3. TypeRx'
    BY <1>3 DEF TypeRx, SendBadLen
  <2> QED
    BY <2>1, <2>2, <2>3 DEF TypeOK
<1>4. CASE RecvCall
  <2>1. TypeHost'
    BY <1>4 DEF TypeHost, Labels, RecvCall
  <2>2. TypeTx'
    BY <1>4 DEF TypeTx, Results, RecvCall
  <2>3. TypeRx'
    BY <1>4 DEF TypeRx, RecvCall
  <2> QED
    BY <2>1, <2>2, <2>3 DEF TypeOK
<1>5. CASE PostDesc
  <2>1. TypeHost'
    BY <1>5 DEF TypeHost, Labels, PostDesc
  <2>2. TypeTx'
    BY <1>5 DEF TypeTx, Results, PostDesc
  <2>3. TypeRx'
    BY <1>5 DEF TypeRx, PostDesc
  <2> QED
    BY <2>1, <2>2, <2>3 DEF TypeOK
<1>6. CASE PostBell
  <2>1. TypeHost'
    BY <1>6 DEF TypeHost, Labels, PostBell
  <2>2. TypeTx'
    BY <1>6 DEF TypeTx, Results, PostBell
  <2>3. TypeRx'
    BY <1>6 DEF TypeRx, PostBell
  <2> QED
    BY <2>1, <2>2, <2>3 DEF TypeOK
<1>7. CASE PreWait
  <2>1. TypeHost'
    BY <1>7 DEF TypeHost, Labels, PreWait, SendPoll
  <2>2. TypeTx'
    BY <1>7 DEF TypeTx, Results, PreWait, SendPoll
  <2>3. TypeRx'
    BY <1>7 DEF TypeRx, PreWait, SendPoll
  <2> QED
    BY <2>1, <2>2, <2>3 DEF TypeOK
<1>8. CASE TxCopy
  <2>1. TypeHost'
    BY <1>8 DEF TypeHost, Labels, TxCopy
  <2>2. TypeTx'
    BY <1>8 DEF TypeTx, Results, TxCopy
  <2>3. TypeRx'
    BY <1>8 DEF TypeRx, TxCopy
  <2> QED
    BY <2>1, <2>2, <2>3 DEF TypeOK
<1>9. CASE TxDesc
  <2>1. TypeHost'
    BY <1>9 DEF TypeHost, Labels, TxDesc
  <2>2. TypeTx'
    BY <1>9 DEF TypeTx, Results, TxDesc
  <2>3. TypeRx'
    BY <1>9 DEF TypeRx, TxDesc
  <2> QED
    BY <2>1, <2>2, <2>3 DEF TypeOK
<1>10. CASE TxBell
  <2>1. TypeHost'
    BY <1>10 DEF TypeHost, Labels, TxBell
  <2>2. TypeTx'
    BY <1>10 DEF TypeTx, Results, TxBell
  <2>3. TypeRx'
    BY <1>10 DEF TypeRx, TxBell
  <2> QED
    BY <2>1, <2>2, <2>3 DEF TypeOK
<1>11. CASE Completion
  <2>1. TypeHost'
    BY <1>11 DEF TypeHost, Labels, Completion, SendPoll
  <2>2. TypeTx'
    BY <1>11 DEF TypeTx, Results, Completion, SendPoll
  <2>3. TypeRx'
    BY <1>11 DEF TypeRx, Completion, SendPoll
  <2> QED
    BY <2>1, <2>2, <2>3 DEF TypeOK
<1>12. CASE RecvPoll
  <2>1. TypeHost'
    BY <1>12 DEF TypeHost, Labels, RecvPoll
  <2>2. TypeTx'
    BY <1>12 DEF TypeTx, Results, RecvPoll
  <2>3. TypeRx'
    BY <1>12 DEF TypeRx, RecvPoll
  <2> QED
    BY <2>1, <2>2, <2>3 DEF TypeOK
<1>13. CASE RecvNotLanded
  <2>1. TypeHost'
    BY <1>13 DEF TypeHost, Labels, RecvNotLanded
  <2>2. TypeTx'
    BY <1>13 DEF TypeTx, Results, RecvNotLanded
  <2>3. TypeRx'
    BY <1>13 DEF TypeRx, RecvNotLanded
  <2> QED
    BY <2>1, <2>2, <2>3 DEF TypeOK
<1>14. CASE RecvConsume
  <2>1. TypeHost'
    BY <1>14 DEF TypeHost, Labels, RecvConsume
  <2>2. TypeTx'
    BY <1>14 DEF TypeTx, Results, RecvConsume
  <2>3. TypeRx'
    BY <1>14 DEF TypeRx, RecvConsume
  <2> QED
    BY <2>1, <2>2, <2>3 DEF TypeOK
<1>15. CASE CopyLo
  <2>1. TypeHost'
    BY <1>15 DEF TypeHost, Labels, CopyLo
  <2>2. TypeTx'
    BY <1>15 DEF TypeTx, Results, CopyLo
  <2>3. TypeRx'
    BY <1>15 DEF TypeRx, CopyLo
  <2> QED
    BY <2>1, <2>2, <2>3 DEF TypeOK
<1>16. CASE CopyHi
  <2>1. TypeHost'
    BY <1>16 DEF TypeHost, Labels, CopyHi
  <2>2. TypeTx'
    BY <1>16 DEF TypeTx, Results, CopyHi
  <2>3. TypeRx'
    BY <1>16 DEF TypeRx, CopyHi, Copy
  <2> QED
    BY <2>1, <2>2, <2>3 DEF TypeOK
<1>17. CASE EngFetch
  <2>1. TypeHost'
    BY <1>17 DEF TypeHost, Labels, EngFetch
  <2>2. TypeTx'
    BY <1>17 DEF TypeTx, Results, EngFetch
  <2>3. TypeRx'
    BY <1>17 DEF TypeRx, EngFetch
  <2> QED
    BY <2>1, <2>2, <2>3 DEF TypeOK
<1>18. CASE EngDeliver
  <2>1. TypeHost'
    BY <1>18 DEF TypeHost, Labels, EngDeliver
  <2>2. TypeTx'
    BY <1>18 DEF TypeTx, Results, EngDeliver, Copy
  <2>3. TypeRx'
    BY <1>18 DEF TypeRx, EngDeliver
  <2> QED
    BY <2>1, <2>2, <2>3 DEF TypeOK
<1>19. CASE EngAccept
  <2>1. TypeHost'
    BY <1>19 DEF TypeHost, Labels, EngAccept
  <2>2. TypeTx'
    BY <1>19 DEF TypeTx, Results, EngAccept
  <2>3. TypeRx'
    BY <1>19 DEF TypeRx, EngAccept
  <2> QED
    BY <2>1, <2>2, <2>3 DEF TypeOK
<1>20. CASE EngPayload
  <2>1. TypeHost'
    BY <1>20 DEF TypeHost, Labels, EngPayload
  <2>2. TypeTx'
    BY <1>20 DEF TypeTx, Results, EngPayload
  <2>3. TypeRx'
    BY <1>20 DEF TypeRx, EngPayload
  <2> QED
    BY <2>1, <2>2, <2>3 DEF TypeOK
<1>21. CASE EngDesc
  <2>1. TypeHost'
    BY <1>21 DEF TypeHost, Labels, EngDesc
  <2>2. TypeTx'
    BY <1>21 DEF TypeTx, Results, EngDesc
  <2>3. TypeRx'
    BY <1>21 DEF TypeRx, EngDesc
  <2> QED
    BY <2>1, <2>2, <2>3 DEF TypeOK
<1>22. CASE UNCHANGED vars
  <2>1. TypeHost'
    BY <1>22 DEF TypeHost, Labels, vars
  <2>2. TypeTx'
    BY <1>22 DEF TypeTx, Results, vars
  <2>3. TypeRx'
    BY <1>22 DEF TypeRx, vars
  <2> QED
    BY <2>1, <2>2, <2>3 DEF TypeOK
<1> QED
    BY <1>1, <1>2, <1>3, <1>4, <1>5, <1>6, <1>7, <1>8, <1>9, <1>10, <1>11, <1>12, <1>13,
       <1>14, <1>15, <1>16, <1>17, <1>18, <1>19, <1>20, <1>21, <1>22
    DEF Next, Call, Step, Engine

(* Every step keeps the source-ring invariant. *)
LEMMA TxStep == IInv /\ [Next]_vars => TxInv'
<1> SUFFICES ASSUME IInv, [Next]_vars PROVE TxInv'
  OBVIOUS
<1> USE RingAssumption, BudgetAssumption, BoundAssumption, RingNextFacts
<1> USE DEF IInv, TypeOK, TypeHost, TypeTx, ctl, txSw, txMem, txEng, rxSw, rxMem, rxEng, Goto, TxInv, TxFree, TxBusy, Filling, Posting, Whole
<1>1. CASE WmiArmRecv
  BY <1>1 DEF WmiArmRecv
<1>2. CASE SendCall
  BY <1>2 DEF SendCall
<1>3. CASE SendBadLen
  BY <1>3 DEF SendBadLen
<1>4. CASE RecvCall
  BY <1>4 DEF RecvCall
<1>5. CASE PostDesc
  BY <1>5 DEF PostDesc
<1>6. CASE PostBell
  BY <1>6 DEF PostBell
<1>7. CASE PreWait
  BY <1>7 DEF PreWait, SendPoll
<1>8. CASE TxCopy
  BY <1>8 DEF TxCopy
<1>9. CASE TxDesc
  BY <1>9 DEF TxDesc
<1>10. CASE TxBell
  BY <1>10 DEF TxBell
<1>11. CASE Completion
  BY <1>11 DEF Completion, SendPoll
<1>12. CASE RecvPoll
  BY <1>12 DEF RecvPoll
<1>13. CASE RecvNotLanded
  BY <1>13 DEF RecvNotLanded
<1>14. CASE RecvConsume
  BY <1>14 DEF RecvConsume
<1>15. CASE CopyLo
  BY <1>15 DEF CopyLo
<1>16. CASE CopyHi
  BY <1>16 DEF CopyHi
<1>17. CASE EngFetch
  BY <1>17 DEF EngFetch
<1>18. CASE EngDeliver
  <2>1. TxBusy /\ nsent = Len(delivered) + 1
    BY <1>18 DEF EngDeliver
  <2>2. delivered' = Append(delivered, Whole(Len(delivered) + 1))
    BY <1>18, <2>1 DEF EngDeliver
  <2>3. /\ Len(delivered') = Len(delivered) + 1
        /\ \A i \in 1 .. Len(delivered') : delivered'[i] = Whole(i)
    BY <2>2, AppendWhole
  <2> QED
    BY <1>18, <2>1, <2>3 DEF EngDeliver
<1>19. CASE EngAccept
  BY <1>19 DEF EngAccept
<1>20. CASE EngPayload
  BY <1>20 DEF EngPayload
<1>21. CASE EngDesc
  BY <1>21 DEF EngDesc
<1>22. CASE UNCHANGED vars
  BY <1>22 DEF vars
<1> QED
    BY <1>1, <1>2, <1>3, <1>4, <1>5, <1>6, <1>7, <1>8, <1>9, <1>10, <1>11, <1>12, <1>13,
       <1>14, <1>15, <1>16, <1>17, <1>18, <1>19, <1>20, <1>21, <1>22
    DEF Next, Call, Step, Engine

(* Every step keeps the destination-ring invariant. *)
LEMMA RxStep == IInv /\ [Next]_vars => RxInv'
<1> SUFFICES ASSUME IInv, [Next]_vars PROVE RxInv'
  OBVIOUS
<1> USE RingAssumption, BudgetAssumption, BoundAssumption, RingNextFacts, RxArmedFacts
<1> USE DEF IInv, TypeOK, TypeHost, TypeRx, ctl, txSw, txMem, txEng, rxSw, rxMem, rxEng, Goto, RxInv, RxNone, RxPosted, RxLanding, RxLanded, Copying, Posting, Whole
<1>1. CASE WmiArmRecv
  BY <1>1 DEF WmiArmRecv
<1>2. CASE SendCall
  BY <1>2 DEF SendCall
<1>3. CASE SendBadLen
  BY <1>3 DEF SendBadLen
<1>4. CASE RecvCall
  BY <1>4 DEF RecvCall
<1>5. CASE PostDesc
  BY <1>5 DEF PostDesc
<1>6. CASE PostBell
  BY <1>6 DEF PostBell
<1>7. CASE PreWait
  BY <1>7 DEF PreWait, SendPoll
<1>8. CASE TxCopy
  BY <1>8 DEF TxCopy
<1>9. CASE TxDesc
  BY <1>9 DEF TxDesc
<1>10. CASE TxBell
  BY <1>10 DEF TxBell
<1>11. CASE Completion
  BY <1>11 DEF Completion, SendPoll
<1>12. CASE RecvPoll
  BY <1>12 DEF RecvPoll
<1>13. CASE RecvNotLanded
  BY <1>13 DEF RecvNotLanded
<1>14. CASE RecvConsume
  BY <1>14 DEF RecvConsume
<1>15. CASE CopyLo
  BY <1>15 DEF CopyLo
<1>16. CASE CopyHi
  BY <1>16 DEF CopyHi
<1>17. CASE EngFetch
  BY <1>17 DEF EngFetch
<1>18. CASE EngDeliver
  BY <1>18 DEF EngDeliver
<1>19. CASE EngAccept
  BY <1>19 DEF EngAccept
<1>20. CASE EngPayload
  BY <1>20 DEF EngPayload
<1>21. CASE EngDesc
  BY <1>21 DEF EngDesc
<1>22. CASE UNCHANGED vars
  BY <1>22 DEF vars
<1> QED
    BY <1>1, <1>2, <1>3, <1>4, <1>5, <1>6, <1>7, <1>8, <1>9, <1>10, <1>11, <1>12, <1>13,
       <1>14, <1>15, <1>16, <1>17, <1>18, <1>19, <1>20, <1>21, <1>22
    DEF Next, Call, Step, Engine

(* IInv holds in every reachable state: Init establishes it, every step    *)
(* keeps each of its three parts.                                          *)
THEOREM Invariance == Spec => []IInv
<1>1. IInv /\ [Next]_vars => IInv'
  BY TypeStep, TxStep, RxStep DEF IInv
<1> QED
  BY InitIInv, <1>1, PTL DEF Spec

(* The types hold in every reachable state of a pair, for every ring size. *)
THEOREM TypeCorrect == Spec => []TypeOK
BY Invariance, PTL DEF IInv

(* CECopyPair::send never reports success for a frame the target lacks.    *)
THEOREM SendOkCorrect == Spec => []SendOkMeansDelivered
<1>1. IInv => SendOkMeansDelivered
  BY DEF IInv, TxInv, SendOkMeansDelivered
<1> QED
  BY Invariance, <1>1, PTL

(* With the arm-only-when-idle rule of wmiArmRecv and wmiPostRecvIfIdle    *)
(* the engine never writes the shared rx buffer while recvWmi reads it.    *)
THEOREM RxQuietCorrect == Spec => []RxQuietWhileRead
<1>1. IInv => RxQuietWhileRead
  BY DEF IInv, RxInv, RxNone, RxPosted, RxLanding, RxLanded, Copying, RxQuietWhileRead
<1> QED
  BY Invariance, <1>1, PTL

(* No step touches the tx buffer or the descriptor of a frame the engine   *)
(* has not consumed, timed-out sends included.                             *)
THEOREM TxHeldCorrect == Spec => TxHeldUntilConsumed
<1> DEFINE Held == nsent > Len(delivered) => /\ fTxCpu' = fTxCpu
                                             /\ fSrcDesc'[SRRI] = fSrcDesc[SRRI]
<1>1. ASSUME IInv, [Next]_vars, nsent > Len(delivered)
      PROVE  fTxCpu' = fTxCpu /\ fSrcDesc'[SRRI] = fSrcDesc[SRRI]
  <2>1. pc \notin Filling
    BY <1>1 DEF IInv, TypeOK, TypeTx, TxInv, TxFree, TxBusy
  <2>2. ~TxCopy /\ ~TxDesc
    BY <2>1 DEF TxCopy, TxDesc, Goto, Filling
  <2> QED
    BY <1>1, <2>2
    DEF Next, Call, Step, Engine, WmiArmRecv, SendCall, SendBadLen, RecvCall, PostDesc,
        PostBell, PreWait, Completion, SendPoll, TxBell, RecvPoll, RecvNotLanded,
        RecvConsume, CopyLo, CopyHi, EngFetch, EngDeliver, EngAccept, EngPayload,
        EngDesc, vars, txMem
<1>2. IInv /\ [Next]_vars => [Held]_vars
  BY <1>1
<1> QED
  BY Invariance, <1>2, PTL DEF Spec, TxHeldUntilConsumed

-----------------------------------------------------------------------------
(* The frames in flight are none or one whole frame.                       *)
LEMMA InFlightFacts ==
  ASSUME NEW n \in Nat
  PROVE  InFlight(n, n) = <<>> /\ InFlight(n, n + 1) = <<Whole(n + 1)>>
BY DEF InFlight, Whole

(* In either direction at most one frame is begun and not done.            *)
AtMostOne ==
  /\ Len(delivered) \in Nat /\ nsent \in {Len(delivered), Len(delivered) + 1}
  /\ Len(got) \in Nat /\ nemit \in {Len(got), Len(got) + 1}

(* The invariant bounds the frames in flight.                              *)
LEMMA OneInFlight == IInv => AtMostOne
<1> SUFFICES ASSUME IInv PROVE AtMostOne
  OBVIOUS
<1>1. delivered \in Seq(Copy(MaxSend)) /\ got \in Seq(Copy(MaxEvents))
  BY DEF IInv, TypeOK, TypeTx, TypeRx
<1>2. nsent \in {Len(delivered), Len(delivered) + 1}
  BY DEF IInv, TxInv, TxFree, TxBusy
<1>3. nemit \in {Len(got), Len(got) + 1}
  BY DEF IInv, RxInv, RxNone, RxPosted, RxLanding, RxLanded
<1> QED
  BY <1>1, <1>2, <1>3 DEF AtMostOne

(* The steps that change no frame's place, as seen from the channel.       *)
LEMMA QuietSteps ==
  ASSUME [Next]_vars, ~TxBell, ~EngDeliver, ~EngAccept, ~CopyHi
  PROVE  UNCHANGED <<nsent, delivered, nemit, got>>
BY DEF Next, Call, Step, Engine, WmiArmRecv, SendCall, SendBadLen, RecvCall, PostDesc,
       PostBell, PreWait, Completion, SendPoll, TxCopy, TxDesc, RecvPoll, RecvNotLanded,
       RecvConsume, CopyLo, EngFetch, EngPayload, EngDesc, vars,
       txSw, txEng, rxSw, rxEng

(* Every step of the rings is a step of the channel or leaves it alone:    *)
(* the doorbell is its Send, the engine's last fetch its Deliver, the move *)
(* of DRRI its Emit and the end of the copy-out its Receive.               *)
LEMMA ChannelStep == IInv /\ IInv' /\ [Next]_vars => [Channel!Next]_(Channel!vars)
<1> SUFFICES ASSUME IInv, IInv', [Next]_vars
             PROVE  Channel!Next \/ UNCHANGED Channel!vars
  BY DEF Channel!vars
<1> USE DEF Channel!Next, Channel!Send, Channel!Deliver, Channel!Emit, Channel!Receive,
            Channel!Whole, Channel!vars
<1>a. AtMostOne /\ AtMostOne'
  BY OneInFlight, PTL
<1>0. /\ Len(delivered) \in Nat /\ nsent \in {Len(delivered), Len(delivered) + 1}
      /\ Len(got) \in Nat /\ nemit \in {Len(got), Len(got) + 1}
      /\ nsent' \in {Len(delivered'), Len(delivered') + 1}
      /\ nemit' \in {Len(got'), Len(got') + 1}
  BY <1>a DEF AtMostOne
<1>1. CASE TxBell
  <2>1. nsent' = nsent + 1 /\ UNCHANGED <<delivered, nemit, got>>
    BY <1>1 DEF TxBell, txEng, rxSw, rxEng
  <2>2. nsent = Len(delivered) /\ nsent' = Len(delivered) + 1
    BY <1>0, <2>1
  <2>3. Channel!Send
    BY <1>0, <2>1, <2>2, InFlightFacts DEF Whole
  <2> QED
    BY <2>3
<1>2. CASE EngDeliver
  <2>1. UNCHANGED <<nsent, nemit, got>>
    BY <1>2 DEF EngDeliver, txSw, rxSw, rxEng
  <2>2. TxBusy
    BY <1>2 DEF IInv, TxInv, TxFree, EngDeliver
  <2>3. /\ nsent = Len(delivered) + 1
        /\ delivered' = Append(delivered, Whole(Len(delivered) + 1))
    BY <1>2, <2>2 DEF TxBusy, EngDeliver, Whole
  <2>4. delivered \in Seq(Copy(MaxSend)) /\ Len(delivered') = Len(delivered) + 1
    BY <2>3 DEF IInv, TypeOK, TypeTx
  <2>5. /\ InFlight(Len(delivered), nsent) = <<Whole(Len(delivered) + 1)>>
        /\ InFlight(Len(delivered'), nsent') = <<>>
    BY <1>0, <2>1, <2>3, <2>4, InFlightFacts
  <2>6. delivered' = delivered \o <<Whole(Len(delivered) + 1)>>
    BY <2>3, <2>4
  <2>7. Channel!Deliver
    BY <2>1, <2>5, <2>6
  <2> QED
    BY <2>7
<1>3. CASE EngAccept
  <2>1. nemit' = nemit + 1 /\ UNCHANGED <<nsent, delivered, got>>
    BY <1>3 DEF EngAccept, txSw, txEng, rxSw
  <2>2. nemit = Len(got) /\ nemit' = Len(got) + 1
    BY <1>0, <2>1
  <2>3. Channel!Emit
    BY <1>0, <2>1, <2>2, InFlightFacts DEF Whole
  <2> QED
    BY <2>3
<1>4. CASE CopyHi
  <2>1. UNCHANGED <<nsent, delivered, nemit>>
    BY <1>4 DEF CopyHi, txSw, txEng, rxEng
  <2>2. /\ nemit = Len(got) + 1
        /\ got' = Append(got, Whole(Len(got) + 1))
    BY <1>4 DEF CopyHi, Goto, IInv, RxInv, RxNone, RxPosted, RxLanding, RxLanded,
                Copying, Whole
  <2>3. got \in Seq(Copy(MaxEvents)) /\ Len(got') = Len(got) + 1
    BY <2>2 DEF IInv, TypeOK, TypeRx
  <2>4. /\ InFlight(Len(got), nemit) = <<Whole(Len(got) + 1)>>
        /\ InFlight(Len(got'), nemit') = <<>>
    BY <1>0, <2>1, <2>2, <2>3, InFlightFacts
  <2>5. got' = got \o <<Whole(Len(got) + 1)>>
    BY <2>2, <2>3
  <2>6. Channel!Receive
    BY <2>1, <2>4, <2>5
  <2> QED
    BY <2>6
<1>5. CASE ~TxBell /\ ~EngDeliver /\ ~EngAccept /\ ~CopyHi
  <2>1. UNCHANGED <<nsent, delivered, nemit, got>>
    BY <1>5, QuietSteps
  <2> QED
    BY <2>1 DEF InFlight
<1> QED
  BY <1>1, <1>2, <1>3, <1>4, <1>5

(* A Copy Engine pair used by the rules of the WMI path implements the     *)
(* one-frame-in-flight channel, for every ring size and poll budget.       *)
THEOREM RefinesChannel == Spec => ImplementsChannel
<1>1. Init => Channel!Init
  BY InFlightFacts DEF Init, Channel!Init
<1> QED
  BY <1>1, Invariance, ChannelStep, PTL DEF Spec, ImplementsChannel, Channel!Spec

-----------------------------------------------------------------------------
(* Calls are bounded.                                                      *)

(* The steps a call of the host thread may still take: a poll of recvWait  *)
(* costs two of them when the descriptor has not landed.                   *)
PollsLeft == PollBudget - polls
Work ==
  CASE pc = "idle"       -> 0
    [] pc = "rx_copy_hi" -> 1
    [] pc = "rx_copy_lo" -> 2
    [] pc = "rx_desc"    -> 2 * PollsLeft + 3
    [] pc = "rx_poll"    -> 2 * PollsLeft + 4
    [] pc = "tx_wait"    -> PollsLeft + 1
    [] pc = "tx_bell"    -> PollBudget + 2
    [] pc = "tx_desc"    -> PollBudget + 3
    [] pc = "tx_copy"    -> PollBudget + 4
    [] pc = "tx_prewait" -> PollBudget + PollsLeft + 5
    [] pc = "post_bell"  -> 2 * PollBudget + 6
    [] OTHER             -> 2 * PollBudget + 7

(* A call has steps left exactly while it runs, and never more than the    *)
(* polls of send's two loops or of recvWait's one allow.                   *)
WorkBounded ==
  Work \in 0 .. 2 * PollBudget + 7 /\ (pc = "idle" <=> Work = 0)

(* Every step of the thread inside a call uses some of them up, and no     *)
(* step of an engine gives any back or takes any.                          *)
WorkShrinks == [][(Step => Work' < Work) /\ (Engine => Work' = Work)]_vars

(* The poll counter keeps the measure in its range. *)
LEMMA WorkInRange == TypeHost => WorkBounded
<1> SUFFICES ASSUME TypeHost PROVE WorkBounded
  OBVIOUS
<1>1. PICK r \in 0 .. PollBudget : r = PollsLeft
  BY BudgetAssumption DEF TypeHost, PollsLeft
<1>2. PollBudget \in Nat /\ PollBudget >= 1 /\ pc \in Labels
  BY BudgetAssumption DEF TypeHost
<1>3. CASE pc \in {"idle", "rx_copy_hi", "rx_copy_lo"}
  <2>1. Work \in {0, 1, 2} /\ (pc = "idle" <=> Work = 0)
    BY <1>3 DEF Work
  <2> QED BY <1>2, <2>1 DEF WorkBounded
<1>4. CASE pc \in {"rx_desc", "rx_poll", "tx_wait"}
  <2>1. Work \in {2 * r + 3, 2 * r + 4, r + 1}
    BY <1>1, <1>4 DEF Work
  <2> QED BY <1>1, <1>2, <1>4, <2>1 DEF WorkBounded
<1>5. CASE pc \in {"tx_bell", "tx_desc", "tx_copy", "tx_prewait"}
  <2>1. Work \in {PollBudget + 2, PollBudget + 3, PollBudget + 4, PollBudget + r + 5}
    BY <1>1, <1>5 DEF Work
  <2> QED BY <1>1, <1>2, <1>5, <2>1 DEF WorkBounded
<1>6. CASE pc \in {"post_bell", "post_desc"}
  <2>1. Work \in {2 * PollBudget + 6, 2 * PollBudget + 7}
    BY <1>6 DEF Work
  <2> QED BY <1>2, <1>6, <2>1 DEF WorkBounded
<1> QED BY <1>2, <1>3, <1>4, <1>5, <1>6 DEF Labels

(* Every step inside a call lowers the measure. *)
LEMMA StepWorks == TypeHost /\ TypeHost' /\ Step => Work' < Work
<1> SUFFICES ASSUME TypeHost, TypeHost', Step PROVE Work' < Work
  OBVIOUS
<1>0. /\ PollBudget \in Nat /\ PollBudget >= 1
      /\ polls \in 0 .. PollBudget /\ polls' \in 0 .. PollBudget
      /\ ret \in {"idle", "tx_prewait"}
  BY BudgetAssumption DEF TypeHost
<1>1. CASE PostDesc \/ PostBell
  BY <1>0, <1>1 DEF PostDesc, PostBell, Goto, Work, PollsLeft
<1>2. CASE PreWait
  BY <1>0, <1>2 DEF PreWait, SendPoll, Work, PollsLeft
<1>3. CASE TxCopy \/ TxDesc \/ TxBell
  BY <1>0, <1>3 DEF TxCopy, TxDesc, TxBell, Goto, Work, PollsLeft
<1>4. CASE Completion
  BY <1>0, <1>4 DEF Completion, SendPoll, Work, PollsLeft
<1>5. CASE RecvPoll
  BY <1>0, <1>5 DEF RecvPoll, Work, PollsLeft
<1>6. CASE RecvNotLanded
  BY <1>0, <1>6 DEF RecvNotLanded, Work, PollsLeft
<1>7. CASE RecvConsume
  BY <1>0, <1>7 DEF RecvConsume, Work, PollsLeft
<1>8. CASE CopyLo \/ CopyHi
  BY <1>0, <1>8 DEF CopyLo, CopyHi, Goto, Work, PollsLeft
<1> QED BY <1>1, <1>2, <1>3, <1>4, <1>5, <1>6, <1>7, <1>8 DEF Step

(* The variant behind CallsReturn: whatever the engines do, send, postRecv *)
(* and recvWait are back after at most 2 * PollBudget + 7 of their own     *)
(* steps, the polls of the nbytes == 0 guard of recvWait included.         *)
THEOREM CallsBounded == Spec => []WorkBounded /\ WorkShrinks
<1>1. TypeOK => WorkBounded /\ TypeHost
  BY WorkInRange DEF TypeOK
<1>2. Engine => UNCHANGED ctl
  BY DEF Engine, EngFetch, EngDeliver, EngAccept, EngPayload, EngDesc
<1>3. UNCHANGED ctl => Work' = Work
  BY DEF ctl, Work, PollsLeft
<1>4. TypeOK /\ TypeOK' /\ [Next]_vars =>
        [(Step => Work' < Work) /\ (Engine => Work' = Work)]_vars
  BY <1>2, <1>3, StepWorks DEF TypeOK
<1> QED BY <1>1, <1>4, TypeCorrect, PTL DEF Spec, WorkShrinks

(* Behind SentIsDelivered: the source engine always has a frame to fetch   *)
(* or one half fetched while a doorbelled frame is under way, and nothing  *)
(* but the engine's own step takes that away.                              *)
EngineSees == nsent > Len(delivered) <=> srcEng = "fetching" \/ SRRI # hwSrcWr
StaysSeen ==
  [][nsent > Len(delivered) /\ ~EngDeliver =>
       nsent' = nsent /\ delivered' = delivered /\ (srcEng' = srcEng \/ EngFetch)]_vars

(* A doorbell of CECopyPair::send is never lost between two polls, for     *)
(* every ring size: SRRI and SR_WR_INDEX differ until the frame is with    *)
(* the target, and no second frame is doorbelled meanwhile.                *)
THEOREM DoorbellHeard == Spec => []EngineSees /\ StaysSeen
<1>1. IInv => EngineSees
  <2> SUFFICES ASSUME IInv PROVE EngineSees
    OBVIOUS
  <2>1. /\ hwSrcWr = fSrcWrite /\ (TxFree \/ TxBusy) /\ SRRI \in Idx
        /\ nsent \in Nat /\ Len(delivered) \in Nat
    BY BoundAssumption DEF IInv, TxInv, TypeOK, TypeTx
  <2>2. RingNext(SRRI) # SRRI
    BY <2>1, RingAssumption DEF RingNext, Idx
  <2> QED BY <2>1, <2>2 DEF EngineSees, TxFree, TxBusy
<1>2. IInv /\ [Next]_vars =>
        [nsent > Len(delivered) /\ ~EngDeliver =>
           nsent' = nsent /\ delivered' = delivered /\ (srcEng' = srcEng \/ EngFetch)]_vars
  <2> SUFFICES ASSUME IInv, Next, nsent > Len(delivered), ~EngDeliver
               PROVE  nsent' = nsent /\ delivered' = delivered
                      /\ (srcEng' = srcEng \/ EngFetch)
    BY DEF vars
  <2>1. pc # "tx_bell"
    BY DEF IInv, TxInv, TxFree, TxBusy, Filling, TypeOK, TypeTx
  <2>2. CASE Call
    BY <2>2 DEF Call, WmiArmRecv, SendCall, SendBadLen, RecvCall, txSw, txEng
  <2>3. CASE Step
    BY <2>1, <2>3 DEF Step, PostDesc, PostBell, PreWait, TxCopy, TxDesc, TxBell, Completion,
         SendPoll, RecvPoll, RecvNotLanded, RecvConsume, CopyLo, CopyHi, Goto, txSw, txEng
  <2>4. CASE Engine
    BY <2>4 DEF Engine, EngFetch, EngAccept, EngPayload, EngDesc, txSw, txEng
  <2> QED BY <2>2, <2>3, <2>4 DEF Next
<1> QED BY <1>1, <1>2, Invariance, PTL DEF Spec, StaysSeen
=============================================================================

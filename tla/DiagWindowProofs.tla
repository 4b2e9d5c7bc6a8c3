-------------------------- MODULE DiagWindowProofs --------------------------
(***************************************************************************)
(* Proofs about DiagWindow, for every speed of the engine and every choice *)
(* of the deadlines.                                                       *)
(***************************************************************************)
EXTENDS DiagWindow, SequenceTheorems, TLAPS

IsWrite(i) == Ops[i].dir = "write"

(* The addresses transfer i posts when its pointers were read, the word a  *)
(* write stores, and what the engine carries for transfer i.               *)
SrcAddr(i) == IF IsWrite(i) THEN "bounce" ELSE Ops[i].loc
DstAddr(i) == IF IsWrite(i) THEN Ops[i].loc ELSE "bounce"
Good(i)    == [by |-> "host", loc |-> Ops[i].loc, good |-> TRUE]
Carried(i) == IF IsWrite(i) THEN Good(i) ELSE Contents(fSrcDesc[i].addr)

nDst == Len(fDstDesc)
nSrc == Len(fSrcDesc)

Scalars ==
  /\ op \in 0 .. 14 /\ sub \in {"call", "src", "send", "recv"}
  /\ got \subseteq Locs
  /\ srri \in Nat /\ drri \in Nat /\ payload \in Nat /\ landed \in Nat /\ fDstSw \in Nat
  /\ fSrcDesc \in Seq([addr : Locs \cup {"bounce"}, nbytes : Lens])
  /\ fDstDesc \in Seq([addr : Locs \cup {"bounce"}, nbytes : Lens \cup {0}])
  /\ flight \in Seq(Data) /\ bounce \in Data

(* The engine's counters in the order in which a descriptor passes them. *)
Counters ==
  /\ srri <= nSrc /\ Len(flight) + payload = srri
  /\ landed <= payload /\ payload <= drri /\ drri <= landed + 1 /\ drri <= srri
  /\ fDstSw <= drri

(* One descriptor of each kind per transfer begun. *)
Posted ==
  /\ nDst <= 13
  /\ op = 0 => sub = "call" /\ nSrc = nDst
  /\ op = 14 => sub = "call"
  /\ op > 0 /\ sub = "call" => nDst = op - 1 /\ nSrc = op - 1
  /\ sub = "src" => nDst = op /\ nSrc = op - 1
  /\ sub \in {"send", "recv"} => nDst = op /\ nSrc = op

(* The window is in step: every completion before this transfer's own is   *)
(* consumed and landed, and each read of initConfig gave what it asked for. *)
InStep ==
  /\ fDstSw = op - 1 /\ landed >= op - 1
  /\ \A i \in 3 .. op - 1 : ~IsWrite(i) => Ops[i].loc \in got

(* Behind: both soft reads timed out and transfer 3 took the first one's   *)
(* completion; transfer 4 finds the one of the HI snapshot.                *)
Behind == op = 4 /\ fDstSw = 1 /\ landed >= 1

Pace ==
  /\ op \in 1 .. 3 => fDstSw < op
  /\ op >= 4 => InStep \/ Behind
  /\ nDst >= 5 => landed >= nDst - 1

(* Source descriptors; only transfer 4 of a window that is behind may read *)
(* through a pointer that was not read.                                    *)
SrcInv ==
  \A i \in 1 .. nSrc :
    /\ fSrcDesc[i].nbytes = Ops[i].len
    /\ \/ fSrcDesc[i].addr = SrcAddr(i)
       \/ fSrcDesc[i].addr = "wild" /\ i = 4 /\ nDst = 4 /\ fDstSw <= 2

DstInv ==
  \A i \in 1 .. nDst :
    /\ fDstDesc[i].nbytes = IF i <= landed THEN Ops[i].len ELSE 0
    /\ fDstDesc[i].addr = DstAddr(i)

(* What is in the engine, in the bounce buffer and in target memory. *)
FlightInv == \A k \in 1 .. Len(flight) : flight[k] = Carried(payload + k)

BounceInv ==
  /\ nDst > 0 /\ IsWrite(nDst) /\ srri < nDst => bounce = Good(nDst)
  /\ payload > 0 /\ ~IsWrite(payload) /\ ~(nDst > payload /\ IsWrite(nDst)) =>
       bounce = Contents(fSrcDesc[payload].addr)

MemInv ==
  mem = {[loc |-> Ops[i].loc, val |-> Good(i)] : i \in {j \in 1 .. payload : IsWrite(j)}}

MisreadInv ==
  /\ misread \subseteq {3}
  /\ misread # {} => op \in {0, 4} /\ fDstSw <= 2 /\ nDst <= 4 /\ (op = 4 => fDstSw = 1)

IInv ==
  /\ Scalars /\ Counters /\ Posted /\ Pace /\ SrcInv /\ DstInv
  /\ FlightInv /\ BounceInv /\ MemInv /\ MisreadInv
-----------------------------------------------------------------------------
(* The table of transfers.                                                 *)

(* Thirteen transfers. *)
LEMMA OpsDomain == DOMAIN Ops = 1 .. 13 /\ Len(Ops) = 13 /\ Done = 14
  BY DEF Ops, Read, Write, Done

(* The directions: five writes. *)
LEMMA OpsDir ==
  \A i \in 1 .. 13 : /\ Ops[i].dir \in {"read", "write"}
                     /\ IsWrite(i) <=> i \in {7, 8, 9, 11, 13}
  BY DEF Ops, Read, Write, IsWrite

(* The lengths of the reads that can meet a stale completion. *)
LEMMA OpsLen ==
  /\ Ops[1].len = 4 /\ Ops[2].len = 32 /\ Ops[3].len = 4 /\ Ops[4].len = 4
  /\ \A i \in 1 .. 13 : Ops[i].len \in Nat /\ Ops[i].len # 0
  BY DEF Ops, Read, Write

(* The locations. *)
LEMMA OpsLoc ==
  /\ Ops[1].loc = "fw_ind" /\ Ops[2].loc = "hi" /\ Ops[3].loc = "state"
  /\ Ops[4].loc = "pipe_ptr" /\ Ops[5].loc = "svc_ptr" /\ Ops[6].loc = "flags"
  /\ Ops[7].loc = "flags" /\ Ops[8].loc = "pipes" /\ Ops[9].loc = "svcmap"
  /\ Ops[10].loc = "ealloc" /\ Ops[11].loc = "ealloc"
  /\ Ops[12].loc = "flag2" /\ Ops[13].loc = "flag2"
  BY DEF Ops, Read, Write

(* A transfer's location and length are in the sets the types name. *)
LEMMA OpsTypes ==
  \A i \in 1 .. 13 : /\ Ops[i].loc \in Locs /\ Ops[i].len \in Lens
                     /\ Ops[i].loc # "bounce" /\ "wild" \in Locs
  <1>1. \A i \in 1 .. 13 : Ops[i].loc \in Locs /\ Ops[i].len \in Lens
    BY OpsDomain, Zenon DEF Locs, Lens
  <1>2. \A i \in 1 .. 13 : Ops[i].loc # "bounce"
    BY OpsLoc
  <1> QED BY <1>1, <1>2, Zenon DEF Locs

(* What the writes name. *)
LEMMA WrittenIs == Written = {Ops[i].loc : i \in {j \in 1 .. 13 : IsWrite(j)}}
  BY OpsDomain, Zenon DEF Written, IsWrite

-----------------------------------------------------------------------------
(* Helpers.                                                                *)

(* The host works on a transfer of the table. *)
LEMMA RunningIs ==
  ASSUME Running
  PROVE  op \in 1 .. 13 /\ Cur = Ops[op] /\ (Cur.dir = "write" <=> IsWrite(op))
         /\ (Cur.dir = "read" <=> ~IsWrite(op))
  BY OpsDomain, OpsDir DEF Running, Cur, IsWrite

(* Computed addresses are locations, computed words are data. *)
LEMMA HostTypes ==
  ASSUME NEW i \in 1 .. 13
  PROVE  /\ Address(Ops[i].loc) \in Locs /\ Address(Ops[i].loc) # "bounce"
         /\ HostWord(Ops[i].loc) \in Data
  <1>1. Address(Ops[i].loc) \in Locs /\ Address(Ops[i].loc) # "bounce"
    BY OpsTypes DEF Address
  <1>2. HostWord(Ops[i].loc) \in Data
    <2>1. PICK b \in BOOLEAN : b <=> Ops[i].loc \in {"pipes", "svcmap"} \cup got
      BY Zenon
    <2>2. b = (Ops[i].loc \in {"pipes", "svcmap"} \cup got)
      BY <2>1, Zenon
    <2>3. HostWord(Ops[i].loc) = [by |-> "host", loc |-> Ops[i].loc, good |-> b]
      BY <2>2, Zenon DEF HostWord
    <2> QED BY <2>3, OpsTypes DEF Data
  <1> QED BY <1>1, <1>2

(* Whatever the host posts for a transfer while the window is not behind   *)
(* goes to its place, and a word it writes is the right one.               *)
LEMMA HostExact ==
  ASSUME IInv, Running, ~Behind
  PROVE  /\ Address(Cur.loc) = Cur.loc
         /\ IsWrite(op) => HostWord(Cur.loc) = Good(op)
  <1>1. op \in 1 .. 13 /\ Cur = Ops[op]
    BY RunningIs
  <1>2. op >= 4 => \A i \in 3 .. op - 1 : ~IsWrite(i) => Ops[i].loc \in got
    BY <1>1 DEF IInv, Pace, InStep
  <1>3. op >= 4 => "state" \in got
    BY <1>1, <1>2, OpsDir, OpsLoc
  <1>4. op >= 5 => "pipe_ptr" \in got
    BY <1>1, <1>2, OpsDir, OpsLoc
  <1>5. op >= 6 => "svc_ptr" \in got
    BY <1>1, <1>2, OpsDir, OpsLoc
  <1>6. op >= 7 => "flags" \in got
    BY <1>1, <1>2, OpsDir, OpsLoc
  <1>7. op >= 11 => "ealloc" \in got
    BY <1>1, <1>2, OpsDir, OpsLoc
  <1>8. op >= 13 => "flag2" \in got
    BY <1>1, <1>2, OpsDir, OpsLoc
  <1>9. op \in {1, 2, 3, 10, 11, 12, 13} => Pointer(Ops[op].loc) = "none"
    BY OpsLoc DEF Pointer
  <1>10. op \in {4, 5, 6, 7} => Pointer(Ops[op].loc) = "state"
    BY OpsLoc DEF Pointer
  <1>11. op = 8 => Pointer(Ops[op].loc) = "pipe_ptr"
    BY OpsLoc DEF Pointer
  <1>12. op = 9 => Pointer(Ops[op].loc) = "svc_ptr"
    BY OpsLoc DEF Pointer
  <1>13. Pointer(Ops[op].loc) \in got \cup {"none"}
    <2>1. op \in {1, 2, 3, 10, 11, 12, 13} \cup {4, 5, 6, 7} \cup {8} \cup {9}
      BY <1>1
    <2> QED BY <2>1, <1>1, <1>3, <1>4, <1>5, <1>9, <1>10, <1>11, <1>12
  <1>14. Address(Cur.loc) = Cur.loc
    BY <1>1, <1>13 DEF Address
  <1>15. ASSUME IsWrite(op) PROVE HostWord(Cur.loc) = Good(op)
    <2>1. op \in {7, 8, 9, 11, 13}
      BY <1>1, <1>15, OpsDir
    <2>2. Ops[op].loc \in {"pipes", "svcmap"} \cup got
      BY <2>1, <1>6, <1>7, <1>8, OpsLoc
    <2>3. (Ops[op].loc \in {"pipes", "svcmap"} \cup got) = TRUE
      BY <2>2, Zenon
    <2> QED BY <2>3, <1>1, Zenon DEF HostWord, Good
  <1> QED BY <1>14, <1>15

(* A failed transfer: on to the next one among the soft reads, else the    *)
(* end.                                                                    *)
LEMMA FailIs ==
  ASSUME Running, Fail
  PROVE  /\ (op \in {1, 2} /\ op' = op + 1) \/ (op \in 3 .. 13 /\ op' = 0)
         /\ op' \in 0 .. 3 /\ sub' = "call" /\ got' = got /\ misread' = misread
  BY RunningIs DEF Fail, Soft

(* The transfer returned true. *)
RecvOk ==
  /\ LengthOk(fDstDesc[fDstSw + 1], Cur.len)
  /\ op' = op + 1 /\ sub' = "call"
  /\ IF Cur.dir = "write" THEN UNCHANGED <<got, misread>>
     ELSE IF bounce = Contents(Cur.loc)
          THEN got' = got \cup {Cur.loc} /\ UNCHANGED misread
          ELSE misread' = misread \cup {op} /\ UNCHANGED got

(* The two ways a consumed completion ends. *)
LEMMA RecvCases == RecvDone => RecvOk \/ Fail
  BY DEF RecvDone, RecvOk

(* The host's step that posts nothing and consumes nothing. *)
Waits == SendDone \/ SendTimeout \/ RecvTimeout

(* What the steps of one kind have in common. *)
LEMMA WaitsFrame ==
  ASSUME Waits
  PROVE  /\ Running /\ sub \in {"send", "recv"}
         /\ (sub = "send" /\ sub' = "recv" /\ op' = op) \/ Fail
         /\ got' = got /\ misread' = misread
         /\ fSrcDesc' = fSrcDesc /\ fDstDesc' = fDstDesc /\ fDstSw' = fDstSw
         /\ bounce' = bounce /\ srri' = srri /\ drri' = drri /\ flight' = flight
         /\ payload' = payload /\ landed' = landed /\ mem' = mem
  <1>1. CASE SendDone
    BY <1>1 DEF SendDone, ring, eng
  <1>2. CASE SendTimeout
    BY <1>2 DEF SendTimeout, Fail, ring, eng
  <1>3. CASE RecvTimeout
    BY <1>3 DEF RecvTimeout, Fail, ring, eng
  <1> QED BY <1>1, <1>2, <1>3 DEF Waits

(* A consumed completion moves fDstSw and nothing else of the rings. *)
LEMMA RecvFrame ==
  ASSUME RecvDone
  PROVE  /\ Running /\ sub = "recv" /\ drri # fDstSw /\ fDstSw' = fDstSw + 1
         /\ RecvOk \/ Fail
         /\ fSrcDesc' = fSrcDesc /\ fDstDesc' = fDstDesc
         /\ bounce' = bounce /\ srri' = srri /\ drri' = drri /\ flight' = flight
         /\ payload' = payload /\ landed' = landed /\ mem' = mem
  BY RecvCases DEF RecvDone, Moved, eng

(* The engine leaves the host alone. *)
LEMMA EngineFrame ==
  ASSUME Engine
  PROVE  /\ op' = op /\ sub' = sub /\ got' = got /\ misread' = misread
         /\ fDstSw' = fDstSw /\ fSrcDesc' = fSrcDesc
  BY DEF Engine, EngFetch, EngIndex, EngPayload, EngDesc, host, ring

(* The engine steps: where the counters stand before and after. *)
LEMMA EngineCounters ==
  ASSUME Scalars, Counters
  PROVE  /\ EngFetch => /\ srri < nSrc /\ srri' = srri + 1 /\ drri' = drri
                        /\ payload' = payload /\ landed' = landed
         /\ EngIndex => /\ drri = landed /\ payload = landed /\ srri > payload
                        /\ drri' = drri + 1 /\ srri' = srri
                        /\ payload' = payload /\ landed' = landed
         /\ EngPayload => /\ payload = landed /\ drri = payload + 1 /\ drri <= srri
                          /\ payload' = payload + 1 /\ Len(flight) > 0
                          /\ drri' = drri /\ srri' = srri /\ landed' = landed
         /\ EngDesc => /\ payload = landed + 1 /\ drri = payload /\ drri <= srri
                       /\ landed' = landed + 1
                       /\ drri' = drri /\ srri' = srri /\ payload' = payload
  <1>0. Len(flight) \in Nat /\ nSrc \in Nat /\ (flight # <<>> => Len(flight) > 0)
    BY DEF Scalars, nSrc
  <1>1. EngFetch => /\ srri < nSrc /\ srri' = srri + 1 /\ drri' = drri
                    /\ payload' = payload /\ landed' = landed
    BY DEF EngFetch, nSrc
  <1>2. EngIndex => /\ drri = landed /\ payload = landed /\ srri > payload
                    /\ drri' = drri + 1 /\ srri' = srri
                    /\ payload' = payload /\ landed' = landed
    BY <1>0 DEF EngIndex, Counters, Scalars
  <1>3. EngPayload => /\ payload = landed /\ drri = payload + 1 /\ drri <= srri
                      /\ payload' = payload + 1 /\ Len(flight) > 0
                      /\ drri' = drri /\ srri' = srri /\ landed' = landed
    BY <1>0 DEF EngPayload, Counters, Scalars
  <1>4. EngDesc => /\ payload = landed + 1 /\ drri = payload /\ drri <= srri
                   /\ landed' = landed + 1
                   /\ drri' = drri /\ srri' = srri /\ payload' = payload
    BY <1>0 DEF EngDesc, Counters, Scalars
  <1> QED BY <1>1, <1>2, <1>3, <1>4

(* A posted destination descriptor goes to the end of its ring. *)
LEMMA DstAppended ==
  ASSUME Scalars, PostDst
  PROVE  /\ nDst \in Nat /\ nDst' = nDst + 1 /\ nSrc' = nSrc
         /\ \A i \in 1 .. nDst : fDstDesc'[i] = fDstDesc[i]
         /\ fDstDesc'[nDst + 1] = [nbytes |-> 0,
              addr |-> IF Cur.dir = "read" THEN "bounce" ELSE Address(Cur.loc)]
  <1> DEFINE d == [nbytes |-> 0,
                   addr |-> IF Cur.dir = "read" THEN "bounce" ELSE Address(Cur.loc)]
             R == [addr : Locs \cup {"bounce"}, nbytes : Lens \cup {0}]
  <1>1. fDstDesc' = Append(fDstDesc, d) /\ fSrcDesc' = fSrcDesc
    BY DEF PostDst
  <1>2. fDstDesc \in Seq(R)
    BY DEF Scalars
  <1> HIDE DEF d, R
  <1>3. /\ Len(fDstDesc) \in Nat /\ Len(fDstDesc') = Len(fDstDesc) + 1
        /\ \A i \in 1 .. Len(fDstDesc) : fDstDesc'[i] = fDstDesc[i]
        /\ fDstDesc'[Len(fDstDesc) + 1] = d
    BY <1>1, <1>2
  <1> QED BY <1>1, <1>3 DEF d, nDst, nSrc

(* A posted source descriptor likewise. *)
LEMMA SrcAppended ==
  ASSUME Scalars, PostSrc
  PROVE  /\ nSrc \in Nat /\ nSrc' = nSrc + 1 /\ nDst' = nDst
         /\ \A i \in 1 .. nSrc : fSrcDesc'[i] = fSrcDesc[i]
         /\ fSrcDesc'[nSrc + 1] = [nbytes |-> Cur.len,
              addr |-> IF Cur.dir = "read" THEN Address(Cur.loc) ELSE "bounce"]
  <1> DEFINE d == [nbytes |-> Cur.len,
                   addr |-> IF Cur.dir = "read" THEN Address(Cur.loc) ELSE "bounce"]
             R == [addr : Locs \cup {"bounce"}, nbytes : Lens]
  <1>1. fSrcDesc' = Append(fSrcDesc, d) /\ fDstDesc' = fDstDesc
    BY DEF PostSrc
  <1>2. fSrcDesc \in Seq(R)
    BY DEF Scalars
  <1> HIDE DEF d, R
  <1>3. /\ Len(fSrcDesc) \in Nat /\ Len(fSrcDesc') = Len(fSrcDesc) + 1
        /\ \A i \in 1 .. Len(fSrcDesc) : fSrcDesc'[i] = fSrcDesc[i]
        /\ fSrcDesc'[Len(fSrcDesc) + 1] = d
    BY <1>1, <1>2
  <1> QED BY <1>1, <1>3 DEF d, nDst, nSrc

(* No other step changes the number of descriptors, and but for the        *)
(* landing of one, none changes the rings.                                 *)
LEMMA RingsKept ==
  ASSUME Scalars, Waits \/ RecvDone \/ Engine \/ UNCHANGED vars
  PROVE  /\ fSrcDesc' = fSrcDesc /\ nSrc' = nSrc /\ nDst' = nDst
         /\ EngDesc \/ fDstDesc' = fDstDesc
  <1>1. fDstDesc' = fDstDesc \/ EngDesc
    BY WaitsFrame, RecvFrame DEF Engine, EngFetch, EngIndex, EngPayload, vars, ring
  <1>2. fSrcDesc' = fSrcDesc
    BY WaitsFrame, RecvFrame, EngineFrame DEF vars, ring
  <1>3. EngDesc => Len(fDstDesc') = Len(fDstDesc)
    BY DEF EngDesc, Scalars
  <1> QED BY <1>1, <1>2, <1>3 DEF nDst, nSrc

-----------------------------------------------------------------------------
(* One lemma per part of the invariant.                                    *)

(* The steps, the waits of the host taken together. *)
LEMMA NextCases ==
  ASSUME [Next]_vars
  PROVE  \/ PostDst \/ PostSrc \/ Waits \/ RecvDone
         \/ EngFetch \/ EngIndex \/ EngPayload \/ EngDesc
         \/ UNCHANGED vars
  BY DEF Next, Host, Engine, Waits

(* Types. *)
LEMMA ScalarsStep == IInv /\ [Next]_vars => Scalars'
  <1> SUFFICES ASSUME IInv, [Next]_vars PROVE Scalars'
    OBVIOUS
  <1>a. Scalars /\ Counters /\ Posted
    BY DEF IInv
  <1>1. CASE PostDst
    <2>1. op \in 1 .. 13 /\ Cur = Ops[op]
      BY <1>1, RunningIs DEF PostDst
    <2>0. HostWord(Cur.loc) \in Data /\ Address(Cur.loc) \in Locs
      BY <2>1, HostTypes
    <2>2. bounce' \in Data
      BY <1>1, <1>a, <2>0 DEF PostDst, Scalars
    <2>3. PICK d \in [addr : Locs \cup {"bounce"}, nbytes : Lens \cup {0}] :
            fDstDesc' = Append(fDstDesc, d)
      BY <1>1, <2>0 DEF PostDst
    <2>4. fDstDesc' \in Seq([addr : Locs \cup {"bounce"}, nbytes : Lens \cup {0}])
      BY <2>3, <1>a, AppendProperties DEF Scalars
    <2> QED BY <1>1, <1>a, <2>2, <2>4 DEF PostDst, Scalars, eng
  <1>2. CASE PostSrc
    <2>1. op \in 1 .. 13 /\ Cur = Ops[op]
      BY <1>2, RunningIs DEF PostSrc
    <2>2. Cur.len \in Lens /\ Address(Cur.loc) \in Locs
      BY <2>1, HostTypes, OpsTypes
    <2>3. PICK d \in [addr : Locs \cup {"bounce"}, nbytes : Lens] :
            fSrcDesc' = Append(fSrcDesc, d)
      BY <1>2, <2>2 DEF PostSrc
    <2>4. fSrcDesc' \in Seq([addr : Locs \cup {"bounce"}, nbytes : Lens])
      BY <2>3, <1>a, AppendProperties DEF Scalars
    <2> QED BY <1>2, <1>a, <2>4 DEF PostSrc, Scalars, eng
  <1>3. CASE Waits
    <2>1. op' \in 0 .. 14 /\ sub' \in {"call", "src", "send", "recv"}
      <3>1. CASE Fail
        <4>1. op' \in 0 .. 3 /\ sub' = "call"
          BY <1>3, <3>1, WaitsFrame, FailIs
        <4> QED BY <4>1
      <3>2. CASE op' = op /\ sub' = "recv"
        BY <3>2, <1>a DEF Scalars
      <3> QED BY <3>1, <3>2, <1>3, WaitsFrame
    <2> QED BY <1>3, <1>a, <2>1, WaitsFrame DEF Scalars
  <1>4. CASE RecvDone
    <2>1. op \in 1 .. 13 /\ Cur = Ops[op]
      BY <1>4, RunningIs DEF RecvDone
    <2>2. CASE Fail
      BY <1>4, <2>2, <1>a, RecvFrame, FailIs DEF Scalars
    <2>3. CASE RecvOk
      <3>1. got' \subseteq Locs
        BY <2>1, <2>3, <1>a, OpsTypes DEF RecvOk, Scalars
      <3>2. op' \in 0 .. 14 /\ sub' = "call"
        BY <2>1, <2>3 DEF RecvOk
      <3> QED BY <3>1, <3>2, <1>4, <1>a, RecvFrame DEF Scalars
    <2> QED BY <2>2, <2>3, <1>4, RecvFrame
  <1>5. CASE EngFetch
    <2>1. srri + 1 \in 1 .. Len(fSrcDesc)
      BY <1>5, <1>a DEF EngFetch, Scalars
    <2>2. fSrcDesc[srri + 1] \in [addr : Locs \cup {"bounce"}, nbytes : Lens]
      BY <2>1, <1>a, ElementOfSeq DEF Scalars
    <2>3. PICK a \in Locs \cup {"bounce"} : a = fSrcDesc[srri + 1].addr
      BY <2>2
    <2>4. (IF a = "bounce" THEN bounce ELSE Contents(a)) \in Data
      BY <1>a DEF Scalars, Contents, Data
    <2>5. flight' = Append(flight, IF a = "bounce" THEN bounce ELSE Contents(a))
      BY <1>5, <2>3 DEF EngFetch
    <2>6. flight' \in Seq(Data)
      BY <2>4, <2>5, <1>a, AppendProperties DEF Scalars
    <2> QED BY <1>5, <1>a, <2>6 DEF EngFetch, Scalars, host, ring
  <1>6. CASE EngIndex
    BY <1>6, <1>a DEF EngIndex, Scalars, host, ring
  <1>7. CASE EngPayload
    <2>1. flight # <<>> /\ payload' \in Nat
      BY <1>7, <1>a, EngineCounters DEF Scalars
    <2>2. Tail(flight) \in Seq(Data) /\ Head(flight) \in Data
      BY <2>1, <1>a, HeadTailProperties DEF Scalars
    <2>3. bounce' \in Data /\ flight' \in Seq(Data)
      BY <1>7, <1>a, <2>2 DEF EngPayload, Scalars
    <2> QED BY <1>7, <1>a, <2>1, <2>3 DEF EngPayload, Scalars, host, ring
  <1>8. CASE EngDesc
    <2>1. drri \in 1 .. Len(fSrcDesc) /\ landed' \in Nat
      BY <1>8, <1>a, EngineCounters DEF Scalars, Counters, nSrc
    <2>0. fSrcDesc[drri] \in [addr : Locs \cup {"bounce"}, nbytes : Lens]
      BY <2>1, <1>a, ElementOfSeq DEF Scalars
    <2>2. PICK n \in Lens : n = fSrcDesc[drri].nbytes
      BY <2>0
    <2>3. fDstDesc' = [fDstDesc EXCEPT ![drri].nbytes = n]
      BY <1>8, <2>2 DEF EngDesc
    <2>4. fDstDesc' = [fDstDesc EXCEPT ![drri] = [fDstDesc[drri] EXCEPT !.nbytes = n]]
      BY <2>3
    <2>5. drri \in 1 .. Len(fDstDesc)
      BY <2>1, <1>a DEF Scalars, Posted, nDst, nSrc
    <2>6. [fDstDesc[drri] EXCEPT !.nbytes = n]
            \in [addr : Locs \cup {"bounce"}, nbytes : Lens \cup {0}]
      <3>1. fDstDesc[drri] \in [addr : Locs \cup {"bounce"}, nbytes : Lens \cup {0}]
        BY <2>5, <1>a, ElementOfSeq DEF Scalars
      <3> QED BY <3>1, <2>2
    <2>7. fDstDesc' \in Seq([addr : Locs \cup {"bounce"}, nbytes : Lens \cup {0}])
      BY <2>4, <2>5, <2>6, <1>a, ExceptSeq DEF Scalars
    <2> QED BY <1>8, <1>a, <2>1, <2>7 DEF EngDesc, Scalars, host
  <1>9. CASE UNCHANGED vars
    BY <1>9, <1>a DEF Scalars, vars, host, ring, eng
  <1> QED BY <1>1, <1>2, <1>3, <1>4, <1>5, <1>6, <1>7, <1>8, <1>9, NextCases

(* The descriptors in the rings are counted by op and sub. *)
LEMMA PostedStep == IInv /\ [Next]_vars => Posted'
  <1> SUFFICES ASSUME IInv, [Next]_vars PROVE Posted'
    OBVIOUS
  <1>a. /\ Posted /\ nDst \in Nat /\ nSrc \in Nat
        /\ sub \in {"call", "src", "send", "recv"} /\ op \in 0 .. 14
    BY DEF IInv, Scalars, nDst, nSrc
  <1>1. CASE PostDst
    <2>1. op \in 1 .. 13 /\ op' = op /\ sub = "call" /\ sub' = "src"
      BY <1>1, RunningIs DEF PostDst
    <2>2. nDst' = nDst + 1 /\ nSrc' = nSrc
      BY <1>1, DstAppended DEF IInv
    <2> QED BY <2>1, <2>2, <1>a DEF Posted
  <1>2. CASE PostSrc
    <2>1. op \in 1 .. 13 /\ op' = op /\ sub = "src" /\ sub' = "send"
      BY <1>2, RunningIs DEF PostSrc
    <2>2. nDst' = nDst /\ nSrc' = nSrc + 1
      BY <1>2, SrcAppended DEF IInv
    <2> QED BY <2>1, <2>2, <1>a DEF Posted
  <1>3. CASE Waits
    <2>1. nDst' = nDst /\ nSrc' = nSrc /\ nDst = op /\ nSrc = op /\ op \in 1 .. 13
      BY <1>3, <1>a, WaitsFrame, RunningIs DEF nDst, nSrc, Posted
    <2>2. CASE Fail
      <3>1. \/ op \in {1, 2} /\ op' = op + 1 /\ sub' = "call"
            \/ op' = 0 /\ sub' = "call"
        BY <1>3, <2>2, WaitsFrame, FailIs
      <3> QED BY <3>1, <2>1 DEF Posted
    <2>3. CASE op' = op /\ sub' = "recv"
      BY <2>1, <2>3 DEF Posted
    <2> QED BY <2>2, <2>3, <1>3, WaitsFrame
  <1>4. CASE RecvDone
    <2>1. nDst' = nDst /\ nSrc' = nSrc /\ nDst = op /\ nSrc = op /\ op \in 1 .. 13
      BY <1>4, <1>a, RecvFrame, RunningIs DEF nDst, nSrc, Posted
    <2>2. (op' = op + 1 /\ sub' = "call") \/ (op' = 0 /\ sub' = "call")
      BY <1>4, RecvFrame, FailIs DEF RecvOk
    <2> QED BY <2>1, <2>2 DEF Posted
  <1>5. CASE Engine
    <2>1. nDst' = nDst /\ nSrc' = nSrc /\ op' = op /\ sub' = sub
      BY <1>5, EngineFrame, RingsKept DEF IInv
    <2> QED BY <2>1, <1>a DEF Posted
  <1>9. CASE UNCHANGED vars
    BY <1>9, <1>a DEF Posted, nDst, nSrc, vars, host, ring, eng
  <1> QED BY <1>1, <1>2, <1>3, <1>4, <1>5, <1>9, NextCases DEF Engine

(* The counters keep their order. *)
LEMMA CountersStep == IInv /\ [Next]_vars => Counters'
  <1> SUFFICES ASSUME IInv, [Next]_vars PROVE Counters'
    OBVIOUS
  <1>a. /\ Scalars /\ Counters
        /\ srri \in Nat /\ drri \in Nat /\ payload \in Nat
        /\ landed \in Nat /\ fDstSw \in Nat
        /\ Len(flight) \in Nat /\ nSrc \in Nat
    BY DEF IInv, Scalars, nSrc
  <1>1. CASE PostDst
    <2>1. UNCHANGED <<nSrc, srri, drri, payload, landed, fDstSw, flight>>
      BY <1>1 DEF PostDst, eng, nSrc
    <2> QED BY <2>1, <1>a DEF Counters
  <1>2. CASE PostSrc
    <2>1. UNCHANGED <<srri, drri, payload, landed, fDstSw, flight>> /\ nSrc' = nSrc + 1
      BY <1>2, <1>a, SrcAppended DEF PostSrc, eng
    <2> QED BY <2>1, <1>a DEF Counters
  <1>3. CASE Waits
    <2>1. UNCHANGED <<nSrc, srri, drri, payload, landed, fDstSw, flight>>
      BY <1>3, WaitsFrame DEF nSrc
    <2> QED BY <2>1, <1>a DEF Counters
  <1>4. CASE RecvDone
    <2>1. /\ UNCHANGED <<nSrc, srri, drri, payload, landed, flight>>
          /\ drri # fDstSw /\ fDstSw' = fDstSw + 1
      BY <1>4, RecvFrame DEF nSrc
    <2> QED BY <2>1, <1>a DEF Counters
  <1>5. CASE EngFetch
    <2>1. Len(flight') = Len(flight) + 1
      BY <1>5 DEF EngFetch, IInv, Scalars
    <2>2. nSrc' = nSrc /\ fDstSw' = fDstSw
      BY <1>5, EngineFrame DEF Engine, nSrc
    <2> QED BY <2>1, <2>2, <1>5, <1>a, EngineCounters DEF Counters
  <1>6. CASE EngIndex
    <2>1. flight' = flight /\ nSrc' = nSrc /\ fDstSw' = fDstSw
      BY <1>6, EngineFrame DEF Engine, EngIndex, nSrc
    <2> QED BY <2>1, <1>6, <1>a, EngineCounters DEF Counters
  <1>7. CASE EngPayload
    <2>1. Len(flight') = Len(flight) - 1
      <3>1. Len(flight) > 0
        BY <1>7, <1>a, EngineCounters
      <3>2. flight' = Tail(flight) /\ flight # <<>> /\ flight \in Seq(Data)
        BY <1>7, <3>1, <1>a DEF EngPayload, Scalars
      <3> QED BY <3>2, HeadTailProperties
    <2>2. nSrc' = nSrc /\ fDstSw' = fDstSw
      BY <1>7, EngineFrame DEF Engine, nSrc
    <2> QED BY <2>1, <2>2, <1>7, <1>a, EngineCounters DEF Counters
  <1>8. CASE EngDesc
    <2>1. flight' = flight /\ nSrc' = nSrc /\ fDstSw' = fDstSw
      BY <1>8, EngineFrame DEF Engine, EngDesc, nSrc
    <2> QED BY <2>1, <1>8, <1>a, EngineCounters DEF Counters
  <1>9. CASE UNCHANGED vars
    BY <1>9, <1>a DEF Counters, vars, ring, eng, nSrc
  <1> QED BY <1>1, <1>2, <1>3, <1>4, <1>5, <1>6, <1>7, <1>8, <1>9, NextCases

(* The length check: a transfer that returns true consumed its own         *)
(* completion, with everything before it landed and the bounce buffer      *)
(* holding what it asked for; or it is the read of the pcie_state pointer  *)
(* and the completion is the proof-of-life read's.                         *)
LEMMA RecvOkExact ==
  ASSUME IInv, RecvDone, RecvOk
  PROVE  \/ op = 3 /\ fDstSw = 0 /\ landed >= 1
         \/ /\ op \in 1 .. 13 /\ fDstSw = op - 1 /\ landed = op /\ payload = op
            /\ ~IsWrite(op) => bounce = Contents(Cur.loc)
  <1>1. op \in 1 .. 13 /\ Cur = Ops[op] /\ sub = "recv" /\ nSrc = op /\ nDst = op
    BY RecvFrame, RunningIs DEF IInv, Posted
  <1>2. /\ srri \in Nat /\ drri \in Nat /\ payload \in Nat
        /\ landed \in Nat /\ fDstSw \in Nat
        /\ landed <= payload /\ payload <= drri /\ drri <= srri /\ srri <= op
        /\ fDstSw <= drri /\ drri # fDstSw
    BY <1>1, RecvFrame DEF IInv, Scalars, Counters
  <1>3. fDstSw + 1 \in 1 .. op /\ fDstSw + 1 \in 1 .. 13 /\ fDstSw + 1 \in 1 .. nDst
    BY <1>1, <1>2
  <1>4. /\ fDstDesc[fDstSw + 1].nbytes = Ops[op].len
        /\ fDstDesc[fDstSw + 1].nbytes = IF fDstSw + 1 <= landed THEN Ops[fDstSw + 1].len
                                                                ELSE 0
    BY <1>1, <1>3 DEF IInv, DstInv, RecvOk, LengthOk
  <1>5. fDstSw + 1 <= landed /\ Ops[fDstSw + 1].len = Ops[op].len
    BY <1>1, <1>3, <1>4, OpsLen
  <1>6. CASE fDstSw = op - 1
    <2>1. landed = op /\ payload = op
      BY <1>6, <1>1, <1>2, <1>5
    <2>2. ASSUME ~IsWrite(op) PROVE bounce = Contents(Cur.loc)
      <3>1. bounce = Contents(fSrcDesc[op].addr)
        BY <2>1, <2>2, <1>1 DEF IInv, BounceInv
      <3>2. fSrcDesc[op].addr = SrcAddr(op) \/ (op = 4 /\ fDstSw <= 2)
        BY <1>1 DEF IInv, SrcInv
      <3>3. fSrcDesc[op].addr = Ops[op].loc
        BY <3>2, <1>1, <1>6, <2>2 DEF SrcAddr
      <3> QED BY <3>1, <3>3, <1>1
    <2> QED BY <1>1, <1>6, <2>1, <2>2
  <1>7. CASE fDstSw # op - 1
    <2>1. op \in {2, 3, 4}
      BY <1>1, <1>2, <1>3, <1>7 DEF IInv, Pace, InStep, Behind
    <2>2. op = 2 => fDstSw = 0
      BY <1>2, <1>3, <1>7
    <2>3. op = 3 => fDstSw \in {0, 1}
      BY <1>2, <1>3, <1>7
    <2>4. op = 4 => fDstSw = 1
      BY <1>7 DEF IInv, Pace, InStep, Behind
    <2> QED BY <1>5, <2>1, <2>2, <2>3, <2>4, OpsLen
  <1> QED BY <1>6, <1>7

(* How far the host has come. *)
LEMMA PaceStep == IInv /\ [Next]_vars => Pace'
  <1> SUFFICES ASSUME IInv, [Next]_vars PROVE Pace'
    OBVIOUS
  <1>a. /\ op \in 0 .. 14 /\ Scalars /\ Counters /\ Posted /\ Pace
        /\ landed \in Nat /\ fDstSw \in Nat /\ nDst \in Nat
    BY DEF IInv, Scalars, nDst
  <1>1. CASE PostDst
    <2>1. /\ op \in 1 .. 13 /\ nDst = op - 1 /\ nDst' = op
          /\ op' = op /\ got' = got /\ fDstSw' = fDstSw /\ landed' = landed
      BY <1>1, <1>a, RunningIs, DstAppended DEF PostDst, Posted, eng
    <2>2. op >= 5 => landed >= op - 1
      BY <1>a DEF Pace, InStep, Behind
    <2>3. op >= 4 => (InStep \/ Behind)'
      BY <2>1, <1>a DEF Pace, InStep, Behind
    <2> QED BY <2>1, <2>2, <2>3, <1>a DEF Pace
  <1>2. CASE PostSrc
    <2>1. /\ nDst' = nDst
          /\ op' = op /\ got' = got /\ fDstSw' = fDstSw /\ landed' = landed
      BY <1>2 DEF PostSrc, nDst, eng
    <2> QED BY <2>1, <1>a DEF Pace, InStep, Behind
  <1>3. CASE Waits
    <2>1. nDst' = nDst /\ got' = got /\ fDstSw' = fDstSw /\ landed' = landed /\ Running
      BY <1>3, WaitsFrame DEF nDst
    <2>2. CASE op' = op
      BY <2>1, <2>2, <1>a DEF Pace, InStep, Behind
    <2>3. CASE Fail
      <3>1. (op \in {1, 2} /\ op' = op + 1) \/ op' = 0
        BY <2>1, <2>3, FailIs
      <3> QED BY <3>1, <2>1, <1>a DEF Pace
    <2> QED BY <2>2, <2>3, <1>3, WaitsFrame
  <1>4. CASE RecvDone
    <2>1. nDst' = nDst /\ fDstSw' = fDstSw + 1 /\ landed' = landed /\ Running
      BY <1>4, RecvFrame DEF nDst
    <2>2. CASE Fail
      <3>1. (op \in {1, 2} /\ op' = op + 1) \/ op' = 0
        BY <2>1, <2>2, FailIs
      <3> QED BY <3>1, <2>1, <1>a DEF Pace
    <2>3. CASE RecvOk
      <3>1. op' = op + 1 /\ op \in 1 .. 13 /\ Cur = Ops[op]
        BY <2>1, <2>3, RunningIs DEF RecvOk
      <3>2. CASE op = 3 /\ fDstSw = 0 /\ landed >= 1
        BY <3>1, <3>2, <2>1, <1>a DEF Pace, Behind
      <3>3. CASE /\ fDstSw = op - 1 /\ landed = op
                 /\ ~IsWrite(op) => bounce = Contents(Cur.loc)
        <4>1. op' \in 1 .. 3 => fDstSw' < op'
          BY <3>1, <3>3, <2>1
        <4>2. op' >= 4 => InStep'
          <5>1. ~IsWrite(op) => Ops[op].loc \in got'
            BY <2>1, <2>3, <3>1, <3>3, RunningIs DEF RecvOk
          <5>2. got \subseteq got'
            BY <2>3 DEF RecvOk
          <5>3. op >= 4 => \A i \in 3 .. op - 1 : ~IsWrite(i) => Ops[i].loc \in got
            BY <3>3, <1>a DEF Pace, InStep, Behind
          <5>4. op' >= 4 => \A i \in 3 .. op' - 1 : ~IsWrite(i) => Ops[i].loc \in got'
            BY <5>1, <5>2, <5>3, <3>1
          <5> QED BY <5>4, <3>1, <3>3, <2>1 DEF InStep, IsWrite
        <4> QED BY <4>1, <4>2, <2>1, <1>a DEF Pace
      <3> QED BY <3>2, <3>3, <1>4, <2>3, RecvOkExact
    <2> QED BY <2>2, <2>3, <1>4, RecvFrame
  <1>5. CASE Engine
    <2>1. nDst' = nDst /\ op' = op /\ got' = got /\ fDstSw' = fDstSw
      BY <1>5, <1>a, EngineFrame, RingsKept
    <2>2. landed' \in Nat /\ landed' >= landed
      BY <1>5, <1>a, EngineCounters DEF Engine
    <2> QED BY <2>1, <2>2, <1>a DEF Pace, InStep, Behind
  <1>9. CASE UNCHANGED vars
    BY <1>9, <1>a DEF Pace, InStep, Behind, vars, host, ring, eng, nDst
  <1> QED BY <1>1, <1>2, <1>3, <1>4, <1>5, <1>9, NextCases DEF Engine

(* Source descriptors. *)
LEMMA SrcStep == IInv /\ [Next]_vars => SrcInv'
  <1> SUFFICES ASSUME IInv, [Next]_vars PROVE SrcInv'
    OBVIOUS
  <1>a. /\ op \in 0 .. 14 /\ Scalars /\ Counters /\ Posted /\ Pace /\ SrcInv
        /\ fDstSw \in Nat /\ nDst \in Nat /\ nSrc \in Nat
    BY DEF IInv, Scalars, nDst, nSrc
  <1>b. ASSUME nDst = 4, fDstSw <= 2, op # 0 PROVE op = 4 /\ fDstSw = 1
    <2>1. op \in {4, 5}
      BY <1>a, <1>b DEF Posted, Scalars
    <2> QED BY <2>1, <1>b, <1>a DEF Pace, InStep, Behind
  <1>1. CASE PostDst
    <2>1. op \in 1 .. 13 /\ nDst = op - 1 /\ nDst' = op /\ fDstSw' = fDstSw
      BY <1>1, <1>a, RunningIs, DstAppended DEF PostDst, Posted
    <2>2. fSrcDesc' = fSrcDesc /\ nSrc' = nSrc /\ ~(nDst = 4 /\ fDstSw <= 2)
      BY <1>1, <1>a, <1>b, <2>1 DEF PostDst, nSrc
    <2>3. \A i \in 1 .. nSrc : fSrcDesc[i].nbytes = Ops[i].len
                               /\ fSrcDesc[i].addr = SrcAddr(i)
      BY <2>2, <1>a DEF SrcInv
    <2> QED BY <2>2, <2>3 DEF SrcInv, SrcAddr, IsWrite
  <1>2. CASE PostSrc
    <2>1. op \in 1 .. 13 /\ nDst = op /\ nSrc = op - 1 /\ Running
      BY <1>2, <1>a, RunningIs DEF PostSrc, Posted
    <2>2. /\ nDst' = nDst /\ fDstSw' = fDstSw /\ nSrc' = op
          /\ \A i \in 1 .. nSrc : fSrcDesc'[i] = fSrcDesc[i]
          /\ fSrcDesc'[op].nbytes = Ops[op].len
          /\ fSrcDesc'[op].addr = IF IsWrite(op) THEN "bounce" ELSE Address(Cur.loc)
      <3>1. nSrc + 1 = op /\ fDstSw' = fDstSw
        BY <1>2, <2>1 DEF PostSrc
      <3>2. fSrcDesc'[op] = [nbytes |-> Cur.len,
              addr |-> IF Cur.dir = "read" THEN Address(Cur.loc) ELSE "bounce"]
        BY <1>2, <1>a, <3>1, SrcAppended
      <3>3. fSrcDesc'[op] = [nbytes |-> Ops[op].len,
              addr |-> IF IsWrite(op) THEN "bounce" ELSE Address(Cur.loc)]
        BY <3>2, <2>1, RunningIs
      <3> QED BY <3>1, <3>3, <1>2, <1>a, SrcAppended
    <2>3. \/ fSrcDesc'[op].addr = SrcAddr(op)
          \/ fSrcDesc'[op].addr = "wild" /\ op = 4 /\ nDst = 4 /\ fDstSw <= 2
      <3>1. CASE Behind
        BY <3>1, <2>1, <2>2, RunningIs DEF Behind, SrcAddr, Address
      <3>2. CASE ~Behind
        BY <3>2, <2>1, <2>2, HostExact, RunningIs DEF SrcAddr
      <3> QED BY <3>1, <3>2
    <2>4. SUFFICES ASSUME NEW i \in 1 .. op
                   PROVE  /\ fSrcDesc'[i].nbytes = Ops[i].len
                          /\ \/ fSrcDesc'[i].addr = SrcAddr(i)
                             \/ /\ fSrcDesc'[i].addr = "wild"
                                /\ i = 4 /\ nDst = 4 /\ fDstSw <= 2
      BY <2>2 DEF SrcInv, SrcAddr, IsWrite
    <2>5. CASE i = op
      BY <2>5, <2>2, <2>3
    <2>6. CASE i # op
      <3>1. i \in 1 .. nSrc
        BY <2>6, <2>1
      <3> QED BY <3>1, <2>2, <1>a DEF SrcInv
    <2> QED BY <2>5, <2>6
  <1>3. CASE Waits \/ Engine \/ UNCHANGED vars
    <2>1. fSrcDesc' = fSrcDesc /\ nSrc' = nSrc /\ nDst' = nDst
      BY <1>3, <1>a, RingsKept
    <2>2. fDstSw' = fDstSw
      BY <1>3, WaitsFrame, EngineFrame DEF vars, ring
    <2> QED BY <2>1, <2>2, <1>a DEF SrcInv, SrcAddr, IsWrite
  <1>4. CASE RecvDone
    <2>1. fSrcDesc' = fSrcDesc /\ nSrc' = nSrc /\ nDst' = nDst
      BY <1>4, <1>a, RingsKept
    <2>2. op # 0 /\ fDstSw' = fDstSw + 1
      BY <1>4, RecvFrame, RunningIs
    <2>3. nDst = 4 /\ fDstSw <= 2 => fDstSw' <= 2
      BY <1>b, <2>2
    <2> QED BY <2>1, <2>2, <2>3, <1>a DEF SrcInv, SrcAddr, IsWrite
  <1> QED BY <1>1, <1>2, <1>3, <1>4, NextCases DEF Engine

(* Destination descriptors. *)
LEMMA DstStep == IInv /\ [Next]_vars => DstInv'
  <1> SUFFICES ASSUME IInv, [Next]_vars PROVE DstInv'
    OBVIOUS
  <1>a. /\ op \in 0 .. 14 /\ Scalars /\ Counters /\ Posted /\ Pace /\ DstInv
        /\ landed \in Nat /\ nDst \in Nat /\ nSrc \in Nat
    BY DEF IInv, Scalars, nDst, nSrc
  <1>1. CASE PostDst
    <2>1. op \in 1 .. 13 /\ nDst = op - 1 /\ nSrc = op - 1 /\ nDst' = op /\ Running
      BY <1>1, <1>a, RunningIs, DstAppended DEF PostDst, Posted
    <2>2. /\ \A i \in 1 .. nDst : fDstDesc'[i] = fDstDesc[i]
          /\ fDstDesc'[op].nbytes = 0 /\ landed' = landed
          /\ fDstDesc'[op].addr = IF IsWrite(op) THEN Address(Cur.loc) ELSE "bounce"
      <3>1. nDst + 1 = op /\ landed' = landed
        BY <1>1, <2>1 DEF PostDst, eng
      <3>2. fDstDesc'[op] = [nbytes |-> 0,
              addr |-> IF Cur.dir = "read" THEN "bounce" ELSE Address(Cur.loc)]
        BY <1>1, <1>a, <3>1, DstAppended
      <3>3. fDstDesc'[op] = [nbytes |-> 0,
              addr |-> IF IsWrite(op) THEN Address(Cur.loc) ELSE "bounce"]
        BY <3>2, <2>1, RunningIs
      <3> QED BY <3>1, <3>3, <1>1, <1>a, DstAppended
    <2>3. landed < op
      BY <1>a, <2>1 DEF Counters, Scalars
    <2>4. fDstDesc'[op].addr = DstAddr(op)
      <3>1. IsWrite(op) => ~Behind
        BY <2>1, OpsDir DEF Behind
      <3> QED BY <3>1, <2>1, <2>2, HostExact, RunningIs DEF DstAddr
    <2>5. SUFFICES ASSUME NEW i \in 1 .. op
                   PROVE  /\ fDstDesc'[i].nbytes = IF i <= landed THEN Ops[i].len ELSE 0
                          /\ fDstDesc'[i].addr = DstAddr(i)
      BY <2>1, <2>2 DEF DstInv, DstAddr, IsWrite
    <2>6. CASE i = op
      <3>1. ~(i <= landed)
        BY <2>6, <2>1, <2>3, <1>a
      <3> QED BY <3>1, <2>6, <2>2, <2>4
    <2>7. CASE i # op
      <3>1. i \in 1 .. nDst
        BY <2>7, <2>1
      <3> QED BY <3>1, <2>2, <1>a DEF DstInv
    <2> QED BY <2>6, <2>7
  <1>2. CASE PostSrc
    <2>1. fDstDesc' = fDstDesc /\ nDst' = nDst /\ landed' = landed
      BY <1>2 DEF PostSrc, nDst, eng
    <2> QED BY <2>1, <1>a DEF DstInv, DstAddr, IsWrite
  <1>3. CASE Waits \/ RecvDone \/ EngFetch \/ EngIndex \/ EngPayload \/ UNCHANGED vars
    <2>1. fDstDesc' = fDstDesc /\ nDst' = nDst /\ landed' = landed
      BY <1>3, WaitsFrame, RecvFrame
         DEF EngFetch, EngIndex, EngPayload, vars, ring, eng, nDst
    <2> QED BY <2>1, <1>a DEF DstInv, DstAddr, IsWrite
  <1>4. CASE EngDesc
    <2>1. /\ nDst' = nDst /\ drri \in Nat /\ drri = landed + 1 /\ landed' = drri
          /\ drri <= srri /\ drri \in 1 .. nSrc /\ drri \in 1 .. nDst
      <3>1. drri \in Nat /\ drri = landed + 1 /\ landed' = drri /\ drri <= srri
            /\ drri \in 1 .. nSrc
        BY <1>4, <1>a, EngineCounters DEF Counters, Scalars
      <3>2. nSrc <= nDst
        BY <1>a DEF Posted, Scalars
      <3>3. nDst' = nDst
        BY <1>4, <1>a, RingsKept DEF Engine
      <3> QED BY <3>1, <3>2, <3>3, <1>a
    <2>2. PICK n \in Nat : n = Ops[drri].len /\ fSrcDesc[drri].nbytes = n
      <3>1. drri \in 1 .. 13
        BY <2>1, <1>a DEF Posted
      <3> QED BY <2>1, <3>1, OpsLen DEF IInv, SrcInv
    <2>3. fDstDesc' = [fDstDesc EXCEPT ![drri].nbytes = n]
      BY <1>4, <2>2 DEF EngDesc
    <2>4. /\ DOMAIN fDstDesc = 1 .. nDst
          /\ \A i \in 1 .. nDst :
               fDstDesc[i] \in [addr : Locs \cup {"bounce"}, nbytes : Lens \cup {0}]
      <3> DEFINE R == [addr : Locs \cup {"bounce"}, nbytes : Lens \cup {0}]
      <3>1. fDstDesc \in Seq(R)
        BY <1>a DEF Scalars
      <3> HIDE DEF R
      <3>2. DOMAIN fDstDesc = 1 .. Len(fDstDesc)
            /\ \A i \in 1 .. Len(fDstDesc) : fDstDesc[i] \in R
        BY <3>1
      <3> QED BY <3>2 DEF R, nDst
    <2>5. SUFFICES ASSUME NEW i \in 1 .. nDst
                   PROVE  /\ fDstDesc'[i].nbytes = IF i <= drri THEN Ops[i].len ELSE 0
                          /\ fDstDesc'[i].addr = DstAddr(i)
      BY <2>1 DEF DstInv, DstAddr, IsWrite
    <2>6. CASE i = drri
      <3>1. fDstDesc'[i].nbytes = n /\ fDstDesc'[i].addr = fDstDesc[i].addr
        BY <2>3, <2>4, <2>6
      <3> QED BY <3>1, <2>2, <2>6, <2>1, <1>a DEF DstInv
    <2>7. CASE i # drri
      <3>1. fDstDesc'[i] = fDstDesc[i]
        BY <2>3, <2>4, <2>7
      <3> QED BY <3>1, <2>7, <2>1, <1>a DEF DstInv
    <2> QED BY <2>6, <2>7
  <1> QED BY <1>1, <1>2, <1>3, <1>4, NextCases

(* What is in the engine. *)
LEMMA FlightStep == IInv /\ [Next]_vars => FlightInv'
  <1> SUFFICES ASSUME IInv, [Next]_vars PROVE FlightInv'
    OBVIOUS
  <1>a. /\ Scalars /\ Counters /\ FlightInv /\ flight \in Seq(Data) /\ Len(flight) \in Nat
        /\ srri \in Nat /\ payload \in Nat /\ nSrc \in Nat /\ nDst \in Nat
    BY DEF IInv, Scalars, nSrc, nDst
  <1>1. CASE PostDst \/ Waits \/ RecvDone \/ EngIndex \/ EngDesc \/ UNCHANGED vars
    <2>1. fSrcDesc' = fSrcDesc /\ flight' = flight /\ payload' = payload
      BY <1>1, WaitsFrame, RecvFrame DEF PostDst, EngIndex, EngDesc, vars, ring, eng
    <2> QED BY <2>1, <1>a DEF FlightInv, Carried, Good, IsWrite
  <1>2. CASE PostSrc
    <2>1. flight' = flight /\ payload' = payload
      BY <1>2 DEF PostSrc, eng
    <2>2. \A i \in 1 .. nSrc : fSrcDesc'[i] = fSrcDesc[i]
      BY <1>2, <1>a, SrcAppended
    <2>3. \A k \in 1 .. Len(flight) : payload + k \in 1 .. nSrc
      BY <1>a DEF Counters
    <2> QED BY <2>1, <2>2, <2>3, <1>a DEF FlightInv, Carried, Good, IsWrite
  <1>3. CASE EngFetch
    <2>1. /\ srri + 1 \in 1 .. nSrc /\ srri + 1 \in 1 .. 13
          /\ fSrcDesc' = fSrcDesc /\ payload' = payload
      <3>1. srri + 1 \in 1 .. nSrc /\ fSrcDesc' = fSrcDesc /\ payload' = payload
        BY <1>3, <1>a, EngineCounters DEF EngFetch, ring
      <3>2. nSrc <= 13
        BY <1>a DEF IInv, Posted, Scalars
      <3> QED BY <3>1, <3>2, <1>a
    <2>2. PICK d \in Data : flight' = Append(flight, d) /\ d = Carried(srri + 1)
      <3>1. CASE IsWrite(srri + 1)
        <4>1. srri + 1 >= 7
          BY <3>1, <2>1, OpsDir
        <4>2. nSrc <= nDst /\ landed \in Nat /\ landed <= srri
          BY <1>a DEF IInv, Posted, Scalars, Counters
        <4>3. nDst >= 5 => landed >= nDst - 1
          BY DEF IInv, Pace
        <4>4. srri + 1 = nDst
          BY <4>1, <4>2, <4>3, <2>1, <1>a
        <4>5. bounce = Good(srri + 1) /\ bounce \in Data
          <5>1. nDst > 0 /\ IsWrite(nDst) /\ srri < nDst
            BY <4>4, <3>1, <1>a
          <5> QED BY <5>1, <4>4 DEF IInv, BounceInv, Scalars
        <4>6. fSrcDesc[srri + 1].addr = "bounce"
          BY <2>1, <3>1, <4>1 DEF IInv, SrcInv, SrcAddr
        <4> QED BY <1>3, <3>1, <4>5, <4>6 DEF EngFetch, Carried
      <3>2. CASE ~IsWrite(srri + 1)
        <4>1. PICK a \in Locs : a = fSrcDesc[srri + 1].addr /\ a # "bounce"
          <5> DEFINE R == [addr : Locs \cup {"bounce"}, nbytes : Lens]
          <5>1. fSrcDesc \in Seq(R) /\ srri + 1 \in 1 .. Len(fSrcDesc)
            BY <1>a, <2>1 DEF Scalars, nSrc
          <5> HIDE DEF R
          <5>2. fSrcDesc[srri + 1] \in R
            BY <5>1, ElementOfSeq
          <5>3. fSrcDesc[srri + 1].addr \in Locs \cup {"bounce"}
            BY <5>2 DEF R
          <5>4. fSrcDesc[srri + 1].addr # "bounce"
            BY <2>1, <3>2, OpsTypes DEF IInv, SrcInv, SrcAddr
          <5> QED BY <5>3, <5>4
        <4>2. Contents(a) \in Data
          BY DEF Contents, Data
        <4> QED BY <1>3, <3>2, <4>1, <4>2 DEF EngFetch, Carried
      <3> QED BY <3>1, <3>2
    <2>3. SUFFICES ASSUME NEW k \in 1 .. Len(flight')
                   PROVE  flight'[k] = Carried(payload + k)
      BY <2>1 DEF FlightInv, Carried, Good, IsWrite
    <2>4. Len(flight') = Len(flight) + 1 /\ flight'[Len(flight) + 1] = d
          /\ \A j \in 1 .. Len(flight) : flight'[j] = flight[j]
      BY <2>2, <1>a
    <2>5. CASE k = Len(flight) + 1
      <3>1. payload + k = srri + 1
        BY <2>5, <1>a DEF Counters
      <3> QED BY <3>1, <2>2, <2>4, <2>5
    <2>6. CASE k # Len(flight) + 1
      <3>1. k \in 1 .. Len(flight)
        BY <2>4, <2>6, <1>a
      <3> QED BY <3>1, <2>4, <1>a DEF FlightInv
    <2> QED BY <2>5, <2>6
  <1>4. CASE EngPayload
    <2>1. flight # <<>> /\ payload' = payload + 1
      BY <1>4, <1>a, EngineCounters
    <2>2. flight' = Tail(flight) /\ fSrcDesc' = fSrcDesc
      BY <1>4 DEF EngPayload, ring
    <2>3. Len(flight') = Len(flight) - 1
          /\ \A k \in 1 .. Len(flight') : flight'[k] = flight[k + 1]
      BY <2>1, <2>2, <1>a, HeadTailProperties
    <2>4. SUFFICES ASSUME NEW k \in 1 .. Len(flight')
                   PROVE  flight'[k] = Carried(payload + 1 + k)
      BY <2>1, <2>2 DEF FlightInv, Carried, Good, IsWrite
    <2>5. k + 1 \in 1 .. Len(flight) /\ payload + (k + 1) = payload + 1 + k
      BY <2>3, <1>a
    <2>6. flight[k + 1] = Carried(payload + (k + 1))
      BY <2>5, <1>a DEF FlightInv
    <2> QED BY <2>3, <2>5, <2>6
  <1> QED BY <1>1, <1>2, <1>3, <1>4, NextCases

(* What is in the bounce buffer. *)
LEMMA BounceStep == IInv /\ [Next]_vars => BounceInv'
  <1> SUFFICES ASSUME IInv, [Next]_vars PROVE BounceInv'
    OBVIOUS
  <1>a. /\ Scalars /\ Counters /\ Posted /\ BounceInv /\ op \in 0 .. 14
        /\ srri \in Nat /\ payload \in Nat /\ landed \in Nat /\ drri \in Nat
        /\ nSrc \in Nat /\ nDst \in Nat
    BY DEF IInv, Scalars, nSrc, nDst
  <1>b. payload <= nSrc /\ landed <= payload
    BY <1>a DEF Counters
  <1>1. CASE PostDst
    <2>1. op \in 1 .. 13 /\ nDst = op - 1 /\ nSrc = op - 1 /\ nDst' = op /\ Running
      BY <1>1, <1>a, RunningIs, DstAppended DEF PostDst, Posted
    <2>2. srri' = srri /\ payload' = payload /\ fSrcDesc' = fSrcDesc
      BY <1>1 DEF PostDst, eng
    <2>3. IsWrite(op) => bounce' = Good(op)
      <3>1. IsWrite(op) => ~Behind
        BY <2>1, OpsDir DEF Behind
      <3> QED BY <3>1, <1>1, <2>1, HostExact, RunningIs DEF PostDst
    <2>4. ~IsWrite(op) => bounce' = bounce
      BY <1>1, <2>1, RunningIs DEF PostDst
    <2>5. nDst > 0 /\ IsWrite(nDst) => payload >= nDst
      <3>1. nDst > 0 /\ IsWrite(nDst) => nDst >= 7
        BY <2>1, OpsDir
      <3>2. op >= 5 => landed >= op - 1
        BY <1>a DEF IInv, Pace, InStep, Behind
      <3> QED BY <3>1, <3>2, <2>1, <1>a, <1>b
    <2>6. nDst' > payload
      BY <2>1, <1>a, <1>b
    <2>7. nDst' > 0 /\ IsWrite(nDst') /\ srri' < nDst' => bounce' = Good(nDst')
      BY <2>1, <2>3
    <2>8. payload > 0 /\ ~IsWrite(payload) /\ ~(nDst' > payload /\ IsWrite(nDst')) =>
            bounce' = Contents(fSrcDesc[payload].addr)
      BY <2>1, <2>4, <2>5, <2>6, <1>a DEF BounceInv
    <2> QED BY <2>2, <2>7, <2>8 DEF BounceInv, Good, IsWrite
  <1>2. CASE PostSrc
    <2>1. nDst' = nDst /\ srri' = srri /\ payload' = payload /\ bounce' = bounce
      BY <1>2 DEF PostSrc, eng, nDst
    <2>2. payload > 0 => fSrcDesc'[payload] = fSrcDesc[payload]
      BY <1>2, <1>a, <1>b, SrcAppended
    <2> QED BY <2>1, <2>2, <1>a DEF BounceInv, Good, IsWrite
  <1>3. CASE Waits \/ RecvDone \/ EngIndex \/ EngDesc \/ UNCHANGED vars
    <2>1. nDst' = nDst /\ fSrcDesc' = fSrcDesc
      BY <1>3, <1>a, RingsKept DEF Engine
    <2>2. srri' = srri /\ payload' = payload /\ bounce' = bounce
      BY <1>3, WaitsFrame, RecvFrame DEF EngIndex, EngDesc, vars, eng
    <2> QED BY <2>1, <2>2, <1>a DEF BounceInv, Good, IsWrite
  <1>4. CASE EngFetch
    <2>1. /\ nDst' = nDst /\ fSrcDesc' = fSrcDesc /\ bounce' = bounce
          /\ payload' = payload /\ srri' = srri + 1
      BY <1>4 DEF EngFetch, ring, nDst
    <2> QED BY <2>1, <1>a DEF BounceInv, Good, IsWrite
  <1>5. CASE EngPayload
    <2>1. /\ nDst' = nDst /\ fSrcDesc' = fSrcDesc /\ srri' = srri
          /\ payload' = drri /\ drri = payload + 1 /\ drri <= srri /\ payload = landed
          /\ flight # <<>> /\ Len(flight) > 0
      BY <1>5, <1>a, EngineCounters DEF EngPayload, ring, nDst
    <2>2. drri \in 1 .. nSrc /\ nSrc <= nDst /\ nDst <= 13
      BY <2>1, <1>a DEF Counters, Posted, Scalars
    <2>3. ~IsWrite(drri) => bounce' = Contents(fSrcDesc[drri].addr)
      <3>1. fDstDesc[drri].addr = DstAddr(drri)
        BY <2>2, <1>a DEF IInv, DstInv
      <3>2. Head(flight) = Carried(drri)
        <4>1. flight[1] = Carried(payload + 1)
          BY <2>1, <1>a DEF IInv, FlightInv, Scalars
        <4>2. Head(flight) = flight[1]
          BY <2>1, <1>a, HeadTailProperties DEF Scalars
        <4> QED BY <4>1, <4>2, <2>1
      <3> QED BY <1>5, <3>1, <3>2 DEF EngPayload, DstAddr, Carried
    <2>4. ~(nDst > 0 /\ IsWrite(nDst) /\ srri < nDst)
      <3>1. nDst > 0 /\ IsWrite(nDst) => nDst >= 7
        BY <2>2, <1>a, OpsDir
      <3>2. nDst >= 5 => landed >= nDst - 1
        BY DEF IInv, Pace
      <3> QED BY <3>1, <3>2, <2>1, <2>2, <1>a
    <2> QED BY <2>1, <2>3, <2>4 DEF BounceInv, Good, IsWrite
  <1> QED BY <1>1, <1>2, <1>3, <1>4, <1>5, NextCases

(* What is in target memory. *)
LEMMA MemStep == IInv /\ [Next]_vars => MemInv'
  <1> DEFINE W(n) == {[loc |-> Ops[i].loc, val |-> Good(i)] :
                        i \in {j \in 1 .. n : IsWrite(j)}}
  <1> SUFFICES ASSUME IInv, [Next]_vars PROVE mem' = W(payload')
    BY DEF MemInv, Good, IsWrite
  <1>a. Scalars /\ Counters /\ Posted /\ mem = W(payload) /\ payload \in Nat
        /\ nSrc \in Nat /\ nDst \in Nat /\ drri \in Nat
    BY DEF IInv, MemInv, Scalars, nSrc, nDst
  <1>1. CASE PostDst \/ PostSrc \/ Waits \/ RecvDone \/ EngFetch \/ EngIndex \/ EngDesc
             \/ UNCHANGED vars
    <2>1. mem' = mem /\ payload' = payload
      BY <1>1, WaitsFrame, RecvFrame
         DEF PostDst, PostSrc, EngFetch, EngIndex, EngDesc, vars, eng
    <2> QED BY <2>1, <1>a
  <1>2. CASE EngPayload
    <2>1. payload' = payload + 1 /\ drri = payload + 1 /\ drri <= srri
          /\ flight # <<>> /\ Len(flight) > 0
      BY <1>2, <1>a, EngineCounters
    <2>2. drri \in 1 .. nDst /\ drri \in 1 .. 13
      BY <2>1, <1>a DEF Counters, Posted, Scalars
    <2>3. fDstDesc[drri].addr = DstAddr(drri)
      BY <2>2, <1>a DEF IInv, DstInv
    <2>4. Head(flight) = Carried(drri)
      <3>1. flight[1] = Carried(payload + 1)
        BY <2>1, <1>a DEF IInv, FlightInv, Scalars
      <3>2. Head(flight) = flight[1]
        BY <2>1, <1>a, HeadTailProperties DEF Scalars
      <3> QED BY <3>1, <3>2, <2>1
    <2>5. CASE IsWrite(drri)
      <3>1. mem' = mem \cup {[loc |-> Ops[drri].loc, val |-> Good(drri)]}
        BY <1>2, <2>2, <2>3, <2>4, <2>5, OpsTypes DEF EngPayload, DstAddr, Carried
      <3>2. {j \in 1 .. payload + 1 : IsWrite(j)} =
            {j \in 1 .. payload : IsWrite(j)} \cup {drri}
        <4>1. 1 .. payload + 1 = 1 .. payload \cup {drri}
          BY <2>1, <1>a
        <4> QED BY <4>1, <2>5, Zenon
      <3>3. W(payload + 1) = W(payload) \cup {[loc |-> Ops[drri].loc, val |-> Good(drri)]}
        BY <3>2, Zenon
      <3> QED BY <3>1, <3>3, <2>1, <1>a
    <2>6. CASE ~IsWrite(drri)
      <3>1. mem' = mem
        BY <1>2, <2>3, <2>6 DEF EngPayload, DstAddr
      <3>2. {j \in 1 .. payload + 1 : IsWrite(j)} = {j \in 1 .. payload : IsWrite(j)}
        <4>1. 1 .. payload + 1 = 1 .. payload \cup {drri}
          BY <2>1, <1>a
        <4> QED BY <4>1, <2>6, Zenon
      <3> QED BY <3>1, <3>2, <2>1, <1>a
    <2> QED BY <2>5, <2>6
  <1> QED BY <1>1, <1>2, NextCases

(* Misreads. *)
LEMMA MisreadStep == IInv /\ [Next]_vars => MisreadInv'
  <1> SUFFICES ASSUME IInv, [Next]_vars PROVE MisreadInv'
    OBVIOUS
  <1>a. /\ Scalars /\ Posted /\ Pace /\ MisreadInv /\ op \in 0 .. 14
        /\ nDst \in Nat /\ fDstSw \in Nat
    BY DEF IInv, Scalars, nDst
  <1>1. CASE PostDst
    <2>1. op' = op /\ fDstSw' = fDstSw /\ misread' = misread /\ op # 0
      BY <1>1, RunningIs DEF PostDst
    <2>2. nDst = op - 1 /\ nDst' = op
      BY <1>1, <1>a, RunningIs, DstAppended DEF PostDst, Posted
    <2> QED BY <2>1, <2>2, <1>a DEF MisreadInv
  <1>2. CASE PostSrc \/ Engine \/ UNCHANGED vars
    <2>1. op' = op /\ fDstSw' = fDstSw /\ misread' = misread
      BY <1>2, EngineFrame DEF PostSrc, vars, host, ring
    <2>2. nDst' = nDst
      BY <1>2, <1>a, SrcAppended, RingsKept
    <2> QED BY <2>1, <2>2, <1>a DEF MisreadInv
  <1>3. CASE Waits
    <2>1. nDst' = nDst /\ misread' = misread /\ fDstSw' = fDstSw /\ Running
      BY <1>3, WaitsFrame DEF nDst
    <2>2. op' = op \/ (op \in {1, 2} /\ op' = op + 1) \/ op' = 0
      BY <1>3, <2>1, WaitsFrame, FailIs
    <2> QED BY <2>1, <2>2, <1>a DEF MisreadInv
  <1>4. CASE RecvDone
    <2>1. nDst' = nDst /\ fDstSw' = fDstSw + 1 /\ Running /\ nDst = op
      BY <1>4, <1>a, RecvFrame DEF nDst, Posted
    <2>2. CASE Fail
      <3>1. misread' = misread /\ ((op \in {1, 2} /\ op' = op + 1) \/ op' = 0)
        BY <2>1, <2>2, FailIs
      <3>2. misread # {} => op = 4
        BY <2>1, <1>a, RunningIs DEF MisreadInv
      <3> QED BY <3>1, <3>2, <2>1, <1>a DEF MisreadInv
    <2>3. CASE RecvOk
      <3>1. CASE op = 3 /\ fDstSw = 0
        <4>1. misread' \subseteq {3} /\ op' = 4
          BY <2>3, <3>1, <1>a DEF RecvOk, MisreadInv
        <4> QED BY <4>1, <2>1, <3>1 DEF MisreadInv
      <3>2. CASE /\ op \in 1 .. 13 /\ fDstSw = op - 1
                 /\ ~IsWrite(op) => bounce = Contents(Cur.loc)
        <4>1. misread' = misread
          BY <2>1, <2>3, <3>2, RunningIs DEF RecvOk
        <4>2. misread = {}
          BY <3>2, <1>a DEF MisreadInv
        <4> QED BY <4>1, <4>2 DEF MisreadInv
      <3> QED BY <3>1, <3>2, <1>4, <2>3, RecvOkExact
    <2> QED BY <2>2, <2>3, <1>4, RecvFrame
  <1> QED BY <1>1, <1>2, <1>3, <1>4, NextCases DEF Engine

(* The window starts empty and in step. *)
LEMMA InitIInv == Init => IInv
  <1> SUFFICES ASSUME Init PROVE IInv
    OBVIOUS
  <1>1. nDst = 0 /\ nSrc = 0 /\ Len(flight) = 0
    BY DEF Init, nDst, nSrc
  <1>2. Scalars
    <2>1. bounce \in Data
      BY DEF Init, Data, Contents, Locs
    <2> QED BY <2>1 DEF Init, Scalars
  <1>3. Counters /\ Posted /\ Pace /\ MisreadInv
    BY <1>1 DEF Init, Counters, Posted, Pace, MisreadInv
  <1>4. SrcInv /\ DstInv /\ FlightInv /\ BounceInv
    BY <1>1 DEF Init, SrcInv, DstInv, FlightInv, BounceInv
  <1>5. MemInv
    <2>1. mem = {} /\ 1 .. payload = {}
      BY DEF Init
    <2> QED BY <2>1, Zenon DEF MemInv
  <1> QED BY <1>2, <1>3, <1>4, <1>5 DEF IInv

(* The invariant is inductive: it holds in every state of the window. *)
THEOREM WindowInvariant == Spec => []IInv
  <1>1. IInv /\ [Next]_vars => IInv'
    BY ScalarsStep, CountersStep, PostedStep, PaceStep, SrcStep, DstStep,
       FlightStep, BounceStep, MemStep, MisreadStep DEF IInv
  <1> QED BY <1>1, InitIInv, PTL DEF Spec

-----------------------------------------------------------------------------
(* The properties.                                                         *)

(* TypeOK of the CE7 window: rings, indices and buffers keep their types,  *)
(* and srri, payload, drri, landed and fDstSw stay in the order in which   *)
(* one descriptor of CEDiag::xfer passes them.                             *)
THEOREM WindowTypes == Spec => []TypeOK
  <1>1. IInv => TypeOK
    <2> SUFFICES ASSUME IInv PROVE TypeOK
      OBVIOUS
    <2>1. op \in 0 .. Done /\ misread \subseteq DOMAIN Ops
      BY OpsDomain DEF IInv, Scalars, MisreadInv
    <2>2. Len(fSrcDesc) <= Len(fDstDesc) /\ Len(fDstDesc) <= Len(Ops)
      <3>1. nSrc \in Nat /\ nDst \in Nat
        BY DEF IInv, Scalars, nSrc, nDst
      <3> QED BY <3>1, OpsDomain DEF IInv, Posted, Scalars, nSrc, nDst
    <2>3. mem \subseteq [loc : Locs, val : Data]
      <3>1. \A i \in 1 .. payload : i \in 1 .. 13
        BY DEF IInv, Counters, Posted, Scalars, nSrc, nDst
      <3>2. \A i \in 1 .. 13 :
              [loc |-> Ops[i].loc, val |-> Good(i)] \in [loc : Locs, val : Data]
        BY OpsTypes DEF Good, Data
      <3> QED BY <3>1, <3>2, Zenon DEF IInv, MemInv
    <2> QED BY <2>1, <2>2, <2>3 DEF IInv, Scalars, Counters, TypeOK, nSrc
  <1> QED BY <1>1, WindowInvariant, PTL

(* NoWildWrite: what initConfig stores in target memory goes where it      *)
(* belongs and is what belongs there, whatever timed out before.           *)
THEOREM WindowWrites == Spec => []NoWildWrite
  <1>1. IInv => NoWildWrite
    <2> SUFFICES ASSUME IInv, NEW w \in mem
                 PROVE  /\ w.loc \in Written
                        /\ w.val = [by |-> "host", loc |-> w.loc, good |-> TRUE]
      BY DEF NoWildWrite
    <2>1. PICK i \in {j \in 1 .. payload : IsWrite(j)} :
            w = [loc |-> Ops[i].loc, val |-> Good(i)]
      BY Zenon DEF IInv, MemInv
    <2>2. i \in {j \in 1 .. 13 : IsWrite(j)}
      BY <2>1 DEF IInv, Counters, Posted, Scalars, nSrc, nDst
    <2>3. w.loc = Ops[i].loc /\ w.val = Good(i)
      BY <2>1
    <2>4. Ops[i].loc \in Written
      BY <2>2, WrittenIs, Zenon
    <2> QED BY <2>3, <2>4 DEF Good
  <1> QED BY <1>1, WindowInvariant, PTL

(* ConfigComplete: initConfig returns true only when all five writes have  *)
(* reached target memory.                                                  *)
THEOREM WindowConfigured == Spec => []ConfigComplete
  <1>1. IInv => ConfigComplete
    <2> SUFFICES ASSUME IInv, op = Done PROVE {w.loc : w \in mem} = Written
      BY DEF ConfigComplete
    <2>1. payload = 13
      <3>1. op = 14 /\ landed \in Nat /\ payload \in Nat /\ nSrc \in Nat /\ nDst \in Nat
        BY OpsDomain DEF IInv, Scalars, nSrc, nDst
      <3>2. landed >= 13
        BY <3>1 DEF IInv, Pace, InStep, Behind
      <3>3. payload <= nSrc /\ landed <= payload /\ nSrc = 13
        BY <3>1 DEF IInv, Counters, Posted, Scalars
      <3> QED BY <3>1, <3>2, <3>3
    <2>2. mem = {[loc |-> Ops[i].loc, val |-> Good(i)] :
                   i \in {j \in 1 .. 13 : IsWrite(j)}}
      BY <2>1 DEF IInv, MemInv
    <2>3. {w.loc : w \in mem} = {Ops[i].loc : i \in {j \in 1 .. 13 : IsWrite(j)}}
      <3> DEFINE J == {j \in 1 .. 13 : IsWrite(j)}
                 r(i) == [loc |-> Ops[i].loc, val |-> Good(i)]
      <3>1. \A i : r(i).loc = Ops[i].loc
        OBVIOUS
      <3>2. mem = {r(i) : i \in J}
        BY <2>2
      <3> HIDE DEF J, r
      <3>3. {w.loc : w \in mem} = {Ops[i].loc : i \in J}
        BY <3>1, <3>2, Zenon
      <3> QED BY <3>3 DEF J
    <2> QED BY <2>3, WrittenIs
  <1> QED BY <1>1, WindowInvariant, PTL

(* MisreadIsCaught: only the read of the pcie_state pointer can be given   *)
(* another transfer's word, and then nothing is ever written.              *)
THEOREM WindowMisread == Spec => []MisreadIsCaught
  <1>1. IInv => MisreadIsCaught
    <2> SUFFICES ASSUME IInv, misread # {} PROVE mem = {}
      BY DEF IInv, MisreadInv, MisreadIsCaught
    <2>1. payload \in Nat /\ payload <= 4
      BY DEF IInv, MisreadInv, Counters, Posted, Scalars, nSrc, nDst
    <2>2. {j \in 1 .. payload : IsWrite(j)} = {}
      BY <2>1, OpsDir
    <2> QED BY <2>2, Zenon DEF IInv, MemInv
  <1> QED BY <1>1, WindowInvariant, PTL

(* What CEDiag::xfer returning true means, though it takes the oldest      *)
(* completion and looks at nothing but its length: the completion is the   *)
(* transfer's own, the bounce buffer holds the word a read asked for and   *)
(* a write is in target memory.  Only the read of the pcie_state pointer   *)
(* can end on the first read's completion.                                 *)
TransfersExact ==
  [][RecvDone /\ RecvOk =>
       \/ op = 3 /\ fDstSw = 0
       \/ /\ fDstSw = op - 1
          /\ ~IsWrite(op) => bounce = Contents(Cur.loc)
          /\ IsWrite(op) => [loc |-> Cur.loc, val |-> Good(op)] \in mem]_vars

(* TransfersExact holds of every xfer of the window. *)
THEOREM OwnCompletion == Spec => TransfersExact
  <1>1. ASSUME IInv, RecvDone, RecvOk
        PROVE  \/ op = 3 /\ fDstSw = 0
               \/ /\ fDstSw = op - 1
                  /\ ~IsWrite(op) => bounce = Contents(Cur.loc)
                  /\ IsWrite(op) => [loc |-> Cur.loc, val |-> Good(op)] \in mem
    <2>1. CASE op = 3 /\ fDstSw = 0
      BY <2>1
    <2>2. CASE /\ op \in 1 .. 13 /\ fDstSw = op - 1 /\ landed = op /\ payload = op
               /\ ~IsWrite(op) => bounce = Contents(Cur.loc)
      <3>1. ASSUME IsWrite(op) PROVE [loc |-> Cur.loc, val |-> Good(op)] \in mem
        <4>1. op \in {j \in 1 .. payload : IsWrite(j)}
          BY <2>2, <3>1
        <4>2. mem = {[loc |-> Ops[i].loc, val |-> Good(i)] :
                       i \in {j \in 1 .. payload : IsWrite(j)}}
          BY <1>1 DEF IInv, MemInv
        <4>3. [loc |-> Ops[op].loc, val |-> Good(op)] \in mem
          BY <4>1, <4>2, Zenon
        <4> QED BY <4>3 DEF Cur
      <3> QED BY <2>2, <3>1
    <2> QED BY <1>1, <2>1, <2>2, RecvOkExact
  <1>2. IInv => [RecvDone /\ RecvOk =>
                   \/ op = 3 /\ fDstSw = 0
                   \/ /\ fDstSw = op - 1
                      /\ ~IsWrite(op) => bounce = Contents(Cur.loc)
                      /\ IsWrite(op) => [loc |-> Cur.loc, val |-> Good(op)] \in mem]_vars
    BY <1>1
  <1> QED BY <1>2, WindowInvariant, PTL DEF TransfersExact
=============================================================================

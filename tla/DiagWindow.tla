----------------------------- MODULE DiagWindow -----------------------------
(***************************************************************************)
(* CEDiag, the CE7 window into target memory (CE.cpp), as probeBmi and     *)
(* initConfig drive it (QCA9377Driver.cpp): thirteen transfers in a fixed  *)
(* order.  The first two reads may fail and the driver goes on; in         *)
(* initConfig any failure is final.  xfer() posts a destination and a      *)
(* source descriptor, waits for each index with a deadline, and takes the  *)
(* oldest completion it has not consumed, checking nothing but its length. *)
(* A transfer that times out leaves its descriptors with the engine and    *)
(* fDstSw behind, so the window is out of step from then on.               *)
(*                                                                         *)
(* The engine is external: it takes descriptors in order, at any speed,    *)
(* and may stop.  A ring has 16 entries and one window lives for thirteen  *)
(* transfers at most, so no index wraps here.                              *)
(***************************************************************************)
EXTENDS Naturals, Sequences

(* The transfers: what is read or written, and how many bytes. *)
Read(loc, len)  == [dir |-> "read",  loc |-> loc, len |-> len]
Write(loc, len) == [dir |-> "write", loc |-> loc, len |-> len]
Ops == << Read("fw_ind", 4), Read("hi", 32),
          Read("state", 4), Read("pipe_ptr", 4), Read("svc_ptr", 4),
          Read("flags", 4), Write("flags", 4),
          Write("pipes", 168), Write("svcmap", 204),
          Read("ealloc", 4), Write("ealloc", 4),
          Read("flag2", 4), Write("flag2", 4) >>
Soft    == {1, 2}                    \* proof of life and HI snapshot in probeBmi
Locs    == {Ops[i].loc : i \in DOMAIN Ops} \cup {"wild"}
Written == {Ops[i].loc : i \in {j \in DOMAIN Ops : Ops[j].dir = "write"}}
Lens    == {Ops[i].len : i \in DOMAIN Ops}

(* What a buffer or a word in flight holds: the contents of a target       *)
(* location, or what the host wants to see there; good is FALSE for a word *)
(* the host worked out from something else than the word it asked for.     *)
Data == [by : {"target", "host"}, loc : Locs, good : BOOLEAN]
Contents(loc) == [by |-> "target", loc |-> loc, good |-> TRUE]

VARIABLES
  op, sub,            \* host: transfer and step of xfer; op 0: initConfig failed
  got,                \* host: locations whose contents it was given when it asked
  misread,            \* host: transfers that returned true with something else
  fSrcDesc, fDstDesc, fDstSw, bounce,      \* rings, consume index, bounce buffer
  srri, drri, flight, payload, landed,     \* engine: indices, fetched data, what landed
  mem                 \* target memory: what writes stored, and where

host == <<op, sub, got, misread>>
ring == <<fSrcDesc, fDstDesc, fDstSw>>
eng  == <<srri, drri, flight, payload, landed>>
vars == <<host, ring, bounce, eng, mem>>

Done == Len(Ops) + 1

(* Rings, indices and buffers keep their types, the engine's counters stay *)
(* in the order in which one descriptor passes them.                       *)
TypeOK ==
  /\ op \in 0 .. Done /\ sub \in {"call", "src", "send", "recv"}
  /\ got \subseteq Locs /\ misread \subseteq DOMAIN Ops
  /\ fSrcDesc \in Seq([addr : Locs \cup {"bounce"}, nbytes : Lens])
  /\ fDstDesc \in Seq([addr : Locs \cup {"bounce"}, nbytes : Lens \cup {0}])
  /\ Len(fSrcDesc) <= Len(fDstDesc) /\ Len(fDstDesc) <= Len(Ops)
  /\ bounce \in Data /\ mem \subseteq [loc : Locs, val : Data]
  /\ flight \in Seq(Data) /\ srri <= Len(fSrcDesc) /\ Len(flight) + payload = srri
  /\ landed <= payload /\ payload <= drri /\ drri <= landed + 1
  /\ fDstSw <= drri

(* CEDiag::init: fresh rings, all indices 0. *)
Init ==
  /\ op = 1 /\ sub = "call" /\ got = {} /\ misread = {}
  /\ fSrcDesc = <<>> /\ fDstDesc = <<>> /\ fDstSw = 0 /\ bounce = Contents("wild")
  /\ srri = 0 /\ drri = 0 /\ flight = <<>> /\ payload = 0 /\ landed = 0
  /\ mem = {}

-----------------------------------------------------------------------------
(* The host thread.                                                        *)

(* The address initConfig computes: pcie_state and the two areas are       *)
(* reached through pointers read before.                                   *)
Pointer(loc) == CASE loc \in {"pipe_ptr", "svc_ptr", "flags"} -> "state"
                  [] loc = "pipes"  -> "pipe_ptr"
                  [] loc = "svcmap" -> "svc_ptr"
                  [] OTHER -> "none"
Address(loc) == IF Pointer(loc) \in got \cup {"none"} THEN loc ELSE "wild"

(* initConfig writes back the word it read with some bits changed; the     *)
(* two tables are constant.                                                *)
HostWord(loc) == [by |-> "host", loc |-> loc,
                  good |-> loc \in {"pipes", "svcmap"} \cup got]

Running == op \in DOMAIN Ops
Cur     == Ops[op]

(* Mutant: a failed initConfig step is passed over like the first reads. *)
FailSoft == op' = op + 1 /\ sub' = "call" /\ UNCHANGED <<got, misread>>

(* A transfer returned false: the first two reads are only for the log. *)
Fail ==
  /\ op' = IF op \in Soft THEN op + 1 ELSE 0
  /\ sub' = "call" /\ UNCHANGED <<got, misread>>

(* readMem, writeMem: fill the bounce buffer for a write; xfer: destination *)
(* descriptor with nbytes 0 and its doorbell.                              *)
PostDst ==
  /\ Running /\ sub = "call" /\ sub' = "src"
  /\ bounce' = IF Cur.dir = "write" THEN HostWord(Cur.loc) ELSE bounce
  /\ fDstDesc' = Append(fDstDesc, [nbytes |-> 0,
                   addr |-> IF Cur.dir = "read" THEN "bounce" ELSE Address(Cur.loc)])
  /\ UNCHANGED <<op, got, misread, fSrcDesc, fDstSw, eng, mem>>

(* Source descriptor and doorbell. *)
PostSrc ==
  /\ Running /\ sub = "src" /\ sub' = "send"
  /\ fSrcDesc' = Append(fSrcDesc, [nbytes |-> Cur.len,
                   addr |-> IF Cur.dir = "read" THEN Address(Cur.loc) ELSE "bounce"])
  /\ UNCHANGED <<op, got, misread, fDstDesc, fDstSw, bounce, eng, mem>>

(* Send completion: SRRI has caught up with the write index, or the        *)
(* deadline passes.                                                        *)
SendDone ==
  /\ Running /\ sub = "send" /\ srri = Len(fSrcDesc) /\ sub' = "recv"
  /\ UNCHANGED <<op, got, misread, ring, bounce, eng, mem>>

SendTimeout ==
  /\ Running /\ sub = "send" /\ srri # Len(fSrcDesc) /\ Fail
  /\ UNCHANGED <<ring, bounce, eng, mem>>

(* Mutant: DRRI not looked at. *)
MovedAlways == TRUE

(* Receive completion: DRRI has moved past the consume index. *)
Moved == drri # fDstSw

RecvTimeout ==
  /\ Running /\ sub = "recv" /\ ~Moved /\ Fail
  /\ UNCHANGED <<ring, bounce, eng, mem>>

(* Mutants: the length of the completion not looked at; only seen to be    *)
(* there, as recvWait does.                                                *)
LengthAny(done, len)  == TRUE
LengthSome(done, len) == done.nbytes # 0

LengthOk(done, len) == done.nbytes = len

(* The oldest completion is taken, whoever it belongs to, and the bounce   *)
(* buffer copied out; initConfig refuses a null pointer.                   *)
RecvDone ==
  /\ Running /\ sub = "recv" /\ Moved
  /\ fDstSw' = fDstSw + 1
  /\ IF LengthOk(fDstDesc[fDstSw + 1], Cur.len)
     THEN \/ /\ op' = op + 1 /\ sub' = "call"
             /\ IF Cur.dir = "write" THEN UNCHANGED <<got, misread>>
                ELSE IF bounce = Contents(Cur.loc)
                     THEN got' = got \cup {Cur.loc} /\ UNCHANGED misread
                     ELSE misread' = misread \cup {op} /\ UNCHANGED got
          \/ Cur.loc \in {"state", "pipe_ptr", "svc_ptr"} /\ Fail
     ELSE Fail
  /\ UNCHANGED <<fSrcDesc, fDstDesc, bounce, eng, mem>>

Host == PostDst \/ PostSrc \/ SendDone \/ SendTimeout \/ RecvTimeout \/ RecvDone

-----------------------------------------------------------------------------
(* The engine (external).                                                  *)

(* Next source descriptor: SRRI moves once the data is in the engine. *)
EngFetch ==
  /\ srri < Len(fSrcDesc) /\ srri' = srri + 1
  /\ LET a == fSrcDesc[srri + 1].addr IN
       flight' = Append(flight, IF a = "bounce" THEN bounce ELSE Contents(a))
  /\ UNCHANGED <<host, ring, bounce, drri, payload, landed, mem>>

(* Destination side, as on the other engines: the index moves, the payload *)
(* lands, the descriptor lands.                                            *)
EngIndex ==
  /\ flight # <<>> /\ drri = landed /\ drri' = drri + 1
  /\ UNCHANGED <<host, ring, bounce, srri, flight, payload, landed, mem>>

EngPayload ==
  /\ payload < drri /\ payload' = payload + 1 /\ flight' = Tail(flight)
  /\ LET a == fDstDesc[drri].addr IN
       IF a = "bounce" THEN bounce' = Head(flight) /\ UNCHANGED mem
       ELSE mem' = mem \cup {[loc |-> a, val |-> Head(flight)]} /\ UNCHANGED bounce
  /\ UNCHANGED <<host, ring, srri, drri, landed>>

EngDesc ==
  /\ landed < payload /\ landed' = landed + 1
  /\ fDstDesc' = [fDstDesc EXCEPT ![drri].nbytes = fSrcDesc[drri].nbytes]
  /\ UNCHANGED <<host, fSrcDesc, fDstSw, bounce, srri, drri, flight, payload, mem>>

Engine == EngFetch \/ EngIndex \/ EngPayload \/ EngDesc

Next == Host \/ Engine
Spec == Init /\ [][Next]_vars

-----------------------------------------------------------------------------
(* Properties.                                                             *)

(* What initConfig stores in target memory goes where it belongs and is    *)
(* what belongs there, also when earlier transfers timed out and their     *)
(* completions turn up later: no write goes through a misread pointer and  *)
(* none puts back a word that was not read from its place.                 *)
NoWildWrite ==
  \A w \in mem : w.loc \in Written /\ w.val = [by |-> "host", loc |-> w.loc, good |-> TRUE]

(* initConfig returns true only when all five writes have reached target   *)
(* memory, so the CPU is never woken over a configuration in flight.       *)
ConfigComplete == op = Done => {w.loc : w \in mem} = Written

(* Both soft reads timing out lets the read of the pcie_state pointer take *)
(* the first one's completion and return a stale word.  It is the only     *)
(* transfer that can be fooled: the odd length of the HI snapshot makes    *)
(* the next one fail, before anything is written.                          *)
MisreadIsCaught == misread \subseteq {3} /\ (misread # {} => op \in {0, 4} /\ mem = {})
=============================================================================

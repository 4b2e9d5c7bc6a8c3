-------------------------- MODULE ControlPathProofs -------------------------
(***************************************************************************)
(* Proofs about ControlPath for every number of chunks of a download and   *)
(* every number of unrelated control frames.                               *)
(***************************************************************************)
EXTENDS ControlPath, SequenceTheorems, TLAPS

Conn  == {"conn_ok", "conn_bad"}
Said  == {"ready", "late"}                                   \* READY, or sent behind it
Behind == Conn \cup {"late"}                                 \* sent behind READY
Late  == {"fw_wait", "ready", "connect", "setup", "online"}  \* BMI_DONE was sent
Final == {"connect", "setup", "online"}                      \* READY was accepted

-----------------------------------------------------------------------------
(* The queue of commands, for BootsWhole.                                  *)

AfterFw    == {"done"} \cup Late
AfterBoard == {"otp_lz", "otp_exec", "fw_lz"} \cup AfterFw
Whole(m)   == m.part = Parts(m.cmd)
Pos        == [cmd |-> pc, part |-> part]    \* what the host sends next

(* b may come behind a: frames of a download come one after the other, and *)
(* what comes behind a download comes behind its last frame.               *)
Follows(a, b) ==
  /\ b.cmd \in Loads /\ b.part > 1 => a.cmd = b.cmd /\ b.part = a.part + 1
  /\ b.cmd \in AfterBoard => a.cmd \in AfterBoard \/ (a.cmd = "brd_w" /\ Whole(a))
  /\ b.cmd \in AfterFw => a.cmd \in AfterFw \/ (a.cmd = "fw_lz" /\ Whole(a))

(* What target memory holds when m is the next command it serves. *)
Ripe(m) ==
  /\ m.cmd \in Loads /\ m.part > 1 => store[m.cmd] = m.part - 1
  /\ m.cmd \in AfterBoard => store["brd_w"] = Parts("brd_w")
  /\ m.cmd \in AfterFw => store["fw_lz"] = Parts("fw_lz")

Messages ==
  /\ \A i \in 1 .. Len(inbox) : inbox[i].part \in 1 .. Parts(inbox[i].cmd)
  /\ ring # NoMessage => ring.part \in 1 .. Parts(ring.cmd)

Links ==
  /\ \A i \in 1 .. Len(inbox) : i + 1 \in 1 .. Len(inbox) => Follows(inbox[i], inbox[i + 1])
  /\ ring # NoMessage /\ inbox # <<>> => Follows(inbox[Len(inbox)], ring)
  /\ pc # "fail" /\ ring # NoMessage => Follows(ring, Pos)
  /\ pc # "fail" /\ ring = NoMessage /\ inbox # <<>> => Follows(inbox[Len(inbox)], Pos)

Front ==
  mode = "rom" =>
    /\ inbox # <<>> => Ripe(inbox[1])
    /\ inbox = <<>> /\ ring # NoMessage => Ripe(ring)
    /\ inbox = <<>> /\ ring = NoMessage /\ pc # "fail" => Ripe(Pos)

QueueInv == Messages /\ Links /\ Front /\ BootsWhole

-----------------------------------------------------------------------------
(* Who answers whom, for the other invariants.                             *)

(* The steps inside an exchange belong to an exchange; the OTP step is     *)
(* behind once it failed.                                                  *)
Place ==
  /\ sub = "send" => pc \in Exchanges \cup {"connect"}
  /\ sub \in {"wait", "read"} => pc \in Exchanges \cup {"connect", "ready"}
  /\ sub = "body" => pc = "ready"
  /\ otpFailed => pc \in {"fw_lz", "done", "fail"} \cup Late

(* Before BMI_DONE only the ROM speaks; before READY is accepted nobody    *)
(* speaks of a CONNECT.                                                    *)
Sent(cmds) == (\E i \in 1 .. Len(inbox) : inbox[i].cmd \in cmds) \/ ring.cmd \in cmds
Speaks ==
  /\ pc \notin Late \cup {"fail"} =>
       mode \in {"rom", "dead"} /\ out.kind \in Exchanges \cup {"none"} /\ ~Sent({"done"})
  /\ pc \notin Final \cup {"fail"} => out.kind \notin Conn /\ ~Sent({"connect"})
  /\ pc \in Final => booted /\ out.kind \in {"none"} \cup Behind
  /\ pc = "ready" /\ sub = "body" => rxBuf.kind \in Said
  /\ out.kind \in Said \/ rxBuf.kind \in Said => booted
  /\ rxBuf.kind \in Said => out.kind \in {"none"} \cup Behind
  /\ booted => mode \in {"ready", "dead"}
  /\ mode = "ready" => booted

(* As long as nothing failed: no command is left on the ring, one entry is *)
(* posted exactly while an exchange waits, its frame is in the rx buffer,  *)
(* and the one answer under way is the one waited for.                     *)
Orderly ==
  ~otpFailed /\ pc # "fail" =>
    /\ ring = NoMessage
    /\ posted = IF sub \in {"send", "wait"} THEN 1 ELSE 0
    /\ landed # <<>> => landed = <<rxBuf>>
    /\ sub \in {"read", "body"} => rxBuf = cur
    /\ \A i \in 1 .. Len(inbox) : inbox[i].cmd \in Exchanges =>
         i = Len(inbox) /\ inbox[i].cmd = pc /\ sub = "wait"
           /\ out.kind = "none" /\ landed = <<>>
    /\ out.kind \in Exchanges => out.kind = pc /\ sub = "wait" /\ landed = <<>>
    /\ pc \in Exchanges => /\ sub = "send" => landed = <<>>
                           /\ landed # <<>> => rxBuf.kind = pc
                           /\ sub = "read" => cur.kind = pc
    /\ sub = "body" => cur.kind = "ready"
    /\ pc = "connect" => /\ landed # <<>> => rxBuf.kind \in Behind
                         /\ sub = "read" => cur.kind \in Behind

AnswerInv == Place /\ Speaks /\ Orderly /\ AnswersMatch /\ ConfusedOnlyAfterOtp

IInv == TypeOK /\ QueueInv /\ AnswerInv

-----------------------------------------------------------------------------
(* The operators.                                                          *)

Reasons == {"none", "send", "timeout", "short", "value", "unexpected", "refused", "target"}

(* The order of start(), command by command. *)
LEMMA AfterFacts ==
  /\ After("info") = "cfg_w" /\ After("cfg_w") = "cfg_r" /\ After("cfg_r") = "cfg_w2"
  /\ After("cfg_w2") = "brd_r" /\ After("brd_r") = "brd_w" /\ After("brd_w") = "otp_lz"
  /\ After("otp_lz") = "otp_exec" /\ After("otp_exec") = "fw_lz" /\ After("fw_lz") = "done"
  /\ After("done") = "fw_wait" /\ After("fw_wait") = "ready" /\ After("ready") = "connect"
  /\ After("connect") = "setup" /\ After("setup") = "online"
<1>1. DOMAIN Order = 1 .. 15
  BY DEF Order
<1> DEFINE P(c) == CHOOSE i \in DOMAIN Order : Order[i] = c
<1>2. /\ P("info") = 1 /\ P("cfg_w") = 2 /\ P("cfg_r") = 3 /\ P("cfg_w2") = 4
      /\ P("brd_r") = 5 /\ P("brd_w") = 6 /\ P("otp_lz") = 7 /\ P("otp_exec") = 8
      /\ P("fw_lz") = 9 /\ P("done") = 10 /\ P("fw_wait") = 11 /\ P("ready") = 12
      /\ P("connect") = 13 /\ P("setup") = 14
  BY <1>1 DEF Order
<1> QED BY <1>2 DEF After, Order

(* A command has at least one frame; a download no more than store counts. *)
LEMMA PartsFacts ==
  /\ \A c : Parts(c) \in 1 .. Chunks + 4
  /\ \A c \in Loads : Parts(c) \in 1 .. Chunks + 2
  /\ \A c : c \notin Loads \cup {"cfg_w2"} => Parts(c) = 1
BY ChunksAssumption DEF Parts, Loads, LzStreams

(* The frames the target sends, and what they are about. *)
LEMMA FrameFacts ==
  /\ {Ready, ConnOk, ConnBad, Frame("none", 0)} \subseteq Frames /\ Ready.kind = "ready"
  /\ ConnOk.kind = "conn_ok" /\ ConnBad.kind = "conn_bad" /\ Frame("none", 0).kind = "none"
  /\ \A c \in Exchanges : \A f \in Answers(c) : f \in Frames /\ f.kind = c
  /\ \A k \in {"chat", "late"} : \A f \in Chat(k) : f \in Frames /\ f.kind = k
<1>1. {Ready, ConnOk, ConnBad, Frame("none", 0)} \subseteq Frames
  BY Zenon DEF Frames
<1>2. /\ Ready.kind = "ready"
      /\ ConnOk.kind = "conn_ok" /\ ConnBad.kind = "conn_bad" /\ Frame("none", 0).kind = "none"
  BY DEF Frame, Ready, ConnOk, ConnBad
<1>3. ASSUME NEW c \in Exchanges, NEW f \in Answers(c) PROVE f \in Frames /\ f.kind = c
  <2>1. f \in UNION {Answers(d) : d \in Exchanges}
    BY <1>3, Zenon
  <2>2. f.kind = c
    BY <1>3 DEF Answers, Frame
  <2> QED BY <2>1, <2>2 DEF Frames
<1>4. ASSUME NEW k \in {"chat", "late"}, NEW f \in Chat(k) PROVE f \in Frames /\ f.kind = k
  <2>1. f \in Chat("chat") \cup Chat("late")
    BY <1>4, Zenon
  <2>2. f.kind = k
    BY <1>4 DEF Chat, Frame
  <2> QED BY <2>1, <2>2 DEF Frames
<1> QED BY <1>1, <1>2, <1>3, <1>4

(* A frame is about an exchange, a CONNECT, READY, chatter or nothing. *)
LEMMA KindFacts ==
  ASSUME NEW f \in Frames
  PROVE  f.kind \in Exchanges \cup Conn \cup {"chat", "late", "ready", "none"}
<1>1. CASE f \in UNION {Answers(c) : c \in Exchanges}
  <2>1. PICK c \in Exchanges : f \in Answers(c)
    BY <1>1
  <2> QED BY <2>1, FrameFacts
<1>2. CASE f \in {Ready, ConnOk, ConnBad, Frame("none", 0)}
  BY <1>2, FrameFacts DEF Conn
<1>3. CASE f \in Chat("chat") \/ f \in Chat("late")
  BY <1>3, FrameFacts
<1> QED BY <1>1, <1>2, <1>3, Zenon DEF Frames

-----------------------------------------------------------------------------
(* The moves of the host.                                                  *)

Moving == Commands \cup {"fw_wait", "ready"}

(* Proceed goes to the first frame of the next command. *)
LEMMA ProceedFacts ==
  ASSUME pc \in Moving, Proceed
  PROVE  /\ pc' \in Labels /\ part' = 1 /\ sub' = "call" /\ pc' = After(pc)
         /\ otpFailed' = otpFailed /\ why' = why /\ pc' # "fail"
BY AfterFacts DEF Proceed, Moving, Commands, Labels, Exchanges, Sends

(* Fail ends the bring-up or, in runOtp, goes on with the firmware. *)
LEMMA FailFacts ==
  ASSUME NEW reason, Fail(reason)
  PROVE  /\ part' = 1 /\ sub' = "call"
         /\ \/ pc' = "fail" /\ why' = reason /\ otpFailed' = otpFailed
            \/ /\ pc \in {"otp_lz", "otp_exec"} /\ pc' = "fw_lz" /\ otpFailed' = TRUE
               /\ why' = why
BY DEF Fail

(* Either way the host's own variables keep their types. *)
LEMMA MoveType ==
  ASSUME TypeOK, pc \in Moving, cur' = cur,
         accepted' \in {accepted, [cmd |-> pc, kind |-> rxBuf.kind]},
         Proceed \/ (\E reason \in Reasons : Fail(reason))
  PROVE  TypeHost'
<1>1. /\ pc' \in Labels /\ part' = 1 /\ sub' = "call" /\ otpFailed' \in BOOLEAN
      /\ why' \in Reasons
  BY ProceedFacts, FailFacts DEF TypeOK, TypeHost, Labels, Commands, Sends, Reasons
<1>2. part' \in 1 .. Parts(pc')
  BY <1>1, PartsFacts
<1>3. accepted' \in [cmd : Labels, kind : {f.kind : f \in Frames}]
  BY DEF TypeOK, TypeHost, TypeRx, Moving, Labels
<1> QED BY <1>1, <1>2, <1>3 DEF TypeOK, TypeHost, Subs, Reasons

(* The next frame of a command is a message. *)
LEMMA PosFacts ==
  ASSUME TypeOK, Sending, Place
  PROVE  /\ pc \in Commands /\ Pos \in Message /\ Pos # NoMessage
         /\ Pos.cmd = pc /\ Pos.part = part /\ part \in 1 .. Parts(pc)
         /\ pc # "fail"
<1>1. pc \in Commands
  BY DEF Sending, Place, Commands
<1>2. part \in 1 .. Chunks + 4
  BY PartsFacts, ChunksAssumption DEF TypeOK, TypeHost
<1> QED BY <1>1, <1>2 DEF Pos, Message, NoMessage, Commands, Exchanges, Sends, TypeOK, TypeHost

-----------------------------------------------------------------------------
(* Types.                                                                  *)

(* The first state has its types. *)
LEMMA InitType == Init => TypeOK
<1> SUFFICES ASSUME Init PROVE TypeOK
  OBVIOUS
<1>n. Frame("none", 0) \in Frames /\ Frame("none", 0).kind = "none"
  BY FrameFacts
<1>1. TypeHost
  <2>1. accepted \in [cmd : Labels, kind : {f.kind : f \in Frames}]
    <3>1. "none" \in {f.kind : f \in Frames}
      BY <1>n
    <3> QED BY <3>1 DEF Init, Labels
  <2>2. part \in 1 .. Parts(pc)
    BY PartsFacts DEF Init
  <2>3. pc \in Labels /\ sub \in Subs
    BY DEF Init, Labels, Commands, Exchanges, Subs
  <2>4. cur \in Frames
    BY <1>n DEF Init
  <2> QED BY <2>1, <2>2, <2>3, <2>4 DEF Init, TypeHost
<1>2. TypeRx
  BY FrameFacts DEF Init, TypeRx
<1>3. TypeTx
  BY DEF Init, TypeTx
<1>4. TypeTgt
  <2>1. store \in [Loads -> 0 .. Chunks + 2]
    BY ChunksAssumption DEF Init
  <2>2. chatter \in 0 .. MaxChatter
    BY ChatterAssumption DEF Init
  <2> QED BY <1>n, <2>1, <2>2 DEF Init, TypeTgt
<1> QED BY <1>1, <1>2, <1>3, <1>4 DEF TypeOK

(* Before the first command. *)
LEMMA InitHolds == Init => IInv
<1> SUFFICES ASSUME Init PROVE IInv
  OBVIOUS
<1>1. TypeOK
  BY InitType
<1>e. Len(inbox) = 0
  BY EmptySeq DEF Init
<1>2. QueueInv
  BY <1>e DEF Init, QueueInv, Messages, Links, Front, BootsWhole, Ripe, Pos, Loads, LzStreams,
       AfterBoard, AfterFw, Late
<1>k. rxBuf.kind = "none" /\ out.kind = "none" /\ ring.cmd = "none"
  BY FrameFacts DEF Init, NoMessage
<1>3. Place /\ AnswersMatch /\ ConfusedOnlyAfterOtp
  BY DEF Init, Place, AnswersMatch, ConfusedOnlyAfterOtp, Exchanges
<1>4. Speaks
  BY <1>e, <1>k DEF Init, Speaks, Sent, Late, Final, Conn, Said
<1>5. Orderly
  BY <1>e, <1>k DEF Init, Orderly, Exchanges
<1> QED BY <1>1, <1>2, <1>3, <1>4, <1>5 DEF IInv, AnswerInv

(* What a command stores of a download stays within its frames. *)
LEMMA StoredType ==
  ASSUME TypeOK, NEW m \in Message, m.part \in 1 .. Parts(m.cmd)
  PROVE  Stored(m) \in [Loads -> 0 .. Chunks + 2]
<1>1. m.cmd \in Loads => m.part \in 0 .. Chunks + 2
  BY PartsFacts, ChunksAssumption
<1> QED BY <1>1, ChunksAssumption DEF Stored, TypeOK, TypeTgt

(* No step of the host breaks a type. *)
LEMMA HostType == TypeOK /\ Place /\ Host => TypeOK'
<1> SUFFICES ASSUME TypeOK, Place, Host PROVE TypeOK'
  OBVIOUS
<1> USE DEF tx, tgt, rx
<1>1. CASE Post
  <2>1. TypeHost'
    BY <1>1 DEF Post, TypeOK, TypeHost, Subs
  <2> QED BY <1>1, <2>1 DEF Post, TypeOK, TypeRx, TypeTx, TypeTgt
<1>2. CASE SendBusy
  <2>1. TypeHost'
    BY <1>2, PosFacts, MoveType DEF SendBusy, Moving, Reasons
  <2> QED BY <1>2, <2>1 DEF SendBusy, TypeOK, TypeRx, TypeTx, TypeTgt
<1>3. CASE SendOk
  <2>p. pc \in Commands /\ Pos \in Message
    BY <1>3, PosFacts DEF SendOk
  <2>1. TypeHost'
    <3>1. CASE sub = "send"
      BY <1>3, <3>1 DEF SendOk, TypeOK, TypeHost, Subs
    <3>2. CASE sub # "send" /\ part < Parts(pc)
      <4>1. part + 1 \in 1 .. Parts(pc)
        BY <3>2, PartsFacts DEF TypeOK, TypeHost
      <4> QED BY <1>3, <3>2, <4>1 DEF SendOk, TypeOK, TypeHost
    <3>3. CASE sub # "send" /\ ~(part < Parts(pc))
      BY <1>3, <2>p, <3>3, MoveType DEF SendOk, Moving
    <3> QED BY <3>1, <3>2, <3>3
  <2>2. TypeTx'
    BY <1>3, <2>p, AppendProperties DEF SendOk, Pos, TypeOK, TypeTx
  <2> QED BY <1>3, <2>1, <2>2 DEF SendOk, TypeOK, TypeRx, TypeTgt
<1>4. CASE SendTimeout
  <2>1. TypeHost'
    BY <1>4, PosFacts, MoveType DEF SendTimeout, Moving, Reasons
  <2>2. TypeTx'
    BY <1>4, PosFacts DEF SendTimeout, Pos, TypeOK, TypeTx
  <2> QED BY <1>4, <2>1, <2>2 DEF SendTimeout, TypeOK, TypeRx, TypeTgt
<1>5. CASE NoOtp
  <2>1. TypeHost'
    BY <1>5, PartsFacts DEF NoOtp, TypeOK, TypeHost, Labels, Commands, Sends
  <2> QED BY <1>5, <2>1 DEF NoOtp, TypeOK, TypeRx, TypeTx, TypeTgt
<1>6. CASE RecvConsume
  <2>1. /\ Head(landed) \in Frames /\ Tail(landed) \in Seq(Frames)
        /\ Len(Tail(landed)) = Len(landed) - 1 /\ Len(landed) \in Nat /\ Len(landed) >= 1
    BY <1>6, HeadTailProperties, EmptySeq, LenProperties DEF RecvConsume, TypeOK, TypeRx
  <2>2. TypeHost'
    BY <1>6, <2>1 DEF RecvConsume, TypeOK, TypeHost, Subs
  <2>3. TypeRx'
    BY <1>6, <2>1 DEF RecvConsume, TypeOK, TypeRx
  <2> QED BY <1>6, <2>2, <2>3 DEF RecvConsume, TypeOK, TypeTx, TypeTgt
<1>7. CASE RecvTimeout
  <2>1. TypeHost'
    BY <1>7, MoveType DEF RecvTimeout, Place, Moving, Commands, Reasons
  <2> QED BY <1>7, <2>1 DEF RecvTimeout, TypeOK, TypeRx, TypeTx, TypeTgt
<1>8. CASE ExchangeShort
  <2>1. TypeHost'
    BY <1>8, MoveType DEF ExchangeShort, Moving, Commands, Reasons
  <2> QED BY <1>8, <2>1 DEF ExchangeShort, TypeOK, TypeRx, TypeTx, TypeTgt
<1>9. CASE ExchangeDone
  <2>1. TypeHost'
    BY <1>9, MoveType DEF ExchangeDone, Moving, Commands, Reasons
  <2> QED BY <1>9, <2>1 DEF ExchangeDone, TypeOK, TypeRx, TypeTx, TypeTgt
<1>10. CASE FwWaitOk
  <2>1. TypeHost'
    BY <1>10, MoveType DEF FwWaitOk, Moving
  <2> QED BY <1>10, <2>1 DEF FwWaitOk, TypeOK, TypeRx, TypeTx, TypeTgt
<1>11. CASE FwWaitFail
  <2>1. TypeHost'
    BY <1>11, MoveType DEF FwWaitFail, Moving, Reasons
  <2> QED BY <1>11, <2>1 DEF FwWaitFail, TypeOK, TypeRx, TypeTx, TypeTgt
<1>12. CASE ReadyId
  <2>1. TypeHost'
    BY <1>12 DEF ReadyId, TypeOK, TypeHost, Subs
  <2> QED BY <1>12, <2>1 DEF ReadyId, TypeOK, TypeRx, TypeTx, TypeTgt
<1>13. CASE ReadyBody
  <2>1. TypeHost'
    BY <1>13, MoveType DEF ReadyBody, Moving, Reasons
  <2> QED BY <1>13, <2>1 DEF ReadyBody, TypeOK, TypeRx, TypeTx, TypeTgt
<1>14. CASE ConnectDone
  <2>1. TypeHost'
    BY <1>14, MoveType DEF ConnectDone, Moving, Commands, Reasons
  <2> QED BY <1>14, <2>1 DEF ConnectDone, TypeOK, TypeRx, TypeTx, TypeTgt
<1> QED BY <1>1, <1>2, <1>3, <1>4, <1>5, <1>6, <1>7, <1>8, <1>9, <1>10, <1>11, <1>12,
          <1>13, <1>14 DEF Host

(* No step of the target breaks a type. *)
LEMMA TargetType == TypeOK /\ Messages /\ Target => TypeOK'
<1> SUFFICES ASSUME TypeOK, Messages, Target PROVE TypeOK'
  OBVIOUS
<1> USE DEF hostv, tx, rx
<1>1. CASE EngineMove
  <2>1. TypeTx'
    BY <1>1, AppendProperties DEF EngineMove, TypeOK, TypeTx
  <2> QED BY <1>1, <2>1 DEF EngineMove, TypeOK, TypeHost, TypeRx, TypeTgt, tgt
<1>2. CASE Emit
  <2>1. TypeRx'
    BY <1>2, AppendProperties, LenProperties DEF Emit, TypeOK, TypeRx, TypeTgt
  <2>2. TypeTgt'
    BY <1>2, FrameFacts DEF Emit, TypeOK, TypeTgt
  <2> QED BY <1>2, <2>1, <2>2 DEF Emit, TypeOK, TypeHost, TypeTx
<1>3. CASE RomServe
  <2>h. /\ Head(inbox) \in Message /\ Tail(inbox) \in Seq(Message)
        /\ Head(inbox) = inbox[1] /\ 1 \in 1 .. Len(inbox)
    BY <1>3, HeadTailProperties, EmptySeq DEF RomServe, TypeOK, TypeTx
  <2>1. store' \in [Loads -> 0 .. Chunks + 2]
    BY <1>3, <2>h, StoredType DEF RomServe, Messages
  <2>2. out' \in Frames
    BY <1>3, FrameFacts DEF RomServe, TypeOK, TypeTgt
  <2>3. TypeTgt'
    BY <1>3, <2>1, <2>2 DEF RomServe, TypeOK, TypeTgt
  <2> QED BY <1>3, <2>h, <2>3 DEF RomServe, TypeOK, TypeHost, TypeRx, TypeTx
<1>4. CASE TargetDies
  BY <1>4 DEF TargetDies, TypeOK, TypeHost, TypeRx, TypeTx, TypeTgt
<1>5. CASE FwAnnounce
  BY <1>5 DEF FwAnnounce, TypeOK, TypeHost, TypeRx, TypeTx, TypeTgt
<1>6. CASE FwChatter
  <2>1. TypeTgt'
    BY <1>6, FrameFacts, ChatterAssumption DEF FwChatter, TypeOK, TypeTgt
  <2> QED BY <1>6, <2>1 DEF FwChatter, TypeOK, TypeHost, TypeRx, TypeTx
<1>7. CASE FwReady
  BY <1>7, FrameFacts DEF FwReady, TypeOK, TypeHost, TypeRx, TypeTx, TypeTgt
<1>8. CASE FwServe
  <2>1. Tail(inbox) \in Seq(Message)
    BY <1>8, HeadTailProperties DEF FwServe, TypeOK, TypeTx
  <2>2. out' \in Frames
    BY <1>8, FrameFacts DEF FwServe, TypeOK, TypeTgt
  <2> QED BY <1>8, <2>1, <2>2 DEF FwServe, TypeOK, TypeHost, TypeRx, TypeTx, TypeTgt
<1> QED BY <1>1, <1>2, <1>3, <1>4, <1>5, <1>6, <1>7, <1>8 DEF Target

-----------------------------------------------------------------------------
(* The queue of commands.                                                  *)

(* A step of the host that sends nothing and stays in its stage. *)
LEMMA HostMove ==
  ASSUME QueueInv, ring' = ring, inbox' = inbox, mode' = mode, store' = store,
         \/ pc' = "fail"
         \/ pc' = pc /\ part' = part
         \/ /\ pc # "fail" /\ part' = 1
            /\ pc' \in AfterBoard => pc \in AfterBoard
            /\ pc' \in AfterFw => pc \in AfterFw
  PROVE  QueueInv'
<1>1. Messages' /\ BootsWhole'
  BY DEF QueueInv, Messages, BootsWhole
<1>2. ASSUME pc' # "fail"
      PROVE  /\ pc # "fail"
             /\ \A a : Follows(a, Pos) => Follows(a, Pos')
             /\ Ripe(Pos) => Ripe(Pos)'
  <2>1. CASE pc' = pc /\ part' = part
    BY <1>2, <2>1 DEF Pos, Ripe
  <2>2. CASE /\ pc # "fail" /\ part' = 1
             /\ pc' \in AfterBoard => pc \in AfterBoard
             /\ pc' \in AfterFw => pc \in AfterFw
    <3>1. /\ Pos'.part = 1 /\ Pos'.cmd = pc' /\ Pos.cmd = pc
      BY <2>2 DEF Pos
    <3>2. \A a : (Follows(a, Pos) => Follows(a, Pos'))
      BY <2>2, <3>1 DEF Follows
    <3>3. Ripe(Pos) => Ripe(Pos)'
      BY <2>2, <3>1 DEF Ripe
    <3> QED BY <2>2, <3>2, <3>3
  <2> QED BY <1>2, <2>1, <2>2
<1>3. Links'
  BY <1>2 DEF QueueInv, Links
<1>4. Front'
  BY <1>2 DEF QueueInv, Front, Ripe
<1> QED BY <1>1, <1>3, <1>4 DEF QueueInv

(* Behind a frame that was sent comes what the host sends next. *)
LEMMA SendFollows ==
  ASSUME TypeOK, Place, SendOk
  PROVE  Follows(Pos, Pos') /\ pc' # "fail"
<1>p. pc \in Commands /\ pc # "fail" /\ part \in 1 .. Parts(pc) /\ Parts(pc) \in Nat
  BY PosFacts, PartsFacts DEF SendOk
<1>1. CASE sub = "send"
  <2>1. pc' = pc /\ part' = part /\ pc \in Exchanges \cup {"connect"}
    BY <1>1 DEF SendOk, Place
  <2> QED BY <1>p, <2>1 DEF Follows, Pos, Exchanges, Loads, LzStreams, AfterBoard, AfterFw, Late
<1>2. CASE sub # "send" /\ part < Parts(pc)
  <2>1. pc' = pc /\ part' = part + 1
    BY <1>2 DEF SendOk
  <2>2. pc \in Sends
    BY <1>2 DEF SendOk, Sending
  <2>3. pc \in AfterFw => FALSE
    BY <1>p, <1>2, <2>2, PartsFacts DEF Sends, AfterFw, Late, Loads, LzStreams
  <2> QED BY <1>p, <2>1, <2>2, <2>3 DEF Follows, Pos
<1>3. CASE sub # "send" /\ ~(part < Parts(pc))
  <2>1. Proceed /\ pc \in Sends /\ part = Parts(pc)
    BY <1>p, <1>3 DEF SendOk, Sending
  <2>2. pc' = After(pc) /\ part' = 1 /\ pc' # "fail"
    BY <1>p, <2>1, ProceedFacts DEF Moving
  <2>3. /\ pc' \in AfterBoard => pc \in AfterBoard \cup {"brd_w"}
        /\ pc' \in AfterFw => pc \in AfterFw \cup {"fw_lz"}
    BY <2>1, <2>2, AfterFacts DEF AfterBoard, AfterFw, Late, Sends
  <2> QED BY <2>1, <2>2, <2>3 DEF Follows, Pos, Whole
<1> QED BY <1>1, <1>2, <1>3

(* A frame that went out joins the queue in its order. *)
LEMMA SendOkQueue ==
  ASSUME TypeOK, Place, QueueInv, SendOk
  PROVE  QueueInv'
<1>p. Pos \in Message /\ pc # "fail" /\ Pos.cmd = pc /\ Pos.part = part /\ part \in 1 .. Parts(pc)
  BY PosFacts DEF SendOk
<1>f. Follows(Pos, Pos') /\ pc' # "fail"
  BY SendFollows
<1>q. /\ ring = NoMessage /\ ring' = NoMessage /\ inbox' = Append(inbox, Pos)
      /\ mode' = mode /\ store' = store
  BY DEF SendOk, Pos, tgt
<1>a. /\ inbox \in Seq(Message) /\ inbox' # <<>> /\ Len(inbox') = Len(inbox) + 1 /\ Len(inbox) \in Nat
      /\ \A i \in 1 .. Len(inbox) : inbox'[i] = inbox[i]
      /\ inbox'[Len(inbox) + 1] = Pos
  BY <1>p, <1>q, AppendProperties, LenProperties DEF TypeOK, TypeTx
<1>1. Messages'
  <2>1. ASSUME NEW i \in 1 .. Len(inbox') PROVE inbox'[i].part \in 1 .. Parts(inbox'[i].cmd)
    <3>1. CASE i \in 1 .. Len(inbox)
      BY <1>a, <3>1 DEF QueueInv, Messages
    <3>2. CASE i = Len(inbox) + 1
      BY <1>a, <1>p, <3>2
    <3> QED BY <1>a, <3>1, <3>2
  <2> QED BY <1>q, <2>1 DEF Messages
<1>2. Links'
  <2>1. ASSUME NEW i \in 1 .. Len(inbox'), i + 1 \in 1 .. Len(inbox')
        PROVE  Follows(inbox'[i], inbox'[i + 1])
    <3>1. CASE i + 1 \in 1 .. Len(inbox)
      <4>1. i \in 1 .. Len(inbox) /\ inbox'[i] = inbox[i] /\ inbox'[i + 1] = inbox[i + 1]
        BY <1>a, <3>1
      <4>2. Follows(inbox[i], inbox[i + 1])
        BY <3>1, <4>1 DEF QueueInv, Links
      <4> QED BY <4>1, <4>2
    <3>2. CASE i = Len(inbox)
      <4>1. inbox # <<>> /\ inbox'[i] = inbox[Len(inbox)] /\ inbox'[i + 1] = Pos
        BY <1>a, <3>2, EmptySeq
      <4>2. Follows(inbox[Len(inbox)], Pos)
        BY <1>p, <1>q, <4>1 DEF QueueInv, Links
      <4> QED BY <4>1, <4>2
    <3> QED BY <1>a, <2>1, <3>1, <3>2
  <2>2. Follows(inbox'[Len(inbox')], Pos')
    BY <1>a, <1>f
  <2> QED BY <1>q, <2>1, <2>2 DEF Links
<1>3. Front'
  <2>1. CASE inbox = <<>>
    <3>1. inbox'[1] = Pos
      BY <1>a, <2>1, EmptySeq
    <3> QED BY <1>p, <1>q, <1>a, <2>1, <3>1 DEF QueueInv, Front, Ripe
  <2>2. CASE inbox # <<>>
    <3>1. inbox'[1] = inbox[1]
      BY <1>a, <2>2, EmptySeq
    <3> QED BY <1>q, <1>a, <2>2, <3>1 DEF QueueInv, Front, Ripe
  <2> QED BY <2>1, <2>2
<1>4. BootsWhole'
  BY <1>q DEF QueueInv, BootsWhole
<1> QED BY <1>1, <1>2, <1>3, <1>4 DEF QueueInv

(* A send that timed out may still have gone out. *)
LEMMA SendTimeoutQueue ==
  ASSUME TypeOK, Place, QueueInv, SendTimeout
  PROVE  QueueInv'
<1>p. /\ Pos # NoMessage /\ pc # "fail" /\ Pos.cmd = pc /\ Pos.part = part
      /\ part \in 1 .. Parts(pc)
  BY PosFacts DEF SendTimeout
<1>q. /\ ring = NoMessage /\ ring' = Pos /\ inbox' = inbox /\ mode' = mode /\ store' = store
  BY DEF SendTimeout, Pos, tgt
<1>f. pc' # "fail" => Follows(Pos, Pos')
  <2>1. /\ part' = 1
        /\ pc' # "fail" => pc \in {"otp_lz", "otp_exec"} /\ pc' = "fw_lz"
    BY FailFacts DEF SendTimeout
  <2> QED BY <2>1 DEF Follows, Pos, AfterBoard, AfterFw, Late
<1>1. Messages'
  BY <1>p, <1>q DEF QueueInv, Messages
<1>2. Links'
  BY <1>p, <1>q, <1>f DEF QueueInv, Links
<1>3. Front'
  BY <1>p, <1>q DEF QueueInv, Front, Ripe
<1>4. BootsWhole'
  BY <1>q DEF QueueInv, BootsWhole
<1> QED BY <1>1, <1>2, <1>3, <1>4 DEF QueueInv

(* The queue, after a step of the host. *)
LEMMA HostQueue == TypeOK /\ Place /\ QueueInv /\ Host => QueueInv'
<1> SUFFICES ASSUME TypeOK, Place, QueueInv, Host PROVE QueueInv'
  OBVIOUS
<1> DEFINE Stays == \/ pc' = "fail"
                    \/ pc' = pc /\ part' = part
                    \/ /\ pc # "fail" /\ part' = 1
                       /\ pc' \in AfterBoard => pc \in AfterBoard
                       /\ pc' \in AfterFw => pc \in AfterFw
           Still == ring' = ring /\ inbox' = inbox /\ mode' = mode /\ store' = store
<1>f. ASSUME NEW reason, Fail(reason) PROVE Stays
  BY <1>f, FailFacts DEF AfterBoard, AfterFw, Late
<1>p. ASSUME Proceed, pc \in Exchanges \cup {"fw_wait", "ready", "connect"} PROVE Stays
  <2>1. part' = 1 /\ pc' = After(pc) /\ pc # "fail"
    BY <1>p DEF Proceed, Exchanges
  <2> QED BY <1>p, <2>1, AfterFacts DEF Exchanges, AfterBoard, AfterFw, Late
<1>m. ASSUME Stays, Still PROVE QueueInv'
  BY <1>m, HostMove
<1> USE DEF tx, tgt
<1>1. CASE Post
  BY <1>1, <1>m DEF Post
<1>2. CASE SendBusy
  BY <1>2, <1>f, <1>m DEF SendBusy
<1>3. CASE SendOk
  BY <1>3, SendOkQueue
<1>4. CASE SendTimeout
  BY <1>4, SendTimeoutQueue
<1>5. CASE NoOtp
  <2>1. Stays
    BY <1>5 DEF NoOtp, AfterBoard, AfterFw, Late
  <2> QED BY <1>5, <2>1, <1>m DEF NoOtp
<1>6. CASE RecvConsume
  BY <1>6, <1>m DEF RecvConsume
<1>7. CASE RecvTimeout
  BY <1>7, <1>f, <1>m DEF RecvTimeout
<1>8. CASE ExchangeShort
  BY <1>8, <1>f, <1>m DEF ExchangeShort
<1>9. CASE ExchangeDone
  BY <1>9, <1>f, <1>p, <1>m DEF ExchangeDone
<1>10. CASE FwWaitOk
  BY <1>10, <1>p, <1>m DEF FwWaitOk
<1>11. CASE FwWaitFail
  BY <1>11, <1>f, <1>m DEF FwWaitFail
<1>12. CASE ReadyId
  BY <1>12, <1>m DEF ReadyId
<1>13. CASE ReadyBody
  BY <1>13, <1>f, <1>p, <1>m DEF ReadyBody
<1>14. CASE ConnectDone
  BY <1>14, <1>f, <1>p, <1>m DEF ConnectDone
<1> QED BY <1>1, <1>2, <1>3, <1>4, <1>5, <1>6, <1>7, <1>8, <1>9, <1>10, <1>11, <1>12,
          <1>13, <1>14 DEF Host

(* A command the ROM serves leaves the memory the one behind it asks for. *)
LEMMA ServeRipe ==
  ASSUME TypeOK, NEW m \in Message, m.part \in 1 .. Parts(m.cmd), Ripe(m),
         NEW n, Follows(m, n), n.cmd \in Loads => n.part \in Nat,
         store' = Stored(m)
  PROVE  Ripe(n)'
<1>p. Parts("brd_w") = Chunks + 1 /\ Parts("fw_lz") = Chunks + 2 /\ Chunks \in Nat
  BY ChunksAssumption DEF Parts, LzStreams
<1>s. \A c \in Loads : store[c] \in Nat /\ store'[c] = Stored(m)[c]
  BY DEF TypeOK, TypeTgt
<1>v. \A c \in Loads :
        store'[c] = IF c = m.cmd
                    THEN IF m.part = 1 \/ store[c] = m.part - 1 THEN m.part ELSE 0
                    ELSE IF {c, m.cmd} = LzStreams THEN 0 ELSE store[c]
  BY <1>s DEF Stored
<1>own. m.cmd \in Loads => store'[m.cmd] = m.part
  <2> SUFFICES ASSUME m.cmd \in Loads PROVE store'[m.cmd] = m.part
    OBVIOUS
  <2>1. m.part \in Nat /\ m.part >= 1
    BY PartsFacts
  <2>2. m.part = 1 \/ store[m.cmd] = m.part - 1
    BY <2>1 DEF Ripe
  <2> QED BY <1>v, <2>2
<1>1. n.cmd \in Loads /\ n.part > 1 => store'[n.cmd] = n.part - 1
  <2> SUFFICES ASSUME n.cmd \in Loads, n.part > 1 PROVE store'[n.cmd] = n.part - 1
    OBVIOUS
  <2>1. m.cmd = n.cmd /\ n.part = m.part + 1
    BY DEF Follows
  <2>2. m.part \in Nat
    BY PartsFacts
  <2> QED BY <1>own, <2>1, <2>2
<1>2. n.cmd \in AfterBoard => store'["brd_w"] = Parts("brd_w")
  <2> SUFFICES ASSUME n.cmd \in AfterBoard PROVE store'["brd_w"] = Parts("brd_w")
    OBVIOUS
  <2>1. CASE m.cmd = "brd_w" /\ Whole(m)
    BY <1>own, <2>1 DEF Whole, Loads
  <2>2. CASE m.cmd \in AfterBoard
    <3>1. m.cmd # "brd_w" /\ {"brd_w", m.cmd} # LzStreams
      BY <2>2 DEF AfterBoard, AfterFw, Late, LzStreams
    <3>2. store'["brd_w"] = store["brd_w"]
      BY <1>v, <3>1 DEF Loads
    <3> QED BY <2>2, <3>2 DEF Ripe
  <2> QED BY <2>1, <2>2 DEF Follows
<1>3. n.cmd \in AfterFw => store'["fw_lz"] = Parts("fw_lz")
  <2> SUFFICES ASSUME n.cmd \in AfterFw PROVE store'["fw_lz"] = Parts("fw_lz")
    OBVIOUS
  <2>1. CASE m.cmd = "fw_lz" /\ Whole(m)
    BY <1>own, <2>1 DEF Whole, Loads, LzStreams
  <2>2. CASE m.cmd \in AfterFw
    <3>1. m.cmd # "fw_lz" /\ {"fw_lz", m.cmd} # LzStreams
      BY <2>2 DEF AfterFw, Late, LzStreams
    <3>2. store'["fw_lz"] = store["fw_lz"]
      BY <1>v, <3>1 DEF Loads, LzStreams
    <3> QED BY <2>2, <3>2 DEF Ripe
  <2> QED BY <2>1, <2>2 DEF Follows
<1> QED BY <1>1, <1>2, <1>3 DEF Ripe

(* Taking the oldest command off the queue keeps what links the others. *)
LEMMA TakeHead ==
  ASSUME TypeOK, Messages, Links, inbox # <<>>, inbox' = Tail(inbox),
         ring' = ring, pc' = pc, part' = part
  PROVE  /\ inbox' \in Seq(Message) /\ Head(inbox) = inbox[1] /\ inbox[1] \in Message
         /\ inbox[1].part \in 1 .. Parts(inbox[1].cmd)
         /\ Len(inbox') = Len(inbox) - 1 /\ Len(inbox) \in Nat \ {0}
         /\ \A i \in 1 .. Len(inbox') : inbox'[i] = inbox[i + 1]
         /\ Messages' /\ Links'
         /\ inbox' # <<>> => Follows(inbox[1], inbox'[1])
         /\ inbox' = <<>> /\ ring # NoMessage => Follows(inbox[1], ring)
         /\ inbox' = <<>> /\ ring = NoMessage /\ pc # "fail" => Follows(inbox[1], Pos)
<1>1. /\ inbox \in Seq(Message) /\ inbox' \in Seq(Message) /\ Head(inbox) = inbox[1]
      /\ Len(inbox') = Len(inbox) - 1 /\ Len(inbox) \in Nat \ {0}
      /\ \A i \in 1 .. Len(inbox') : inbox'[i] = inbox[i + 1]
  BY HeadTailProperties, EmptySeq, LenProperties DEF TypeOK, TypeTx
<1>2. inbox[1] \in Message /\ inbox[1].part \in 1 .. Parts(inbox[1].cmd)
  <2>1. 1 \in 1 .. Len(inbox)
    BY <1>1
  <2> QED BY <1>1, <2>1, ElementOfSeq DEF Messages
<1>3. Messages'
  <2>1. ASSUME NEW i \in 1 .. Len(inbox') PROVE inbox'[i].part \in 1 .. Parts(inbox'[i].cmd)
    <3>1. i + 1 \in 1 .. Len(inbox)
      BY <1>1
    <3> QED BY <1>1, <3>1 DEF Messages
  <2> QED BY <2>1 DEF Messages
<1>4. Pos' = Pos
  BY DEF Pos
<1>5. inbox' # <<>> => 1 \in 1 .. Len(inbox') /\ inbox'[Len(inbox')] = inbox[Len(inbox)]
  BY <1>1, EmptySeq
<1>6. Links'
  <2>1. ASSUME NEW i \in 1 .. Len(inbox'), i + 1 \in 1 .. Len(inbox')
        PROVE  Follows(inbox'[i], inbox'[i + 1])
    <3>1. i + 1 \in 1 .. Len(inbox) /\ (i + 1) + 1 \in 1 .. Len(inbox)
      BY <1>1, <2>1
    <3>2. inbox'[i] = inbox[i + 1] /\ inbox'[i + 1] = inbox[(i + 1) + 1]
      BY <1>1, <2>1
    <3>3. Follows(inbox[i + 1], inbox[(i + 1) + 1])
      BY <3>1 DEF Links
    <3> QED BY <3>2, <3>3
  <2>2. ring' # NoMessage /\ inbox' # <<>> => Follows(inbox'[Len(inbox')], ring')
    BY <1>5 DEF Links
  <2>3. pc' # "fail" /\ ring' # NoMessage => Follows(ring', Pos')
    BY <1>4 DEF Links
  <2>4. pc' # "fail" /\ ring' = NoMessage /\ inbox' # <<>> => Follows(inbox'[Len(inbox')], Pos')
    BY <1>4, <1>5 DEF Links
  <2> QED BY <2>1, <2>2, <2>3, <2>4 DEF Links
<1>7. inbox' # <<>> => Follows(inbox[1], inbox'[1])
  <2> SUFFICES ASSUME inbox' # <<>> PROVE Follows(inbox[1], inbox'[1])
    OBVIOUS
  <2>1. 1 \in 1 .. Len(inbox) /\ 1 + 1 \in 1 .. Len(inbox) /\ inbox'[1] = inbox[1 + 1]
    BY <1>1, <1>5
  <2>2. Follows(inbox[1], inbox[1 + 1])
    BY <2>1 DEF Links
  <2> QED BY <2>1, <2>2
<1>8. inbox' = <<>> => Len(inbox) = 1
  <2>1. inbox' = <<>> => Len(inbox') = 0
    BY Zenon, <1>1, EmptySeq
  <2> QED BY <1>1, <2>1
<1> QED BY <1>1, <1>2, <1>3, <1>6, <1>7, <1>8 DEF Links

(* The queue, after the ROM served its oldest command. *)
LEMMA RomServeQueue ==
  ASSUME TypeOK, QueueInv, RomServe
  PROVE  QueueInv'
<1>q. /\ inbox # <<>> /\ inbox' = Tail(inbox) /\ ring' = ring /\ pc' = pc /\ part' = part
      /\ mode = "rom"
  BY DEF RomServe, hostv
<1>1. /\ inbox' \in Seq(Message) /\ Head(inbox) = inbox[1] /\ inbox[1] \in Message
      /\ inbox[1].part \in 1 .. Parts(inbox[1].cmd)
      /\ Messages' /\ Links'
      /\ inbox' # <<>> => Follows(inbox[1], inbox'[1])
      /\ inbox' = <<>> /\ ring # NoMessage => Follows(inbox[1], ring)
      /\ inbox' = <<>> /\ ring = NoMessage /\ pc # "fail" => Follows(inbox[1], Pos)
  BY <1>q, TakeHead DEF QueueInv
<1>2. Ripe(inbox[1]) /\ store' = Stored(inbox[1])
  BY <1>q, <1>1 DEF RomServe, QueueInv, Front
<1>r. ASSUME NEW n, Follows(inbox[1], n), n.part \in Nat PROVE Ripe(n)'
  BY <1>r, <1>1, <1>2, ServeRipe
<1>n. /\ inbox' # <<>> => inbox'[1].part \in Nat
      /\ ring # NoMessage => ring.part \in Nat
      /\ Pos.part \in Nat
  <2>1. inbox' # <<>> => inbox'[1] \in Message
    BY <1>1, HeadTailProperties
  <2>2. part \in Nat
    BY PartsFacts DEF TypeOK, TypeHost
  <2> QED BY <2>1, <2>2, ChunksAssumption DEF Message, TypeOK, TypeTx, Pos
<1>3. Front'
  <2>1. inbox' # <<>> => Ripe(inbox[1])'
    <3> SUFFICES ASSUME inbox' # <<>> PROVE Ripe(inbox[1])'
      OBVIOUS
    <3>n. PICK n : n = inbox'[1]
      OBVIOUS
    <3>1. Follows(inbox[1], n) /\ n.part \in Nat
      BY <1>1, <1>n, <3>n
    <3>2. Ripe(n)'
      BY <1>r, <3>1
    <3> QED BY <3>n, <3>2 DEF Ripe
  <2>2. inbox' = <<>> /\ ring # NoMessage => Ripe(ring)'
    BY <1>q, <1>r, <1>1, <1>n DEF Ripe
  <2>3. inbox' = <<>> /\ ring = NoMessage /\ pc # "fail" => Ripe(Pos)'
    BY <1>q, <1>r, <1>1, <1>n DEF Ripe, Pos
  <2> QED BY <1>q, <2>1, <2>2, <2>3 DEF Front
<1>4. BootsWhole'
  <2> SUFFICES ASSUME mode' \in {"fw", "ready"}
               PROVE  store'["fw_lz"] = Parts("fw_lz") /\ store'["brd_w"] = Parts("brd_w")
    BY DEF BootsWhole
  <2>1. inbox[1].cmd = "done"
    BY <1>q, <1>1 DEF RomServe
  <2>2. Follows(inbox[1], inbox[1])
    BY <2>1 DEF Follows, AfterFw, AfterBoard, Loads, LzStreams
  <2>3. inbox[1].part \in Nat
    BY <1>1, PartsFacts
  <2>4. Ripe(inbox[1])
    BY <1>2
  <2>5. store' = [c \in Loads |-> store[c]]
    BY <1>2, <2>1 DEF Stored, Loads, LzStreams
  <2> QED BY <2>1, <2>4, <2>5 DEF Ripe, AfterFw, AfterBoard, Loads, LzStreams
<1> QED BY <1>1, <1>3, <1>4 DEF QueueInv

(* The queue, after a step of the target. *)
LEMMA TargetQueue == TypeOK /\ QueueInv /\ Target => QueueInv'
<1> SUFFICES ASSUME TypeOK, QueueInv, Target PROVE QueueInv'
  OBVIOUS
<1> DEFINE Quiet == /\ hostv' = hostv /\ tx' = tx /\ store' = store
                    /\ mode' \in {mode, "dead"} \/ (mode = "fw" /\ mode' = "ready")
<1>q. ASSUME Quiet PROVE QueueInv'
  <2>1. Messages' /\ Links'
    BY <1>q DEF QueueInv, Messages, Links, Pos, hostv, tx
  <2>2. Front'
    BY <1>q DEF QueueInv, Front, Ripe, Pos, hostv, tx
  <2>3. BootsWhole'
    BY <1>q DEF QueueInv, BootsWhole
  <2> QED BY <2>1, <2>2, <2>3 DEF QueueInv
<1>1. CASE EngineMove
  <2>q. /\ ring # NoMessage /\ ring' = NoMessage /\ inbox' = Append(inbox, ring)
        /\ pc' = pc /\ part' = part /\ mode' = mode /\ store' = store
    BY <1>1 DEF EngineMove, hostv, tgt
  <2>p. Pos' = Pos
    BY <2>q DEF Pos
  <2>a. /\ inbox \in Seq(Message) /\ inbox' # <<>> /\ Len(inbox') = Len(inbox) + 1 /\ Len(inbox) \in Nat
        /\ \A i \in 1 .. Len(inbox) : inbox'[i] = inbox[i]
        /\ inbox'[Len(inbox) + 1] = ring
    BY <2>q, AppendProperties, LenProperties DEF TypeOK, TypeTx
  <2>1. Messages'
    <3>1. ASSUME NEW i \in 1 .. Len(inbox') PROVE inbox'[i].part \in 1 .. Parts(inbox'[i].cmd)
      <4>1. CASE i \in 1 .. Len(inbox)
        BY <2>a, <4>1 DEF QueueInv, Messages
      <4>2. CASE i = Len(inbox) + 1
        BY <2>a, <2>q, <4>2 DEF QueueInv, Messages
      <4> QED BY <2>a, <4>1, <4>2
    <3> QED BY <2>q, <3>1 DEF Messages
  <2>2. Links'
    <3>1. ASSUME NEW i \in 1 .. Len(inbox'), i + 1 \in 1 .. Len(inbox')
          PROVE  Follows(inbox'[i], inbox'[i + 1])
      <4>1. CASE i + 1 \in 1 .. Len(inbox)
        <5>1. i \in 1 .. Len(inbox) /\ inbox'[i] = inbox[i] /\ inbox'[i + 1] = inbox[i + 1]
          BY <2>a, <4>1
        <5>2. Follows(inbox[i], inbox[i + 1])
          BY <4>1, <5>1 DEF QueueInv, Links
        <5> QED BY <5>1, <5>2
      <4>2. CASE i = Len(inbox)
        <5>1. inbox # <<>> /\ inbox'[i] = inbox[Len(inbox)] /\ inbox'[i + 1] = ring
          BY <2>a, <4>2, EmptySeq
        <5>2. Follows(inbox[Len(inbox)], ring)
          BY <2>q, <5>1 DEF QueueInv, Links
        <5> QED BY <5>1, <5>2
      <4> QED BY <2>a, <3>1, <4>1, <4>2
    <3>2. pc' # "fail" => Follows(inbox'[Len(inbox')], Pos')
      BY <2>a, <2>q, <2>p DEF QueueInv, Links
    <3> QED BY <2>q, <3>1, <3>2 DEF Links
  <2>3. Front'
    <3>1. CASE inbox = <<>>
      <4>1. inbox'[1] = ring
        BY <2>a, <3>1, EmptySeq
      <4> QED BY <2>q, <2>a, <3>1, <4>1 DEF QueueInv, Front, Ripe
    <3>2. CASE inbox # <<>>
      <4>1. inbox'[1] = inbox[1]
        BY <2>a, <3>2, EmptySeq
      <4> QED BY <2>q, <2>a, <3>2, <4>1 DEF QueueInv, Front, Ripe
    <3> QED BY <3>1, <3>2
  <2>4. BootsWhole'
    BY <2>q DEF QueueInv, BootsWhole
  <2> QED BY <2>1, <2>2, <2>3, <2>4 DEF QueueInv
<1>2. CASE Emit
  <2>1. Quiet
    BY <1>2 DEF Emit
  <2> QED BY <2>1, <1>q
<1>3. CASE RomServe
  BY <1>3, RomServeQueue
<1>4. CASE TargetDies
  <2>1. Quiet
    BY <1>4 DEF TargetDies
  <2> QED BY <2>1, <1>q
<1>5. CASE FwAnnounce
  <2>1. Quiet
    BY <1>5 DEF FwAnnounce
  <2> QED BY <2>1, <1>q
<1>6. CASE FwChatter
  <2>1. Quiet
    BY <1>6 DEF FwChatter
  <2> QED BY <2>1, <1>q
<1>7. CASE FwReady
  <2>1. Quiet
    BY <1>7 DEF FwReady
  <2> QED BY <2>1, <1>q
<1>8. CASE FwServe
  <2>q. /\ inbox # <<>> /\ inbox' = Tail(inbox) /\ ring' = ring /\ pc' = pc /\ part' = part
        /\ mode = "ready" /\ mode' = mode /\ store' = store
    BY <1>8 DEF FwServe, hostv
  <2>1. Messages' /\ Links'
    BY <2>q, TakeHead DEF QueueInv
  <2>2. Front' /\ BootsWhole'
    BY <2>q DEF QueueInv, Front, BootsWhole
  <2> QED BY <2>1, <2>2 DEF QueueInv
<1> QED BY <1>1, <1>2, <1>3, <1>4, <1>5, <1>6, <1>7, <1>8 DEF Target

-----------------------------------------------------------------------------
(* Who answers whom.                                                       *)

(* The host is at a place of its program. *)
LEMMA PlaceStep == TypeOK /\ Place /\ Next => Place'
<1> SUFFICES ASSUME TypeOK, Place, Next PROVE Place'
  OBVIOUS
<1>t. CASE Target
  <2>1. hostv' = hostv
    BY <1>t DEF Target, EngineMove, Emit, RomServe, TargetDies, FwAnnounce, FwChatter, FwReady, FwServe
  <2> QED BY <2>1 DEF Place, hostv
<1>f. ASSUME NEW reason, Fail(reason) PROVE Place'
  BY <1>f, FailFacts DEF Place, Late
<1>p. ASSUME Proceed, pc \in Moving PROVE Place'
  BY <1>p, AfterFacts DEF Proceed, Place, Moving, Commands, Exchanges, Sends, Late
<1>1. CASE Post
  BY <1>1 DEF Post, Place
<1>2. CASE SendBusy
  BY <1>2, <1>f DEF SendBusy
<1>3. CASE SendOk
  <2>1. pc \in Moving
    BY <1>3, PosFacts DEF SendOk, Moving
  <2>2. CASE sub = "send"
    BY <1>3, <2>2 DEF SendOk, Place
  <2>3. CASE sub # "send" /\ part < Parts(pc)
    BY <1>3, <2>3 DEF SendOk, Place
  <2>4. CASE sub # "send" /\ ~(part < Parts(pc))
    BY <1>3, <2>1, <2>4, <1>p DEF SendOk
  <2> QED BY <2>2, <2>3, <2>4
<1>4. CASE SendTimeout
  BY <1>4, <1>f DEF SendTimeout
<1>5. CASE NoOtp
  BY <1>5 DEF NoOtp, Place, Exchanges, Late
<1>6. CASE RecvConsume
  BY <1>6 DEF RecvConsume, Place
<1>7. CASE RecvTimeout
  BY <1>7, <1>f DEF RecvTimeout
<1>8. CASE ExchangeShort
  BY <1>8, <1>f DEF ExchangeShort
<1>9. CASE ExchangeDone
  BY <1>9, <1>f, <1>p DEF ExchangeDone, Moving, Commands
<1>10. CASE FwWaitOk
  BY <1>10, <1>p DEF FwWaitOk, Moving
<1>11. CASE FwWaitFail
  BY <1>11, <1>f DEF FwWaitFail
<1>12. CASE ReadyId
  BY <1>12 DEF ReadyId, Place
<1>13. CASE ReadyBody
  BY <1>13, <1>f, <1>p DEF ReadyBody, Moving
<1>14. CASE ConnectDone
  BY <1>14, <1>f, <1>p DEF ConnectDone, Moving, Commands
<1> QED BY <1>t, <1>1, <1>2, <1>3, <1>4, <1>5, <1>6, <1>7, <1>8, <1>9, <1>10, <1>11, <1>12,
          <1>13, <1>14 DEF Next, Host

(* A step of the host that sends nothing. *)
LEMMA HostSpeaks ==
  ASSUME Speaks, UNCHANGED <<rxBuf, ring, inbox, mode, out, booted>>,
         \/ pc' = "fail"
         \/ /\ pc # "fail"
            /\ pc' \notin Late => pc \notin Late
            /\ pc' \notin Final => pc \notin Final
            /\ pc' \in Final => pc \in Final \/ rxBuf.kind \in Said,
         sub' = "body" => rxBuf.kind \in Said
  PROVE  Speaks'
<1>1. Sent({"done"})' = Sent({"done"}) /\ Sent({"connect"})' = Sent({"connect"})
  BY DEF Sent
<1>2. pc' = "fail" => pc' \notin Final
  BY DEF Final
<1> QED BY <1>1, <1>2 DEF Speaks

(* What a step puts on the queue is all that it adds to what was sent. *)
LEMMA SentGrows ==
  ASSUME TypeOK, NEW cmds, "none" \notin cmds, NEW m \in Message,
         \/ inbox' = Append(inbox, m) /\ ring' \in {ring, NoMessage}
         \/ inbox' = inbox /\ ring' = m
  PROVE  Sent(cmds)' => Sent(cmds) \/ m.cmd \in cmds
<1>1. CASE inbox' = inbox /\ ring' = m
  BY <1>1 DEF Sent
<1>2. CASE inbox' = Append(inbox, m) /\ ring' \in {ring, NoMessage}
  <2>a. /\ Len(inbox') = Len(inbox) + 1 /\ Len(inbox) \in Nat
        /\ \A i \in 1 .. Len(inbox) : inbox'[i] = inbox[i]
        /\ inbox'[Len(inbox) + 1] = m
    BY <1>2, AppendProperties, LenProperties DEF TypeOK, TypeTx
  <2>1. ASSUME NEW i \in 1 .. Len(inbox'), inbox'[i].cmd \in cmds
        PROVE  Sent(cmds) \/ m.cmd \in cmds
    <3>1. CASE i \in 1 .. Len(inbox)
      BY <2>a, <2>1, <3>1 DEF Sent
    <3>2. CASE i = Len(inbox) + 1
      BY <2>a, <2>1, <3>2
    <3> QED BY <2>a, <3>1, <3>2
  <2>2. ring'.cmd \in cmds => Sent(cmds)
    BY <1>2 DEF Sent, NoMessage
  <2> QED BY <2>1, <2>2 DEF Sent
<1> QED BY <1>1, <1>2

(* Who may be heard, after a step of the host. *)
LEMMA HostSpeaksStep == TypeOK /\ Place /\ Speaks /\ Host => Speaks'
<1> SUFFICES ASSUME TypeOK, Place, Speaks, Host PROVE Speaks'
  OBVIOUS
<1> DEFINE Goes == \/ pc' = "fail"
                   \/ /\ pc # "fail"
                      /\ pc' \notin Late => pc \notin Late
                      /\ pc' \notin Final => pc \notin Final
                      /\ pc' \in Final => pc \in Final \/ rxBuf.kind \in Said
           Still == UNCHANGED <<rxBuf, ring, inbox, mode, out, booted>>
<1>m. ASSUME Goes, Still, sub' = "body" => rxBuf.kind \in Said PROVE Speaks'
  BY <1>m, HostSpeaks
<1>f. ASSUME NEW reason, Fail(reason) PROVE Goes /\ sub' = "call"
  BY <1>f, FailFacts DEF Late, Final
<1>p. ASSUME Proceed, pc \in Moving, pc = "ready" => rxBuf.kind \in Said
      PROVE  Goes /\ sub' = "call"
  BY <1>p, AfterFacts DEF Proceed, Moving, Commands, Exchanges, Sends, Late, Final
<1>c. ASSUME Goes, sub' = "call", Still PROVE Speaks'
  BY <1>c, <1>m
<1>k. ASSUME pc' = pc PROVE Goes
  BY <1>k
<1> HIDE DEF Goes
<1>1. CASE Post
  <2>1. Goes /\ Still /\ sub' # "body"
    BY <1>1, <1>k DEF Post, tx, tgt
  <2> QED BY <2>1, <1>m
<1>2. CASE SendBusy
  <2>1. Goes /\ Still /\ sub' = "call"
    BY <1>2, <1>f DEF SendBusy, rx, tx, tgt
  <2> QED BY <2>1, <1>c
<1>3. CASE SendOk
  <2>p. /\ pc \in Commands /\ pc # "fail" /\ Pos \in Message /\ Pos.cmd = pc /\ part \in 1 .. Parts(pc)
    BY <1>3, PosFacts DEF SendOk
  <2>q. /\ inbox' = Append(inbox, Pos) /\ ring' = ring /\ rxBuf' = rxBuf /\ mode' = mode
        /\ out' = out /\ booted' = booted
    BY <1>3 DEF SendOk, Pos, rx, tgt
  <2>1. /\ sub' # "body" /\ pc' # "fail"
        /\ pc' = pc \/ (pc' = After(pc) /\ pc \in Sends)
    <3>1. CASE sub = "send"
      BY <1>3, <2>p, <3>1 DEF SendOk
    <3>2. CASE sub # "send" /\ part < Parts(pc)
      BY <1>3, <2>p, <3>2 DEF SendOk, Sending
    <3>3. CASE sub # "send" /\ ~(part < Parts(pc))
      BY <1>3, <2>p, <3>3, ProceedFacts DEF SendOk, Sending, Moving
    <3> QED BY <3>1, <3>2, <3>3
  <2>2. /\ pc' \notin Late => pc \notin Late /\ pc # "done"
        /\ pc' \notin Final => pc \notin Final
        /\ pc' \in Final => pc \in Final
    <3>1. CASE pc' = After(pc) /\ pc \in Sends
      BY <3>1, AfterFacts DEF Late, Final, Sends
    <3>2. CASE pc' = pc
      <4>1. pc # "done"
        <5> SUFFICES ASSUME pc = "done" PROVE FALSE
          OBVIOUS
        <5>1. sub # "send" /\ Parts(pc) = 1 /\ part = 1
          BY <2>p, PartsFacts DEF Place, Exchanges, Loads, LzStreams
        <5>2. pc' = "fw_wait"
          BY <1>3, <5>1, AfterFacts DEF SendOk, Proceed
        <5> QED BY <3>2, <5>2
      <4> QED BY <3>2, <4>1
    <3> QED BY <2>1, <3>1, <3>2
  <2>3. /\ Sent({"done"})' => Sent({"done"}) \/ pc = "done"
        /\ Sent({"connect"})' => Sent({"connect"}) \/ pc = "connect"
    BY <2>p, <2>q, SentGrows
  <2>4. pc = "connect" => pc \in Final
    BY DEF Final
  <2> QED BY <2>p, <2>q, <2>1, <2>2, <2>3, <2>4 DEF Speaks
<1>4. CASE SendTimeout
  <2>p. Pos \in Message /\ Pos.cmd = pc
    BY <1>4, PosFacts DEF SendTimeout
  <2>q. /\ inbox' = inbox /\ ring' = Pos /\ rxBuf' = rxBuf /\ mode' = mode
        /\ out' = out /\ booted' = booted
    BY <1>4 DEF SendTimeout, Pos, rx, tgt
  <2>1. CASE pc' = "fail"
    BY <2>q, <2>1 DEF Speaks, Final
  <2>2. CASE pc \in {"otp_lz", "otp_exec"} /\ pc' = "fw_lz" /\ sub' = "call"
    <3>1. ~Sent({"done"})' /\ ~Sent({"connect"})'
      <4>1. /\ Sent({"done"})' => Sent({"done"}) \/ pc = "done"
            /\ Sent({"connect"})' => Sent({"connect"}) \/ pc = "connect"
        BY <2>p, <2>q, SentGrows
      <4> QED BY <2>2, <4>1 DEF Speaks, Late, Final
    <3> QED BY <2>q, <2>2, <3>1 DEF Speaks, Late, Final
  <2> QED BY <1>4, <2>1, <2>2, FailFacts DEF SendTimeout
<1>5. CASE NoOtp
  <2>1. Goes /\ Still /\ sub' = sub
    BY <1>5 DEF NoOtp, Goes, Late, Final, rx, tx, tgt
  <2>2. sub # "body"
    BY <1>5 DEF NoOtp, Place
  <2> QED BY <2>1, <2>2, <1>m
<1>6. CASE RecvConsume
  <2>1. Goes /\ Still /\ sub' # "body"
    BY <1>6, <1>k DEF RecvConsume, tx, tgt
  <2> QED BY <2>1, <1>m
<1>7. CASE RecvTimeout
  <2>1. Goes /\ Still /\ sub' = "call"
    BY <1>7, <1>f DEF RecvTimeout, rx, tx, tgt
  <2> QED BY <2>1, <1>c
<1>8. CASE ExchangeShort
  <2>1. Goes /\ Still /\ sub' = "call"
    BY <1>8, <1>f DEF ExchangeShort, rx, tx, tgt
  <2> QED BY <2>1, <1>c
<1>9. CASE ExchangeDone
  <2>0. pc \in Moving /\ pc # "ready"
    BY <1>9 DEF ExchangeDone, Exchanges, Moving, Commands
  <2>1. Goes /\ Still /\ sub' = "call"
    BY <1>9, <2>0, <1>f, <1>p DEF ExchangeDone, rx, tx, tgt
  <2> QED BY <2>1, <1>c
<1>10. CASE FwWaitOk
  <2>1. Goes /\ Still /\ sub' = "call"
    BY <1>10, <1>p DEF FwWaitOk, Moving, rx, tx, tgt
  <2> QED BY <2>1, <1>c
<1>11. CASE FwWaitFail
  <2>1. Goes /\ Still /\ sub' = "call"
    BY <1>11, <1>f DEF FwWaitFail, rx, tx, tgt
  <2> QED BY <2>1, <1>c
<1>12. CASE ReadyId
  <2>1. Goes /\ Still
    BY <1>12, <1>k DEF ReadyId, rx, tx, tgt
  <2>2. sub' = "body" => rxBuf.kind \in Said
    BY <1>12 DEF ReadyId, Said
  <2> QED BY <2>1, <2>2, <1>m
<1>13. CASE ReadyBody
  <2>0. pc \in Moving /\ rxBuf.kind \in Said
    BY <1>13 DEF ReadyBody, Moving, Speaks
  <2>1. Goes /\ Still /\ sub' = "call"
    BY <1>13, <2>0, <1>f, <1>p DEF ReadyBody, rx, tx, tgt
  <2> QED BY <2>1, <1>c
<1>14. CASE ConnectDone
  <2>0. pc \in Moving /\ pc # "ready"
    BY <1>14 DEF ConnectDone, Moving, Commands
  <2>1. Goes /\ Still /\ sub' = "call"
    BY <1>14, <2>0, <1>f, <1>p DEF ConnectDone, rx, tx, tgt
  <2> QED BY <2>1, <1>c
<1> QED BY <1>1, <1>2, <1>3, <1>4, <1>5, <1>6, <1>7, <1>8, <1>9, <1>10, <1>11, <1>12,
          <1>13, <1>14 DEF Host

(* Serving a command takes it from what is under way. *)
LEMMA SentShrinks ==
  ASSUME TypeOK, inbox # <<>>, inbox' = Tail(inbox), ring' = ring, NEW cmds
  PROVE  /\ Sent(cmds)' => Sent(cmds)
         /\ Head(inbox).cmd \in cmds => Sent(cmds)
<1>1. /\ Head(inbox) = inbox[1] /\ Len(inbox') = Len(inbox) - 1 /\ Len(inbox) \in Nat \ {0}
      /\ \A i \in 1 .. Len(inbox') : inbox'[i] = inbox[i + 1]
  BY HeadTailProperties, EmptySeq, LenProperties DEF TypeOK, TypeTx
<1>2. ASSUME NEW i \in 1 .. Len(inbox'), inbox'[i].cmd \in cmds PROVE Sent(cmds)
  <2>1. i + 1 \in 1 .. Len(inbox) /\ inbox'[i] = inbox[i + 1]
    BY <1>1
  <2> QED BY <1>2, <2>1 DEF Sent
<1>3. Head(inbox).cmd \in cmds => Sent(cmds)
  <2>1. 1 \in 1 .. Len(inbox)
    BY <1>1
  <2> QED BY <1>1, <2>1 DEF Sent
<1> QED BY <1>2, <1>3 DEF Sent

(* Who may be heard, after a step of the target. *)
LEMMA TargetSpeaksStep == TypeOK /\ Speaks /\ Target => Speaks'
<1> SUFFICES ASSUME TypeOK, Speaks, Target PROVE Speaks'
  OBVIOUS
<1>h. pc' = pc /\ sub' = sub
  BY DEF Target, EngineMove, Emit, RomServe, TargetDies, FwAnnounce, FwChatter, FwReady,
         FwServe, hostv
<1>s. ASSUME tx' = tx PROVE Sent({"done"})' = Sent({"done"}) /\ Sent({"connect"})' = Sent({"connect"})
  BY <1>s DEF Sent, tx
<1>1. CASE EngineMove
  <2>q. /\ inbox' = Append(inbox, ring) /\ ring' = NoMessage /\ rxBuf' = rxBuf /\ mode' = mode
        /\ out' = out /\ booted' = booted /\ ring \in Message
    BY <1>1 DEF EngineMove, rx, tgt, TypeOK, TypeTx
  <2>1. /\ Sent({"done"})' => Sent({"done"})
        /\ Sent({"connect"})' => Sent({"connect"})
    <3>1. /\ Sent({"done"})' => Sent({"done"}) \/ ring.cmd \in {"done"}
          /\ Sent({"connect"})' => Sent({"connect"}) \/ ring.cmd \in {"connect"}
      BY <2>q, SentGrows
    <3> QED BY <3>1 DEF Sent
  <2> QED BY <1>h, <2>q, <2>1 DEF Speaks
<1>2. CASE Emit
  <2>q. /\ rxBuf' = out /\ out' = Frame("none", 0) /\ out.kind # "none" /\ tx' = tx
        /\ mode' = mode /\ booted' = booted
    BY <1>2 DEF Emit
  <2>1. out'.kind = "none" /\ "none" \notin Exchanges \cup Conn \cup Said
    BY <2>q, FrameFacts DEF Exchanges, Conn, Said
  <2>2. pc = "ready" /\ sub = "body" => out.kind \in Said
    BY <2>q DEF Speaks, Final, Said, Behind
  <2> QED BY <1>h, <1>s, <2>q, <2>1, <2>2 DEF Speaks
<1>3. CASE RomServe
  <2>q. /\ mode = "rom" /\ inbox # <<>> /\ inbox' = Tail(inbox) /\ ring' = ring /\ rxBuf' = rxBuf
        /\ booted' = booted /\ out.kind = "none"
        /\ mode' = IF Head(inbox).cmd = "done" THEN "fw" ELSE mode
        /\ out' \in IF Head(inbox).cmd \in Exchanges THEN Answers(Head(inbox).cmd) ELSE {out}
    BY <1>3 DEF RomServe, rx
  <2>1. out'.kind \in Exchanges \cup {"none"}
    BY <2>q, FrameFacts
  <2>2. /\ Sent({"done"})' => Sent({"done"})
        /\ Head(inbox).cmd = "done" => Sent({"done"})
        /\ Sent({"connect"})' => Sent({"connect"})
    BY <2>q, SentShrinks
  <2>3. ~booted
    BY <2>q DEF Speaks
  <2>4. out'.kind \notin Conn /\ out'.kind \notin Said
    BY <2>1 DEF Exchanges, Conn, Said
  <2>5. pc \notin Late \cup {"fail"} => mode' = "rom" /\ ~Sent({"done"})'
    BY <2>q, <2>2 DEF Speaks
  <2> QED BY <1>h, <2>q, <2>1, <2>2, <2>3, <2>4, <2>5 DEF Speaks
<1>4. CASE TargetDies
  <2>q. /\ mode' = "dead" /\ tx' = tx /\ rxBuf' = rxBuf /\ out' = out /\ booted' = booted
    BY <1>4 DEF TargetDies, rx
  <2> QED BY <1>h, <1>s, <2>q DEF Speaks
<1>5. CASE FwAnnounce
  <2>q. /\ mode' = mode /\ tx' = tx /\ rxBuf' = rxBuf /\ out' = out /\ booted' = booted
    BY <1>5 DEF FwAnnounce, rx
  <2> QED BY <1>h, <1>s, <2>q DEF Speaks
<1>6. CASE FwChatter
  <2>q. /\ mode' = mode /\ tx' = tx /\ rxBuf' = rxBuf /\ booted' = booted
        /\ \/ mode = "fw" /\ out'.kind = "chat"
           \/ mode = "ready" /\ out'.kind = "late"
    BY <1>6, FrameFacts DEF FwChatter, rx
  <2> QED BY <1>h, <1>s, <2>q DEF Speaks, Conn, Said, Behind
<1>7. CASE FwReady
  <2>q. /\ mode = "fw" /\ mode' = "ready" /\ tx' = tx /\ rxBuf' = rxBuf /\ booted' = TRUE
        /\ out'.kind = "ready"
    BY <1>7, FrameFacts DEF FwReady, rx
  <2> QED BY <1>h, <1>s, <2>q DEF Speaks, Conn, Said, Behind
<1>8. CASE FwServe
  <2>q. /\ mode = "ready" /\ inbox # <<>> /\ inbox' = Tail(inbox) /\ ring' = ring /\ rxBuf' = rxBuf
        /\ mode' = mode /\ booted' = booted /\ out.kind = "none"
        /\ out' \in IF Head(inbox).cmd = "connect" THEN {ConnOk, ConnBad} ELSE {out}
    BY <1>8 DEF FwServe, rx
  <2>1. out'.kind \in Conn \cup {"none"} /\ (Head(inbox).cmd # "connect" => out'.kind = "none")
    BY <2>q, FrameFacts DEF Conn
  <2>2. /\ Head(inbox).cmd = "connect" => Sent({"connect"})
        /\ Sent({"connect"})' => Sent({"connect"})
        /\ Sent({"done"})' => Sent({"done"})
    BY <2>q, SentShrinks
  <2>3. "none" \notin Conn \cup Said /\ Said \cap Conn = {} /\ Conn \subseteq Behind
    BY DEF Conn, Said, Behind
  <2> QED BY <1>h, <2>q, <2>1, <2>2, <2>3 DEF Speaks
<1> QED BY <1>1, <1>2, <1>3, <1>4, <1>5, <1>6, <1>7, <1>8 DEF Target

(* While nothing failed, no step finds more than one entry or answer. *)
LEMMA OneEntry ==
  ASSUME TypeOK, Orderly, ~otpFailed, pc # "fail"
  PROVE  /\ Len(landed) \in Nat /\ Len(landed) <= 1
         /\ sub \notin {"send", "wait"} => landed = <<>> /\ posted = 0
<1>1. Len(landed) \in Nat /\ Len(landed) <= posted /\ posted \in {0, 1}
  BY LenProperties DEF TypeOK, TypeRx, Orderly
<1>2. sub \notin {"send", "wait"} => Len(landed) = 0 /\ posted = 0
  BY <1>1 DEF Orderly
<1>3. Len(landed) = 0 => landed = <<>>
  BY EmptySeq DEF TypeOK, TypeRx
<1> QED BY <1>1, <1>2, <1>3

(* A step to the head of a command keeps order. *)
LEMMA ToCall ==
  ASSUME TypeOK, Orderly, sub \notin {"send", "wait"}, sub' = "call", pc # "fail",
         otpFailed' \/ otpFailed' = otpFailed,
         UNCHANGED <<posted, landed, rxBuf, ring, inbox, out>>
  PROVE  Orderly'
<1> SUFFICES ASSUME ~otpFailed', pc' # "fail" PROVE Orderly'
  BY DEF Orderly
<1>1. landed = <<>> /\ posted = 0 /\ ring = NoMessage
  BY OneEntry DEF Orderly
<1>2. out.kind \notin Exchanges /\ \A i \in 1 .. Len(inbox) : inbox[i].cmd \notin Exchanges
  BY DEF Orderly
<1> QED BY <1>1, <1>2 DEF Orderly

(* One answer per exchange, after a step of the host. *)
LEMMA HostOrderly == TypeOK /\ Place /\ Speaks /\ Orderly /\ Host => Orderly'
<1> SUFFICES ASSUME TypeOK, Place, Speaks, Orderly, Host PROVE Orderly'
  OBVIOUS
<1>f. ASSUME NEW reason, Fail(reason) PROVE Orderly'
  BY <1>f, FailFacts DEF Orderly
<1>p. ASSUME Proceed, pc \in Moving, sub \notin {"send", "wait"},
             UNCHANGED <<posted, landed, rxBuf, ring, inbox, out>>
      PROVE  Orderly'
  BY <1>p, ToCall, ProceedFacts DEF Moving, Commands, Exchanges, Sends
<1>1. CASE Post
  <2>q. /\ pc' = pc /\ sub = "call" /\ posted' = posted + 1 /\ landed' = landed /\ rxBuf' = rxBuf
        /\ ring' = ring /\ inbox' = inbox /\ out' = out /\ otpFailed' = otpFailed
        /\ sub' \in {"send", "wait"}
    BY <1>1 DEF Post, tx, tgt
  <2> SUFFICES ASSUME ~otpFailed, pc # "fail" PROVE Orderly'
    BY <2>q DEF Orderly
  <2>1. landed = <<>> /\ posted = 0
    BY <2>q, OneEntry
  <2>2. out.kind \notin Exchanges /\ \A i \in 1 .. Len(inbox) : inbox[i].cmd \notin Exchanges
    BY <2>q DEF Orderly
  <2> QED BY <2>q, <2>1, <2>2 DEF Orderly
<1>2. CASE SendBusy
  BY <1>2, <1>f DEF SendBusy
<1>3. CASE SendOk
  <2>p. pc \in Commands /\ pc # "fail" /\ Pos \in Message /\ Pos.cmd = pc /\ part \in 1 .. Parts(pc)
    BY <1>3, PosFacts DEF SendOk
  <2>q. /\ inbox' = Append(inbox, Pos) /\ ring' = ring /\ rxBuf' = rxBuf /\ posted' = posted
        /\ landed' = landed /\ out' = out /\ cur' = cur
    BY <1>3 DEF SendOk, Pos, rx, tgt
  <2>o. otpFailed' = otpFailed
    BY <1>3 DEF SendOk, Proceed
  <2> SUFFICES ASSUME ~otpFailed PROVE Orderly'
    BY <2>o DEF Orderly
  <2>a. /\ Len(inbox') = Len(inbox) + 1 /\ Len(inbox) \in Nat
        /\ \A i \in 1 .. Len(inbox) : inbox'[i] = inbox[i]
        /\ inbox'[Len(inbox) + 1] = Pos
    BY <2>p, <2>q, AppendProperties, LenProperties DEF TypeOK, TypeTx
  <2>s. sub \in {"send", "call"} /\ (sub = "call" => pc \in Sends)
    BY <1>3 DEF SendOk, Sending
  <2>1. out.kind \notin Exchanges /\ \A i \in 1 .. Len(inbox) : inbox[i].cmd \notin Exchanges
    BY <2>p, <2>s DEF Orderly
  <2>2. \A i \in 1 .. Len(inbox') : inbox'[i].cmd \in Exchanges =>
          i = Len(inbox') /\ inbox'[i].cmd = pc
    <3> SUFFICES ASSUME NEW i \in 1 .. Len(inbox'), inbox'[i].cmd \in Exchanges
                 PROVE  i = Len(inbox') /\ inbox'[i].cmd = pc
      OBVIOUS
    <3>1. CASE i \in 1 .. Len(inbox)
      BY <2>a, <2>1, <3>1
    <3>2. CASE i = Len(inbox) + 1
      BY <2>a, <2>p, <3>2
    <3> QED BY <2>a, <3>1, <3>2
  <2>3. CASE sub = "send"
    <3>1. sub' = "wait" /\ pc' = pc
      BY <1>3, <2>3 DEF SendOk
    <3>2. pc \in Exchanges => out.kind = "none" /\ landed = <<>>
      <4> SUFFICES ASSUME pc \in Exchanges PROVE out.kind = "none" /\ landed = <<>>
        OBVIOUS
      <4>1. pc \notin Late \cup {"fail"}
        BY DEF Exchanges, Late
      <4> QED BY <2>p, <2>1, <2>3, <4>1 DEF Speaks, Orderly
    <3> QED BY <2>o, <2>p, <2>q, <2>1, <2>2, <2>3, <3>1, <3>2 DEF Orderly
  <2>4. CASE sub = "call"
    <3>1. sub' = "call"
      BY <1>3, <2>4 DEF SendOk, Proceed
    <3>2. landed = <<>> /\ posted = 0
      BY <2>p, <2>4, OneEntry
    <3>3. \A i \in 1 .. Len(inbox') : inbox'[i].cmd \notin Exchanges
      BY <2>2, <2>s, <2>4 DEF Exchanges, Sends
    <3> QED BY <2>o, <2>p, <2>q, <2>1, <3>1, <3>2, <3>3 DEF Orderly
  <2> QED BY <2>s, <2>3, <2>4
<1>4. CASE SendTimeout
  BY <1>4, <1>f DEF SendTimeout
<1>5. CASE NoOtp
  <2>1. sub = "call"
    BY <1>5 DEF NoOtp, Place, Exchanges, TypeOK, TypeHost, Subs
  <2> QED BY <1>5, <2>1, ToCall DEF NoOtp, rx, tx, tgt
<1>6. CASE RecvConsume
  <2>q. /\ sub = "wait" /\ landed # <<>> /\ cur' = Head(landed) /\ landed' = Tail(landed)
        /\ posted' = posted - 1 /\ sub' = "read" /\ pc' = pc /\ otpFailed' = otpFailed
        /\ rxBuf' = rxBuf /\ ring' = ring /\ inbox' = inbox /\ out' = out
    BY <1>6 DEF RecvConsume, tx, tgt
  <2> SUFFICES ASSUME ~otpFailed, pc # "fail" PROVE Orderly'
    BY <2>q DEF Orderly
  <2>1. landed = <<rxBuf>> /\ posted = 1
    BY <2>q DEF Orderly
  <2>2. cur' = rxBuf /\ landed' = <<>>
    BY <2>q, <2>1
  <2>3. out.kind \notin Exchanges /\ \A i \in 1 .. Len(inbox) : inbox[i].cmd \notin Exchanges
    BY <2>q DEF Orderly
  <2> QED BY <2>q, <2>1, <2>2, <2>3 DEF Orderly
<1>7. CASE RecvTimeout
  BY <1>7, <1>f DEF RecvTimeout
<1>8. CASE ExchangeShort
  BY <1>8, <1>f DEF ExchangeShort
<1>9. CASE ExchangeDone
  BY <1>9, <1>f, <1>p DEF ExchangeDone, Moving, Commands, rx, tx, tgt
<1>10. CASE FwWaitOk
  <2>1. sub = "call"
    BY <1>10 DEF FwWaitOk, Place, Exchanges, TypeOK, TypeHost, Subs
  <2> QED BY <1>10, <2>1, <1>p DEF FwWaitOk, Moving, rx, tx, tgt
<1>11. CASE FwWaitFail
  BY <1>11, <1>f DEF FwWaitFail
<1>12. CASE ReadyId
  <2>q. /\ sub = "read" /\ pc' = pc /\ pc = "ready" /\ sub' \in {"call", "body"}
        /\ UNCHANGED <<cur, otpFailed, posted, landed, rxBuf, ring, inbox, out>>
    BY <1>12 DEF ReadyId, rx, tx, tgt
  <2>1. CASE sub' = "call"
    BY <2>q, <2>1, ToCall
  <2>2. CASE sub' = "body"
    <3> SUFFICES ASSUME ~otpFailed, pc # "fail" PROVE Orderly'
      BY <2>q DEF Orderly
    <3>1. landed = <<>> /\ posted = 0 /\ rxBuf = cur /\ ring = NoMessage
      BY <2>q, OneEntry DEF Orderly
    <3>r. cur.kind = "ready"
      BY <1>12, <2>2, <3>1 DEF ReadyId
    <3>2. out.kind \notin Exchanges /\ \A i \in 1 .. Len(inbox) : inbox[i].cmd \notin Exchanges
      BY <2>q DEF Orderly
    <3> QED BY <2>q, <2>2, <3>1, <3>r, <3>2 DEF Orderly, Exchanges
  <2> QED BY <2>q, <2>1, <2>2
<1>13. CASE ReadyBody
  BY <1>13, <1>f, <1>p DEF ReadyBody, Moving, rx, tx, tgt
<1>14. CASE ConnectDone
  BY <1>14, <1>f, <1>p DEF ConnectDone, Moving, Commands, rx, tx, tgt
<1> QED BY <1>1, <1>2, <1>3, <1>4, <1>5, <1>6, <1>7, <1>8, <1>9, <1>10, <1>11, <1>12,
          <1>13, <1>14 DEF Host

(* One answer per exchange, after a step of the target. *)
LEMMA TargetOrderly == TypeOK /\ Speaks /\ Orderly /\ Target => Orderly'
<1> SUFFICES ASSUME TypeOK, Speaks, Orderly, Target PROVE Orderly'
  OBVIOUS
<1>h. pc' = pc /\ sub' = sub /\ cur' = cur /\ otpFailed' = otpFailed
  BY DEF Target, EngineMove, Emit, RomServe, TargetDies, FwAnnounce, FwChatter, FwReady,
         FwServe, hostv
<1> SUFFICES ASSUME ~otpFailed, pc # "fail" PROVE Orderly'
  BY <1>h DEF Orderly
<1>x. pc \in Exchanges => pc \notin Late \cup {"fail"}
  BY DEF Exchanges, Late
<1>fw. mode \in {"fw", "ready"} =>
         \A i \in 1 .. Len(inbox) : inbox[i].cmd \notin Exchanges
  BY <1>x DEF Orderly, Speaks
<1>1. CASE EngineMove
  BY <1>1 DEF EngineMove, Orderly
<1>2. CASE Emit
  <2>q. /\ rxBuf' = out /\ out' = Frame("none", 0) /\ out.kind # "none" /\ ring' = ring
        /\ inbox' = inbox /\ posted' = posted /\ Len(landed) < posted /\ landed' = Append(landed, out)
    BY <1>2 DEF Emit, tx
  <2>1. sub \in {"send", "wait"} /\ posted = 1
    BY <2>q, OneEntry, LenProperties DEF Orderly, TypeOK, TypeRx
  <2>2. landed = <<>> /\ landed' = <<out>>
    <3>1. Len(landed) = 0
      BY <2>q, <2>1, OneEntry
    <3>2. landed = <<>>
      BY <3>1, EmptySeq DEF TypeOK, TypeRx
    <3> QED BY <2>q, <3>2
  <2>3. out'.kind \notin Exchanges /\ \A i \in 1 .. Len(inbox) : inbox[i].cmd \notin Exchanges
    BY <2>q, FrameFacts DEF Orderly, Exchanges
  <2>4. pc \in Exchanges => sub = "wait" /\ out.kind = pc
    BY <1>x, <2>q DEF Speaks, Orderly
  <2>5. pc = "connect" => out.kind \in Behind
    BY <2>q DEF Speaks, Final
  <2> QED BY <1>h, <2>q, <2>1, <2>2, <2>3, <2>4, <2>5 DEF Orderly
<1>3. CASE RomServe
  <2>q. /\ inbox # <<>> /\ inbox' = Tail(inbox) /\ out.kind = "none"
        /\ UNCHANGED <<ring, posted, landed, rxBuf>>
        /\ out' \in IF Head(inbox).cmd \in Exchanges THEN Answers(Head(inbox).cmd) ELSE {out}
    BY <1>3 DEF RomServe, rx
  <2>a. /\ Head(inbox) = inbox[1] /\ Len(inbox') = Len(inbox) - 1 /\ Len(inbox) \in Nat \ {0}
        /\ \A i \in 1 .. Len(inbox') : inbox'[i] = inbox[i + 1]
    BY <2>q, HeadTailProperties, EmptySeq, LenProperties DEF TypeOK, TypeTx
  <2>1. 1 \in 1 .. Len(inbox)
    BY <2>a
  <2>2. CASE Head(inbox).cmd \in Exchanges
    <3>1. Len(inbox) = 1 /\ Head(inbox).cmd = pc /\ sub = "wait" /\ landed = <<>>
      BY <2>a, <2>1, <2>2 DEF Orderly
    <3>2. Len(inbox') = 0 /\ out'.kind = pc
      BY <2>q, <2>a, <2>2, <3>1, FrameFacts
    <3>3. \A i \in 1 .. Len(inbox') : inbox'[i].cmd \notin Exchanges
      BY <3>2
    <3>4. UNCHANGED <<ring, posted, landed, rxBuf>>
      BY <2>q
    <3> QED BY <1>h, <3>1, <3>2, <3>3, <3>4 DEF Orderly
  <2>3. CASE Head(inbox).cmd \notin Exchanges
    <3>1. ASSUME NEW i \in 1 .. Len(inbox'), inbox'[i].cmd \in Exchanges
          PROVE  /\ i = Len(inbox') /\ inbox'[i].cmd = pc /\ sub = "wait"
                 /\ landed = <<>>
      <4>1. i + 1 \in 1 .. Len(inbox) /\ inbox'[i] = inbox[i + 1]
        BY <2>a
      <4>2. i + 1 = Len(inbox) /\ inbox[i + 1].cmd = pc /\ sub = "wait" /\ landed = <<>>
        BY <3>1, <4>1 DEF Orderly
      <4> QED BY <2>a, <4>1, <4>2
    <3>2. out' = out
      BY <2>q, <2>3
    <3> QED BY <1>h, <2>q, <3>1, <3>2 DEF Orderly
  <2> QED BY <2>2, <2>3
<1>4. CASE TargetDies
  BY <1>h, <1>4 DEF TargetDies, Orderly, rx, tx
<1>5. CASE FwAnnounce
  BY <1>h, <1>5 DEF FwAnnounce, Orderly, rx, tx
<1>6. CASE FwChatter
  <2>1. out'.kind \notin Exchanges
    BY <1>6, FrameFacts DEF FwChatter, Exchanges
  <2>2. \A i \in 1 .. Len(inbox) : inbox[i].cmd \notin Exchanges
    BY <1>6, <1>fw DEF FwChatter
  <2> QED BY <1>h, <1>6, <2>1, <2>2 DEF FwChatter, Orderly, rx, tx
<1>7. CASE FwReady
  <2>1. out'.kind \notin Exchanges
    BY <1>7, FrameFacts DEF FwReady, Exchanges
  <2>2. \A i \in 1 .. Len(inbox) : inbox[i].cmd \notin Exchanges
    BY <1>7, <1>fw DEF FwReady
  <2> QED BY <1>h, <1>7, <2>1, <2>2 DEF FwReady, Orderly, rx, tx
<1>8. CASE FwServe
  <2>q. /\ inbox # <<>> /\ inbox' = Tail(inbox) /\ out.kind = "none"
        /\ UNCHANGED <<ring, posted, landed, rxBuf>>
        /\ out' \in {ConnOk, ConnBad, out}
    BY <1>8 DEF FwServe, rx
  <2>1. out'.kind \notin Exchanges
    BY <2>q, FrameFacts DEF Exchanges
  <2>2. \A i \in 1 .. Len(inbox') : inbox'[i].cmd \notin Exchanges
    <3>1. /\ Len(inbox') = Len(inbox) - 1 /\ Len(inbox) \in Nat \ {0}
          /\ \A i \in 1 .. Len(inbox') : inbox'[i] = inbox[i + 1]
      BY <2>q, HeadTailProperties, EmptySeq, LenProperties DEF TypeOK, TypeTx
    <3>2. \A i \in 1 .. Len(inbox) : inbox[i].cmd \notin Exchanges
      BY <1>8, <1>fw DEF FwServe
    <3> QED BY <3>1, <3>2
  <2> QED BY <1>h, <2>q, <2>1, <2>2 DEF Orderly
<1> QED BY <1>1, <1>2, <1>3, <1>4, <1>5, <1>6, <1>7, <1>8 DEF Target

(* The OTP step stays failed. *)
LEMMA OtpStays == Place /\ Next => (otpFailed => otpFailed')
<1> SUFFICES ASSUME Place, Next, otpFailed PROVE otpFailed'
  OBVIOUS
<1>f. ASSUME NEW reason, Fail(reason) PROVE otpFailed'
  BY <1>f, FailFacts
<1>t. CASE Target
  BY <1>t DEF Target, EngineMove, Emit, RomServe, TargetDies, FwAnnounce, FwChatter, FwReady,
         FwServe, hostv
<1>1. CASE Post \/ SendOk \/ NoOtp \/ RecvConsume \/ FwWaitOk \/ ReadyId
  BY <1>1 DEF Post, SendOk, NoOtp, RecvConsume, FwWaitOk, ReadyId, Proceed
<1>2. CASE SendBusy \/ SendTimeout \/ RecvTimeout \/ ExchangeShort \/ FwWaitFail
  BY <1>2, <1>f DEF SendBusy, SendTimeout, RecvTimeout, ExchangeShort, FwWaitFail
<1>3. CASE ExchangeDone \/ ReadyBody \/ ConnectDone
  BY <1>3, <1>f DEF ExchangeDone, ReadyBody, ConnectDone, Proceed
<1> QED BY <1>t, <1>1, <1>2, <1>3 DEF Next, Host

(* What an exchange accepts is the answer it waited for: the OTP step, the *)
(* only one that may fail and leave an answer behind, is the last exchange. *)
LEMMA MatchStep ==
  TypeOK /\ Place /\ Speaks /\ Orderly /\ AnswersMatch /\ Next => AnswersMatch'
<1> SUFFICES ASSUME TypeOK, Place, Speaks, Orderly, AnswersMatch, Next PROVE AnswersMatch'
  OBVIOUS
<1>o. otpFailed => otpFailed'
  BY OtpStays
<1>k. ASSUME accepted' = accepted PROVE AnswersMatch'
  BY <1>k, <1>o DEF AnswersMatch
<1>t. CASE Target
  <2>1. accepted' = accepted
    BY <1>t DEF Target, EngineMove, Emit, RomServe, TargetDies, FwAnnounce, FwChatter, FwReady,
         FwServe, hostv
  <2> QED BY <2>1, <1>k
<1>1. CASE Post \/ SendBusy \/ SendOk \/ SendTimeout \/ NoOtp \/ RecvConsume \/ RecvTimeout
        \/ ExchangeShort \/ FwWaitOk \/ FwWaitFail \/ ReadyId
  <2>1. accepted' = accepted
    BY <1>1 DEF Post, SendBusy, SendOk, SendTimeout, NoOtp, RecvConsume, RecvTimeout,
         ExchangeShort, FwWaitOk, FwWaitFail, ReadyId
  <2> QED BY <2>1, <1>k
<1>2. CASE ExchangeDone
  <2>1. pc \in Exchanges /\ sub = "read" /\ accepted' = [cmd |-> pc, kind |-> rxBuf.kind]
    BY <1>2 DEF ExchangeDone
  <2>2. ~otpFailed /\ pc # "fail"
    BY <2>1 DEF Place, Exchanges, Late
  <2>3. rxBuf.kind = pc
    BY <2>1, <2>2 DEF Orderly
  <2> QED BY <2>1, <2>3 DEF AnswersMatch, Exchanges
<1>3. CASE ReadyBody
  <2>1. /\ accepted' = [cmd |-> "ready", kind |-> rxBuf.kind] /\ pc = "ready" /\ sub = "body"
        /\ rxBuf.kind \in Said
    BY <1>3 DEF ReadyBody, Speaks
  <2>2. ~otpFailed => rxBuf.kind = "ready"
    BY <2>1 DEF Orderly
  <2> QED BY <2>1, <2>2, <1>o DEF AnswersMatch, Exchanges, Said
<1>4. CASE ConnectDone
  <2>1. accepted' = [cmd |-> "connect", kind |-> rxBuf.kind]
    BY <1>4 DEF ConnectDone
  <2> QED BY <2>1 DEF AnswersMatch, Exchanges
<1> QED BY <1>t, <1>1, <1>2, <1>3, <1>4 DEF Next, Host

(* Before a failed OTP run nothing older than READY is left to CONNECT. *)
LEMMA ConfusedStep ==
  TypeOK /\ Place /\ Orderly /\ ConfusedOnlyAfterOtp /\ Next => ConfusedOnlyAfterOtp'
<1> SUFFICES ASSUME TypeOK, Place, Orderly, ConfusedOnlyAfterOtp, Next
             PROVE  ConfusedOnlyAfterOtp'
  OBVIOUS
<1>o. otpFailed => otpFailed'
  BY OtpStays
<1>k. ASSUME accepted' = accepted PROVE ConfusedOnlyAfterOtp'
  BY <1>k, <1>o DEF ConfusedOnlyAfterOtp
<1>t. CASE Target
  <2>1. accepted' = accepted
    BY <1>t DEF Target, EngineMove, Emit, RomServe, TargetDies, FwAnnounce, FwChatter, FwReady,
         FwServe, hostv
  <2> QED BY <2>1, <1>k
<1>1. CASE Post \/ SendBusy \/ SendOk \/ SendTimeout \/ NoOtp \/ RecvConsume \/ RecvTimeout
        \/ ExchangeShort \/ FwWaitOk \/ FwWaitFail \/ ReadyId
  <2>1. accepted' = accepted
    BY <1>1 DEF Post, SendBusy, SendOk, SendTimeout, NoOtp, RecvConsume, RecvTimeout,
         ExchangeShort, FwWaitOk, FwWaitFail, ReadyId
  <2> QED BY <2>1, <1>k
<1>2. CASE ExchangeDone \/ ReadyBody
  <2>1. accepted'.cmd # "connect"
    BY <1>2 DEF ExchangeDone, ReadyBody, Exchanges
  <2> QED BY <2>1 DEF ConfusedOnlyAfterOtp
<1>3. CASE ConnectDone
  <2>1. accepted' = [cmd |-> "connect", kind |-> rxBuf.kind] /\ pc = "connect" /\ sub = "read"
    BY <1>3 DEF ConnectDone
  <2>2. ~otpFailed => rxBuf.kind \in Behind
    BY <2>1 DEF Orderly
  <2> QED BY <2>1, <2>2, <1>o DEF ConfusedOnlyAfterOtp, Behind, Conn
<1> QED BY <1>t, <1>1, <1>2, <1>3 DEF Next, Host

-----------------------------------------------------------------------------
(* The theorems.                                                           *)

(* A step that changes nothing. *)
LEMMA Stutter == IInv /\ UNCHANGED vars => IInv'
<1> SUFFICES ASSUME IInv, UNCHANGED vars PROVE IInv'
  OBVIOUS
<1> USE DEF vars, hostv, rx, tx, tgt
<1>1. TypeOK'
  BY DEF IInv, TypeOK, TypeHost, TypeRx, TypeTx, TypeTgt
<1>2. QueueInv'
  BY DEF IInv, QueueInv, Messages, Links, Front, BootsWhole, Ripe, Pos
<1>3. Place' /\ AnswersMatch' /\ ConfusedOnlyAfterOtp'
  BY DEF IInv, AnswerInv, Place, AnswersMatch, ConfusedOnlyAfterOtp
<1>4. Speaks'
  BY DEF IInv, AnswerInv, Speaks, Sent
<1>5. Orderly'
  BY DEF IInv, AnswerInv, Orderly
<1> QED BY <1>1, <1>2, <1>3, <1>4, <1>5 DEF IInv, AnswerInv

(* Every step keeps the invariant. *)
LEMMA Step == IInv /\ [Next]_vars => IInv'
<1>1. IInv /\ Next => TypeOK'
  BY HostType, TargetType DEF IInv, AnswerInv, QueueInv, Next
<1>2. IInv /\ Next => QueueInv'
  BY HostQueue, TargetQueue DEF IInv, AnswerInv, Next
<1>3. IInv /\ Next => Place' /\ AnswersMatch' /\ ConfusedOnlyAfterOtp'
  BY PlaceStep, MatchStep, ConfusedStep DEF IInv, AnswerInv
<1>4. IInv /\ Next => Speaks'
  BY HostSpeaksStep, TargetSpeaksStep DEF IInv, AnswerInv, Next
<1>5. IInv /\ Next => Orderly'
  BY HostOrderly, TargetOrderly DEF IInv, AnswerInv, Next
<1>6. IInv /\ Next => IInv'
  BY <1>1, <1>2, <1>3, <1>4, <1>5 DEF IInv, AnswerInv
<1> QED BY <1>6, Stutter

(* The inductive invariant holds throughout the bring-up over the control  *)
(* pair, whatever the size of the downloads and the number of unrelated    *)
(* frames.                                                                 *)
THEOREM ControlInvariance == Spec => []IInv
<1>1. Init => IInv
  BY InitHolds
<1>2. IInv /\ [Next]_vars => IInv'
  BY Step
<1> QED BY <1>1, <1>2, PTL DEF Spec

(* bootFirmware and startHtcWmi keep host, rings and target in type; in    *)
(* particular no more entries of the rx ring are filled than were posted.  *)
THEOREM ControlTypes == Spec => []TypeOK
<1>1. IInv => TypeOK
  BY DEF IInv
<1> QED BY <1>1, ControlInvariance, PTL

(* exchangeWait and waitTarget take no late answer for the one they asked  *)
(* for, also after an OTP exchange that timed out; only the body of READY  *)
(* can then be one the firmware sent behind it.                            *)
THEOREM AnswersTheorem == Spec => []AnswersMatch
<1>1. IInv => AnswersMatch
  BY DEF IInv, AnswerInv
<1> QED BY <1>1, ControlInvariance, PTL

(* Unless the OTP step failed, the rx buffer all exchanges share holds the *)
(* frame of the entry recvWait consumed whenever the host reads it.        *)
THEOREM BufferTheorem == Spec => []BufferIsEntry
<1>1. IInv => BufferIsEntry
  <2> SUFFICES ASSUME IInv, sub \in {"read", "body"}, ~otpFailed PROVE rxBuf = cur
    BY DEF BufferIsEntry
  <2>1. pc # "fail"
    BY DEF IInv, AnswerInv, Place, Exchanges
  <2> QED BY <2>1 DEF IInv, AnswerInv, Orderly
<1> QED BY <1>1, ControlInvariance, PTL

(* Unless the OTP step failed, what connectService reads is the CONNECT    *)
(* response or a frame the firmware sent behind READY, however many        *)
(* unrelated frames it sends before and after.                             *)
THEOREM ConfusedTheorem == Spec => []ConfusedOnlyAfterOtp
<1>1. IInv => ConfusedOnlyAfterOtp
  BY DEF IInv, AnswerInv
<1> QED BY <1>1, ControlInvariance, PTL

(* start() comes to WMI only over a firmware that booted and said READY.   *)
THEOREM OnlineTheorem == Spec => []OnlineMeansFirmware
<1>1. IInv => OnlineMeansFirmware
  BY DEF IInv, AnswerInv, Speaks, Final, OnlineMeansFirmware
<1> QED BY <1>1, ControlInvariance, PTL

(* The target leaves its ROM only over a whole firmware image and whole    *)
(* board data, however many chunks each has and whichever send timed out.  *)
THEOREM BootsWholeTheorem == Spec => []BootsWhole
<1>1. IInv => BootsWhole
  BY DEF IInv, QueueInv
<1> QED BY <1>1, ControlInvariance, PTL

-----------------------------------------------------------------------------
(* The bring-up is bounded.                                                *)

(* Commands left until the verdict. *)
StagesLeft ==
  CASE pc = "info"   -> 14 [] pc = "cfg_w"    -> 13 [] pc = "cfg_r"   -> 12
    [] pc = "cfg_w2" -> 11 [] pc = "brd_r"    -> 10 [] pc = "brd_w"   -> 9
    [] pc = "otp_lz" -> 8  [] pc = "otp_exec" -> 7  [] pc = "fw_lz"   -> 6
    [] pc = "done"   -> 5  [] pc = "fw_wait"  -> 4  [] pc = "ready"   -> 3
    [] pc = "connect" -> 2 [] pc = "setup"    -> 1  [] OTHER -> 0

(* Frames that may still reach waitTarget, wherever they are now. *)
InRing == IF ring = NoMessage THEN 0 ELSE 1
InOut  == IF out.kind = "none" THEN 0 ELSE 1
ToBoot == IF mode \in {"rom", "fw"} THEN 1 ELSE 0
Supply == Len(inbox) + InRing + InOut + Len(landed) + (MaxChatter - chatter) + ToBoot

(* Steps left inside a command: its frames and the steps of an exchange;   *)
(* waitTarget goes round once for every frame it is given.                 *)
WaitLeft == CASE sub = "read" -> 3 [] sub = "call" -> 2 [] sub = "wait" -> 1 [] OTHER -> 0
SubLeft  == CASE sub = "call" -> 4 [] sub = "send" -> 3 [] sub = "wait" -> 2 [] OTHER -> 1
PartsLeft == Parts(pc) - part
StepsLeft == IF pc = "ready" THEN 3 * Supply + WaitLeft ELSE 5 * PartsLeft + SubLeft

(* The two counts are numbers, and the first runs out at the verdict. *)
LeftBounded ==
  /\ StagesLeft \in 0 .. 14 /\ StepsLeft \in Nat
  /\ StagesLeft = 0 <=> pc \in {"online", "fail"}

(* Every host step comes nearer to the verdict or, inside a command, uses  *)
(* up a step; the target gives none back.                                  *)
LeftShrinks ==
  [][/\ Host => \/ StagesLeft' < StagesLeft
                \/ pc' = pc /\ StepsLeft' < StepsLeft
     /\ Target => pc' = pc /\ StepsLeft' <= StepsLeft]_vars

(* What is counted is a number. *)
LEMMA SupplyFacts ==
  ASSUME TypeOK
  PROVE  /\ Supply \in Nat /\ Len(inbox) \in Nat /\ Len(landed) \in Nat
         /\ InRing \in {0, 1} /\ InOut \in {0, 1} /\ ToBoot \in {0, 1}
         /\ MaxChatter - chatter \in Nat
<1>1. Len(inbox) \in Nat /\ Len(landed) \in Nat
  BY LenProperties DEF TypeOK, TypeTx, TypeRx
<1>2. InRing \in {0, 1} /\ InOut \in {0, 1} /\ ToBoot \in {0, 1}
  BY DEF InRing, InOut, ToBoot
<1>3. MaxChatter - chatter \in Nat
  BY ChatterAssumption DEF TypeOK, TypeTgt
<1> QED BY <1>1, <1>2, <1>3 DEF Supply

(* A move to another command comes nearer to the verdict. *)
LEMMA MoveOn ==
  ASSUME pc \in Moving, Proceed \/ (\E reason \in Reasons : Fail(reason))
  PROVE  StagesLeft' < StagesLeft
<1>1. CASE Proceed
  <2>1. pc' = After(pc)
    BY <1>1 DEF Proceed
  <2> QED BY <2>1, AfterFacts DEF StagesLeft, Moving, Commands, Exchanges, Sends
<1>2. CASE \E reason \in Reasons : Fail(reason)
  <2>1. pc' = "fail" \/ (pc \in {"otp_lz", "otp_exec"} /\ pc' = "fw_lz")
    BY <1>2, FailFacts
  <2> QED BY <2>1 DEF StagesLeft, Moving, Commands, Exchanges, Sends
<1> QED BY <1>1, <1>2

(* A host step moves on or uses up a step of its command. *)
LEMMA HostLeft ==
  ASSUME TypeOK, Place, Host
  PROVE  StagesLeft' < StagesLeft \/ (pc' = pc /\ StepsLeft' < StepsLeft)
<1>0. /\ Supply \in Nat /\ part \in 1 .. Parts(pc) /\ Parts(pc) \in Nat /\ PartsLeft \in Nat
      /\ pc \in Labels
  <2>1. part \in 1 .. Parts(pc) /\ pc \in Labels
    BY DEF TypeOK, TypeHost
  <2>2. Parts(pc) \in Nat
    BY PartsFacts
  <2> QED BY <2>1, <2>2, SupplyFacts DEF PartsLeft
<1>1. CASE Post
  <2>1. /\ pc \in Exchanges \cup {"connect", "ready"} /\ pc' = pc /\ part' = part
        /\ sub = "call" /\ sub' = IF pc = "ready" THEN "wait" ELSE "send"
    BY <1>1 DEF Post
  <2>2. Supply' = Supply
    BY <1>1 DEF Post, Supply, InRing, InOut, ToBoot, tx, tgt
  <2>3. PartsLeft' = PartsLeft
    BY <2>1 DEF PartsLeft
  <2> QED BY <1>0, <2>1, <2>2, <2>3 DEF StepsLeft, WaitLeft, SubLeft
<1>2. CASE SendOk
  <2>1. pc \in Commands /\ pc # "ready"
    BY <1>2 DEF SendOk, Sending, Place, Commands, Exchanges, Sends
  <2>2. CASE sub = "send"
    <3>1. sub' = "wait" /\ pc' = pc /\ part' = part
      BY <1>2, <2>2 DEF SendOk
    <3>2. PartsLeft' = PartsLeft
      BY <3>1 DEF PartsLeft
    <3> QED BY <1>0, <2>1, <2>2, <3>1, <3>2 DEF StepsLeft, SubLeft
  <2>3. CASE sub # "send" /\ part < Parts(pc)
    <3>1. part' = part + 1 /\ pc' = pc /\ sub' = sub
      BY <1>2, <2>3 DEF SendOk
    <3>2. PartsLeft' = PartsLeft - 1 /\ SubLeft' = SubLeft /\ SubLeft \in Nat
      BY <1>0, <3>1 DEF PartsLeft, SubLeft
    <3> QED BY <1>0, <2>1, <3>1, <3>2 DEF StepsLeft
  <2>4. CASE sub # "send" /\ ~(part < Parts(pc))
    BY <1>2, <2>1, <2>4, MoveOn DEF SendOk, Moving
  <2> QED BY <2>2, <2>3, <2>4
<1>3. CASE SendBusy \/ SendTimeout
  <2>1. pc \in Moving /\ Fail("send")
    BY <1>3 DEF SendBusy, SendTimeout, Sending, Place, Moving, Commands
  <2> QED BY <2>1, MoveOn DEF Reasons
<1>4. CASE NoOtp
  BY <1>4 DEF NoOtp, StagesLeft
<1>5. CASE RecvConsume
  <2>1. /\ pc' = pc /\ part' = part /\ sub = "wait" /\ sub' = "read"
    BY <1>5 DEF RecvConsume
  <2>2. PartsLeft' = PartsLeft
    BY <2>1 DEF PartsLeft
  <2>3. Supply' = Supply - 1
    <3>1. landed' = Tail(landed) /\ landed # <<>> /\ landed \in Seq(Frames)
      BY <1>5 DEF RecvConsume, TypeOK, TypeRx
    <3>2. Len(landed') = Len(landed) - 1
      BY <3>1, HeadTailProperties
    <3>3. UNCHANGED <<inbox, InRing, InOut, chatter, ToBoot>>
      BY <1>5 DEF RecvConsume, InRing, InOut, ToBoot, tx, tgt
    <3>4. /\ Len(inbox) \in Nat /\ Len(landed) \in Nat /\ MaxChatter - chatter \in Nat
          /\ InRing \in {0, 1} /\ InOut \in {0, 1} /\ ToBoot \in {0, 1}
      BY SupplyFacts
    <3> QED BY <3>2, <3>3, <3>4 DEF Supply
  <2> QED BY <1>0, <2>1, <2>2, <2>3 DEF StepsLeft, WaitLeft, SubLeft
<1>6. CASE RecvTimeout
  <2>1. pc \in Moving /\ Fail("timeout")
    BY <1>6 DEF RecvTimeout, Place, Moving, Commands
  <2> QED BY <2>1, MoveOn DEF Reasons
<1>7. CASE ExchangeShort \/ ExchangeDone
  <2>1. pc \in Moving /\ (Proceed \/ \E reason \in Reasons : Fail(reason))
    BY <1>7 DEF ExchangeShort, ExchangeDone, Moving, Commands, Reasons
  <2> QED BY <2>1, MoveOn
<1>8. CASE FwWaitOk \/ FwWaitFail
  <2>1. pc \in Moving /\ (Proceed \/ \E reason \in Reasons : Fail(reason))
    BY <1>8 DEF FwWaitOk, FwWaitFail, Moving, Reasons
  <2> QED BY <2>1, MoveOn
<1>9. CASE ReadyId
  <2>1. pc = "ready" /\ pc' = pc /\ sub = "read" /\ sub' \in {"call", "body"}
    BY <1>9 DEF ReadyId
  <2>2. Supply' = Supply
    BY <1>9 DEF ReadyId, Supply, InRing, InOut, ToBoot, rx, tx, tgt
  <2> QED BY <1>0, <2>1, <2>2 DEF StepsLeft, WaitLeft
<1>10. CASE ReadyBody \/ ConnectDone
  <2>1. pc \in Moving /\ (Proceed \/ \E reason \in Reasons : Fail(reason))
    BY <1>10 DEF ReadyBody, ConnectDone, Moving, Commands, Reasons
  <2> QED BY <2>1, MoveOn
<1> QED BY <1>1, <1>2, <1>3, <1>4, <1>5, <1>6, <1>7, <1>8, <1>9, <1>10 DEF Host

(* A target step uses the frames up or moves them on. *)
LEMMA TargetLeft ==
  ASSUME TypeOK, TypeOK', Target
  PROVE  pc' = pc /\ StepsLeft' <= StepsLeft
<1>0. pc' = pc /\ part' = part /\ sub' = sub
  BY DEF Target, EngineMove, Emit, RomServe, TargetDies, FwAnnounce, FwChatter, FwReady,
         FwServe, hostv
<1>1. Supply' <= Supply
  <2>0. /\ Len(inbox) \in Nat /\ Len(landed) \in Nat /\ MaxChatter - chatter \in Nat
        /\ InRing \in {0, 1} /\ InOut \in {0, 1} /\ ToBoot \in {0, 1} /\ InOut' \in {0, 1}
        /\ ToBoot' \in {0, 1} /\ chatter \in Nat /\ MaxChatter \in Nat
    BY SupplyFacts, ChatterAssumption DEF TypeOK, TypeTgt, InOut, ToBoot
  <2>1. CASE EngineMove
    <3>1. InRing = 1 /\ InRing' = 0 /\ UNCHANGED <<InOut, landed, chatter, ToBoot>>
      BY <2>1 DEF EngineMove, InRing, InOut, ToBoot, rx, tgt
    <3>2. Len(inbox') = Len(inbox) + 1
      <4>1. ring \in Message /\ inbox \in Seq(Message) /\ inbox' = Append(inbox, ring)
        BY <2>1 DEF EngineMove, TypeOK, TypeTx
      <4> QED BY <4>1, AppendProperties
    <3> QED BY <2>0, <3>1, <3>2 DEF Supply
  <2>2. CASE Emit
    <3>1. InOut = 1 /\ InOut' = 0 /\ UNCHANGED <<inbox, InRing, chatter, ToBoot>>
      BY <2>2 DEF Emit, InRing, InOut, ToBoot, Frame, tx
    <3>2. Len(landed') = Len(landed) + 1
      <4>1. out \in Frames /\ landed \in Seq(Frames) /\ landed' = Append(landed, out)
        BY <2>2 DEF Emit, TypeOK, TypeRx, TypeTgt
      <4> QED BY <4>1, AppendProperties
    <3> QED BY <2>0, <3>1, <3>2 DEF Supply
  <2>3. CASE RomServe \/ FwServe
    <3>1. InOut = 0 /\ ToBoot' <= ToBoot /\ UNCHANGED <<InRing, landed, chatter>>
      BY <2>3 DEF RomServe, FwServe, InRing, InOut, ToBoot, rx
    <3>2. Len(inbox') = Len(inbox) - 1
      <4>1. inbox # <<>> /\ inbox \in Seq(Message) /\ inbox' = Tail(inbox)
        BY <2>3 DEF RomServe, FwServe, TypeOK, TypeTx
      <4> QED BY <4>1, HeadTailProperties
    <3> QED BY <2>0, <3>1, <3>2 DEF Supply
  <2>4. CASE TargetDies \/ FwAnnounce
    <3>1. ToBoot' <= ToBoot /\ UNCHANGED <<inbox, InRing, InOut, landed, chatter>>
      BY <2>4 DEF TargetDies, FwAnnounce, InRing, InOut, ToBoot, rx, tx
    <3> QED BY <2>0, <3>1 DEF Supply
  <2>5. CASE FwChatter
    <3>1. InOut = 0 /\ chatter' = chatter + 1 /\ UNCHANGED <<inbox, InRing, landed, ToBoot>>
      BY <2>5 DEF FwChatter, InRing, InOut, ToBoot, rx, tx
    <3> QED BY <2>0, <3>1 DEF Supply
  <2>6. CASE FwReady
    <3>1. /\ InOut = 0 /\ ToBoot = 1 /\ ToBoot' = 0
          /\ UNCHANGED <<inbox, InRing, landed, chatter>>
      BY <2>6 DEF FwReady, InRing, InOut, ToBoot, rx, tx
    <3> QED BY <2>0, <3>1 DEF Supply
  <2> QED BY <2>1, <2>2, <2>3, <2>4, <2>5, <2>6 DEF Target
<1>2. PICK n \in Nat, m \in Nat : n = Supply /\ m = Supply'
  <2>1. Supply' \in Nat
    <3>1. Len(inbox') \in Nat /\ Len(landed') \in Nat
      BY LenProperties DEF TypeOK, TypeTx, TypeRx
    <3>2. InRing' \in {0, 1} /\ InOut' \in {0, 1} /\ ToBoot' \in {0, 1}
      BY DEF InRing, InOut, ToBoot
    <3>3. MaxChatter - chatter' \in Nat
      <4>1. PICK x \in 0 .. MaxChatter : x = chatter'
        BY DEF TypeOK, TypeTgt
      <4>2. MaxChatter - x \in Nat
        BY ChatterAssumption
      <4> QED BY <4>1, <4>2
    <3> QED BY <3>1, <3>2, <3>3 DEF Supply
  <2> QED BY <2>1, SupplyFacts
<1>3. CASE pc = "ready"
  <2>1. PICK w \in 0 .. 3 : w = WaitLeft /\ w = WaitLeft'
    BY <1>0 DEF WaitLeft
  <2>2. StepsLeft = 3 * n + w /\ StepsLeft' = 3 * m + w /\ m <= n
    BY <1>0, <1>1, <1>2, <1>3, <2>1 DEF StepsLeft
  <2>3. 3 * m + w <= 3 * n + w
    BY <2>2
  <2> QED BY <1>0, <2>2, <2>3
<1>4. CASE pc # "ready"
  <2>1. PartsLeft' = PartsLeft /\ SubLeft' = SubLeft /\ StepsLeft \in Nat
    <3>1. part \in Nat /\ Parts(pc) \in Nat /\ part <= Parts(pc)
      BY PartsFacts DEF TypeOK, TypeHost
    <3>2. PartsLeft \in Nat /\ SubLeft \in Nat
      BY <3>1 DEF PartsLeft, SubLeft
    <3> QED BY <1>0, <1>4, <3>2 DEF PartsLeft, SubLeft, StepsLeft
  <2> QED BY <1>0, <1>4, <2>1 DEF StepsLeft
<1> QED BY <1>3, <1>4

(* The counts are in their range. *)
LEMMA LeftInRange == TypeOK => LeftBounded
<1> SUFFICES ASSUME TypeOK PROVE LeftBounded
  OBVIOUS
<1>1. pc \in Labels /\ part \in Nat /\ Parts(pc) \in Nat /\ part <= Parts(pc)
  BY PartsFacts DEF TypeOK, TypeHost
<1>2. StagesLeft \in 0 .. 14 /\ (StagesLeft = 0 <=> pc \in {"online", "fail"})
  BY <1>1 DEF StagesLeft, Labels, Commands, Exchanges, Sends
<1>3. StepsLeft \in Nat
  <2>1. PartsLeft \in Nat /\ SubLeft \in Nat /\ WaitLeft \in Nat /\ Supply \in Nat
    BY <1>1, SupplyFacts DEF PartsLeft, SubLeft, WaitLeft
  <2> QED BY <2>1 DEF StepsLeft
<1> QED BY <1>2, <1>3 DEF LeftBounded

(* The variant behind BringUpEnds: the bring-up goes through at most       *)
(* fourteen commands, each of a bounded number of frames, and the one loop *)
(* without a counter, waitTarget, goes round once per frame that was under *)
(* way or that the firmware still sends; no stale entry or late answer     *)
(* keeps it going.                                                         *)
THEOREM BringUpBounded == Spec => []LeftBounded /\ LeftShrinks
<1>1. IInv => LeftBounded /\ TypeOK
  BY LeftInRange DEF IInv
<1>2. IInv /\ IInv' /\ [Next]_vars =>
        [/\ Host => \/ StagesLeft' < StagesLeft
                    \/ pc' = pc /\ StepsLeft' < StepsLeft
         /\ Target => pc' = pc /\ StepsLeft' <= StepsLeft]_vars
  BY HostLeft, TargetLeft DEF IInv, AnswerInv
<1> QED BY <1>1, <1>2, ControlInvariance, PTL DEF Spec, LeftShrinks
=============================================================================

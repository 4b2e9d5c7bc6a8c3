---------------------------- MODULE ControlPath -----------------------------
(***************************************************************************)
(* Everything the driver says over the control pair CE0/CE1: the BMI       *)
(* commands of the firmware boot (BMI.cpp, FW.cpp, bootFirmware) and the   *)
(* HTC control handshake (HTC.cpp, startHtcWmi), in the order start() runs *)
(* them.  All exchanges share one rx buffer, and every exchange posts a    *)
(* receive entry before it sends; an exchange that times out leaves its    *)
(* entry posted, and the OTP step is the one failure the boot goes past.   *)
(*                                                                         *)
(* The target is external: the boot ROM serves BMI commands in order, may  *)
(* take any time over one or never come back from the OTP program, and     *)
(* BMI_DONE makes it start the firmware, which sends HTC READY, the        *)
(* CONNECT response and, before and after READY, unrelated control frames. *)
(***************************************************************************)
EXTENDS Naturals, Sequences

CONSTANTS
  MaxChatter,            \* bound: unrelated control frames the firmware sends
  Chunks                 \* data frames of a download: its length in 244 or 248 bytes
ASSUME ChatterAssumption == MaxChatter \in Nat
ASSUME ChunksAssumption == Chunks \in Nat \ {0}

VARIABLES
  pc, part, sub,         \* host: command, frame of it, step inside the exchange
  cur,                   \* host: frame of the ring entry recvWait consumed
  accepted,              \* host: last exchange accepted, and what the buffer held
  otpFailed, why,        \* host: the OTP step failed; why the bring-up failed
  posted, landed, rxBuf, \* CE1: unconsumed entries, those filled, the shared buffer
  ring, inbox,           \* CE0: command still on the ring; commands with the target
  mode, out, fwInd, chatter, booted, \* target; booted: its firmware said HTC READY
  store                  \* target: frames of each download in its memory

hostv == <<pc, part, sub, cur, accepted, otpFailed, why>>
rx    == <<posted, landed, rxBuf>>
tx    == <<ring, inbox>>
tgt   == <<mode, out, fwInd, chatter, booted, store>>
vars  == <<hostv, rx, tx, tgt>>

Exchanges == {"info", "cfg_r", "brd_r", "otp_exec"}   \* BMI commands with a response
Sends     == {"cfg_w", "cfg_w2", "brd_w", "otp_lz", "fw_lz", "done", "setup"}
Commands  == Exchanges \cup Sends \cup {"connect"}
Labels    == Commands \cup {"fw_wait", "ready", "online", "fail"}
Subs      == {"call", "send", "wait", "read", "body"}

(* The frames of a command: writeMemory sends a board in chunks, then the  *)
(* flag; fastDownload a stream start, the data and the flush;              *)
(* configureTarget four more words; anything else is one frame.            *)
LzStreams == {"otp_lz", "fw_lz"}
Loads     == LzStreams \cup {"brd_w"}
Parts(c)  == CASE c \in LzStreams -> Chunks + 2
               [] c = "brd_w"  -> Chunks + 1
               [] c = "cfg_w2" -> 4
               [] OTHER -> 1
Message   == [cmd : Commands, part : 1 .. Chunks + 4]
NoMessage == [cmd |-> "none", part |-> 0]

(* A frame of the target: what it is and its nbytes.  A BMI response names *)
(* its command.  10 bytes hold an HTC and a message header, 16 a READY or  *)
(* a CONNECT response.  An unrelated frame is "chat" before READY and      *)
(* "late" after it; the host cannot tell the two.                          *)
Frame(kind, len) == [kind |-> kind, len |-> len]
RespLen(c) == IF c = "info" THEN 12 ELSE 4
Chat(kind) == {Frame(kind, 6), Frame(kind, 16)}
Ready      == Frame("ready", 16)
ConnOk     == Frame("conn_ok", 16)
ConnBad    == Frame("conn_bad", 16)
Answers(c) == {Frame(c, RespLen(c)), Frame(c, 2)}     \* whole, or cut short
Frames     == (UNION {Answers(c) : c \in Exchanges})
                \cup Chat("chat") \cup Chat("late")
                \cup {Ready, ConnOk, ConnBad, Frame("none", 0)}

TypeHost ==
  /\ pc \in Labels /\ part \in 1 .. Parts(pc) /\ sub \in Subs /\ cur \in Frames
  /\ accepted \in [cmd : Labels, kind : {f.kind : f \in Frames}]
  /\ otpFailed \in BOOLEAN
  /\ why \in {"none", "send", "timeout", "short", "value", "unexpected", "refused", "target"}
TypeRx ==
  /\ posted \in Nat /\ landed \in Seq(Frames) /\ rxBuf \in Frames
  /\ Len(landed) <= posted
TypeTx == ring \in Message \cup {NoMessage} /\ inbox \in Seq(Message)
TypeTgt ==
  /\ mode \in {"rom", "fw", "ready", "dead"} /\ out \in Frames
  /\ fwInd \in {"zero", "init", "crash", "gone"} /\ chatter \in 0 .. MaxChatter
  /\ booted \in BOOLEAN /\ store \in [Loads -> 0 .. Chunks + 2]

(* Host, ring entries, commands and target keep their types.               *)
TypeOK == TypeHost /\ TypeRx /\ TypeTx /\ TypeTgt

(* After the chip reset: the boot ROM announced itself in FW_INDICATOR and *)
(* the control pair is freshly initialised.                                *)
Init ==
  /\ pc = "info" /\ part = 1 /\ sub = "call" /\ cur = Frame("none", 0)
  /\ accepted = [cmd |-> "fail", kind |-> "none"] /\ otpFailed = FALSE /\ why = "none"
  /\ posted = 0 /\ landed = <<>> /\ rxBuf = Frame("none", 0)
  /\ ring = NoMessage /\ inbox = <<>>
  /\ mode = "rom" /\ out = Frame("none", 0) /\ fwInd = "init" /\ chatter = 0
  /\ booted = FALSE /\ store = [c \in Loads |-> 0]

(* getTargetInfo; configureTarget: htc version, option flags read and      *)
(* written back with the swap and power words; downloadBoardData: address, *)
(* data and flag; runOtp; downloadFirmware; doneAndWaitTargetInit;         *)
(* waitTarget; connectService; setupComplete.                              *)
Order == <<"info", "cfg_w", "cfg_r", "cfg_w2", "brd_r", "brd_w", "otp_lz", "otp_exec",
           "fw_lz", "done", "fw_wait", "ready", "connect", "setup", "online">>
After(c) == Order[1 + CHOOSE i \in DOMAIN Order : Order[i] = c]

Proceed == pc' = After(pc) /\ part' = 1 /\ sub' = "call" /\ UNCHANGED <<otpFailed, why>>

(* Mutant: any failed command is passed over like the OTP ones. *)
FailPassed(reason) ==
  /\ IF pc = "fw_wait" THEN pc' = "fail" ELSE pc' = After(pc)
  /\ part' = 1 /\ sub' = "call" /\ UNCHANGED <<otpFailed, why>>

(* A failed step ends the bring-up, except in runOtp: bootFirmware goes on *)
(* with the firmware download.                                             *)
Fail(reason) ==
  /\ part' = 1 /\ sub' = "call"
  /\ IF pc \in {"otp_lz", "otp_exec"}
     THEN pc' = "fw_lz" /\ otpFailed' = TRUE /\ UNCHANGED why
     ELSE pc' = "fail" /\ why' = reason /\ UNCHANGED otpFailed

-----------------------------------------------------------------------------
(* The host thread.                                                        *)

(* postRecv, first step of exchangeWait, connectService and of every       *)
(* iteration of waitTarget; nobody looks at rxArmed().                     *)
Post ==
  /\ pc \in Exchanges \cup {"connect", "ready"} /\ sub = "call"
  /\ posted' = posted + 1 /\ sub' = IF pc = "ready" THEN "wait" ELSE "send"
  /\ UNCHANGED <<pc, part, cur, accepted, otpFailed, why, landed, rxBuf, tx, tgt>>

Sending == (pc \in Sends /\ sub = "call") \/ sub = "send"

(* CECopyPair::send: refused while an earlier frame is on the ring. *)
SendBusy ==
  /\ Sending /\ ring # NoMessage /\ Fail("send")
  /\ UNCHANGED <<cur, accepted, rx, tx, tgt>>

SendOk ==
  /\ Sending /\ ring = NoMessage
  /\ inbox' = Append(inbox, [cmd |-> pc, part |-> part])
  /\ IF sub = "send" THEN sub' = "wait" /\ UNCHANGED <<pc, part, otpFailed, why>>
     ELSE IF part < Parts(pc) THEN part' = part + 1 /\ UNCHANGED <<pc, sub, otpFailed, why>>
     ELSE Proceed
  /\ UNCHANGED <<cur, accepted, rx, ring, tgt>>

SendTimeout ==
  /\ Sending /\ ring = NoMessage
  /\ ring' = [cmd |-> pc, part |-> part] /\ Fail("send")
  /\ UNCHANGED <<cur, accepted, rx, inbox, tgt>>

(* bootFirmware skips runOtp when the image carries no OTP program. *)
NoOtp ==
  /\ pc = "otp_lz" /\ part = 1 /\ pc' = "fw_lz"
  /\ UNCHANGED <<part, sub, cur, accepted, otpFailed, why, rx, tx, tgt>>

(* Mutants: an entry read but not retired; a silent target polled again. *)
RecvConsumeKept ==
  /\ sub = "wait" /\ landed # <<>>
  /\ cur' = Head(landed) /\ posted' = posted - 1 /\ sub' = "read"
  /\ UNCHANGED <<pc, part, accepted, otpFailed, why, landed, rxBuf, tx, tgt>>
RecvTimeoutRetried == sub = "wait" /\ landed = <<>> /\ UNCHANGED vars

(* recvWait: the oldest filled entry is consumed, or the budget runs out   *)
(* and the entry stays posted.                                             *)
RecvConsume ==
  /\ sub = "wait" /\ landed # <<>>
  /\ cur' = Head(landed) /\ landed' = Tail(landed) /\ posted' = posted - 1
  /\ sub' = "read"
  /\ UNCHANGED <<pc, part, accepted, otpFailed, why, rxBuf, tx, tgt>>

RecvTimeout ==
  /\ sub = "wait" /\ landed = <<>> /\ Fail("timeout")
  /\ UNCHANGED <<cur, accepted, rx, tx, tgt>>

(* exchangeWait: the entry's length is checked, the buffer is copied. *)
ExchangeShort ==
  /\ pc \in Exchanges /\ sub = "read" /\ cur.len < RespLen(pc) /\ Fail("short")
  /\ UNCHANGED <<cur, accepted, rx, tx, tgt>>

ExchangeDone ==
  /\ pc \in Exchanges /\ sub = "read" /\ cur.len >= RespLen(pc)
  /\ accepted' = [cmd |-> pc, kind |-> rxBuf.kind]
  /\ \/ Proceed
     \/ pc \in {"info", "brd_r"} /\ Fail("value")  \* targetVersion, hi_board_data == 0
  /\ UNCHANGED <<cur, rx, tx, tgt>>

(* doneAndWaitTargetInit after BMI_DONE: poll FW_INDICATOR. *)
FwWaitOk ==
  /\ pc = "fw_wait" /\ fwInd = "init" /\ Proceed
  /\ UNCHANGED <<cur, accepted, rx, tx, tgt>>

FwWaitFail ==
  /\ pc = "fw_wait" /\ fwInd # "init" /\ Fail("target")
  /\ UNCHANGED <<cur, accepted, rx, tx, tgt>>

(* Mutant: waitTarget takes the first frame for READY. *)
ReadyIdUnchecked ==
  /\ pc = "ready" /\ sub = "read" /\ sub' = "body"
  /\ UNCHANGED <<pc, part, cur, accepted, otpFailed, why, rx, tx, tgt>>

(* waitTarget: a frame that is too short or not READY is skipped. *)
ReadyId ==
  /\ pc = "ready" /\ sub = "read"
  /\ sub' = IF cur.len < 10 \/ rxBuf.kind # "ready" THEN "call" ELSE "body"
  /\ UNCHANGED <<pc, part, cur, accepted, otpFailed, why, rx, tx, tgt>>

(* The body is read after the loop; zero credits or credit size fail. *)
ReadyBody ==
  /\ pc = "ready" /\ sub = "body"
  /\ accepted' = [cmd |-> pc, kind |-> rxBuf.kind]
  /\ IF cur.len < 16 THEN Fail("short") ELSE Proceed \/ Fail("value")
  /\ UNCHANGED <<cur, rx, tx, tgt>>

(* connectService: the next frame must be the CONNECT response. *)
ConnectDone ==
  /\ pc = "connect" /\ sub = "read"
  /\ accepted' = [cmd |-> pc, kind |-> rxBuf.kind]
  /\ \/ cur.len < 16 /\ Fail("short")
     \/ cur.len >= 16 /\ rxBuf.kind \notin {"conn_ok", "conn_bad"} /\ Fail("unexpected")
     \/ cur.len >= 16 /\ rxBuf.kind = "conn_bad" /\ Fail("refused")
     \/ cur.len >= 16 /\ rxBuf.kind = "conn_ok" /\ Proceed
  /\ UNCHANGED <<cur, rx, tx, tgt>>

Host == \/ Post \/ SendBusy \/ SendOk \/ SendTimeout \/ NoOtp \/ RecvConsume \/ RecvTimeout
        \/ ExchangeShort \/ ExchangeDone \/ FwWaitOk \/ FwWaitFail
        \/ ReadyId \/ ReadyBody \/ ConnectDone

-----------------------------------------------------------------------------
(* The source engine and the target (external).                            *)

EngineMove ==
  /\ ring # NoMessage /\ ring' = NoMessage /\ inbox' = Append(inbox, ring)
  /\ UNCHANGED <<hostv, rx, tgt>>

(* A frame the target has ready fills the oldest empty entry; all entries  *)
(* point at the same rx buffer.                                            *)
Emit ==
  /\ out.kind # "none" /\ Len(landed) < posted
  /\ landed' = Append(landed, out) /\ rxBuf' = out /\ out' = Frame("none", 0)
  /\ UNCHANGED <<hostv, posted, tx, mode, fwInd, chatter, booted, store>>

(* What a frame of a download does to target memory: a frame that does not *)
(* follow its predecessor spoils it, and the two LZ streams share one      *)
(* decompressor and one load address.                                      *)
Stored(m) ==
  [c \in Loads |->
     IF c = m.cmd THEN IF m.part = 1 \/ store[c] = m.part - 1 THEN m.part ELSE 0
     ELSE IF {c, m.cmd} = LzStreams THEN 0 ELSE store[c]]

(* The ROM serves the next command when the last answer is out. *)
RomServe ==
  /\ mode = "rom" /\ inbox # <<>> /\ out.kind = "none"
  /\ inbox' = Tail(inbox)
  /\ LET c == Head(inbox).cmd IN
       /\ out' \in IF c \in Exchanges THEN Answers(c) ELSE {out}
       /\ mode' = IF c = "done" THEN "fw" ELSE mode
       /\ fwInd' \in IF c = "done" THEN {"zero", fwInd} ELSE {fwInd}
  /\ store' = Stored(Head(inbox))
  /\ UNCHANGED <<hostv, rx, ring, chatter, booted>>

(* The OTP program never returns, or the device drops off the bus. *)
TargetDies ==
  /\ mode # "dead" /\ mode' = "dead" /\ fwInd' \in {fwInd, "crash", "gone"}
  /\ UNCHANGED <<hostv, rx, tx, out, chatter, booted, store>>

FwAnnounce ==
  /\ mode = "fw" /\ fwInd = "zero" /\ fwInd' = "init"
  /\ UNCHANGED <<hostv, rx, tx, mode, out, chatter, booted, store>>

FwChatter ==
  /\ mode \in {"fw", "ready"} /\ out.kind = "none" /\ chatter < MaxChatter
  /\ chatter' = chatter + 1 /\ out' \in Chat(IF mode = "fw" THEN "chat" ELSE "late")
  /\ UNCHANGED <<hostv, rx, tx, mode, fwInd, booted, store>>

FwReady ==
  /\ mode = "fw" /\ out.kind = "none" /\ out' = Ready /\ mode' = "ready"
  /\ booted' = TRUE
  /\ UNCHANGED <<hostv, rx, tx, fwInd, chatter, store>>

FwServe ==
  /\ mode = "ready" /\ inbox # <<>> /\ out.kind = "none"
  /\ inbox' = Tail(inbox)
  /\ out' \in IF Head(inbox).cmd = "connect" THEN {ConnOk, ConnBad} ELSE {out}
  /\ UNCHANGED <<hostv, rx, ring, mode, fwInd, chatter, booted, store>>

Target == \/ EngineMove \/ Emit \/ RomServe \/ TargetDies \/ FwAnnounce
          \/ FwChatter \/ FwReady \/ FwServe

Next == Host \/ Target

(* The host thread runs on; its waits are bounded (CopyPair: CallsReturn). *)
Spec == Init /\ [][Next]_vars /\ WF_vars(Host)

-----------------------------------------------------------------------------
(* Properties.                                                             *)

(* No late answer is taken for another command's: what exchangeWait and    *)
(* waitTarget accept is the answer to what they asked, also when the OTP   *)
(* program answered after its exchange timed out.  The one exception is    *)
(* the body of READY, read again after the loop that saw its id: once the  *)
(* OTP step left a second entry posted, a frame the firmware sends behind  *)
(* READY can be in the buffer by then.                                     *)
AnswersMatch ==
  /\ accepted.cmd \in Exchanges => accepted.kind = accepted.cmd
  /\ accepted.cmd = "ready" => \/ accepted.kind = "ready"
                               \/ otpFailed /\ accepted.kind = "late"

(* As long as the OTP step did not fail, the shared rx buffer still holds  *)
(* the frame of the entry recvWait consumed when the host reads it.        *)
BufferIsEntry == sub \in {"read", "body"} /\ ~otpFailed => rxBuf = cur

(* connectService gives up on the first frame that is not the CONNECT      *)
(* response.  Nothing the target sent before or as READY gets that far:    *)
(* what it reads is the response or a frame the firmware sent behind       *)
(* READY.  Only after a failed OTP step, whose stale entry lets two frames *)
(* share the rx buffer, can it be an older one.                            *)
ConfusedOnlyAfterOtp ==
  accepted.cmd = "connect" /\ ~otpFailed =>
    accepted.kind \in {"conn_ok", "conn_bad", "late"}

(* FW_INDICATOR still holds the ROM's announcement when BMI_DONE is sent,  *)
(* so doneAndWaitTargetInit proves nothing; the HTC handshake does: WMI is *)
(* reached only over a firmware that booted and said READY.                *)
OnlineMeansFirmware == pc = "online" => booted

(* The target never leaves its ROM over a firmware image or board data     *)
(* that is incomplete or mixed: not after a send that failed between two   *)
(* chunks, nor when the OTP download broke off, the boot went on and the   *)
(* frame that timed out reached the target later.                          *)
BootsWhole ==
  mode \in {"fw", "ready"} => \A c \in {"fw_lz", "brd_w"} : store[c] = Parts(c)

(* The bring-up over the control pair comes to a verdict, also when the    *)
(* target dies at any point.                                               *)
BringUpEnds == <>(pc \in {"online", "fail"})

(* CE.hpp, rxArmed(): "callers must not post again until this returns 0".  *)
PostOnlyWhenIdle == posted <= 1
=============================================================================

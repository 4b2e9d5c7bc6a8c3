# TLA+ models of the QCA9377 driver

The repository is a macOS kernel extension that brings up a QCA9377 Wi-Fi card
(PCI attach, chip reset, BMI firmware boot, HTC and WMI handshakes). It has no
interrupts and no locks: one kernel thread runs `start()` and polls, and the
concurrency is between that thread and the card, which reads and writes the
driver's memory by DMA whenever it likes. The paths below are relative to
`src/skeleton/`.

## Inventory

| Part | State | Operations | What is hard |
|---|---|---|---|
| `CECopyPair` (CE.cpp) | two rings of 16 descriptors, one tx and one rx buffer, software indices; hardware indices `SRRI`, `DRRI` | `init`, `send`, `postRecv`, `recvWait`, `teardown` | index moves before descriptor lands; send timeout then resend; shared rx buffer; wrap-around |
| `CEManager` (CE.cpp) | pointers to the control pair (CE0/1), the WMI pair (CE3/2), the diag window (CE7) | `create`, `init`, `initWmi`, `initDiag`, `destroy` | re-init of an existing manager, failure half way, who frees the DMA region |
| `CEDiag` (CE.cpp) | one ring pair and a bounce buffer | `readMem`, `writeMem`, `xfer` | a timed-out transfer leaves its descriptors behind |
| `Bmi` (BMI.cpp) | done flag, last stage | `getTargetInfo`, `read32`, `write32`, `writeMemory`, `execute`, `fastDownload`, `done` | late answers, a download that breaks off |
| `Fw` (FW.cpp) | none | container walks (`parseFirmware`, `selectBoard`), `configureTarget`, `downloadBoardData`, `runOtp`, `downloadFirmware`, `doneAndWaitTargetInit` | lengths the image supplies; the OTP step may fail and the boot goes on; stale `FW_INDICATOR` |
| `Htc` (HTC.cpp) | credits, endpoint id, sequence numbers | `waitTarget`, `connectService`, `setupComplete`, `sendWmi`, `recvWmi`, `applyCreditReport` | credits across timeouts; a frame that is not the expected one |
| `Wmi` (WMI.cpp) | firmware build, ABI, MAC | `waitServiceAndReady`, `sendInit`, TLV parsers | order of events, unrelated events, unbounded skip |
| Driver (QCA9377Driver.cpp) | PCI settings, stage cap, pointers to all of the above | `start`, `stop`, resets, `ensureCE`, `probeBmi`, `initConfig`, `bootFirmware`, `startHtcWmi`, `teardownHardware` | every stage can fail; what was acquired must go, in an order safe against DMA |
| Telemetry (QCA9377Driver.cpp) | registry properties, log tail | `publish*`, `qlog` | buffer at its limit |

They interact by direct calls: driver -> Wmi -> Htc -> CEManager -> CECopyPair,
and driver -> Fw -> Bmi -> CEManager. The card interacts through the rings, the
buffers and a few registers. The hazards, each at its line and with the
properties that would catch it, are in `PROJECT.json`.

## Modules

**FrameChannel** is the abstract promise of a ring pair: two one-way channels
with at most one frame in flight, nothing lost, duplicated, reordered or torn.

**CopyPair** is one `CECopyPair` as the WMI path drives it. Host actions follow
the code between the points where the engine can see a difference: the
descriptor write and the doorbell are separate steps (`PostDesc`/`PostBell`,
`TxDesc`/`TxBell`), the copy of the tx buffer is one (`TxCopy`), and the host's
read of the rx buffer is two (`CopyLo`/`CopyHi`) so that a torn read is visible.
`SendPoll` is the polling loop of `send` (before the copy, and for completion),
`RecvPoll`, `RecvNotLanded` and `RecvConsume` are the body of `recvWait`. The
engines (`Eng*`, hardware) fetch a frame in two halves, and receive in three
steps: the read index moves, the payload lands, the descriptor lands. A frame is
its number; an nbytes of 0 is 0.

**WmiHandshake** is `waitServiceAndReady` on top of the channel: one posted
entry, the phases, the credit check and payment of `sendWmi`, what `recvWmi`
makes of each class of frame, the bounded skip of phase 3. `reason` records why
a wait failed. The firmware may send any frame at any time an entry is posted,
except READY, which it sends only once it has taken `WMI_INIT`.

**ControlPath** is every exchange on the control pair from `getTargetInfo` to
`setupComplete`, in the order of `start()`. A command is a sequence of frames
(`part`): `writeMemory` sends chunks and the flag word, `fastDownload` a stream
start, data and a flush, and any of them can fail. `store` is what target memory
holds of each download; the two compressed streams share a decompressor, so a
frame of one spoils the other (`Stored`, external). All entries
point at one buffer (`rxBuf`), while `landed` keeps what each entry was filled
with; the difference between the two is the self-aliasing the code comments
warn of. The control path posts without asking `rxArmed()`. The firmware may
send unrelated control frames before READY (`chat`), which `waitTarget` skips,
and behind it (`late`), on which `connectService` gives up; only the model tells
the two apart. The body of READY is read in a step of its own, after the loop
that saw its id. The label `fail` includes the time until `teardownHardware` parks the rings.

**DriverLifecycle** is `start()` and `stop()`: PCI settings, the cold and warm
reset, `ensureCE`, `probeBmi` with `initConfig`, the stage gates, and teardown
engine by engine, park and free as two steps. DMA regions and managers have
identities, so that a pointer or a base register that names the wrong one shows.
`moved` is the set of engines whose hardware indices may not be 0: left so by an
earlier system or by traffic, cleared by the cold reset and the CE reset.
In the warm leg the clear of `FW_INDICATOR` and the CPU reset behind it are two
steps, since the target runs between them; `heard` says whether what the register
holds was written before the last clear (`stale`), between clear and reset
(`gap`) or by the reset CPU (`fresh`). A `gap` announcement passes for a fresh
one, which `ProbeAfterAnnounce` says and the registers leave no way to prevent.
`StoppedIsQuiet` is about the device, the link and the pointers; the BAR0 map is
not part of the state, and regions that lost their owner are `driver_leak`'s.
M3 and M4 are outcomes here; ControlPath and WmiHandshake are their inside.

**DiagWindow** is `CEDiag::xfer` under `readMem` and `writeMem`, driven as
`probeBmi` and `initConfig` drive it: thirteen transfers (`Ops`), two of them
(`Soft`) allowed to fail. A transfer is the posting of both descriptors, the
wait for `SRRI`, the wait for `DRRI`, and the length check; a timeout leaves
descriptors with the engine and the consume index behind. The engine moves
`DRRI`, then the payload, then the descriptor. Words carry where they came from,
so that a stale word used as a pointer (`Address`) or written back (`HostWord`)
shows.

**RecordWalk** is the one loop that `parseFirmware`, `selectBoard`, `tlvParse`
(with `parseServiceReady` and `parseReady`) and `applyCreditReport` share: look
at a header, check the length, use the record, advance. `HdrNeed`, `HdrSize`,
`Pad` and `Fits` are where they differ. `walk` says which of them runs. A buffer
is a list of records and a byte count, so it can be cut anywhere; a corrupt
header (`len # size`) declares more than there is, since one that declares less
only makes other records of the same bytes. The second half of the module says
what the buffer holds without a walk, and the properties compare the two.

**LogTail** is `qlog`: the 1536-byte tail, the half that is dropped when a line
does not fit, the lines that lost their newline to the 256-byte local buffer,
and the copy in NVRAM. `dmesg` is everything `IOLog` printed, to compare with.
**MCBuffers** puts RecordWalk and LogTail into one run.

**CopyPairProofs**, **WmiHandshakeProofs**, **ControlPathProofs**,
**DriverLifecycleProofs**, **DiagWindowProofs**, **RecordWalkProofs** and
**LogTailProofs** hold the theorems about the module each is named after;
**IntervalFacts** has the facts on intervals of numbers the last two need. The
`MC*` modules instantiate the specifications for TLC. In each module, operators
introduced by a "Mutant" comment are plausible bugs used to see that the properties can fail;
no specification uses them.

## Runs

| Run | Checks | Result |
|---|---|---|
| `copy_pair` | CopyPair, ring of 4, 5 frames each way, 2 polls per wait | holds: refinement of FrameChannel, tx buffer held, rx buffer quiet, a successful send was delivered, every call returns, a doorbelled frame arrives |
| `wmi_handshake` | WmiHandshake, grants of 1 to 3 credits, `WMI_INIT` costs 2 | holds: online means the whole handshake, credits balance but for a `WMI_INIT` whose completion wait gave up, every wait has an entry, the wait ends |
| `wmi_phase1_end` | the comment at WMI.cpp:303 | violated: a frame with nothing but credits aborts phase 1 |
| `control_path` | ControlPath, up to 3 unrelated frames before and after READY | holds: no answer is taken for another's, unless the OTP step failed `connectService` reads only frames sent behind READY, the firmware is never started over half a download, online means the firmware spoke, the boot ends |
| `control_double_post` | the rule at CE.hpp:63 | violated: after an OTP timeout a second entry is posted |
| `driver_lifecycle` | DriverLifecycle, one load, all caps and failures | holds: no engine points at freed memory, rings, objects and ring indices are current, BMI is probed only on an announcement since the last clear, stages gate each other, stop leaves things as found |
| `driver_leak` | the comment at QCA9377Driver.cpp:898 | violated: a dead engine in `CECopyPair::init` loses its region |
| `driver_cap` | the comment at QCA9377Driver.hpp:168 | violated: a cap of 1 does not stop before BMI |
| `driver_stop_order` | the comment at QCA9377Driver.cpp:261 | violated: rings are disarmed before bus mastering is off |
| `diag_window` | DiagWindow, the whole sequence | holds: the read of the `pcie_state` pointer can return a stale word when both soft reads time out, but the next transfer then fails; no write goes astray, and success means all five writes landed |
| `buffers` | RecordWalk on every list of up to 3 records cut at every byte; LogTail, 6 lines | holds: each walk stays in step with the records, ends, and gives the result the reference gives (events with several arrays excepted, see below); the tail is the end of the log, from the start of a line |
| `board_nested` | FW.hpp:20 and docs/RESOURCES.md:21-30 on board-2.bin | violated: the card's entry is inside an outer IE, which `selectBoard` takes for a board name and steps over |

*Bounds.* The code's rings have 16 entries; 4 entries and 5 frames wrap every
index, and the proofs cover all sizes from 2. Two polls distinguish the first,
a later and the last look of a loop; phase 3 keeps its real bound of 5. Credits
1, 2 and 3 against a cost of 2 are too few, exact and ample. Three unrelated
frames are enough to fill both entries that can be posted before READY arrives
and still have one behind it.
Two data frames per download let a failure fall before, between and behind them.
DiagWindow needs no bound: its thirteen transfers never wrap the ring of 16.
Record lengths wrap at 64 instead of 2^32, and one record declares 63; the event
structs have 6 and 4 bytes instead of 76 and 36, the version field 3 instead of
64, each with a record just long enough and one a byte shorter; three records
are enough for a name, another name and data, or for two of a kind and something
behind. The tail has 14 bytes and the line buffer 6, and lines are shorter than,
as long as and longer than the buffer. A `start()` makes at most seven DMA
regions, which `LifecycleTypes` proves, so a bound of seven (`RegionAssumption`)
cuts nothing off. Deadlock is not checked where the modelled activity ends (handshake, boot, one load of the
driver); in CopyPair it is.

*Fairness.* Weak fairness of the host's own steps only: the thread is never
blocked, it polls with `IODelay`/`IOSleep`. Nothing is assumed of the target.
CopyPair assumes it of a call under way (`Step`), not of the callers; the one
property that needs the source engine (`SentIsDelivered`) names that assumption
in its own formula. `WalkEnds` needs it of the walk, a loop without waits.
`HandshakeEnds` has the exception the code has: phase 1 does
not bound the number of events it skips, so a flood of them holds it.

## Proofs

`CopyPairProofs` proves, for every ring size of at least 2, every poll budget of
at least 1 and every number of frames (the assumptions named in CopyPair):

- `TypeCorrect`, `SendOkCorrect`, `RxQuietCorrect`: the invariants `TypeOK`,
  `SendOkMeansDelivered` and `RxQuietWhileRead`;
- `TxHeldCorrect`: the action property `TxHeldUntilConsumed`;
- `RefinesChannel`: CopyPair implements FrameChannel;
- `CallsBounded` and `DoorbellHeard`: see "Bounded calls" below.

None of them is inductive alone. The inductive invariant `IInv` adds, on the
source side, that at most one frame is doorbelled and not delivered, and that
while it is, the engine's index is one behind the software index and buffer and
descriptor hold that very frame; on the destination side, that at most one entry
is posted and not consumed, and how the software, hardware and landing indices
relate in each phase of that entry. The modulo arithmetic is confined to two
lemmas on `RingNext` and `rxArmed`. `TypeStep`, `TxStep` and `RxStep` show the
three parts of `IInv` preserved by every action; `ChannelStep` maps every step
to a step of FrameChannel or a stutter.

`WmiHandshakeProofs` proves, for every grant of 1 to 255 credits and every cost
of `WMI_INIT` (`CreditAssumption`):

- `HandshakeTypes`, `OnlineCorrect`, `CreditsCorrect`, `WaitsArmedCorrect`: the
  invariants `TypeOK`, `OnlineMeansHandshake`, `CreditsBalanced` and
  `WaitsArmed`.

`CreditsBalanced` holds in every state. `sendWmi` pays after its completion wait,
so the sum exceeds the grant by one `WMI_INIT` while the target has it and the
wait has not seen it, and for good when the wait gave up on a frame that still
arrived (`Unpaid`); no other path loses or makes credits. The proof needs to know that there is one `WMI_INIT` at most and where it is
(`OneInit`), that the target holds no credits before it took it, that a frame
`recvWmi` refuses carries none, and that the credits checked in `sendWmi` are
still there when they are paid (`Phases`); the verdict needs that every event
that landed or was copied out was sent (`FramesSent`). `RecvStep` and `EmitStep`
are the two ends of a frame, `StepHolds` has one step per action.

`ControlPathProofs` proves, for every number of chunks of a download
(`ChunksAssumption`) and of unrelated control frames (`ChatterAssumption`),
`TypeOK` (`ControlTypes`), `BootsWhole`, `AnswersMatch`, `BufferIsEntry`,
`ConfusedOnlyAfterOtp` and `OnlineMeansFirmware`. `BootsWhole` speaks of what the
target stored, while the host knows only what it sent, so the invariant follows
the queue between them (`QueueInv`): what stands behind what (`Links`, by
`Follows`: frames of a download one after the other, and what comes after a
download only behind its last frame), and that the memory is ready for the
frame at the front (`Front`, by `Ripe`). `SendFollows` and `ServeRipe` are the
two ends of the queue. The others rest on `AnswerInv`: where in an exchange the
host can be (`Place`), who may speak at all (`Speaks`: only the ROM before
`BMI_DONE`, nobody of a CONNECT before READY was accepted, and once READY is in
the buffer only what was sent behind it is under way), and that as long as
nothing failed one entry is posted exactly while an exchange waits, its frame is
in the shared buffer, and the one answer under way is the one waited for
(`Orderly`).

`DriverLifecycleProofs` proves `TypeOK` and the six safety invariants of the
`driver_lifecycle` run, and its action properties `IndicesAgree` and
`ProbeAfterAnnounce`. The invariant has a part for each thing
that the properties take for granted at a distance: where a subroutine was called
from (`Flow`); how many regions were made on the way (`Made`), which is what
makes `TypeOK` hold; which pointers can be set where (`Holds`, `Emptied` for a
`destroy()` under way); that no two engines share a region and that one about to
lose its region is parked (`Apart`), without which `RingsNeverDangle` is not
inductive; the link (`Bus`); the order of the configuration (`Configured`); what
a BMI, HTC or WMI object stands for (`Objects`), which stage can have succeeded
where (`Stages`), where `FW_INDICATOR` cannot hold anything older than the last
clear (`Heard`, for `ProbeAfterAnnounce`), and which engines a reset has cleared (`Still`, for
`IndicesAgree`). One lemma per part, one step per action in each.

`RecordWalkProofs` proves, for every list of records, every place where a buffer
below 2^32 bytes is cut (`SizeAssumption`; for every word size), `InStep`,
`FwRight`, `BoardRight`, `TlvRight` (events with at most one array TLV) and
`CreditsRight`. The invariant
says there is an `n` such that the first `n` records are whole and have been
used (`Cursor`): the walk stands behind them, it remembers the last of each kind
(`Remembers`), the nearest name and that no board data was passed over
(`Looking`), the sum of their credits (`Counted`), and when the loop was left
there is nothing whole behind them (`Done`). `StepOver` is where nothing wraps:
a record that fits is shorter than the buffer, so its padded length is too.
`StartsDefined` and `SumDefined` show that the two recursive functions (where
the records start; sums) are defined and what they compute, by induction over
the set of numbers for which that holds (`NatsBySuccessor` of IntervalFacts, from
the least element of a set of numbers).

`LogTailProofs` proves `TailIsRecentLog` for every size of the tail and of the
line buffer with two lines per tail at least (`TailAssumption`; the code has
six) and lines of any length: the tail ends like the log (`Ends`), begins with a
line and continues one behind every newline (`Aligned`, which is what a cut
keeps), and after a cut the newest line fits, since half a tail is a line.

`DiagWindowProofs` proves `TypeOK`, `NoWildWrite`, `ConfigComplete` and
`MisreadIsCaught` for every speed of the engine and every choice of which
deadline passes. DiagWindow has no constants, so its run already covers all of
its behaviours; what the proof adds is the reason, and `OwnCompletion`: a
transfer that returns true has consumed its own completion, the word asked for
is in the bounce buffer or the word written is in target memory, although
`xfer` takes the oldest completion and looks only at its length. The one
exception is the read of the `pcie_state` pointer after both soft reads timed
out. The invariant says how many descriptors each transfer has posted (`Posted`);
that from the fourth transfer on the window is in step, or one place behind in
exactly that exceptional case (`Pace`); what each descriptor, the data in the
engine, the bounce buffer and target memory hold (`SrcInv`, `DstInv`,
`FlightInv`, `BounceInv`, `MemInv`). `RecvOkExact` is the core: a descriptor that
has not landed has length 0, so a transfer that succeeds finds a landed one of
its own length, and only the first and the third transfer are as long as each
other while the window can be behind. In `BounceInv`, the buffer that all
transfers share is safe because a write fills it only when every transfer before
it has landed.

*Bounded calls.* Each liveness property is the combination of a measure that the
host's own steps use up with weak fairness of those steps. The measures are
proved, with what they start from and that they run out exactly at the result:

- `CallsBounded` (CopyPair, behind `CallsReturn`): a call has at most
  `2 * PollBudget + 7` steps left, each of its steps takes some off, no engine
  step changes that. `DoorbellHeard` (behind `SentIsDelivered`): while a
  doorbelled frame is not with the target the source engine has work to see, and
  only its own step takes that away.
- `WaitBounded` (WmiHandshake, behind `HandshakeEnds` and `Phase3Ends`): from
  `WMI_INIT` on 14 steps at most; in phase 1 a frame of the target gives two more
  and nothing else does, which is the flood `HandshakeEnds` makes an exception of.
- `BringUpBounded` (ControlPath, behind `BringUpEnds`): at most 14 commands, and
  inside one a count that `waitTarget` uses up with every frame it is given,
  wherever that frame was; the target gives none back.
- `WalksBounded` (RecordWalk, behind `WalkEnds`): `total \div 4 + 2` steps at
  most, for any lengths the headers declare.

Every invariant and every action property of the passing runs is a theorem. Six
properties are model-checked only: the liveness properties `CallsReturn`,
`SentIsDelivered`, `HandshakeEnds`, `Phase3Ends`, `BringUpEnds` and `WalkEnds`.
Their last step, from measure and fairness to "eventually", needs `ENABLED` and
`WF_`, which this prover does not handle.

## Not modelled

- `FwData.h`: 53232 lines of generated byte arrays, 93% of the lines of the
  repository, without behaviour. Two facts about the arrays are used: they are
  longer than their padded magic, so the walks start inside the buffer (the
  comparison of the magic is left out), and board-2.bin is a list of outer IEs.
- `publishStage`, `publishNum`, `publishMac`, `nvramStage`: output only.
- The contents of frames: BMI and HTC headers, and the resource configuration
  `sendInit` writes. The match string `selectBoard` formats is "the card's own
  name" here.
- `resetChip`'s delays and the sampling of `waitForTargetInit` are reduced to
  "announced before time was up". The hardware effects of a cold reset and of
  the CE reset (base registers, indices and `FW_INDICATOR` cleared) are taken
  from how the code relies on them.
- More than 255 credits in HTC READY (`CreditAssumption`).
- The stub headers, the syntax check, CI.

Disagreements noticed that no run is about: `docs/HARDENING.md:142` says phase 3
skips up to 5 unrelated events while the fifth already ends it; `WMI.cpp:126`
says the first ARRAY_UINT32 while `tlvParse` keeps the last (`TlvRight` therefore
takes no side on events with several arrays); `sendInit` advances
8 bytes for each 4-byte TLV header it writes, so its frame has gaps of zeros,
which parse as empty TLVs.

## Plan

1. CopyPair, FrameChannel and their proofs; WmiHandshake; ControlPath;
   DriverLifecycle (done).
2. DiagWindow, RecordWalk and LogTail; downloads of several frames in
   ControlPath; ring indices in DriverLifecycle (done).
3. Theorems on WmiHandshake, ControlPath, DriverLifecycle, RecordWalk, LogTail
   and DiagWindow; measures behind the liveness properties (done).
4. A composition of WmiHandshake over CopyPair through FrameChannel, so that the
   channel WmiHandshake assumes is the one CopyPair provides (open; today the two
   meet only in FrameChannel's statement: one frame in flight each way, delivered
   in order and unchanged).

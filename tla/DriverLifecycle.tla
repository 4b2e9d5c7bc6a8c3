--------------------------- MODULE DriverLifecycle --------------------------
(***************************************************************************)
(* start() and stop() of the driver (QCA9377Driver.cpp) with what they own *)
(* and must give back: the CE manager and the DMA regions of its three     *)
(* engine users  (CECopyPair CE0/CE1 and CE3/CE2, CEDiag CE7), the objects *)
(* built on the manager (Bmi, Htc, Wmi), bus mastering, memory decode and  *)
(* the link's ASPM setting.  The protocol runs of M3 and M4 are outcomes   *)
(* here; ControlPath and WmiHandshake model them.                          *)
(*                                                                         *)
(* Any allocation may fail, any engine may read dead (0xffffffff), and the *)
(* target announces itself in FW_INDICATOR, crashes or stays silent.       *)
(***************************************************************************)
EXTENDS Naturals, Sequences, FiniteSets

Engines == {"ctrl", "wmi", "diag"}
ConfigOrder == <<"l1off", "pipes", "svcmap", "ealloc", "done">>
Config == {"l1off", "pipes", "svcmap", "ealloc", "done"}

CONSTANT MaxRegions     \* bound: DMA regions one start() can allocate
ASSUME RegionAssumption == MaxRegions \in Nat /\ MaxRegions >= 7

VARIABLES
  pc, ret,             \* label; where ensureCE returns to
  td, tdret,           \* engines destroy() still has to tear down; where it returns to
  fMaxStage, version, m3ok, m4ok, probe,
  fCe, ptr, nmgr,      \* manager (0: null), its three region pointers, managers made
  fBmi, fHtc, fWmi,    \* the manager each object was built on, 0: null
  live, nreg, hw,      \* regions allocated and not freed, made so far, base registers
  busMaster, memEnable, linkAspm, fAspmCtl, wasAspm,
  fwInd, tcfg, cpuWoken, \* target: FW_INDICATOR, its CE configuration, CPU doorbell rung
  heard,               \* auxiliary: when the target wrote FW_INDICATOR (see Announce)
  moved                \* engines whose hardware indices may not be 0

ctl   == <<pc, ret>>
tdv   == <<td, tdret>>
gate  == <<fMaxStage, version, m3ok, m4ok, probe>>
mgr   == <<fCe, ptr, nmgr>>
objs  == <<fBmi, fHtc, fWmi>>
dma   == <<live, nreg, hw>>
pci   == <<busMaster, memEnable, linkAspm, fAspmCtl, wasAspm>>
tgt   == <<fwInd, heard, tcfg, cpuWoken, moved>>
vars  == <<ctl, tdv, gate, mgr, objs, dma, pci, tgt>>

Labels == {"start", "bar0", "wake1", "reset1", "reset2", "wait_cold", "warm1", "cpu_rst1",
           "warm_wait1", "warm2", "cpu_rst2", "warm_wait2", "ce_init", "ce_create",
           "ce_init2", "ce_fail", "ce_fail2", "probe", "diag", "config", "cpu", "bmi",
           "probe_fail", "m3", "boot", "m4", "m4_ce", "m4_fail", "m4_htc", "m4_ctl",
           "m4_wmi", "summary", "running", "td_park", "td_free", "stop_pci", "stopped",
           "refused"}

TypeCtl ==
  /\ pc \in Labels /\ ret \in Labels /\ tdret \in Labels
  /\ td \in Seq(Engines) /\ Len(td) <= 3
TypeGate ==
  /\ fMaxStage \in 1 .. 4 /\ version \in {0, 1}
  /\ m3ok \in BOOLEAN /\ m4ok \in BOOLEAN /\ probe \in {"none", "ok", "failed"}
TypeDma ==
  /\ nreg \in 0 .. MaxRegions /\ live \subseteq 1 .. nreg
  /\ ptr \in [Engines -> live \cup {0}] /\ hw \in [Engines -> 0 .. nreg]
TypeMgr ==
  /\ nmgr \in Nat /\ fCe \in 0 .. nmgr
  /\ fBmi \in 0 .. nmgr /\ fHtc \in 0 .. nmgr /\ fWmi \in 0 .. nmgr
TypePci ==
  /\ busMaster \in BOOLEAN /\ memEnable \in BOOLEAN
  /\ linkAspm \in BOOLEAN /\ fAspmCtl \in BOOLEAN /\ wasAspm \in BOOLEAN
TypeTgt ==
  /\ fwInd \in {"zero", "init", "crash"} /\ heard \in {"stale", "gap", "fresh"}
  /\ tcfg \subseteq Config
  /\ cpuWoken \in BOOLEAN /\ moved \subseteq Engines

(* Everything keeps its type; one start() makes no more DMA regions than   *)
(* the bound, and a region pointer of the manager is null or names a       *)
(* region that is allocated.                                               *)
TypeOK == TypeCtl /\ TypeGate /\ TypeDma /\ TypeMgr /\ TypePci /\ TypeTgt

(* A fresh driver object; the target is in whatever state the last system  *)
(* left it, FW_INDICATOR and the engines' indices included.                *)
Init ==
  /\ pc = "start" /\ ret = "refused" /\ td = <<>> /\ tdret = "refused"
  /\ fMaxStage \in 1 .. 4 /\ version = 0 /\ m3ok = FALSE /\ m4ok = FALSE /\ probe = "none"
  /\ fCe = 0 /\ ptr = [e \in Engines |-> 0] /\ nmgr = 0
  /\ fBmi = 0 /\ fHtc = 0 /\ fWmi = 0
  /\ live = {} /\ nreg = 0 /\ hw = [e \in Engines |-> 0]
  /\ busMaster = FALSE /\ memEnable = FALSE
  /\ wasAspm \in BOOLEAN /\ linkAspm = wasAspm /\ fAspmCtl = FALSE
  /\ fwInd \in {"zero", "init", "crash"} /\ heard = "stale"
  /\ tcfg = {} /\ cpuWoken = FALSE
  /\ moved \in {{}, Engines}

Goto(from, to) == pc = from /\ pc' = to /\ UNCHANGED ret

-----------------------------------------------------------------------------
(* start(): PCI set-up and M1.                                             *)

(* Wrong provider, no BAR0 or map, no wake-up: start() returns false as it *)
(* stands, and IOKit does not call stop().                                 *)
Refuse ==
  /\ \E l \in {"start", "bar0", "wake1"} : Goto(l, "refused")
  /\ UNCHANGED <<tdv, gate, mgr, objs, dma, pci, tgt>>

(* Memory decode and bus master on, L0s/L1 saved and switched off if the   *)
(* PCI Express capability is found.                                        *)
EnablePci ==
  /\ Goto("start", "bar0")
  /\ busMaster' = TRUE /\ memEnable' = TRUE
  /\ \/ fAspmCtl' = linkAspm /\ linkAspm' = FALSE
     \/ UNCHANGED <<fAspmCtl, linkAspm>>
  /\ UNCHANGED <<tdv, gate, mgr, objs, dma, wasAspm, tgt>>

MapBar0 ==
  /\ Goto("bar0", "wake1")
  /\ UNCHANGED <<tdv, gate, mgr, objs, dma, pci, tgt>>

(* wakeTarget, probeRegisters, probeCopyEngines. *)
WakeFirst ==
  /\ Goto("wake1", "reset1")
  /\ UNCHANGED <<tdv, gate, mgr, objs, dma, pci, tgt>>

-----------------------------------------------------------------------------
(* resetChip().                                                            *)

(* wakeTarget fails before or after the cold reset: no probe, M3 next. *)
ResetWakeFail ==
  /\ \E l \in {"reset1", "reset2"} : Goto(l, "m3")
  /\ UNCHANGED <<tdv, gate, mgr, objs, dma, pci, tgt>>

(* Mutant: the target is taken to be cold already. *)
ColdResetSkipped ==
  /\ Goto("reset1", "reset2")
  /\ UNCHANGED <<tdv, gate, mgr, objs, dma, pci, tgt>>

(* The SOC comes back with its registers cleared. *)
ColdReset ==
  /\ Goto("reset1", "reset2")
  /\ hw' = [e \in Engines |-> 0] /\ fwInd' = "zero" /\ heard' = "stale" /\ moved' = {}
  /\ UNCHANGED <<tdv, gate, mgr, objs, live, nreg, pci, tcfg, cpuWoken>>

WakeAgain ==
  /\ Goto("reset2", "wait_cold")
  /\ UNCHANGED <<tdv, gate, mgr, objs, dma, pci, tgt>>

(* waitForTargetInit: the announcement is there, or time is up or the      *)
(* target crashed.                                                         *)
WaitForTargetInit(from, ok, failed) ==
  /\ pc = from /\ pc' = (IF fwInd = "init" THEN ok ELSE failed) /\ UNCHANGED ret
  /\ UNCHANGED <<tdv, gate, mgr, objs, dma, pci, tgt>>

WaitCold  == WaitForTargetInit("wait_cold", "probe", "warm1")
WarmWait1 == WaitForTargetInit("warm_wait1", "warm2", "warm2")
WarmWait2 == WaitForTargetInit("warm_wait2", "probe", "m3")

EnsureCE(from, to) ==
  /\ pc = from /\ ret' = to
  /\ pc' = IF fCe # 0 THEN "ce_init" ELSE "ce_create"

(* warmReset: SI0 pulse, FW_INDICATOR cleared; the target's CPU runs on.   *)
WarmClear1 ==
  /\ Goto("warm1", "cpu_rst1") /\ fwInd' = "zero" /\ heard' = "stale"
  /\ UNCHANGED <<tdv, gate, mgr, objs, dma, pci, tcfg, cpuWoken, moved>>

(* The CPU reset, init_pipes. *)
WarmCpu1 ==
  /\ EnsureCE("cpu_rst1", "warm_wait1")
  /\ UNCHANGED <<tdv, gate, mgr, objs, dma, pci, tgt>>

(* Mutant: the second CPU reset without its clear. *)
WarmClear2Dropped ==
  /\ Goto("warm2", "cpu_rst2") /\ heard' = "stale"
  /\ hw' = [e \in Engines |-> 0] /\ moved' = {}
  /\ UNCHANGED <<tdv, gate, mgr, objs, live, nreg, pci, fwInd, tcfg, cpuWoken>>

(* LF timer off, CE reset pulse (the rings are forgotten), FW_INDICATOR    *)
(* cleared again, ...                                                      *)
WarmClear2 ==
  /\ Goto("warm2", "cpu_rst2") /\ fwInd' = "zero" /\ heard' = "stale"
  /\ hw' = [e \in Engines |-> 0] /\ moved' = {}
  /\ UNCHANGED <<tdv, gate, mgr, objs, live, nreg, pci, tcfg, cpuWoken>>

(* ... the second CPU reset, init_pipes again. *)
WarmCpu2 ==
  /\ EnsureCE("cpu_rst2", "warm_wait2")
  /\ UNCHANGED <<tdv, gate, mgr, objs, dma, pci, tgt>>

-----------------------------------------------------------------------------
(* ensureCE(), CEManager::init and initWmi, CECopyPair::init.              *)

(* allocRegion: a DMA region no one had before. *)
NewRegion == nreg' = nreg + 1 /\ live' = live \cup {nreg'}

(* A new CECopyPair replaces the pointer.  Its region may not be had; or   *)
(* the engine reads dead after the region was had, and the pair is deleted *)
(* (CECopyPair has no destructor); or the rings are programmed.            *)
PairInit(e, ok, failed) ==
  /\ UNCHANGED <<fCe, nmgr>>
  /\ \/ /\ pc' = failed /\ ptr' = [ptr EXCEPT ![e] = 0]
        /\ UNCHANGED dma
     \/ /\ pc' = failed /\ ptr' = [ptr EXCEPT ![e] = 0]
        /\ NewRegion /\ UNCHANGED hw
     \/ /\ pc' = ok /\ ptr' = [ptr EXCEPT ![e] = nreg + 1]
        /\ NewRegion /\ hw' = [hw EXCEPT ![e] = nreg']

(* Mutant: a pair that exists is taken to be up. *)
CtrlInitAgainIdle ==
  /\ pc = "ce_init" /\ pc' = ret
  /\ UNCHANGED <<ret, tdv, gate, mgr, objs, dma, pci, tgt>>

(* init() of the manager that is there. *)
CtrlInitAgain ==
  /\ pc = "ce_init" /\ PairInit("ctrl", ret, "ce_fail")
  /\ UNCHANGED <<ret, tdv, gate, objs, pci, tgt>>

(* destroy() of the manager whose init() failed; its pointers are null by  *)
(* then and it only deletes itself.                                        *)
DropManager ==
  /\ pc = "ce_fail" /\ pc' = "ce_create" /\ fCe' = 0
  /\ UNCHANGED <<ret, tdv, gate, ptr, nmgr, objs, dma, pci, tgt>>

NewManager ==
  /\ pc = "ce_create" /\ pc' = "ce_init2"
  /\ nmgr' = nmgr + 1 /\ fCe' = nmgr' /\ ptr' = [e \in Engines |-> 0]
  /\ UNCHANGED <<ret, tdv, gate, objs, dma, pci, tgt>>

CtrlInitNew ==
  /\ pc = "ce_init2" /\ PairInit("ctrl", ret, "ce_fail2")
  /\ UNCHANGED <<ret, tdv, gate, objs, pci, tgt>>

(* The new manager's init() or create() failed too: ensureCE returns false *)
(* and its caller gives up, probeBmi or the warm reset.                    *)
EnsureCEFail ==
  /\ pc \in {"ce_create", "ce_fail2"} /\ fCe' = 0
  /\ pc' = IF ret = "diag" THEN "probe_fail" ELSE "m3"
  /\ UNCHANGED <<ret, tdv, gate, ptr, nmgr, objs, dma, pci, tgt>>

-----------------------------------------------------------------------------
(* teardownHardware() and CEManager::destroy.                              *)

(* Mutant: fBmi is deleted and not cleared. *)
TeardownKeepsBmi(next) ==
  /\ fHtc' = 0 /\ fWmi' = 0 /\ UNCHANGED fBmi
  /\ td' = IF fCe = 0 THEN <<>> ELSE <<"diag", "ctrl", "wmi">>
  /\ tdret' = next /\ pc' = "td_park" /\ UNCHANGED ret

(* The objects go first, then the manager's engines in order. *)
TeardownHardware(next) ==
  /\ fBmi' = 0 /\ fHtc' = 0 /\ fWmi' = 0
  /\ td' = IF fCe = 0 THEN <<>> ELSE <<"diag", "ctrl", "wmi">>
  /\ tdret' = next /\ pc' = "td_park" /\ UNCHANGED ret

(* Mutant: the region is released without parking the rings. *)
TdParkSkipped ==
  /\ pc = "td_park" /\ td # <<>>
  /\ pc' = "td_free"
  /\ UNCHANGED <<ret, tdv, gate, mgr, objs, dma, pci, tgt>>

(* teardown of one engine user: base and size registers cleared (a write   *)
(* that memory decode has to be on for), ...                               *)
TdPark ==
  /\ pc = "td_park" /\ td # <<>> /\ ptr[Head(td)] # 0
  /\ pc' = "td_free" /\ hw' = IF memEnable THEN [hw EXCEPT ![Head(td)] = 0] ELSE hw
  /\ UNCHANGED <<ret, tdv, gate, mgr, objs, live, nreg, pci, tgt>>

(* Mutant: the pointer outlives its region. *)
TdFreeKept ==
  /\ pc = "td_free" /\ pc' = "td_park"
  /\ live' = live \ {ptr[Head(td)]} /\ td' = Tail(td)
  /\ UNCHANGED <<ret, tdret, gate, mgr, objs, nreg, hw, pci, tgt>>

(* ... then the region released and the pointer cleared. *)
TdFree ==
  /\ pc = "td_free" /\ pc' = "td_park"
  /\ live' = live \ {ptr[Head(td)]} /\ ptr' = [ptr EXCEPT ![Head(td)] = 0]
  /\ td' = Tail(td)
  /\ UNCHANGED <<ret, tdret, gate, fCe, nmgr, objs, nreg, hw, pci, tgt>>

TdSkip ==
  /\ pc = "td_park" /\ td # <<>> /\ ptr[Head(td)] = 0 /\ td' = Tail(td)
  /\ UNCHANGED <<ctl, tdret, gate, mgr, objs, dma, pci, tgt>>

TdDone ==
  /\ pc = "td_park" /\ td = <<>> /\ pc' = tdret /\ fCe' = 0
  /\ UNCHANGED <<ret, tdv, gate, ptr, nmgr, objs, dma, pci, tgt>>

-----------------------------------------------------------------------------
(* probeBmi().                                                             *)

ProbeBmi ==
  /\ EnsureCE("probe", "diag")
  /\ UNCHANGED <<tdv, gate, mgr, objs, dma, pci, tgt>>

(* initDiag, called once per manager.  ~CEDiag tears down, so a failure    *)
(* leaves nothing behind.                                                  *)
InitDiag ==
  /\ pc = "diag" /\ NewRegion
  /\ ptr' = [ptr EXCEPT !["diag"] = nreg'] /\ hw' = [hw EXCEPT !["diag"] = nreg']
  /\ pc' = "config"
  /\ UNCHANGED <<ret, tdv, gate, fCe, nmgr, objs, pci, tgt>>

InitDiagFail ==
  /\ pc = "diag" /\ TeardownHardware("probe_fail") /\ nreg' \in {nreg, nreg + 1}
  /\ hw' = [hw EXCEPT !["diag"] = 0]
  /\ UNCHANGED <<gate, mgr, live, pci, tgt>>

(* Traffic over an engine moves its indices. *)
Talk(e) == moved' = moved \cup {e}

(* initConfig through the diag window, one write after the other. *)
InitConfigStep ==
  /\ pc = "config" /\ tcfg # Config
  /\ tcfg' = tcfg \cup {ConfigOrder[Cardinality(tcfg) + 1]} /\ Talk("diag")
  /\ UNCHANGED <<ctl, tdv, gate, mgr, objs, dma, pci, fwInd, heard, cpuWoken>>

(* Mutant: a failed diag transfer is logged and passed over. *)
InitConfigFailPassed ==
  /\ Goto("config", "cpu") /\ tcfg # Config
  /\ UNCHANGED <<tdv, gate, mgr, objs, dma, pci, tgt>>

(* A transfer fails, or times out although the target has taken it. *)
InitConfigFail ==
  /\ pc = "config" /\ tcfg # Config /\ TeardownHardware("probe_fail")
  /\ tcfg' \in {tcfg, tcfg \cup {ConfigOrder[Cardinality(tcfg) + 1]}} /\ Talk("diag")
  /\ UNCHANGED <<gate, mgr, dma, pci, fwInd, heard, cpuWoken>>

InitConfigDone ==
  /\ Goto("config", "cpu") /\ tcfg = Config
  /\ UNCHANGED <<tdv, gate, mgr, objs, dma, pci, tgt>>

WakeTargetCpu ==
  /\ Goto("cpu", "bmi") /\ cpuWoken' = TRUE
  /\ UNCHANGED <<tdv, gate, mgr, objs, dma, pci, fwInd, heard, tcfg, moved>>

(* new Bmi, getTargetInfo: an answer with a version, or none. *)
GetTargetInfo ==
  /\ Goto("bmi", "m3") /\ fBmi' = fCe /\ version' \in {0, 1} /\ probe' = "ok"
  /\ Talk("ctrl")
  /\ UNCHANGED <<tdv, fMaxStage, m3ok, m4ok, mgr, fHtc, fWmi, dma, pci>>
  /\ UNCHANGED <<fwInd, heard, tcfg, cpuWoken>>

GetTargetInfoFail ==
  /\ pc = "bmi" /\ TeardownHardware("probe_fail") /\ Talk("ctrl")
  /\ UNCHANGED <<gate, mgr, dma, pci, fwInd, heard, tcfg, cpuWoken>>

(* probeBmi returned false; ensureCE left no manager if it was the one. *)
ProbeFailed ==
  /\ Goto("probe_fail", "m3") /\ probe' = "failed"
  /\ UNCHANGED <<tdv, fMaxStage, version, m3ok, m4ok, mgr, objs, dma, pci, tgt>>

-----------------------------------------------------------------------------
(* M3, M4, the end of start(), stop().                                     *)

(* The stage cap and BMI gate of M3. *)
GateM3 ==
  /\ Goto("m3", IF fMaxStage >= 3 /\ fBmi # 0 /\ version # 0 THEN "boot" ELSE "m4")
  /\ UNCHANGED <<tdv, gate, mgr, objs, dma, pci, tgt>>

BootFirmware ==
  /\ Goto("boot", "m4") /\ m3ok' = TRUE
  /\ UNCHANGED <<tdv, fMaxStage, version, m4ok, probe, mgr, objs, dma, pci, tgt>>

BootFirmwareFail ==
  /\ pc = "boot" /\ TeardownHardware("m4")
  /\ UNCHANGED <<gate, mgr, dma, pci, tgt>>

(* Mutant: M4 is gated by the stage cap alone. *)
GateM4CapOnly ==
  /\ Goto("m4", IF fMaxStage = 4 /\ fCe # 0 THEN "m4_ce" ELSE "summary")
  /\ UNCHANGED <<tdv, gate, mgr, objs, dma, pci, tgt>>

(* The stage cap and firmware gate of M4. *)
GateM4 ==
  /\ Goto("m4", IF fMaxStage >= 4 /\ m3ok THEN "m4_ce" ELSE "summary")
  /\ UNCHANGED <<tdv, gate, mgr, objs, dma, pci, tgt>>

(* startHtcWmi: initWmi for the CE3/CE2 pair, then HTC, then WMI. *)
InitWmi ==
  /\ pc = "m4_ce" /\ PairInit("wmi", "m4_htc", "m4_fail")
  /\ UNCHANGED <<ret, tdv, gate, objs, pci, tgt>>

NewHtc ==
  /\ Goto("m4_htc", "m4_ctl") /\ fHtc' = fCe
  /\ UNCHANGED <<tdv, gate, mgr, fBmi, fWmi, dma, pci, tgt>>

(* READY, CONNECT and SETUP_COMPLETE went through; new Wmi and its first   *)
(* use of the CE3/CE2 pair.                                                *)
HtcUp ==
  /\ Goto("m4_ctl", "m4_wmi") /\ fWmi' = fCe /\ Talk("wmi")
  /\ UNCHANGED <<tdv, gate, mgr, fBmi, fHtc, dma, pci, fwInd, heard, tcfg, cpuWoken>>

WmiOnline ==
  /\ Goto("m4_wmi", "summary") /\ m4ok' = TRUE
  /\ UNCHANGED <<tdv, fMaxStage, version, m3ok, probe, mgr, objs, dma, pci, tgt>>

(* The pair, the HTC handshake or the WMI handshake failed. *)
StartHtcWmiFail ==
  /\ pc \in {"m4_fail", "m4_ctl", "m4_wmi"} /\ TeardownHardware("summary")
  /\ UNCHANGED <<gate, mgr, dma, pci, tgt>>

(* registerService, start() returns true whatever M2 to M4 came to. *)
Summary ==
  /\ Goto("summary", "running")
  /\ UNCHANGED <<tdv, gate, mgr, objs, dma, pci, tgt>>

StopCall ==
  /\ pc = "running" /\ TeardownHardware("stop_pci")
  /\ UNCHANGED <<gate, mgr, dma, pci, tgt>>

(* Mutant: the link keeps its ASPM off. *)
StopPciNoAspm ==
  /\ Goto("stop_pci", "stopped") /\ busMaster' = FALSE /\ memEnable' = FALSE
  /\ UNCHANGED <<tdv, gate, mgr, objs, dma, linkAspm, fAspmCtl, wasAspm, tgt>>

StopPci ==
  /\ Goto("stop_pci", "stopped") /\ busMaster' = FALSE /\ memEnable' = FALSE
  /\ linkAspm' = IF fAspmCtl THEN fAspmCtl ELSE linkAspm
  /\ UNCHANGED <<tdv, gate, mgr, objs, dma, fAspmCtl, wasAspm, tgt>>

Host ==
  \/ Refuse \/ EnablePci \/ MapBar0 \/ WakeFirst
  \/ ResetWakeFail \/ ColdReset \/ WakeAgain \/ WaitCold \/ WarmClear1 \/ WarmCpu1
  \/ WarmWait1 \/ WarmClear2 \/ WarmCpu2 \/ WarmWait2
  \/ CtrlInitAgain \/ DropManager \/ NewManager \/ CtrlInitNew
  \/ EnsureCEFail
  \/ TdPark \/ TdFree \/ TdSkip \/ TdDone
  \/ ProbeBmi \/ InitDiag \/ InitDiagFail \/ InitConfigStep \/ InitConfigFail
  \/ InitConfigDone \/ WakeTargetCpu \/ GetTargetInfo \/ GetTargetInfoFail \/ ProbeFailed
  \/ GateM3 \/ BootFirmware \/ BootFirmwareFail \/ GateM4 \/ InitWmi
  \/ NewHtc \/ HtcUp \/ WmiOnline \/ StartHtcWmiFail \/ Summary \/ StopCall \/ StopPci

(* The target's ROM or firmware writes FW_INDICATOR (external), once after *)
(* a reset.  heard says when, as seen from the last reset of the CPU:      *)
(* after it, in the gap between the clear and the reset, by the CPU that   *)
(* is about to be reset, or before that.                                   *)
Announce ==
  /\ fwInd = "zero" \/ heard = "gap"
  /\ pc # "stopped"
  /\ fwInd' \in {"init", "crash"}
  /\ heard' = IF pc \in {"cpu_rst1", "cpu_rst2"} THEN "gap" ELSE "fresh"
  /\ UNCHANGED <<ctl, tdv, gate, mgr, objs, dma, pci, tcfg, cpuWoken, moved>>

Next == Host \/ Announce

Spec == Init /\ [][Next]_vars

-----------------------------------------------------------------------------
(* Properties.                                                             *)

(* No copy engine is ever left pointing at memory the driver gave back:    *)
(* every base register is parked or names a region still allocated,        *)
(* between any two steps of any teardown, re-init and rescue reset         *)
(* (CECopyPair::teardown parks "before releasing DMA memory").             *)
RingsNeverDangle == \A e \in Engines : hw[e] = 0 \/ hw[e] \in live

(* Whenever the driver talks over an engine, the engine's rings are the    *)
(* current manager's, also after the CE reset of the warm leg forgot them  *)
(* and ensureCE ran on a manager that already existed.                     *)
Talking ==
  [ctrl |-> {"diag", "config", "cpu", "bmi", "boot", "m4_ce", "m4_htc", "m4_ctl", "m4_wmi"},
   diag |-> {"config", "cpu", "bmi", "boot", "m4_ce", "m4_htc", "m4_ctl", "m4_wmi"},
   wmi  |-> {"m4_htc", "m4_ctl", "m4_wmi"}]
RingsAreCurrent ==
  \A e \in Engines : pc \in Talking[e] => fCe # 0 /\ ptr[e] # 0 /\ hw[e] = ptr[e]

(* CECopyPair::init and CEDiag::init set the software indices to 0 and     *)
(* look at no hardware index: rings are programmed only into an engine     *)
(* that a reset cleared after the last traffic over it, also when another  *)
(* system used the card before and when the warm leg sets the rings up     *)
(* again.                                                                  *)
IndicesAgree ==
  [][\A e \in Engines : hw'[e] \notin {0, hw[e]} => e \notin moved]_vars

(* Bmi, Htc and Wmi keep a raw pointer to the manager they were built on;  *)
(* it is never one that teardown or ensureCE destroyed.                    *)
HandlesCurrent == \A h \in {fBmi, fHtc, fWmi} : h # 0 => h = fCe

(* probeBmi is entered only on an announcement made since FW_INDICATOR was *)
(* last cleared: neither the one an earlier system left nor the one that   *)
(* warmReset's first, ignored wait saw is enough.  Behind the cold reset   *)
(* alone (no manager yet) it is the reset CPU's own; in the warm leg a CPU *)
(* that announces between the clear and its reset is taken for it, and the *)
(* registers leave the driver no way to tell.                              *)
ProbeAfterAnnounce ==
  [][pc # "probe" /\ pc' = "probe" =>
       fwInd = "init" /\ heard \in (IF fCe = 0 THEN {"fresh"} ELSE {"fresh", "gap"})]_vars

(* The target CPU is woken only over a complete CE configuration, and the  *)
(* early-config-done flag is the last item of it (initConfig can fail at   *)
(* any transfer).                                                          *)
ConfiguredBeforeCpu == cpuWoken \/ "done" \in tcfg => tcfg = Config

(* start() reports WMI online only if every stage ran and succeeded and    *)
(* nothing of it was torn down again.                                      *)
OnlineMeansStages ==
  pc \in {"summary", "running"} /\ m4ok =>
    /\ fMaxStage = 4 /\ probe = "ok" /\ m3ok /\ cpuWoken
    /\ fCe # 0 /\ {fBmi, fHtc, fWmi} = {fCe}
    /\ \A e \in Engines : hw[e] = ptr[e] /\ ptr[e] # 0

(* After stop() the device cannot reach memory, the link is as it was      *)
(* found, and the driver has no manager, no object built on one and no     *)
(* region pointer left.                                                    *)
StoppedIsQuiet ==
  pc = "stopped" => /\ ~busMaster /\ ~memEnable /\ linkAspm = wasAspm
                    /\ {fCe, fBmi, fHtc, fWmi} = {0} /\ \A e \in Engines : ptr[e] = 0

(* QCA9377Driver.cpp, teardownHardware: "a failed probe never leaves a     *)
(* live DMA region behind".                                                *)
FailedProbeLeavesNoRegion == probe = "failed" => live = {}

(* QCA9377Driver.hpp, qca-maxstage: "1 = M1 only, 2 = +BMI". *)
CapOneStopsAfterM1 == fMaxStage = 1 => fBmi = 0

(* QCA9377Driver.cpp, stop(): "Release bus-master first so the target      *)
(* cannot issue new DMA while we disarm rings".                            *)
StopMastersOffFirst ==
  pc \in {"td_park", "td_free"} /\ tdret = "stop_pci" => ~busMaster
=============================================================================

------------------------ MODULE DriverLifecycleProofs ------------------------
(***************************************************************************)
(* Proofs about DriverLifecycle: what start() and stop() own, in which     *)
(* order the stages run, and that no start() needs more regions than the   *)
(* bound.                                                                  *)
(***************************************************************************)
EXTENDS DriverLifecycle, FiniteSetTheorems, TLAPS

Early   == {"start", "bar0", "wake1", "reset1", "reset2", "wait_cold", "warm1",
            "cpu_rst1"}
Warm    == {"warm_wait1", "warm2", "cpu_rst2", "warm_wait2"}
Ensure  == {"ce_init", "ce_create", "ce_init2", "ce_fail", "ce_fail2"}
Since   == {"reset2", "wait_cold", "warm1", "cpu_rst1"} \cup Warm \cup Ensure \cup {"probe"}
Cold    == Since \cup {"diag"}
Probing == {"config", "cpu", "bmi"}
Stage4  == {"m4_ce", "m4_fail", "m4_htc", "m4_ctl", "m4_wmi"}
Late    == {"m3", "boot", "m4", "summary", "running"} \cup Stage4
Down    == {"td_park", "td_free"}
S0 == <<>>                        \* what destroy() still has to tear down
S1 == <<"wmi">>
S2 == <<"ctrl", "wmi">>
S3 == <<"diag", "ctrl", "wmi">>

-----------------------------------------------------------------------------
(* The inductive invariant.                                                *)

(* Where ensureCE and destroy() were called from. *)
Flow ==
  /\ pc \in Ensure => ret \in {"warm_wait1", "warm_wait2", "diag"}
  /\ pc \in {"ce_init", "ce_fail"} => ret # "warm_wait1"
  /\ pc \in Down => tdret \in {"probe_fail", "m4", "summary", "stop_pci"}
  /\ td \in {S0, S1, S2, S3} /\ (pc = "td_free" => td # S0)

(* Regions made so far, by the place start() has come to. *)
Made ==
  /\ pc \in Early => nreg = 0
  /\ pc \in {"ce_create", "ce_init2"} /\ ret = "warm_wait1" => nreg = 0
  /\ pc \in {"warm_wait1", "warm2", "cpu_rst2"} => nreg <= 1
  /\ pc = "ce_fail2" /\ ret = "warm_wait1" => nreg <= 1
  /\ pc = "ce_init" /\ ret = "warm_wait2" => nreg <= 1
  /\ pc \in {"ce_fail", "ce_create", "ce_init2"} /\ ret = "warm_wait2" => nreg <= 2
  /\ pc = "ce_fail2" /\ ret = "warm_wait2" => nreg <= 3
  /\ pc \in {"warm_wait2", "probe"} => nreg <= 3
  /\ pc = "ce_init" /\ ret = "diag" => nreg <= 3
  /\ pc \in {"ce_fail", "ce_create", "ce_init2"} /\ ret = "diag" => nreg <= 4
  /\ pc \in Ensure \cup {"diag"} => nreg <= 5
  /\ pc \in Probing \cup {"probe_fail", "m3", "boot", "m4", "m4_ce"} => nreg <= 6
  /\ pc \in Down /\ tdret \in {"probe_fail", "m4"} => nreg <= 6
  /\ nreg <= 7

(* Which pointers the manager holds, and when there is a manager. *)
Holds ==
  /\ fCe = 0 => \A e \in Engines : ptr[e] = 0
  /\ pc \in Early \cup {"ce_create", "stop_pci", "stopped"} => fCe = 0
  /\ pc \in {"ce_init", "ce_init2"} => fCe # 0
  /\ pc \in {"ce_fail", "ce_create", "ce_init2", "ce_fail2"} => ptr["ctrl"] = 0
  /\ pc \in Early \cup Warm \cup Ensure \cup {"probe", "diag"} =>
       ptr["diag"] = 0 /\ ptr["wmi"] = 0

(* destroy() has emptied what it came past. *)
Emptied ==
  pc \in Down =>
    /\ td = S0 => ptr["wmi"] = 0
    /\ td \in {S0, S1} => ptr["ctrl"] = 0
    /\ td \in {S0, S1, S2} => ptr["diag"] = 0

(* No two engine users share a region, and an engine about to lose its     *)
(* region is parked.                                                       *)
Apart ==
  /\ \A e, f \in Engines : e # f /\ ptr[f] # 0 => ptr[e] # ptr[f] /\ hw[e] # ptr[f]
  /\ pc = "td_free" => ptr[Head(td)] # 0 /\ hw[Head(td)] = 0

(* The link and the bus. *)
Bus ==
  /\ pc \notin {"start", "refused", "stopped"} => memEnable = TRUE
  /\ fAspmCtl = TRUE => wasAspm = TRUE
  /\ fAspmCtl = FALSE => linkAspm = wasAspm
  /\ pc = "start" => linkAspm = wasAspm /\ fAspmCtl = FALSE
  /\ pc = "stopped" => busMaster = FALSE /\ memEnable = FALSE /\ linkAspm = wasAspm

(* The CE configuration is written in order. *)
Prefixes == {{}, {"l1off"}, {"l1off", "pipes"}, {"l1off", "pipes", "svcmap"},
             {"l1off", "pipes", "svcmap", "ealloc"}, Config}
Configured ==
  /\ tcfg \in Prefixes
  /\ cpuWoken = TRUE \/ pc \in {"cpu", "bmi"} => tcfg = Config
  /\ pc = "bmi" => cpuWoken = TRUE

(* What an object stands for. *)
Current(e) == fCe # 0 /\ ptr[e] # 0 /\ hw[e] = ptr[e]
Objects ==
  /\ fBmi # 0 => /\ pc \in Late /\ fBmi = fCe /\ Current("ctrl") /\ Current("diag")
                 /\ cpuWoken = TRUE /\ probe = "ok"
  /\ fHtc # 0 => pc \in {"m4_ctl", "m4_wmi", "summary", "running"} /\ fHtc = fCe
  /\ fWmi # 0 => pc \in {"m4_wmi", "summary", "running"} /\ fWmi = fCe
  /\ pc = "m4_ctl" => fHtc = fCe
  /\ pc = "m4_wmi" => fHtc = fCe /\ fWmi = fCe
  /\ pc \in Stage4 \cup {"boot"} => fBmi # 0
  /\ pc = "m4" /\ m3ok = TRUE => fBmi # 0

(* Which stage may have succeeded where. *)
Stages ==
  /\ m3ok = TRUE =>
       pc \in {"m4", "summary", "running", "stop_pci", "stopped"} \cup Stage4 \cup Down
  /\ m3ok = TRUE /\ pc \in Down => tdret \in {"summary", "stop_pci"}
  /\ pc \in Stage4 => m3ok = TRUE /\ fMaxStage = 4
  /\ m4ok = TRUE => pc \in {"summary", "running", "stop_pci", "stopped"} \cup Down
  /\ m4ok = TRUE /\ pc \in Down => tdret = "stop_pci"

(* When the target wrote what FW_INDICATOR reads: after the cold reset at  *)
(* the first wait; at the wait behind the warm reset, where a manager      *)
(* exists, after the last clear.                                           *)
Heard ==
  /\ pc \in Since /\ fwInd # "zero" => heard # "stale"
  /\ pc \in {"reset2", "wait_cold"} => heard # "gap"
  /\ pc = "warm_wait2" => fCe # 0

(* The engines whose indices a reset cleared. *)
Still ==
  /\ pc \in Cold => moved = {}
  /\ pc \in Probing => "wmi" \notin moved
  /\ fBmi # 0 /\ pc \in {"m3", "boot", "m4", "m4_ce"} => "wmi" \notin moved

OwnInv == Holds /\ Emptied /\ Apart /\ RingsNeverDangle /\ RingsAreCurrent
StageInv == Objects /\ Stages /\ Heard /\ OnlineMeansStages
IInv == TypeOK /\ Flow /\ Made /\ OwnInv /\ Bus /\ Configured /\ StageInv /\ Still

(* ProbeAfterAnnounce and IndicesAgree, for one step. *)
Announced ==
  pc # "probe" /\ pc' = "probe" =>
    fwInd = "init" /\ heard \in (IF fCe = 0 THEN {"fresh"} ELSE {"fresh", "gap"})
Agree == \A e \in Engines : hw'[e] \notin {0, hw[e]} => e \notin moved

-----------------------------------------------------------------------------
(* One lemma per part.                                                     *)

(* The engines destroy() goes through, one after the other. *)
LEMMA SuffixFacts ==
  /\ Tail(S1) = S0 /\ Head(S1) = "wmi"
  /\ Tail(S2) = S1 /\ Head(S2) = "ctrl"
  /\ Tail(S3) = S2 /\ Head(S3) = "diag"
  /\ S0 # S1 /\ S0 # S2 /\ S0 # S3 /\ S1 # S2 /\ S1 # S3 /\ S2 # S3
  /\ \A s \in {S0, S1, S2, S3} : s \in Seq(Engines) /\ Len(s) <= 3
<1>1. /\ Tail(S1) = S0 /\ Head(S1) = "wmi"
      /\ Tail(S2) = S1 /\ Head(S2) = "ctrl"
      /\ Tail(S3) = S2 /\ Head(S3) = "diag"
  BY DEF S0, S1, S2, S3
<1>2. /\ S0 \in Seq(Engines) /\ S1 \in Seq(Engines)
      /\ S2 \in Seq(Engines) /\ S3 \in Seq(Engines)
      /\ Len(S0) <= 3 /\ Len(S1) <= 3 /\ Len(S2) <= 3 /\ Len(S3) <= 3
  BY DEF S0, S1, S2, S3, Engines
<1>3. S0 # S1 /\ S0 # S2 /\ S0 # S3 /\ S1 # S2 /\ S1 # S3 /\ S2 # S3
  BY DEF S0, S1, S2, S3
<1>4. \A s \in {S0, S1, S2, S3} : s \in Seq(Engines) /\ Len(s) <= 3
  BY <1>2, Zenon
<1> QED BY <1>1, <1>3, <1>4

(* teardownHardware drops the objects and starts destroy() if there is a  *)
(* manager.                                                                *)
LEMMA TeardownFacts ==
  ASSUME NEW next, TeardownHardware(next)
  PROVE  /\ pc' = "td_park" /\ tdret' = next /\ ret' = ret
         /\ fBmi' = 0 /\ fHtc' = 0 /\ fWmi' = 0
         /\ td' = IF fCe = 0 THEN S0 ELSE S3
BY DEF TeardownHardware, S0, S3

(* One step of destroy(): the engine it is at, and the ones left. *)
LEMMA DownFacts ==
  ASSUME Flow, TdPark \/ TdFree \/ TdSkip
  PROVE  \/ td = S1 /\ Head(td) = "wmi" /\ Tail(td) = S0
         \/ td = S2 /\ Head(td) = "ctrl" /\ Tail(td) = S1
         \/ td = S3 /\ Head(td) = "diag" /\ Tail(td) = S2
<1>1. td \in {S1, S2, S3}
  BY DEF Flow, TdPark, TdFree, TdSkip, S0
<1> QED BY <1>1, SuffixFacts

(* initConfig writes the items of the configuration in order. *)
LEMMA NextItem ==
  ASSUME NEW s \in Prefixes, s # Config
  PROVE  s \cup {ConfigOrder[Cardinality(s) + 1]} \in Prefixes
<1>0. Cardinality({}) = 0 /\ IsFiniteSet({})
  BY FS_EmptySet
<1>1. Cardinality({"l1off"}) = 1 /\ IsFiniteSet({"l1off"})
  BY FS_Singleton
<1>2. Cardinality({"l1off"} \cup {"pipes"}) = 2 /\ IsFiniteSet({"l1off"} \cup {"pipes"})
  BY <1>1, FS_AddElement
<1>3. /\ Cardinality(({"l1off"} \cup {"pipes"}) \cup {"svcmap"}) = 3
      /\ IsFiniteSet(({"l1off"} \cup {"pipes"}) \cup {"svcmap"})
  BY <1>2, FS_AddElement
<1>4. Cardinality((({"l1off"} \cup {"pipes"}) \cup {"svcmap"}) \cup {"ealloc"}) = 4
  BY <1>3, FS_AddElement
<1>5. /\ {"l1off"} \cup {"pipes"} = {"l1off", "pipes"}
      /\ ({"l1off"} \cup {"pipes"}) \cup {"svcmap"} = {"l1off", "pipes", "svcmap"}
      /\ (({"l1off"} \cup {"pipes"}) \cup {"svcmap"}) \cup {"ealloc"}
           = {"l1off", "pipes", "svcmap", "ealloc"}
  OBVIOUS
<1>6. /\ ConfigOrder[1] = "l1off" /\ ConfigOrder[2] = "pipes" /\ ConfigOrder[3] = "svcmap"
      /\ ConfigOrder[4] = "ealloc" /\ ConfigOrder[5] = "done"
  BY DEF ConfigOrder
<1>7. CASE s = {}
  BY <1>0, <1>6, <1>7 DEF Prefixes
<1>8. CASE s = {"l1off"}
  BY <1>1, <1>6, <1>8 DEF Prefixes
<1>9. CASE s = {"l1off", "pipes"}
  BY <1>2, <1>5, <1>6, <1>9 DEF Prefixes
<1>10. CASE s = {"l1off", "pipes", "svcmap"}
  BY <1>3, <1>5, <1>6, <1>10 DEF Prefixes
<1>11. CASE s = {"l1off", "pipes", "svcmap", "ealloc"}
  BY <1>4, <1>5, <1>6, <1>11 DEF Prefixes, Config
<1> QED BY <1>7, <1>8, <1>9, <1>10, <1>11 DEF Prefixes

(* Where start() and its callees are: the call returns where it came from. *)
LEMMA FlowStep == Flow /\ Holds /\ Next => Flow'
<1> SUFFICES ASSUME Flow, Holds, Next PROVE Flow'
  OBVIOUS
<1> USE DEF ctl, tdv, gate, mgr, objs, dma, pci, tgt
<1>1. CASE Refuse \/ EnablePci \/ MapBar0 \/ WakeFirst \/ ResetWakeFail \/ WakeAgain
  BY <1>1 DEF Refuse, EnablePci, MapBar0, WakeFirst, ResetWakeFail, WakeAgain, Goto,
     Flow, Ensure, Down
<1>2. CASE ColdReset \/ WaitCold \/ WarmWait1 \/ WarmWait2 \/ WarmClear1 \/ WarmClear2
  BY <1>2 DEF ColdReset, WaitCold, WarmWait1, WarmWait2, WarmClear1, WarmClear2, Goto,
     WaitForTargetInit, Flow, Ensure, Down
<1>3. CASE WarmCpu1 \/ WarmCpu2 \/ ProbeBmi
  BY <1>3 DEF WarmCpu1, WarmCpu2, ProbeBmi, EnsureCE, Flow, Holds, Early, Down
<1>4. CASE CtrlInitAgain \/ CtrlInitNew \/ InitWmi
  BY <1>4 DEF CtrlInitAgain, CtrlInitNew, InitWmi, PairInit, Flow, Ensure, Down
<1>5. CASE DropManager \/ NewManager \/ EnsureCEFail
  BY <1>5 DEF DropManager, NewManager, EnsureCEFail, Flow, Ensure, Down
<1>6. CASE TdPark \/ TdFree \/ TdSkip \/ TdDone
  <2>1. CASE TdPark
    BY <2>1 DEF TdPark, Flow, Ensure, Down, S0
  <2>2. CASE TdFree \/ TdSkip
    <3>1. td' \in {S0, S1, S2} /\ tdret' = tdret /\ pc' = "td_park" /\ pc \in Down
      BY <2>2, DownFacts DEF TdFree, TdSkip, Down
    <3> QED BY <3>1, SuffixFacts DEF Flow, Ensure
  <2>3. CASE TdDone
    BY <2>3 DEF TdDone, Flow, Ensure, Down
  <2> QED BY <1>6, <2>1, <2>2, <2>3
<1>7. CASE InitDiag
  BY <1>7 DEF InitDiag, Flow, Ensure, Down
<1>8. CASE InitConfigStep \/ InitConfigDone \/ WakeTargetCpu
  BY <1>8 DEF InitConfigStep, InitConfigDone, WakeTargetCpu, Goto, Flow, Ensure, Down
<1>9. CASE InitDiagFail \/ InitConfigFail \/ GetTargetInfoFail \/ BootFirmwareFail
          \/ StartHtcWmiFail \/ StopCall
  <2>1. /\ td' \in {S0, S3} /\ pc' = "td_park"
        /\ tdret' \in {"probe_fail", "m4", "summary", "stop_pci"}
    BY <1>9, TeardownFacts DEF InitDiagFail, InitConfigFail, GetTargetInfoFail,
       BootFirmwareFail, StartHtcWmiFail, StopCall
  <2> QED BY <2>1 DEF Flow, Ensure
<1>10. CASE GetTargetInfo \/ ProbeFailed \/ GateM3 \/ BootFirmware
  BY <1>10 DEF GetTargetInfo, ProbeFailed, GateM3, BootFirmware, Goto, Flow, Ensure,
     Down
<1>11. CASE GateM4 \/ NewHtc \/ HtcUp \/ WmiOnline \/ Summary
  BY <1>11 DEF GateM4, NewHtc, HtcUp, WmiOnline, Summary, Goto, Flow, Ensure, Down
<1>12. CASE StopPci \/ Announce
  BY <1>12 DEF StopPci, Announce, Goto, Flow, Ensure, Down
<1> QED BY <1>1, <1>2, <1>3, <1>4, <1>5, <1>6, <1>7, <1>8, <1>9, <1>10, <1>11, <1>12
           DEF Next, Host

(* How many regions each place in the code can have made. *)
LEMMA MadeStep == TypeDma /\ Flow /\ Made /\ Holds /\ Next => Made'
<1> SUFFICES ASSUME TypeDma, Flow, Made, Holds, Next PROVE Made'
  OBVIOUS
<1> USE DEF ctl, tdv, gate, mgr, objs, dma, pci, tgt
<1>1. CASE Refuse \/ EnablePci \/ MapBar0 \/ WakeFirst \/ ResetWakeFail \/ WakeAgain
  BY <1>1 DEF Refuse, EnablePci, MapBar0, WakeFirst, ResetWakeFail, WakeAgain, Goto,
     Made, Early
<1>2. CASE ColdReset \/ WaitCold \/ WarmWait1 \/ WarmWait2 \/ WarmClear1 \/ WarmClear2
  BY <1>2 DEF ColdReset, WaitCold, WarmWait1, WarmWait2, WarmClear1, WarmClear2, Goto,
     WaitForTargetInit, TypeDma, Made, Early
<1>3. CASE WarmCpu1 \/ WarmCpu2 \/ ProbeBmi
  BY <1>3 DEF WarmCpu1, WarmCpu2, ProbeBmi, EnsureCE, TypeDma, Made, Early
<1>4. CASE CtrlInitAgain \/ CtrlInitNew \/ InitWmi
  BY <1>4 DEF CtrlInitAgain, CtrlInitNew, InitWmi, PairInit, NewRegion, TypeDma, Flow,
     Made, Early, Ensure, Probing, Down
<1>5. CASE DropManager \/ NewManager \/ EnsureCEFail
  BY <1>5 DEF DropManager, NewManager, EnsureCEFail, TypeDma, Flow, Made, Early, Ensure
<1>6. CASE TdPark \/ TdFree \/ TdSkip \/ TdDone
  BY <1>6 DEF TdPark, TdFree, TdSkip, TdDone, Flow, Made, Early, Ensure, Probing, Down
<1>7. CASE InitDiag
  BY <1>7 DEF InitDiag, NewRegion, TypeDma, Made, Early, Ensure
<1>8. CASE InitConfigStep \/ InitConfigDone \/ WakeTargetCpu
  BY <1>8 DEF InitConfigStep, InitConfigDone, WakeTargetCpu, Goto, Made, Early, Ensure,
     Probing
<1>9. CASE InitDiagFail \/ InitConfigFail \/ GetTargetInfoFail \/ BootFirmwareFail
          \/ StartHtcWmiFail \/ StopCall
  BY <1>9 DEF InitDiagFail, InitConfigFail, GetTargetInfoFail, BootFirmwareFail,
     StartHtcWmiFail, StopCall, TeardownHardware, TypeDma, Made, Early, Ensure, Probing
<1>10. CASE GetTargetInfo \/ ProbeFailed \/ GateM3 \/ BootFirmware
  BY <1>10 DEF GetTargetInfo, ProbeFailed, GateM3, BootFirmware, Goto, Made, Early,
     Ensure, Probing
<1>11. CASE GateM4 \/ NewHtc \/ HtcUp \/ WmiOnline \/ Summary
  BY <1>11 DEF GateM4, NewHtc, HtcUp, WmiOnline, Summary, Goto, Made, Early, Ensure,
     Probing, Down
<1>12. CASE StopPci \/ Announce
  BY <1>12 DEF StopPci, Announce, Goto, Made, Early, Ensure, Probing, Down
<1> QED BY <1>1, <1>2, <1>3, <1>4, <1>5, <1>6, <1>7, <1>8, <1>9, <1>10, <1>11, <1>12
           DEF Next, Host

(* The link and the bus, after any step. *)
LEMMA BusStep == TypePci /\ Flow /\ Bus /\ Next => Bus'
<1> SUFFICES ASSUME TypePci, Flow, Bus, Next PROVE Bus'
  OBVIOUS
<1> USE DEF ctl, tdv, gate, mgr, objs, dma, pci, tgt
<1>1. CASE Refuse \/ EnablePci \/ MapBar0 \/ WakeFirst \/ ResetWakeFail \/ WakeAgain
  BY <1>1 DEF Refuse, EnablePci, MapBar0, WakeFirst, ResetWakeFail, WakeAgain, Goto, Bus
<1>2. CASE ColdReset \/ WaitCold \/ WarmWait1 \/ WarmWait2 \/ WarmClear1 \/ WarmClear2
  BY <1>2 DEF ColdReset, WaitCold, WarmWait1, WarmWait2, WarmClear1, WarmClear2, Goto,
     WaitForTargetInit, Bus
<1>3. CASE WarmCpu1 \/ WarmCpu2 \/ ProbeBmi
  BY <1>3 DEF WarmCpu1, WarmCpu2, ProbeBmi, EnsureCE, Bus
<1>4. CASE CtrlInitAgain \/ CtrlInitNew \/ InitWmi
  BY <1>4 DEF CtrlInitAgain, CtrlInitNew, InitWmi, PairInit, Bus, Flow, Ensure
<1>5. CASE DropManager \/ NewManager \/ EnsureCEFail
  BY <1>5 DEF DropManager, NewManager, EnsureCEFail, Bus
<1>6. CASE TdPark \/ TdFree \/ TdSkip \/ TdDone
  BY <1>6 DEF TdPark, TdFree, TdSkip, TdDone, Bus, Flow, Down
<1>7. CASE InitDiag
  BY <1>7 DEF InitDiag, Bus
<1>8. CASE InitConfigStep \/ InitConfigDone \/ WakeTargetCpu
  BY <1>8 DEF InitConfigStep, InitConfigDone, WakeTargetCpu, Goto, Bus
<1>9. CASE InitDiagFail \/ InitConfigFail \/ GetTargetInfoFail \/ BootFirmwareFail
          \/ StartHtcWmiFail \/ StopCall
  BY <1>9 DEF InitDiagFail, InitConfigFail, GetTargetInfoFail, BootFirmwareFail,
     StartHtcWmiFail, StopCall, TeardownHardware, Bus
<1>10. CASE GetTargetInfo \/ ProbeFailed \/ GateM3 \/ BootFirmware
  BY <1>10 DEF GetTargetInfo, ProbeFailed, GateM3, BootFirmware, Goto, Bus
<1>11. CASE GateM4 \/ NewHtc \/ HtcUp \/ WmiOnline \/ Summary
  BY <1>11 DEF GateM4, NewHtc, HtcUp, WmiOnline, Summary, Goto, Bus
<1>12. CASE StopPci \/ Announce
  BY <1>12 DEF StopPci, Announce, Goto, TypePci, Bus
<1> QED BY <1>1, <1>2, <1>3, <1>4, <1>5, <1>6, <1>7, <1>8, <1>9, <1>10, <1>11, <1>12
           DEF Next, Host

(* Which engines have a region at each place. *)
LEMMA HoldsStep ==
  TypeDma /\ TypeMgr /\ Flow /\ Holds /\ Emptied /\ RingsAreCurrent /\ Next => Holds'
<1> SUFFICES ASSUME TypeDma, TypeMgr, Flow, Holds, Emptied, RingsAreCurrent, Next
             PROVE  Holds'
  OBVIOUS
<1> USE DEF ctl, tdv, gate, mgr, objs, dma, pci, tgt
<1>1. CASE Refuse \/ EnablePci \/ MapBar0 \/ WakeFirst \/ ResetWakeFail \/ WakeAgain
  BY <1>1 DEF Refuse, EnablePci, MapBar0, WakeFirst, ResetWakeFail, WakeAgain, Goto,
     Holds, Early
<1>2. CASE ColdReset \/ WaitCold \/ WarmWait1 \/ WarmWait2 \/ WarmClear1 \/ WarmClear2
  BY <1>2 DEF ColdReset, WaitCold, WarmWait1, WarmWait2, WarmClear1, WarmClear2, Goto,
     WaitForTargetInit, Holds, Early, Warm
<1>3. CASE WarmCpu1 \/ WarmCpu2 \/ ProbeBmi
  BY <1>3 DEF WarmCpu1, WarmCpu2, ProbeBmi, EnsureCE, Holds, Early, Warm, Engines
<1>4. CASE CtrlInitAgain \/ CtrlInitNew \/ InitWmi
  BY <1>4 DEF CtrlInitAgain, CtrlInitNew, InitWmi, PairInit, TypeDma, Flow,
     RingsAreCurrent, Holds, Talking, Early, Warm, Ensure, Engines
<1>5. CASE DropManager \/ NewManager \/ EnsureCEFail
  BY <1>5 DEF DropManager, NewManager, EnsureCEFail, TypeMgr, Holds, Early, Ensure,
     Engines
<1>6. CASE TdPark \/ TdFree \/ TdSkip \/ TdDone
  <2>1. CASE TdPark \/ TdFree \/ TdSkip
    <3>1. pc' \in Down /\ fCe' = fCe /\ \A e \in Engines : ptr[e] = 0 => ptr'[e] = 0
      BY <2>1, DownFacts DEF TdPark, TdFree, TdSkip, TypeDma, Down
    <3> QED BY <3>1 DEF Holds, Down, Early, Warm, Ensure
  <2>2. CASE TdDone
    BY <2>2 DEF TdDone, Flow, Emptied, Holds, Down, Engines, S0
  <2> QED BY <1>6, <2>1, <2>2
<1>7. CASE InitDiag
  BY <1>7 DEF InitDiag, RingsAreCurrent, Holds, Talking, Early, Warm, Ensure, Engines
<1>8. CASE InitConfigStep \/ InitConfigDone \/ WakeTargetCpu
  BY <1>8 DEF InitConfigStep, InitConfigDone, WakeTargetCpu, Goto, Holds, Early, Warm,
     Ensure
<1>9. CASE InitDiagFail \/ InitConfigFail \/ GetTargetInfoFail \/ BootFirmwareFail
          \/ StartHtcWmiFail \/ StopCall
  BY <1>9 DEF InitDiagFail, InitConfigFail, GetTargetInfoFail, BootFirmwareFail,
     StartHtcWmiFail, StopCall, TeardownHardware, Holds, Early, Warm, Ensure
<1>10. CASE GetTargetInfo \/ ProbeFailed \/ GateM3 \/ BootFirmware
  BY <1>10 DEF GetTargetInfo, ProbeFailed, GateM3, BootFirmware, Goto, Holds, Early,
     Warm, Ensure
<1>11. CASE GateM4 \/ NewHtc \/ HtcUp \/ WmiOnline \/ Summary
  BY <1>11 DEF GateM4, NewHtc, HtcUp, WmiOnline, Summary, Goto, Holds, Early, Warm,
     Ensure
<1>12. CASE StopPci \/ Announce
  BY <1>12 DEF StopPci, Announce, Goto, TypeDma, TypeMgr, Flow, Emptied,
     RingsAreCurrent, Holds, Talking, Early, Warm, Ensure, Down, Engines
<1> QED BY <1>1, <1>2, <1>3, <1>4, <1>5, <1>6, <1>7, <1>8, <1>9, <1>10, <1>11, <1>12
           DEF Next, Host

(* destroy() leaves an engine only after its region is gone. *)
LEMMA EmptiedStep == TypeDma /\ Flow /\ Holds /\ Emptied /\ Next => Emptied'
<1> SUFFICES ASSUME TypeDma, Flow, Holds, Emptied, Next PROVE Emptied'
  OBVIOUS
<1> USE DEF ctl, tdv, gate, mgr, objs, dma, pci, tgt
<1>1. CASE Refuse \/ EnablePci \/ MapBar0 \/ WakeFirst \/ ResetWakeFail \/ WakeAgain
  BY <1>1 DEF Refuse, EnablePci, MapBar0, WakeFirst, ResetWakeFail, WakeAgain, Goto,
     Emptied, Down
<1>2. CASE ColdReset \/ WaitCold \/ WarmWait1 \/ WarmWait2 \/ WarmClear1 \/ WarmClear2
  BY <1>2 DEF ColdReset, WaitCold, WarmWait1, WarmWait2, WarmClear1, WarmClear2, Goto,
     WaitForTargetInit, Emptied, Down
<1>3. CASE WarmCpu1 \/ WarmCpu2 \/ ProbeBmi
  BY <1>3 DEF WarmCpu1, WarmCpu2, ProbeBmi, EnsureCE, Emptied, Down
<1>4. CASE CtrlInitAgain \/ CtrlInitNew \/ InitWmi
  BY <1>4 DEF CtrlInitAgain, CtrlInitNew, InitWmi, PairInit, Flow, Emptied, Ensure, Down
<1>5. CASE DropManager \/ NewManager \/ EnsureCEFail
  BY <1>5 DEF DropManager, NewManager, EnsureCEFail, Emptied, Down
<1>6. CASE TdPark \/ TdFree \/ TdSkip \/ TdDone
  <2>1. CASE TdPark
    BY <2>1 DEF TdPark, Emptied, Down
  <2>2. CASE TdFree \/ TdSkip
    <3>1. /\ td' = Tail(td) /\ pc \in Down /\ \A e \in Engines : ptr[e] = 0 => ptr'[e] = 0
          /\ ptr'[Head(td)] = 0
      BY <2>2, DownFacts DEF TdFree, TdSkip, Down, TypeDma, Engines
    <3> QED BY <2>2, <3>1, DownFacts, SuffixFacts DEF Emptied, Engines
  <2>3. CASE TdDone
    BY <2>3 DEF TdDone, Emptied, Down
  <2> QED BY <1>6, <2>1, <2>2, <2>3
<1>7. CASE InitDiag
  BY <1>7 DEF InitDiag, Emptied, Down
<1>8. CASE InitConfigStep \/ InitConfigDone \/ WakeTargetCpu
  BY <1>8 DEF InitConfigStep, InitConfigDone, WakeTargetCpu, Goto, Emptied, Down
<1>9. CASE InitDiagFail \/ InitConfigFail \/ GetTargetInfoFail \/ BootFirmwareFail
          \/ StartHtcWmiFail \/ StopCall
  <2>1. td' = (IF fCe = 0 THEN S0 ELSE S3) /\ ptr' = ptr
    BY <1>9, TeardownFacts DEF InitDiagFail, InitConfigFail, GetTargetInfoFail,
       BootFirmwareFail, StartHtcWmiFail, StopCall
  <2> QED BY <2>1, SuffixFacts DEF Holds, Emptied, Engines
<1>10. CASE GetTargetInfo \/ ProbeFailed \/ GateM3 \/ BootFirmware
  BY <1>10 DEF GetTargetInfo, ProbeFailed, GateM3, BootFirmware, Goto, Emptied, Down
<1>11. CASE GateM4 \/ NewHtc \/ HtcUp \/ WmiOnline \/ Summary
  BY <1>11 DEF GateM4, NewHtc, HtcUp, WmiOnline, Summary, Goto, Emptied, Down
<1>12. CASE StopPci \/ Announce
  BY <1>12 DEF StopPci, Announce, Goto, Emptied, Down
<1> QED BY <1>1, <1>2, <1>3, <1>4, <1>5, <1>6, <1>7, <1>8, <1>9, <1>10, <1>11, <1>12
           DEF Next, Host

(* No region belongs to two engines. *)
LEMMA ApartStep == TypeDma /\ Flow /\ Holds /\ Bus /\ Apart /\ Next => Apart'
<1> SUFFICES ASSUME TypeDma, Flow, Holds, Bus, Apart, Next PROVE Apart'
  OBVIOUS
<1> USE DEF ctl, tdv, gate, mgr, objs, dma, pci, tgt
<1>1. CASE Refuse \/ EnablePci \/ MapBar0 \/ WakeFirst \/ ResetWakeFail \/ WakeAgain
  BY <1>1 DEF Refuse, EnablePci, MapBar0, WakeFirst, ResetWakeFail, WakeAgain, Goto,
     Apart
<1>2. CASE ColdReset \/ WaitCold \/ WarmWait1 \/ WarmWait2 \/ WarmClear1 \/ WarmClear2
  BY <1>2 DEF ColdReset, WaitCold, WarmWait1, WarmWait2, WarmClear1, WarmClear2, Goto,
     WaitForTargetInit, Apart
<1>3. CASE WarmCpu1 \/ WarmCpu2 \/ ProbeBmi
  BY <1>3 DEF WarmCpu1, WarmCpu2, ProbeBmi, EnsureCE, Apart
<1>4. CASE CtrlInitAgain \/ CtrlInitNew \/ InitWmi
  BY <1>4 DEF CtrlInitAgain, CtrlInitNew, InitWmi, PairInit, NewRegion, TypeDma, Flow,
     Apart, Ensure
<1>5. CASE DropManager \/ NewManager \/ EnsureCEFail
  BY <1>5 DEF DropManager, NewManager, EnsureCEFail, Apart
<1>6. CASE TdPark \/ TdFree \/ TdSkip \/ TdDone
  <2>1. CASE TdPark
    BY <2>1, DownFacts DEF TdPark, TypeDma, Bus, Apart, Engines
  <2>2. CASE TdFree
    BY <2>2, DownFacts DEF TdFree, Apart
  <2>3. CASE TdSkip \/ TdDone
    BY <2>3 DEF TdSkip, TdDone, Flow, Down, Apart
  <2> QED BY <1>6, <2>1, <2>2, <2>3
<1>7. CASE InitDiag
  BY <1>7 DEF InitDiag, NewRegion, TypeDma, Apart
<1>8. CASE InitConfigStep \/ InitConfigDone \/ WakeTargetCpu
  BY <1>8 DEF InitConfigStep, InitConfigDone, WakeTargetCpu, Goto, Apart
<1>9. CASE InitDiagFail \/ InitConfigFail \/ GetTargetInfoFail \/ BootFirmwareFail
          \/ StartHtcWmiFail \/ StopCall
  <2>1. /\ pc' = "td_park" /\ ptr' = ptr
        /\ hw' = hw \/ hw' = [hw EXCEPT !["diag"] = 0]
    BY <1>9, TeardownFacts DEF InitDiagFail, InitConfigFail, GetTargetInfoFail,
       BootFirmwareFail, StartHtcWmiFail, StopCall
  <2> QED BY <2>1 DEF TypeDma, Apart
<1>10. CASE GetTargetInfo \/ ProbeFailed \/ GateM3 \/ BootFirmware
  BY <1>10 DEF GetTargetInfo, ProbeFailed, GateM3, BootFirmware, Goto, Apart
<1>11. CASE GateM4 \/ NewHtc \/ HtcUp \/ WmiOnline \/ Summary
  BY <1>11 DEF GateM4, NewHtc, HtcUp, WmiOnline, Summary, Goto, Apart
<1>12. CASE StopPci \/ Announce
  BY <1>12 DEF StopPci, Announce, Goto, Apart
<1> QED BY <1>1, <1>2, <1>3, <1>4, <1>5, <1>6, <1>7, <1>8, <1>9, <1>10, <1>11, <1>12
           DEF Next, Host

(* No engine is left with a ring in freed memory. *)
LEMMA DangleStep ==
  TypeDma /\ Flow /\ Apart /\ RingsNeverDangle /\ Next => RingsNeverDangle'
<1> SUFFICES ASSUME TypeDma, Flow, Apart, RingsNeverDangle, Next PROVE RingsNeverDangle'
  OBVIOUS
<1> USE DEF ctl, tdv, gate, mgr, objs, dma, pci, tgt
<1>1. CASE Refuse \/ EnablePci \/ MapBar0 \/ WakeFirst \/ ResetWakeFail \/ WakeAgain
  BY <1>1 DEF Refuse, EnablePci, MapBar0, WakeFirst, ResetWakeFail, WakeAgain,
     RingsNeverDangle
<1>2. CASE ColdReset \/ WaitCold \/ WarmWait1 \/ WarmWait2 \/ WarmClear1 \/ WarmClear2
  BY <1>2 DEF ColdReset, WaitCold, WarmWait1, WarmWait2, WarmClear1, WarmClear2,
     WaitForTargetInit, RingsNeverDangle
<1>3. CASE WarmCpu1 \/ WarmCpu2 \/ ProbeBmi
  BY <1>3 DEF WarmCpu1, WarmCpu2, ProbeBmi, RingsNeverDangle
<1>4. CASE CtrlInitAgain \/ CtrlInitNew \/ InitWmi
  BY <1>4 DEF CtrlInitAgain, CtrlInitNew, InitWmi, PairInit, NewRegion, TypeDma,
     RingsNeverDangle
<1>5. CASE DropManager \/ NewManager \/ EnsureCEFail
  BY <1>5 DEF DropManager, NewManager, EnsureCEFail, RingsNeverDangle
<1>6. CASE TdPark \/ TdFree \/ TdSkip \/ TdDone
  <2>1. CASE TdFree
    <3>1. ptr[Head(td)] # 0 /\ hw[Head(td)] = 0 /\ Head(td) \in Engines
      BY <2>1, DownFacts DEF TdFree, Apart, Engines
    <3> QED BY <2>1, <3>1 DEF TdFree, Apart, RingsNeverDangle
  <2>2. CASE TdPark \/ TdSkip \/ TdDone
    BY <2>2 DEF TdPark, TdSkip, TdDone, TypeDma, RingsNeverDangle
  <2> QED BY <1>6, <2>1, <2>2
<1>7. CASE InitDiag
  BY <1>7 DEF InitDiag, NewRegion, RingsNeverDangle
<1>8. CASE InitConfigStep \/ InitConfigDone \/ WakeTargetCpu
  BY <1>8 DEF InitConfigStep, InitConfigDone, WakeTargetCpu, RingsNeverDangle
<1>9. CASE InitDiagFail \/ InitConfigFail \/ GetTargetInfoFail \/ BootFirmwareFail
          \/ StartHtcWmiFail \/ StopCall
  BY <1>9 DEF InitDiagFail, InitConfigFail, GetTargetInfoFail, BootFirmwareFail,
     StartHtcWmiFail, StopCall, TypeDma, RingsNeverDangle
<1>10. CASE GetTargetInfo \/ ProbeFailed \/ GateM3 \/ BootFirmware
  BY <1>10 DEF GetTargetInfo, ProbeFailed, GateM3, BootFirmware, RingsNeverDangle
<1>11. CASE GateM4 \/ NewHtc \/ HtcUp \/ WmiOnline \/ Summary
  BY <1>11 DEF GateM4, NewHtc, HtcUp, WmiOnline, Summary, RingsNeverDangle
<1>12. CASE StopPci \/ Announce
  BY <1>12 DEF StopPci, Announce, RingsNeverDangle
<1> QED BY <1>1, <1>2, <1>3, <1>4, <1>5, <1>6, <1>7, <1>8, <1>9, <1>10, <1>11, <1>12
           DEF Next, Host

(* A live engine has the ring of the region the host uses. *)
LEMMA CurrentStep ==
  TypeDma /\ TypeMgr /\ Flow /\ Holds /\ Objects /\ RingsAreCurrent /\ Next
    => RingsAreCurrent'
<1> SUFFICES ASSUME TypeDma, TypeMgr, Flow, Holds, Objects, RingsAreCurrent, Next
             PROVE  RingsAreCurrent'
  OBVIOUS
<1> USE DEF ctl, tdv, gate, mgr, objs, dma, pci, tgt
<1>1. CASE Refuse \/ EnablePci \/ MapBar0 \/ WakeFirst \/ ResetWakeFail \/ WakeAgain
  BY <1>1 DEF Refuse, EnablePci, MapBar0, WakeFirst, ResetWakeFail, WakeAgain, Goto,
     RingsAreCurrent, Talking, Engines
<1>2. CASE ColdReset \/ WaitCold \/ WarmWait1 \/ WarmWait2 \/ WarmClear1 \/ WarmClear2
  BY <1>2 DEF ColdReset, WaitCold, WarmWait1, WarmWait2, WarmClear1, WarmClear2, Goto,
     WaitForTargetInit, RingsAreCurrent, Talking, Engines
<1>3. CASE WarmCpu1 \/ WarmCpu2 \/ ProbeBmi
  BY <1>3 DEF WarmCpu1, WarmCpu2, ProbeBmi, EnsureCE, RingsAreCurrent, Talking,
     Engines
<1>4. CASE CtrlInitAgain \/ CtrlInitNew \/ InitWmi
  BY <1>4 DEF CtrlInitAgain, CtrlInitNew, InitWmi, PairInit, NewRegion, TypeDma, Flow,
     Holds, RingsAreCurrent, Talking, Ensure, Engines
<1>5. CASE DropManager \/ NewManager \/ EnsureCEFail
  BY <1>5 DEF DropManager, NewManager, EnsureCEFail, RingsAreCurrent, Talking, Engines
<1>6. CASE TdPark \/ TdFree \/ TdSkip \/ TdDone
  <2>1. pc' \in Down \cup {"probe_fail", "m4", "summary", "stop_pci"}
    BY <1>6 DEF TdPark, TdFree, TdSkip, TdDone, Flow, Down
  <2> QED BY <2>1 DEF RingsAreCurrent, Talking, Down, Engines
<1>7. CASE InitDiag
  BY <1>7 DEF InitDiag, NewRegion, TypeDma, RingsAreCurrent, Talking, Engines
<1>8. CASE InitConfigStep \/ InitConfigDone \/ WakeTargetCpu
  BY <1>8 DEF InitConfigStep, InitConfigDone, WakeTargetCpu, Goto, RingsAreCurrent,
     Talking, Engines
<1>9. CASE InitDiagFail \/ InitConfigFail \/ GetTargetInfoFail \/ BootFirmwareFail
          \/ StartHtcWmiFail \/ StopCall
  BY <1>9 DEF InitDiagFail, InitConfigFail, GetTargetInfoFail, BootFirmwareFail,
     StartHtcWmiFail, StopCall, TeardownHardware, RingsAreCurrent, Talking, Engines
<1>10. CASE GetTargetInfo \/ ProbeFailed \/ GateM3 \/ BootFirmware
  BY <1>10 DEF GetTargetInfo, ProbeFailed, GateM3, BootFirmware, Goto, Objects,
     RingsAreCurrent, Current, Talking, Engines
<1>11. CASE GateM4 \/ NewHtc \/ HtcUp \/ WmiOnline \/ Summary
  BY <1>11 DEF GateM4, NewHtc, HtcUp, WmiOnline, Summary, Goto, Objects,
     RingsAreCurrent, Current, Talking, Engines
<1>12. CASE StopPci \/ Announce
  BY <1>12 DEF StopPci, Announce, Goto, RingsAreCurrent, Talking, Engines
<1> QED BY <1>1, <1>2, <1>3, <1>4, <1>5, <1>6, <1>7, <1>8, <1>9, <1>10, <1>11, <1>12
           DEF Next, Host

(* The configuration is written in order, and before the CPU is woken. *)
LEMMA ConfiguredStep == Flow /\ Configured /\ Next => Configured'
<1> SUFFICES ASSUME Flow, Configured, Next PROVE Configured'
  OBVIOUS
<1> USE DEF ctl, tdv, gate, mgr, objs, dma, pci, tgt
<1>1. CASE Refuse \/ EnablePci \/ MapBar0 \/ WakeFirst \/ ResetWakeFail \/ WakeAgain
  BY <1>1 DEF Refuse, EnablePci, MapBar0, WakeFirst, ResetWakeFail, WakeAgain, Goto,
     Configured
<1>2. CASE ColdReset \/ WaitCold \/ WarmWait1 \/ WarmWait2 \/ WarmClear1 \/ WarmClear2
  BY <1>2 DEF ColdReset, WaitCold, WarmWait1, WarmWait2, WarmClear1, WarmClear2, Goto,
     WaitForTargetInit, Configured
<1>3. CASE WarmCpu1 \/ WarmCpu2 \/ ProbeBmi
  BY <1>3 DEF WarmCpu1, WarmCpu2, ProbeBmi, EnsureCE, Configured
<1>4. CASE CtrlInitAgain \/ CtrlInitNew \/ InitWmi
  BY <1>4 DEF CtrlInitAgain, CtrlInitNew, InitWmi, PairInit, Flow, Configured, Ensure
<1>5. CASE DropManager \/ NewManager \/ EnsureCEFail
  BY <1>5 DEF DropManager, NewManager, EnsureCEFail, Configured
<1>6. CASE TdPark \/ TdFree \/ TdSkip \/ TdDone
  BY <1>6 DEF TdPark, TdFree, TdSkip, TdDone, Flow, Configured, Down
<1>7. CASE InitDiag
  BY <1>7 DEF InitDiag, Configured
<1>8. CASE InitConfigStep \/ InitConfigDone \/ WakeTargetCpu
  <2>1. CASE InitConfigStep
    BY <2>1, NextItem DEF InitConfigStep, Configured
  <2>2. CASE InitConfigDone \/ WakeTargetCpu
    BY <2>2 DEF InitConfigDone, WakeTargetCpu, Goto, Configured
  <2> QED BY <1>8, <2>1, <2>2
<1>9. CASE InitDiagFail \/ InitConfigFail \/ GetTargetInfoFail \/ BootFirmwareFail
          \/ StartHtcWmiFail \/ StopCall
  <2>1. pc' = "td_park" /\ cpuWoken' = cpuWoken
    BY <1>9, TeardownFacts DEF InitDiagFail, InitConfigFail, GetTargetInfoFail,
       BootFirmwareFail, StartHtcWmiFail, StopCall
  <2>2. tcfg' = tcfg \/ (tcfg # Config /\ tcfg' \in Prefixes)
    BY <1>9, NextItem DEF InitDiagFail, InitConfigFail, GetTargetInfoFail,
       BootFirmwareFail, StartHtcWmiFail, StopCall, Configured
  <2> QED BY <2>1, <2>2 DEF Configured
<1>10. CASE GetTargetInfo \/ ProbeFailed \/ GateM3 \/ BootFirmware
  BY <1>10 DEF GetTargetInfo, ProbeFailed, GateM3, BootFirmware, Goto, Configured
<1>11. CASE GateM4 \/ NewHtc \/ HtcUp \/ WmiOnline \/ Summary
  BY <1>11 DEF GateM4, NewHtc, HtcUp, WmiOnline, Summary, Goto, Configured
<1>12. CASE StopPci \/ Announce
  BY <1>12 DEF StopPci, Announce, Goto, Configured
<1> QED BY <1>1, <1>2, <1>3, <1>4, <1>5, <1>6, <1>7, <1>8, <1>9, <1>10, <1>11, <1>12
           DEF Next, Host

(* The objects above the rings exist where the code uses them. *)
LEMMA ObjectsStep ==
  TypeMgr /\ TypeDma /\ Flow /\ Holds /\ RingsAreCurrent /\ Configured /\ Stages /\
  Objects /\ Next => Objects'
<1> SUFFICES ASSUME TypeMgr, TypeDma, Flow, Holds, RingsAreCurrent, Configured, Stages,
                    Objects, Next
             PROVE  Objects'
  OBVIOUS
<1> USE DEF ctl, tdv, gate, mgr, objs, dma, pci, tgt
<1>1. CASE Refuse \/ EnablePci \/ MapBar0 \/ WakeFirst \/ ResetWakeFail \/ WakeAgain
  BY <1>1 DEF Refuse, EnablePci, MapBar0, WakeFirst, ResetWakeFail, WakeAgain, Goto,
     Objects, Stage4, Late
<1>2. CASE ColdReset \/ WaitCold \/ WarmWait1 \/ WarmWait2 \/ WarmClear1 \/ WarmClear2
  BY <1>2 DEF ColdReset, WaitCold, WarmWait1, WarmWait2, WarmClear1, WarmClear2, Goto,
     WaitForTargetInit, Objects, Stage4, Late
<1>3. CASE WarmCpu1 \/ WarmCpu2 \/ ProbeBmi
  BY <1>3 DEF WarmCpu1, WarmCpu2, ProbeBmi, EnsureCE, Objects, Stage4, Late
<1>4. CASE CtrlInitAgain \/ CtrlInitNew \/ InitWmi
  BY <1>4 DEF CtrlInitAgain, CtrlInitNew, InitWmi, PairInit, TypeDma, Flow, Objects,
     Current, Ensure, Stage4, Late, Engines
<1>5. CASE DropManager \/ NewManager \/ EnsureCEFail
  BY <1>5 DEF DropManager, NewManager, EnsureCEFail, Objects, Stage4, Late
<1>6. CASE TdPark \/ TdFree \/ TdSkip \/ TdDone
  BY <1>6 DEF TdPark, TdFree, TdSkip, TdDone, Flow, Stages, Objects, Stage4, Late, Down
<1>7. CASE InitDiag
  BY <1>7 DEF InitDiag, Objects, Stage4, Late
<1>8. CASE InitConfigStep \/ InitConfigDone \/ WakeTargetCpu
  BY <1>8 DEF InitConfigStep, InitConfigDone, WakeTargetCpu, Goto, Objects, Stage4, Late
<1>9. CASE InitDiagFail \/ InitConfigFail \/ GetTargetInfoFail \/ BootFirmwareFail
          \/ StartHtcWmiFail \/ StopCall
  BY <1>9 DEF InitDiagFail, InitConfigFail, GetTargetInfoFail, BootFirmwareFail,
     StartHtcWmiFail, StopCall, TeardownHardware, Objects, Stage4
<1>10. CASE GetTargetInfo \/ ProbeFailed \/ GateM3 \/ BootFirmware
  BY <1>10 DEF GetTargetInfo, ProbeFailed, GateM3, BootFirmware, Goto, RingsAreCurrent,
     Configured, Stages, Objects, Current, Talking, Stage4, Late,
     Down, Engines
<1>11. CASE GateM4 \/ NewHtc \/ HtcUp \/ WmiOnline \/ Summary
  <2>1. CASE GateM4 \/ WmiOnline \/ Summary
    BY <2>1 DEF GateM4, WmiOnline, Summary, Goto, Objects, Current, Stage4, Late
  <2>2. CASE NewHtc \/ HtcUp
    BY <2>2 DEF NewHtc, HtcUp, Goto, Objects, Current, Stage4, Late
  <2> QED BY <1>11, <2>1, <2>2
<1>12. CASE StopPci \/ Announce
  BY <1>12 DEF StopPci, Announce, Goto, Objects, Current, Stage4, Late
<1> QED BY <1>1, <1>2, <1>3, <1>4, <1>5, <1>6, <1>7, <1>8, <1>9, <1>10, <1>11, <1>12
           DEF Next, Host

(* Which stage may have succeeded, after any step. *)
LEMMA StagesStep ==
  Flow /\ TypeGate /\ Objects /\ Stages /\ Next => Stages'
<1> SUFFICES ASSUME Flow, TypeGate, Objects, Stages, Next PROVE Stages'
  OBVIOUS
<1> USE DEF ctl, tdv, gate, mgr, objs, dma, pci, tgt
<1>1. CASE Refuse \/ EnablePci \/ MapBar0 \/ WakeFirst \/ ResetWakeFail \/ WakeAgain
  BY <1>1 DEF Refuse, EnablePci, MapBar0, WakeFirst, ResetWakeFail, WakeAgain, Goto,
     Stages, Ensure, Stage4, Down
<1>2. CASE ColdReset \/ WaitCold \/ WarmWait1 \/ WarmWait2 \/ WarmClear1 \/ WarmClear2
  BY <1>2 DEF ColdReset, WaitCold, WarmWait1, WarmWait2, WarmClear1, WarmClear2, Goto,
     WaitForTargetInit, Stages, Ensure, Stage4, Down
<1>3. CASE WarmCpu1 \/ WarmCpu2 \/ ProbeBmi
  BY <1>3 DEF WarmCpu1, WarmCpu2, ProbeBmi, EnsureCE, Stages,
     Stage4, Down
<1>4. CASE CtrlInitAgain \/ CtrlInitNew \/ InitWmi
  BY <1>4 DEF CtrlInitAgain, CtrlInitNew, InitWmi, PairInit, Flow, Stages, Ensure,
     Stage4, Down
<1>5. CASE DropManager \/ NewManager \/ EnsureCEFail
  BY <1>5 DEF DropManager, NewManager, EnsureCEFail, Stages, Ensure, Stage4, Down
<1>6. CASE TdPark \/ TdFree \/ TdSkip \/ TdDone
  BY <1>6 DEF TdPark, TdFree, TdSkip, TdDone, Flow, Stages, Ensure, Stage4, Down
<1>7. CASE InitDiag
  BY <1>7 DEF InitDiag, Stages, Ensure, Stage4, Down
<1>8. CASE InitConfigStep \/ InitConfigDone \/ WakeTargetCpu
  BY <1>8 DEF InitConfigStep, InitConfigDone, WakeTargetCpu, Goto, Stages, Ensure,
     Stage4, Down
<1>9. CASE InitDiagFail \/ InitConfigFail \/ GetTargetInfoFail \/ BootFirmwareFail
          \/ StartHtcWmiFail \/ StopCall
  BY <1>9 DEF InitDiagFail, InitConfigFail, GetTargetInfoFail, BootFirmwareFail,
     StartHtcWmiFail, StopCall, TeardownHardware, Stages, Ensure, Stage4, Down
<1>10. CASE GetTargetInfo \/ ProbeFailed \/ GateM3 \/ BootFirmware
  BY <1>10 DEF GetTargetInfo, ProbeFailed, GateM3, BootFirmware, Goto, Stages, Ensure,
     Stage4, Down
<1>11. CASE GateM4 \/ NewHtc \/ HtcUp \/ WmiOnline \/ Summary
  BY <1>11 DEF GateM4, NewHtc, HtcUp, WmiOnline, Summary, Goto, TypeGate, Stages,
     Ensure, Stage4, Down
<1>12. CASE StopPci \/ Announce
  BY <1>12 DEF StopPci, Announce, Goto, Stages, Ensure, Stage4, Down
<1> QED BY <1>1, <1>2, <1>3, <1>4, <1>5, <1>6, <1>7, <1>8, <1>9, <1>10, <1>11, <1>12
           DEF Next, Host

(* What the target wrote into FW_INDICATOR is newer than the last clear. *)
LEMMA HeardStep == Flow /\ Holds /\ Heard /\ Next => Heard'
<1> SUFFICES ASSUME Flow, Holds, Heard, Next PROVE Heard'
  OBVIOUS
<1> USE DEF ctl, tdv, gate, mgr, objs, dma, pci, tgt
<1>1. CASE Refuse \/ EnablePci \/ MapBar0 \/ WakeFirst \/ ResetWakeFail \/ WakeAgain
  BY <1>1 DEF Refuse, EnablePci, MapBar0, WakeFirst, ResetWakeFail, WakeAgain, Goto,
     Heard, Since, Warm, Ensure
<1>2. CASE ColdReset \/ WaitCold \/ WarmWait1 \/ WarmWait2 \/ WarmClear1 \/ WarmClear2
  BY <1>2 DEF ColdReset, WaitCold, WarmWait1, WarmWait2, WarmClear1, WarmClear2, Goto,
     WaitForTargetInit, Heard, Since, Warm, Ensure
<1>3. CASE WarmCpu1 \/ WarmCpu2 \/ ProbeBmi
  BY <1>3 DEF WarmCpu1, WarmCpu2, ProbeBmi, EnsureCE, Heard, Since, Warm, Ensure
<1>4. CASE CtrlInitAgain \/ CtrlInitNew \/ InitWmi
  BY <1>4 DEF CtrlInitAgain, CtrlInitNew, InitWmi, PairInit, Flow, Holds, Heard,
     Since, Warm, Ensure
<1>5. CASE DropManager \/ NewManager \/ EnsureCEFail
  BY <1>5 DEF DropManager, NewManager, EnsureCEFail, Heard, Since, Warm, Ensure
<1>6. CASE TdPark \/ TdFree \/ TdSkip \/ TdDone
  BY <1>6 DEF TdPark, TdFree, TdSkip, TdDone, Flow, Heard, Since, Warm, Ensure, Down
<1>7. CASE InitDiag
  BY <1>7 DEF InitDiag, Heard, Since, Warm, Ensure
<1>8. CASE InitConfigStep \/ InitConfigDone \/ WakeTargetCpu
  BY <1>8 DEF InitConfigStep, InitConfigDone, WakeTargetCpu, Goto, Heard, Since, Warm,
     Ensure
<1>9. CASE InitDiagFail \/ InitConfigFail \/ GetTargetInfoFail \/ BootFirmwareFail
          \/ StartHtcWmiFail \/ StopCall
  BY <1>9 DEF InitDiagFail, InitConfigFail, GetTargetInfoFail, BootFirmwareFail,
     StartHtcWmiFail, StopCall, TeardownHardware, Heard, Since, Warm, Ensure
<1>10. CASE GetTargetInfo \/ ProbeFailed \/ GateM3 \/ BootFirmware
  BY <1>10 DEF GetTargetInfo, ProbeFailed, GateM3, BootFirmware, Goto, Heard, Since,
     Warm, Ensure
<1>11. CASE GateM4 \/ NewHtc \/ HtcUp \/ WmiOnline \/ Summary
  BY <1>11 DEF GateM4, NewHtc, HtcUp, WmiOnline, Summary, Goto, Heard, Since, Warm,
     Ensure
<1>12. CASE StopPci \/ Announce
  BY <1>12 DEF StopPci, Announce, Goto, Heard, Since, Warm, Ensure
<1> QED BY <1>1, <1>2, <1>3, <1>4, <1>5, <1>6, <1>7, <1>8, <1>9, <1>10, <1>11, <1>12
           DEF Next, Host

(* probeBmi is entered from the two waits, over the announcement they saw. *)
LEMMA AnnouncedStep == TypeTgt /\ Flow /\ Holds /\ Heard /\ Next => Announced
<1> SUFFICES ASSUME TypeTgt, Flow, Holds, Heard, Next PROVE Announced
  OBVIOUS
<1> USE DEF ctl, tdv, gate, mgr, objs, dma, pci, tgt
<1>1. CASE Refuse \/ EnablePci \/ MapBar0 \/ WakeFirst \/ ResetWakeFail \/ WakeAgain
  BY <1>1 DEF Refuse, EnablePci, MapBar0, WakeFirst, ResetWakeFail, WakeAgain, Goto,
     Announced
<1>2. CASE ColdReset \/ WaitCold \/ WarmWait1 \/ WarmWait2 \/ WarmClear1 \/ WarmClear2
  BY <1>2 DEF ColdReset, WaitCold, WarmWait1, WarmWait2, WarmClear1, WarmClear2, Goto,
     WaitForTargetInit, TypeTgt, Holds, Heard, Announced, Since, Early, Warm
<1>3. CASE WarmCpu1 \/ WarmCpu2 \/ ProbeBmi
  BY <1>3 DEF WarmCpu1, WarmCpu2, ProbeBmi, EnsureCE, Announced
<1>4. CASE CtrlInitAgain \/ CtrlInitNew \/ InitWmi
  BY <1>4 DEF CtrlInitAgain, CtrlInitNew, InitWmi, PairInit, Flow, Announced, Ensure
<1>5. CASE DropManager \/ NewManager \/ EnsureCEFail
  BY <1>5 DEF DropManager, NewManager, EnsureCEFail, Announced
<1>6. CASE TdPark \/ TdFree \/ TdSkip \/ TdDone
  BY <1>6 DEF TdPark, TdFree, TdSkip, TdDone, Flow, Announced, Down
<1>7. CASE InitDiag
  BY <1>7 DEF InitDiag, Announced
<1>8. CASE InitConfigStep \/ InitConfigDone \/ WakeTargetCpu
  BY <1>8 DEF InitConfigStep, InitConfigDone, WakeTargetCpu, Goto, Announced
<1>9. CASE InitDiagFail \/ InitConfigFail \/ GetTargetInfoFail \/ BootFirmwareFail
          \/ StartHtcWmiFail \/ StopCall
  BY <1>9 DEF InitDiagFail, InitConfigFail, GetTargetInfoFail, BootFirmwareFail,
     StartHtcWmiFail, StopCall, TeardownHardware, Announced
<1>10. CASE GetTargetInfo \/ ProbeFailed \/ GateM3 \/ BootFirmware
  BY <1>10 DEF GetTargetInfo, ProbeFailed, GateM3, BootFirmware, Goto, Announced
<1>11. CASE GateM4 \/ NewHtc \/ HtcUp \/ WmiOnline \/ Summary
  BY <1>11 DEF GateM4, NewHtc, HtcUp, WmiOnline, Summary, Goto, Announced
<1>12. CASE StopPci \/ Announce
  BY <1>12 DEF StopPci, Announce, Goto, Announced
<1> QED BY <1>1, <1>2, <1>3, <1>4, <1>5, <1>6, <1>7, <1>8, <1>9, <1>10, <1>11, <1>12
           DEF Next, Host

(* WMI online is reported with every stage done and nothing torn down. *)
LEMMA OnlineStep ==
  Flow /\ Stages /\ Objects /\ RingsAreCurrent /\ OnlineMeansStages /\ Next
    => OnlineMeansStages'
<1> SUFFICES ASSUME Flow, Stages, Objects, RingsAreCurrent, OnlineMeansStages, Next
             PROVE  OnlineMeansStages'
  OBVIOUS
<1> USE DEF ctl, tdv, gate, mgr, objs, dma, pci, tgt
<1>1. CASE Refuse \/ EnablePci \/ MapBar0 \/ WakeFirst \/ ResetWakeFail \/ WakeAgain
  BY <1>1 DEF Refuse, EnablePci, MapBar0, WakeFirst, ResetWakeFail, WakeAgain, Goto,
     OnlineMeansStages
<1>2. CASE ColdReset \/ WaitCold \/ WarmWait1 \/ WarmWait2 \/ WarmClear1 \/ WarmClear2
  BY <1>2 DEF ColdReset, WaitCold, WarmWait1, WarmWait2, WarmClear1, WarmClear2, Goto,
     WaitForTargetInit, OnlineMeansStages
<1>3. CASE WarmCpu1 \/ WarmCpu2 \/ ProbeBmi
  BY <1>3 DEF WarmCpu1, WarmCpu2, ProbeBmi, EnsureCE, OnlineMeansStages
<1>4. CASE CtrlInitAgain \/ CtrlInitNew \/ InitWmi
  BY <1>4 DEF CtrlInitAgain, CtrlInitNew, InitWmi, Stages, OnlineMeansStages, Down
<1>5. CASE DropManager \/ NewManager \/ EnsureCEFail
  BY <1>5 DEF DropManager, NewManager, EnsureCEFail, OnlineMeansStages
<1>6. CASE TdPark \/ TdFree \/ TdSkip \/ TdDone
  BY <1>6 DEF TdPark, TdFree, TdSkip, TdDone, Stages, OnlineMeansStages
<1>7. CASE InitDiag
  BY <1>7 DEF InitDiag, OnlineMeansStages
<1>8. CASE InitConfigStep \/ InitConfigDone \/ WakeTargetCpu
  BY <1>8 DEF InitConfigStep, InitConfigDone, WakeTargetCpu, Goto, OnlineMeansStages
<1>9. CASE InitDiagFail \/ InitConfigFail \/ GetTargetInfoFail \/ BootFirmwareFail
          \/ StartHtcWmiFail \/ StopCall
  BY <1>9 DEF InitDiagFail, InitConfigFail, GetTargetInfoFail, BootFirmwareFail,
     StartHtcWmiFail, StopCall, TeardownHardware, OnlineMeansStages
<1>10. CASE GetTargetInfo \/ ProbeFailed \/ GateM3 \/ BootFirmware
  BY <1>10 DEF GetTargetInfo, ProbeFailed, GateM3, BootFirmware, Goto, OnlineMeansStages
<1>11. CASE GateM4 \/ NewHtc \/ HtcUp \/ WmiOnline \/ Summary
  BY <1>11 DEF GateM4, NewHtc, HtcUp, WmiOnline, Summary, Goto, Stages, Objects,
     RingsAreCurrent, OnlineMeansStages, Talking, Stage4, Down, Engines
<1>12. CASE StopPci \/ Announce
  BY <1>12 DEF StopPci, Announce, Goto, OnlineMeansStages
<1> QED BY <1>1, <1>2, <1>3, <1>4, <1>5, <1>6, <1>7, <1>8, <1>9, <1>10, <1>11, <1>12
           DEF Next, Host

(* The indices that have not moved, after any step. *)
LEMMA StillStep == Flow /\ Objects /\ Stages /\ Still /\ Next => Still'
<1> SUFFICES ASSUME Flow, Objects, Stages, Still, Next PROVE Still'
  OBVIOUS
<1> USE DEF ctl, tdv, gate, mgr, objs, dma, pci, tgt
<1>1. CASE Refuse \/ EnablePci \/ MapBar0 \/ WakeFirst \/ ResetWakeFail \/ WakeAgain
  BY <1>1 DEF Refuse, EnablePci, MapBar0, WakeFirst, ResetWakeFail, WakeAgain, Goto,
     Objects, Still, Warm, Ensure, Cold, Since, Probing, Stage4, Late
<1>2. CASE ColdReset \/ WaitCold \/ WarmWait1 \/ WarmWait2 \/ WarmClear1 \/ WarmClear2
  BY <1>2 DEF ColdReset, WaitCold, WarmWait1, WarmWait2, WarmClear1, WarmClear2, Goto,
     WaitForTargetInit, Still, Warm, Ensure, Probing, Cold, Since
<1>3. CASE WarmCpu1 \/ WarmCpu2 \/ ProbeBmi
  BY <1>3 DEF WarmCpu1, WarmCpu2, ProbeBmi, EnsureCE, Still, Cold, Since, Warm, Ensure
<1>4. CASE CtrlInitAgain \/ CtrlInitNew \/ InitWmi
  BY <1>4 DEF CtrlInitAgain, CtrlInitNew, InitWmi, PairInit, Still, Warm, Ensure,
     Cold, Since, Probing
<1>5. CASE DropManager \/ NewManager \/ EnsureCEFail
  BY <1>5 DEF DropManager, NewManager, EnsureCEFail, Still, Ensure, Cold, Since
<1>6. CASE TdPark \/ TdFree \/ TdSkip \/ TdDone
  BY <1>6 DEF TdPark, TdFree, TdSkip, TdDone, Flow, Objects, Still, Warm, Ensure,
     Cold, Since, Probing, Stage4, Late, Down
<1>7. CASE InitDiag
  BY <1>7 DEF InitDiag, Still, Cold, Since
<1>8. CASE InitConfigStep \/ InitConfigDone \/ WakeTargetCpu
  BY <1>8 DEF InitConfigStep, InitConfigDone, WakeTargetCpu, Talk, Goto, Still, Warm,
     Ensure, Cold, Since, Probing
<1>9. CASE InitDiagFail \/ InitConfigFail \/ GetTargetInfoFail \/ BootFirmwareFail
          \/ StartHtcWmiFail \/ StopCall
  BY <1>9 DEF InitDiagFail, InitConfigFail, GetTargetInfoFail, BootFirmwareFail,
     StartHtcWmiFail, StopCall, TeardownHardware, Still, Warm, Ensure, Cold, Since,
     Probing
<1>10. CASE GetTargetInfo \/ ProbeFailed \/ GateM3 \/ BootFirmware
  BY <1>10 DEF GetTargetInfo, ProbeFailed, GateM3, BootFirmware, Goto, Talk, Objects,
     Still, Warm, Ensure, Cold, Since, Probing, Stage4, Late
<1>11. CASE GateM4 \/ NewHtc \/ HtcUp \/ WmiOnline \/ Summary
  BY <1>11 DEF GateM4, NewHtc, HtcUp, WmiOnline, Summary, Goto, Still, Warm, Ensure,
     Cold, Since, Probing
<1>12. CASE StopPci \/ Announce
  BY <1>12 DEF StopPci, Announce, Goto, Still, Warm, Ensure, Cold, Since, Probing
<1> QED BY <1>1, <1>2, <1>3, <1>4, <1>5, <1>6, <1>7, <1>8, <1>9, <1>10, <1>11, <1>12
           DEF Next, Host

(* Types of the control state. *)
LEMMA CtlStep == TypeCtl /\ Flow /\ Holds /\ Next => TypeCtl'
<1> SUFFICES ASSUME TypeCtl, Flow, Holds, Next PROVE TypeCtl'
  OBVIOUS
<1> USE DEF ctl, tdv, gate, mgr, objs, dma, pci, tgt
<1>td. td' \in Seq(Engines) /\ Len(td') <= 3
  <2>1. td' \in {S0, S1, S2, S3}
    BY FlowStep DEF Flow
  <2> QED BY <2>1, SuffixFacts
<1>1. CASE Refuse \/ EnablePci \/ MapBar0 \/ WakeFirst \/ ResetWakeFail \/ WakeAgain
  BY <1>1, <1>td DEF Refuse, EnablePci, MapBar0, WakeFirst, ResetWakeFail, WakeAgain,
     Goto, TypeCtl, Labels
<1>2. CASE ColdReset \/ WaitCold \/ WarmWait1 \/ WarmWait2 \/ WarmClear1 \/ WarmClear2
  BY <1>2, <1>td DEF ColdReset, WaitCold, WarmWait1, WarmWait2, WarmClear1,
     WarmClear2, Goto, WaitForTargetInit, TypeCtl, Labels
<1>3. CASE WarmCpu1 \/ WarmCpu2 \/ ProbeBmi
  BY <1>3, <1>td DEF WarmCpu1, WarmCpu2, ProbeBmi, EnsureCE, TypeCtl, Labels
<1>4. CASE CtrlInitAgain \/ CtrlInitNew \/ InitWmi
  BY <1>4, <1>td DEF CtrlInitAgain, CtrlInitNew, InitWmi, PairInit, TypeCtl, Labels
<1>5. CASE DropManager \/ NewManager \/ EnsureCEFail
  BY <1>5, <1>td DEF DropManager, NewManager, EnsureCEFail, TypeCtl, Labels
<1>6. CASE TdPark \/ TdFree \/ TdSkip \/ TdDone
  BY <1>6, <1>td DEF TdPark, TdFree, TdSkip, TdDone, TypeCtl, Labels
<1>7. CASE InitDiag
  BY <1>7, <1>td DEF InitDiag, TypeCtl, Labels
<1>8. CASE InitConfigStep \/ InitConfigDone \/ WakeTargetCpu
  BY <1>8, <1>td DEF InitConfigStep, InitConfigDone, WakeTargetCpu, Goto, TypeCtl,
     Labels
<1>9. CASE InitDiagFail \/ InitConfigFail \/ GetTargetInfoFail \/ BootFirmwareFail
          \/ StartHtcWmiFail \/ StopCall
  BY <1>9, <1>td DEF InitDiagFail, InitConfigFail, GetTargetInfoFail, BootFirmwareFail,
     StartHtcWmiFail, StopCall, TeardownHardware, TypeCtl, Labels
<1>10. CASE GetTargetInfo \/ ProbeFailed \/ GateM3 \/ BootFirmware
  BY <1>10, <1>td DEF GetTargetInfo, ProbeFailed, GateM3, BootFirmware, Goto, TypeCtl,
     Labels
<1>11. CASE GateM4 \/ NewHtc \/ HtcUp \/ WmiOnline \/ Summary
  BY <1>11, <1>td DEF GateM4, NewHtc, HtcUp, WmiOnline, Summary, Goto, TypeCtl, Labels
<1>12. CASE StopPci \/ Announce
  BY <1>12, <1>td DEF StopPci, Announce, Goto, TypeCtl, Labels
<1> QED BY <1>1, <1>2, <1>3, <1>4, <1>5, <1>6, <1>7, <1>8, <1>9, <1>10, <1>11, <1>12
           DEF Next, Host

(* Types of the stage verdicts. *)
LEMMA GateStep == TypeGate /\ Next => TypeGate'
<1> SUFFICES ASSUME TypeGate, Next PROVE TypeGate'
  OBVIOUS
<1> USE DEF ctl, tdv, gate, mgr, objs, dma, pci, tgt
<1>1. CASE Refuse \/ EnablePci \/ MapBar0 \/ WakeFirst \/ ResetWakeFail \/ WakeAgain
  BY <1>1 DEF Refuse, EnablePci, MapBar0, WakeFirst, ResetWakeFail, WakeAgain, TypeGate
<1>2. CASE ColdReset \/ WaitCold \/ WarmWait1 \/ WarmWait2 \/ WarmClear1 \/ WarmClear2
  BY <1>2 DEF ColdReset, WaitCold, WarmWait1, WarmWait2, WarmClear1, WarmClear2,
     WaitForTargetInit, TypeGate
<1>3. CASE WarmCpu1 \/ WarmCpu2 \/ ProbeBmi
  BY <1>3 DEF WarmCpu1, WarmCpu2, ProbeBmi, TypeGate
<1>4. CASE CtrlInitAgain \/ CtrlInitNew \/ InitWmi
  BY <1>4 DEF CtrlInitAgain, CtrlInitNew, InitWmi, TypeGate
<1>5. CASE DropManager \/ NewManager \/ EnsureCEFail
  BY <1>5 DEF DropManager, NewManager, EnsureCEFail, TypeGate
<1>6. CASE TdPark \/ TdFree \/ TdSkip \/ TdDone
  BY <1>6 DEF TdPark, TdFree, TdSkip, TdDone, TypeGate
<1>7. CASE InitDiag
  BY <1>7 DEF InitDiag, TypeGate
<1>8. CASE InitConfigStep \/ InitConfigDone \/ WakeTargetCpu
  BY <1>8 DEF InitConfigStep, InitConfigDone, WakeTargetCpu, TypeGate
<1>9. CASE InitDiagFail \/ InitConfigFail \/ GetTargetInfoFail \/ BootFirmwareFail
          \/ StartHtcWmiFail \/ StopCall
  BY <1>9 DEF InitDiagFail, InitConfigFail, GetTargetInfoFail, BootFirmwareFail,
     StartHtcWmiFail, StopCall, TypeGate
<1>10. CASE GetTargetInfo \/ ProbeFailed \/ GateM3 \/ BootFirmware
  BY <1>10 DEF GetTargetInfo, ProbeFailed, GateM3, BootFirmware, TypeGate
<1>11. CASE GateM4 \/ NewHtc \/ HtcUp \/ WmiOnline \/ Summary
  BY <1>11 DEF GateM4, NewHtc, HtcUp, WmiOnline, Summary, TypeGate
<1>12. CASE StopPci \/ Announce
  BY <1>12 DEF StopPci, Announce, TypeGate
<1> QED BY <1>1, <1>2, <1>3, <1>4, <1>5, <1>6, <1>7, <1>8, <1>9, <1>10, <1>11, <1>12
           DEF Next, Host

(* Types of the manager and the objects. *)
LEMMA MgrStep == TypeMgr /\ Next => TypeMgr'
<1> SUFFICES ASSUME TypeMgr, Next PROVE TypeMgr'
  OBVIOUS
<1> USE DEF ctl, tdv, gate, mgr, objs, dma, pci, tgt
<1>1. CASE Refuse \/ EnablePci \/ MapBar0 \/ WakeFirst \/ ResetWakeFail \/ WakeAgain
  BY <1>1 DEF Refuse, EnablePci, MapBar0, WakeFirst, ResetWakeFail, WakeAgain, TypeMgr
<1>2. CASE ColdReset \/ WaitCold \/ WarmWait1 \/ WarmWait2 \/ WarmClear1 \/ WarmClear2
  BY <1>2 DEF ColdReset, WaitCold, WarmWait1, WarmWait2, WarmClear1, WarmClear2,
     WaitForTargetInit, TypeMgr
<1>3. CASE WarmCpu1 \/ WarmCpu2 \/ ProbeBmi
  BY <1>3 DEF WarmCpu1, WarmCpu2, ProbeBmi, TypeMgr
<1>4. CASE CtrlInitAgain \/ CtrlInitNew \/ InitWmi
  BY <1>4 DEF CtrlInitAgain, CtrlInitNew, InitWmi, PairInit, TypeMgr
<1>5. CASE DropManager \/ NewManager \/ EnsureCEFail
  BY <1>5 DEF DropManager, NewManager, EnsureCEFail, TypeMgr
<1>6. CASE TdPark \/ TdFree \/ TdSkip \/ TdDone
  BY <1>6 DEF TdPark, TdFree, TdSkip, TdDone, TypeMgr
<1>7. CASE InitDiag
  BY <1>7 DEF InitDiag, TypeMgr
<1>8. CASE InitConfigStep \/ InitConfigDone \/ WakeTargetCpu
  BY <1>8 DEF InitConfigStep, InitConfigDone, WakeTargetCpu, TypeMgr
<1>9. CASE InitDiagFail \/ InitConfigFail \/ GetTargetInfoFail \/ BootFirmwareFail
          \/ StartHtcWmiFail \/ StopCall
  BY <1>9 DEF InitDiagFail, InitConfigFail, GetTargetInfoFail, BootFirmwareFail,
     StartHtcWmiFail, StopCall, TeardownHardware, TypeMgr
<1>10. CASE GetTargetInfo \/ ProbeFailed \/ GateM3 \/ BootFirmware
  BY <1>10 DEF GetTargetInfo, ProbeFailed, GateM3, BootFirmware, TypeMgr
<1>11. CASE GateM4 \/ NewHtc \/ HtcUp \/ WmiOnline \/ Summary
  BY <1>11 DEF GateM4, NewHtc, HtcUp, WmiOnline, Summary, TypeMgr
<1>12. CASE StopPci \/ Announce
  BY <1>12 DEF StopPci, Announce, TypeMgr
<1> QED BY <1>1, <1>2, <1>3, <1>4, <1>5, <1>6, <1>7, <1>8, <1>9, <1>10, <1>11, <1>12
           DEF Next, Host

(* A step makes at most one region. *)
LEMMA RegionCount == TypeDma /\ Next => nreg' \in {nreg, nreg + 1}
<1> SUFFICES ASSUME TypeDma, Next PROVE nreg' \in {nreg, nreg + 1}
  OBVIOUS
<1> USE DEF ctl, tdv, gate, mgr, objs, dma, pci, tgt
<1>1. CASE Refuse \/ EnablePci \/ MapBar0 \/ WakeFirst \/ ResetWakeFail \/ WakeAgain
  BY <1>1 DEF Refuse, EnablePci, MapBar0, WakeFirst, ResetWakeFail, WakeAgain
<1>2. CASE ColdReset \/ WaitCold \/ WarmWait1 \/ WarmWait2 \/ WarmClear1 \/ WarmClear2
  BY <1>2 DEF ColdReset, WaitCold, WarmWait1, WarmWait2, WarmClear1, WarmClear2,
     WaitForTargetInit
<1>3. CASE WarmCpu1 \/ WarmCpu2 \/ ProbeBmi
  BY <1>3 DEF WarmCpu1, WarmCpu2, ProbeBmi
<1>4. CASE CtrlInitAgain \/ CtrlInitNew \/ InitWmi
  BY <1>4 DEF CtrlInitAgain, CtrlInitNew, InitWmi, PairInit, NewRegion
<1>5. CASE DropManager \/ NewManager \/ EnsureCEFail
  BY <1>5 DEF DropManager, NewManager, EnsureCEFail
<1>6. CASE TdPark \/ TdFree \/ TdSkip \/ TdDone
  BY <1>6 DEF TdPark, TdFree, TdSkip, TdDone
<1>7. CASE InitDiag
  BY <1>7 DEF InitDiag, NewRegion
<1>8. CASE InitConfigStep \/ InitConfigDone \/ WakeTargetCpu
  BY <1>8 DEF InitConfigStep, InitConfigDone, WakeTargetCpu
<1>9. CASE InitDiagFail \/ InitConfigFail \/ GetTargetInfoFail \/ BootFirmwareFail
          \/ StartHtcWmiFail \/ StopCall
  BY <1>9 DEF InitDiagFail, InitConfigFail, GetTargetInfoFail, BootFirmwareFail,
     StartHtcWmiFail, StopCall
<1>10. CASE GetTargetInfo \/ ProbeFailed \/ GateM3 \/ BootFirmware
  BY <1>10 DEF GetTargetInfo, ProbeFailed, GateM3, BootFirmware
<1>11. CASE GateM4 \/ NewHtc \/ HtcUp \/ WmiOnline \/ Summary
  BY <1>11 DEF GateM4, NewHtc, HtcUp, WmiOnline, Summary
<1>12. CASE StopPci \/ Announce
  BY <1>12 DEF StopPci, Announce
<1> QED BY <1>1, <1>2, <1>3, <1>4, <1>5, <1>6, <1>7, <1>8, <1>9, <1>10, <1>11, <1>12
           DEF Next, Host

(* A region more, and who gets it. *)
LEMMA NewType ==
  ASSUME TypeDma, NEW e \in Engines, NewRegion, nreg' \in 0 .. MaxRegions,
         ptr' \in {[ptr EXCEPT ![e] = 0], [ptr EXCEPT ![e] = nreg']},
         hw' \in {hw, [hw EXCEPT ![e] = nreg']}
  PROVE  TypeDma'
<1>1. nreg \in Nat /\ nreg' = nreg + 1 /\ live' = live \cup {nreg'}
  BY DEF TypeDma, NewRegion
<1>2. live' \subseteq 1 .. nreg'
  BY <1>1 DEF TypeDma
<1>3. ptr' \in [Engines -> live' \cup {0}]
  BY <1>1 DEF TypeDma
<1>4. hw' \in [Engines -> 0 .. nreg']
  <2>1. 0 .. nreg \subseteq 0 .. nreg' /\ nreg' \in 0 .. nreg'
    BY <1>1
  <2>2. hw \in [Engines -> 0 .. nreg']
    BY <2>1 DEF TypeDma
  <2> QED BY <2>1, <2>2
<1> QED BY <1>2, <1>3, <1>4 DEF TypeDma

(* Engines parked or forgotten, perhaps a region made and given back. *)
LEMMA ParkType ==
  ASSUME TypeDma, live' = live, ptr' = ptr,
         nreg' \in {nreg, nreg + 1}, nreg' \in 0 .. MaxRegions,
         \/ hw' = hw \/ hw' = [e \in Engines |-> 0]
         \/ \E e \in Engines : hw' = [hw EXCEPT ![e] = 0]
  PROVE  TypeDma'
<1>1. nreg \in Nat
  BY DEF TypeDma
<1>2. 0 .. nreg \subseteq 0 .. nreg' /\ 1 .. nreg \subseteq 1 .. nreg' /\ 0 \in 0 .. nreg'
  BY <1>1
<1>3. hw \in [Engines -> 0 .. nreg']
  BY <1>2 DEF TypeDma
<1>4. hw' \in [Engines -> 0 .. nreg']
  BY <1>2, <1>3
<1> QED BY <1>2, <1>4 DEF TypeDma

(* Types of the regions and rings; Made keeps their number within MaxRegions. *)
LEMMA DmaStep == TypeDma /\ Flow /\ Made /\ Holds /\ Apart /\ Next => TypeDma'
<1> SUFFICES ASSUME TypeDma, Flow, Made, Holds, Apart, Next PROVE TypeDma'
  OBVIOUS
<1> USE DEF ctl, tdv, gate, mgr, objs, dma, pci, tgt
<1>m. nreg' \in 0 .. MaxRegions
  <2>1. nreg' \in Nat
    BY RegionCount DEF TypeDma
  <2>2. nreg' <= 7
    BY MadeStep DEF Made
  <2> QED BY <2>1, <2>2, RegionAssumption
<1>e. "ctrl" \in Engines /\ "wmi" \in Engines /\ "diag" \in Engines
  BY DEF Engines
<1>1. CASE Refuse \/ EnablePci \/ MapBar0 \/ WakeFirst \/ ResetWakeFail \/ WakeAgain
  BY <1>1, <1>m, <1>e DEF Refuse, EnablePci, MapBar0, WakeFirst, ResetWakeFail,
     WakeAgain, TypeDma
<1>2. CASE ColdReset \/ WaitCold \/ WarmWait1 \/ WarmWait2 \/ WarmClear1 \/ WarmClear2
  <2>1. /\ live' = live /\ ptr' = ptr /\ nreg' = nreg
        /\ hw' = hw \/ hw' = [e \in Engines |-> 0]
    BY <1>2 DEF ColdReset, WaitCold, WarmWait1, WarmWait2, WarmClear1, WarmClear2,
       WaitForTargetInit
  <2> QED BY <2>1, <1>m, ParkType
<1>3. CASE WarmCpu1 \/ WarmCpu2 \/ ProbeBmi
  <2>1. /\ live' = live /\ ptr' = ptr /\ nreg' = nreg
        /\ hw' = hw \/ hw' = [e \in Engines |-> 0]
    BY <1>3 DEF WarmCpu1, WarmCpu2, ProbeBmi
  <2> QED BY <2>1, <1>m, ParkType
<1>4. CASE CtrlInitAgain \/ CtrlInitNew \/ InitWmi
  <2>1. \E e \in Engines :
          \/ ptr' = [ptr EXCEPT ![e] = 0] /\ UNCHANGED <<live, nreg, hw>>
          \/ /\ NewRegion /\ ptr' \in {[ptr EXCEPT ![e] = 0], [ptr EXCEPT ![e] = nreg']}
             /\ hw' \in {hw, [hw EXCEPT ![e] = nreg']}
    BY <1>4, <1>e DEF CtrlInitAgain, CtrlInitNew, InitWmi, PairInit, NewRegion
  <2>2. CASE NewRegion
    BY <2>1, <2>2, <1>m, NewType
  <2>3. CASE ~NewRegion
    BY <2>1, <2>3, <1>m DEF TypeDma
  <2> QED BY <2>2, <2>3
<1>5. CASE DropManager \/ NewManager \/ EnsureCEFail
  BY <1>5, <1>m, <1>e DEF DropManager, NewManager, EnsureCEFail, TypeDma
<1>6. CASE TdPark \/ TdFree \/ TdSkip \/ TdDone
  <2>1. CASE TdFree
    <3>1. Head(td) \in Engines /\ ptr[Head(td)] # 0
      BY <2>1, DownFacts DEF TdFree, Apart, Engines
    <3>2. live' \subseteq 1 .. nreg /\ hw' = hw /\ nreg' = nreg
      BY <2>1 DEF TdFree, TypeDma
    <3>3. ptr' \in [Engines -> live' \cup {0}]
      BY <2>1, <3>1 DEF TdFree, TypeDma, Apart
    <3> QED BY <3>2, <3>3 DEF TypeDma
  <2>2. CASE TdPark
    BY <2>2, DownFacts, <1>e DEF TdPark, TypeDma
  <2>3. CASE TdSkip \/ TdDone
    BY <2>3 DEF TdSkip, TdDone, TypeDma
  <2> QED BY <1>6, <2>1, <2>2, <2>3
<1>7. CASE InitDiag
  BY <1>7, <1>m, <1>e DEF InitDiag, NewRegion, TypeDma
<1>8. CASE InitConfigStep \/ InitConfigDone \/ WakeTargetCpu
  BY <1>8, <1>m, <1>e DEF InitConfigStep, InitConfigDone, WakeTargetCpu, TypeDma
<1>9. CASE InitDiagFail \/ InitConfigFail \/ GetTargetInfoFail \/ BootFirmwareFail
          \/ StartHtcWmiFail \/ StopCall
  <2>1. live' = live /\ ptr' = ptr /\ (hw' = hw \/ hw' = [hw EXCEPT !["diag"] = 0])
    BY <1>9 DEF InitDiagFail, InitConfigFail, GetTargetInfoFail, BootFirmwareFail,
       StartHtcWmiFail, StopCall
  <2> QED BY <2>1, <1>m, <1>e, RegionCount, ParkType
<1>10. CASE GetTargetInfo \/ ProbeFailed \/ GateM3 \/ BootFirmware
  BY <1>10, <1>m, <1>e DEF GetTargetInfo, ProbeFailed, GateM3, BootFirmware, TypeDma
<1>11. CASE GateM4 \/ NewHtc \/ HtcUp \/ WmiOnline \/ Summary
  BY <1>11, <1>m, <1>e DEF GateM4, NewHtc, HtcUp, WmiOnline, Summary, TypeDma
<1>12. CASE StopPci \/ Announce
  BY <1>12, <1>m, <1>e DEF StopPci, Announce, TypeDma
<1> QED BY <1>1, <1>2, <1>3, <1>4, <1>5, <1>6, <1>7, <1>8, <1>9, <1>10, <1>11, <1>12
           DEF Next, Host

(* Types of the PCI state. *)
LEMMA PciStep == TypePci /\ Next => TypePci'
<1> SUFFICES ASSUME TypePci, Next PROVE TypePci'
  OBVIOUS
<1> USE DEF ctl, tdv, gate, mgr, objs, dma, pci, tgt
<1>1. CASE Refuse \/ EnablePci \/ MapBar0 \/ WakeFirst \/ ResetWakeFail \/ WakeAgain
  BY <1>1 DEF Refuse, EnablePci, MapBar0, WakeFirst, ResetWakeFail, WakeAgain, TypePci
<1>2. CASE ColdReset \/ WaitCold \/ WarmWait1 \/ WarmWait2 \/ WarmClear1 \/ WarmClear2
  BY <1>2 DEF ColdReset, WaitCold, WarmWait1, WarmWait2, WarmClear1, WarmClear2,
     WaitForTargetInit, TypePci
<1>3. CASE WarmCpu1 \/ WarmCpu2 \/ ProbeBmi
  BY <1>3 DEF WarmCpu1, WarmCpu2, ProbeBmi, TypePci
<1>4. CASE CtrlInitAgain \/ CtrlInitNew \/ InitWmi
  BY <1>4 DEF CtrlInitAgain, CtrlInitNew, InitWmi, TypePci
<1>5. CASE DropManager \/ NewManager \/ EnsureCEFail
  BY <1>5 DEF DropManager, NewManager, EnsureCEFail, TypePci
<1>6. CASE TdPark \/ TdFree \/ TdSkip \/ TdDone
  BY <1>6 DEF TdPark, TdFree, TdSkip, TdDone, TypePci
<1>7. CASE InitDiag
  BY <1>7 DEF InitDiag, TypePci
<1>8. CASE InitConfigStep \/ InitConfigDone \/ WakeTargetCpu
  BY <1>8 DEF InitConfigStep, InitConfigDone, WakeTargetCpu, TypePci
<1>9. CASE InitDiagFail \/ InitConfigFail \/ GetTargetInfoFail \/ BootFirmwareFail
          \/ StartHtcWmiFail \/ StopCall
  BY <1>9 DEF InitDiagFail, InitConfigFail, GetTargetInfoFail, BootFirmwareFail,
     StartHtcWmiFail, StopCall, TypePci
<1>10. CASE GetTargetInfo \/ ProbeFailed \/ GateM3 \/ BootFirmware
  BY <1>10 DEF GetTargetInfo, ProbeFailed, GateM3, BootFirmware, TypePci
<1>11. CASE GateM4 \/ NewHtc \/ HtcUp \/ WmiOnline \/ Summary
  BY <1>11 DEF GateM4, NewHtc, HtcUp, WmiOnline, Summary, TypePci
<1>12. CASE StopPci \/ Announce
  BY <1>12 DEF StopPci, Announce, TypePci
<1> QED BY <1>1, <1>2, <1>3, <1>4, <1>5, <1>6, <1>7, <1>8, <1>9, <1>10, <1>11, <1>12
           DEF Next, Host

(* Types of the target. *)
LEMMA TgtStep == TypeTgt /\ Configured /\ Flow /\ Next => TypeTgt'
<1> SUFFICES ASSUME TypeTgt, Configured, Flow, Next PROVE TypeTgt'
  OBVIOUS
<1> USE DEF ctl, tdv, gate, mgr, objs, dma, pci, tgt
<1>c. tcfg' \subseteq Config
  <2>1. tcfg' \in Prefixes
    BY ConfiguredStep DEF Configured
  <2> QED BY <2>1 DEF Prefixes, Config
<1>1. CASE Refuse \/ EnablePci \/ MapBar0 \/ WakeFirst \/ ResetWakeFail \/ WakeAgain
  BY <1>1, <1>c DEF Refuse, EnablePci, MapBar0, WakeFirst, ResetWakeFail, WakeAgain,
     TypeTgt
<1>2. CASE ColdReset \/ WaitCold \/ WarmWait1 \/ WarmWait2 \/ WarmClear1 \/ WarmClear2
  BY <1>2, <1>c DEF ColdReset, WaitCold, WarmWait1, WarmWait2, WarmClear1, WarmClear2,
     WaitForTargetInit, TypeTgt
<1>3. CASE WarmCpu1 \/ WarmCpu2 \/ ProbeBmi
  BY <1>3, <1>c DEF WarmCpu1, WarmCpu2, ProbeBmi, TypeTgt
<1>4. CASE CtrlInitAgain \/ CtrlInitNew \/ InitWmi
  BY <1>4, <1>c DEF CtrlInitAgain, CtrlInitNew, InitWmi, TypeTgt
<1>5. CASE DropManager \/ NewManager \/ EnsureCEFail
  BY <1>5, <1>c DEF DropManager, NewManager, EnsureCEFail, TypeTgt
<1>6. CASE TdPark \/ TdFree \/ TdSkip \/ TdDone
  BY <1>6, <1>c DEF TdPark, TdFree, TdSkip, TdDone, TypeTgt
<1>7. CASE InitDiag
  BY <1>7, <1>c DEF InitDiag, TypeTgt
<1>8. CASE InitConfigStep \/ InitConfigDone \/ WakeTargetCpu
  BY <1>8, <1>c DEF InitConfigStep, InitConfigDone, WakeTargetCpu, Talk, TypeTgt,
     Engines
<1>9. CASE InitDiagFail \/ InitConfigFail \/ GetTargetInfoFail \/ BootFirmwareFail
          \/ StartHtcWmiFail \/ StopCall
  BY <1>9, <1>c DEF InitDiagFail, InitConfigFail, GetTargetInfoFail, BootFirmwareFail,
     StartHtcWmiFail, StopCall, Talk, TypeTgt, Engines
<1>10. CASE GetTargetInfo \/ ProbeFailed \/ GateM3 \/ BootFirmware
  BY <1>10, <1>c DEF GetTargetInfo, ProbeFailed, GateM3, BootFirmware, Talk, TypeTgt,
     Engines
<1>11. CASE GateM4 \/ NewHtc \/ HtcUp \/ WmiOnline \/ Summary
  BY <1>11, <1>c DEF GateM4, NewHtc, HtcUp, WmiOnline, Summary, Talk, TypeTgt, Engines
<1>12. CASE StopPci \/ Announce
  BY <1>12, <1>c DEF StopPci, Announce, TypeTgt
<1> QED BY <1>1, <1>2, <1>3, <1>4, <1>5, <1>6, <1>7, <1>8, <1>9, <1>10, <1>11, <1>12
           DEF Next, Host

(* Rings are programmed only into an engine that did not move. *)
LEMMA AgreeStep == TypeDma /\ RingsAreCurrent /\ Objects /\ Still /\ Next => Agree
<1> SUFFICES ASSUME TypeDma, RingsAreCurrent, Objects, Still, Next PROVE Agree
  OBVIOUS
<1> USE DEF ctl, tdv, gate, mgr, objs, dma, pci, tgt
<1>1. CASE Refuse \/ EnablePci \/ MapBar0 \/ WakeFirst \/ ResetWakeFail \/ WakeAgain
  BY <1>1 DEF Refuse, EnablePci, MapBar0, WakeFirst, ResetWakeFail, WakeAgain, Agree
<1>2. CASE ColdReset \/ WaitCold \/ WarmWait1 \/ WarmWait2 \/ WarmClear1 \/ WarmClear2
  BY <1>2 DEF ColdReset, WaitCold, WarmWait1, WarmWait2, WarmClear1, WarmClear2,
     WaitForTargetInit, Agree
<1>3. CASE WarmCpu1 \/ WarmCpu2 \/ ProbeBmi
  BY <1>3 DEF WarmCpu1, WarmCpu2, ProbeBmi, Agree
<1>4. CASE CtrlInitAgain \/ CtrlInitNew \/ InitWmi
  BY <1>4 DEF CtrlInitAgain, CtrlInitNew, InitWmi, PairInit, TypeDma, Objects, Still,
     Agree, Cold, Since, Ensure, Stage4
<1>5. CASE DropManager \/ NewManager \/ EnsureCEFail
  BY <1>5 DEF DropManager, NewManager, EnsureCEFail, Agree
<1>6. CASE TdPark \/ TdFree \/ TdSkip \/ TdDone
  BY <1>6 DEF TdPark, TdFree, TdSkip, TdDone, TypeDma, Agree
<1>7. CASE InitDiag
  BY <1>7 DEF InitDiag, Still, Agree, Cold, Since
<1>8. CASE InitConfigStep \/ InitConfigDone \/ WakeTargetCpu
  BY <1>8 DEF InitConfigStep, InitConfigDone, WakeTargetCpu, Agree
<1>9. CASE InitDiagFail \/ InitConfigFail \/ GetTargetInfoFail \/ BootFirmwareFail
          \/ StartHtcWmiFail \/ StopCall
  BY <1>9 DEF InitDiagFail, InitConfigFail, GetTargetInfoFail, BootFirmwareFail,
     StartHtcWmiFail, StopCall, Still, Agree, Cold, Since
<1>10. CASE GetTargetInfo \/ ProbeFailed \/ GateM3 \/ BootFirmware
  BY <1>10 DEF GetTargetInfo, ProbeFailed, GateM3, BootFirmware, Agree
<1>11. CASE GateM4 \/ NewHtc \/ HtcUp \/ WmiOnline \/ Summary
  BY <1>11 DEF GateM4, NewHtc, HtcUp, WmiOnline, Summary, Agree
<1>12. CASE StopPci \/ Announce
  BY <1>12 DEF StopPci, Announce, Agree
<1> QED BY <1>1, <1>2, <1>3, <1>4, <1>5, <1>6, <1>7, <1>8, <1>9, <1>10, <1>11, <1>12
           DEF Next, Host

-----------------------------------------------------------------------------
(* The theorems.                                                           *)

(* The driver as IOKit hands it to start(). *)
LEMMA InitHolds == Init => IInv
<1> SUFFICES ASSUME Init PROVE IInv
  OBVIOUS
<1>1. TypeCtl /\ TypeGate
  <2>1. td \in Seq(Engines) /\ Len(td) <= 3
    BY SuffixFacts DEF Init
  <2> QED BY <2>1 DEF Init, TypeCtl, TypeGate, Labels
<1>2. TypeDma /\ TypeMgr
  BY RegionAssumption DEF Init, TypeDma, TypeMgr
<1>3. TypePci /\ TypeTgt
  BY DEF Init, TypePci, TypeTgt
<1>4. Flow /\ Made
  BY DEF Init, Flow, Made, Ensure, Down, S0
<1>5. Holds /\ Emptied /\ Apart /\ RingsNeverDangle /\ RingsAreCurrent
  BY DEF Init, Holds, Emptied, Apart, RingsNeverDangle, RingsAreCurrent, Talking,
     Engines
<1>6. Bus /\ Configured
  BY DEF Init, Bus, Configured, Prefixes
<1>7. Objects /\ Stages /\ Heard /\ OnlineMeansStages /\ Still
  BY DEF Init, Objects, Stages, Heard, OnlineMeansStages, Still, Stage4, Ensure, Cold,
     Since, Warm, Probing
<1> QED BY <1>1, <1>2, <1>3, <1>4, <1>5, <1>6, <1>7 DEF IInv, TypeOK, OwnInv, StageInv

(* A step that changes nothing. *)
LEMMA Stutter == IInv /\ UNCHANGED vars => IInv'
<1> SUFFICES ASSUME IInv, UNCHANGED vars PROVE IInv'
  OBVIOUS
<1> USE DEF IInv, TypeOK, OwnInv, StageInv, vars, ctl, tdv, gate, mgr, objs, dma, pci, tgt
<1>1. TypeOK'
  BY DEF TypeCtl, TypeGate, TypeDma, TypeMgr, TypePci, TypeTgt
<1>2. Flow' /\ Made'
  BY DEF Flow, Made
<1>3. OwnInv'
  BY DEF Holds, Emptied, Apart, RingsNeverDangle, RingsAreCurrent
<1>4. Bus' /\ Configured' /\ Still'
  BY DEF Bus, Configured, Still
<1>5. StageInv'
  BY DEF Objects, Current, Stages, Heard, OnlineMeansStages
<1> QED BY <1>1, <1>2, <1>3, <1>4, <1>5

(* Every step keeps the invariant. *)
LEMMA Step == IInv /\ [Next]_vars => IInv'
<1> SUFFICES ASSUME IInv, [Next]_vars PROVE IInv'
  OBVIOUS
<1>1. CASE UNCHANGED vars
  BY <1>1, Stutter
<1>2. CASE Next
  <2>1. /\ TypeCtl /\ TypeGate /\ TypeDma /\ TypeMgr /\ TypePci /\ TypeTgt
        /\ Flow /\ Made /\ Bus /\ Configured /\ Still
        /\ Holds /\ Emptied /\ Apart /\ RingsNeverDangle /\ RingsAreCurrent
        /\ Objects /\ Stages /\ Heard /\ OnlineMeansStages
    BY DEF IInv, TypeOK, OwnInv, StageInv
  <2>2. TypeOK'
    BY <1>2, <2>1, CtlStep, GateStep, DmaStep, MgrStep, PciStep, TgtStep DEF TypeOK
  <2>3. Flow' /\ Made' /\ Bus' /\ Configured' /\ Still'
    BY <1>2, <2>1, FlowStep, MadeStep, BusStep, ConfiguredStep, StillStep
  <2>4. OwnInv'
    BY <1>2, <2>1, HoldsStep, EmptiedStep, ApartStep, DangleStep, CurrentStep DEF OwnInv
  <2>5. StageInv'
    BY <1>2, <2>1, ObjectsStep, StagesStep, HeardStep, OnlineStep DEF StageInv
  <2> QED BY <2>2, <2>3, <2>4, <2>5 DEF IInv
<1> QED BY <1>1, <1>2

(* The inductive invariant holds from start() to stop(), through every     *)
(* failure on the way.                                                     *)
THEOREM LifecycleInvariance == Spec => []IInv
<1>1. Init => IInv
  BY InitHolds
<1>2. IInv /\ [Next]_vars => IInv'
  BY Step
<1> QED BY <1>1, <1>2, PTL DEF Spec

(* The driver's variables keep their types, and one start() makes no more  *)
(* than seven DMA regions, whatever is initialised again on the way.       *)
THEOREM LifecycleTypes == Spec => []TypeOK
<1>1. IInv => TypeOK
  BY DEF IInv
<1> QED BY <1>1, LifecycleInvariance, PTL

(* No copy engine is left pointing at memory that teardown gave back.      *)
THEOREM RingsTheorem == Spec => []RingsNeverDangle
<1>1. IInv => RingsNeverDangle
  BY DEF IInv, OwnInv
<1> QED BY <1>1, LifecycleInvariance, PTL

(* When the driver talks over an engine, its rings are those of the        *)
(* manager that is there, also after the warm reset set them up again.     *)
THEOREM CurrentTheorem == Spec => []RingsAreCurrent
<1>1. IInv => RingsAreCurrent
  BY DEF IInv, OwnInv
<1> QED BY <1>1, LifecycleInvariance, PTL

(* Bmi, Htc and Wmi never hold a manager that was destroyed.               *)
THEOREM HandlesTheorem == Spec => []HandlesCurrent
<1>1. IInv => HandlesCurrent
  BY DEF IInv, StageInv, Objects, HandlesCurrent
<1> QED BY <1>1, LifecycleInvariance, PTL

(* probeBmi is entered only on an announcement the target made since       *)
(* FW_INDICATOR was last cleared, and behind the cold reset alone only on  *)
(* one the reset CPU made; in the warm leg the CPU about to be reset may   *)
(* still have made it.                                                     *)
THEOREM AnnounceTheorem == Spec => ProbeAfterAnnounce
<1>1. IInv /\ [Next]_vars => [Announced]_vars
  BY AnnouncedStep DEF IInv, TypeOK, OwnInv, StageInv
<1> QED BY <1>1, LifecycleInvariance, PTL DEF Spec, ProbeAfterAnnounce, Announced

(* wakeTargetCpu rings the doorbell only over a complete CE configuration, *)
(* and early-config-done is the last item initConfig writes.               *)
THEOREM ConfiguredTheorem == Spec => []ConfiguredBeforeCpu
<1>1. IInv => ConfiguredBeforeCpu
  <2> SUFFICES ASSUME IInv, cpuWoken \/ "done" \in tcfg PROVE tcfg = Config
    BY DEF ConfiguredBeforeCpu
  <2>1. "done" \in tcfg => tcfg = Config
    BY DEF IInv, Configured, Prefixes
  <2>2. cpuWoken => tcfg = Config
    BY DEF IInv, Configured
  <2> QED BY <2>1, <2>2
<1> QED BY <1>1, LifecycleInvariance, PTL

(* start() reports WMI online only if every stage succeeded and all that   *)
(* it built is still there.                                                *)
THEOREM OnlineTheorem == Spec => []OnlineMeansStages
<1>1. IInv => OnlineMeansStages
  BY DEF IInv, StageInv
<1> QED BY <1>1, LifecycleInvariance, PTL

(* After stop() the device reaches no memory, the link is as it was found  *)
(* and the driver has no manager, object or region pointer left.           *)
THEOREM StoppedTheorem == Spec => []StoppedIsQuiet
<1>1. IInv => StoppedIsQuiet
  <2> SUFFICES ASSUME IInv, pc = "stopped"
               PROVE  /\ ~busMaster /\ ~memEnable /\ linkAspm = wasAspm
                      /\ {fCe, fBmi, fHtc, fWmi} = {0} /\ \A e \in Engines : ptr[e] = 0
    BY DEF StoppedIsQuiet
  <2>1. ~busMaster /\ ~memEnable /\ linkAspm = wasAspm
    BY DEF IInv, Bus
  <2>2. fCe = 0 /\ \A e \in Engines : ptr[e] = 0
    BY DEF IInv, OwnInv, Holds
  <2>3. fBmi = 0 /\ fHtc = 0 /\ fWmi = 0
    BY DEF IInv, StageInv, Objects, Late, Stage4
  <2> QED BY <2>1, <2>2, <2>3
<1> QED BY <1>1, LifecycleInvariance, PTL

(* CECopyPair::init and CEDiag::init meet hardware indices of 0: rings are *)
(* programmed only into an engine that a reset cleared after its last      *)
(* traffic.                                                                *)
THEOREM IndicesTheorem == Spec => IndicesAgree
<1>1. IInv /\ [Next]_vars => [Agree]_vars
  BY AgreeStep DEF IInv, TypeOK, OwnInv, StageInv
<1> QED BY <1>1, LifecycleInvariance, PTL DEF Spec, IndicesAgree, Agree
=============================================================================

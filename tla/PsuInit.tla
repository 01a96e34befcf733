------------------------------ MODULE PsuInit ------------------------------
(***************************************************************************)
(* Initialising the processor: the order in which psu_init of psu_init.c,  *)
(* and psu_init_ddr_self_refresh, program the PLLs, choose the source of   *)
(* every clock, and put blocks into reset and take them out again, with    *)
(* the two algorithms they call on the way (PhyBringup and FixCal).        *)
(*                                                                         *)
(* A function of register writes is a sequence of steps, one for each      *)
(* write that the properties tell apart; an action takes the next step.    *)
(* Dividers, pins, the registers of the DDR controller and of the          *)
(* transceivers, and priorities are left out.                              *)
(***************************************************************************)
EXTENDS FixCal, PhyBringup, Sequences

PLLs == {"RPLL", "IOPLL", "APLL", "DPLL", "VPLL"}

(* The clocks the program chooses a source for.                            *)
Clocks ==
  {"GEM1", "GEM_TSU", "QSPI", "SDIO0", "UART1", "I2C0", "CPU_R5",
   "IOU_SWITCH", "PCAP", "LPD_SWITCH", "LPD_LSBUS", "DBG_LPD", "ADMA", "PL0",
   "AMS", "DLL", "TIMESTAMP", "ACPU", "DBG_FPD", "DDR", "GPU", "GDMA", "DPDMA",
   "TOPSW_MAIN", "TOPSW_LSBUS", "DBG_TSTMP"}

(* The blocks that have a clock of their own, which has their name; the    *)
(* system monitor's is AMS.                                                *)
Clocked == {"GEM1", "QSPI", "SDIO0", "UART1", "I2C0", "ADMA", "TIMESTAMP",
            "GPU", "GDMA", "SYSMON", "DDR"}
ClockOf(b) == IF b = "SYSMON" THEN "AMS" ELSE b

VARIABLES
  selfRefresh,     \* the function is psu_init_ddr_self_refresh
  at,              \* its next step
  pll,             \* of each PLL: bypassed? in reset?
  source,          \* of each clock: its PLL, "pss_ref_clk", or as at boot
  block,           \* "reset" or "released" by the program, or as at boot
  status,          \* status: 1 or 0
  result           \* the value returned

psuVars == << selfRefresh, at, pll, source, block, status, result >>
vars == << psuVars, phyVars, calVars >>

-----------------------------------------------------------------------------
(* Steps.                                                                  *)
Bypass(p, on) == [op |-> "bypass", pll |-> p, on |-> on]
ResetPll(p, on) == [op |-> "resetPll", pll |-> p, on |-> on]
MaskPoll == [op |-> "mask_poll"]
Select(c, s) == [op |-> "select", clock |-> c, source |-> s]
PutInReset(blocks) == [op |-> "reset", blocks |-> blocks, to |-> "reset"]
Release(blocks) == [op |-> "reset", blocks |-> blocks, to |-> "released"]
Call(function) == [op |-> function]

(* The sensor clock comes from the PLL that runs since boot, and the flash *)
(* controller is put in reset.                                             *)
psu_peripherals_pre_init_data ==
  << Select("AMS", "IOPLL"), PutInReset({"QSPI"}) >>

(* Each PLL: bypass and reset, out of reset, poll for the lock, whose      *)
(* absence nobody notices, and out of bypass.                              *)
PllSteps(p) ==
  << Bypass(p, TRUE), ResetPll(p, TRUE), ResetPll(p, FALSE), MaskPoll,
     Bypass(p, FALSE) >>

RpllInit == PllSteps("RPLL")

(* "To avoid glitch when next IOPLL will be put in bypass mode".           *)
AmsToRpll == << Select("AMS", "RPLL") >>

IopllInit == PllSteps("IOPLL")
ApllInit == PllSteps("APLL")
DpllInit == PllSteps("DPLL")
VpllInit == PllSteps("VPLL")

(* A slip to catch: the sensor clock is left where it is.                  *)
PllInitGlitch == RpllInit \o IopllInit \o ApllInit \o DpllInit \o VpllInit

psu_pll_init_data ==
  RpllInit \o AmsToRpll \o IopllInit \o ApllInit \o DpllInit \o VpllInit

EthernetAndFlashClocks ==
  << Select("GEM1", "IOPLL"), Select("GEM_TSU", "IOPLL"),
     Select("QSPI", "IOPLL") >>
PeripheralClocks ==
  << Select("SDIO0", "RPLL"), Select("UART1", "IOPLL"),
     Select("I2C0", "IOPLL") >>
LowPowerClocks ==
  << Select("CPU_R5", "RPLL"), Select("IOU_SWITCH", "RPLL"),
     Select("PCAP", "IOPLL"), Select("LPD_SWITCH", "RPLL"),
     Select("LPD_LSBUS", "IOPLL"), Select("DBG_LPD", "IOPLL"),
     Select("ADMA", "RPLL") >>
FabricAndSensorClocks ==
  << Select("PL0", "RPLL"), Select("AMS", "IOPLL"), Select("DLL", "IOPLL"),
     Select("TIMESTAMP", "pss_ref_clk") >>
FullPowerClocks ==
  << Select("ACPU", "APLL"), Select("DBG_FPD", "IOPLL"),
     Select("DDR", "DPLL"), Select("GPU", "DPLL"), Select("GDMA", "DPLL") >>
InterconnectClocks ==
  << Select("DPDMA", "DPLL"), Select("TOPSW_MAIN", "VPLL"),
     Select("TOPSW_LSBUS", "IOPLL"), Select("DBG_TSTMP", "IOPLL") >>

psu_clock_init_data ==
  EthernetAndFlashClocks \o PeripheralClocks \o LowPowerClocks
    \o FabricAndSensorClocks \o FullPowerClocks \o InterconnectClocks

DdrControllerReset == << PutInReset({"DDR"}) >>
DdrControllerRelease == << Release({"DDR"}) >>
psu_ddr_init_data == DdrControllerReset \o DdrControllerRelease

(* Blocks out of reset; what is configured between is left out.            *)
SystemRelease ==
  << Release({"GPU", "GDMA"}), Release({"TIMESTAMP", "ADMA"}),
     Release({"SYSMON"}) >>
EthernetAndFlashRelease == << Release({"GEM1"}), Release({"QSPI"}) >>
CardRelease == << Release({"SDIO0"}) >>
SerialRelease == << Release({"I2C0"}), Release({"UART1"}) >>
psu_peripherals_init_data ==
  SystemRelease \o EthernetAndFlashRelease \o CardRelease \o SerialRelease

psu_resetin_init_data == << PutInReset({"GEM1"}) >>
psu_resetout_init_data == << Release({"GEM1"}), MaskPoll >>

(* A slip to catch: the transceivers are calibrated before the reset.      *)
InitSerdesEarly ==
  << Call("serdes_fixcal_code") >> \o psu_resetin_init_data
    \o << Call("psu_serdes_init_data") >> \o psu_resetout_init_data

init_serdes ==
  psu_resetin_init_data
    \o << Call("serdes_fixcal_code"), Call("psu_serdes_init_data") >>
    \o psu_resetout_init_data

(* A slip to catch: the DDR controller before the clocks.                  *)
ProgramDdrFirst ==
  psu_peripherals_pre_init_data \o psu_pll_init_data \o psu_ddr_init_data
    \o psu_clock_init_data
    \o (IF selfRefresh THEN << >> ELSE << Call("psu_ddr_phybringup_data") >>)
    \o psu_peripherals_init_data \o init_serdes

(* psu_init, and psu_init_ddr_self_refresh, which leaves the PHY alone.    *)
Program ==
  psu_peripherals_pre_init_data \o psu_pll_init_data \o psu_clock_init_data
    \o psu_ddr_init_data
    \o (IF selfRefresh THEN << >> ELSE << Call("psu_ddr_phybringup_data") >>)
    \o psu_peripherals_init_data \o init_serdes

-----------------------------------------------------------------------------
(* At boot the IOPLL runs, and the others are in whatever state the boot   *)
(* ROM and an earlier run left them.                                       *)
Init ==
  /\ selfRefresh \in BOOLEAN
  /\ at = 1
  /\ pll \in [PLLs -> {[bypass |-> TRUE, reset |-> TRUE],
                       [bypass |-> FALSE, reset |-> FALSE]}]
  /\ pll["IOPLL"].bypass = FALSE
  /\ source = [c \in Clocks |-> "boot"]
  /\ block = [b \in Clocked |-> "boot"]
  /\ status = 1 /\ result = -1
  /\ PhyIdle /\ CalIdle

Ended == at > Len(Program)
Due(op) == ~Ended /\ Program[at].op = op
Step == Program[at]

SetBypass ==
  /\ Due("bypass")
  /\ pll' = [pll EXCEPT ![Step.pll].bypass = Step.on]
  /\ at' = at + 1
  /\ UNCHANGED << selfRefresh, source, block, status, result, phyVars, calVars >>

SetReset ==
  /\ Due("resetPll")
  /\ pll' = [pll EXCEPT ![Step.pll].reset = Step.on]
  /\ at' = at + 1
  /\ UNCHANGED << selfRefresh, source, block, status, result, phyVars, calVars >>

(* The poll ends, with the lock or after its time; the value is ignored.   *)
Poll ==
  /\ Due("mask_poll")
  /\ at' = at + 1
  /\ UNCHANGED << selfRefresh, pll, source, block, status, result, phyVars,
                  calVars >>

SelectSource ==
  /\ Due("select")
  /\ source' = [source EXCEPT ![Step.clock] = Step.source]
  /\ at' = at + 1
  /\ UNCHANGED << selfRefresh, pll, block, status, result, phyVars, calVars >>

SetBlocks ==
  /\ Due("reset")
  /\ block' = [b \in Clocked |->
                 IF b \in Step.blocks THEN Step.to ELSE block[b]]
  /\ at' = at + 1
  /\ UNCHANGED << selfRefresh, pll, source, status, result, phyVars, calVars >>

Bringup ==
  /\ Due("psu_ddr_phybringup_data")
  /\ PhyBegin \/ PhySteps
  /\ UNCHANGED << psuVars, calVars >>

(* status &= what it returned; whatever that is, the program goes on.      *)
BringupReturns ==
  /\ Due("psu_ddr_phybringup_data") /\ phy = "returned"
  /\ status' = IF phyRet = 1 THEN status ELSE 0
  /\ at' = at + 1
  /\ UNCHANGED << selfRefresh, pll, source, block, result, phyVars, calVars >>

Calibrate ==
  /\ Due("serdes_fixcal_code")
  /\ CalNext
  /\ UNCHANGED << psuVars, phyVars >>

(* A slip to catch: a calibration that failed is forgotten.                *)
CalibrateForgotten ==
  /\ Due("serdes_fixcal_code") /\ cal \in {"forced", "timeout"}
  /\ status' = IF cal = "forced" THEN 1 ELSE 0
  /\ at' = at + 1
  /\ UNCHANGED << selfRefresh, pll, source, block, result, phyVars, calVars >>

CalibrateReturns ==
  /\ Due("serdes_fixcal_code") /\ cal \in {"forced", "timeout"}
  /\ status' = IF cal = "forced" THEN status ELSE 0
  /\ at' = at + 1
  /\ UNCHANGED << selfRefresh, pll, source, block, result, phyVars, calVars >>

(* The registers of the transceivers' lanes.                               *)
Lanes ==
  /\ Due("psu_serdes_init_data")
  /\ at' = at + 1
  /\ UNCHANGED << selfRefresh, pll, source, block, status, result, phyVars,
                  calVars >>

Return ==
  /\ Ended /\ result = -1
  /\ result' = IF status = 0 THEN 1 ELSE 0
  /\ UNCHANGED << selfRefresh, at, pll, source, block, status, phyVars, calVars >>

Next ==
  \/ SetBypass \/ SetReset \/ Poll \/ SelectSource \/ SetBlocks
  \/ Bringup \/ BringupReturns \/ Calibrate \/ CalibrateReturns
  \/ Lanes \/ Return

(* Nothing interrupts the program; the hardware either answers a command   *)
(* to the PHY, well or badly, or is silent from then on.                   *)
Spec == Init /\ [][Next]_vars /\ WF_vars(Next)

-----------------------------------------------------------------------------
(* Every variable has its type (one invariant for the whole module).       *)
TypeOK ==
  /\ selfRefresh \in BOOLEAN /\ at \in 1 .. Len(Program) + 1
  /\ pll \in [PLLs -> [bypass : BOOLEAN, reset : BOOLEAN]]
  /\ source \in [Clocks -> PLLs \cup {"boot", "pss_ref_clk"}]
  /\ block \in [Clocked -> {"boot", "reset", "released"}]
  /\ status \in {0, 1} /\ result \in {-1, 0, 1}
  /\ PhyTypeOK /\ CalTypeOK

Steady(c) ==
  source[c] \in PLLs => ~pll[source[c]].bypass /\ ~pll[source[c]].reset

(* A clock that the program has given a PLL never loses it: the PLL is not *)
(* bypassed or reset while any such clock comes from it, and no clock is   *)
(* given a PLL that is not running ("to avoid glitch").                    *)
ClocksSteady == \A c \in Clocks : Steady(c)

(* A block the program takes out of reset has its clock by then, whichever *)
(* of the functions did the one and the other.                             *)
ReleasedClocked ==
  \A b \in Clocked :
    block[b] = "released" => source[ClockOf(b)] # "boot" /\ Steady(ClockOf(b))

(* While the transceivers are calibrated and programmed, the ethernet      *)
(* controller behind them is in reset, though it had been released before. *)
SerdesQuiet ==
  cal \in {"sample", "search"} \/ Due("psu_serdes_init_data") =>
    block["GEM1"] = "reset"

(* The functions go on after a failure and still return it: zero means     *)
(* that the DDR's PHY, unless it was left alone, has locked its PLLs and   *)
(* is out of static read mode, and that the calibration codes are forced.  *)
ResultTells ==
  result # -1 =>
    /\ result = 0 <=> cal = "forced" /\ (selfRefresh \/ phyRet = 1)
    /\ result = 0 => ~staticRead /\ (selfRefresh \/ pllLocked)

(* The program ends, unless a poll of the PHY's bring-up waits for what    *)
(* the hardware will never show: an answer, or the exact status of a       *)
(* success after a failure.                                                *)
InitEnds == <>(result # -1 \/ PollHangs)
-----------------------------------------------------------------------------
(* Why those hold: what the steps before `at' have left behind.  The steps *)
(* of PLL p are PllBefore(p) + 1 .. PllBefore(p) + 5, the PHY is brought   *)
(* up at PhyCall, and the calibration is called at CalCall.                *)
PllBefore(p) ==
  CASE p = "RPLL" -> 2 [] p = "IOPLL" -> 8 [] p = "APLL" -> 13
    [] p = "DPLL" -> 18 [] p = "VPLL" -> 23
PllsDone == 28
FirstRelease == 56
PhyCall == 57
CalCall == IF selfRefresh THEN 66 ELSE 67

Running(p) == ~pll[p].bypass /\ ~pll[p].reset

(* A PLL runs when its five steps are over, and the IOPLL before them too. *)
PllInv ==
  \A p \in PLLs :
    /\ at > PllBefore(p) + 3 => ~pll[p].reset
    /\ at > PllBefore(p) + 5 \/ (p = "IOPLL" /\ at <= PllBefore(p) + 1)
         => Running(p)

(* While the PLLs are programmed only the sensor has a source, one whose   *)
(* steps are not being taken; afterwards what was chosen stays chosen.     *)
SourceInv ==
  /\ at <= PllsDone + 1 =>
       /\ \A c \in Clocks \ {"AMS"} : source[c] = "boot"
       /\ IF at <= 8 THEN source["AMS"] \in {"boot", "IOPLL"}
                     ELSE source["AMS"] = "RPLL"
  /\ \A i \in 1 .. at - 1 :
       Program[i].op = "select" => source[Program[i].clock] # "boot"

(* No block is released before the clocks are chosen, and the ethernet     *)
(* controller is in reset for the calibration and the step behind it.      *)
BlockInv ==
  /\ at <= FirstRelease => \A b \in Clocked : block[b] # "released"
  /\ at \in {CalCall, CalCall + 1} => block["GEM1"] = "reset"

(* The two algorithms are idle before their calls and over behind them.    *)
CallInv ==
  /\ selfRefresh \/ at < PhyCall => phy = "idle"
  /\ ~selfRefresh /\ at > PhyCall => phy = "returned"
  /\ at < CalCall => cal = "idle"
  /\ at > CalCall => cal \in {"forced", "timeout"}

(* status is 0 when one of the calls has returned 0.                       *)
StatusInv ==
  /\ status = 0 <=>
       \/ ~selfRefresh /\ at > PhyCall /\ phyRet # 1
       \/ at > CalCall /\ cal = "timeout"
  /\ result = -1 \/ (Ended /\ result = 1 - status)

OrderInv ==
  /\ TypeOK /\ PllInv /\ SourceInv /\ BlockInv /\ CallInv /\ StatusInv

-----------------------------------------------------------------------------
(* And why it ends: what is still ahead, outermost loop first: the return, *)
(* the steps of the program, those of the PHY's bring-up with its tries    *)
(* and its polls, those of the calibration with its samples and turns. *)
Ahead ==
  << IF result = -1 THEN 1 ELSE 0,
     Len(Program) + 1 - at,
     CASE phy = "idle" -> 8 [] phy \in {"pll", "lock"} -> 7
       [] phy = "bringup" -> 6 [] phy = "initialise" -> 5
       [] phy = "controller" -> 4 [] phy = "train" -> 3
       [] phy = "vref" -> 2 [] phy = "last" -> 1 [] OTHER -> 0,
     pllRetry,
     CASE phy = "pll" -> 2 [] phy # "pll" /\ work = "running" -> 1
       [] OTHER -> 0,
     CASE cal = "idle" -> 3 [] cal = "sample" -> 2 [] cal = "search" -> 1
       [] OTHER -> 0,
     Repeats + 1 - repeatCount,
     Cardinality(TurnsAhead) >>

(* Less is ahead at s than at t: the outermost loop that differs decides.  *)
Nearer(s, t) ==
  \E i \in 1 .. 8 : s[i] < t[i] /\ \A j \in 1 .. i - 1 : s[j] = t[j]

(* Every step leaves less ahead, whatever fails or has to be tried again.  *)
StepsAdvance == [][Nearer(Ahead', Ahead)]_vars

(* One of the steps of the program or of the function it calls can be      *)
(* taken until the return, unless a poll hangs: every other poll waits for *)
(* something that was started, and goes on when that has ended.            *)
NeverStuck ==
  \/ result # -1 \/ Ended \/ PollHangs
  \/ Step.op \in {"bypass", "resetPll", "mask_poll", "select", "reset",
                  "psu_serdes_init_data", "serdes_fixcal_code"}
  \/ /\ Due("psu_ddr_phybringup_data")
     /\ phy \in ExactPolls => work \in {"running", "good"}
     /\ phy \in Polls => work \in {"running", "good", "bad"}
=============================================================================

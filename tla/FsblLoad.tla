------------------------------ MODULE FsblLoad ------------------------------
(***************************************************************************)
(* The order in which the patched first stage boot loader loads the        *)
(* partitions of the boot image (stages 3 to 5 of main, and                *)
(* XFsbl_PartitionLoad, in 0001-FSBL.patch).                               *)
(*                                                                         *)
(* Two passes over the partitions: stage 3 loads those for the programmable*)
(* logic, and initialises the ECC of the DDR, which destroys its contents, *)
(* after each (EccInit); stage 4 loads the others.  Stage 5 hands off.     *)
(*                                                                         *)
(* Partition 0 is the boot loader itself.                                  *)
(***************************************************************************)
EXTENDS EccInit, FiniteSets

CONSTANT
  NoOfPartitions   \* of the image header table

ASSUME FsblAssumption == NoOfPartitions \in Nat /\ NoOfPartitions >= 2

Partitions == 1 .. NoOfPartitions - 1

(* A partition's header: its destination, and what the validation says.    *)
Header == [device : {"PL", "PS"}, check : {"success", "notOwner", "error"}]

VARIABLES
  header,          \* of each partition
  early,           \* the partitions XFsbl_CheckEarlyHandoff says TRUE for
  stage,           \* FsblStage
  partitionNum,    \* PartitionNum
  eccCall,         \* XFsbl_DdrEccInit_main: "none", "due" or "running"
  earlyHandoff,    \* EarlyHandoff
  loaded           \* how often each was loaded since its memory was wiped

imageVars == << header, early >>
loadVars == << stage, partitionNum, eccCall, earlyHandoff, loaded >>
vars == << imageVars, loadVars, eccVars >>

Init ==
  /\ header \in [Partitions -> Header]
  /\ early \in SUBSET Partitions
  /\ stage = "STAGE3" /\ partitionNum = 1
  /\ eccCall = "none" /\ earlyHandoff = FALSE
  /\ loaded = [p \in Partitions |-> 0]
  /\ EccIdle

-----------------------------------------------------------------------------
(* A slip to catch: stage 3 loads everything.                              *)
SkippedInStage4(p, device) == header[p].device = "PL" /\ device # "PL"

(* XFsbl_PartitionLoad skips the partitions of the other pass, whatever    *)
(* their validation said ...                                               *)
Skipped(p, device) == (header[p].device = "PL") # (device = "PL")

(* ... and those the boot loader does not own, and loads the rest, if they *)
(* are valid and nothing fails meanwhile.                                  *)
MayFail(p, device) == ~Skipped(p, device) /\ header[p].check # "notOwner"

Loads(p, device) == ~Skipped(p, device) /\ header[p].check = "success"

PartitionLoadSucceeds(p, device) ==
  /\ Skipped(p, device) \/ header[p].check # "error"
  /\ loaded' = [loaded EXCEPT ![p] = IF Loads(p, device) THEN @ + 1 ELSE @]

PartitionLoadFails(p, device) ==
  /\ MayFail(p, device)
  /\ UNCHANGED loaded

(* Stage 3, one turn of the main loop up to the ECC initialisation.        *)
Stage3Fails ==
  /\ stage = "STAGE3" /\ eccCall = "none"
  /\ PartitionLoadFails(partitionNum, "PL")
  /\ stage' = "ERR" /\ eccCall' = "due"
  /\ UNCHANGED << imageVars, partitionNum, earlyHandoff, eccVars >>

(* A slip to catch: the second pass goes on where the first one ended.     *)
Stage3NoRestart ==
  /\ stage = "STAGE3" /\ eccCall = "none"
  /\ PartitionLoadSucceeds(partitionNum, "PL")
  /\ IF partitionNum < NoOfPartitions - 1 /\ partitionNum \notin early
       THEN /\ partitionNum' = partitionNum + 1
            /\ UNCHANGED << stage, earlyHandoff >>
       ELSE /\ stage' = "STAGE4"
            /\ earlyHandoff' = (partitionNum \in early)
            /\ UNCHANGED partitionNum
  /\ eccCall' = "due"
  /\ UNCHANGED << imageVars, eccVars >>

(* An early handoff leaves for STAGE4, which was the handoff before the    *)
(* patch renumbered it: lines of main the patch leaves alone, and that it  *)
(* copies, with STAGE5 for STAGE4, to the new stage.  Only the last        *)
(* partition has the second pass start from 1.                             *)
Stage3 ==
  /\ stage = "STAGE3" /\ eccCall = "none"
  /\ PartitionLoadSucceeds(partitionNum, "PL")
  /\ IF partitionNum < NoOfPartitions - 1
       THEN IF partitionNum \in early
              THEN /\ stage' = "STAGE4" /\ earlyHandoff' = TRUE
                   /\ UNCHANGED partitionNum
              ELSE /\ partitionNum' = partitionNum + 1
                   /\ UNCHANGED << stage, earlyHandoff >>
       ELSE /\ partitionNum' = 1
            /\ stage' = "STAGE4"
            /\ earlyHandoff' = (partitionNum \in early)
  /\ eccCall' = "due"
  /\ UNCHANGED << imageVars, eccVars >>

(* XFsbl_DdrEccInit_main at the end of every turn of stage 3, be the load  *)
(* a success or not; the DDR's contents are gone.                          *)
EccBegins ==
  /\ eccCall = "due"
  /\ eccCall' = "running"
  /\ DdrEccInit
  /\ loaded' = [p \in Partitions |->
                  IF header[p].device = "PL" THEN loaded[p] ELSE 0]
  /\ UNCHANGED << imageVars, stage, partitionNum, earlyHandoff >>

EccRuns == (Loader \/ Channel) /\ UNCHANGED << imageVars, loadVars >>

EccReturns ==
  /\ eccCall = "running" /\ eccPc = "idle"
  /\ eccCall' = "none"
  /\ stage' = IF status = "XFSBL_SUCCESS" THEN stage ELSE "ERR"
  /\ UNCHANGED << imageVars, partitionNum, earlyHandoff, loaded, eccVars >>

Stage4Fails ==
  /\ stage = "STAGE4" /\ eccCall = "none"
  /\ PartitionLoadFails(partitionNum, "NONE")
  /\ stage' = "ERR"
  /\ UNCHANGED << imageVars, partitionNum, eccCall, earlyHandoff, eccVars >>

Stage4 ==
  /\ stage = "STAGE4" /\ eccCall = "none"
  /\ PartitionLoadSucceeds(partitionNum, "NONE")
  /\ IF partitionNum < NoOfPartitions - 1
       THEN IF partitionNum \in early
              THEN /\ stage' = "STAGE5" /\ earlyHandoff' = TRUE
                   /\ UNCHANGED partitionNum
              ELSE /\ partitionNum' = partitionNum + 1
                   /\ UNCHANGED << stage, earlyHandoff >>
       ELSE /\ stage' = "STAGE5"
            /\ earlyHandoff' = (partitionNum \in early)
            /\ UNCHANGED partitionNum
  /\ UNCHANGED << imageVars, eccCall, eccVars >>

(* Stage 5 hands off; the error stage falls back or locks down (external). *)
Ended == stage \in {"STAGE5", "ERR"} /\ eccCall = "none"

Next ==
  \/ Stage3Fails \/ Stage3
  \/ EccBegins \/ EccRuns \/ EccReturns
  \/ Stage4Fails \/ Stage4

(* Nothing else runs, every step of the loader ends, and so does every     *)
(* transfer of the channel.                                                *)
Spec == Init /\ [][Next]_vars /\ WF_vars(Next)

-----------------------------------------------------------------------------
(* Every variable has its type (one invariant for the whole module).       *)
TypeOK ==
  /\ header \in [Partitions -> Header] /\ early \in SUBSET Partitions
  /\ stage \in {"STAGE3", "STAGE4", "STAGE5", "ERR"}
  /\ partitionNum \in Partitions
  /\ eccCall \in {"none", "due", "running"} /\ earlyHandoff \in BOOLEAN
  /\ EccTypeOK
  /\ loaded \in [Partitions -> 0 .. 2]

(* "All Partitions Loaded": when the handoff comes with the last partition,*)
(* every partition the boot loader owns is valid and in memory, loaded     *)
(* once by the two passes together, and the DDR has its ECC.               *)
AllPartitionsLoaded ==
  stage = "STAGE5" /\ partitionNum = NoOfPartitions - 1 =>
    /\ status = "XFSBL_SUCCESS"
    /\ \A p \in Partitions :
         /\ header[p].check # "error"
         /\ header[p].check = "success" => loaded[p] = 1

(* Software is loaded only into a DDR that has its ECC, and after all of   *)
(* the programmable logic, or after what precedes a partition that asks    *)
(* for an early handoff.                                                   *)
LogicFirst ==
  (\E p \in Partitions : header[p].device = "PS" /\ loaded[p] # 0) =>
    /\ status = "XFSBL_SUCCESS"
    /\ \A p \in Partitions :
         /\ header[p] = [device |-> "PL", check |-> "success"]
         /\ \A q \in early : p <= q
         => loaded[p] = 1

Logic == {p \in Partitions : header[p].device = "PL"}
Done(p) == header[p].check # "error" /\ (header[p].check = "success" => loaded[p] = 1)

(* What the passes have done when the next partition is partitionNum.      *)
Pass3Inv ==
  /\ \A p \in Logic : IF p < partitionNum THEN Done(p) ELSE loaded[p] = 0
  /\ \A p \in Partitions \ Logic : loaded[p] = 0

(* The second pass begins at 1 after a whole first one, or where an early  *)
(* handoff ended the first, and then ends there too.                       *)
Pass4Inv ==
  \/ /\ \A p \in Logic : Done(p)
     /\ \A p \in Partitions \ Logic :
          IF p < partitionNum THEN Done(p) ELSE loaded[p] = 0
  \/ /\ partitionNum \in early /\ partitionNum < NoOfPartitions - 1
     /\ \A p \in Logic : p <= partitionNum => Done(p)
     /\ \A p \in Partitions \ Logic : loaded[p] = 0

(* How the boot loader and the initialisation it calls fit together.       *)
LoadInv ==
  /\ TypeOK /\ EccInv
  /\ stage = "STAGE3" => Pass3Inv
  /\ stage = "STAGE4" => Pass4Inv
  /\ stage = "STAGE4" /\ eccCall = "none" => status = "XFSBL_SUCCESS"
  /\ stage = "STAGE5" => eccCall = "none"
  /\ eccCall # "running" => eccPc = "idle"
  /\ eccCall # "none" => \A p \in Partitions \ Logic : loaded[p] = 0
  /\ LogicFirst /\ AllPartitionsLoaded

(* Running the initialisation once for each turn of stage 3 never wipes    *)
(* out a partition that was loaded before.                                 *)
NothingWiped == [][\A p \in Partitions : loaded'[p] >= loaded[p]]_vars

(* The loader comes to its handoff or to its error stage.                  *)
BootEnds == <>Ended
-----------------------------------------------------------------------------
(* Why it does: what is still ahead, outermost loop first: stages, turns of*)
(* the pass, the call at the end of a turn, banks, bytes of the bank, steps*)
(* for the next chunk, and what the channel has yet to write and report.   *)
Ahead ==
  << CASE stage = "STAGE3" -> 2 [] stage = "STAGE4" -> 1 [] OTHER -> 0,
     NoOfPartitions - partitionNum,
     CASE eccCall = "due" -> 2 [] eccCall = "running" -> 1 [] OTHER -> 0,
     2 - bank,
     numBytes,
     CASE eccPc = "wait" -> 5 [] eccPc = "poll" -> 4 [] eccPc = "check" -> 3
       [] eccPc = "end" -> 2 [] eccPc = "next" -> 1 [] OTHER -> 0,
     IF dmaDone THEN 0 ELSE 1 + Cardinality(Bytes(dscr.addr, dscr.size) \ ddr) >>

(* Less is ahead at s than at t: the outermost loop that differs decides.  *)
Nearer(s, t) ==
  \E i \in 1 .. 7 : s[i] < t[i] /\ \A j \in 1 .. i - 1 : s[j] = t[j]

(* Every step leaves less ahead: the passes, the calls, the loop over the  *)
(* chunks and the channel bring each other forward, and none starts        *)
(* another over for nothing.                                               *)
StepsAdvance == [][Nearer(Ahead', Ahead)]_vars

(* Before its end the loader is never left without a next step: it does    *)
(* not wait for a channel that nobody enabled, whose done bit it has       *)
(* cleared, or that has nothing left to report.                            *)
NeverStuck ==
  \/ Ended
  \/ eccCall = "none" /\ stage \in {"STAGE3", "STAGE4"}
  \/ eccCall = "due" /\ eccPc = "idle"
  \/ /\ eccCall = "running"
     /\ eccPc = "wait" => channel \in {"done", "error"}
     /\ eccPc = "poll" => dmaDone \/ channel = "busy"
=============================================================================

-------------------------- MODULE FsblLoadProofs --------------------------
(***************************************************************************)
(* Proofs about FsblLoad and EccInit, for any number of partitions, with   *)
(* one or two banks of DDR anywhere and of any length, and for any         *)
(* greatest length of a transfer.                                          *)
(***************************************************************************)
EXTENDS FsblLoad, FiniteSetTheorems, WellFoundedInduction, TLAPS

(* The banks are 1, or 1 and 2; their places are numbers.                  *)
LEMMA BankType ==
  ASSUME NEW b \in Banks
  PROVE  /\ b \in {1, 2} /\ Start[b] \in Nat /\ Length[b] \in Nat \ {0}
         /\ 1 \in Banks
BY EccAssumption

(* The bytes of a bank are of all bytes; those of the banks before the     *)
(* current one and of the part below startAddr are written.                *)
LEMMA BankBytes ==
  ASSUME NEW b \in Banks
  PROVE  Start[b] .. Start[b] + Length[b] - 1 \subseteq AllBytes
BY DEF AllBytes, Bytes

(* All of the last bank and the earlier ones are all bytes.                *)
LEMMA LastBank ==
  ASSUME bank \in Banks, bank + 1 \notin Banks, numBytes = 0,
         startAddr \in Nat, numBytes \in Nat,
         startAddr + numBytes = Start[bank] + Length[bank]
  PROVE  AllBytes \subseteq Written
<1>1. /\ startAddr = Start[bank] + Length[bank] /\ bank \in {1, 2}
      /\ Start[bank] \in Nat /\ Length[bank] \in Nat
  BY BankType
<1>2. Bytes(Start[bank], Length[bank]) = Start[bank] .. startAddr - 1
  <2>1. Start[bank] + Length[bank] - 1 = startAddr - 1
    BY <1>1
  <2>2. QED
    BY <2>1 DEF Bytes
<1>3. \A c \in Banks : c = bank \/ c < bank
  BY <1>1, BankType
<1>4. SUFFICES ASSUME NEW c \in Banks
               PROVE  Bytes(Start[c], Length[c]) \subseteq Written
  BY DEF AllBytes
<1>5. CASE c = bank
  BY <1>2, <1>5 DEF Written
<1>6. CASE c < bank
  <2>1. Bytes(Start[c], Length[c]) \subseteq Earlier
    BY <1>6 DEF Earlier
  <2>2. QED
    BY <2>1 DEF Written
<1>7. QED
  BY <1>3, <1>5, <1>6

(* Before the first bank nothing is written; after a bank it is earlier.   *)
LEMMA NothingEarlier ==
  ASSUME bank' = 1, startAddr' = Start[1]
  PROVE  Written' = {}
<1>1. 1 \in Banks /\ Start[1] \in Nat
  BY EccAssumption
<1>2. Earlier' = {}
  <2>1. {c \in Banks : c < 1} = {}
    BY BankType
  <2>2. Earlier' = UNION {Bytes(Start[b], Length[b]) : b \in {c \in Banks : c < 1}}
    BY DEF Earlier, Bytes
  <2>3. QED
    BY <2>1, <2>2
<1>3. (Start[1] .. Start[1] - 1) = {}
  BY <1>1
<1>4. Written' = Earlier' \cup (Start[1] .. Start[1] - 1)
  <2>1. Start[bank'] = Start[1]
    OBVIOUS
  <2>2. QED
    BY <2>1 DEF Written
<1>5. QED
  BY <1>2, <1>3, <1>4

LEMMA BankBecomesEarlier ==
  ASSUME bank \in Banks, bank + 1 \in Banks, bank' = bank + 1,
         startAddr \in Nat, startAddr = Start[bank] + Length[bank],
         startAddr' = Start[bank + 1]
  PROVE  Written' \subseteq Written
<1>1. /\ bank = 1 /\ bank + 1 = 2 /\ 1 \in Banks
      /\ Start[1] \in Nat /\ Length[1] \in Nat /\ Start[2] \in Nat
  BY BankType
<1>2. Earlier' = Bytes(Start[1], Length[1])
  <2>1. {c \in Banks : c < 2} = {1}
    <3>1. 1 \in Banks /\ \A c \in Banks : c = 1 \/ c = 2
      BY <1>1, BankType
    <3>2. 1 < 2 /\ ~(2 < 2)
      OBVIOUS
    <3>3. QED
      BY <3>1, <3>2
  <2>2. Earlier' = UNION {Bytes(Start[b], Length[b]) : b \in {c \in Banks : c < 2}}
    BY <1>1 DEF Earlier, Bytes
  <2>3. QED
    BY <2>1, <2>2
<1>3. (Start[2] .. Start[2] - 1) = {}
  BY <1>1
<1>4. Written' = Earlier'
  <2>1. Written' = Earlier' \cup (Start[bank'] .. startAddr' - 1)
    BY DEF Written
  <2>2. QED
    BY <1>1, <1>3, <2>1
<1>5. Bytes(Start[1], Length[1]) = Start[bank] .. startAddr - 1
  <2>1. Start[1] + Length[1] - 1 = startAddr - 1 /\ Start[bank] = Start[1]
    BY <1>1
  <2>2. QED
    BY <2>1 DEF Bytes
<1>6. QED
  BY <1>2, <1>4, <1>5 DEF Written

-----------------------------------------------------------------------------
LEMMA EccInitially == EccIdle => EccInv
<1> SUFFICES ASSUME EccIdle PROVE EccInv
  OBVIOUS
<1>1. 1 \in Banks /\ 0 \in 0 .. ZDMA_TRANSFER_MAX_LEN
  BY EccAssumption
<1>2. EccTypeOK
  BY <1>1 DEF EccIdle, EccTypeOK, ResetValues
<1>3. EccComplete
  BY DEF EccIdle, EccComplete
<1>4. QED
  BY <1>2, <1>3 DEF EccIdle, EccInv

(* The call, and the entry of the second bank.                             *)
LEMMA DdrEccInitStep ==
  ASSUME EccInv, DdrEccInit
  PROVE  EccInv'
<1> USE DEF EccInv, DdrEccInit, Enter
<1>1. /\ 1 \in Banks /\ Start[1] \in Nat /\ Length[1] \in Nat \ {0}
      /\ bank' = 1
  BY EccAssumption
<1>2. EccTypeOK'
  BY <1>1 DEF EccTypeOK
<1>3. EccComplete'
  BY DEF EccComplete
<1>4. Written' = {}
  BY <1>1, NothingEarlier
<1>5. /\ Start[bank'] <= startAddr' /\ numBytes' # 0
      /\ startAddr' + numBytes' = Start[bank'] + Length[bank']
  BY <1>1
<1>6. QED
  BY <1>2, <1>3, <1>4, <1>5

LEMMA NextBankStep ==
  ASSUME EccInv, NextBank
  PROVE  EccInv'
<1> USE DEF EccInv, NextBank, Enter, channelVars
<1>1. /\ bank \in Banks /\ bank + 1 \in Banks /\ startAddr \in Nat
      /\ Start[bank] \in Nat /\ Length[bank] \in Nat \ {0}
      /\ startAddr = Start[bank] + Length[bank]
      /\ Start[bank + 1] \in Nat /\ Length[bank + 1] \in Nat \ {0}
  BY BankType DEF EccTypeOK
<1>2. EccTypeOK'
  BY <1>1 DEF EccTypeOK
<1>3. EccComplete'
  BY DEF EccComplete, AllBytes, Bytes
<1>4. Written' \subseteq ddr'
  BY <1>1, BankBecomesEarlier
<1>5. /\ Start[bank'] <= startAddr' /\ numBytes' # 0
      /\ startAddr' + numBytes' = Start[bank'] + Length[bank']
  BY <1>1
<1>6. QED
  BY <1>2, <1>3, <1>4, <1>5

LEMMA ProgramStep ==
  ASSUME EccInv, Program
  PROVE  EccInv'
<1> USE DEF EccInv, Program
<1>1. /\ ZDMA_TRANSFER_MAX_LEN \in Nat \ {0} /\ numBytes \in Nat \ {0}
      /\ startAddr \in Nat
  BY EccAssumption DEF EccTypeOK
<1>2. chunk' \in 1 .. numBytes /\ chunk' \in 0 .. ZDMA_TRANSFER_MAX_LEN
  BY <1>1
<1>3. /\ dscr' \in [addr : Nat, size : Nat]
      /\ dscr'.addr = startAddr /\ dscr'.size = chunk'
  BY <1>1, <1>2
<1>4. EccTypeOK'
  BY <1>2, <1>3 DEF EccTypeOK
<1>5. EccComplete' /\ Written' = Written
  BY DEF EccComplete, AllBytes, Bytes, Written, Earlier
<1>6. QED
  BY <1>2, <1>3, <1>4, <1>5

LEMMA PollStep ==
  ASSUME EccInv, Poll
  PROVE  EccInv'
<1> USE DEF EccInv, Poll
<1>1. EccTypeOK'
  BY DEF EccTypeOK
<1>2. EccComplete' /\ Written' = Written
  BY DEF EccComplete, AllBytes, Bytes, Written, Earlier
<1>3. channel # "busy" /\ ~dmaDone'
  BY DEF EccTypeOK
<1>4. Bytes(startAddr, chunk)' = Bytes(startAddr, chunk)
  BY DEF Bytes
<1>5. QED
  BY <1>1, <1>2, <1>3, <1>4

LEMMA EccFailStep ==
  ASSUME EccInv, EccFail
  PROVE  EccInv'
<1> USE DEF EccInv, EccFail, channelVars
<1>1. EccTypeOK'
  BY DEF EccTypeOK
<1>2. EccComplete'
  BY DEF EccComplete, AllBytes, Bytes
<1>3. dcache' /\ eccPc' = "idle"
  OBVIOUS
<1>4. QED
  BY <1>1, <1>2, <1>3

LEMMA AdvanceStep ==
  ASSUME EccInv, Advance
  PROVE  EccInv'
<1> USE DEF EccInv, Advance, channelVars
<1>1. /\ numBytes \in Nat /\ startAddr \in Nat /\ chunk \in 1 .. numBytes
      /\ bank \in Banks /\ Start[bank] \in Nat /\ Length[bank] \in Nat
      /\ Start[bank] <= startAddr
      /\ startAddr + numBytes = Start[bank] + Length[bank]
  BY BankType DEF EccTypeOK
<1>2. /\ numBytes' \in Nat /\ startAddr' \in Nat /\ Start[bank] <= startAddr'
      /\ startAddr' + numBytes' = Start[bank] + Length[bank]
  BY <1>1
<1>3. EccTypeOK'
  BY <1>2 DEF EccTypeOK
<1>4. EccComplete'
  BY DEF EccComplete, AllBytes, Bytes
<1>5. Written' \subseteq ddr'
  <2>1. channel = "done"
    BY DEF EccTypeOK
  <2>2. Bytes(startAddr, chunk) \subseteq ddr /\ Written \subseteq ddr
    BY <2>1
  <2>3. Written' = Earlier \cup (Start[bank] .. startAddr + chunk - 1)
    <3>1. Earlier' = Earlier /\ bank' = bank /\ startAddr' = startAddr + chunk
      BY DEF Earlier, Bytes
    <3>2. Written' = Earlier' \cup (Start[bank'] .. startAddr' - 1)
      BY DEF Written
    <3>3. startAddr' - 1 = startAddr + chunk - 1
      BY <1>1
    <3>4. QED
      BY <3>1, <3>2, <3>3
  <2>4. Start[bank] .. startAddr + chunk - 1 =
          (Start[bank] .. startAddr - 1) \cup Bytes(startAddr, chunk)
    BY <1>1 DEF Bytes
  <2>5. QED
    BY <2>2, <2>3, <2>4 DEF Written
<1>6. QED
  BY <1>2, <1>3, <1>4, <1>5

LEMMA FinishStep ==
  ASSUME EccInv, Finish
  PROVE  EccInv'
<1> USE DEF EccInv, Finish
<1>1. ResetValues \in [addr : Nat, size : Nat]
  BY DEF ResetValues
<1>2. EccTypeOK'
  BY <1>1 DEF EccTypeOK
<1>3. Written' = Written /\ AllBytes' = AllBytes
  BY DEF AllBytes, Bytes, Written, Earlier
<1>4. dcache'
  OBVIOUS
<1>5. CASE bank + 1 \in Banks
  <2>1. eccPc' = "next" /\ status' = status
    BY <1>5
  <2>2. EccComplete'
    BY <1>3, <2>1 DEF EccComplete
  <2>3. QED
    BY <1>2, <1>3, <1>4, <1>5, <2>1, <2>2
<1>6. CASE bank + 1 \notin Banks
  <2>1. eccPc' = "idle"
    BY <1>6
  <2>2. AllBytes \subseteq Written
    BY <1>6, LastBank DEF EccTypeOK
  <2>3. EccComplete'
    BY <1>3, <2>2 DEF EccComplete
  <2>4. QED
    BY <1>2, <1>4, <2>1, <2>3
<1>7. QED
  BY <1>5, <1>6

(* The channel writes within the current bank.                             *)
LEMMA WriteStep ==
  ASSUME EccInv, NEW addr, Write(addr)
  PROVE  EccInv'
<1> USE DEF EccInv, Write, loaderVars
<1>1. eccPc = "poll"
  OBVIOUS
<1>2. /\ numBytes \in Nat /\ startAddr \in Nat /\ chunk \in 1 .. numBytes
      /\ bank \in Banks /\ Start[bank] \in Nat /\ Length[bank] \in Nat
      /\ Start[bank] <= startAddr
      /\ startAddr + numBytes = Start[bank] + Length[bank]
      /\ dscr.addr = startAddr /\ dscr.size = chunk
  BY <1>1, BankType DEF EccTypeOK
<1>3. addr \in startAddr .. startAddr + chunk - 1
  BY <1>2 DEF Bytes
<1>4. addr \in Nat /\ addr \in Start[bank] .. Start[bank] + Length[bank] - 1
  BY <1>2, <1>3
<1>5. addr \in AllBytes
  BY <1>2, <1>4, BankBytes
<1>6. EccTypeOK'
  BY <1>4 DEF EccTypeOK
<1>7. /\ Written' = Written /\ AllBytes' = AllBytes
      /\ Bytes(startAddr, chunk)' = Bytes(startAddr, chunk)
  BY DEF AllBytes, Bytes, Written, Earlier
<1>8. EccComplete'
  BY <1>1, <1>5, <1>7 DEF EccComplete
<1>9. QED
  BY <1>1, <1>6, <1>7, <1>8

LEMMA CompleteStep ==
  ASSUME EccInv, NEW outcome \in {"done", "error"}, Complete(outcome)
  PROVE  EccInv'
<1> USE DEF EccInv, Complete, loaderVars
<1>1. eccPc = "poll" /\ dscr.addr = startAddr /\ dscr.size = chunk
  OBVIOUS
<1>2. EccTypeOK'
  BY DEF EccTypeOK
<1>3. /\ Written' = Written
      /\ Bytes(startAddr, chunk)' = Bytes(startAddr, chunk)
      /\ EccComplete'
  BY DEF EccComplete, AllBytes, Bytes, Written, Earlier
<1>4. channel' # "busy" /\ dmaDone'
  BY DEF EccTypeOK
<1>5. channel' = "done" => Bytes(startAddr, chunk) \subseteq ddr
  BY <1>1
<1>6. QED
  BY <1>1, <1>2, <1>3, <1>4, <1>5

LEMMA EccStep ==
  ASSUME EccInv, DdrEccInit \/ Loader \/ Channel \/ UNCHANGED eccVars
  PROVE  EccInv'
<1>1. CASE DdrEccInit
  BY <1>1, DdrEccInitStep
<1>2. CASE Loader
  BY <1>2, ProgramStep, PollStep, EccFailStep, AdvanceStep, FinishStep,
     NextBankStep DEF Loader
<1>3. CASE Channel
  BY <1>3, WriteStep, CompleteStep DEF Channel
<1>4. CASE UNCHANGED eccVars
  <2> USE <1>4 DEF eccVars, loaderVars, channelVars, EccInv
  <2>1. EccTypeOK'
    BY DEF EccTypeOK
  <2>2. /\ Written' = Written
        /\ Bytes(startAddr, chunk)' = Bytes(startAddr, chunk)
        /\ EccComplete'
    BY DEF EccComplete, AllBytes, Bytes, Written, Earlier
  <2>3. QED
    BY <2>1, <2>2
<1>5. QED
  BY <1>1, <1>2, <1>3, <1>4

-----------------------------------------------------------------------------
(* The boot loader's own steps.                                            *)

LEMMA LoadInitially == Init => LoadInv
<1> SUFFICES ASSUME Init PROVE LoadInv
  OBVIOUS
<1>1. EccInv
  BY EccInitially DEF Init
<1>2. 1 \in Partitions /\ 0 \in 0 .. 2
  BY FsblAssumption DEF Partitions
<1>3. TypeOK
  BY <1>1, <1>2 DEF Init, TypeOK, EccInv
<1>4. Pass3Inv
  BY DEF Init, Pass3Inv, Logic, Partitions
<1>5. LogicFirst /\ AllPartitionsLoaded
  BY DEF Init, LogicFirst, AllPartitionsLoaded
<1>6. QED
  BY <1>1, <1>3, <1>4, <1>5 DEF LoadInv, Init, EccIdle

(* While no software is loaded the order of loading is kept.               *)
LEMMA NoSoftware ==
  ASSUME TypeOK, \A p \in Partitions \ Logic : loaded[p] = 0
  PROVE  LogicFirst
<1>1. \A p \in Partitions : header[p].device = "PS" => p \in Partitions \ Logic
  BY DEF Logic
<1>2. QED
  BY <1>1 DEF LogicFirst

LEMMA StageFails ==
  ASSUME LoadInv, Stage3Fails \/ Stage4Fails
  PROVE  LoadInv'
<1> USE DEF LoadInv, PartitionLoadFails, imageVars
<1>1. /\ UNCHANGED << loaded, header, early, partitionNum, earlyHandoff >>
      /\ UNCHANGED eccVars /\ stage' = "ERR" /\ eccPc = "idle"
      /\ eccCall' = eccCall \/ (stage = "STAGE3" /\ eccCall' = "due")
  BY DEF Stage3Fails, Stage4Fails
<1>2. EccInv'
  BY <1>1, EccStep
<1>3. TypeOK'
  BY <1>1, <1>2 DEF TypeOK, EccInv
<1>4. eccCall' # "none" => \A p \in Partitions \ Logic : loaded[p] = 0
  BY <1>1 DEF Pass3Inv
<1>5. Logic' = Logic
  BY <1>1 DEF Logic
<1>6. status' = status
  BY <1>1 DEF eccVars, loaderVars
<1>7. LogicFirst' /\ AllPartitionsLoaded'
  BY <1>1, <1>6 DEF LogicFirst, AllPartitionsLoaded
<1>8. eccPc' = "idle"
  BY <1>1 DEF eccVars, loaderVars
<1>9. QED
  BY <1>1, <1>2, <1>3, <1>4, <1>5, <1>7, <1>8

(* A turn of the first pass deals with one partition of the logic.         *)
LEMMA Stage3Step ==
  ASSUME LoadInv, Stage3
  PROVE  LoadInv'
<1> USE DEF LoadInv, imageVars
<1> DEFINE n == partitionNum
<1>1. /\ stage = "STAGE3" /\ eccCall = "none" /\ eccCall' = "due"
      /\ UNCHANGED << header, early >> /\ UNCHANGED eccVars
      /\ eccPc' = eccPc /\ status' = status
      /\ n \in Partitions /\ Logic' = Logic /\ Pass3Inv
  BY DEF Stage3, TypeOK, eccVars, loaderVars, Logic
<1>2. /\ NoOfPartitions \in Nat /\ NoOfPartitions >= 2
      /\ \A p \in Partitions : p \in Nat /\ p < NoOfPartitions
      /\ Partitions = 1 .. NoOfPartitions - 1
  BY FsblAssumption DEF Partitions
<1>3. EccInv'
  BY <1>1, EccStep
<1>4. /\ \A p \in Partitions : p # n => loaded'[p] = loaded[p]
      /\ n \in Logic =>
           /\ header[n].check # "error"
           /\ loaded'[n] = IF header[n].check = "success" THEN 1 ELSE 0
      /\ n \notin Logic => loaded'[n] = 0
      /\ loaded' \in [Partitions -> 0 .. 2]
  <2>1. /\ Skipped(n, "PL") \/ header[n].check # "error"
        /\ loaded' = [loaded EXCEPT ![n] = IF Loads(n, "PL") THEN @ + 1 ELSE @]
    BY DEF Stage3, PartitionLoadSucceeds
  <2>2. Skipped(n, "PL") <=> n \notin Logic
    BY <1>1 DEF Skipped, Logic
  <2>3. Loads(n, "PL") <=> n \in Logic /\ header[n].check = "success"
    BY <2>2 DEF Loads
  <2>4. loaded \in [Partitions -> 0 .. 2] /\ loaded[n] = 0
    BY <1>1, <1>2 DEF TypeOK, Pass3Inv
  <2>5. QED
    BY <1>1, <2>1, <2>2, <2>3, <2>4
<1>5. \A p \in Logic : IF p <= n THEN Done(p)' ELSE loaded'[p] = 0
  <2>1. \A p \in Logic : p < n => Done(p)'
    BY <1>1, <1>2, <1>4 DEF Pass3Inv, Done, Logic
  <2>2. \A p \in Logic : p = n => Done(p)'
    BY <1>1, <1>4 DEF Done
  <2>3. \A p \in Logic : p > n => loaded'[p] = 0
    BY <1>1, <1>2, <1>4 DEF Pass3Inv, Logic
  <2>4. \A p \in Logic : p \in Nat /\ n \in Nat
    BY <1>1, <1>2 DEF Logic
  <2>5. QED
    BY <2>1, <2>2, <2>3, <2>4
<1>6. \A p \in Partitions \ Logic : loaded'[p] = 0
  BY <1>1, <1>4 DEF Pass3Inv
<1>7. \/ /\ stage' = "STAGE4" /\ n' = n /\ n \in early
         /\ n < NoOfPartitions - 1
      \/ stage' = "STAGE3" /\ n' = n + 1 /\ n < NoOfPartitions - 1
      \/ stage' = "STAGE4" /\ n' = 1 /\ n = NoOfPartitions - 1
  BY <1>1, <1>2 DEF Stage3
<1>8. n' \in Partitions /\ earlyHandoff' \in BOOLEAN
  <2>1. n' \in Partitions
    BY <1>1, <1>2, <1>7
  <2>2. \/ earlyHandoff' = TRUE \/ earlyHandoff' = earlyHandoff
        \/ earlyHandoff' = (n \in early)
    BY Zenon DEF Stage3
  <2>3. earlyHandoff' \in BOOLEAN
    <3>1. earlyHandoff \in BOOLEAN
      BY DEF TypeOK
    <3>2. (n \in early) \in BOOLEAN
      OBVIOUS
    <3>3. CASE earlyHandoff' = earlyHandoff
      BY <3>1, <3>3
    <3>4. CASE earlyHandoff' = (n \in early)
      BY <3>2, <3>4, Zenon
    <3>5. QED
      BY <2>2, <3>3, <3>4
  <2>4. QED
    BY <2>1, <2>3
<1>9. TypeOK'
  BY <1>1, <1>3, <1>4, <1>7, <1>8 DEF TypeOK, EccInv
<1>10. stage' = "STAGE3" => Pass3Inv'
  <2> SUFFICES ASSUME stage' = "STAGE3" PROVE Pass3Inv'
    OBVIOUS
  <2>1. n' = n + 1 /\ n \in Nat /\ \A p \in Logic : p \in Nat
    BY <1>1, <1>2, <1>7 DEF Logic
  <2>2. \A p \in Logic : p < n' <=> p <= n
    BY <2>1
  <2>3. QED
    BY <1>1, <1>5, <1>6, <2>2 DEF Pass3Inv
<1>11. stage' = "STAGE4" => Pass4Inv'
  <2> SUFFICES ASSUME stage' = "STAGE4" PROVE Pass4Inv'
    OBVIOUS
  <2>1. CASE n' = n /\ n \in early /\ n < NoOfPartitions - 1
    BY <1>1, <1>5, <1>6, <2>1 DEF Pass4Inv
  <2>2. CASE n' = 1 /\ n = NoOfPartitions - 1
    <3>1. \A p \in Logic : p <= n
      BY <1>2, <2>2 DEF Logic
    <3>2. \A p \in Partitions \ Logic : ~(p < n')
      BY <1>2, <2>2
    <3>3. QED
      BY <1>1, <1>5, <1>6, <3>1, <3>2 DEF Pass4Inv
  <2>3. QED
    BY <1>7, <2>1, <2>2
<1>12. LogicFirst' /\ AllPartitionsLoaded'
  <2>1. \A p \in Partitions : header'[p].device = "PS" => p \in Partitions \ Logic
    BY <1>1 DEF Logic
  <2>2. stage' # "STAGE5"
    BY <1>7
  <2>3. QED
    BY <1>6, <2>1, <2>2 DEF LogicFirst, AllPartitionsLoaded
<1>13. QED
  BY <1>1, <1>3, <1>6, <1>7, <1>9, <1>10, <1>11, <1>12

(* A turn of the second pass deals with one partition of the software, and *)
(* is the last one if the first pass has ended early.                      *)
LEMMA Stage4Step ==
  ASSUME LoadInv, Stage4
  PROVE  LoadInv'
<1> USE DEF LoadInv, imageVars
<1> DEFINE n == partitionNum
           Software == Partitions \ Logic
<1>1. /\ stage = "STAGE4" /\ eccCall = "none" /\ eccCall' = "none"
      /\ UNCHANGED << header, early >> /\ UNCHANGED eccVars
      /\ eccPc' = eccPc /\ status' = "XFSBL_SUCCESS"
      /\ n \in Partitions /\ Logic' = Logic /\ Pass4Inv
  BY DEF Stage4, TypeOK, eccVars, loaderVars, Logic
<1>2. /\ NoOfPartitions \in Nat /\ NoOfPartitions >= 2
      /\ \A p \in Partitions : p \in Nat /\ p < NoOfPartitions
      /\ Partitions = 1 .. NoOfPartitions - 1
  BY FsblAssumption DEF Partitions
<1>3. EccInv'
  BY <1>1, EccStep
<1>4. /\ \A p \in Partitions : p # n => loaded'[p] = loaded[p]
      /\ n \in Logic => loaded'[n] = loaded[n]
      /\ n \notin Logic =>
           /\ header[n].check # "error"
           /\ loaded'[n] = IF header[n].check = "success" THEN 1 ELSE 0
      /\ loaded' \in [Partitions -> 0 .. 2]
  <2>1. /\ Skipped(n, "NONE") \/ header[n].check # "error"
        /\ loaded' = [loaded EXCEPT ![n] = IF Loads(n, "NONE") THEN @ + 1 ELSE @]
    BY DEF Stage4, PartitionLoadSucceeds
  <2>2. Skipped(n, "NONE") <=> n \in Logic
    BY <1>1 DEF Skipped, Logic
  <2>3. Loads(n, "NONE") <=> n \notin Logic /\ header[n].check = "success"
    BY <2>2 DEF Loads
  <2>4. loaded \in [Partitions -> 0 .. 2]
    BY DEF TypeOK
  <2>5. n \notin Logic => loaded[n] = 0
    BY <1>1, <1>2 DEF Pass4Inv
  <2>6. QED
    BY <1>1, <2>1, <2>2, <2>3, <2>4, <2>5
<1>5. \A p \in Logic : Done(p) => Done(p)'
  BY <1>1, <1>4 DEF Done, Logic
<1>6. \A p \in Software : p = n => Done(p)'
  BY <1>1, <1>4 DEF Done
<1>7. /\ stage' = "STAGE5" /\ n' = n /\ (n < NoOfPartitions - 1 => n \in early)
      \/ /\ stage' = "STAGE4" /\ n' = n + 1
         /\ n < NoOfPartitions - 1 /\ n \notin early
  BY <1>1, <1>2 DEF Stage4
<1>8. TypeOK'
  <2>1. n' \in Partitions
    BY <1>1, <1>2, <1>7
  <2>2. earlyHandoff' \in BOOLEAN
    <3>1. earlyHandoff \in BOOLEAN /\ (n \in early) \in BOOLEAN
      BY DEF TypeOK
    <3>2. \/ earlyHandoff' = TRUE \/ earlyHandoff' = earlyHandoff
          \/ earlyHandoff' = (n \in early)
      BY Zenon DEF Stage4
    <3>3. CASE earlyHandoff' = earlyHandoff
      BY <3>1, <3>3
    <3>4. CASE earlyHandoff' = (n \in early)
      BY <3>1, <3>4, Zenon
    <3>5. QED
      BY <3>2, <3>3, <3>4
  <2>3. QED
    BY <1>1, <1>3, <1>4, <1>7, <2>1, <2>2 DEF TypeOK, EccInv
<1>9. CASE /\ n \in early /\ n < NoOfPartitions - 1
           /\ \A p \in Logic : p <= n => Done(p)
  <2>1. stage' = "STAGE5" /\ n' # NoOfPartitions - 1
    BY <1>1, <1>2, <1>7, <1>9
  <2>2. \A p \in Logic : p <= n => Done(p)'
    BY <1>5, <1>9
  <2>3. LogicFirst'
    <3>1. \A p \in Partitions : header'[p].device = "PL" => p \in Logic
      BY <1>1 DEF Logic
    <3>2. QED
      BY <1>1, <1>9, <2>2, <3>1 DEF LogicFirst, Done
  <2>4. QED
    BY <1>1, <1>3, <1>8, <2>1, <2>3 DEF AllPartitionsLoaded
<1>10. CASE /\ \A p \in Logic : Done(p)
            /\ \A p \in Software : IF p < n THEN Done(p) ELSE loaded[p] = 0
  <2>1. \A p \in Logic : Done(p)'
    BY <1>5, <1>10
  <2>2. \A p \in Software : IF p <= n THEN Done(p)' ELSE loaded'[p] = 0
    <3> SUFFICES ASSUME NEW p \in Software
                 PROVE  IF p <= n THEN Done(p)' ELSE loaded'[p] = 0
      OBVIOUS
    <3>1. p \in Nat /\ n \in Nat
      BY <1>1, <1>2
    <3>2. CASE p = n
      BY <1>6, <3>1, <3>2
    <3>3. CASE p < n
      BY <1>1, <1>4, <1>10, <3>1, <3>3 DEF Done
    <3>4. CASE p > n
      BY <1>4, <1>10, <3>1, <3>4
    <3>5. QED
      BY <3>1, <3>2, <3>3, <3>4
  <2>3. LogicFirst'
    <3>1. \A p \in Partitions : header'[p].device = "PL" => p \in Logic
      BY <1>1 DEF Logic
    <3>2. QED
      BY <1>1, <2>1, <3>1 DEF LogicFirst, Done
  <2>4. CASE stage' = "STAGE5" /\ n' = n
    <3>1. ASSUME n = NoOfPartitions - 1, NEW p \in Partitions
          PROVE  Done(p)'
      <4>1. p <= n
        BY <1>2, <3>1
      <4>2. QED
        BY <2>1, <2>2, <4>1
    <3>2. AllPartitionsLoaded'
      BY <1>1, <2>4, <3>1 DEF AllPartitionsLoaded, Done
    <3>3. QED
      BY <1>1, <1>3, <1>8, <2>3, <2>4, <3>2
  <2>5. CASE stage' = "STAGE4" /\ n' = n + 1
    <3>1. \A p \in Software : p < n' <=> p <= n
      BY <1>1, <1>2, <2>5
    <3>2. Pass4Inv'
      BY <1>1, <2>1, <2>2, <3>1 DEF Pass4Inv
    <3>3. QED
      BY <1>1, <1>3, <1>8, <2>3, <2>5, <3>2 DEF AllPartitionsLoaded
  <2>6. QED
    BY <1>7, <2>4, <2>5
<1>11. QED
  BY <1>1, <1>9, <1>10 DEF Pass4Inv

(* The initialisation begins: it wipes out software, of which there is none.*)
LEMMA EccBeginsStep ==
  ASSUME LoadInv, EccBegins
  PROVE  LoadInv' /\ loaded' = loaded
<1> USE DEF LoadInv, imageVars
<1>1. /\ eccCall = "due" /\ eccCall' = "running" /\ DdrEccInit
      /\ UNCHANGED << header, early, stage, partitionNum, earlyHandoff >>
      /\ \A p \in Partitions \ Logic : loaded[p] = 0
      /\ loaded' = [p \in Partitions |->
                      IF header[p].device = "PL" THEN loaded[p] ELSE 0]
      /\ loaded \in [Partitions -> 0 .. 2]
  BY DEF EccBegins, TypeOK
<1>2. loaded' = loaded
  <2>1. \A p \in Partitions :
          loaded[p] = IF header[p].device = "PL" THEN loaded[p] ELSE 0
    BY <1>1 DEF Logic
  <2>2. QED
    BY <1>1, <2>1
<1>3. EccInv'
  BY <1>1, EccStep
<1>4. TypeOK'
  BY <1>1, <1>2, <1>3 DEF TypeOK, EccInv
<1>5. Logic' = Logic /\ (\A p \in Partitions : Done(p)' <=> Done(p))
  BY <1>1, <1>2 DEF Logic, Done
<1>6. (Pass3Inv => Pass3Inv') /\ (Pass4Inv => Pass4Inv')
  BY <1>1, <1>2, <1>5 DEF Pass3Inv, Pass4Inv, Logic
<1>7. LogicFirst'
  <2>1. \A p \in Partitions : header'[p].device = "PS" => p \in Partitions \ Logic
    BY <1>1 DEF Logic
  <2>2. QED
    BY <1>1, <1>2, <2>1 DEF LogicFirst
<1>8. AllPartitionsLoaded'
  BY <1>1 DEF AllPartitionsLoaded
<1>9. QED
  BY <1>1, <1>2, <1>3, <1>4, <1>5, <1>6, <1>7, <1>8

LEMMA EccRunsStep ==
  ASSUME LoadInv, EccRuns
  PROVE  LoadInv'
<1> USE DEF LoadInv, imageVars, loadVars
<1>1. /\ Loader \/ Channel
      /\ UNCHANGED << header, early, stage, partitionNum, eccCall,
                      earlyHandoff, loaded >>
  BY DEF EccRuns
<1>2. EccInv'
  BY <1>1, EccStep
<1>3. eccPc # "idle"
  BY <1>1 DEF Loader, Channel, Program, Poll, EccFail, Advance, Finish,
              NextBank, Write, Complete, EccInv
<1>4. eccCall = "running"
  BY <1>3
<1>5. TypeOK'
  BY <1>1, <1>2 DEF TypeOK, EccInv
<1>6. Logic' = Logic /\ (\A p \in Partitions : Done(p)' <=> Done(p))
  BY <1>1 DEF Logic, Done
<1>7. (Pass3Inv => Pass3Inv') /\ (Pass4Inv => Pass4Inv')
  BY <1>1, <1>6 DEF Pass3Inv, Pass4Inv, Logic
<1>8. LogicFirst'
  <2>1. \A p \in Partitions : header'[p].device = "PS" => p \in Partitions \ Logic
    BY <1>1 DEF Logic
  <2>2. QED
    BY <1>1, <1>4, <2>1 DEF LogicFirst
<1>9. AllPartitionsLoaded'
  BY <1>1, <1>4 DEF AllPartitionsLoaded
<1>10. QED
  BY <1>1, <1>2, <1>4, <1>5, <1>6, <1>7, <1>8, <1>9

LEMMA EccReturnsStep ==
  ASSUME LoadInv, EccReturns
  PROVE  LoadInv'
<1> USE DEF LoadInv, imageVars
<1>1. /\ eccCall = "running" /\ eccPc = "idle" /\ eccCall' = "none"
      /\ stage' = IF status = "XFSBL_SUCCESS" THEN stage ELSE "ERR"
      /\ UNCHANGED << header, early, partitionNum, earlyHandoff, loaded >>
      /\ UNCHANGED eccVars /\ eccPc' = eccPc /\ status' = status
  BY DEF EccReturns, eccVars, loaderVars
<1>2. EccInv'
  BY <1>1, EccStep
<1>3. TypeOK'
  BY <1>1, <1>2 DEF TypeOK, EccInv
<1>4. Logic' = Logic /\ (\A p \in Partitions : Done(p)' <=> Done(p))
  BY <1>1 DEF Logic, Done
<1>5. (Pass3Inv => Pass3Inv') /\ (Pass4Inv => Pass4Inv')
  BY <1>1, <1>4 DEF Pass3Inv, Pass4Inv, Logic
<1>6. LogicFirst' /\ AllPartitionsLoaded'
  BY <1>1 DEF LogicFirst, AllPartitionsLoaded
<1>7. QED
  BY <1>1, <1>2, <1>3, <1>5, <1>6

LEMMA LoadStep == LoadInv /\ [Next]_vars => LoadInv'
<1> SUFFICES ASSUME LoadInv, [Next]_vars PROVE LoadInv'
  OBVIOUS
<1>1. CASE Next
  BY <1>1, StageFails, Stage3Step, Stage4Step, EccBeginsStep, EccRunsStep,
     EccReturnsStep DEF Next
<1>2. CASE UNCHANGED vars
  <2> USE <1>2 DEF LoadInv, vars, imageVars, loadVars
  <2>1. EccInv'
    BY EccStep
  <2>2. TypeOK'
    BY <2>1 DEF TypeOK, EccInv
  <2>3. Logic' = Logic /\ (\A p \in Partitions : Done(p)' <=> Done(p))
    BY DEF Logic, Done
  <2>4. (Pass3Inv => Pass3Inv') /\ (Pass4Inv => Pass4Inv')
    BY <2>3 DEF Pass3Inv, Pass4Inv, Logic
  <2>5. eccPc' = eccPc /\ status' = status
    BY DEF eccVars, loaderVars
  <2>6. LogicFirst' /\ AllPartitionsLoaded'
    BY <2>5 DEF LogicFirst, AllPartitionsLoaded
  <2>7. QED
    BY <2>1, <2>2, <2>3, <2>4, <2>5, <2>6
<1>3. QED
  BY <1>1, <1>2

-----------------------------------------------------------------------------
(* The inductive invariant: types, what the loop of the initialisation and *)
(* the channel have done, and what the passes have done.                   *)
THEOREM LoadInvariant == Spec => []LoadInv
<1>1. QED
  BY LoadInitially, LoadStep, PTL DEF Spec

(* A handoff that comes with the last partition finds all of them valid    *)
(* and loaded once, for any image.                                         *)
THEOREM EveryPartitionLoaded == Spec => []AllPartitionsLoaded
<1>1. LoadInv => AllPartitionsLoaded
  BY DEF LoadInv
<1>2. QED
  BY <1>1, LoadInvariant, PTL

(* Software goes into initialised memory, after the logic before it.       *)
THEOREM LogicComesFirst == Spec => []LogicFirst
<1>1. LoadInv => LogicFirst
  BY DEF LoadInv
<1>2. QED
  BY <1>1, LoadInvariant, PTL

(* Success means that all bytes of all banks were written, and no others,  *)
(* for banks of any length and any greatest length of a transfer.          *)
THEOREM EccIsComplete == Spec => []EccComplete
<1>1. LoadInv => EccComplete
  BY DEF LoadInv, EccInv
<1>2. QED
  BY <1>1, LoadInvariant, PTL

(* The channel never writes behind an enabled data cache.                  *)
THEOREM CacheIsDisciplined == Spec => []CacheDiscipline
<1>1. LoadInv => CacheDiscipline
  BY DEF LoadInv, EccInv, CacheDiscipline
<1>2. QED
  BY <1>1, LoadInvariant, PTL

(* No transfer under way is reprogrammed.                                  *)
THEOREM DescriptorIsStable == Spec => DescriptorStable
<1>1. LoadInv /\ [Next]_vars => [channel = "busy" => dscr' = dscr]_eccVars
  <2> SUFFICES ASSUME LoadInv, [Next]_vars, channel = "busy"
               PROVE  dscr' = dscr
    OBVIOUS
  <2>1. eccPc = "poll" /\ eccCall = "running"
    BY DEF LoadInv, EccInv
  <2>2. CASE EccRuns
    BY <2>1, <2>2 DEF EccRuns, Loader, Channel, Program, Poll, EccFail,
       Advance, Finish, NextBank, Write, Complete, loaderVars, channelVars
  <2>3. CASE EccReturns
    BY <2>1, <2>3 DEF EccReturns
  <2>4. CASE Stage3Fails \/ Stage3 \/ EccBegins \/ Stage4Fails \/ Stage4
    BY <2>1, <2>4 DEF Stage3Fails, Stage3, EccBegins, Stage4Fails, Stage4
  <2>5. CASE UNCHANGED vars
    BY <2>5 DEF vars, eccVars, channelVars
  <2>6. QED
    BY <2>2, <2>3, <2>4, <2>5 DEF Next
<1>2. QED
  BY <1>1, LoadInvariant, PTL DEF Spec, DescriptorStable

(* No call of the initialisation wipes out what was loaded.                *)
THEOREM NothingIsWiped == Spec => NothingWiped
<1>1. LoadInv /\ [Next]_vars =>
        [\A p \in Partitions : loaded'[p] >= loaded[p]]_vars
  <2> SUFFICES ASSUME LoadInv, Next, NEW p \in Partitions
               PROVE  loaded'[p] >= loaded[p]
    OBVIOUS
  <2>1. loaded \in [Partitions -> 0 .. 2]
    BY DEF LoadInv, TypeOK
  <2>2. CASE loaded' = loaded
    BY <2>1, <2>2
  <2>3. CASE Stage3 \/ Stage4
    <3>1. PICK device \in {"PL", "NONE"} :
            loaded' = [loaded EXCEPT ![partitionNum] =
                         IF Loads(partitionNum, device) THEN @ + 1 ELSE @]
      BY <2>3 DEF Stage3, Stage4, PartitionLoadSucceeds
    <3>2. QED
      BY <2>1, <3>1
  <2>4. CASE EccBegins
    BY <2>2, <2>4, EccBeginsStep
  <2>5. CASE Stage3Fails \/ EccRuns \/ EccReturns \/ Stage4Fails
    BY <2>2, <2>5 DEF Stage3Fails, EccRuns, EccReturns, Stage4Fails,
       PartitionLoadFails, loadVars
  <2>6. QED
    BY <2>3, <2>4, <2>5 DEF Next
<1>2. QED
  BY <1>1, LoadInvariant, PTL DEF Spec, NothingWiped

-----------------------------------------------------------------------------
(* The end of booting: a measure of what is ahead.                         *)

(* What the channel has still to write is finite, and a byte that is       *)
(* written is one less.                                                    *)
Unwritten == Bytes(dscr.addr, dscr.size) \ ddr

LEMMA UnwrittenType ==
  ASSUME EccTypeOK
  PROVE  IsFiniteSet(Unwritten) /\ Cardinality(Unwritten) \in Nat
<1>1. dscr.addr \in Nat /\ dscr.size \in Nat
  BY DEF EccTypeOK
<1>2. dscr.addr \in Int /\ dscr.addr + dscr.size - 1 \in Int
  BY <1>1
<1>3. IsFiniteSet(Bytes(dscr.addr, dscr.size))
  BY <1>2, FS_Interval DEF Bytes
<1>4. IsFiniteSet(Unwritten)
  BY <1>3, FS_Subset DEF Unwritten
<1>5. QED
  BY <1>4, FS_CardinalityType

LEMMA WriteLeavesLess ==
  ASSUME EccTypeOK, NEW addr \in Bytes(dscr.addr, dscr.size), Write(addr)
  PROVE  Cardinality(Unwritten') < Cardinality(Unwritten)
<1>1. addr \in Unwritten /\ Unwritten' = Unwritten \ {addr}
  BY DEF Write, Unwritten, Bytes, loaderVars
<1>2. IsFiniteSet(Unwritten) /\ Cardinality(Unwritten) \in Nat
  BY UnwrittenType
<1>3. Cardinality(Unwritten \ {addr}) = Cardinality(Unwritten) - 1
  BY <1>1, <1>2, FS_RemoveElement
<1>4. QED
  BY <1>1, <1>2, <1>3

(* The parts of the measure, by name.                                      *)
StagesAhead == CASE stage = "STAGE3" -> 2 [] stage = "STAGE4" -> 1 [] OTHER -> 0
TurnsAhead == NoOfPartitions - partitionNum
CallAhead ==
  CASE eccCall = "due" -> 2 [] eccCall = "running" -> 1 [] OTHER -> 0
BanksAhead == 2 - bank
StepsAhead ==
  CASE eccPc = "wait" -> 5 [] eccPc = "poll" -> 4 [] eccPc = "check" -> 3
    [] eccPc = "end" -> 2 [] eccPc = "next" -> 1 [] OTHER -> 0
WritesAhead == IF dmaDone THEN 0 ELSE 1 + Cardinality(Unwritten)

LEMMA AheadParts ==
  Ahead = << StagesAhead, TurnsAhead, CallAhead, BanksAhead, numBytes,
             StepsAhead, WritesAhead >>
BY DEF Ahead, StagesAhead, TurnsAhead, CallAhead, BanksAhead, StepsAhead,
       WritesAhead, Unwritten

LEMMA AheadType ==
  ASSUME LoadInv
  PROVE  Ahead \in [1 .. 7 -> Nat]
<1>1. StagesAhead \in Nat /\ CallAhead \in Nat /\ StepsAhead \in Nat
  BY DEF StagesAhead, CallAhead, StepsAhead
<1>2. TurnsAhead \in Nat
  BY FsblAssumption DEF LoadInv, TypeOK, TurnsAhead, Partitions
<1>3. BanksAhead \in Nat
  <2>1. bank \in {1, 2}
    BY BankType DEF LoadInv, TypeOK, EccTypeOK
  <2>2. QED
    BY <2>1 DEF BanksAhead
<1>4. WritesAhead \in Nat
  <2>1. Cardinality(Unwritten) \in Nat
    BY UnwrittenType DEF LoadInv, TypeOK
  <2>2. QED
    BY <2>1 DEF WritesAhead
<1>5. numBytes \in Nat
  BY DEF LoadInv, TypeOK, EccTypeOK
<1>6. QED
  BY <1>1, <1>2, <1>3, <1>4, <1>5, AheadParts

(* A part that falls while those before it stay brings the end nearer.     *)
LEMMA NearerAt ==
  ASSUME NEW s, NEW t,
         \/ s[1] < t[1]
         \/ s[1] = t[1] /\ s[2] < t[2]
         \/ s[1] = t[1] /\ s[2] = t[2] /\ s[3] < t[3]
         \/ /\ s[1] = t[1] /\ s[2] = t[2] /\ s[3] = t[3]
            /\ \/ s[4] < t[4]
               \/ s[4] = t[4] /\ s[5] < t[5]
               \/ s[4] = t[4] /\ s[5] = t[5] /\ s[6] < t[6]
               \/ s[4] = t[4] /\ s[5] = t[5] /\ s[6] = t[6] /\ s[7] < t[7]
  PROVE  Nearer(s, t)
<1>1. /\ \A j \in 1 .. 1 - 1 : FALSE
      /\ \A j \in 1 .. 2 - 1 : j = 1
      /\ \A j \in 1 .. 3 - 1 : j = 1 \/ j = 2
      /\ \A j \in 1 .. 4 - 1 : j = 1 \/ j = 2 \/ j = 3
      /\ \A j \in 1 .. 5 - 1 : j = 1 \/ j = 2 \/ j = 3 \/ j = 4
      /\ \A j \in 1 .. 6 - 1 : j = 1 \/ j = 2 \/ j = 3 \/ j = 4 \/ j = 5
      /\ \A j \in 1 .. 7 - 1 : j = 1 \/ j = 2 \/ j = 3 \/ j = 4 \/ j = 5 \/ j = 6
  OBVIOUS
<1>2. \A i \in {1, 2, 3, 4, 5, 6, 7} : i \in 1 .. 7
  OBVIOUS
<1>3. \A i \in {1, 2, 3, 4, 5, 6, 7} :
        s[i] < t[i] /\ (\A j \in 1 .. i - 1 : s[j] = t[j]) => Nearer(s, t)
  BY <1>2, Zenon DEF Nearer
<1>4. QED
  BY <1>1, <1>3, Zenon

(* The same about the measure.                                             *)
LEMMA AheadFalls ==
  ASSUME \/ StagesAhead' < StagesAhead
         \/ StagesAhead' = StagesAhead /\ TurnsAhead' < TurnsAhead
         \/ /\ StagesAhead' = StagesAhead /\ TurnsAhead' = TurnsAhead
            /\ CallAhead' < CallAhead
         \/ /\ StagesAhead' = StagesAhead /\ TurnsAhead' = TurnsAhead
            /\ CallAhead' = CallAhead
            /\ \/ BanksAhead' < BanksAhead
               \/ BanksAhead' = BanksAhead /\ numBytes' < numBytes
               \/ /\ BanksAhead' = BanksAhead /\ numBytes' = numBytes
                  /\ StepsAhead' < StepsAhead
               \/ /\ BanksAhead' = BanksAhead /\ numBytes' = numBytes
                  /\ StepsAhead' = StepsAhead /\ WritesAhead' < WritesAhead
  PROVE  Nearer(Ahead', Ahead)
<1>1. Ahead' = << StagesAhead', TurnsAhead', CallAhead', BanksAhead', numBytes',
                  StepsAhead', WritesAhead' >>
  BY DEF Ahead, StagesAhead, TurnsAhead, CallAhead, BanksAhead, StepsAhead,
         WritesAhead, Unwritten
<1>2. /\ Ahead[1] = StagesAhead /\ Ahead[2] = TurnsAhead
      /\ Ahead[3] = CallAhead /\ Ahead[4] = BanksAhead /\ Ahead[5] = numBytes
      /\ Ahead[6] = StepsAhead /\ Ahead[7] = WritesAhead
  BY AheadParts
<1>3. /\ Ahead'[1] = StagesAhead' /\ Ahead'[2] = TurnsAhead'
      /\ Ahead'[3] = CallAhead' /\ Ahead'[4] = BanksAhead'
      /\ Ahead'[5] = numBytes' /\ Ahead'[6] = StepsAhead'
      /\ Ahead'[7] = WritesAhead'
  BY <1>1
<1>4. QED
  BY <1>2, <1>3, NearerAt, Zenon

(* A turn of a pass leaves fewer turns or stages ahead.                    *)
LEMMA TurnFalls ==
  ASSUME LoadInv, Stage3Fails \/ Stage3 \/ Stage4Fails \/ Stage4
  PROVE  Nearer(Ahead', Ahead)
<1>1. \/ StagesAhead' < StagesAhead
      \/ StagesAhead' = StagesAhead /\ partitionNum' = partitionNum + 1
  BY DEF Stage3Fails, Stage3, Stage4Fails, Stage4, StagesAhead
<1>2. partitionNum \in Int /\ NoOfPartitions \in Int
  BY FsblAssumption DEF LoadInv, TypeOK, Partitions
<1>3. partitionNum' = partitionNum + 1 => TurnsAhead' < TurnsAhead
  BY <1>2 DEF TurnsAhead
<1>4. QED
  BY <1>1, <1>3, AheadFalls

(* The call begins and returns.                                            *)
LEMMA CallFalls ==
  ASSUME LoadInv, EccBegins \/ EccReturns
  PROVE  Nearer(Ahead', Ahead)
<1>1. StagesAhead' < StagesAhead \/ StagesAhead' = StagesAhead
  BY DEF EccBegins, EccReturns, StagesAhead, LoadInv, TypeOK
<1>2. TurnsAhead' = TurnsAhead
  BY DEF EccBegins, EccReturns, TurnsAhead
<1>3. CallAhead' < CallAhead
  BY DEF EccBegins, EccReturns, CallAhead
<1>4. QED
  BY <1>1, <1>2, <1>3, AheadFalls

(* So do the steps of the loop over the chunks, and those of the channel.  *)
LEMMA EccFalls ==
  ASSUME LoadInv, EccRuns
  PROVE  Nearer(Ahead', Ahead)
<1>1. /\ StagesAhead' = StagesAhead /\ TurnsAhead' = TurnsAhead
      /\ CallAhead' = CallAhead
  BY DEF EccRuns, loadVars, StagesAhead, TurnsAhead, CallAhead
<1>2. EccInv /\ EccTypeOK
  BY DEF LoadInv, EccInv
<1>3. CASE Program \/ Poll \/ EccFail
  <2>1. BanksAhead' = BanksAhead /\ numBytes' = numBytes
    BY <1>3 DEF Program, Poll, EccFail, BanksAhead
  <2>2. StepsAhead' < StepsAhead
    BY <1>3 DEF Program, Poll, EccFail, StepsAhead
  <2>3. QED
    BY <1>1, <2>1, <2>2, AheadFalls
<1>4. CASE Advance
  <2>1. BanksAhead' = BanksAhead
    BY <1>4 DEF Advance, BanksAhead
  <2>2. numBytes' < numBytes
    BY <1>2, <1>4 DEF Advance, EccInv, EccTypeOK
  <2>3. QED
    BY <1>1, <2>1, <2>2, AheadFalls
<1>5. CASE Finish
  <2>1. BanksAhead' = BanksAhead /\ numBytes' = numBytes
    BY <1>5 DEF Finish, BanksAhead
  <2>2. StepsAhead' < StepsAhead
    BY <1>5 DEF Finish, StepsAhead
  <2>3. QED
    BY <1>1, <2>1, <2>2, AheadFalls
<1>6. CASE NextBank
  <2>1. bank \in Int /\ bank' = bank + 1
    BY <1>2, <1>6, BankType DEF NextBank, Enter, EccTypeOK
  <2>2. BanksAhead' < BanksAhead
    BY <2>1 DEF BanksAhead
  <2>3. QED
    BY <1>1, <2>2, AheadFalls
<1>7. CASE Channel
  <2>1. /\ BanksAhead' = BanksAhead /\ numBytes' = numBytes
        /\ StepsAhead' = StepsAhead
    BY <1>7 DEF Channel, Write, Complete, loaderVars, BanksAhead, StepsAhead
  <2>2. WritesAhead' < WritesAhead
    <3>1. Cardinality(Unwritten) \in Nat /\ ~dmaDone
      BY <1>2, <1>7, UnwrittenType DEF Channel, Write, Complete
    <3>2. ASSUME NEW addr \in Bytes(dscr.addr, dscr.size), Write(addr)
          PROVE  WritesAhead' < WritesAhead
      <4>1. Cardinality(Unwritten') < Cardinality(Unwritten)
        BY <1>2, <3>2, WriteLeavesLess
      <4>2. ~dmaDone'
        BY <3>1, <3>2 DEF Write
      <4>3. Unwritten' = Unwritten \ {addr} /\ IsFiniteSet(Unwritten)
        BY <1>2, <3>2, UnwrittenType DEF Write, Unwritten, Bytes, loaderVars
      <4>4. Cardinality(Unwritten') \in Nat
        BY <4>3, FS_Subset, FS_CardinalityType
      <4>5. WritesAhead = 1 + Cardinality(Unwritten)
        BY <3>1 DEF WritesAhead
      <4>6. WritesAhead' = 1 + Cardinality(Unwritten')
        BY <4>2 DEF WritesAhead
      <4>7. QED
        BY <3>1, <4>1, <4>4, <4>5, <4>6
    <3>3. ASSUME NEW outcome, Complete(outcome)
          PROVE  WritesAhead' < WritesAhead
      <4>1. WritesAhead' = 0
        BY <3>3 DEF Complete, WritesAhead
      <4>2. WritesAhead = 1 + Cardinality(Unwritten)
        BY <3>1 DEF WritesAhead
      <4>3. QED
        BY <3>1, <4>1, <4>2
    <3>4. QED
      BY <1>7, <3>2, <3>3 DEF Channel
  <2>3. QED
    BY <1>1, <2>1, <2>2, AheadFalls
<1>8. QED
  BY <1>3, <1>4, <1>5, <1>6, <1>7 DEF EccRuns, Loader

LEMMA StepFalls ==
  ASSUME LoadInv, Next
  PROVE  Nearer(Ahead', Ahead)
BY TurnFalls, CallFalls, EccFalls DEF Next

(* Every step of the loader and of the channel brings the end nearer, for  *)
(* any image, any memory, and any outcome of loads and transfers.          *)
THEOREM EveryStepAdvances == Spec => StepsAdvance
<1>1. LoadInv /\ [Next]_vars => [Nearer(Ahead', Ahead)]_vars
  BY StepFalls
<1>2. QED
  BY <1>1, LoadInvariant, PTL DEF Spec, StepsAdvance

(* The order those steps descend in has no infinite descent, so that only  *)
(* finitely many are taken.                                                *)
LessThan == {ss \in Nat \X Nat : ss[1] < ss[2]}
Descent == LexProductOrdering(LessThan, Nat, 7)

THEOREM BootIsFinite ==
  /\ IsWellFoundedOn(Descent, [1 .. 7 -> Nat])
  /\ Spec => [][(<< Ahead', Ahead >> \in Descent)]_vars
<1>1. IsWellFoundedOn(LessThan, Nat)
  BY NatLessThanWellFounded DEF OpToRel, LessThan
<1>2. IsWellFoundedOn(Descent, [1 .. 7 -> Nat])
  BY <1>1, WFLexProductOrdering DEF Descent
<1>3. ASSUME NEW s \in [1 .. 7 -> Nat], NEW t \in [1 .. 7 -> Nat], Nearer(s, t)
      PROVE  << s, t >> \in Descent
  <2>1. PICK i \in 1 .. 7 : s[i] < t[i] /\ \A j \in 1 .. i - 1 : s[j] = t[j]
    BY <1>3 DEF Nearer
  <2>2. << s[i], t[i] >> \in LessThan
    BY <2>1 DEF LessThan
  <2>3. QED
    BY <2>1, <2>2 DEF Descent, LexProductOrdering
<1>4. LoadInv => Ahead \in [1 .. 7 -> Nat]
  BY AheadType
<1>5. /\ LoadInv /\ [Next]_vars
      /\ Ahead \in [1 .. 7 -> Nat] /\ (Ahead \in [1 .. 7 -> Nat])'
      => [(<< Ahead', Ahead >> \in Descent)]_vars
  BY <1>3, StepFalls
<1>6. QED
  BY <1>2, <1>4, <1>5, LoadInvariant, PTL DEF Spec

(* And until the end there is always a next one.                           *)
THEOREM LoaderNeverStuck == Spec => []NeverStuck
<1>1. LoadInv => NeverStuck
  BY DEF LoadInv, TypeOK, EccInv, EccTypeOK, NeverStuck, Ended
<1>2. QED
  BY <1>1, LoadInvariant, PTL
=============================================================================

----------------------------- MODULE PhyBringup -----------------------------
(***************************************************************************)
(* Bringing up the DDR PHY (psu_ddr_phybringup_data of psu_init.c).        *)
(*                                                                         *)
(* The PLLs of the PHY are started until all of them are locked, a limited *)
(* number of times; then the PHY is initialised, the DDR controller is     *)
(* started and the PHY is trained.  Behind every one of these commands     *)
(* stands a loop that polls for its end, without a limit ("TIMEOUT poll    *)
(* mechanism need to be inserted in this block"), so that the function     *)
(* waits for ever for hardware that does not answer as it expects.         *)
(***************************************************************************)
EXTENDS Integers

CONSTANT
  PllRetries       \* 10

ASSUME PhyAssumption == PllRetries \in Nat \ {0}

VARIABLES
  phy,             \* where the function is
  pllRetry,        \* pll_retry
  pllLocked,       \* pll_locked
  gpr0,            \* the retries left, as kept in GPR0
  staticRead,      \* Vref training's static read mode, and its refresh period
  work,            \* of the hardware, on the last command: "none", "running",
                   \* ended "good" or "bad", or "silent" for ever
  phyRet           \* the value returned

phyVars == << phy, pllRetry, pllLocked, gpr0, staticRead, work, phyRet >>

PhyIdle ==
  /\ phy = "idle" /\ pllRetry = 0 /\ pllLocked = FALSE /\ gpr0 = 0
  /\ staticRead = FALSE /\ work = "none" /\ phyRet = -1

-----------------------------------------------------------------------------
PhyBegin ==
  /\ phy = "idle"
  /\ pllRetry' = PllRetries /\ pllLocked' = FALSE
  /\ phy' = "pll"
  /\ UNCHANGED << gpr0, staticRead, work, phyRet >>

(* One turn of the first loop: start the PLLs, ...                         *)
PhyStartPlls ==
  /\ phy = "pll" /\ pllRetry > 0 /\ ~pllLocked
  /\ work' = "running"
  /\ phy' = "lock"
  /\ UNCHANGED << pllRetry, pllLocked, gpr0, staticRead, phyRet >>

(* ... and, when the poll for the end of that is over, read whether they   *)
(* are all locked.                                                         *)
PhyPll ==
  /\ phy = "lock" /\ work \in {"good", "bad"}
  /\ pllLocked' = (work = "good")
  /\ pllRetry' = pllRetry - 1
  /\ phy' = "pll"
  /\ UNCHANGED << gpr0, staticRead, work, phyRet >>

(* The retries left are kept; without a lock 0 is returned, with it the    *)
(* bring-up sequence starts.                                               *)
PhyPllEnds ==
  /\ phy = "pll" /\ (pllRetry = 0 \/ pllLocked)
  /\ gpr0' = pllRetry
  /\ IF pllLocked
       THEN phy' = "bringup" /\ work' = "running" /\ UNCHANGED phyRet
       ELSE phy' = "returned" /\ phyRet' = 0 /\ UNCHANGED work
  /\ UNCHANGED << pllRetry, pllLocked, staticRead >>

(* Three polls in a row, each for the exact status of a success: the       *)
(* bring-up sequence, the initialisation of the PHY, and the DDR           *)
(* controller, behind which the first training starts.                     *)
PhyInit ==
  /\ work = "good"
  /\ \/ phy = "bringup" /\ phy' = "initialise"
     \/ phy = "initialise" /\ phy' = "controller"
     \/ phy = "controller" /\ phy' = "train"
  /\ work' = "running"
  /\ UNCHANGED << pllRetry, pllLocked, gpr0, staticRead, phyRet >>

(* The hardware ends what it was told to do, or never will (external).     *)
PhyAnswers(answer) ==
  /\ work = "running"
  /\ work' = answer
  /\ UNCHANGED << phy, pllRetry, pllLocked, gpr0, staticRead, phyRet >>

(* The loop waits for a status without any error bit: after an error it    *)
(* goes on for ever, and the test for errors behind it finds none.  Then   *)
(* static read mode is turned on for the training of Vref.                 *)
PhyTrained ==
  /\ phy = "train" /\ work = "good"
  /\ staticRead' = TRUE
  /\ work' = "running"
  /\ phy' = "vref"
  /\ UNCHANGED << pllRetry, pllLocked, gpr0, phyRet >>

(* A slip to catch: this loop too waits for a status without an error.     *)
PhyVrefGood ==
  /\ phy = "vref" /\ work = "good"
  /\ staticRead' = FALSE
  /\ work' = "running" /\ phy' = "last"
  /\ UNCHANGED << pllRetry, pllLocked, gpr0, phyRet >>

(* This loop waits for the end only.  An error is returned, and static     *)
(* read mode stays on; without one it is turned off and the last training  *)
(* starts.                                                                 *)
PhyVref ==
  /\ phy = "vref" /\ work \in {"good", "bad"}
  /\ IF work = "bad"
       THEN /\ phyRet' = 0 /\ phy' = "returned"
            /\ UNCHANGED << staticRead, work >>
       ELSE /\ staticRead' = FALSE
            /\ work' = "running" /\ phy' = "last"
            /\ UNCHANGED phyRet
  /\ UNCHANGED << pllRetry, pllLocked, gpr0 >>

(* Nobody asks how the last training ended.                                *)
PhyLast ==
  /\ phy = "last" /\ work \in {"good", "bad"}
  /\ phyRet' = 1 /\ phy' = "returned"
  /\ UNCHANGED << pllRetry, pllLocked, gpr0, staticRead, work >>

PhySteps ==
  \/ PhyStartPlls \/ PhyPll \/ PhyPllEnds \/ PhyInit
  \/ \E answer \in {"good", "bad", "silent"} : PhyAnswers(answer)
  \/ PhyTrained \/ PhyVref \/ PhyLast

-----------------------------------------------------------------------------
(* The polls, and those that only a success can end: they compare the      *)
(* whole status, where the others look for the bits that tell of an end.   *)
ExactPolls == {"bringup", "initialise", "controller", "train"}
Polls == ExactPolls \cup {"lock", "vref", "last"}

(* The function polls for what will never come.                            *)
PollHangs ==
  \/ phy \in Polls /\ work = "silent"
  \/ phy \in ExactPolls /\ work = "bad"

(* Every variable has its type (one invariant for the whole module).       *)
PhyTypeOK ==
  /\ phy \in {"idle", "pll", "returned"} \cup Polls
  /\ pllRetry \in 0 .. PllRetries /\ gpr0 \in 0 .. PllRetries
  /\ pllLocked \in BOOLEAN /\ staticRead \in BOOLEAN
  /\ work \in {"none", "running", "good", "bad", "silent"}
  /\ phyRet \in {-1, 0, 1}

(* The value 1 is returned only by a bring-up that has locked the PLLs,    *)
(* has kept how many tries it had left, and has turned static read mode    *)
(* off again.                                                              *)
BringupTells ==
  phyRet = 1 =>
    /\ phy = "returned" /\ pllLocked /\ ~staticRead
    /\ gpr0 = pllRetry /\ pllRetry < PllRetries

(* What the steps on the way there have done: behind the lock it is kept,  *)
(* static read mode is on for the training of Vref only, what is polled    *)
(* for was started, and what was started is polled for.                    *)
PhyInv ==
  /\ PhyTypeOK
  /\ pllLocked => pllRetry < PllRetries
  /\ phy = "lock" => pllRetry > 0
  /\ phy \in Polls \ {"lock"} => pllLocked /\ gpr0 = pllRetry
  /\ phy # "returned" => phyRet # 1
  /\ phy \notin {"vref", "returned"} => ~staticRead
  /\ IF phy \in Polls THEN work # "none" ELSE work # "running"
  /\ BringupTells
=============================================================================

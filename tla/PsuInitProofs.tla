--------------------------- MODULE PsuInitProofs ---------------------------
(***************************************************************************)
(* Proofs about PsuInit, for any number of calibrations, kinds and ranges  *)
(* of codes, and any number of retries: first the two algorithms, then the *)
(* order of the program around them, last that all of it comes to an end.  *)
(* Where a step stands in the program is derived from the sizes of the     *)
(* functions of register writes, by taking the concatenation apart         *)
(* (Placement).                                                            *)
(***************************************************************************)
EXTENDS PsuInit, FiniteSetTheorems, WellFoundedInduction, TLAPS

(* The first and the last code of a kind are numbers, in that order.       *)
LEMMA Ranges ==
  ASSUME NEW k \in Kinds
  PROVE  /\ Lo[k] \in Nat /\ Hi[k] \in Nat /\ Lo[k] <= Hi[k]
         /\ Lo[k] \in Valid(k)
BY FixCalAssumption DEF Valid

(* Counting a code keeps the type of the counts.                           *)
LEMMA CountsType ==
  ASSUME NEW k \in Kinds, NEW m \in [Valid(k) -> Nat], NEW r
  PROVE  [c \in Valid(k) |-> IF c = r THEN m[c] + 1 ELSE m[c]]
           \in [Valid(k) -> Nat]
OBVIOUS

(* What a remainder is.                                                    *)
LEMMA RemainderType ==
  ASSUME NEW a \in Int, NEW m \in Nat \ {0}
  PROVE  a % m \in Int
OBVIOUS

-----------------------------------------------------------------------------
LEMMA CalInit == CalIdle => CalInv
<1> SUFFICES ASSUME CalIdle PROVE CalInv
  OBVIOUS
<1>1. \A k \in Kinds : NoCounts[k] \in [Valid(k) -> Nat]
  BY DEF NoCounts
<1>2. 0 \in 0 .. Repeats + 1
  BY FixCalAssumption
<1>3. CalTypeOK
  BY <1>1, <1>2 DEF CalIdle, CalTypeOK, None
<1>4. QED
  BY <1>1, <1>3, FixCalAssumption DEF CalIdle, CalInv, SearchInv, ChosenMostFrequent

LEMMA CalSampleStep ==
  ASSUME CalInv, NEW r \in Readings, CalSample(r)
  PROVE  CalInv'
<1> USE DEF CalInv, CalSample
<1>1. \A k \in Kinds : match'[k] \in [Valid(k) -> Nat]
  BY CountsType DEF CalTypeOK
<1>2. r \in [Kinds -> Int]
  <2>1. \A k \in Kinds : r[k] \in Reading(k) /\ Reading(k) \subseteq Int
    BY Ranges DEF Readings, Reading
  <2>2. r \in [Kinds -> UNION {Reading(k) : k \in Kinds}]
    BY DEF Readings
  <2>3. QED
    BY <2>1, <2>2
<1>3. repeatCount' \in 0 .. Repeats + 1
  BY FixCalAssumption DEF CalTypeOK
<1>4. CalTypeOK'
  BY <1>1, <1>2, <1>3 DEF CalTypeOK
<1>5. \A k \in Kinds : seen'[k] \in [Valid(k) -> Nat]
  BY <1>1
<1>6. SearchInv'
  BY DEF SearchInv, CalTypeOK
<1>7. ChosenMostFrequent'
  BY DEF ChosenMostFrequent
<1>8. cal' = "sample" => repeatCount' <= Repeats
  BY FixCalAssumption DEF CalTypeOK
<1>9. QED
  BY <1>4, <1>5, <1>6, <1>7, <1>8

(* One turn of the search.  The first count is compared with itself in the *)
(* first turn, and from then on holds the greatest count so far.           *)
LEMMA CalSearchStep ==
  ASSUME CalInv, CalSearch
  PROVE  CalInv'
<1> USE DEF CalInv, CalSearch
<1>1. index \in Nat /\ index' = index + 1
  BY DEF CalTypeOK
<1>2. ASSUME NEW k \in Kinds
      PROVE  /\ match'[k] \in [Valid(k) -> Nat]
             /\ code'[k] \in Int
             /\ \A c \in Valid(k) : c # Lo[k] => match'[k][c] = seen[k][c]
             /\ code'[k] \in Valid(k)
             /\ match'[k][Lo[k]] = seen[k][code'[k]]
             /\ \A d \in Valid(k) :
                  d < Lo[k] + index' => seen[k][d] <= match'[k][Lo[k]]
  <2> DEFINE i == Lo[k] + index
  <2>1. /\ Lo[k] \in Nat /\ Hi[k] \in Nat /\ Lo[k] \in Valid(k)
        /\ match[k] \in [Valid(k) -> Nat] /\ seen[k] \in [Valid(k) -> Nat]
        /\ code[k] \in Int /\ i \in Nat /\ Valid(k) = Lo[k] .. Hi[k]
    BY <1>1, Ranges DEF CalTypeOK, Valid
  <2>2. /\ match'[k] = IF Greater(k) THEN [match[k] EXCEPT ![Lo[k]] = match[k][i]]
                       ELSE match[k]
        /\ code'[k] = IF Greater(k) THEN i ELSE code[k]
    OBVIOUS
  <2>3. Greater(k) <=> i \in Valid(k) /\ match[k][i] >= match[k][Lo[k]]
    BY DEF Greater
  <2>4. /\ \A c \in Valid(k) : c # Lo[k] \/ index = 0 => match[k][c] = seen[k][c]
        /\ index # 0 =>
             /\ code[k] \in Valid(k)
             /\ match[k][Lo[k]] = seen[k][code[k]]
             /\ \A d \in Valid(k) : d < i => seen[k][d] <= match[k][Lo[k]]
    BY DEF SearchInv
  <2>5. /\ index = 0 => i = Lo[k]
        /\ index # 0 => i # Lo[k]
    BY <1>1, <2>1
  <2>6. i \in Valid(k) => match[k][i] = seen[k][i]
    BY <2>4, <2>5
  <2>7. \A d \in Valid(k) : d < Lo[k] + index' => d < i \/ d = i
    BY <1>1, <2>1
  <2>8. index = 0 => \A d \in Valid(k) : ~(d < i)
    BY <2>1, <2>5
  <2> HIDE DEF i
  <2>9. CASE Greater(k)
    <3>1. /\ match'[k] \in [Valid(k) -> Nat] /\ code'[k] = i
          /\ match'[k][Lo[k]] = match[k][i]
          /\ \A c \in Valid(k) : c # Lo[k] => match'[k][c] = match[k][c]
      BY <2>1, <2>2, <2>3, <2>9
    <3>2. \A d \in Valid(k) : d < i => seen[k][d] <= match[k][i]
      <4> SUFFICES ASSUME NEW d \in Valid(k), d < i
                   PROVE  seen[k][d] <= match[k][i]
        OBVIOUS
      <4>1. seen[k][d] <= match[k][Lo[k]] /\ match[k][Lo[k]] <= match[k][i]
        BY <2>3, <2>4, <2>8, <2>9
      <4>2. seen[k][d] \in Nat /\ match[k][Lo[k]] \in Nat /\ match[k][i] \in Nat
        BY <2>1, <2>3, <2>9
      <4>3. QED
        BY <4>1, <4>2
    <3>3. seen[k][i] <= match[k][i]
      BY <2>1, <2>3, <2>6, <2>9
    <3>4. \A d \in Valid(k) : d < Lo[k] + index' => seen[k][d] <= match'[k][Lo[k]]
      BY <2>7, <3>1, <3>2, <3>3
    <3>5. QED
      BY <2>1, <2>3, <2>4, <2>6, <2>9, <3>1, <3>4
  <2>10. CASE ~Greater(k)
    <3>1. match'[k] = match[k] /\ code'[k] = code[k]
      BY <2>2, <2>10
    <3>2. index # 0
      <4>1. match[k][Lo[k]] >= match[k][Lo[k]]
        BY <2>1
      <4>2. QED
        BY <2>1, <2>3, <2>5, <2>10, <4>1
    <3>3. i \in Valid(k) => seen[k][i] <= match[k][Lo[k]]
      <4>1. i \in Valid(k) => ~(match[k][i] >= match[k][Lo[k]])
        BY <2>3, <2>10
      <4>2. i \in Valid(k) => match[k][i] \in Nat /\ match[k][Lo[k]] \in Nat
        BY <2>1
      <4>3. QED
        BY <2>6, <4>1, <4>2
    <3>4. \A d \in Valid(k) : d < Lo[k] + index' => seen[k][d] <= match'[k][Lo[k]]
      BY <2>4, <2>7, <3>1, <3>2, <3>3
    <3>5. QED
      BY <2>1, <2>4, <3>1, <3>2, <3>4
  <2>11. QED
    BY <2>9, <2>10
<1>3. CalTypeOK'
  <2>1. code' \in [Kinds -> Int]
    BY <1>2
  <2>2. \A k \in Kinds : match'[k] \in [Valid(k) -> Nat]
    BY <1>2
  <2>3. QED
    BY <1>1, <2>1, <2>2 DEF CalTypeOK
<1>4. SearchInv'
  <2>1. index' # 0 /\ seen' = seen
    BY <1>1
  <2>2. QED
    BY <1>2, <2>1 DEF SearchInv
<1>5. ChosenMostFrequent'
  BY DEF ChosenMostFrequent
<1>6. QED
  BY <1>3, <1>4, <1>5

LEMMA CalForceStep ==
  ASSUME CalInv, CalForce
  PROVE  CalInv'
<1> USE DEF CalInv, CalForce
<1>1. ASSUME NEW k \in Kinds
      PROVE  /\ code[k] \in Valid(k)
             /\ \A d \in Valid(k) : seen[k][d] <= seen[k][code[k]]
  <2>1. /\ Lo[k] \in Nat /\ Hi[k] \in Nat /\ Lo[k] <= Hi[k] /\ index \in Nat
        /\ Lo[k] + index > Hi[k] /\ Valid(k) = Lo[k] .. Hi[k]
    BY Ranges DEF CalTypeOK, Valid
  <2>2. index # 0 /\ \A d \in Valid(k) : d < Lo[k] + index
    BY <2>1
  <2>3. QED
    BY <2>2 DEF SearchInv
<1>2. CalTypeOK'
  <2>1. forced' \in [Kinds -> Int]
    <3>1. \A k \in Kinds : code[k] \in Int /\ Field[k] \in Nat \ {0}
      BY FixCalAssumption DEF CalTypeOK
    <3>2. \A k \in Kinds : code[k] % Field[k] \in Int
      BY <3>1, RemainderType
    <3>3. QED
      BY <3>2
  <2>2. \A k \in Kinds : match'[k] \in [Valid(k) -> Nat]
    BY DEF NoCounts
  <2>3. code' \in [Kinds -> Int] /\ repeatCount' \in 0 .. Repeats + 1
    BY FixCalAssumption DEF None
  <2>4. QED
    BY <2>1, <2>2, <2>3 DEF CalTypeOK
<1>3. ChosenMostFrequent'
  <2>1. \A k \in Kinds : forced'[k] = code[k] % Field[k]
    OBVIOUS
  <2>2. QED
    BY <1>1, <2>1 DEF ChosenMostFrequent
<1>4. SearchInv'
  BY DEF SearchInv
<1>5. QED
  BY <1>2, <1>3, <1>4

LEMMA CalStep ==
  ASSUME CalInv, CalNext \/ UNCHANGED calVars
  PROVE  CalInv'
<1>1. CASE CalBegin
  <2> USE <1>1 DEF CalBegin, CalInv
  <2>1. /\ \A k \in Kinds : NoCounts[k] \in [Valid(k) -> Nat]
        /\ 0 \in 0 .. Repeats + 1
    BY FixCalAssumption DEF NoCounts
  <2>2. CalTypeOK'
    BY <2>1 DEF CalTypeOK
  <2>3. SearchInv' /\ ChosenMostFrequent'
    BY DEF SearchInv, ChosenMostFrequent
  <2>4. QED
    BY <2>2, <2>3, FixCalAssumption
<1>2. ASSUME NEW r \in Readings, CalSample(r)
      PROVE  CalInv'
  BY <1>2, CalSampleStep
<1>3. CASE CalTimeout
  <2> USE <1>3 DEF CalTimeout, CalInv
  <2>1. /\ \A k \in Kinds : NoCounts[k] \in [Valid(k) -> Nat]
        /\ 0 \in 0 .. Repeats + 1
    BY FixCalAssumption DEF NoCounts
  <2>2. CalTypeOK'
    BY <2>1 DEF CalTypeOK, None
  <2>3. SearchInv' /\ ChosenMostFrequent'
    BY DEF SearchInv, ChosenMostFrequent
  <2>4. QED
    BY <2>2, <2>3
<1>4. CASE CalSearch
  BY <1>4, CalSearchStep
<1>5. CASE CalForce
  BY <1>5, CalForceStep
<1>6. CASE UNCHANGED calVars
  BY <1>6 DEF calVars, CalInv, CalTypeOK, SearchInv, ChosenMostFrequent
<1>7. QED
  BY <1>1, <1>2, <1>3, <1>4, <1>5, <1>6 DEF CalNext, CalSteps

LEMMA PhyInitially == PhyIdle => PhyInv
<1> SUFFICES ASSUME PhyIdle PROVE PhyInv
  OBVIOUS
<1>1. 0 \in 0 .. PllRetries /\ -1 \in {-1, 0, 1} /\ -1 # 1
  BY PhyAssumption
<1>2. PhyTypeOK
  BY <1>1, Zenon DEF PhyIdle, PhyTypeOK, Polls, ExactPolls
<1>3. ~pllLocked /\ ~staticRead
  BY Zenon DEF PhyIdle
<1>4. phyRet # 1 /\ phy = "idle" /\ work = "none"
  BY <1>1 DEF PhyIdle
<1>5. QED
  BY <1>2, <1>3, <1>4 DEF PhyInv, BringupTells, Polls, ExactPolls

LEMMA PhyStep ==
  ASSUME PhyInv, PhyBegin \/ PhySteps \/ UNCHANGED phyVars
  PROVE  PhyInv'
<1> USE PhyAssumption DEF PhyInv, PhyTypeOK, BringupTells, Polls, ExactPolls
<1>1. CASE PhyBegin
  <2>1. PllRetries \in 0 .. PllRetries
    OBVIOUS
  <2>2. PhyTypeOK'
    BY <1>1, <2>1, Zenon DEF PhyBegin
  <2>3. ~pllLocked' /\ phy' = "pll" /\ phyRet' = phyRet
    BY <1>1, Zenon DEF PhyBegin
  <2>4. /\ ~staticRead' /\ work' = work
        /\ phyRet # 1 /\ work # "running"
    <3>1. phy = "idle" /\ UNCHANGED << staticRead, work >>
      BY <1>1, Zenon DEF PhyBegin
    <3>2. QED
      BY <3>1
  <2>5. QED
    BY <2>2, <2>3, <2>4
<1>2. CASE PhyStartPlls
  BY <1>2 DEF PhyStartPlls
<1>3. CASE PhyPll
  <2>1. /\ phy = "lock" /\ phy' = "pll" /\ work' = work
        /\ work \in {"good", "bad"} /\ pllRetry' = pllRetry - 1
        /\ UNCHANGED << gpr0, staticRead, phyRet >>
    BY <1>3, Zenon DEF PhyPll
  <2>2. pllLocked' \in BOOLEAN
    BY <1>3, Zenon DEF PhyPll
  <2>3. pllRetry \in 1 .. PllRetries /\ ~staticRead /\ phyRet # 1
    BY <2>1
  <2>4. pllRetry' \in 0 .. PllRetries /\ pllRetry' < PllRetries
    BY <2>1, <2>3
  <2>5. QED
    BY <2>1, <2>2, <2>3, <2>4
<1>4. CASE PhyPllEnds
  BY <1>4 DEF PhyPllEnds
<1>5. CASE PhyInit
  BY <1>5 DEF PhyInit
<1>6. ASSUME NEW answer \in {"good", "bad", "silent"}, PhyAnswers(answer)
      PROVE  PhyInv'
  BY <1>6 DEF PhyAnswers
<1>7. CASE PhyTrained
  BY <1>7 DEF PhyTrained
<1>8. CASE PhyVref
  <2>1. CASE work = "bad"
    BY <1>8, <2>1 DEF PhyVref
  <2>2. CASE work # "bad"
    <3>1. /\ phy = "vref" /\ phy' = "last"
          /\ UNCHANGED << pllRetry, pllLocked, gpr0, phyRet >>
      BY <1>8, <2>2 DEF PhyVref
    <3>2. ~staticRead' /\ staticRead' \in BOOLEAN
      BY <1>8, <2>2, Zenon DEF PhyVref
    <3>3. work' = "running"
      BY <1>8, <2>2 DEF PhyVref
    <3>4. QED
      BY <3>1, <3>2, <3>3
  <2>3. QED
    BY <2>1, <2>2
<1>9. CASE PhyLast
  BY <1>9 DEF PhyLast
<1>10. CASE UNCHANGED phyVars
  BY <1>10 DEF phyVars
<1>11. QED
  BY <1>1, <1>2, <1>4, <1>5, <1>6, <1>7, <1>8, <1>9, <1>10, <1>3 DEF PhySteps

(* A step of the program is a step of one of the algorithms or of neither. *)
LEMMA ProgramStep ==
  ASSUME [Next]_vars
  PROVE  /\ CalNext \/ UNCHANGED calVars
         /\ PhyBegin \/ PhySteps \/ UNCHANGED phyVars
<1>1. CASE Next
  BY <1>1 DEF Next, SetBypass, SetReset, Poll, SelectSource, SetBlocks,
              Bringup, BringupReturns, Calibrate, CalibrateReturns, Lanes,
              Return
<1>2. CASE UNCHANGED vars
  BY <1>2 DEF vars
<1>3. QED
  BY <1>1, <1>2

-----------------------------------------------------------------------------
(* serdes_fixcal_code by itself: what it forces came up most often.        *)
THEOREM CalibrationAlone == CalSpec => []ChosenMostFrequent
<1>1. CalInv /\ [CalNext]_calVars => CalInv'
  BY CalStep
<1>2. CalInv => ChosenMostFrequent
  BY DEF CalInv
<1>3. QED
  BY CalInit, <1>1, <1>2, PTL DEF CalSpec

(* The same within the initialisation: for any number of calibrations and  *)
(* any ranges of codes, the codes the transceivers are left with are those *)
(* that came up most often.                                                *)
THEOREM MostFrequentForced == Spec => []ChosenMostFrequent
<1>1. Init => CalInv
  BY CalInit DEF Init
<1>2. CalInv /\ [Next]_vars => CalInv'
  BY CalStep, ProgramStep
<1>3. CalInv => ChosenMostFrequent
  BY DEF CalInv
<1>4. QED
  BY <1>1, <1>2, <1>3, PTL DEF Spec

(* The bring-up of the PHY says 1 only with its PLLs locked and out of     *)
(* static read mode, however often it had to retry.                        *)
THEOREM BringupIsTold == Spec => []BringupTells
<1>1. Init => PhyInv
  BY PhyInitially DEF Init
<1>2. PhyInv /\ [Next]_vars => PhyInv'
  BY PhyStep, ProgramStep
<1>3. PhyInv => BringupTells
  BY DEF PhyInv
<1>4. QED
  BY <1>1, <1>2, <1>3, PTL DEF Spec
-----------------------------------------------------------------------------
(* The steps there are.                                                    *)
PllStep == [op : {"bypass", "resetPll"}, pll : PLLs, on : BOOLEAN]
SelectStep ==
  [op : {"select"}, clock : Clocks, source : PLLs \cup {"pss_ref_clk"}]
ResetStep ==
  [op : {"reset"}, blocks : SUBSET Clocked, to : {"reset", "released"}]
CallStep == [op : {"mask_poll", "psu_ddr_phybringup_data",
                   "serdes_fixcal_code", "psu_serdes_init_data"}]
Steps == PllStep \cup SelectStep \cup ResetStep \cup CallStep

(* s is a sequence of n steps; t stands in s behind its first o steps.     *)
SizeOf(s, n) == n \in Nat /\ s \in Seq(Steps) /\ Len(s) = n

Placed(s, o, t) ==
  /\ s \in Seq(Steps) /\ t \in Seq(Steps)
  /\ o \in Nat /\ o + Len(t) <= Len(s)
  /\ \A i \in 1 .. Len(t) : s[o + i] = t[i]

LEMMA PlacedWhole ==
  ASSUME NEW s, NEW n, SizeOf(s, n)
  PROVE  Placed(s, 0, s)
BY DEF Placed, SizeOf

(* Where the parts of a concatenation stand.                               *)
LEMMA PlacedParts ==
  ASSUME NEW s, NEW o, NEW a, NEW b, NEW m, NEW n, SizeOf(a, m), SizeOf(b, n),
         Placed(s, o, a \o b)
  PROVE  Placed(s, o, a) /\ Placed(s, o + m, b)
<1>1. /\ Len(a \o b) = Len(a) + Len(b) /\ Len(a) \in Nat /\ Len(b) \in Nat
      /\ a \in Seq(Steps) /\ b \in Seq(Steps)
      /\ \A i \in 1 .. Len(a) : (a \o b)[i] = a[i]
      /\ \A i \in 1 .. Len(b) : (a \o b)[Len(a) + i] = b[i]
  BY DEF SizeOf
<1>2. /\ s \in Seq(Steps) /\ o \in Nat /\ Len(s) \in Nat
      /\ o + Len(a) + Len(b) <= Len(s)
      /\ \A i \in 1 .. Len(a) + Len(b) : s[o + i] = (a \o b)[i]
  BY <1>1 DEF Placed
<1>3. \A i \in 1 .. Len(a) : s[o + i] = a[i]
  BY <1>1, <1>2
<1>4. \A i \in 1 .. Len(b) : s[(o + Len(a)) + i] = b[i]
  <2> SUFFICES ASSUME NEW i \in 1 .. Len(b) PROVE s[(o + Len(a)) + i] = b[i]
    OBVIOUS
  <2>1. /\ Len(a) + i \in 1 .. Len(a) + Len(b)
        /\ (o + Len(a)) + i = o + (Len(a) + i)
    BY <1>1, <1>2
  <2>2. QED
    BY <1>1, <1>2, <2>1
<1>5. Placed(s, o, a) /\ Placed(s, o + Len(a), b)
  BY <1>1, <1>2, <1>3, <1>4 DEF Placed
<1>6. QED
  BY <1>5, Zenon DEF SizeOf

Reads(s, o, t, n) == \A i \in 1 .. n : s[o + i] = t[i]

LEMMA PlacedStep ==
  ASSUME NEW s, NEW o, NEW t, NEW n, SizeOf(t, n), Placed(s, o, t)
  PROVE  Reads(s, o, t, n)
BY DEF Placed, SizeOf, Reads

LEMMA SizeOfConcat ==
  ASSUME NEW a, NEW b, NEW m, NEW n, SizeOf(a, m), SizeOf(b, n)
  PROVE  SizeOf(a \o b, m + n)
<1>1. a \o b \in Seq(Steps) /\ Len(a \o b) = Len(a) + Len(b)
  BY DEF SizeOf
<1>2. QED
  BY <1>1 DEF SizeOf

LEMMA StepTypes ==
  /\ \A p \in PLLs, on \in BOOLEAN :
       Bypass(p, on) \in Steps /\ ResetPll(p, on) \in Steps
  /\ MaskPoll \in Steps
  /\ \A c \in Clocks, s \in PLLs \cup {"pss_ref_clk"} : Select(c, s) \in Steps
  /\ \A b \in SUBSET Clocked : PutInReset(b) \in Steps /\ Release(b) \in Steps
  /\ \A f \in {"psu_ddr_phybringup_data", "serdes_fixcal_code",
               "psu_serdes_init_data"} : Call(f) \in Steps
BY DEF Steps, PllStep, SelectStep, ResetStep, CallStep, Bypass, ResetPll,
       MaskPoll, Select, PutInReset, Release, Call

LEMMA FiveSteps ==
  ASSUME NEW a \in Steps, NEW b \in Steps, NEW c \in Steps, NEW d \in Steps,
         NEW e \in Steps
  PROVE  SizeOf(<< a, b, c, d, e >>, 5)
BY DEF SizeOf

LEMMA PllSize ==
  ASSUME NEW p \in PLLs
  PROVE  SizeOf(PllSteps(p), 5)
<1>1. /\ Bypass(p, TRUE) \in Steps /\ ResetPll(p, TRUE) \in Steps
      /\ ResetPll(p, FALSE) \in Steps /\ MaskPoll \in Steps
      /\ Bypass(p, FALSE) \in Steps
  BY StepTypes
<1>2. QED
  BY <1>1, FiveSteps, Zenon DEF PllSteps

LEMMA SequenceSizes ==
  /\ SizeOf(psu_peripherals_pre_init_data, 2)
  /\ SizeOf(RpllInit, 5) /\ SizeOf(AmsToRpll, 1) /\ SizeOf(IopllInit, 5)
  /\ SizeOf(ApllInit, 5) /\ SizeOf(DpllInit, 5) /\ SizeOf(VpllInit, 5)
  /\ SizeOf(EthernetAndFlashClocks, 3) /\ SizeOf(PeripheralClocks, 3)
  /\ SizeOf(LowPowerClocks, 7) /\ SizeOf(FabricAndSensorClocks, 4)
  /\ SizeOf(FullPowerClocks, 5) /\ SizeOf(InterconnectClocks, 4)
  /\ SizeOf(DdrControllerReset, 1) /\ SizeOf(DdrControllerRelease, 1)
  /\ SizeOf(<< Call("psu_ddr_phybringup_data") >>, 1)
  /\ SizeOf(SystemRelease, 3) /\ SizeOf(EthernetAndFlashRelease, 2)
  /\ SizeOf(CardRelease, 1) /\ SizeOf(SerialRelease, 2)
  /\ SizeOf(psu_resetin_init_data, 1) /\ SizeOf(psu_resetout_init_data, 2)
  /\ SizeOf(<< Call("serdes_fixcal_code"), Call("psu_serdes_init_data") >>, 2)
  /\ SizeOf(<< >>, 0)
<1> USE StepTypes DEF SizeOf, Clocks, PLLs, Clocked
<1>1. SizeOf(psu_peripherals_pre_init_data, 2)
  BY DEF psu_peripherals_pre_init_data
<1>2. /\ SizeOf(RpllInit, 5) /\ SizeOf(IopllInit, 5)
      /\ SizeOf(ApllInit, 5) /\ SizeOf(DpllInit, 5) /\ SizeOf(VpllInit, 5)
  BY ONLY PllSize DEF RpllInit, IopllInit, ApllInit, DpllInit, VpllInit, PLLs
<1>3. SizeOf(AmsToRpll, 1)
  BY DEF AmsToRpll
<1>4. SizeOf(EthernetAndFlashClocks, 3) /\ SizeOf(PeripheralClocks, 3)
  BY DEF EthernetAndFlashClocks, PeripheralClocks
<1>5. SizeOf(LowPowerClocks, 7)
  BY DEF LowPowerClocks
<1>6. SizeOf(FabricAndSensorClocks, 4)
  BY DEF FabricAndSensorClocks
<1>7. SizeOf(FullPowerClocks, 5)
  BY DEF FullPowerClocks
<1>8. SizeOf(InterconnectClocks, 4)
  BY DEF InterconnectClocks
<1>9. SizeOf(DdrControllerReset, 1) /\ SizeOf(DdrControllerRelease, 1)
  BY DEF DdrControllerReset, DdrControllerRelease
<1>10. SizeOf(SystemRelease, 3) /\ SizeOf(EthernetAndFlashRelease, 2)
  BY DEF SystemRelease, EthernetAndFlashRelease
<1>11. SizeOf(CardRelease, 1) /\ SizeOf(SerialRelease, 2)
  BY DEF CardRelease, SerialRelease
<1>12. SizeOf(psu_resetin_init_data, 1) /\ SizeOf(psu_resetout_init_data, 2)
  BY DEF psu_resetin_init_data, psu_resetout_init_data
<1>13. /\ SizeOf(<< Call("psu_ddr_phybringup_data") >>, 1)
       /\ SizeOf(<< Call("serdes_fixcal_code"), Call("psu_serdes_init_data") >>, 2)
       /\ SizeOf(<< >>, 0)
  OBVIOUS
<1>14. QED
  BY ONLY <1>1, <1>2, <1>3, <1>4, <1>5, <1>6, <1>7, <1>8, <1>9, <1>10, <1>11,
          <1>12, <1>13

LEMMA FunctionSizes ==
  /\ SizeOf(psu_pll_init_data, 26) /\ SizeOf(psu_clock_init_data, 26)
  /\ SizeOf(psu_ddr_init_data, 2) /\ SizeOf(psu_peripherals_init_data, 8)
  /\ SizeOf(init_serdes, 5)
<1>1. SizeOf(psu_pll_init_data, 5 + 1 + 5 + 5 + 5 + 5)
  BY SequenceSizes, SizeOfConcat, Zenon DEF psu_pll_init_data
<1>2. SizeOf(psu_clock_init_data, 3 + 3 + 7 + 4 + 5 + 4)
  BY SequenceSizes, SizeOfConcat, Zenon DEF psu_clock_init_data
<1>3. SizeOf(psu_ddr_init_data, 1 + 1)
  BY SequenceSizes, SizeOfConcat, Zenon DEF psu_ddr_init_data
<1>4. SizeOf(psu_peripherals_init_data, 3 + 2 + 1 + 2)
  BY SequenceSizes, SizeOfConcat, Zenon DEF psu_peripherals_init_data
<1>5. SizeOf(init_serdes, 1 + 2 + 2)
  BY SequenceSizes, SizeOfConcat, Zenon DEF init_serdes
<1>6. QED
  BY <1>1, <1>2, <1>3, <1>4, <1>5

(* Where each function's steps stand.  The PHY's bring-up, which only      *)
(* psu_init has, moves what follows it by one.                             *)
LEMMA Placement ==
  /\ SizeOf(Program, CalCall + 3)
  /\ Placed(Program, 0, psu_peripherals_pre_init_data)
  /\ Placed(Program, 2, psu_pll_init_data)
  /\ Placed(Program, 28, psu_clock_init_data)
  /\ Placed(Program, 54, psu_ddr_init_data)
  /\ ~selfRefresh => Placed(Program, 56, << Call("psu_ddr_phybringup_data") >>)
  /\ Placed(Program, CalCall - 10, psu_peripherals_init_data)
  /\ Placed(Program, CalCall - 2, init_serdes)
<1> DEFINE d == IF selfRefresh THEN 0 ELSE 1
           X == IF selfRefresh THEN << >>
                               ELSE << Call("psu_ddr_phybringup_data") >>
           P2 == psu_peripherals_pre_init_data \o psu_pll_init_data
           P3 == P2 \o psu_clock_init_data
           P4 == P3 \o psu_ddr_init_data
           P5 == P4 \o X
           P6 == P5 \o psu_peripherals_init_data
<1>1. SizeOf(X, d)
  BY SequenceSizes, Zenon
<1>2. Program = P6 \o init_serdes
  BY Zenon DEF Program
<1> HIDE DEF X, d
<1>3. SizeOf(P2, 2 + 26)
  BY SequenceSizes, FunctionSizes, SizeOfConcat, Zenon
<1>4. SizeOf(P3, 2 + 26 + 26)
  BY <1>3, FunctionSizes, SizeOfConcat, Zenon
<1>5. SizeOf(P4, 2 + 26 + 26 + 2)
  BY <1>4, FunctionSizes, SizeOfConcat, Zenon
<1>6. SizeOf(P5, 2 + 26 + 26 + 2 + d)
  BY <1>1, <1>5, SizeOfConcat, Zenon
<1>7. SizeOf(P6, 2 + 26 + 26 + 2 + d + 8)
  BY <1>6, FunctionSizes, SizeOfConcat, Zenon
<1>8. SizeOf(Program, 2 + 26 + 26 + 2 + d + 8 + 5)
  BY <1>2, <1>7, FunctionSizes, SizeOfConcat, Zenon
<1>9. Placed(Program, 0, P6 \o init_serdes)
  BY <1>2, <1>8, PlacedWhole, Zenon
<1>10. /\ Placed(Program, 0, P6)
       /\ Placed(Program, 0 + (2 + 26 + 26 + 2 + d + 8), init_serdes)
  BY <1>7, <1>9, FunctionSizes, PlacedParts, Zenon
<1>11. /\ Placed(Program, 0, P5)
       /\ Placed(Program, 0 + (2 + 26 + 26 + 2 + d), psu_peripherals_init_data)
  BY <1>6, <1>10, FunctionSizes, PlacedParts, Zenon
<1>12. /\ Placed(Program, 0, P4)
       /\ Placed(Program, 0 + (2 + 26 + 26 + 2), X)
  BY <1>1, <1>5, <1>11, PlacedParts, Zenon
<1>13. /\ Placed(Program, 0, P3)
       /\ Placed(Program, 0 + (2 + 26 + 26), psu_ddr_init_data)
  BY <1>4, <1>12, FunctionSizes, PlacedParts, Zenon
<1>14. /\ Placed(Program, 0, P2)
       /\ Placed(Program, 0 + (2 + 26), psu_clock_init_data)
  BY <1>3, <1>13, FunctionSizes, PlacedParts, Zenon
<1>15. /\ Placed(Program, 0, psu_peripherals_pre_init_data)
       /\ Placed(Program, 0 + 2, psu_pll_init_data)
  BY <1>14, SequenceSizes, FunctionSizes, PlacedParts, Zenon
<1>16. ~selfRefresh => X = << Call("psu_ddr_phybringup_data") >>
  BY Zenon DEF X
<1>17. CalCall = 66 + d /\ d \in {0, 1}
  BY DEF CalCall, d
<1> HIDE DEF P2, P3, P4, P5, P6
<1>18. QED
  BY <1>8, <1>10, <1>11, <1>12, <1>13, <1>14, <1>15, <1>16, <1>17

LEMMA PllPlacement ==
  /\ Placed(Program, 7, AmsToRpll)
  /\ \A p \in PLLs : Placed(Program, PllBefore(p), PllSteps(p))
<1> DEFINE P2 == RpllInit \o AmsToRpll
           P3 == P2 \o IopllInit
           P4 == P3 \o ApllInit
           P5 == P4 \o DpllInit
<1>1. psu_pll_init_data = P5 \o VpllInit
  BY Zenon DEF psu_pll_init_data
<1>2. SizeOf(P2, 5 + 1)
  BY SequenceSizes, SizeOfConcat, Zenon
<1>3. SizeOf(P3, 5 + 1 + 5)
  BY <1>2, SequenceSizes, SizeOfConcat, Zenon
<1>4. SizeOf(P4, 5 + 1 + 5 + 5)
  BY <1>3, SequenceSizes, SizeOfConcat, Zenon
<1>5. SizeOf(P5, 5 + 1 + 5 + 5 + 5)
  BY <1>4, SequenceSizes, SizeOfConcat, Zenon
<1>6. Placed(Program, 2, P5 \o VpllInit)
  BY <1>1, Placement, Zenon
<1>7. /\ Placed(Program, 2, P5)
      /\ Placed(Program, 2 + (5 + 1 + 5 + 5 + 5), VpllInit)
  BY <1>5, <1>6, SequenceSizes, PlacedParts, Zenon
<1>8. Placed(Program, 2, P4) /\ Placed(Program, 2 + (5 + 1 + 5 + 5), DpllInit)
  BY <1>4, <1>7, SequenceSizes, PlacedParts, Zenon
<1>9. Placed(Program, 2, P3) /\ Placed(Program, 2 + (5 + 1 + 5), ApllInit)
  BY <1>3, <1>8, SequenceSizes, PlacedParts, Zenon
<1>10. Placed(Program, 2, P2) /\ Placed(Program, 2 + (5 + 1), IopllInit)
  BY <1>2, <1>9, SequenceSizes, PlacedParts, Zenon
<1>11. Placed(Program, 2, RpllInit) /\ Placed(Program, 2 + 5, AmsToRpll)
  BY <1>10, SequenceSizes, PlacedParts, Zenon
<1> HIDE DEF P2, P3, P4, P5
<1>12. /\ Placed(Program, 2, PllSteps("RPLL"))
       /\ Placed(Program, 7, AmsToRpll)
       /\ Placed(Program, 8, PllSteps("IOPLL"))
       /\ Placed(Program, 13, PllSteps("APLL"))
       /\ Placed(Program, 18, PllSteps("DPLL"))
       /\ Placed(Program, 23, PllSteps("VPLL"))
  BY <1>7, <1>8, <1>9, <1>10, <1>11
     DEF RpllInit, IopllInit, ApllInit, DpllInit, VpllInit
<1>13. QED
  BY <1>12 DEF PllBefore, PLLs

LEMMA PllStepAt ==
  ASSUME NEW p \in PLLs
  PROVE  /\ Program[PllBefore(p) + 1] = Bypass(p, TRUE)
         /\ Program[PllBefore(p) + 2] = ResetPll(p, TRUE)
         /\ Program[PllBefore(p) + 3] = ResetPll(p, FALSE)
         /\ Program[PllBefore(p) + 4] = MaskPoll
         /\ Program[PllBefore(p) + 5] = Bypass(p, FALSE)
<1>1. Reads(Program, PllBefore(p), PllSteps(p), 5)
  BY PllPlacement, PllSize, PlacedStep, Zenon
<1>2. /\ PllSteps(p)[1] = Bypass(p, TRUE) /\ PllSteps(p)[2] = ResetPll(p, TRUE)
      /\ PllSteps(p)[3] = ResetPll(p, FALSE) /\ PllSteps(p)[4] = MaskPoll
      /\ PllSteps(p)[5] = Bypass(p, FALSE)
  BY DEF PllSteps
<1>3. {1, 2, 3, 4, 5} \subseteq 1 .. 5
  OBVIOUS
<1>4. QED
  BY <1>1, <1>2, <1>3, Zenon DEF Reads

LEMMA EarlyStepAt ==
  /\ Program[1] = Select("AMS", "IOPLL") /\ Program[2] = PutInReset({"QSPI"})
  /\ Program[8] = Select("AMS", "RPLL")
<1>1. Reads(Program, 0, psu_peripherals_pre_init_data, 2)
  BY Placement, SequenceSizes, PlacedStep, Zenon
<1>2. Reads(Program, 7, AmsToRpll, 1)
  BY PllPlacement, SequenceSizes, PlacedStep, Zenon
<1>3. /\ Program[1] = psu_peripherals_pre_init_data[1]
      /\ Program[2] = psu_peripherals_pre_init_data[2]
      /\ Program[8] = AmsToRpll[1]
  BY <1>1, <1>2 DEF Reads
<1>4. QED
  BY <1>3 DEF psu_peripherals_pre_init_data, AmsToRpll

LEMMA ClockSteps == psu_clock_init_data \in Seq(SelectStep)
<1>0. \A c \in Clocks, s \in PLLs \cup {"pss_ref_clk"} :
        Select(c, s) \in SelectStep
  BY DEF SelectStep, Select
<1> USE <1>0 DEF PLLs, Clocks
<1>1. EthernetAndFlashClocks \in Seq(SelectStep)
  BY DEF EthernetAndFlashClocks
<1>2. PeripheralClocks \in Seq(SelectStep)
  BY DEF PeripheralClocks
<1>3. LowPowerClocks \in Seq(SelectStep)
  BY DEF LowPowerClocks
<1>4. FabricAndSensorClocks \in Seq(SelectStep)
  BY DEF FabricAndSensorClocks
<1>5. FullPowerClocks \in Seq(SelectStep)
  BY DEF FullPowerClocks
<1>6. InterconnectClocks \in Seq(SelectStep)
  BY DEF InterconnectClocks
<1>7. QED
  BY ONLY <1>1, <1>2, <1>3, <1>4, <1>5, <1>6 DEF psu_clock_init_data

LEMMA ClockStepAt ==
  ASSUME NEW i \in 29 .. 54
  PROVE  Program[i] \in SelectStep
<1>1. i - 28 \in 1 .. 26 /\ 28 + (i - 28) = i
  OBVIOUS
<1>2. Reads(Program, 28, psu_clock_init_data, 26)
  BY Placement, FunctionSizes, PlacedStep, Zenon
<1>3. i - 28 \in 1 .. Len(psu_clock_init_data)
  BY <1>1, FunctionSizes, Zenon DEF SizeOf
<1>4. psu_clock_init_data[i - 28] \in SelectStep
  BY <1>3, ClockSteps
<1>5. Program[28 + (i - 28)] = psu_clock_init_data[i - 28]
  BY <1>1, <1>2, Zenon DEF Reads
<1>6. QED
  BY <1>1, <1>4, <1>5

LEMMA ClockPlacement ==
  /\ Placed(Program, 28, EthernetAndFlashClocks)
  /\ Placed(Program, 31, PeripheralClocks)
  /\ Placed(Program, 34, LowPowerClocks)
  /\ Placed(Program, 41, FabricAndSensorClocks)
  /\ Placed(Program, 45, FullPowerClocks)
<1> DEFINE P2 == EthernetAndFlashClocks \o PeripheralClocks
           P3 == P2 \o LowPowerClocks
           P4 == P3 \o FabricAndSensorClocks
           P5 == P4 \o FullPowerClocks
<1>1. psu_clock_init_data = P5 \o InterconnectClocks
  BY Zenon DEF psu_clock_init_data
<1>2. SizeOf(P2, 3 + 3)
  BY SequenceSizes, SizeOfConcat, Zenon
<1>3. SizeOf(P3, 3 + 3 + 7)
  BY <1>2, SequenceSizes, SizeOfConcat, Zenon
<1>4. SizeOf(P4, 3 + 3 + 7 + 4)
  BY <1>3, SequenceSizes, SizeOfConcat, Zenon
<1>5. SizeOf(P5, 3 + 3 + 7 + 4 + 5)
  BY <1>4, SequenceSizes, SizeOfConcat, Zenon
<1>6. Placed(Program, 28, P5)
  BY <1>1, <1>5, Placement, SequenceSizes, PlacedParts, Zenon
<1>7. /\ Placed(Program, 28, P4)
      /\ Placed(Program, 28 + (3 + 3 + 7 + 4), FullPowerClocks)
  BY <1>4, <1>6, SequenceSizes, PlacedParts, Zenon
<1>8. /\ Placed(Program, 28, P3)
      /\ Placed(Program, 28 + (3 + 3 + 7), FabricAndSensorClocks)
  BY <1>3, <1>7, SequenceSizes, PlacedParts, Zenon
<1>9. Placed(Program, 28, P2) /\ Placed(Program, 28 + (3 + 3), LowPowerClocks)
  BY <1>2, <1>8, SequenceSizes, PlacedParts, Zenon
<1>10. /\ Placed(Program, 28, EthernetAndFlashClocks)
       /\ Placed(Program, 28 + 3, PeripheralClocks)
  BY <1>9, SequenceSizes, PlacedParts, Zenon
<1> HIDE DEF P2, P3, P4, P5
<1>11. QED
  BY <1>7, <1>8, <1>9, <1>10

(* The i-th step chooses the source of clock c.                            *)
Chooses(i, c) == Program[i].op = "select" /\ Program[i].clock = c

LEMMA ClockChosen ==
  ASSUME NEW b \in Clocked
  PROVE  \E i \in 29 .. 54 : Chooses(i, ClockOf(b))
<1>1. /\ Reads(Program, 28, EthernetAndFlashClocks, 3)
      /\ Reads(Program, 31, PeripheralClocks, 3)
      /\ Reads(Program, 34, LowPowerClocks, 7)
      /\ Reads(Program, 41, FabricAndSensorClocks, 4)
      /\ Reads(Program, 45, FullPowerClocks, 5)
  BY ClockPlacement, SequenceSizes, PlacedStep, Zenon
<1>2. /\ Program[29] = EthernetAndFlashClocks[1]
      /\ Program[31] = EthernetAndFlashClocks[3]
      /\ Program[32] = PeripheralClocks[1] /\ Program[33] = PeripheralClocks[2]
      /\ Program[34] = PeripheralClocks[3] /\ Program[41] = LowPowerClocks[7]
      /\ Program[43] = FabricAndSensorClocks[2]
      /\ Program[45] = FabricAndSensorClocks[4]
      /\ Program[48] = FullPowerClocks[3] /\ Program[49] = FullPowerClocks[4]
      /\ Program[50] = FullPowerClocks[5]
  BY <1>1 DEF Reads
<1>3. Chooses(29, "GEM1") /\ Chooses(31, "QSPI")
  BY <1>2 DEF Chooses, EthernetAndFlashClocks, Select
<1>4. Chooses(32, "SDIO0") /\ Chooses(33, "UART1") /\ Chooses(34, "I2C0")
  BY <1>2 DEF Chooses, PeripheralClocks, Select
<1>5. Chooses(41, "ADMA")
  BY <1>2 DEF Chooses, LowPowerClocks, Select
<1>6. Chooses(43, "AMS") /\ Chooses(45, "TIMESTAMP")
  BY <1>2 DEF Chooses, FabricAndSensorClocks, Select
<1>7. Chooses(48, "DDR") /\ Chooses(49, "GPU") /\ Chooses(50, "GDMA")
  BY <1>2 DEF Chooses, FullPowerClocks, Select
<1>8. QED
  BY <1>3, <1>4, <1>5, <1>6, <1>7 DEF Clocked, ClockOf

LEMMA ReleaseStepAt ==
  ASSUME NEW i \in CalCall - 9 .. CalCall - 2
  PROVE  Program[i].op = "reset" /\ Program[i].to = "released"
<1> DEFINE Releases(s) == s.op = "reset" /\ s.to = "released"
<1>1. /\ Placed(Program, CalCall - 10, SystemRelease)
      /\ Placed(Program, (CalCall - 10) + 3, EthernetAndFlashRelease)
      /\ Placed(Program, (CalCall - 10) + (3 + 2), CardRelease)
      /\ Placed(Program, (CalCall - 10) + (3 + 2 + 1), SerialRelease)
  <2> DEFINE P2 == SystemRelease \o EthernetAndFlashRelease
             P3 == P2 \o CardRelease
  <2>1. psu_peripherals_init_data = P3 \o SerialRelease
    BY Zenon DEF psu_peripherals_init_data
  <2>2. SizeOf(P2, 3 + 2)
    BY SequenceSizes, SizeOfConcat, Zenon
  <2>3. SizeOf(P3, 3 + 2 + 1)
    BY <2>2, SequenceSizes, SizeOfConcat, Zenon
  <2>4. /\ Placed(Program, CalCall - 10, P3)
        /\ Placed(Program, (CalCall - 10) + (3 + 2 + 1), SerialRelease)
    BY <2>1, <2>3, Placement, SequenceSizes, PlacedParts, Zenon
  <2>5. /\ Placed(Program, CalCall - 10, P2)
        /\ Placed(Program, (CalCall - 10) + (3 + 2), CardRelease)
    BY <2>2, <2>4, SequenceSizes, PlacedParts, Zenon
  <2>6. QED
    BY <2>4, <2>5, SequenceSizes, PlacedParts, Zenon
<1>2. /\ Reads(Program, CalCall - 10, SystemRelease, 3)
      /\ Reads(Program, (CalCall - 10) + 3, EthernetAndFlashRelease, 2)
      /\ Reads(Program, (CalCall - 10) + (3 + 2), CardRelease, 1)
      /\ Reads(Program, (CalCall - 10) + (3 + 2 + 1), SerialRelease, 2)
  BY <1>1, SequenceSizes, PlacedStep, Zenon
<1>3. CalCall \in {66, 67}
  BY DEF CalCall
<1>4. /\ Program[CalCall - 9] = SystemRelease[1]
      /\ Program[CalCall - 8] = SystemRelease[2]
      /\ Program[CalCall - 7] = SystemRelease[3]
      /\ Program[CalCall - 6] = EthernetAndFlashRelease[1]
      /\ Program[CalCall - 5] = EthernetAndFlashRelease[2]
      /\ Program[CalCall - 4] = CardRelease[1]
      /\ Program[CalCall - 3] = SerialRelease[1]
      /\ Program[CalCall - 2] = SerialRelease[2]
  BY <1>2, <1>3 DEF Reads
<1>5. /\ \A k \in 1 .. 3 : Releases(SystemRelease[k])
      /\ \A k \in 1 .. 2 : Releases(EthernetAndFlashRelease[k])
      /\ Releases(CardRelease[1])
      /\ \A k \in 1 .. 2 : Releases(SerialRelease[k])
  BY DEF SystemRelease, EthernetAndFlashRelease, CardRelease, SerialRelease,
         Release
<1> HIDE DEF Releases
<1>6. Releases(Program[i])
  BY <1>3, <1>4, <1>5
<1>7. QED
  BY <1>6 DEF Releases

LEMMA LateStepAt ==
  /\ Program[55] = PutInReset({"DDR"}) /\ Program[56] = Release({"DDR"})
  /\ ~selfRefresh => Program[57] = Call("psu_ddr_phybringup_data")
  /\ Program[CalCall - 1] = PutInReset({"GEM1"})
  /\ Program[CalCall] = Call("serdes_fixcal_code")
  /\ Program[CalCall + 1] = Call("psu_serdes_init_data")
  /\ Program[CalCall + 2] = Release({"GEM1"})
  /\ Program[CalCall + 3] = MaskPoll
<1> DEFINE Calls ==
             << Call("serdes_fixcal_code"), Call("psu_serdes_init_data") >>
           P == << Call("psu_ddr_phybringup_data") >>
           P2 == psu_resetin_init_data \o Calls
<1>1. /\ Placed(Program, 54, DdrControllerReset)
      /\ Placed(Program, 54 + 1, DdrControllerRelease)
  BY Placement, SequenceSizes, PlacedParts, Zenon DEF psu_ddr_init_data
<1>2. init_serdes = P2 \o psu_resetout_init_data
  BY Zenon DEF init_serdes
<1>3. SizeOf(Calls, 2) /\ SizeOf(P, 1)
  BY SequenceSizes, Zenon
<1>4. ~selfRefresh => Placed(Program, 56, P)
  BY Placement, Zenon
<1> HIDE DEF Calls, P
<1>5. SizeOf(P2, 1 + 2)
  BY <1>3, SequenceSizes, SizeOfConcat, Zenon
<1>6. /\ Placed(Program, CalCall - 2, P2)
      /\ Placed(Program, (CalCall - 2) + (1 + 2), psu_resetout_init_data)
  BY <1>2, <1>5, Placement, SequenceSizes, PlacedParts, Zenon
<1>7. /\ Placed(Program, CalCall - 2, psu_resetin_init_data)
      /\ Placed(Program, (CalCall - 2) + 1, Calls)
  BY <1>3, <1>6, SequenceSizes, PlacedParts, Zenon
<1>8. /\ Reads(Program, 54, DdrControllerReset, 1)
      /\ Reads(Program, 54 + 1, DdrControllerRelease, 1)
      /\ Reads(Program, CalCall - 2, psu_resetin_init_data, 1)
      /\ Reads(Program, (CalCall - 2) + 1, Calls, 2)
      /\ Reads(Program, (CalCall - 2) + (1 + 2), psu_resetout_init_data, 2)
  BY <1>1, <1>3, <1>6, <1>7, SequenceSizes, PlacedStep, Zenon
<1>9. ~selfRefresh => Reads(Program, 56, P, 1)
  BY <1>3, <1>4, PlacedStep, Zenon
<1>10. CalCall \in {66, 67}
  BY DEF CalCall
<1>11. /\ Program[55] = DdrControllerReset[1]
       /\ Program[56] = DdrControllerRelease[1]
       /\ ~selfRefresh => Program[57] = P[1]
       /\ Program[CalCall - 1] = psu_resetin_init_data[1]
       /\ Program[CalCall] = Calls[1] /\ Program[CalCall + 1] = Calls[2]
       /\ Program[CalCall + 2] = psu_resetout_init_data[1]
       /\ Program[CalCall + 3] = psu_resetout_init_data[2]
  BY <1>8, <1>9, <1>10 DEF Reads
<1>12. /\ Calls[1] = Call("serdes_fixcal_code")
       /\ Calls[2] = Call("psu_serdes_init_data")
       /\ P[1] = Call("psu_ddr_phybringup_data")
  BY DEF Calls, P
<1>13. /\ DdrControllerReset[1] = PutInReset({"DDR"})
       /\ DdrControllerRelease[1] = Release({"DDR"})
       /\ psu_resetin_init_data[1] = PutInReset({"GEM1"})
       /\ psu_resetout_init_data[1] = Release({"GEM1"})
       /\ psu_resetout_init_data[2] = MaskPoll
  BY DEF DdrControllerReset, DdrControllerRelease, psu_resetin_init_data,
         psu_resetout_init_data
<1>14. QED
  BY <1>11, <1>12, <1>13, Zenon

(* There is no other position.                                             *)
LEMMA EveryPosition ==
  ASSUME TypeOK, ~Ended
  PROVE  /\ at \in 1 .. CalCall + 3
         /\ \/ at \in {1, 2, 8, 55, 56}
            \/ \E p \in PLLs : at \in PllBefore(p) + 1 .. PllBefore(p) + 5
            \/ at \in 29 .. 54
            \/ ~selfRefresh /\ at = 57
            \/ at \in CalCall - 9 .. CalCall - 2
            \/ at \in CalCall - 1 .. CalCall + 3
<1>1. Len(Program) = CalCall + 3
  BY Placement, Zenon DEF SizeOf
<1>2. CalCall = IF selfRefresh THEN 66 ELSE 67
  BY DEF CalCall
<1>3. at \in 1 .. CalCall + 3
  BY <1>1, <1>2 DEF TypeOK, Ended
<1>4. \/ at \in {1, 2, 8, 55, 56}
      \/ at \in 2 + 1 .. 2 + 5 \/ at \in 8 + 1 .. 8 + 5
      \/ at \in 13 + 1 .. 13 + 5
      \/ at \in 18 + 1 .. 18 + 5 \/ at \in 23 + 1 .. 23 + 5
      \/ at \in 29 .. 54
      \/ ~selfRefresh /\ at = 57
      \/ at \in CalCall - 9 .. CalCall - 2
      \/ at \in CalCall - 1 .. CalCall + 3
  BY <1>2, <1>3
<1>5. /\ PllBefore("RPLL") = 2 /\ PllBefore("IOPLL") = 8
      /\ PllBefore("APLL") = 13 /\ PllBefore("DPLL") = 18
      /\ PllBefore("VPLL") = 23
  BY DEF PllBefore
<1>6. {"RPLL", "IOPLL", "APLL", "DPLL", "VPLL"} \subseteq PLLs
  BY DEF PLLs
<1>7. QED
  BY <1>3, <1>4, <1>5, <1>6

LEMMA CallWhen ==
  /\ CalCall \in {66, 67}
  /\ selfRefresh => CalCall = 66
  /\ ~selfRefresh => CalCall = 67
BY DEF CalCall

LEMMA StepOps ==
  /\ \A p \in PLLs :
       /\ Program[PllBefore(p) + 1].op = "bypass"
       /\ Program[PllBefore(p) + 2].op = "resetPll"
       /\ Program[PllBefore(p) + 3].op = "resetPll"
       /\ Program[PllBefore(p) + 4].op = "mask_poll"
       /\ Program[PllBefore(p) + 5].op = "bypass"
  /\ Program[1].op = "select" /\ Program[2].op = "reset"
  /\ Program[8].op = "select"
  /\ \A i \in 29 .. 54 : Program[i].op = "select"
  /\ Program[55].op = "reset" /\ Program[56].op = "reset"
  /\ ~selfRefresh => Program[57].op = "psu_ddr_phybringup_data"
  /\ \A i \in CalCall - 9 .. CalCall - 2 : Program[i].op = "reset"
  /\ Program[CalCall - 1].op = "reset"
  /\ Program[CalCall].op = "serdes_fixcal_code"
  /\ Program[CalCall + 1].op = "psu_serdes_init_data"
  /\ Program[CalCall + 2].op = "reset" /\ Program[CalCall + 3].op = "mask_poll"
<1>1. /\ \A p \in PLLs, on \in BOOLEAN :
           Bypass(p, on).op = "bypass" /\ ResetPll(p, on).op = "resetPll"
      /\ \A c, s : Select(c, s).op = "select"
      /\ \A b : PutInReset(b).op = "reset" /\ Release(b).op = "reset"
      /\ \A f : Call(f).op = f
      /\ MaskPoll.op = "mask_poll"
  BY DEF Bypass, ResetPll, Select, PutInReset, Release, Call, MaskPoll
<1>2. TRUE \in BOOLEAN /\ FALSE \in BOOLEAN
  OBVIOUS
<1>3. \A i \in 29 .. 54 : Program[i].op = "select"
  BY ClockStepAt DEF SelectStep
<1>4. \A i \in CalCall - 9 .. CalCall - 2 : Program[i].op = "reset"
  BY ReleaseStepAt, Zenon
<1>5. ASSUME NEW p \in PLLs
      PROVE  /\ Program[PllBefore(p) + 1].op = "bypass"
             /\ Program[PllBefore(p) + 2].op = "resetPll"
             /\ Program[PllBefore(p) + 3].op = "resetPll"
             /\ Program[PllBefore(p) + 4].op = "mask_poll"
             /\ Program[PllBefore(p) + 5].op = "bypass"
  BY <1>1, <1>2, PllStepAt, Zenon
<1>6. /\ Program[1].op = "select" /\ Program[2].op = "reset"
      /\ Program[8].op = "select"
  BY EarlyStepAt DEF Select, PutInReset
<1>7. /\ Program[55].op = "reset" /\ Program[56].op = "reset"
      /\ ~selfRefresh => Program[57].op = "psu_ddr_phybringup_data"
      /\ Program[CalCall - 1].op = "reset"
      /\ Program[CalCall].op = "serdes_fixcal_code"
      /\ Program[CalCall + 1].op = "psu_serdes_init_data"
      /\ Program[CalCall + 2].op = "reset"
      /\ Program[CalCall + 3].op = "mask_poll"
  BY <1>1, LateStepAt, Zenon
<1>8. QED
  BY <1>3, <1>4, <1>5, <1>6, <1>7, Zenon

LEMMA PllBetween ==
  ASSUME NEW p \in PLLs
  PROVE  PllBefore(p) \in {2, 8, 13, 18, 23}
BY DEF PllBefore, PLLs

LEMMA PllApart ==
  ASSUME NEW p \in PLLs, NEW q \in PLLs, p # q
  PROVE  PllBefore(p) >= PllBefore(q) + 5 \/ PllBefore(q) >= PllBefore(p) + 5
BY DEF PllBefore, PLLs

LEMMA PllStepDue ==
  ASSUME TypeOK, Due("bypass") \/ Due("resetPll")
  PROVE  \E p \in PLLs :
           \/ at = PllBefore(p) + 1 /\ Step = Bypass(p, TRUE)
           \/ at = PllBefore(p) + 2 /\ Step = ResetPll(p, TRUE)
           \/ at = PllBefore(p) + 3 /\ Step = ResetPll(p, FALSE)
           \/ at = PllBefore(p) + 5 /\ Step = Bypass(p, FALSE)
<1>1. ~Ended /\ Program[at].op \in {"bypass", "resetPll"}
  BY DEF Due
<1>2. at \in Nat
  BY DEF TypeOK
<1>3. PICK p \in PLLs : at \in PllBefore(p) + 1 .. PllBefore(p) + 5
  BY <1>1, EveryPosition, StepOps, CallWhen
<1>4. \/ at = PllBefore(p) + 1 \/ at = PllBefore(p) + 2 \/ at = PllBefore(p) + 3
      \/ at = PllBefore(p) + 4 \/ at = PllBefore(p) + 5
  BY <1>2, <1>3, PllBetween
<1>5. at # PllBefore(p) + 4
  BY <1>1, StepOps
<1>6. QED
  BY <1>4, <1>5, PllStepAt, Zenon DEF Step

LEMMA SelectDue ==
  ASSUME TypeOK, Due("select")
  PROVE  \/ at = 1 /\ Step = Select("AMS", "IOPLL")
         \/ at = 8 /\ Step = Select("AMS", "RPLL")
         \/ at \in 29 .. 54 /\ Step \in SelectStep
<1>1. ~Ended /\ Program[at].op = "select"
  BY DEF Due
<1>2. at \in {1, 8} \/ at \in 29 .. 54
  <2>1. ASSUME NEW p \in PLLs
        PROVE  at \notin PllBefore(p) + 1 .. PllBefore(p) + 5
    <3>1. /\ at # PllBefore(p) + 1 /\ at # PllBefore(p) + 2
          /\ at # PllBefore(p) + 3 /\ at # PllBefore(p) + 4
          /\ at # PllBefore(p) + 5
      BY <1>1, StepOps
    <3>2. at \in Nat
      BY DEF TypeOK
    <3>3. QED
      BY <3>1, <3>2, PllBetween
  <2>2. QED
    BY <1>1, <2>1, EveryPosition, StepOps, CallWhen
<1>3. QED
  BY <1>2, EarlyStepAt, ClockStepAt DEF Step

LEMMA ResetDue ==
  ASSUME TypeOK, Due("reset")
  PROVE  /\ at \notin {CalCall, CalCall + 1}
         /\ at < 56 => Step.to = "reset"
         /\ Step \in ResetStep
         /\ at = CalCall - 1 => Step = PutInReset({"GEM1"})
<1>1. ~Ended /\ Program[at].op = "reset"
  BY DEF Due
<1>2. at \notin {CalCall, CalCall + 1}
  BY <1>1, StepOps
<1>3. Step \in ResetStep
  <2>1. at \in 1 .. Len(Program) /\ Program \in Seq(Steps)
    BY <1>1, Placement DEF TypeOK, Ended, SizeOf
  <2>2. Step \in Steps
    BY <2>1 DEF Step
  <2>3. QED
    BY <1>1, <2>2 DEF Step, Steps, PllStep, SelectStep, CallStep
<1>4. at = CalCall - 1 => Step = PutInReset({"GEM1"})
  BY LateStepAt DEF Step
<1>5. at < 56 => at \in {2, 55}
  <2>1. ASSUME NEW p \in PLLs
        PROVE  at \notin PllBefore(p) + 1 .. PllBefore(p) + 5
    <3>1. /\ at # PllBefore(p) + 1 /\ at # PllBefore(p) + 2
          /\ at # PllBefore(p) + 3 /\ at # PllBefore(p) + 4
          /\ at # PllBefore(p) + 5
      BY <1>1, StepOps
    <3>2. at \in Nat
      BY DEF TypeOK
    <3>3. QED
      BY <3>1, <3>2, PllBetween
  <2>2. QED
    BY <1>1, <2>1, EveryPosition, StepOps, CallWhen
<1>6. \A b : PutInReset(b).to = "reset"
  BY DEF PutInReset
<1>7. QED
  BY <1>2, <1>3, <1>4, <1>5, <1>6, EarlyStepAt, LateStepAt DEF Step

LEMMA CallDue ==
  ASSUME TypeOK
  PROVE  /\ Due("psu_ddr_phybringup_data") <=> ~selfRefresh /\ at = 57
         /\ Due("serdes_fixcal_code") <=> at = CalCall
         /\ Due("psu_serdes_init_data") <=> at = CalCall + 1
<1>1. Ended <=> at > CalCall + 3
  BY Placement DEF Ended, SizeOf
<1>2. \A p \in PLLs : at \in PllBefore(p) + 1 .. PllBefore(p) + 5 =>
        Program[at].op \in {"bypass", "resetPll", "mask_poll"}
  <2> SUFFICES ASSUME NEW p \in PLLs,
                      at \in PllBefore(p) + 1 .. PllBefore(p) + 5
               PROVE  Program[at].op \in {"bypass", "resetPll", "mask_poll"}
    OBVIOUS
  <2>1. \/ at = PllBefore(p) + 1 \/ at = PllBefore(p) + 2
        \/ at = PllBefore(p) + 3 \/ at = PllBefore(p) + 4
        \/ at = PllBefore(p) + 5
    BY PllBetween
  <2>2. QED
    BY <2>1, StepOps
<1>3. CASE Ended
  BY <1>1, <1>3, CallWhen DEF Due, TypeOK
<1>4. CASE ~Ended
  <2>1. at \in 1 .. CalCall + 3
    BY <1>4, EveryPosition
  <2>2. Program[at].op = "psu_ddr_phybringup_data" <=> ~selfRefresh /\ at = 57
    BY <1>2, <1>4, <2>1, EveryPosition, StepOps, CallWhen
  <2>3. Program[at].op = "serdes_fixcal_code" <=> at = CalCall
    BY <1>2, <1>4, <2>1, EveryPosition, StepOps, CallWhen
  <2>4. Program[at].op = "psu_serdes_init_data" <=> at = CalCall + 1
    BY <1>2, <1>4, <2>1, EveryPosition, StepOps, CallWhen
  <2>5. QED
    BY <1>4, <2>2, <2>3, <2>4 DEF Due
<1>5. QED
  BY <1>3, <1>4


LEMMA OrderInitially == Init => OrderInv
<1> USE CallWhen
<1> SUFFICES ASSUME Init PROVE OrderInv
  OBVIOUS
<1> USE DEF Init
<1>1. TypeOK
  <2>1. at \in 1 .. Len(Program) + 1
    BY Placement DEF SizeOf
  <2>2. PhyTypeOK /\ CalTypeOK
    BY PhyInitially, CalInit DEF PhyInv, CalInv
  <2>3. pll \in [PLLs -> [bypass : BOOLEAN, reset : BOOLEAN]]
    <3>1. {[bypass |-> TRUE, reset |-> TRUE],
           [bypass |-> FALSE, reset |-> FALSE]}
            \subseteq [bypass : BOOLEAN, reset : BOOLEAN]
      BY ONLY TRUE
    <3>2. QED
      BY <3>1, Zenon
  <2>4. source \in [Clocks -> PLLs \cup {"boot", "pss_ref_clk"}]
    OBVIOUS
  <2>5. block \in [Clocked -> {"boot", "reset", "released"}]
    OBVIOUS
  <2>6. QED
    BY <2>1, <2>2, <2>3, <2>4, <2>5 DEF TypeOK
<1>2. PllInv
  <2>1. "IOPLL" \in PLLs /\ Running("IOPLL")
    BY DEF PLLs, Running
  <2>2. QED
    BY <2>1, PllBetween DEF PllInv
<1>3. SourceInv
  BY DEF SourceInv, PllsDone, Clocks
<1>4. BlockInv
  BY DEF BlockInv, FirstRelease
<1>5. CallInv
  BY DEF CallInv, PhyIdle, CalIdle, PhyCall
<1>6. StatusInv
  BY DEF StatusInv, PhyCall
<1>7. QED
  BY <1>1, <1>2, <1>3, <1>4, <1>5, <1>6 DEF OrderInv


(* What a step does to `at', and with it to each of the others.            *)
LEMMA ProgramKept ==
  ASSUME [Next]_vars
  PROVE  /\ selfRefresh' = selfRefresh
         /\ Program' = Program /\ CalCall' = CalCall
         /\ at' = at \/ (at' = at + 1 /\ ~Ended)
<1>1. selfRefresh' = selfRefresh
  BY DEF Next, vars, psuVars, SetBypass, SetReset, Poll, SelectSource, SetBlocks,
         Bringup, BringupReturns, Calibrate, CalibrateReturns, Lanes, Return
<1>2. Program' = Program
  BY <1>1, Zenon DEF Program
<1>3. CalCall' = CalCall
  BY <1>1 DEF CalCall
<1>4. at' = at \/ (at' = at + 1 /\ ~Ended)
  BY DEF Next, vars, psuVars, SetBypass, SetReset, Poll, SelectSource, SetBlocks,
         Bringup, BringupReturns, Calibrate, CalibrateReturns, Lanes, Return, Due
<1>5. QED
  BY <1>1, <1>2, <1>3, <1>4

LEMMA PllChange ==
  ASSUME [Next]_vars
  PROVE  \/ SetBypass \/ SetReset
         \/ UNCHANGED << at, pll >>
         \/ /\ at' = at + 1 /\ UNCHANGED pll
            /\ ~Ended /\ Program[at].op \notin {"bypass", "resetPll"}
BY DEF Next, vars, psuVars, Poll, SelectSource, SetBlocks,
       Bringup, BringupReturns, Calibrate, CalibrateReturns, Lanes, Return, Due

LEMMA SourceChange ==
  ASSUME [Next]_vars
  PROVE  \/ SelectSource
         \/ UNCHANGED << at, source >>
         \/ at' = at + 1 /\ UNCHANGED source /\ ~Ended /\ Program[at].op # "select"
BY DEF Next, vars, psuVars, SetBypass, SetReset, Poll, SetBlocks,
       Bringup, BringupReturns, Calibrate, CalibrateReturns, Lanes, Return, Due

LEMMA BlockChange ==
  ASSUME [Next]_vars
  PROVE  \/ SetBlocks
         \/ UNCHANGED << at, block >>
         \/ at' = at + 1 /\ UNCHANGED block /\ ~Ended /\ Program[at].op # "reset"
BY DEF Next, vars, psuVars, SetBypass, SetReset, Poll, SelectSource,
       Bringup, BringupReturns, Calibrate, CalibrateReturns, Lanes, Return, Due

LEMMA CallChange ==
  ASSUME [Next]_vars
  PROVE  \/ Bringup \/ BringupReturns \/ Calibrate \/ CalibrateReturns \/ Return
         \/ UNCHANGED << at, status, result, phyVars, calVars >>
         \/ /\ at' = at + 1 /\ UNCHANGED << status, result, phyVars, calVars >>
            /\ ~Ended
            /\ Program[at].op \notin {"psu_ddr_phybringup_data", "serdes_fixcal_code"}
BY DEF Next, vars, psuVars, SetBypass, SetReset, Poll, SelectSource,
       SetBlocks, Lanes, Due

LEMMA DueTypes ==
  ASSUME TypeOK, Due("bypass") \/ Due("resetPll")
  PROVE  Step.pll \in PLLs /\ Step.on \in BOOLEAN
<1>1. \A p \in PLLs, on \in BOOLEAN :
        /\ Bypass(p, on).pll = p /\ Bypass(p, on).on = on
        /\ ResetPll(p, on).pll = p /\ ResetPll(p, on).on = on
  BY Zenon DEF Bypass, ResetPll
<1>2. PICK p \in PLLs, on \in BOOLEAN :
        Step = Bypass(p, on) \/ Step = ResetPll(p, on)
  BY PllStepDue, Zenon
<1>3. Step.pll = p /\ Step.on = on
  BY <1>1, <1>2
<1>4. QED
  BY <1>3

LEMMA TypeStep ==
  ASSUME TypeOK, CalInv', PhyInv', [Next]_vars
  PROVE  TypeOK'
<1>1. PhyTypeOK' /\ CalTypeOK'
  BY DEF PhyInv, CalInv
<1>2. /\ Len(Program) \in Nat
      /\ \A i \in 1 .. Len(Program) : Program[i] \in Steps
  BY Placement DEF SizeOf
<1>3. selfRefresh' \in BOOLEAN /\ at' \in 1 .. Len(Program') + 1
  BY <1>2, ProgramKept DEF Ended, TypeOK
<1>4. pll' \in [PLLs -> [bypass : BOOLEAN, reset : BOOLEAN]]
  <2>1. CASE SetBypass
    <3>1. Step.pll \in PLLs /\ Step.on \in BOOLEAN
      BY <2>1, DueTypes DEF SetBypass
    <3>2. QED
      BY <2>1, <3>1 DEF SetBypass, TypeOK
  <2>2. CASE SetReset
    <3>1. Step.pll \in PLLs /\ Step.on \in BOOLEAN
      BY <2>2, DueTypes DEF SetReset
    <3>2. QED
      BY <2>2, <3>1 DEF SetReset, TypeOK
  <2>3. QED
    BY <2>1, <2>2, PllChange DEF TypeOK
<1>5. source' \in [Clocks -> PLLs \cup {"boot", "pss_ref_clk"}]
  <2>1. CASE SelectSource
    <3>1. Step.clock \in Clocks /\ Step.source \in PLLs \cup {"pss_ref_clk"}
      BY <2>1, SelectDue DEF SelectSource, SelectStep, Select, Clocks, PLLs
    <3>2. QED
      BY <2>1, <3>1 DEF SelectSource, TypeOK
  <2>2. QED
    BY <2>1, SourceChange DEF TypeOK
<1>6. block' \in [Clocked -> {"boot", "reset", "released"}]
  <2>1. CASE SetBlocks
    <3>1. Step.to \in {"reset", "released"}
      BY <2>1, ResetDue DEF SetBlocks, ResetStep
    <3>2. QED
      BY <2>1, <3>1 DEF SetBlocks, TypeOK
  <2>2. QED
    BY <2>1, BlockChange DEF TypeOK
<1>7. status' \in {0, 1} /\ result' \in {-1, 0, 1}
  BY CallChange DEF TypeOK, Bringup, BringupReturns, Calibrate, CalibrateReturns,
                    Return, psuVars
<1>8. QED
  BY <1>1, <1>3, <1>4, <1>5, <1>6, <1>7 DEF TypeOK

LEMMA PllInvStep ==
  ASSUME TypeOK, PllInv, [Next]_vars
  PROVE  PllInv'
<1> SUFFICES ASSUME NEW p \in PLLs
             PROVE  /\ at' > PllBefore(p) + 3 => ~pll'[p].reset
                    /\ at' > PllBefore(p) + 5 \/ (p = "IOPLL" /\ at' <= PllBefore(p) + 1)
                         => ~pll'[p].bypass /\ ~pll'[p].reset
  BY DEF PllInv, Running
<1>1. /\ at > PllBefore(p) + 3 => ~pll[p].reset
      /\ at > PllBefore(p) + 5 \/ (p = "IOPLL" /\ at <= PllBefore(p) + 1)
           => ~pll[p].bypass /\ ~pll[p].reset
  BY DEF PllInv, Running
<1>2. at \in Nat /\ PllBefore(p) \in Nat
  BY PllBetween DEF TypeOK
<1>3. pll[p] \in [bypass : BOOLEAN, reset : BOOLEAN]
  BY DEF TypeOK
<1>4. ASSUME SetBypass \/ SetReset
      PROVE  at' = at + 1 /\ \E q \in PLLs :
               \/ /\ at = PllBefore(q) + 1
                  /\ pll' = [pll EXCEPT ![q].bypass = TRUE]
               \/ /\ at = PllBefore(q) + 2
                  /\ pll' = [pll EXCEPT ![q].reset = TRUE]
               \/ /\ at = PllBefore(q) + 3
                  /\ pll' = [pll EXCEPT ![q].reset = FALSE]
               \/ /\ at = PllBefore(q) + 5
                  /\ pll' = [pll EXCEPT ![q].bypass = FALSE]
  <2>1. PICK q \in PLLs :
           \/ at = PllBefore(q) + 1 /\ Step = Bypass(q, TRUE)
           \/ at = PllBefore(q) + 2 /\ Step = ResetPll(q, TRUE)
           \/ at = PllBefore(q) + 3 /\ Step = ResetPll(q, FALSE)
           \/ at = PllBefore(q) + 5 /\ Step = Bypass(q, FALSE)
    BY <1>4, PllStepDue DEF SetBypass, SetReset
  <2>2. CASE SetBypass
    <3>1. Step.op = "bypass"
      BY <2>2 DEF SetBypass, Due, Step
    <3>2. \/ at = PllBefore(q) + 1 /\ Step.pll = q /\ Step.on = TRUE
          \/ at = PllBefore(q) + 5 /\ Step.pll = q /\ Step.on = FALSE
      BY <2>1, <3>1 DEF Bypass, ResetPll
    <3>3. QED
      BY <2>2, <3>2 DEF SetBypass
  <2>3. CASE SetReset
    <3>1. Step.op = "resetPll"
      BY <2>3 DEF SetReset, Due, Step
    <3>2. \/ at = PllBefore(q) + 2 /\ Step.pll = q /\ Step.on = TRUE
          \/ at = PllBefore(q) + 3 /\ Step.pll = q /\ Step.on = FALSE
      BY <2>1, <3>1 DEF Bypass, ResetPll
    <3>3. QED
      BY <2>3, <3>2 DEF SetReset
  <2>4. QED
    BY <1>4, <2>2, <2>3
<1>5. CASE SetBypass \/ SetReset
  <2>1. PICK q \in PLLs :
               \/ /\ at = PllBefore(q) + 1
                  /\ pll' = [pll EXCEPT ![q].bypass = TRUE]
               \/ /\ at = PllBefore(q) + 2
                  /\ pll' = [pll EXCEPT ![q].reset = TRUE]
               \/ /\ at = PllBefore(q) + 3
                  /\ pll' = [pll EXCEPT ![q].reset = FALSE]
               \/ /\ at = PllBefore(q) + 5
                  /\ pll' = [pll EXCEPT ![q].bypass = FALSE]
    BY <1>4, <1>5
  <2>2. /\ at' = at + 1 /\ PllBefore(q) \in Nat
        /\ pll \in [PLLs -> [bypass : BOOLEAN, reset : BOOLEAN]]
    BY <1>4, <1>5, PllBetween DEF TypeOK
  <2>3. CASE q = p
    BY <1>1, <1>2, <1>3, <2>1, <2>2, <2>3
  <2>4. CASE q # p
    <3>1. pll'[p] = pll[p]
      BY <2>1, <2>2, <2>4
    <3>2. \/ PllBefore(p) >= PllBefore(q) + 5 \/ PllBefore(q) >= PllBefore(p) + 5
      BY <2>4, PllApart
    <3>3. PllBefore("IOPLL") = 8
      BY DEF PllBefore
    <3>4. at \in {PllBefore(q) + 1, PllBefore(q) + 2, PllBefore(q) + 3,
                  PllBefore(q) + 5}
      BY <2>1
    <3>5. QED
      BY <1>1, <1>2, <2>2, <3>1, <3>2, <3>4
  <2>5. QED
    BY <2>3, <2>4
<1>6. CASE UNCHANGED << at, pll >>
  BY <1>1, <1>6
<1>7. CASE /\ at' = at + 1 /\ UNCHANGED pll
           /\ Program[at].op \notin {"bypass", "resetPll"}
  <2>1. at # PllBefore(p) + 3 /\ at # PllBefore(p) + 5
    BY <1>7, StepOps
  <2>2. QED
    BY <1>1, <1>2, <1>7, <2>1
<1>8. QED
  BY <1>5, <1>6, <1>7, PllChange

LEMMA SourceInvStep ==
  ASSUME TypeOK, SourceInv, [Next]_vars
  PROVE  SourceInv'
<1> USE DEF PllsDone
<1>1. /\ at \in Nat /\ at >= 1
      /\ source \in [Clocks -> PLLs \cup {"boot", "pss_ref_clk"}]
      /\ "AMS" \in Clocks /\ "boot" \notin PLLs
  BY DEF TypeOK, Clocks, PLLs
<1>2. /\ at <= 29 =>
           /\ \A c \in Clocks \ {"AMS"} : source[c] = "boot"
           /\ IF at <= 8 THEN source["AMS"] \in {"boot", "IOPLL"}
                         ELSE source["AMS"] = "RPLL"
      /\ \A i \in 1 .. at - 1 :
           Program[i].op = "select" => source[Program[i].clock] # "boot"
  BY DEF SourceInv
<1>3. CASE SelectSource
  <2>1. at' = at + 1 /\ source' = [source EXCEPT ![Step.clock] = Step.source]
    BY <1>3 DEF SelectSource
  <2>2. \/ at = 1 /\ Step.clock = "AMS" /\ Step.source = "IOPLL"
        \/ at = 8 /\ Step.clock = "AMS" /\ Step.source = "RPLL"
        \/ at \in 29 .. 54
    BY <1>3, SelectDue DEF SelectSource, Select
  <2>3. Step.clock \in Clocks /\ Step.source \in PLLs \cup {"pss_ref_clk"}
    BY <1>3, SelectDue DEF SelectSource, SelectStep, Select, Clocks, PLLs
  <2>4. at' <= 29 =>
           /\ \A c \in Clocks \ {"AMS"} : source'[c] = "boot"
           /\ IF at' <= 8 THEN source'["AMS"] \in {"boot", "IOPLL"}
                          ELSE source'["AMS"] = "RPLL"
    BY <1>1, <1>2, <2>1, <2>2
  <2>5. \A i \in 1 .. at' - 1 :
           Program[i].op = "select" => source'[Program[i].clock] # "boot"
    <3> SUFFICES ASSUME NEW i \in 1 .. at' - 1, Program[i].op = "select"
                 PROVE  source'[Program[i].clock] # "boot"
      OBVIOUS
    <3>1. CASE Program[i].clock = Step.clock
      BY <1>1, <2>1, <2>3, <3>1
    <3>2. CASE Program[i].clock # Step.clock
      <4>1. i \in 1 .. at - 1
        BY <1>1, <2>1, <3>2 DEF Step
      <4>2. source[Program[i].clock] # "boot"
        BY <1>2, <4>1
      <4>3. Program[i].clock \in Clocks
        <5>1. i \in 1 .. Len(Program) /\ Program \in Seq(Steps)
          BY <4>1, Placement DEF TypeOK, SizeOf
        <5>2. Program[i] \in Steps
          BY <5>1
        <5>3. QED
          BY <5>2 DEF Steps, PllStep, SelectStep, ResetStep, CallStep
      <4>4. QED
        BY <1>1, <2>1, <3>2, <4>2, <4>3
    <3>3. QED
      BY <3>1, <3>2
  <2>6. QED
    BY <2>4, <2>5, ProgramKept DEF SourceInv
<1>4. CASE UNCHANGED << at, source >>
  BY <1>4, ProgramKept DEF SourceInv
<1>5. CASE at' = at + 1 /\ UNCHANGED source /\ ~Ended /\ Program[at].op # "select"
  <2>1. at # 8
    BY <1>5, StepOps
  <2>2. at' <= 29 =>
           /\ \A c \in Clocks \ {"AMS"} : source'[c] = "boot"
           /\ IF at' <= 8 THEN source'["AMS"] \in {"boot", "IOPLL"}
                          ELSE source'["AMS"] = "RPLL"
    BY <1>1, <1>2, <1>5, <2>1
  <2>3. \A i \in 1 .. at' - 1 :
           Program[i].op = "select" => source'[Program[i].clock] # "boot"
    <3>1. \A i \in 1 .. at' - 1 : i \in 1 .. at - 1 \/ i = at
      BY <1>1, <1>5
    <3>2. QED
      BY <1>2, <1>5, <3>1
  <2>4. QED
    BY <2>2, <2>3, ProgramKept DEF SourceInv
<1>6. QED
  BY <1>3, <1>4, <1>5, SourceChange

LEMMA BlockInvStep ==
  ASSUME TypeOK, BlockInv, [Next]_vars
  PROVE  BlockInv'
<1> USE CallWhen
<1> USE DEF FirstRelease
<1>1. at \in Nat /\ "GEM1" \in Clocked
  BY DEF TypeOK, Clocked
<1>2. /\ at <= 56 => \A b \in Clocked : block[b] # "released"
      /\ at \in {CalCall, CalCall + 1} => block["GEM1"] = "reset"
  BY DEF BlockInv
<1>3. CASE SetBlocks
  <2>1. /\ at' = at + 1
        /\ block' = [b \in Clocked |->
                       IF b \in Step.blocks THEN Step.to ELSE block[b]]
        /\ Due("reset")
    BY <1>3 DEF SetBlocks
  <2>2. at' <= 56 => \A b \in Clocked : block'[b] # "released"
    BY <1>1, <1>2, <2>1, ResetDue
  <2>3. at' \in {CalCall, CalCall + 1} => block'["GEM1"] = "reset"
    <3>1. at' \in {CalCall, CalCall + 1} => at = CalCall - 1
      BY <1>1, <2>1, ResetDue
    <3>2. at = CalCall - 1 => "GEM1" \in Step.blocks /\ Step.to = "reset"
      BY <2>1, ResetDue DEF PutInReset
    <3>3. QED
      BY <1>1, <2>1, <3>1, <3>2
  <2>4. QED
    BY <2>2, <2>3, ProgramKept DEF BlockInv
<1>4. CASE UNCHANGED << at, block >>
  BY <1>4, ProgramKept DEF BlockInv
<1>5. CASE at' = at + 1 /\ UNCHANGED block /\ ~Ended /\ Program[at].op # "reset"
  <2>1. at # CalCall - 1
    BY <1>5, StepOps
  <2>2. QED
    BY <1>1, <1>2, <1>5, <2>1, ProgramKept DEF BlockInv
<1>6. QED
  BY <1>3, <1>4, <1>5, BlockChange

LEMMA CallInvStep ==
  ASSUME TypeOK, CallInv, [Next]_vars
  PROVE  CallInv'
<1> USE CallWhen
<1> USE DEF PhyCall, CallInv
<1>1. at \in Nat
  BY DEF TypeOK
<1>2. CASE Bringup
  BY <1>2, CallDue, ProgramKept DEF Bringup, psuVars, calVars
<1>3. CASE BringupReturns
  BY <1>1, <1>3, CallDue, ProgramKept DEF BringupReturns, phyVars, calVars
<1>4. CASE Calibrate
  BY <1>4, CallDue, ProgramKept DEF Calibrate, psuVars, phyVars
<1>5. CASE CalibrateReturns
  BY <1>1, <1>5, CallDue, ProgramKept DEF CalibrateReturns, phyVars, calVars
<1>6. CASE Return
  BY <1>6, ProgramKept DEF Return, phyVars, calVars
<1>7. CASE UNCHANGED << at, status, result, phyVars, calVars >>
  BY <1>7, ProgramKept DEF phyVars, calVars
<1>8. CASE /\ at' = at + 1 /\ UNCHANGED << status, result, phyVars, calVars >>
           /\ ~Ended
           /\ Program[at].op \notin {"psu_ddr_phybringup_data", "serdes_fixcal_code"}
  <2>1. at # CalCall /\ (selfRefresh \/ at # 57)
    BY <1>8, StepOps
  <2>2. QED
    BY <1>1, <1>8, <2>1, ProgramKept DEF phyVars, calVars
<1>9. QED
  BY <1>2, <1>3, <1>4, <1>5, <1>6, <1>7, <1>8, CallChange

LEMMA StatusInvStep ==
  ASSUME TypeOK, CallInv, StatusInv, [Next]_vars
  PROVE  StatusInv'
<1> USE CallWhen
<1> USE DEF PhyCall, StatusInv
<1>1. at \in Nat /\ status \in {0, 1} /\ phyRet \in {-1, 0, 1}
  BY DEF TypeOK, PhyTypeOK
<1>2. Ended <=> at > CalCall + 3
  BY Placement DEF Ended, SizeOf
<1>3. Ended' <=> at' > CalCall + 3
  BY Placement, ProgramKept DEF Ended, SizeOf
<1>4. CASE Bringup
  BY <1>2, <1>3, <1>4, CallDue, ProgramKept DEF Bringup, psuVars, calVars
<1>5. CASE BringupReturns
  BY <1>1, <1>2, <1>3, <1>5, CallDue, ProgramKept
     DEF BringupReturns, phyVars, calVars
<1>6. CASE Calibrate
  BY <1>2, <1>3, <1>6, CallDue, ProgramKept DEF Calibrate, psuVars, phyVars
<1>7. CASE CalibrateReturns
  BY <1>1, <1>2, <1>3, <1>7, CallDue, ProgramKept
     DEF CalibrateReturns, phyVars, calVars
<1>8. CASE Return
  BY <1>1, <1>2, <1>3, <1>8, ProgramKept DEF Return, phyVars, calVars
<1>9. CASE UNCHANGED << at, status, result, phyVars, calVars >>
  BY <1>2, <1>3, <1>9, ProgramKept DEF phyVars, calVars
<1>10. CASE /\ at' = at + 1 /\ UNCHANGED << status, result, phyVars, calVars >>
           /\ ~Ended
           /\ Program[at].op \notin {"psu_ddr_phybringup_data", "serdes_fixcal_code"}
  <2>1. at # CalCall /\ (selfRefresh \/ at # 57)
    BY <1>10, StepOps
  <2>2. QED
    BY <1>1, <1>2, <1>3, <1>10, <2>1, ProgramKept DEF phyVars, calVars
<1>11. QED
  BY <1>4, <1>5, <1>6, <1>7, <1>8, <1>9, <1>10, CallChange

-----------------------------------------------------------------------------
(* Everything the program's order is good for, of any program that started. *)
THEOREM OrderInvariant == Spec => [](OrderInv /\ CalInv /\ PhyInv)
<1>1. Init => OrderInv /\ CalInv /\ PhyInv
  BY OrderInitially, CalInit, PhyInitially DEF Init
<1>2. OrderInv /\ CalInv /\ PhyInv /\ [Next]_vars
        => (OrderInv /\ CalInv /\ PhyInv)'
  <2> SUFFICES ASSUME OrderInv, CalInv, PhyInv, [Next]_vars
               PROVE  OrderInv' /\ CalInv' /\ PhyInv'
    OBVIOUS
  <2>1. CalInv' /\ PhyInv'
    BY CalStep, PhyStep, ProgramStep
  <2>2. TypeOK' /\ PllInv' /\ SourceInv' /\ BlockInv'
    BY <2>1, TypeStep, PllInvStep, SourceInvStep, BlockInvStep DEF OrderInv
  <2>3. CallInv' /\ StatusInv'
    BY CallInvStep, StatusInvStep DEF OrderInv
  <2>4. QED
    BY <2>1, <2>2, <2>3 DEF OrderInv
<1>3. QED
  BY <1>1, <1>2, PTL DEF Spec

LEMMA SteadyByOrder ==
  ASSUME OrderInv
  PROVE  ClocksSteady
<1> SUFFICES ASSUME NEW c \in Clocks, source[c] \in PLLs
             PROVE  Running(source[c])
  BY DEF ClocksSteady, Steady, Running
<1>1. at \in Nat /\ "boot" \notin PLLs
  BY DEF OrderInv, TypeOK, PLLs
<1>2. /\ PllBefore("IOPLL") = 8 /\ PllBefore("RPLL") = 2
      /\ "IOPLL" \in PLLs /\ "RPLL" \in PLLs
  BY DEF PllBefore, PLLs
<1>3. \A p \in PLLs :
        at > PllBefore(p) + 5 \/ (p = "IOPLL" /\ at <= PllBefore(p) + 1)
          => Running(p)
  BY DEF OrderInv, PllInv
<1>4. CASE at > 28
  BY <1>1, <1>3, <1>4, PllBetween
<1>5. CASE at <= 28
  <2>1. /\ c = "AMS"
        /\ IF at <= 8 THEN source[c] \in {"boot", "IOPLL"} ELSE source[c] = "RPLL"
    BY <1>1, <1>5 DEF OrderInv, SourceInv, PllsDone
  <2>2. CASE at <= 8
    BY <1>1, <1>2, <1>3, <2>1, <2>2
  <2>3. CASE at > 8
    BY <1>1, <1>2, <1>3, <2>1, <2>3
  <2>4. QED
    BY <1>1, <2>2, <2>3
<1>6. QED
  BY <1>1, <1>4, <1>5

(* ClocksSteady: no PLL is bypassed or reset under a clock that has been   *)
(* given it, whatever state the boot ROM left the other PLLs in.           *)
THEOREM ClocksStaySteady == Spec => []ClocksSteady
<1>1. OrderInv => ClocksSteady
  BY SteadyByOrder
<1>2. QED
  BY <1>1, OrderInvariant, PTL

(* ReleasedClocked: a block out of reset has a clock, and a steady one.    *)
THEOREM ReleasedHaveClocks == Spec => []ReleasedClocked
<1>1. OrderInv => ReleasedClocked
  <2> SUFFICES ASSUME OrderInv, NEW b \in Clocked, block[b] = "released"
               PROVE  source[ClockOf(b)] # "boot" /\ Steady(ClockOf(b))
    BY DEF ReleasedClocked
  <2>1. ClockOf(b) \in Clocks
    BY DEF ClockOf, Clocked, Clocks
  <2>2. at \in Nat /\ at > 56
    BY DEF OrderInv, TypeOK, BlockInv, FirstRelease
  <2>3. PICK i \in 29 .. 54 :
          Program[i].op = "select" /\ Program[i].clock = ClockOf(b)
    BY ClockChosen DEF Chooses
  <2>4. i \in 1 .. at - 1
    BY <2>2
  <2>5. source[ClockOf(b)] # "boot"
    BY <2>3, <2>4 DEF OrderInv, SourceInv
  <2>6. QED
    BY <2>1, <2>5, SteadyByOrder DEF ClocksSteady
<1>2. QED
  BY <1>1, OrderInvariant, PTL

(* SerdesQuiet: the ethernet controller is in reset while the transceivers *)
(* behind it are calibrated and programmed, for any number of repeats.     *)
THEOREM SerdesAreQuiet == Spec => []SerdesQuiet
<1>1. OrderInv => SerdesQuiet
  <2> SUFFICES ASSUME OrderInv,
                      cal \in {"sample", "search"} \/ Due("psu_serdes_init_data")
               PROVE  block["GEM1"] = "reset"
    BY DEF SerdesQuiet
  <2>1. at \in Nat /\ TypeOK
    BY DEF OrderInv, TypeOK
  <2>2. at \in {CalCall, CalCall + 1}
    BY <2>1, CallWhen, CallDue DEF OrderInv, CallInv
  <2>3. QED
    BY <2>2 DEF OrderInv, BlockInv
<1>2. QED
  BY <1>1, OrderInvariant, PTL

(* ResultTells: zero is returned just when neither call has failed, and    *)
(* then the PHY has its PLLs locked and is out of static read mode.        *)
THEOREM ResultIsTold == Spec => []ResultTells
<1>1. OrderInv /\ CalInv /\ PhyInv => ResultTells
  <2> SUFFICES ASSUME OrderInv, PhyInv, result # -1
               PROVE  /\ result = 0 <=>
                           cal = "forced" /\ (selfRefresh \/ phyRet = 1)
                      /\ result = 0 => ~staticRead /\ (selfRefresh \/ pllLocked)
    BY DEF ResultTells
  <2>1. /\ at \in Nat /\ status \in {0, 1}
        /\ at > CalCall + 3 /\ result = 1 - status
    BY Placement, CallWhen DEF OrderInv, TypeOK, StatusInv, Ended, SizeOf
  <2>2. /\ selfRefresh => phy = "idle"
        /\ cal \in {"forced", "timeout"}
    BY <2>1, CallWhen DEF OrderInv, CallInv
  <2>3. status = 0 <=> (~selfRefresh /\ phyRet # 1) \/ cal = "timeout"
    BY <2>1, CallWhen DEF OrderInv, StatusInv, PhyCall
  <2>4. result = 0 <=> status = 1
    BY <2>1
  <2>5. result = 0 <=> cal = "forced" /\ (selfRefresh \/ phyRet = 1)
    BY <2>1, <2>2, <2>3, <2>4
  <2>6. result = 0 => ~staticRead /\ (selfRefresh \/ pllLocked)
    BY <2>2, <2>5 DEF PhyInv, BringupTells
  <2>7. QED
    BY <2>5, <2>6
<1>2. QED
  BY <1>1, OrderInvariant, PTL

-----------------------------------------------------------------------------
(* What is ahead, part by part.                                            *)
ReturnAhead == IF result = -1 THEN 1 ELSE 0
ProgramAhead == Len(Program) + 1 - at
PhyAhead ==
  CASE phy = "idle" -> 8 [] phy \in {"pll", "lock"} -> 7
    [] phy = "bringup" -> 6 [] phy = "initialise" -> 5
    [] phy = "controller" -> 4 [] phy = "train" -> 3
    [] phy = "vref" -> 2 [] phy = "last" -> 1 [] OTHER -> 0
WorkAhead ==
  CASE phy = "pll" -> 2 [] phy # "pll" /\ work = "running" -> 1
    [] OTHER -> 0
CalAhead ==
  CASE cal = "idle" -> 3 [] cal = "sample" -> 2 [] cal = "search" -> 1
    [] OTHER -> 0
SamplesAhead == Repeats + 1 - repeatCount
SearchAhead == Cardinality(TurnsAhead)

(* The search has finitely many turns.                                     *)
LEMMA TurnsFinite ==
  IsFiniteSet(TurnsAhead) /\ Cardinality(TurnsAhead) \in Nat
<1> DEFINE Turns(k) == 0 .. Hi[k] - Lo[k]
           All == {Turns(k) : k \in Kinds}
<1>1. \A k \in Kinds : IsFiniteSet(Turns(k))
  <2> SUFFICES ASSUME NEW k \in Kinds PROVE IsFiniteSet(Turns(k))
    OBVIOUS
  <2>1. 0 \in Int /\ Hi[k] - Lo[k] \in Int
    BY Ranges
  <2>2. QED
    BY <2>1, FS_Interval
<1> HIDE DEF Turns
<1>2. IsFiniteSet(All) /\ \A T \in All : IsFiniteSet(T)
  <2>1. IsFiniteSet(Kinds)
    BY FixCalAssumption
  <2> DEFINE f == [k \in Kinds |-> Turns(k)]
  <2>2. f \in Surjection(Kinds, All)
    BY DEF Surjection
  <2>3. IsFiniteSet(All)
    BY <2>1, <2>2, FS_Surjection
  <2>4. QED
    BY <1>1, <2>3
<1>3. IsFiniteSet(UNION All)
  BY <1>2, FS_UNION, Zenon
<1>4. TurnsAhead \subseteq UNION All
  BY Zenon DEF TurnsAhead, Turns
<1>5. IsFiniteSet(TurnsAhead)
  BY <1>3, <1>4, FS_Subset, Zenon
<1>6. QED
  BY <1>5, FS_CardinalityType

(* A turn of the search leaves fewer.                                      *)
LEMMA TurnFalls ==
  ASSUME CalTypeOK, CalSearch
  PROVE  SearchAhead' < SearchAhead
<1>1. index \in Nat /\ index' = index + 1
  BY DEF CalTypeOK, CalSearch
<1>2. index \in TurnsAhead
  <2>1. PICK k \in Kinds : Lo[k] + index <= Hi[k]
    BY DEF CalSearch
  <2>2. index \in 0 .. Hi[k] - Lo[k]
    BY <1>1, <2>1, Ranges
  <2>3. QED
    BY <1>1, <2>2 DEF TurnsAhead
<1>3. TurnsAhead' = TurnsAhead \ {index}
  <2> DEFINE All == UNION {0 .. Hi[k] - Lo[k] : k \in Kinds}
  <2>1. \A i \in All : i \in Int
    OBVIOUS
  <2>2. TurnsAhead = {i \in All : i >= index}
    BY DEF TurnsAhead
  <2>3. TurnsAhead' = {i \in All : i >= index + 1}
    BY <1>1 DEF TurnsAhead
  <2> HIDE DEF All
  <2>4. \A i \in All : i >= index + 1 <=> i >= index /\ i # index
    BY <1>1, <2>1
  <2>5. QED
    BY <2>2, <2>3, <2>4
<1>4. Cardinality(TurnsAhead \ {index}) = Cardinality(TurnsAhead) - 1
  BY <1>2, TurnsFinite, FS_RemoveElement
<1>5. QED
  BY <1>3, <1>4, TurnsFinite DEF SearchAhead

LEMMA AheadType ==
  ASSUME OrderInv, CalInv, PhyInv
  PROVE  Ahead \in [1 .. 8 -> Nat]
<1>1. ReturnAhead \in Nat /\ WorkAhead \in Nat
  BY DEF ReturnAhead, WorkAhead
<1>2. ProgramAhead \in Nat
  BY Placement, CallWhen DEF OrderInv, TypeOK, SizeOf, ProgramAhead
<1>3. PhyAhead \in Nat /\ CalAhead \in Nat
  BY DEF PhyAhead, CalAhead
<1>4. pllRetry \in Nat
  BY PhyAssumption DEF PhyInv, PhyTypeOK
<1>5. SamplesAhead \in Nat
  BY FixCalAssumption DEF CalInv, CalTypeOK, SamplesAhead
<1>6. SearchAhead \in Nat
  BY TurnsFinite DEF SearchAhead
<1>7. Ahead = << ReturnAhead, ProgramAhead, PhyAhead, pllRetry, WorkAhead,
                 CalAhead, SamplesAhead, SearchAhead >>
  BY DEF Ahead, ReturnAhead, ProgramAhead, PhyAhead, WorkAhead, CalAhead,
         SamplesAhead, SearchAhead
<1>8. QED
  BY <1>1, <1>2, <1>3, <1>4, <1>5, <1>6, <1>7

(* A part that falls while those before it stay brings the end nearer.     *)
LEMMA NearerAt ==
  ASSUME NEW s, NEW t,
         \/ s[1] < t[1]
         \/ s[1] = t[1] /\ s[2] < t[2]
         \/ s[1] = t[1] /\ s[2] = t[2] /\ s[3] < t[3]
         \/ /\ s[1] = t[1] /\ s[2] = t[2] /\ s[3] = t[3]
            /\ \/ s[4] < t[4]
               \/ s[4] = t[4] /\ s[5] < t[5]
               \/ s[4] = t[4] /\ s[5] = t[5] /\ s[6] < t[6]
               \/ s[4] = t[4] /\ s[5] = t[5] /\ s[6] = t[6] /\ s[7] < t[7]
               \/ /\ s[4] = t[4] /\ s[5] = t[5] /\ s[6] = t[6] /\ s[7] = t[7]
                  /\ s[8] < t[8]
  PROVE  Nearer(s, t)
<1>1. /\ \A j \in 1 .. 1 - 1 : FALSE
      /\ \A j \in 1 .. 2 - 1 : j = 1
      /\ \A j \in 1 .. 3 - 1 : j = 1 \/ j = 2
      /\ \A j \in 1 .. 4 - 1 : j = 1 \/ j = 2 \/ j = 3
      /\ \A j \in 1 .. 5 - 1 : j = 1 \/ j = 2 \/ j = 3 \/ j = 4
      /\ \A j \in 1 .. 6 - 1 : j = 1 \/ j = 2 \/ j = 3 \/ j = 4 \/ j = 5
      /\ \A j \in 1 .. 7 - 1 : j = 1 \/ j = 2 \/ j = 3 \/ j = 4 \/ j = 5 \/ j = 6
      /\ \A j \in 1 .. 8 - 1 :
           j = 1 \/ j = 2 \/ j = 3 \/ j = 4 \/ j = 5 \/ j = 6 \/ j = 7
  OBVIOUS
<1>2. \A i \in {1, 2, 3, 4, 5, 6, 7, 8} : i \in 1 .. 8
  OBVIOUS
<1>3. \A i \in {1, 2, 3, 4, 5, 6, 7, 8} :
        s[i] < t[i] /\ (\A j \in 1 .. i - 1 : s[j] = t[j]) => Nearer(s, t)
  BY <1>2, Zenon DEF Nearer
<1>4. QED
  BY <1>1, <1>3, Zenon

(* The same about the measure, for a step of the program, of the bring-up  *)
(* and of the calibration.                                                 *)
OuterStays == ReturnAhead' = ReturnAhead /\ ProgramAhead' = ProgramAhead
PhyStays ==
  PhyAhead' = PhyAhead /\ pllRetry' = pllRetry /\ WorkAhead' = WorkAhead

LEMMA AheadFalls ==
  ASSUME \/ ReturnAhead' < ReturnAhead
         \/ ReturnAhead' = ReturnAhead /\ ProgramAhead' < ProgramAhead
         \/ /\ OuterStays
            /\ \/ PhyAhead' < PhyAhead
               \/ PhyAhead' = PhyAhead /\ pllRetry' < pllRetry
               \/ /\ PhyAhead' = PhyAhead /\ pllRetry' = pllRetry
                  /\ WorkAhead' < WorkAhead
         \/ /\ OuterStays /\ PhyStays
            /\ \/ CalAhead' < CalAhead
               \/ CalAhead' = CalAhead /\ SamplesAhead' < SamplesAhead
               \/ /\ CalAhead' = CalAhead /\ SamplesAhead' = SamplesAhead
                  /\ SearchAhead' < SearchAhead
  PROVE  Nearer(Ahead', Ahead)
<1>1. /\ Ahead = << ReturnAhead, ProgramAhead, PhyAhead, pllRetry, WorkAhead,
                    CalAhead, SamplesAhead, SearchAhead >>
      /\ Ahead' = << ReturnAhead', ProgramAhead', PhyAhead', pllRetry',
                     WorkAhead', CalAhead', SamplesAhead', SearchAhead' >>
  BY DEF Ahead, ReturnAhead, ProgramAhead, PhyAhead, WorkAhead, CalAhead,
         SamplesAhead, SearchAhead
<1>2. /\ Ahead[1] = ReturnAhead /\ Ahead[2] = ProgramAhead
      /\ Ahead[3] = PhyAhead /\ Ahead[4] = pllRetry /\ Ahead[5] = WorkAhead
      /\ Ahead[6] = CalAhead /\ Ahead[7] = SamplesAhead
      /\ Ahead[8] = SearchAhead
  BY <1>1
<1>3. /\ Ahead'[1] = ReturnAhead' /\ Ahead'[2] = ProgramAhead'
      /\ Ahead'[3] = PhyAhead' /\ Ahead'[4] = pllRetry'
      /\ Ahead'[5] = WorkAhead' /\ Ahead'[6] = CalAhead'
      /\ Ahead'[7] = SamplesAhead' /\ Ahead'[8] = SearchAhead'
  BY <1>1
<1>4. QED
  BY <1>2, <1>3, NearerAt, Zenon DEF OuterStays, PhyStays

(* A step of the program is one step less.                                 *)
LEMMA ProgramFalls ==
  ASSUME OrderInv, Next, at' = at + 1, result' = result
  PROVE  Nearer(Ahead', Ahead)
<1>1. at \in Int /\ Len(Program) \in Int
  BY Placement DEF OrderInv, TypeOK, SizeOf
<1>2. Program' = Program
  BY ProgramKept
<1>3. ProgramAhead' = Len(Program) + 1 - (at + 1)
  BY <1>2 DEF ProgramAhead
<1>4. ProgramAhead' < ProgramAhead
  BY <1>1, <1>3 DEF ProgramAhead
<1>5. ReturnAhead' = ReturnAhead
  BY DEF ReturnAhead
<1>6. QED
  BY <1>4, <1>5, AheadFalls

(* So is a step of the bring-up, ...                                       *)
LEMMA BringupFalls ==
  ASSUME PhyInv, Next, Bringup
  PROVE  Nearer(Ahead', Ahead)
<1>1. OuterStays
  <2>1. Program' = Program
    BY ProgramKept
  <2>2. QED
    BY <2>1 DEF Bringup, psuVars, OuterStays, ReturnAhead, ProgramAhead
<1>2. CASE PhyPll
  <2>1. pllRetry \in Int
    BY DEF PhyInv, PhyTypeOK
  <2>2. PhyAhead' = PhyAhead /\ pllRetry' < pllRetry
    BY <1>2, <2>1 DEF PhyPll, PhyAhead
  <2>3. QED
    BY <1>1, <2>2, AheadFalls
<1>3. ASSUME \/ PhyStartPlls
             \/ \E answer \in {"good", "bad", "silent"} : PhyAnswers(answer)
      PROVE  /\ PhyAhead' = PhyAhead /\ pllRetry' = pllRetry
             /\ WorkAhead' < WorkAhead
  <2>1. CASE PhyStartPlls
    BY <2>1 DEF PhyStartPlls, PhyAhead, WorkAhead
  <2>2. ASSUME NEW answer \in {"good", "bad", "silent"}, PhyAnswers(answer)
        PROVE  /\ PhyAhead' = PhyAhead /\ pllRetry' = pllRetry
               /\ WorkAhead' < WorkAhead
    <3>1. /\ work = "running" /\ work' # "running"
          /\ UNCHANGED << phy, pllRetry >>
      BY <2>2 DEF PhyAnswers
    <3>2. phy # "pll"
      BY <3>1 DEF PhyInv, Polls, ExactPolls
    <3>3. QED
      BY <3>1, <3>2 DEF PhyAhead, WorkAhead
  <2>3. QED
    BY <1>3, <2>1, <2>2
<1>4. CASE PhyBegin \/ PhyPllEnds \/ PhyInit \/ PhyTrained \/ PhyVref \/ PhyLast
  <2>1. PhyAhead' < PhyAhead
    BY <1>4 DEF PhyBegin, PhyPllEnds, PhyInit, PhyTrained, PhyVref, PhyLast,
                PhyAhead
  <2>2. QED
    BY <1>1, <2>1, AheadFalls
<1>5. QED
  BY <1>1, <1>2, <1>3, <1>4, AheadFalls DEF Bringup, PhySteps

(* ... and of the calibration.                                             *)
LEMMA CalibrateFalls ==
  ASSUME CalInv, Next, Calibrate
  PROVE  Nearer(Ahead', Ahead)
<1>1. OuterStays /\ PhyStays
  <2>1. Program' = Program
    BY ProgramKept
  <2>2. QED
    BY <2>1 DEF Calibrate, psuVars, phyVars, OuterStays, PhyStays, ReturnAhead,
                ProgramAhead, PhyAhead, WorkAhead
<1>2. repeatCount \in Int /\ Repeats \in Int /\ CalTypeOK
  BY FixCalAssumption DEF CalInv, CalTypeOK
<1>3. ASSUME NEW r \in Readings, CalSample(r)
      PROVE  \/ CalAhead' < CalAhead
             \/ CalAhead' = CalAhead /\ SamplesAhead' < SamplesAhead
  BY <1>2, <1>3 DEF CalSample, CalAhead, SamplesAhead
<1>4. CASE CalBegin \/ CalTimeout \/ CalForce
  <2>1. CalAhead' < CalAhead
    BY <1>4 DEF CalBegin, CalTimeout, CalForce, CalAhead
  <2>2. QED
    BY <1>1, <2>1, AheadFalls
<1>5. CASE CalSearch
  <2>1. CalAhead' = CalAhead /\ SamplesAhead' = SamplesAhead
    BY <1>5 DEF CalSearch, CalAhead, SamplesAhead
  <2>2. QED
    BY <1>1, <1>2, <1>5, <2>1, TurnFalls, AheadFalls
<1>6. QED
  BY <1>1, <1>3, <1>4, <1>5, AheadFalls DEF Calibrate, CalNext, CalSteps

LEMMA StepFalls ==
  ASSUME OrderInv, CalInv, PhyInv, Next
  PROVE  Nearer(Ahead', Ahead)
<1>1. CASE \/ SetBypass \/ SetReset \/ Poll \/ SelectSource \/ SetBlocks
           \/ BringupReturns \/ CalibrateReturns \/ Lanes
  <2>1. at' = at + 1 /\ result' = result
    BY <1>1 DEF SetBypass, SetReset, Poll, SelectSource, SetBlocks,
                BringupReturns, CalibrateReturns, Lanes
  <2>2. QED
    BY <2>1, ProgramFalls
<1>2. CASE Return
  <2>1. ReturnAhead' < ReturnAhead
    BY <1>2 DEF Return, ReturnAhead
  <2>2. QED
    BY <2>1, AheadFalls
<1>3. QED
  BY <1>1, <1>2, BringupFalls, CalibrateFalls DEF Next

(* Every step of the program and of the functions it calls brings the end  *)
(* nearer, however often the PLLs and the calibration are tried.           *)
THEOREM EveryStepAdvances == Spec => StepsAdvance
<1>1. OrderInv /\ CalInv /\ PhyInv /\ [Next]_vars => [Nearer(Ahead', Ahead)]_vars
  BY StepFalls
<1>2. QED
  BY <1>1, OrderInvariant, PTL DEF Spec, StepsAdvance

(* The order they descend in has no infinite descent, so that only         *)
(* finitely many are taken.                                                *)
LessThan == {ss \in Nat \X Nat : ss[1] < ss[2]}
Descent == LexProductOrdering(LessThan, Nat, 8)

THEOREM InitIsFinite ==
  /\ IsWellFoundedOn(Descent, [1 .. 8 -> Nat])
  /\ Spec => [][(<< Ahead', Ahead >> \in Descent)]_vars
<1>1. IsWellFoundedOn(LessThan, Nat)
  BY NatLessThanWellFounded DEF OpToRel, LessThan
<1>2. IsWellFoundedOn(Descent, [1 .. 8 -> Nat])
  BY <1>1, WFLexProductOrdering DEF Descent
<1>3. ASSUME NEW s \in [1 .. 8 -> Nat], NEW t \in [1 .. 8 -> Nat], Nearer(s, t)
      PROVE  << s, t >> \in Descent
  <2>1. PICK i \in 1 .. 8 : s[i] < t[i] /\ \A j \in 1 .. i - 1 : s[j] = t[j]
    BY <1>3 DEF Nearer
  <2>2. << s[i], t[i] >> \in LessThan
    BY <2>1 DEF LessThan
  <2>3. QED
    BY <2>1, <2>2 DEF Descent, LexProductOrdering
<1>4. OrderInv /\ CalInv /\ PhyInv => Ahead \in [1 .. 8 -> Nat]
  BY AheadType
<1>5. /\ OrderInv /\ CalInv /\ PhyInv /\ [Next]_vars
      /\ Ahead \in [1 .. 8 -> Nat] /\ (Ahead \in [1 .. 8 -> Nat])'
      => [(<< Ahead', Ahead >> \in Descent)]_vars
  BY <1>3, StepFalls
<1>6. QED
  BY <1>2, <1>4, <1>5, OrderInvariant, PTL DEF Spec

(* And until it returns there is always a next one, unless a poll of the   *)
(* PHY's bring-up waits for what the hardware will never show.             *)
THEOREM InitNeverStuck == Spec => []NeverStuck
<1>1. OrderInv /\ PhyInv => NeverStuck
  <2> SUFFICES ASSUME OrderInv, PhyInv, ~Ended
               PROVE  NeverStuck
    BY DEF NeverStuck
  <2>1. Step \in Steps
    <3>1. at \in 1 .. Len(Program) /\ Program \in Seq(Steps)
      BY Placement DEF OrderInv, TypeOK, SizeOf, Ended
    <3>2. QED
      BY <3>1 DEF Step
  <2>2. Step.op \in {"bypass", "resetPll", "mask_poll", "select", "reset",
                     "psu_serdes_init_data", "serdes_fixcal_code",
                     "psu_ddr_phybringup_data"}
    BY <2>1 DEF Steps, PllStep, SelectStep, ResetStep, CallStep
  <2>3. CASE Step.op = "psu_ddr_phybringup_data"
    <3>1. Due("psu_ddr_phybringup_data")
      BY <2>3 DEF Due, Step
    <3>2. CASE PollHangs
      BY <3>2 DEF NeverStuck
    <3>3. CASE ~PollHangs
      <4>1. phy \in Polls => work \in {"running", "good", "bad"}
        BY <3>3 DEF PhyInv, PhyTypeOK, PollHangs
      <4>2. phy \in ExactPolls => work \in {"running", "good"}
        BY <3>3, <4>1 DEF PollHangs, Polls
      <4>3. QED
        BY <3>1, <4>1, <4>2, Zenon DEF NeverStuck
    <3>4. QED
      BY <3>2, <3>3
  <2>4. QED
    BY <2>2, <2>3, Zenon DEF NeverStuck
<1>2. QED
  BY <1>1, OrderInvariant, PTL
=============================================================================

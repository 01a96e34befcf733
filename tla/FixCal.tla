------------------------------- MODULE FixCal -------------------------------
(***************************************************************************)
(* Fixing the calibration codes of the serial transceivers                 *)
(* (serdes_fixcal_code of psu_init.c).                                     *)
(*                                                                         *)
(* The calibration is run several times.  Each run yields a code of each   *)
(* kind; the valid ones are counted, and the code that came up most often  *)
(* is forced by writing it, less its upper bits, into override registers.  *)
(***************************************************************************)
EXTENDS Integers, FiniteSets

CONSTANTS
  Kinds,           \* p_code, n_code, i_code and r_code
  Lo, Hi,          \* of each kind, its first and its last valid code
  Field,           \* of each kind, 2^(bits of the code that are written)
  Repeats          \* 10

ASSUME FixCalAssumption ==
  /\ IsFiniteSet(Kinds)
  /\ Lo \in [Kinds -> Nat] /\ Hi \in [Kinds -> Nat]
  /\ \A k \in Kinds : Lo[k] <= Hi[k]
  /\ Field \in [Kinds -> Nat \ {0}]
  /\ Repeats \in Nat

Valid(k) == Lo[k] .. Hi[k]

(* What a register reads: the code after the last stands for all codes out *)
(* of range, which the function does not tell apart.                       *)
Reading(k) == Lo[k] .. Hi[k] + 1
Readings == {r \in [Kinds -> UNION {Reading(k) : k \in Kinds}] :
               \A k \in Kinds : r[k] \in Reading(k)}

VARIABLES
  cal,             \* where the function is; "timeout" and "forced" returned
  repeatCount,     \* repeat_count
  match,           \* match_pmos_code and so on: of each kind, by code
  index,           \* i, of the search
  code,            \* p_code, n_code, i_code, r_code
  forced,          \* what the override registers hold of the code
  seen             \* history: the counts before the search

calVars == << cal, repeatCount, match, index, code, forced, seen >>

None == -1
NoCounts == [k \in Kinds |-> [c \in Valid(k) |-> 0]]

CalIdle ==
  /\ cal = "idle" /\ repeatCount = 0 /\ index = 0
  /\ match = NoCounts /\ seen = NoCounts
  /\ code = [k \in Kinds |-> None] /\ forced = [k \in Kinds |-> None]

-----------------------------------------------------------------------------
(* Clears the counts; the wait for the supply gives up silently.           *)
CalBegin ==
  /\ cal = "idle"
  /\ match' = NoCounts
  /\ repeatCount' = 0
  /\ cal' = "sample"
  /\ UNCHANGED << index, code, forced, seen >>

(* One calibration, after which each kind has code r[k].                   *)
CalSample(r) ==
  /\ cal = "sample"
  /\ code' = r
  /\ match' = [k \in Kinds |-> [c \in Valid(k) |->
                 IF c = r[k] THEN match[k][c] + 1 ELSE match[k][c]]]
  /\ repeatCount' = repeatCount + 1
  /\ IF repeatCount < Repeats
       THEN UNCHANGED << cal, index, seen >>
       ELSE cal' = "search" /\ index' = 0 /\ seen' = match'
  /\ UNCHANGED forced

(* The calibration does not come to its end: 0 is returned.                *)
CalTimeout ==
  /\ cal = "sample"
  /\ cal' = "timeout"
  /\ repeatCount' = 0 /\ match' = NoCounts
  /\ code' = [k \in Kinds |-> None]
  /\ UNCHANGED << index, forced, seen >>

(* The kind's i-th code came up at least as often as any before: the first *)
(* count holds the greatest so far.                                        *)
Greater(k) ==
  Lo[k] + index \in Valid(k) /\ match[k][Lo[k] + index] >= match[k][Lo[k]]

(* A slip to catch: each count is compared with that of the first code,    *)
(* and not with the greatest so far.                                       *)
CalSearchFirst ==
  /\ cal = "search" /\ \E k \in Kinds : Lo[k] + index <= Hi[k]
  /\ index' = index + 1
  /\ code' = [k \in Kinds |-> IF Greater(k) THEN Lo[k] + index ELSE code[k]]
  /\ UNCHANGED << cal, repeatCount, match, forced, seen >>

(* One turn of the search, of the kinds that have an i-th code.            *)
CalSearch ==
  /\ cal = "search" /\ \E k \in Kinds : Lo[k] + index <= Hi[k]
  /\ index' = index + 1
  /\ match' = [k \in Kinds |->
                 IF Greater(k)
                   THEN [match[k] EXCEPT ![Lo[k]] = match[k][Lo[k] + index]]
                   ELSE match[k]]
  /\ code' = [k \in Kinds |-> IF Greater(k) THEN Lo[k] + index ELSE code[k]]
  /\ UNCHANGED << cal, repeatCount, forced, seen >>

(* Writes the lower bits of the codes; the local variables are gone.       *)
CalForce ==
  /\ cal = "search" /\ \A k \in Kinds : Lo[k] + index > Hi[k]
  /\ forced' = [k \in Kinds |-> code[k] % Field[k]]
  /\ cal' = "forced"
  /\ repeatCount' = 0 /\ index' = 0 /\ match' = NoCounts
  /\ code' = [k \in Kinds |-> None]
  /\ UNCHANGED seen

CalSteps ==
  \/ \E r \in Readings : CalSample(r)
  \/ CalTimeout \/ CalSearch \/ CalForce

CalNext == CalBegin \/ CalSteps
CalSpec == CalIdle /\ [][CalNext]_calVars

-----------------------------------------------------------------------------
(* Every variable has its type (one invariant for the whole module).       *)
CalTypeOK ==
  /\ cal \in {"idle", "sample", "search", "forced", "timeout"}
  /\ repeatCount \in 0 .. Repeats + 1
  /\ \A k \in Kinds : match[k] \in [Valid(k) -> Nat]
  /\ index \in Nat
  /\ code \in [Kinds -> Int]
  /\ forced \in [Kinds -> Int]

(* "The valid code which resulted in maximum times": when the function has *)
(* succeeded, what is forced of each kind is a valid code than which no    *)
(* other came up more often, though the search overwrites the very counts  *)
(* it searches.                                                            *)
ChosenMostFrequent ==
  cal = "forced" =>
    \A k \in Kinds : \E c \in Valid(k) :
      /\ forced[k] = c % Field[k]
      /\ \A d \in Valid(k) : seen[k][d] <= seen[k][c]

(* Where the search has got to: of each kind, the first count holds the    *)
(* greatest so far, which is that of code, and the others are untouched.   *)
SearchInv ==
  cal = "search" =>
    \A k \in Kinds :
      /\ \A c \in Valid(k) : c # Lo[k] \/ index = 0 => match[k][c] = seen[k][c]
      /\ index # 0 =>
           /\ code[k] \in Valid(k)
           /\ match[k][Lo[k]] = seen[k][code[k]]
           /\ \A d \in Valid(k) :
                d < Lo[k] + index => seen[k][d] <= match[k][Lo[k]]

(* The turns the search may still take.                                    *)
TurnsAhead == {i \in UNION {0 .. Hi[k] - Lo[k] : k \in Kinds} : i >= index}

(* All of it: what makes ChosenMostFrequent inductive.                     *)
CalInv ==
  /\ CalTypeOK
  /\ cal = "sample" => repeatCount <= Repeats
  /\ \A k \in Kinds : seen[k] \in [Valid(k) -> Nat]
  /\ SearchInv
  /\ ChosenMostFrequent
=============================================================================

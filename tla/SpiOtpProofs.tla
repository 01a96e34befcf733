---------------------------- MODULE SpiOtpProofs ----------------------------
(***************************************************************************)
(* Proofs about SpiOtp, for any size of bank and flash, any set of         *)
(* flashes, any request and any split of its transactions.  The central    *)
(* fact is that a transaction never wraps: the length the loop computes    *)
(* for it stays in one bank, die or chip, whichever the address of the     *)
(* flash wraps in (ReturnedInOrder).                                       *)
(***************************************************************************)
EXTENDS SpiOtp, TLAPS

(* Quotient and remainder make up the number.                              *)
LEMMA Division ==
  ASSUME NEW n \in Nat, NEW b \in Nat \ {0}
  PROVE  /\ n \div b \in Nat /\ n % b \in 0 .. b - 1
         /\ n = ((n \div b) * b) + (n % b)
OBVIOUS

(* They are the only ones that do.                                         *)
LEMMA DivisionUnique ==
  ASSUME NEW q \in Nat, NEW b \in Nat \ {0}, NEW s \in 0 .. b - 1
  PROVE  ((q * b) + s) % b = s /\ ((q * b) + s) \div b = q
OBVIOUS

(* An address that has not reached the end of its bank is in that bank.    *)
LEMMA InsideBank ==
  ASSUME NEW n \in Nat, NEW b \in Nat \ {0}, NEW j \in Nat,
         n + j < b * ((n \div b) + 1)
  PROVE  ((n \div b) * b) + ((n + j) % b) = n + j
<1> DEFINE q == n \div b
           r == n % b
<1>1. q \in Nat /\ r \in 0 .. b - 1 /\ n = (q * b) + r /\ n + j < b * (q + 1)
  BY Division
<1> HIDE DEF q, r
<1>2. b * (q + 1) = (q * b) + b /\ q * b \in Nat
  BY <1>1
<1>3. r + j \in 0 .. b - 1 /\ n + j = (q * b) + (r + j)
  BY <1>1, <1>2
<1>4. (n + j) % b = r + j
  <2>1. ((q * b) + (r + j)) % b = r + j
    BY <1>1, <1>3, DivisionUnique
  <2>2. QED
    BY ONLY <1>3, <2>1
<1>5. QED
  BY <1>1, <1>3, <1>4 DEF q

(* The end of a bank lies behind each of its addresses.                    *)
LEMMA BankEnd ==
  ASSUME NEW n \in Nat, NEW b \in Nat \ {0}
  PROVE  b * ((n \div b) + 1) \in Nat /\ n < b * ((n \div b) + 1)
<1> DEFINE q == n \div b
<1>1. q \in Nat /\ n % b \in 0 .. b - 1 /\ n = (q * b) + (n % b)
  BY Division
<1> HIDE DEF q
<1>2. b * (q + 1) = (q * b) + b /\ q * b \in Nat
  BY <1>1
<1>3. n % b \in Nat /\ n % b < b
  BY <1>1
<1>4. QED
  BY <1>1, <1>2, <1>3 DEF q

(* Whole banks before an address do not move it within its bank.           *)
LEMMA BanksBefore ==
  ASSUME NEW n \in Nat, NEW b \in Nat \ {0}, NEW m \in Nat
  PROVE  ((m * b) + n) \div b = m + (n \div b)
<1> DEFINE q == n \div b
           r == n % b
<1>1. q \in Nat /\ r \in 0 .. b - 1 /\ n = (q * b) + r
  BY Division
<1> HIDE DEF q, r
<1>2. (m * b) + n = ((m + q) * b) + r /\ m + q \in Nat
  BY <1>1
<1>3. ((m * b) + n) \div b = m + q
  BY <1>1, <1>2, DivisionUnique
<1>4. QED
  BY <1>3 DEF q

(* Between the ends of two banks the bank is the same.                     *)
LEMMA SameBank ==
  ASSUME NEW n \in Nat, NEW b \in Nat \ {0}, NEW j \in Nat,
         n + j < b * ((n \div b) + 1)
  PROVE  (n + j) \div b = n \div b
<1> DEFINE q == n \div b
           r == n % b
<1>1. q \in Nat /\ r \in 0 .. b - 1 /\ n = (q * b) + r /\ n + j < b * (q + 1)
  BY Division
<1> HIDE DEF q, r
<1>2. b * (q + 1) = (q * b) + b /\ q * b \in Nat
  BY <1>1
<1>3. r + j \in 0 .. b - 1 /\ n + j = (q * b) + (r + j)
  BY <1>1, <1>2
<1>4. ((q * b) + (r + j)) \div b = q
  BY <1>1, <1>3, DivisionUnique
<1>5. QED
  BY ONLY <1>3, <1>4 DEF q

(* A bank that begins in a chip of whole banks ends in it.                 *)
LEMMA BankInChip ==
  ASSUME NEW n \in Nat, NEW b \in Nat \ {0}, NEW m \in Nat, n < m * b
  PROVE  b * ((n \div b) + 1) <= m * b
<1> DEFINE q == n \div b
<1>1. q \in Nat /\ n % b \in 0 .. b - 1 /\ n = (q * b) + (n % b)
  BY Division
<1> HIDE DEF q
<1>2. q < m
  <2>1. SUFFICES ASSUME q >= m PROVE FALSE
    BY <1>1
  <2>2. (q - m) * b \in Nat /\ q * b = ((q - m) * b) + (m * b)
    BY <1>1, <2>1
  <2>3. m * b \in Nat /\ n % b \in Nat
    BY <1>1
  <2>4. QED
    BY <1>1, <2>2, <2>3
<1>3. PICK d \in Nat : m = q + 1 + d
  <2>1. m - q - 1 \in Nat /\ m = q + 1 + (m - q - 1)
    BY <1>1, <1>2
  <2>2. QED
    BY <2>1
<1>4. m * b = (b * (q + 1)) + (d * b) /\ d * b \in Nat /\ b * (q + 1) \in Nat
  BY <1>1, <1>3
<1>5. QED
  BY <1>4 DEF q

(* The flash consists of two whole halves of whole banks.                  *)
LEMMA Geometry ==
  ASSUME flash \in FlashTypes
  PROVE  \E m \in Nat \ {0} :
           /\ BankSize \in Nat \ {0}
           /\ ChipBytes = m * BankSize /\ ChipBytes \in Nat \ {0}
           /\ Stacked => SizeBytes \div 2 = m * BankSize
                         /\ SizeBytes = ChipBytes + ChipBytes
           /\ ~Stacked => SizeBytes = ChipBytes
<1> DEFINE k == SizeBytes \div (2 * BankBytes)
<1>1. /\ BankBytes \in Nat \ {0} /\ SizeBytes \in Nat \ {0}
      /\ 2 * BankBytes \in Nat \ {0} /\ SizeBytes % (2 * BankBytes) = 0
  BY SpiOtpAssumption
<1>2. k \in Nat /\ SizeBytes = (k * (2 * BankBytes)) + 0
  BY <1>1, Division
<1> HIDE DEF k
<1>3. /\ k # 0
      /\ SizeBytes = (k * BankBytes) + (k * BankBytes)
      /\ SizeBytes = (2 * k) * BankBytes
      /\ SizeBytes = k * (2 * BankBytes)
      /\ k * BankBytes \in Nat
  BY <1>1, <1>2
<1>4. SizeBytes \div 2 = k * BankBytes
  BY <1>3
<1>5. CASE Stacked
  <2>1. BankSize = BankBytes /\ ChipBytes = k * BankBytes
    BY <1>4, <1>5 DEF Stacked, Parallel, BankSize, ChipBytes
  <2>2. k * BankBytes # 0
    BY <1>1, <1>3
  <2>3. QED
    BY <1>1, <1>2, <1>3, <1>4, <1>5, <2>1, <2>2
<1>6. CASE ~Stacked /\ Parallel
  <2>1. BankSize = 2 * BankBytes /\ ChipBytes = SizeBytes
    BY <1>6 DEF BankSize, ChipBytes
  <2>2. QED
    BY <1>1, <1>2, <1>3, <1>6, <2>1
<1>7. CASE ~Stacked /\ ~Parallel
  <2>1. BankSize = BankBytes /\ ChipBytes = SizeBytes
    BY <1>7 DEF BankSize, ChipBytes
  <2>2. 2 * k \in Nat \ {0}
    BY <1>2, <1>3
  <2>3. QED
    BY <1>1, <1>3, <1>7, <2>1, <2>2
<1>8. QED
  BY <1>5, <1>6, <1>7

-----------------------------------------------------------------------------
(* The loop goes on: there is something left, and it lies in the flash.    *)
Reading == ProgressInv /\ len # 0

(* The offset in the selected chip, and what comes before the chip.        *)
LEMMA Offset ==
  ASSUME Reading
  PROVE  /\ ChipOffset \in Nat /\ ChipOffset < ChipBytes
         /\ \E m \in Nat : /\ from = (m * BankSize) + ChipOffset
                           /\ (IF Upper THEN SizeBytes \div 2 ELSE 0)
                                = m * BankSize
<1>1. PICK m \in Nat \ {0} :
        /\ BankSize \in Nat \ {0}
        /\ ChipBytes = m * BankSize /\ ChipBytes \in Nat \ {0}
        /\ Stacked => SizeBytes \div 2 = m * BankSize
                      /\ SizeBytes = ChipBytes + ChipBytes
        /\ ~Stacked => SizeBytes = ChipBytes
  BY Geometry DEF Reading, ProgressInv
<1>2. from \in Nat /\ from < SizeBytes
  BY SpiOtpAssumption DEF Reading, ProgressInv, Start
<1>3. CASE Upper
  <2>1. ChipOffset = from - ChipBytes /\ from >= ChipBytes
        /\ SizeBytes = ChipBytes + ChipBytes /\ SizeBytes \div 2 = m * BankSize
    BY <1>1, <1>3 DEF Upper, ChipOffset
  <2>2. ChipOffset \in Nat /\ ChipOffset < ChipBytes
        /\ from = (m * BankSize) + ChipOffset
    BY <1>1, <1>2, <2>1
  <2>3. QED
    BY <1>3, <2>1, <2>2
<1>4. CASE ~Upper
  <2>1. ChipOffset = from
    BY <1>4 DEF ChipOffset
  <2>2. from < ChipBytes
    BY <1>1, <1>2, <1>4 DEF Upper
  <2>3. 0 * BankSize = 0
    BY <1>1
  <2>4. QED
    BY <1>2, <1>4, <2>1, <2>2, <2>3
<1>5. QED
  BY <1>3, <1>4

(* A transaction makes progress, and stays in the bank it begins in or, if *)
(* the chip has no banks, in the chip.                                     *)
LEMMA TransactionStays ==
  ASSUME Reading
  PROVE  /\ ReadLen \in Nat \ {0} /\ ReadLen <= len
         /\ Banked => ChipOffset + ReadLen
                        <= BankSize * ((ChipOffset \div BankSize) + 1)
         /\ ChipOffset + ReadLen <= ChipBytes
<1> DEFINE q == ChipOffset \div BankSize
<1>1. PICK banks \in Nat \ {0} :
        /\ BankSize \in Nat \ {0}
        /\ ChipBytes = banks * BankSize /\ ChipBytes \in Nat \ {0}
  BY Geometry DEF Reading, ProgressInv
<1>2. ChipOffset \in Nat /\ ChipOffset < ChipBytes
  BY Offset
<1>0. BankSize * (q + 1) <= ChipBytes
  BY <1>1, <1>2, BankInChip
<1>3. PICK m \in Nat : from = (m * BankSize) + ChipOffset
  BY Offset
<1>4. /\ q \in Nat /\ BankSize * (q + 1) \in Nat
      /\ ChipOffset < BankSize * (q + 1)
  BY <1>1, <1>2, BankEnd, Division
<1>5. len \in Nat \ {0}
  BY DEF Reading, ProgressInv
<1>6. CASE flash.addrWidth = 3
  <2>1. from \div BankSize = m + q
    BY <1>1, <1>2, <1>3, BanksBefore
  <2> HIDE DEF q
  <2>2. BankSize * ((m + q) + 1) = (m * BankSize) + (BankSize * (q + 1))
    BY <1>1, <1>4
  <2>3. RemBankLen = (BankSize * ((m + q) + 1)) - from
    BY <1>6, <2>1 DEF RemBankLen
  <2>4. m * BankSize \in Nat
    BY <1>1
  <2>5. RemBankLen = (BankSize * (q + 1)) - ChipOffset
    BY <1>2, <1>3, <1>4, <2>2, <2>3, <2>4
  <2>6. /\ ReadLen \in Nat \ {0} /\ ReadLen <= len
        /\ ChipOffset + ReadLen <= BankSize * (q + 1)
        /\ ChipOffset + ReadLen <= ChipBytes
    BY <1>0, <1>1, <1>2, <1>4, <1>5, <2>5 DEF ReadLen
  <2>7. Banked
    BY <1>6 DEF Banked
  <2>8. QED
    BY <2>6, <2>7 DEF q
<1>7. CASE flash.addrWidth # 3 /\ flash.multiDie
  <2>1. Banked
    BY <1>7 DEF Banked
  <2>2. CASE q # (ChipOffset + len) \div BankSize
    <3>1. RemBankLen = (BankSize * (q + 1)) - ChipOffset
      BY <1>7, <2>2 DEF RemBankLen
    <3> HIDE DEF q
    <3>2. /\ ReadLen \in Nat \ {0} /\ ReadLen <= len
          /\ ChipOffset + ReadLen <= BankSize * (q + 1)
          /\ ChipOffset + ReadLen <= ChipBytes
      BY <1>0, <1>1, <1>2, <1>4, <1>5, <3>1 DEF ReadLen
    <3>3. QED
      BY <2>1, <3>2 DEF q
  <2>3. CASE q = (ChipOffset + len) \div BankSize
    <3>1. RemBankLen = ChipBytes - ChipOffset
      BY <1>7, <2>3 DEF RemBankLen
    <3>2. ChipOffset + len < BankSize * (q + 1)
      <4>1. ChipOffset + len \in Nat
        BY <1>2, <1>5
      <4>2. ChipOffset + len
              < BankSize * (((ChipOffset + len) \div BankSize) + 1)
        BY <1>1, <4>1, BankEnd
      <4>3. QED
        BY <2>3, <4>2
    <3> HIDE DEF q
    <3>3. /\ ReadLen \in Nat \ {0} /\ ReadLen <= len
          /\ ChipOffset + ReadLen <= BankSize * (q + 1)
          /\ ChipOffset + ReadLen <= ChipBytes
      BY <1>0, <1>1, <1>2, <1>4, <1>5, <3>1, <3>2 DEF ReadLen
    <3>4. QED
      BY <2>1, <3>3 DEF q
  <2>4. QED
    BY <2>2, <2>3
<1>8. CASE flash.addrWidth # 3 /\ ~flash.multiDie
  <2>1. ~Banked /\ RemBankLen = ChipBytes - ChipOffset
    BY <1>8 DEF Banked, RemBankLen
  <2>2. QED
    BY <1>1, <1>2, <1>5, <2>1 DEF ReadLen
<1>9. QED
  BY <1>6, <1>7, <1>8

(* So the bytes of its operations are the ones from the address the loop   *)
(* has got to, in order: nothing wraps.                                    *)
LEMMA ReturnedInOrder ==
  ASSUME Reading, SelectInv, pc = "data", Unmoved,
         NEW k \in Nat, got + k < ReadLen
  PROVE  Returned(k) = from + got + k
<1> DEFINE q == ChipOffset \div BankSize
<1>1. BankSize \in Nat \ {0} /\ ChipBytes \in Nat \ {0}
  BY Geometry DEF Reading, ProgressInv
<1>2. ChipOffset \in Nat /\ ReadLen \in Nat /\ got \in Nat
  BY Offset, TransactionStays DEF Reading, ProgressInv
<1>3. PICK m \in Nat : /\ from = (m * BankSize) + ChipOffset
                       /\ (IF Upper THEN SizeBytes \div 2 ELSE 0)
                            = m * BankSize
  BY Offset
<1>4. (IF chip = "upper" THEN SizeBytes \div 2 ELSE 0) = m * BankSize
  BY <1>3 DEF SelectInv
<1>5. m * BankSize \in Nat
  BY <1>1
<1>6. OpOffset = ChipOffset + got
  <2>1. CASE Parallel
    <3>1. got = 0
      BY <1>2, <2>1 DEF SelectInv
    <3>2. QED
      BY <1>2, <2>1, <3>1 DEF OpOffset
  <2>2. CASE ~Parallel
    BY <2>2 DEF OpOffset
  <2>3. QED
    BY <2>1, <2>2
<1>7. ChipOffset + ReadLen <= ChipBytes
  BY TransactionStays
<1>8. /\ OpOffset \in Nat /\ OpOffset + k \in Nat
      /\ OpOffset < ChipBytes /\ OpOffset + k < ChipBytes
  BY <1>1, <1>2, <1>6, <1>7
<1>9. \A n \in 0 .. ChipBytes - 1 : n % ChipBytes = n
  <2>1. SUFFICES ASSUME NEW n \in 0 .. ChipBytes - 1 PROVE n % ChipBytes = n
    OBVIOUS
  <2>2. ((0 * ChipBytes) + n) % ChipBytes = n /\ (0 * ChipBytes) + n = n
    BY <1>1, DivisionUnique
  <2>3. QED
    BY ONLY <2>2
<1>10. OpOffset % ChipBytes = OpOffset /\ (OpOffset + k) % ChipBytes = OpOffset + k
  BY <1>1, <1>8, <1>9
<1>11. CASE Banked
  <2>1. ChipOffset + ReadLen <= BankSize * (q + 1)
    BY <1>11, TransactionStays
  <2>2. q \in Nat /\ BankSize * (q + 1) \in Nat
    BY <1>1, <1>2, Division, BankEnd
  <2>3. ChipOffset + got < BankSize * (q + 1)
    <3> HIDE DEF q
    <3>1. QED
      BY <1>2, <2>1, <2>2
  <2>4. OpOffset \div BankSize = q
    BY <1>1, <1>2, <1>6, <2>3, SameBank
  <2>5. OpOffset + k < BankSize * ((OpOffset \div BankSize) + 1)
    <3>1. OpOffset + k < BankSize * (q + 1)
      <4> HIDE DEF q
      <4>1. QED
        BY <1>2, <1>6, <2>1, <2>2
    <3>2. QED
      BY ONLY <2>4, <3>1
  <2>6. (q * BankSize) + ((OpOffset + k) % BankSize) = OpOffset + k
    <3>1. ((OpOffset \div BankSize) * BankSize) + ((OpOffset + k) % BankSize)
            = OpOffset + k
      BY <1>1, <1>8, <2>5, InsideBank
    <3> HIDE DEF q
    <3>2. QED
      BY ONLY <2>4, <3>1
  <2>7. CASE flash.addrWidth = 3
    <3>1. bars[chip] = q
      BY <2>7 DEF SelectInv
    <3>2. Returned(k) = (m * BankSize) + (q * BankSize) + ((OpOffset + k) % BankSize)
      BY <1>4, <1>11, <2>7, <3>1 DEF Returned
    <3>3. QED
      <4>1. q * BankSize \in Int /\ (OpOffset + k) % BankSize \in Int
        BY <1>1, <1>8, <2>2, Division
      <4> HIDE DEF q
      <4>2. QED
        BY <1>2, <1>3, <1>5, <1>6, <2>6, <3>2, <4>1
  <2>8. CASE flash.addrWidth # 3
    <3>1. Returned(k) = (m * BankSize) + (q * BankSize) + ((OpOffset + k) % BankSize)
      BY <1>4, <1>10, <1>11, <2>4, <2>8 DEF Returned
    <3>2. QED
      <4>1. q * BankSize \in Int /\ (OpOffset + k) % BankSize \in Int
        BY <1>1, <1>8, <2>2, Division
      <4> HIDE DEF q
      <4>2. QED
        BY <1>2, <1>3, <1>5, <1>6, <2>6, <3>1, <4>1
  <2>9. QED
    BY <2>7, <2>8
<1>12. CASE ~Banked
  <2>1. flash.addrWidth # 3
    BY <1>12 DEF Banked
  <2>2. OpOffset \div ChipBytes = 0
    <3>1. ((0 * ChipBytes) + OpOffset) \div ChipBytes = 0
      BY <1>1, <1>8, DivisionUnique
    <3>2. (0 * ChipBytes) + OpOffset = OpOffset
      BY <1>1, <1>8
    <3>3. QED
      BY ONLY <3>1, <3>2
  <2>3. Returned(k) = (m * BankSize) + (0 * ChipBytes) + (OpOffset + k)
    BY <1>4, <1>10, <1>12, <2>1, <2>2 DEF Returned
  <2>4. QED
    BY <1>1, <1>2, <1>3, <1>5, <1>6, <1>8, <2>3
<1>13. QED
  BY <1>11, <1>12

(* Whatever an operation returns is a byte of the flash.                   *)
LEMMA ReturnedType ==
  ASSUME Reading, SelectInv, NEW k \in Nat
  PROVE  Returned(k) \in Int
<1> DEFINE size == IF Banked THEN BankSize ELSE ChipBytes
           base == IF chip = "upper" THEN SizeBytes \div 2 ELSE 0
           first == IF flash.addrWidth = 3 THEN bars[chip] * BankSize
                    ELSE ((OpOffset % ChipBytes) \div size) * size
<1>1. BankSize \in Nat \ {0} /\ ChipBytes \in Nat \ {0}
  BY Geometry DEF Reading, ProgressInv
<1>2. size \in Nat \ {0} /\ base \in Int
  BY <1>1, SpiOtpAssumption
<1>3. OpOffset \in Nat /\ OpOffset + k \in Nat
  BY Offset DEF OpOffset, Reading, ProgressInv
<1>4. bars[chip] \in Nat
  BY DEF SelectInv
<1>5. Returned(k) = base + first + ((OpOffset + k) % size)
  BY DEF Returned
<1>6. /\ OpOffset % ChipBytes \in Nat
      /\ (OpOffset + k) % size \in Int
  <2> HIDE DEF size
  <2>1. QED
    BY <1>1, <1>2, <1>3, Division
<1>7. first \in Int
  <2> HIDE DEF size
  <2>1. (OpOffset % ChipBytes) \div size \in Nat
    BY <1>2, <1>6, Division
  <2>2. QED
    BY <1>1, <1>2, <1>4, <2>1
<1> HIDE DEF size, base, first
<1>8. QED
  BY <1>2, <1>5, <1>6, <1>7

(* After an odd offset, the first transaction reads all there is to read   *)
(* exactly when one bank holds it.                                         *)
LEMMA FirstOfOdd ==
  ASSUME Reading, isOfstOdd, buf = 0
  PROVE  ReadLen = len <=> OneBank
<1> DEFINE q == from \div BankSize
           last == from + len - 1
<1>1. /\ ~Stacked /\ ~Upper /\ ChipOffset = from /\ ChipBytes = SizeBytes
      /\ BankSize \in Nat \ {0}
  <2>1. Parallel
    BY DEF Reading, ProgressInv
  <2>2. ~Stacked /\ ~Upper
    BY <2>1 DEF Parallel, Stacked, Upper
  <2>3. QED
    BY <2>2, Geometry DEF Reading, ProgressInv, ChipOffset
<1>2. /\ from \in Nat /\ len \in Nat \ {0} /\ SizeBytes \in Nat
      /\ from + len <= SizeBytes /\ last \in Nat
      /\ from = Start /\ last = request.from + request.len - 1
  BY SpiOtpAssumption DEF Reading, ProgressInv, Start
<1>3. q \in Nat /\ BankSize * (q + 1) \in Nat
  BY <1>1, <1>2, BankEnd, Division
<1>4. ReadLen \in Nat /\ ReadLen <= len
  BY TransactionStays
<1>5. CASE Banked
  <2>1. OneBank <=> q = last \div BankSize
    BY <1>2, <1>5 DEF OneBank
  <2>2. ASSUME q = last \div BankSize
        PROVE  ReadLen = len
    <3>1. last < BankSize * (q + 1)
      BY <1>1, <1>2, <2>2, BankEnd
    <3>2. \/ RemBankLen = (BankSize * (q + 1)) - from
          \/ RemBankLen = SizeBytes - from
      BY <1>1 DEF RemBankLen
    <3> HIDE DEF q
    <3>3. QED
      BY <1>2, <1>3, <3>1, <3>2 DEF ReadLen
  <2>3. ASSUME ReadLen = len
        PROVE  q = last \div BankSize
    <3>1. from + len <= BankSize * (q + 1)
      BY <1>1, <1>5, <2>3, TransactionStays
    <3>2. from % BankSize \in 0 .. BankSize - 1
          /\ from = (q * BankSize) + (from % BankSize)
      BY <1>1, <1>2, Division
    <3> HIDE DEF q, last
    <3>3. /\ BankSize * (q + 1) = (q * BankSize) + BankSize
          /\ q * BankSize \in Nat
      BY <1>1, <1>3
    <3>4. last - (q * BankSize) \in 0 .. BankSize - 1
      BY <1>1, <1>2, <3>1, <3>2, <3>3 DEF last
    <3>5. last = (q * BankSize) + (last - (q * BankSize))
      BY <1>2, <3>3
    <3>6. QED
      BY <1>1, <1>3, <3>4, <3>5, DivisionUnique
  <2>4. QED
    BY <2>1, <2>2, <2>3
<1>6. CASE ~Banked
  <2>1. RemBankLen = SizeBytes - from
    BY <1>1, <1>6 DEF RemBankLen, Banked
  <2>2. ReadLen = len
    BY <1>2, <2>1 DEF ReadLen
  <2>3. QED
    BY <1>6, <2>2 DEF OneBank
<1>7. QED
  BY <1>5, <1>6

-----------------------------------------------------------------------------
(* Every request begins where the counters say, with an empty buffer.      *)
LEMMA ReadInit == Init => ReadInv
<1> SUFFICES ASSUME Init PROVE ReadInv
  OBVIOUS
<1> USE DEF Init
<1>1. /\ request \in [from : 0 .. SizeBytes - 1, len : 1 .. SizeBytes]
      /\ request.from + request.len <= SizeBytes
  OBVIOUS
<1>2. request.from \in 0 .. SizeBytes - 1 /\ request.len \in 1 .. SizeBytes
  BY <1>1
<1>3. isOfstOdd \in BOOLEAN /\ (isOfstOdd => Parallel /\ request.from >= 1)
  <2>1. request.from % 2 = 1 => request.from # 0
    BY <1>2
  <2>2. isOfstOdd = (Parallel /\ request.from % 2 = 1)
    OBVIOUS
  <2> HIDE DEF Init
  <2>3. isOfstOdd \in BOOLEAN
    BY <2>2, Zenon
  <2>4. isOfstOdd => Parallel /\ request.from # 0
    BY <2>1, <2>2, Zenon
  <2>5. QED
    BY <1>2, <2>3, <2>4
<1>4. /\ buf = 0 /\ got = 0 /\ retlen = 0 /\ pc = "loop" /\ trouble = {}
      /\ chip = "lower" /\ bars = [c \in Chips |-> 0]
      /\ buffer = [i \in 0 .. SizeBytes |-> Unset] /\ flash \in FlashTypes
  OBVIOUS
<1>5. from = Start /\ from + len = request.from + request.len /\ len \in Nat
  BY <1>2, SpiOtpAssumption DEF Start
<1> HIDE DEF Init
<1>6. ProgressInv
  <2>1. Start \in Int /\ buf \in Nat /\ from = Start + buf /\ got \in 0 .. len
    BY <1>2, <1>4, <1>5 DEF Start
  <2>2. QED
    BY <1>1, <1>3, <1>4, <1>5, <2>1 DEF ProgressInv
<1>7. SelectInv
  BY <1>4 DEF SelectInv, Chips
<1>8. BufferInv
  BY <1>2, <1>4, SpiOtpAssumption DEF BufferInv, Unset
<1>9. OddInv /\ BarInv
  BY <1>4 DEF OddInv, BarInv, Chips
<1>10. QED
  BY <1>6, <1>7, <1>8, <1>9 DEF ReadInv

(* While the flash, the request and the counters of the loop stay, so does *)
(* what is computed from them.                                             *)
LEMMA Frame ==
  ASSUME UNCHANGED << flash, request, from, len, isOfstOdd >>
  PROVE  /\ Upper' = Upper /\ ChipOffset' = ChipOffset /\ ReadLen' = ReadLen
         /\ BankSize' = BankSize /\ Start' = Start /\ OneBank' = OneBank
         /\ Parallel' = Parallel /\ Stacked' = Stacked
BY DEF Upper, ChipOffset, ReadLen, RemBankLen, BankSize, ChipBytes, Start,
       OneBank, Banked, Parallel, Stacked

(* The choice of chip and bank: the upper chip comes after the lower one.  *)
LEMMA SelectStep ==
  ASSUME ReadInv, NEW written \in BOOLEAN, SelectBank(written)
  PROVE  ReadInv'
<1>1. ProgressInv /\ SelectInv /\ BufferInv /\ OddInv /\ BarInv
  BY DEF ReadInv
<1>2. /\ UNCHANGED << flash, request, from, len, buf, got, buffer, isOfstOdd,
                     retlen, ret >>
      /\ pc = "loop" /\ pc' = "data" /\ len # 0 /\ got = 0
      /\ chip' = IF Upper THEN "upper" ELSE "lower"
      /\ trouble' \in {trouble, trouble \cup {"bar"}}
  BY <1>1 DEF SelectBank, ProgressInv
<1>3. /\ Upper' = Upper /\ ChipOffset' = ChipOffset /\ ReadLen' = ReadLen
      /\ BankSize' = BankSize /\ Start' = Start /\ OneBank' = OneBank
      /\ Parallel' = Parallel /\ Stacked' = Stacked
  BY <1>2, Frame
<1>4. Reading
  BY <1>1, <1>2 DEF Reading
<1>5. ReadLen \in Nat \ {0} /\ ChipOffset \div BankSize \in Nat
  BY <1>1, <1>4, TransactionStays, Offset, Geometry, Division DEF ProgressInv
<1>6. Unmoved' => Unmoved
  BY <1>2 DEF Unmoved
<1>7. ProgressInv'
  BY <1>1, <1>2, <1>3, <1>5 DEF ProgressInv
<1>8. /\ bars' \in [Chips -> Nat] /\ chip' \in Chips
      /\ \A c \in Chips : c # chip' => bars'[c] = bars[c]
      /\ ~flash.bar => bars' = bars
      /\ flash.addrWidth = 3 /\ Unmoved' => bars'[chip'] = ChipOffset \div BankSize
      /\ bars'[chip'] # 0 => bars' = bars \/ flash.addrWidth = 3
  <2>1. flash.addrWidth = 3 => flash.bar
    BY <1>1, SpiOtpAssumption DEF ProgressInv
  <2>2. chip' \in Chips /\ bars \in [Chips -> Nat]
    BY <1>1, <1>2 DEF SelectInv, Chips
  <2>3. CASE /\ flash.addrWidth = 3 /\ flash.bar /\ written
             /\ bars' = [bars EXCEPT ![chip'] = ChipOffset \div BankSize]
    <3> HIDE DEF ReadInv
    <3>1. QED
      BY <1>5, <2>2, <2>3
  <2>4. CASE bars' = bars /\ (flash.addrWidth = 3 => trouble' = trouble \cup {"bar"})
    BY <2>2, <2>4 DEF Unmoved
  <2>5. QED
    BY <2>1, <2>3, <2>4 DEF SelectBank
<1>9. SelectInv'
  <2>1. chip' = "upper" => Upper'
    BY <1>2, <1>3
  <2>2. QED
    BY <1>2, <1>3, <1>8, <2>1 DEF SelectInv
<1>10. BufferInv' /\ OddInv'
  BY <1>1, <1>2, <1>3, <1>6 DEF BufferInv, OddInv
<1>11. BarInv'
  <2>1. ~flash'.bar => bars' = [c \in Chips |-> 0]
    BY <1>1, <1>2, <1>8 DEF BarInv
  <2>2. bars'["upper"] # 0 => chip' = "upper"
    <3>1. SUFFICES ASSUME chip' = "lower" PROVE bars'["upper"] = 0
      BY <1>8 DEF Chips
    <3>2. bars'["upper"] = bars["upper"] /\ chip # "upper"
      BY <1>1, <1>2, <1>8, <3>1 DEF Chips, SelectInv
    <3>3. QED
      BY <1>1, <3>2 DEF BarInv
  <2>3. bars'["lower"] # 0 /\ Stacked' => request'.from < SizeBytes \div 2
    <3>1. SUFFICES ASSUME bars'["lower"] # 0, Stacked
                   PROVE  request.from < SizeBytes \div 2
      BY <1>2, <1>3
    <3>2. CASE chip' = "lower"
      <4>1. from < SizeBytes \div 2
        BY <1>2, <1>4, <3>1, <3>2, SpiOtpAssumption
        DEF Upper, Reading, ProgressInv, Start
      <4>2. from = request.from + buf /\ buf \in Nat /\ request.from \in Nat
        BY <1>1, <3>1 DEF ProgressInv, Start, Stacked, Parallel
      <4>3. SizeBytes \div 2 \in Int
        BY SpiOtpAssumption
      <4>4. QED
        BY <4>1, <4>2, <4>3
    <3>3. CASE chip' = "upper"
      BY <1>1, <1>8, <3>1, <3>3 DEF BarInv, Chips
    <3>4. QED
      BY <1>8, <3>2, <3>3 DEF Chips
  <2>4. QED
    BY <1>2, <2>1, <2>2, <2>3 DEF BarInv
<1>12. QED
  BY <1>7, <1>9, <1>10, <1>11 DEF ReadInv

(* An operation appends its bytes to the ones that have been read.         *)
LEMMA TransferStep ==
  ASSUME ReadInv, NEW n \in 1 .. SizeBytes, Transfer(n)
  PROVE  ReadInv'
<1>1. ProgressInv /\ SelectInv /\ BufferInv /\ OddInv /\ BarInv
  BY DEF ReadInv
<1>2. /\ UNCHANGED << flash, request, pc, from, len, buf, isOfstOdd, chip, bars,
                     retlen, ret >>
      /\ pc = "data" /\ len # 0 /\ got' = got + n /\ got + n <= ReadLen
      /\ trouble' = trouble \cup
                      (IF Parallel /\ got + n # ReadLen THEN {"split"} ELSE {})
      /\ buffer' = [i \in 0 .. SizeBytes |->
                      IF i \in buf + got .. buf + got + n - 1
                        THEN Returned(i - buf - got) ELSE buffer[i]]
  BY <1>1 DEF Transfer, ProgressInv
<1>3. /\ Upper' = Upper /\ ChipOffset' = ChipOffset /\ ReadLen' = ReadLen
      /\ BankSize' = BankSize /\ Start' = Start /\ OneBank' = OneBank
      /\ Parallel' = Parallel /\ Stacked' = Stacked
  BY <1>2, Frame
<1>4. Reading
  BY <1>1, <1>2 DEF Reading
<1>5. /\ n \in Nat \ {0} /\ got \in Nat /\ buf \in Nat /\ len \in Nat
      /\ ReadLen \in Nat \ {0} /\ ReadLen <= len /\ SizeBytes \in Nat
      /\ Start \in Int /\ from = Start + buf /\ request.len \in Int
      /\ isOfstOdd => buf + len = request.len + 1
  BY <1>1, <1>4, TransactionStays, SpiOtpAssumption DEF ProgressInv, Start
<1>6. /\ Unmoved' => Unmoved
      /\ Parallel /\ Unmoved' => got + n = ReadLen
  BY <1>2 DEF Unmoved
<1>7. ProgressInv'
  <2>1. got' \in 0 .. len' /\ got' <= ReadLen'
    BY <1>2, <1>3, <1>5
  <2>2. QED
    BY <1>1, <1>2, <1>3, <2>1 DEF ProgressInv
<1>8. SelectInv'
  BY <1>1, <1>2, <1>3, <1>6 DEF SelectInv
<1>9. ASSUME NEW i \in 0 .. SizeBytes
      PROVE  /\ buffer'[i] \in Int
             /\ i >= buf + got' => buffer'[i] = buffer[i] /\ i >= buf + got
             /\ i < buf + got => buffer'[i] = buffer[i]
             /\ i >= buf + got /\ i < buf + got' /\ Unmoved' =>
                  buffer'[i] = Start + i
             /\ i < buf + got' \/ buffer'[i] = buffer[i]
  <2>1. CASE i \in buf + got .. buf + got + n - 1
    <3>1. /\ i - buf - got \in Nat /\ got + (i - buf - got) < ReadLen
          /\ i >= buf + got /\ i < buf + got'
      BY <1>2, <1>5, <2>1
    <3>2. buffer'[i] = Returned(i - buf - got)
      BY <1>2, <2>1
    <3>3. buffer'[i] \in Int
      BY <1>1, <1>4, <3>1, <3>2, ReturnedType
    <3>4. ASSUME Unmoved' PROVE buffer'[i] = Start + i
      <4>1. Returned(i - buf - got) = from + got + (i - buf - got)
        BY <1>1, <1>2, <1>4, <1>6, <3>1, <3>4, ReturnedInOrder
      <4>2. from + got + (i - buf - got) = Start + i
        BY <1>5
      <4>3. QED
        BY <3>2, <4>1, <4>2
    <3>5. ~(i < buf + got) /\ ~(i >= buf + got')
      BY <1>2, <1>5, <3>1
    <3>6. QED
      BY <3>1, <3>3, <3>4, <3>5, Zenon
  <2>2. CASE i \notin buf + got .. buf + got + n - 1
    <3>1. buffer'[i] = buffer[i] /\ buffer[i] \in Int
      BY <1>1, <1>2, <2>2 DEF BufferInv
    <3>2. i < buf + got \/ i >= buf + got'
      BY <1>2, <1>5, <2>2
    <3>3. QED
      BY <1>2, <1>5, <3>1, <3>2
  <2>3. QED
    BY <2>1, <2>2
<1>10. BufferInv'
  <2>1. buffer' \in [0 .. SizeBytes -> Int]
    BY <1>2, <1>9
  <2>2. ~isOfstOdd' => retlen' = buf'
    BY <1>1, <1>2 DEF BufferInv
  <2>3. ASSUME ~isOfstOdd \/ buf = 0, NEW i \in 0 .. SizeBytes
        PROVE  /\ i >= buf + got' => buffer'[i] = Unset
               /\ i < buf + got' /\ Unmoved' => buffer'[i] = Start + i
    <3>1. /\ i >= buf + got => buffer[i] = Unset
          /\ i < buf + got /\ Unmoved => buffer[i] = Start + i
      BY <1>1, <2>3 DEF BufferInv
    <3>2. i < buf + got \/ i >= buf + got
      BY <1>5
    <3>3. QED
      BY <1>6, <1>9, <3>1, <3>2
  <2>4. ASSUME isOfstOdd, NEW i \in 0 .. SizeBytes, buffer'[i] # Unset
        PROVE  i <= request.len
    <3>1. CASE i < buf + got'
      BY <1>2, <1>5, <2>4, <3>1
    <3>2. CASE buffer'[i] = buffer[i]
      BY <1>1, <2>4, <3>2 DEF BufferInv
    <3>3. QED
      BY <1>9, <3>1, <3>2
  <2>5. QED
    BY <1>2, <1>3, <2>1, <2>2, <2>3, <2>4 DEF BufferInv
<1>11. OddInv'
  BY <1>1, <1>2, <1>3 DEF OddInv
<1>12. BarInv'
  BY <1>1, <1>2, <1>3 DEF BarInv
<1>13. QED
  BY <1>7, <1>8, <1>10, <1>11, <1>12 DEF ReadInv

(* The turn that ends has read its transaction; its counters advance       *)
(* together.                                                               *)
LEMMA ProgressStep ==
  ASSUME ReadInv, EndTurn
  PROVE  /\ ProgressInv'
         /\ ReadLen \in Nat \ {0} /\ ReadLen <= len /\ got = ReadLen
         /\ Start' = Start /\ OneBank' = OneBank
<1>1. ProgressInv
  BY DEF ReadInv
<1>2. /\ pc = "data" /\ len # 0 /\ got = ReadLen
      /\ flash' = flash /\ request' = request /\ isOfstOdd' = isOfstOdd
      /\ pc' = "loop" /\ buf' = buf + ReadLen /\ got' = 0
      /\ from' = from + ReadLen /\ len' = len - ReadLen
  BY <1>1 DEF EndTurn, ProgressInv
<1>3. ReadLen \in Nat \ {0} /\ ReadLen <= len
  BY <1>1, <1>2, TransactionStays DEF Reading
<1>4. Start' = Start /\ Start \in Int
  BY <1>1, <1>2 DEF Start, ProgressInv
<1>5. OneBank' = OneBank
  BY <1>2, <1>4 DEF OneBank, Banked, BankSize, Parallel
<1>6. request.from \in Int /\ request.len \in Int /\ buf \in Nat /\ len \in Nat
      /\ from = Start + buf /\ from + len = request.from + request.len
  BY <1>1 DEF ProgressInv
<1>7. /\ buf' \in Nat /\ len' \in Nat /\ got' \in 0 .. len'
      /\ from' = Start' + buf' /\ from' + len' = request'.from + request'.len
  BY <1>2, <1>3, <1>4, <1>6
<1>8. ProgressInv'
  BY <1>1, <1>2, <1>7 DEF ProgressInv, Parallel
<1>9. QED
  BY <1>2, <1>3, <1>4, <1>5, <1>8

(* What the bytes' moving down leaves in the buffer: its type, nothing     *)
(* behind the one byte too many, and the bytes asked for after an odd read *)
(* in one turn.                                                            *)
LEMMA FilledBytes ==
  ASSUME ReadInv, EndTurn
  PROVE  /\ Filled \in [0 .. SizeBytes -> Int]
         /\ isOfstOdd =>
              \A i \in 0 .. SizeBytes : Filled[i] # Unset => i <= request.len
         /\ isOfstOdd /\ buf = 0 /\ ReadLen = len /\ Unmoved =>
              \A i \in 0 .. request.len - 1 : Filled[i] = request.from + i
<1>1. /\ ReadLen \in Nat \ {0} /\ ReadLen <= len /\ got = ReadLen
      /\ buf \in Nat /\ len \in Nat /\ SizeBytes \in Nat
      /\ request.from \in Nat /\ request.len \in 1 .. SizeBytes
      /\ isOfstOdd => buf + len = request.len + 1 /\ Start = request.from - 1
  BY ProgressStep, SpiOtpAssumption DEF ReadInv, ProgressInv, Start
<1>2. /\ buffer \in [0 .. SizeBytes -> Int]
      /\ isOfstOdd => \A i \in 0 .. SizeBytes : buffer[i] # Unset => i <= request.len
      /\ isOfstOdd /\ buf = 0 /\ Unmoved =>
           \A i \in 0 .. SizeBytes : i < buf + got => buffer[i] = Start + i
  BY DEF ReadInv, BufferInv
<1>3. CASE ~isOfstOdd
  BY <1>2, <1>3 DEF Filled
<1>4. CASE isOfstOdd
  <2>1. Filled = [i \in 0 .. SizeBytes |->
                    IF i \in buf .. buf + len - 2 THEN buffer[i + 1] ELSE buffer[i]]
    BY <1>4 DEF Filled
  <2>2. \A i \in 0 .. SizeBytes : i \in buf .. buf + len - 2 =>
          i + 1 \in 0 .. SizeBytes /\ i <= request.len
    BY <1>1, <1>4
  <2>3. Filled \in [0 .. SizeBytes -> Int]
    BY <1>2, <2>1, <2>2
  <2>4. \A i \in 0 .. SizeBytes : Filled[i] # Unset => i <= request.len
    BY <1>2, <1>4, <2>1, <2>2
  <2>5. ASSUME buf = 0, ReadLen = len, Unmoved, NEW i \in 0 .. request.len - 1
        PROVE  Filled[i] = request.from + i
    <3>1. /\ i \in 0 .. SizeBytes /\ i + 1 \in 0 .. SizeBytes
          /\ i \in buf .. buf + len - 2 /\ i + 1 < buf + got
      BY <1>1, <1>4, <2>5
    <3>2. Filled[i] = buffer[i + 1] /\ buffer[i + 1] = Start + (i + 1)
      BY <1>2, <1>4, <2>1, <2>5, <3>1
    <3>3. QED
      BY <1>1, <1>4, <3>2
  <2>6. QED
    BY <2>3, <2>4, <2>5
<1>5. QED
  BY <1>3, <1>4

(* So an odd read is exact in one bank and short across banks.             *)
LEMMA OddStep ==
  ASSUME ReadInv, EndTurn
  PROVE  OddInv'
<1> SUFFICES ASSUME isOfstOdd PROVE OddInv'
  BY DEF OddInv, EndTurn
<1>1. /\ ReadLen \in Nat \ {0} /\ ReadLen <= len /\ OneBank' = OneBank
      /\ buf \in Nat /\ len \in Nat \ {0} /\ Reading
      /\ buf + len = request.len + 1 /\ request.len \in Int
  BY ProgressStep DEF ReadInv, ProgressInv, Reading, EndTurn, Start
<1>2. /\ request' = request /\ isOfstOdd' = isOfstOdd /\ Unmoved' = Unmoved
      /\ buf' = buf + ReadLen /\ len' = len - ReadLen
      /\ retlen' = retlen + (ReadLen - 1) /\ buffer' = Filled
  BY DEF EndTurn, Unmoved
<1>3. OddInv
  BY DEF ReadInv
<1>4. CASE buf = 0 /\ retlen = 0 /\ OneBank
  <2>1. ReadLen = len
    BY <1>1, <1>4, FirstOfOdd
  <2>2. len' = 0 /\ retlen' = request'.len
    BY <1>1, <1>2, <1>4, <2>1
  <2>3. Unmoved => \A i \in 0 .. request.len - 1 : Filled[i] = request.from + i
    BY <1>4, <2>1, FilledBytes
  <2>4. QED
    BY <1>1, <1>2, <1>4, <2>2, <2>3 DEF OddInv
<1>5. CASE buf = 0 /\ retlen = 0 /\ ~OneBank
  <2>1. ReadLen # len
    BY <1>1, <1>5, FirstOfOdd
  <2>2. len' # 0 /\ retlen' \in Int /\ retlen' < buf'
    BY <1>1, <1>2, <1>5, <2>1
  <2>3. QED
    BY <1>1, <1>5, <2>2 DEF OddInv
<1>6. CASE ~OneBank /\ retlen \in Int /\ retlen < buf
  <2>1. retlen' \in Int /\ retlen' < buf' - 1 /\ retlen' < buf'
    BY <1>1, <1>2, <1>6
  <2>2. QED
    BY <1>1, <1>6, <2>1 DEF OddInv
<1>7. QED
  BY <1>1, <1>3, <1>4, <1>5, <1>6 DEF OddInv

LEMMA EndTurnStep ==
  ASSUME ReadInv, EndTurn
  PROVE  ReadInv'
<1>1. ProgressInv /\ SelectInv /\ BufferInv /\ BarInv
  BY DEF ReadInv
<1>2. /\ UNCHANGED << flash, request, isOfstOdd, chip, bars, ret, trouble >>
      /\ pc' = "loop" /\ buf' = buf + ReadLen /\ from' = from + ReadLen
      /\ got' = 0 /\ buffer' = Filled
      /\ ~isOfstOdd => retlen' = retlen + ReadLen
  BY DEF EndTurn
<1>3. /\ ReadLen \in Nat \ {0} /\ got = ReadLen /\ Start' = Start /\ buf \in Nat
      /\ ProgressInv' /\ Unmoved' = Unmoved /\ Stacked' = Stacked
  BY <1>1, <1>2, ProgressStep DEF ProgressInv, Unmoved, Stacked
<1>4. SelectInv'
  <2>1. Upper => Upper'
    <3>1. from \in Int /\ SizeBytes \div 2 \in Int
      BY <1>1, SpiOtpAssumption DEF ProgressInv, Start
    <3>2. QED
      BY <1>2, <1>3, <3>1 DEF Upper
  <2>2. QED
    BY <1>1, <1>2, <2>1 DEF SelectInv
<1>5. BufferInv'
  <2>1. ~isOfstOdd => Filled = buffer
    BY DEF Filled
  <2>2. buf' # 0 /\ buf' + got' = buf + got
    BY <1>2, <1>3
  <2>3. ASSUME ~isOfstOdd
        PROVE  /\ retlen' = buf'
               /\ \A i \in 0 .. SizeBytes :
                    /\ i >= buf' + got' => buffer'[i] = Unset
                    /\ i < buf' + got' /\ Unmoved' => buffer'[i] = Start' + i
    <3>1. retlen' = buf'
      BY <1>1, <1>2, <2>3 DEF BufferInv
    <3>2. buffer' = buffer
      BY <1>2, <2>1, <2>3
    <3>3. \A i \in 0 .. SizeBytes :
            /\ i >= buf + got => buffer[i] = Unset
            /\ i < buf + got /\ Unmoved => buffer[i] = Start + i
      BY <1>1, <2>3 DEF BufferInv
    <3>4. QED
      BY <1>3, <2>2, <3>1, <3>2, <3>3
  <2>4. /\ buffer' \in [0 .. SizeBytes -> Int]
        /\ isOfstOdd => \A i \in 0 .. SizeBytes : buffer'[i] # Unset => i <= request.len
    BY <1>2, FilledBytes
  <2>5. QED
    BY <1>2, <2>2, <2>3, <2>4 DEF BufferInv
<1>6. OddInv'
  BY OddStep
<1>7. BarInv'
  BY <1>1, <1>2, <1>3 DEF BarInv
<1>8. QED
  BY <1>3, <1>4, <1>5, <1>6, <1>7 DEF ReadInv

(* Every way out cleans the register of the chip selected last, or says so.*)
LEMMA ReturnStep ==
  ASSUME ReadInv, NEW cleaned \in BOOLEAN, Fail(cleaned) \/ Finish(cleaned)
  PROVE  ReadInv'
<1>1. ProgressInv /\ SelectInv /\ BufferInv /\ OddInv /\ BarInv
  BY DEF ReadInv
<1>2. PICK error \in {"ok", "error"} :
        Return(error, cleaned) /\ (error = "ok" => len = 0)
  BY DEF Fail, Finish
<1>3. /\ UNCHANGED << flash, request, from, len, buf, got, buffer, isOfstOdd, chip,
                     retlen >>
      /\ pc' = "done" /\ (flash.bar \/ cleaned)
  BY <1>2 DEF Return
<1>4. /\ Upper' = Upper /\ Start' = Start /\ OneBank' = OneBank
      /\ Parallel' = Parallel /\ Stacked' = Stacked
  BY <1>3, Frame
<1>5. /\ Unmoved' <=> Unmoved
      /\ "clean" \notin trouble' => cleaned
      /\ ~cleaned => "clean" \in trouble'
      /\ "read" \notin trouble' => error = "ok"
  BY <1>2 DEF Return, Unmoved
<1>6. cleaned /\ error = "ok" => ret' = "ok"
  BY <1>2 DEF Return
<1>7. ProgressInv'
  BY <1>1, <1>2, <1>3, <1>4, <1>5, <1>6 DEF ProgressInv
<1>8. /\ bars' \in [Chips -> Nat]
      /\ \A c \in Chips : c # chip => bars'[c] = bars[c]
      /\ bars'[chip] = 0 \/ (bars'[chip] = bars[chip] /\ (~flash.bar \/ ~cleaned))
      /\ ~flash.bar => bars' = bars
  <2>1. bars \in [Chips -> Nat] /\ chip \in Chips
    BY <1>1 DEF SelectInv
  <2>2. CASE bars' = [bars EXCEPT ![chip] = IF cleaned THEN 0 ELSE @] /\ flash.bar
    BY <2>1, <2>2
  <2>3. CASE bars' = bars /\ ~flash.bar
    BY <2>1, <2>3
  <2>4. QED
    BY <1>2, <2>2, <2>3 DEF Return
<1>9. SelectInv'
  BY <1>1, <1>3, <1>4, <1>8 DEF SelectInv
<1>10. BufferInv' /\ OddInv'
  BY <1>1, <1>3, <1>4, <1>5 DEF BufferInv, OddInv
<1>11. BarInv'
  <2>1. chip \in Chips
    BY <1>1 DEF SelectInv
  <2>2. \A c \in Chips : bars'[c] # 0 => bars[c] # 0
    BY <1>8
  <2>3. bars'[chip] = 0 \/ "clean" \in trouble'
    BY <1>1, <1>3, <1>5, <1>8, <2>1 DEF BarInv, Chips
  <2>4. QED
    BY <1>1, <1>3, <1>4, <1>8, <2>2, <2>3 DEF BarInv, Chips
<1>12. QED
  BY <1>7, <1>9, <1>10, <1>11 DEF ReadInv

(* Every step preserves the invariant.                                     *)
LEMMA ReadStep == ReadInv /\ [Next]_vars => ReadInv'
<1> SUFFICES ASSUME ReadInv, [Next]_vars
             PROVE  ReadInv'
  OBVIOUS
<1>1. CASE Next
  BY <1>1, SelectStep, TransferStep, EndTurnStep, ReturnStep DEF Next
<1>2. CASE UNCHANGED vars
  <2>1. UNCHANGED << flash, request, from, len, isOfstOdd >>
    BY <1>2 DEF vars
  <2>2. /\ Upper' = Upper /\ ChipOffset' = ChipOffset /\ ReadLen' = ReadLen
        /\ BankSize' = BankSize /\ Start' = Start /\ OneBank' = OneBank
        /\ Parallel' = Parallel /\ Stacked' = Stacked
    BY <2>1, Frame
  <2>3. ProgressInv' /\ SelectInv'
    BY <1>2, <2>2 DEF vars, ReadInv, ProgressInv, SelectInv, Unmoved
  <2>4. BufferInv' /\ OddInv' /\ BarInv'
    BY <1>2, <2>2 DEF vars, ReadInv, BufferInv, OddInv, BarInv, Unmoved
  <2>5. QED
    BY <2>3, <2>4 DEF ReadInv
<1>3. QED
  BY <1>1, <1>2

(* The invariant holds, however operations and register writes fail.       *)
THEOREM ReadInvariant == Spec => []ReadInv
BY ReadInit, ReadStep, PTL DEF Spec

(* spi_nor_read_otp delivers the bytes asked for, in order and no others,  *)
(* across every bank, die and chip and in any pieces, unless something     *)
(* failed, a transaction of parallel chips was split, or a read from an    *)
(* odd offset left its bank; only an odd offset puts one byte, and no      *)
(* more, behind the buffer.                                                *)
THEOREM ReadIsExact == Spec => []ReadExact
<1>1. ReadInv => ReadExact
  <2> SUFFICES ASSUME ReadInv PROVE ReadExact
    OBVIOUS
  <2>0. ProgressInv /\ BufferInv /\ OddInv
    BY DEF ReadInv
  <2>1. /\ request.from \in Nat /\ request.len \in 1 .. SizeBytes
        /\ SizeBytes \in Nat /\ buf \in Nat /\ len \in Nat /\ got \in Nat
        /\ got <= len /\ isOfstOdd \in BOOLEAN
        /\ ~isOfstOdd => buf + len = request.len /\ Start = request.from
        /\ isOfstOdd => buf + len = request.len + 1
    BY <2>0, SpiOtpAssumption DEF ProgressInv, Start
  <2>2. ASSUME pc = "done", trouble \subseteq {"clean"}, isOfstOdd => OneBank
        PROVE  /\ retlen = request.len
               /\ \A i \in 0 .. request.len - 1 : buffer[i] = request.from + i
    <3>1. len = 0 /\ Unmoved
      BY <2>0, <2>2 DEF ProgressInv, Unmoved
    <3>2. CASE isOfstOdd
      <4>1. buf # 0
        BY <2>1, <3>1, <3>2
      <4>2. QED
        BY <2>0, <2>2, <3>1, <3>2, <4>1 DEF OddInv
    <3>3. CASE ~isOfstOdd
      <4>1. buf = request.len /\ got = 0
        BY <2>1, <3>1, <3>3
      <4>2. /\ retlen = buf
            /\ \A i \in 0 .. SizeBytes : i < buf + got => buffer[i] = request.from + i
        BY <2>0, <2>1, <3>1, <3>3 DEF BufferInv
      <4>3. QED
        BY ONLY <2>1, <4>1, <4>2
    <3>4. QED
      BY <3>2, <3>3
  <2>3. ASSUME NEW i \in 0 .. SizeBytes, buffer[i] # Unset
        PROVE  i < request.len + (IF isOfstOdd THEN 1 ELSE 0)
    <3>1. CASE isOfstOdd
      BY <2>0, <2>1, <2>3, <3>1 DEF BufferInv
    <3>2. CASE ~isOfstOdd
      <4>1. ~(i >= buf + got)
        BY <2>0, <2>3, <3>2 DEF BufferInv
      <4>2. QED
        BY <2>1, <3>2, <4>1
    <3>3. QED
      BY <3>1, <3>2
  <2>4. QED
    BY <2>2, <2>3 DEF ReadExact
<1>2. QED
  BY <1>1, ReadInvariant, PTL

(* The bound on the odd reads is sharp: one that leaves its bank reports   *)
(* too few bytes, and success.                                             *)
THEOREM OddReadsFallShort == Spec => []OddReadShort
<1>1. ReadInv => OddReadShort
  <2> SUFFICES ASSUME ReadInv, pc = "done", trouble \subseteq {"split", "bar"},
                      isOfstOdd, ~OneBank
               PROVE  ret = "ok" /\ retlen < request.len
    BY DEF OddReadShort
  <2>1. /\ len = 0 /\ ret = "ok" /\ buf \in Nat /\ buf = request.len + 1
        /\ request.len \in 1 .. SizeBytes /\ SizeBytes \in Nat
    BY SpiOtpAssumption DEF ReadInv, ProgressInv, Start
  <2>2. retlen \in Int /\ retlen < buf - 1
    BY <2>1 DEF ReadInv, OddInv
  <2>3. QED
    BY <2>1, <2>2
<1>2. QED
  BY <1>1, ReadInvariant, PTL

(* Every way out leaves the chips at their first bank, but for the lower   *)
(* of two stacked chips after the read has gone on to the upper one, and   *)
(* for a clean_bar that failed.                                            *)
THEOREM BarIsRestored == Spec => []BarRestored
<1>1. ReadInv => BarRestored
  <2> SUFFICES ASSUME ReadInv, pc = "done", NEW c \in Chips, bars[c] # 0
               PROVE  \/ c = chip /\ "clean" \in trouble
                      \/ c = "lower" /\ chip = "upper" /\ Stacked
                         /\ request.from < SizeBytes \div 2
    BY DEF BarRestored
  <2>1. SelectInv /\ BarInv
    BY DEF ReadInv
  <2>2. CASE c = chip
    BY <2>1, <2>2 DEF BarInv
  <2>3. CASE c # chip
    <3>1. c = "lower" /\ chip = "upper"
      BY <2>1, <2>3 DEF BarInv, SelectInv, Chips
    <3>2. Stacked
      BY <2>1, <3>1 DEF SelectInv, Upper
    <3>3. QED
      BY <2>1, <3>1, <3>2 DEF BarInv
  <2>4. QED
    BY <2>2, <2>3
<1>2. QED
  BY <1>1, ReadInvariant, PTL
=============================================================================

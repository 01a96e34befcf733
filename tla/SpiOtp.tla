------------------------------- MODULE SpiOtp -------------------------------
(***************************************************************************)
(* Reading the one time programmable area of the SPI flash                 *)
(* (spi_nor_read_otp and spi_nor_read_otp_data of 0001-u-boot.patch),      *)
(* where the board's ethernet addresses are.                               *)
(*                                                                         *)
(* The read is split into transactions that stay in one bank of the flash, *)
(* because a continuous read wraps round at the end of a die, and these    *)
(* into operations as long as the controller can do.  Two chips may be     *)
(* stacked, one behind the other, or parallel, with the even bytes in one  *)
(* and the odd bytes in the other; a chip is addressed with four bytes, or *)
(* with three and its bank register.                                       *)
(*                                                                         *)
(* Anything that fails is external: waiting for the flash, an operation,   *)
(* and a write of the bank register, which then keeps its value.           *)
(*                                                                         *)
(* The byte at an address is represented by the address.                   *)
(***************************************************************************)
EXTENDS Integers

CONSTANTS
  BankBytes,       \* SZ_16M
  SizeBytes,       \* mtd->size
  FlashTypes       \* the flashes and builds to look at

(* Which chips there are, the address width, whether a chip has several    *)
(* dies, and whether the build has CONFIG_SPI_FLASH_BAR.                   *)
FlashType == [chips : {"single", "stacked", "parallel"}, addrWidth : {3, 4},
              multiDie : BOOLEAN, bar : BOOLEAN]

(* Three address bytes reach beyond the first bank only with the register. *)
ASSUME SpiOtpAssumption ==
  /\ BankBytes \in Nat \ {0}
  /\ SizeBytes \in Nat \ {0} /\ SizeBytes % (2 * BankBytes) = 0
  /\ FlashTypes \subseteq {t \in FlashType : t.addrWidth = 3 => t.bar}

VARIABLES
  flash,           \* nor
  request,         \* the caller's offset and length
  pc,              \* "loop", "data" in spi_nor_read_otp_data, "done"
  from, len,       \* parameters, as the loop advances them
  buf,             \* index into the caller's buffer where it has got to
  got,             \* bytes of the transaction that have been read
  buffer,          \* the caller's buffer and what lies behind it
  isOfstOdd,       \* is_ofst_odd
  chip,            \* SPI_XFER_U_PAGE: the chip selected last
  bars,            \* bank register of each chip ("lower" of two in parallel)
  retlen, ret,     \* *retlen; the value returned
  trouble          \* history: what went wrong.  "read": a wait or an
                   \* operation failed; "bar": write_bar; "clean": clean_bar;
                   \* "split": a transaction of parallel chips was split

vars == << flash, request, pc, from, len, buf, got, buffer, isOfstOdd, chip,
           bars, retlen, ret, trouble >>

Chips == {"lower", "upper"}
Unset == -1
Parallel == flash.chips = "parallel"
Stacked == flash.chips = "stacked"
Banked == flash.addrWidth = 3 \/ flash.multiDie
ChipBytes == IF Stacked THEN SizeBytes \div 2 ELSE SizeBytes

(* SZ_16M << nor->shift.                                                   *)
BankSize == IF Parallel THEN 2 * BankBytes ELSE BankBytes

Init ==
  /\ flash \in FlashTypes
  /\ request \in {r \in [from : 0 .. SizeBytes - 1, len : 1 .. SizeBytes] :
                    r.from + r.len <= SizeBytes}
  /\ isOfstOdd = (Parallel /\ request.from % 2 = 1)
  /\ from = IF isOfstOdd THEN request.from - 1 ELSE request.from
  /\ len = IF isOfstOdd THEN request.len + 1 ELSE request.len
  /\ pc = "loop" /\ buf = 0 /\ got = 0
  /\ buffer = [i \in 0 .. SizeBytes |-> Unset]
  /\ chip = "lower" /\ bars = [c \in Chips |-> 0]
  /\ retlen = 0 /\ ret = "none" /\ trouble = {}

-----------------------------------------------------------------------------
(* One turn of the loop.                                                   *)

(* The upper of two stacked chips (SPI_XFER_U_PAGE), and the offset in it. *)
Upper == Stacked /\ from >= SizeBytes \div 2
ChipOffset == IF Upper THEN from - SizeBytes \div 2 ELSE from

(* A slip to catch: what is left of the flash is read in one go.           *)
RestOfFlash == ChipBytes - ChipOffset

(* rem_bank_len: to the end of the bank, or of the chip if the read ends   *)
(* in this bank or the chip has no banks.                                  *)
RemBankLen ==
  IF flash.addrWidth = 3
    THEN BankSize * (from \div BankSize + 1) - from
  ELSE IF flash.multiDie
          /\ ChipOffset \div BankSize # (ChipOffset + len) \div BankSize
    THEN BankSize * (ChipOffset \div BankSize + 1) - ChipOffset
  ELSE ChipBytes - ChipOffset

ReadLen == IF len < RemBankLen THEN len ELSE RemBankLen

(* The loop chooses the chip and the bank, of a parallel chip for half of  *)
(* the address.  It does not look at the result of write_bar.              *)
SelectBank(written) ==
  /\ pc = "loop" /\ len # 0
  /\ chip' = IF Upper THEN "upper" ELSE "lower"
  /\ IF flash.addrWidth = 3 /\ flash.bar
       THEN IF written
              THEN /\ bars' = [bars EXCEPT ![chip'] = ChipOffset \div BankSize]
                   /\ UNCHANGED trouble
              ELSE /\ trouble' = trouble \cup {"bar"}
                   /\ UNCHANGED bars
       ELSE UNCHANGED << bars, trouble >>
  /\ pc' = "data"
  /\ UNCHANGED << flash, request, from, len, buf, got, buffer, isOfstOdd,
                  retlen, ret >>

(* op.addr.val, in bytes of the chip or of both parallel chips: their      *)
(* address was halved, but every operation adds all its bytes to it.       *)
OpOffset == ChipOffset + (IF Parallel THEN 2 * got ELSE got)

(* What the operation returns as its k-th byte: with three address bytes   *)
(* the bank register chooses the bank, and within a die or bank the        *)
(* address wraps (external).                                               *)
Returned(k) ==
  LET size == IF Banked THEN BankSize ELSE ChipBytes
      first == IF flash.addrWidth = 3 THEN bars[chip] * BankSize
               ELSE ((OpOffset % ChipBytes) \div size) * size
  IN  (IF chip = "upper" THEN SizeBytes \div 2 ELSE 0)
        + first + ((OpOffset + k) % size)

(* One operation of spi_nor_read_otp_data: the controller may do with      *)
(* fewer bytes than are left (external: spi_mem_adjust_op_size).           *)
Transfer(n) ==
  /\ pc = "data" /\ got + n <= ReadLen
  /\ buffer' = [i \in 0 .. SizeBytes |->
                  IF i \in buf + got .. buf + got + n - 1
                    THEN Returned(i - buf - got) ELSE buffer[i]]
  /\ got' = got + n
  /\ trouble' = trouble \cup
                  (IF Parallel /\ got + n # ReadLen THEN {"split"} ELSE {})
  /\ UNCHANGED << flash, request, pc, from, len, buf, isOfstOdd, chip, bars,
                  retlen, ret >>

(* After an odd offset all that is left of the buffer moves down by one.   *)
Filled ==
  IF isOfstOdd
    THEN [i \in 0 .. SizeBytes |->
            IF i \in buf .. buf + len - 2 THEN buffer[i + 1] ELSE buffer[i]]
    ELSE buffer

EndTurn ==
  /\ pc = "data" /\ got = ReadLen
  /\ buffer' = Filled
  /\ retlen' = retlen + (IF isOfstOdd THEN ReadLen - 1 ELSE ReadLen)
  /\ buf' = buf + ReadLen /\ from' = from + ReadLen /\ len' = len - ReadLen
  /\ got' = 0 /\ pc' = "loop"
  /\ UNCHANGED << flash, request, isOfstOdd, chip, bars, ret, trouble >>

(* What clean_bar does, with the chip selected last and in a build with    *)
(* the register, and what the function returns: clean_bar's result, if     *)
(* there is one.                                                           *)
Return(error, cleaned) ==
  /\ flash.bar \/ cleaned
  /\ IF flash.bar
       THEN /\ bars' = [bars EXCEPT ![chip] = IF cleaned THEN 0 ELSE @]
            /\ ret' = IF cleaned THEN "ok" ELSE "error"
       ELSE /\ ret' = error
            /\ UNCHANGED bars
  /\ trouble' = trouble \cup (IF error = "error" THEN {"read"} ELSE {})
                        \cup (IF cleaned THEN {} ELSE {"clean"})
  /\ pc' = "done"
  /\ UNCHANGED << flash, request, from, len, buf, got, buffer, isOfstOdd, chip,
                  retlen >>

(* A slip to catch: an error returns at once.                              *)
FailAtOnce(cleaned) ==
  /\ pc = "data" /\ got < ReadLen
  /\ ret' = "error" /\ trouble' = trouble \cup {"read"}
  /\ pc' = "done"
  /\ UNCHANGED << flash, request, from, len, buf, got, buffer, isOfstOdd, chip,
                  bars, retlen >>

(* The flash is not ready, or an operation fails.                          *)
Fail(cleaned) ==
  /\ pc = "data" /\ got < ReadLen
  /\ Return("error", cleaned)

Finish(cleaned) ==
  /\ pc = "loop" /\ len = 0
  /\ Return("ok", cleaned)

Next ==
  \/ \E written \in BOOLEAN : SelectBank(written)
  \/ \E n \in 1 .. SizeBytes : Transfer(n)
  \/ EndTurn
  \/ \E cleaned \in BOOLEAN : Fail(cleaned) \/ Finish(cleaned)

Spec == Init /\ [][Next]_vars

-----------------------------------------------------------------------------
(* Every variable has its type (one invariant for the whole module).       *)
TypeOK ==
  /\ flash \in FlashTypes
  /\ request \in [from : 0 .. SizeBytes - 1, len : 1 .. SizeBytes]
  /\ pc \in {"loop", "data", "done"}
  /\ from \in 0 .. SizeBytes /\ len \in 0 .. SizeBytes
  /\ buf \in 0 .. SizeBytes /\ got \in 0 .. SizeBytes
  /\ buffer \in [0 .. SizeBytes -> Unset .. SizeBytes - 1]
  /\ isOfstOdd \in BOOLEAN
  /\ chip \in Chips /\ bars \in [Chips -> 0 .. SizeBytes \div BankBytes]
  /\ retlen \in 0 .. SizeBytes
  /\ ret \in {"none", "ok", "error"}
  /\ trouble \in SUBSET {"read", "bar", "clean", "split"}

(* Where the read begins, and that one bank holds all of it.               *)
Start == IF isOfstOdd THEN request.from - 1 ELSE request.from
OneBank ==
  Banked => Start \div BankSize = (request.from + request.len - 1) \div BankSize

(* Nothing has been read from where it should not have been.               *)
Unmoved == trouble \cap {"bar", "split"} = {}

(* A read in which nothing failed delivers the bytes asked for, in order   *)
(* and no others, however it crosses banks, dies and chips and however its *)
(* transactions are split; one from parallel chips does so if none was     *)
(* split, and, if it begins at an odd offset, as long as it stays in one   *)
(* bank.  Such a read puts one byte, and no more, behind the caller's      *)
(* buffer, and no other read any.                                          *)
ReadExact ==
  /\ pc = "done" /\ trouble \subseteq {"clean"} /\ (isOfstOdd => OneBank) =>
       /\ retlen = request.len
       /\ \A i \in 0 .. request.len - 1 : buffer[i] = request.from + i
  /\ \A i \in 0 .. SizeBytes :
       buffer[i] # Unset => i < request.len + (IF isOfstOdd THEN 1 ELSE 0)

(* On every way out the bank registers are back at the first bank, but for *)
(* the one of the chip selected last if clean_bar failed, and the one of   *)
(* the lower of two stacked chips if the read went on to the upper one.    *)
BarRestored ==
  pc = "done" => \A c \in Chips : bars[c] # 0 =>
    \/ c = chip /\ "clean" \in trouble
    \/ c = "lower" /\ chip = "upper" /\ Stacked
       /\ request.from < SizeBytes \div 2

(* A read from an odd offset that leaves its bank reports fewer bytes than *)
(* were asked for, although it returns success.                            *)
OddReadShort ==
  pc = "done" /\ trouble \subseteq {"split", "bar"} /\ isOfstOdd /\ ~OneBank =>
    ret = "ok" /\ retlen < request.len

-----------------------------------------------------------------------------
(* The inductive invariant behind the three, in named parts.               *)

(* That the loop is where its counters say.                                *)
ProgressInv ==
  /\ flash \in FlashTypes
  /\ request \in [from : 0 .. SizeBytes - 1, len : 1 .. SizeBytes]
  /\ request.from + request.len <= SizeBytes
  /\ isOfstOdd \in BOOLEAN /\ (isOfstOdd => Parallel /\ request.from >= 1)
  /\ buf \in Nat /\ len \in Nat /\ got \in 0 .. len
  /\ from = Start + buf /\ from + len = request.from + request.len
  /\ pc \in {"loop", "data", "done"}
  /\ pc = "loop" => got = 0
  /\ pc = "data" => len # 0 /\ got <= ReadLen
  /\ pc = "done" /\ "read" \notin trouble =>
       len = 0 /\ ("clean" \notin trouble => ret = "ok")

(* That the operations read where the loop has got to.                     *)
SelectInv ==
  /\ bars \in [Chips -> Nat] /\ chip \in Chips
  /\ chip = "upper" => Upper
  /\ pc = "data" =>
       /\ chip = IF Upper THEN "upper" ELSE "lower"
       /\ flash.addrWidth = 3 /\ Unmoved =>
            bars[chip] = ChipOffset \div BankSize
       /\ Parallel /\ Unmoved => got \in {0, ReadLen}

(* What is in the buffer.                                                  *)
BufferInv ==
  /\ buffer \in [0 .. SizeBytes -> Int]
  /\ ~isOfstOdd => retlen = buf
  /\ ~isOfstOdd \/ buf = 0 =>
       \A i \in 0 .. SizeBytes :
         /\ i >= buf + got => buffer[i] = Unset
         /\ i < buf + got /\ Unmoved => buffer[i] = Start + i
  /\ isOfstOdd =>
       \A i \in 0 .. SizeBytes : buffer[i] # Unset => i <= request.len

(* A read from an odd offset takes one turn of the loop if it stays in one *)
(* bank, else it counts a byte less than it read in every turn.            *)
OddInv ==
  isOfstOdd =>
    \/ buf = 0 /\ retlen = 0
    \/ /\ OneBank /\ len = 0 /\ retlen = request.len
       /\ Unmoved => \A i \in 0 .. request.len - 1 : buffer[i] = request.from + i
    \/ /\ ~OneBank /\ retlen \in Int /\ retlen < buf
       /\ len = 0 => retlen < buf - 1

(* Which bank registers may be set.                                        *)
BarInv ==
  /\ ~flash.bar => bars = [c \in Chips |-> 0]
  /\ bars["upper"] # 0 => chip = "upper"
  /\ bars["lower"] # 0 /\ Stacked => request.from < SizeBytes \div 2
  /\ pc = "done" => bars[chip] = 0 \/ "clean" \in trouble

ReadInv == ProgressInv /\ SelectInv /\ BufferInv /\ OddInv /\ BarInv
=============================================================================

------------------------------ MODULE EccInit ------------------------------
(***************************************************************************)
(* Initialising the ECC of the DDR by writing all of it                    *)
(* (XFsbl_DdrEccInit_main and XFsbl_EccInit_main of 0001-FSBL.patch).      *)
(*                                                                         *)
(* The boot loader turns its data cache off and has the DMA channel fill   *)
(* the lower bank, chunk by chunk, then the upper one if there is one.  It *)
(* polls the channel; the channel runs beside it.  FsblLoad says when.     *)
(***************************************************************************)
EXTENDS Integers

CONSTANTS
  Banks,                  \* 1, or 1 and 2: is there upper DDR?
  Start,                  \* XFSBL_PS_DDR_INIT_START_ADDRESS, ..HI_DDR_START..
  Length,                 \* LengthBytes of each bank
  ZDMA_TRANSFER_MAX_LEN

ASSUME EccAssumption ==
  /\ Banks \in {{1}, {1, 2}}
  /\ Start \in [Banks -> Nat]
  /\ Length \in [Banks -> Nat \ {0}]
  /\ ZDMA_TRANSFER_MAX_LEN \in Nat \ {0}

VARIABLES
  \* the boot loader
  eccPc,           \* its next step
  bank,            \* which call of XFsbl_EccInit_main this is
  startAddr, numBytes, chunk, \* StartAddr, NumBytes, Length of that function
  status,          \* Status of XFsbl_DdrEccInit_main
  dcache,          \* the data cache is enabled
  \* the DMA channel
  channel,         \* ADMA_CH0_ZDMA_CH_STATUS: "done", "busy" or "error"
  dscr,            \* destination descriptor: address and size
  dmaDone,         \* ADMA_CH0_ZDMA_CH_ISR_DMA_DONE
  ddr              \* the addresses written since initialisation began

loaderVars == << eccPc, bank, startAddr, numBytes, chunk, status, dcache >>
channelVars == << channel, dscr, dmaDone, ddr >>
eccVars == << loaderVars, channelVars >>

ResetValues == [addr |-> 0, size |-> 0]
Bytes(addr, size) == addr .. addr + size - 1
AllBytes == UNION {Bytes(Start[b], Length[b]) : b \in Banks}

EccIdle ==
  /\ eccPc = "idle" /\ bank = 1
  /\ startAddr = 0 /\ numBytes = 0 /\ chunk = 0
  /\ status = "none" /\ dcache = TRUE
  /\ channel = "done" /\ dscr = ResetValues /\ dmaDone = FALSE
  /\ ddr = {}

-----------------------------------------------------------------------------
(* The boot loader.                                                        *)

Enter(b) ==
  /\ bank' = b
  /\ startAddr' = Start[b] /\ numBytes' = Length[b]
  /\ dcache' = FALSE
  /\ eccPc' = "wait"

DdrEccInit ==
  /\ eccPc = "idle"
  /\ Enter(1)
  /\ ddr' = {} /\ status' = "none"
  /\ UNCHANGED << chunk, channel, dscr, dmaDone >>

(* Wait until the channel is idle, program it for the next chunk, enable.  *)
Program ==
  /\ eccPc = "wait"
  /\ channel \in {"done", "error"}
  /\ chunk' = IF numBytes > ZDMA_TRANSFER_MAX_LEN THEN ZDMA_TRANSFER_MAX_LEN
              ELSE numBytes
  /\ dscr' = [addr |-> startAddr, size |-> chunk']
  /\ channel' = "busy"
  /\ eccPc' = "poll"
  /\ UNCHANGED << bank, startAddr, numBytes, status, dcache, dmaDone, ddr >>

(* A slip to catch: the done bit is read once and not waited for.          *)
PollOnce ==
  /\ eccPc = "poll"
  /\ dmaDone' = FALSE
  /\ eccPc' = "check"
  /\ UNCHANGED << bank, startAddr, numBytes, chunk, status, dcache, channel,
                  dscr, ddr >>

(* Polls for the done bit, for ever if need be, and clears it.             *)
Poll ==
  /\ eccPc = "poll"
  /\ dmaDone
  /\ dmaDone' = FALSE
  /\ eccPc' = "check"
  /\ UNCHANGED << bank, startAddr, numBytes, chunk, status, dcache, channel,
                  dscr, ddr >>

(* A slip to catch: the cache stays off after an error.                    *)
EccFailUncached ==
  /\ eccPc = "check" /\ channel = "error"
  /\ status' = "XFSBL_ERROR_DDR_ECC_INIT"
  /\ eccPc' = "idle"
  /\ UNCHANGED << bank, startAddr, numBytes, chunk, dcache, channelVars >>

(* An error ends both functions; the channel's registers stay as they are. *)
EccFail ==
  /\ eccPc = "check" /\ channel = "error"
  /\ status' = "XFSBL_ERROR_DDR_ECC_INIT"
  /\ dcache' = TRUE
  /\ eccPc' = "idle"
  /\ UNCHANGED << bank, startAddr, numBytes, chunk, channelVars >>

(* A slip to catch: the loop goes on for nothing.                          *)
AdvanceTooOften ==
  /\ eccPc = "check" /\ channel # "error"
  /\ numBytes' = numBytes - chunk
  /\ startAddr' = startAddr + chunk
  /\ eccPc' = IF numBytes' >= 0 THEN "wait" ELSE "end"
  /\ UNCHANGED << bank, chunk, status, dcache, channelVars >>

Advance ==
  /\ eccPc = "check" /\ channel # "error"
  /\ numBytes' = numBytes - chunk
  /\ startAddr' = startAddr + chunk
  /\ eccPc' = IF numBytes' > 0 THEN "wait" ELSE "end"
  /\ UNCHANGED << bank, chunk, status, dcache, channelVars >>

(* The bank is done: cache on, registers back to their reset values.       *)
Finish ==
  /\ eccPc = "end"
  /\ dcache' = TRUE
  /\ dscr' = ResetValues
  /\ IF bank + 1 \in Banks
       THEN /\ eccPc' = "next"
            /\ UNCHANGED status
       ELSE /\ status' = "XFSBL_SUCCESS"
            /\ eccPc' = "idle"
  /\ UNCHANGED << bank, startAddr, numBytes, chunk, channel, dmaDone, ddr >>

NextBank ==
  /\ eccPc = "next"
  /\ Enter(bank + 1)
  /\ UNCHANGED << chunk, status, channelVars >>

Loader == Program \/ Poll \/ EccFail \/ Advance \/ Finish \/ NextBank

-----------------------------------------------------------------------------
(* The channel writes the bytes of its descriptor and ends when it has     *)
(* written all, or before that with an error; it reports either (external).*)

Write(addr) ==
  /\ channel = "busy" /\ ~dmaDone
  /\ addr \in Bytes(dscr.addr, dscr.size) \ ddr
  /\ ddr' = ddr \cup {addr}
  /\ UNCHANGED << loaderVars, channel, dscr, dmaDone >>

Complete(outcome) ==
  /\ channel = "busy" /\ ~dmaDone
  /\ outcome = "done" => Bytes(dscr.addr, dscr.size) \subseteq ddr
  /\ channel' = outcome /\ dmaDone' = TRUE
  /\ UNCHANGED << loaderVars, dscr, ddr >>

Channel ==
  \/ \E addr \in Bytes(dscr.addr, dscr.size) : Write(addr)
  \/ \E outcome \in {"done", "error"} : Complete(outcome)

-----------------------------------------------------------------------------
(* Every variable has its type (one invariant for the whole module).       *)
EccTypeOK ==
  /\ eccPc \in {"idle", "wait", "poll", "check", "end", "next"}
  /\ bank \in Banks
  /\ startAddr \in Nat /\ numBytes \in Nat
  /\ chunk \in 0 .. ZDMA_TRANSFER_MAX_LEN
  /\ status \in {"none", "XFSBL_SUCCESS", "XFSBL_ERROR_DDR_ECC_INIT"}
  /\ dcache \in BOOLEAN
  /\ channel \in {"done", "busy", "error"}
  /\ dscr \in [addr : Nat, size : Nat]
  /\ dmaDone \in BOOLEAN
  /\ ddr \in SUBSET Nat

(* Success means that every byte of every bank was written since the call, *)
(* whatever the lengths and the greatest length of a transfer are; and     *)
(* nothing outside the banks is ever written.                              *)
EccComplete ==
  /\ ddr \subseteq AllBytes
  /\ status = "XFSBL_SUCCESS" => ddr = AllBytes

(* The channel never writes behind an enabled data cache, and no way out   *)
(* leaves the cache off.                                                   *)
CacheDiscipline ==
  /\ channel = "busy" => ~dcache
  /\ eccPc = "idle" => dcache

(* The banks before this one, and of this one what lies below startAddr.   *)
Earlier == UNION {Bytes(Start[b], Length[b]) : b \in {c \in Banks : c < bank}}
Written == Earlier \cup (Start[bank] .. startAddr - 1)

(* Where the two have got to: during a call the loop's counters say which  *)
(* bytes are written, and at the poll the channel works on the next chunk. *)
EccInv ==
  /\ EccTypeOK /\ EccComplete
  /\ dcache <=> eccPc \in {"idle", "next"}
  /\ eccPc # "idle" =>
       /\ status = "none"
       /\ Start[bank] <= startAddr
       /\ startAddr + numBytes = Start[bank] + Length[bank]
       /\ Written \subseteq ddr
  /\ eccPc # "poll" => channel # "busy" /\ ~dmaDone
  /\ eccPc = "poll" =>
       /\ dscr.addr = startAddr /\ dscr.size = chunk
       /\ channel = "busy" <=> ~dmaDone
  /\ eccPc \in {"poll", "check"} =>
       /\ chunk \in 1 .. numBytes
       /\ channel = "done" => Bytes(startAddr, chunk) \subseteq ddr
  /\ eccPc = "wait" => numBytes # 0
  /\ eccPc \in {"end", "next"} => numBytes = 0
  /\ eccPc = "next" => bank + 1 \in Banks

(* A transfer under way is never reprogrammed.                             *)
DescriptorStable == [][channel = "busy" => dscr' = dscr]_eccVars
=============================================================================

------------------------------- MODULE TxPath -------------------------------
(***************************************************************************)
(* Packets from the SoC to the PC host                                     *)
(* (nalla_250_soc_ep_network.c, nalla_250_soc_end_point.c).                *)
(*                                                                         *)
(* The kernel hands nalla_250_soc_network_packet_tx one skb at a time (it  *)
(* holds the queue's transmit lock).  The driver looks at the length word  *)
(* of the window it shares with the PC host.  Zero: it copies the packet,  *)
(* writes the length and rings the host's doorbell.  Not zero: the host    *)
(* has not taken the last packet; the new one is dropped, unless the last  *)
(* transmission is more than a second ago, in which case the window is     *)
(* flushed and written again.                                              *)
(*                                                                         *)
(* The host reads the window when its doorbell rings and hands it back by  *)
(* writing zero to the length word.  Driver, host and clock interleave at  *)
(* every access to shared memory.                                          *)
(***************************************************************************)
EXTENDS Integers, Sequences

CONSTANTS
  BufferBytes,        \* payload bytes the window holds behind the length
  MaxPackets,         \* bound: skbs the kernel hands to the driver
  PacketLen,          \* how many bytes the n-th of them has
  TRANSMIT_TIMEOUT,   \* NALLA_250_SOC_NETWORK_TRANSMIT_TIMEOUT_JIFFIES
  IntLimit,           \* 2^31: the least number a C int does not hold
  MaxJiffies,         \* bound: the clock stops here
  HostKeepsDeadline   \* the host reads a packet within the timeout or never

ASSUME TxAssumption ==
  /\ MaxPackets \in Nat
  /\ BufferBytes \in Nat \ {0}
  /\ PacketLen \in [1 .. MaxPackets -> 1 .. BufferBytes]
  /\ TRANSMIT_TIMEOUT \in Nat
  /\ IntLimit \in Nat \ {0}
  /\ MaxJiffies \in Nat
  /\ HostKeepsDeadline \in BOOLEAN

VARIABLES
  \* shared with the PC host
  toPcHostLength,     \* first word of dataToPcHostBuffer
  toPcHostData,       \* its bytes; 0 is "never written"
  initiate,           \* the host's doorbell is pending
  \* the driver
  tx,                 \* what packet_tx does next
  skb,                \* number of the skb handed to it last
  index,              \* local variable i of sendPacketToPcHost
  lastPacketTxTime,
  stats,              \* net_device_stats of the interface
  \* the kernel's clock
  jiffies,
  \* the PC host
  host,               \* what the host's driver does next
  hostLength,         \* the length it read
  hostIndex,          \* the byte it copies next
  hostBuffer,         \* where it copies the packet to
  \* history
  txLog               \* what left the window: taken by the host, or flushed

windowVars == << toPcHostLength, toPcHostData >>
driverVars == << tx, skb, index, lastPacketTxTime, stats >>
hostVars   == << host, hostLength, hostIndex, hostBuffer >>
vars == << windowVars, initiate, driverVars, jiffies, hostVars, txLog >>

(* The n-th packet: each of its bytes carries the number n.                *)
Frame(n) == [j \in 1 .. PacketLen[n] |-> n]

Window == [j \in 1 .. toPcHostLength |-> toPcHostData[j]]

(* The state nalla_250_soc_ep_init and nalla_250_soc_network_init leave.   *)
Init ==
  /\ toPcHostLength = 0
  /\ toPcHostData = [j \in 1 .. BufferBytes |-> 0]
  /\ initiate = FALSE
  /\ tx = "idle" /\ skb = 0 /\ index = 1
  /\ lastPacketTxTime = 0 /\ jiffies = 0
  /\ stats = [tx_packets |-> 0, tx_dropped |-> 0]
  /\ host = "idle" /\ hostLength = 0 /\ hostIndex = 1
  /\ hostBuffer = [j \in 1 .. BufferBytes |-> 0]
  /\ txLog = << >>

-----------------------------------------------------------------------------
(* nalla_250_soc_network_packet_tx and the functions it calls.             *)

(* Time since the driver last wrote a packet into the window, and what is  *)
(* left of it in the local variable difference, an int.                    *)
Age == jiffies - lastPacketTxTime

Difference == ((Age + IntLimit) % (2 * IntLimit)) - IntLimit

PacketTx ==
  /\ tx = "idle" /\ skb < MaxPackets
  /\ skb' = skb + 1
  /\ tx' = "canSend"
  /\ UNCHANGED << windowVars, initiate, index, lastPacketTxTime, stats,
                  jiffies, hostVars, txLog >>

(* A slip to catch: the driver does not ask whether the window is empty.   *)
CanSendAlways ==
  /\ tx = "canSend"
  /\ tx' = "recheck"
  /\ UNCHANGED << windowVars, initiate, skb, index, lastPacketTxTime, stats,
                  jiffies, hostVars, txLog >>

(* canSendPacketToPcHost reads the length word.                            *)
CanSend ==
  /\ tx = "canSend"
  /\ tx' = IF toPcHostLength = 0 THEN "recheck" ELSE "difference"
  /\ UNCHANGED << windowVars, initiate, skb, index, lastPacketTxTime, stats,
                  jiffies, hostVars, txLog >>

(* Slips to catch: the window is flushed one jiffy early, ...              *)
CheckDifferenceEarly ==
  /\ tx = "difference"
  /\ IF Difference >= TRANSMIT_TIMEOUT
       THEN tx' = "flush" /\ UNCHANGED stats
       ELSE tx' = "idle" /\ stats' = [stats EXCEPT !.tx_dropped = @ + 1]
  /\ UNCHANGED << windowVars, initiate, skb, index, lastPacketTxTime,
                  jiffies, hostVars, txLog >>

(* ... or flushed while fresh and left alone when stale.                   *)
CheckDifferenceReversed ==
  /\ tx = "difference"
  /\ IF Difference < TRANSMIT_TIMEOUT
       THEN tx' = "flush" /\ UNCHANGED stats
       ELSE tx' = "idle" /\ stats' = [stats EXCEPT !.tx_dropped = @ + 1]
  /\ UNCHANGED << windowVars, initiate, skb, index, lastPacketTxTime,
                  jiffies, hostVars, txLog >>

(* The window was full: flush it if it is stale, drop the packet if not.   *)
CheckDifference ==
  /\ tx = "difference"
  /\ IF Difference > TRANSMIT_TIMEOUT
       THEN tx' = "flush" /\ UNCHANGED stats
       ELSE tx' = "idle" /\ stats' = [stats EXCEPT !.tx_dropped = @ + 1]
  /\ UNCHANGED << windowVars, initiate, skb, index, lastPacketTxTime,
                  jiffies, hostVars, txLog >>

(* flushSocToPcPacketBuffer; the host may have emptied the window by now.  *)
Flush ==
  /\ tx = "flush"
  /\ toPcHostLength' = 0
  /\ txLog' = IF toPcHostLength = 0 THEN txLog
              ELSE Append(txLog, [frame |-> Window, fate |-> "lost"])
  /\ tx' = "recheck"
  /\ UNCHANGED << toPcHostData, initiate, skb, index, lastPacketTxTime,
                  stats, jiffies, hostVars >>

(* sendPacketToPcHost reads the length word once more and gives up if it   *)
(* is not zero; its caller goes on as if the packet had been sent.         *)
Recheck ==
  /\ tx = "recheck"
  /\ tx' = IF toPcHostLength = 0 THEN "copy" ELSE "account"
  /\ index' = 1
  /\ UNCHANGED << windowVars, initiate, skb, lastPacketTxTime, stats,
                  jiffies, hostVars, txLog >>

CopyByte ==
  /\ tx = "copy"
  /\ toPcHostData' = [toPcHostData EXCEPT ![index] = skb]
  /\ IF index = PacketLen[skb]
       THEN tx' = "length" /\ UNCHANGED index
       ELSE index' = index + 1 /\ UNCHANGED tx
  /\ UNCHANGED << toPcHostLength, initiate, skb, lastPacketTxTime, stats,
                  jiffies, hostVars, txLog >>

(* A slip to catch: the length of the window in place of the packet's.     *)
WriteLengthWhole ==
  /\ tx = "length"
  /\ toPcHostLength' = BufferBytes
  /\ tx' = "ring"
  /\ UNCHANGED << toPcHostData, initiate, skb, index, lastPacketTxTime,
                  stats, jiffies, hostVars, txLog >>

(* The length is written and read back before the doorbell rings.          *)
WriteLength ==
  /\ tx = "length"
  /\ toPcHostLength' = PacketLen[skb]
  /\ tx' = "ring"
  /\ UNCHANGED << toPcHostData, initiate, skb, index, lastPacketTxTime,
                  stats, jiffies, hostVars, txLog >>

(* A slip to catch: the host is not told.                                  *)
RingNever ==
  /\ tx = "ring"
  /\ tx' = "account"
  /\ UNCHANGED << windowVars, initiate, skb, index, lastPacketTxTime, stats, jiffies,
                  hostVars, txLog >>

Ring ==
  /\ tx = "ring"
  /\ initiate' = TRUE
  /\ tx' = "account"
  /\ UNCHANGED << windowVars, skb, index, lastPacketTxTime, stats, jiffies,
                  hostVars, txLog >>

(* Statistics and time stamp; the skb is freed.                            *)
Account ==
  /\ tx = "account"
  /\ stats' = [stats EXCEPT !.tx_packets = @ + 1]
  /\ lastPacketTxTime' = jiffies
  /\ tx' = "idle"
  /\ UNCHANGED << windowVars, initiate, skb, index, jiffies, hostVars,
                  txLog >>

-----------------------------------------------------------------------------
(* The PC host (external) and the clock.                                   *)

(* The packet in the window is being published, or is younger than the     *)
(* driver's timeout and stays so for the given time.                       *)
InTime(ticks) ==
  tx \in {"ring", "account"} \/ Age + ticks <= TRANSMIT_TIMEOUT

(* The doorbell's handler clears the doorbell, then reads the length.      *)
HostBegin ==
  /\ initiate /\ host = "idle"
  /\ HostKeepsDeadline => InTime(0)
  /\ initiate' = FALSE
  /\ hostLength' = toPcHostLength /\ hostIndex' = 1
  /\ host' = IF toPcHostLength = 0 THEN "idle" ELSE "copy"
  /\ UNCHANGED << windowVars, driverVars, jiffies, hostBuffer, txLog >>

HostCopyByte ==
  /\ host = "copy"
  /\ hostBuffer' = [hostBuffer EXCEPT ![hostIndex] = toPcHostData[hostIndex]]
  /\ IF hostIndex = hostLength
       THEN host' = "ack" /\ UNCHANGED hostIndex
       ELSE hostIndex' = hostIndex + 1 /\ UNCHANGED host
  /\ UNCHANGED << windowVars, initiate, driverVars, jiffies, hostLength,
                  txLog >>

HostAck ==
  /\ host = "ack"
  /\ toPcHostLength' = 0
  /\ txLog' = Append(txLog,
       [frame |-> [j \in 1 .. hostLength |-> hostBuffer[j]],
        fate  |-> "taken"])
  /\ host' = "idle"
  /\ UNCHANGED << toPcHostData, initiate, driverVars, jiffies, hostLength,
                  hostIndex, hostBuffer >>

Tick ==
  /\ jiffies < MaxJiffies
  /\ HostKeepsDeadline /\ host # "idle" => InTime(1)
  /\ jiffies' = jiffies + 1
  /\ UNCHANGED << windowVars, initiate, driverVars, hostVars, txLog >>

-----------------------------------------------------------------------------
Driver ==
  \/ PacketTx \/ CanSend \/ CheckDifference \/ Flush \/ Recheck
  \/ CopyByte \/ WriteLength \/ Ring \/ Account

Host == HostBegin \/ HostCopyByte \/ HostAck

Next == Driver \/ Host \/ Tick

Spec == Init /\ [][Next]_vars

-----------------------------------------------------------------------------
(* Every variable has its type (one invariant for the whole module).       *)
TypeOK ==
  /\ toPcHostLength \in 0 .. BufferBytes
  /\ toPcHostData \in [1 .. BufferBytes -> 0 .. MaxPackets]
  /\ initiate \in BOOLEAN
  /\ tx \in {"idle", "canSend", "difference", "flush", "recheck", "copy",
             "length", "ring", "account"}
  /\ skb \in 0 .. MaxPackets
  /\ index \in 1 .. BufferBytes
  /\ jiffies \in 0 .. MaxJiffies
  /\ lastPacketTxTime \in 0 .. jiffies
  /\ stats \in [tx_packets : Nat, tx_dropped : Nat]
  /\ host \in {"idle", "copy", "ack"}
  /\ hostLength \in 0 .. BufferBytes
  /\ hostIndex \in 1 .. BufferBytes
  /\ hostBuffer \in [1 .. BufferBytes -> 0 .. MaxPackets]
  /\ txLog \in Seq([frame : Seq(0 .. MaxPackets), fate : {"taken", "lost"}])

(* Every frame the host takes is one packet of the kernel, whole and       *)
(* unmixed, and it takes them in the order they were sent, none twice:     *)
(* flushing a window the host has given up on never tears a packet.  This  *)
(* needs a host that reads within the transmit timeout or not at all.      *)
TxFramesIntact ==
  /\ \A n \in 1 .. Len(txLog) : \E p \in 1 .. skb : txLog[n].frame = Frame(p)
  /\ \A m, n \in 1 .. Len(txLog) :
       m < n => txLog[m].frame[1] < txLog[n].frame[1]

(* The interface statistics account for every skb: each is counted once,   *)
(* as dropped or as transmitted, and each transmitted one was put into the *)
(* window, where it still is unless the host took it or a flush threw it   *)
(* away.  In particular the second look at the length never fails, so no   *)
(* packet is counted as transmitted that was not written.                  *)
TxAccounted ==
  /\ skb = stats.tx_packets + stats.tx_dropped + (IF tx = "idle" THEN 0 ELSE 1)
  /\ stats.tx_packets + (IF tx = "account" \/ tx = "ring" THEN 1 ELSE 0)
       = Len(txLog) + (IF toPcHostLength # 0 THEN 1 ELSE 0)

(* While the driver writes the window the host does not read it.           *)
TxHandover == tx \in {"copy", "length"} => host = "idle"

(* A packet that waits in the window has a doorbell the host has not       *)
(* answered yet: no doorbell is answered before the length can be seen.    *)
TxDoorbellPending ==
  toPcHostLength # 0 /\ tx # "ring" => initiate \/ host # "idle"

(* A full window costs packets only while it is fresh, or when the time    *)
(* since the last transmission has overflowed the int it is kept in; and a *)
(* packet of the window is flushed only when it is stale.                  *)
StaleWindowReclaimed ==
  [][ /\ stats'.tx_dropped # stats.tx_dropped
           => Age <= TRANSMIT_TIMEOUT \/ Age >= IntLimit
      /\ tx = "flush" => Age > TRANSMIT_TIMEOUT ]_vars

(* A flush leaves no doorbell behind for the packet it threw away.  The    *)
(* comment in flushSocToPcPacketBuffer says so; the write that would do it *)
(* is commented out, and the host answers a doorbell of an empty window.   *)
FlushClearsDoorbell ==
  [][tx = "flush" /\ tx' # "flush" => ~initiate']_vars

-----------------------------------------------------------------------------
(* The inductive invariant behind the properties above, for a host that    *)
(* keeps the deadline, in named parts.                                     *)

(* The packet in the window: the driver fills it only while it is empty,   *)
(* and what lies there is one of the packets handed to it so far.          *)
WindowInv ==
  /\ tx # "idle" => skb >= 1
  /\ tx \in {"recheck", "copy", "length"} => toPcHostLength = 0
  /\ tx = "copy" =>
       /\ index <= PacketLen[skb]
       /\ \A j \in 1 .. index - 1 : toPcHostData[j] = skb
  /\ tx = "length" => \A j \in 1 .. PacketLen[skb] : toPcHostData[j] = skb
  /\ toPcHostLength # 0 =>
       LET p == toPcHostData[1]
       IN  /\ p \in 1 .. skb
           /\ tx \in {"canSend", "difference", "flush"} => p < skb
           /\ toPcHostLength = PacketLen[p]
           /\ \A j \in 1 .. PacketLen[p] : toPcHostData[j] = p

(* A host that reads does so in time, and a flush comes after that time:   *)
(* the two cannot meet.                                                    *)
DeadlineInv ==
  /\ host # "idle" => InTime(0) /\ toPcHostLength # 0
  /\ tx = "flush" => Age > TRANSMIT_TIMEOUT

(* What holds of the clock and of a flush for any host, also for one that  *)
(* reads a packet after the timeout.                                       *)
ClockInv ==
  /\ jiffies \in Nat /\ lastPacketTxTime \in 0 .. jiffies
  /\ stats \in [tx_packets : Nat, tx_dropped : Nat]
  /\ tx = "flush" => Age > TRANSMIT_TIMEOUT

(* What the host has copied so far is what lies in the window.             *)
HostInv ==
  /\ host # "idle" => hostLength = toPcHostLength
  /\ host = "copy" =>
       /\ hostIndex <= hostLength
       /\ \A j \in 1 .. hostIndex - 1 : hostBuffer[j] = toPcHostData[j]
  /\ host = "ack" =>
       \A j \in 1 .. hostLength : hostBuffer[j] = toPcHostData[j]

(* What left the window came before what is in it or will enter it.        *)
LogInv ==
  \A n \in 1 .. Len(txLog) :
    /\ Len(txLog[n].frame) >= 1
    /\ txLog[n].frame[1] <= skb
    /\ tx \in {"canSend", "difference", "flush", "recheck", "copy", "length"}
         => txLog[n].frame[1] < skb
    /\ toPcHostLength # 0 => txLog[n].frame[1] < toPcHostData[1]

(* Every skb is counted once, as dropped or as transmitted.                *)
SkbsCounted ==
  skb = stats.tx_packets + stats.tx_dropped + (IF tx = "idle" THEN 0 ELSE 1)

(* The driver's half of the handover, which it keeps for any host: it      *)
(* writes only an empty window, and what it leaves there is one packet of  *)
(* the kernel, whole, with the packet's length.                            *)
DriverInv ==
  /\ TypeOK /\ WindowInv /\ SkbsCounted
  /\ host = "copy" => hostIndex <= hostLength

TxInv ==
  /\ TypeOK /\ WindowInv /\ DeadlineInv /\ HostInv /\ LogInv
  /\ TxFramesIntact /\ TxAccounted

-----------------------------------------------------------------------------
(* The window as the abstract specification sees it.                       *)
Abstract == INSTANCE PacketWindow WITH
  last <- IF toPcHostLength # 0 THEN toPcHostData[1]
          ELSE IF txLog = << >> THEN 0
          ELSE txLog[Len(txLog)].frame[1],
  slot <- Window,
  log  <- txLog

(* The transmit path implements the packet window; a flush is its Lose.    *)
TxImplementsWindow == Abstract!Spec
=============================================================================

---------------------------- MODULE TxPathProofs ----------------------------
(***************************************************************************)
(* Proofs about TxPath, for any window size, any number and lengths of     *)
(* packets, any timeout, any width of int and any bound on the clock.      *)
(***************************************************************************)
EXTENDS TxPath, TLAPS

(* The length of every packet that can be sent fits the window.            *)
LEMMA PacketLenType ==
  ASSUME NEW n \in 1 .. MaxPackets
  PROVE  PacketLen[n] \in 1 .. BufferBytes
BY TxAssumption

(* Counting a packet keeps the type of the interface statistics.           *)
LEMMA StatsType ==
  ASSUME NEW st \in [tx_packets : Nat, tx_dropped : Nat]
  PROVE  /\ [st EXCEPT !.tx_packets = @ + 1]
              \in [tx_packets : Nat, tx_dropped : Nat]
         /\ [st EXCEPT !.tx_dropped = @ + 1]
              \in [tx_packets : Nat, tx_dropped : Nat]
OBVIOUS

(* It adds one to one counter and leaves the other alone.                  *)
LEMMA StatsCount ==
  ASSUME NEW st \in [tx_packets : Nat, tx_dropped : Nat]
  PROVE  /\ st.tx_packets \in Nat /\ st.tx_dropped \in Nat
         /\ [st EXCEPT !.tx_packets = @ + 1].tx_packets = st.tx_packets + 1
         /\ [st EXCEPT !.tx_packets = @ + 1].tx_dropped = st.tx_dropped
         /\ [st EXCEPT !.tx_dropped = @ + 1].tx_packets = st.tx_packets
         /\ [st EXCEPT !.tx_dropped = @ + 1].tx_dropped = st.tx_dropped + 1
OBVIOUS

(* A remainder does not exceed the number it is taken from.                *)
LEMMA RemainderAtMost ==
  ASSUME NEW a \in Nat, NEW m \in Nat \ {0}
  PROVE  a % m \in Int /\ a % m <= a
OBVIOUS

(* The truncation to int never makes the packet look older than it is.     *)
LEMMA DifferenceAtMostAge ==
  ASSUME Age \in Nat
  PROVE  Difference \in Int /\ Difference <= Age
<1>1. Age + IntLimit \in Nat /\ 2 * IntLimit \in Nat \ {0} /\ IntLimit \in Nat
  BY TxAssumption
<1>2. /\ (Age + IntLimit) % (2 * IntLimit) \in Int
      /\ (Age + IntLimit) % (2 * IntLimit) <= Age + IntLimit
  BY <1>1, RemainderAtMost
<1>3. QED
  BY <1>1, <1>2 DEF Difference

(* A prefix of a buffer is a sequence.                                     *)
LEMMA FrameType ==
  ASSUME NEW n \in Nat, NEW m \in Nat, NEW S, n <= m,
         NEW f \in [1 .. m -> S]
  PROVE  [j \in 1 .. n |-> f[j]] \in Seq(S)
<1>1. [j \in 1 .. n |-> f[j]] \in [1 .. n -> S]
  OBVIOUS
<1>2. QED
  BY <1>1

(* Appending an entry to a log keeps its type.                             *)
LEMMA LogType ==
  ASSUME NEW log \in Seq([frame : Seq(0 .. MaxPackets),
                          fate : {"taken", "lost"}]),
         NEW f \in Seq(0 .. MaxPackets), NEW t \in {"taken", "lost"}
  PROVE  Append(log, [frame |-> f, fate |-> t])
           \in Seq([frame : Seq(0 .. MaxPackets), fate : {"taken", "lost"}])
OBVIOUS

-----------------------------------------------------------------------------
(* The state the driver's initialisation leaves satisfies the invariant.   *)
LEMMA TxInit == Init => TxInv
<1> SUFFICES ASSUME Init PROVE TxInv
  OBVIOUS
<1> USE TxAssumption DEF Init
<1>1. TypeOK
  <2>1. toPcHostData \in [1 .. BufferBytes -> 0 .. MaxPackets]
    OBVIOUS
  <2>2. hostBuffer \in [1 .. BufferBytes -> 0 .. MaxPackets]
    OBVIOUS
  <2>3. stats \in [tx_packets : Nat, tx_dropped : Nat]
    OBVIOUS
  <2>4. /\ 0 \in 0 .. BufferBytes /\ 1 \in 1 .. BufferBytes
        /\ 0 \in 0 .. MaxPackets /\ 0 \in 0 .. MaxJiffies /\ 0 \in 0 .. 0
    OBVIOUS
  <2>5. txLog \in Seq([frame : Seq(0 .. MaxPackets), fate : {"taken", "lost"}])
    OBVIOUS
  <2>6. QED
    BY <2>1, <2>2, <2>3, <2>4, <2>5 DEF TypeOK
<1>2. WindowInv /\ DeadlineInv /\ HostInv /\ LogInv
  BY DEF WindowInv, DeadlineInv, HostInv, LogInv
<1>3. TxFramesIntact /\ TxAccounted
  BY DEF TxFramesIntact, TxAccounted
<1>4. QED
  BY <1>1, <1>2, <1>3 DEF TxInv

(* The driver's half: types are preserved by every step, of any host.      *)
LEMMA TxTypeStep ==
  ASSUME DriverInv, [Next]_vars
  PROVE  TypeOK'
<1> USE DEF DriverInv, TypeOK, windowVars, driverVars, hostVars
<1>1. CASE PacketTx
  BY <1>1, TxAssumption DEF PacketTx
<1>2. CASE CanSend
  BY <1>2 DEF CanSend
<1>3. CASE CheckDifference
  <2>1. stats' \in [tx_packets : Nat, tx_dropped : Nat]
    BY <1>3, StatsType DEF CheckDifference
  <2>2. QED
    BY <1>3, <2>1 DEF CheckDifference
<1>4. CASE Flush
  <2>1. Window \in Seq(0 .. MaxPackets)
    BY TxAssumption, FrameType DEF Window
  <2>2. txLog' \in Seq([frame : Seq(0 .. MaxPackets), fate : {"taken", "lost"}])
    BY <1>4, <2>1, LogType DEF Flush
  <2>3. QED
    BY <1>4, <2>2, TxAssumption DEF Flush
<1>5. CASE Recheck
  BY <1>5, TxAssumption DEF Recheck
<1>6. CASE CopyByte
  <2>1. /\ skb \in 1 .. MaxPackets /\ PacketLen[skb] \in 1 .. BufferBytes
        /\ index <= PacketLen[skb]
    BY <1>6, TxAssumption, PacketLenType DEF CopyByte, WindowInv
  <2>2. toPcHostData' \in [1 .. BufferBytes -> 0 .. MaxPackets]
    BY <1>6, <2>1 DEF CopyByte
  <2>3. index' = index \/ (index # PacketLen[skb] /\ index' = index + 1)
    BY <1>6 DEF CopyByte
  <2>4. index \in 1 .. BufferBytes
    OBVIOUS
  <2>5. index' \in 1 .. BufferBytes
    BY ONLY <2>1, <2>3, <2>4, TxAssumption
  <2>6. QED
    BY <1>6, <2>2, <2>5 DEF CopyByte
<1>7. CASE WriteLength
  <2>1. PacketLen[skb] \in 1 .. BufferBytes
    BY <1>7, TxAssumption, PacketLenType DEF WriteLength, WindowInv
  <2>2. toPcHostLength' \in 0 .. BufferBytes
    BY <1>7, <2>1 DEF WriteLength
  <2>3. QED
    BY <1>7, <2>2 DEF WriteLength
<1>8. CASE Ring
  BY <1>8 DEF Ring
<1>9. CASE Account
  <2>1. stats' \in [tx_packets : Nat, tx_dropped : Nat]
    BY <1>9, StatsType DEF Account
  <2>2. QED
    BY <1>9, <2>1 DEF Account
<1>10. CASE HostBegin
  <2>1. hostLength' \in 0 .. BufferBytes /\ hostIndex' \in 1 .. BufferBytes
    BY <1>10, TxAssumption DEF HostBegin
  <2>2. host' \in {"idle", "copy", "ack"} /\ initiate' \in BOOLEAN
    BY <1>10 DEF HostBegin
  <2>3. QED
    BY <1>10, <2>1, <2>2 DEF HostBegin
<1>11. CASE HostCopyByte
  <2>1. hostIndex <= hostLength
    BY <1>11 DEF HostCopyByte
  <2>2. hostBuffer' \in [1 .. BufferBytes -> 0 .. MaxPackets]
    BY <1>11 DEF HostCopyByte
  <2>3. \/ hostIndex' = hostIndex
        \/ hostIndex # hostLength /\ hostIndex' = hostIndex + 1
    BY <1>11 DEF HostCopyByte
  <2>4. hostIndex \in 1 .. BufferBytes /\ hostLength \in 0 .. BufferBytes
    OBVIOUS
  <2>5. hostIndex' \in 1 .. BufferBytes
    BY ONLY <2>1, <2>3, <2>4, TxAssumption
  <2>6. QED
    BY <1>11, <2>2, <2>5 DEF HostCopyByte
<1>12. CASE HostAck
  <2>1. [j \in 1 .. hostLength |-> hostBuffer[j]] \in Seq(0 .. MaxPackets)
    BY TxAssumption, FrameType
  <2>2. txLog' \in Seq([frame : Seq(0 .. MaxPackets), fate : {"taken", "lost"}])
    BY <1>12, <2>1, LogType DEF HostAck
  <2>3. toPcHostLength' \in 0 .. BufferBytes
    BY <1>12, TxAssumption DEF HostAck
  <2>4. QED
    BY <1>12, <2>2, <2>3 DEF HostAck
<1>13. CASE Tick
  <2>1. jiffies' \in 0 .. MaxJiffies /\ lastPacketTxTime' \in 0 .. jiffies'
    BY <1>13, TxAssumption DEF Tick
  <2>2. QED
    BY <1>13, <2>1 DEF Tick
<1>14. CASE UNCHANGED vars
  BY <1>14 DEF vars
<1>15. QED
  BY <1>1, <1>2, <1>3, <1>4, <1>5, <1>6, <1>7, <1>8, <1>9, <1>10, <1>11, <1>12,
     <1>13, <1>14
  DEF Next, Driver, Host

(* The window's part, for any host: what a late host does is to hand back  *)
(* an empty or a newer window.                                             *)
LEMMA TxWindowStep ==
  ASSUME DriverInv, [Next]_vars
  PROVE  WindowInv'
<1> USE DEF DriverInv, TypeOK, windowVars, driverVars, hostVars, WindowInv
<1>1. CASE PacketTx
  BY <1>1 DEF PacketTx
<1>2. CASE CanSend
  BY <1>2 DEF CanSend
<1>3. CASE CheckDifference
  BY <1>3 DEF CheckDifference
<1>4. CASE Flush
  BY <1>4 DEF Flush
<1>5. CASE Recheck
  <2>1. skb \in 1 .. MaxPackets /\ PacketLen[skb] \in 1 .. BufferBytes
    BY <1>5, TxAssumption, PacketLenType DEF Recheck
  <2>2. QED
    BY <1>5, <2>1 DEF Recheck
<1>6. CASE CopyByte
  <2>1. skb \in 1 .. MaxPackets /\ PacketLen[skb] \in 1 .. BufferBytes
    BY <1>6, TxAssumption, PacketLenType DEF CopyByte
  <2>2. \A j \in 1 .. index : toPcHostData'[j] = skb
    BY <1>6, <2>1 DEF CopyByte
  <2>3. CASE index = PacketLen[skb]
    BY <1>6, <2>1, <2>2, <2>3 DEF CopyByte
  <2>4. CASE index # PacketLen[skb]
    BY <1>6, <2>1, <2>2, <2>4 DEF CopyByte
  <2>5. QED
    BY <2>3, <2>4
<1>7. CASE WriteLength
  <2>1. skb \in 1 .. MaxPackets /\ PacketLen[skb] \in 1 .. BufferBytes
    BY <1>7, TxAssumption, PacketLenType DEF WriteLength
  <2>2. toPcHostData[1] = skb
    BY <1>7, <2>1 DEF WriteLength
  <2>3. QED
    BY <1>7, <2>1, <2>2 DEF WriteLength
<1>8. CASE Ring
  BY <1>8 DEF Ring
<1>9. CASE Account
  BY <1>9 DEF Account
<1>10. CASE HostBegin
  BY <1>10 DEF HostBegin
<1>11. CASE HostCopyByte
  BY <1>11 DEF HostCopyByte
<1>12. CASE HostAck
  BY <1>12 DEF HostAck
<1>13. CASE Tick
  BY <1>13 DEF Tick
<1>14. CASE UNCHANGED vars
  BY <1>14 DEF vars
<1>15. QED
  BY <1>1, <1>2, <1>3, <1>4, <1>5, <1>6, <1>7, <1>8, <1>9, <1>10, <1>11, <1>12,
     <1>13, <1>14
  DEF Next, Driver, Host

(* The counts, and where the host is in its copy.                          *)
LEMMA TxCountStep ==
  ASSUME DriverInv, [Next]_vars
  PROVE  SkbsCounted' /\ (host' = "copy" => hostIndex' <= hostLength')
<1> USE DEF DriverInv, TypeOK, windowVars, driverVars, hostVars
<1>1. stats.tx_packets \in Nat /\ stats.tx_dropped \in Nat /\ skb \in Nat
  OBVIOUS
<1>2. SkbsCounted'
  <2>1. CASE PacketTx
    BY <1>1, <2>1 DEF PacketTx, SkbsCounted
  <2>2. CASE CheckDifference
    <3>1. CASE tx' = "flush" /\ stats' = stats
      BY <2>2, <3>1 DEF CheckDifference, SkbsCounted
    <3>2. CASE tx' = "idle" /\ stats' = [stats EXCEPT !.tx_dropped = @ + 1]
      <4>1. /\ stats'.tx_packets = stats.tx_packets
            /\ stats'.tx_dropped = stats.tx_dropped + 1
        BY <3>2, StatsCount
      <4>2. tx = "difference" /\ skb' = skb
        BY <2>2 DEF CheckDifference
      <4>3. QED
        BY <1>1, <3>2, <4>1, <4>2 DEF SkbsCounted
    <3>3. QED
      BY <2>2, <3>1, <3>2 DEF CheckDifference
  <2>3. CASE Account
    <3>1. /\ stats'.tx_packets = stats.tx_packets + 1
          /\ stats'.tx_dropped = stats.tx_dropped
      BY <2>3, StatsCount DEF Account
    <3>2. tx = "account" /\ tx' = "idle" /\ skb' = skb
      BY <2>3 DEF Account
    <3>3. QED
      BY <1>1, <3>1, <3>2 DEF SkbsCounted
  <2>4. CASE \/ CanSend \/ Flush \/ Recheck \/ CopyByte \/ WriteLength \/ Ring
    BY <2>4 DEF CanSend, Flush, Recheck, CopyByte, WriteLength, Ring, SkbsCounted
  <2>5. CASE Host \/ Tick \/ UNCHANGED vars
    BY <2>5 DEF Host, HostBegin, HostCopyByte, HostAck, Tick, vars, SkbsCounted
  <2>6. QED
    BY <2>1, <2>2, <2>3, <2>4, <2>5 DEF Next, Driver
<1>3. host' = "copy" => hostIndex' <= hostLength'
  <2>1. CASE HostBegin
    BY <2>1 DEF HostBegin
  <2>2. CASE HostCopyByte
    <3>1. /\ hostIndex \in Int /\ hostLength \in Int /\ hostIndex <= hostLength
          /\ hostLength' = hostLength
      BY <2>2, TxAssumption DEF HostCopyByte
    <3>2. CASE hostIndex = hostLength
      BY <2>2, <3>2 DEF HostCopyByte
    <3>3. CASE hostIndex # hostLength
      BY <2>2, <3>1, <3>3 DEF HostCopyByte
    <3>4. QED
      BY <3>2, <3>3
  <2>3. CASE HostAck
    BY <2>3 DEF HostAck
  <2>4. CASE Driver \/ Tick \/ UNCHANGED vars
    <3>1. UNCHANGED << host, hostIndex, hostLength >>
      BY <2>4 DEF Driver, PacketTx, CanSend, CheckDifference, Flush, Recheck,
         CopyByte, WriteLength, Ring, Account, Tick, vars
    <3>2. QED
      BY <3>1
  <2>5. QED
    BY <2>1, <2>2, <2>3, <2>4 DEF Next, Host
<1>4. QED
  BY <1>2, <1>3

LEMMA DriverStep == DriverInv /\ [Next]_vars => DriverInv'
BY TxTypeStep, TxWindowStep, TxCountStep DEF DriverInv

(* What holds for any host holds for one that keeps the deadline.          *)
LEMMA DriverPart ==
  ASSUME TxInv
  PROVE  DriverInv
BY DEF TxInv, DriverInv, TxAccounted, SkbsCounted, HostInv

(* The deadline's part.                                                    *)
LEMMA TxDeadlineStep ==
  ASSUME HostKeepsDeadline, TxInv, [Next]_vars
  PROVE  DeadlineInv'
<1> USE DEF TxInv, TypeOK, windowVars, driverVars, hostVars, WindowInv,
        DeadlineInv, InTime, Age
<1>1. CASE PacketTx
  BY <1>1 DEF PacketTx
<1>2. CASE CanSend
  BY <1>2 DEF CanSend
<1>3. CASE CheckDifference
  <2>1. Difference > TRANSMIT_TIMEOUT => Age > TRANSMIT_TIMEOUT
    BY DifferenceAtMostAge, TxAssumption
  <2>2. QED
    BY <1>3, <2>1 DEF CheckDifference
<1>4. CASE Flush
  BY <1>4, TxAssumption DEF Flush
<1>5. CASE Recheck
  BY <1>5 DEF Recheck
<1>6. CASE CopyByte
  BY <1>6 DEF CopyByte
<1>7. CASE WriteLength
  <2>1. PacketLen[skb] # 0
    BY <1>7, TxAssumption, PacketLenType DEF WriteLength
  <2>2. QED
    BY <1>7, <2>1 DEF WriteLength
<1>8. CASE Ring
  BY <1>8 DEF Ring
<1>9. CASE Account
  BY <1>9, TxAssumption DEF Account
<1>10. CASE HostBegin
  BY <1>10, TxAssumption DEF HostBegin
<1>11. CASE HostCopyByte
  BY <1>11 DEF HostCopyByte
<1>12. CASE HostAck
  BY <1>12 DEF HostAck
<1>13. CASE Tick
  BY <1>13, TxAssumption DEF Tick
<1>14. CASE UNCHANGED vars
  BY <1>14 DEF vars
<1>15. QED
  BY <1>1, <1>2, <1>3, <1>4, <1>5, <1>6, <1>7, <1>8, <1>9, <1>10, <1>11, <1>12,
     <1>13, <1>14
  DEF Next, Driver, Host

(* The host's part.                                                        *)
LEMMA TxHostStep ==
  ASSUME HostKeepsDeadline, TxInv, [Next]_vars
  PROVE  HostInv'
<1> USE DEF TxInv, TypeOK, windowVars, driverVars, hostVars, WindowInv,
        DeadlineInv, HostInv, InTime, Age
<1>1. CASE PacketTx
  BY <1>1 DEF PacketTx
<1>2. CASE CanSend
  BY <1>2 DEF CanSend
<1>3. CASE CheckDifference
  BY <1>3 DEF CheckDifference
<1>4. CASE Flush
  BY <1>4, TxAssumption DEF Flush
<1>5. CASE Recheck
  BY <1>5 DEF Recheck
<1>6. CASE CopyByte
  BY <1>6, TxAssumption DEF CopyByte
<1>7. CASE WriteLength
  BY <1>7, TxAssumption DEF WriteLength
<1>8. CASE Ring
  BY <1>8 DEF Ring
<1>9. CASE Account
  BY <1>9 DEF Account
<1>10. CASE HostBegin
  <2>1. toPcHostLength # 0 => 1 <= toPcHostLength
    OBVIOUS
  <2>2. QED
    BY <1>10, <2>1 DEF HostBegin
<1>11. CASE HostCopyByte
  <2>1. \A j \in 1 .. hostIndex : hostBuffer'[j] = toPcHostData[j]
    BY <1>11 DEF HostCopyByte
  <2>2. CASE hostIndex = hostLength
    BY <1>11, <2>1, <2>2 DEF HostCopyByte
  <2>3. CASE hostIndex # hostLength
    BY <1>11, <2>1, <2>3 DEF HostCopyByte
  <2>4. QED
    BY <2>2, <2>3
<1>12. CASE HostAck
  BY <1>12 DEF HostAck
<1>13. CASE Tick
  BY <1>13 DEF Tick
<1>14. CASE UNCHANGED vars
  BY <1>14 DEF vars
<1>15. QED
  BY <1>1, <1>2, <1>3, <1>4, <1>5, <1>6, <1>7, <1>8, <1>9, <1>10, <1>11, <1>12,
     <1>13, <1>14
  DEF Next, Driver, Host

(* The window holds a whole packet whenever it is not empty, ...           *)
LEMMA TxWindowFrame ==
  ASSUME TxInv, toPcHostLength # 0
  PROVE  /\ toPcHostData[1] \in 1 .. skb
         /\ Window = Frame(toPcHostData[1])
         /\ Window[1] = toPcHostData[1] /\ Window # << >>
         /\ Len(Window) >= 1 /\ Window \in Seq(0 .. MaxPackets)
<1> USE DEF TxInv, TypeOK, WindowInv
<1> DEFINE p == toPcHostData[1]
<1>1. /\ p \in 1 .. skb /\ p \in 1 .. MaxPackets
      /\ toPcHostLength = PacketLen[p]
      /\ \A j \in 1 .. PacketLen[p] : toPcHostData[j] = p
  BY TxAssumption
<1>2. PacketLen[p] \in 1 .. BufferBytes
  BY <1>1, PacketLenType
<1>3. Window = Frame(p)
  BY <1>1 DEF Window, Frame
<1>4. Window[1] = p /\ Len(Window) = PacketLen[p]
  BY <1>1, <1>2 DEF Window
<1>5. Window # << >>
  BY <1>2, <1>4
<1>6. Window \in Seq(0 .. MaxPackets)
  <2>1. /\ toPcHostLength \in 0 .. BufferBytes
        /\ toPcHostData \in [1 .. BufferBytes -> 0 .. MaxPackets]
    OBVIOUS
  <2>2. /\ toPcHostLength \in Nat /\ BufferBytes \in Nat
        /\ toPcHostLength <= BufferBytes
    BY ONLY <2>1, TxAssumption
  <2>3. QED
    BY ONLY <2>1, <2>2, FrameType DEF Window
<1>7. QED
  BY <1>1, <1>2, <1>3, <1>4, <1>5, <1>6

(* ... and this is what the history records when the window is emptied.    *)
LEMMA TxLeaves ==
  ASSUME TxInv, toPcHostLength # 0, NEW t \in {"taken", "lost"},
         txLog' = Append(txLog, [frame |-> Window, fate |-> t])
  PROVE  /\ Len(txLog) \in Nat /\ Len(txLog') = Len(txLog) + 1
         /\ \A n \in 1 .. Len(txLog) : txLog'[n] = txLog[n]
         /\ txLog'[Len(txLog) + 1].frame = Window
<1> DEFINE entry == [frame |-> Window, fate |-> t]
<1>1. /\ txLog \in Seq([frame : Seq(0 .. MaxPackets), fate : {"taken", "lost"}])
      /\ entry \in [frame : Seq(0 .. MaxPackets), fate : {"taken", "lost"}]
  BY TxWindowFrame DEF TxInv, TypeOK
<1>2. entry.frame = Window
  OBVIOUS
<1> HIDE DEF entry
<1>3. /\ Len(txLog) \in Nat /\ Len(Append(txLog, entry)) = Len(txLog) + 1
      /\ \A n \in 1 .. Len(txLog) : Append(txLog, entry)[n] = txLog[n]
      /\ Append(txLog, entry)[Len(txLog) + 1] = entry
  BY ONLY <1>1
<1>4. QED
  BY <1>2, <1>3 DEF entry

(* The host records the frame that lies in the window when it hands the    *)
(* window back.                                                            *)
LEMMA TxHostTakes ==
  ASSUME TxInv, HostAck
  PROVE  /\ toPcHostLength # 0 /\ toPcHostLength' = 0
         /\ tx \notin {"recheck", "copy", "length"}
         /\ txLog' = Append(txLog, [frame |-> Window, fate |-> "taken"])
<1> USE DEF TxInv, TypeOK, WindowInv, DeadlineInv, HostInv
<1>1. /\ toPcHostLength # 0 /\ hostLength = toPcHostLength
      /\ \A j \in 1 .. hostLength : hostBuffer[j] = toPcHostData[j]
  BY DEF HostAck
<1>2. [j \in 1 .. hostLength |-> hostBuffer[j]] = Window
  BY <1>1 DEF Window
<1>3. QED
  BY <1>1, <1>2 DEF HostAck

(* The first element of a sequence that is not empty.                      *)
LEMMA FirstElement ==
  ASSUME NEW S, NEW s \in Seq(S), Len(s) >= 1
  PROVE  s[1] \in S
<1>1. Len(s) \in Nat /\ 1 \in 1 .. Len(s)
  OBVIOUS
<1>2. QED
  BY <1>1

(* An element of a sequence.                                               *)
LEMMA ElementType ==
  ASSUME NEW S, NEW s \in Seq(S), NEW n \in 1 .. Len(s)
  PROVE  s[n] \in S
OBVIOUS

(* The packet numbers in the history are numbers.                          *)
LEMMA TxEntryNumber ==
  ASSUME TxInv, NEW n \in 1 .. Len(txLog)
  PROVE  txLog[n].frame[1] \in 0 .. MaxPackets
<1>1. txLog \in Seq([frame : Seq(0 .. MaxPackets), fate : {"taken", "lost"}])
  BY DEF TxInv, TypeOK
<1>2. txLog[n] \in [frame : Seq(0 .. MaxPackets), fate : {"taken", "lost"}]
  BY <1>1, ElementType
<1>3. txLog[n].frame \in Seq(0 .. MaxPackets)
  BY ONLY <1>2
<1>4. Len(txLog[n].frame) >= 1
  BY DEF TxInv, LogInv
<1>5. QED
  BY ONLY <1>3, <1>4, FirstElement

(* The history's part.                                                     *)
LEMMA TxLogStep ==
  ASSUME HostKeepsDeadline, TxInv, [Next]_vars
  PROVE  LogInv'
<1> USE DEF TxInv, TypeOK, windowVars, driverVars, hostVars, WindowInv,
        LogInv
<1>1. CASE PacketTx
  <2>1. /\ skb \in Nat /\ skb' = skb + 1 /\ txLog' = txLog
        /\ toPcHostLength' = toPcHostLength /\ toPcHostData' = toPcHostData
    BY <1>1 DEF PacketTx
  <2>2. \A n \in 1 .. Len(txLog) : txLog[n].frame[1] \in 0 .. MaxPackets
    BY TxEntryNumber
  <2>3. \A n \in 1 .. Len(txLog) :
          /\ Len(txLog[n].frame) >= 1 /\ txLog[n].frame[1] <= skb
          /\ toPcHostLength # 0 => txLog[n].frame[1] < toPcHostData[1]
    OBVIOUS
  <2>4. \A n \in 1 .. Len(txLog) :
          txLog[n].frame[1] < skb' /\ txLog[n].frame[1] <= skb'
    BY ONLY <2>1, <2>2, <2>3
  <2>5. QED
    BY ONLY <2>1, <2>3, <2>4 DEF LogInv
<1>2. CASE CanSend
  BY <1>2 DEF CanSend
<1>3. CASE CheckDifference
  BY <1>3 DEF CheckDifference
<1>4. CASE Flush
  <2>1. CASE toPcHostLength = 0
    BY <1>4, <2>1 DEF Flush
  <2>2. CASE toPcHostLength # 0
    <3>1. /\ toPcHostLength' = 0 /\ skb' = skb /\ toPcHostData[1] < skb
          /\ skb \in Nat
      BY <1>4, <2>2 DEF Flush
    <3>2. QED
      BY <1>4, <2>2, <3>1, TxLeaves, TxWindowFrame DEF Flush
  <2>3. QED
    BY <2>1, <2>2
<1>5. CASE Recheck
  BY <1>5 DEF Recheck
<1>6. CASE CopyByte
  BY <1>6 DEF CopyByte
<1>7. CASE WriteLength
  <2>1. toPcHostData[1] = skb
    BY <1>7, TxAssumption, PacketLenType DEF WriteLength
  <2>2. QED
    BY <1>7, <2>1 DEF WriteLength
<1>8. CASE Ring
  BY <1>8 DEF Ring
<1>9. CASE Account
  BY <1>9 DEF Account
<1>10. CASE HostBegin
  BY <1>10 DEF HostBegin
<1>11. CASE HostCopyByte
  BY <1>11 DEF HostCopyByte
<1>12. CASE HostAck
  <2>1. toPcHostLength # 0 /\ toPcHostLength' = 0
    BY <1>12, TxHostTakes
  <2>2. /\ skb' = skb /\ tx' = tx /\ tx \notin {"recheck", "copy", "length"}
        /\ tx \in {"canSend", "difference", "flush"} => toPcHostData[1] < skb
        /\ skb \in Nat
    BY <1>12, <2>1, TxHostTakes DEF HostAck
  <2>3. /\ Len(txLog) \in Nat /\ Len(txLog') = Len(txLog) + 1
        /\ \A n \in 1 .. Len(txLog) : txLog'[n] = txLog[n]
        /\ txLog'[Len(txLog) + 1].frame = Window
    BY <1>12, TxHostTakes, TxLeaves
  <2>4. /\ Len(Window) >= 1 /\ Window[1] = toPcHostData[1]
        /\ toPcHostData[1] \in 1 .. skb
    BY <2>1, TxWindowFrame
  <2>5. \A n \in 1 .. Len(txLog) :
          /\ Len(txLog[n].frame) >= 1 /\ txLog[n].frame[1] <= skb
          /\ tx \in {"canSend", "difference", "flush"}
               => txLog[n].frame[1] < skb
    OBVIOUS
  <2>6. \A n \in 1 .. Len(txLog') :
          /\ Len(txLog'[n].frame) >= 1 /\ txLog'[n].frame[1] <= skb
          /\ tx \in {"canSend", "difference", "flush"}
               => txLog'[n].frame[1] < skb
    BY ONLY <2>2, <2>3, <2>4, <2>5
  <2>7. QED
    BY ONLY <2>1, <2>2, <2>6 DEF LogInv
<1>13. CASE Tick
  BY <1>13 DEF Tick
<1>14. CASE UNCHANGED vars
  BY <1>14 DEF vars
<1>15. QED
  BY <1>1, <1>2, <1>3, <1>4, <1>5, <1>6, <1>7, <1>8, <1>9, <1>10, <1>11, <1>12,
     <1>13, <1>14
  DEF Next, Driver, Host

(* The frames the host took stay whole and in order.                       *)
LEMMA TxFramesStep ==
  ASSUME HostKeepsDeadline, TxInv, [Next]_vars
  PROVE  TxFramesIntact'
<1> USE DEF TxInv, TypeOK, windowVars, driverVars, hostVars, WindowInv,
        TxFramesIntact
<1>1. CASE PacketTx
  <2>1. /\ skb \in Nat /\ skb' = skb + 1 /\ txLog' = txLog
    BY <1>1 DEF PacketTx
  <2>2. \A p \in 1 .. skb : p \in 1 .. skb'
    BY <2>1
  <2>3. QED
    BY <2>1, <2>2 DEF Frame
<1>2. CASE CanSend
  BY <1>2 DEF CanSend, Frame
<1>3. CASE CheckDifference
  BY <1>3 DEF CheckDifference, Frame
<1>4. CASE Flush
  <2>1. CASE toPcHostLength = 0
    BY <1>4, <2>1 DEF Flush, Frame
  <2>2. CASE toPcHostLength # 0
    <3>1. /\ Len(txLog) \in Nat /\ Len(txLog') = Len(txLog) + 1
          /\ \A n \in 1 .. Len(txLog) : txLog'[n] = txLog[n]
          /\ txLog'[Len(txLog) + 1].frame = Window
      BY <1>4, <2>2, TxLeaves DEF Flush
    <3>2. /\ Window = Frame(toPcHostData[1]) /\ Window[1] = toPcHostData[1]
          /\ toPcHostData[1] \in 1 .. skb /\ skb' = skb
      BY <1>4, <2>2, TxWindowFrame DEF Flush
    <3>3. \A n \in 1 .. Len(txLog') : \E p \in 1 .. skb' :
            txLog'[n].frame = Frame(p)
      <4>1. \A n \in 1 .. Len(txLog) : \E p \in 1 .. skb :
              txLog[n].frame = Frame(p)
        OBVIOUS
      <4>2. QED
        BY ONLY <3>1, <3>2, <4>1
    <3>4. \A n \in 1 .. Len(txLog) : txLog[n].frame[1] < toPcHostData[1]
      BY <2>2 DEF LogInv
    <3>5. \A m, n \in 1 .. Len(txLog') :
            m < n => txLog'[m].frame[1] < txLog'[n].frame[1]
      <4>1. \A m, n \in 1 .. Len(txLog) :
              m < n => txLog[m].frame[1] < txLog[n].frame[1]
        OBVIOUS
      <4>2. QED
        BY ONLY <3>1, <3>2, <3>4, <4>1
    <3>6. QED
      BY <3>3, <3>5 DEF Frame
  <2>3. QED
    BY <2>1, <2>2
<1>5. CASE Recheck
  BY <1>5 DEF Recheck, Frame
<1>6. CASE CopyByte
  BY <1>6 DEF CopyByte, Frame
<1>7. CASE WriteLength
  BY <1>7 DEF WriteLength, Frame
<1>8. CASE Ring
  BY <1>8 DEF Ring, Frame
<1>9. CASE Account
  BY <1>9 DEF Account, Frame
<1>10. CASE HostBegin
  BY <1>10 DEF HostBegin, Frame
<1>11. CASE HostCopyByte
  BY <1>11 DEF HostCopyByte, Frame
<1>12. CASE HostAck
  <2>1. /\ Len(txLog) \in Nat /\ Len(txLog') = Len(txLog) + 1
        /\ \A n \in 1 .. Len(txLog) : txLog'[n] = txLog[n]
        /\ txLog'[Len(txLog) + 1].frame = Window
    BY <1>12, TxHostTakes, TxLeaves
  <2>2. /\ Window = Frame(toPcHostData[1]) /\ Window[1] = toPcHostData[1]
        /\ toPcHostData[1] \in 1 .. skb /\ skb' = skb
    BY <1>12, TxHostTakes, TxWindowFrame DEF HostAck
  <2>3. \A n \in 1 .. Len(txLog') : \E p \in 1 .. skb' :
          txLog'[n].frame = Frame(p)
    <3>1. \A n \in 1 .. Len(txLog) : \E p \in 1 .. skb :
            txLog[n].frame = Frame(p)
      OBVIOUS
    <3>2. QED
      BY ONLY <2>1, <2>2, <3>1
  <2>4. \A n \in 1 .. Len(txLog) : txLog[n].frame[1] < toPcHostData[1]
    BY <1>12, TxHostTakes DEF LogInv
  <2>5. \A m, n \in 1 .. Len(txLog') :
          m < n => txLog'[m].frame[1] < txLog'[n].frame[1]
    <3>1. \A m, n \in 1 .. Len(txLog) :
            m < n => txLog[m].frame[1] < txLog[n].frame[1]
      OBVIOUS
    <3>2. QED
      BY ONLY <2>1, <2>2, <2>4, <3>1
  <2>6. QED
    BY <2>3, <2>5 DEF Frame
<1>13. CASE Tick
  BY <1>13 DEF Tick, Frame
<1>14. CASE UNCHANGED vars
  BY <1>14 DEF vars
<1>15. QED
  BY <1>1, <1>2, <1>3, <1>4, <1>5, <1>6, <1>7, <1>8, <1>9, <1>10, <1>11, <1>12,
     <1>13, <1>14
  DEF Next, Driver, Host

(* The statistics keep accounting for every skb.                           *)
LEMMA TxAccountStep ==
  ASSUME HostKeepsDeadline, TxInv, [Next]_vars
  PROVE  TxAccounted'
<1> USE DEF TxInv, TypeOK, windowVars, driverVars, hostVars, WindowInv,
        TxAccounted
<1>1. CASE PacketTx
  BY <1>1 DEF PacketTx
<1>2. CASE CanSend
  BY <1>2 DEF CanSend
<1>3. CASE CheckDifference
  <2>1. CASE Difference > TRANSMIT_TIMEOUT
    BY <1>3, <2>1 DEF CheckDifference
  <2>2. CASE ~(Difference > TRANSMIT_TIMEOUT)
    <3>1. /\ stats'.tx_packets = stats.tx_packets
          /\ stats'.tx_dropped = stats.tx_dropped + 1
          /\ stats.tx_packets \in Nat /\ stats.tx_dropped \in Nat
      BY <1>3, <2>2, StatsCount DEF CheckDifference
    <3>2. QED
      BY <1>3, <2>2, <3>1 DEF CheckDifference
  <2>3. QED
    BY <2>1, <2>2
<1>4. CASE Flush
  <2>1. CASE toPcHostLength = 0
    BY <1>4, <2>1 DEF Flush
  <2>2. CASE toPcHostLength # 0
    <3>1. Len(txLog') = Len(txLog) + 1
      BY <1>4, <2>2, TxLeaves DEF Flush
    <3>2. QED
      BY <1>4, <2>2, <3>1 DEF Flush
  <2>3. QED
    BY <2>1, <2>2
<1>5. CASE Recheck
  BY <1>5 DEF Recheck
<1>6. CASE CopyByte
  BY <1>6 DEF CopyByte
<1>7. CASE WriteLength
  <2>1. PacketLen[skb] # 0
    BY <1>7, TxAssumption, PacketLenType DEF WriteLength
  <2>2. QED
    BY <1>7, <2>1 DEF WriteLength
<1>8. CASE Ring
  BY <1>8 DEF Ring
<1>9. CASE Account
  <2>1. /\ stats'.tx_packets = stats.tx_packets + 1
        /\ stats'.tx_dropped = stats.tx_dropped
        /\ stats.tx_packets \in Nat /\ stats.tx_dropped \in Nat
    BY <1>9, StatsCount DEF Account
  <2>2. /\ tx = "account" /\ tx' = "idle" /\ skb' = skb
        /\ toPcHostLength' = toPcHostLength /\ Len(txLog') = Len(txLog)
    BY <1>9 DEF Account
  <2>3. stats'.tx_packets = Len(txLog') + (IF toPcHostLength' # 0 THEN 1 ELSE 0)
    <3>1. stats.tx_packets + 1 = Len(txLog) + (IF toPcHostLength # 0 THEN 1 ELSE 0)
      BY <2>2
    <3>2. QED
      BY ONLY <2>1, <2>2, <3>1
  <2>4. skb' = stats'.tx_packets + stats'.tx_dropped
    <3>1. skb = stats.tx_packets + stats.tx_dropped + 1
      BY <2>2
    <3>2. QED
      BY ONLY <2>1, <2>2, <3>1
  <2>5. stats'.tx_packets + 0 = stats'.tx_packets
        /\ stats'.tx_packets + stats'.tx_dropped + 0
             = stats'.tx_packets + stats'.tx_dropped
    BY ONLY <2>1
  <2>6. QED
    BY ONLY <2>2, <2>3, <2>4, <2>5 DEF TxAccounted
<1>10. CASE HostBegin
  BY <1>10 DEF HostBegin
<1>11. CASE HostCopyByte
  BY <1>11 DEF HostCopyByte
<1>12. CASE HostAck
  <2>1. /\ toPcHostLength # 0 /\ toPcHostLength' = 0
        /\ Len(txLog') = Len(txLog) + 1
    BY <1>12, TxHostTakes, TxLeaves
  <2>2. QED
    BY <1>12, <2>1 DEF HostAck
<1>13. CASE Tick
  BY <1>13 DEF Tick
<1>14. CASE UNCHANGED vars
  BY <1>14 DEF vars
<1>15. QED
  BY <1>1, <1>2, <1>3, <1>4, <1>5, <1>6, <1>7, <1>8, <1>9, <1>10, <1>11, <1>12,
     <1>13, <1>14
  DEF Next, Driver, Host

-----------------------------------------------------------------------------
(* For a host that reads within the timeout or not at all, the strengthened *)
(* invariant holds in every reachable state.                                *)
THEOREM TxInvariant ==
  ASSUME HostKeepsDeadline
  PROVE  Spec => []TxInv
<1>1. TxInv /\ [Next]_vars => TxInv'
  <2> SUFFICES ASSUME TxInv, [Next]_vars
               PROVE  TxInv'
    OBVIOUS
  <2>1. TypeOK' /\ WindowInv' /\ DeadlineInv' /\ HostInv' /\ LogInv'
    BY DriverPart, TxTypeStep, TxWindowStep, TxDeadlineStep, TxHostStep, TxLogStep
  <2>2. TxFramesIntact' /\ TxAccounted'
    BY TxFramesStep, TxAccountStep
  <2>3. QED
    BY <2>1, <2>2 DEF TxInv
<1>2. QED
  BY TxInit, <1>1, PTL DEF Spec

(* Whatever the host does, and however late, the driver writes only an     *)
(* empty window, leaves there one whole packet with its length, and counts *)
(* every skb once.                                                         *)
THEOREM TxDriverInvariant == Spec => []DriverInv
<1>1. Init => DriverInv
  BY TxInit, DriverPart
<1>2. QED
  BY <1>1, DriverStep, PTL DEF Spec

(* Every variable of the transmit path keeps its type, for any host.       *)
THEOREM TxTypeCorrect == Spec => []TypeOK
<1>1. DriverInv => TypeOK
  BY DEF DriverInv
<1>2. QED
  BY <1>1, TxDriverInvariant, PTL

(* Every frame that leaves the window is one whole packet, in order.       *)
THEOREM TxDelivers ==
  ASSUME HostKeepsDeadline
  PROVE  Spec => []TxFramesIntact
<1>1. TxInv => TxFramesIntact
  BY DEF TxInv
<1>2. QED
  BY <1>1, TxInvariant, PTL

(* The interface statistics account for every skb.                         *)
THEOREM TxAccounts ==
  ASSUME HostKeepsDeadline
  PROVE  Spec => []TxAccounted
<1>1. TxInv => TxAccounted
  BY DEF TxInv
<1>2. QED
  BY <1>1, TxInvariant, PTL

(* The host never reads the window while the driver writes it.             *)
THEOREM TxExclusion ==
  ASSUME HostKeepsDeadline
  PROVE  Spec => []TxHandover
<1>1. TxInv => TxHandover
  BY DEF TxInv, WindowInv, DeadlineInv, TxHandover
<1>2. QED
  BY <1>1, TxInvariant, PTL

(* A packet waiting in the window has a doorbell that was not answered yet, *)
(* whatever the host's timing: the invariant needs no other.               *)
THEOREM TxKeepsDoorbell == Spec => []TxDoorbellPending
<1>1. Init => TxDoorbellPending
  BY DEF Init, TxDoorbellPending
<1>2. TxDoorbellPending /\ [Next]_vars => TxDoorbellPending'
  <2> SUFFICES ASSUME TxDoorbellPending, [Next]_vars
               PROVE  TxDoorbellPending'
    OBVIOUS
  <2> USE DEF TxDoorbellPending, windowVars, driverVars, hostVars
  <2>1. CASE PacketTx
    BY <2>1 DEF PacketTx
  <2>2. CASE CanSend
    BY <2>2 DEF CanSend
  <2>3. CASE CheckDifference
    BY <2>3 DEF CheckDifference
  <2>4. CASE Flush
    BY <2>4 DEF Flush
  <2>5. CASE Recheck
    BY <2>5 DEF Recheck
  <2>6. CASE CopyByte
    BY <2>6 DEF CopyByte
  <2>7. CASE WriteLength
    BY <2>7 DEF WriteLength
  <2>8. CASE Ring
    BY <2>8 DEF Ring
  <2>9. CASE Account
    BY <2>9 DEF Account
  <2>10. CASE HostBegin
    BY <2>10 DEF HostBegin
  <2>11. CASE HostCopyByte
    BY <2>11 DEF HostCopyByte
  <2>12. CASE HostAck
    BY <2>12 DEF HostAck
  <2>13. CASE Tick
    BY <2>13 DEF Tick
  <2>14. CASE UNCHANGED vars
    BY <2>14 DEF vars
  <2>15. QED
    BY <2>1, <2>2, <2>3, <2>4, <2>5, <2>6, <2>7,
       <2>8, <2>9, <2>10, <2>11, <2>12, <2>13, <2>14
    DEF Next, Driver, Host
<1>3. QED
  BY <1>1, <1>2, PTL DEF Spec

(* Below its limit the int holds the time since the last transmission.     *)
LEMMA DifferenceIsAge ==
  ASSUME Age \in Nat, Age < IntLimit
  PROVE  Difference = Age
<1> DEFINE a == Age + IntLimit
           m == 2 * IntLimit
<1>1. a \in Nat /\ m \in Nat \ {0} /\ a < m /\ IntLimit \in Nat
  BY TxAssumption
<1>2. a % m = a
  <2> HIDE DEF a, m
  <2>1. QED
    BY <1>1
<1>3. QED
  BY <1>1, <1>2 DEF Difference

(* The clock never runs behind the last transmission and only a stale      *)
(* window is about to be flushed, for any host.                            *)
THEOREM TxClock == Spec => []ClockInv
<1>1. Init => ClockInv
  BY DEF Init, ClockInv
<1>2. ClockInv /\ [Next]_vars => ClockInv'
  <2> SUFFICES ASSUME ClockInv, [Next]_vars
               PROVE  ClockInv'
    OBVIOUS
  <2> USE DEF ClockInv, Age, windowVars, driverVars, hostVars
  <2>1. CASE PacketTx
    BY <2>1 DEF PacketTx
  <2>2. CASE CanSend
    BY <2>2 DEF CanSend
  <2>3. CASE CheckDifference
    <3>1. Difference \in Int /\ Difference <= Age
      BY DifferenceAtMostAge
    <3>2. stats' \in [tx_packets : Nat, tx_dropped : Nat]
      BY <2>3, StatsType DEF CheckDifference
    <3>3. tx' = "flush" => Age > TRANSMIT_TIMEOUT
      BY <2>3, <3>1, TxAssumption DEF CheckDifference
    <3>4. QED
      BY <2>3, <3>2, <3>3 DEF CheckDifference
  <2>4. CASE Flush
    BY <2>4 DEF Flush
  <2>5. CASE Recheck
    BY <2>5 DEF Recheck
  <2>6. CASE CopyByte
    BY <2>6 DEF CopyByte
  <2>7. CASE WriteLength
    BY <2>7 DEF WriteLength
  <2>8. CASE Ring
    BY <2>8 DEF Ring
  <2>9. CASE Account
    <3>1. stats' \in [tx_packets : Nat, tx_dropped : Nat]
      BY <2>9, StatsType DEF Account
    <3>2. QED
      BY <2>9, <3>1 DEF Account
  <2>10. CASE HostBegin
    BY <2>10 DEF HostBegin
  <2>11. CASE HostCopyByte
    BY <2>11 DEF HostCopyByte
  <2>12. CASE HostAck
    BY <2>12 DEF HostAck
  <2>13. CASE Tick
    <3>1. /\ jiffies' = jiffies + 1 /\ lastPacketTxTime' = lastPacketTxTime
          /\ stats' = stats /\ tx' = tx
      BY <2>13 DEF Tick
    <3>2. /\ jiffies' \in Nat /\ lastPacketTxTime' \in 0 .. jiffies'
      BY <3>1
    <3>3. tx' = "flush" => Age' > TRANSMIT_TIMEOUT
      <4>1. jiffies \in Int /\ lastPacketTxTime \in Int /\ TRANSMIT_TIMEOUT \in Int
        BY TxAssumption
      <4>2. QED
        BY <3>1, <4>1
    <3>4. QED
      BY <3>1, <3>2, <3>3
  <2>14. CASE UNCHANGED vars
    BY <2>14 DEF vars
  <2>15. QED
    BY <2>1, <2>2, <2>3, <2>4, <2>5, <2>6, <2>7,
       <2>8, <2>9, <2>10, <2>11, <2>12, <2>13, <2>14
    DEF Next, Driver, Host
<1>3. QED
  BY <1>1, <1>2, PTL DEF Spec

(* Packets are dropped only while the window is fresh or the int has        *)
(* overflowed, and only a stale window is flushed, for any host.            *)
THEOREM TxReclaims == Spec => StaleWindowReclaimed
<1> DEFINE Step ==
      /\ stats'.tx_dropped # stats.tx_dropped
           => Age <= TRANSMIT_TIMEOUT \/ Age >= IntLimit
      /\ tx = "flush" => Age > TRANSMIT_TIMEOUT
<1>1. ClockInv /\ [Next]_vars => Step
  <2> SUFFICES ASSUME ClockInv, [Next]_vars
               PROVE  Step
    OBVIOUS
  <2> USE DEF ClockInv, windowVars, driverVars, hostVars
  <2>1. CASE PacketTx
    BY <2>1 DEF PacketTx
  <2>2. CASE CanSend
    BY <2>2 DEF CanSend
  <2>3. CASE CheckDifference
    <3>1. Age \in Nat /\ IntLimit \in Int
      BY TxAssumption DEF Age
    <3>2. Age < IntLimit \/ Age >= IntLimit
      BY ONLY <3>1
    <3>3. ~(Difference > TRANSMIT_TIMEOUT) /\ Age < IntLimit
            => Age <= TRANSMIT_TIMEOUT
      BY <3>1, DifferenceIsAge, TxAssumption
    <3>4. QED
      BY <2>3, <3>2, <3>3 DEF CheckDifference
  <2>4. CASE Flush
    BY <2>4 DEF Flush
  <2>5. CASE Recheck
    BY <2>5 DEF Recheck
  <2>6. CASE CopyByte
    BY <2>6 DEF CopyByte
  <2>7. CASE WriteLength
    BY <2>7 DEF WriteLength
  <2>8. CASE Ring
    BY <2>8 DEF Ring
  <2>9. CASE Account
    BY <2>9, StatsCount DEF Account
  <2>10. CASE HostBegin
    BY <2>10 DEF HostBegin
  <2>11. CASE HostCopyByte
    BY <2>11 DEF HostCopyByte
  <2>12. CASE HostAck
    BY <2>12 DEF HostAck
  <2>13. CASE Tick
    BY <2>13 DEF Tick
  <2>14. CASE UNCHANGED vars
    BY <2>14 DEF vars
  <2>15. QED
    BY <2>1, <2>2, <2>3, <2>4, <2>5, <2>6, <2>7,
       <2>8, <2>9, <2>10, <2>11, <2>12, <2>13, <2>14
    DEF Next, Driver, Host
<1>2. QED
  BY <1>1, TxClock, PTL DEF Spec, StaleWindowReclaimed

-----------------------------------------------------------------------------
(* The number of the packet most recently put into the window.             *)
Last == IF toPcHostLength # 0 THEN toPcHostData[1]
        ELSE IF txLog = << >> THEN 0
        ELSE txLog[Len(txLog)].frame[1]

(* Publishing the length is the abstract window's Put.                     *)
LEMMA TxWindowPut ==
  ASSUME TxInv, WriteLength
  PROVE  Abstract!Put(skb)
<1> USE DEF TxInv, TypeOK, WindowInv, windowVars, driverVars, hostVars
<1>1. /\ skb \in 1 .. MaxPackets /\ PacketLen[skb] \in 1 .. BufferBytes
      /\ toPcHostLength = 0 /\ tx = "length"
      /\ \A j \in 1 .. PacketLen[skb] : toPcHostData[j] = skb
  BY TxAssumption, PacketLenType DEF WriteLength
<1>2. /\ toPcHostLength' = PacketLen[skb] /\ toPcHostLength' # 0
      /\ toPcHostData' = toPcHostData /\ skb' = skb /\ txLog' = txLog
  BY <1>1 DEF WriteLength
<1>3. Window = << >>
  BY <1>1 DEF Window
<1>4. Window' = Abstract!Frame(skb)
  BY <1>1, <1>2 DEF Window, Abstract!Frame
<1>5. Last' = skb
  BY <1>1, <1>2 DEF Last
<1>6. skb > Last
  <2>1. CASE txLog = << >>
    BY <1>1, <2>1 DEF Last
  <2>2. CASE txLog # << >>
    <3>1. Len(txLog) \in 1 .. Len(txLog)
      BY <2>2
    <3>2. txLog[Len(txLog)].frame[1] < skb
      BY <1>1, <3>1 DEF LogInv
    <3>3. QED
      BY <1>1, <2>2, <3>2 DEF Last
  <2>3. QED
    BY <2>1, <2>2
<1>7. QED
  BY <1>2, <1>3, <1>4, <1>5, <1>6 DEF Abstract!Put, Abstract!Empty, Last

(* Emptying it, with the packet going to the history, is its Leave.        *)
LEMMA TxWindowLeave ==
  ASSUME TxInv, toPcHostLength # 0, toPcHostLength' = 0,
         NEW t \in {"taken", "lost"},
         txLog' = Append(txLog, [frame |-> Window, fate |-> t])
  PROVE  Abstract!Leave(t)
<1>1. /\ Window # << >> /\ Window[1] = toPcHostData[1]
  BY TxWindowFrame
<1>2. /\ Len(txLog) \in Nat /\ Len(txLog') = Len(txLog) + 1
      /\ txLog'[Len(txLog) + 1].frame = Window
  BY TxLeaves
<1>3. Window' = << >>
  BY DEF Window
<1>4. txLog' # << >>
  BY ONLY <1>2
<1>5. Last' = Last
  BY <1>1, <1>2, <1>4 DEF Last
<1>6. QED
  BY <1>1, <1>3, <1>5 DEF Abstract!Leave, Abstract!Empty, Last

(* The transmit path implements the packet window: publishing the length   *)
(* is its Put, the host's answer its Take and a flush of a stale window    *)
(* its Lose; everything else is a stutter.                                 *)
THEOREM TxRefinesWindow ==
  ASSUME HostKeepsDeadline
  PROVE  Spec => TxImplementsWindow
<1>1. Init => Abstract!Init
  BY DEF Init, Abstract!Init, Abstract!Empty, Window
<1>2. TxInv /\ [Next]_vars => [Abstract!Next]_(Abstract!vars)
  <2> SUFFICES ASSUME TxInv, [Next]_vars
               PROVE  [Abstract!Next]_(Abstract!vars)
    OBVIOUS
  <2> USE DEF Abstract!vars, windowVars, driverVars, hostVars
  <2>1. CASE PacketTx
    BY <2>1 DEF PacketTx, Window
  <2>2. CASE CanSend
    BY <2>2 DEF CanSend, Window
  <2>3. CASE CheckDifference
    BY <2>3 DEF CheckDifference, Window
  <2>4. CASE Flush
    <3>1. CASE toPcHostLength = 0
      BY <2>4, <3>1 DEF Flush, Window
    <3>2. CASE toPcHostLength # 0
      <4>1. Abstract!Lose
        <5>1. /\ toPcHostLength' = 0
              /\ txLog' = Append(txLog, [frame |-> Window, fate |-> "lost"])
          BY <2>4, <3>2 DEF Flush
        <5>2. QED
          BY <3>2, <5>1, TxWindowLeave DEF Abstract!Lose
      <4>2. QED
        BY <4>1 DEF Abstract!Next
    <3>3. QED
      BY <3>1, <3>2
  <2>5. CASE Recheck
    BY <2>5 DEF Recheck, Window
  <2>6. CASE CopyByte
    <3>1. toPcHostLength = 0
      BY <2>6 DEF CopyByte, TxInv, WindowInv
    <3>2. QED
      BY <2>6, <3>1 DEF CopyByte, Window
  <2>7. CASE WriteLength
    <3>1. skb \in Abstract!Packets
      BY <2>7, TxAssumption
      DEF WriteLength, TxInv, TypeOK, WindowInv, Abstract!Packets
    <3>2. Abstract!Put(skb)
      BY <2>7, TxWindowPut
    <3>3. QED
      BY <3>1, <3>2 DEF Abstract!Next
  <2>8. CASE Ring
    BY <2>8 DEF Ring, Window
  <2>9. CASE Account
    BY <2>9 DEF Account, Window
  <2>10. CASE HostBegin
    BY <2>10 DEF HostBegin, Window
  <2>11. CASE HostCopyByte
    BY <2>11 DEF HostCopyByte, Window
  <2>12. CASE HostAck
    <3>1. Abstract!Take
      BY <2>12, TxHostTakes, TxWindowLeave DEF Abstract!Take
    <3>2. QED
      BY <3>1 DEF Abstract!Next
  <2>13. CASE Tick
    BY <2>13 DEF Tick, Window
  <2>14. CASE UNCHANGED vars
    BY <2>14 DEF vars, Window
  <2>15. QED
    BY <2>1, <2>2, <2>3, <2>4, <2>5, <2>6, <2>7,
       <2>8, <2>9, <2>10, <2>11, <2>12, <2>13, <2>14
    DEF Next, Driver, Host
<1>3. QED
  BY <1>1, <1>2, TxInvariant, PTL DEF Spec, TxImplementsWindow, Abstract!Spec
=============================================================================

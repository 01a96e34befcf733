---------------------------- MODULE RxPathProofs ----------------------------
(***************************************************************************)
(* Proofs about RxPath, for any set of processors, any window size, any    *)
(* number and lengths of packets, and any writes to NetworkEnable.         *)
(***************************************************************************)
EXTENDS RxPath, TLAPS

(* Building blocks of the typing of the receive log.                       *)
LEMMA FrameType ==
  ASSUME NEW n \in Nat, NEW m \in Nat, NEW S, n <= m,
         NEW f \in [1 .. m -> S]
  PROVE  [j \in 1 .. n |-> f[j]] \in Seq(S)
<1>1. [j \in 1 .. n |-> f[j]] \in [1 .. n -> S]
  OBVIOUS
<1>2. QED
  BY <1>1

(* Counting a packet keeps the type of the interface statistics.           *)
LEMMA StatsType ==
  ASSUME NEW st \in [rx_packets : Nat, rx_dropped : Nat]
  PROVE  /\ [st EXCEPT !.rx_packets = @ + 1]
              \in [rx_packets : Nat, rx_dropped : Nat]
         /\ [st EXCEPT !.rx_dropped = @ + 1]
              \in [rx_packets : Nat, rx_dropped : Nat]
OBVIOUS

(* The length of every packet that can be sent fits the window.            *)
LEMMA PacketLenType ==
  ASSUME NEW n \in 1 .. MaxPackets
  PROVE  PacketLen[n] \in 1 .. BufferBytes
BY RxAssumption

-----------------------------------------------------------------------------
(* The state the driver's initialisation leaves satisfies the invariant.   *)
LEMMA RxInit == Init => RxInv
<1> SUFFICES ASSUME Init PROVE RxInv
  OBVIOUS
<1> USE RxAssumption DEF Init
<1>1. TypeOK
  BY DEF TypeOK, IRQ_GENERATOR_MASK
<1>2. IsrInv /\ HostInv /\ BellInv /\ CopyInv
  BY DEF IsrInv, HostInv, BellInv, CopyInv, Quiet, Published
<1>3. RxExactlyOnce
  BY DEF RxExactlyOnce, InFlight
<1>4. QED
  BY <1>1, <1>2, <1>3 DEF RxInv

(* Types are preserved by every step.                                      *)
LEMMA RxTypeStep == RxInv /\ [Next]_vars => TypeOK'
<1> SUFFICES ASSUME RxInv, [Next]_vars PROVE TypeOK'
  OBVIOUS
<1> USE RxAssumption DEF RxInv, TypeOK, windowVars, hostVars, isrVars,
        taskletVars
<1>1. CASE HostBegin
  BY <1>1 DEF HostBegin
<1>2. CASE HostCopyByte
  <2>1. /\ sent \in 1 .. MaxPackets /\ PacketLen[sent] \in 1 .. BufferBytes
        /\ hostIndex <= PacketLen[sent]
    BY <1>2, PacketLenType DEF HostCopyByte, HostInv
  <2>2. fromPcHostData' \in [1 .. BufferBytes -> 0 .. MaxPackets]
    BY <1>2, <2>1 DEF HostCopyByte
  <2>3. hostIndex' \in 1 .. BufferBytes
    BY <1>2, <2>1 DEF HostCopyByte
  <2>4. QED
    BY <1>2, <2>2, <2>3 DEF HostCopyByte
<1>3. CASE HostPublish
  <2>1. PacketLen[sent] \in 1 .. BufferBytes
    BY <1>3, PacketLenType DEF HostPublish, HostInv
  <2>2. fromPcHostLength' \in 0 .. BufferBytes
    BY <1>3, <2>1 DEF HostPublish
  <2>3. QED
    BY <1>3, <2>2 DEF HostPublish
<1>4. CASE HostRing
  BY <1>4 DEF HostRing, IRQ_GENERATOR_MASK
<1>5. ASSUME NEW bit \in {PROCESSED_BUFFER, RING_BUFFER}, HostRingOther(bit)
      PROVE  TypeOK'
  BY <1>5 DEF HostRingOther, IRQ_GENERATOR_MASK
<1>6. ASSUME NEW cpu \in CPUs, IsrReadReason(cpu)
      PROVE  TypeOK'
  BY <1>6 DEF IsrReadReason
<1>7. CASE IsrSchedule
  BY <1>7 DEF IsrSchedule
<1>8. CASE IsrAck
  BY <1>8 DEF IsrAck
<1>9. CASE TaskletStart
  BY <1>9 DEF TaskletStart
<1>10. CASE TaskletReadLength
  BY <1>10 DEF TaskletReadLength
<1>11. CASE TaskletCopyByte
  <2>1. index <= bytesReceived
    BY <1>11 DEF TaskletCopyByte, CopyInv
  <2>2. ingressPacketBuffer' \in [1 .. BufferBytes -> 0 .. MaxPackets]
    BY <1>11 DEF TaskletCopyByte
  <2>3. index' \in 1 .. BufferBytes
    BY <1>11, <2>1 DEF TaskletCopyByte
  <2>4. QED
    BY <1>11, <2>2, <2>3 DEF TaskletCopyByte
<1>12. ASSUME NEW fate \in {"taken", "lost"}, TaskletPacketRx(fate)
       PROVE  TypeOK'
  <2>1. [j \in 1 .. bytesReceived |-> ingressPacketBuffer[j]]
          \in Seq(0 .. MaxPackets)
    <3>1. /\ bytesReceived \in Nat /\ BufferBytes \in Nat
          /\ bytesReceived <= BufferBytes
      OBVIOUS
    <3>2. ingressPacketBuffer \in [1 .. BufferBytes -> 0 .. MaxPackets]
      OBVIOUS
    <3>3. QED
      BY ONLY <3>1, <3>2, FrameType
  <2>2. rxLog' \in Seq([frame : Seq(0 .. MaxPackets), fate : {"taken", "lost"}])
    BY <1>12, <2>1 DEF TaskletPacketRx
  <2>3. stats' \in [rx_packets : Nat, rx_dropped : Nat]
    BY <1>12, StatsType DEF TaskletPacketRx
  <2>4. QED
    BY <1>12, <2>2, <2>3 DEF TaskletPacketRx
<1>13. CASE TaskletResetLength
  BY <1>13 DEF TaskletResetLength
<1>14. ASSUME NEW value \in EnableValues, SetNetworkEnable(value)
       PROVE  TypeOK'
  BY <1>14 DEF SetNetworkEnable
<1>15. CASE UNCHANGED vars
  BY <1>15 DEF vars
<1>16. QED
  BY <1>1, <1>2, <1>3, <1>4, <1>5, <1>6, <1>7, <1>8, <1>9, <1>10, <1>11,
     <1>12, <1>13, <1>14, <1>15
  DEF Next, Host, Isr, Tasklet

(* The handler's part of the invariant.                                    *)
LEMMA RxIsrStep == RxInv /\ [Next]_vars => IsrInv'
<1> SUFFICES ASSUME RxInv, [Next]_vars PROVE IsrInv'
  OBVIOUS
<1> USE DEF RxInv, TypeOK, IsrInv, windowVars, hostVars, isrVars,
        taskletVars
<1>1. CASE HostBegin
  BY <1>1 DEF HostBegin
<1>2. CASE HostCopyByte
  BY <1>2 DEF HostCopyByte
<1>3. CASE HostPublish
  BY <1>3 DEF HostPublish
<1>4. CASE HostRing
  BY <1>4 DEF HostRing
<1>5. ASSUME NEW bit \in {PROCESSED_BUFFER, RING_BUFFER}, HostRingOther(bit)
      PROVE  IsrInv'
  BY <1>5 DEF HostRingOther
<1>6. ASSUME NEW cpu \in CPUs, IsrReadReason(cpu)
      PROVE  IsrInv'
  BY <1>6 DEF IsrReadReason
<1>7. CASE IsrSchedule
  BY <1>7 DEF IsrSchedule
<1>8. CASE IsrAck
  BY <1>8 DEF IsrAck
<1>9. CASE TaskletStart
  BY <1>9 DEF TaskletStart
<1>10. CASE TaskletReadLength
  BY <1>10 DEF TaskletReadLength
<1>11. CASE TaskletCopyByte
  BY <1>11 DEF TaskletCopyByte
<1>12. ASSUME NEW fate \in {"taken", "lost"}, TaskletPacketRx(fate)
      PROVE  IsrInv'
  BY <1>12 DEF TaskletPacketRx
<1>13. CASE TaskletResetLength
  BY <1>13 DEF TaskletResetLength
<1>14. ASSUME NEW value \in EnableValues, SetNetworkEnable(value)
      PROVE  IsrInv'
  BY <1>14 DEF SetNetworkEnable
<1>15. CASE UNCHANGED vars
  BY <1>15 DEF vars
<1>16. QED
  BY <1>1, <1>2, <1>3, <1>4, <1>5, <1>6, <1>7, <1>8, <1>9, <1>10, <1>11, <1>12, <1>13, <1>14, <1>15
  DEF Next, Host, Isr, Tasklet

(* The host's part.                                                        *)
LEMMA RxHostStep == RxInv /\ [Next]_vars => HostInv'
<1> SUFFICES ASSUME RxInv, [Next]_vars PROVE HostInv'
  OBVIOUS
<1> USE DEF RxInv, TypeOK, HostInv, BellInv, Quiet, Published, windowVars,
        hostVars, isrVars, taskletVars
<1>1. CASE HostBegin
  <2>1. tasklet = "idle" /\ scheduledOn = NoCPU /\ SENT_BUFFER \notin reason
    BY <1>1 DEF HostBegin
  <2>2. sent' \in 1 .. MaxPackets /\ 1 <= PacketLen[sent']
    BY <1>1, RxAssumption, PacketLenType DEF HostBegin
  <2>3. QED
    BY <1>1, <2>1, <2>2 DEF HostBegin
<1>2. CASE HostCopyByte
  <2>1. sent \in 1 .. MaxPackets /\ PacketLen[sent] \in 1 .. BufferBytes
    BY <1>2, RxAssumption, PacketLenType DEF HostCopyByte
  <2>2. \A j \in 1 .. hostIndex : fromPcHostData'[j] = sent
    BY <1>2, <2>1 DEF HostCopyByte
  <2>3. CASE hostIndex = PacketLen[sent]
    BY <1>2, <2>1, <2>2, <2>3 DEF HostCopyByte
  <2>4. CASE hostIndex # PacketLen[sent]
    BY <1>2, <2>1, <2>2, <2>4 DEF HostCopyByte
  <2>5. QED
    BY <2>3, <2>4
<1>3. CASE HostPublish
  <2>1. sent \in 1 .. MaxPackets /\ PacketLen[sent] \in 1 .. BufferBytes
    BY <1>3, RxAssumption, PacketLenType DEF HostPublish
  <2>2. QED
    BY <1>3, <2>1 DEF HostPublish
<1>4. CASE HostRing
  BY <1>4 DEF HostRing
<1>5. ASSUME NEW bit \in {PROCESSED_BUFFER, RING_BUFFER}, HostRingOther(bit)
      PROVE  HostInv'
  BY <1>5 DEF HostRingOther, SENT_BUFFER,
     PROCESSED_BUFFER, RING_BUFFER
<1>6. ASSUME NEW cpu \in CPUs, IsrReadReason(cpu)
      PROVE  HostInv'
  BY <1>6 DEF IsrReadReason
<1>7. CASE IsrSchedule
  BY <1>7 DEF IsrSchedule, IsrInv
<1>8. CASE IsrAck
  BY <1>8 DEF IsrAck
<1>9. CASE TaskletStart
  BY <1>9 DEF TaskletStart
<1>10. CASE TaskletReadLength
  BY <1>10 DEF TaskletReadLength
<1>11. CASE TaskletCopyByte
  BY <1>11 DEF TaskletCopyByte
<1>12. ASSUME NEW fate \in {"taken", "lost"}, TaskletPacketRx(fate)
      PROVE  HostInv'
  BY <1>12 DEF TaskletPacketRx
<1>13. CASE TaskletResetLength
  BY <1>13 DEF TaskletResetLength
<1>14. ASSUME NEW value \in EnableValues, SetNetworkEnable(value)
      PROVE  HostInv'
  BY <1>14 DEF SetNetworkEnable
<1>15. CASE UNCHANGED vars
  BY <1>15 DEF vars
<1>16. QED
  BY <1>1, <1>2, <1>3, <1>4, <1>5, <1>6, <1>7, <1>8, <1>9, <1>10, <1>11, <1>12, <1>13, <1>14, <1>15
  DEF Next, Host, Isr, Tasklet

(* The doorbell's part.                                                    *)
LEMMA RxBellStep == RxInv /\ [Next]_vars => BellInv'
<1> SUFFICES ASSUME RxInv, [Next]_vars PROVE BellInv'
  OBVIOUS
<1> USE DEF RxInv, TypeOK, IsrInv, HostInv, BellInv, Quiet, Published,
        Uninterrupted, windowVars, hostVars, isrVars, taskletVars
<1>1. CASE HostBegin
  BY <1>1 DEF HostBegin
<1>2. CASE HostCopyByte
  BY <1>2 DEF HostCopyByte
<1>3. CASE HostPublish
  BY <1>3 DEF HostPublish
<1>4. CASE HostRing
  BY <1>4 DEF HostRing
<1>5. ASSUME NEW bit \in {PROCESSED_BUFFER, RING_BUFFER}, HostRingOther(bit)
      PROVE  BellInv'
  BY <1>5 DEF HostRingOther, SENT_BUFFER,
     PROCESSED_BUFFER, RING_BUFFER
<1>6. ASSUME NEW cpu \in CPUs, IsrReadReason(cpu)
      PROVE  BellInv'
  BY <1>6 DEF IsrReadReason
<1>7. CASE IsrSchedule
  BY <1>7 DEF IsrSchedule
<1>8. CASE IsrAck
  BY <1>8 DEF IsrAck
<1>9. CASE TaskletStart
  BY <1>9 DEF TaskletStart
<1>10. CASE TaskletReadLength
  BY <1>10 DEF TaskletReadLength
<1>11. CASE TaskletCopyByte
  BY <1>11 DEF TaskletCopyByte
<1>12. ASSUME NEW fate \in {"taken", "lost"}, TaskletPacketRx(fate)
      PROVE  BellInv'
  BY <1>12 DEF TaskletPacketRx
<1>13. CASE TaskletResetLength
  BY <1>13 DEF TaskletResetLength
<1>14. ASSUME NEW value \in EnableValues, SetNetworkEnable(value)
      PROVE  BellInv'
  BY <1>14 DEF SetNetworkEnable
<1>15. CASE UNCHANGED vars
  BY <1>15 DEF vars
<1>16. QED
  BY <1>1, <1>2, <1>3, <1>4, <1>5, <1>6, <1>7, <1>8, <1>9, <1>10, <1>11, <1>12, <1>13, <1>14, <1>15
  DEF Next, Host, Isr, Tasklet

(* The tasklet's part.                                                     *)
LEMMA RxCopyStep == RxInv /\ [Next]_vars => CopyInv'
<1> SUFFICES ASSUME RxInv, [Next]_vars PROVE CopyInv'
  OBVIOUS
<1> USE DEF RxInv, TypeOK, HostInv, BellInv, CopyInv, Quiet, Published,
        windowVars, hostVars, isrVars, taskletVars
<1>1. CASE HostBegin
  BY <1>1 DEF HostBegin
<1>2. CASE HostCopyByte
  BY <1>2 DEF HostCopyByte
<1>3. CASE HostPublish
  BY <1>3 DEF HostPublish
<1>4. CASE HostRing
  BY <1>4 DEF HostRing
<1>5. ASSUME NEW bit \in {PROCESSED_BUFFER, RING_BUFFER}, HostRingOther(bit)
      PROVE  CopyInv'
  BY <1>5 DEF HostRingOther
<1>6. ASSUME NEW cpu \in CPUs, IsrReadReason(cpu)
      PROVE  CopyInv'
  BY <1>6 DEF IsrReadReason
<1>7. CASE IsrSchedule
  BY <1>7 DEF IsrSchedule
<1>8. CASE IsrAck
  BY <1>8 DEF IsrAck
<1>9. CASE TaskletStart
  BY <1>9 DEF TaskletStart
<1>10. CASE TaskletReadLength
  BY <1>10 DEF TaskletReadLength
<1>11. CASE TaskletCopyByte
  BY <1>11 DEF TaskletCopyByte
<1>12. ASSUME NEW fate \in {"taken", "lost"}, TaskletPacketRx(fate)
      PROVE  CopyInv'
  BY <1>12 DEF TaskletPacketRx
<1>13. CASE TaskletResetLength
  BY <1>13 DEF TaskletResetLength
<1>14. ASSUME NEW value \in EnableValues, SetNetworkEnable(value)
      PROVE  CopyInv'
  BY <1>14 DEF SetNetworkEnable
<1>15. CASE UNCHANGED vars
  BY <1>15 DEF vars
<1>16. QED
  BY <1>1, <1>2, <1>3, <1>4, <1>5, <1>6, <1>7, <1>8, <1>9, <1>10, <1>11, <1>12, <1>13, <1>14, <1>15
  DEF Next, Host, Isr, Tasklet

(* The receive log's part.                                                 *)
LEMMA RxLogStep == RxInv /\ [Next]_vars => RxExactlyOnce'
<1> SUFFICES ASSUME RxInv, [Next]_vars PROVE RxExactlyOnce'
  OBVIOUS
<1> USE DEF RxInv, TypeOK, HostInv, BellInv, CopyInv, Quiet, Published,
        RxExactlyOnce, InFlight, windowVars, hostVars, isrVars, taskletVars
<1>1. CASE HostBegin
  BY <1>1 DEF HostBegin
<1>2. CASE HostCopyByte
  BY <1>2 DEF HostCopyByte
<1>3. CASE HostPublish
  <2>1. PacketLen[sent] # 0
    BY <1>3, RxAssumption, PacketLenType DEF HostPublish
  <2>2. QED
    BY <1>3, <2>1 DEF HostPublish
<1>4. CASE HostRing
  BY <1>4 DEF HostRing
<1>5. ASSUME NEW bit \in {PROCESSED_BUFFER, RING_BUFFER}, HostRingOther(bit)
      PROVE  RxExactlyOnce'
  BY <1>5 DEF HostRingOther
<1>6. ASSUME NEW cpu \in CPUs, IsrReadReason(cpu)
      PROVE  RxExactlyOnce'
  BY <1>6 DEF IsrReadReason
<1>7. CASE IsrSchedule
  BY <1>7 DEF IsrSchedule
<1>8. CASE IsrAck
  BY <1>8 DEF IsrAck
<1>9. CASE TaskletStart
  BY <1>9 DEF TaskletStart
<1>10. CASE TaskletReadLength
  BY <1>10 DEF TaskletReadLength
<1>11. CASE TaskletCopyByte
  BY <1>11 DEF TaskletCopyByte
<1>12. ASSUME NEW fate \in {"taken", "lost"}, TaskletPacketRx(fate)
      PROVE  RxExactlyOnce'
  <2> DEFINE frame == [j \in 1 .. bytesReceived |-> ingressPacketBuffer[j]]
  <2>1. /\ sent = Len(rxLog) + 1 /\ sent >= 1
        /\ bytesReceived = PacketLen[sent]
        /\ \A j \in 1 .. bytesReceived : ingressPacketBuffer[j] = sent
    BY <1>12 DEF TaskletPacketRx
  <2>2. frame = Frame(sent)
    BY <2>1 DEF Frame
  <2>3. rxLog' = Append(rxLog, [frame |-> frame, fate |-> fate])
    BY <1>12 DEF TaskletPacketRx
  <2>4. /\ Len(rxLog') = Len(rxLog) + 1
        /\ \A n \in 1 .. Len(rxLog) : rxLog'[n] = rxLog[n]
        /\ rxLog'[Len(rxLog) + 1].frame = frame
    <3> HIDE DEF frame
    <3>1. rxLog \in Seq([frame : Seq(0 .. MaxPackets),
                         fate : {"taken", "lost"}])
      OBVIOUS
    <3>2. QED
      BY ONLY <2>3, <3>1
  <2>5. \A n \in 1 .. Len(rxLog') : rxLog'[n].frame = Frame(n)'
    <3> HIDE DEF frame
    <3>1. \A n \in Nat : Frame(n)' = Frame(n)
      BY DEF Frame
    <3>2. /\ Len(rxLog) \in Nat
          /\ \A n \in 1 .. Len(rxLog) : rxLog[n].frame = Frame(n)
      OBVIOUS
    <3>3. rxLog'[Len(rxLog) + 1].frame = Frame(Len(rxLog) + 1)
      BY <2>1, <2>2, <2>4
    <3>4. \A n \in 1 .. Len(rxLog') : rxLog'[n].frame = Frame(n)
      BY ONLY <2>4, <3>2, <3>3
    <3>5. QED
      BY <2>4, <3>1, <3>2, <3>4
  <2>6. sent' = Len(rxLog') + (IF InFlight' THEN 1 ELSE 0)
    BY <1>12, <2>1, <2>4 DEF TaskletPacketRx
  <2>7. QED
    BY <2>5, <2>6
<1>13. CASE TaskletResetLength
  BY <1>13 DEF TaskletResetLength
<1>14. ASSUME NEW value \in EnableValues, SetNetworkEnable(value)
      PROVE  RxExactlyOnce'
  BY <1>14 DEF SetNetworkEnable
<1>15. CASE UNCHANGED vars
  BY <1>15 DEF vars
<1>16. QED
  BY <1>1, <1>2, <1>3, <1>4, <1>5, <1>6, <1>7, <1>8, <1>9, <1>10, <1>11, <1>12, <1>13, <1>14, <1>15
  DEF Next, Host, Isr, Tasklet

-----------------------------------------------------------------------------
(* Whatever host, interrupts, tasklet and root do, the receive path stays  *)
(* in a state of its inductive invariant.                                  *)
THEOREM RxInvariant == Spec => []RxInv
<1>1. RxInv /\ [Next]_vars => RxInv'
  BY RxTypeStep, RxIsrStep, RxHostStep, RxBellStep, RxCopyStep, RxLogStep
  DEF RxInv
<1>2. QED
  BY <1>1, RxInit, PTL DEF Spec

(* Every variable of the receive path keeps its type.                      *)
THEOREM RxTypeCorrect == Spec => []TypeOK
<1>1. RxInv => TypeOK
  BY DEF RxInv
<1>2. QED
  BY <1>1, RxInvariant, PTL

(* The driver consumes the host's packets whole, in order and once each,   *)
(* and loses none: the end-to-end promise of ISR, tasklet and length word. *)
THEOREM RxDelivers == Spec => []RxExactlyOnce
<1>1. RxInv => RxExactlyOnce
  BY DEF RxInv
<1>2. QED
  BY <1>1, RxInvariant, PTL

(* No tasklet runs or is queued while the host writes the window.          *)
THEOREM RxExclusion == Spec => []WindowHandover
<1>1. RxInv => WindowHandover
  BY DEF RxInv, HostInv, Quiet, WindowHandover
<1>2. QED
  BY <1>1, RxInvariant, PTL

(* With NetworkEnable left alone, the doorbell of a waiting packet is      *)
(* never swallowed by the handler's write to the reason register.          *)
THEOREM RxKeepsDoorbell ==
  ASSUME EnableValues \subseteq {TRUE}
  PROVE  Spec => []NoLostDoorbell
<1> DEFINE Inv == NetworkEnable = TRUE /\ NoLostDoorbell
<1>1. Init => Inv
  BY DEF Init, NoLostDoorbell, Published
<1>2. RxInv /\ Inv /\ [Next]_vars => Inv'
  <2> SUFFICES ASSUME RxInv, Inv, [Next]_vars PROVE Inv'
    OBVIOUS
  <2> USE RxAssumption
      DEF RxInv, IsrInv, HostInv, BellInv, NoLostDoorbell, Published, Attended,
          Quiet, windowVars, hostVars, isrVars, taskletVars
  <2>1. CASE HostBegin
    BY <2>1 DEF HostBegin
  <2>2. CASE HostCopyByte
    BY <2>2 DEF HostCopyByte
  <2>3. CASE HostPublish
    BY <2>3 DEF HostPublish
  <2>4. CASE HostRing
    BY <2>4 DEF HostRing
  <2>5. ASSUME NEW bit \in {PROCESSED_BUFFER, RING_BUFFER}, HostRingOther(bit)
        PROVE  Inv'
    BY <2>5 DEF HostRingOther
  <2>6. ASSUME NEW cpu \in CPUs, IsrReadReason(cpu)
        PROVE  Inv'
    BY <2>6 DEF IsrReadReason
  <2>7. CASE IsrSchedule
    BY <2>7 DEF IsrSchedule
  <2>8. CASE IsrAck
    BY <2>8 DEF IsrAck
  <2>9. CASE TaskletStart
    BY <2>9 DEF TaskletStart
  <2>10. CASE TaskletReadLength
    BY <2>10 DEF TaskletReadLength
  <2>11. CASE TaskletCopyByte
    BY <2>11 DEF TaskletCopyByte
  <2>12. ASSUME NEW fate \in {"taken", "lost"}, TaskletPacketRx(fate)
         PROVE  Inv'
    BY <2>12 DEF TaskletPacketRx
  <2>13. CASE TaskletResetLength
    BY <2>13 DEF TaskletResetLength
  <2>14. ASSUME NEW value \in EnableValues, SetNetworkEnable(value)
         PROVE  Inv'
    BY <2>14 DEF SetNetworkEnable
  <2>15. CASE UNCHANGED vars
    BY <2>15 DEF vars
  <2>16. QED
    BY <2>1, <2>2, <2>3, <2>4, <2>5, <2>6, <2>7, <2>8, <2>9, <2>10, <2>11,
       <2>12, <2>13, <2>14, <2>15
    DEF Next, Host, Isr, Tasklet
<1>3. Inv => NoLostDoorbell
  OBVIOUS
<1>4. QED
  BY <1>1, <1>2, <1>3, RxInvariant, PTL DEF Spec

(* A waiting packet's doorbell is lost only when the handler runs while    *)
(* root has switched NetworkEnable off.                                    *)
THEOREM RxDoorbellOnlyDisabled == Spec => DoorbellLostOnlyWhenDisabled
<1> DEFINE Step == Published /\ Attended /\ Published' /\ ~Attended'
                     => ~NetworkEnable
<1>1. RxInv /\ [Next]_vars => Step
  <2> SUFFICES ASSUME RxInv, [Next]_vars PROVE Step
    OBVIOUS
  <2> USE RxAssumption
      DEF RxInv, TypeOK, IsrInv, HostInv, BellInv, Published, Attended, Quiet,
          windowVars, hostVars, isrVars, taskletVars
  <2>1. CASE HostBegin
    BY <2>1 DEF HostBegin
  <2>2. CASE HostCopyByte
    BY <2>2 DEF HostCopyByte
  <2>3. CASE HostPublish
    BY <2>3 DEF HostPublish
  <2>4. CASE HostRing
    BY <2>4 DEF HostRing
  <2>5. ASSUME NEW bit \in {PROCESSED_BUFFER, RING_BUFFER}, HostRingOther(bit)
        PROVE  Step
    BY <2>5 DEF HostRingOther
  <2>6. ASSUME NEW cpu \in CPUs, IsrReadReason(cpu)
        PROVE  Step
    BY <2>6 DEF IsrReadReason
  <2>7. CASE IsrSchedule
    BY <2>7 DEF IsrSchedule
  <2>8. CASE IsrAck
    BY <2>8 DEF IsrAck
  <2>9. CASE TaskletStart
    BY <2>9 DEF TaskletStart
  <2>10. CASE TaskletReadLength
    BY <2>10 DEF TaskletReadLength
  <2>11. CASE TaskletCopyByte
    BY <2>11 DEF TaskletCopyByte
  <2>12. ASSUME NEW fate \in {"taken", "lost"}, TaskletPacketRx(fate)
        PROVE  Step
    BY <2>12 DEF TaskletPacketRx
  <2>13. CASE TaskletResetLength
    BY <2>13 DEF TaskletResetLength
  <2>14. ASSUME NEW value \in EnableValues, SetNetworkEnable(value)
        PROVE  Step
    BY <2>14 DEF SetNetworkEnable
  <2>15. CASE UNCHANGED vars
    BY <2>15 DEF vars
  <2>16. QED
    BY <2>1, <2>2, <2>3, <2>4, <2>5, <2>6, <2>7, <2>8, <2>9, <2>10, <2>11,
       <2>12, <2>13, <2>14, <2>15
    DEF Next, Host, Isr, Tasklet
<1>2. QED
  BY <1>1, RxInvariant, PTL DEF Spec, DoorbellLostOnlyWhenDisabled

-----------------------------------------------------------------------------
(* Refinement.  Only three steps are visible at the window: the host's     *)
(* write of the length puts a packet into it, and packet_rx takes it out   *)
(* or loses it.                                                            *)

(* A frame of at least one byte is not the empty frame.                    *)
LEMMA FrameNotEmpty ==
  ASSUME NEW n \in Nat \ {0}, NEW f
  PROVE  [j \in 1 .. n |-> f[j]] # << >>
<1>1. Len([j \in 1 .. n |-> f[j]]) = n
  OBVIOUS
<1>2. QED
  BY <1>1

LEMMA RxWindowPut ==
  ASSUME RxInv, HostPublish
  PROVE  Window!Put(sent)
<1> USE DEF RxInv, TypeOK, HostInv, Quiet
<1>1. /\ sent \in 1 .. MaxPackets /\ PacketLen[sent] \in 1 .. BufferBytes
      /\ fromPcHostLength = 0 /\ tasklet = "idle"
      /\ \A j \in 1 .. PacketLen[sent] : fromPcHostData[j] = sent
  BY RxAssumption, PacketLenType DEF HostPublish
<1>2. /\ fromPcHostLength' = PacketLen[sent] /\ fromPcHostData' = fromPcHostData
      /\ host = "length" /\ host' = "ring" /\ sent' = sent
      /\ tasklet' = tasklet /\ rxLog' = rxLog
  BY DEF HostPublish, taskletVars
<1>3. [j \in 1 .. PacketLen[sent] |-> fromPcHostData[j]] = Window!Frame(sent)
  BY <1>1 DEF Window!Frame
<1>4. QED
  BY <1>1, <1>2, <1>3 DEF Window!Put, Window!Empty

LEMMA RxWindowLeave ==
  ASSUME NEW fate \in {"taken", "lost"}, RxInv, TaskletPacketRx(fate)
  PROVE  Window!Leave(fate)
<1> USE DEF RxInv, TypeOK, HostInv, BellInv, CopyInv, Published
<1>1. /\ tasklet = "rx" /\ host = "idle" /\ fromPcHostLength # 0
      /\ sent \in 1 .. MaxPackets /\ bytesReceived = fromPcHostLength
      /\ bytesReceived \in Nat \ {0}
      /\ \A j \in 1 .. bytesReceived : fromPcHostData[j] = sent
      /\ \A j \in 1 .. bytesReceived : ingressPacketBuffer[j] = sent
  BY RxAssumption DEF TaskletPacketRx
<1>2. /\ tasklet' = "reset" /\ host' = host /\ sent' = sent
      /\ fromPcHostLength' = fromPcHostLength
      /\ rxLog' = Append(rxLog,
           [frame |-> [j \in 1 .. bytesReceived |-> ingressPacketBuffer[j]],
            fate  |-> fate])
  BY DEF TaskletPacketRx, windowVars, hostVars
<1>3. [j \in 1 .. fromPcHostLength |-> fromPcHostData[j]]
        = [j \in 1 .. bytesReceived |-> ingressPacketBuffer[j]]
  BY <1>1
<1>4. [j \in 1 .. fromPcHostLength |-> fromPcHostData[j]] # << >>
  BY <1>1, FrameNotEmpty
<1>5. QED
  BY <1>1, <1>2, <1>3, <1>4 DEF Window!Leave, Window!Empty

(* The receive path implements the packet window's safety part.            *)
THEOREM RxRefinesWindow == Spec => Window!Spec
<1>1. Init => Window!Init
  BY DEF Init, Window!Init, Window!Empty
<1>2. RxInv /\ RxInv' /\ [Next]_vars => [Window!Next]_(Window!vars)
  <2> SUFFICES ASSUME RxInv, [Next]_vars
               PROVE  [Window!Next]_(Window!vars)
    OBVIOUS
  <2> USE DEF Window!vars, windowVars, hostVars, isrVars, taskletVars
  <2>1. CASE HostBegin
    BY <2>1 DEF HostBegin, RxInv, TypeOK
  <2>2. CASE HostCopyByte
    BY <2>2 DEF HostCopyByte, RxInv, TypeOK, HostInv
  <2>3. CASE HostPublish
    <3>1. sent \in Window!Packets
      BY <2>3, RxAssumption
      DEF HostPublish, RxInv, TypeOK, HostInv, Window!Packets
    <3>2. Window!Put(sent)
      BY <2>3, RxWindowPut
    <3>3. Window!Next
      BY <3>1, <3>2 DEF Window!Next, Window!Put
    <3>4. QED
      BY <3>3
  <2>4. CASE HostRing
    BY <2>4 DEF HostRing
  <2>5. ASSUME NEW bit \in {PROCESSED_BUFFER, RING_BUFFER}, HostRingOther(bit)
        PROVE  [Window!Next]_(Window!vars)
    BY <2>5 DEF HostRingOther
  <2>6. ASSUME NEW cpu \in CPUs, IsrReadReason(cpu)
        PROVE  [Window!Next]_(Window!vars)
    BY <2>6 DEF IsrReadReason
  <2>7. CASE IsrSchedule
    BY <2>7 DEF IsrSchedule
  <2>8. CASE IsrAck
    BY <2>8 DEF IsrAck
  <2>9. CASE TaskletStart
    BY <2>9 DEF TaskletStart
  <2>10. CASE TaskletReadLength
    BY <2>10 DEF TaskletReadLength
  <2>11. CASE TaskletCopyByte
    BY <2>11 DEF TaskletCopyByte
  <2>12. ASSUME NEW fate \in {"taken", "lost"}, TaskletPacketRx(fate)
         PROVE  [Window!Next]_(Window!vars)
    BY <2>12, RxWindowLeave DEF Window!Next, Window!Take, Window!Lose
  <2>13. CASE TaskletResetLength
    BY <2>13 DEF TaskletResetLength
  <2>14. ASSUME NEW value \in EnableValues, SetNetworkEnable(value)
         PROVE  [Window!Next]_(Window!vars)
    BY <2>14 DEF SetNetworkEnable
  <2>15. CASE UNCHANGED vars
    BY <2>15 DEF vars
  <2>16. QED
    BY <2>1, <2>2, <2>3, <2>4, <2>5, <2>6, <2>7, <2>8, <2>9, <2>10, <2>11,
       <2>12, <2>13, <2>14, <2>15
    DEF Next, Host, Isr, Tasklet
<1>3. QED
  BY <1>1, <1>2, RxInvariant, PTL DEF Spec, Window!Spec

=============================================================================

------------------------------- MODULE RxPath -------------------------------
(***************************************************************************)
(* Packets from the PC host to the SoC                                     *)
(* (nalla_250_soc_end_point.c, nalla_250_soc_ep_network.c).                *)
(*                                                                         *)
(* The host copies a packet into the window it shares with the SoC, writes *)
(* its length and rings a doorbell: a bit of the interrupt generator's     *)
(* reason register.  The interrupt (level triggered) runs                  *)
(* nalla_250_soc_ep_isr, which reads the register, schedules the tasklet   *)
(* and writes the bits it read back to clear them.  The tasklet copies the *)
(* packet into ingressPacketBuffer, hands it to the kernel and writes zero *)
(* to the length, which returns the window to the host.                    *)
(*                                                                         *)
(* Host, interrupt handler and tasklet interleave at each access to shared *)
(* memory.  A tasklet runs on the processor that scheduled it, never while *)
(* that processor is inside the interrupt handler, and never on two        *)
(* processors at once; the interrupt may be taken by any processor.        *)
(***************************************************************************)
EXTENDS Naturals, Sequences

CONSTANTS
  CPUs,          \* the processors that may take the interrupt
  NoCPU,         \* "on no processor"
  BufferBytes,   \* payload bytes the window holds behind the length word
  MaxPackets,    \* bound: packets the host sends
  PacketLen,     \* how many bytes the host sends as its n-th packet
  EnableValues   \* the values root writes to the module parameter NetworkEnable

ASSUME RxAssumption ==
  /\ NoCPU \notin CPUs
  /\ MaxPackets \in Nat
  /\ BufferBytes \in Nat \ {0}
  /\ PacketLen \in [1 .. MaxPackets -> 1 .. BufferBytes]
  /\ EnableValues \subseteq BOOLEAN

(* The bits of the reason register that IRQ_GENERATOR_MASK lets through.   *)
SENT_BUFFER      == "IRQ_PC_HOST_SENT_BUFFER_TO_SOC"
PROCESSED_BUFFER == "IRQ_PC_HOST_PROCESSED_BUFFER_FROM_SOC"
RING_BUFFER      == "IRQ_PC_HOST_RING_BUFFER_INTERRUPT"
IRQ_GENERATOR_MASK == {SENT_BUFFER, PROCESSED_BUFFER, RING_BUFFER}

VARIABLES
  \* shared with the PC host
  fromPcHostLength,     \* first word of dataFromPcHostBuffer
  fromPcHostData,       \* its bytes; 0 is "never written"
  reason,               \* the interrupt generator's reason register
  \* the PC host
  host,                 \* what the host's driver does next
  hostIndex,            \* the byte of the packet it copies next
  sent,                 \* packets it has begun to send
  \* the interrupt handler
  isr,                  \* what the handler does next
  isrCPU,               \* the processor it runs on
  isrReason,            \* its local variable reason
  \* the tasklet
  NetworkEnable,        \* module parameter, writable through sysfs
  scheduledOn,          \* processor the tasklet is queued on
  tasklet,              \* what the running tasklet does next
  runningOn,            \* processor it runs on
  bytesReceived, index, \* its local variables bytesReceived and i
  ingressPacketBuffer,  \* its bytes; 0 is "never written"
  stats,                \* net_device_stats of the interface
  rxLog                 \* history: each frame the driver consumed, its fate

hostVars    == << host, hostIndex, sent >>
isrVars     == << isr, isrCPU, isrReason >>
windowVars  == << fromPcHostLength, fromPcHostData >>
taskletVars == << tasklet, runningOn, bytesReceived, index,
                  ingressPacketBuffer, stats, rxLog >>
vars == << windowVars, reason, hostVars, isrVars, NetworkEnable,
           scheduledOn, taskletVars >>

(* The n-th packet: each of its bytes carries the number n.                *)
Frame(n) == [j \in 1 .. PacketLen[n] |-> n]

(* The state nalla_250_soc_ep_init leaves: reason register cleared, length *)
(* zeroed, ingress buffer allocated, interrupt requested, and the network   *)
(* interface registered because the module was loaded with NetworkEnable=1.*)
Init ==
  /\ fromPcHostLength = 0
  /\ fromPcHostData = [j \in 1 .. BufferBytes |-> 0]
  /\ reason = {}
  /\ host = "idle" /\ hostIndex = 1 /\ sent = 0
  /\ isr = "idle" /\ isrCPU = NoCPU /\ isrReason = {}
  /\ NetworkEnable = TRUE
  /\ scheduledOn = NoCPU
  /\ tasklet = "idle" /\ runningOn = NoCPU
  /\ bytesReceived = 0 /\ index = 1
  /\ ingressPacketBuffer = [j \in 1 .. BufferBytes |-> 0]
  /\ stats = [rx_packets |-> 0, rx_dropped |-> 0]
  /\ rxLog = << >>

-----------------------------------------------------------------------------
(* The PC host (external).  Its driver fills the window only while the     *)
(* length is zero, publishes the length last and rings after that.         *)

HostBegin ==
  /\ host = "idle" /\ fromPcHostLength = 0 /\ sent < MaxPackets
  /\ host' = "copy" /\ hostIndex' = 1 /\ sent' = sent + 1
  /\ UNCHANGED << windowVars, reason, isrVars, NetworkEnable, scheduledOn,
                  taskletVars >>

HostCopyByte ==
  /\ host = "copy"
  /\ fromPcHostData' = [fromPcHostData EXCEPT ![hostIndex] = sent]
  /\ IF hostIndex = PacketLen[sent]
       THEN host' = "length" /\ UNCHANGED hostIndex
       ELSE hostIndex' = hostIndex + 1 /\ UNCHANGED host
  /\ UNCHANGED << fromPcHostLength, reason, sent, isrVars, NetworkEnable,
                  scheduledOn, taskletVars >>

HostPublish ==
  /\ host = "length"
  /\ fromPcHostLength' = PacketLen[sent]
  /\ host' = "ring"
  /\ UNCHANGED << fromPcHostData, reason, hostIndex, sent, isrVars,
                  NetworkEnable, scheduledOn, taskletVars >>

HostRing ==
  /\ host = "ring"
  /\ reason' = reason \cup {SENT_BUFFER}
  /\ host' = "idle"
  /\ UNCHANGED << windowVars, hostIndex, sent, isrVars, NetworkEnable,
                  scheduledOn, taskletVars >>

(* The host raises its other interrupts whenever it likes.                 *)
HostRingOther(bit) ==
  /\ bit \notin reason
  /\ reason' = reason \cup {bit}
  /\ UNCHANGED << windowVars, hostVars, isrVars, NetworkEnable, scheduledOn,
                  taskletVars >>

(* Root writes /sys/module/nalla_250_soc/parameters/NetworkEnable.         *)
SetNetworkEnable(value) ==
  /\ value # NetworkEnable
  /\ NetworkEnable' = value
  /\ UNCHANGED << windowVars, reason, hostVars, isrVars, scheduledOn,
                  taskletVars >>

-----------------------------------------------------------------------------
(* nalla_250_soc_ep_isr: one register read, one decision, one write.  The  *)
(* line is level triggered, so the handler is entered again as long as a   *)
(* bit is set; the kernel never runs it on two processors at once.         *)

IsrReadReason(cpu) ==
  /\ isr = "idle" /\ reason \cap IRQ_GENERATOR_MASK # {}
  /\ isr' = "schedule" /\ isrCPU' = cpu /\ isrReason' = reason
  /\ UNCHANGED << windowVars, reason, hostVars, NetworkEnable, scheduledOn,
                  taskletVars >>

(* A slip to catch: the handler tests another bit of the reason.           *)
IsrScheduleOtherBit ==
  /\ isr = "schedule"
  /\ isr' = "ack"
  /\ scheduledOn' =
       IF PROCESSED_BUFFER \in isrReason /\ NetworkEnable /\ scheduledOn = NoCPU
         THEN isrCPU ELSE scheduledOn
  /\ UNCHANGED << windowVars, reason, hostVars, isrCPU, isrReason,
                  NetworkEnable, taskletVars >>

(* tasklet_schedule queues the tasklet on this processor, unless it is     *)
(* queued somewhere already.                                               *)
IsrSchedule ==
  /\ isr = "schedule"
  /\ isr' = "ack"
  /\ scheduledOn' =
       IF SENT_BUFFER \in isrReason /\ NetworkEnable /\ scheduledOn = NoCPU
         THEN isrCPU ELSE scheduledOn
  /\ UNCHANGED << windowVars, reason, hostVars, isrCPU, isrReason,
                  NetworkEnable, taskletVars >>

(* A slip to catch: the handler writes all ones and clears the bits that    *)
(* were set after it read the register, too.                                *)
IsrAckAll ==
  /\ isr = "ack"
  /\ reason' = {}
  /\ isr' = "idle" /\ isrCPU' = NoCPU /\ isrReason' = {}
  /\ UNCHANGED << windowVars, hostVars, NetworkEnable, scheduledOn,
                  taskletVars >>

(* The register clears the bits that are written as one.                   *)
IsrAck ==
  /\ isr = "ack"
  /\ reason' = reason \ isrReason
  /\ isr' = "idle" /\ isrCPU' = NoCPU /\ isrReason' = {}
  /\ UNCHANGED << windowVars, hostVars, NetworkEnable, scheduledOn,
                  taskletVars >>

-----------------------------------------------------------------------------
(* nalla_250_soc_receiveBufferDoTaskletNetwork.                            *)

(* The processor is not inside the interrupt handler.                      *)
Uninterrupted(cpu) == isr = "idle" \/ isrCPU # cpu

(* The kernel takes the tasklet off the queue and calls it; an interrupt   *)
(* from here on queues it again.                                           *)
TaskletStart ==
  /\ scheduledOn # NoCPU /\ tasklet = "idle" /\ Uninterrupted(scheduledOn)
  /\ tasklet' = "length" /\ runningOn' = scheduledOn
  /\ scheduledOn' = NoCPU
  /\ UNCHANGED << windowVars, reason, hostVars, isrVars, NetworkEnable,
                  bytesReceived, index, ingressPacketBuffer, stats, rxLog >>

(* A slip to catch: the window goes back to the host before it has been    *)
(* copied.                                                                 *)
TaskletReadLengthReturnsWindow ==
  /\ tasklet = "length" /\ Uninterrupted(runningOn)
  /\ bytesReceived' = fromPcHostLength /\ index' = 1
  /\ fromPcHostLength' = 0
  /\ IF fromPcHostLength = 0
       THEN tasklet' = "idle" /\ runningOn' = NoCPU
       ELSE tasklet' = "copy" /\ UNCHANGED runningOn
  /\ UNCHANGED << fromPcHostData, reason, hostVars, isrVars, NetworkEnable,
                  scheduledOn, ingressPacketBuffer, stats, rxLog >>

TaskletReadLength ==
  /\ tasklet = "length" /\ Uninterrupted(runningOn)
  /\ bytesReceived' = fromPcHostLength /\ index' = 1
  /\ IF fromPcHostLength = 0
       THEN tasklet' = "idle" /\ runningOn' = NoCPU
       ELSE tasklet' = "copy" /\ UNCHANGED runningOn
  /\ UNCHANGED << windowVars, reason, hostVars, isrVars, NetworkEnable,
                  scheduledOn, ingressPacketBuffer, stats, rxLog >>

TaskletCopyByte ==
  /\ tasklet = "copy" /\ Uninterrupted(runningOn)
  /\ ingressPacketBuffer' =
       [ingressPacketBuffer EXCEPT ![index] = fromPcHostData[index]]
  /\ IF index = bytesReceived
       THEN tasklet' = "rx" /\ UNCHANGED index
       ELSE index' = index + 1 /\ UNCHANGED tasklet
  /\ UNCHANGED << windowVars, reason, hostVars, isrVars, NetworkEnable,
                  scheduledOn, runningOn, bytesReceived, stats, rxLog >>

(* A slip to catch: the whole ingress buffer goes to the kernel.           *)
TaskletPacketRxWhole(fate) ==
  /\ tasklet = "rx" /\ Uninterrupted(runningOn)
  /\ rxLog' = Append(rxLog,
       [frame |-> [j \in 1 .. BufferBytes |-> ingressPacketBuffer[j]],
        fate  |-> fate])
  /\ stats' = IF fate = "taken"
                THEN [stats EXCEPT !.rx_packets = @ + 1]
                ELSE [stats EXCEPT !.rx_dropped = @ + 1]
  /\ tasklet' = "reset"
  /\ UNCHANGED << windowVars, reason, hostVars, isrVars, NetworkEnable,
                  scheduledOn, runningOn, bytesReceived, index,
                  ingressPacketBuffer >>

(* nalla_250_soc_network_packet_rx: without memory for an skb the packet   *)
(* is dropped and counted as such; otherwise it is copied, counted and     *)
(* passed to netif_rx, whose verdict changes nothing.                      *)
TaskletPacketRx(fate) ==
  /\ tasklet = "rx" /\ Uninterrupted(runningOn)
  /\ rxLog' = Append(rxLog,
       [frame |-> [j \in 1 .. bytesReceived |-> ingressPacketBuffer[j]],
        fate  |-> fate])
  /\ stats' = IF fate = "taken"
                THEN [stats EXCEPT !.rx_packets = @ + 1]
                ELSE [stats EXCEPT !.rx_dropped = @ + 1]
  /\ tasklet' = "reset"
  /\ UNCHANGED << windowVars, reason, hostVars, isrVars, NetworkEnable,
                  scheduledOn, runningOn, bytesReceived, index,
                  ingressPacketBuffer >>

TaskletResetLength ==
  /\ tasklet = "reset" /\ Uninterrupted(runningOn)
  /\ fromPcHostLength' = 0
  /\ tasklet' = "idle" /\ runningOn' = NoCPU
  /\ UNCHANGED << fromPcHostData, reason, hostVars, isrVars, NetworkEnable,
                  scheduledOn, bytesReceived, index, ingressPacketBuffer,
                  stats, rxLog >>

-----------------------------------------------------------------------------
Host ==
  \/ HostBegin \/ HostCopyByte \/ HostPublish \/ HostRing
  \/ \E bit \in {PROCESSED_BUFFER, RING_BUFFER} : HostRingOther(bit)

Isr == (\E cpu \in CPUs : IsrReadReason(cpu)) \/ IsrSchedule \/ IsrAck

Tasklet ==
  \/ TaskletStart \/ TaskletReadLength \/ TaskletCopyByte
  \/ \E fate \in {"taken", "lost"} : TaskletPacketRx(fate)
  \/ TaskletResetLength

Next ==
  \/ Host \/ Isr \/ Tasklet
  \/ \E value \in EnableValues : SetNetworkEnable(value)

Spec == Init /\ [][Next]_vars

(* The host rings for what it published; a pending interrupt is taken and  *)
(* its handler runs to its end; a queued or running tasklet, which every   *)
(* interrupt on its processor pushes aside, gets the processor again.      *)
Fairness == WF_vars(HostRing) /\ WF_vars(Isr) /\ SF_vars(Tasklet)

FairSpec == Spec /\ Fairness
-----------------------------------------------------------------------------
(* Every variable has its type (one invariant for the whole module).       *)
TypeOK ==
  /\ fromPcHostLength \in 0 .. BufferBytes
  /\ fromPcHostData \in [1 .. BufferBytes -> 0 .. MaxPackets]
  /\ reason \subseteq IRQ_GENERATOR_MASK
  /\ host \in {"idle", "copy", "length", "ring"}
  /\ hostIndex \in 1 .. BufferBytes
  /\ sent \in 0 .. MaxPackets
  /\ isr \in {"idle", "schedule", "ack"}
  /\ isrCPU \in CPUs \cup {NoCPU}
  /\ isrReason \subseteq IRQ_GENERATOR_MASK
  /\ NetworkEnable \in BOOLEAN
  /\ scheduledOn \in CPUs \cup {NoCPU}
  /\ tasklet \in {"idle", "length", "copy", "rx", "reset"}
  /\ runningOn \in CPUs \cup {NoCPU}
  /\ bytesReceived \in 0 .. BufferBytes
  /\ index \in 1 .. BufferBytes
  /\ ingressPacketBuffer \in [1 .. BufferBytes -> 0 .. MaxPackets]
  /\ stats \in [rx_packets : Nat, rx_dropped : Nat]
  /\ rxLog \in Seq([frame : Seq(0 .. MaxPackets), fate : {"taken", "lost"}])

(* A packet is in flight from the moment the host starts copying it until  *)
(* the tasklet has handed it on.                                           *)
InFlight ==
  host \in {"copy", "length"} \/ (fromPcHostLength # 0 /\ tasklet # "reset")

(* The n-th frame the driver consumes is the n-th packet the host sent,    *)
(* whole and unmixed, and a packet that is no longer in flight has been    *)
(* consumed: across the races of host, handler and tasklet no packet is    *)
(* lost, repeated, reordered, cut short or read while it is being written. *)
RxExactlyOnce ==
  /\ \A n \in 1 .. Len(rxLog) : rxLog[n].frame = Frame(n)
  /\ sent = Len(rxLog) + (IF InFlight THEN 1 ELSE 0)

(* While the host fills the window no tasklet runs or is queued: the only  *)
(* thing that keeps the two apart is the length word, which no lock guards.*)
WindowHandover ==
  host \in {"copy", "length"} => tasklet = "idle" /\ scheduledOn = NoCPU

(* A packet the host has rung for is waiting in the window.                *)
Published == fromPcHostLength # 0 /\ host = "idle"

(* Somebody will still look at the window: the doorbell bit is set and no  *)
(* handler that has already decided is about to clear it, or the tasklet   *)
(* is queued or running.                                                   *)
Attended ==
  \/ SENT_BUFFER \in reason /\ ~(isr = "ack" /\ SENT_BUFFER \in isrReason)
  \/ scheduledOn # NoCPU
  \/ tasklet # "idle"

(* The doorbell of a waiting packet is never swallowed: neither by the     *)
(* write that clears the reason register after the tasklet was scheduled,  *)
(* nor by tasklet_schedule when the tasklet is already queued.  This is    *)
(* claimed while NetworkEnable keeps the value it was loaded with.         *)
NoLostDoorbell == Published => Attended

(* When root changes NetworkEnable, a waiting packet can lose its doorbell *)
(* in one way only: the handler passes by while the parameter is zero.     *)
DoorbellLostOnlyWhenDisabled ==
  [][Published /\ Attended /\ Published' /\ ~Attended' => ~NetworkEnable]_vars

-----------------------------------------------------------------------------
(* The inductive invariant behind the properties above, in named parts.    *)

(* The handler clears no bit before it is done, and knows where it runs.   *)
IsrInv ==
  /\ isrReason \subseteq reason
  /\ isr = "idle" => isrReason = {}
  /\ isr # "idle" => isrCPU \in CPUs

(* No tasklet is queued or running, and no doorbell would cause one.       *)
Quiet ==
  /\ tasklet = "idle" /\ scheduledOn = NoCPU
  /\ SENT_BUFFER \notin reason

(* What the host has written so far belongs to packet number sent.         *)
HostInv ==
  /\ host # "idle" => Quiet /\ sent >= 1
  /\ host \in {"copy", "length"} => fromPcHostLength = 0
  /\ host = "copy" =>
       /\ hostIndex <= PacketLen[sent]
       /\ \A j \in 1 .. hostIndex - 1 : fromPcHostData[j] = sent
  /\ host = "length" =>
       \A j \in 1 .. PacketLen[sent] : fromPcHostData[j] = sent
  /\ host = "ring" => fromPcHostLength # 0
  /\ fromPcHostLength # 0 =>
       /\ sent >= 1 /\ fromPcHostLength = PacketLen[sent]
       /\ \A j \in 1 .. PacketLen[sent] : fromPcHostData[j] = sent

(* One packet, one doorbell, one tasklet: a doorbell bit stands for a      *)
(* packet no tasklet works on, and if the tasklet is queued for it already *)
(* then by the very handler that is about to clear the bit, on whose       *)
(* processor the tasklet cannot start before the handler returns.          *)
BellInv ==
  /\ SENT_BUFFER \in reason =>
       /\ Published /\ tasklet = "idle"
       /\ scheduledOn # NoCPU =>
            isr = "ack" /\ SENT_BUFFER \in isrReason /\ scheduledOn = isrCPU
  /\ scheduledOn # NoCPU => Published /\ tasklet = "idle"
  /\ tasklet # "idle" => Published /\ scheduledOn = NoCPU

(* What the tasklet has copied so far belongs to the packet in the window. *)
CopyInv ==
  /\ tasklet \in {"copy", "rx"} => bytesReceived = fromPcHostLength
  /\ tasklet = "copy" =>
       /\ index <= bytesReceived
       /\ \A j \in 1 .. index - 1 : ingressPacketBuffer[j] = sent
  /\ tasklet = "rx" =>
       \A j \in 1 .. bytesReceived : ingressPacketBuffer[j] = sent

(* All of it: what makes RxExactlyOnce and WindowHandover inductive.       *)
RxInv == TypeOK /\ IsrInv /\ HostInv /\ BellInv /\ CopyInv /\ RxExactlyOnce

-----------------------------------------------------------------------------
(* The window as the abstract specification sees it.                       *)
Window == INSTANCE PacketWindow WITH
  last <- IF host \in {"copy", "length"} THEN sent - 1 ELSE sent,
  slot <- IF fromPcHostLength # 0 /\ tasklet # "reset"
            THEN [j \in 1 .. fromPcHostLength |-> fromPcHostData[j]]
            ELSE << >>,
  log  <- rxLog

(* The receive path implements the packet window, and while NetworkEnable  *)
(* is not cleared, every packet put into the window leaves it.             *)
RxImplementsWindow ==
  /\ Window!Spec
  /\ []NetworkEnable => Window!Progress

(* The host always gets its window back, if NetworkEnable is not cleared.  *)
WindowReturned ==
  []NetworkEnable => ((fromPcHostLength # 0) ~> (fromPcHostLength = 0))
=============================================================================

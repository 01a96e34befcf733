---------------------------- MODULE PacketWindow ----------------------------
(***************************************************************************)
(* What one direction of the ethernet-over-PCIe link promises.             *)
(*                                                                         *)
(* The SoC and the PC host share one packet window per direction: a length *)
(* word followed by the bytes of at most one packet.  Whoever fills the    *)
(* window waits until its length is zero, whoever empties it writes zero   *)
(* back.  Seen from outside, the window is a place that holds either       *)
(* nothing or one whole packet, and every packet put into it leaves it     *)
(* exactly once: taken by the reader, or lost.                             *)
(*                                                                         *)
(* RxPath (PC host to SoC) and TxPath (SoC to PC host) implement this      *)
(* specification; both hide the byte copies, the length word, the          *)
(* doorbells, the interrupt handler and the timeouts from it.              *)
(***************************************************************************)
EXTENDS Naturals, Sequences

CONSTANTS
  MaxPackets,   \* bound: the packets offered are numbered 1 .. MaxPackets
  PacketLen     \* the number of bytes of each packet, never zero

Packets == 1 .. MaxPackets

(* A packet's content: every byte carries the number of its packet, so a   *)
(* frame mixed from two packets differs from every Frame(p).               *)
Frame(p) == [j \in 1 .. PacketLen[p] |-> p]

Empty == << >>

VARIABLES
  last,   \* the number of the packet most recently put into the window
  slot,   \* the frame in the window, Empty if there is none
  log     \* what left the window, in order, and whether the reader got it

vars == << last, slot, log >>

Init ==
  /\ last = 0
  /\ slot = Empty
  /\ log  = << >>

(* Packets enter in the order of their numbers; a sender may drop some     *)
(* before they reach the window.                                           *)
Put(p) ==
  /\ slot = Empty
  /\ p > last
  /\ last' = p
  /\ slot' = Frame(p)
  /\ UNCHANGED log

Leave(fate) ==
  /\ slot # Empty
  /\ log'  = Append(log, [frame |-> slot, fate |-> fate])
  /\ slot' = Empty
  /\ UNCHANGED last

Take == Leave("taken")
Lose == Leave("lost")

Next == (\E p \in Packets : Put(p)) \/ Take \/ Lose

Spec == Init /\ [][Next]_vars

(* A packet in the window does not stay there for ever.                    *)
Progress == WF_vars(Take \/ Lose)
=============================================================================

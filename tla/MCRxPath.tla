------------------------------ MODULE MCRxPath ------------------------------
(* Values of RxPath's constants for TLC.                                   *)
EXTENDS RxPath

(* A short packet follows a full one, so that the tail of the full one is  *)
(* still in both buffers while the short one is handled.                   *)
MCPacketLen == << 2, 1, 2 >>
=============================================================================

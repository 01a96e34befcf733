------------------------------ MODULE MCTxPath ------------------------------
(* Values of TxPath's constants for TLC.                                   *)
EXTENDS TxPath

(* A short packet follows a full one, so that a mixture of the two shows.  *)
MCPacketLen == << 2, 1, 2, 2 >>
=============================================================================

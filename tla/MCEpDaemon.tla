----------------------------- MODULE MCEpDaemon -----------------------------
(* Values of EpDaemon's constants for TLC.                                 *)
EXTENDS EpDaemon

(* With bytes of two values: no address, 1.0.0.1 and 0.0.1.0, so that the *)
(* order of the octets matters.                                            *)
MCInstructions == {0, 9, 2}
=============================================================================

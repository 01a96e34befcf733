---------------------------- MODULE MCCharDevice ----------------------------
(* Values of CharDevice's constants for TLC.                               *)
EXTENDS CharDevice

(* Back, possibly before the first register, and beyond IntLimit.         *)
MCOffsets == {-2, 3}
=============================================================================

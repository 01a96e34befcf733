------------------------------ MODULE MCSpiOtp ------------------------------
(* Values of SpiOtp's constants for TLC.                                   *)
EXTENDS SpiOtp

(* Every arrangement of chips, addressed in every way that reaches all.    *)
MCFlashTypes == {t \in FlashType : t.addrWidth = 3 => t.bar}
=============================================================================

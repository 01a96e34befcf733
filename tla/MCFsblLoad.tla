----------------------------- MODULE MCFsblLoad -----------------------------
(* Values of FsblLoad's and EccInit's constants for TLC.                   *)
EXTENDS FsblLoad

(* Lower DDR takes two transfers, the second one short; upper DDR, after a *)
(* gap, takes one that has the greatest length.                            *)
MCStart == << 1, 6 >>
MCLength == << 3, 2 >>
=============================================================================

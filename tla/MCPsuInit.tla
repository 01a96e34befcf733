----------------------------- MODULE MCPsuInit -----------------------------
(* Values of PsuInit's constants for TLC.                                  *)
EXTENDS PsuInit

(* Two kinds of codes: three valid ones of which two have the same lower   *)
(* bits as codes out of range, and two.                                    *)
MCLo == [p |-> 2, i |-> 3]
MCHi == [p |-> 4, i |-> 4]
MCField == [p |-> 4, i |-> 4]
=============================================================================

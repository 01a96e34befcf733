----------------------------- MODULE MCIntWait -----------------------------
(* Values of IntWait's constants for TLC.                                  *)
EXTENDS IntWait

(* No timeout; 2 ms is one jiffy and 4 ms are three; 6 ms wrap to none;   *)
(* and a wait for an interrupt the driver does not support.               *)
MCRequests ==
  {[interrupt |-> {"ring"}, timeout |-> ms] : ms \in {0, 2, 6}}
    \cup {[interrupt |-> {"ring", "other"}, timeout |-> 4],
          [interrupt |-> {"other"}, timeout |-> 2]}
=============================================================================

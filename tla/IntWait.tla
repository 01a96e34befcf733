------------------------------ MODULE IntWait ------------------------------
(***************************************************************************)
(* Waiting for an interrupt through the character device                   *)
(* (nalla250_SocIoctl and nalla250_Soc_ioctl_int_wait,                     *)
(* nalla_250_soc_end_point.c).                                             *)
(*                                                                         *)
(* A process asks to sleep until one of some interrupts, or at most for    *)
(* some milliseconds.  The driver sleeps in jiffies, looks at int_reason,  *)
(* and sleeps for what is left of the time when something else woke it.    *)
(* Processes, the clock and signals interleave.                            *)
(*                                                                         *)
(* No statement of the driver sets a bit of int_reason or wakes the queue: *)
(* the handler of the interrupt that is waited for runs the tasklet and    *)
(* clears the hardware's register, and that is all.  So only the clock and *)
(* signals ever end a sleep.                                               *)
(***************************************************************************)
EXTENDS Integers

CONSTANTS
  Processes,       \* the processes that call the ioctl
  Interrupts,      \* the interrupt bits
  RING_BUFFER,     \* NALLA_250_SOC_IRQ_VALUE_RING_BUFFER_INTERRUPT
  Requests,        \* what they ask for: interrupts, and a timeout in ms
  HZ,              \* jiffies in a second
  MsPerSecond,     \* 1000
  UintRange,       \* 2^32
  MaxTicks         \* bound: a call is not timed beyond this many jiffies

(* MAX_SCHEDULE_TIMEOUT: no timer is armed.                                *)
Forever == UintRange

Request == [interrupt : SUBSET Interrupts, timeout : 0 .. UintRange - 1]

(* (timeout * HZ) / 1000, the product in 32 bits.                          *)
Delay(timeout) ==
  IF timeout = 0 THEN Forever
  ELSE ((timeout * HZ) % UintRange) \div MsPerSecond

ASSUME IntWaitAssumption ==
  /\ RING_BUFFER \in Interrupts
  /\ HZ \in Nat \ {0} /\ MsPerSecond \in Nat \ {0}
  /\ UintRange \in Nat \ {0, 1}
  /\ Requests \subseteq Request
  /\ MaxTicks \in Nat
  /\ \A r \in Requests : r.timeout # 0 => Delay(r.timeout) <= MaxTicks

VARIABLES
  intReason,       \* int_reason
  pc,              \* where each process is in the ioctl
  request,         \* its struct nalla_250_soc_int_wait, as it passed it
  delay,           \* local variable delay
  timer,           \* jiffies left of its schedule_timeout
  timeout,         \* local variable timeout
  reported,        \* what the ioctl leaves in the field interrupt
  signal,          \* it has a signal pending
  elapsed          \* jiffies since its call

localVars == << delay, timer, timeout >>
vars == << intReason, pc, request, localVars, reported, signal, elapsed >>

(* usrInt.                                                                 *)
Wanted(p) == request[p].interrupt \cap {RING_BUFFER}
Pending(p) == intReason \cap Wanted(p) # {}

InCall(p) == pc[p] \in {"check", "asleep", "settle"}

Init ==
  /\ intReason = {}
  /\ pc = [p \in Processes |-> "idle"]
  /\ request \in [Processes -> Requests]
  /\ delay = [p \in Processes |-> 0]
  /\ timer = [p \in Processes |-> 0]
  /\ timeout = [p \in Processes |-> 0]
  /\ reported = [p \in Processes |-> {}]
  /\ signal = [p \in Processes |-> FALSE]
  /\ elapsed = [p \in Processes |-> 0]

-----------------------------------------------------------------------------
(* The process.                                                            *)

(* An unsupported interrupt, or a struct that cannot be read, is -EFAULT   *)
(* of int_wait, which the ioctl does not look at: it returns 0.            *)
Call(p, r, readable) ==
  /\ pc[p] = "idle"
  /\ request' = [request EXCEPT ![p] = r]
  /\ delay' = [delay EXCEPT ![p] = Delay(r.timeout)]
  /\ timeout' = [timeout EXCEPT ![p] = 0]
  /\ reported' = [reported EXCEPT ![p] = r.interrupt]
  /\ elapsed' = [elapsed EXCEPT ![p] = 0]
  /\ pc' = [pc EXCEPT ![p] = IF readable /\ RING_BUFFER \in r.interrupt
                               THEN "check" ELSE "returned"]
  /\ UNCHANGED << intReason, timer, signal >>

(* prepare_to_wait and, unless the bit is set, the start of the sleep.     *)
Check(p) ==
  /\ pc[p] = "check"
  /\ IF Pending(p)
       THEN /\ timeout' = [timeout EXCEPT ![p] = 1]
            /\ pc' = [pc EXCEPT ![p] = "settle"]
            /\ UNCHANGED timer
       ELSE /\ timer' = [timer EXCEPT ![p] = delay[p]]
            /\ pc' = [pc EXCEPT ![p] = "asleep"]
            /\ UNCHANGED timeout
  /\ UNCHANGED << intReason, request, delay, reported, signal, elapsed >>

(* schedule_timeout returns what is left of the time, which the assignment *)
(* to a u32 cuts to 0xffffffff if no timer was armed.                      *)
Wake(p) ==
  /\ pc[p] = "asleep"
  /\ timer[p] = 0 \/ signal[p]
  /\ timeout' = [timeout EXCEPT ![p] =
                   IF timer[p] = Forever THEN UintRange - 1 ELSE timer[p]]
  /\ pc' = [pc EXCEPT ![p] = "settle"]
  /\ UNCHANGED << intReason, request, delay, timer, reported, signal, elapsed >>

(* Slips to catch: any wake-up counts as the end of the time ...           *)
SettleAlways(p, writable) ==
  /\ pc[p] = "settle"
  /\ reported' = [reported EXCEPT ![p] = IF writable THEN {} ELSE @]
  /\ pc' = [pc EXCEPT ![p] = "returned"]
  /\ UNCHANGED << intReason, request, delay, timer, timeout, signal, elapsed >>

(* ... and the end of the time is not noticed.                             *)
SettleNever(p, writable) ==
  /\ pc[p] = "settle"
  /\ delay' = [delay EXCEPT ![p] = timeout[p]]
  /\ pc' = [pc EXCEPT ![p] = "check"]
  /\ UNCHANGED << intReason, request, timer, timeout, reported, signal,
                  elapsed >>

(* After the sleep: time over, interrupt there, or round again.  The copy  *)
(* back to the caller may fail, which the caller is not told either.       *)
Settle(p, writable) ==
  /\ pc[p] = "settle"
  /\ IF timeout[p] = 0 \/ Pending(p)
       THEN /\ reported' = [reported EXCEPT ![p] =
                 IF ~writable THEN @
                 ELSE IF timeout[p] = 0 THEN {} ELSE intReason \cap Wanted(p)]
            /\ intReason' = IF timeout[p] = 0 THEN intReason
                            ELSE intReason \ Wanted(p)
            /\ pc' = [pc EXCEPT ![p] = "returned"]
            /\ UNCHANGED delay
       ELSE /\ delay' = [delay EXCEPT ![p] =
                 IF request[p].timeout # 0 THEN timeout[p] ELSE @]
            /\ pc' = [pc EXCEPT ![p] = "check"]
            /\ UNCHANGED << intReason, reported >>
  /\ UNCHANGED << request, timer, timeout, signal, elapsed >>

(* The process goes on; a signal it had pending is delivered.              *)
Return(p) ==
  /\ pc[p] = "returned"
  /\ pc' = [pc EXCEPT ![p] = "idle"]
  /\ signal' = [signal EXCEPT ![p] = FALSE]
  /\ UNCHANGED << intReason, request, localVars, reported, elapsed >>

Ioctl(p) ==
  \/ Check(p) \/ Wake(p) \/ Return(p)
  \/ \E writable \in BOOLEAN : Settle(p, writable)

-----------------------------------------------------------------------------
(* Clock and signals.  The interrupt handler changes nothing here.         *)

Tick ==
  /\ timer' = [p \in Processes |->
                 IF pc[p] = "asleep" /\ timer[p] \notin {0, Forever}
                   THEN timer[p] - 1 ELSE timer[p]]
  /\ elapsed' = [p \in Processes |->
                   IF InCall(p) /\ elapsed[p] < MaxTicks
                     THEN elapsed[p] + 1 ELSE elapsed[p]]
  /\ UNCHANGED << intReason, pc, request, delay, timeout, reported, signal >>

Signal(p) ==
  /\ InCall(p) /\ ~signal[p]
  /\ signal' = [signal EXCEPT ![p] = TRUE]
  /\ UNCHANGED << intReason, pc, request, localVars, reported, elapsed >>

Next ==
  \/ \E p \in Processes :
       \/ \E r \in Requests, readable \in BOOLEAN : Call(p, r, readable)
       \/ Ioctl(p)
       \/ Signal(p)
  \/ Tick

(* Time passes, and a process that can run does; calls, signals and        *)
(* interrupts need not come.                                               *)
Spec ==
  Init /\ [][Next]_vars /\ WF_vars(Tick) /\ \A p \in Processes : WF_vars(Ioctl(p))

-----------------------------------------------------------------------------
(* Every variable has its type (one invariant for the whole module).       *)
TypeOK ==
  /\ intReason \in SUBSET Interrupts
  /\ pc \in [Processes -> {"idle", "check", "asleep", "settle", "returned"}]
  /\ request \in [Processes -> Requests]
  /\ delay \in [Processes -> 0 .. Forever]
  /\ timer \in [Processes -> 0 .. Forever]
  /\ timeout \in [Processes -> 0 .. UintRange - 1]
  /\ reported \in [Processes -> SUBSET Interrupts]
  /\ signal \in [Processes -> BOOLEAN]
  /\ elapsed \in [Processes -> 0 .. MaxTicks]

(* The process was told that its time is over.                            *)
TimedOut(p) ==
  /\ pc[p] = "returned"
  /\ RING_BUFFER \in request[p].interrupt /\ reported[p] = {}

(* However often signals interrupt the sleep, the time that has passed is  *)
(* neither counted twice nor is a wake-up taken for its end: a process is  *)
(* told that its time is over only after all the jiffies its timeout was   *)
(* converted to, and never if it set none.                                 *)
TimeoutNotEarly ==
  \A p \in Processes : TimedOut(p) =>
    request[p].timeout # 0 /\ elapsed[p] >= Delay(request[p].timeout)

(* What is left of the time, wherever the process keeps it.                *)
Left(p) ==
  IF pc[p] = "check" THEN delay[p]
  ELSE IF pc[p] = "asleep" THEN timer[p] ELSE timeout[p]

(* What is left and what has passed make up the delay at least, and no     *)
(* timer runs for a call without a timeout; the interrupts asked for are   *)
(* reported until the call is settled.                                     *)
CallInv ==
  \A p \in Processes : InCall(p) =>
    /\ RING_BUFFER \in request[p].interrupt
    /\ reported[p] = request[p].interrupt
    /\ IF request[p].timeout = 0
         THEN /\ delay[p] = Forever
              /\ pc[p] = "asleep" => timer[p] = Forever
              /\ pc[p] = "settle" => timeout[p] # 0
         ELSE /\ Left(p) # Forever
              /\ elapsed[p] + Left(p) >= Delay(request[p].timeout)

(* All of it: what makes TimeoutNotEarly inductive.  Nobody sets a bit.    *)
WaitInv == TypeOK /\ intReason = {} /\ CallInv /\ TimeoutNotEarly

(* A sleep that a signal has interrupted is not started over: what is left *)
(* of the time of a call never grows again, wherever the process keeps it. *)
TimeNotRestarted ==
  [][\A p \in Processes :
       InCall(p) /\ InCall(p)' /\ request[p].timeout # 0
         => Left(p)' <= Left(p)]_vars

(* A call without a timeout never returns: no interrupt is delivered, and  *)
(* a signal only sends it round the loop.                                  *)
UntimedNeverReturns ==
  [][\A p \in Processes :
       InCall(p) /\ request[p].timeout = 0 => InCall(p)']_vars

(* A wait with a timeout ends, unless a signal sends it round the loop.    *)
TimedWaitEnds ==
  \A p \in Processes :
    InCall(p) /\ request[p].timeout # 0 ~> pc[p] = "returned" \/ signal[p]
=============================================================================

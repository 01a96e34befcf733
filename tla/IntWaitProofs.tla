--------------------------- MODULE IntWaitProofs ---------------------------
(***************************************************************************)
(* Proofs about IntWait, for any processes, any requests, and any values   *)
(* of the constants the timeout is converted with.                         *)
(***************************************************************************)
EXTENDS IntWait, TLAPS

(* Neither a quotient nor a remainder exceeds what it is taken from, and a *)
(* remainder is less than the divisor.                                     *)
LEMMA Quotient ==
  ASSUME NEW a \in Nat, NEW m \in Nat \ {0}
  PROVE  a \div m \in Nat /\ a \div m <= a
OBVIOUS

LEMMA RemainderBelow ==
  ASSUME NEW a \in Nat, NEW m \in Nat \ {0}
  PROVE  a % m \in Nat /\ a % m < m
OBVIOUS

LEMMA Product ==
  ASSUME NEW a \in Nat, NEW b \in Nat
  PROVE  a * b \in Nat
OBVIOUS

(* A timeout is converted to fewer jiffies than stand for none.            *)
LEMMA DelayBounds ==
  ASSUME NEW r \in Requests
  PROVE  /\ r.timeout = 0 => Delay(r.timeout) = Forever
         /\ r.timeout # 0 => /\ Delay(r.timeout) \in 0 .. MaxTicks
                             /\ Delay(r.timeout) < Forever
         /\ Delay(r.timeout) \in 0 .. Forever
<1>1. /\ r \in Request /\ HZ \in Nat \ {0} /\ MsPerSecond \in Nat \ {0}
      /\ UintRange \in Nat \ {0, 1} /\ MaxTicks \in Nat
      /\ r.timeout # 0 => Delay(r.timeout) <= MaxTicks
  BY IntWaitAssumption
<1>2. r.timeout \in Nat
  BY <1>1 DEF Request
<1> DEFINE word == (r.timeout * HZ) % UintRange
<1>3. r.timeout * HZ \in Nat
  BY <1>1, <1>2, Product
<1>4. word \in Nat /\ word < UintRange
  BY <1>1, <1>3, RemainderBelow
<1>5. word \div MsPerSecond \in Nat /\ word \div MsPerSecond <= word
  BY <1>1, <1>4, Quotient
<1>6. r.timeout # 0 => Delay(r.timeout) = word \div MsPerSecond
  BY DEF Delay
<1>7. r.timeout = 0 => Delay(r.timeout) = Forever
  BY DEF Delay
<1> HIDE DEF word
<1>8. QED
  BY <1>1, <1>4, <1>5, <1>6, <1>7 DEF Forever

(* Without a bit set nothing is pending.                                   *)
LEMMA NothingPending ==
  ASSUME intReason = {}, NEW p \in Processes
  PROVE  ~Pending(p)
BY DEF Pending

-----------------------------------------------------------------------------
LEMMA WaitInit == Init => WaitInv
<1> SUFFICES ASSUME Init PROVE WaitInv
  OBVIOUS
<1>1. UintRange \in Nat \ {0, 1} /\ MaxTicks \in Nat
  BY IntWaitAssumption
<1>2. TypeOK
  <2>1. 0 \in 0 .. Forever /\ 0 \in 0 .. UintRange - 1 /\ 0 \in 0 .. MaxTicks
    BY <1>1 DEF Forever
  <2>2. QED
    BY <2>1 DEF Init, TypeOK
<1>3. CallInv /\ TimeoutNotEarly
  BY DEF Init, CallInv, InCall, TimeoutNotEarly, TimedOut
<1>4. QED
  BY <1>2, <1>3 DEF WaitInv, Init

LEMMA WaitTypeStep ==
  ASSUME WaitInv, [Next]_vars
  PROVE  TypeOK' /\ intReason' = {}
<1> USE DEF WaitInv
<1>1. UintRange \in Nat \ {0, 1} /\ MaxTicks \in Nat
  BY IntWaitAssumption
<1>2. ASSUME NEW p \in Processes, NEW r \in Requests,
             NEW readable \in BOOLEAN, Call(p, r, readable)
      PROVE  TypeOK' /\ intReason' = {}
  <2>1. /\ Delay(r.timeout) \in 0 .. Forever
        /\ 0 \in 0 .. UintRange - 1 /\ 0 \in 0 .. MaxTicks
    BY <1>1, DelayBounds
  <2>2. r.interrupt \in SUBSET Interrupts
    BY IntWaitAssumption DEF Request
  <2>3. QED
    BY <1>2, <2>1, <2>2 DEF Call, TypeOK
<1>3. ASSUME NEW p \in Processes, Check(p)
      PROVE  TypeOK' /\ intReason' = {}
  <2>1. 1 \in 0 .. UintRange - 1
    BY <1>1
  <2>2. QED
    BY <1>3, <2>1 DEF Check, TypeOK
<1>4. ASSUME NEW p \in Processes, Wake(p)
      PROVE  TypeOK' /\ intReason' = {}
  <2>1. (IF timer[p] = Forever THEN UintRange - 1 ELSE timer[p])
          \in 0 .. UintRange - 1
    BY <1>1 DEF TypeOK, Forever
  <2>2. QED
    BY <1>4, <2>1 DEF Wake, TypeOK
<1>5. ASSUME NEW p \in Processes, NEW writable \in BOOLEAN,
             Settle(p, writable)
      PROVE  TypeOK' /\ intReason' = {}
  <2>1. timeout[p] \in 0 .. Forever
    BY <1>1 DEF TypeOK, Forever
  <2>2. QED
    BY <1>5, <2>1 DEF Settle, TypeOK
<1>6. ASSUME NEW p \in Processes, Return(p)
      PROVE  TypeOK' /\ intReason' = {}
  BY <1>6 DEF Return, TypeOK, localVars
<1>7. ASSUME NEW p \in Processes, Signal(p)
      PROVE  TypeOK' /\ intReason' = {}
  BY <1>7 DEF Signal, TypeOK, localVars
<1>8. ASSUME Tick
      PROVE  TypeOK' /\ intReason' = {}
  <2>1. timer' \in [Processes -> 0 .. Forever]
    BY <1>1, <1>8 DEF Tick, TypeOK, Forever
  <2>2. elapsed' \in [Processes -> 0 .. MaxTicks]
    BY <1>1, <1>8 DEF Tick, TypeOK
  <2>3. QED
    BY <1>8, <2>1, <2>2 DEF Tick, TypeOK
<1>9. CASE UNCHANGED vars
  BY <1>9 DEF vars, localVars, TypeOK
<1>10. QED
  BY <1>2, <1>3, <1>4, <1>5, <1>6, <1>7, <1>8, <1>9 DEF Next, Ioctl

(* A step of one process or a tick keeps, of each process, that what is    *)
(* left and what has passed make up the delay, and that it is not told too *)
(* early.                                                                  *)
CallOk(q) ==
  /\ InCall(q) =>
       /\ RING_BUFFER \in request[q].interrupt
       /\ reported[q] = request[q].interrupt
       /\ IF request[q].timeout = 0
            THEN /\ delay[q] = Forever
                 /\ pc[q] = "asleep" => timer[q] = Forever
                 /\ pc[q] = "settle" => timeout[q] # 0
            ELSE /\ Left(q) # Forever
                 /\ elapsed[q] + Left(q) >= Delay(request[q].timeout)
  /\ TimedOut(q) =>
       request[q].timeout # 0 /\ elapsed[q] >= Delay(request[q].timeout)

LEMMA WaitCallStep ==
  ASSUME WaitInv, [Next]_vars, NEW q \in Processes
  PROVE  CallOk(q)'
<1> USE DEF WaitInv
<1>1. UintRange \in Nat \ {0, 1} /\ MaxTicks \in Nat /\ Forever = UintRange
  BY IntWaitAssumption DEF Forever
<1>2. CallOk(q)
  BY DEF CallOk, CallInv, TimeoutNotEarly
<1>3. /\ request[q] \in Requests
      /\ delay[q] \in 0 .. Forever /\ timer[q] \in 0 .. Forever
      /\ timeout[q] \in 0 .. UintRange - 1 /\ elapsed[q] \in 0 .. MaxTicks
  BY DEF TypeOK
<1>4. /\ Delay(request[q].timeout) \in 0 .. Forever
      /\ request[q].timeout # 0 => Delay(request[q].timeout) \in 0 .. MaxTicks
      /\ request[q].timeout # 0 => Delay(request[q].timeout) < Forever
  BY <1>3, DelayBounds
(* Nothing of q's changes.                                                 *)
<1>5. ASSUME pc'[q] = pc[q], request'[q] = request[q], delay'[q] = delay[q],
             timer'[q] = timer[q], timeout'[q] = timeout[q],
             reported'[q] = reported[q], elapsed'[q] = elapsed[q]
      PROVE  CallOk(q)'
  BY <1>2, <1>5 DEF CallOk, InCall, Left, TimedOut
<1>6. ASSUME NEW p \in Processes, NEW r \in Requests,
             NEW readable \in BOOLEAN, Call(p, r, readable)
      PROVE  CallOk(q)'
  <2>1. CASE p # q
    BY <1>5, <1>6, <2>1 DEF Call, TypeOK
  <2>2. CASE p = q
    <3>1. /\ request'[q] = r /\ delay'[q] = Delay(r.timeout)
          /\ reported'[q] = r.interrupt /\ elapsed'[q] = 0
          /\ pc'[q] = IF readable /\ RING_BUFFER \in r.interrupt
                        THEN "check" ELSE "returned"
      BY <1>6, <2>2 DEF Call, TypeOK
    <3>2. /\ r.timeout = 0 => Delay(r.timeout) = Forever
          /\ r.timeout # 0 => Delay(r.timeout) < Forever
          /\ Delay(r.timeout) \in 0 .. Forever
      BY DelayBounds
    <3>3. Left(q)' = delay'[q] \/ pc'[q] # "check"
      BY DEF Left
    <3>4. QED
      BY <1>1, <3>1, <3>2, <3>3 DEF CallOk, InCall, TimedOut
  <2>3. QED
    BY <2>1, <2>2
<1>7. ASSUME NEW p \in Processes, Check(p)
      PROVE  CallOk(q)'
  <2>1. CASE p # q
    BY <1>5, <1>7, <2>1 DEF Check, TypeOK
  <2>2. CASE p = q
    <3>1. ~Pending(q)
      BY NothingPending
    <3>2. /\ pc[q] = "check" /\ pc'[q] = "asleep" /\ timer'[q] = delay[q]
          /\ UNCHANGED << request, delay, timeout, reported, elapsed >>
      BY <1>7, <2>2, <3>1 DEF Check, TypeOK
    <3>3. Left(q) = delay[q] /\ Left(q)' = delay[q]
      BY <3>2 DEF Left
    <3>4. QED
      BY <1>2, <3>2, <3>3 DEF CallOk, InCall, TimedOut
  <2>3. QED
    BY <2>1, <2>2
<1>8. ASSUME NEW p \in Processes, Wake(p)
      PROVE  CallOk(q)'
  <2>1. CASE p # q
    BY <1>5, <1>8, <2>1 DEF Wake, TypeOK
  <2>2. CASE p = q
    <3>1. /\ pc[q] = "asleep" /\ pc'[q] = "settle"
          /\ timeout'[q] = IF timer[q] = Forever THEN UintRange - 1
                           ELSE timer[q]
          /\ UNCHANGED << request, delay, timer, reported, elapsed >>
      BY <1>8, <2>2 DEF Wake, TypeOK
    <3>2. Left(q) = timer[q] /\ Left(q)' = timeout'[q]
      BY <3>1 DEF Left
    <3>3. QED
      BY <1>1, <1>2, <1>3, <3>1, <3>2 DEF CallOk, InCall, TimedOut
  <2>3. QED
    BY <2>1, <2>2
<1>9. ASSUME NEW p \in Processes, NEW writable \in BOOLEAN,
             Settle(p, writable)
      PROVE  CallOk(q)'
  <2>1. CASE p # q
    BY <1>5, <1>9, <2>1 DEF Settle, TypeOK
  <2>2. CASE p = q
    <3>1. ~Pending(q)
      BY NothingPending
    <3>2. /\ pc[q] = "settle" /\ Left(q) = timeout[q]
          /\ UNCHANGED << request, timer, timeout, elapsed >>
      BY <1>9, <2>2 DEF Settle, Left
    <3>3. CASE timeout[q] = 0
      <4>1. pc'[q] = "returned" /\ request[q].timeout # 0
        BY <1>2, <1>9, <2>2, <3>2, <3>3 DEF Settle, TypeOK, CallOk, InCall
      <4>2. elapsed[q] >= Delay(request[q].timeout)
        BY <1>2, <1>3, <3>2, <3>3, <4>1 DEF CallOk, InCall
      <4>3. QED
        BY <3>2, <4>1, <4>2 DEF CallOk, InCall
    <3>4. CASE timeout[q] # 0
      <4>1. /\ pc'[q] = "check" /\ reported' = reported
            /\ delay'[q] = IF request[q].timeout # 0 THEN timeout[q]
                           ELSE delay[q]
        BY <1>9, <2>2, <3>1, <3>2, <3>4 DEF Settle, TypeOK
      <4>2. Left(q)' = delay'[q]
        BY <4>1 DEF Left
      <4>3. QED
        BY <1>1, <1>2, <1>3, <3>2, <4>1, <4>2 DEF CallOk, InCall, TimedOut
    <3>5. QED
      BY <3>3, <3>4
  <2>3. QED
    BY <2>1, <2>2
<1>10. ASSUME NEW p \in Processes, Return(p)
       PROVE  CallOk(q)'
  <2>1. CASE p # q
    BY <1>5, <1>10, <2>1 DEF Return, TypeOK, localVars
  <2>2. CASE p = q
    <3>1. pc'[q] = "idle"
      BY <1>10, <2>2 DEF Return, TypeOK
    <3>2. QED
      BY <3>1 DEF CallOk, InCall, TimedOut
  <2>3. QED
    BY <2>1, <2>2
<1>11. ASSUME NEW p \in Processes, Signal(p)
       PROVE  CallOk(q)'
  BY <1>5, <1>11 DEF Signal, localVars
<1>12. ASSUME Tick
       PROVE  CallOk(q)'
  <2>1. /\ timer'[q] = IF pc[q] = "asleep" /\ timer[q] \notin {0, Forever}
                         THEN timer[q] - 1 ELSE timer[q]
        /\ elapsed'[q] = IF InCall(q) /\ elapsed[q] < MaxTicks
                           THEN elapsed[q] + 1 ELSE elapsed[q]
        /\ UNCHANGED << pc, request, delay, timeout, reported >>
    BY <1>12 DEF Tick
  <2>2. CASE ~InCall(q)
    BY <1>2, <2>1, <2>2 DEF CallOk, InCall, TimedOut
  <2>3. CASE pc[q] = "asleep"
    <3>1. Left(q) = timer[q] /\ Left(q)' = timer'[q]
      BY <2>1, <2>3 DEF Left
    <3>2. InCall(q) /\ InCall(q)' /\ ~TimedOut(q)'
      BY <2>1, <2>3 DEF InCall, TimedOut
    <3>3. CASE request[q].timeout = 0
      BY <1>2, <2>1, <2>3, <3>2, <3>3 DEF CallOk
    <3>4. CASE request[q].timeout # 0
      <4>1. /\ Left(q)' # Forever
            /\ elapsed'[q] + Left(q)' >= Delay(request[q].timeout)
        BY <1>1, <1>2, <1>3, <1>4, <2>1, <2>3, <3>1, <3>2, <3>4 DEF CallOk
      <4>2. QED
        BY <1>2, <2>1, <3>2, <3>4, <4>1 DEF CallOk
    <3>5. QED
      BY <3>3, <3>4
  <2>4. CASE pc[q] \in {"check", "settle"}
    <3>1. Left(q)' = Left(q) /\ Left(q) \in Nat
      BY <1>1, <1>3, <2>1, <2>4 DEF Left
    <3>2. InCall(q) /\ InCall(q)' /\ ~TimedOut(q)'
      BY <2>1, <2>4 DEF InCall, TimedOut
    <3>3. elapsed'[q] \in Nat /\ elapsed'[q] >= elapsed[q]
      BY <1>1, <1>3, <2>1
    <3>4. elapsed'[q] + Left(q) >= elapsed[q] + Left(q)
      BY <1>3, <3>1, <3>3
    <3>5. QED
      BY <1>2, <1>3, <1>4, <2>1, <2>4, <3>1, <3>2, <3>3, <3>4 DEF CallOk
  <2>5. QED
    BY <2>2, <2>3, <2>4 DEF InCall
<1>13. CASE UNCHANGED vars
  BY <1>5, <1>13 DEF vars, localVars
<1>14. QED
  BY <1>6, <1>7, <1>8, <1>9, <1>10, <1>11, <1>12, <1>13 DEF Next, Ioctl

LEMMA WaitStep == WaitInv /\ [Next]_vars => WaitInv'
<1> SUFFICES ASSUME WaitInv, [Next]_vars PROVE WaitInv'
  OBVIOUS
<1>1. TypeOK' /\ intReason' = {}
  BY WaitTypeStep
<1>2. \A q \in Processes : CallOk(q)'
  BY WaitCallStep
<1>3. CallInv' /\ TimeoutNotEarly'
  BY <1>2 DEF CallOk, CallInv, TimeoutNotEarly
<1>4. QED
  BY <1>1, <1>3 DEF WaitInv

-----------------------------------------------------------------------------
(* The inductive invariant: types, no bit of int_reason ever set, and the  *)
(* time that is left and has passed.                                       *)
THEOREM WaitInvariant == Spec => []WaitInv
<1>1. QED
  BY WaitInit, WaitStep, PTL DEF Spec

(* A process is told that its time is over only when it is, for every      *)
(* timeout, pattern of signals and rate of the clock.                      *)
THEOREM TimeoutsAreNotEarly == Spec => []TimeoutNotEarly
<1>1. WaitInv => TimeoutNotEarly
  BY DEF WaitInv
<1>2. QED
  BY <1>1, WaitInvariant, PTL

(* No wait ever finds the interrupt it waits for, however often the host   *)
(* raises it: no statement of the driver sets a bit of int_reason.         *)
THEOREM InterruptNeverSeen ==
  Spec => [](\A p \in Processes : ~Pending(p))
<1>1. WaitInv => \A p \in Processes : ~Pending(p)
  BY NothingPending DEF WaitInv
<1>2. QED
  BY <1>1, WaitInvariant, PTL

(* Whoever's step it is, a timed call that goes on has no more left than   *)
(* before, and an untimed one goes on.                                     *)
LEMMA CallGoesOn ==
  ASSUME WaitInv, Next, NEW q \in Processes, InCall(q)
  PROVE  /\ InCall(q)' /\ request[q].timeout # 0 => Left(q)' <= Left(q)
         /\ request[q].timeout = 0 => InCall(q)'
<1> USE DEF WaitInv
<1>1. UintRange \in Nat \ {0, 1} /\ MaxTicks \in Nat /\ Forever = UintRange
  BY IntWaitAssumption DEF Forever
<1>2. /\ request[q].timeout = 0 /\ pc[q] = "settle" => timeout[q] # 0
      /\ request[q].timeout # 0 => Left(q) # Forever
  BY DEF CallInv
<1>3. /\ delay[q] \in Nat /\ timer[q] \in Nat /\ timeout[q] \in Nat
      /\ Left(q) \in Nat /\ ~Pending(q)
  BY <1>1, NothingPending DEF TypeOK, Left
(* A step of another process.                                              *)
<1>4. ASSUME pc'[q] = pc[q], delay'[q] = delay[q], timer'[q] = timer[q],
             timeout'[q] = timeout[q]
      PROVE  InCall(q)' /\ Left(q)' <= Left(q)
  <2>1. InCall(q)' /\ Left(q)' = Left(q)
    BY <1>4 DEF InCall, Left
  <2>2. QED
    BY <1>3, <2>1
<1>5. ASSUME NEW p \in Processes, NEW r \in Requests, NEW readable \in BOOLEAN,
             Call(p, r, readable)
      PROVE  InCall(q)' /\ Left(q)' <= Left(q)
  <2>1. p # q
    BY <1>5 DEF Call, InCall
  <2>2. QED
    BY <1>4, <1>5, <2>1 DEF Call, TypeOK
<1>6. ASSUME NEW p \in Processes, Check(p)
      PROVE  InCall(q)' /\ Left(q)' <= Left(q)
  <2>1. CASE p # q
    BY <1>4, <1>6, <2>1 DEF Check, TypeOK
  <2>2. CASE p = q
    <3>1. pc[q] = "check" /\ pc'[q] = "asleep" /\ timer'[q] = delay[q]
      BY <1>3, <1>6, <2>2 DEF Check, TypeOK
    <3>2. InCall(q)' /\ Left(q)' = delay[q] /\ Left(q) = delay[q]
      BY <3>1 DEF InCall, Left
    <3>3. QED
      BY <1>3, <3>2
  <2>3. QED
    BY <2>1, <2>2
<1>7. ASSUME NEW p \in Processes, Wake(p)
      PROVE  InCall(q)' /\ (request[q].timeout # 0 => Left(q)' <= Left(q))
  <2>1. CASE p # q
    BY <1>4, <1>7, <2>1 DEF Wake, TypeOK
  <2>2. CASE p = q
    <3>1. /\ pc[q] = "asleep" /\ pc'[q] = "settle"
          /\ timeout'[q] = IF timer[q] = Forever THEN UintRange - 1
                           ELSE timer[q]
      BY <1>7, <2>2 DEF Wake, TypeOK
    <3>2. InCall(q)' /\ Left(q)' = timeout'[q] /\ Left(q) = timer[q]
      BY <3>1 DEF InCall, Left
    <3>3. QED
      BY <1>2, <1>3, <3>1, <3>2
  <2>3. QED
    BY <2>1, <2>2
<1>8. ASSUME NEW p \in Processes, NEW writable \in BOOLEAN, Settle(p, writable)
      PROVE  /\ InCall(q)' /\ request[q].timeout # 0 => Left(q)' <= Left(q)
             /\ request[q].timeout = 0 => InCall(q)'
  <2>1. CASE p # q
    BY <1>4, <1>8, <2>1 DEF Settle, TypeOK
  <2>2. CASE p = q /\ timeout[q] = 0
    <3>1. pc[q] = "settle" /\ pc'[q] = "returned"
      BY <1>8, <2>2 DEF Settle, TypeOK
    <3>2. QED
      BY <1>2, <2>2, <3>1 DEF InCall
  <2>3. CASE p = q /\ timeout[q] # 0
    <3>1. /\ pc[q] = "settle" /\ pc'[q] = "check"
          /\ delay'[q] = IF request[q].timeout # 0 THEN timeout[q] ELSE delay[q]
      BY <1>3, <1>8, <2>3 DEF Settle, TypeOK
    <3>2. InCall(q)' /\ Left(q)' = delay'[q] /\ Left(q) = timeout[q]
      BY <3>1 DEF InCall, Left
    <3>3. QED
      BY <1>3, <3>1, <3>2
  <2>4. QED
    BY <2>1, <2>2, <2>3
<1>9. ASSUME NEW p \in Processes, Return(p) \/ Signal(p)
      PROVE  InCall(q)' /\ Left(q)' <= Left(q)
  <2>1. CASE Signal(p)
    BY <1>4, <2>1 DEF Signal, localVars
  <2>2. CASE Return(p)
    <3>1. p # q
      BY <2>2 DEF Return, InCall
    <3>2. QED
      BY <1>4, <2>2, <3>1 DEF Return, TypeOK, localVars
  <2>3. QED
    BY <1>9, <2>1, <2>2
<1>10. ASSUME Tick
       PROVE  InCall(q)' /\ Left(q)' <= Left(q)
  <2>1. /\ timer'[q] = IF pc[q] = "asleep" /\ timer[q] \notin {0, Forever}
                         THEN timer[q] - 1 ELSE timer[q]
        /\ UNCHANGED << pc, delay, timeout >>
    BY <1>10 DEF Tick
  <2>2. timer'[q] <= timer[q] /\ InCall(q)'
    BY <1>3, <2>1 DEF InCall
  <2>3. CASE pc[q] = "asleep"
    <3>1. Left(q)' = timer'[q] /\ Left(q) = timer[q]
      BY <2>1, <2>3 DEF Left
    <3>2. QED
      BY <2>2, <3>1
  <2>4. CASE pc[q] # "asleep"
    <3>1. Left(q)' = Left(q)
      BY <2>1, <2>4 DEF Left
    <3>2. QED
      BY <1>3, <2>2, <3>1
  <2>5. QED
    BY <2>3, <2>4
<1>11. QED
  BY <1>5, <1>6, <1>7, <1>8, <1>9, <1>10 DEF Next, Ioctl

(* However often signals interrupt a sleep, its time is not started over.  *)
THEOREM WaitsAreNotRestarted == Spec => TimeNotRestarted
<1>1. WaitInv /\ [Next]_vars =>
        [\A p \in Processes :
           InCall(p) /\ InCall(p)' /\ request[p].timeout # 0
             => Left(p)' <= Left(p)]_vars
  BY CallGoesOn
<1>2. QED
  BY <1>1, WaitInvariant, PTL DEF Spec, TimeNotRestarted

(* A wait without a timeout goes on for ever, whoever signals or rings.    *)
THEOREM UntimedWaitsNeverReturn == Spec => UntimedNeverReturns
<1>1. WaitInv /\ [Next]_vars =>
        [\A p \in Processes :
           InCall(p) /\ request[p].timeout = 0 => InCall(p)']_vars
  BY CallGoesOn
<1>2. QED
  BY <1>1, WaitInvariant, PTL DEF Spec, UntimedNeverReturns
=============================================================================

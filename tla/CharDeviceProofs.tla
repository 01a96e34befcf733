-------------------------- MODULE CharDeviceProofs --------------------------
(***************************************************************************)
(* Proofs about CharDevice, for any number of callers that share any open  *)
(* files, any counts and offsets, any width of a word and of an int, and   *)
(* any space for mappings.                                                 *)
(***************************************************************************)
EXTENDS CharDevice, FiniteSetTheorems, TLAPS

(* Counts are numbers.                                                     *)
LEMMA CountType ==
  ASSUME NEW n \in Counts \cup {0}
  PROVE  n \in Nat
BY CharDeviceAssumption

(* A remainder is an integer, and of a number below the divisor the number.*)
LEMMA Remainder ==
  ASSUME NEW a \in Nat, NEW m \in Nat \ {0}
  PROVE  a % m \in Int /\ (a < m => a % m = a)
OBVIOUS

(* How many numbers an interval holds.                                     *)
LEMMA IntervalSize ==
  ASSUME NEW a \in Int, NEW n \in Nat
  PROVE  Cardinality(a .. a + n - 1) = n
<1>1. CASE n = 0
  <2>1. a .. a + n - 1 = {}
    BY <1>1
  <2>2. QED
    BY <1>1, <2>1, FS_EmptySet
<1>2. CASE n # 0
  <2> DEFINE b == a + n - 1
  <2>1. b \in Int /\ a <= b /\ b - a + 1 = n
    BY <1>2
  <2> HIDE DEF b
  <2>2. Cardinality(a .. b) = b - a + 1
    BY <2>1, FS_Interval
  <2>3. QED
    BY <2>1, <2>2 DEF b
<1>3. QED
  BY <1>1, <1>2

(* What is appended to an interval makes a longer one.                     *)
LEMMA Appended ==
  ASSUME NEW a \in Int, NEW b \in Int, a <= b, NEW n \in Nat
  PROVE  (a .. b - 1) \cup (b .. b + n - 1) = a .. b + n - 1
OBVIOUS

(* The conversion to int keeps a position that fits.                       *)
LEMMA PositionToInt ==
  ASSUME NEW pos \in Nat
  PROVE  ToInt(pos) \in Int /\ (pos < IntLimit => ToInt(pos) = pos)
<1>1. IntLimit \in Nat /\ 2 * IntLimit \in Nat \ {0}
  BY CharDeviceAssumption
<1>2. /\ pos % (2 * IntLimit) \in Int
      /\ pos < 2 * IntLimit => pos % (2 * IntLimit) = pos
  BY <1>1, Remainder
<1> DEFINE word == pos % (2 * IntLimit)
<1>3. word \in Int /\ (pos < IntLimit => word = pos)
  BY <1>1, <1>2
<1> HIDE DEF word
<1>4. QED
  <2>1. ToInt(pos) = IF word < IntLimit THEN word ELSE word - 2 * IntLimit
    BY DEF ToInt, word
  <2>2. QED
    BY <1>1, <1>3, <2>1

(* The calls with a mapping are finitely many.                             *)
LEMMA MappingFinite ==
  IsFiniteSet(Mapping) /\ Cardinality(Mapping) \in Nat
<1>1. IsFiniteSet(Callers) /\ Mapping \in SUBSET Callers
  BY CharDeviceAssumption DEF Mapping
<1>2. QED
  BY <1>1, FS_Subset, FS_CardinalityType

(* A caller outside the driver has no call.                                *)
LEMMA NoCallType ==
  /\ NoCall \in Call
  /\ [NoCall EXCEPT !.op = "dead"] \in Call
  /\ NoCall.op = "none" /\ [NoCall EXCEPT !.op = "dead"].op = "dead"
<1>1. (CHOOSE f \in Files : TRUE) \in Files
  BY CharDeviceAssumption
<1>2. 0 \in 0 .. MaxPosition
  BY CharDeviceAssumption
<1> DEFINE some == CHOOSE f \in Files : TRUE
<1>3. /\ some \in Files
      /\ NoCall = [op |-> "none", file |-> some, count |-> 0, ppos |-> 0,
                   regs |-> 0, got |-> FALSE, bytesLeft |-> 0, touched |-> {},
                   overlapped |-> FALSE]
  BY <1>1 DEF NoCall
<1> HIDE DEF some
<1>4. NoCall \in Call /\ NoCall.op = "none"
  BY <1>2, <1>3 DEF Call
<1>5. /\ [NoCall EXCEPT !.op = "dead"] \in Call
      /\ [NoCall EXCEPT !.op = "dead"].op = "dead"
  BY <1>4 DEF Call
<1>6. QED
  BY <1>4, <1>5

(* A change of its history changes nothing else of a call.                 *)
LEMMA Overlapped ==
  ASSUME NEW r \in Call, NEW b \in BOOLEAN, NEW s,
         s = [r EXCEPT !.overlapped = b]
  PROVE  /\ s \in Call
         /\ s.op = r.op /\ s.file = r.file /\ s.count = r.count
         /\ s.ppos = r.ppos /\ s.regs = r.regs /\ s.got = r.got
         /\ s.bytesLeft = r.bytesLeft /\ s.touched = r.touched
         /\ s.overlapped = b
BY DEF Call

(* The numbers of a call.                                                  *)
LEMMA CallNumbers ==
  ASSUME NEW r \in Call
  PROVE  /\ r.count \in Nat /\ r.bytesLeft \in Nat /\ r.regs \in Int
         /\ r.ppos \in 0 .. MaxPosition /\ r.ppos \in Nat
<1>1. /\ r.count \in Counts \cup {0} /\ r.bytesLeft \in Nat
      /\ r.regs \in Int /\ r.ppos \in 0 .. MaxPosition
  BY DEF Call
<1>2. r.count \in Nat
  BY <1>1, CountType
<1>3. QED
  BY <1>1, <1>2, CharDeviceAssumption

(* A step of the loop takes at least one byte, and no more than are left.  *)
LEMMA ChunkBounds ==
  ASSUME NEW r \in Call, r.bytesLeft # 0
  PROVE  \E size \in 1 .. r.bytesLeft :
           /\ Chunk(r) = r.regs + r.count - r.bytesLeft ..
                         r.regs + r.count - r.bytesLeft + size - 1
           /\ Cardinality(Chunk(r)) = size
<1> DEFINE size == IF r.bytesLeft >= WordBytes THEN WordBytes ELSE 1
           first == r.regs + r.count - r.bytesLeft
<1>1. /\ r.bytesLeft \in Nat \ {0} /\ WordBytes \in Nat \ {0}
      /\ r.regs \in Int /\ r.count \in Nat
  BY CharDeviceAssumption, CallNumbers
<1>2. size \in 1 .. r.bytesLeft /\ first \in Int
  BY <1>1
<1>3. Chunk(r) = first .. first + size - 1
  BY DEF Chunk
<1>4. Cardinality(first .. first + size - 1) = size
  <2> HIDE DEF size, first
  <2>1. QED
    BY <1>1, <1>2, IntervalSize
<1>5. QED
  BY <1>2, <1>3, <1>4

(* Entering the driver changes the caller's call, and of the others only   *)
(* the history.                                                            *)
LEMMA Entered ==
  ASSUME TypeOK, NEW c \in Callers, NEW locals \in Call, Enter(c, locals)
  PROVE  /\ call' \in [Callers -> Call]
         /\ call'[c].op = locals.op /\ call'[c].file = locals.file
         /\ call'[c].count = locals.count /\ call'[c].ppos = locals.ppos
         /\ call'[c].regs = locals.regs /\ call'[c].got = locals.got
         /\ call'[c].bytesLeft = locals.bytesLeft
         /\ call'[c].touched = locals.touched
         /\ call'[c].overlapped = (Within(locals.file) # {})
         /\ \A d \in Callers \ {c} :
              /\ call'[d].op = call[d].op /\ call'[d].file = call[d].file
              /\ call'[d].count = call[d].count /\ call'[d].ppos = call[d].ppos
              /\ call'[d].regs = call[d].regs /\ call'[d].got = call[d].got
              /\ call'[d].bytesLeft = call[d].bytesLeft
              /\ call'[d].touched = call[d].touched
              /\ call'[d].overlapped =
                   (call[d].overlapped \/ d \in Within(locals.file))
<1> DEFINE shared == (Within(locals.file) # {})
<1>1. \A d \in Callers : call[d] \in Call /\ call[d].overlapped \in BOOLEAN
  BY DEF TypeOK, Call
<1>2. shared \in BOOLEAN
  OBVIOUS
<1>3. /\ call'[c] = [locals EXCEPT !.overlapped = shared]
      /\ \A d \in Callers \ {c} :
           call'[d] = IF d \in Within(locals.file)
                        THEN [call[d] EXCEPT !.overlapped = TRUE] ELSE call[d]
      /\ call' = [d \in Callers |-> call'[d]]
  BY Zenon DEF Enter
<1> HIDE DEF shared
<1>4. /\ call'[c] \in Call
      /\ call'[c].op = locals.op /\ call'[c].file = locals.file
      /\ call'[c].count = locals.count /\ call'[c].ppos = locals.ppos
      /\ call'[c].regs = locals.regs /\ call'[c].got = locals.got
      /\ call'[c].bytesLeft = locals.bytesLeft
      /\ call'[c].touched = locals.touched
      /\ call'[c].overlapped = shared
  <2>1. call'[c] = [locals EXCEPT !.overlapped = shared]
    BY <1>3
  <2>2. QED
    BY ONLY <1>2, <2>1, locals \in Call, Overlapped
<1>5. ASSUME NEW d \in Callers \ {c}
      PROVE  /\ call'[d] \in Call
             /\ call'[d].op = call[d].op /\ call'[d].file = call[d].file
             /\ call'[d].count = call[d].count /\ call'[d].ppos = call[d].ppos
             /\ call'[d].regs = call[d].regs /\ call'[d].got = call[d].got
             /\ call'[d].bytesLeft = call[d].bytesLeft
             /\ call'[d].touched = call[d].touched
             /\ call'[d].overlapped =
                  (call[d].overlapped \/ d \in Within(locals.file))
  <2>1. CASE d \in Within(locals.file)
    <3>1. call'[d] = [call[d] EXCEPT !.overlapped = TRUE]
      BY <1>3, <1>5, <2>1, Zenon
    <3>2. call[d] \in Call /\ TRUE \in BOOLEAN
      BY <1>1, <1>5
    <3>3. /\ call'[d] \in Call
          /\ call'[d].op = call[d].op /\ call'[d].file = call[d].file
          /\ call'[d].count = call[d].count /\ call'[d].ppos = call[d].ppos
          /\ call'[d].regs = call[d].regs /\ call'[d].got = call[d].got
          /\ call'[d].bytesLeft = call[d].bytesLeft
          /\ call'[d].touched = call[d].touched
      BY ONLY <3>1, <3>2 DEF Call
    <3>4. call'[d].overlapped = TRUE
      BY ONLY <3>1, <3>2 DEF Call
    <3>5. QED
      BY <2>1, <3>3, <3>4, Zenon
  <2>2. CASE d \notin Within(locals.file)
    <3>1. call'[d] = call[d]
      BY <1>3, <1>5, <2>2, Zenon
    <3>2. QED
      BY <1>1, <2>2, <3>1, Zenon
  <2>3. QED
    BY <2>1, <2>2
<1>6. call' \in [Callers -> Call]
  <2>1. \A d \in Callers : call'[d] \in Call
    BY <1>4, <1>5
  <2>2. QED
    BY <1>3, <2>1
<1>7. QED
  BY <1>4, <1>5, <1>6, Zenon DEF shared

(* The history of who was alone stays right when a caller enters.          *)
LEMMA EnteredAlone ==
  ASSUME TypeOK, AloneInv, NEW c \in Callers, NEW locals \in Call,
         locals.op \in {"read", "write", "llseek"}, Enter(c, locals),
         locals.op # "llseek" => locals.ppos = position[locals.file],
         position' = position
  PROVE  AloneInv'
<1> DEFINE f0 == locals.file
<1>1. /\ call'[c].op = locals.op /\ call'[c].file = f0
      /\ call'[c].ppos = locals.ppos
      /\ call'[c].overlapped = (Within(f0) # {})
  BY Entered, Zenon DEF f0
<1>2. \A d \in Callers \ {c} :
        /\ call'[d].op = call[d].op /\ call'[d].file = call[d].file
        /\ call'[d].ppos = call[d].ppos
        /\ call'[d].overlapped = (call[d].overlapped \/ d \in Within(f0))
  BY Entered, Zenon DEF f0
<1>3. call[c].op = "none"
  BY DEF Enter
<1> HIDE DEF f0
<1>4. ASSUME NEW f \in Files
      PROVE  Within(f)' = Within(f) \cup (IF f = f0 THEN {c} ELSE {})
  BY <1>1, <1>2, <1>3 DEF Within
<1>5. ASSUME NEW f \in Files, NEW b \in Within(f)', NEW d \in Within(f)', b # d
      PROVE  call'[b].overlapped
  <2>1. b \in Callers /\ d \in Callers
    BY DEF Within
  <2>2. CASE b = c
    <3>1. d \in Within(f0) /\ f = f0
      BY <1>3, <1>4, <1>5, <2>2 DEF Within
    <3>2. QED
      BY <1>1, <2>2, <3>1
  <2>3. CASE b # c /\ d = c
    <3>1. b \in Within(f0)
      BY <1>3, <1>4, <2>3 DEF Within
    <3>2. QED
      BY <1>2, <2>1, <2>3, <3>1
  <2>4. CASE b # c /\ d # c
    <3>1. b \in Within(f) /\ d \in Within(f)
      BY <1>4, <2>4
    <3>2. call[b].overlapped
      BY <1>5, <3>1 DEF AloneInv
    <3>3. QED
      BY <1>2, <2>1, <2>4, <3>2
  <2>5. QED
    BY <2>2, <2>3, <2>4
<1>6. ASSUME NEW d \in Callers, Copying(d)', ~call'[d].overlapped
      PROVE  call'[d].ppos = position'[call'[d].file]
  <2>1. CASE d = c
    <3>1. locals.op # "llseek"
      BY <1>1, <1>6, <2>1 DEF Copying
    <3>2. QED
      BY <1>1, <2>1, <3>1 DEF f0
  <2>2. CASE d # c
    <3>1. /\ Copying(d) /\ ~call[d].overlapped
          /\ call'[d].ppos = call[d].ppos /\ call'[d].file = call[d].file
      BY <1>2, <1>6, <2>2 DEF Copying
    <3>2. QED
      BY <3>1 DEF AloneInv
  <2>3. QED
    BY <2>1, <2>2
<1>7. QED
  BY <1>5, <1>6 DEF AloneInv

(* It stays right when a caller leaves, who may have moved the position.   *)
LEMMA LeftAlone ==
  ASSUME TypeOK, AloneInv, NEW c \in Callers,
         call[c].op \in {"read", "write", "llseek"},
         NEW locals \in Call, locals.op \in {"none", "dead"},
         call' = [call EXCEPT ![c] = locals],
         \A f \in Files : f # call[c].file => position'[f] = position[f]
  PROVE  AloneInv'
<1>1. /\ call'[c] = locals
      /\ \A d \in Callers \ {c} : call'[d] = call[d]
      /\ \A d \in Callers : call[d].file \in Files
  BY DEF TypeOK, Call
<1>2. ASSUME NEW f \in Files
      PROVE  Within(f)' = Within(f) \ {c}
  BY <1>1 DEF Within
<1>3. ASSUME NEW f \in Files, NEW b \in Within(f)', NEW d \in Within(f)', b # d
      PROVE  call'[b].overlapped
  <2>1. b \in Within(f) /\ d \in Within(f) /\ b # c
    BY <1>2
  <2>2. call[b].overlapped
    BY <1>3, <2>1 DEF AloneInv
  <2>3. QED
    BY <1>1, <2>1, <2>2 DEF Within
<1>4. ASSUME NEW d \in Callers, Copying(d)', ~call'[d].overlapped
      PROVE  call'[d].ppos = position'[call'[d].file]
  <2>1. d # c
    BY <1>1, <1>4 DEF Copying
  <2>2. call'[d] = call[d] /\ Copying(d) /\ ~call[d].overlapped
    BY <1>1, <1>4, <2>1 DEF Copying
  <2>3. call[d].file # call[c].file
    <3>1. d \in Within(call[d].file) /\ c \in Within(call[c].file)
      BY <2>2 DEF Within, Copying
    <3>2. QED
      BY <1>1, <2>1, <2>2, <3>1 DEF AloneInv
  <2>4. QED
    BY <1>1, <2>2, <2>3 DEF AloneInv
<1>5. QED
  BY <1>3, <1>4 DEF AloneInv

-----------------------------------------------------------------------------
LEMMA DeviceInit == Init => DeviceInv
<1> SUFFICES ASSUME Init PROVE DeviceInv
  OBVIOUS
<1>1. \A c \in Callers : call[c] = NoCall /\ call[c].op = "none"
  BY NoCallType DEF Init
<1>2. TypeOK
  <2>1. 0 \in 0 .. MaxPosition /\ 0 \in 0 .. MappingSpace /\ 0 \in Nat
    BY CharDeviceAssumption
  <2>2. QED
    BY <2>1, NoCallType DEF Init, TypeOK
<1>3. CallInv /\ AloneInv
  BY <1>1 DEF CallInv, AloneInv, Copying, Within
<1>4. MappingsAccounted
  <2>1. Mapping = {}
    BY <1>1 DEF Mapping, Copying
  <2>2. Cardinality(Mapping) = 0
    BY <2>1, FS_EmptySet
  <2>3. QED
    BY <2>2 DEF Init, MappingsAccounted
<1>5. QED
  BY <1>2, <1>3, <1>4 DEF DeviceInv

(* What starts a call.                                                     *)
LEMMA BeginStep ==
  ASSUME DeviceInv, NEW c \in Callers, NEW f \in Files,
         NEW op \in {"read", "write"}, NEW n \in Counts,
         NEW mapping \in BOOLEAN, Begin(c, f, op, n, mapping)
  PROVE  DeviceInv'
<1> DEFINE from == IF op = "write" THEN ToInt(position[f]) ELSE position[f]
           r == [op |-> op, file |-> f, count |-> n, ppos |-> position[f],
                 regs |-> from, got |-> mapping, bytesLeft |-> n,
                 touched |-> {}, overlapped |-> FALSE]
<1>1. TypeOK /\ CallInv /\ AloneInv /\ MappingsAccounted
  BY DEF DeviceInv
<1>2. /\ n \in Nat /\ position[f] \in 0 .. MaxPosition /\ position[f] \in Nat
      /\ position[f] + n <= MaxPosition
  BY <1>1, CountType DEF TypeOK, Begin
<1>3. from \in Int /\ (op = "read" \/ position[f] < IntLimit => from = position[f])
  BY <1>2, PositionToInt
<1>4. /\ r \in Call /\ r.op = op /\ r.file = f /\ r.ppos = position[f]
      /\ r.count = n /\ r.bytesLeft = n /\ r.touched = {} /\ r.regs = from
      /\ r.got = mapping
  <2> HIDE DEF from
  <2>1. QED
    BY <1>2, <1>3 DEF Call
<1>5. /\ Enter(c, r) /\ position' = position /\ faults' = faults
      /\ mapped' = mapped + (IF mapping THEN 1 ELSE 0)
      /\ mapping => n # 0 /\ mapped < MappingSpace
  BY DEF Begin
<1> HIDE DEF r
<1>6. TypeOK'
  <2>1. call' \in [Callers -> Call]
    BY <1>1, <1>4, <1>5, Entered
  <2>2. QED
    BY <1>1, <1>5, <2>1, CharDeviceAssumption DEF TypeOK
<1>7. /\ call'[c].op = op /\ call'[c].got = mapping /\ call'[c].count = n
      /\ call'[c].bytesLeft = n /\ call'[c].touched = {}
      /\ call'[c].regs = from /\ call'[c].ppos = position[f]
  BY <1>1, <1>4, <1>5, Entered, Zenon
<1>8. \A d \in Callers \ {c} :
        /\ call'[d].op = call[d].op /\ call'[d].got = call[d].got
        /\ call'[d].count = call[d].count
        /\ call'[d].bytesLeft = call[d].bytesLeft
        /\ call'[d].touched = call[d].touched
        /\ call'[d].regs = call[d].regs /\ call'[d].ppos = call[d].ppos
  BY <1>1, <1>4, <1>5, Entered
<1>9. CallInv'
  <2> SUFFICES ASSUME NEW d \in Callers, Copying(d)'
               PROVE  /\ call'[d].bytesLeft <= call'[d].count
                      /\ call'[d].touched =
                           call'[d].regs ..
                             call'[d].regs + call'[d].count - call'[d].bytesLeft - 1
                      /\ call'[d].op = "read" \/ call'[d].ppos < IntLimit
                           => call'[d].regs = call'[d].ppos
                      /\ call'[d].ppos + call'[d].count <= MaxPosition
    BY DEF CallInv
  <2> HIDE DEF from
  <2>1. CASE d = c
    <3>1. from + n - n - 1 = from - 1 /\ from .. from - 1 = {} /\ n <= n
      BY <1>2, <1>3
    <3>2. call'[d].regs + call'[d].count - call'[d].bytesLeft - 1 = from - 1
      BY <1>7, <2>1, <3>1, Zenon
    <3>3. call'[d].touched = call'[d].regs ..
            call'[d].regs + call'[d].count - call'[d].bytesLeft - 1
      BY <1>7, <2>1, <3>1, <3>2, Zenon
    <3>4. QED
      BY <1>2, <1>3, <1>7, <2>1, <3>1, <3>3, Zenon
  <2>2. CASE d # c
    BY <1>1, <1>8, <2>2 DEF CallInv, Copying
  <2>3. QED
    BY <2>1, <2>2
<1>10. AloneInv'
  BY <1>1, <1>4, <1>5, EnteredAlone
<1>11. MappingsAccounted'
  <2>1. c \notin Mapping
    BY DEF Mapping, Copying, Begin, Enter
  <2>2. Mapping' = IF mapping THEN Mapping \cup {c} ELSE Mapping
    BY <1>7, <1>8, <2>1 DEF Mapping, Copying
  <2>3. Cardinality(Mapping \cup {c}) = Cardinality(Mapping) + 1
    BY <2>1, MappingFinite, FS_AddElement
  <2>4. QED
    BY <1>1, <1>5, <2>2, <2>3, MappingFinite DEF MappingsAccounted, TypeOK
<1>12. QED
  BY <1>6, <1>9, <1>10, <1>11 DEF DeviceInv

(* A step of the loop appends to what the call has accessed.               *)
LEMMA CopyStep ==
  ASSUME DeviceInv, NEW c \in Callers, Copy(c)
  PROVE  DeviceInv'
<1> DEFINE r == call[c]
           first == r.regs + r.count - r.bytesLeft
<1>1. TypeOK /\ CallInv /\ AloneInv /\ MappingsAccounted
  BY DEF DeviceInv
<1>2. /\ r \in Call /\ r.count \in Nat /\ r.regs \in Int /\ r.bytesLeft \in Nat
      /\ r.bytesLeft # 0 /\ r.bytesLeft <= r.count
      /\ r.touched = r.regs .. first - 1 /\ r.touched \in SUBSET Int
      /\ r.op = "read" \/ r.ppos < IntLimit => r.regs = r.ppos
      /\ r.ppos + r.count <= MaxPosition
  BY <1>1, CountType DEF TypeOK, CallInv, Call, Copy
<1>3. PICK size \in 1 .. r.bytesLeft :
        /\ Chunk(r) = first .. first + size - 1
        /\ Cardinality(Chunk(r)) = size
  BY <1>2, ChunkBounds
<1>4. r.bytesLeft - size \in Nat /\ r.bytesLeft - size <= r.count
  BY <1>2
<1>5. r.touched \cup (first .. first + size - 1) = r.regs .. first + size - 1
  <2>1. first \in Int /\ r.regs <= first /\ size \in Nat
    BY <1>2
  <2> HIDE DEF first
  <2>2. QED
    BY <1>2, <2>1, Appended
<1> DEFINE after == [r EXCEPT !.touched = r.regs .. first + size - 1,
                              !.bytesLeft = r.bytesLeft - size]
<1>6. call' = [call EXCEPT ![c] = after]
  BY <1>1, <1>2, <1>3, <1>5 DEF Copy, TypeOK, Call
<1>7. /\ after \in Call /\ after.op = r.op /\ after.file = r.file
      /\ after.count = r.count /\ after.ppos = r.ppos /\ after.regs = r.regs
      /\ after.got = r.got /\ after.overlapped = r.overlapped
      /\ after.touched = r.regs .. first + size - 1
      /\ after.bytesLeft = r.bytesLeft - size
  <2>1. r.regs .. first + size - 1 \in SUBSET Int
    BY <1>2
  <2>2. QED
    BY <1>2, <1>4, <2>1 DEF Call
<1> HIDE DEF after
<1>8. call'[c] = after /\ \A d \in Callers \ {c} : call'[d] = call[d]
  BY <1>1, <1>6 DEF TypeOK
<1>9. UNCHANGED << position, mapped, faults >>
  BY DEF Copy
<1>10. TypeOK'
  BY <1>1, <1>6, <1>7, <1>9 DEF TypeOK
<1>11. CallInv'
  <2> SUFFICES ASSUME NEW d \in Callers, Copying(d)'
               PROVE  /\ call'[d].bytesLeft <= call'[d].count
                      /\ call'[d].touched =
                           call'[d].regs ..
                             call'[d].regs + call'[d].count - call'[d].bytesLeft - 1
                      /\ call'[d].op = "read" \/ call'[d].ppos < IntLimit
                           => call'[d].regs = call'[d].ppos
                      /\ call'[d].ppos + call'[d].count <= MaxPosition
    BY DEF CallInv
  <2>1. CASE d = c
    <3>1. r.regs + r.count - (r.bytesLeft - size) - 1 = first + size - 1
      BY <1>2
    <3>2. QED
      BY <1>2, <1>4, <1>7, <1>8, <2>1, <3>1
  <2>2. CASE d # c
    BY <1>1, <1>8, <2>2 DEF CallInv, Copying
  <2>3. QED
    BY <2>1, <2>2
<1>12. AloneInv' /\ MappingsAccounted'
  <2>1. \A d \in Callers : /\ call'[d].op = call[d].op
                           /\ call'[d].file = call[d].file
                           /\ call'[d].ppos = call[d].ppos
                           /\ call'[d].got = call[d].got
                           /\ call'[d].overlapped = call[d].overlapped
    BY <1>7, <1>8
  <2>2. \A f \in Files : Within(f)' = Within(f)
    BY <2>1 DEF Within
  <2>3. Mapping' = Mapping
    BY <2>1 DEF Mapping, Copying
  <2>4. AloneInv'
    BY <1>1, <1>9, <2>1, <2>2 DEF AloneInv, Copying, Within
  <2>5. QED
    BY <1>1, <1>9, <2>3, <2>4 DEF MappingsAccounted
<1>13. QED
  BY <1>10, <1>11, <1>12 DEF DeviceInv

(* What holds when a caller leaves, in whatever way: the rest is the count *)
(* of the mappings.                                                        *)
LEMMA Left ==
  ASSUME DeviceInv, NEW c \in Callers, call[c].op \in {"read", "write", "llseek"},
         NEW locals \in Call, locals.op \in {"none", "dead"},
         call' = [call EXCEPT ![c] = locals],
         \/ position' = position
         \/ \E to \in 0 .. MaxPosition : position' = Moved(c, to)
  PROVE  /\ call' \in [Callers -> Call]
         /\ position' \in [Files -> 0 .. MaxPosition]
         /\ CallInv' /\ AloneInv'
         /\ Mapping' = Mapping \ {c}
<1>1. TypeOK /\ CallInv /\ AloneInv
  BY DEF DeviceInv
<1>2. /\ call'[c] = locals
      /\ \A d \in Callers \ {c} : call'[d] = call[d]
      /\ call' \in [Callers -> Call]
  BY <1>1 DEF TypeOK
<1>3. /\ position' \in [Files -> 0 .. MaxPosition]
      /\ \A f \in Files : f # call[c].file => position'[f] = position[f]
  BY <1>1 DEF TypeOK, Moved
<1>4. CallInv'
  BY <1>1, <1>2 DEF CallInv, Copying
<1>5. AloneInv'
  BY <1>1, <1>3, LeftAlone
<1>6. Mapping' = Mapping \ {c}
  BY <1>2 DEF Mapping, Copying
<1>7. QED
  BY <1>2, <1>3, <1>4, <1>5, <1>6

(* A caller without a mapping dies.                                        *)
LEMMA DieStep ==
  ASSUME DeviceInv, NEW c \in Callers, Die(c)
  PROVE  DeviceInv'
<1>1. TypeOK /\ MappingsAccounted
  BY DEF DeviceInv
<1>2. /\ call[c].op \in {"read", "write"}
      /\ call' = [call EXCEPT ![c] = [NoCall EXCEPT !.op = "dead"]]
      /\ UNCHANGED << position, mapped, faults >> /\ c \notin Mapping
  BY DEF Die, Copying, Mapping
<1>3. /\ call' \in [Callers -> Call] /\ CallInv' /\ AloneInv'
      /\ Mapping' = Mapping \ {c}
  BY <1>2, NoCallType, Left
<1>4. Mapping' = Mapping
  BY <1>2, <1>3
<1>5. QED
  BY <1>1, <1>2, <1>3, <1>4 DEF DeviceInv, TypeOK, MappingsAccounted

(* A call left in the middle leaves its mapping behind and one fault.      *)
LEMMA FaultStep ==
  ASSUME DeviceInv, NEW c \in Callers, Fault(c)
  PROVE  DeviceInv'
<1>1. TypeOK /\ MappingsAccounted
  BY DEF DeviceInv
<1>2. /\ call[c].op \in {"read", "write"}
      /\ call' = [call EXCEPT ![c] = NoCall]
      /\ UNCHANGED << position, mapped >>
      /\ faults' = faults + (IF call[c].got THEN 1 ELSE 0)
      /\ c \in Mapping <=> call[c].got
  BY DEF Fault, Leave, Copying, Mapping
<1>3. /\ call' \in [Callers -> Call] /\ CallInv' /\ AloneInv'
      /\ Mapping' = Mapping \ {c}
  BY <1>2, NoCallType, Left
<1>4. c \in Mapping => Cardinality(Mapping') = Cardinality(Mapping) - 1
  BY <1>3, MappingFinite, FS_RemoveElement
<1>5. c \notin Mapping => Mapping' = Mapping
  BY <1>3
<1>6. MappingsAccounted'
  BY <1>1, <1>2, <1>4, <1>5, MappingFinite, CharDeviceAssumption
  DEF MappingsAccounted, TypeOK
<1>7. QED
  BY <1>1, <1>2, <1>3, <1>6 DEF DeviceInv, TypeOK

(* A call that comes to its end gives its mapping back.                    *)
LEMMA EndStep ==
  ASSUME DeviceInv, NEW c \in Callers, End(c)
  PROVE  DeviceInv'
<1>1. TypeOK /\ MappingsAccounted /\ CallInv
  BY DEF DeviceInv
<1>2. /\ call[c].op \in {"read", "write"}
      /\ call' = [call EXCEPT ![c] = NoCall]
      /\ position' = Moved(c, call[c].ppos + call[c].count) /\ faults' = faults
      /\ mapped' = mapped - (IF call[c].got THEN 1 ELSE 0)
      /\ c \in Mapping <=> call[c].got
  BY DEF End, Leave, Copying, Mapping
<1>3. call[c].ppos + call[c].count \in 0 .. MaxPosition
  <2>1. /\ call[c].ppos \in Nat /\ call[c].count \in Nat
        /\ call[c].ppos + call[c].count <= MaxPosition
    <3>1. call[c] \in Call /\ Copying(c)
      BY <1>1, <1>2 DEF TypeOK, Copying
    <3>2. QED
      BY <1>1, <3>1, CallNumbers DEF CallInv
  <2>2. QED
    BY <2>1, CharDeviceAssumption
<1>4. /\ call' \in [Callers -> Call] /\ CallInv' /\ AloneInv'
      /\ position' \in [Files -> 0 .. MaxPosition]
      /\ Mapping' = Mapping \ {c}
  BY <1>2, <1>3, NoCallType, Left
<1>5. c \in Mapping =>
        /\ Cardinality(Mapping') = Cardinality(Mapping) - 1
        /\ Cardinality(Mapping') \in Nat
  BY <1>4, MappingFinite, FS_RemoveElement, FS_CardinalityType
<1>6. c \notin Mapping => Mapping' = Mapping
  BY <1>4
<1>7. MappingsAccounted' /\ mapped' \in 0 .. MappingSpace
  BY <1>1, <1>2, <1>5, <1>6, MappingFinite, CharDeviceAssumption
  DEF MappingsAccounted, TypeOK
<1>8. QED
  BY <1>1, <1>2, <1>4, <1>7 DEF DeviceInv, TypeOK

LEMMA LlseekStep ==
  ASSUME DeviceInv, NEW c \in Callers, NEW f \in Files, NEW off \in Offsets,
         NEW whence \in {"SEEK_SET", "SEEK_CUR"}, Llseek(c, f, off, whence)
  PROVE  DeviceInv'
<1> DEFINE newpos == IF whence = "SEEK_SET" THEN off ELSE position[f] + off
           r == [NoCall EXCEPT !.op = "llseek", !.file = f, !.ppos = newpos]
<1>1. TypeOK /\ CallInv /\ AloneInv /\ MappingsAccounted
  BY DEF DeviceInv
<1>2. /\ newpos \in 0 .. MaxPosition /\ Enter(c, r)
      /\ UNCHANGED << position, mapped, faults >>
  BY DEF Llseek
<1> HIDE DEF newpos
<1>3. r \in Call /\ r.op = "llseek"
  BY <1>2, NoCallType DEF Call
<1> HIDE DEF r
<1>4. /\ call' \in [Callers -> Call] /\ call'[c].op = "llseek"
      /\ \A d \in Callers \ {c} :
           /\ call'[d].op = call[d].op /\ call'[d].got = call[d].got
           /\ call'[d].count = call[d].count
           /\ call'[d].bytesLeft = call[d].bytesLeft
           /\ call'[d].touched = call[d].touched
           /\ call'[d].regs = call[d].regs /\ call'[d].ppos = call[d].ppos
  BY <1>1, <1>2, <1>3, Entered
<1>5. CallInv'
  BY <1>1, <1>4 DEF CallInv, Copying
<1>6. AloneInv'
  BY <1>1, <1>2, <1>3, EnteredAlone
<1>7. Mapping' = Mapping
  BY <1>4 DEF Mapping, Copying, Llseek, Enter
<1>8. QED
  BY <1>1, <1>2, <1>4, <1>5, <1>6, <1>7 DEF DeviceInv, TypeOK, MappingsAccounted

LEMMA LlseekStoreStep ==
  ASSUME DeviceInv, NEW c \in Callers, LlseekStore(c)
  PROVE  DeviceInv'
<1>1. TypeOK /\ MappingsAccounted
  BY DEF DeviceInv
<1>2. /\ call[c].op = "llseek" /\ call' = [call EXCEPT ![c] = NoCall]
      /\ position' = Moved(c, call[c].ppos) /\ UNCHANGED << mapped, faults >>
      /\ c \notin Mapping
  BY DEF LlseekStore, Leave, Mapping, Copying
<1>3. call[c].ppos \in 0 .. MaxPosition
  BY <1>1 DEF TypeOK, Call
<1>4. /\ call' \in [Callers -> Call] /\ CallInv' /\ AloneInv'
      /\ position' \in [Files -> 0 .. MaxPosition]
      /\ Mapping' = Mapping \ {c}
  BY <1>2, <1>3, NoCallType, Left
<1>5. Mapping' = Mapping
  BY <1>2, <1>4
<1>6. QED
  BY <1>1, <1>2, <1>4, <1>5 DEF DeviceInv, TypeOK, MappingsAccounted

LEMMA DeviceStep == DeviceInv /\ [Next]_vars => DeviceInv'
<1> SUFFICES ASSUME DeviceInv, [Next]_vars PROVE DeviceInv'
  OBVIOUS
<1>1. CASE Next
  BY <1>1, BeginStep, CopyStep, DieStep, FaultStep, EndStep, LlseekStep,
     LlseekStoreStep
  DEF Next
<1>2. CASE UNCHANGED vars
  BY <1>2 DEF vars, DeviceInv, TypeOK, CallInv, AloneInv, MappingsAccounted,
              Mapping, Within, Copying
<1>3. QED
  BY <1>1, <1>2

-----------------------------------------------------------------------------
(* The inductive invariant: types, what a call in progress has accessed,   *)
(* who has a file to himself, and the count of the mappings.               *)
THEOREM DeviceInvariant == Spec => []DeviceInv
<1>1. QED
  BY DeviceInit, DeviceStep, PTL DEF Spec

(* Every mapping is that of a call in progress or of a call that failed:   *)
(* read and write give back theirs exactly when the copy succeeds.         *)
THEOREM MappingsAreAccounted == Spec => []MappingsAccounted
<1>1. DeviceInv => MappingsAccounted
  BY DEF DeviceInv
<1>2. QED
  BY <1>1, DeviceInvariant, PTL

(* A copy that has come to its end has accessed the registers at the       *)
(* position it found, as many as were asked for, for a count that is not a *)
(* multiple of the word's size as well, and whatever others do to the      *)
(* file.                                                                   *)
THEOREM TransfersAreExact == Spec => []TransferExact
<1>1. DeviceInv => TransferExact
  <2> SUFFICES ASSUME DeviceInv, NEW c \in Callers, Copying(c),
                      call[c].bytesLeft = 0,
                      call[c].op = "read" \/ call[c].ppos < IntLimit
               PROVE  call[c].touched =
                        call[c].ppos .. call[c].ppos + call[c].count - 1
    BY DEF TransferExact, Exact
  <2>1. call[c].count \in Nat /\ call[c].ppos \in Nat
    <3>1. call[c] \in Call
      BY DEF DeviceInv, TypeOK
    <3>2. QED
      BY <3>1, CallNumbers
  <2>2. /\ call[c].regs = call[c].ppos
        /\ call[c].touched = call[c].regs ..
             call[c].regs + call[c].count - call[c].bytesLeft - 1
    BY DEF DeviceInv, CallInv
  <2>3. call[c].regs + call[c].count - call[c].bytesLeft - 1
          = call[c].ppos + call[c].count - 1
    BY <2>1, <2>2
  <2>4. QED
    BY <2>2, <2>3
<1>2. QED
  BY <1>1, DeviceInvariant, PTL

(* A file's position is moved by seeks and by calls that have accessed as  *)
(* many registers as asked for; by one that was alone, past just these.    *)
THEOREM PositionFollows == Spec => PositionFollowsCopy
<1> DEFINE Moves(f, c) ==
      /\ call'[c].op = "none"
      /\ Copying(c) =>
           /\ position'[f] = call[c].ppos + call[c].count
           /\ Cardinality(call[c].touched) = call[c].count
           /\ call[c].overlapped \/ call[c].ppos = position[f]
           Follows ==
      \A f \in Files : position'[f] # position[f] => \E c \in Within(f) : Moves(f, c)
<1>1. DeviceInv /\ [Next]_vars => [Follows]_vars
  <2> SUFFICES ASSUME DeviceInv, Next, NEW f \in Files, position'[f] # position[f]
               PROVE  \E c \in Within(f) : Moves(f, c)
    OBVIOUS
  <2>1. TypeOK /\ CallInv /\ AloneInv
    BY DEF DeviceInv
  <2>2. PICK c \in Callers : End(c) \/ LlseekStore(c)
    BY DEF Next, Begin, Copy, Die, Fault, Llseek
  <2>3. /\ call[c].op \in {"read", "write", "llseek"}
        /\ call' = [call EXCEPT ![c] = NoCall]
        /\ \E to : position' = Moved(c, to)
        /\ Copying(c) => position' = Moved(c, call[c].ppos + call[c].count)
    BY <2>2 DEF End, LlseekStore, Leave, Copying
  <2>4. call[c].file = f /\ c \in Within(f)
    BY <2>1, <2>3 DEF Moved, TypeOK, Within
  <2>5. call'[c].op = "none"
    BY <2>1, <2>3, NoCallType DEF TypeOK
  <2>6. ASSUME Copying(c)
        PROVE  /\ position'[f] = call[c].ppos + call[c].count
               /\ Cardinality(call[c].touched) = call[c].count
               /\ call[c].overlapped \/ call[c].ppos = position[f]
    <3>1. position'[f] = call[c].ppos + call[c].count
      <4>1. position' = [position EXCEPT ![f] = call[c].ppos + call[c].count]
        BY <2>3, <2>4, <2>6, Zenon DEF Moved
      <4>2. QED
        BY <2>1, <4>1, Zenon DEF TypeOK
    <3>2. call[c].bytesLeft = 0
      BY <2>2, <2>6 DEF End, LlseekStore, Copying
    <3>3. call[c].count \in Nat /\ call[c].regs \in Int
      BY <2>1, CallNumbers DEF TypeOK
    <3>4. call[c].touched = call[c].regs .. call[c].regs + call[c].count - 1
      <4>1. call[c].touched = call[c].regs ..
              call[c].regs + call[c].count - call[c].bytesLeft - 1
        BY <2>1, <2>6 DEF CallInv
      <4>2. call[c].regs + call[c].count - call[c].bytesLeft - 1
              = call[c].regs + call[c].count - 1
        BY <3>2, <3>3
      <4>3. QED
        BY <4>1, <4>2
    <3>5. Cardinality(call[c].regs .. call[c].regs + call[c].count - 1)
            = call[c].count
      BY <3>3, IntervalSize
    <3>6. call[c].overlapped \/ call[c].ppos = position[f]
      BY <2>1, <2>4, <2>6 DEF AloneInv
    <3>7. QED
      BY <3>1, <3>4, <3>5, <3>6
  <2>7. QED
    BY <2>4, <2>5, <2>6
<1>2. QED
  BY <1>1, DeviceInvariant, PTL DEF Spec, PositionFollowsCopy
=============================================================================

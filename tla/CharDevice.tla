----------------------------- MODULE CharDevice -----------------------------
(***************************************************************************)
(* The character device's window on the PCIe BAR: read, write and llseek   *)
(* (nalla_250_soc_device.c).                                               *)
(*                                                                         *)
(* A call maps the registers at the file's position, copies them in words  *)
(* and the rest in bytes to or from the caller's buffer, unmaps them and   *)
(* moves the position.  When the caller's buffer cannot be accessed the    *)
(* copy is left in the middle, with the registers mapped and the position  *)
(* where it was.  The driver does not look whether it got a mapping.       *)
(*                                                                         *)
(* Several callers may share an open file.  The kernel (external) gives a  *)
(* read or write a copy of the file's position and takes the copy back if  *)
(* the call succeeds; only for regular files does it keep other calls out  *)
(* meanwhile, so the calls of a device's file interleave.                  *)
(***************************************************************************)
EXTENDS Integers, FiniteSets

CONSTANTS
  Callers,         \* processes and threads
  Files,           \* open files of the device
  WordBytes,       \* 4
  Counts,          \* bytes the callers ask for
  Offsets,         \* where they seek to, from the start or the position
  IntLimit,        \* 2^31: the least number a C int does not hold
  MaxPosition,     \* bound: nobody reads, writes or seeks beyond it
  MappingSpace     \* how many mappings the kernel has space for

ASSUME CharDeviceAssumption ==
  /\ IsFiniteSet(Callers) /\ Files # {}
  /\ WordBytes \in Nat \ {0} /\ IntLimit \in Nat \ {0}
  /\ Counts \subseteq 0 .. IntLimit - 1
  /\ Offsets \subseteq Int
  /\ MaxPosition \in Nat /\ MappingSpace \in Nat

VARIABLES
  call,            \* of each caller: its call, with the local variables
  position,        \* of each file: f_pos
  mapped,          \* how many mappings of the registers the kernel has made
  faults           \* history: calls with a mapping left in the middle

vars == << call, position, mapped, faults >>

Call ==
  [op : {"none", "read", "write", "llseek", "dead"},
                          \* "dead": killed by an access through a null pointer
   file : Files,
   count : Counts \cup {0},
   ppos : 0 .. MaxPosition, \* *ppos, the copy of f_pos; in llseek newpos
   regs : Int,            \* where its mapping begins, from the BAR's first
   got : BOOLEAN,         \* ioremap made that mapping
   bytesLeft : Nat,
   touched : SUBSET Int,  \* the registers it has accessed
   overlapped : BOOLEAN]  \* history: the file was another call's at some time

NoCall ==
  [op |-> "none", file |-> CHOOSE f \in Files : TRUE, count |-> 0, ppos |-> 0,
   regs |-> 0, got |-> FALSE, bytesLeft |-> 0, touched |-> {},
   overlapped |-> FALSE]

(* The conversion of a file position to int.                               *)
ToInt(pos) ==
  LET word == pos % (2 * IntLimit)
  IN  IF word < IntLimit THEN word ELSE word - 2 * IntLimit

Copying(c) == call[c].op \in {"read", "write"}

(* Who is in a call of the file.                                           *)
Within(f) ==
  {c \in Callers : call[c].op \in {"read", "write", "llseek"} /\ call[c].file = f}

Init ==
  /\ call = [c \in Callers |-> NoCall]
  /\ position = [f \in Files |-> 0]
  /\ mapped = 0 /\ faults = 0

-----------------------------------------------------------------------------
(* A caller enters the driver, with these local variables, ...             *)
Enter(c, locals) ==
  /\ call[c].op = "none"
  /\ call' = [d \in Callers |->
                IF d = c
                  THEN [locals EXCEPT !.overlapped = Within(locals.file) # {}]
                ELSE IF d \in Within(locals.file)
                  THEN [call[d] EXCEPT !.overlapped = TRUE]
                ELSE call[d]]

(* ... and leaves it.                                                      *)
Leave(c) == call' = [call EXCEPT ![c] = NoCall]

(* nalla250_SocRead and nalla250_SocWrite.  The two differ in the mapping: *)
(* the position is an int in a write.  ioremap may fail, and does for no   *)
(* bytes.                                                                  *)
Begin(c, f, op, n, mapping) ==
  /\ position[f] + n <= MaxPosition
  /\ mapping => n # 0 /\ mapped < MappingSpace
  /\ Enter(c, [op |-> op, file |-> f, count |-> n, ppos |-> position[f],
               regs |-> IF op = "write" THEN ToInt(position[f])
                        ELSE position[f],
               got |-> mapping, bytesLeft |-> n, touched |-> {},
               overlapped |-> FALSE])
  /\ mapped' = mapped + (IF mapping THEN 1 ELSE 0)
  /\ UNCHANGED << position, faults >>

(* A slip to catch: the bytes after the words come from one register.      *)
StuckChunk(r) ==
  LET words == r.count - (r.count % WordBytes)
      done == r.count - r.bytesLeft
      first == r.regs + (IF done < words THEN done ELSE words)
  IN  first .. first + (IF r.bytesLeft >= WordBytes THEN WordBytes ELSE 1) - 1

(* The registers the next step of the call's loop accesses.                *)
Chunk(r) ==
  LET first == r.regs + r.count - r.bytesLeft
  IN  first .. first + (IF r.bytesLeft >= WordBytes THEN WordBytes ELSE 1) - 1

Copy(c) ==
  /\ Copying(c) /\ call[c].bytesLeft # 0 /\ call[c].got
  /\ call' = [call EXCEPT
                ![c].touched = @ \cup Chunk(call[c]),
                ![c].bytesLeft = @ - Cardinality(Chunk(call[c]))]
  /\ UNCHANGED << position, mapped, faults >>

(* The first access through the NULL of an ioremap that failed.            *)
Die(c) ==
  /\ Copying(c) /\ call[c].bytesLeft # 0 /\ ~call[c].got
  /\ call' = [call EXCEPT ![c] = [NoCall EXCEPT !.op = "dead"]]
  /\ UNCHANGED << position, mapped, faults >>

(* copy_to_user or copy_from_user fails: -EINVAL, and the kernel drops its *)
(* copy of the position.  A write gets here before it accesses a register, *)
(* and so even without a mapping.                                          *)
Fault(c) ==
  /\ Copying(c) /\ call[c].bytesLeft # 0
  /\ call[c].got \/ call[c].op = "write"
  /\ Leave(c)
  /\ faults' = faults + (IF call[c].got THEN 1 ELSE 0)
  /\ UNCHANGED << position, mapped >>

(* The file's position: a call that succeeds has moved its copy, and the   *)
(* kernel takes the copy back.                                             *)
Moved(c, to) == [position EXCEPT ![call[c].file] = to]

(* Slips to catch: the mapping is kept, ...                                *)
EndMapped(c) ==
  /\ Copying(c) /\ call[c].bytesLeft = 0
  /\ position' = Moved(c, call[c].ppos + call[c].count) /\ Leave(c)
  /\ UNCHANGED << mapped, faults >>

(* ... or the bytes that do not make up a word are not copied.             *)
EndWords(c) ==
  /\ Copying(c) /\ call[c].bytesLeft < WordBytes
  /\ mapped' = mapped - (IF call[c].got THEN 1 ELSE 0)
  /\ position' = Moved(c, call[c].ppos + call[c].count) /\ Leave(c)
  /\ UNCHANGED faults

End(c) ==
  /\ Copying(c) /\ call[c].bytesLeft = 0
  /\ mapped' = mapped - (IF call[c].got THEN 1 ELSE 0)
  /\ position' = Moved(c, call[c].ppos + call[c].count) /\ Leave(c)
  /\ UNCHANGED faults

(* nalla250_SocLlseek works on f_pos itself: it reads it, and ...          *)
(* SEEK_END, and a position before the first, are -EINVAL and change       *)
(* nothing.                                                                *)
Llseek(c, f, off, whence) ==
  LET newpos == IF whence = "SEEK_SET" THEN off ELSE position[f] + off
  IN  /\ newpos \in 0 .. MaxPosition
      /\ Enter(c, [NoCall EXCEPT !.op = "llseek", !.file = f, !.ppos = newpos])
      /\ UNCHANGED << position, mapped, faults >>

(* ... writes it.                                                          *)
LlseekStore(c) ==
  /\ call[c].op = "llseek"
  /\ position' = Moved(c, call[c].ppos) /\ Leave(c)
  /\ UNCHANGED << mapped, faults >>

Next ==
  \E c \in Callers :
    \/ \E f \in Files, op \in {"read", "write"}, n \in Counts,
          mapping \in BOOLEAN : Begin(c, f, op, n, mapping)
    \/ Copy(c) \/ Die(c) \/ Fault(c) \/ End(c)
    \/ \E f \in Files, off \in Offsets, whence \in {"SEEK_SET", "SEEK_CUR"} :
         Llseek(c, f, off, whence)
    \/ LlseekStore(c)

Spec == Init /\ [][Next]_vars

-----------------------------------------------------------------------------
(* The callers in a call that has a mapping.                               *)
Mapping == {c \in Callers : Copying(c) /\ call[c].got}

(* Every variable has its type (one invariant for the whole module).       *)
TypeOK ==
  /\ call \in [Callers -> Call]
  /\ position \in [Files -> 0 .. MaxPosition]
  /\ mapped \in 0 .. MappingSpace
  /\ faults \in Nat

(* The call has accessed the registers from the position it found on, as   *)
(* many as it was asked for, and no others.                                *)
Exact(r) == r.touched = r.ppos .. r.ppos + r.count - 1

(* So has every call that has copied all its bytes, whatever other calls   *)
(* do to its file meanwhile; a write below 2 GiB only.                     *)
TransferExact ==
  \A c \in Callers :
    /\ Copying(c) /\ call[c].bytesLeft = 0
    /\ call[c].op = "read" \/ call[c].ppos < IntLimit
    => Exact(call[c])

(* What a call in progress has done so far, and where.                     *)
CallInv ==
  \A c \in Callers : Copying(c) =>
    LET r == call[c]
    IN  /\ r.bytesLeft <= r.count
        /\ r.touched = r.regs .. r.regs + r.count - r.bytesLeft - 1
        /\ r.op = "read" \/ r.ppos < IntLimit => r.regs = r.ppos
        /\ r.ppos + r.count <= MaxPosition

(* Calls that share their file know of each other, and a call that has its *)
(* file to itself works at the file's position.                            *)
AloneInv ==
  /\ \A f \in Files : \A c, d \in Within(f) : c # d => call[c].overlapped
  /\ \A c \in Callers :
       Copying(c) /\ ~call[c].overlapped
         => call[c].ppos = position[call[c].file]

(* The mappings are those of the calls in progress and one for each call   *)
(* that failed since the module was loaded, which nothing gives back.      *)
MappingsAccounted == mapped = faults + Cardinality(Mapping)

(* All of it: what makes the properties inductive.                         *)
DeviceInv == TypeOK /\ CallInv /\ AloneInv /\ MappingsAccounted

(* Only a seek, and a call that has accessed as many registers as it was   *)
(* asked for, moves a file's position, so that the caller may repeat a     *)
(* call that failed.  A call that had the file to itself moves it past     *)
(* just these registers; calls that overlap each move it from where they   *)
(* found it, and the last one counts.                                      *)
PositionFollowsCopy ==
  [][\A f \in Files : position'[f] # position[f] =>
       \E c \in Within(f) :
         /\ call'[c].op = "none"
         /\ Copying(c) =>
              /\ position'[f] = call[c].ppos + call[c].count
              /\ Cardinality(call[c].touched) = call[c].count
              /\ call[c].overlapped \/ call[c].ppos = position[f]]_vars
=============================================================================

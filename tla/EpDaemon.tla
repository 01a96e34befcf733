------------------------------ MODULE EpDaemon ------------------------------
(***************************************************************************)
(* The daemon that coordinates the address of the ethernet-over-PCIe link  *)
(* with the PC host (ep_daemon.sh), and the init script that starts and    *)
(* stops it (nalla250socd).                                                *)
(*                                                                         *)
(* Every fifteen seconds it polls the reset register.  If no reset has     *)
(* been active since its last poll it makes sure that the end point driver *)
(* is loaded, reports the address of nalla0 to the host in one shared word *)
(* and obeys the address, or the absence of one, that the host wrote to    *)
(* another.                                                                *)
(*                                                                         *)
(* Host, resets, init script and daemon interleave between the daemon's    *)
(* commands.                                                               *)
(***************************************************************************)
EXTENDS Naturals

CONSTANTS
  ByteRange,       \* 256: the values of a byte
  Instructions,    \* the words the host may write as its instruction
  MaxInstructions, \* bound: how often the host writes one
  MaxResets,       \* bound: how often a reset becomes active
  MaxStops         \* bound: how often the init script stops the daemon

ASSUME DaemonAssumption ==
  /\ ByteRange \in Nat /\ ByteRange >= 2
  /\ Instructions \subseteq 0 .. ByteRange ^ 4 - 1
  /\ MaxInstructions \in Nat /\ MaxResets \in Nat /\ MaxStops \in Nat

VARIABLES
  \* PC host and fabric
  instruction,     \* word at PC_HOST_IP_INSTRUCTION_ADDRESS
  report,          \* word at SOC_IP_REPORT_ADDRESS
  resetActive,     \* a reset of the PCIe, AXI or BRAM side is active
  resetLatched,    \* a bit of the reset register is set
  instructions,    \* how often the host wrote its instruction
  resets,          \* how often a reset became active
  \* the SoC
  driver,          \* is the module loaded, and did it register nalla0?
  nalla0,          \* the interface: up, and its address in octets
  \* the daemon
  pc,              \* its next command, or "stopped"
  resetState,      \* its variable RESET_STATE: is a bit set?
  inputValue,      \* its variable INPUT_VALUE
  lost,            \* history: the last reset's bit was read by a daemon that
                   \* was killed before it tested it
  \* the init script
  script,          \* what it does next
  stops            \* how often it stopped the daemon

hostVars == << instruction, instructions >>
resetVars == << resetActive, resetLatched, resets >>
shellVars == << resetState, inputValue >>
scriptVars == << script, stops >>
vars == << hostVars, resetVars, report, driver, nalla0, pc, shellVars, lost,
           scriptVars >>

Byte == 0 .. ByteRange - 1
NoAddress == << 0, 0, 0, 0 >>

(* The address in a word: most significant byte first.                     *)
Octets(word) ==
  << (word \div ByteRange ^ 3) % ByteRange,
     (word \div ByteRange ^ 2) % ByteRange,
     (word \div ByteRange) % ByteRange,
     word % ByteRange >>

(* printf "0x%02x%02x%02x%02x": the way back.                              *)
HexValue(octets) ==
  octets[1] * ByteRange ^ 3 + octets[2] * ByteRange ^ 2
    + octets[3] * ByteRange + octets[4]

Init ==
  /\ instruction = 0 /\ report = 0
  /\ resetActive = FALSE /\ resetLatched \in BOOLEAN
  /\ instructions = 0 /\ resets = 0
  /\ driver = "absent"
  /\ nalla0 = [up |-> FALSE, address |-> NoAddress]
  /\ pc = "poll" /\ resetState = FALSE /\ inputValue = 0 /\ lost = FALSE
  /\ script = "none" /\ stops = 0

-----------------------------------------------------------------------------
(* The daemon's loop.                                                      *)

(* A slip to catch: the register is read and cleared, and its bits ignored.*)
ReadResetBlindly ==
  /\ pc = "poll"
  /\ pc' = "test"
  /\ resetState' = FALSE /\ resetLatched' = resetActive
  /\ UNCHANGED << hostVars, resetActive, resets, report, driver, nalla0,
                  inputValue, lost, scriptVars >>

(* Reading the register clears the bits of resets that are over: from here *)
(* on only the daemon's variable knows of them.                            *)
ReadReset ==
  /\ pc = "poll"
  /\ pc' = "test"
  /\ resetState' = resetLatched /\ resetLatched' = resetActive
  /\ UNCHANGED << hostVars, resetActive, resets, report, driver, nalla0,
                  inputValue, lost, scriptVars >>

TestReset ==
  /\ pc = "test"
  /\ pc' = IF resetState THEN "waiting" ELSE "load"
  /\ UNCHANGED << hostVars, resetVars, report, driver, nalla0, shellVars,
                  lost, scriptVars >>

(* insmod unless lsmod lists the module; it may fail, or load a driver     *)
(* whose network initialisation failed, and the daemon goes on regardless. *)
LoadDriver(outcome) ==
  /\ pc = "load"
  /\ driver' = IF driver = "absent" THEN outcome ELSE driver
  /\ pc' = "report"
  /\ UNCHANGED << hostVars, resetVars, report, nalla0, shellVars, lost,
                  scriptVars >>

(* "[ $HAS_IP -ne 0 && $UP -ne 0 ]" is two commands: the first is a test   *)
(* without its closing bracket, which fails whatever its operands are.     *)
HasAddressTest == FALSE

Report ==
  /\ pc = "report"
  /\ report' = IF HasAddressTest THEN HexValue(nalla0.address) ELSE 0
  /\ pc' = "instruct"
  /\ UNCHANGED << hostVars, resetVars, driver, nalla0, shellVars, lost,
                  scriptVars >>

ReadInstruction ==
  /\ pc = "instruct"
  /\ inputValue' = instruction
  /\ pc' = "apply"
  /\ UNCHANGED << hostVars, resetVars, report, driver, nalla0, resetState,
                  lost, scriptVars >>

(* A slip to catch: no instruction leaves the interface as it is.          *)
ApplyNeverDown ==
  /\ pc = "apply"
  /\ nalla0' = IF driver = "network" /\ Octets(inputValue) # NoAddress
                 THEN [up |-> TRUE, address |-> Octets(inputValue)]
                 ELSE nalla0
  /\ pc' = "sleep"
  /\ UNCHANGED << hostVars, resetVars, report, driver, shellVars, lost,
                  scriptVars >>

(* ifconfig with the address, or down without one; without an interface it *)
(* changes nothing.  CURRENT_IP4_ADDRESS is 0 here, which is no address.   *)
Apply ==
  /\ pc = "apply"
  /\ nalla0' =
       IF driver # "network" THEN nalla0
       ELSE IF Octets(inputValue) = NoAddress THEN [nalla0 EXCEPT !.up = FALSE]
       ELSE [up |-> TRUE, address |-> Octets(inputValue)]
  /\ pc' = "sleep"
  /\ UNCHANGED << hostVars, resetVars, report, driver, shellVars, lost,
                  scriptVars >>

(* "Waiting on resets" is printed, and the period slept.                   *)
Sleep ==
  /\ pc \in {"waiting", "sleep"}
  /\ pc' = "poll"
  /\ UNCHANGED << hostVars, resetVars, report, driver, nalla0, shellVars,
                  lost, scriptVars >>

Daemon ==
  \/ ReadReset \/ TestReset
  \/ \E outcome \in {"absent", "noNetwork", "network"} : LoadDriver(outcome)
  \/ Report \/ ReadInstruction \/ Apply \/ Sleep

-----------------------------------------------------------------------------
(* The init script: stop, start, and restart, which is both.               *)

(* start-stop-daemon -K kills the daemon at any of its commands, and what  *)
(* its variables held is gone.                                             *)
Stop(next) ==
  /\ script = "none" /\ pc # "stopped" /\ stops < MaxStops
  /\ pc' = "stopped" /\ inputValue' = 0 /\ resetState' = FALSE
  /\ lost' = (lost \/ (pc = "test" /\ resetState /\ ~resetLatched))
  /\ script' = next /\ stops' = stops + 1
  /\ UNCHANGED << hostVars, resetVars, report, driver, nalla0 >>

(* "rmmod /lib/modules/$(KERNEL_REL)/...": the shell runs a command of     *)
(* that name, which there is not, so the path lacks the release.  Whether  *)
(* rmmod goes by the path or by its last part depends on the rmmod         *)
(* installed; the script goes on either way.                               *)
Rmmod ==
  /\ script \in {"stop", "restart"}
  /\ \E unloaded \in BOOLEAN :
       /\ driver' = IF unloaded THEN "absent" ELSE driver
       /\ nalla0' = IF unloaded THEN [up |-> FALSE, address |-> NoAddress]
                    ELSE nalla0
  /\ script' = IF script = "restart" THEN "start" ELSE "none"
  /\ UNCHANGED << hostVars, resetVars, report, pc, shellVars, lost, stops >>

(* start-stop-daemon -S: a shell without any of the variables' old values. *)
Start ==
  /\ script = "start" \/ (script = "none" /\ pc = "stopped")
  /\ pc' = "poll"
  /\ script' = "none"
  /\ UNCHANGED << hostVars, resetVars, report, driver, nalla0, shellVars,
                  lost, stops >>

Restarting == (Rmmod \/ Start) /\ script # "none"

-----------------------------------------------------------------------------
(* PC host and fabric (external).                                          *)

Instruct(word) ==
  /\ instructions < MaxInstructions
  /\ instruction' = word /\ instructions' = instructions + 1
  /\ UNCHANGED << resetVars, report, driver, nalla0, pc, shellVars, lost,
                  scriptVars >>

ResetBegins ==
  /\ ~resetActive /\ resets < MaxResets
  /\ resetActive' = TRUE /\ resetLatched' = TRUE /\ resets' = resets + 1
  /\ lost' = FALSE
  /\ UNCHANGED << hostVars, report, driver, nalla0, pc, shellVars,
                  scriptVars >>

ResetEnds ==
  /\ resetActive
  /\ resetActive' = FALSE
  /\ UNCHANGED << hostVars, resetLatched, resets, report, driver, nalla0, pc,
                  shellVars, lost, scriptVars >>

Next ==
  \/ Daemon
  \/ \E word \in Instructions : Instruct(word)
  \/ ResetBegins \/ ResetEnds
  \/ \E next \in {"stop", "restart"} : Stop(next)
  \/ Rmmod \/ Start

(* The daemon loops for ever, until it is stopped; a stop or restart that  *)
(* has begun goes on to its end, but nobody needs to start the daemon.     *)
Spec == Init /\ [][Next]_vars /\ WF_vars(Daemon) /\ WF_vars(Restarting)

-----------------------------------------------------------------------------
(* Every variable has its type (one invariant for the whole module).       *)
TypeOK ==
  /\ instruction \in Instructions \cup {0}
  /\ report \in 0 .. ByteRange ^ 4 - 1
  /\ resetActive \in BOOLEAN /\ resetLatched \in BOOLEAN
  /\ instructions \in 0 .. MaxInstructions /\ resets \in 0 .. MaxResets
  /\ driver \in {"absent", "noNetwork", "network"}
  /\ nalla0 \in [up : BOOLEAN, address : Byte \X Byte \X Byte \X Byte]
  /\ resetState \in BOOLEAN /\ lost \in BOOLEAN
  /\ pc \in {"poll", "test", "waiting", "load", "report", "instruct", "apply",
            "sleep", "stopped"}
  /\ inputValue \in Instructions \cup {0}
  /\ script \in {"none", "stop", "restart", "start"} /\ stops \in 0 .. MaxStops

(* The interface does what the instruction asks for.                       *)
Obeys(word) ==
  IF word = 0 THEN ~nalla0.up
  ELSE nalla0.up /\ HexValue(nalla0.address) = word

(* Nobody starts the daemon again after the script was told to stop it.    *)
StoppedForGood == <>[](pc = "stopped" /\ script = "none")

(* When resets are over, the driver keeps its interface and the host       *)
(* leaves its instruction alone, the interface obeys it and stays so,      *)
(* whatever instructions, resets, failed loads and restarts at any of the  *)
(* daemon's commands came before.                                          *)
InstructionFollowed ==
  \A word \in Instructions :
    /\ <>[](instruction = word /\ ~resetActive)
    /\ <>[](driver = "network")
    => <>[]Obeys(word) \/ StoppedForGood

(* A reset is noticed, however short: the daemon turns to sitting out a    *)
(* period after each, even if the reset is over before the register is     *)
(* polled and the daemon is killed and started meanwhile.  The exception   *)
(* is a reset whose bit, cleared by the read, was known only to a daemon   *)
(* killed before its next command: the one started then loads the driver   *)
(* at once.                                                                *)
ResetNoticed ==
  resetLatched
    ~> pc = "waiting" \/ lost \/ [](pc = "stopped" /\ script = "none")

(* "Write the IP address 250-SoC has assumed to the shared location that   *)
(* PC host can reference": an address the interface keeps is reported.     *)
AddressReported ==
  \A word \in Instructions \ {0} :
    <>[](pc # "stopped" /\ ~resetActive /\ Obeys(word)) => <>(report = word)
=============================================================================

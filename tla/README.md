# Verification of the 250-SoC ethernet-over-PCIe software

The repository is a PetaLinux project for a Zynq UltraScale+ card (Nallatech
250-SoC).  Its heart is the **ethernet-over-PCIe link**: a kernel module that
exchanges ethernet packets with a driver on the PC host through shared memory,
with a character device beside it, and a daemon that loads the module and agrees
with the host on an IP address.  Around it are the steps that bring the card up:
the initialisation of the processor, patches to the first stage boot loader and
to U-Boot.  Nothing in the repository tests any of it, and most of what can go
wrong needs an interleaving of two computers or a failure in the middle of
something.  These modules model it, TLC checks them on small instances, and TLAPS
proves the main results for every instance.

Paths below are relative to `src/project-spec/meta-user/`; `end_point.c` and
`ep_network.c` stand for `nalla_250_soc_end_point.c` and
`nalla_250_soc_ep_network.c` in `recipes-modules/nalla250soc/files/`.

## 1. Inventory

| Component | State | Operations | Interacts with | Hard behaviour | What makes it correct |
|---|---|---|---|---|---|
| Receive path (`end_point.c`, `ep_network.c`) | length word and bytes of the window from the host, reason register, `ingressPacketBuffer`, statistics | interrupt handler, tasklet, `packet_rx` | host (shared memory, doorbell), Linux (interrupt, tasklet, `netif_rx`) | three actors, no lock, a level-triggered line on any processor | each packet consumed once and whole, window handed over and returned, no doorbell lost |
| Transmit path (same files) | length word and bytes of the window to the host, doorbell, `lastPacketTxTime`, statistics | `packet_tx`, `canSendPacketToPcHost`, `flushSocToPcPacketBuffer`, `sendPacketToPcHost` | host, Linux (skb, jiffies) | a timeout that takes the window away from the host; an `int` for a difference of 64-bit times | frames whole and in order, statistics that add up, only stale windows flushed |
| Module lifecycle (`end_point.c`, `ep_network.c`, `nalla_250_soc_device.c`) | mappings, buffer, net device, character device, interrupt, `NetworkEnable`, the sigil for the host | init, exit, network and device init and cleanup, `open` | insmod/rmmod, network stack, interrupts, tasklet, root | every step can fail, and some failures are not looked at; users arrive while init or exit is under way | resources are there for whoever can be called; nothing left behind; the sigil tells the truth |
| Endpoint daemon (`recipes-apps/nalla250socbist/files/ep_daemon.sh`) | its variables; the report and instruction words | the 15 s loop | host (two words), fabric (reset register), insmod, ifconfig | clear-on-read register, failed insmod, instructions that change | last instruction obeyed, resets noticed, address reported |
| Daemon init script (`nalla250socd`) | none | start, stop, restart | daemon, rmmod | kills the daemon at any of its commands; `$(KERNEL_REL)` in `stop` runs a command | what the daemon was about to do is done by the next one |
| Interrupt wait ioctl (`end_point.c:79-157`) | `int_reason`, wait queue | wait with timeout | user processes, signals, clock | the condition is never set nor the queue woken; time in jiffies through 32-bit locals | no wait ends early, each timed one ends |
| Character device (`nalla_250_soc_device.c`) | file position, temporary mappings | read, write, llseek | user processes, which may share a file | overlapping calls on one position, errors in the middle of a copy, an unchecked `ioremap`, a position in an `int` | the right registers, mappings that add up, a position that follows the copy |
| Interface configuration (`ep_network.c:87-108,284-361`) | fields of the net device | config, header, MTU, stats | network stack | none | not modelled |
| `nalla250soc.c` | - | - | - | a template the Makefile does not build | not modelled |
| FSBL patch (`recipes-bsp/fsbl`) | boot stage, partition number, the DDR's contents | two passes of loading, ECC initialisation | boot image, DMA channel, data cache | the initialisation destroys the DDR in every turn of the first pass; a channel beside the loader | every partition loaded once, logic first, nothing wiped, all of the DDR written |
| U-Boot patch (`recipes-bsp/u-boot`) | a bank register in each chip, loop counters | `spi_nor_read_otp`, `spi_nor_read_otp_data` | SPI controller and flash | banks, dies, stacked and parallel chips, split transactions, failures in between, two of them ignored | the bytes asked for, the first bank selected again |
| Processor initialisation (`hw-description/psu_init.c`) | PLLs, clock sources, resets, PHY, calibration codes | `psu_init`, `psu_init_ddr_self_refresh` | the PLLs, the DDR's PHY, the transceivers | order through shared registers, retries, polls without a limit, failures that are carried on | clocks keep a running PLL, blocks leave reset with a clock, the result tells |
| Boot scripts, device tree, build script | - | - | - | straight-line | not modelled |
| Tools (`gpio-demo`, `simple-test`, `getmac`, `peekpoke`, `nalla250socbist`) | - | map a register, read or write it | - | single-threaded I/O | not modelled |
| Configuration, tool logs, bitstreams | - | - | - | generated | not modelled |

`PROJECT.json` lists the same components with their files, the hazards of the
code with the properties that watch them, and for every definition the lines it
translates.

## 2. Modules

### PacketWindow: what a direction of the link promises
The abstract specification of both directions: a place for one packet.  `Put`
fills it, `Take` and `Lose` empty it; `log` records what left it.  A frame is a
sequence of bytes each of which carries the number of its packet, so a torn,
mixed or stale frame equals no `Frame(p)`.

### RxPath: PC host to SoC
Three actors that interleave at every access to shared memory.

| Action | Code |
|---|---|
| `IsrReadReason`, `IsrSchedule`, `IsrAck` | the read, the decision and the write of `nalla_250_soc_ep_isr` (`end_point.c:198-216`) |
| `TaskletReadLength`, `TaskletCopyByte`, `TaskletPacketRx`, `TaskletResetLength` | `nalla_250_soc_receiveBufferDoTaskletNetwork` (161-194) with `nalla_250_soc_network_packet_rx` (`ep_network.c:111-195`), whose skb allocation may fail |
| `TaskletStart` | Linux takes the tasklet off the queue (external) |
| `SetNetworkEnable` | a write to the module parameter |
| `Host...` | the PC host (external): waits for a zero length, writes bytes, length, doorbell |

The scheduling rules of Linux that matter are modelled: the handler runs on one
processor at a time but on any; the tasklet runs on the processor that queued
it, not inside that processor's handler (`Uninterrupted`), never twice at once,
and may be queued again while it runs.

### TxPath: SoC to PC host
`PacketTx`, `CanSend`, `CheckDifference`, `Flush`, `Recheck`, `CopyByte`,
`WriteLength`, `Ring` and `Account` are the steps of
`nalla_250_soc_network_packet_tx` (`ep_network.c:200-260`) and of the three
functions it calls (`end_point.c:375-437`); the kernel calls it for one skb at a
time.  `Tick` is jiffies; `Difference` is the code's `int difference`, with the
wrap-around of an int that holds numbers below `IntLimit`.  The host (external)
answers the doorbell, copies, and zeroes the length.

`HostKeepsDeadline` is an assumption about the host, stated as a constant so that
it can be dropped: a host that reads a packet does so within the transmit
timeout, or never.  Nothing in the protocol lets the driver find out whether a
host that has been silent for more than a second has just begun to read, so the
flush of a stale window is safe only under this assumption.  With `FALSE`,
TLC finds frames torn (`TxFramesIntact`), the window shared (`TxHandover`) and a
packet lost by a late acknowledgement (`TxAccounted`); what does not depend on
the host's timing is proved without the assumption (section 4).

### Lifecycle: loading, unloading, and who is there meanwhile
`Load` to `RaiseSigil` are the steps of `nalla_250_soc_ep_init`
(`end_point.c:222-333`) with `nalla_250_soc_network_init` and
`nalla_250_soc_device_init`; `FreeIrq` to `CleanUpDevice` are those of
`nalla_250_soc_ep_exit` (335-372) with `nalla_250_soc_network_cleanup`
(`ep_network.c:416-435`), which is three steps: `UnregisterNetwork`, `FreeNetdev`,
`UnmapMacs`.  `Open`, `TransmitBegin`, `TransmitEnd`, `Interrupt` and
`TaskletRuns` are the users; what they do with a window is the subject of the two
modules above, here it matters which resources exist.  `held` is what the loaded
module has, `leaked` what a module that is gone left.

A failure is one of three kinds.  One the code looks at is an error return, which
undoes nothing (`Fail`).  One it ignores leaves a resource out and init goes on:
a failed registration (`RegisterNetworkFails`), character device
(`InitDeviceFails`), or mapping of either MAC address (`MapMacs` with less than
`Macs`), after which an `open` reads through a null pointer and dies with the
network stack's lock (`nalla0 = "dead"`).  And where init or exit itself uses a
null or freed pointer it dies (`LoadFails`, `AllocateNetdevFails`,
`RaiseSigilFails`, `LowerSigilFails`, `UnregisterTwice`): `pc` is then one of
`Dead`, the module stays as it is and its users go on.

`trouble` records what went wrong in a module's life; the properties name by it
what they do not claim.  In particular `"tasklet"` is recorded when exit frees the
interrupt while the tasklet is queued or running, which it does not wait for.

### EpDaemon: the daemon's loop and its init script
`ReadReset`, `TestReset`, `LoadDriver`, `Report`, `ReadInstruction`, `Apply` and
`Sleep` are the commands of one round of `ep_daemon.sh:52-143`.  The reset register
keeps a bit until it is read after the reset's end (lines 29-33): between the read
(54) and the test (56) only the daemon's variable knows of the reset, and a daemon
killed there takes it along (`lost`).  `Octets` and `HexValue`
are the conversions between a word and an address.  `HasAddressTest` is FALSE
because the shell splits `[ A -ne 0 && B -ne 0 ]` into two commands, the first of
which fails.  `Stop`, `Rmmod` and `Start` are the init script: it kills the
daemon between any two of its commands; whether its `rmmod` with the malformed
path unloads the module depends on the `rmmod` installed, so both happen.

### IntWait: the wait ioctl
`Call`, `Check`, `Wake`, `Settle`, `Return` are the steps of
`nalla250_Soc_ioctl_int_wait` (`end_point.c:79-157`) in several processes; `Tick`
and `Signal` are what ends a sleep.  `Delay` is the conversion of milliseconds to
jiffies with the product in 32 bits, and `Wake` cuts the time left to a `u32`.
No action sets a bit of `int_reason`: no statement of the driver does.

### CharDevice: the window on the BAR
`Begin`, `Copy`, `Fault`, `End` are the steps of `nalla250_SocRead` and
`nalla250_SocWrite` (`nalla_250_soc_device.c:105-213`), one `Copy` for each word or
byte; `Die` is the first access through a mapping that `ioremap` did not give, for
whatever reason; `Llseek` and `LlseekStore` are the read and the write of the
position in the third operation (215-239).  `ToInt` is the position of a write, an
`int`.

`Callers` may share a file.  The kernel (external) gives a read or a write a copy
of the file's position and stores the copy when the call has succeeded; it keeps
other calls out meanwhile for regular files only, so calls of one file overlap
here at every step, and seeks among them.  `overlapped` remembers that a call was
not alone with its file.

### EccInit and FsblLoad: the patched boot loader
`EccInit` is `XFsbl_DdrEccInit_main` with `XFsbl_EccInit_main`
(`0001-FSBL.patch:84-231`): the loader's steps beside those of the DMA channel
(external), which writes a byte at a time and fails at any.  `FsblLoad` EXTENDS
it with stages 3 to 5 of `main` and the filter of `XFsbl_PartitionLoad`; in
`EccBegins` the software loaded so far is gone from the DDR, which is why the
order of the two matters.  The lines of `main` the patch leaves alone are known
only as far as its context shows them and its new stage copies them.

### SpiOtp: reading the flash's one time programmable area
A turn of the loop of `spi_nor_read_otp` (`0001-u-boot.patch:171-291`) is
`SelectBank`, which chooses the chip and writes its bank register without looking
at the result; one `Transfer` for each operation `spi_nor_read_otp_data` (127-163)
splits the transaction into, as `spi_mem_adjust_op_size` lets it; and `EndTurn`,
with the code's move of the bytes behind an odd offset.  `RemBankLen` splits the
read, `OpOffset` is the address of an operation, which is advanced by bytes (157)
even where it was halved for parallel chips.  `Fail` and `Finish` end the read;
both call `clean_bar`, which may fail and reaches only the `chip` selected last.
Two stacked chips have a bank register each (`bars`).  `Returned` is what a flash
delivers that wraps at the end of a bank or die (external); the byte at an address
is represented by the address.

### FixCal, PhyBringup and PsuInit: processor initialisation
`FixCal` is `serdes_fixcal_code` (sampling, the search in place for the most
frequent code, the write of its lower bits), `PhyBringup` is
`psu_ddr_phybringup_data`: PLL retries, initialisation, DDR controller, trainings.
Behind each command stands a poll without a limit, seven in all, most of them
under the comment "TIMEOUT poll mechanism need to be inserted in this block".
`PhyAnswers` is the hardware (external), which ends what it was told well or badly,
or never answers; `ExactPolls` are the four that compare the whole status, so that
only a success ends them.
`PsuInit` EXTENDS both and runs them where `psu_init` and
`psu_init_ddr_self_refresh` call them: `Program` is the sequence of the writes
that the properties tell apart (bypass and reset of a PLL, source of a clock,
reset of a block), function by function, and an action takes the next.

The operators introduced by "A slip to catch" are not part of the specifications:
each is a definition with one plausible mistake, kept beside the right one to
confirm that a property would notice it (`PROJECT.json`, `mutants`).

## 3. Runs

| Run | Bounds | What it shows |
|---|---|---|
| `rx` | 2 processors, window of 2 bytes, packets of 2, 1, 2 bytes, `NetworkEnable` changing freely | exactly-once delivery, handover, a doorbell lost only while the parameter is zero; while it stays one, refinement of `PacketWindow` with its progress and the return of the window |
| `tx` | window of 2 bytes, packets of 2, 1, 2, 2 bytes, timeout 1, int below 4, clock to 7; a host that keeps the deadline | whole frames in order, statistics, handover, doorbells and refinement of `PacketWindow`, with flushes |
| `tx_flush_doorbell` | as `tx` | violation: a flush leaves the doorbell pending |
| `lifecycle` | 2 loads, 2 changes of `NetworkEnable`, every failure | who finds his resources when, and in which named cases not |
| `lifecycle_up` | the same, `NetworkEnable` loaded as 1 | violation: the sigil without an interface |
| `ep_daemon` | bytes of 2 values, instructions none, 1.0.0.1, 0.0.1.0; 3 writes, 2 resets, 2 stops or restarts | the last instruction is followed; no reset is missed but one whose bit a killed daemon had read and not yet tested |
| `ep_daemon_report` | the same | violation: the address is never reported |
| `int_wait` | 2 processes; timeouts none, one jiffy, three, and one that wraps to none in 4 bits | nobody is told early that the time is over; a timed wait ends |
| `char_device` | 2 callers, 2 files, words of 3 bytes, counts 0, 1, 5, positions to 7, int below 6, 2 mappings | registers accessed, mappings, position, with calls that overlap on a file |
| `fsbl_load` | 4 partitions with every destination, validation and early handoff; DDR banks of 3 and 2 bytes, transfers of 2 | partitions once and in order, ECC complete, nothing wiped, an end |
| `spi_otp` | banks of 2 bytes, flash of 8, every type, every request, every split | the bytes asked for, the bank registers |
| `psu_init` | both functions, every state of the PLLs, 2 kinds of codes with 3 and 2 valid ones, 4 calibrations, 3 PLL tries, every answer of the PHY | clocks, resets, calibration, the result, an end unless a poll hangs |

Why these bounds are enough: two processors give a tasklet that runs while
another processor is in the handler; a short packet after a full one is what
makes a stale tail visible; three packets are enough for a doorbell that arrives
between the handler's read and its write while the tasklet of the packet before
is at any step.  On the transmit side the clock passes the timeout (flush), the
limit of the int (a stale window that is dropped for) and its wrap; four packets
give two flushes with a packet in between.  Two loads give a load after a failed
or leaking one, two changes of the parameter a change and its reversal; two stops
give a restart that meets another.  Two processes in `int_wait` show that one's
time does not depend on the other's.  In `char_device` a count of five is a word
and two bytes, the seek passes the limit of the int, two callers overlap on one
file or not, and two calls that fail use up the space for mappings (which may be
missing for other reasons at any time).  In `fsbl_load` a bank takes a full and
a short transfer, the other one full one, and three partitions give every order
of logic and software.  In `spi_otp` four banks give a read that begins and ends
inside banks with a whole one between, in each half of the flash and across
both; banks of two bytes (of four for parallel chips) give split transactions.  In `psu_init`
two codes of a kind can tie, and two share their lower bits with codes out of
range.  What the bounds leave open is proved for all of them (section 4).
`CHECK_DEADLOCK FALSE` stands where the bounds (packets, clock, loads) let
the system stop.

`TypeOK`, the inductive invariants of the modules and the properties that
section 4 adds for the proofs' sake (`DriverInv`, `StepsAdvance`, `NeverStuck`,
`TimeNotRestarted`, `UntimedNeverReturns`, `OddReadShort`, `OrderInv`) are not
listed in the runs: they were checked with TLC on the runs' instances while the
proofs were written and are now proved (except `EpDaemon`'s `TypeOK`).

The three violations are disagreements between a comment and the code and are
described under `findings` in `PROJECT.json`.

### Fairness
* `RxPath`: weak fairness of the host's doorbell (its driver rings for what it
  published) and of the handler (a level-triggered line that stays asserted is
  served, and the handler does not block); strong fairness of the tasklet, which
  is not enabled while an interrupt is served on its processor and gets the
  processor again after each one.  No fairness on sending, on the other
  interrupts or on the parameter; the liveness is claimed for behaviours in which
  `NetworkEnable` is one from the beginning (`[]NetworkEnable`): a doorbell lost
  while it was zero keeps the window from the host even if it is set again.
* `EpDaemon`: weak fairness of the loop, which never blocks for ever, and of an
  init script that has begun.  Nothing is assumed of insmod;
  `InstructionFollowed` is claimed if the driver comes up and stays, unless the
  daemon is stopped and nobody starts it.  `ResetNoticed` needs no such condition
  but names the reset that went with a killed daemon's variable (`lost`).
* `IntWait`: the clock ticks, and a process that can run does.  Signals need not
  come, and a signal that never ends keeps a wait from ending: the property says
  so.
* `FsblLoad`, `PsuInit`: nothing else runs at boot, so weak fairness of the next
  step.  The DMA channel is assumed to end what it was told to do, well or badly:
  the loop that polls for it (`0001-FSBL.patch:139-142`) has no limit either.  The
  DDR's PHY and controller are not assumed to answer: that they are silent is one of
  their answers, and `PollHangs` names the polls that it, or an error, makes endless.
* `TxPath`, `Lifecycle`, `CharDevice` and `SpiOtp` state safety only: a host may
  never answer, a load may never be attempted, a call never made.

## 4. Proofs

The eight `...Proofs` modules hold for all values of the constants that satisfy
the assumption of their module (`RxAssumption`, `TxAssumption`,
`LifecycleAssumption`, `IntWaitAssumption`, `CharDeviceAssumption`,
`EccAssumption` with `FsblAssumption`, `SpiOtpAssumption`, `FixCalAssumption` with
`PhyAssumption`): any number of processors, window size, packet lengths between
1 and the window size, timeout, width of int, number of loads, processes, files,
partitions, kinds of codes (finitely many: the code has four), sizes of
memories.  That packets fit the window is an assumption about
the host: the code does not compare the length with its buffers.

* **RxInv** = types, `IsrInv`, `HostInv`, `BellInv`, `CopyInv`, `RxExactlyOnce`.
  Exactly-once delivery is not inductive: it needs that a doorbell bit, a queued
  tasklet and a running tasklet stand for the same one packet.  `BellInv` says
  how: while the bit is set no tasklet runs, and if one is queued already it was
  queued by the handler that is about to clear the bit, on that handler's
  processor, where it cannot start before the handler returns.  This is why the
  order "schedule, then clear" loses nothing, and it is what a tasklet that
  could start on another processor would break.  From it follow delivery
  (`RxDelivers`), exclusion (`RxExclusion`), `RxKeepsDoorbell` (with
  `EnableValues \subseteq {TRUE}`), `RxDoorbellOnlyDisabled` and the refinement
  `RxRefinesWindow`.
* **TxInv** = types, `WindowInv`, `DeadlineInv`, `HostInv`, `LogInv`,
  `TxFramesIntact`, `TxAccounted`.  The key is `DeadlineInv`: a host inside the
  window implies that its packet is young, a flush that it is old.  It needs
  `DifferenceAtMostAge`: truncation to int never makes a packet look older than
  it is.  It assumes `HostKeepsDeadline`; from it follow frames, statistics,
  exclusion and the refinement `TxRefinesWindow`, where a flush is the abstract
  `Lose`.
  What the driver does by itself needs no assumption about the host:
  **DriverInv** (`TxTypeCorrect`, `TxDriverInvariant`) is the part of the invariant
  that stays when the host may read at any time: `packet_tx` writes only a window
  it has found empty, leaves one whole packet with its length there, and counts
  every skb once.  So are `TxKeepsDoorbell`, whose property is inductive by itself,
  and `TxReclaims`, which rests on **ClockInv** (the clock is not behind the last
  transmission, only a stale window is about to be flushed).  What a host that
  misses the deadline breaks is therefore what it reads, never what the driver
  writes.
* **LifecycleInv** = types, `StageInv` (what is held at each step, also where init died),
  `NetworkInv`
  (without trouble, what is held for the network is what `NetworkEnable` says; the
  interface has its address unless a mapping failed), `UserInv` (no tasklet without
  its resources unless `"tasklet"` is recorded).  From it follow the other six
  properties of the run `lifecycle`.

* **WaitInv** (`IntWait`): what is left of a call's time, wherever the process keeps
  it (`Left`: `delay`, the timer, `timeout`), and what has passed make up the
  converted timeout at least.  That makes `TimeoutNotEarly` inductive;
  `InterruptNeverSeen` follows from the bit nobody sets.  Two action properties
  need the invariant too: `TimeNotRestarted` (however often a signal sends a
  timed call round the loop, `Left` never grows, which is why a finite number of
  signals cannot keep it) and `UntimedNeverReturns` (a call without a timeout
  stays in the loop for ever).
* **DeviceInv** (`CharDevice`): a call in progress has accessed the registers from
  its mapping's first up to where it is (`CallInv`), whatever other calls do to its
  file; calls that share a file know of each other, and one that was alone works at
  the file's position (`AloneInv`), which is what lets `PositionFollowsCopy` claim
  more of it; the mappings are those of the calls in progress that got one and one
  for each call that failed with one (`MappingsAccounted`).  The latter needs
  cardinalities of sets of callers, hence finiteness of `Callers`.
* **EccInv**, **LoadInv** (`FsblLoad`): during an initialisation the loop's counters
  say which bytes are written (`Written`), and at the poll the channel works on
  the next chunk and nothing else.  Around it `Pass3Inv` and `Pass4Inv` say which
  partitions are loaded when the next is `partitionNum`: `Pass4Inv` has two cases,
  because an early handoff in the first pass enters the second where it stands.
  That no software is in memory while an initialisation runs is a conjunct, and
  `NothingWiped` follows.  For `BootEnds` the prover gets as far as it can without
  fairness: `Ahead` counts what is left of the loader's seven nested loops, every
  step lowers it in lexicographic order (`EveryStepAdvances`), that order is
  well-founded (`BootIsFinite`, by the library's theorem on lexicographic
  products), and until the end some step's guard holds (`LoaderNeverStuck`).  An
  endless boot would need an infinite descent or a loader that stands still.
  `NeverStuck` spells the guards out, because `ENABLED` is out of the prover's
  reach; TLC confirmed on the instances of the runs that `Next` is enabled until
  the end, here and in `PsuInit`.
* **ReadInv** (`SpiOtp`): the counters of the loop and of a transaction's operations
  advance together (`ProgressInv`), the selected chip and its bank are those of
  `from` unless `write_bar` failed (`SelectInv`), the buffer holds the bytes up to
  `buf + got` (`BufferInv`), and which bank registers may be set depends on the chip
  and on where the read began (`BarInv`).  The work is in `ReturnedInOrder`: the
  length computed for a transaction stays in one bank, die or chip, so that however
  it is split the flash never wraps, but for parallel chips, whose split operations
  skip bytes; it rests
  on a few lemmas about quotient and remainder and on `Geometry` (the flash is
  whole banks, in whole halves).  For an odd offset of parallel chips `OddInv` is
  the dividing line: the first transaction reads everything exactly when one bank
  holds it (`FirstOfOdd`), then the bytes are right (`ReadIsExact`); otherwise
  every further transaction loses a byte and the read reports too few, with
  success (`OddReadsFallShort`).
* **CalInv** (`FixCal`): during the search the first count of each kind holds the
  greatest so far, which is that of the code kept, and the other counts are
  untouched.  Proved for the function alone (`CalibrationAlone`) and within
  `PsuInit`.  **PhyInv** says what the steps of the bring-up have done;
  `BringupIsTold` follows.
* **OrderInv** (`PsuInit`) = types, `PllInv`, `SourceInv`, `BlockInv`, `CallInv`,
  `StatusInv`: what the steps before `at` have left behind, in terms of where each
  function's steps stand in `Program`.  The placement lemmas take that
  concatenation apart once, so that the step lemmas argue about one function at
  a time, for both entries.  With `CalInv` and `PhyInv` it is inductive
  (`OrderInvariant`), and `ClocksSteady`, `ReleasedClocked`, `SerdesQuiet` and
  `ResultTells` follow for any number of calibrations, codes and tries.  As for the
  loader, `Ahead` counts what is left: the return, the program's steps, those of
  the bring-up with its tries and polls, those of the calibration with its
  samples and the turns of the search.  Every step lowers it in a well-founded
  order (`EveryStepAdvances`, `InitIsFinite`), and `InitNeverStuck` leaves
  `PollHangs` as the only way to stop before the return: one of the seven polls of
  the bring-up with silent hardware, or one of the four exact ones after an error.
  (The turns of a poll that finds nothing new are not steps.)

Every safety property of the runs that pass is the subject of a theorem
(`RxImplementsWindow` in its safety part, `RxRefinesWindow`).  Only
model-checked: what is temporal under fairness (`RxImplementsWindow`'s liveness,
`WindowReturned`, `InstructionFollowed`, `ResetNoticed`, `TimedWaitEnds`, `BootEnds`,
`InitEnds`), which is beyond the prover; and the three violations.  `EpDaemon` has
no theorem: what it promises is temporal, and it has no safety property to rest on.

## 5. Abstractions

* A packet is a sequence of copies of its number.  Ethernet headers, the IP
  checksum that `packet_rx` rebuilds, byte counters and messages are left out.
* Shared memory is sequentially consistent: the code uses `ioread`/`iowrite` on
  uncached mappings, and reads the length back before it rings.
* The PC host's driver is not in the repository.  It is modelled from what the
  module relies on and marked external in the map.
* The reason register keeps the host's other two interrupts as bits that come
  and go at any time.
* `Lifecycle` takes the interrupt handler as one step, as `free_irq` waits for
  it, and does not follow calls into a module that is gone, nor what a tasklet that
  outlives its buffer does to memory.  A process that dies in init, exit or `open`
  leaves the rest of the kernel running.
* `CharDevice` takes the kernel's copy of a file's position in and out as part of
  the first and the last step of a call.
* `CharDevice` does not follow counts of 2 GiB and more (the code keeps them in an
  `int` and would copy until the caller's buffer faults): the kernel caps a read
  or write below that.
* `FsblLoad` takes the load of one partition as a step that succeeds or fails;
  `EccInit` takes the DDR as a set of addresses.
* `PsuInit` leaves out every register no property is about: dividers, pins, the
  timing of the DDR controller, the lanes of the transceivers.

## 6. Plan and what is not modelled

The plan is done: `PacketWindow`, `RxPath`, `TxPath`, `Lifecycle`, `EpDaemon` with
its init script, `IntWait`, `CharDevice`, `FsblLoad` over `EccInit`, `SpiOtp`,
`PsuInit` over `FixCal` and `PhyBringup`, and the proofs above.  What could follow: a
composition of `EpDaemon` with `Lifecycle` (a failed load retried in every
period), an invariant of `EpDaemon` as a theorem, and the disjointness of the
shared memory map of `nalla_250_soc_end_point.h` and the daemon's two words.

Not modelled, and why:

* **Most of the lines.**  101,000 of the 104,000 lines of code are
  `psu_init*.{c,h}`, generated by the hardware design tool: tables of register
  addresses and values without control flow.  `psu_init_gpl.c` is a copy of
  `psu_init.c` under another licence and the headers define addresses.  A model
  of those values would repeat them.  `serdes_illcalib*` and `serdes_bist*` are
  called by nothing, the `psu_*_protection` functions not by these two entries.
* **Interface configuration**: assignments to the net device's fields, without
  protocol state; `INTERRUPT_GEN`, the ioctl's other command, is one register
  write; `nalla250soc.c` is a template that is not built.
* **Tools** (`gpio-demo`, `simple-test`, `getmac`, `peek`, `poke`,
  `nalla250socbist`): single-threaded, they map a register and print; the BIST
  itself is a binary.
* **Boot scripts, device tree, build script, configuration, logs**: no state.
* **Parts of the patches**: the QSPI prescaler and address checks of the FSBL
  patch are single conditions in functions that are not in the repository; the
  U-Boot board function prints the addresses it has read.

Disagreements met on the way that have no run of their own:

* `timeout` is "in ms." (`nalla_250_soc_device.h:17`), but its product with HZ wraps in
  32 bits (`end_point.c:97`): a long timeout becomes a short one.
* `interrupt` is the "interrupt to wait on." (`nalla_250_soc_device.h:16`), and none
  is ever delivered (`end_point.c:111`; `InterruptNeverSeen`).  A wait without a
  timeout never returns (`UntimedNeverReturns`): a signal that is pending makes
  it go round `end_point.c:105-147` without sleeping.
* `spi_nor_read_otp` reads one byte more for an odd offset of parallel chips and
  leaves it behind the caller's buffer (`0001-u-boot.patch:191`), of which the
  comment says "Number of bytes to read" (`378`); `ReadExact` says it is never more
  than one.  If such a read leaves its bank, the bytes are moved down once for
  every transaction and one is missing from the count for each after the first
  (`OddReadShort`), and the function returns success all the same.
* With the bank register, a failed read returns the result of `clean_bar` in place
  of its error (`288`), "-ve on error" (`380`).  `clean_bar` reaches the chip
  selected last: a read that goes from the lower of two stacked chips to the upper
  one leaves the lower one's register set.  A failed `write_bar` (`252`) is ignored,
  and the read goes on in the old bank.
* When the controller splits a transaction of parallel chips, the halved address is
  advanced by all the bytes read (`157`), and half of what follows is skipped.
* Every poll of the DDR's bring-up is without a limit, although the comments in
  `psu_init.c:17348`, `17376`, `17385` and `17395` ask for a timeout.  The test for a
  training error stands behind a loop that does not end after one
  (`17402-17406`), and an error of the Vref training leaves static read mode on
  (`17433-17436`).  The polls for the locks of the PLLs of the clocks are limited, and
  ignored (`psu_init.c:179`).
* The results of `ioremap` in `end_point.c:242-276` and `ep_network.c:477-484` are not
  looked at: init dies in the first case, and in the second goes on with an
  interface that nobody can open.  Exit does not kill the tasklet
  (`end_point.c:343-351`), which may run without its window or its code.
* Two calls of the character device on one file may overlap and move its position
  twice from the same place; a daemon killed between reading the reset register and
  testing what it read takes the reset with it (`ep_daemon.sh:54-56`).

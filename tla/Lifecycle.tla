----------------------------- MODULE Lifecycle -----------------------------
(***************************************************************************)
(* Loading and unloading the end point driver (nalla_250_soc_ep_init and   *)
(* nalla_250_soc_ep_exit with the network and device parts they call),     *)
(* while the kernel uses what is already or still there: the network stack *)
(* opens the interface and transmits, interrupts arrive, the tasklet runs, *)
(* and root changes the module parameter NetworkEnable.                    *)
(*                                                                         *)
(* What a user does with a window is the subject of RxPath and TxPath;     *)
(* here it only matters which resources exist while he does it.            *)
(***************************************************************************)
EXTENDS Naturals

CONSTANTS
  EnableValues,   \* the values NetworkEnable is loaded with or set to
  MaxLoads,       \* bound: how often the module is loaded
  MaxChanges      \* bound: how often root changes NetworkEnable

ASSUME LifecycleAssumption ==
  EnableValues \subseteq BOOLEAN /\ MaxLoads \in Nat /\ MaxChanges \in Nat

(* What the driver acquires: mapped registers and packet windows, memory,  *)
(* and what the kernel calls it through.                                   *)
Windows   == {"dataFromPcHostBuffer", "dataToPcHostBuffer"}
Macs      == {"pcHostMacRegs", "socMacRegs"}
Mappings  == {"irqGeneratorRegs"} \cup Windows \cup Macs
Callbacks == {"netdev", "chardev", "irq"}
Resources == Mappings \cup Callbacks \cup {"ingressPacketBuffer"}

Loading == {"ingress", "network", "macs", "device", "irq", "sigil"}
Exiting == {"unmapRegs", "freeIngress", "unmapWindows", "sigilDown",
            "networkDown", "netdevFree", "macsDown", "deviceDown"}
Dead    == {"initOops", "exitOops"}   \* insmod or rmmod died in the kernel

VARIABLES
  pc,             \* the next step of init or exit
  NetworkEnable,  \* the module parameter
  held,           \* resources the loaded module has
  leaked,         \* resources a module that is gone has left behind
  sigil,          \* DRIVER_UP_SIGIL stands at SOC_DRIVER_UP_ADDRESS
  nalla0,         \* the interface, as the network stack sees it:
                  \* "dead" if the process that opened it died doing so
  tx,             \* a call of packet_tx
  tasklet,        \* the receive tasklet
  trouble,        \* history: what went wrong since the module was loaded
  loads, changes  \* history: how often it was loaded, NetworkEnable changed

kernelVars == << nalla0, tx, tasklet >>
boundVars  == << loads, changes >>
vars == << pc, NetworkEnable, held, leaked, sigil, kernelVars, trouble,
           boundVars >>

Init ==
  /\ pc = "unloaded" /\ NetworkEnable = FALSE
  /\ held = {} /\ leaked = {} /\ sigil = FALSE
  /\ nalla0 = "none" /\ tx = "idle" /\ tasklet = "idle"
  /\ trouble = {} /\ loads = 0 /\ changes = 0

-----------------------------------------------------------------------------
(* nalla_250_soc_ep_init.                                                  *)

(* Registers and packet windows are mapped, pending interrupts cleared and *)
(* both length words zeroed.  (Calls into a module that is gone are over;  *)
(* an interface it left behind is not followed any further.)               *)
StartLoad(value, mapped) ==
  /\ pc = "unloaded" /\ loads < MaxLoads
  /\ tasklet = "idle" /\ tx = "idle"
  /\ loads' = loads + 1
  /\ NetworkEnable' = value
  /\ held' = mapped
  /\ nalla0' = "none" /\ trouble' = {}
  /\ UNCHANGED << leaked, sigil, tx, tasklet, changes >>

Load(value) ==
  /\ pc' = "ingress"
  /\ StartLoad(value, {"irqGeneratorRegs"} \cup Windows)

(* No result of ioremap is looked at: insmod dies in the write through the *)
(* first pointer that is null.                                             *)
LoadFails(value) ==
  /\ pc' = "initOops"
  /\ \E mapped \in { {}, {"irqGeneratorRegs"},
                     {"irqGeneratorRegs", "dataFromPcHostBuffer"} } :
       StartLoad(value, mapped)

(* An error return undoes nothing: the module goes, what it holds stays.   *)
Fail ==
  /\ pc' = "unloaded"
  /\ leaked' = leaked \cup held /\ held' = {}
  /\ trouble' = trouble \cup {"init"}
  /\ UNCHANGED << NetworkEnable, sigil, kernelVars, boundVars >>

(* insmod or rmmod uses a null or dangling pointer and dies where it is.   *)
Die(step, oops) ==
  /\ pc = step /\ pc' = oops
  /\ UNCHANGED << NetworkEnable, held, leaked, sigil, kernelVars, trouble,
                  boundVars >>

(* A slip to catch: the interrupt is requested before the ingress buffer   *)
(* is allocated.                                                           *)
AllocateIngressAfterIrq ==
  /\ pc = "ingress"
  /\ pc' = "network" /\ held' = held \cup {"irq"}
  /\ UNCHANGED << NetworkEnable, leaked, sigil, kernelVars, trouble,
                  boundVars >>

AllocateIngress ==
  /\ pc = "ingress"
  /\ pc' = "network" /\ held' = held \cup {"ingressPacketBuffer"}
  /\ UNCHANGED << NetworkEnable, leaked, sigil, kernelVars, trouble,
                  boundVars >>

AllocateIngressFails == pc = "ingress" /\ Fail

(* nalla_250_soc_network_init up to register_netdev: from here on the      *)
(* network stack may open the interface.                                   *)
RegisterNetwork ==
  /\ pc = "network" /\ NetworkEnable
  /\ pc' = "macs"
  /\ held' = held \cup {"netdev"} /\ nalla0' = "registered"
  /\ UNCHANGED << NetworkEnable, leaked, sigil, tx, tasklet, trouble,
                  boundVars >>

(* Without memory for the device its private data are written through a    *)
(* null pointer.                                                           *)
AllocateNetdevFails == NetworkEnable /\ Die("network", "initOops")

(* When registering fails the device is freed, its private data written    *)
(* all the same, and the result only printed.                              *)
RegisterNetworkFails ==
  /\ pc = "network" /\ NetworkEnable
  /\ pc' = "macs" /\ trouble' = trouble \cup {"network"}
  /\ UNCHANGED << NetworkEnable, held, leaked, sigil, kernelVars, boundVars >>

SkipNetwork ==
  /\ pc = "network" /\ ~NetworkEnable
  /\ pc' = "device"
  /\ UNCHANGED << NetworkEnable, held, leaked, sigil, kernelVars, trouble,
                  boundVars >>

(* A slip to catch: the registers with the MAC addresses are not mapped.   *)
MapMacsNot(mapped) ==
  /\ pc = "macs"
  /\ pc' = "device"
  /\ UNCHANGED << NetworkEnable, held, leaked, sigil, kernelVars, trouble,
                  boundVars >>

(* Either mapping may fail; init goes on with the null pointer.            *)
MapMacs(mapped) ==
  /\ pc = "macs"
  /\ pc' = "device" /\ held' = held \cup mapped
  /\ trouble' = IF mapped = Macs THEN trouble ELSE trouble \cup {"macs"}
  /\ UNCHANGED << NetworkEnable, leaked, sigil, kernelVars, boundVars >>

(* It reports success whatever fails in it.                                *)
InitDevice ==
  /\ pc = "device"
  /\ pc' = "irq" /\ held' = held \cup {"chardev"}
  /\ UNCHANGED << NetworkEnable, leaked, sigil, kernelVars, trouble,
                  boundVars >>

InitDeviceFails ==
  /\ pc = "device"
  /\ pc' = "irq" /\ trouble' = trouble \cup {"device"}
  /\ UNCHANGED << NetworkEnable, held, leaked, sigil, kernelVars, boundVars >>

RequestIrq ==
  /\ pc = "irq"
  /\ pc' = "sigil" /\ held' = held \cup {"irq"}
  /\ UNCHANGED << NetworkEnable, leaked, sigil, kernelVars, trouble,
                  boundVars >>

(* There is no such interrupt, or it cannot be requested.                  *)
RequestIrqFails == pc = "irq" /\ Fail

RaiseSigil ==
  /\ pc = "sigil"
  /\ pc' = "loaded" /\ sigil' = TRUE
  /\ UNCHANGED << NetworkEnable, held, leaked, kernelVars, trouble,
                  boundVars >>

(* The word for the sigil cannot be mapped.                                *)
RaiseSigilFails == Die("sigil", "initOops")

-----------------------------------------------------------------------------
(* nalla_250_soc_ep_exit.                                                  *)

(* A step of it that releases resources.                                   *)
Release(from, to, resources) ==
  /\ pc = from /\ pc' = to
  /\ held' = held \ resources
  /\ UNCHANGED << NetworkEnable, leaked, sigil, kernelVars, trouble,
                  boundVars >>

(* A slip to catch: the registers go before the handler that reads them.   *)
FreeIrqUnmapsFirst == Release("loaded", "unmapRegs", {"irqGeneratorRegs"})

(* From here on no interrupt schedules the tasklet; but one that is queued *)
(* or runs is not waited for.                                              *)
FreeIrq ==
  /\ pc = "loaded" /\ pc' = "unmapRegs"
  /\ held' = held \ {"irq"}
  /\ trouble' = IF tasklet = "idle" THEN trouble
                ELSE trouble \cup {"tasklet"}
  /\ UNCHANGED << NetworkEnable, leaked, sigil, kernelVars, boundVars >>

UnmapRegs     == Release("unmapRegs", "freeIngress", {"irqGeneratorRegs"})
FreeIngress   == Release("freeIngress", "unmapWindows", {"ingressPacketBuffer"})
UnmapWindows  == Release("unmapWindows", "sigilDown", Windows)

(* A slip to catch: the sigil stays.                                       *)
LowerSigilNot ==
  /\ pc = "sigilDown"
  /\ pc' = "networkDown"
  /\ UNCHANGED << NetworkEnable, held, leaked, sigil, kernelVars, trouble,
                  boundVars >>

LowerSigil ==
  /\ pc = "sigilDown"
  /\ pc' = "networkDown" /\ sigil' = FALSE
  /\ UNCHANGED << NetworkEnable, held, leaked, kernelVars, trouble,
                  boundVars >>

LowerSigilFails == Die("sigilDown", "exitOops")

(* nalla_250_soc_network_cleanup is called only while NetworkEnable is set.*)
SkipCleanUpNetwork ==
  /\ ~NetworkEnable
  /\ Release("networkDown", "deviceDown", {})

(* A slip to catch: the interface is not unregistered.                     *)
UnregisterNetworkNot ==
  /\ NetworkEnable /\ "netdev" \in held
  /\ Release("networkDown", "netdevFree", {})

(* unregister_netdev closes the interface and waits for a transmission     *)
(* that is under way; it waits for ever if a process died opening it.      *)
UnregisterNetwork ==
  /\ pc = "networkDown" /\ NetworkEnable /\ "netdev" \in held
  /\ tx = "idle" /\ nalla0 # "dead"
  /\ pc' = "netdevFree" /\ nalla0' = "none"
  /\ UNCHANGED << NetworkEnable, held, leaked, sigil, tx, tasklet, trouble,
                  boundVars >>

(* There is no device: NetworkEnable was not set when the module came.     *)
UnregisterNothing ==
  /\ NetworkEnable /\ "netdev" \notin held /\ "network" \notin trouble
  /\ Release("networkDown", "macsDown", {})

(* A device that was freed when registering failed is unregistered and     *)
(* freed once more: the kernel may survive it or not.                      *)
UnregisterTwice ==
  /\ NetworkEnable /\ "network" \in trouble
  /\ \/ Release("networkDown", "macsDown", {})
     \/ Die("networkDown", "exitOops")

FreeNetdev == Release("netdevFree", "macsDown", {"netdev"})

(* A slip to catch: the registers with the MAC addresses stay mapped.      *)
UnmapMacsNot == Release("macsDown", "deviceDown", {})

UnmapMacs == Release("macsDown", "deviceDown", Macs)

(* Then the module is gone.                                                *)
CleanUpDevice ==
  /\ pc = "deviceDown"
  /\ pc' = "unloaded"
  /\ leaked' = leaked \cup (held \ {"chardev"}) /\ held' = {}
  /\ UNCHANGED << NetworkEnable, sigil, kernelVars, trouble, boundVars >>

-----------------------------------------------------------------------------
(* Who uses the driver meanwhile.                                          *)

(* The kernel can call a netdev of a module that is there.  open reads the *)
(* SoC's address; if that is not mapped the process dies, with the lock of *)
(* the network stack, so that nobody opens or closes it any more.          *)
Open ==
  /\ nalla0 = "registered" /\ "netdev" \in held
  /\ nalla0' = IF "socMacRegs" \in held THEN "open" ELSE "dead"
  /\ UNCHANGED << pc, NetworkEnable, held, leaked, sigil, tx, tasklet,
                  trouble, boundVars >>

TransmitBegin ==
  /\ nalla0 = "open" /\ "netdev" \in held /\ tx = "idle"
  /\ tx' = "sending"
  /\ UNCHANGED << pc, NetworkEnable, held, leaked, sigil, nalla0, tasklet,
                  trouble, boundVars >>

TransmitEnd ==
  /\ tx = "sending"
  /\ tx' = "idle"
  /\ UNCHANGED << pc, NetworkEnable, held, leaked, sigil, nalla0, tasklet,
                  trouble, boundVars >>

(* A slip to catch: the handler does not look at NetworkEnable.            *)
InterruptAlways ==
  /\ "irq" \in held /\ tasklet = "idle"
  /\ tasklet' = "queued"
  /\ UNCHANGED << pc, NetworkEnable, held, leaked, sigil, nalla0, tx,
                  trouble, boundVars >>

(* The handler as a whole; free_irq waits for it.                          *)
Interrupt ==
  /\ "irq" \in held /\ NetworkEnable /\ tasklet = "idle"
  /\ tasklet' = "queued"
  /\ UNCHANGED << pc, NetworkEnable, held, leaked, sigil, nalla0, tx,
                  trouble, boundVars >>

(* (A tasklet that outlives its resources or the module goes on; what it   *)
(* does to memory that is not the driver's any more is not followed.)      *)
TaskletRuns ==
  /\ tasklet \in {"queued", "running"}
  /\ tasklet' = IF tasklet = "queued" THEN "running" ELSE "idle"
  /\ UNCHANGED << pc, NetworkEnable, held, leaked, sigil, nalla0, tx,
                  trouble, boundVars >>

(* Through sysfs, once the parameters of the module are there.             *)
SetNetworkEnable(value) ==
  /\ pc # "unloaded" /\ value # NetworkEnable /\ changes < MaxChanges
  /\ NetworkEnable' = value /\ changes' = changes + 1
  /\ trouble' = trouble \cup {"changed"}
  /\ UNCHANGED << pc, held, leaked, sigil, kernelVars, loads >>

-----------------------------------------------------------------------------
InitSteps ==
  \/ \E value \in EnableValues : Load(value) \/ LoadFails(value)
  \/ AllocateIngress \/ AllocateIngressFails
  \/ RegisterNetwork \/ AllocateNetdevFails \/ RegisterNetworkFails
  \/ SkipNetwork \/ \E mapped \in SUBSET Macs : MapMacs(mapped)
  \/ InitDevice \/ InitDeviceFails \/ RequestIrq \/ RequestIrqFails
  \/ RaiseSigil \/ RaiseSigilFails

ExitSteps ==
  \/ FreeIrq \/ UnmapRegs \/ FreeIngress \/ UnmapWindows
  \/ LowerSigil \/ LowerSigilFails
  \/ SkipCleanUpNetwork \/ UnregisterNetwork \/ UnregisterNothing
  \/ UnregisterTwice \/ FreeNetdev \/ UnmapMacs \/ CleanUpDevice

Users ==
  \/ Open \/ TransmitBegin \/ TransmitEnd \/ Interrupt \/ TaskletRuns
  \/ \E value \in EnableValues : SetNetworkEnable(value)

Next == InitSteps \/ ExitSteps \/ Users

Spec == Init /\ [][Next]_vars
-----------------------------------------------------------------------------
(* Every variable has its type (one invariant for the whole module).       *)
TypeOK ==
  /\ pc \in Loading \cup Exiting \cup Dead \cup {"unloaded", "loaded"}
  /\ NetworkEnable \in BOOLEAN /\ sigil \in BOOLEAN
  /\ held \subseteq Resources /\ leaked \subseteq Resources
  /\ nalla0 \in {"none", "registered", "open", "dead"}
  /\ tx \in {"idle", "sending"}
  /\ tasklet \in {"idle", "queued", "running"}
  /\ trouble \subseteq {"init", "network", "macs", "device", "changed", "tasklet"}
  /\ loads \in 0 .. MaxLoads /\ changes \in 0 .. MaxChanges

(* While the interrupt handler can be called, everything that it and the   *)
(* tasklet it schedules touch is there: init requests the interrupt last,  *)
(* exit frees it first.                                                    *)
HandlerReady ==
  "irq" \in held =>
    {"irqGeneratorRegs", "dataFromPcHostBuffer", "ingressPacketBuffer"}
      \subseteq held

(* The tasklet finds the window and the ingress buffer, unless exit began  *)
(* while it was queued or running, which exit does not wait for.  It finds *)
(* the network device, unless NetworkEnable was set after loading or the   *)
(* network failed to register, when there is none.  Nothing schedules it   *)
(* once exit has begun.                                                    *)
TaskletReady ==
  tasklet # "idle" /\ "tasklet" \notin trouble =>
    /\ {"dataFromPcHostBuffer", "ingressPacketBuffer"} \subseteq held
    /\ "netdev" \in held \/ trouble \cap {"changed", "network"} # {}

(* A transmission finds the window and the doorbell register, unless exit  *)
(* is under way, which unmaps both before it closes the interface, or the  *)
(* interface was left behind: init failed after registering it, or root    *)
(* cleared NetworkEnable and exit did not close it.                        *)
TransmitReady ==
  tx = "sending"
    /\ ~({"irqGeneratorRegs", "dataToPcHostBuffer"} \subseteq held)
    => pc \in Exiting \cup {"exitOops"} \/ trouble \cap {"init", "changed"} # {}

(* A process dies opening the interface, for want of the SoC's MAC         *)
(* address, only in the one step of network_init between registering the   *)
(* interface and mapping the address, or after a mapping that failed.      *)
OpenReady ==
  [][nalla0 # "dead" /\ nalla0' = "dead" =>
       pc = "macs" \/ "macs" \in trouble]_vars

(* A module that goes leaves no resource, no interface and no tasklet      *)
(* behind, if its initialisation succeeded (but for an address that could  *)
(* not be mapped), NetworkEnable was not changed and no tasklet was        *)
(* pending when exit began: what exit takes back is what init acquired,    *)
(* and nothing can come while it works.                                    *)
NothingLeftBehind ==
  [][pc # "unloaded" /\ pc' = "unloaded" /\ trouble' \subseteq {"macs"}
       => leaked' = leaked /\ nalla0' = "none" /\ tasklet' = "idle"]_vars

(* The PC host sees the sigil of a loaded module only, failed loads and    *)
(* reloads included, or of one that died in exit, trying to lower it.      *)
SigilMeansDriver == sigil => pc \in Exiting \cup {"loaded", "exitOops"}

-----------------------------------------------------------------------------
(* The inductive invariant behind the properties above, in named parts.    *)

(* Which resources are there at which step of init and exit.               *)
StageInv ==
  /\ pc \in Loading \cup {"loaded", "unmapRegs"}
       => {"irqGeneratorRegs"} \cup Windows \subseteq held
  /\ pc \in (Loading \ {"ingress"}) \cup {"loaded", "unmapRegs", "freeIngress"}
       => "ingressPacketBuffer" \in held
  /\ pc \in {"ingress", "network"} => held \cap ({"netdev"} \cup Macs) = {}
  /\ pc \in {"sigilDown", "networkDown", "netdevFree", "macsDown", "deviceDown"}
       => held \subseteq {"chardev", "netdev"} \cup Macs
  /\ pc = "unmapWindows"
       => held \subseteq {"chardev", "netdev"} \cup Macs \cup Windows
  /\ pc = "freeIngress" => "irqGeneratorRegs" \notin held
  /\ "irq" \in held => pc \in {"sigil", "loaded", "initOops"} /\ HandlerReady
  /\ pc = "initOops" /\ "netdev" \in held
       => {"irqGeneratorRegs"} \cup Windows \subseteq held
  /\ pc = "unloaded" => held = {}
  /\ sigil => pc \in {"loaded", "unmapRegs", "freeIngress", "unmapWindows",
                      "sigilDown", "exitOops"}

(* Without trouble, what the module acquired for the network is what       *)
(* NetworkEnable says now.                                                 *)
NetworkInv ==
  /\ "netdev" \in held => "socMacRegs" \in held \/ pc = "macs" \/ "macs" \in trouble
  /\ "network" \in trouble => "netdev" \notin held
  /\ pc \in {"ingress", "network"} => "network" \notin trouble
  /\ pc = "macs" /\ trouble \cap {"changed", "network"} = {}
       => NetworkEnable /\ "netdev" \in held
  /\ pc \in {"device", "irq", "sigil", "loaded", "unmapRegs", "freeIngress",
             "unmapWindows", "sigilDown", "networkDown"}
     /\ trouble \cap {"changed", "network"} = {}
       => IF NetworkEnable THEN "netdev" \in held
          ELSE held \cap ({"netdev"} \cup Macs) = {}
  /\ "irq" \in held /\ NetworkEnable /\ trouble \cap {"changed", "network"} = {}
       => "netdev" \in held
  /\ pc = "netdevFree" /\ trouble \cap {"changed", "network"} = {}
       => NetworkEnable
  /\ pc = "macsDown" => "netdev" \notin held
  /\ pc = "deviceDown" /\ "netdev" \in held => "changed" \in trouble
  /\ pc = "deviceDown" /\ trouble \cap {"changed", "network"} = {}
       => held \cap Macs = {}

(* Who is in the driver has a reason to be there.                          *)
UserInv ==
  /\ pc \in Loading \ {"sigil"} => tasklet = "idle"
  /\ tasklet # "idle" /\ "tasklet" \notin trouble =>
       /\ pc \in {"sigil", "loaded", "initOops"}
       /\ TaskletReady
  /\ tasklet # "idle" /\ pc \in {"sigil", "loaded"} /\ "changed" \notin trouble
       => NetworkEnable
  /\ nalla0 # "none" /\ trouble \subseteq {"macs", "device", "tasklet"}
       => "netdev" \in held
  /\ pc = "netdevFree" => nalla0 = "none" /\ tx = "idle"
  /\ tx = "sending" /\ trouble \cap {"init", "changed"} = {} => "netdev" \in held

LifecycleInv == TypeOK /\ StageInv /\ NetworkInv /\ UserInv

(* "Indicate for the PC Host that the SOC driver is up and ready for       *)
(* packets": while the sigil stands, and before exit begins, there is an   *)
(* interface for packets to go to.  Init raises it whatever                *)
(* nalla_250_soc_network_init returned.                                    *)
UpMeansReady == sigil /\ pc = "loaded" => "netdev" \in held
=============================================================================

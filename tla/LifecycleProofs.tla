-------------------------- MODULE LifecycleProofs --------------------------
(***************************************************************************)
(* Proofs about Lifecycle, for any number of loads and of changes of       *)
(* NetworkEnable.                                                          *)
(***************************************************************************)
EXTENDS Lifecycle, TLAPS

(* Nothing is loaded at first.                                             *)
LEMMA LifecycleInit == Init => LifecycleInv
<1> SUFFICES ASSUME Init PROVE LifecycleInv
  OBVIOUS
<1> USE LifecycleAssumption DEF Init, Loading, Exiting, Dead
<1>1. TypeOK
  <2>1. loads \in 0 .. MaxLoads /\ changes \in 0 .. MaxChanges
    OBVIOUS
  <2>2. held \subseteq Resources /\ leaked \subseteq Resources
        /\ trouble \subseteq {"init", "network", "macs", "device", "changed",
                              "tasklet"}
    OBVIOUS
  <2>3. NetworkEnable \in BOOLEAN /\ sigil \in BOOLEAN
    OBVIOUS
  <2>4. /\ pc = "unloaded" /\ nalla0 \in {"none", "registered", "open", "dead"}
        /\ tx \in {"idle", "sending"}
        /\ tasklet \in {"idle", "queued", "running"}
    OBVIOUS
  <2>5. QED
    BY ONLY <2>1, <2>2, <2>3, <2>4 DEF TypeOK
<1>2. StageInv
  BY DEF StageInv, HandlerReady
<1>3. NetworkInv
  BY DEF NetworkInv
<1>4. UserInv
  BY DEF UserInv, TaskletReady
<1>5. QED
  BY <1>1, <1>2, <1>3, <1>4 DEF LifecycleInv

(* Types are preserved by every step.                                      *)
LEMMA LifecycleTypeStep ==
  ASSUME LifecycleInv, [Next]_vars
  PROVE  TypeOK'
<1> USE DEF LifecycleInv, TypeOK,
        Resources, Mappings, Windows, Macs, Callbacks, Loading, Exiting, Dead,
        kernelVars, boundVars
<1>1. ASSUME NEW value \in EnableValues, Load(value)
      PROVE  TypeOK'
  BY <1>1, LifecycleAssumption DEF Load, StartLoad
<1>2. ASSUME NEW value \in EnableValues, LoadFails(value)
      PROVE  TypeOK'
  BY <1>2, LifecycleAssumption DEF LoadFails, StartLoad
<1>3. CASE AllocateIngress
  BY <1>3 DEF AllocateIngress
<1>4. CASE AllocateIngressFails
  BY <1>4 DEF AllocateIngressFails, Fail
<1>5. CASE RegisterNetwork
  BY <1>5 DEF RegisterNetwork
<1>6. CASE AllocateNetdevFails
  BY <1>6 DEF AllocateNetdevFails, Die
<1>7. CASE RegisterNetworkFails
  BY <1>7 DEF RegisterNetworkFails
<1>8. CASE SkipNetwork
  BY <1>8 DEF SkipNetwork
<1>9. ASSUME NEW mapped \in SUBSET Macs, MapMacs(mapped)
      PROVE  TypeOK'
  BY <1>9 DEF MapMacs
<1>10. CASE InitDevice
  BY <1>10 DEF InitDevice
<1>11. CASE InitDeviceFails
  BY <1>11 DEF InitDeviceFails
<1>12. CASE RequestIrq
  BY <1>12 DEF RequestIrq
<1>13. CASE RequestIrqFails
  BY <1>13 DEF RequestIrqFails, Fail
<1>14. CASE RaiseSigil
  BY <1>14 DEF RaiseSigil
<1>15. CASE RaiseSigilFails
  BY <1>15 DEF RaiseSigilFails, Die
<1>16. CASE FreeIrq
  BY <1>16 DEF FreeIrq
<1>17. CASE UnmapRegs
  BY <1>17 DEF UnmapRegs, Release
<1>18. CASE FreeIngress
  BY <1>18 DEF FreeIngress, Release
<1>19. CASE UnmapWindows
  BY <1>19 DEF UnmapWindows, Release
<1>20. CASE LowerSigil
  BY <1>20 DEF LowerSigil
<1>21. CASE LowerSigilFails
  BY <1>21 DEF LowerSigilFails, Die
<1>22. CASE SkipCleanUpNetwork
  BY <1>22 DEF SkipCleanUpNetwork, Release
<1>23. CASE UnregisterNetwork
  BY <1>23 DEF UnregisterNetwork
<1>24. CASE UnregisterNothing
  BY <1>24 DEF UnregisterNothing, Release
<1>25. CASE UnregisterTwice
  BY <1>25 DEF UnregisterTwice, Release, Die
<1>26. CASE FreeNetdev
  BY <1>26 DEF FreeNetdev, Release
<1>27. CASE UnmapMacs
  BY <1>27 DEF UnmapMacs, Release
<1>28. CASE CleanUpDevice
  BY <1>28 DEF CleanUpDevice
<1>29. CASE Open
  BY <1>29 DEF Open
<1>30. CASE TransmitBegin
  BY <1>30 DEF TransmitBegin
<1>31. CASE TransmitEnd
  BY <1>31 DEF TransmitEnd
<1>32. CASE Interrupt
  BY <1>32 DEF Interrupt
<1>33. CASE TaskletRuns
  BY <1>33 DEF TaskletRuns
<1>34. ASSUME NEW value \in EnableValues, SetNetworkEnable(value)
      PROVE  TypeOK'
  BY <1>34, LifecycleAssumption DEF SetNetworkEnable
<1>35. CASE UNCHANGED vars
  BY <1>35 DEF vars
<1>36. QED
  BY <1>1, <1>2, <1>3, <1>4, <1>5, <1>6, <1>7, <1>8, <1>9, <1>10, <1>11,
     <1>12, <1>13, <1>14, <1>15, <1>16, <1>17, <1>18, <1>19, <1>20, <1>21,
     <1>22, <1>23, <1>24, <1>25, <1>26, <1>27, <1>28, <1>29, <1>30, <1>31,
     <1>32, <1>33, <1>34, <1>35
  DEF Next, InitSteps, ExitSteps, Users

(* So is what is held at which step of init and exit, ...                  *)
LEMMA LifecycleStageStep ==
  ASSUME LifecycleInv, [Next]_vars
  PROVE  StageInv'
<1> USE DEF LifecycleInv, TypeOK, StageInv, HandlerReady,
        Resources, Mappings, Windows, Macs, Callbacks, Loading, Exiting, Dead,
        kernelVars, boundVars
<1>1. ASSUME NEW value \in EnableValues, Load(value)
      PROVE  StageInv'
  BY <1>1, LifecycleAssumption DEF Load, StartLoad
<1>2. ASSUME NEW value \in EnableValues, LoadFails(value)
      PROVE  StageInv'
  BY <1>2, LifecycleAssumption DEF LoadFails, StartLoad
<1>3. CASE AllocateIngress
  BY <1>3 DEF AllocateIngress
<1>4. CASE AllocateIngressFails
  BY <1>4 DEF AllocateIngressFails, Fail
<1>5. CASE RegisterNetwork
  BY <1>5 DEF RegisterNetwork
<1>6. CASE AllocateNetdevFails
  BY <1>6 DEF AllocateNetdevFails, Die
<1>7. CASE RegisterNetworkFails
  BY <1>7 DEF RegisterNetworkFails
<1>8. CASE SkipNetwork
  BY <1>8 DEF SkipNetwork
<1>9. ASSUME NEW mapped \in SUBSET Macs, MapMacs(mapped)
      PROVE  StageInv'
  BY <1>9 DEF MapMacs
<1>10. CASE InitDevice
  BY <1>10 DEF InitDevice
<1>11. CASE InitDeviceFails
  BY <1>11 DEF InitDeviceFails
<1>12. CASE RequestIrq
  BY <1>12 DEF RequestIrq
<1>13. CASE RequestIrqFails
  BY <1>13 DEF RequestIrqFails, Fail
<1>14. CASE RaiseSigil
  BY <1>14 DEF RaiseSigil
<1>15. CASE RaiseSigilFails
  BY <1>15 DEF RaiseSigilFails, Die
<1>16. CASE FreeIrq
  BY <1>16 DEF FreeIrq
<1>17. CASE UnmapRegs
  BY <1>17 DEF UnmapRegs, Release
<1>18. CASE FreeIngress
  BY <1>18 DEF FreeIngress, Release
<1>19. CASE UnmapWindows
  BY <1>19 DEF UnmapWindows, Release
<1>20. CASE LowerSigil
  BY <1>20 DEF LowerSigil
<1>21. CASE LowerSigilFails
  BY <1>21 DEF LowerSigilFails, Die
<1>22. CASE SkipCleanUpNetwork
  BY <1>22 DEF SkipCleanUpNetwork, Release
<1>23. CASE UnregisterNetwork
  BY <1>23 DEF UnregisterNetwork
<1>24. CASE UnregisterNothing
  BY <1>24 DEF UnregisterNothing, Release
<1>25. CASE UnregisterTwice
  <2>1. CASE Release("networkDown", "macsDown", {})
    BY <2>1 DEF Release
  <2>2. CASE Die("networkDown", "exitOops")
    BY <2>2 DEF Die
  <2>3. QED
    BY <1>25, <2>1, <2>2 DEF UnregisterTwice
<1>26. CASE FreeNetdev
  BY <1>26 DEF FreeNetdev, Release
<1>27. CASE UnmapMacs
  BY <1>27 DEF UnmapMacs, Release
<1>28. CASE CleanUpDevice
  BY <1>28 DEF CleanUpDevice
<1>29. CASE Open
  BY <1>29 DEF Open
<1>30. CASE TransmitBegin
  BY <1>30 DEF TransmitBegin
<1>31. CASE TransmitEnd
  BY <1>31 DEF TransmitEnd
<1>32. CASE Interrupt
  BY <1>32 DEF Interrupt
<1>33. CASE TaskletRuns
  BY <1>33 DEF TaskletRuns
<1>34. ASSUME NEW value \in EnableValues, SetNetworkEnable(value)
      PROVE  StageInv'
  BY <1>34, LifecycleAssumption DEF SetNetworkEnable
<1>35. CASE UNCHANGED vars
  BY <1>35 DEF vars
<1>36. QED
  BY <1>1, <1>2, <1>3, <1>4, <1>5, <1>6, <1>7, <1>8, <1>9, <1>10, <1>11,
     <1>12, <1>13, <1>14, <1>15, <1>16, <1>17, <1>18, <1>19, <1>20, <1>21,
     <1>22, <1>23, <1>24, <1>25, <1>26, <1>27, <1>28, <1>29, <1>30, <1>31,
     <1>32, <1>33, <1>34, <1>35
  DEF Next, InitSteps, ExitSteps, Users

(* ... its agreement with NetworkEnable, ...                               *)
LEMMA LifecycleNetworkStep ==
  ASSUME LifecycleInv, [Next]_vars
  PROVE  NetworkInv'
<1> USE DEF LifecycleInv, TypeOK, StageInv, NetworkInv,
        Resources, Mappings, Windows, Macs, Callbacks, Loading, Exiting, Dead,
        kernelVars, boundVars
<1>1. ASSUME NEW value \in EnableValues, Load(value)
      PROVE  NetworkInv'
  BY <1>1, LifecycleAssumption DEF Load, StartLoad
<1>2. ASSUME NEW value \in EnableValues, LoadFails(value)
      PROVE  NetworkInv'
  BY <1>2, LifecycleAssumption DEF LoadFails, StartLoad
<1>3. CASE AllocateIngress
  BY <1>3 DEF AllocateIngress
<1>4. CASE AllocateIngressFails
  BY <1>4 DEF AllocateIngressFails, Fail
<1>5. CASE RegisterNetwork
  BY <1>5 DEF RegisterNetwork
<1>6. CASE AllocateNetdevFails
  BY <1>6 DEF AllocateNetdevFails, Die
<1>7. CASE RegisterNetworkFails
  BY <1>7 DEF RegisterNetworkFails
<1>8. CASE SkipNetwork
  BY <1>8 DEF SkipNetwork
<1>9. ASSUME NEW mapped \in SUBSET Macs, MapMacs(mapped)
      PROVE  NetworkInv'
  BY <1>9 DEF MapMacs
<1>10. CASE InitDevice
  BY <1>10 DEF InitDevice
<1>11. CASE InitDeviceFails
  BY <1>11 DEF InitDeviceFails
<1>12. CASE RequestIrq
  BY <1>12 DEF RequestIrq
<1>13. CASE RequestIrqFails
  BY <1>13 DEF RequestIrqFails, Fail
<1>14. CASE RaiseSigil
  BY <1>14 DEF RaiseSigil
<1>15. CASE RaiseSigilFails
  BY <1>15 DEF RaiseSigilFails, Die
<1>16. CASE FreeIrq
  BY <1>16 DEF FreeIrq
<1>17. CASE UnmapRegs
  BY <1>17 DEF UnmapRegs, Release
<1>18. CASE FreeIngress
  BY <1>18 DEF FreeIngress, Release
<1>19. CASE UnmapWindows
  BY <1>19 DEF UnmapWindows, Release
<1>20. CASE LowerSigil
  BY <1>20 DEF LowerSigil
<1>21. CASE LowerSigilFails
  BY <1>21 DEF LowerSigilFails, Die
<1>22. CASE SkipCleanUpNetwork
  BY <1>22 DEF SkipCleanUpNetwork, Release
<1>23. CASE UnregisterNetwork
  BY <1>23 DEF UnregisterNetwork
<1>24. CASE UnregisterNothing
  BY <1>24 DEF UnregisterNothing, Release
<1>25. CASE UnregisterTwice
  BY <1>25 DEF UnregisterTwice, Release, Die
<1>26. CASE FreeNetdev
  BY <1>26 DEF FreeNetdev, Release
<1>27. CASE UnmapMacs
  <2>1. /\ pc = "macsDown" /\ pc' = "deviceDown" /\ held' = held \ Macs
        /\ UNCHANGED << NetworkEnable, trouble >>
    BY <1>27 DEF UnmapMacs, Release
  <2>2. held' \cap Macs = {} /\ ("netdev" \in held' => "netdev" \in held)
    BY <2>1
  <2>3. "irq" \notin held'
    BY <2>1
  <2>4. QED
    BY <2>1, <2>2, <2>3
<1>28. CASE CleanUpDevice
  BY <1>28 DEF CleanUpDevice
<1>29. CASE Open
  BY <1>29 DEF Open
<1>30. CASE TransmitBegin
  BY <1>30 DEF TransmitBegin
<1>31. CASE TransmitEnd
  BY <1>31 DEF TransmitEnd
<1>32. CASE Interrupt
  BY <1>32 DEF Interrupt
<1>33. CASE TaskletRuns
  BY <1>33 DEF TaskletRuns
<1>34. ASSUME NEW value \in EnableValues, SetNetworkEnable(value)
      PROVE  NetworkInv'
  BY <1>34, LifecycleAssumption DEF SetNetworkEnable
<1>35. CASE UNCHANGED vars
  BY <1>35 DEF vars
<1>36. QED
  BY <1>1, <1>2, <1>3, <1>4, <1>5, <1>6, <1>7, <1>8, <1>9, <1>10, <1>11,
     <1>12, <1>13, <1>14, <1>15, <1>16, <1>17, <1>18, <1>19, <1>20, <1>21,
     <1>22, <1>23, <1>24, <1>25, <1>26, <1>27, <1>28, <1>29, <1>30, <1>31,
     <1>32, <1>33, <1>34, <1>35
  DEF Next, InitSteps, ExitSteps, Users

(* ... and what the users of the driver rely on.                           *)
LEMMA LifecycleUserStep ==
  ASSUME LifecycleInv, [Next]_vars
  PROVE  UserInv'
<1> USE DEF LifecycleInv, TypeOK, StageInv, NetworkInv, UserInv, HandlerReady,
        TaskletReady,
        Resources, Mappings, Windows, Macs, Callbacks, Loading, Exiting, Dead,
        kernelVars, boundVars
<1>1. ASSUME NEW value \in EnableValues, Load(value)
      PROVE  UserInv'
  BY <1>1, LifecycleAssumption DEF Load, StartLoad
<1>2. ASSUME NEW value \in EnableValues, LoadFails(value)
      PROVE  UserInv'
  BY <1>2, LifecycleAssumption DEF LoadFails, StartLoad
<1>3. CASE AllocateIngress
  BY <1>3 DEF AllocateIngress
<1>4. CASE AllocateIngressFails
  BY <1>4 DEF AllocateIngressFails, Fail
<1>5. CASE RegisterNetwork
  BY <1>5 DEF RegisterNetwork
<1>6. CASE AllocateNetdevFails
  BY <1>6 DEF AllocateNetdevFails, Die
<1>7. CASE RegisterNetworkFails
  BY <1>7 DEF RegisterNetworkFails
<1>8. CASE SkipNetwork
  BY <1>8 DEF SkipNetwork
<1>9. ASSUME NEW mapped \in SUBSET Macs, MapMacs(mapped)
      PROVE  UserInv'
  BY <1>9 DEF MapMacs
<1>10. CASE InitDevice
  BY <1>10 DEF InitDevice
<1>11. CASE InitDeviceFails
  BY <1>11 DEF InitDeviceFails
<1>12. CASE RequestIrq
  BY <1>12 DEF RequestIrq
<1>13. CASE RequestIrqFails
  BY <1>13 DEF RequestIrqFails, Fail
<1>14. CASE RaiseSigil
  BY <1>14 DEF RaiseSigil
<1>15. CASE RaiseSigilFails
  BY <1>15 DEF RaiseSigilFails, Die
<1>16. CASE FreeIrq
  BY <1>16 DEF FreeIrq
<1>17. CASE UnmapRegs
  BY <1>17 DEF UnmapRegs, Release
<1>18. CASE FreeIngress
  BY <1>18 DEF FreeIngress, Release
<1>19. CASE UnmapWindows
  BY <1>19 DEF UnmapWindows, Release
<1>20. CASE LowerSigil
  BY <1>20 DEF LowerSigil
<1>21. CASE LowerSigilFails
  BY <1>21 DEF LowerSigilFails, Die
<1>22. CASE SkipCleanUpNetwork
  BY <1>22 DEF SkipCleanUpNetwork, Release
<1>23. CASE UnregisterNetwork
  BY <1>23 DEF UnregisterNetwork
<1>24. CASE UnregisterNothing
  BY <1>24 DEF UnregisterNothing, Release
<1>25. CASE UnregisterTwice
  BY <1>25 DEF UnregisterTwice, Release, Die
<1>26. CASE FreeNetdev
  BY <1>26 DEF FreeNetdev, Release
<1>27. CASE UnmapMacs
  BY <1>27 DEF UnmapMacs, Release
<1>28. CASE CleanUpDevice
  BY <1>28 DEF CleanUpDevice
<1>29. CASE Open
  BY <1>29 DEF Open
<1>30. CASE TransmitBegin
  BY <1>30 DEF TransmitBegin
<1>31. CASE TransmitEnd
  BY <1>31 DEF TransmitEnd
<1>32. CASE Interrupt
  BY <1>32 DEF Interrupt
<1>33. CASE TaskletRuns
  BY <1>33 DEF TaskletRuns
<1>34. ASSUME NEW value \in EnableValues, SetNetworkEnable(value)
      PROVE  UserInv'
  BY <1>34, LifecycleAssumption DEF SetNetworkEnable
<1>35. CASE UNCHANGED vars
  BY <1>35 DEF vars
<1>36. QED
  BY <1>1, <1>2, <1>3, <1>4, <1>5, <1>6, <1>7, <1>8, <1>9, <1>10, <1>11,
     <1>12, <1>13, <1>14, <1>15, <1>16, <1>17, <1>18, <1>19, <1>20, <1>21,
     <1>22, <1>23, <1>24, <1>25, <1>26, <1>27, <1>28, <1>29, <1>30, <1>31,
     <1>32, <1>33, <1>34, <1>35
  DEF Next, InitSteps, ExitSteps, Users

-----------------------------------------------------------------------------
(* The invariant holds however loads, failures, unloads, changes of the    *)
(* parameter and the users of the driver interleave.                       *)
THEOREM LifecycleInvariant == Spec => []LifecycleInv
<1>1. LifecycleInv /\ [Next]_vars => LifecycleInv'
  BY LifecycleTypeStep, LifecycleStageStep, LifecycleNetworkStep,
     LifecycleUserStep DEF LifecycleInv
<1>2. QED
  BY LifecycleInit, <1>1, PTL DEF Spec

(* The interrupt handler never runs without what it and its tasklet touch. *)
THEOREM HandlerAlwaysReady == Spec => []HandlerReady
<1>1. LifecycleInv => HandlerReady
  BY DEF LifecycleInv, StageInv, HandlerReady
<1>2. QED
  BY <1>1, LifecycleInvariant, PTL

(* The tasklet lacks its window or buffer only if it was pending when exit *)
(* began, and its device also after a change of NetworkEnable or a network *)
(* that failed to register.                                                *)
THEOREM TaskletUsuallyReady == Spec => []TaskletReady
<1>1. LifecycleInv => TaskletReady
  BY DEF LifecycleInv, UserInv, TaskletReady
<1>2. QED
  BY <1>1, LifecycleInvariant, PTL

(* A transmission lacks its window only during exit, or on an interface    *)
(* that was left behind.                                                   *)
THEOREM TransmitUsuallyReady == Spec => []TransmitReady
<1>1. LifecycleInv => TransmitReady
  BY DEF LifecycleInv, TypeOK, StageInv, NetworkInv, UserInv, TransmitReady,
         Windows, Loading, Exiting, Dead
<1>2. QED
  BY <1>1, LifecycleInvariant, PTL

(* The PC host sees the sigil of a loaded module only, or of one that died *)
(* trying to lower it.                                                     *)
THEOREM SigilSound == Spec => []SigilMeansDriver
<1>1. LifecycleInv => SigilMeansDriver
  BY DEF LifecycleInv, StageInv, SigilMeansDriver, Exiting
<1>2. QED
  BY <1>1, LifecycleInvariant, PTL

(* A process dies opening the interface only in the one step between       *)
(* registering it and mapping its MAC address, or after a mapping that     *)
(* failed.                                                                 *)
THEOREM OpenUsuallyReady == Spec => OpenReady
<1> DEFINE Step ==
      nalla0 # "dead" /\ nalla0' = "dead" => pc = "macs" \/ "macs" \in trouble
<1>1. LifecycleInv /\ [Next]_vars => Step
  <2> SUFFICES ASSUME LifecycleInv, [Next]_vars
               PROVE  Step
    OBVIOUS
  <2> USE DEF LifecycleInv, TypeOK, StageInv, NetworkInv, UserInv,
          Resources, Mappings, Windows, Macs, Callbacks, Loading, Exiting, Dead,
          kernelVars, boundVars
  <2>1. ASSUME NEW value \in EnableValues, Load(value)
          PROVE  Step
    BY <2>1 DEF Load, StartLoad
  <2>2. ASSUME NEW value \in EnableValues, LoadFails(value)
          PROVE  Step
    BY <2>2 DEF LoadFails, StartLoad
  <2>3. CASE AllocateIngress
    BY <2>3 DEF AllocateIngress
  <2>4. CASE AllocateIngressFails
    BY <2>4 DEF AllocateIngressFails, Fail
  <2>5. CASE RegisterNetwork
    BY <2>5 DEF RegisterNetwork
  <2>6. CASE AllocateNetdevFails
    BY <2>6 DEF AllocateNetdevFails, Die
  <2>7. CASE RegisterNetworkFails
    BY <2>7 DEF RegisterNetworkFails
  <2>8. CASE SkipNetwork
    BY <2>8 DEF SkipNetwork
  <2>9. ASSUME NEW mapped \in SUBSET Macs, MapMacs(mapped)
          PROVE  Step
    BY <2>9 DEF MapMacs
  <2>10. CASE InitDevice
    BY <2>10 DEF InitDevice
  <2>11. CASE InitDeviceFails
    BY <2>11 DEF InitDeviceFails
  <2>12. CASE RequestIrq
    BY <2>12 DEF RequestIrq
  <2>13. CASE RequestIrqFails
    BY <2>13 DEF RequestIrqFails, Fail
  <2>14. CASE RaiseSigil
    BY <2>14 DEF RaiseSigil
  <2>15. CASE RaiseSigilFails
    BY <2>15 DEF RaiseSigilFails, Die
  <2>16. CASE FreeIrq
    BY <2>16 DEF FreeIrq
  <2>17. CASE UnmapRegs
    BY <2>17 DEF UnmapRegs, Release
  <2>18. CASE FreeIngress
    BY <2>18 DEF FreeIngress, Release
  <2>19. CASE UnmapWindows
    BY <2>19 DEF UnmapWindows, Release
  <2>20. CASE LowerSigil
    BY <2>20 DEF LowerSigil
  <2>21. CASE LowerSigilFails
    BY <2>21 DEF LowerSigilFails, Die
  <2>22. CASE SkipCleanUpNetwork
    BY <2>22 DEF SkipCleanUpNetwork, Release
  <2>23. CASE UnregisterNetwork
    BY <2>23 DEF UnregisterNetwork
  <2>24. CASE UnregisterNothing
    BY <2>24 DEF UnregisterNothing, Release
  <2>25. CASE UnregisterTwice
    BY <2>25 DEF UnregisterTwice, Release, Die
  <2>26. CASE FreeNetdev
    BY <2>26 DEF FreeNetdev, Release
  <2>27. CASE UnmapMacs
    BY <2>27 DEF UnmapMacs, Release
  <2>28. CASE CleanUpDevice
    BY <2>28 DEF CleanUpDevice
  <2>29. CASE Open
    BY <2>29 DEF Open
  <2>30. CASE TransmitBegin
    BY <2>30 DEF TransmitBegin
  <2>31. CASE TransmitEnd
    BY <2>31 DEF TransmitEnd
  <2>32. CASE Interrupt
    BY <2>32 DEF Interrupt
  <2>33. CASE TaskletRuns
    BY <2>33 DEF TaskletRuns
  <2>34. ASSUME NEW value \in EnableValues, SetNetworkEnable(value)
          PROVE  Step
    BY <2>34 DEF SetNetworkEnable
  <2>35. CASE UNCHANGED vars
    BY <2>35 DEF vars
  <2>36. QED
    BY <2>1, <2>2, <2>3, <2>4, <2>5, <2>6, <2>7, <2>8, <2>9, <2>10, <2>11,
       <2>12, <2>13, <2>14, <2>15, <2>16, <2>17, <2>18, <2>19, <2>20, <2>21,
       <2>22, <2>23, <2>24, <2>25, <2>26, <2>27, <2>28, <2>29, <2>30, <2>31,
       <2>32, <2>33, <2>34, <2>35
    DEF Next, InitSteps, ExitSteps, Users
<1>2. QED
  BY <1>1, LifecycleInvariant, PTL DEF Spec, OpenReady

(* A module whose life had no trouble but an address that could not be     *)
(* mapped leaves no resource, no interface and no tasklet behind.          *)
THEOREM UnloadIsClean == Spec => NothingLeftBehind
<1> DEFINE Step ==
      pc # "unloaded" /\ pc' = "unloaded" /\ trouble' \subseteq {"macs"}
        => leaked' = leaked /\ nalla0' = "none" /\ tasklet' = "idle"
<1>1. LifecycleInv /\ [Next]_vars => Step
  <2> SUFFICES ASSUME LifecycleInv, [Next]_vars
               PROVE  Step
    OBVIOUS
  <2> USE DEF LifecycleInv, TypeOK, StageInv, NetworkInv, UserInv,
          Resources, Mappings, Windows, Macs, Callbacks, Loading, Exiting, Dead,
          kernelVars, boundVars
  <2>1. ASSUME NEW value \in EnableValues, Load(value)
          PROVE  Step
    BY <2>1 DEF Load, StartLoad
  <2>2. ASSUME NEW value \in EnableValues, LoadFails(value)
          PROVE  Step
    BY <2>2 DEF LoadFails, StartLoad
  <2>3. CASE AllocateIngress
    BY <2>3 DEF AllocateIngress
  <2>4. CASE AllocateIngressFails
    BY <2>4 DEF AllocateIngressFails, Fail
  <2>5. CASE RegisterNetwork
    BY <2>5 DEF RegisterNetwork
  <2>6. CASE AllocateNetdevFails
    BY <2>6 DEF AllocateNetdevFails, Die
  <2>7. CASE RegisterNetworkFails
    BY <2>7 DEF RegisterNetworkFails
  <2>8. CASE SkipNetwork
    BY <2>8 DEF SkipNetwork
  <2>9. ASSUME NEW mapped \in SUBSET Macs, MapMacs(mapped)
          PROVE  Step
    BY <2>9 DEF MapMacs
  <2>10. CASE InitDevice
    BY <2>10 DEF InitDevice
  <2>11. CASE InitDeviceFails
    BY <2>11 DEF InitDeviceFails
  <2>12. CASE RequestIrq
    BY <2>12 DEF RequestIrq
  <2>13. CASE RequestIrqFails
    BY <2>13 DEF RequestIrqFails, Fail
  <2>14. CASE RaiseSigil
    BY <2>14 DEF RaiseSigil
  <2>15. CASE RaiseSigilFails
    BY <2>15 DEF RaiseSigilFails, Die
  <2>16. CASE FreeIrq
    BY <2>16 DEF FreeIrq
  <2>17. CASE UnmapRegs
    BY <2>17 DEF UnmapRegs, Release
  <2>18. CASE FreeIngress
    BY <2>18 DEF FreeIngress, Release
  <2>19. CASE UnmapWindows
    BY <2>19 DEF UnmapWindows, Release
  <2>20. CASE LowerSigil
    BY <2>20 DEF LowerSigil
  <2>21. CASE LowerSigilFails
    BY <2>21 DEF LowerSigilFails, Die
  <2>22. CASE SkipCleanUpNetwork
    BY <2>22 DEF SkipCleanUpNetwork, Release
  <2>23. CASE UnregisterNetwork
    BY <2>23 DEF UnregisterNetwork
  <2>24. CASE UnregisterNothing
    BY <2>24 DEF UnregisterNothing, Release
  <2>25. CASE UnregisterTwice
    BY <2>25 DEF UnregisterTwice, Release, Die
  <2>26. CASE FreeNetdev
    BY <2>26 DEF FreeNetdev, Release
  <2>27. CASE UnmapMacs
    BY <2>27 DEF UnmapMacs, Release
  <2>28. CASE CleanUpDevice
    BY <2>28 DEF CleanUpDevice
  <2>29. CASE Open
    BY <2>29 DEF Open
  <2>30. CASE TransmitBegin
    BY <2>30 DEF TransmitBegin
  <2>31. CASE TransmitEnd
    BY <2>31 DEF TransmitEnd
  <2>32. CASE Interrupt
    BY <2>32 DEF Interrupt
  <2>33. CASE TaskletRuns
    BY <2>33 DEF TaskletRuns
  <2>34. ASSUME NEW value \in EnableValues, SetNetworkEnable(value)
          PROVE  Step
    BY <2>34 DEF SetNetworkEnable
  <2>35. CASE UNCHANGED vars
    BY <2>35 DEF vars
  <2>36. QED
    BY <2>1, <2>2, <2>3, <2>4, <2>5, <2>6, <2>7, <2>8, <2>9, <2>10, <2>11,
       <2>12, <2>13, <2>14, <2>15, <2>16, <2>17, <2>18, <2>19, <2>20, <2>21,
       <2>22, <2>23, <2>24, <2>25, <2>26, <2>27, <2>28, <2>29, <2>30, <2>31,
       <2>32, <2>33, <2>34, <2>35
    DEF Next, InitSteps, ExitSteps, Users
<1>2. QED
  BY <1>1, LifecycleInvariant, PTL DEF Spec, NothingLeftBehind
=============================================================================

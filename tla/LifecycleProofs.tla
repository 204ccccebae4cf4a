-------------------------- MODULE LifecycleProofs ---------------------------
(***************************************************************************)
(* Load and unload, for every choice of the load steps that may fail and   *)
(* any number of writes and tasks: what is held where, that nothing is     *)
(* given back twice or left behind, and who may use what is gone.          *)
(*                                                                         *)
(* None of the properties is inductive: a goto chain is right because of   *)
(* what is held at its label. Held says that for every line of the two     *)
(* threads, Optional what may be held besides.                             *)
(***************************************************************************)
EXTENDS Lifecycle, TLAPS

Base   == {"praid_dev", "bdevs", "vdev"}
Device == Base \cup {"bus", "dispatcher"} \cup VdevMaps
Probed == {"enabled", "regions", "workqueue"} \cup DrvMaps

\* Between the driver's registration and its removal, probed or not.
Served == {"register_blkdev", "add_disk", "out_register", "loaded",
           "del_disk", "unregister_blkdev", "unregister_driver"}

Pcs == Served \cup
  {"unloaded", "load_configs", "get_bdevs", "free_praid", "vdev_init",
   "put_bdevs", "map_storage", "pci_init", "pciev_init_err",
   "start_dispatcher", "unmap_storage", "vdev_finalize", "stop_dispatcher",
   "register_driver", "remove_bus", "enable", "regions", "map_bar",
   "workqueue", "map_chunk", "request_irq", "out_memunmap_sto",
   "out_memunmap_bar", "out_regions", "free_irq", "unmap", "flush"}

\* What is held at a line, whatever has failed before.
Held(p) ==
  CASE p = "unloaded" -> {}
    [] p \in {"load_configs", "get_bdevs", "free_praid"} -> {"praid_dev"}
    [] p \in {"vdev_init", "put_bdevs"} -> {"praid_dev", "bdevs"}
    [] p \in {"map_storage", "pci_init", "pciev_init_err"} -> Base
    [] p \in {"unmap_storage", "vdev_finalize"} -> Base \cup VdevMaps
    [] p = "stop_dispatcher" -> Device \ {"bus"}
    [] p = "start_dispatcher" -> Device \ {"dispatcher"}
    [] p \in {"register_driver", "remove_bus"} -> Device
    [] p \in {"enable", "register_blkdev", "unregister_driver"} ->
         Device \cup {"driver"}
    [] p = "regions" -> Device \cup {"driver", "enabled"}
    [] p \in {"map_bar", "out_regions"} ->
         Device \cup {"driver", "enabled", "regions"}
    [] p = "workqueue" ->
         Device \cup {"driver", "enabled", "regions", "drv_bar"}
    [] p \in {"map_chunk", "out_memunmap_bar"} ->
         Device \cup {"driver", "enabled", "regions", "drv_bar", "workqueue"}
    [] p \in {"request_irq", "out_memunmap_sto"} ->
         Device \cup {"driver"} \cup Probed
    [] p \in {"add_disk", "out_register", "unregister_blkdev"} ->
         Device \cup {"driver", "major"}
    [] p \in {"loaded", "del_disk"} -> Device \cup {"driver", "major", "disk"}
    [] p = "free_irq" -> Device \cup Probed \cup {"irq"}
    [] p = "unmap" -> Device \cup Probed
    [] p = "flush" -> Device \cup {"enabled", "regions", "workqueue"}

Leaked == {"old_bar", "storage"}

Optional(p) ==
  IF p \in Served THEN Leaked \cup Probed \cup {"irq"}
  ELSE IF p = "remove_bus" THEN Leaked \cup {"enabled"} ELSE Leaked

\* With an interrupt the driver has all of its own, without it no more than
\* the device enabled.
HeldInv ==
  /\ pc \in Pcs
  /\ Held(pc) \subseteq held /\ held \subseteq Held(pc) \cup Optional(pc)
  /\ pc \in Served =>
       IF "irq" \in held THEN Probed \subseteq held
       ELSE held \cap (Probed \ {"enabled"}) = {}

-----------------------------------------------------------------------------
(* The write path. Tasks wait and run only while the array is up, or while *)
(* it is taken down no further than the flush.                             *)

Live == {"loaded", "del_disk", "unregister_blkdev", "unregister_driver",
         "free_irq", "unmap", "flush"}

\* From the clearing of the BAR to the first semaphore.
Quiet == {"start_dispatcher", "register_driver", "enable", "regions",
          "map_bar", "workqueue"}

PathTypes ==
  /\ reading \in Nat /\ writing \in Nat /\ reading + writing <= MaxWrites
  /\ queued \in 0 .. MaxTasks /\ sem \in 0 .. 1
  /\ in_bar \in BOOLEAN /\ rung \in BOOLEAN /\ pending \in BOOLEAN
  /\ dpc \in {"poll", "work", "signal"} /\ hasty \in BOOLEAN

\* There is one semaphore count, or one task on its way through the BAR.
OneOwner ==
  /\ sem = 1 => ~in_bar /\ ~rung /\ dpc = "poll" /\ ~pending
  /\ in_bar => ~rung /\ dpc = "poll" /\ ~pending
  /\ rung => dpc = "poll" /\ ~pending
  /\ dpc # "poll" => ~pending

PathInv ==
  /\ PathTypes /\ OneOwner
  /\ reading > 0 \/ writing > 0 => pc = "loaded"
  /\ queued > 0 \/ in_bar => "workqueue" \in held /\ pc \in Live
  /\ dpc # "poll" => "dispatcher" \in held
  /\ pending => "irq" \in held
  /\ pc \in Quiet => ~rung /\ dpc = "poll"

\* Before the BAR is cleared a task of an earlier load may be rung in it.
Stale == {"unloaded", "load_configs", "get_bdevs", "vdev_init", "map_storage",
          "pci_init", "pciev_init_err", "unmap_storage", "vdev_finalize",
          "put_bdevs", "free_praid"}

\* Unless rmmod was hasty, there is a task only while the array is up.
Calm == hasty \/ pc = "loaded" \/ pc \in Stale \/ ~TaskAlive

LifeInv == HeldInv /\ PathInv /\ Calm

LEMMA LifeInit == Init => LifeInv
<1> SUFFICES ASSUME Init PROVE LifeInv
  OBVIOUS
<1>1. HeldInv
  BY DEF Init, HeldInv, Pcs, Held, Optional, Served, Leaked
<1>2. PathInv
  <2>1. in_bar \in BOOLEAN /\ rung \in BOOLEAN /\ pending \in BOOLEAN
        /\ hasty \in BOOLEAN
    BY Zenon DEF Init
  <2>2. PathTypes
    BY <2>1, LifecycleAssumption DEF Init, PathTypes
  <2>3. OneOwner /\ pc \notin Quiet
    BY DEF Init, OneOwner, Quiet
  <2> QED
    BY <2>2, <2>3 DEF Init, PathInv
<1> QED
  BY <1>1, <1>2 DEF LifeInv, Calm, Stale, Init

-----------------------------------------------------------------------------
(* What is held. Each step of the two threads, and each failure, leaves held *)
(* what is held at the line it leads to, and nothing is given back that is *)
(* not held.                                                               *)

\* Loading: each step and its failure leave held what is held at their line.
LEMMA TakeSteps ==
  ASSUME HeldInv,
         \/ LoadConfigs \/ NvmeBlkdevInit \/ StorageInit \/ DispatcherInit
         \/ RegisterDriver \/ EnableDevice \/ RequestRegions \/ MapBar
         \/ MapChunk \/ RequestIrq \/ RegisterBlkdev \/ AddDisk
  PROVE  HeldInv'
<1> USE DEF Take, HeldInv, Held, Optional, Served, Pcs, Base, Device, Probed,
            Leaked, VdevMaps, DrvMaps, ProbeFailed, AddDiskErr
<1>1. CASE LoadConfigs
  BY <1>1 DEF LoadConfigs
<1>2. CASE NvmeBlkdevInit
  BY <1>2 DEF NvmeBlkdevInit
<1>3. CASE StorageInit
  BY <1>3 DEF StorageInit
<1>4. CASE DispatcherInit
  BY <1>4, LifecycleAssumption DEF DispatcherInit, FaultKinds
<1>5. CASE RegisterDriver
  BY <1>5 DEF RegisterDriver
<1>6. CASE EnableDevice
  BY <1>6 DEF EnableDevice
<1>7. CASE RequestRegions
  BY <1>7 DEF RequestRegions
<1>8. CASE MapBar
  BY <1>8 DEF MapBar
<1>9. CASE MapChunk
  BY <1>9 DEF MapChunk
<1>10. CASE RequestIrq
  BY <1>10 DEF RequestIrq
<1>11. CASE RegisterBlkdev
  BY <1>11 DEF RegisterBlkdev
<1>12. CASE AddDisk
  BY <1>12 DEF AddDisk
<1> QED
  BY <1>1, <1>2, <1>3, <1>4, <1>5, <1>6, <1>7, <1>8, <1>9, <1>10, <1>11,
     <1>12

LEMMA GiveSteps ==
  ASSUME HeldInv,
         \/ PciInitErr \/ OutMemunmapSto \/ OutMemunmapBar \/ OutRegions
         \/ OutRegister \/ DeleteBlockDevice \/ UnregisterBlkdev
         \/ UnregisterDriver \/ MemunmapDrv \/ FlushWorkqueue
         \/ RemoveRootBus \/ DispatcherFinal \/ StorageFinal \/ VdevFinalize
         \/ NvmeBlkdevFinal \/ KfreePraidDev \/ FreeIrq
  PROVE  HeldInv' /\ oops' = oops
<1> USE DEF Give, Put, HeldInv, Held, Optional, Served, Pcs, Base, Device,
            Probed, Leaked, VdevMaps, DrvMaps, ProbeFailed
<1>1. CASE PciInitErr
  BY <1>1 DEF PciInitErr
<1>2. CASE OutMemunmapSto
  BY <1>2 DEF OutMemunmapSto
<1>3. CASE OutMemunmapBar
  BY <1>3 DEF OutMemunmapBar
<1>4. CASE OutRegions
  BY <1>4 DEF OutRegions
<1>5. CASE OutRegister
  BY <1>5 DEF OutRegister
<1>6. CASE DeleteBlockDevice
  BY <1>6 DEF DeleteBlockDevice
<1>7. CASE UnregisterBlkdev
  BY <1>7 DEF UnregisterBlkdev
<1>8. CASE UnregisterDriver
  BY <1>8 DEF UnregisterDriver
<1>9. CASE MemunmapDrv
  BY <1>9 DEF MemunmapDrv
<1>10. CASE FlushWorkqueue
  BY <1>10 DEF FlushWorkqueue
<1>11. CASE RemoveRootBus
  BY <1>11 DEF RemoveRootBus
<1>12. CASE DispatcherFinal
  BY <1>12 DEF DispatcherFinal
<1>13. CASE StorageFinal
  BY <1>13 DEF StorageFinal
<1>14. CASE VdevFinalize
  BY <1>14 DEF VdevFinalize
<1>15. CASE NvmeBlkdevFinal
  BY <1>15 DEF NvmeBlkdevFinal
<1>16. CASE KfreePraidDev
  BY <1>16 DEF KfreePraidDev
<1>17. CASE FreeIrq
  BY <1>17 DEF FreeIrq
<1> QED
  BY <1>1, <1>2, <1>3, <1>4, <1>5, <1>6, <1>7, <1>8, <1>9,
     <1>10, <1>11, <1>12, <1>13, <1>14, <1>15, <1>16, <1>17

LEMMA OtherSteps ==
  ASSUME HeldInv,
         KzallocPraidDev \/ VdevInit \/ PciInit \/ InitWorkqueue \/ Rmmod
  PROVE  HeldInv'
<1> USE DEF HeldInv, Held, Optional, Served, Pcs, Base, Device, Probed,
            Leaked, VdevMaps, DrvMaps
<1>1. CASE KzallocPraidDev
  BY <1>1 DEF KzallocPraidDev
<1>2. CASE VdevInit
  BY <1>2 DEF VdevInit
<1>3. CASE PciInit
  BY <1>3 DEF PciInit
<1>4. CASE InitWorkqueue
  BY <1>4 DEF InitWorkqueue
<1>5. CASE Rmmod
  BY <1>5 DEF Rmmod
<1> QED
  BY <1>1, <1>2, <1>3, <1>4, <1>5

-----------------------------------------------------------------------------
(* The write path while the two threads go on, and its own steps.          *)

\* What a step of the threads must see to when it leaves the path alone.
LEMMA ThreadKeeps ==
  ASSUME LifeInv, HeldInv', UNCHANGED pathVars, hasty' = hasty,
         pc # "loaded",
         pc \in Stale => pc' \in Stale,
         pc' \in Quiet => pc \in Quiet,
         queued > 0 \/ in_bar => "workqueue" \in held' /\ pc' \in Live,
         dpc # "poll" => "dispatcher" \in held',
         pending => "irq" \in held'
  PROVE  LifeInv'
<1>1. /\ reading' = reading /\ writing' = writing /\ queued' = queued
      /\ sem' = sem /\ in_bar' = in_bar /\ rung' = rung /\ dpc' = dpc
      /\ pending' = pending
  BY DEF pathVars
<1>2. PathTypes' /\ OneOwner'
  BY <1>1 DEF LifeInv, PathInv, PathTypes, OneOwner
<1>3. PathInv'
  BY <1>1, <1>2 DEF LifeInv, PathInv, PathTypes
<1>4. Calm'
  BY <1>1 DEF LifeInv, Calm, TaskAlive
<1> QED
  BY <1>3, <1>4 DEF LifeInv

LEMMA TakesKeep ==
  ASSUME LifeInv,
         \/ LoadConfigs \/ NvmeBlkdevInit \/ StorageInit \/ DispatcherInit
         \/ RegisterDriver \/ EnableDevice \/ RequestRegions \/ MapBar
         \/ MapChunk \/ RequestIrq \/ RegisterBlkdev \/ AddDisk
  PROVE  LifeInv' /\ oops' = oops
<1>1. HeldInv'
  BY TakeSteps DEF LifeInv
<1>2. ASSUME NEW at, NEW r, NEW fault, NEW next, NEW out,
             Take(at, r, fault, next, out),
             at \notin Live,
             at \in Stale => next \in Stale /\ out \in Stale,
             at \notin Quiet => next \notin Quiet /\ out \notin Quiet
      PROVE  LifeInv' /\ oops' = oops
  <2>1. /\ UNCHANGED pathVars /\ hasty' = hasty /\ oops' = oops
        /\ pc = at /\ pc' \in {next, out} /\ held \subseteq held'
    BY <1>2 DEF Take
  <2>2. "loaded" \in Live
    BY DEF Live
  <2>3. /\ ~(queued > 0 \/ in_bar)
        /\ dpc # "poll" => "dispatcher" \in held'
        /\ pending => "irq" \in held'
    BY <1>2, <2>1 DEF LifeInv, PathInv
  <2> QED
    BY <1>1, <1>2, <2>1, <2>2, <2>3, ThreadKeeps
<1> USE DEF Live, Stale, Quiet, ProbeFailed, AddDiskErr
<1>3. CASE LoadConfigs
  BY <1>2, <1>3 DEF LoadConfigs
<1>4. CASE NvmeBlkdevInit
  BY <1>2, <1>4 DEF NvmeBlkdevInit
<1>5. CASE StorageInit
  BY <1>2, <1>5 DEF StorageInit
<1>6. CASE DispatcherInit
  BY <1>2, <1>6 DEF DispatcherInit
<1>7. CASE RegisterDriver
  BY <1>2, <1>7 DEF RegisterDriver
<1>8. CASE EnableDevice
  BY <1>2, <1>8 DEF EnableDevice
<1>9. CASE RequestRegions
  BY <1>2, <1>9 DEF RequestRegions
<1>10. CASE MapBar
  BY <1>2, <1>10 DEF MapBar
<1>11. CASE MapChunk
  BY <1>2, <1>11 DEF MapChunk
<1>12. CASE RequestIrq
  BY <1>2, <1>12 DEF RequestIrq
<1>13. CASE RegisterBlkdev
  BY <1>2, <1>13 DEF RegisterBlkdev
<1>14. CASE AddDisk
  BY <1>2, <1>14 DEF AddDisk
<1> QED
  BY <1>3, <1>4, <1>5, <1>6, <1>7, <1>8, <1>9, <1>10, <1>11,
     <1>12, <1>13, <1>14

LEMMA GivesKeep ==
  ASSUME LifeInv,
         \/ PciInitErr \/ OutMemunmapSto \/ OutMemunmapBar \/ OutRegions
         \/ OutRegister \/ DeleteBlockDevice \/ UnregisterBlkdev
         \/ UnregisterDriver \/ MemunmapDrv \/ FlushWorkqueue
         \/ RemoveRootBus \/ DispatcherFinal \/ StorageFinal \/ VdevFinalize
         \/ NvmeBlkdevFinal \/ KfreePraidDev
  PROVE  LifeInv' /\ oops' = oops
<1>1. HeldInv' /\ oops' = oops
  BY GiveSteps DEF LifeInv
<1>2. ASSUME NEW at, NEW r, NEW next, Give(at, r, next),
             at # "loaded",
             at \in Stale => next \in Stale,
             next \notin Quiet,
             at \in Live /\ (queued > 0 \/ in_bar)
               => "workqueue" \notin r /\ next \in Live,
             dpc # "poll" => "dispatcher" \notin r,
             pending => "irq" \notin r
      PROVE  LifeInv'
  <2>1. /\ UNCHANGED pathVars /\ hasty' = hasty
        /\ pc = at /\ pc' = next /\ held' = held \ r
    BY <1>2 DEF Give, Put
  <2>2. /\ queued > 0 \/ in_bar => "workqueue" \in held' /\ pc' \in Live
        /\ dpc # "poll" => "dispatcher" \in held'
        /\ pending => "irq" \in held'
    BY <1>2, <2>1 DEF LifeInv, PathInv
  <2> QED
    BY <1>1, <1>2, <2>1, <2>2, ThreadKeeps
<1>3. ASSUME UnregisterDriver, queued > 0 \/ in_bar PROVE "irq" \in held
  <2>1. pc \in Served
    BY <1>3 DEF UnregisterDriver, Give, Served
  <2> QED
    BY <1>3, <2>1 DEF LifeInv, PathInv, HeldInv, Probed
<1> USE <1>1, <1>2, <1>3 DEF Live, Stale, Quiet, ProbeFailed
<1>4. CASE PciInitErr
  BY <1>4 DEF PciInitErr
<1>5. CASE OutMemunmapSto
  BY <1>5 DEF OutMemunmapSto
<1>6. CASE OutMemunmapBar
  BY <1>6 DEF OutMemunmapBar
<1>7. CASE OutRegions
  BY <1>7 DEF OutRegions
<1>8. CASE OutRegister
  BY <1>8 DEF OutRegister
<1>9. CASE DeleteBlockDevice
  BY <1>9 DEF DeleteBlockDevice
<1>10. CASE UnregisterBlkdev
  BY <1>10 DEF UnregisterBlkdev
<1>11. CASE UnregisterDriver
  BY <1>11 DEF UnregisterDriver
<1>12. CASE MemunmapDrv
  BY <1>12 DEF MemunmapDrv, DrvMaps
<1>13. CASE FlushWorkqueue
  BY <1>13 DEF FlushWorkqueue, QueueEmpty
<1>14. CASE RemoveRootBus
  BY <1>14 DEF RemoveRootBus
<1>15. CASE DispatcherFinal
  BY <1>15 DEF DispatcherFinal
<1>16. CASE StorageFinal
  BY <1>16 DEF StorageFinal
<1>17. CASE VdevFinalize
  BY <1>17 DEF VdevFinalize, VdevMaps
<1>18. CASE NvmeBlkdevFinal
  BY <1>18 DEF NvmeBlkdevFinal
<1>19. CASE KfreePraidDev
  BY <1>19 DEF KfreePraidDev
<1> QED
  BY <1>1, <1>4, <1>5, <1>6, <1>7, <1>8, <1>9, <1>10, <1>11,
     <1>12, <1>13, <1>14, <1>15, <1>16, <1>17, <1>18, <1>19

\* The steps of the threads that touch the path.
LEMMA OthersKeep ==
  ASSUME LifeInv,
         \/ KzallocPraidDev \/ VdevInit \/ PciInit \/ InitWorkqueue
         \/ Rmmod \/ FreeIrq
  PROVE  LifeInv'
<1>1. HeldInv'
  BY OtherSteps, GiveSteps DEF LifeInv
<1>2. pc # "loaded" => reading = 0 /\ writing = 0
  BY DEF LifeInv, PathInv, PathTypes
<1>3. CASE KzallocPraidDev
  <2>1. ~pending /\ dpc = "poll" /\ ~in_bar /\ queued = 0
    BY <1>3 DEF KzallocPraidDev, LifeInv, HeldInv, Held, Optional, Leaked,
                Served, PathInv, PathTypes, Live
  <2>2. PathTypes' /\ OneOwner'
    <3>1. hasty' \in BOOLEAN
      BY <1>3, Zenon DEF KzallocPraidDev
    <3> QED
      BY <1>3, <3>1
         DEF KzallocPraidDev, pathVars, LifeInv, PathInv, PathTypes, OneOwner
  <2> QED
    BY <1>1, <1>2, <1>3, <2>1, <2>2
       DEF KzallocPraidDev, pathVars, LifeInv, PathInv, Quiet, Calm, Stale
<1>4. CASE VdevInit
  BY <1>1, <1>4, ThreadKeeps
     DEF VdevInit, LifeInv, PathInv, Live, Quiet, Stale
<1>5. CASE PciInit
  <2>1. ~pending /\ dpc = "poll" /\ ~in_bar /\ queued = 0
    BY <1>5 DEF PciInit, LifeInv, HeldInv, Held, Optional, Leaked, Base,
                Served, PathInv, PathTypes, Live
  <2>2. rung' \in BOOLEAN
    BY <1>5, Zenon DEF PciInit, BarCleared, LifeInv, PathInv, PathTypes
  <2>3. rung' => rung
    BY <1>5 DEF PciInit, BarCleared
  <2>4. PathTypes' /\ OneOwner'
    BY <1>5, <2>2, <2>3
       DEF PciInit, LifeInv, PathInv, PathTypes, OneOwner
  <2>5. Calm' /\ (pc' \in Quiet => ~rung' /\ dpc' = "poll")
    BY <1>5, <2>1 DEF PciInit, BarCleared, Calm, Stale, Quiet, TaskAlive
  <2> QED
    BY <1>1, <1>2, <1>5, <2>1, <2>4, <2>5 DEF PciInit, LifeInv, PathInv
<1>6. CASE InitWorkqueue
  <2>1. ~pending /\ dpc = "poll" /\ ~in_bar /\ queued = 0 /\ ~rung
    <3>1. /\ "irq" \notin held /\ ~in_bar /\ queued = 0 /\ ~rung
          /\ dpc = "poll"
      BY <1>6 DEF InitWorkqueue, LifeInv, HeldInv, Held, Optional, Leaked,
                  Base, Device, VdevMaps, Served, PathInv, PathTypes, Live, Quiet
    <3> QED
      BY <3>1 DEF LifeInv, PathInv
  <2>2. PathTypes' /\ OneOwner'
    BY <1>6, <2>1 DEF InitWorkqueue, SemCount, LifeInv, PathInv, PathTypes,
                      OneOwner
  <2>3. Calm' /\ (pc' \in Quiet => ~rung' /\ dpc' = "poll")
    BY <1>6, <2>1 DEF InitWorkqueue, Calm, Stale, Quiet, TaskAlive
  <2> QED
    BY <1>1, <1>2, <1>6, <2>1, <2>2, <2>3 DEF InitWorkqueue, LifeInv, PathInv
<1>7. CASE Rmmod
  <2>1. hasty' \in BOOLEAN
    BY <1>7, Zenon DEF Rmmod, TaskAlive
  <2>2. PathTypes' /\ OneOwner'
    BY <1>7, <2>1 DEF Rmmod, pathVars, LifeInv, PathInv, PathTypes, OneOwner
  <2>3. Calm'
    BY <1>7 DEF Rmmod, pathVars, Calm, TaskAlive
  <2> QED
    BY <1>1, <1>7, <2>2, <2>3
       DEF Rmmod, pathVars, LifeInv, PathInv, Live, Quiet
<1>8. CASE FreeIrq
  <2>1. pending' \in BOOLEAN /\ ~pending'
    BY <1>8, Zenon DEF FreeIrq
  <2>2. PathTypes' /\ OneOwner'
    BY <1>8, <2>1 DEF FreeIrq, LifeInv, PathInv, PathTypes, OneOwner
  <2>3. Calm'
    BY <1>8, <2>1 DEF FreeIrq, LifeInv, Calm, Stale, TaskAlive
  <2>4. held' = held \ {"irq"}
    BY <1>8 DEF FreeIrq, Put
  <2> QED
    BY <1>1, <1>2, <1>8, <2>1, <2>2, <2>3, <2>4
       DEF FreeIrq, LifeInv, PathInv, Live, Quiet
<1> QED
  BY <1>3, <1>4, <1>5, <1>6, <1>7, <1>8

\* A step of the write path that leaves the threads alone.
LEMMA PathStep ==
  ASSUME LifeInv, UNCHANGED <<pc, held, hasty>>, PathTypes', OneOwner',
         reading' > 0 \/ writing' > 0 => pc = "loaded",
         queued' > 0 \/ in_bar' => pc \in Live /\ "workqueue" \in held,
         dpc' # "poll" => "dispatcher" \in held,
         pending' => "irq" \in held,
         pc = "loaded" \/ rung \/ in_bar \/ queued > 0 \/ dpc # "poll" \/ pending,
         dpc' # "poll" \/ rung' => rung \/ in_bar \/ dpc # "poll",
         pc \in Stale => ~in_bar /\ dpc = "poll" /\ UNCHANGED <<rung, dpc>>
  PROVE  LifeInv'
<1>1. HeldInv'
  BY DEF LifeInv, HeldInv
<1>2. Calm'
  BY DEF LifeInv, Calm, TaskAlive
<1>3. pc \in Quiet => ~in_bar /\ pc # "loaded"
  BY DEF LifeInv, PathInv, Live, Quiet
<1>4. pc \in Quiet => ~rung' /\ dpc' = "poll"
  BY <1>3 DEF LifeInv, PathInv
<1> QED
  BY <1>1, <1>2, <1>4 DEF LifeInv, PathInv

LEMMA PathKeeps ==
  ASSUME LifeInv,
         \/ SubmitWrite \/ ReadEndio \/ WriteEnds \/ WorkerDown
         \/ WorkerRings \/ Dispatcher \/ Interrupt
  PROVE  LifeInv'
<1>1. UNCHANGED <<pc, held, hasty>>
  BY DEF SubmitWrite, ReadEndio, WriteEnds, WorkerDown, WorkerRings, Dispatcher,
         DispatcherTakes, DispatcherWorks, DispatcherSignals, Interrupt, Using
<1>2. /\ MaxWrites \in Nat /\ MaxTasks \in Nat
      /\ reading \in Nat /\ writing \in Nat
      /\ reading + writing <= MaxWrites /\ queued \in 0 .. MaxTasks
      /\ sem \in 0 .. 1
  BY LifecycleAssumption DEF LifeInv, PathInv, PathTypes
<1>3. /\ reading > 0 \/ writing > 0 => pc = "loaded"
      /\ queued > 0 \/ in_bar => "workqueue" \in held /\ pc \in Live
      /\ dpc # "poll" => "dispatcher" \in held
      /\ pending => "irq" \in held
  BY DEF LifeInv, PathInv
<1>4. /\ pc \in Stale => "dispatcher" \notin held /\ "irq" \notin held
      /\ pc \in Stale => pc \notin Live
      /\ "loaded" \in Live
  BY DEF LifeInv, HeldInv, Held, Optional, Leaked, Served, Base, VdevMaps,
         Stale, Live
<1>5. PathTypes /\ OneOwner
  BY DEF LifeInv, PathInv
<1>6. UNCHANGED pathVars => LifeInv'
  BY <1>1 DEF pathVars, LifeInv, HeldInv, PathInv, PathTypes, OneOwner, Calm,
              TaskAlive
<1>7. CASE SubmitWrite
  <2>1. PathTypes' /\ OneOwner'
    BY <1>1, <1>2, <1>5, <1>7 DEF SubmitWrite, PathTypes, OneOwner
  <2> QED
    BY <1>1, <1>2, <1>3, <1>4, <1>7, <2>1, PathStep DEF SubmitWrite
<1>8. CASE ReadEndio
  <2>1. CASE UNCHANGED pathVars
    BY <1>6, <2>1
  <2>2. CASE /\ reading > 0 /\ reading' = reading - 1 /\ writing' = writing + 1
             /\ queued < MaxTasks /\ queued' = queued + 1
             /\ UNCHANGED <<sem, in_bar, rung, dpc, pending>>
             /\ "workqueue" \in held
    <3>1. PathTypes' /\ OneOwner'
      BY <1>1, <1>2, <1>5, <2>2 DEF PathTypes, OneOwner
    <3> QED
      BY <1>1, <1>2, <1>3, <1>4, <2>2, <3>1, PathStep
  <2> QED
    BY <1>8, <2>1, <2>2 DEF ReadEndio, Using
<1>9. CASE WriteEnds
  <2>1. PathTypes' /\ OneOwner'
    BY <1>1, <1>2, <1>5, <1>9 DEF WriteEnds, PathTypes, OneOwner
  <2> QED
    BY <1>1, <1>2, <1>3, <1>4, <1>9, <2>1, PathStep DEF WriteEnds
<1>10. CASE WorkerDown
  <2>1. in_bar' \in BOOLEAN /\ in_bar'
    BY <1>10, Zenon DEF WorkerDown
  <2>2. PathTypes' /\ OneOwner'
    BY <1>1, <1>2, <1>5, <1>10, <2>1 DEF WorkerDown, PathTypes, OneOwner
  <2> QED
    BY <1>1, <1>2, <1>3, <1>4, <1>10, <2>2, PathStep DEF WorkerDown
<1>11. CASE WorkerRings
  <2>1. CASE UNCHANGED pathVars
    BY <1>6, <2>1
  <2>2. CASE /\ in_bar /\ in_bar' = FALSE /\ rung' = TRUE
             /\ UNCHANGED <<reading, writing, queued, sem, dpc, pending>>
    <3>1. in_bar' \in BOOLEAN /\ rung' \in BOOLEAN /\ ~in_bar' /\ rung'
      BY <2>2, Zenon
    <3>2. PathTypes' /\ OneOwner'
      BY <1>1, <1>2, <1>5, <2>2, <3>1 DEF PathTypes, OneOwner
    <3> QED
      BY <1>1, <1>2, <1>3, <1>4, <2>2, <3>2, PathStep
  <2> QED
    BY <1>11, <2>1, <2>2 DEF WorkerRings, Using
<1>12. CASE DispatcherTakes
  <2>1. CASE UNCHANGED pathVars
    BY <1>6, <2>1
  <2>2. CASE /\ "dispatcher" \in held /\ dpc = "poll" /\ rung
             /\ rung' = FALSE /\ dpc' = "work"
             /\ UNCHANGED <<reading, writing, queued, sem, in_bar, pending>>
    <3>1. rung' \in BOOLEAN /\ ~rung'
      BY <2>2, Zenon
    <3>2. PathTypes' /\ OneOwner'
      BY <1>1, <1>2, <1>5, <2>2, <3>1 DEF PathTypes, OneOwner
    <3> QED
      BY <1>1, <1>2, <1>3, <1>4, <2>2, <3>2, PathStep
  <2> QED
    BY <1>12, <2>1, <2>2 DEF DispatcherTakes, Using
<1>13. CASE DispatcherWorks
  <2>1. CASE UNCHANGED pathVars
    BY <1>6, <2>1
  <2>2. CASE /\ dpc = "work" /\ dpc' = "signal"
             /\ UNCHANGED <<reading, writing, queued, sem, in_bar, rung, pending>>
    <3>1. PathTypes' /\ OneOwner'
      BY <1>1, <1>2, <1>5, <2>2 DEF PathTypes, OneOwner
    <3> QED
      BY <1>1, <1>2, <1>3, <1>4, <2>2, <3>1, PathStep
  <2> QED
    BY <1>13, <2>1, <2>2 DEF DispatcherWorks, Using
<1>14. CASE DispatcherSignals
  <2>1. CASE UNCHANGED pathVars
    BY <1>6, <2>1
  <2>2. CASE /\ dpc = "signal" /\ dpc' = "poll"
             /\ pending' = (pending \/ "irq" \in held)
             /\ UNCHANGED <<reading, writing, queued, sem, in_bar, rung>>
    <3>1. pending' \in BOOLEAN /\ (pending' => pending \/ "irq" \in held)
      BY <2>2, Zenon
    <3>2. PathTypes' /\ OneOwner'
      BY <1>1, <1>2, <1>5, <2>2, <3>1 DEF PathTypes, OneOwner
    <3> QED
      BY <1>1, <1>2, <1>3, <1>4, <2>2, <3>1, <3>2, PathStep
  <2> QED
    BY <1>14, <2>1, <2>2 DEF DispatcherSignals, Using
<1>15. CASE Interrupt
  <2>1. pending' \in BOOLEAN /\ ~pending'
    BY <1>15, Zenon DEF Interrupt
  <2>2. PathTypes' /\ OneOwner'
    BY <1>1, <1>2, <1>5, <1>15, <2>1 DEF Interrupt, PathTypes, OneOwner
  <2> QED
    BY <1>1, <1>2, <1>3, <1>4, <1>15, <2>1, <2>2, PathStep DEF Interrupt
<1> QED
  BY <1>7, <1>8, <1>9, <1>10, <1>11, <1>12, <1>13, <1>14, <1>15 DEF Dispatcher

LEMMA LifeStep == LifeInv /\ [Next]_vars => LifeInv'
<1> SUFFICES ASSUME LifeInv, [Next]_vars PROVE LifeInv'
  OBVIOUS
<1>1. CASE UNCHANGED vars
  BY <1>1 DEF vars, pathVars, LifeInv, HeldInv, PathInv, PathTypes, OneOwner,
              Calm, TaskAlive
<1>2. CASE Next
  BY <1>2, TakesKeep, GivesKeep, OthersKeep, PathKeeps DEF Next, Load, Unload
<1> QED
  BY <1>1, <1>2

-----------------------------------------------------------------------------
(* What brings the kernel down.                                            *)

\* With the array up and nothing missing, or after a hasty rmmod: nowhere else
\* does a step of the write path find something it uses gone.
LEMMA UsedWhileHeld ==
  ASSUME LifeInv, ~hasty, ~Degraded, TaskAlive \/ reading > 0,
         in_bar \/ reading > 0 \/ "dispatcher" \in held
  PROVE  DrvMaps \cup Base \cup {"workqueue", "bar", "storage", "bus"} \subseteq held
<1>1. pc \in Stale => "dispatcher" \notin held /\ pc \notin Live
  BY DEF LifeInv, HeldInv, Held, Optional, Leaked, Served, Base, VdevMaps,
         Stale, Live
<1>2. pc = "loaded"
  BY <1>1 DEF LifeInv, PathInv, Calm, Stale
<1>3. "irq" \in held /\ "storage" \in held
  BY <1>2 DEF Degraded
<1> QED
  BY <1>2, <1>3 DEF LifeInv, HeldInv, Held, Served, Probed, Device, Base,
                    VdevMaps, DrvMaps

LEMMA OopsStep == LifeInv /\ OopsExplained /\ [Next]_vars => OopsExplained'
<1> SUFFICES ASSUME LifeInv, OopsExplained, [Next]_vars PROVE OopsExplained'
  OBVIOUS
<1>1. CASE UNCHANGED vars
  BY <1>1 DEF vars, OopsExplained, Degraded
<1>2. ASSUME oops = "none", oops' = oops PROVE OopsExplained'
  BY <1>2 DEF OopsExplained
<1>3. Next => oops = "none"
  BY DEF Next, Load, Unload, Dispatcher, Alive, Take, Give, Using,
         KzallocPraidDev, LoadConfigs, NvmeBlkdevInit, VdevInit, StorageInit,
         PciInit, PciInitErr, DispatcherInit, RegisterDriver, EnableDevice,
         RequestRegions, MapBar, InitWorkqueue, MapChunk, RequestIrq,
         OutMemunmapSto, OutMemunmapBar, OutRegions, RegisterBlkdev, AddDisk,
         OutRegister, Rmmod, DeleteBlockDevice, UnregisterBlkdev,
         UnregisterDriver, FreeIrq, MemunmapDrv, FlushWorkqueue,
         RemoveRootBus, DispatcherFinal, StorageFinal, VdevFinalize,
         NvmeBlkdevFinal, KfreePraidDev, SubmitWrite, ReadEndio, WriteEnds,
         WorkerDown, WorkerRings, DispatcherTakes, DispatcherWorks,
         DispatcherSignals, Interrupt
<1>4. CASE Load \/ Unload
  <2>1. CASE KzallocPraidDev \/ PciInit \/ InitWorkqueue
    BY <1>2, <1>3, <2>1
       DEF KzallocPraidDev, PciInit, InitWorkqueue, Next, Load
  <2>2. CASE VdevInit
    BY <1>2, <1>3, <2>2 DEF VdevInit, OopsExplained, Next, Load
  <2>3. CASE FreeIrq
    BY <1>2, <1>3, <2>3, GiveSteps DEF LifeInv, Next, Unload
  <2>4. CASE ~(KzallocPraidDev \/ PciInit \/ InitWorkqueue \/ VdevInit \/ FreeIrq)
    BY <1>2, <1>3, <1>4, <2>4, TakesKeep, GivesKeep DEF Next, Load, Unload
  <2> QED
    BY <2>1, <2>2, <2>3, <2>4
<1>5. CASE Rmmod \/ SubmitWrite \/ WriteEnds \/ WorkerDown \/ Interrupt
  BY <1>2, <1>3, <1>5
     DEF Next, Rmmod, SubmitWrite, WriteEnds, WorkerDown, Interrupt
<1>6. CASE ReadEndio \/ WorkerRings \/ Dispatcher
  <2>1. /\ UNCHANGED <<pc, held, hasty>> /\ oops = "none"
        /\ TaskAlive \/ reading > 0
        /\ in_bar \/ reading > 0 \/ "dispatcher" \in held
    BY <1>3, <1>6
       DEF Next, ReadEndio, WorkerRings, Dispatcher, DispatcherTakes,
           DispatcherWorks, DispatcherSignals, Using, TaskAlive, LifeInv,
           PathInv
  <2>2. CASE hasty \/ Degraded
    BY <2>1, <2>2 DEF OopsExplained, Degraded
  <2>3. CASE ~hasty /\ ~Degraded
    <3>1. DrvMaps \cup Base \cup {"workqueue", "bar", "storage", "bus"} \subseteq held
      BY <2>1, <2>3, UsedWhileHeld
    <3>2. oops' = oops
      BY <1>6, <3>1
         DEF ReadEndio, WorkerRings, Dispatcher, DispatcherTakes,
             DispatcherWorks, DispatcherSignals, Using, Base
    <3> QED
      BY <1>2, <2>1, <3>2
  <2> QED
    BY <2>2, <2>3
<1> QED
  BY <1>1, <1>4, <1>5, <1>6 DEF Next

-----------------------------------------------------------------------------
\* Types: whatever fails, the semaphore's count is at most one and the path's
\* counters stay within their bounds.
THEOREM LifecycleTypes == Spec => []TypeOK
<1>1. LifeInv => TypeOK
  <2> SUFFICES ASSUME LifeInv PROVE TypeOK
    OBVIOUS
  <2>1. held \subseteq Resources
    BY DEF LifeInv, HeldInv, Pcs, Held, Optional, Leaked, Served, Base, Device,
           Probed, DrvMaps, VdevMaps, Resources
  <2>2. PathTypes /\ MaxWrites \in Nat
    BY LifecycleAssumption DEF LifeInv, PathInv
  <2>3. reading \in 0 .. MaxWrites /\ writing \in 0 .. MaxWrites
    BY <2>2 DEF PathTypes
  <2> QED
    BY <2>1, <2>2, <2>3 DEF PathTypes, TypeOK
<1> QED
  BY <1>1, LifeInit, LifeStep, PTL DEF Spec

\* The queue outlives its tasks and the device the dispatcher's, even in an
\* unload that comes while tasks are under way.
THEOREM Stopped == Spec => []StoppedBeforeFreed
<1>1. LifeInv => StoppedBeforeFreed
  <2> SUFFICES ASSUME LifeInv PROVE StoppedBeforeFreed
    OBVIOUS
  <2>1. pc \in Live => "praid_dev" \in held
    BY DEF LifeInv, HeldInv, Live, Held, Base, Device
  <2>2. "dispatcher" \in held => {"vdev", "bar", "bdevs"} \subseteq held
    BY DEF LifeInv, HeldInv, Pcs, Held, Optional, Leaked, Served, Base, Device,
           Probed, DrvMaps, VdevMaps
  <2> QED
    BY <2>1, <2>2 DEF LifeInv, PathInv, StoppedBeforeFreed
<1> QED
  BY <1>1, LifeInit, LifeStep, PTL DEF Spec

\* An unloaded module holds nothing but what is known to leak, whichever steps
\* of its load have failed.
THEOREM NothingLeft == Spec => []UnloadedHoldsNothing
<1>1. LifeInv => UnloadedHoldsNothing
  BY DEF LifeInv, HeldInv, Held, Optional, Leaked, Served,
         UnloadedHoldsNothing
<1> QED
  BY <1>1, LifeInit, LifeStep, PTL DEF Spec

\* Nothing is given back twice, and nothing that is gone is used, unless rmmod
\* came before the last verify task was done or a failure of probe or of the
\* storage mapping went unnoticed (pciedrv.c:303, device.c:69).
THEOREM OopsOnlyThen == Spec => []OopsExplained
<1>1. Init => OopsExplained
  BY DEF Init, OopsExplained
<1> QED
  BY <1>1, LifeInit, LifeStep, OopsStep, PTL DEF Spec
=============================================================================

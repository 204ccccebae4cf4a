----------------------------- MODULE Lifecycle ------------------------------
(***************************************************************************)
(* insmod and rmmod: the resources vpcie_module_init takes step by step,   *)
(* the goto chains that give them back, pcievdrv_probe inside              *)
(* pci_register_driver, and the order in which vpcie_module_exit takes the *)
(* array down, while end_io, kworkers, the dispatcher and the interrupt    *)
(* still run. A write's bio ends before its verify task does, so a disk    *)
(* nobody has open any more may still have tasks in the work queue.        *)
(*                                                                         *)
(* A step that uses what is not there, or gives back what is not held,     *)
(* sets oops; nothing runs after that. The parity itself is ParityPath's.  *)
(***************************************************************************)
EXTENDS Integers

CONSTANTS
  Faults,          \* the steps of the load that may fail
  MaxWrites,       \* bound on the writes in flight
  MaxTasks         \* bound on the tasks in the work queue

FaultKinds == {"config", "bdev", "vdev", "storage", "bus",
               "register", "enable", "regions", "map_bar", "map_chunk",
               "request_irq", "blkdev", "add_disk"}

ASSUME LifecycleAssumption ==
  /\ Faults \subseteq FaultKinds
  /\ MaxWrites \in Nat \ {0} /\ MaxTasks \in Nat \ {0}

VARIABLES
  pc,       \* where the loading or unloading thread is
  held,     \* the resources held
  reading,  \* write bios whose old data is being read
  writing,  \* write bios on their way to the disk
  queued,   \* tasks in the work queue, waiting for the semaphore
  sem,      \* praid_dev->sem
  in_bar,   \* is a worker between down and the ring?
  rung,     \* is there a task the dispatcher has not seen?
  dpc,      \* where the dispatcher is
  pending,  \* is its interrupt pending?
  oops,     \* what brought the kernel down
  hasty     \* history: did rmmod come before the last verify task was done?

pathVars == <<reading, writing, queued, sem, in_bar, rung, dpc, pending>>
vars == <<pc, held, reading, writing, queued, sem, in_bar, rung, dpc,
          pending, oops, hasty>>

\* The driver's view of the BAR, and the device's.
DrvMaps == {"drv_bar", "chunk"}
VdevMaps == {"bar", "msix"}
Resources == {"praid_dev", "bdevs", "vdev", "storage", "bus", "old_bar",
              "dispatcher", "driver", "enabled", "regions", "workqueue",
              "irq", "major", "disk"} \cup DrvMaps \cup VdevMaps

Init ==
  /\ pc = "unloaded" /\ held = {}
  /\ reading = 0 /\ writing = 0 /\ queued = 0
  /\ sem = 0 /\ in_bar = FALSE /\ rung = FALSE
  /\ dpc = "poll" /\ pending = FALSE /\ oops = "none"
  /\ hasty = FALSE

Alive == oops = "none"

-----------------------------------------------------------------------------
(* A step takes resources and goes on, or fails and jumps. A step gives     *)
(* back resources; to give back what is not held is a double free.         *)
Take(at, r, fault, next, out) ==
  /\ Alive /\ pc = at
  /\ \/ held' = held \cup r /\ pc' = next
     \/ fault \in Faults /\ UNCHANGED held /\ pc' = out
  /\ UNCHANGED <<pathVars, oops, hasty>>

Put(r) ==
  /\ held' = held \ r
  /\ oops' = IF r \subseteq held THEN oops ELSE "double_free"

Give(at, r, next) ==
  /\ Alive /\ pc = at /\ pc' = next
  /\ Put(r)
  /\ UNCHANGED <<pathVars, hasty>>

\* vpcie_module_init starts from new structures: what an earlier load leaked is
\* out of reach.
KzallocPraidDev ==
  /\ Alive /\ pc = "unloaded"
  /\ held' = {"praid_dev"} /\ pc' = "load_configs"
  /\ hasty' = FALSE
  /\ UNCHANGED <<pathVars, oops>>

LoadConfigs     == Take("load_configs", {}, "config", "get_bdevs", "free_praid")

\* nvme_blkdev_init puts back the disks it got before the one that failed.
NvmeBlkdevInit  == Take("get_bdevs", {"bdevs"}, "bdev", "vdev_init",
                        "free_praid")

\* PCIEV_init. VDEV_INIT writes through the pointer it has not checked.
VdevInit ==
  /\ Alive /\ pc = "vdev_init"
  /\ \/ held' = held \cup {"vdev"} /\ pc' = "map_storage" /\ UNCHANGED oops
     \/ "vdev" \in Faults /\ oops' = "vdev" /\ UNCHANGED <<pc, held>>
  /\ UNCHANGED <<pathVars, hasty>>

\* A NULL storage_mapped is logged and the load goes on.
StorageInit == Take("map_storage", {"storage"}, "storage", "pci_init",
                    "pci_init")

BarKept    == rung   \* mutant: the BAR is not cleared
BarCleared == FALSE

\* PCIEV_PCI_INIT. __init_pciev_bar clears the reserved memory, and with it a
\* task an earlier unload left behind.
PciInit ==
  /\ Alive /\ pc = "pci_init"
  /\ \/ /\ held' = held \cup {"bus", "old_bar"} \cup VdevMaps
        /\ rung' = BarCleared /\ pc' = "start_dispatcher"
     \/ "bus" \in Faults /\ pc' = "pciev_init_err" /\ UNCHANGED <<held, rung>>
  /\ UNCHANGED <<reading, writing, queued, sem, in_bar, dpc, pending, oops,
                 hasty>>

\* ret_err of PCIEV_init: VDEV_FINALIZE, and nothing for the storage.
PciInitErr == Give("pciev_init_err", {"vdev"}, "put_bdevs")

\* The dispatcher and its verify_page.
DispatcherInit == Take("start_dispatcher", {"dispatcher"}, "none",
                       "register_driver", "register_driver")

\* pcievdrv_init: the driver core probes the device before it returns, and it
\* returns 0 whatever probe does.
RegisterDriver == Take("register_driver", {"driver"}, "register", "enable",
                       "remove_bus")

ProbeFailed == "register_blkdev"

\* pcievdrv_probe.
EnableDevice   == Take("enable", {"enabled"}, "enable", "regions", ProbeFailed)
RequestRegions == Take("regions", {"regions"}, "regions", "map_bar",
                       ProbeFailed)
MapBar         == Take("map_bar", {"drv_bar"}, "map_bar", "workqueue",
                       "out_regions")

SemCountTwo == 2  \* mutant
SemCount    == 1

\* sema_init and create_workqueue.
InitWorkqueue ==
  /\ Alive /\ pc = "workqueue" /\ pc' = "map_chunk"
  /\ sem' = SemCount
  /\ held' = held \cup {"workqueue"}
  /\ UNCHANGED <<reading, writing, queued, in_bar, rung, dpc, pending, oops,
                 hasty>>

MapChunk   == Take("map_chunk", {"chunk"}, "map_chunk", "request_irq",
                   "out_memunmap_bar")
RequestIrq == Take("request_irq", {"irq"}, "request_irq", "register_blkdev",
                   "out_memunmap_sto")

\* Its labels, from the last to the first.
OutMemunmapSto == Give("out_memunmap_sto", {"chunk"}, "out_memunmap_bar")
\* Mutant: it takes both mappings back, after its predecessor.
OutMemunmapBoth == Give("out_memunmap_bar", DrvMaps \cup {"workqueue"},
                        "out_regions")
OutMemunmapBar == Give("out_memunmap_bar", {"drv_bar", "workqueue"},
                       "out_regions")
OutRegions     == Give("out_regions", {"regions"}, ProbeFailed)

OutVdiskEarly == "unregister_driver"  \* mutant: the major stays registered
AddDiskErr    == "out_register"

\* vpciedisk_init. Its errors lead to out_vdisk_err.
RegisterBlkdev == Take("register_blkdev", {"major"}, "blkdev", "add_disk",
                       "unregister_driver")
AddDisk        == Take("add_disk", {"disk"}, "add_disk", "loaded",
                       AddDiskErr)
OutRegister    == Give("out_register", {"major"}, "unregister_driver")

-----------------------------------------------------------------------------
\* A task that is not done yet, wherever it is.
TaskAlive == queued > 0 \/ in_bar \/ rung \/ dpc # "poll" \/ pending

\* rmmod: the module's users are gone once they have closed the disk, and so
\* have waited for their bios. vpcie_module_exit calls vpciedisk_exit first.
Rmmod ==
  /\ Alive /\ pc = "loaded" /\ pc' = "del_disk"
  /\ reading = 0 /\ writing = 0
  /\ hasty' = TaskAlive
  /\ UNCHANGED <<held, pathVars, oops>>

DeleteBlockDevice == Give("del_disk", {"disk"}, "unregister_blkdev")
UnregisterBlkdev  == Give("unregister_blkdev", {"major"}, "unregister_driver")

\* pci_unregister_driver calls pcievdrv_remove if probe had bound the device.
UnregisterDriver ==
  Give("unregister_driver", {"driver"},
       IF "irq" \in held THEN "free_irq" ELSE "remove_bus")

\* pcievdrv_remove: first the interrupt, then the mappings, then the queue.
FreeIrq ==
  /\ Alive /\ pc = "free_irq" /\ pc' = "unmap"
  /\ Put({"irq"})
  /\ pending' = FALSE
  /\ UNCHANGED <<reading, writing, queued, sem, in_bar, rung, dpc, hasty>>

MemunmapDrv == Give("unmap", DrvMaps, "flush")

QueueIgnored == TRUE  \* mutant: destroyed without a flush
QueueEmpty   == queued = 0 /\ ~in_bar

\* flush_workqueue waits for every task, those asleep in down included.
FlushWorkqueue ==
  /\ QueueEmpty
  /\ Give("flush", {"workqueue", "regions", "enabled"}, "remove_bus")

\* PCIEV_exit: the root bus goes, and with it the pci_dev, enabled or not,
\* while the dispatcher runs.
RemoveRootBus == Give("remove_bus", {"bus"} \cup (held \cap {"enabled"}),
                      "stop_dispatcher")

\* kthread_stop waits for the dispatcher to return from a task.
DispatcherFinal ==
  /\ dpc = "poll"
  /\ Give("stop_dispatcher", {"dispatcher"}, "unmap_storage")

StorageFinal == Give("unmap_storage", held \cap {"storage"}, "vdev_finalize")

\* VDEV_FINALIZE leaves old_bar alone: its kfree is commented out.
VdevFinalize    == Give("vdev_finalize", {"vdev"} \cup VdevMaps, "put_bdevs")
NvmeBlkdevFinal == Give("put_bdevs", {"bdevs"}, "free_praid")
KfreePraidDev   == Give("free_praid", {"praid_dev"}, "unloaded")

-----------------------------------------------------------------------------
\* A step of the write path that needs r; without it, it is the last.
Using(r, what, step) ==
  /\ Alive
  /\ IF r \subseteq held THEN step /\ UNCHANGED oops
                         ELSE oops' = what /\ UNCHANGED pathVars
  /\ UNCHANGED <<pc, held, hasty>>

SubmitWrite ==
  /\ Alive /\ pc = "loaded" /\ reading + writing < MaxWrites
  /\ reading' = reading + 1
  /\ UNCHANGED <<pc, held, writing, queued, sem, in_bar, rung, dpc, pending,
                 oops, hasty>>

\* The read's end_io queues the task and submits the write.
ReadEndio ==
  /\ reading > 0 /\ queued < MaxTasks
  /\ Using({"workqueue"}, "workqueue",
           /\ reading' = reading - 1 /\ writing' = writing + 1
           /\ queued' = queued + 1
           /\ UNCHANGED <<sem, in_bar, rung, dpc, pending>>)

WriteEnds ==
  /\ Alive /\ writing > 0
  /\ writing' = writing - 1
  /\ UNCHANGED <<pc, held, reading, queued, sem, in_bar, rung, dpc, pending,
                 oops, hasty>>

\* do_verify_work up to down, and from down to the ring.
WorkerDown ==
  /\ Alive /\ queued > 0 /\ sem > 0
  /\ queued' = queued - 1 /\ sem' = sem - 1 /\ in_bar' = TRUE
  /\ UNCHANGED <<pc, held, reading, writing, rung, dpc, pending, oops,
                 hasty>>

WorkerRings ==
  /\ in_bar
  /\ Using(DrvMaps, "bar",
           /\ in_bar' = FALSE /\ rung' = TRUE
           /\ UNCHANGED <<reading, writing, queued, sem, dpc, pending>>)

\* The dispatcher sees the task, computes in the storage area and writes the
\* verify disk.
DispatcherTakes ==
  /\ "dispatcher" \in held /\ dpc = "poll" /\ rung
  /\ Using({"vdev", "bar"}, "device_bar",
           /\ rung' = FALSE /\ dpc' = "work"
           /\ UNCHANGED <<reading, writing, queued, sem, in_bar, pending>>)

DispatcherWorks ==
  /\ dpc = "work"
  /\ Using({"storage", "bdevs"}, "storage",
           /\ dpc' = "signal"
           /\ UNCHANGED <<reading, writing, queued, sem, in_bar, rung, pending>>)

\* pciev_signal_irq goes through the pci_dev. Without a handler the interrupt
\* is lost.
DispatcherSignals ==
  /\ dpc = "signal"
  /\ Using({"bus"}, "pdev",
           /\ dpc' = "poll" /\ pending' = (pending \/ "irq" \in held)
           /\ UNCHANGED <<reading, writing, queued, sem, in_bar, rung>>)

Interrupt ==
  /\ Alive /\ pending
  /\ pending' = FALSE /\ sem' = sem + 1
  /\ UNCHANGED <<pc, held, reading, writing, queued, in_bar, rung, dpc, oops,
                 hasty>>

-----------------------------------------------------------------------------
Load == KzallocPraidDev \/ LoadConfigs \/ NvmeBlkdevInit \/ VdevInit
        \/ StorageInit \/ PciInit \/ PciInitErr \/ DispatcherInit
        \/ RegisterDriver \/ EnableDevice \/ RequestRegions \/ MapBar
        \/ InitWorkqueue \/ MapChunk \/ RequestIrq \/ OutMemunmapSto
        \/ OutMemunmapBar \/ OutRegions \/ RegisterBlkdev \/ AddDisk
        \/ OutRegister

Unload == DeleteBlockDevice \/ UnregisterBlkdev \/ UnregisterDriver \/ FreeIrq
          \/ MemunmapDrv \/ FlushWorkqueue \/ RemoveRootBus \/ DispatcherFinal
          \/ StorageFinal \/ VdevFinalize \/ NvmeBlkdevFinal \/ KfreePraidDev

Dispatcher == DispatcherTakes \/ DispatcherWorks \/ DispatcherSignals

Next ==
  \/ Load \/ Rmmod \/ Unload
  \/ SubmitWrite \/ ReadEndio \/ WriteEnds
  \/ WorkerDown \/ WorkerRings \/ Dispatcher \/ Interrupt

Spec == Init /\ [][Next]_vars

-----------------------------------------------------------------------------
TypeOK ==
  /\ held \subseteq Resources
  /\ reading \in 0 .. MaxWrites /\ writing \in 0 .. MaxWrites
  /\ queued \in 0 .. MaxTasks
  /\ sem \in 0 .. 1
  /\ in_bar \in BOOLEAN /\ rung \in BOOLEAN /\ pending \in BOOLEAN
  /\ dpc \in {"poll", "work", "signal"}
  /\ hasty \in BOOLEAN

\* A load step failed and the load went on: probe (pciedrv.c:303), or the
\* storage mapping (device.c:69).
Degraded == pc = "loaded" /\ ~({"irq", "storage"} \subseteq held)

\* Unless rmmod is hasty, only those two unnoticed failures and a failed
\* VDEV_INIT can bring the kernel down: no goto chain and no order of teardown
\* gives back twice or uses what is gone.
OopsExplained == oops \in {"none", "vdev"} \/ Degraded \/ hasty

\* A module that is not loaded holds nothing: not after an unload, not after
\* a load that failed anywhere. The known exceptions are old_bar, never freed
\* (pci.c:415), and the storage mapping when PCIEV_PCI_INIT fails
\* (device.c:104).
UnloadedHoldsNothing ==
  pc = "unloaded" => held \subseteq {"old_bar", "storage"}

\* Even a hasty unload lets the queue outlive its tasks, and the device's
\* memory and the disks outlive the dispatcher's task.
StoppedBeforeFreed ==
  /\ queued > 0 \/ in_bar => {"workqueue", "praid_dev"} \subseteq held
  /\ dpc # "poll" => {"dispatcher", "vdev", "bar", "bdevs"} \subseteq held

\* praid.h:59-60: dev->bar is where struct pciev_bar lies and chunk_addr where
\* the chunks start. A worker that is to use them finds them mapped.
BarIsMapped == in_bar => DrvMaps \subseteq held
=============================================================================

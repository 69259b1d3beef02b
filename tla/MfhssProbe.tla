----------------------------- MODULE MfhssProbe -----------------------------
(***************************************************************************)
(* The life of the network driver (PS/modules/mfhssnet): mfhssnet_probe    *)
(* with every acquisition that may fail, mfhss_cleanup, mfhssnet_remove,   *)
(* the pool's creation and destruction, and what others do meanwhile:      *)
(* users of the register files, the network stack that opens the           *)
(* interface as soon as it is registered, the rx interrupt and the tasklet *)
(* it schedules.  The lists and buffers of the receive path are in         *)
(* MfhssNetRx; here its packets are only counted.                          *)
(***************************************************************************)
EXTENDS Integers, Sequences, FiniteSets

CONSTANTS PoolSize,  \* POOL_SIZE
          MaxProbes, \* bound: probes (a bind, or the module loaded again)
          MaxIrqs    \* bound: rx interrupts

ASSUME SizeAssumption ==
  PoolSize \in Nat \ {0} /\ MaxProbes \in Nat /\ MaxIrqs \in Nat

VARIABLES
  phase,    \* "absent" | "probe" | "bound" | "cleanup"
  step,     \* the step of mfhssnet_probe or the stage of mfhss_cleanup
  held,     \* how often each resource is acquired
  wired,    \* register directories whose subdir->priv is set
  inside,   \* register directories with a user inside show or store
  up,       \* the interface is open, the rx interrupt requested
  probes,   \* probes so far; the number of the current struct net_device
  pool,     \* packets on pool_list
  queued,   \* packets on rx_pkts_list
  packets,  \* packets allocated and not freed
  sched,    \* tasklet_rx: "no", "yes" (scheduled), "reset" (initialised again while scheduled)
  data,     \* tasklet_rx.data: the device it was initialised with, 0 before that
  run,      \* __rx_pkt is running
  irqs,
  fault,    \* "none", or the first access to something that is not there
  early,    \* history: an interrupt of this device came before tasklet_init
  late,     \* history: a device went away with packets or the tasklet pending
  short     \* history: a pool_create failed

files == <<wired, inside>>
rx == <<up, pool, queued, packets, sched, data, run, irqs>>
ghosts == <<early, late, short>>
vars == <<phase, step, held, files, rx, probes, fault, ghosts>>

Static == {"dma", "mlip", "link"}
Dirs == Static \cup {"dyn"}

Res == {"netdev", "stats", "pool", "static", "dynamic", "mem", "io", "registered"} \cup Dirs

\* The steps of mfhssnet_probe, each with its successor; "resource",
\* "drvdata" and "tasklet" acquire nothing.
AfterProbe ==
  [stats |-> "pool", pool |-> "static", static |-> "dma", dma |-> "mlip",
   mlip |-> "link", link |-> "dynamic", dynamic |-> "resource", resource |-> "mem",
   mem |-> "io", io |-> "registered", registered |-> "drvdata", drvdata |-> "tasklet"]

\* Mutant: the directory of static registers is unregistered before it is emptied.
AfterClean_DirFirst ==
  [registered |-> "io", io |-> "mem", mem |-> "dynfiles", dynfiles |-> "dynamic",
   dynamic |-> "static", static |-> "files", files |-> "pool", pool |-> "stats",
   stats |-> "netdev"]

\* The stages of mfhss_cleanup, each falling through to the next; "dynfiles"
\* and "files" are the two calls of clean_dir.
AfterClean ==
  [registered |-> "io", io |-> "mem", mem |-> "dynfiles", dynfiles |-> "dynamic",
   dynamic |-> "files", files |-> "static", static |-> "pool", pool |-> "stats",
   stats |-> "netdev"]

\* Mutant: when the interface cannot be registered the registers stay mapped.
CleanStage_StaysMapped ==
  [pool |-> "stats", static |-> "pool", dma |-> "static", mlip |-> "files",
   link |-> "files", dynamic |-> "files", resource |-> "dynfiles",
   mem |-> "dynfiles", io |-> "mem", registered |-> "mem"]

\* The stage at which mfhss_cleanup starts when a step of the probe failed.
CleanStage ==
  [pool |-> "stats", static |-> "pool", dma |-> "static", mlip |-> "files",
   link |-> "files", dynamic |-> "files", resource |-> "dynfiles",
   mem |-> "dynfiles", io |-> "mem", registered |-> "io"]

At(s) == phase = "probe" /\ step = s
Cleaning(s) == phase = "cleanup" /\ step = s
Holds(r) == held[r] > 0
Take(r) == held' = [held EXCEPT ![r] = @ + 1]
Drop(r) == held' = [held EXCEPT ![r] = @ - 1]
Alive == fault = "none"

Init ==
  /\ phase = "absent" /\ step = "netdev" /\ held = [r \in Res |-> 0]
  /\ wired = {} /\ inside = {}
  /\ up = 0 /\ pool = 0 /\ queued = 0 /\ packets = 0
  /\ sched = "no" /\ data = 0 /\ run = 0 /\ irqs = 0
  /\ probes = 0 /\ fault = "none"
  /\ early = 0 /\ late = 0 /\ short = 0
-----------------------------------------------------------------------------
\* mfhssnet_probe: alloc_netdev, whose setup empties rx_pkts_list.
ProbeNetdev ==
  /\ Alive /\ phase = "absent" /\ probes < MaxProbes
  /\ Take("netdev")
  /\ phase' = "probe" /\ step' = "stats"
  /\ probes' = probes + 1
  /\ queued' = 0 /\ early' = 0
  /\ UNCHANGED <<files, up, pool, packets, sched, data, run, irqs, fault, late, short>>

\* The statistics; a failure is not noticed, since priv is tested instead.
ProbeStats ==
  /\ Alive /\ At("stats")
  /\ Take("stats") \/ UNCHANGED held
  /\ step' = AfterProbe[step]
  /\ UNCHANGED <<phase, files, rx, probes, fault, ghosts>>

\* pool_create with all its packets.
ProbePool ==
  /\ Alive /\ At("pool")
  /\ Take("pool")
  /\ pool' = PoolSize
  /\ packets' = packets + PoolSize
  /\ step' = AfterProbe[step]
  /\ UNCHANGED <<phase, files, up, queued, sched, data, run, irqs, probes, fault, ghosts>>

\* pool_create runs out of memory after n packets, which stay on pool_list.
PoolFails ==
  /\ Alive /\ At("pool")
  /\ \E n \in 0..(PoolSize - 1) : pool' = n /\ packets' = packets + n
  /\ short' = 1
  /\ phase' = "cleanup"
  /\ step' = CleanStage["pool"]
  /\ UNCHANGED <<held, files, up, queued, sched, data, run, irqs, probes, fault, early, late>>

\* Acquisitions that nobody sees before they are complete.
ProbeTake ==
  /\ Alive
  /\ \E r \in {"static", "dynamic", "mem", "io", "registered"} : At(r) /\ Take(r)
  /\ step' = AfterProbe[step]
  /\ UNCHANGED <<phase, files, rx, probes, fault, ghosts>>

\* create_dma_subdir and its like: the directory with its files is visible ...
ProbeFiles(d) ==
  /\ Alive /\ At(d) /\ ~Holds(d)
  /\ Take(d)
  /\ UNCHANGED <<phase, step, files, rx, probes, fault, ghosts>>

\* ... before subdir->priv is set.
ProbeWire(d) ==
  /\ Alive /\ At(d) /\ Holds(d)
  /\ wired' = wired \cup {d}
  /\ step' = AfterProbe[step]
  /\ UNCHANGED <<phase, held, inside, rx, probes, fault, ghosts>>

\* of_address_to_resource and platform_set_drvdata.
ProbePass ==
  /\ Alive /\ (At("resource") \/ At("drvdata"))
  /\ step' = AfterProbe[step]
  /\ UNCHANGED <<phase, held, files, rx, probes, fault, ghosts>>

\* A step of the probe fails and what was acquired is cleaned up.
ProbeFails ==
  /\ Alive
  /\ \E s \in {"static", "dma", "mlip", "link", "dynamic", "resource", "mem", "io", "registered"} :
       /\ At(s)
       /\ s \in Static => ~Holds(s)
       /\ step' = CleanStage[s]
  /\ phase' = "cleanup"
  /\ UNCHANGED <<held, files, rx, probes, fault, ghosts>>

\* Mutant: the tasklet keeps the device it was first initialised with.
TaskletInit_Once ==
  /\ Alive /\ At("tasklet")
  /\ data' = IF data = 0 THEN probes ELSE data
  /\ sched' = IF sched = "no" THEN "no" ELSE "reset"
  /\ phase' = "bound"
  /\ UNCHANGED <<step, held, files, up, pool, queued, packets, run, irqs, probes, fault, ghosts>>

\* tasklet_init forgets whether the tasklet is scheduled; the probe returns.
TaskletInit ==
  /\ Alive /\ At("tasklet")
  /\ data' = probes
  /\ sched' = IF sched = "no" THEN "no" ELSE "reset"
  /\ phase' = "bound"
  /\ UNCHANGED <<step, held, files, up, pool, queued, packets, run, irqs, probes, fault, ghosts>>

\* mfhssnet_remove: mfhss_cleanup(STAGE_DESTROY_ALL).
Remove ==
  /\ Alive /\ phase = "bound"
  /\ phase' = "cleanup" /\ step' = "registered"
  /\ UNCHANGED <<held, files, rx, probes, fault, ghosts>>
-----------------------------------------------------------------------------
\* unregister_netdev closes the interface; the tasklet is not killed.
CleanRegistered ==
  /\ Alive /\ Cleaning("registered")
  /\ Drop("registered")
  /\ up' = 0
  /\ late' = IF sched # "no" \/ run = 1 \/ queued > 0 THEN 1 ELSE late
  /\ step' = AfterClean[step]
  /\ UNCHANGED <<phase, files, pool, queued, packets, sched, data, run, irqs, probes, fault, early, short>>

\* iounmap, release_mem_region and the two kset_unregister.
CleanDrop ==
  /\ Alive
  /\ \E r \in {"io", "mem", "dynamic", "static"} : Cleaning(r) /\ Drop(r)
  /\ step' = AfterClean[step]
  /\ UNCHANGED <<phase, files, rx, probes, fault, ghosts>>

\* Mutant: clean_dir loops on a directory it did not unlink.
CleanFile_Stuck(d) ==
  /\ Alive
  /\ Cleaning(IF d = "dyn" THEN "dynfiles" ELSE "files")
  /\ Holds(d) /\ d \notin inside
  /\ UNCHANGED vars

\* clean_dir: kobject_del waits for the users inside and removes one directory.
CleanFile(d) ==
  /\ Alive
  /\ Cleaning(IF d = "dyn" THEN "dynfiles" ELSE "files")
  /\ Holds(d) /\ d \notin inside
  /\ Drop(d)
  /\ wired' = wired \ {d}
  /\ UNCHANGED <<phase, step, inside, rx, probes, fault, ghosts>>

\* clean_dir: the set is empty.
CleanFilesDone ==
  /\ Alive
  /\ \/ Cleaning("dynfiles") /\ ~Holds("dyn")
     \/ Cleaning("files") /\ \A d \in Static : ~Holds(d)
  /\ step' = AfterClean[step]
  /\ UNCHANGED <<phase, held, files, rx, probes, fault, ghosts>>

\* Mutant: pool_destroy frees all but one packet.
CleanPool_OneLeft ==
  /\ Alive /\ Cleaning("pool")
  /\ Drop("pool")
  /\ packets' = IF pool > 0 THEN packets - pool + 1 ELSE packets
  /\ pool' = 0
  /\ step' = AfterClean[step]
  /\ UNCHANGED <<phase, files, up, queued, sched, data, run, irqs, probes, fault, ghosts>>

\* pool_destroy frees the packets on pool_list and no others.
CleanPool ==
  /\ Alive /\ Cleaning("pool")
  /\ Drop("pool")
  /\ packets' = packets - pool
  /\ pool' = 0
  /\ step' = AfterClean[step]
  /\ UNCHANGED <<phase, files, up, queued, sched, data, run, irqs, probes, fault, ghosts>>

CleanStats ==
  /\ Alive /\ Cleaning("stats")
  /\ IF Holds("stats") THEN Drop("stats") ELSE UNCHANGED held
  /\ step' = AfterClean[step]
  /\ UNCHANGED <<phase, files, rx, probes, fault, ghosts>>

CleanNetdev ==
  /\ Alive /\ Cleaning("netdev")
  /\ Drop("netdev")
  /\ phase' = "absent"
  /\ UNCHANGED <<step, files, rx, probes, fault, ghosts>>
-----------------------------------------------------------------------------
\* A user opens a register file: show or store holds the directory.
FileEnter(d) ==
  /\ Alive /\ Holds(d) /\ d \notin inside
  /\ inside' = inside \cup {d}
  /\ UNCHANGED <<phase, step, held, wired, rx, probes, fault, ghosts>>

\* show and store take priv->lock and touch the register.
FileTouch(d) ==
  /\ Alive /\ d \in inside
  /\ fault' = IF d \in wired /\ Holds("io") THEN "none" ELSE "file"
  /\ inside' = inside \ {d}
  /\ UNCHANGED <<phase, step, held, wired, rx, probes, ghosts>>

\* mfhss_ioctl(IOMAKEDIR): create_dir sets subdir->priv before it is visible.
MakeDir ==
  /\ Alive /\ Holds("registered") /\ ~Holds("dyn")
  /\ Take("dyn")
  /\ wired' = wired \cup {"dyn"}
  /\ UNCHANGED <<phase, step, inside, rx, probes, fault, ghosts>>

\* The network stack opens and closes the interface (see MfhssNetTx).
IfUp ==
  /\ Alive /\ Holds("registered") /\ up = 0
  /\ up' = 1
  /\ UNCHANGED <<phase, step, held, files, pool, queued, packets, sched, data, run, irqs, probes, fault, ghosts>>

IfDown ==
  /\ Alive /\ up = 1
  /\ up' = 0
  /\ UNCHANGED <<phase, step, held, files, pool, queued, packets, sched, data, run, irqs, probes, fault, ghosts>>

\* irq_rx_handler: a packet is queued and the tasklet scheduled.
IrqRx ==
  /\ Alive /\ up = 1 /\ irqs < MaxIrqs /\ pool > 0
  /\ irqs' = irqs + 1
  /\ pool' = pool - 1 /\ queued' = queued + 1
  /\ sched' = IF sched = "no" THEN "yes" ELSE sched
  /\ early' = IF phase = "probe" THEN 1 ELSE early
  /\ UNCHANGED <<phase, step, held, files, up, packets, data, run, probes, fault, late, short>>

\* irq_rx_handler without a packet counts the drop in priv->stats.
IrqDrop ==
  /\ Alive /\ up = 1 /\ irqs < MaxIrqs /\ pool = 0
  /\ irqs' = irqs + 1
  /\ fault' = IF Holds("stats") THEN "none" ELSE "stats"
  /\ UNCHANGED <<phase, step, held, files, up, pool, queued, packets, sched, data, run, probes, ghosts>>

\* The device the tasklet was given is still there.
Reaches == Holds("netdev") /\ data = probes

\* The kernel starts the tasklet: without a function, or with a state that
\* was reset while it was scheduled, it is a fault; so is a freed device.
TaskletStart ==
  /\ Alive /\ sched # "no" /\ run = 0
  /\ sched' = "no"
  /\ IF sched = "reset" \/ ~Reaches
     THEN fault' = "tasklet" /\ UNCHANGED run
     ELSE run' = 1 /\ UNCHANGED fault
  /\ UNCHANGED <<phase, step, held, files, up, pool, queued, packets, data, irqs, probes, ghosts>>

\* __rx_pkt: a packet goes to the stack, is counted, and returns to the pool.
TaskletPkt ==
  /\ Alive /\ run = 1 /\ queued > 0
  /\ IF ~Reaches THEN fault' = "tasklet" /\ UNCHANGED <<pool, queued>>
     ELSE IF ~Holds("stats") THEN fault' = "stats" /\ UNCHANGED <<pool, queued>>
     ELSE IF ~Holds("pool") THEN fault' = "pool" /\ UNCHANGED <<pool, queued>>
     ELSE pool' = pool + 1 /\ queued' = queued - 1 /\ UNCHANGED fault
  /\ UNCHANGED <<phase, step, held, files, up, packets, sched, data, run, irqs, probes, ghosts>>

TaskletEnd ==
  /\ Alive /\ run = 1 /\ (queued = 0 \/ ~Reaches)
  /\ run' = 0
  /\ fault' = IF Reaches THEN "none" ELSE "tasklet"
  /\ UNCHANGED <<phase, step, held, files, up, pool, queued, packets, sched, data, irqs, probes, ghosts>>

Driver ==
  \/ ProbeNetdev \/ ProbeStats \/ ProbePool \/ PoolFails \/ ProbeTake \/ ProbePass
  \/ ProbeFails \/ TaskletInit \/ Remove
  \/ CleanRegistered \/ CleanDrop \/ CleanFilesDone \/ CleanPool \/ CleanStats \/ CleanNetdev
  \/ \E d \in Static : ProbeFiles(d) \/ ProbeWire(d)
  \/ \E d \in Dirs : CleanFile(d)

Tasklet == TaskletStart \/ TaskletPkt \/ TaskletEnd

Others ==
  \/ \E d \in Dirs : FileEnter(d) \/ FileTouch(d)
  \/ MakeDir \/ IfUp \/ IfDown \/ IrqRx \/ IrqDrop

Next == Driver \/ Tasklet \/ Others

Spec == Init /\ [][Next]_vars

\* A step of probe or cleanup is taken and a user inside a register file leaves
\* it.  kobject_del lets nobody in while it waits, hence the strong fairness.
\* Nobody has to bind or remove a device.
FairSpec ==
  /\ Spec
  /\ WF_vars(Driver /\ phase \in {"probe", "cleanup"})
  /\ \A d \in Dirs : SF_vars(CleanFile(d))
  /\ \A d \in Dirs : WF_vars(FileTouch(d))
-----------------------------------------------------------------------------
TypeOK ==
  /\ phase \in {"absent", "probe", "bound", "cleanup"}
  /\ step \in {"netdev"} \cup DOMAIN AfterProbe \cup DOMAIN AfterClean \cup {"tasklet"}
  /\ held \in [Res -> 0..1]
  /\ wired \subseteq Dirs /\ inside \subseteq Dirs
  /\ up \in 0..1 /\ run \in 0..1
  /\ pool \in Nat /\ queued \in Nat /\ packets \in Nat /\ irqs \in 0..MaxIrqs
  /\ sched \in {"no", "yes", "reset"}
  /\ probes \in 0..MaxProbes /\ data \in 0..probes
  /\ fault \in {"none", "file", "tasklet", "stats", "pool"}
  /\ early \in 0..1 /\ late \in 0..1 /\ short \in 0..1

\* Whatever step of the probe fails, and after a removal, everything that was
\* acquired has been given back exactly once; a bound driver holds it all
\* (but for the statistics, whose failure the probe overlooks).
Balanced ==
  /\ phase = "absent" => \A r \in Res : held[r] = 0
  /\ phase = "bound" => \A r \in Res \ {"stats", "dyn"} : held[r] = 1

\* A driver that leaves no packet behind: packets leak only when pool_create
\* failed half way or a device went away with packets or the tasklet pending.
NoPacketLeft == phase = "absent" /\ short = 0 /\ late = 0 => packets = 0

\* Where the accesses to something absent come from.  A register file is
\* never touched without its registers while the driver is bound; the
\* tasklet meets a missing device only if its interrupt came before
\* tasklet_init or a device was removed while it was pending.
FaultsExplained ==
  /\ fault = "file" => phase \in {"probe", "cleanup"}
  /\ fault = "tasklet" => early = 1 \/ late = 1
  /\ fault = "pool" => late = 1

\* A probe ends bound or absent and a removal ends, although clean_dir waits
\* for the users of the register files.
Completes == (phase \in {"probe", "cleanup"}) ~> (phase \in {"absent", "bound"} \/ ~Alive)

\* What must be held while a resource is.  The code keeps this order; it does
\* not keep "io" among the needs of the register files.
LadderNeeds ==
  [r \in Res |->
     CASE r = "netdev" -> {}
       [] r \in {"stats", "pool", "static", "dynamic", "mem"} -> {"netdev"}
       [] r \in Static -> {"static"}
       [] r = "dyn" -> {"dynamic"}
       [] r = "io" -> {"mem"}
       [] r = "registered" -> {"io", "pool", "dynamic"} \cup Static]

Ladder == INSTANCE ResourceLadder WITH
            Needs <- LadderNeeds, held <- {r \in Res : Holds(r)}

\* mfhssnet_probe, mfhss_ioctl and mfhss_cleanup take and return resources one
\* at a time, a resource only while what it needs is held.
ImplementsLadder == Ladder!Spec
=====================

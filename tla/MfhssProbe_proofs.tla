-------------------------- MODULE MfhssProbe_proofs --------------------------
(***************************************************************************)
(* Proofs about the life of the network driver, for any size of the pool   *)
(* and any number of probes and interrupts.  Probing and Cleaning say what *)
(* is held at each step of mfhssnet_probe and each stage of mfhss_cleanup; *)
(* everything else rests on them.                                          *)
(***************************************************************************)
EXTENDS MfhssProbe, TLAPS

ProbeSteps == {"stats", "pool", "static", "dma", "mlip", "link", "dynamic", "resource",
               "mem", "io", "registered", "drvdata", "tasklet"}
CleanSteps == {"registered", "io", "mem", "dynfiles", "dynamic", "files", "static", "pool",
               "stats", "netdev"}

Types ==
  /\ phase \in {"absent", "probe", "bound", "cleanup"}
  /\ step \in ProbeSteps \cup CleanSteps
  /\ held \in [Res -> 0..1]
  /\ wired \subseteq Dirs /\ inside \subseteq Dirs
  /\ up \in 0..1 /\ run \in 0..1 /\ irqs \in 0..MaxIrqs
  /\ sched \in {"no", "yes", "reset"}
  /\ probes \in 0..MaxProbes /\ data \in 0..probes
  /\ fault \in {"none", "file", "tasklet", "stats", "pool"}
  /\ early \in 0..1 /\ late \in 0..1 /\ short \in 0..1

\* What mfhssnet_probe holds at each of its steps; the directory it is making
\* is held or not yet.
Probing ==
  phase = "probe" =>
    /\ step \in ProbeSteps
    /\ held["netdev"] = 1 /\ (held["dyn"] = 1 => held["registered"] = 1)
    /\ held["stats"] = 1 => step # "stats"
    /\ held["pool"] = 1 <=> step \notin {"stats", "pool"}
    /\ held["static"] = 1 <=> step \notin {"stats", "pool", "static"}
    /\ held["dynamic"] = 1 <=> step \notin {"stats", "pool", "static", "dma", "mlip",
       "link", "dynamic"}
    /\ held["mem"] = 1 <=> step \in {"io", "registered", "drvdata", "tasklet"}
    /\ held["io"] = 1 <=> step \in {"registered", "drvdata", "tasklet"}
    /\ held["registered"] = 1 <=> step \in {"drvdata", "tasklet"}
    /\ held["dma"] = 1 => step \notin {"stats", "pool", "static"}
    /\ held["dma"] = 0 => step \in {"stats", "pool", "static", "dma"}
    /\ held["mlip"] = 1 => step \notin {"stats", "pool", "static", "dma"}
    /\ held["mlip"] = 0 => step \in {"stats", "pool", "static", "dma", "mlip"}
    /\ held["link"] = 1 => step \notin {"stats", "pool", "static", "dma", "mlip"}
    /\ held["link"] = 0 => step \in {"stats", "pool", "static", "dma", "mlip", "link"}

\* What mfhss_cleanup still holds at each of its stages.
Cleared ==
  phase = "cleanup" =>
    /\ step \in CleanSteps
    /\ held["netdev"] = 1
    /\ held["registered"] = 1 <=> step \in {"registered"}
    /\ held["io"] = 1 <=> step \in {"registered", "io"}
    /\ held["mem"] = 1 <=> step \in {"registered", "io", "mem"}
    /\ held["dynamic"] = 1 <=> step \in {"registered", "io", "mem", "dynfiles", "dynamic"}
    /\ held["static"] = 1 <=> step \notin {"pool", "stats", "netdev"}
    /\ held["pool"] = 1 <=> step \notin {"stats", "netdev"}
    /\ held["stats"] = 1 => step # "netdev"
    /\ held["dyn"] = 1 => step \in {"registered", "io", "mem", "dynfiles"}
    /\ \A d \in Static : held[d] = 1 => step \in {"registered", "io", "mem", "dynfiles",
       "dynamic", "files"}
    /\ step = "registered" => \A d \in Static : held[d] = 1

Shape ==
  /\ Probing /\ Cleared /\ Balanced
  /\ up = 1 => held["registered"] = 1

\* Whoever is inside a directory keeps it; in a bound driver every directory is wired.
Wired ==
  /\ \A d \in Dirs : d \in inside => held[d] = 1
  /\ phase = "bound" => Static \subseteq wired
  /\ phase = "probe" => \A d \in Static : held[d] = 1 /\ step # d => d \in wired
  /\ held["dyn"] = 1 => "dyn" \in wired

\* Every packet is on a list while nothing has gone wrong.
Packets ==
  /\ pool \in Nat /\ queued \in Nat /\ packets \in Nat
  /\ pool + queued <= packets
  /\ short = 0 /\ late = 0 =>
       packets = pool + queued /\ (held["pool"] = 0 => packets = 0)

\* The tasklet of an interface that is not registered is at rest, and so is
\* that of an interface whose probe has not ended.
Quiet ==
  /\ held["registered"] = 0 /\ late = 0 => sched = "no" /\ run = 0 /\ queued = 0
  /\ early = 0 /\ late = 0 =>
       /\ sched # "reset"
       /\ phase = "probe" => sched = "no" /\ run = 0 /\ queued = 0
  /\ held["registered"] = 1 /\ phase # "probe" => data = probes

IInv == Types /\ Shape /\ Wired /\ Packets /\ Quiet /\ FaultsExplained

\* The initial states satisfy the inductive invariant.
LEMMA InitHolds == Init => IInv
BY SizeAssumption DEF Init, IInv, Types, Shape, Probing, Cleared, Balanced, Wired,
       Packets, Quiet,
   FaultsExplained, ProbeSteps, CleanSteps, Res, Dirs, Static

\* No step leaves the types; no resource is taken or given back twice.
LEMMA TypesStep ==
  ASSUME Types, Shape, [Next]_vars
  PROVE  Types'
PROOF
<1>. USE SizeAssumption
<1>1. CASE ProbeNetdev
  BY <1>1 DEF ProbeNetdev, Take, files, rx, ghosts, Types, Shape, Probing, Cleared,
       Balanced, Res, Dirs, Static, ProbeSteps, CleanSteps
<1>2. CASE ProbeStats
  BY <1>2 DEF ProbeStats, At, Take, AfterProbe, files, rx, ghosts, Types, Shape, Probing,
       Cleared, Balanced, Res, Dirs, Static, ProbeSteps, CleanSteps
<1>3. CASE ProbePool
  BY <1>3 DEF ProbePool, At, Take, AfterProbe, files, rx, ghosts, Types, Shape, Probing,
       Cleared, Balanced, Res, Dirs, Static, ProbeSteps, CleanSteps
<1>4. CASE PoolFails
  BY <1>4 DEF PoolFails, At, CleanStage, files, rx, ghosts, Types, Shape, Probing,
       Cleared, Balanced, Res, Dirs, Static, ProbeSteps, CleanSteps
<1>5. CASE ProbeTake
  BY <1>5 DEF ProbeTake, At, Take, AfterProbe, files, rx, ghosts, Types, Shape, Probing,
       Cleared, Balanced, Res, Dirs, Static, ProbeSteps, CleanSteps
<1>6. CASE ProbePass
  BY <1>6 DEF ProbePass, At, AfterProbe, files, rx, ghosts, Types, Shape, Probing,
       Cleared, Balanced, Res, Dirs, Static, ProbeSteps, CleanSteps
<1>7. CASE ProbeFails
  BY <1>7 DEF ProbeFails, At, CleanStage, Holds, Static, files, rx, ghosts, Types, Shape,
       Probing, Cleared, Balanced, Res, Dirs, ProbeSteps, CleanSteps
<1>8. CASE TaskletInit
  BY <1>8 DEF TaskletInit, At, files, rx, ghosts, Types, Shape, Probing, Cleared,
       Balanced, Res, Dirs, Static, ProbeSteps, CleanSteps
<1>9. CASE Remove
  BY <1>9 DEF Remove, files, rx, ghosts, Types, Shape, Probing, Cleared, Balanced, Res,
       Dirs, Static, ProbeSteps, CleanSteps
<1>10. CASE CleanRegistered
  BY <1>10 DEF CleanRegistered, Cleaning, Drop, AfterClean, files, rx, ghosts, Types,
       Shape, Probing, Cleared, Balanced, Res, Dirs, Static, ProbeSteps, CleanSteps
<1>11. CASE CleanDrop
  BY <1>11 DEF CleanDrop, Cleaning, Drop, AfterClean, files, rx, ghosts, Types, Shape,
       Probing, Cleared, Balanced, Res, Dirs, Static, ProbeSteps, CleanSteps
<1>12. CASE CleanFilesDone
  BY <1>12 DEF CleanFilesDone, Cleaning, Holds, Static, AfterClean, files, rx, ghosts,
       Types, Shape, Probing, Cleared, Balanced, Res, Dirs, ProbeSteps, CleanSteps
<1>13. CASE CleanPool
  BY <1>13 DEF CleanPool, Cleaning, Drop, AfterClean, files, rx, ghosts, Types, Shape,
       Probing, Cleared, Balanced, Res, Dirs, Static, ProbeSteps, CleanSteps
<1>14. CASE CleanStats
  BY <1>14 DEF CleanStats, Cleaning, Drop, Holds, AfterClean, files, rx, ghosts, Types,
       Shape, Probing, Cleared, Balanced, Res, Dirs, Static, ProbeSteps, CleanSteps
<1>15. CASE CleanNetdev
  BY <1>15 DEF CleanNetdev, Cleaning, Drop, files, rx, ghosts, Types, Shape, Probing,
       Cleared, Balanced, Res, Dirs, Static, ProbeSteps, CleanSteps
<1>16. CASE TaskletStart
  BY <1>16 DEF TaskletStart, Reaches, Holds, files, rx, ghosts, Types, Shape, Probing,
       Cleared, Balanced, Res, Dirs, Static, ProbeSteps, CleanSteps
<1>17. CASE TaskletPkt
  BY <1>17 DEF TaskletPkt, Reaches, Holds, files, rx, ghosts, Types, Shape, Probing,
       Cleared, Balanced, Res, Dirs, Static, ProbeSteps, CleanSteps
<1>18. CASE TaskletEnd
  BY <1>18 DEF TaskletEnd, Reaches, Holds, files, rx, ghosts, Types, Shape, Probing,
       Cleared, Balanced, Res, Dirs, Static, ProbeSteps, CleanSteps
<1>19. CASE MakeDir
  BY <1>19 DEF MakeDir, Take, Holds, files, rx, ghosts, Types, Shape, Probing, Cleared,
       Balanced, Res, Dirs, Static, ProbeSteps, CleanSteps
<1>20. CASE IfUp
  BY <1>20 DEF IfUp, Holds, files, rx, ghosts, Types, Shape, Probing, Cleared, Balanced,
       Res, Dirs, Static, ProbeSteps, CleanSteps
<1>21. CASE IfDown
  BY <1>21 DEF IfDown, files, rx, ghosts, Types, Shape, Probing, Cleared, Balanced, Res,
       Dirs, Static, ProbeSteps, CleanSteps
<1>22. CASE IrqRx
  BY <1>22 DEF IrqRx, files, rx, ghosts, Types, Shape, Probing, Cleared, Balanced, Res,
       Dirs, Static, ProbeSteps, CleanSteps
<1>23. CASE IrqDrop
  BY <1>23 DEF IrqDrop, Holds, files, rx, ghosts, Types, Shape, Probing, Cleared,
       Balanced, Res, Dirs, Static, ProbeSteps, CleanSteps
<1>24. ASSUME NEW d \in Static, ProbeFiles(d) PROVE Types'
  BY <1>24 DEF ProbeFiles, At, Take, Holds, Static, files, rx, ghosts, Types, Shape,
       Probing, Cleared, Balanced, Res, Dirs, ProbeSteps, CleanSteps
<1>25. ASSUME NEW d \in Static, ProbeWire(d) PROVE Types'
  BY <1>25 DEF ProbeWire, At, Holds, Static, AfterProbe, files, rx, ghosts, Types, Shape,
       Probing, Cleared, Balanced, Res, Dirs, ProbeSteps, CleanSteps
<1>26. ASSUME NEW d \in Dirs, CleanFile(d) PROVE Types'
  BY <1>26 DEF CleanFile, Cleaning, Holds, Drop, Static, Dirs, files, rx, ghosts, Types,
       Shape, Probing, Cleared, Balanced, Res, ProbeSteps, CleanSteps
<1>27. ASSUME NEW d \in Dirs, FileEnter(d) PROVE Types'
  BY <1>27 DEF FileEnter, Holds, Static, Dirs, files, rx, ghosts, Types, Shape, Probing,
       Cleared, Balanced, Res, ProbeSteps, CleanSteps
<1>28. ASSUME NEW d \in Dirs, FileTouch(d) PROVE Types'
  BY <1>28 DEF FileTouch, Holds, Static, Dirs, files, rx, ghosts, Types, Shape, Probing,
       Cleared, Balanced, Res, ProbeSteps, CleanSteps
<1>29. CASE UNCHANGED vars
  BY <1>29 DEF vars, files, rx, ghosts, Types, Shape, Probing, Cleared, Balanced, Res,
       Dirs, Static, ProbeSteps, CleanSteps
<1>. QED
  BY <1>1, <1>2, <1>3, <1>4, <1>5, <1>6, <1>7, <1>8, <1>9, <1>10, <1>11, <1>12, <1>13,
       <1>14, <1>15, <1>16, <1>17, <1>18, <1>19, <1>20, <1>21, <1>22, <1>23, <1>24,
       <1>25, <1>26, <1>27, <1>28, <1>29 DEF Next, Driver, Tasklet, Others

\* Each step leaves held what the next one expects.
LEMMA ShapeStep ==
  ASSUME Types, Shape, [Next]_vars
  PROVE  Shape'
PROOF
<1>. USE SizeAssumption
<1>1. CASE ProbeNetdev
  BY <1>1 DEF ProbeNetdev, Take, files, rx, ghosts, Types, Shape, Probing, Cleared,
       Balanced, Res, Dirs, Static, ProbeSteps, CleanSteps
<1>2. CASE ProbeStats
  BY <1>2 DEF ProbeStats, At, Take, AfterProbe, files, rx, ghosts, Types, Shape, Probing,
       Cleared, Balanced, Res, Dirs, Static, ProbeSteps, CleanSteps
<1>3. CASE ProbePool
  BY <1>3 DEF ProbePool, At, Take, AfterProbe, files, rx, ghosts, Types, Shape, Probing,
       Cleared, Balanced, Res, Dirs, Static, ProbeSteps, CleanSteps
<1>4. CASE PoolFails
  BY <1>4 DEF PoolFails, At, CleanStage, files, rx, ghosts, Types, Shape, Probing,
       Cleared, Balanced, Res, Dirs, Static, ProbeSteps, CleanSteps
<1>5. CASE ProbeTake
  BY <1>5 DEF ProbeTake, At, Take, AfterProbe, files, rx, ghosts, Types, Shape, Probing,
       Cleared, Balanced, Res, Dirs, Static, ProbeSteps, CleanSteps
<1>6. CASE ProbePass
  BY <1>6 DEF ProbePass, At, AfterProbe, files, rx, ghosts, Types, Shape, Probing,
       Cleared, Balanced, Res, Dirs, Static, ProbeSteps, CleanSteps
<1>7. CASE ProbeFails
  BY <1>7 DEF ProbeFails, At, CleanStage, Holds, Static, files, rx, ghosts, Types, Shape,
       Probing, Cleared, Balanced, Res, Dirs, ProbeSteps, CleanSteps
<1>8. CASE TaskletInit
  BY <1>8 DEF TaskletInit, At, files, rx, ghosts, Types, Shape, Probing, Cleared,
       Balanced, Res, Dirs, Static, ProbeSteps, CleanSteps
<1>9. CASE Remove
  BY <1>9 DEF Remove, files, rx, ghosts, Types, Shape, Probing, Cleared, Balanced, Res,
       Dirs, Static, ProbeSteps, CleanSteps
<1>10. CASE CleanRegistered
  BY <1>10 DEF CleanRegistered, Cleaning, Drop, AfterClean, files, rx, ghosts, Types,
       Shape, Probing, Cleared, Balanced, Res, Dirs, Static, ProbeSteps, CleanSteps
<1>11. CASE CleanDrop
  BY <1>11 DEF CleanDrop, Cleaning, Drop, AfterClean, files, rx, ghosts, Types, Shape,
       Probing, Cleared, Balanced, Res, Dirs, Static, ProbeSteps, CleanSteps
<1>12. CASE CleanFilesDone
  BY <1>12 DEF CleanFilesDone, Cleaning, Holds, Static, AfterClean, files, rx, ghosts,
       Types, Shape, Probing, Cleared, Balanced, Res, Dirs, ProbeSteps, CleanSteps
<1>13. CASE CleanPool
  BY <1>13 DEF CleanPool, Cleaning, Drop, AfterClean, files, rx, ghosts, Types, Shape,
       Probing, Cleared, Balanced, Res, Dirs, Static, ProbeSteps, CleanSteps
<1>14. CASE CleanStats
  BY <1>14 DEF CleanStats, Cleaning, Drop, Holds, AfterClean, files, rx, ghosts, Types,
       Shape, Probing, Cleared, Balanced, Res, Dirs, Static, ProbeSteps, CleanSteps
<1>15. CASE CleanNetdev
  BY <1>15 DEF CleanNetdev, Cleaning, Drop, files, rx, ghosts, Types, Shape, Probing,
       Cleared, Balanced, Res, Dirs, Static, ProbeSteps, CleanSteps
<1>16. CASE TaskletStart
  BY <1>16 DEF TaskletStart, Reaches, Holds, files, rx, ghosts, Types, Shape, Probing,
       Cleared, Balanced, Res, Dirs, Static, ProbeSteps, CleanSteps
<1>17. CASE TaskletPkt
  BY <1>17 DEF TaskletPkt, Reaches, Holds, files, rx, ghosts, Types, Shape, Probing,
       Cleared, Balanced, Res, Dirs, Static, ProbeSteps, CleanSteps
<1>18. CASE TaskletEnd
  BY <1>18 DEF TaskletEnd, Reaches, Holds, files, rx, ghosts, Types, Shape, Probing,
       Cleared, Balanced, Res, Dirs, Static, ProbeSteps, CleanSteps
<1>19. CASE MakeDir
  BY <1>19 DEF MakeDir, Take, Holds, files, rx, ghosts, Types, Shape, Probing, Cleared,
       Balanced, Res, Dirs, Static, ProbeSteps, CleanSteps
<1>20. CASE IfUp
  BY <1>20 DEF IfUp, Holds, files, rx, ghosts, Types, Shape, Probing, Cleared, Balanced,
       Res, Dirs, Static, ProbeSteps, CleanSteps
<1>21. CASE IfDown
  BY <1>21 DEF IfDown, files, rx, ghosts, Types, Shape, Probing, Cleared, Balanced, Res,
       Dirs, Static, ProbeSteps, CleanSteps
<1>22. CASE IrqRx
  BY <1>22 DEF IrqRx, files, rx, ghosts, Types, Shape, Probing, Cleared, Balanced, Res,
       Dirs, Static, ProbeSteps, CleanSteps
<1>23. CASE IrqDrop
  BY <1>23 DEF IrqDrop, Holds, files, rx, ghosts, Types, Shape, Probing, Cleared,
       Balanced, Res, Dirs, Static, ProbeSteps, CleanSteps
<1>24. ASSUME NEW d \in Static, ProbeFiles(d) PROVE Shape'
  BY <1>24 DEF ProbeFiles, At, Take, Holds, Static, files, rx, ghosts, Types, Shape,
       Probing, Cleared, Balanced, Res, Dirs, ProbeSteps, CleanSteps
<1>25. ASSUME NEW d \in Static, ProbeWire(d) PROVE Shape'
  BY <1>25 DEF ProbeWire, At, Holds, Static, AfterProbe, files, rx, ghosts, Types, Shape,
       Probing, Cleared, Balanced, Res, Dirs, ProbeSteps, CleanSteps
<1>26. ASSUME NEW d \in Dirs, CleanFile(d) PROVE Shape'
  BY <1>26 DEF CleanFile, Cleaning, Holds, Drop, Static, Dirs, files, rx, ghosts, Types,
       Shape, Probing, Cleared, Balanced, Res, ProbeSteps, CleanSteps
<1>27. ASSUME NEW d \in Dirs, FileEnter(d) PROVE Shape'
  BY <1>27 DEF FileEnter, Holds, Static, Dirs, files, rx, ghosts, Types, Shape, Probing,
       Cleared, Balanced, Res, ProbeSteps, CleanSteps
<1>28. ASSUME NEW d \in Dirs, FileTouch(d) PROVE Shape'
  BY <1>28 DEF FileTouch, Holds, Static, Dirs, files, rx, ghosts, Types, Shape, Probing,
       Cleared, Balanced, Res, ProbeSteps, CleanSteps
<1>29. CASE UNCHANGED vars
  BY <1>29 DEF vars, files, rx, ghosts, Types, Shape, Probing, Cleared, Balanced, Res,
       Dirs, Static, ProbeSteps, CleanSteps
<1>. QED
  BY <1>1, <1>2, <1>3, <1>4, <1>5, <1>6, <1>7, <1>8, <1>9, <1>10, <1>11, <1>12, <1>13,
       <1>14, <1>15, <1>16, <1>17, <1>18, <1>19, <1>20, <1>21, <1>22, <1>23, <1>24,
       <1>25, <1>26, <1>27, <1>28, <1>29 DEF Next, Driver, Tasklet, Others

\* The directories stay with their users.
LEMMA WiredStep ==
  ASSUME Types, Shape, Wired, [Next]_vars
  PROVE  Wired'
PROOF
<1>. USE SizeAssumption
<1>1. CASE ProbeNetdev
  BY <1>1 DEF ProbeNetdev, Take, files, rx, ghosts, Types, Shape, Probing, Cleared,
       Balanced, Wired, Res, Dirs, Static
<1>2. CASE ProbeStats
  BY <1>2 DEF ProbeStats, At, Take, AfterProbe, files, rx, ghosts, Types, Shape, Probing,
       Cleared, Balanced, Wired, Res, Dirs, Static
<1>3. CASE ProbePool
  BY <1>3 DEF ProbePool, At, Take, AfterProbe, files, rx, ghosts, Types, Shape, Probing,
       Cleared, Balanced, Wired, Res, Dirs, Static
<1>4. CASE PoolFails
  BY <1>4 DEF PoolFails, At, CleanStage, files, rx, ghosts, Types, Shape, Probing,
       Cleared, Balanced, Wired, Res, Dirs, Static
<1>5. CASE ProbeTake
  BY <1>5 DEF ProbeTake, At, Take, AfterProbe, files, rx, ghosts, Types, Shape, Probing,
       Cleared, Balanced, Wired, Res, Dirs, Static
<1>6. CASE ProbePass
  BY <1>6 DEF ProbePass, At, AfterProbe, files, rx, ghosts, Types, Shape, Probing,
       Cleared, Balanced, Wired, Res, Dirs, Static
<1>7. CASE ProbeFails
  BY <1>7 DEF ProbeFails, At, CleanStage, Holds, Static, files, rx, ghosts, Types, Shape,
       Probing, Cleared, Balanced, Wired, Res, Dirs
<1>8. CASE TaskletInit
  BY <1>8 DEF TaskletInit, At, files, rx, ghosts, Types, Shape, Probing, Cleared,
       Balanced, Wired, Res, Dirs, Static
<1>9. CASE Remove
  BY <1>9 DEF Remove, files, rx, ghosts, Types, Shape, Probing, Cleared, Balanced, Wired,
       Res, Dirs, Static
<1>10. CASE CleanRegistered
  BY <1>10 DEF CleanRegistered, Cleaning, Drop, AfterClean, files, rx, ghosts, Types,
       Shape, Probing, Cleared, Balanced, Wired, Res, Dirs, Static
<1>11. CASE CleanDrop
  BY <1>11 DEF CleanDrop, Cleaning, Drop, AfterClean, files, rx, ghosts, Types, Shape,
       Probing, Cleared, Balanced, Wired, Res, Dirs, Static
<1>12. CASE CleanFilesDone
  BY <1>12 DEF CleanFilesDone, Cleaning, Holds, Static, AfterClean, files, rx, ghosts,
       Types, Shape, Probing, Cleared, Balanced, Wired, Res, Dirs
<1>13. CASE CleanPool
  BY <1>13 DEF CleanPool, Cleaning, Drop, AfterClean, files, rx, ghosts, Types, Shape,
       Probing, Cleared, Balanced, Wired, Res, Dirs, Static
<1>14. CASE CleanStats
  BY <1>14 DEF CleanStats, Cleaning, Drop, Holds, AfterClean, files, rx, ghosts, Types,
       Shape, Probing, Cleared, Balanced, Wired, Res, Dirs, Static
<1>15. CASE CleanNetdev
  BY <1>15 DEF CleanNetdev, Cleaning, Drop, files, rx, ghosts, Types, Shape, Probing,
       Cleared, Balanced, Wired, Res, Dirs, Static
<1>16. CASE TaskletStart
  BY <1>16 DEF TaskletStart, Reaches, Holds, files, rx, ghosts, Types, Shape, Probing,
       Cleared, Balanced, Wired, Res, Dirs, Static
<1>17. CASE TaskletPkt
  BY <1>17 DEF TaskletPkt, Reaches, Holds, files, rx, ghosts, Types, Shape, Probing,
       Cleared, Balanced, Wired, Res, Dirs, Static
<1>18. CASE TaskletEnd
  BY <1>18 DEF TaskletEnd, Reaches, Holds, files, rx, ghosts, Types, Shape, Probing,
       Cleared, Balanced, Wired, Res, Dirs, Static
<1>19. CASE MakeDir
  BY <1>19 DEF MakeDir, Take, Holds, files, rx, ghosts, Types, Shape, Probing, Cleared,
       Balanced, Wired, Res, Dirs, Static
<1>20. CASE IfUp
  BY <1>20 DEF IfUp, Holds, files, rx, ghosts, Types, Shape, Probing, Cleared, Balanced,
       Wired, Res, Dirs, Static
<1>21. CASE IfDown
  BY <1>21 DEF IfDown, files, rx, ghosts, Types, Shape, Probing, Cleared, Balanced,
       Wired, Res, Dirs, Static
<1>22. CASE IrqRx
  BY <1>22 DEF IrqRx, files, rx, ghosts, Types, Shape, Probing, Cleared, Balanced, Wired,
       Res, Dirs, Static
<1>23. CASE IrqDrop
  BY <1>23 DEF IrqDrop, Holds, files, rx, ghosts, Types, Shape, Probing, Cleared,
       Balanced, Wired, Res, Dirs, Static
<1>24. ASSUME NEW d \in Static, ProbeFiles(d) PROVE Wired'
  BY <1>24 DEF ProbeFiles, At, Take, Holds, Static, files, rx, ghosts, Types, Shape,
       Probing, Cleared, Balanced, Wired, Res, Dirs
<1>25. ASSUME NEW d \in Static, ProbeWire(d) PROVE Wired'
  BY <1>25 DEF ProbeWire, At, Holds, Static, AfterProbe, files, rx, ghosts, Types, Shape,
       Probing, Cleared, Balanced, Wired, Res, Dirs
<1>26. ASSUME NEW d \in Dirs, CleanFile(d) PROVE Wired'
  BY <1>26 DEF CleanFile, Cleaning, Holds, Drop, Static, Dirs, files, rx, ghosts, Types,
       Shape, Probing, Cleared, Balanced, Wired, Res
<1>27. ASSUME NEW d \in Dirs, FileEnter(d) PROVE Wired'
  BY <1>27 DEF FileEnter, Holds, Static, Dirs, files, rx, ghosts, Types, Shape, Probing,
       Cleared, Balanced, Wired, Res
<1>28. ASSUME NEW d \in Dirs, FileTouch(d) PROVE Wired'
  BY <1>28 DEF FileTouch, Holds, Static, Dirs, files, rx, ghosts, Types, Shape, Probing,
       Cleared, Balanced, Wired, Res
<1>29. CASE UNCHANGED vars
  BY <1>29 DEF vars, files, rx, ghosts, Types, Shape, Probing, Cleared, Balanced, Wired,
       Res, Dirs, Static
<1>. QED
  BY <1>1, <1>2, <1>3, <1>4, <1>5, <1>6, <1>7, <1>8, <1>9, <1>10, <1>11, <1>12, <1>13,
       <1>14, <1>15, <1>16, <1>17, <1>18, <1>19, <1>20, <1>21, <1>22, <1>23, <1>24,
       <1>25, <1>26, <1>27, <1>28, <1>29 DEF Next, Driver, Tasklet, Others

\* Packets go from list to list.
LEMMA PacketsStep ==
  ASSUME Types, Shape, Packets, Quiet, [Next]_vars
  PROVE  Packets'
PROOF
<1>. USE SizeAssumption
<1>1. CASE ProbeNetdev
  BY <1>1 DEF ProbeNetdev, Take, files, rx, ghosts, Types, Shape, Probing, Cleared,
       Balanced, Packets, Quiet, Res, Dirs, Static
<1>2. CASE ProbeStats
  BY <1>2 DEF ProbeStats, At, Take, AfterProbe, files, rx, ghosts, Types, Shape, Probing,
       Cleared, Balanced, Packets, Quiet, Res, Dirs, Static
<1>3. CASE ProbePool
  BY <1>3 DEF ProbePool, At, Take, AfterProbe, files, rx, ghosts, Types, Shape, Probing,
       Cleared, Balanced, Packets, Quiet, Res, Dirs, Static
<1>4. CASE PoolFails
  BY <1>4 DEF PoolFails, At, CleanStage, files, rx, ghosts, Types, Shape, Probing,
       Cleared, Balanced, Packets, Quiet, Res, Dirs, Static
<1>5. CASE ProbeTake
  BY <1>5 DEF ProbeTake, At, Take, AfterProbe, files, rx, ghosts, Types, Shape, Probing,
       Cleared, Balanced, Packets, Quiet, Res, Dirs, Static
<1>6. CASE ProbePass
  BY <1>6 DEF ProbePass, At, AfterProbe, files, rx, ghosts, Types, Shape, Probing,
       Cleared, Balanced, Packets, Quiet, Res, Dirs, Static
<1>7. CASE ProbeFails
  BY <1>7 DEF ProbeFails, At, CleanStage, Holds, Static, files, rx, ghosts, Types, Shape,
       Probing, Cleared, Balanced, Packets, Quiet, Res, Dirs
<1>8. CASE TaskletInit
  BY <1>8 DEF TaskletInit, At, files, rx, ghosts, Types, Shape, Probing, Cleared,
       Balanced, Packets, Quiet, Res, Dirs, Static
<1>9. CASE Remove
  BY <1>9 DEF Remove, files, rx, ghosts, Types, Shape, Probing, Cleared, Balanced,
       Packets, Quiet, Res, Dirs, Static
<1>10. CASE CleanRegistered
  BY <1>10 DEF CleanRegistered, Cleaning, Drop, AfterClean, files, rx, ghosts, Types,
       Shape, Probing, Cleared, Balanced, Packets, Quiet, Res, Dirs, Static
<1>11. CASE CleanDrop
  BY <1>11 DEF CleanDrop, Cleaning, Drop, AfterClean, files, rx, ghosts, Types, Shape,
       Probing, Cleared, Balanced, Packets, Quiet, Res, Dirs, Static
<1>12. CASE CleanFilesDone
  BY <1>12 DEF CleanFilesDone, Cleaning, Holds, Static, AfterClean, files, rx, ghosts,
       Types, Shape, Probing, Cleared, Balanced, Packets, Quiet, Res, Dirs
<1>13. CASE CleanPool
  BY <1>13 DEF CleanPool, Cleaning, Drop, AfterClean, files, rx, ghosts, Types, Shape,
       Probing, Cleared, Balanced, Packets, Quiet, Res, Dirs, Static
<1>14. CASE CleanStats
  BY <1>14 DEF CleanStats, Cleaning, Drop, Holds, AfterClean, files, rx, ghosts, Types,
       Shape, Probing, Cleared, Balanced, Packets, Quiet, Res, Dirs, Static
<1>15. CASE CleanNetdev
  BY <1>15 DEF CleanNetdev, Cleaning, Drop, files, rx, ghosts, Types, Shape, Probing,
       Cleared, Balanced, Packets, Quiet, Res, Dirs, Static
<1>16. CASE TaskletStart
  BY <1>16 DEF TaskletStart, Reaches, Holds, files, rx, ghosts, Types, Shape, Probing,
       Cleared, Balanced, Packets, Quiet, Res, Dirs, Static
<1>17. CASE TaskletPkt
  BY <1>17 DEF TaskletPkt, Reaches, Holds, files, rx, ghosts, Types, Shape, Probing,
       Cleared, Balanced, Packets, Quiet, Res, Dirs, Static
<1>18. CASE TaskletEnd
  BY <1>18 DEF TaskletEnd, Reaches, Holds, files, rx, ghosts, Types, Shape, Probing,
       Cleared, Balanced, Packets, Quiet, Res, Dirs, Static
<1>19. CASE MakeDir
  BY <1>19 DEF MakeDir, Take, Holds, files, rx, ghosts, Types, Shape, Probing, Cleared,
       Balanced, Packets, Quiet, Res, Dirs, Static
<1>20. CASE IfUp
  BY <1>20 DEF IfUp, Holds, files, rx, ghosts, Types, Shape, Probing, Cleared, Balanced,
       Packets, Quiet, Res, Dirs, Static
<1>21. CASE IfDown
  BY <1>21 DEF IfDown, files, rx, ghosts, Types, Shape, Probing, Cleared, Balanced,
       Packets, Quiet, Res, Dirs, Static
<1>22. CASE IrqRx
  BY <1>22 DEF IrqRx, files, rx, ghosts, Types, Shape, Probing, Cleared, Balanced,
       Packets, Quiet, Res, Dirs, Static
<1>23. CASE IrqDrop
  BY <1>23 DEF IrqDrop, Holds, files, rx, ghosts, Types, Shape, Probing, Cleared,
       Balanced, Packets, Quiet, Res, Dirs, Static
<1>24. ASSUME NEW d \in Static, ProbeFiles(d) PROVE Packets'
  BY <1>24 DEF ProbeFiles, At, Take, Holds, Static, files, rx, ghosts, Types, Shape,
       Probing, Cleared, Balanced, Packets, Quiet, Res, Dirs
<1>25. ASSUME NEW d \in Static, ProbeWire(d) PROVE Packets'
  BY <1>25 DEF ProbeWire, At, Holds, Static, AfterProbe, files, rx, ghosts, Types, Shape,
       Probing, Cleared, Balanced, Packets, Quiet, Res, Dirs
<1>26. ASSUME NEW d \in Dirs, CleanFile(d) PROVE Packets'
  BY <1>26 DEF CleanFile, Cleaning, Holds, Drop, Static, Dirs, files, rx, ghosts, Types,
       Shape, Probing, Cleared, Balanced, Packets, Quiet, Res
<1>27. ASSUME NEW d \in Dirs, FileEnter(d) PROVE Packets'
  BY <1>27 DEF FileEnter, Holds, Static, Dirs, files, rx, ghosts, Types, Shape, Probing,
       Cleared, Balanced, Packets, Quiet, Res
<1>28. ASSUME NEW d \in Dirs, FileTouch(d) PROVE Packets'
  BY <1>28 DEF FileTouch, Holds, Static, Dirs, files, rx, ghosts, Types, Shape, Probing,
       Cleared, Balanced, Packets, Quiet, Res
<1>29. CASE UNCHANGED vars
  BY <1>29 DEF vars, files, rx, ghosts, Types, Shape, Probing, Cleared, Balanced,
       Packets, Quiet, Res, Dirs, Static
<1>. QED
  BY <1>1, <1>2, <1>3, <1>4, <1>5, <1>6, <1>7, <1>8, <1>9, <1>10, <1>11, <1>12, <1>13,
       <1>14, <1>15, <1>16, <1>17, <1>18, <1>19, <1>20, <1>21, <1>22, <1>23, <1>24,
       <1>25, <1>26, <1>27, <1>28, <1>29 DEF Next, Driver, Tasklet, Others

\* The tasklet rests where nobody can have scheduled it.
LEMMA QuietStep ==
  ASSUME Types, Shape, Packets, Quiet, [Next]_vars
  PROVE  Quiet'
PROOF
<1>. USE SizeAssumption
<1>1. CASE ProbeNetdev
  BY <1>1 DEF ProbeNetdev, Take, files, rx, ghosts, Types, Shape, Probing, Cleared,
       Balanced, Packets, Quiet, Res, Dirs, Static
<1>2. CASE ProbeStats
  BY <1>2 DEF ProbeStats, At, Take, AfterProbe, files, rx, ghosts, Types, Shape, Probing,
       Cleared, Balanced, Packets, Quiet, Res, Dirs, Static
<1>3. CASE ProbePool
  BY <1>3 DEF ProbePool, At, Take, AfterProbe, files, rx, ghosts, Types, Shape, Probing,
       Cleared, Balanced, Packets, Quiet, Res, Dirs, Static
<1>4. CASE PoolFails
  BY <1>4 DEF PoolFails, At, CleanStage, files, rx, ghosts, Types, Shape, Probing,
       Cleared, Balanced, Packets, Quiet, Res, Dirs, Static
<1>5. CASE ProbeTake
  BY <1>5 DEF ProbeTake, At, Take, AfterProbe, files, rx, ghosts, Types, Shape, Probing,
       Cleared, Balanced, Packets, Quiet, Res, Dirs, Static
<1>6. CASE ProbePass
  BY <1>6 DEF ProbePass, At, AfterProbe, files, rx, ghosts, Types, Shape, Probing,
       Cleared, Balanced, Packets, Quiet, Res, Dirs, Static
<1>7. CASE ProbeFails
  BY <1>7 DEF ProbeFails, At, CleanStage, Holds, Static, files, rx, ghosts, Types, Shape,
       Probing, Cleared, Balanced, Packets, Quiet, Res, Dirs
<1>8. CASE TaskletInit
  BY <1>8 DEF TaskletInit, At, files, rx, ghosts, Types, Shape, Probing, Cleared,
       Balanced, Packets, Quiet, Res, Dirs, Static
<1>9. CASE Remove
  BY <1>9 DEF Remove, files, rx, ghosts, Types, Shape, Probing, Cleared, Balanced,
       Packets, Quiet, Res, Dirs, Static
<1>10. CASE CleanRegistered
  BY <1>10 DEF CleanRegistered, Cleaning, Drop, AfterClean, files, rx, ghosts, Types,
       Shape, Probing, Cleared, Balanced, Packets, Quiet, Res, Dirs, Static
<1>11. CASE CleanDrop
  BY <1>11 DEF CleanDrop, Cleaning, Drop, AfterClean, files, rx, ghosts, Types, Shape,
       Probing, Cleared, Balanced, Packets, Quiet, Res, Dirs, Static
<1>12. CASE CleanFilesDone
  BY <1>12 DEF CleanFilesDone, Cleaning, Holds, Static, AfterClean, files, rx, ghosts,
       Types, Shape, Probing, Cleared, Balanced, Packets, Quiet, Res, Dirs
<1>13. CASE CleanPool
  BY <1>13 DEF CleanPool, Cleaning, Drop, AfterClean, files, rx, ghosts, Types, Shape,
       Probing, Cleared, Balanced, Packets, Quiet, Res, Dirs, Static
<1>14. CASE CleanStats
  BY <1>14 DEF CleanStats, Cleaning, Drop, Holds, AfterClean, files, rx, ghosts, Types,
       Shape, Probing, Cleared, Balanced, Packets, Quiet, Res, Dirs, Static
<1>15. CASE CleanNetdev
  BY <1>15 DEF CleanNetdev, Cleaning, Drop, files, rx, ghosts, Types, Shape, Probing,
       Cleared, Balanced, Packets, Quiet, Res, Dirs, Static
<1>16. CASE TaskletStart
  BY <1>16 DEF TaskletStart, Reaches, Holds, files, rx, ghosts, Types, Shape, Probing,
       Cleared, Balanced, Packets, Quiet, Res, Dirs, Static
<1>17. CASE TaskletPkt
  BY <1>17 DEF TaskletPkt, Reaches, Holds, files, rx, ghosts, Types, Shape, Probing,
       Cleared, Balanced, Packets, Quiet, Res, Dirs, Static
<1>18. CASE TaskletEnd
  BY <1>18 DEF TaskletEnd, Reaches, Holds, files, rx, ghosts, Types, Shape, Probing,
       Cleared, Balanced, Packets, Quiet, Res, Dirs, Static
<1>19. CASE MakeDir
  BY <1>19 DEF MakeDir, Take, Holds, files, rx, ghosts, Types, Shape, Probing, Cleared,
       Balanced, Packets, Quiet, Res, Dirs, Static
<1>20. CASE IfUp
  BY <1>20 DEF IfUp, Holds, files, rx, ghosts, Types, Shape, Probing, Cleared, Balanced,
       Packets, Quiet, Res, Dirs, Static
<1>21. CASE IfDown
  BY <1>21 DEF IfDown, files, rx, ghosts, Types, Shape, Probing, Cleared, Balanced,
       Packets, Quiet, Res, Dirs, Static
<1>22. CASE IrqRx
  BY <1>22 DEF IrqRx, files, rx, ghosts, Types, Shape, Probing, Cleared, Balanced,
       Packets, Quiet, Res, Dirs, Static
<1>23. CASE IrqDrop
  BY <1>23 DEF IrqDrop, Holds, files, rx, ghosts, Types, Shape, Probing, Cleared,
       Balanced, Packets, Quiet, Res, Dirs, Static
<1>24. ASSUME NEW d \in Static, ProbeFiles(d) PROVE Quiet'
  BY <1>24 DEF ProbeFiles, At, Take, Holds, Static, files, rx, ghosts, Types, Shape,
       Probing, Cleared, Balanced, Packets, Quiet, Res, Dirs
<1>25. ASSUME NEW d \in Static, ProbeWire(d) PROVE Quiet'
  BY <1>25 DEF ProbeWire, At, Holds, Static, AfterProbe, files, rx, ghosts, Types, Shape,
       Probing, Cleared, Balanced, Packets, Quiet, Res, Dirs
<1>26. ASSUME NEW d \in Dirs, CleanFile(d) PROVE Quiet'
  BY <1>26 DEF CleanFile, Cleaning, Holds, Drop, Static, Dirs, files, rx, ghosts, Types,
       Shape, Probing, Cleared, Balanced, Packets, Quiet, Res
<1>27. ASSUME NEW d \in Dirs, FileEnter(d) PROVE Quiet'
  BY <1>27 DEF FileEnter, Holds, Static, Dirs, files, rx, ghosts, Types, Shape, Probing,
       Cleared, Balanced, Packets, Quiet, Res
<1>28. ASSUME NEW d \in Dirs, FileTouch(d) PROVE Quiet'
  BY <1>28 DEF FileTouch, Holds, Static, Dirs, files, rx, ghosts, Types, Shape, Probing,
       Cleared, Balanced, Packets, Quiet, Res
<1>29. CASE UNCHANGED vars
  BY <1>29 DEF vars, files, rx, ghosts, Types, Shape, Probing, Cleared, Balanced,
       Packets, Quiet, Res, Dirs, Static
<1>. QED
  BY <1>1, <1>2, <1>3, <1>4, <1>5, <1>6, <1>7, <1>8, <1>9, <1>10, <1>11, <1>12, <1>13,
       <1>14, <1>15, <1>16, <1>17, <1>18, <1>19, <1>20, <1>21, <1>22, <1>23, <1>24,
       <1>25, <1>26, <1>27, <1>28, <1>29 DEF Next, Driver, Tasklet, Others

\* What is absent is met only in the named windows.
LEMMA FaultsStep ==
  ASSUME Types, Shape, Wired, Packets, Quiet, FaultsExplained, [Next]_vars
  PROVE  FaultsExplained'
PROOF
<1>. USE SizeAssumption
<1>1. CASE ProbeNetdev
  BY <1>1 DEF ProbeNetdev, Take, files, rx, ghosts, Types, Shape, Probing, Cleared,
       Balanced, Wired, Packets, Quiet, FaultsExplained, Alive, Res, Dirs, Static
<1>2. CASE ProbeStats
  BY <1>2 DEF ProbeStats, At, Take, AfterProbe, files, rx, ghosts, Types, Shape, Probing,
       Cleared, Balanced, Wired, Packets, Quiet, FaultsExplained, Alive, Res, Dirs, Static
<1>3. CASE ProbePool
  BY <1>3 DEF ProbePool, At, Take, AfterProbe, files, rx, ghosts, Types, Shape, Probing,
       Cleared, Balanced, Wired, Packets, Quiet, FaultsExplained, Alive, Res, Dirs, Static
<1>4. CASE PoolFails
  BY <1>4 DEF PoolFails, At, CleanStage, files, rx, ghosts, Types, Shape, Probing,
       Cleared, Balanced, Wired, Packets, Quiet, FaultsExplained, Alive, Res, Dirs, Static
<1>5. CASE ProbeTake
  BY <1>5 DEF ProbeTake, At, Take, AfterProbe, files, rx, ghosts, Types, Shape, Probing,
       Cleared, Balanced, Wired, Packets, Quiet, FaultsExplained, Alive, Res, Dirs, Static
<1>6. CASE ProbePass
  BY <1>6 DEF ProbePass, At, AfterProbe, files, rx, ghosts, Types, Shape, Probing,
       Cleared, Balanced, Wired, Packets, Quiet, FaultsExplained, Alive, Res, Dirs, Static
<1>7. CASE ProbeFails
  BY <1>7 DEF ProbeFails, At, CleanStage, Holds, Static, files, rx, ghosts, Types, Shape,
       Probing, Cleared, Balanced, Wired, Packets, Quiet, FaultsExplained, Alive, Res, Dirs
<1>8. CASE TaskletInit
  BY <1>8 DEF TaskletInit, At, files, rx, ghosts, Types, Shape, Probing, Cleared,
       Balanced, Wired, Packets, Quiet, FaultsExplained, Alive, Res, Dirs, Static
<1>9. CASE Remove
  BY <1>9 DEF Remove, files, rx, ghosts, Types, Shape, Probing, Cleared, Balanced, Wired,
       Packets, Quiet, FaultsExplained, Alive, Res, Dirs, Static
<1>10. CASE CleanRegistered
  BY <1>10 DEF CleanRegistered, Cleaning, Drop, AfterClean, files, rx, ghosts, Types,
       Shape, Probing, Cleared, Balanced, Wired, Packets, Quiet, FaultsExplained, Alive,
       Res, Dirs, Static
<1>11. CASE CleanDrop
  BY <1>11 DEF CleanDrop, Cleaning, Drop, AfterClean, files, rx, ghosts, Types, Shape,
       Probing, Cleared, Balanced, Wired, Packets, Quiet, FaultsExplained, Alive, Res,
       Dirs, Static
<1>12. CASE CleanFilesDone
  BY <1>12 DEF CleanFilesDone, Cleaning, Holds, Static, AfterClean, files, rx, ghosts,
       Types, Shape, Probing, Cleared, Balanced, Wired, Packets, Quiet, FaultsExplained,
       Alive, Res, Dirs
<1>13. CASE CleanPool
  BY <1>13 DEF CleanPool, Cleaning, Drop, AfterClean, files, rx, ghosts, Types, Shape,
       Probing, Cleared, Balanced, Wired, Packets, Quiet, FaultsExplained, Alive, Res,
       Dirs, Static
<1>14. CASE CleanStats
  BY <1>14 DEF CleanStats, Cleaning, Drop, Holds, AfterClean, files, rx, ghosts, Types,
       Shape, Probing, Cleared, Balanced, Wired, Packets, Quiet, FaultsExplained, Alive,
       Res, Dirs, Static
<1>15. CASE CleanNetdev
  BY <1>15 DEF CleanNetdev, Cleaning, Drop, files, rx, ghosts, Types, Shape, Probing,
       Cleared, Balanced, Wired, Packets, Quiet, FaultsExplained, Alive, Res, Dirs, Static
<1>16. CASE TaskletStart
  BY <1>16 DEF TaskletStart, Reaches, Holds, files, rx, ghosts, Types, Shape, Probing,
       Cleared, Balanced, Wired, Packets, Quiet, FaultsExplained, Alive, Res, Dirs, Static
<1>17. CASE TaskletPkt
  BY <1>17 DEF TaskletPkt, Reaches, Holds, files, rx, ghosts, Types, Shape, Probing,
       Cleared, Balanced, Wired, Packets, Quiet, FaultsExplained, Alive, Res, Dirs, Static
<1>18. CASE TaskletEnd
  BY <1>18 DEF TaskletEnd, Reaches, Holds, files, rx, ghosts, Types, Shape, Probing,
       Cleared, Balanced, Wired, Packets, Quiet, FaultsExplained, Alive, Res, Dirs, Static
<1>19. CASE MakeDir
  BY <1>19 DEF MakeDir, Take, Holds, files, rx, ghosts, Types, Shape, Probing, Cleared,
       Balanced, Wired, Packets, Quiet, FaultsExplained, Alive, Res, Dirs, Static
<1>20. CASE IfUp
  BY <1>20 DEF IfUp, Holds, files, rx, ghosts, Types, Shape, Probing, Cleared, Balanced,
       Wired, Packets, Quiet, FaultsExplained, Alive, Res, Dirs, Static
<1>21. CASE IfDown
  BY <1>21 DEF IfDown, files, rx, ghosts, Types, Shape, Probing, Cleared, Balanced,
       Wired, Packets, Quiet, FaultsExplained, Alive, Res, Dirs, Static
<1>22. CASE IrqRx
  BY <1>22 DEF IrqRx, files, rx, ghosts, Types, Shape, Probing, Cleared, Balanced, Wired,
       Packets, Quiet, FaultsExplained, Alive, Res, Dirs, Static
<1>23. CASE IrqDrop
  BY <1>23 DEF IrqDrop, Holds, files, rx, ghosts, Types, Shape, Probing, Cleared,
       Balanced, Wired, Packets, Quiet, FaultsExplained, Alive, Res, Dirs, Static
<1>24. ASSUME NEW d \in Static, ProbeFiles(d) PROVE FaultsExplained'
  BY <1>24 DEF ProbeFiles, At, Take, Holds, Static, files, rx, ghosts, Types, Shape,
       Probing, Cleared, Balanced, Wired, Packets, Quiet, FaultsExplained, Alive, Res, Dirs
<1>25. ASSUME NEW d \in Static, ProbeWire(d) PROVE FaultsExplained'
  BY <1>25 DEF ProbeWire, At, Holds, Static, AfterProbe, files, rx, ghosts, Types, Shape,
       Probing, Cleared, Balanced, Wired, Packets, Quiet, FaultsExplained, Alive, Res, Dirs
<1>26. ASSUME NEW d \in Dirs, CleanFile(d) PROVE FaultsExplained'
  BY <1>26 DEF CleanFile, Cleaning, Holds, Drop, Static, Dirs, files, rx, ghosts, Types,
       Shape, Probing, Cleared, Balanced, Wired, Packets, Quiet, FaultsExplained, Alive, Res
<1>27. ASSUME NEW d \in Dirs, FileEnter(d) PROVE FaultsExplained'
  BY <1>27 DEF FileEnter, Holds, Static, Dirs, files, rx, ghosts, Types, Shape, Probing,
       Cleared, Balanced, Wired, Packets, Quiet, FaultsExplained, Alive, Res
<1>28. ASSUME NEW d \in Dirs, FileTouch(d) PROVE FaultsExplained'
  BY <1>28 DEF FileTouch, Holds, Static, Dirs, files, rx, ghosts, Types, Shape, Probing,
       Cleared, Balanced, Wired, Packets, Quiet, FaultsExplained, Alive, Res
<1>29. CASE UNCHANGED vars
  BY <1>29 DEF vars, files, rx, ghosts, Types, Shape, Probing, Cleared, Balanced, Wired,
       Packets, Quiet, FaultsExplained, Alive, Res, Dirs, Static
<1>. QED
  BY <1>1, <1>2, <1>3, <1>4, <1>5, <1>6, <1>7, <1>8, <1>9, <1>10, <1>11, <1>12, <1>13,
       <1>14, <1>15, <1>16, <1>17, <1>18, <1>19, <1>20, <1>21, <1>22, <1>23, <1>24,
       <1>25, <1>26, <1>27, <1>28, <1>29 DEF Next, Driver, Tasklet, Others

\* Every behaviour keeps the inductive invariant.
THEOREM Invariance == Spec => []IInv
PROOF
<1>1. Init => IInv
  BY InitHolds
<1>2. IInv /\ [Next]_vars => IInv'
  BY TypesStep, ShapeStep, WiredStep, PacketsStep, QuietStep, FaultsStep DEF IInv
<1>. QED
  BY <1>1, <1>2, PTL DEF Spec

\* No resource is acquired twice or given back when it is not held.
THEOREM TypeCorrect == Spec => []TypeOK
PROOF
<1>1. IInv => TypeOK
  BY DEF IInv, Types, Packets, TypeOK, ProbeSteps, CleanSteps, AfterProbe, AfterClean
<1>. QED
  BY <1>1, Invariance, PTL

\* After a failed probe and after a removal nothing is held; a bound driver holds it all.
THEOREM ProbeBalanced == Spec => []Balanced
PROOF
<1>1. IInv => Balanced
  BY DEF IInv, Shape
<1>. QED
  BY <1>1, Invariance, PTL

\* Packets leak only in the two named ways.
THEOREM PacketsFreed == Spec => []NoPacketLeft
PROOF
<1>1. IInv => NoPacketLeft
  BY DEF IInv, Shape, Balanced, Packets, NoPacketLeft, Res
<1>. QED
  BY <1>1, Invariance, PTL

\* Something absent is met only in the named windows.
THEOREM FaultsNamed == Spec => []FaultsExplained
PROOF
<1>1. IInv => FaultsExplained
  BY DEF IInv
<1>. QED
  BY <1>1, Invariance, PTL

-----------------------------------------------------------------------------
(***************************************************************************)
(* The steps of the driver take and return resources as the ladder says.   *)
(***************************************************************************)
Held == {r \in Res : Holds(r)}

\* Nothing is acquired at first.
LEMMA LadderInit == Init => Ladder!Init
BY DEF Init, Ladder!Init, Holds

\* A resource is taken when all it needs is held.
LEMMA Acquires ==
  ASSUME Types, NEW r \in Res, held[r] = 0, Take(r),
         \A q \in LadderNeeds[r] : q \in Res /\ held[q] = 1
  PROVE  Ladder!Next
PROOF
<1>1. Held' = Held \cup {r}
  BY DEF Held, Holds, Take, Types
<1>2. r \notin Held /\ LadderNeeds[r] \subseteq Held
  BY DEF Held, Holds
<1>. QED
  BY <1>1, <1>2 DEF Ladder!Next, Ladder!Acquire, Held

\* A resource is given back when nothing held needs it.
LEMMA Releases ==
  ASSUME Types, NEW r \in Res, held[r] = 1, Drop(r),
         \A q \in Res \ {r} : held[q] = 1 => r \notin LadderNeeds[q]
  PROVE  Ladder!Next
PROOF
<1>1. Held' = Held \ {r}
  BY DEF Held, Holds, Drop, Types
<1>2. r \in Held /\ \A q \in Held \ {r} : r \notin LadderNeeds[q]
  BY DEF Held, Holds, Types
<1>. QED
  BY <1>1, <1>2 DEF Ladder!Next, Ladder!Release, Held

\* Every step climbs, descends or stays on the ladder.
LEMMA LadderStep ==
  ASSUME Types, Shape, Wired, [Next]_vars
  PROVE  [Ladder!Next]_Held
PROOF
<1>. USE DEF LadderNeeds, Res, Dirs, Static
<1>1. CASE ProbeNetdev
  <2>1. held["netdev"] = 0 /\ Take("netdev")
    BY <1>1 DEF ProbeNetdev, Types, Shape, Probing, Cleared, Balanced
  <2>2. \A q \in LadderNeeds["netdev"] : q \in Res /\ held[q] = 1
    BY <1>1 DEF ProbeNetdev, Types, Shape, Probing, Cleared, Balanced
  <2>. QED
    BY <2>1, <2>2, Acquires
<1>2. CASE ProbeStats
  <2>1. CASE Take("stats")
    <3>1. held["stats"] = 0 /\ Take("stats")
      BY <1>2, <2>1 DEF ProbeStats, At, Types, Shape, Probing, Cleared, Balanced
    <3>2. \A q \in LadderNeeds["stats"] : q \in Res /\ held[q] = 1
      BY <1>2, <2>1 DEF ProbeStats, At, Types, Shape, Probing, Cleared, Balanced
    <3>. QED
      BY <3>1, <3>2, Acquires
  <2>2. CASE UNCHANGED held
    BY <2>2 DEF Held, Holds
  <2>. QED
    BY <1>2, <2>1, <2>2 DEF ProbeStats
<1>3. CASE ProbePool
  <2>1. held["pool"] = 0 /\ Take("pool")
    BY <1>3 DEF ProbePool, At, Types, Shape, Probing, Cleared, Balanced
  <2>2. \A q \in LadderNeeds["pool"] : q \in Res /\ held[q] = 1
    BY <1>3 DEF ProbePool, At, Types, Shape, Probing, Cleared, Balanced
  <2>. QED
    BY <2>1, <2>2, Acquires
<1>4. CASE ProbeTake
  <2>1. CASE At("static") /\ Take("static")
    <3>1. held["static"] = 0 /\ Take("static")
      BY <2>1 DEF At, Types, Shape, Probing, Cleared, Balanced
    <3>2. \A q \in LadderNeeds["static"] : q \in Res /\ held[q] = 1
      BY <2>1 DEF At, Types, Shape, Probing, Cleared, Balanced
    <3>. QED
      BY <3>1, <3>2, Acquires
  <2>2. CASE At("dynamic") /\ Take("dynamic")
    <3>1. held["dynamic"] = 0 /\ Take("dynamic")
      BY <2>2 DEF At, Types, Shape, Probing, Cleared, Balanced
    <3>2. \A q \in LadderNeeds["dynamic"] : q \in Res /\ held[q] = 1
      BY <2>2 DEF At, Types, Shape, Probing, Cleared, Balanced
    <3>. QED
      BY <3>1, <3>2, Acquires
  <2>3. CASE At("mem") /\ Take("mem")
    <3>1. held["mem"] = 0 /\ Take("mem")
      BY <2>3 DEF At, Types, Shape, Probing, Cleared, Balanced
    <3>2. \A q \in LadderNeeds["mem"] : q \in Res /\ held[q] = 1
      BY <2>3 DEF At, Types, Shape, Probing, Cleared, Balanced
    <3>. QED
      BY <3>1, <3>2, Acquires
  <2>4. CASE At("io") /\ Take("io")
    <3>1. held["io"] = 0 /\ Take("io")
      BY <2>4 DEF At, Types, Shape, Probing, Cleared, Balanced
    <3>2. \A q \in LadderNeeds["io"] : q \in Res /\ held[q] = 1
      BY <2>4 DEF At, Types, Shape, Probing, Cleared, Balanced
    <3>. QED
      BY <3>1, <3>2, Acquires
  <2>5. CASE At("registered") /\ Take("registered")
    <3>1. held["registered"] = 0 /\ Take("registered")
      BY <2>5 DEF At, Types, Shape, Probing, Cleared, Balanced
    <3>2. \A q \in LadderNeeds["registered"] : q \in Res /\ held[q] = 1
      BY <2>5 DEF At, Types, Shape, Probing, Cleared, Balanced
    <3>. QED
      BY <3>1, <3>2, Acquires
  <2>. QED
    BY <1>4, <2>1, <2>2, <2>3, <2>4, <2>5 DEF ProbeTake
<1>5. CASE MakeDir
  <2>1. held["dyn"] = 0 /\ Take("dyn")
    BY <1>5 DEF MakeDir, Holds, Types, Shape, Probing, Cleared, Balanced
  <2>2. \A q \in LadderNeeds["dyn"] : q \in Res /\ held[q] = 1
    BY <1>5 DEF MakeDir, Holds, Types, Shape, Probing, Cleared, Balanced
  <2>. QED
    BY <2>1, <2>2, Acquires
<1>6. ASSUME NEW d \in Static, ProbeFiles(d) PROVE [Ladder!Next]_Held
  <2>1. held[d] = 0 /\ Take(d)
    BY <1>6 DEF ProbeFiles, Holds, Types
  <2>2. \A q \in LadderNeeds[d] : q \in Res /\ held[q] = 1
    BY <1>6 DEF ProbeFiles, At, Types, Shape, Probing, Cleared, Balanced
  <2>. QED
    BY <2>1, <2>2, Acquires
<1>7. CASE CleanRegistered
  <2>1. held["registered"] = 1 /\ Drop("registered")
    BY <1>7 DEF CleanRegistered, Cleaning, Types, Shape, Probing, Cleared, Balanced
  <2>2. \A q \in Res \ {"registered"} : held[q] = 1 => "registered" \notin LadderNeeds[q]
    BY <1>7 DEF CleanRegistered, Cleaning, Types, Shape, Probing, Cleared, Balanced
  <2>. QED
    BY <2>1, <2>2, Releases
<1>8. CASE CleanDrop
  <2>1. CASE Cleaning("io") /\ Drop("io")
    <3>1. held["io"] = 1 /\ Drop("io")
      BY <2>1 DEF Cleaning, Types, Shape, Probing, Cleared, Balanced
    <3>2. \A q \in Res \ {"io"} : held[q] = 1 => "io" \notin LadderNeeds[q]
      BY <2>1 DEF Cleaning, Types, Shape, Probing, Cleared, Balanced
    <3>. QED
      BY <3>1, <3>2, Releases
  <2>2. CASE Cleaning("mem") /\ Drop("mem")
    <3>1. held["mem"] = 1 /\ Drop("mem")
      BY <2>2 DEF Cleaning, Types, Shape, Probing, Cleared, Balanced
    <3>2. \A q \in Res \ {"mem"} : held[q] = 1 => "mem" \notin LadderNeeds[q]
      BY <2>2 DEF Cleaning, Types, Shape, Probing, Cleared, Balanced
    <3>. QED
      BY <3>1, <3>2, Releases
  <2>3. CASE Cleaning("dynamic") /\ Drop("dynamic")
    <3>1. held["dynamic"] = 1 /\ Drop("dynamic")
      BY <2>3 DEF Cleaning, Types, Shape, Probing, Cleared, Balanced
    <3>2. \A q \in Res \ {"dynamic"} : held[q] = 1 => "dynamic" \notin LadderNeeds[q]
      BY <2>3 DEF Cleaning, Types, Shape, Probing, Cleared, Balanced
    <3>. QED
      BY <3>1, <3>2, Releases
  <2>4. CASE Cleaning("static") /\ Drop("static")
    <3>1. held["static"] = 1 /\ Drop("static")
      BY <2>4 DEF Cleaning, Types, Shape, Probing, Cleared, Balanced
    <3>2. \A q \in Res \ {"static"} : held[q] = 1 => "static" \notin LadderNeeds[q]
      BY <2>4 DEF Cleaning, Types, Shape, Probing, Cleared, Balanced
    <3>. QED
      BY <3>1, <3>2, Releases
  <2>. QED
    BY <1>8, <2>1, <2>2, <2>3, <2>4 DEF CleanDrop
<1>9. ASSUME NEW d \in Dirs, CleanFile(d) PROVE [Ladder!Next]_Held
  <2>1. held[d] = 1 /\ Drop(d)
    BY <1>9 DEF CleanFile, Holds, Types
  <2>2. \A q \in Res \ {d} : held[q] = 1 => d \notin LadderNeeds[q]
    BY <1>9 DEF CleanFile, Cleaning, Types, Shape, Probing, Cleared, Balanced
  <2>. QED
    BY <2>1, <2>2, Releases
<1>10. CASE CleanPool
  <2>1. held["pool"] = 1 /\ Drop("pool")
    BY <1>10 DEF CleanPool, Cleaning, Types, Shape, Probing, Cleared, Balanced
  <2>2. \A q \in Res \ {"pool"} : held[q] = 1 => "pool" \notin LadderNeeds[q]
    BY <1>10 DEF CleanPool, Cleaning, Types, Shape, Probing, Cleared, Balanced
  <2>. QED
    BY <2>1, <2>2, Releases
<1>11. CASE CleanStats
  <2>1. CASE Holds("stats")
    <3>1. held["stats"] = 1 /\ Drop("stats")
      BY <1>11, <2>1 DEF CleanStats, Cleaning, Holds, Types, Shape, Probing, Cleared,
       Balanced
    <3>2. \A q \in Res \ {"stats"} : held[q] = 1 => "stats" \notin LadderNeeds[q]
      BY <1>11, <2>1 DEF CleanStats, Cleaning, Holds, Types, Shape, Probing, Cleared,
       Balanced
    <3>. QED
      BY <3>1, <3>2, Releases
  <2>2. CASE ~Holds("stats")
    BY <1>11, <2>2 DEF CleanStats, Held, Holds
  <2>. QED
    BY <2>1, <2>2
<1>12. CASE CleanNetdev
  <2>1. held["netdev"] = 1 /\ Drop("netdev")
    BY <1>12 DEF CleanNetdev, Cleaning, Types, Shape, Probing, Cleared, Balanced
  <2>2. \A q \in Res \ {"netdev"} : held[q] = 1 => "netdev" \notin LadderNeeds[q]
    BY <1>12 DEF CleanNetdev, Cleaning, Types, Shape, Probing, Cleared, Balanced
  <2>. QED
    BY <2>1, <2>2, Releases
<1>13. CASE PoolFails
  BY <1>13 DEF PoolFails, Held, Holds
<1>14. CASE ProbePass
  BY <1>14 DEF ProbePass, Held, Holds
<1>15. CASE ProbeFails
  BY <1>15 DEF ProbeFails, Held, Holds
<1>16. CASE TaskletInit
  BY <1>16 DEF TaskletInit, Held, Holds
<1>17. CASE Remove
  BY <1>17 DEF Remove, Held, Holds
<1>18. CASE CleanFilesDone
  BY <1>18 DEF CleanFilesDone, Held, Holds
<1>19. CASE TaskletStart
  BY <1>19 DEF TaskletStart, Held, Holds
<1>20. CASE TaskletPkt
  BY <1>20 DEF TaskletPkt, Held, Holds
<1>21. CASE TaskletEnd
  BY <1>21 DEF TaskletEnd, Held, Holds
<1>22. CASE IfUp
  BY <1>22 DEF IfUp, Held, Holds
<1>23. CASE IfDown
  BY <1>23 DEF IfDown, Held, Holds
<1>24. CASE IrqRx
  BY <1>24 DEF IrqRx, Held, Holds
<1>25. CASE IrqDrop
  BY <1>25 DEF IrqDrop, Held, Holds
<1>26. ASSUME NEW d \in Static, ProbeWire(d) PROVE [Ladder!Next]_Held
  BY <1>26 DEF ProbeWire, Held, Holds
<1>27. ASSUME NEW d \in Dirs, FileEnter(d) PROVE [Ladder!Next]_Held
  BY <1>27 DEF FileEnter, Held, Holds
<1>28. ASSUME NEW d \in Dirs, FileTouch(d) PROVE [Ladder!Next]_Held
  BY <1>28 DEF FileTouch, Held, Holds
<1>29. CASE UNCHANGED vars
  BY <1>29 DEF vars, Held, Holds
<1>. QED
  BY <1>1, <1>2, <1>3, <1>4, <1>5, <1>6, <1>7, <1>8, <1>9, <1>10, <1>11, <1>12, <1>13,
       <1>14, <1>15, <1>16, <1>17, <1>18, <1>19, <1>20, <1>21, <1>22, <1>23, <1>24,
       <1>25, <1>26, <1>27, <1>28, <1>29 DEF Next, Driver, Tasklet, Others

\* mfhssnet_probe, mfhss_ioctl and mfhss_cleanup implement the ladder.
THEOREM ProbeImplementsLadder == Spec => ImplementsLadder
PROOF
<1>1. Init => Ladder!Init
  BY LadderInit
<1>2. IInv /\ [Next]_vars => [Ladder!Next]_Held
  BY LadderStep DEF IInv
<1>. QED
  BY <1>1, <1>2, Invariance, PTL DEF Spec, ImplementsLadder, Ladder!Spec, Held
=============================================================================

-------------------------- MODULE ServerStop_proofs --------------------------
(***************************************************************************)
(* Proofs about the processes of modem-daemon, for any number of starts    *)
(* and crashes.  What makes the invariants inductive is, besides the       *)
(* threads that go with each state of the master process (Shape), who      *)
(* holds the port (Port), which signals can be pending (Signals), that     *)
(* already the daemon process in its set-up is named by the pid file       *)
(* (Named), and that two instances that live at a time know it (Apart).    *)
(***************************************************************************)
EXTENDS ServerStop, TLAPS

\* What the threads of a master process can be in, state by state.
Shape ==
  \A i \in Inst :
    /\ i > starts => daemon[i] = "none"
    /\ daemon[i] \in {"none", "setup"} => master[i] = "none"
    /\ master[i] \in {"none", "config"} => worker[i] = "none" /\ acceptor[i] = "none"
    /\ master[i] \in {"running", "waiting", "stop_worker"} =>
         worker[i] = "run" /\ acceptor[i] \in {"bind", "accept", "deaf"}
    /\ master[i] = "stop_master" =>
         worker[i] = "end" /\ acceptor[i] \in {"bind", "accept", "end", "deaf"}
    /\ master[i] \in {"exit", "killed"} =>
         worker[i] # "run" /\ acceptor[i] \notin {"bind", "accept"}

\* The instance that accepts is the one that holds the port.
Port == \A i \in Inst : port = i <=> acceptor[i] = "accept"

\* SIGCHLD is pending only after the end of the master process, which is
\* either pending, taken, or was missed.
Signals ==
  \A i \in Inst :
    /\ "CHLD" \in pending[i] => master[i] \in {"exit", "killed"}
    /\ daemon[i] \in {"forked", "masked"} => master[i] # "none"
    /\ daemon[i] \in {"forked", "masked"} /\ master[i] \in {"exit", "killed"}
         => "missed" \in ghosts[i] \/ (daemon[i] = "masked" /\ "CHLD" \in pending[i])

Runs(i) == MasterLives(i) /\ master[i] \notin {"stop_worker", "stop_master"}

\* Controllable, and the same of a daemon process that has not forked yet.
Named ==
  \A i \in Inst :
    "replaced" \notin ghosts[i]
      /\ (daemon[i] = "setup" \/ (Runs(i) /\ "orphaned" \notin ghosts[i]))
    => /\ DaemonLives(i)
       /\ pidfile = i \/ (script = "launch" /\ starts = i) \/ "USR1" \in pending[i]

\* Instances that live at the same time are both marked.
Apart ==
  \A i, j \in Inst : i # j /\ Lives(i) /\ Lives(j) => "second" \in ghosts[i]

Types ==
  /\ starts \in 0..MaxStarts /\ script \in {"idle", "launch"} /\ pidfile \in 0..starts
  /\ script = "launch" => starts \in Inst
  /\ daemon \in [Inst -> {"none", "setup", "forked", "masked", "exit", "killed"}]
  /\ pending \in [Inst -> SUBSET {"USR1", "CHLD"}]
  /\ master \in [Inst -> {"none", "config", "running", "waiting", "stop_worker",
                          "stop_master", "exit", "killed"}]
  /\ worker \in [Inst -> {"none", "run", "end"}]
  /\ acceptor \in [Inst -> {"none", "bind", "accept", "end", "deaf"}]
  /\ port \in 0..starts /\ crashes \in 0..MaxCrashes
  /\ ghosts \in [Inst -> SUBSET {"stop", "orphaned", "missed", "second", "replaced"}]

IInv == Types /\ Shape /\ Port /\ Signals /\ Named /\ Apart /\ DeafExplained

\* The initial states satisfy the inductive invariant.
LEMMA InitHolds == Init => IInv
BY BoundAssumption DEF Init, IInv, Types, Shape, Port, Signals, Named, Apart, DeafExplained,
   Runs, Lives, DaemonLives, MasterLives, Inst

\* No step leaves the types.
LEMMA TypesStep ==
  ASSUME Types, Shape, [Next]_vars
  PROVE  Types'
PROOF
<1>. USE BoundAssumption DEF Inst
<1>1. CASE Start
  BY <1>1 DEF Start, Lives, DaemonLives, MasterLives, threads, Types, Shape
<1>2. CASE WritePid
  BY <1>2 DEF WritePid, threads, Types, Shape
<1>3. CASE WritePidFails
  BY <1>3 DEF WritePidFails, SignalDaemon, MasterLives, threads, Types, Shape
<1>4. CASE Stop
  BY <1>4 DEF Stop, SignalDaemon, MasterLives, threads, Types, Shape
<1>5. ASSUME NEW k \in Inst, DaemonFork(k) PROVE Types'
  <2>1. CASE daemon' = [daemon EXCEPT ![k] = "forked"] /\ master' = [master EXCEPT ![k] = "config"]
    BY <1>5, <2>1 DEF DaemonFork, threads, shell, Types
  <2>2. CASE daemon' = [daemon EXCEPT ![k] = "exit"] /\ UNCHANGED master
    BY <1>5, <2>2 DEF DaemonFork, threads, shell, Types
  <2>. QED
    BY <1>5, <2>1, <2>2 DEF DaemonFork
<1>6. ASSUME NEW k \in Inst, DaemonMask(k) PROVE Types'
  BY <1>6, SMTT(30) DEF DaemonMask, threads, shell, Types
<1>7. ASSUME NEW k \in Inst, DaemonChild(k) PROVE Types'
  BY <1>7, SMTT(30) DEF DaemonChild, threads, shell, Types
<1>8. ASSUME NEW k \in Inst, DaemonStop(k) PROVE Types'
  <2>1. CASE master[k] = "waiting"
    BY <1>8, <2>1 DEF DaemonStop, threads, shell, Types
  <2>2. CASE master[k] \in {"config", "running"}
    <3>1. MasterEnds(k, "killed") /\ UNCHANGED <<shell, pending, crashes, ghosts>>
      BY <1>8, <2>2 DEF DaemonStop
    <3>2. daemon' = [daemon EXCEPT ![k] = "exit"]
      BY <1>8 DEF DaemonStop
    <3>3. worker' \in [Inst -> {"none", "run", "end"}]
      BY <3>1 DEF MasterEnds, Types
    <3>4. acceptor' \in [Inst -> {"none", "bind", "accept", "end", "deaf"}]
      BY <3>1 DEF MasterEnds, Types
    <3>. QED
      BY <3>1, <3>2, <3>3, <3>4 DEF MasterEnds, shell, Types
  <2>3. CASE master[k] \notin {"config", "running", "waiting"}
    BY <1>8, <2>3 DEF DaemonStop, threads, shell, Types
  <2>. QED
    BY <2>1, <2>2, <2>3
<1>9. ASSUME NEW k \in Inst, Run(k) PROVE Types'
  BY <1>9, SMTT(30) DEF Run, shell, Types
<1>10. ASSUME NEW k \in Inst, Wait(k) PROVE Types'
  BY <1>10, SMTT(30) DEF Wait, threads, shell, Types
<1>11. ASSUME NEW k \in Inst, Bind(k) PROVE Types'
  BY <1>11, SMTT(30) DEF Bind, shell, Types, Shape
<1>12. ASSUME NEW k \in Inst, JoinWorker(k) PROVE Types'
  BY <1>12, SMTT(30) DEF JoinWorker, shell, Types
<1>13. ASSUME NEW k \in Inst, AcceptorEnds(k) PROVE Types'
  BY <1>13, SMTT(30) DEF AcceptorEnds, shell, Types
<1>14. ASSUME NEW k \in Inst, JoinAcceptor(k) PROVE Types'
  BY <1>14, SMTT(30) DEF JoinAcceptor, Report, threads, shell, Types
<1>15. ASSUME NEW k \in Inst, ConfigFails(k) PROVE Types'
  BY <1>15, SMTT(30) DEF ConfigFails, MasterEnds, Report, shell, Types
<1>16. ASSUME NEW k \in Inst, Crash(k) PROVE Types'
  BY <1>16, SMTT(30) DEF Crash, MasterEnds, Report, MasterLives, shell, Types
<1>17. CASE UNCHANGED vars
  BY <1>17 DEF vars, Types, Shape
<1>. QED
  BY <1>1, <1>2, <1>3, <1>4, <1>5, <1>6, <1>7, <1>8, <1>9, <1>10, <1>11, <1>12, <1>13,
       <1>14, <1>15, <1>16, <1>17 DEF Next, Script, Process

\* The threads follow the master process.
LEMMA ShapeStep ==
  ASSUME Types, Shape, Port, [Next]_vars
  PROVE  Shape'
PROOF
<1>. USE BoundAssumption DEF Inst
<1>1. CASE Start
  BY <1>1 DEF Start, Lives, DaemonLives, MasterLives, threads, Types, Shape, Port
<1>2. CASE WritePid
  BY <1>2 DEF WritePid, threads, Types, Shape, Port
<1>3. CASE WritePidFails
  BY <1>3 DEF WritePidFails, SignalDaemon, MasterLives, threads, Types, Shape, Port
<1>4. CASE Stop
  BY <1>4 DEF Stop, SignalDaemon, MasterLives, threads, Types, Shape, Port
<1>5. ASSUME NEW k \in Inst, DaemonFork(k) PROVE Shape'
  BY <1>5 DEF DaemonFork, threads, shell, Types, Shape, Port
<1>6. ASSUME NEW k \in Inst, DaemonMask(k) PROVE Shape'
  BY <1>6 DEF DaemonMask, threads, shell, Types, Shape, Port
<1>7. ASSUME NEW k \in Inst, DaemonChild(k) PROVE Shape'
  BY <1>7 DEF DaemonChild, threads, shell, Types, Shape, Port
<1>8. ASSUME NEW k \in Inst, DaemonStop(k) PROVE Shape'
  BY <1>8 DEF DaemonStop, MasterEnds, threads, shell, Types, Shape, Port
<1>9. ASSUME NEW k \in Inst, Run(k) PROVE Shape'
  BY <1>9 DEF Run, shell, Types, Shape, Port
<1>10. ASSUME NEW k \in Inst, Wait(k) PROVE Shape'
  BY <1>10 DEF Wait, threads, shell, Types, Shape, Port
<1>11. ASSUME NEW k \in Inst, Bind(k) PROVE Shape'
  BY <1>11 DEF Bind, shell, Types, Shape, Port
<1>12. ASSUME NEW k \in Inst, JoinWorker(k) PROVE Shape'
  BY <1>12 DEF JoinWorker, shell, Types, Shape, Port
<1>13. ASSUME NEW k \in Inst, AcceptorEnds(k) PROVE Shape'
  BY <1>13 DEF AcceptorEnds, shell, Types, Shape, Port
<1>14. ASSUME NEW k \in Inst, JoinAcceptor(k) PROVE Shape'
  BY <1>14 DEF JoinAcceptor, Report, threads, shell, Types, Shape, Port
<1>15. ASSUME NEW k \in Inst, ConfigFails(k) PROVE Shape'
  BY <1>15 DEF ConfigFails, MasterEnds, Report, shell, Types, Shape, Port
<1>16. ASSUME NEW k \in Inst, Crash(k) PROVE Shape'
  BY <1>16 DEF Crash, MasterEnds, Report, MasterLives, shell, Types, Shape, Port
<1>17. CASE UNCHANGED vars
  BY <1>17 DEF vars, Types, Shape, Port
<1>. QED
  BY <1>1, <1>2, <1>3, <1>4, <1>5, <1>6, <1>7, <1>8, <1>9, <1>10, <1>11, <1>12, <1>13,
       <1>14, <1>15, <1>16, <1>17 DEF Next, Script, Process

\* The port follows the thread that accepts.
LEMMA PortStep ==
  ASSUME Types, Shape, Port, [Next]_vars
  PROVE  Port'
PROOF
<1>. USE BoundAssumption DEF Inst
<1>1. CASE Start
  BY <1>1 DEF Start, Lives, DaemonLives, MasterLives, threads, Types, Shape, Port
<1>2. CASE WritePid
  BY <1>2 DEF WritePid, threads, Types, Shape, Port
<1>3. CASE WritePidFails
  BY <1>3 DEF WritePidFails, SignalDaemon, MasterLives, threads, Types, Shape, Port
<1>4. CASE Stop
  BY <1>4 DEF Stop, SignalDaemon, MasterLives, threads, Types, Shape, Port
<1>5. ASSUME NEW k \in Inst, DaemonFork(k) PROVE Port'
  BY <1>5 DEF DaemonFork, threads, shell, Types, Shape, Port
<1>6. ASSUME NEW k \in Inst, DaemonMask(k) PROVE Port'
  BY <1>6 DEF DaemonMask, threads, shell, Types, Shape, Port
<1>7. ASSUME NEW k \in Inst, DaemonChild(k) PROVE Port'
  BY <1>7 DEF DaemonChild, threads, shell, Types, Shape, Port
<1>8. ASSUME NEW k \in Inst, DaemonStop(k) PROVE Port'
  BY <1>8 DEF DaemonStop, MasterEnds, threads, shell, Types, Shape, Port
<1>9. ASSUME NEW k \in Inst, Run(k) PROVE Port'
  BY <1>9 DEF Run, shell, Types, Shape, Port
<1>10. ASSUME NEW k \in Inst, Wait(k) PROVE Port'
  BY <1>10 DEF Wait, threads, shell, Types, Shape, Port
<1>11. ASSUME NEW k \in Inst, Bind(k) PROVE Port'
  BY <1>11 DEF Bind, shell, Types, Shape, Port
<1>12. ASSUME NEW k \in Inst, JoinWorker(k) PROVE Port'
  BY <1>12 DEF JoinWorker, shell, Types, Shape, Port
<1>13. ASSUME NEW k \in Inst, AcceptorEnds(k) PROVE Port'
  BY <1>13 DEF AcceptorEnds, shell, Types, Shape, Port
<1>14. ASSUME NEW k \in Inst, JoinAcceptor(k) PROVE Port'
  BY <1>14 DEF JoinAcceptor, Report, threads, shell, Types, Shape, Port
<1>15. ASSUME NEW k \in Inst, ConfigFails(k) PROVE Port'
  BY <1>15 DEF ConfigFails, MasterEnds, Report, shell, Types, Shape, Port
<1>16. ASSUME NEW k \in Inst, Crash(k) PROVE Port'
  BY <1>16 DEF Crash, MasterEnds, Report, MasterLives, shell, Types, Shape, Port
<1>17. CASE UNCHANGED vars
  BY <1>17 DEF vars, Types, Shape, Port
<1>. QED
  BY <1>1, <1>2, <1>3, <1>4, <1>5, <1>6, <1>7, <1>8, <1>9, <1>10, <1>11, <1>12, <1>13,
       <1>14, <1>15, <1>16, <1>17 DEF Next, Script, Process

\* The end of the master process is not forgotten.
LEMMA SignalsStep ==
  ASSUME Types, Shape, Signals, [Next]_vars
  PROVE  Signals'
PROOF
<1>. USE BoundAssumption DEF Inst
<1>1. CASE Start
  BY <1>1 DEF Start, Lives, DaemonLives, MasterLives, threads, Types, Shape, Signals
<1>2. CASE WritePid
  BY <1>2 DEF WritePid, threads, Types, Shape, Signals, MasterLives
<1>3. CASE WritePidFails
  BY <1>3 DEF WritePidFails, SignalDaemon, MasterLives, threads, Types, Shape, Signals
<1>4. CASE Stop
  BY <1>4 DEF Stop, SignalDaemon, MasterLives, threads, Types, Shape, Signals
<1>5. ASSUME NEW k \in Inst, DaemonFork(k) PROVE Signals'
  BY <1>5 DEF DaemonFork, threads, shell, Types, Shape, Signals, MasterLives
<1>6. ASSUME NEW k \in Inst, DaemonMask(k) PROVE Signals'
  BY <1>6 DEF DaemonMask, threads, shell, Types, Shape, Signals, MasterLives
<1>7. ASSUME NEW k \in Inst, DaemonChild(k) PROVE Signals'
  BY <1>7 DEF DaemonChild, threads, shell, Types, Shape, Signals, MasterLives
<1>8. ASSUME NEW k \in Inst, DaemonStop(k) PROVE Signals'
  BY <1>8 DEF DaemonStop, MasterEnds, threads, shell, Types, Shape, Signals, MasterLives
<1>9. ASSUME NEW k \in Inst, Run(k) PROVE Signals'
  <2>1. /\ master' = [master EXCEPT ![k] = "running"] /\ master[k] = "config"
        /\ UNCHANGED <<daemon, pending, ghosts>>
    BY <1>9 DEF Run
  <2>2. DOMAIN master = Inst
    BY DEF Types
  <2>. QED
    BY <2>1, <2>2 DEF Signals
<1>10. ASSUME NEW k \in Inst, Wait(k) PROVE Signals'
  BY <1>10 DEF Wait, threads, shell, Types, Shape, Signals, MasterLives
<1>11. ASSUME NEW k \in Inst, Bind(k) PROVE Signals'
  BY <1>11 DEF Bind, shell, Types, Shape, Signals, MasterLives
<1>12. ASSUME NEW k \in Inst, JoinWorker(k) PROVE Signals'
  BY <1>12 DEF JoinWorker, shell, Types, Shape, Signals, MasterLives
<1>13. ASSUME NEW k \in Inst, AcceptorEnds(k) PROVE Signals'
  BY <1>13 DEF AcceptorEnds, shell, Types, Shape, Signals, MasterLives
<1>14. ASSUME NEW k \in Inst, JoinAcceptor(k) PROVE Signals'
  BY <1>14 DEF JoinAcceptor, Report, threads, shell, Types, Shape, Signals, MasterLives
<1>15. ASSUME NEW k \in Inst, ConfigFails(k) PROVE Signals'
  BY <1>15 DEF ConfigFails, MasterEnds, Report, shell, Types, Shape, Signals, MasterLives
<1>16. ASSUME NEW k \in Inst, Crash(k) PROVE Signals'
  BY <1>16 DEF Crash, MasterEnds, Report, MasterLives, shell, Types, Shape, Signals
<1>17. CASE UNCHANGED vars
  BY <1>17 DEF vars, Types, Shape, Signals, MasterLives
<1>. QED
  BY <1>1, <1>2, <1>3, <1>4, <1>5, <1>6, <1>7, <1>8, <1>9, <1>10, <1>11, <1>12, <1>13,
       <1>14, <1>15, <1>16, <1>17 DEF Next, Script, Process

\* What runs stays within the script's reach.
LEMMA NamedStep ==
  ASSUME Types, Shape, Signals, Named, [Next]_vars
  PROVE  Named'
PROOF
<1>. USE BoundAssumption DEF Inst
<1>1. CASE Start
  BY <1>1 DEF Start, Lives, DaemonLives, MasterLives, threads, Types, Shape, Signals,
       Named, Runs
<1>2. CASE WritePid
  BY <1>2 DEF WritePid, threads, Types, Shape, Signals, Named, Runs, DaemonLives,
       MasterLives
<1>3. CASE WritePidFails
  BY <1>3 DEF WritePidFails, SignalDaemon, MasterLives, threads, Types, Shape, Signals,
       Named, Runs, DaemonLives
<1>4. CASE Stop
  BY <1>4 DEF Stop, SignalDaemon, MasterLives, threads, Types, Shape, Signals, Named,
       Runs, DaemonLives
<1>5. ASSUME NEW k \in Inst, DaemonFork(k) PROVE Named'
  BY <1>5 DEF DaemonFork, threads, shell, Types, Shape, Signals, Named, Runs,
       DaemonLives, MasterLives
<1>6. ASSUME NEW k \in Inst, DaemonMask(k) PROVE Named'
  BY <1>6 DEF DaemonMask, threads, shell, Types, Shape, Signals, Named, Runs,
       DaemonLives, MasterLives
<1>7. ASSUME NEW k \in Inst, DaemonChild(k) PROVE Named'
  BY <1>7 DEF DaemonChild, threads, shell, Types, Shape, Signals, Named, Runs,
       DaemonLives, MasterLives
<1>8. ASSUME NEW k \in Inst, DaemonStop(k) PROVE Named'
  BY <1>8 DEF DaemonStop, MasterEnds, threads, shell, Types, Shape, Signals, Named, Runs,
       DaemonLives, MasterLives
<1>9. ASSUME NEW k \in Inst, Run(k) PROVE Named'
  BY <1>9 DEF Run, shell, Types, Shape, Signals, Named, Runs, DaemonLives, MasterLives
<1>10. ASSUME NEW k \in Inst, Wait(k) PROVE Named'
  BY <1>10 DEF Wait, threads, shell, Types, Shape, Signals, Named, Runs, DaemonLives,
       MasterLives
<1>11. ASSUME NEW k \in Inst, Bind(k) PROVE Named'
  BY <1>11 DEF Bind, shell, Types, Shape, Signals, Named, Runs, DaemonLives, MasterLives
<1>12. ASSUME NEW k \in Inst, JoinWorker(k) PROVE Named'
  BY <1>12 DEF JoinWorker, shell, Types, Shape, Signals, Named, Runs, DaemonLives,
       MasterLives
<1>13. ASSUME NEW k \in Inst, AcceptorEnds(k) PROVE Named'
  BY <1>13 DEF AcceptorEnds, shell, Types, Shape, Signals, Named, Runs, DaemonLives,
       MasterLives
<1>14. ASSUME NEW k \in Inst, JoinAcceptor(k) PROVE Named'
  BY <1>14 DEF JoinAcceptor, Report, threads, shell, Types, Shape, Signals, Named, Runs,
       DaemonLives, MasterLives
<1>15. ASSUME NEW k \in Inst, ConfigFails(k) PROVE Named'
  BY <1>15 DEF ConfigFails, MasterEnds, Report, shell, Types, Shape, Signals, Named,
       Runs, DaemonLives, MasterLives
<1>16. ASSUME NEW k \in Inst, Crash(k) PROVE Named'
  BY <1>16 DEF Crash, MasterEnds, Report, MasterLives, shell, Types, Shape, Signals,
       Named, Runs, DaemonLives
<1>17. CASE UNCHANGED vars
  BY <1>17 DEF vars, Types, Shape, Signals, Named, Runs, DaemonLives, MasterLives
<1>. QED
  BY <1>1, <1>2, <1>3, <1>4, <1>5, <1>6, <1>7, <1>8, <1>9, <1>10, <1>11, <1>12, <1>13,
       <1>14, <1>15, <1>16, <1>17 DEF Next, Script, Process

\* Only a start makes another instance live.
LEMMA ApartStep ==
  ASSUME Types, Shape, Signals, Apart, [Next]_vars
  PROVE  Apart'
PROOF
<1>. USE BoundAssumption DEF Inst
<1>1. CASE Start
  BY <1>1 DEF Start, Lives, DaemonLives, MasterLives, threads, Types, Shape, Signals, Apart
<1>2. CASE WritePid
  BY <1>2 DEF WritePid, threads, Types, Shape, Signals, Apart, Lives, DaemonLives,
       MasterLives
<1>3. CASE WritePidFails
  BY <1>3 DEF WritePidFails, SignalDaemon, MasterLives, threads, Types, Shape, Signals,
       Apart, Lives, DaemonLives
<1>4. CASE Stop
  BY <1>4 DEF Stop, SignalDaemon, MasterLives, threads, Types, Shape, Signals, Apart,
       Lives, DaemonLives
<1>5. ASSUME NEW k \in Inst, DaemonFork(k) PROVE Apart'
  BY <1>5 DEF DaemonFork, threads, shell, Types, Shape, Signals, Apart, Lives,
       DaemonLives, MasterLives
<1>6. ASSUME NEW k \in Inst, DaemonMask(k) PROVE Apart'
  BY <1>6 DEF DaemonMask, threads, shell, Types, Shape, Signals, Apart, Lives,
       DaemonLives, MasterLives
<1>7. ASSUME NEW k \in Inst, DaemonChild(k) PROVE Apart'
  BY <1>7 DEF DaemonChild, threads, shell, Types, Shape, Signals, Apart, Lives,
       DaemonLives, MasterLives
<1>8. ASSUME NEW k \in Inst, DaemonStop(k) PROVE Apart'
  BY <1>8 DEF DaemonStop, MasterEnds, threads, shell, Types, Shape, Signals, Apart,
       Lives, DaemonLives, MasterLives
<1>9. ASSUME NEW k \in Inst, Run(k) PROVE Apart'
  BY <1>9 DEF Run, shell, Types, Shape, Signals, Apart, Lives, DaemonLives, MasterLives
<1>10. ASSUME NEW k \in Inst, Wait(k) PROVE Apart'
  BY <1>10 DEF Wait, threads, shell, Types, Shape, Signals, Apart, Lives, DaemonLives,
       MasterLives
<1>11. ASSUME NEW k \in Inst, Bind(k) PROVE Apart'
  BY <1>11 DEF Bind, shell, Types, Shape, Signals, Apart, Lives, DaemonLives, MasterLives
<1>12. ASSUME NEW k \in Inst, JoinWorker(k) PROVE Apart'
  BY <1>12 DEF JoinWorker, shell, Types, Shape, Signals, Apart, Lives, DaemonLives,
       MasterLives
<1>13. ASSUME NEW k \in Inst, AcceptorEnds(k) PROVE Apart'
  BY <1>13 DEF AcceptorEnds, shell, Types, Shape, Signals, Apart, Lives, DaemonLives,
       MasterLives
<1>14. ASSUME NEW k \in Inst, JoinAcceptor(k) PROVE Apart'
  BY <1>14 DEF JoinAcceptor, Report, threads, shell, Types, Shape, Signals, Apart, Lives,
       DaemonLives, MasterLives
<1>15. ASSUME NEW k \in Inst, ConfigFails(k) PROVE Apart'
  BY <1>15 DEF ConfigFails, MasterEnds, Report, shell, Types, Shape, Signals, Apart,
       Lives, DaemonLives, MasterLives
<1>16. ASSUME NEW k \in Inst, Crash(k) PROVE Apart'
  BY <1>16 DEF Crash, MasterEnds, Report, MasterLives, shell, Types, Shape, Signals,
       Apart, Lives, DaemonLives
<1>17. CASE UNCHANGED vars
  BY <1>17 DEF vars, Types, Shape, Signals, Apart, Lives, DaemonLives, MasterLives
<1>. QED
  BY <1>1, <1>2, <1>3, <1>4, <1>5, <1>6, <1>7, <1>8, <1>9, <1>10, <1>11, <1>12, <1>13,
       <1>14, <1>15, <1>16, <1>17 DEF Next, Script, Process

\* A bind that fails finds another instance alive.
LEMMA DeafStep ==
  ASSUME Types, Shape, Port, Apart, DeafExplained, [Next]_vars
  PROVE  DeafExplained'
PROOF
<1>. USE BoundAssumption DEF Inst
<1>1. CASE Start
  BY <1>1 DEF Start, Lives, DaemonLives, MasterLives, threads, Types, Shape, Port, Apart,
       DeafExplained
<1>2. CASE WritePid
  BY <1>2 DEF WritePid, threads, Types, Shape, Port, Apart, DeafExplained, Lives,
       DaemonLives, MasterLives
<1>3. CASE WritePidFails
  BY <1>3 DEF WritePidFails, SignalDaemon, MasterLives, threads, Types, Shape, Port,
       Apart, DeafExplained, Lives, DaemonLives
<1>4. CASE Stop
  BY <1>4 DEF Stop, SignalDaemon, MasterLives, threads, Types, Shape, Port, Apart,
       DeafExplained, Lives, DaemonLives
<1>5. ASSUME NEW k \in Inst, DaemonFork(k) PROVE DeafExplained'
  BY <1>5 DEF DaemonFork, threads, shell, Types, Shape, Port, Apart, DeafExplained,
       Lives, DaemonLives, MasterLives
<1>6. ASSUME NEW k \in Inst, DaemonMask(k) PROVE DeafExplained'
  BY <1>6 DEF DaemonMask, threads, shell, Types, Shape, Port, Apart, DeafExplained,
       Lives, DaemonLives, MasterLives
<1>7. ASSUME NEW k \in Inst, DaemonChild(k) PROVE DeafExplained'
  BY <1>7 DEF DaemonChild, threads, shell, Types, Shape, Port, Apart, DeafExplained,
       Lives, DaemonLives, MasterLives
<1>8. ASSUME NEW k \in Inst, DaemonStop(k) PROVE DeafExplained'
  BY <1>8 DEF DaemonStop, MasterEnds, threads, shell, Types, Shape, Port, Apart,
       DeafExplained, Lives, DaemonLives, MasterLives
<1>9. ASSUME NEW k \in Inst, Run(k) PROVE DeafExplained'
  BY <1>9 DEF Run, shell, Types, Shape, Port, Apart, DeafExplained, Lives, DaemonLives,
       MasterLives
<1>10. ASSUME NEW k \in Inst, Wait(k) PROVE DeafExplained'
  BY <1>10 DEF Wait, threads, shell, Types, Shape, Port, Apart, DeafExplained, Lives,
       DaemonLives, MasterLives
<1>11. ASSUME NEW k \in Inst, Bind(k) PROVE DeafExplained'
  BY <1>11 DEF Bind, shell, Types, Shape, Port, Apart, DeafExplained, Lives, DaemonLives,
       MasterLives
<1>12. ASSUME NEW k \in Inst, JoinWorker(k) PROVE DeafExplained'
  BY <1>12 DEF JoinWorker, shell, Types, Shape, Port, Apart, DeafExplained, Lives,
       DaemonLives, MasterLives
<1>13. ASSUME NEW k \in Inst, AcceptorEnds(k) PROVE DeafExplained'
  BY <1>13 DEF AcceptorEnds, shell, Types, Shape, Port, Apart, DeafExplained, Lives,
       DaemonLives, MasterLives
<1>14. ASSUME NEW k \in Inst, JoinAcceptor(k) PROVE DeafExplained'
  BY <1>14 DEF JoinAcceptor, Report, threads, shell, Types, Shape, Port, Apart,
       DeafExplained, Lives, DaemonLives, MasterLives
<1>15. ASSUME NEW k \in Inst, ConfigFails(k) PROVE DeafExplained'
  BY <1>15 DEF ConfigFails, MasterEnds, Report, shell, Types, Shape, Port, Apart,
       DeafExplained, Lives, DaemonLives, MasterLives
<1>16. ASSUME NEW k \in Inst, Crash(k) PROVE DeafExplained'
  BY <1>16 DEF Crash, MasterEnds, Report, MasterLives, shell, Types, Shape, Port, Apart,
       DeafExplained, Lives, DaemonLives
<1>17. CASE UNCHANGED vars
  BY <1>17 DEF vars, Types, Shape, Port, Apart, DeafExplained, Lives, DaemonLives,
       MasterLives
<1>. QED
  BY <1>1, <1>2, <1>3, <1>4, <1>5, <1>6, <1>7, <1>8, <1>9, <1>10, <1>11, <1>12, <1>13,
       <1>14, <1>15, <1>16, <1>17 DEF Next, Script, Process


\* Every behaviour keeps the inductive invariant.
THEOREM Invariance == Spec => []IInv
PROOF
<1>1. Init => IInv
  BY InitHolds
<1>2. IInv /\ [Next]_vars => IInv'
  BY TypesStep, ShapeStep, PortStep, SignalsStep, NamedStep, ApartStep, DeafStep DEF IInv
<1>. QED
  BY <1>1, <1>2, PTL DEF Spec

\* Every variable keeps its type, and the worker thread has ended only when the
\* master process is past joining it.
THEOREM TypeCorrect == Spec => []TypeOK
PROOF
<1>1. IInv => TypeOK
  BY DEF IInv, Types, Shape, TypeOK, MasterLives
<1>. QED
  BY <1>1, Invariance, PTL

\* A running server is within the reach of the script, but for the two named cases.
THEOREM ServerControllable == Spec => []Controllable
PROOF
<1>1. IInv => Controllable
  BY DEF IInv, Named, Runs, Controllable
<1>. QED
  BY <1>1, Invariance, PTL

\* The daemon process notices the end of its child unless that came before setup_signal.
THEOREM EndNoticed == Spec => []DaemonNoticesEnd
PROOF
<1>1. IInv => DaemonNoticesEnd
  BY DEF IInv, Signals, DaemonNoticesEnd
<1>. QED
  BY <1>1, Invariance, PTL

\* A master process that returns has joined both threads and closed its socket.
THEOREM ThreadsJoined == Spec => []JoinedAtExit
PROOF
<1>1. IInv => JoinedAtExit
  BY DEF IInv, Shape, Port, JoinedAtExit
<1>. QED
  BY <1>1, Invariance, PTL

\* A deaf server was started while another instance lived.
THEOREM DeafOnlyWhenSecond == Spec => []DeafExplained
PROOF
<1>1. IInv => DeafExplained
  BY DEF IInv
<1>. QED
  BY <1>1, Invariance, PTL
=============================================================================

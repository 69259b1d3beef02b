----------------------------- MODULE ServerStop -----------------------------
(***************************************************************************)
(* The processes and threads of modem-daemon (PS/apps/modem-daemon) and    *)
(* how they are started and stopped: the script starts the program and     *)
(* sends SIGUSR1 to the process named by the pid file; the daemon process  *)
(* waits for the end of its child, the master process, or passes SIGUSR1   *)
(* on; the master process starts the server's two threads, waits for the   *)
(* signal, and joins them.  Every start is an instance with a number.      *)
(*                                                                         *)
(* A process that has not blocked SIGUSR1, or whose threads have not, is   *)
(* ended by it; SIGCHLD that is not blocked is discarded.                  *)
(***************************************************************************)
EXTENDS Naturals, FiniteSets

CONSTANTS MaxStarts,   \* bound: starts of the program
          MaxCrashes   \* bound: master processes that crash

ASSUME BoundAssumption == MaxStarts \in Nat /\ MaxCrashes \in Nat

Inst == 1..MaxStarts

VARIABLES
  starts,    \* instances so far
  script,    \* "idle", or "launch" while main of the last instance writes its pid
  pidfile,   \* the instance it names; 0 when there is no file
  daemon,    \* "none", "setup", "forked", "masked", "exit", "killed"
  pending,   \* signals blocked and pending in the daemon process
  master,    \* "none", "config", "running", "waiting", "stop_worker", "stop_master", "exit", "killed"
  worker,    \* worker thread: "none", "run", "end"
  acceptor,  \* master thread: "none", "bind", "accept", "end", "deaf" (bind failed)
  port,      \* the instance that listens, or 0
  crashes,
  ghosts     \* history: what happened to each instance

vars == <<starts, script, pidfile, daemon, pending, master, worker, acceptor, port,
          crashes, ghosts>>

DaemonLives(i) == daemon[i] \in {"setup", "forked", "masked"}
MasterLives(i) == master[i] \notin {"none", "exit", "killed"}
Lives(i) == DaemonLives(i) \/ MasterLives(i)

Init ==
  /\ starts = 0 /\ script = "idle" /\ pidfile = 0
  /\ daemon = [i \in Inst |-> "none"] /\ pending = [i \in Inst |-> {}]
  /\ master = [i \in Inst |-> "none"]
  /\ worker = [i \in Inst |-> "none"] /\ acceptor = [i \in Inst |-> "none"]
  /\ port = 0 /\ crashes = 0
  /\ ghosts = [i \in Inst |-> {}]

shell == <<starts, script, pidfile>>
threads == <<worker, acceptor, port>>
-----------------------------------------------------------------------------
(***************************************************************************)
(* Signals.                                                                *)
(***************************************************************************)
\* kill(i's daemon process, SIGUSR1).
SignalDaemon(i) ==
  /\ daemon' = IF daemon[i] \in {"setup", "forked"}
               THEN [daemon EXCEPT ![i] = "killed"] ELSE daemon
  /\ pending' = IF daemon[i] = "masked"
                THEN [pending EXCEPT ![i] = @ \cup {"USR1"}] ELSE pending
  /\ ghosts' = [ghosts EXCEPT ![i] =
       @ \cup {"stop"}
         \cup (IF daemon[i] = "forked" /\ MasterLives(i) THEN {"orphaned"} ELSE {})]

\* The end of i's master process: the daemon is told, and the threads and
\* the listening socket are gone.
MasterEnds(i, how) ==
  /\ master' = [master EXCEPT ![i] = how]
  /\ worker' = [worker EXCEPT ![i] = IF @ = "run" THEN "end" ELSE @]
  /\ acceptor' = [acceptor EXCEPT ![i] = IF @ \in {"bind", "accept"} THEN "end" ELSE @]
  /\ port' = IF port = i THEN 0 ELSE port

\* SIGCHLD to i's daemon process.
Report(i) ==
  /\ pending' = IF daemon[i] = "masked"
                THEN [pending EXCEPT ![i] = @ \cup {"CHLD"}] ELSE pending
  /\ ghosts' = IF daemon[i] = "forked"
               THEN [ghosts EXCEPT ![i] = @ \cup {"missed"}] ELSE ghosts
-----------------------------------------------------------------------------
(***************************************************************************)
(* The script modem-daemon and main.                                       *)
(***************************************************************************)
\* start: main forks the daemon process.  Nobody looks for an earlier instance.
Start ==
  /\ script = "idle" /\ starts < MaxStarts
  /\ starts' = starts + 1
  /\ script' = "launch"
  /\ daemon' = [daemon EXCEPT ![starts + 1] = "setup"]
  /\ ghosts' = IF \E i \in Inst : Lives(i)
               THEN [i \in Inst |-> IF Lives(i) \/ i = starts + 1
                                    THEN ghosts[i] \cup {"second"} ELSE ghosts[i]]
               ELSE ghosts
  /\ UNCHANGED <<pidfile, pending, master, threads, crashes>>

\* main writes the pid file, over the name of an earlier instance if there is one.
WritePid ==
  /\ script = "launch"
  /\ script' = "idle" /\ pidfile' = starts
  /\ ghosts' = [i \in Inst |-> IF i = pidfile THEN ghosts[i] \cup {"replaced"} ELSE ghosts[i]]
  /\ UNCHANGED <<starts, daemon, pending, master, threads, crashes>>

\* Mutant: main gives up without telling the daemon process.
WritePidFails_Silent ==
  /\ script = "launch"
  /\ script' = "idle"
  /\ UNCHANGED <<starts, pidfile, daemon, pending, master, threads, crashes, ghosts>>

\* The file cannot be opened: the daemon process is told to end.
WritePidFails ==
  /\ script = "launch"
  /\ script' = "idle"
  /\ SignalDaemon(starts)
  /\ UNCHANGED <<starts, pidfile, master, threads, crashes>>

\* stop: SIGUSR1 to the process in the pid file, which is removed.
Stop ==
  /\ script = "idle" /\ pidfile # 0
  /\ SignalDaemon(pidfile)
  /\ pidfile' = 0
  /\ UNCHANGED <<starts, script, master, threads, crashes>>
-----------------------------------------------------------------------------
(***************************************************************************)
(* The daemon process.                                                     *)
(***************************************************************************)
\* setsid, chdir, and the fork of the master process, which may fail.
DaemonFork(i) ==
  /\ daemon[i] = "setup"
  /\ \/ daemon' = [daemon EXCEPT ![i] = "forked"] /\ master' = [master EXCEPT ![i] = "config"]
     \/ daemon' = [daemon EXCEPT ![i] = "exit"] /\ UNCHANGED master
  /\ UNCHANGED <<shell, pending, threads, crashes, ghosts>>

\* setup_signal: from here on SIGUSR1 and SIGCHLD wait for sigwaitinfo.
DaemonMask(i) ==
  /\ daemon[i] = "forked"
  /\ daemon' = [daemon EXCEPT ![i] = "masked"]
  /\ UNCHANGED <<shell, pending, master, threads, crashes, ghosts>>

DaemonChild(i) ==
  /\ daemon[i] = "masked" /\ "CHLD" \in pending[i]
  /\ daemon' = [daemon EXCEPT ![i] = "exit"]
  /\ UNCHANGED <<shell, pending, master, threads, crashes, ghosts>>

\* Mutant: the daemon process ends without passing the signal on.
DaemonStop_NotPassed(i) ==
  /\ daemon[i] = "masked" /\ "USR1" \in pending[i]
  /\ daemon' = [daemon EXCEPT ![i] = "exit"]
  /\ UNCHANGED <<shell, pending, master, threads, crashes, ghosts>>

\* SIGUSR1 is passed on.  The master process takes it if it waits for it;
\* before that the signal ends it, also after setup_signal, since the threads
\* were started with the signal unblocked.
DaemonStop(i) ==
  /\ daemon[i] = "masked" /\ "USR1" \in pending[i]
  /\ daemon' = [daemon EXCEPT ![i] = "exit"]
  /\ \/ /\ master[i] = "waiting"
        /\ master' = [master EXCEPT ![i] = "stop_worker"] /\ UNCHANGED threads
     \/ master[i] \in {"config", "running"} /\ MasterEnds(i, "killed")
     \/ master[i] \notin {"config", "running", "waiting"} /\ UNCHANGED <<master, threads>>
  /\ UNCHANGED <<shell, pending, crashes, ghosts>>
-----------------------------------------------------------------------------
(***************************************************************************)
(* The master process and its threads.                                     *)
(***************************************************************************)
\* The configuration cannot be read or names an unknown type of server.
ConfigFails(i) ==
  /\ master[i] = "config"
  /\ MasterEnds(i, "exit") /\ Report(i)
  /\ UNCHANGED <<shell, daemon, crashes>>

\* tcp_server_async::run.
Run(i) ==
  /\ master[i] = "config"
  /\ master' = [master EXCEPT ![i] = "running"]
  /\ worker' = [worker EXCEPT ![i] = "run"]
  /\ acceptor' = [acceptor EXCEPT ![i] = "bind"]
  /\ UNCHANGED <<shell, daemon, pending, port, crashes, ghosts>>

\* setup_signal and sigwaitinfo.
Wait(i) ==
  /\ master[i] = "running"
  /\ master' = [master EXCEPT ![i] = "waiting"]
  /\ UNCHANGED <<shell, daemon, pending, threads, crashes, ghosts>>

\* master_thread::run: bind and listen; when the port is taken the thread ends.
Bind(i) ==
  /\ acceptor[i] = "bind"
  /\ IF port = 0
     THEN acceptor' = [acceptor EXCEPT ![i] = "accept"] /\ port' = i
     ELSE acceptor' = [acceptor EXCEPT ![i] = "deaf"] /\ UNCHANGED port
  /\ UNCHANGED <<shell, daemon, pending, master, worker, crashes, ghosts>>

\* stop: the worker thread is cancelled; its waits have timeouts, it ends and is joined ...
JoinWorker(i) ==
  /\ master[i] = "stop_worker"
  /\ worker' = [worker EXCEPT ![i] = "end"]
  /\ master' = [master EXCEPT ![i] = "stop_master"]
  /\ UNCHANGED <<shell, daemon, pending, acceptor, port, crashes, ghosts>>

\* Mutant: the thread ends and the listening socket stays open.
AcceptorEnds_Listening(i) ==
  /\ master[i] = "stop_master" /\ acceptor[i] = "accept"
  /\ acceptor' = [acceptor EXCEPT ![i] = "end"]
  /\ UNCHANGED <<shell, daemon, pending, master, worker, port, crashes, ghosts>>

\* ... then the master thread, whose accept does not block; it closes the socket.
AcceptorEnds(i) ==
  /\ master[i] = "stop_master" /\ acceptor[i] = "accept"
  /\ acceptor' = [acceptor EXCEPT ![i] = "end"]
  /\ port' = 0
  /\ UNCHANGED <<shell, daemon, pending, master, worker, crashes, ghosts>>

\* The master thread is joined and the process returns.
JoinAcceptor(i) ==
  /\ master[i] = "stop_master" /\ acceptor[i] \in {"end", "deaf"}
  /\ master' = [master EXCEPT ![i] = "exit"]
  /\ Report(i)
  /\ UNCHANGED <<shell, daemon, threads, crashes>>

\* The master process or one of its threads crashes.
Crash(i) ==
  /\ crashes < MaxCrashes /\ MasterLives(i)
  /\ crashes' = crashes + 1
  /\ MasterEnds(i, "killed") /\ Report(i)
  /\ UNCHANGED <<shell, daemon>>

Script == Start \/ WritePid \/ WritePidFails \/ Stop

Process(i) ==
  \/ DaemonFork(i) \/ DaemonMask(i) \/ DaemonChild(i) \/ DaemonStop(i)
  \/ Run(i) \/ Wait(i) \/ Bind(i) \/ JoinWorker(i) \/ AcceptorEnds(i) \/ JoinAcceptor(i)

Next == Script \/ \E i \in Inst : Process(i) \/ ConfigFails(i) \/ Crash(i)

Spec == Init /\ [][Next]_vars

\* Every process and thread gets to run, and main finishes; nobody has to
\* start or stop anything.
FairSpec ==
  /\ Spec
  /\ WF_vars(WritePid)
  /\ \A i \in Inst : WF_vars(Process(i)) /\ WF_vars(Bind(i))
-----------------------------------------------------------------------------
TypeOK ==
  /\ starts \in 0..MaxStarts /\ script \in {"idle", "launch"} /\ pidfile \in 0..starts
  /\ daemon \in [Inst -> {"none", "setup", "forked", "masked", "exit", "killed"}]
  /\ pending \in [Inst -> SUBSET {"USR1", "CHLD"}]
  /\ master \in [Inst -> {"none", "config", "running", "waiting", "stop_worker",
                          "stop_master", "exit", "killed"}]
  /\ worker \in [Inst -> {"none", "run", "end"}]
  /\ acceptor \in [Inst -> {"none", "bind", "accept", "end", "deaf"}]
  /\ port \in 0..starts /\ crashes \in 0..MaxCrashes
  /\ ghosts \in [Inst -> SUBSET {"stop", "orphaned", "missed", "second", "replaced"}]
  /\ \A i \in Inst : MasterLives(i) => worker[i] # "end" \/ master[i] = "stop_master"

\* A server that runs and is not stopping can be stopped by the script, or is
\* about to be: its daemon process is there to pass the signal on, and the pid
\* file names it.  Except when the signal came between the fork of the master
\* process and setup_signal, or when a second start wrote its name over it.
Controllable ==
  \A i \in Inst :
    MasterLives(i) /\ master[i] \notin {"stop_worker", "stop_master"}
      /\ ghosts[i] \cap {"orphaned", "replaced"} = {}
    => /\ DaemonLives(i)
       /\ pidfile = i \/ (script = "launch" /\ starts = i) \/ "USR1" \in pending[i]

\* The daemon process never waits for a master process that is gone, unless
\* that ended before setup_signal.
DaemonNoticesEnd ==
  \A i \in Inst :
    daemon[i] = "masked" /\ master[i] \in {"exit", "killed"} /\ "missed" \notin ghosts[i]
    => "CHLD" \in pending[i]

\* A master process that returns leaves no thread running and no socket open.
JoinedAtExit ==
  \A i \in Inst : master[i] = "exit" =>
    worker[i] # "run" /\ acceptor[i] \notin {"bind", "accept"} /\ port # i

\* A server runs without accepting only if the program was started before
\* every process of an earlier start had ended, as "restart" does.
DeafExplained == \A i \in Inst : acceptor[i] = "deaf" => "second" \in ghosts[i]

\* A stop ends all processes of the instance, unless it came between the fork
\* of the master process and setup_signal.
StopEnds ==
  \A i \in Inst : "stop" \in ghosts[i] ~> ~Lives(i) \/ "orphaned" \in ghosts[i]
=============================================================================

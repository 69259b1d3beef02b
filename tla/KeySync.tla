------------------------------ MODULE KeySync ------------------------------
(***************************************************************************)
(* ks-daemon on the two modems of a link.  At every connection the master  *)
(* generates a set of keys into a working file, copies it with scp into    *)
(* the key file of the slave and then into its own; both install their key *)
(* file when they see the link go down.  After a power-up the parent       *)
(* process of the daemon installs the key file before the startup script   *)
(* starts the modem.                                                       *)
(*                                                                         *)
(* A key value is the number of the set it was generated with.  A file is  *)
(* what ReadFrom finds in it: the first line of each key, or None.  The    *)
(* working file is in the ramdisk, the key files are in flash.  Link, ping *)
(* and scp are external: the modems connect only with equal keys.          *)
(***************************************************************************)
EXTENDS Integers

CONSTANTS NKeys,      \* keys of a set
          Factory,    \* the sets (or None) the modems may be delivered with
          MaxGen,     \* bound: number of the last set generated (1 is the delivered one)
          MaxDrops,   \* bound: link losses with equal keys
          MaxCycles   \* bound: power cycles of each modem

None == 0
DELIVERED == 1

ASSUME KeySyncAssumption ==
  /\ NKeys \in Nat \ {0} /\ Factory \subseteq {None, DELIVERED} /\ Factory # {}
  /\ MaxGen \in Nat \ {0} /\ MaxDrops \in Nat /\ MaxCycles \in Nat

VARIABLES
  st,     \* st[x]: state of the daemon (child process) on x
  inst,   \* inst[x]: the key it installs next, in state INSTALL
  boot,   \* boot[x]: the key the parent installs next; then script, running
  file,   \* file[x]: the key file
  src,    \* the working file of the master
  hw,     \* hw[x]: the keys in the registers of the modem
  up,     \* up[x]: the link_on flag of the driver
  xfer,   \* scp: "idle", or "written" before its success is reported
  gen,    \* number of the last set generated
  drops,  \* links lost with equal keys so far
  cycles, \* cycles[x]: power cycles of x so far
  left    \* left[x]: the keys the installations of x left unwritten (history)

vars == <<st, inst, boot, file, src, hw, up, xfer, gen, drops, cycles, left>>

Sides == {"m", "s"}
Keys == 1..NKeys
KeySet(g) == [k \in Keys |-> g]
NoKeys == KeySet(None)
SCRIPT == NKeys + 1
RUNNING == NKeys + 2

States == {"WAIT_CONNECT", "PING", "CREATE_KEYS", "SEND_KEYS", "SAVE_KEYS", "SAVE_WRITE",
           "WAIT_DISCONNECT", "INSTALL", "DEAD"}

Init ==
  /\ st = [x \in Sides |-> "WAIT_CONNECT"] /\ inst = [x \in Sides |-> 1]
  /\ boot = [x \in Sides |-> 1]
  /\ \E f \in Factory : file = [x \in Sides |-> KeySet(f)]
  /\ src = NoKeys /\ hw = [x \in Sides |-> NoKeys]
  /\ up = [x \in Sides |-> "off"] /\ xfer = "idle"
  /\ gen = DELIVERED /\ drops = 0 /\ cycles = [x \in Sides |-> 0]
  /\ left = [x \in Sides |-> "none"]
-----------------------------------------------------------------------------
(* Power-up: the parent process, then the startup script. *)

\* Mutant: the startup script does not wait for ks-daemon.
Radio_AtOnce(x) == boot[x] > 0

\* The modem runs once the startup script has released its reset.
Radio(x) == boot[x] = RUNNING

\* What an installation that ends at key k leaves unwritten.
LeftAt(x, k) ==
  IF k > 1 \/ left[x] = "some" THEN "some" ELSE IF file[x][1] = None THEN "none" ELSE "all"

\* InstallKeys of the parent: ReadFrom and WriteToHW of one key.  (A register
\* file may fail to open; its store function never fails.)
BootKey(x) ==
  /\ boot[x] \in Keys /\ file[x][boot[x]] # None
  /\ hw' = [hw EXCEPT ![x][boot[x]] = file[x][boot[x]]]
  /\ boot' = [boot EXCEPT ![x] = @ + 1]
  /\ UNCHANGED <<st, inst, file, src, up, xfer, gen, drops, cycles, left>>

\* The key is missing, or its register file cannot be opened: the exception
\* ends InstallKeys, main reports and swallows it, and the script goes on.
BootFails(x) ==
  /\ boot[x] \in Keys
  /\ boot' = [boot EXCEPT ![x] = SCRIPT]
  /\ left' = [left EXCEPT ![x] = LeftAt(x, boot[x])]
  /\ UNCHANGED <<st, inst, file, src, hw, up, xfer, gen, drops, cycles>>

BootScript(x) ==
  /\ boot[x] = SCRIPT
  /\ boot' = [boot EXCEPT ![x] = RUNNING]
  /\ UNCHANGED <<st, inst, file, src, hw, up, xfer, gen, drops, cycles, left>>

\* Power fails and returns: registers, ramdisk and processes are lost.
PowerCycle(x) ==
  /\ cycles[x] < MaxCycles
  /\ cycles' = [cycles EXCEPT ![x] = @ + 1]
  /\ st' = [st EXCEPT ![x] = "WAIT_CONNECT"] /\ inst' = [inst EXCEPT ![x] = 1]
  /\ boot' = [boot EXCEPT ![x] = 1]
  /\ hw' = [hw EXCEPT ![x] = NoKeys] /\ up' = [up EXCEPT ![x] = "off"]
  /\ src' = IF x = "m" THEN NoKeys ELSE src
  /\ xfer' = IF x = "m" THEN "idle" ELSE xfer
  /\ left' = [left EXCEPT ![x] = "none"]
  /\ UNCHANGED <<file, gen, drops>>
-----------------------------------------------------------------------------
(* The link.  A daemon that waits for it polls faster than it can drop. *)

Matched == hw["m"] = hw["s"] /\ Radio("m") /\ Radio("s")

Path == Matched /\ up["m"] = "on" /\ up["s"] = "on"

LinkUp(x) ==
  /\ up[x] = "off" /\ Matched
  /\ up' = [up EXCEPT ![x] = "on"]
  /\ UNCHANGED <<st, inst, boot, file, src, hw, xfer, gen, drops, cycles, left>>

LinkDown(x) ==
  /\ up[x] = "on" /\ st[x] # "WAIT_CONNECT"
  /\ up' = [up EXCEPT ![x] = "off"]
  /\ UNCHANGED <<st, inst, boot, file, src, hw, xfer, gen, cycles, left>>

\* The link is lost although the keys match, or because they do not.
LinkDrop(x) == Matched /\ drops < MaxDrops /\ drops' = drops + 1 /\ LinkDown(x)

LinkLost(x) == ~Matched /\ UNCHANGED drops /\ LinkDown(x)
-----------------------------------------------------------------------------
(* The daemon: Run of both sides. *)

Connected(x) ==
  /\ st[x] = "WAIT_CONNECT" /\ up[x] = "on"
  /\ st' = [st EXCEPT ![x] = IF x = "m" THEN "PING" ELSE "WAIT_DISCONNECT"]
  /\ UNCHANGED <<inst, boot, file, src, hw, up, xfer, gen, drops, cycles, left>>

Disconnected(x) ==
  /\ st[x] = "WAIT_DISCONNECT" /\ up[x] = "off"
  /\ st' = [st EXCEPT ![x] = "INSTALL"]
  /\ inst' = [inst EXCEPT ![x] = 1]
  /\ UNCHANGED <<boot, file, src, hw, up, xfer, gen, drops, cycles, left>>

\* Mutant: the last key of the set is forgotten.
InstallKey_OneShort(x) ==
  /\ st[x] = "INSTALL" /\ file[x][inst[x]] # None
  /\ hw' = [hw EXCEPT ![x][inst[x]] = file[x][inst[x]]]
  /\ left' = IF inst[x] = 1 THEN [left EXCEPT ![x] = "none"] ELSE left
  /\ IF inst[x] < NKeys - 1
       THEN inst' = [inst EXCEPT ![x] = @ + 1] /\ UNCHANGED st
       ELSE st' = [st EXCEPT ![x] = "WAIT_CONNECT"] /\ UNCHANGED inst
  /\ UNCHANGED <<boot, file, src, up, xfer, gen, drops, cycles>>

\* One key is read from the file (opened anew for each key) and written to
\* its register; after the last one the modem is reset, or the register for
\* that cannot be opened and the process is terminated as below.
InstallKey(x) ==
  /\ st[x] = "INSTALL" /\ file[x][inst[x]] # None
  /\ hw' = [hw EXCEPT ![x][inst[x]] = file[x][inst[x]]]
  /\ left' = IF inst[x] = 1 THEN [left EXCEPT ![x] = "none"] ELSE left
  /\ IF inst[x] < NKeys
       THEN inst' = [inst EXCEPT ![x] = @ + 1] /\ UNCHANGED st
       ELSE /\ \E t \in {"WAIT_CONNECT", "DEAD"} : st' = [st EXCEPT ![x] = t]
            /\ UNCHANGED inst
  /\ UNCHANGED <<boot, file, src, up, xfer, gen, drops, cycles>>

\* The key is missing, or its register file cannot be opened: the handler of
\* Run casts the exception to daemonToolExc_c&, which it is not, and the
\* process is terminated.
InstallFails(x) ==
  /\ st[x] = "INSTALL"
  /\ st' = [st EXCEPT ![x] = "DEAD"]
  /\ left' = [left EXCEPT ![x] = LeftAt(x, inst[x])]
  /\ UNCHANGED <<inst, boot, file, src, hw, up, xfer, gen, drops, cycles>>

\* The process ends between two installations: a signal that Run obeys, a
\* failing ioctl, register or save file, or a ping or sshpass killed by a
\* signal, for which exec throws.
Exits(x) ==
  /\ st[x] \notin {"INSTALL", "SAVE_WRITE", "DEAD"}
  /\ st' = [st EXCEPT ![x] = "DEAD"]
  /\ xfer' = IF x = "m" THEN "idle" ELSE xfer
  /\ UNCHANGED <<inst, boot, file, src, hw, up, gen, drops, cycles, left>>
-----------------------------------------------------------------------------
(* The daemon: what only the master does. *)

\* The bound on sets is a peer that stops answering.
Ping ==
  /\ st["m"] = "PING" /\ Path /\ gen < MaxGen
  /\ st' = [st EXCEPT !["m"] = "CREATE_KEYS"]
  /\ UNCHANGED <<inst, boot, file, src, hw, up, xfer, gen, drops, cycles, left>>

\* WriteTo appends: what ReadFrom finds after the first n keys of set g
\* were appended to f.
WriteTo(f, g, n) == [k \in Keys |-> IF k <= n /\ f[k] = None THEN g ELSE f[k]]

CreateKeys ==
  /\ st["m"] = "CREATE_KEYS"
  /\ src' = WriteTo(src, gen + 1, NKeys)
  /\ gen' = gen + 1
  /\ st' = [st EXCEPT !["m"] = "SEND_KEYS"]
  /\ UNCHANGED <<inst, boot, file, hw, up, xfer, drops, cycles, left>>

\* WriteTo fails after n keys; the process is terminated as above.
CreateFails(n) ==
  /\ st["m"] = "CREATE_KEYS"
  /\ src' = WriteTo(src, gen + 1, n)
  /\ gen' = gen + 1
  /\ st' = [st EXCEPT !["m"] = "DEAD"]
  /\ UNCHANGED <<inst, boot, file, hw, up, xfer, drops, cycles, left>>

\* scp replaces the key file of the slave (a single write).  The keys it has
\* installed of the earlier file by then are not written again.
SendWrite ==
  /\ st["m"] = "SEND_KEYS" /\ xfer = "idle" /\ Path
  /\ file' = [file EXCEPT !["s"] = src]
  /\ xfer' = "written"
  /\ left' = IF st["s"] = "INSTALL" /\ inst["s"] > 1 THEN [left EXCEPT !["s"] = "some"] ELSE left
  /\ UNCHANGED <<st, inst, boot, src, hw, up, gen, drops, cycles>>

\* Mutant: the daemon goes on without saving its own copy.
SendOk_NoSave ==
  /\ st["m"] = "SEND_KEYS" /\ xfer = "written" /\ Path
  /\ st' = [st EXCEPT !["m"] = "WAIT_DISCONNECT"]
  /\ xfer' = "idle"
  /\ UNCHANGED <<inst, boot, file, src, hw, up, gen, drops, cycles, left>>

\* scp exits with 0.
SendOk ==
  /\ st["m"] = "SEND_KEYS" /\ xfer = "written" /\ Path
  /\ st' = [st EXCEPT !["m"] = "SAVE_KEYS"]
  /\ xfer' = "idle"
  /\ UNCHANGED <<inst, boot, file, src, hw, up, gen, drops, cycles, left>>

\* scp fails after the file was written: try again.  (A failure before that
\* changes nothing.)
SendFails ==
  /\ st["m"] = "SEND_KEYS" /\ xfer = "written" /\ ~Path
  /\ xfer' = "idle"
  /\ UNCHANGED <<st, inst, boot, file, src, hw, up, gen, drops, cycles, left>>

\* saveKeysToFile opens the key file with trunc.
SaveTrunc ==
  /\ st["m"] = "SAVE_KEYS"
  /\ file' = [file EXCEPT !["m"] = NoKeys]
  /\ st' = [st EXCEPT !["m"] = "SAVE_WRITE"]
  /\ UNCHANGED <<inst, boot, src, hw, up, xfer, gen, drops, cycles, left>>

\* Mutant: the working file is kept.
SaveWrite_Keeps ==
  /\ st["m"] = "SAVE_WRITE"
  /\ file' = [file EXCEPT !["m"] = src]
  /\ st' = [st EXCEPT !["m"] = "WAIT_DISCONNECT"]
  /\ UNCHANGED <<inst, boot, src, hw, up, xfer, gen, drops, cycles, left>>

\* Mutant: the working file is removed before it is copied.
SaveWrite_RemovedFirst ==
  /\ st["m"] = "SAVE_WRITE"
  /\ src' = NoKeys
  /\ st' = [st EXCEPT !["m"] = "WAIT_DISCONNECT"]
  /\ UNCHANGED <<inst, boot, file, hw, up, xfer, gen, drops, cycles, left>>

\* The rest of saveKeysToFile, and the working file is removed.
SaveWrite ==
  /\ st["m"] = "SAVE_WRITE"
  /\ file' = [file EXCEPT !["m"] = src]
  /\ src' = NoKeys
  /\ st' = [st EXCEPT !["m"] = "WAIT_DISCONNECT"]
  /\ UNCHANGED <<inst, boot, hw, up, xfer, gen, drops, cycles, left>>
-----------------------------------------------------------------------------
Daemon(x) == Connected(x) \/ Disconnected(x) \/ InstallKey(x) \/ InstallFails(x)

Master == Ping \/ CreateKeys \/ SendWrite \/ SendOk \/ SendFails \/ SaveTrunc \/ SaveWrite

Next ==
  \/ \E x \in Sides :
       \/ BootKey(x) \/ BootFails(x) \/ BootScript(x) \/ PowerCycle(x)
       \/ LinkUp(x) \/ LinkDrop(x) \/ LinkLost(x)
       \/ Daemon(x) \/ Exits(x)
  \/ \E n \in 0..(NKeys - 1) : CreateFails(n)
  \/ Master

Spec == Init /\ [][Next]_vars

\* The processes keep running; modems with equal keys find each other, and
\* modems with different keys notice that they do not hear each other.
Fairness ==
  /\ \A x \in Sides :
       /\ WF_vars(BootKey(x) \/ BootFails(x) \/ BootScript(x)) /\ WF_vars(Daemon(x))
       /\ WF_vars(LinkUp(x)) /\ WF_vars(LinkLost(x))
  /\ WF_vars(Master)

FairSpec == Spec /\ Fairness
-----------------------------------------------------------------------------
Whole(h) == \E g \in None..gen : h = KeySet(g)

TypeOK ==
  /\ st \in [Sides -> States] /\ inst \in [Sides -> Keys]
  /\ boot \in [Sides -> 1..RUNNING]
  /\ file \in [Sides -> [Keys -> None..MaxGen]] /\ src \in [Keys -> None..MaxGen]
  /\ hw \in [Sides -> [Keys -> None..MaxGen]]
  /\ up \in [Sides -> {"on", "off"}] /\ xfer \in {"idle", "written"}
  /\ gen \in DELIVERED..MaxGen /\ drops \in 0..MaxDrops /\ cycles \in [Sides -> 0..MaxCycles]
  /\ left \in [Sides -> {"none", "some", "all"}]

\* WriteTo appends and ReadFrom takes the first match, yet what the master
\* sends and saves is the set it has just generated, with no key of an
\* earlier or of an interrupted generation.
SentIsFresh ==
  st["m"] \in {"SEND_KEYS", "SAVE_KEYS", "SAVE_WRITE"} => src = KeySet(gen)

\* Whatever the slave holds for its next installation, the master holds it
\* too, in its key file or in the working file, as long as no power cycle
\* of the master comes in between.
MasterKeepsSet == cycles["m"] = 0 => file["s"] \in {file["m"], src}

\* A modem that runs has the keys of one set, although its key file may be
\* replaced while it is installed (InstallKeys, Run).  It has parts of two
\* only after an installation left out keys when it had written others: a
\* register file could not be opened, or scp overtook the slave.
KeysOfOneSet ==
  /\ Whole(file["m"]) /\ Whole(file["s"])
  /\ \A x \in Sides : Radio(x) /\ st[x] # "INSTALL" => Whole(hw[x]) \/ left[x] = "some"

\* keysender-daemon.cpp:41: the key file is not overwritten while the
\* parent process reads it after a power-up, by the child or by scp.
ParentReadsFirst ==
  [][\A x \in Sides : boot[x] \in Keys => file'[x] = file[x]]_vars

\* What can separate the modems for good.
Diverged ==
  \/ st["m"] = "SEND_KEYS" /\ hw["s"] = src                \* scp's success was not reported
  \/ \E x \in Sides : left[x] # "none"                     \* an installation left keys out
  \/ file["s"] \notin {file["m"], src}                     \* power failed before the save
  \/ \E x \in Sides : st[x] = "DEAD" /\ hw[x] # file["s"]  \* nobody installs the set

\* Keys that differ become equal again by themselves, whatever links are
\* lost and whichever modem is power-cycled, except in the four cases named:
\* there is no fifth way for the modems to lose each other for good.
KeysReconverge == <>[](hw["m"] # hw["s"]) => <>[]Diverged

\* configs/keys/rtk-u/readme:6: the keys are updated at every new connection
\* on both modems (while the daemon of the master runs).
UpdatedOnBoth ==
  \A g \in 2..MaxGen :
     hw["s"] = KeySet(g) ~> hw["m"] = KeySet(g) \/ st["m"] = "DEAD"

\* keysender-daemon.cpp:44-45: all keys are installed before the modem is
\* reset by the startup script.
KeysBeforeReset ==
  [][\A x \in Sides : BootScript(x) => \A k \in Keys : hw[x][k] # None]_vars
=============================================================================

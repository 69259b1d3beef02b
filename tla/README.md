# Verification of the modem-fhss software

A TLA+ model of the software of a frequency-hopping radio modem on a Zynq
(`src/PS`): kernel drivers for the modem in the programmable logic, and the
daemons above them. This file says what the system consists of, which module
models which part, what the model checker and the proof system show about it,
and what is not modelled.

- [1 The system](#1-the-system)
- [2 The modules](#2-the-modules)
- [3 The runs](#3-the-runs)
- [4 The proofs](#4-the-proofs)
- [5 Where the code disagrees with itself](#5-where-the-code-disagrees-with-itself)
- [6 What is not modelled](#6-what-is-not-modelled)
- [7 Plan](#7-plan)

Line numbers below are those of the source files; the table that relates every
definition to its lines is `PROJECT.json`, "map". Paths are relative to
`src/PS`.

## 1 The system

Two modems, a *master* and a *slave*, form a radio link. On each of them:

```
   clients (TCP)        stack of Linux            ks-daemon  <-- scp -->  ks-daemon
        |                    |                        |                  (other modem)
  modem-daemon           mfhssnet driver              |
        |                    |                        |
  mfhssdrv driver            |                        |
        +---------- registers, DMA, interrupts -------+
                             |
                  modem in the programmable logic
```

### 1.1 mfhssnet, the network driver (`modules/mfhssnet`)

*State.* The resources `mfhssnet_probe` acquires (device, statistics, packet pool,
directories of register files, register window, interface) and those
`mfhss_open` acquires (two DMA buffers, three interrupt lines); the transmit queue of the stack; `priv->skb`, the one buffer the driver
remembers while it is transmitted; the counters; the packet pool
(`pool_list`, under a spinlock) and the list `rx_pkts_list` (under none);
the registers.

*Operations.* `mfhssnet_probe`/`_remove`, `mfhss_setup`, `mfhss_open`,
`mfhss_close`, `mfhss_tx_pkt`, `irq_tx_handler`, `mfhss_tx_timeout`,
`irq_rx_handler`, the tasklet `rx_pkt`, `irq_link_on_handler`, `mfhss_ioctl`,
`show`/`store` of each register in sysfs.

*What is hard.* The stack, the watchdog, three interrupts and a tasklet run
concurrently on two cores. A watchdog that fires before a late completion
leaves two frames to one remembered buffer. The receive list is shared between
an interrupt and a tasklet that it preempts. `mfhss_open` has five acquisitions
and a fall-through ladder that must undo exactly the earlier ones, probe and
remove have another with ten stages. Register files are visible, and the stack may
open the interface, before the probe has ended. The link handler reads,
changes and writes back a register that the hardware sets meanwhile; all
calls on a register file share one memory cell; `mfhss_open` and `mfhss_close` write
registers that are files too, and a file enables the link interrupt.

*Correct when* each resource is held once while open and never while down;
each buffer is freed once; a stopped queue runs again; each packet is in one
place; each frame is passed on once or counted as dropped; a failed probe and a
removal leave nothing behind; nothing absent is used; `link_on` is the state of the
link; a register holds what the driver or a program wrote to it last.

### 1.2 The block transport of modem-daemon (`apps/modem-daemon/*/transport`)

*State.* Per automaton: a state, error counters per kind of error, a stopwatch,
a mask of delivered packets; the receiver's list of packets.

*Operations.* `operator()` of `modemSender_c` and `modemReceiver_c` is polled;
each call runs the branch of the current state. `error()` counts and repeats or
resets.

*What is hard.* RTS, ACK and DATA may be lost, damaged or late; both sides have
timeouts of different length, so an ACK may belong to an earlier round or an
earlier block.

*Correct when* a block is put out whole, once, and reported as acknowledged
only when it was; neither automaton hangs.

### 1.3 The server of modem-daemon (`apps/modem-daemon`)

*State.* A master thread with the listening socket; a queue with a mutex; the
worker thread with a selector, **one** receive buffer and block size for all
connections, the block on its way to the modem with a static offset, the block
from the modem in pieces and the last whole one.

*Operations.* `master_thread::run` accepts and pushes; `worker_thread::run`
loops over: drain the queue, wait 10 ms for events, `data_receive` (with
`data_process` for each block), `write_modem`, `listen_modem`.

*What is hard.* TCP delivers any segmentation; clients close in the middle of a
block; the modem takes a block in pieces or times out; received blocks are
delimited by silence only.

*Correct when* each connection's stream is cut into the blocks it was made of;
the modem gets accepted blocks byte for byte; a received block reaches one
client once; nothing complete is left unprocessed.

*Process tree* (`daemon`, `daemon_process`, `master_process`,
`tcp_server_async`, `raii_thread`, `scripts/modem-daemon`). The script starts
the program and sends SIGUSR1 to the process the pid file names; `main` forks
the daemon process and writes the file; the daemon process forks the master
process, blocks SIGUSR1 and SIGCHLD and waits for one of them; the master process
starts the two threads, waits for SIGUSR1 and joins them. *Hard:* every signal
may come before the process has blocked it; the two threads look at their
cancellation tokens in turns, between polls of a non-blocking socket and of the selector; a restart does not wait for the end of the earlier server. *Correct when* a stop
ends everything, the end of a server is noticed, and a running server accepts.

Around it: configuration, logs, `modem_conf` (a table of commands to
registers) and Python wrappers.

### 1.4 ks-daemon, the key exchange (`apps/ks-daemon`)

*State.* Per modem: the state of `daemonTool_c::Run`, the key file in flash,
the keys in the registers; on the master also a working file in the ramdisk.

*Operations.* Connected → ping → create keys → scp to the slave → save own copy
→ wait for the link to go down → install. The parent process installs the key
file at start, before the startup script releases the modem's reset.

*What is hard.* A chain of external programs over a link that works only while
both sides have equal keys; power failures between any two steps; files that
are read by one process while another replaces them.

*Correct when* the two modems never end up with different keys for good, no
file or register set mixes two generations, and the modem never starts without
keys.

### 1.5 mfhssdrv, the character driver (`modules/mfhssdrv`)

*State.* `is_open`, `tx_interrupt` and `rx_interrupt`, bit fields of one word;
two wait queues, two DMA buffers, two interrupt lines.

*Operations.* `open` (one program at a time, requests the two lines), `read`
(waits up to 1 ms for a reception and copies it), `write` (starts a frame and waits up
to 2 s for its completion), `release`, and the two handlers.

*What is hard.* Everybody modifies the flag word without a lock; a frame whose write timed
out may still be on the air when the next one is started; `open` may fail
between its two requests, and the request it leaves makes the handler run twice for
every later reception.

*Correct when* one program has the device, a device nobody has can be opened,
written frames go out whole and in order, and a received frame is read once.

### 1.6 The rest

The older `modules/modem-fhss-mod` (same block as mfhssdrv),
`modules/modem-capture-mod` and `apps/capture-daemon` (signal
capture), `apps/regparser`, the vendored AD9361 library, scripts, bitstreams and
build recipes. See section 6.

### 1.7 How the parts interact

| from | to | by |
|---|---|---|
| Linux stack | mfhssnet | `ndo_*` calls, transmit lock, queue on/off |
| modem hardware | mfhssnet, mfhssdrv | interrupts tx, rx, link |
| modem-daemon worker | mfhssdrv | `read` (≤ 1 ms) and `write` (≤ 2 s) |
| master thread | worker thread | mutex-protected queue |
| programs | mfhssnet | show and store of register files; ioctl makes directories |
| script | daemon process, master process | SIGUSR1, SIGCHLD, pid file |
| ks-daemon | mfhssnet | ioctl: `link_on`, key registers |
| ks-daemon master | ks-daemon slave | the slave's key file, replaced by scp |
| ks-daemon parent | its child, startup script | fork; exit code; order in `S99startup` |

## 2 The modules

### MfhssNetTx: open, transmit, watchdog, close

One action per handler, and a second one where another core can act in
between: `TxStop`/`TxFire` (the queue is stopped before `priv->skb` is written
and the frame started), `IrqTx`/`IrqAck` (the buffer is freed before the
interrupt is acknowledged and the queue woken), `CloseStop`/`CloseOff`/
`CloseFree`. `OpenFails(i)` is `mfhss_open` failing at its i-th acquisition and
unwinding through `mfhss_close_from(UnwindStage[i])`; the stages are those of
the C enumeration, and what a stage releases is computed the way the
fall-through `switch` does.

A buffer has no content. `skb` says who owns the one that `priv->skb` points
to; `dfree`, `leaks` and `aborts` are history counters of what happened to the
others. The hardware is `HwDone`, which completes a started frame at any time
or never. A frame started while another is in transmission is queued by the
block or replaces it: both are allowed (`TxFire`).

### PacketPool and MfhssNetRx: receive

`PacketPool` says what the receive path promises: a packet goes round
free → queued → busy → free, one at a time is busy, and packets may be lost
only while the tasklet has one in its hands. `MfhssNetRx` implements it.

`rx_pkts_list` has no lock, so it is modelled as what it is: `next` and `prev`
links of the kernel's list. `list_del` is two steps, its loads (`DelLoad`) and
its stores (`DelStore`); the interrupt may preempt the tasklet at each of them.
A tasklet runs on the core that scheduled it and the interrupt is bound to one
core, so the interrupt runs whole with respect to the tasklet and the tasklet
never runs twice at a time. The pool has a spinlock and is a sequence.
`list_for_each_safe` is the pair of cursors `p`, `tmp`: `tmp` is the packet
looked up before the body of the loop and may be stale when it is used.

### ResourceLadder and MfhssProbe: probe, remove

`ResourceLadder` says what a driver owes its resources: each is taken once,
when all it needs is held, and given back once, when nothing held needs it.
`MfhssProbe` implements it. `step` is the next step of `mfhssnet_probe` or the
stage of `mfhss_cleanup`; every acquisition may fail and then goes to the stage
`CleanStage` names. `Remove` is `mfhssnet_remove`, `MakeDir` the ioctl that makes
a directory while the device is bound. Users enter a register file
(`FileEnter`), touch its register (`FileTouch`) and leave; `clean_dir` empties a
directory only when nobody is inside, as `kobject_del` waits. The stack opens
the interface as soon as it is registered, the rx interrupt may come as soon as it is open, and
the tasklet it schedules is one of three things: unscheduled, scheduled, or
initialised again while scheduled. `fault` records the first use of something that is
not there; what the kernel does then is not modelled. Packets are counted only;
their lists are in `MfhssNetRx`.

### MfhssRegs: link flag and register files

A register is a set of bits. The status register latches `on` and `off`, and the
level-triggered interrupt is asserted while a latched bit is enabled in LINK IR
(`Asserted`), which is a register file like the status register itself. `IrqRaise`
is the kernel's call of the handler, `IrqRead` and `IrqWrite` are the two halves of
`irq_link_on_handler`; `LinkEvent`, and a program that writes the status register, may come
between any two of them.

`mfhss_open` requests the link interrupt (`LinkRequest`) and then writes the
registers under the lock (`LinkOpen`): CE, both interrupt registers and LINK IR.
`mfhss_close` clears the first three and leaves LINK IR (`LinkClose`) before the
interrupt is freed (`LinkFree`); an event that is enabled is handled until then. `Files` stands for the three registers that
are treated alike. The status registers of DMA and MLIP, the DMA addresses, the length
and the start bit, which `mfhss_tx_pkt` and the other handlers write, are no members of `Files`.

A call of `store` parses into the file's cell (`StoreParse`) and writes the cell to
the register later (`StoreWrite`); a text that is no number leaves the cell as it is
(`StoreNoNumber`), so that an old value goes to the register. `show` reads the register
into the same cell (`Show`). Other calls may come in between. The histories are `cause`,
what happened to latched events; `alone`, whether a store was disturbed; and
`last`, what was written to a register last.

### MfhssChardev: the character driver

Each assignment to a bit of the flag word is a load and a store of the whole
word, by a handler or a call. All requests of a line have one `dev_id`, so an
interrupt runs the handler once for each of them: `IrqRx` and `IrqTx` are the
first run, `IrqAgain` the following ones, `todo` says how many are owed, and between two runs
(`"rx_next"`, `"tx_next"`) calls go on; `free_irq` waits for the last (`Serving`). A request
made meanwhile is last in the line and is run as well (`Owed`). A frame is `<<user, number>>`; `hw` holds the frames
started whose completion is outstanding: a second start while the first is on
the air overwrites its buffer, so that the first does not go out whole. A wait
ends with its event, its timeout or a signal. `ghosts` records what the properties make
an exception for; after two modifications of the word overlapped (`"raced"`)
only opens and closes are followed. A dropped reception is an *overrun*; `"again"` is a run
of the rx handler that signals a reception which was read since the run before.

### ServerStop: processes and signals

Each start is an instance with a number, so that a restart while the earlier
instance still runs is in the model. A signal that is not blocked ends the process, or
is discarded in the case of SIGCHLD; one that is blocked stays pending. `main`,
daemon process, master process and both threads have one action for each call
after which another may act; configuration, `fork`, the pid file and `bind` may
fail, and a master process may crash. The listening socket is non-blocking
(`tcp_connection_creator.cpp:101`): the master thread polls it every 10 ms, finds its token
cancelled and ends, which is the action `AcceptorEnds`. The
synchronous server type is a stub in the source and left out.

### ModemTransport (with MCModemTransport)

One action per branch of the two `operator()`. A packet is a record with the
fields the other side looks at; a damaged one is a record that says which check
of the receiver it fails. Each direction of the channel keeps its order; a
packet is lost (`Lose`), damaged (`Spoil`) or arrives after at most `MaxDelay`
ticks. `Tick` is the only action that moves the stopwatches and waits until
every station has done what it can do: the automata are polled at least once a
tick. The receiver's `std::list::sort` is `Sorted`: a packet comes to the place
that the number of packets before it (`Before`) gives it. `stranded` records
that the sender gave up a block (`SFails`) while the receiver was still asking
for it.

The stations' I/O functions are empty in the source, so the channel is
external. One tick is 500 ms: the code's 5000 and 1500 ms are `S_WAIT = 10` and
`R_WAIT = 3`.

### KeySync

Both daemons with one action per state of `Run`. A key value is the number of
the set it was generated with, and a file is what `ReadFrom` finds in it:
for each key the first matching line. `WriteTo` *appends*, so `WriteTo(f, g, n)`
leaves what was there before in front. The parent's installation
(`BootKey`), the startup script (`BootScript`) and `PowerCycle` are actions of
their own; installing is one action per key, as each key opens the file anew.
scp is two steps: the slave's file is replaced, and later the exit code is
seen, which needs the link again.

Any key may be the one at which an installation stops, because it is missing or
because its register file cannot be opened (`keygen.hpp:147-165`; the store behind an open
file never fails): the registers then hold new keys up to there and older ones
after. In the parent the exception ends `InstallKeys`, `main` swallows it and the
script starts the modem (`BootFails`); in the daemon the handler's cast throws
and the process is terminated (`InstallFails`). After the last key `hw->Reset` may
fail in the same way (`InstallKey`). `Exits` is every end of a daemon
between two installations: SIGTERM, SIGQUIT and SIGUSR1, a failing ioctl, register or
save file, a killed ping or sshpass. `left[x]` is a history: whether the last installations on `x` left
*some* keys unwritten while they wrote others, left *all*, or *none*.

Assumptions, each from the code or its deployment: the root file system is a
ramdisk and the key files are in flash (jffs2), so a power cycle loses the
working file and keeps the key files; a key file is 175 bytes, so that scp and
`saveKeysToFile` write it with one `write`; modems connect only with equal keys;
a daemon that waits for the link polls it faster than the link can drop;
`keygen_en` is true; which side is master does not change; writes to flash
succeed.

### WorkerThread (with MCWorkerThread)

The loop of the worker, with one action for one read of a connection, one block
cut from the buffer, one `write` and one `read` of the driver. A byte is
`<<source, block, position>>`: a property can say that the *same* bytes that
made up a block are still together, while the code sees only the header. A
header that the code reads from the first two bytes of one and the same block
has that block's size; a header the code reads from anywhere else may have any
size in `Garbage` and any type.

Assumptions: clients send well-formed blocks of at least three bytes; `write`
takes everything up to `DMA` bytes or, after its timeout, nothing
(`mfhssdrv.c:466-488`; that a timed-out frame may still leave is in
`MfhssChardev`); a socket is drained in one step, as `data_receive`
reads until there is no more, and what was read in the same drain as the end of
the stream is thrown away, as in the code.

One constant states a *regime*, because outside it the code does not keep the
promise (section 5, item 6): `Exclusive = 1` means that nobody sends while
another client is in the middle of a block. Silence, on the other hand, may come
anywhere: `stale` records how many bytes, one or two, the last silence left in
`block_from_modem` because `listen_modem` clears only longer pieces.

### Proof modules

`MfhssNet_proofs` (about `MfhssNetTx` and `MfhssRegs`), `MfhssNetRx_proofs`,
`MfhssProbe_proofs`, `MfhssChardev_proofs`, `ServerStop_proofs`,
`ModemTransport_proofs`, `KeySync_proofs` and `WorkerThread_proofs`, see section
4. Because one module proves about both, the specification of `MfhssRegs` has
names of its own (`RegInit`, `RegNext`, `RegSpec`, `RegTypeOK`).

## 3 The runs

Every passing run ends with the complete state space. Deadlock is checked except
where the system may really stop: in `net_rx`, `key_sync`, `probe` and `server_stop` the
bounded environment (frames, key sets, probes, starts) is exhausted and the system stops for
want of work; in `chardev` the device may stay marked open for ever after an
open that failed half way.

| run | cfg | bounds | states | shows |
|---|---|---|---|---|
| net_tx | MfhssNetTx.cfg | 4 frames, 3 opens | 10988 | `OpenReleasesAll`, `OwnedExactly`, `FramesInFlight`, `QueueNeverStuck` |
| net_tx_late | MfhssNetTx_late.cfg | 2 frames, 1 open | - | *violation* of `FreedOnce` |
| net_rx | MfhssNetRx.cfg | 3 packets, 5 frames | 35613 | `NoAlias`, `Accounted`, `RxDrains`, `ImplementsPool` |
| probe | MfhssProbe.cfg | pool of 2, 2 probes, 3 interrupts | 149361 | `Balanced`, `NoPacketLeft`, `FaultsExplained`, `ImplementsLadder`, `Completes` |
| regs | MfhssRegs.cfg | 2 programs; the status register, LINK IR and one of `Files`; value 0 stored, any shown | 1208054 | `LinkFlagRight`, `LastStoreHolds`, `EventsHandled` |
| chardev | MfhssChardev.cfg | 2 programs, one reads and writes; 2 frames, 2 calls of write, 1 open that fails half way | 2374653 | `IrqsBalanced`, `OneUser`, `SentIsOnAir`, `ReadOnce` |
| server_stop | ServerStop.cfg | 2 starts, 1 crash | 9047 | `Controllable`, `DeafExplained`, `StopEnds` |
| transport_fast | Transport_fast.cfg | blocks of 2, 2, 1 packets, 6 faults, delay 1 | 243404 | `DeliveredIntact`, `AckMeansDelivered`, `DeliveredInOrder`, `AutomataReturn` |
| transport_slow | Transport_slow.cfg | same, 1 fault, delay 2 | - | *violation* of `DeliveredIntact` |
| key_sync | KeySync.cfg | 2 keys, 2 new sets, 2 link losses, a power cycle each | 144736 | `SentIsFresh`, `MasterKeepsSet`, `KeysOfOneSet`, `ParentReadsFirst`, `KeysReconverge` |
| worker_clients | WorkerThread.cfg | 2 clients, 2 blocks each, `DMA` 3 | 55113 | `FramesInOrder`, `WireHasBlocks`, `FramesServed` |
| worker_radio | WorkerThread_radio.cfg | 2 blocks on the air, 1 lost byte, 2 requests | 491876 | `TakenOnce`, `SilenceEndsBlock` |

Each module has a type invariant, `TypeOK`. It is a theorem
of each; the runs of `MfhssNetRx`, `ModemTransport` and `WorkerThread` check it too.
`FreeWhenOut` and
`UnreadIsSignalled` of `MfhssChardev` and `DaemonNoticesEnd` and `JoinedAtExit` of
`ServerStop` are stated by theorems only.

Why the bounds are enough for what is asked:

- *net_tx.* A late completion needs a timed-out frame, its successor and that
  one's successor; an abandoned buffer needs a close, a reopen and a frame.
  Four frames and three openings contain both and their combination.
- *net_rx.* The race needs the packet in the tasklet's hands, the one it has
  looked up and one that arrives. Five frames make the pool of three run empty
  and refill it, and let the interrupt land twice inside `list_del`.
- *transport_fast.* `MAX_ERRORS = 3` is the code's. Three faults of one kind
  exhaust it once; five are the fewest that meet the exception of the three
  safety properties (section 5, item 8), six leave one more for the block that follows. The third block, shorter than the
  others, makes an ACK of an earlier block the wrong length; the first two,
  equally long, make it indistinguishable. The delay is the largest for which a
  round trip stays below the receiver's timeout (`2 * MaxDelay <= R_WAIT`).
- *probe.* The second probe meets what the first left behind (a scheduled
  tasklet, packets that are not freed). Three interrupts come before and after
  `tasklet_init` and find a pool of two empty; two packets make a pool that is
  created in part.
- *regs.* A race needs two calls on one file and an event between two halves, and
  a close or an open between the halves of a store. Programs store 0; the other values
  come to cells and registers by the driver's own writes, by `show` and by texts that
  are no number. Only one program uses the status register, to keep the run within its
  time. Nothing else is bounded: links go
  up and down and the interface opens and closes for ever.
- *chardev.* Two overlapping opens, a handler between a load and a
  store, and a write that times out before the next one need two programs and
  two writes. Only one program talks, as only one has the device unless the
  flag word was raced for. One open that fails half way makes every reception run
  the handler twice.
- *server_stop.* A restart is two instances; every window of one start or stop
  is met by the signal of the other.
- *key_sync.* Two keys are enough to tell a whole set from a mixed one and an installation
  that stops at the first key from one that stops later; two new
  sets make an old, an interrupted and a fresh generation.
- *worker_clients.* Blocks of four and three bytes with `DMA = 3` make a block
  need two writes; every segmentation of seven bytes of each client is tried.
- *worker_radio.* Two blocks, with a byte lost and silences at any place, make a
  piece of one or two bytes come before a whole block and after one.

### What the properties say

- `OwnedExactly`: the interrupt never frees an unset `priv->skb`; until the watchdog fires no buffer is freed twice, and only a
  close during a transmission forgets one (it does: `mfhss_close` never frees
  `priv->skb`). `FramesInFlight`: each timeout adds at most one frame to those that share
  the DMA buffer.
- `NoAlias`, `ImplementsPool`: the unlocked list loses packets and never gives one
  to two owners. `Accounted`: a frame goes to the stack once, the counters agree
  with what happened, and packets get lost only by interrupts inside
  `list_del`. `RxDrains`: no packet that can be reached is left on the list.
- `Balanced`, `ImplementsLadder`: whichever step of the probe fails, the cleanup gives
  back what was taken, in an order that never pulls something from under its
  user. `FaultsExplained`: where register files and tasklet use something absent.
  A file is visible before the registers are mapped and still is
  after they are unmapped (`mfhssnet.c:423`), so the faults during probe and cleanup are
  real; the property says there are none while the driver is bound.
  `Completes` is conditioned on a driver that has not met a fault.
- `LinkFlagRight`: one lost event is not for good, and two
  latched together err on the safe side. `EventsHandled`: once link and programs are at
  rest and the interface is open, no enabled event stays latched; a program that
  clears LINK IR switches the events off until the next open. `LastStoreHolds`: a register keeps
  what the driver or a program wrote last, and even a *read* of the
  same file may change what a concurrent store writes.
- `OneUser`, `FreeWhenOut`, `SentIsOnAir`, `UnreadIsSignalled`, `ReadOnce`: each
  names the events that break it; that the list is complete is what the run and the proof show. `ReadOnce` has four: an
  overrun, a signal, a race for the word, and a read between two runs of the rx handler.
- `Controllable`, `DaemonNoticesEnd`, `DeafExplained`: the same for the process
  tree. `JoinedAtExit`, `StopEnds`: a stop joins both threads and ends.
- `AckMeansDelivered`: no ACK of an earlier block or round ends the current one.
  `DeliveredInOrder`: a lost last ACK does not deliver the block again, and no
  block overtakes another. All three until the sender gives up a block that the
  receiver goes on with.
- `KeysReconverge`: if the keys stay different for ever, the system is in one of
  the four situations `Diverged` names: the success of scp was not reported; an installation
  left keys out, because a register file could not be opened or scp overtook it;
  power failed before the save; or a daemon ended with a set nobody installs.
  Each of the four is a hazard of the code; the property
  says that there is no fifth. `KeysOfOneSet`: key files never mix sets, and a modem
  that runs has keys of two sets only after an installation that wrote some keys and left
  others. Both modems are meant, and both ways to install.
- `FramesInOrder`, `FramesServed`: blocks are processed whole, in order, and
  eventually. `SilenceEndsBlock`: a block that arrived whole between two silences is
  offered to the clients; a silence that left one or two bytes in the buffer costs
  the next block and no other, as the buffer is empty after that.

### Fairness

- `MfhssNetTx`: `TxFire` and `IrqAck` (a running function finishes) and
  `TxTimeout` (the watchdog is a kernel timer). **Not** `HwDone`: the block owes
  no interrupt, which is what the watchdog is for.
- `MfhssNetRx`: the tasklet. Interrupts are not fair.
- `MfhssProbe`: probe and cleanup go on once they have begun, and a user inside
  `show` or `store` gets out. Strong fairness for `CleanFile`: `kobject_del` lets nobody
  in while it waits. Nobody has to bind or remove a device.
- `MfhssRegs`: the link interrupt is level-triggered (`hw/dt/pl.dtsi:25`), so an
  enabled event that is latched is handled while the interrupt is requested, and a handler ends. Nobody has to open,
  close, store or end a store.
- `ServerStop`: processes and threads are scheduled, `main` ends. Nobody has
  to start, stop or crash.
- `MfhssChardev` states none: its properties are safety properties.
- `ModemTransport`: both automata are polled, time passes.
- `KeySync`: each process keeps running or ends; modems with equal keys find each other,
  modems with different keys notice that they do not hear each other. Losses of the link with
  equal keys, power cycles and failures are not fair.
- `WorkerThread`: the worker's loop, whose every wait has a timeout. Clients,
  the network and the radio are not fair.

## 4 The proofs

The proofs hold for every value of the constants; TLC checks the same
invariants on the instances above.

**MfhssNet_proofs, transmit path.** Assumption: the bounds are natural numbers.
`TypeCorrect`, `ResourcesBalanced`, `OwnershipWithoutTimeout`, `FlightBound`. The invariants are not inductive alone: that at most
`1 + tx_errors` frames are in flight depends on who may start the next one. The
strengthening counts *permissions*: a running queue, a call that has
passed the stop, a handler that will wake the queue, and the completions that
will raise such a handler. `Budget` says that there are at most
`1 + tx_errors` of them: only opening and the watchdog make one, everything else hands
one on. `Current` says that without a timeout what is in transmission is
the remembered buffer, and `Books` balances buffers given up against closes;
together they give the ownership theorem. `UnwindExact` and
`FailedOpenHoldsNothing` are about the unwinding ladder.

**MfhssNet_proofs, shared registers.** Assumptions: stored values are sets of bits, LINK SR and
LINK IR are not among `Files`, and programs use files that exist.
`RegTypeCorrect`, `LinkFlagFollows`, `LastStoreReached`. `Latched`
says what the status register and the handler's copy hold as long as the history has
no cause for doubt; `Stored` says that the cell of an undisturbed store is the value
on its way.

**MfhssNetRx_proofs.** Assumption: the pool has at least one packet. `TypeCorrect`,
`NeverAliased`, `AllAccounted`, `ReceiveImplementsPool`. What is linked is defined by
a walk along `next`. The proof describes the list differently: a set of
packets is a `Ring` when every link of the set stays in it, and it is `Ordered` when every link
goes one up in some numbering; then the walk meets that set exactly (by
induction over the numbering, with `InductiveSet` in place of an induction over the
list). `list_add` makes a ring with one more packet. `list_del` makes one with one
less when what it loaded is up to date; when an interrupt came between its
loads and its stores it makes one without the packet *and* without those put in
front meanwhile: these are lost, but the rest is still a ring, nothing linked
is in the pool, and the node the tasklet goes on with is linked. `Cursor` says which
of the two cases is at hand; only `hits > 0` allows the second. `Books` counts frames
against the packets outside the pool. For the refinement each step is shown to move the
packets of `PacketPool` or none.

**MfhssProbe_proofs.** Assumption: the pool has at least one packet.
`TypeCorrect`, `ProbeBalanced`, `PacketsFreed`, `FaultsNamed`,
`ProbeImplementsLadder`. The strengthening says for each step of the probe
(`Probing`) and each stage of the cleanup (`Cleared`) what is held there: this is the
table the enumeration of stages encodes, and the fall-through is right because each
stage's row is the previous one without what it released. `Wired`: a directory
somebody is inside is held and, once the driver is bound, has its device.
`Packets` balances the two lists against allocations; `Quiet`: without
an interface the tasklet is at rest unless the device went away while it was pending.
The refinement follows from two lemmas: a step that takes a resource climbs
(`Acquires`) when what it needs is held, one that drops it descends (`Releases`)
when nothing held needs it; the table gives both conditions.

**MfhssChardev_proofs.** Assumption: finitely many programs. `TypeCorrect`,
`RequestsBalanced`, `OneUserAtATime`, `DeviceFreeWhenOut`, `FrameSignalled`,
`WrittenIsOnAir`, `FrameReadOnce`. `Counted` counts the requests of each line by
the programs that made them, `Handlers` says that a line being served owes fewer runs than it has
requests (so that closing waits for them), and `TxRunsOnce` that the tx handler runs once
per interrupt while nothing was raced for, `Sole` that without a race every
copy of the flag word is up to date, `Marked` that a set `is_open` has an owner.
`Received` and `Completion` follow the one signal of a reception and of a write from the hardware
through the handler to the call that takes it. `FrameReadOnce` is an action
property from the same invariant.

**ServerStop_proofs.** Assumption: the bounds are numbers. `TypeCorrect`,
`ServerControllable`, `EndNoticed`, `ThreadsJoined`, `DeafOnlyWhenSecond`. `Shape`
relates the states of the processes and threads of an instance, `Port` says who
listens, `Signals` that the end of a master process is pending, taken or missed,
`Named` extends `Controllable` to a daemon process that has not forked
yet, and `Apart` says that instances alive together know of each other.

**ModemTransport_proofs.** Assumptions: blocks have at least one packet, timeouts
and `MAX_ERRORS` are positive, the bounds are numbers. `TypeCorrect` needs nothing else. `Intact`,
`AckTrue` and `Ordered` have the hypothesis `Timely`: a round trip,
`2 * MaxDelay`, is not longer than `S_WAIT` nor than `R_WAIT`. The code's
values are 10 and 3 ticks; the delay is the radio's, which the code does not
know, so this is a hypothesis of three theorems and not an assumption of the module. Neither half can be
dropped: TLC finds `DeliveredIntact` violated with `R_WAIT < 2 * MaxDelay`
(*transport_slow*) and `AckMeansDelivered` with `S_WAIT < 2 * MaxDelay` (`MaxDelay = 2`,
`S_WAIT = 3`, `MAX_ERRORS = 1`). The number of faults, blocks and packets and
`MAX_ERRORS` are arbitrary.

The packets carry neither a block number nor a round number, so the
argument is about what can be under way at a time. `Safe` is inductive as
long as `stranded` is false:

- `TimeInv`: the first half of a round trip is over `MaxDelay` after a stopwatch
  was started, the whole after twice that. With `Timely` a timeout therefore finds
  both directions empty of what the round brought.
- `RtsInv`, `RoundInv`, `AckInv`: an announcement, the packets of a round or one
  answer are under way, never two of them, except for the first announcement of
  a block. The packets of a round come in order and are new to the
  receiver; an answer is up to date, and asks for nothing exactly when the block was
  put out.
- `ReceiverInv`: the list holds different packets of the sender's block, so that
  the code's test, which only counts them, is right (`AllNumbers`, a pigeonhole
  argument), and sorting the full list gives the block itself (`SortedWhole`).
- `SenderInv`, `DoneInv`, `HistoryInv`: the sender comes back to its idle state
  only with the receiver listening and nothing to read; after a block was
  put out nothing of it is left to arrive.

Lemmas about operators: `Skip` (the loop over delivered packets), `SortedPlaces` and
`SortedWhole` (the sort), `SErrorIs` and `RErrorIs` (the error counters).

**KeySync_proofs.** Assumption: at least one key, and bounds that are numbers.
`TypeCorrect`, `Fresh`, `MasterKeeps`, `RunsWithOneSet`. That what is sent is the fresh set,
although the file is appended to, holds because the working file is empty
whenever a generation starts (`SrcEmpty`), which in turn needs that every way
out of an exchange removes the file, ends the daemon for good, or is a power cycle.
`Copies` says, state by state, where the slave's set is also kept. For
`RunsWithOneSet` the invariant follows an installation key by key: `FilesWhole`,
no file mixes two sets; `Booted(x)` and `Installed(x)`, what the parent process
or the daemon has installed so far is the beginning of the file, unless `left[x]` says
that keys were left; and a file without its first key is empty, so only a register file
that cannot be opened or a file replaced half way makes an installation leave a part
(`SetFacts`, `LeftRight`). A step installs one more key of a modem (`OneMore`), or leaves
what it has alone (`StillKeeps`, `Touches`). `ParentIsAlone`, an
action property, follows from it: every write of a key file needs both modems
up (`WritesAreLate`).

**WorkerThread_proofs.** Assumptions: blocks have at least three bytes, and `AIR` is
no connection. `TypeCorrect`, `WireWhole`, `TakenOnlyOnce`, `SilenceEnds`, and with the
hypothesis `Exclusive = 1` `FramesCut`. The
hypothesis is the regime of section 2: without it the one
buffer of all connections mixes two blocks (section 5, item 6). The code does not enforce
it, so it is a hypothesis of this theorem and not an assumption of the
module. A stream is the concatenation of its blocks, so its bytes are known only through
`FlattenSeq`: `FlattenAppend` and `LayoutExists` give every block its place in it,
`BlocksStep` and `NextBlockOf` say which block is complete at which byte. The invariants:

- `WireInv`: the block being written is the last accepted.
- `OnceInv`: a byte of the air is in one place only, on its way, in one of the two
  buffers, or in one block that was taken; so two taken blocks cannot be equal.
- `BurstInv`: the buffer is what the last silence left there, at most two bytes
  (`stale`), and what was read since.
- `QueueInv` and `AloneInv`: the connections `epoll` reports are open and have
  something to read, and while a block of one is half sent or half read everything of the others was read
  and ends with a whole block.
- `FramesInv`: the buffer is what was read of *one* connection after its last
  processed block, shorter than a block outside of the loop that cuts it, and its
  size field is that of its first byte's block. With nothing in the buffer
  every connection stands between two blocks.

**Only model-checked.** Liveness properties (`QueueNeverStuck`, `RxDrains`,
`Completes`, `EventsHandled`, `StopEnds`, `AutomataReturn`, `KeysReconverge`, `FramesServed`), as the prover does not
reason about fairness. Every other invariant and action property of
a passing run is a theorem.

## 5 Where the code disagrees with itself

Two runs end in a violation. Each is quoted with its lines in `PROJECT.json`,
"findings".

1. *net_tx_late.* `mfhss_tx_timeout` wakes the queue and leaves the frame and
   its buffer alone. The next frame overwrites `priv->skb`, and the late
   interrupt frees the new frame's buffer, which its own interrupt frees again.
2. *transport_slow.* With a round trip longer than the receiver's timeout, a
   repeated packet is counted as a new one and a block is put out with one
   packet twice and one missing.

Others are seen by changing a configuration, with the definitions that are in the
modules:

3. `MfhssNetRx`, `POOL_SIZE = 2`, `MaxRx = 5`, `PROPERTY DropOnlyWhenBusy`. An
   interrupt between the loads and the stores of `list_del` makes packets
   unreachable for good (`mfhssnet.c:354`); the driver drops frames although no
   packet is in use. (`NoAlias` holds in spite of it: packets are lost and never shared.)
4. `KeySync`, `NKeys = 2`, `Factory = {1}`, `MaxGen = 2`, `MaxDrops = 1`,
   `MaxCycles = 0`, `PROPERTY UpdatedOnBoth`. The link drops after scp
   replaced the slave's file and before scp reported it
   (`daemon-tool.cpp:364`): the slave installs the new keys, the master stays
   with the old ones, and the modems never meet again, though
   `configs/keys/rtk-u/readme:6` promises an update on both at each connection.
5. The same with `MaxCycles = 1` and `PROPERTY KeysBeforeReset`. Whatever ends
   `InstallKeys`, the modem is started all the same, against the comment at
   `keysender-daemon.cpp:44`: a register file that cannot be opened, or a file that a power
   failure between the truncation and the write of the only key file
   (`daemon-tool.cpp:175`) left without keys.
6. `WorkerThread.cfg` with `Exclusive = 0`, `INVARIANT FramesInOrder`. One
   receive buffer for all connections (`worker_thread.h:138`) puts parts of
   two clients' blocks together.
7. `WorkerThread_radio.cfg` with `SilenceEndsBlock` without its exception for `stale`. `listen_modem`
   clears the pieces after three seconds of silence only when they make three
   bytes or more (`worker_thread.cpp:62-80`); a shorter piece stays and
   spoils the next block, although it was received whole.
8. `Transport_fast.cfg` with `DeliveredIntact` without its premise `~stranded`.
   Three damaged ACKs over two announcements make the sender give up a block while the
   receiver is in `RECEIVE_DATA` (`modem-sender.cpp:142-157`). An idle sender reads
   nothing, so the receiver's further ACKs wait for the next block; if that has
   the same length, one answers its announcement before the receiver does, its packets
   are sent twice, and with one of them lost the receiver's count is
   reached with a packet twice (`modem-receiver.cpp:130`). Five faults are needed.

The exceptions that the other modules' properties name are behaviour of the same kind:
drop one from the property and TLC shows how it comes about.

- *MfhssProbe:* `pool_create` that fails half way leaks packets, and so does a
  removal with a packet queued; an interrupt before `tasklet_init` lets the
  tasklet run without a device; register files can be read before the registers are
  mapped and after they are unmapped; a failure to allocate the statistics is
  overlooked (`mfhssnet.c:862` tests the wrong pointer).
- *MfhssRegs:* a link event between the handler's read and its write-back is
  lost; a store may write what a concurrent read has just read, and a text that is
  no number writes whatever the file's cell last held.
- *MfhssChardev:* an open whose second request fails keeps the first line. After
  the next open the handler runs twice for a reception, so that a frame read in between is
  signalled and read again; and
  the handler that is left may write an old `is_open` back, after which the
  device stays busy for ever; a late completion ends the next write at once.
- *KeySync:* a register file that cannot be opened at the second key or later leaves the
  modem with keys of two sets, in the parent without anybody noticing
  (`keysender-daemon.cpp:51-54`).
- *ServerStop:* a stop between the fork of the master process and `setup_signal`
  kills the daemon process and leaves the server without anybody to stop it;
  an end of the server in that window is never noticed; `restart` starts a server
  that cannot bind and runs on deaf.

## 6 What is not modelled

- *Data.* Frame contents and lengths, register values (except keys and those of `MfhssRegs`), message
  texts, the shape of files, random numbers.
- *Hardware.* The modem and its DMA are the steps `HwDone`, the interrupts, and
  what `read` and `write` return.
- *mfhssnet:* `IOMAKEFILE` (the attributes `create_file` allocates are never
  freed), `IOCHECK` (one read of `link_on`), `mfhss_config` and `mfhss_change_mtu`,
  whose fields nobody uses; lengths, among them the packet buffer of 1500 bytes for
  frames of up to 1514 (`mfhssnet.h:55`).
- *mfhssdrv:* probe and remove, whose ladder frees its memory a second time
  (`mfhssdrv.c:352`, `769`), and sysfs and ioctl, which repeat mfhssnet's.
- *modem-fhss-mod:* an older driver of the same block that differs from `MfhssChardev` in
  separate flag words and an open counter. `modem-capture-mod` is sequential.
- *ks-daemon:* a restart of the daemon alone,
  `keygen_en = false`, a full flash; the generator of random keys.
- *modem-daemon:* CONFIG commands (a table, without state),
  a failing `send`, blocks with a size below three (on 0 the loop of
  `data_receive` does not advance), configuration and logs (straight-line I/O).
- *regparser, AD9361, capture-daemon, scripts, build files:* sequential, vendored
  or no program.

## 7 Plan

Done: the order in which the modules were written was transmit and receive
path, transport, key exchange, worker; then probe, link flag and register files,
character driver, process tree; proofs of every safety property of all of these.

Left, in this order:

1. `MfhssChardev` composed with `write_modem`, to replace the assumption of
   `WorkerThread` on what `write` returns; `MfhssRegs` composed with the polling of
   `KeySync`.
2. `capture-daemon`, whose process tree resembles `ServerStop` with a process per
   connection.
3. The key generator's shuffle as an operator checked against "is a
   permutation"; lengths of frames against the packet buffer.
4. The transport over a channel that may also reorder or repeat packets, when the
   stations' I/O functions, today empty, say which channel it is.

---------------------------- MODULE MfhssChardev ----------------------------
(***************************************************************************)
(* The character driver of the modem (PS/modules/mfhssdrv/mfhssdrv.c):     *)
(* open, read, write and release called by users, beside the rx and tx     *)
(* interrupts on the other core.                                           *)
(*                                                                         *)
(* is_open, tx_interrupt and rx_interrupt are bit fields of one word that  *)
(* everybody modifies without a lock, so each assignment to one of them is *)
(* a load of the word and a store.  A line runs its interrupt handler once *)
(* for every request of it, one after the other: all requests have one     *)
(* dev_id, so each run takes the event for its own.  A frame is a number;  *)
(* what is kept of the transmit buffer is which frames went on the air     *)
(* whole.                                                                  *)
(***************************************************************************)
EXTENDS Integers, Sequences, FiniteSets

CONSTANTS Users,      \* the programs that open and close /dev/mfhss0
          Talkers,    \* those of them that also read and write
          MaxWrites,  \* bound: frames each user has to send
          MaxTries,   \* bound: calls of write
          MaxHalf     \* bound: opens that fail half way

ASSUME UsersAssumption ==
  /\ IsFiniteSet(Users) /\ Talkers \subseteq Users
  /\ MaxWrites \in Nat /\ MaxTries \in Nat /\ MaxHalf \in Nat

VARIABLES
  word,     \* charpriv->status.flags
  irq,      \* how often the rx and the tx handler are requested
  pc,       \* where each user is; "out" is outside the driver
  reg,      \* the word a user has loaded and not yet stored
  isr,      \* the line being served: "idle"; "rx", "tx" between the handler's
            \* load and its store; "rx_next", "tx_next" between two runs of it
  isrword,  \* the word it has loaded
  todo,     \* the runs of the handler that this interrupt still owes
  dma_sr, mlip_sr,  \* a reception, a completion is signalled
  dst,      \* the receive buffer: "empty", "new" (nobody has read it) or "old"
  hw,       \* frames started whose completion is outstanding
  aired,    \* how many of each user's frames went on the air whole and in order
  next,     \* the next frame each user has to send
  tries, half,
  ghosts    \* history: what happened that some property makes an exception for

vars == <<word, irq, pc, reg, isr, isrword, todo, dma_sr, mlip_sr, dst, hw, aired,
          next, tries, half, ghosts>>

Flags == {"is_open", "tx_interrupt", "rx_interrupt"}
Words == [Flags -> 0..1]
Zero == [f \in Flags |-> 0]

Opening == {"tested", "rx_irq", "both_irqs", "open_loaded"}
Loaded == {"open_loaded", "read_loaded", "write_loaded", "release_loaded"}
Inside == {"in", "read", "copied", "read_loaded", "write", "write_loaded"}
Leaving == {"rx_freed", "release_loaded"}
Places == {"out"} \cup Opening \cup Inside \cup Leaving

\* Once the flags were raced for, nothing is promised to reads and writes,
\* and only opens and closes are followed.
Talks(u) == u \in Talkers /\ "raced" \notin ghosts

Goto(u, to) == pc' = [pc EXCEPT ![u] = to]
Kinds == {"raced", "signal", "timeout", "overrun", "swallowed", "again"}

\* "raced": two opens overlapped, or two modified the flag word at a time.
\* After that nothing else is promised, and the rest of the history dropped.
Note(g) == ghosts' = IF "raced" \in ghosts \cup g THEN {"raced"} ELSE ghosts \cup g

Init ==
  /\ word = Zero /\ irq = [rx |-> 0, tx |-> 0]
  /\ pc = [u \in Users |-> "out"] /\ reg = [u \in Users |-> Zero]
  /\ isr = "idle" /\ isrword = Zero /\ todo = 0
  /\ dma_sr = 0 /\ mlip_sr = 0 /\ dst = "empty" /\ hw = <<>> /\ aired = [u \in Users |-> 0]
  /\ next = [u \in Users |-> 1]
  /\ tries = 0 /\ half = 0 /\ ghosts = {}

io == <<dma_sr, mlip_sr, dst, hw, aired>>
handler == <<isr, isrword, todo>>

Serving(line) == isr \in IF line = "rx" THEN {"rx", "rx_next"} ELSE {"tx", "tx_next"}
counts == <<next, tries, half>>
-----------------------------------------------------------------------------
(***************************************************************************)
(* Assigning to a bit field: load the word, store it with one bit changed. *)
(***************************************************************************)
Collides == IF isr \in {"rx", "tx"} THEN {"raced"} ELSE {}

Load(u, from, to) ==
  /\ pc[u] = from
  /\ reg' = [reg EXCEPT ![u] = word]
  /\ Goto(u, to)
  /\ Note(Collides)
  /\ UNCHANGED <<word, irq, handler, io, counts>>

Store(u, from, to, flag, value) ==
  /\ pc[u] = from
  /\ word' = [reg[u] EXCEPT ![flag] = value]
  /\ reg' = [reg EXCEPT ![u] = Zero]
  /\ Goto(u, to)

\* Mutant: mfhssdrv_open does not look whether the device is open.
OpenTest_Blind(u) ==
  /\ pc[u] = "out"
  /\ Goto(u, "tested")
  /\ Note(IF \E v \in Users \ {u} : pc[v] \in Opening THEN {"raced"} ELSE {})
  /\ UNCHANGED <<word, irq, reg, handler, io, counts>>

\* mfhssdrv_open: the test of is_open (a busy device changes nothing).
OpenTest(u) ==
  /\ pc[u] = "out" /\ word["is_open"] = 0
  /\ Goto(u, "tested")
  /\ Note(IF \E v \in Users \ {u} : pc[v] \in Opening THEN {"raced"} ELSE {})
  /\ UNCHANGED <<word, irq, reg, handler, io, counts>>

\* A request comes last in its line and is run by the interrupt being served.
Owed(line) == IF Serving(line) THEN todo + 1 ELSE todo

\* The request of the rx interrupt.
OpenRx(u) ==
  /\ pc[u] = "tested"
  /\ \/ irq' = [irq EXCEPT !.rx = @ + 1] /\ todo' = Owed("rx") /\ Goto(u, "rx_irq")
     \/ UNCHANGED <<irq, todo>> /\ Goto(u, "out")
  /\ UNCHANGED <<word, reg, isr, isrword, io, counts, ghosts>>

\* Mutant: open reports success without the tx interrupt.
OpenTx_Careless(u) ==
  /\ pc[u] = "rx_irq"
  /\ half < MaxHalf
  /\ half' \in {half, half + 1}
  /\ irq' = [irq EXCEPT !.tx = IF half' = half THEN @ + 1 ELSE @]
  /\ todo' = IF half' = half THEN Owed("tx") ELSE todo
  /\ Goto(u, "both_irqs")
  /\ UNCHANGED <<word, reg, isr, isrword, io, next, tries, ghosts>>

\* The request of the tx interrupt; its failure leaves the rx one requested.
OpenTx(u) ==
  /\ pc[u] = "rx_irq"
  /\ \/ /\ irq' = [irq EXCEPT !.tx = @ + 1] /\ todo' = Owed("tx")
        /\ Goto(u, "both_irqs") /\ UNCHANGED half
     \/ /\ half < MaxHalf /\ half' = half + 1
        /\ Goto(u, "out") /\ UNCHANGED <<irq, todo>>
  /\ UNCHANGED <<word, reg, isr, isrword, io, next, tries, ghosts>>

OpenLoad(u) == Load(u, "both_irqs", "open_loaded")

\* is_open = 1 and the return.
OpenStore(u) ==
  /\ Store(u, "open_loaded", "in", "is_open", 1)
  /\ UNCHANGED <<irq, handler, io, counts, ghosts>>
-----------------------------------------------------------------------------
\* mfhssdrv_read starts waiting for at most a millisecond.
Read(u) ==
  /\ pc[u] = "in" /\ Talks(u)
  /\ Goto(u, "read")
  /\ UNCHANGED <<word, irq, reg, handler, io, counts, ghosts>>

\* Nothing came: 0.
ReadTimeout(u) ==
  /\ pc[u] = "read" /\ word["rx_interrupt"] = 0
  /\ Goto(u, "in")
  /\ UNCHANGED <<word, irq, reg, handler, io, counts, ghosts>>

\* The event, or a signal, whose negative result is not zero either: the
\* buffer is copied to the user.
ReadCopy(u) ==
  /\ pc[u] = "read"
  /\ \/ word["rx_interrupt"] = 1 /\ UNCHANGED ghosts
     \/ Note({"signal"})
  /\ dst' = IF dst = "empty" THEN "empty" ELSE "old"
  /\ Goto(u, "copied")
  /\ UNCHANGED <<word, irq, reg, handler, dma_sr, mlip_sr, hw, aired, counts>>

ReadLoad(u) == Load(u, "copied", "read_loaded")

\* Mutant: rx_interrupt is not cleared.
ReadStore_Kept(u) ==
  /\ Store(u, "read_loaded", "in", "rx_interrupt", reg[u]["rx_interrupt"])
  /\ UNCHANGED <<irq, handler, io, counts, ghosts>>

\* rx_interrupt = 0 after the copy: a frame that came in between is not
\* signalled any more.
ReadStore(u) ==
  /\ Store(u, "read_loaded", "in", "rx_interrupt", 0)
  /\ Note(IF dst = "new" THEN {"swallowed"} ELSE {})
  /\ UNCHANGED <<irq, handler, io, counts>>
-----------------------------------------------------------------------------
\* What the start of frame f makes of those in transmission: it is queued
\* behind them, their buffer is overwritten first, or it replaces them.
Started(f) ==
  {Append(hw, f), Append([i \in DOMAIN hw |-> <<hw[i][1], 0>>], f), <<f>>}

\* mfhssdrv_write: copy to the DMA buffer, SL, CR = 1.
Write(u) ==
  /\ pc[u] = "in" /\ Talks(u) /\ next[u] <= MaxWrites /\ tries < MaxTries
  /\ hw' \in Started(<<u, next[u]>>)
  /\ tries' = tries + 1
  /\ Goto(u, "write")
  /\ UNCHANGED <<word, irq, reg, handler, dma_sr, mlip_sr, dst, aired, next, half, ghosts>>

\* Two seconds without tx_interrupt: 0, and the frame is left to itself.
WriteTimeout(u) ==
  /\ pc[u] = "write" /\ word["tx_interrupt"] = 0
  /\ Goto(u, "in")
  /\ Note({"timeout"})
  /\ UNCHANGED <<word, irq, reg, handler, io, counts>>

\* The event, or a signal: write goes on to report the whole count.  It
\* loads the flag word; an interrupt before that could as well come first.
WriteDone(u) ==
  /\ pc[u] = "write"
  /\ reg' = [reg EXCEPT ![u] = word]
  /\ \/ word["tx_interrupt"] = 1 /\ Note(Collides)
     \/ Note({"signal"} \cup Collides)
  /\ Goto(u, "write_loaded")
  /\ UNCHANGED <<word, irq, handler, io, counts>>

\* Mutant: tx_interrupt is not cleared.
WriteStore_Kept(u) ==
  /\ Store(u, "write_loaded", "in", "tx_interrupt", reg[u]["tx_interrupt"])
  /\ next' = [next EXCEPT ![u] = @ + 1]
  /\ UNCHANGED <<irq, handler, io, tries, half, ghosts>>

\* tx_interrupt = 0; the user (write_modem) goes on to the next frame.
WriteStore(u) ==
  /\ Store(u, "write_loaded", "in", "tx_interrupt", 0)
  /\ next' = [next EXCEPT ![u] = @ + 1]
  /\ UNCHANGED <<irq, handler, io, tries, half, ghosts>>
-----------------------------------------------------------------------------
\* mfhssdrv_release: free_irq waits until its line is not being served.
FreeRx(u) ==
  /\ pc[u] = "in" /\ ~Serving("rx")
  /\ irq' = [irq EXCEPT !.rx = @ - 1]
  /\ Goto(u, "rx_freed")
  /\ UNCHANGED <<word, reg, handler, io, counts, ghosts>>

\* ... and the load of the flag word.
FreeTx(u) ==
  /\ pc[u] = "rx_freed" /\ ~Serving("tx")
  /\ irq' = [irq EXCEPT !.tx = @ - 1]
  /\ reg' = [reg EXCEPT ![u] = word]
  /\ Note(Collides)
  /\ Goto(u, "release_loaded")
  /\ UNCHANGED <<word, handler, io, counts>>

ReleaseStore(u) ==
  /\ Store(u, "release_loaded", "out", "is_open", 0)
  /\ UNCHANGED <<irq, handler, io, counts, ghosts>>
-----------------------------------------------------------------------------
\* The modem receives a frame into the buffer and signals it.
RxFrame ==
  /\ dst' = "new"
  /\ dma_sr' = 1
  /\ Note(IF dst = "new" THEN {"overrun"} ELSE {})
  /\ UNCHANGED <<word, irq, pc, reg, handler, mlip_sr, hw, aired, counts>>

\* The modem has sent the oldest frame and signals it.
HwDone ==
  /\ hw # <<>>
  /\ aired' = [u \in Users |->
                IF Head(hw) = <<u, aired[u] + 1>> THEN aired[u] + 1 ELSE aired[u]]
  /\ hw' = Tail(hw)
  /\ mlip_sr' = 1
  /\ UNCHANGED <<word, irq, pc, reg, handler, dma_sr, dst, counts, ghosts>>

Hits == IF \E u \in Users : pc[u] \in Loaded THEN {"raced"} ELSE {}

\* mfhssdrv_irq_rx_handler: DMA SR = 0, then the load of the word.
RxRun == isr' = "rx" /\ isrword' = word /\ dma_sr' = 0 /\ UNCHANGED mlip_sr

\* mfhssdrv_irq_tx_handler: MLIP SR = 0, then the load of the word.
TxRun == isr' = "tx" /\ isrword' = word /\ mlip_sr' = 0 /\ UNCHANGED dma_sr

\* A reception interrupts; every request of the line is owed a run.
IrqRx ==
  /\ isr = "idle" /\ irq.rx > 0 /\ dma_sr = 1
  /\ RxRun /\ todo' = irq.rx - 1
  /\ Note(Hits)
  /\ UNCHANGED <<word, irq, pc, reg, dst, hw, aired, counts>>

\* A completion interrupts.
IrqTx ==
  /\ isr = "idle" /\ irq.tx > 0 /\ mlip_sr = 1
  /\ TxRun /\ todo' = irq.tx - 1
  /\ Note(Hits)
  /\ UNCHANGED <<word, irq, pc, reg, dst, hw, aired, counts>>

\* The next run of the handler in the same interrupt; "again" is history: it
\* signals a reception that was read since the run before.
IrqAgain ==
  /\ \/ /\ isr = "rx_next" /\ RxRun
        /\ Note(Hits \cup IF dst # "new" /\ word["rx_interrupt"] = 0 THEN {"again"} ELSE {})
     \/ isr = "tx_next" /\ TxRun /\ Note(Hits)
  /\ todo' = todo - 1
  /\ UNCHANGED <<word, irq, pc, reg, dst, hw, aired, counts>>

\* The handler's store, which wakes who waits, and its return to the line.
IrqStore ==
  /\ isr \in {"rx", "tx"}
  /\ word' = [isrword EXCEPT ![IF isr = "rx" THEN "rx_interrupt" ELSE "tx_interrupt"] = 1]
  /\ isrword' = Zero
  /\ isr' = IF todo = 0 THEN "idle" ELSE IF isr = "rx" THEN "rx_next" ELSE "tx_next"
  /\ UNCHANGED <<irq, pc, reg, todo, io, counts, ghosts>>

User(u) ==
  \/ OpenTest(u) \/ OpenRx(u) \/ OpenTx(u) \/ OpenLoad(u) \/ OpenStore(u)
  \/ Read(u) \/ ReadTimeout(u) \/ ReadCopy(u) \/ ReadLoad(u) \/ ReadStore(u)
  \/ Write(u) \/ WriteTimeout(u) \/ WriteDone(u) \/ WriteStore(u)
  \/ FreeRx(u) \/ FreeTx(u) \/ ReleaseStore(u)

Handler == IrqRx \/ IrqTx \/ IrqAgain \/ IrqStore

Next == RxFrame \/ HwDone \/ Handler \/ \E u \in Users : User(u)

Spec == Init /\ [][Next]_vars
-----------------------------------------------------------------------------
TypeOK ==
  /\ word \in Words /\ isrword \in Words /\ reg \in [Users -> Words]
  /\ irq \in [rx : Nat, tx : Nat]
  /\ pc \in [Users -> Places]
  /\ isr \in {"idle", "rx", "tx", "rx_next", "tx_next"} /\ todo \in Nat
  /\ dma_sr \in 0..1 /\ mlip_sr \in 0..1 /\ dst \in {"empty", "new", "old"}
  /\ hw \in Seq(Users \X (0..MaxWrites))
  /\ aired \in [Users -> 0..MaxWrites]
  /\ next \in [Users -> 1..(MaxWrites + 1)]
  /\ tries \in 0..MaxTries /\ half \in 0..MaxHalf
  /\ ghosts \subseteq Kinds

HasRx(u) == pc[u] \in (Opening \ {"tested"}) \cup Inside
HasTx(u) == pc[u] \in {"both_irqs", "open_loaded", "rx_freed"} \cup Inside

\* The interrupts are requested once for each user that has the device, and
\* the rx one once more for every open that failed half way.
IrqsBalanced ==
  /\ irq.rx = Cardinality({u \in Users : HasRx(u)}) + half
  /\ irq.tx = Cardinality({u \in Users : HasTx(u)})

\* Two users have the device only if their opens overlapped, or two modified
\* the flag word at a time.
OneUser ==
  "raced" \notin ghosts => Cardinality({u \in Users : pc[u] # "out"}) <= 1

\* A device nobody has can be opened, unless an open that failed half way
\* left a handler that writes an old flag word back.
FreeWhenOut ==
  half = 0 /\ (\A u \in Users : pc[u] = "out") => word["is_open"] = 0

\* The frames that write reported as sent went on the air, whole, once and in
\* order, unless a write timed out, a signal ended its wait, or the flags
\* were raced for.
SentIsOnAir ==
  ghosts \cap {"raced", "timeout", "signal"} = {} =>
    /\ \A u \in Users : aired[u] \in {next[u] - 1, next[u]}
    /\ hw # <<>> => \E u \in Users : hw = <<<<u, aired[u] + 1>>>>

\* read returns a frame once, unless the next one came before it was read, a
\* signal ended a wait, the flags were raced for, or the line ran the handler
\* again after the frame was read.
ReadOnce ==
  [][\A u \in Users :
       pc[u] = "read" /\ pc'[u] = "copied" /\ dst = "old" =>
         ghosts' \cap {"raced", "overrun", "signal", "again"} # {}]_vars

\* A frame nobody has read is signalled or about to be, unless it came
\* between a copy and the clearing of the flag, or the flags were raced for.
UnreadIsSignalled ==
  /\ dst = "new"
  /\ \A u \in Users : pc[u] \notin {"copied", "read_loaded"}
  /\ ghosts \cap {"raced", "swallowed"} = {}
  => dma_sr = 1 \/ isr = "rx" \/ word["rx_interrupt"] = 1
=============================================================================

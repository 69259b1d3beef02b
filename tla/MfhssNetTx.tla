----------------------------- MODULE MfhssNetTx -----------------------------
(***************************************************************************)
(* The transmit half of the mfhss network driver (PS/modules/mfhssnet):    *)
(* mfhss_open, mfhss_tx_pkt, irq_tx_handler, mfhss_tx_timeout and          *)
(* mfhss_close, run by the network stack, the tx interrupt and the tx      *)
(* watchdog on the two cores of the Zynq.                                  *)
(*                                                                         *)
(* A socket buffer (skb) has no content here.  What is kept is who owns    *)
(* the one the driver remembers in priv->skb, and two history counters of  *)
(* what happened to the others.                                            *)
(***************************************************************************)
EXTENDS Integers, Sequences

CONSTANTS MaxTx,    \* bound: frames the stack hands to the driver
          MaxOpen   \* bound: successful mfhss_open calls

ASSUME BoundsAssumption == MaxTx \in Nat /\ MaxOpen \in Nat

VARIABLES
  res,        \* what mfhss_open holds: how often each resource is acquired
  phase,      \* "down" | "up" | "closing" (queue stopped) | "off" (CE = 0)
  queue,      \* the transmit queue: "runs" or "stopped" (netif_stop_queue)
  skb,        \* priv->skb: "null", "held" (owned by the driver) or "freed"
  tx,         \* mfhss_tx_pkt: "idle", or "fire" between the stop and CR = 1
  irq,        \* irq_tx_handler: "idle", or "ack" between the free and SR = 0
  hw,         \* frames started by CR = 1 whose completion is outstanding
  sr,         \* MLIP SR: a completion is signalled
  handed, opens, tx_packets, tx_errors,
  dfree,      \* history: buffers freed once more after they were freed
  leaks,      \* history: buffers forgotten without being freed
  aborts      \* history: closes that found a buffer still in transmission

stats == <<tx_packets, tx_errors>>
ghosts == <<dfree, leaks, aborts>>
vars == <<res, phase, queue, skb, tx, irq, hw, sr, handed, opens, stats, ghosts>>

(***************************************************************************)
(* mfhss_open acquires in this order; the stages of mfhss_close_from fall  *)
(* through from the latest acquisition to the first.                       *)
(***************************************************************************)
Acquired == <<"src", "dst", "irq_rx", "irq_tx", "irq_link">>

Resources == {Acquired[i] : i \in 1..5}

close_stage == [STAGE_FREE_ALL |-> 5, STAGE_UNREG_IRQ_LINK_ON |-> 5,
                STAGE_UNREG_IRQ_TX |-> 4, STAGE_UNREG_IRQ_RX |-> 3,
                STAGE_FREE_DMA_DST |-> 2, STAGE_FREE_DMA_SRC |-> 1,
                RETURN |-> 0]

\* What mfhss_close_from(stage) leaves of the holdings h.
mfhss_close_from(stage, h) ==
  [r \in Resources |->
     h[r] - (IF r \in {Acquired[i] : i \in 1..close_stage[stage]} THEN 1 ELSE 0)]

\* Mutant: the unwinding of a failed rx interrupt request starts a stage late.
UnwindStage_Late ==
  <<"RETURN", "STAGE_FREE_DMA_SRC", "STAGE_FREE_DMA_SRC",
    "STAGE_UNREG_IRQ_RX", "STAGE_UNREG_IRQ_TX">>

\* The stage mfhss_open jumps to when its i-th acquisition fails.
UnwindStage ==
  <<"RETURN", "STAGE_FREE_DMA_SRC", "STAGE_FREE_DMA_DST",
    "STAGE_UNREG_IRQ_RX", "STAGE_UNREG_IRQ_TX">>

\* Holdings after the first n acquisitions of mfhss_open.
Acquire(n) ==
  [r \in Resources |-> res[r] + (IF r \in {Acquired[i] : i \in 1..n} THEN 1 ELSE 0)]

Init ==
  /\ res = [r \in Resources |-> 0]
  /\ phase = "down" /\ queue = "stopped" /\ skb = "null"
  /\ tx = "idle" /\ irq = "idle" /\ hw = 0 /\ sr = 0
  /\ handed = 0 /\ opens = 0 /\ tx_packets = 0 /\ tx_errors = 0
  /\ dfree = 0 /\ leaks = 0 /\ aborts = 0

\* RST 1, 0 brings the MLIP block to its idle state: nothing in
\* transmission, nothing signalled.
ResetMlip == hw' = 0 /\ sr' = 0

\* mfhss_open: the i-th acquisition fails and the earlier ones are undone.
OpenFails(i) ==
  /\ phase = "down"
  /\ res' = mfhss_close_from(UnwindStage[i], Acquire(i - 1))
  /\ UNCHANGED <<phase, queue, skb, tx, irq, hw, sr, handed, opens, stats, ghosts>>

\* mfhss_open: everything acquired, registers written, queue started.
Open ==
  /\ phase = "down"
  /\ opens < MaxOpen
  /\ res' = Acquire(5)
  /\ ResetMlip
  /\ phase' = "up"
  /\ queue' = "runs"
  /\ opens' = opens + 1
  /\ UNCHANGED <<skb, tx, irq, handed, stats, ghosts>>

\* Mutant: mfhss_tx_pkt does not stop the queue.
TxStop_QueueRuns ==
  /\ phase = "up" /\ queue = "runs" /\ tx = "idle"
  /\ handed < MaxTx
  /\ handed' = handed + 1
  /\ tx' = "fire"
  /\ UNCHANGED <<res, phase, queue, skb, irq, hw, sr, opens, stats, ghosts>>

\* mfhss_tx_pkt up to netif_stop_queue.  The stack calls it only while the
\* device is active and the queue runs, one caller at a time.
TxStop ==
  /\ phase = "up" /\ queue = "runs" /\ tx = "idle"
  /\ handed < MaxTx
  /\ handed' = handed + 1
  /\ queue' = "stopped"
  /\ tx' = "fire"
  /\ UNCHANGED <<res, phase, skb, irq, hw, sr, opens, stats, ghosts>>

\* mfhss_tx_pkt from priv->skb = skb to CR = 1.  A frame started while the
\* previous one is in transmission is queued by the block or replaces it.
TxFire ==
  /\ tx = "fire"
  /\ leaks' = IF skb = "held" THEN leaks + 1 ELSE leaks
  /\ skb' = "held"
  /\ hw' \in {hw + 1} \cup (IF hw > 0 THEN {hw} ELSE {})
  /\ tx' = "idle"
  /\ UNCHANGED <<res, phase, queue, irq, sr, handed, opens, stats, dfree, aborts>>

\* The MLIP block finishes a frame.
HwDone ==
  /\ hw > 0
  /\ hw' = hw - 1
  /\ sr' = 1
  /\ UNCHANGED <<res, phase, queue, skb, tx, irq, handed, opens, stats, ghosts>>

\* irq_tx_handler up to dev_kfree_skb_irq.
IrqTx ==
  /\ sr = 1 /\ irq = "idle"
  /\ phase \in {"up", "closing"} /\ res["irq_tx"] = 1
  /\ tx_packets' = tx_packets + 1
  /\ dfree' = IF skb = "freed" THEN dfree + 1 ELSE dfree
  /\ skb' = "freed"
  /\ irq' = "ack"
  /\ UNCHANGED <<res, phase, queue, tx, hw, sr, handed, opens, tx_errors, leaks, aborts>>

\* The rest of irq_tx_handler: SR = 0, netif_wake_queue.
IrqAck ==
  /\ irq = "ack"
  /\ sr' = 0
  /\ queue' = "runs"
  /\ irq' = "idle"
  /\ UNCHANGED <<res, phase, skb, tx, hw, handed, opens, stats, ghosts>>

\* Mutant: mfhss_tx_timeout leaves a block that is still busy alone.
TxTimeout_SparesBusy ==
  /\ phase = "up" /\ queue = "stopped" /\ tx = "idle" /\ hw = 0
  /\ tx_errors' = tx_errors + 1
  /\ queue' = "runs"
  /\ UNCHANGED <<res, phase, skb, tx, irq, hw, sr, handed, opens, tx_packets, ghosts>>

\* mfhss_tx_timeout: the watchdog of the stack found the queue stopped for
\* MFHSS_TX_TIMEOUT_MS.  It runs under the transmit lock, so never inside
\* mfhss_tx_pkt, and only while the device is active.
TxTimeout ==
  /\ phase = "up" /\ queue = "stopped" /\ tx = "idle"
  /\ tx_errors' = tx_errors + 1
  /\ queue' = "runs"
  /\ UNCHANGED <<res, phase, skb, tx, irq, hw, sr, handed, opens, tx_packets, ghosts>>

\* mfhss_close: netif_stop_queue.  The stack has deactivated the device.
CloseStop ==
  /\ phase = "up" /\ tx = "idle"
  /\ queue' = "stopped"
  /\ phase' = "closing"
  /\ UNCHANGED <<res, skb, tx, irq, hw, sr, handed, opens, stats, ghosts>>

\* mfhss_close: CE = 0 stops the block, IR = 0 masks its interrupts.
CloseOff ==
  /\ phase = "closing"
  /\ hw' = 0
  /\ phase' = "off"
  /\ UNCHANGED <<res, queue, skb, tx, irq, sr, handed, opens, stats, ghosts>>

\* mfhss_close: mfhss_close_from(STAGE_FREE_ALL).  free_irq waits for a
\* handler that is running.
CloseFree ==
  /\ phase = "off" /\ irq = "idle"
  /\ res' = mfhss_close_from("STAGE_FREE_ALL", res)
  /\ aborts' = IF skb = "held" THEN aborts + 1 ELSE aborts
  /\ phase' = "down"
  /\ UNCHANGED <<queue, skb, tx, irq, hw, sr, handed, opens, stats, dfree, leaks>>

Next ==
  \/ \E i \in 1..5 : OpenFails(i)
  \/ Open \/ TxStop \/ TxFire \/ HwDone \/ IrqTx \/ IrqAck \/ TxTimeout
  \/ CloseStop \/ CloseOff \/ CloseFree

Spec == Init /\ [][Next]_vars

\* The stack finishes a call it made, a handler that started finishes, and
\* the watchdog timer fires.  The MLIP block owes nobody an interrupt.
Fairness == WF_vars(TxFire) /\ WF_vars(IrqAck) /\ WF_vars(TxTimeout)

FairSpec == Spec /\ Fairness
-----------------------------------------------------------------------------
TypeOK ==
  /\ res \in [Resources -> Int]
  /\ phase \in {"down", "up", "closing", "off"}
  /\ queue \in {"runs", "stopped"} /\ sr \in 0..1
  /\ skb \in {"null", "held", "freed"}
  /\ tx \in {"idle", "fire"} /\ irq \in {"idle", "ack"}
  /\ hw \in Nat /\ handed \in 0..MaxTx /\ opens \in 0..MaxOpen
  /\ tx_packets \in Nat /\ tx_errors \in Nat
  /\ dfree \in Nat /\ leaks \in Nat /\ aborts \in Nat

\* Whatever acquisition of mfhss_open fails, and however often the device
\* is opened and closed, each DMA buffer and interrupt line is held exactly
\* once while the device runs and not at all while it is down.
OpenReleasesAll ==
  \A r \in Resources : res[r] = (IF phase = "down" THEN 0 ELSE 1)

\* The tx interrupt never finds priv->skb unset; as long as the watchdog never
\* fired, no buffer is freed twice, and a buffer is forgotten only by a close
\* that found it in transmission.
OwnedExactly ==
  /\ irq = "idle" /\ sr = 1 /\ phase \in {"up", "closing"} => skb # "null"
  /\ tx_errors = 0 => dfree = 0 /\ leaks <= aborts

\* The single DMA source buffer is shared by at most 1 + tx_errors frames:
\* each timeout adds at most one frame to the ones in transmission, however
\* its late completion interleaves with later transmissions.
FramesInFlight == hw <= 1 + tx_errors

\* Once the queue is stopped it runs again or the device is closed, even if
\* the MLIP block never completes the frame.
QueueNeverStuck == (phase = "up" /\ queue = "stopped") ~> (queue = "runs" \/ phase # "up")

\* mfhssnet.c:658 remembers the buffer in priv->skb so that the interrupt
\* of its frame can free it; then no buffer is freed a second time.
FreedOnce == dfree = 0
=============================================================================

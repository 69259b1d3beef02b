----------------------------- MODULE MfhssNetRx -----------------------------
(***************************************************************************)
(* The receive half of the mfhss network driver: irq_rx_handler takes a    *)
(* packet from the pool and links it into priv->rx_pkts_list, the tasklet  *)
(* (__rx_pkt) walks the list, hands each packet to the stack and returns   *)
(* it to the pool.                                                         *)
(*                                                                         *)
(* The pool is used under its spinlock and is a sequence; rx_pkts_list has *)
(* no lock and is modelled as the kernel's doubly linked list, with the    *)
(* loads and the stores of list_del as separate steps.  Interrupt and      *)
(* tasklet share a core (a tasklet runs where it was scheduled): the       *)
(* interrupt preempts the tasklet between any two steps and runs whole.    *)
(***************************************************************************)
EXTENDS Integers, Sequences, FiniteSets

CONSTANTS POOL_SIZE,  \* packets pool_create makes
          MaxRx       \* bound: rx interrupts

ASSUME PoolAssumption == POOL_SIZE \in Nat \ {0} /\ MaxRx \in Nat

VARIABLES
  pool,      \* pool_list, first element first
  nxt, prv,  \* the list_head links of the packets and of rx_pkts_list
  frame,     \* the received frame each packet carries
  sched,     \* the tasklet is scheduled
  pc,        \* the tasklet: "idle", "build", "del", "relink", "put"
  p, tmp,    \* cursor and lookahead of list_for_each_safe
  dprev, dnext,            \* what list_del loaded
  rxed, rx_packets, rx_dropped,
  passed,    \* history: frames handed to netif_rx, in that order
  starved,   \* history: frames the interrupt found no packet for
  hits       \* history: interrupts between the loads and the stores of list_del

lists == <<pool, nxt, prv>>
cursor == <<p, tmp, dprev, dnext>>
vars == <<lists, frame, sched, pc, cursor, rxed, rx_packets, rx_dropped,
          passed, starved, hits>>

Pkts == 1..POOL_SIZE
HEAD == 0          \* &priv->rx_pkts_list
POISON == -1       \* LIST_POISON1, LIST_POISON2
Nodes == Pkts \cup {HEAD}

Init ==
  /\ pool = [i \in 1..POOL_SIZE |-> POOL_SIZE + 1 - i]
  /\ nxt = [n \in Nodes |-> HEAD] /\ prv = [n \in Nodes |-> HEAD]
  /\ frame = [n \in Pkts |-> 0]
  /\ sched = FALSE /\ pc = "idle"
  /\ p = HEAD /\ tmp = HEAD /\ dprev = HEAD /\ dnext = HEAD
  /\ rxed = 0 /\ rx_packets = 0 /\ rx_dropped = 0
  /\ passed = <<>> /\ starved = {} /\ hits = 0

\* list_add(&pkt->list, &priv->rx_pkts_list)
list_add(n) ==
  /\ nxt' = [nxt EXCEPT ![n] = nxt[HEAD], ![HEAD] = n]
  /\ prv' = [prv EXCEPT ![nxt[HEAD]] = n, ![n] = HEAD]

\* Mutant: the tasklet is scheduled only when it is not running.
IrqRx_NoReschedule ==
  /\ rxed < MaxRx /\ pool # <<>>
  /\ LET pkt == pool[1]
     IN /\ pool' = Tail(pool)
        /\ frame' = [frame EXCEPT ![pkt] = rxed + 1]
        /\ list_add(pkt)
  /\ sched' = (sched \/ pc = "idle")
  /\ rxed' = rxed + 1
  /\ hits' = IF pc = "relink" THEN hits + 1 ELSE hits
  /\ UNCHANGED <<pc, cursor, rx_packets, rx_dropped, passed, starved>>

\* irq_rx_handler with a packet from pool_get.
IrqRx ==
  /\ rxed < MaxRx /\ pool # <<>>
  /\ LET pkt == pool[1]
     IN /\ pool' = Tail(pool)
        /\ frame' = [frame EXCEPT ![pkt] = rxed + 1]
        /\ list_add(pkt)
  /\ sched' = TRUE
  /\ rxed' = rxed + 1
  /\ hits' = IF pc = "relink" THEN hits + 1 ELSE hits
  /\ UNCHANGED <<pc, cursor, rx_packets, rx_dropped, passed, starved>>

\* irq_rx_handler when pool_get returns NULL.
IrqRxDrop ==
  /\ rxed < MaxRx /\ pool = <<>>
  /\ rx_dropped' = rx_dropped + 1
  /\ rxed' = rxed + 1
  /\ starved' = starved \cup {rxed + 1}
  /\ UNCHANGED <<lists, frame, sched, pc, cursor, rx_packets, passed, hits>>

\* The loop of list_for_each_safe arrives at node n.
Visit(n) ==
  /\ p' = n
  /\ tmp' = IF n = HEAD THEN HEAD ELSE nxt[n]
  /\ pc' = IF n = HEAD THEN "idle" ELSE "build"

\* The scheduled tasklet starts a pass over the list.
Run ==
  /\ pc = "idle" /\ sched
  /\ sched' = FALSE
  /\ Visit(nxt[HEAD])
  /\ UNCHANGED <<lists, frame, dprev, dnext, rxed, rx_packets, rx_dropped, passed, starved, hits>>

\* dev_alloc_skb succeeds: the frame goes to the stack.
Build ==
  /\ pc = "build"
  /\ rx_packets' = rx_packets + 1
  /\ passed' = Append(passed, frame[p])
  /\ pc' = "del"
  /\ UNCHANGED <<lists, frame, sched, cursor, rxed, rx_dropped, starved, hits>>

\* Mutant: the drop is counted the wrong way.
BuildFails_CountsDown ==
  /\ pc = "build"
  /\ rx_dropped' = rx_dropped - 1
  /\ pc' = "del"
  /\ UNCHANGED <<lists, frame, sched, cursor, rxed, rx_packets, passed, starved, hits>>

\* Mutant: the drop is not counted.
BuildFails_NotCounted ==
  /\ pc = "build"
  /\ pc' = "del"
  /\ UNCHANGED <<lists, frame, sched, cursor, rxed, rx_packets, rx_dropped, passed, starved, hits>>

\* dev_alloc_skb fails: the frame is dropped.
BuildFails ==
  /\ pc = "build"
  /\ rx_dropped' = rx_dropped + 1
  /\ pc' = "del"
  /\ UNCHANGED <<lists, frame, sched, cursor, rxed, rx_packets, passed, starved, hits>>

\* list_del: the loads of entry->prev and entry->next.
DelLoad ==
  /\ pc = "del"
  /\ dprev' = prv[p] /\ dnext' = nxt[p]
  /\ pc' = "relink"
  /\ UNCHANGED <<lists, frame, sched, p, tmp, rxed, rx_packets, rx_dropped, passed, starved, hits>>

\* Mutant: the packet is returned to the pool without list_del.
DelStore_Missing ==
  /\ pc = "relink"
  /\ pc' = "put"
  /\ UNCHANGED <<lists, frame, sched, cursor, rxed, rx_packets, rx_dropped, passed, starved, hits>>

\* list_del: next->prev = prev, prev->next = next, the entry is poisoned.
DelStore ==
  /\ pc = "relink"
  /\ prv' = [prv EXCEPT ![dnext] = dprev, ![p] = POISON]
  /\ nxt' = [nxt EXCEPT ![dprev] = dnext, ![p] = POISON]
  /\ pc' = "put"
  /\ UNCHANGED <<pool, frame, sched, cursor, rxed, rx_packets, rx_dropped, passed, starved, hits>>

\* Mutant: the packet is unlinked and not returned to the pool.
pool_put_Missing ==
  /\ pc = "put"
  /\ frame' = [frame EXCEPT ![p] = 0]
  /\ Visit(tmp)
  /\ UNCHANGED <<lists, sched, dprev, dnext, rxed, rx_packets, rx_dropped, passed, starved, hits>>

\* pool_put, then the loop goes on to the node it looked up before.
pool_put ==
  /\ pc = "put"
  /\ pool' = <<p>> \o pool
  /\ frame' = [frame EXCEPT ![p] = 0]
  /\ Visit(tmp)
  /\ UNCHANGED <<nxt, prv, sched, dprev, dnext, rxed, rx_packets, rx_dropped, passed, starved, hits>>

Tasklet == Run \/ Build \/ BuildFails \/ DelLoad \/ DelStore \/ pool_put

Next == IrqRx \/ IrqRxDrop \/ Tasklet

Spec == Init /\ [][Next]_vars

\* A scheduled tasklet runs, and a tasklet that runs gets on.
FairSpec == Spec /\ WF_vars(Tasklet)
-----------------------------------------------------------------------------
InPool == {pool[i] : i \in DOMAIN pool}

\* The nodes met by following the links from n to the list head.
From(n) ==
  LET walk[k \in 0..POOL_SIZE] ==
        IF k = 0 THEN n ELSE IF walk[k - 1] \in Pkts THEN nxt[walk[k - 1]] ELSE walk[k - 1]
  IN  {walk[k] : k \in 0..POOL_SIZE} \ {HEAD}

Linked == From(nxt[HEAD])

\* What the tasklet still visits in the pass it is making.

Busy == IF pc = "idle" THEN {} ELSE {p}

Lost == Pkts \ (InPool \cup Linked \cup Busy)

TypeOK ==
  /\ pool \in Seq(Pkts)
  /\ nxt \in [Nodes -> Nodes \cup {POISON}] /\ prv \in [Nodes -> Nodes \cup {POISON}]
  /\ frame \in [Pkts -> 0..MaxRx]
  /\ sched \in BOOLEAN /\ pc \in {"idle", "build", "del", "relink", "put"}
  /\ {p, tmp} \subseteq Nodes /\ {dprev, dnext} \subseteq Nodes \cup {POISON}
  /\ rxed \in 0..MaxRx /\ rx_packets \in Nat /\ rx_dropped \in Nat /\ hits \in Nat
  /\ passed \in Seq(1..MaxRx) /\ starved \subseteq 1..MaxRx

\* Even when the interrupt lands inside list_del, no packet is used twice:
\* what the pool may hand out is not in the receive list, not the packet the
\* tasklet works on and not its cached next one, and no packet is in the
\* pool twice; the list never runs into an unlinked (poisoned) packet.
NoAlias ==
  /\ \A i, j \in DOMAIN pool : pool[i] = pool[j] => i = j
  /\ InPool \cap (Linked \cup Busy) = {}
  /\ pc # "idle" => tmp \notin InPool
  /\ POISON \notin Linked

\* Every frame is accounted for: the stack sees it at most once and never if
\* the interrupt dropped it, and what was received was passed, dropped, or waits in
\* a packet that is not yet counted.  A packet is lost from the pool only
\* by an interrupt between the loads and the stores of list_del.
Accounted ==
  LET waiting == {n \in (Linked \cup Busy) : ~(n \in Busy /\ pc \in {"del", "relink", "put"})}
  IN  /\ \A i, j \in DOMAIN passed : passed[i] = passed[j] => i = j
      /\ \A i \in DOMAIN passed : passed[i] \in 1..rxed \ starved
      /\ rxed = rx_packets + rx_dropped + Cardinality(waiting) + Cardinality(Lost)
      /\ hits = 0 => Lost = {}

\* After the last interrupt the tasklet empties the list.
RxDrains == Linked # {} ~> Linked = {}

\* mfhssnet.c:315 "no free packets available, drop it": a frame is dropped
\* only while all POOL_SIZE packets are waiting for the tasklet.
DropOnlyWhenBusy ==
  [][IrqRxDrop => Cardinality(Linked \cup Busy) = POOL_SIZE]_vars

\* The receive path implements the life cycle of PacketPool.
place == [n \in Pkts |-> CASE n \in Busy -> "busy"
                           [] n \notin Busy /\ n \in InPool -> "free"
                           [] n \notin Busy /\ n \in Linked -> "queued"
                           [] OTHER -> "lost"]
Abs == INSTANCE PacketPool WITH Pkts <- Pkts, place <- place
ImplementsPool == Abs!Spec
=============================================================================

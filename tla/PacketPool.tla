----------------------------- MODULE PacketPool -----------------------------
(***************************************************************************)
(* What the receive path of mfhssnet promises about its packets: each is   *)
(* free, queued for the tasklet, in the tasklet's hands, or lost, and goes *)
(* round free -> queued -> busy -> free.  MfhssNetRx implements it.        *)
(***************************************************************************)
CONSTANT Pkts

VARIABLE place

Init == place = [p \in Pkts |-> "free"]

\* The interrupt takes a free packet and queues it.
Queue(p) ==
  /\ place[p] = "free"
  /\ place' = [place EXCEPT ![p] = "queued"]

\* The tasklet takes a queued packet, at the start of a pass.
Begin(p) ==
  /\ place[p] = "queued" /\ \A q \in Pkts : place[q] # "busy"
  /\ place' = [place EXCEPT ![p] = "busy"]

\* The tasklet returns its packet to the pool and ends the pass, or goes on
\* with the next one.
Put(p) ==
  /\ place[p] = "busy"
  /\ place' = [place EXCEPT ![p] = "free"]

PutAndBegin(p, q) ==
  /\ place[p] = "busy" /\ place[q] = "queued"
  /\ place' = [place EXCEPT ![p] = "free", ![q] = "busy"]

\* Queued packets drop out of the list while the tasklet unlinks its own.
Lose(S) ==
  /\ \E p \in Pkts : place[p] = "busy"
  /\ \A p \in S : place[p] = "queued"
  /\ place' = [p \in Pkts |-> IF p \in S THEN "lost" ELSE place[p]]

Next ==
  \/ \E p \in Pkts : Queue(p) \/ Begin(p) \/ Put(p)
  \/ \E p, q \in Pkts : PutAndBegin(p, q)
  \/ \E S \in SUBSET Pkts : Lose(S)

Spec == Init /\ [][Next]_place
=============================================================================

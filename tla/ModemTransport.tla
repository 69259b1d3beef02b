--------------------------- MODULE ModemTransport ---------------------------
(***************************************************************************)
(* The block transport of modem-daemon: modemSender_c and modemReceiver_c, *)
(* two automata polled by their stations, over a half-reliable radio       *)
(* channel.  The sender announces a block (RTS), the receiver answers with *)
(* the mask of packets it has (ACK), the sender sends the missing ones     *)
(* (DATA), and so on until the mask is full.                               *)
(*                                                                         *)
(* One action is one branch of one call of operator().  Packet payloads    *)
(* are reduced to the block they were cut from and their number.  Time is  *)
(* counted in ticks of TICK_MS; a packet needs at most MaxDelay ticks.     *)
(* sendRTS, sendData, sendACK and receive are stubs in the source, so the  *)
(* channel is external: FIFO per direction, may lose or damage a packet.   *)
(***************************************************************************)
EXTENDS Integers, Sequences, FiniteSets

CONSTANTS
  Totals,     \* Totals[b]: packets block b is cut into (blocks in sending order)
  S_WAIT,     \* modemSender_c::MAX_WAIT_TIME in ticks
  R_WAIT,     \* modemReceiver_c::MAX_WAIT_TIME in ticks
  MAX_ERRORS, \* errors of one kind in a row that reset an automaton
  MaxDelay,   \* ticks a packet may be under way
  MaxFaults   \* bound: packets lost or damaged

ASSUME TransportAssumption ==
  /\ Totals \in Seq(Nat \ {0})
  /\ {S_WAIT, R_WAIT, MAX_ERRORS} \subseteq Nat \ {0}
  /\ {MaxDelay, MaxFaults} \subseteq Nat

VARIABLES
  snd,       \* modemSender_c
  rcv,       \* modemReceiver_c
  toR, toS,  \* the two directions of the channel
  faults,    \* packets lost or damaged so far
  next,      \* the next block the client submits
  sent,      \* outcome per block: "pending", "ok" or "failed" (client told)
  delivered, \* the blocks the receiver put out, each a sequence of packets
  stranded   \* history: a block was given up while the receiver was receiving it

outcome == <<sent, stranded>>
vars == <<snd, rcv, toR, toS, faults, next, outcome, delivered>>

Blocks == 1..Len(Totals)
SErrors == {"INCORRECT_LENGTH", "BAD_FORMAT", "ACK_TIMEOUT"}
RErrors == {"INCORRECT_LENGTH", "BAD_FORMAT", "BAD_TYPE", "TIMEOUT_WAIT_DATA"}
Damage == {"short", "token", "length"}

\* The states after reset(), which are also the ones after construction.
SReset ==
  [state |-> "IDLE", blk |-> 0, total |-> 0, mask |-> {}, idx |-> 0,
   acked |-> FALSE, err |-> [e \in SErrors |-> 0], time |-> 0]

RReset ==
  [state |-> "LISTEN", total |-> 0, mask |-> {}, list |-> <<>>,
   err |-> [e \in RErrors |-> 0], time |-> 0]

Init ==
  /\ snd = SReset /\ rcv = RReset
  /\ toR = <<>> /\ toS = <<>>
  /\ faults = 0 /\ next = 1
  /\ sent = [b \in Blocks |-> "pending"]
  /\ delivered = <<>> /\ stranded = FALSE
-----------------------------------------------------------------------------
(* The channel. *)

Fly(m) == [m |-> m, ttl |-> MaxDelay]

\* The first packet of a direction gets lost, or arrives damaged.
Lose ==
  /\ faults < MaxFaults
  /\ faults' = faults + 1
  /\ \/ toR # <<>> /\ toR' = Tail(toR) /\ UNCHANGED toS
     \/ toS # <<>> /\ toS' = Tail(toS) /\ UNCHANGED toR
  /\ UNCHANGED <<snd, rcv, next, outcome, delivered>>

Spoil ==
  /\ faults < MaxFaults
  /\ faults' = faults + 1
  /\ \E d \in Damage :
       \/ toR # <<>> /\ toR' = [toR EXCEPT ![1].m = [type |-> d]] /\ UNCHANGED toS
       \/ toS # <<>> /\ toS' = [toS EXCEPT ![1].m = [type |-> d]] /\ UNCHANGED toR
  /\ UNCHANGED <<snd, rcv, next, outcome, delivered>>

Age(q) == [i \in DOMAIN q |-> [q[i] EXCEPT !.ttl = IF @ > 0 THEN @ - 1 ELSE 0]]

\* A tick passes once every station that has something to do has done it:
\* the automata are polled at least once a tick.
Tick ==
  /\ snd.state \in {"IDLE", "WAIT_ACK"} /\ rcv.state \in {"LISTEN", "RECEIVE_DATA"}
  /\ snd.state = "WAIT_ACK" => snd.time <= S_WAIT
  /\ rcv.state = "RECEIVE_DATA" => rcv.time <= R_WAIT
  /\ toR # <<>> => toR[1].ttl > 0
  /\ snd.state = "WAIT_ACK" /\ toS # <<>> => toS[1].ttl > 0
  /\ toR' = Age(toR) /\ toS' = Age(toS)
  /\ snd' = IF snd.state = "WAIT_ACK" THEN [snd EXCEPT !.time = @ + 1] ELSE snd
  /\ rcv' = IF rcv.state = "RECEIVE_DATA" THEN [rcv EXCEPT !.time = @ + 1] ELSE rcv
  /\ UNCHANGED <<faults, next, outcome, delivered>>
-----------------------------------------------------------------------------
(* modemSender_c. *)

\* Mutant: the limit of errors is missed.
SError_NoLimit(e) ==
  LET counted == [snd EXCEPT !.err[e] = @ + 1]
  IN  IF ~snd.acked /\ e = "ACK_TIMEOUT"
        THEN [counted EXCEPT !.state = "SEND_RTS"]
        ELSE [counted EXCEPT !.time = 0]

\* Mutant: a timeout repeats the RTS even when it was acknowledged.
SError_AlwaysRTS(e) ==
  LET counted == [snd EXCEPT !.err[e] = @ + 1]
  IN  CASE counted.err[e] = MAX_ERRORS -> SReset
        [] counted.err[e] # MAX_ERRORS /\ e = "ACK_TIMEOUT" ->
             [counted EXCEPT !.state = "SEND_RTS"]
        [] OTHER -> [counted EXCEPT !.time = 0]

\* error(err): the automaton afterwards.
SError(e) ==
  LET counted == [snd EXCEPT !.err[e] = @ + 1]
  IN  CASE counted.err[e] = MAX_ERRORS -> SReset
        [] counted.err[e] # MAX_ERRORS /\ ~snd.acked /\ e = "ACK_TIMEOUT" ->
             [counted EXCEPT !.state = "SEND_RTS"]
        [] OTHER -> [counted EXCEPT !.time = 0]

\* error(err) with the message it leaves to the client.  Giving up a block the
\* receiver is still busy with is remembered: the receiver is not told of it.
SFails(e) ==
  /\ snd' = SError(e)
  /\ IF snd.err[e] + 1 = MAX_ERRORS
       THEN /\ sent' = [sent EXCEPT ![snd.blk] = "failed"]
            /\ stranded' = (stranded \/ rcv.state # "LISTEN")
       ELSE UNCHANGED outcome

\* IDLE: the client has submitted a block.
SIdle ==
  /\ snd.state = "IDLE" /\ next \in Blocks
  /\ snd' = [snd EXCEPT !.state = "SEND_RTS", !.blk = next, !.total = Totals[next]]
  /\ next' = next + 1
  /\ UNCHANGED <<rcv, toR, toS, faults, outcome, delivered>>

SendRTS ==
  /\ snd.state = "SEND_RTS"
  /\ toR' = Append(toR, Fly([type |-> "RTS", total |-> snd.total]))
  /\ snd' = [snd EXCEPT !.state = "WAIT_ACK", !.time = 0]
  /\ UNCHANGED <<rcv, toS, faults, next, outcome, delivered>>

\* The first of the sender's checks a received packet fails, or "none".  The
\* length of an ACK is that of its mask.
SCheck(m) ==
  CASE m.type \in {"short", "length"} -> "INCORRECT_LENGTH"
    [] m.type = "token" -> "BAD_FORMAT"
    [] m.type = "ACK" /\ m.total # snd.total -> "INCORRECT_LENGTH"
    [] OTHER -> "none"

SBadPacket ==
  /\ snd.state = "WAIT_ACK" /\ toS # <<>>
  /\ SCheck(toS[1].m) # "none"
  /\ SFails(SCheck(toS[1].m))
  /\ toS' = Tail(toS)
  /\ UNCHANGED <<rcv, toR, faults, next, delivered>>

\* A valid ACK: send the packets it misses, or finish the block.
SAck ==
  /\ snd.state = "WAIT_ACK" /\ toS # <<>>
  /\ SCheck(toS[1].m) = "none"
  /\ LET ack == toS[1].m
     IN IF ack.need > 0
          THEN /\ snd' = [snd EXCEPT !.state = "SEND_DATA", !.mask = ack.mask,
                            !.acked = TRUE, !.err = SReset.err]
               /\ UNCHANGED outcome
          ELSE /\ snd' = SReset
               /\ sent' = [sent EXCEPT ![snd.blk] = "ok"] /\ UNCHANGED stranded
  /\ toS' = Tail(toS)
  /\ UNCHANGED <<rcv, toR, faults, next, delivered>>

STimeout ==
  /\ snd.state = "WAIT_ACK" /\ snd.time > S_WAIT
  /\ SFails("ACK_TIMEOUT")
  /\ UNCHANGED <<rcv, toR, toS, faults, next, delivered>>

\* The first packet from idx on that the mask misses, or total.
SkipDelivered ==
  CHOOSE i \in snd.idx..snd.total :
    /\ i = snd.total \/ i \notin snd.mask
    /\ \A j \in snd.idx..(i - 1) : j \in snd.mask

SendData ==
  /\ snd.state = "SEND_DATA"
  /\ LET i == SkipDelivered
     IN IF i = snd.total
          THEN /\ snd' = [snd EXCEPT !.idx = 0, !.state = "WAIT_ACK", !.time = 0]
               /\ UNCHANGED toR
          ELSE /\ toR' = Append(toR, Fly([type |-> "DATA", blk |-> snd.blk, number |-> i]))
               /\ snd' = [snd EXCEPT !.idx = i + 1]
  /\ UNCHANGED <<rcv, toS, faults, next, outcome, delivered>>
-----------------------------------------------------------------------------
(* modemReceiver_c. *)

\* Mutant: the limit of errors only returns to LISTEN, without reset().
RError_NoReset(e) ==
  LET counted == [rcv EXCEPT !.err[e] = @ + 1]
  IN  CASE counted.err[e] = MAX_ERRORS -> [rcv EXCEPT !.state = "LISTEN", !.err = RReset.err]
        [] counted.err[e] # MAX_ERRORS /\ e = "TIMEOUT_WAIT_DATA" ->
             [counted EXCEPT !.state = "SEND_ACK"]
        [] OTHER -> [counted EXCEPT !.time = 0]

\* Mutant: an error restarts the stopwatch and is not counted.
RError_NotCounted(e) == [rcv EXCEPT !.time = 0]

\* error(err): the automaton afterwards.
RError(e) ==
  LET counted == [rcv EXCEPT !.err[e] = @ + 1]
  IN  CASE counted.err[e] = MAX_ERRORS -> RReset
        [] counted.err[e] # MAX_ERRORS /\ e = "TIMEOUT_WAIT_DATA" ->
             [counted EXCEPT !.state = "SEND_ACK"]
        [] OTHER -> [counted EXCEPT !.time = 0]

\* LISTEN: anything but an RTS is ignored.
RListen ==
  /\ rcv.state = "LISTEN" /\ toR # <<>>
  /\ LET m == toR[1].m
     IN rcv' = IF m.type = "RTS"
                 THEN [rcv EXCEPT !.total = m.total, !.mask = {}, !.state = "SEND_ACK"]
                 ELSE rcv
  /\ toR' = Tail(toR)
  /\ UNCHANGED <<snd, toS, faults, next, outcome, delivered>>

\* Mutant: the packet just received is counted once more.
Ack_OneLess == [type |-> "ACK", total |-> rcv.total, mask |-> rcv.mask,
                need |-> rcv.total - Len(rcv.list) - 1]

\* sendACK: the packet for the receiver's current mask and list.
Ack == [type |-> "ACK", total |-> rcv.total, mask |-> rcv.mask,
        need |-> rcv.total - Len(rcv.list)]

SendACK ==
  /\ rcv.state = "SEND_ACK"
  /\ toS' = Append(toS, Fly(Ack))
  /\ rcv' = [rcv EXCEPT !.state = "RECEIVE_DATA", !.time = 0]
  /\ UNCHANGED <<snd, toR, faults, next, outcome, delivered>>

RCheck(m) ==
  CASE m.type \in {"short", "length"} -> "INCORRECT_LENGTH"
    [] m.type = "token" -> "BAD_FORMAT"
    [] m.type = "RTS" -> "BAD_TYPE"
    [] OTHER -> "none"

RBadPacket ==
  /\ rcv.state = "RECEIVE_DATA" /\ toR # <<>>
  /\ RCheck(toR[1].m) # "none"
  /\ rcv' = RError(RCheck(toR[1].m))
  /\ toR' = Tail(toR)
  /\ UNCHANGED <<snd, toS, faults, next, outcome, delivered>>

\* A valid DATA packet is marked in the mask and appended to the list; the
\* length of the list decides whether the block is complete.
RData ==
  /\ rcv.state = "RECEIVE_DATA" /\ toR # <<>>
  /\ RCheck(toR[1].m) = "none"
  /\ LET m == toR[1].m
         list == Append(rcv.list, [blk |-> m.blk, number |-> m.number])
     IN rcv' = [rcv EXCEPT
                  !.mask = @ \cup {m.number},
                  !.list = list,
                  !.err = RReset.err,
                  !.state = CASE Len(list) = rcv.total -> "PROCESS_DATA"
                              [] Len(list) # rcv.total /\ m.number = rcv.total - 1 -> "SEND_ACK"
                              [] OTHER -> "RECEIVE_DATA",
                  !.time = 0]
  /\ toR' = Tail(toR)
  /\ UNCHANGED <<snd, toS, faults, next, outcome, delivered>>

RTimeout ==
  /\ rcv.state = "RECEIVE_DATA" /\ rcv.time > R_WAIT
  /\ rcv' = RError("TIMEOUT_WAIT_DATA")
  /\ UNCHANGED <<snd, toR, toS, faults, next, outcome, delivered>>

\* The packets that come before packet i of the list in the stable order of
\* the packet numbers.
Before(list, i) ==
  {j \in DOMAIN list : \/ list[j].number < list[i].number
                       \/ list[j].number = list[i].number /\ j < i}

\* The list in that order: place k has the packet that k - 1 packets come before.
Sorted(list) ==
  [k \in DOMAIN list |-> list[CHOOSE i \in DOMAIN list : Cardinality(Before(list, i)) = k - 1]]

ProcessData ==
  /\ rcv.state = "PROCESS_DATA"
  /\ delivered' = Append(delivered, Sorted(rcv.list))
  /\ toS' = Append(toS, Fly(Ack))
  /\ rcv' = RReset
  /\ UNCHANGED <<snd, toR, faults, next, outcome>>
-----------------------------------------------------------------------------
Sender == SIdle \/ SendRTS \/ SBadPacket \/ SAck \/ STimeout \/ SendData
Receiver == RListen \/ SendACK \/ RBadPacket \/ RData \/ RTimeout \/ ProcessData

Next == Sender \/ Receiver \/ Lose \/ Spoil \/ Tick

Spec == Init /\ [][Next]_vars

\* The stations keep polling their automata and time passes.
Fairness == WF_vars(Sender) /\ WF_vars(Receiver) /\ WF_vars(Tick)

FairSpec == Spec /\ Fairness
-----------------------------------------------------------------------------
Packets == [blk : Blocks, number : Nat]

SenderType ==
  [state : {"IDLE", "SEND_RTS", "WAIT_ACK", "SEND_DATA"},
   blk : 0..Len(Totals), total : Nat, mask : SUBSET Nat, idx : Nat,
   acked : BOOLEAN, err : [SErrors -> 0..(MAX_ERRORS - 1)], time : Nat]

ReceiverType ==
  [state : {"LISTEN", "SEND_ACK", "RECEIVE_DATA", "PROCESS_DATA"},
   total : Nat, mask : SUBSET Nat, list : Seq(Packets),
   err : [RErrors -> 0..(MAX_ERRORS - 1)], time : Nat]

TypeOK ==
  /\ snd \in SenderType /\ rcv \in ReceiverType
  /\ faults \in 0..MaxFaults /\ next \in 1..(Len(Totals) + 1)
  /\ sent \in [Blocks -> {"pending", "ok", "failed"}]
  /\ delivered \in Seq(Seq(Packets)) /\ stranded \in BOOLEAN

\* Packets 0..n-1 of block b in order.
Whole(b) == [i \in 1..Totals[b] |-> [blk |-> b, number |-> i - 1]]

\* "все пакеты приняты" (modem-receiver.cpp:130): a block put out by the
\* receiver is one block of the sender, complete, in order, without a packet
\* of another block and without a packet twice.  The exception: after the
\* sender gave up a block the receiver was still asking for, the ACKs nobody
\* read meanwhile answer the next block and its packets are sent twice.
DeliveredIntact ==
  ~stranded => \A k \in DOMAIN delivered : \E b \in Blocks : delivered[k] = Whole(b)

\* The sender drops a block as acknowledged only if the receiver put that
\* very block out: no ACK of an earlier block or an earlier round ends it
\* (with the same exception).
AckMeansDelivered ==
  ~stranded =>
    \A b \in Blocks : sent[b] = "ok" => \E k \in DOMAIN delivered : delivered[k] = Whole(b)

\* Blocks are put out in the order they were submitted in and at most once,
\* whatever is retransmitted (with the same exception).
DeliveredInOrder ==
  ~stranded =>
    \A j, k \in DOMAIN delivered, b, c \in Blocks :
      j < k /\ delivered[j] = Whole(b) /\ delivered[k] = Whole(c) => b < c

\* Every block the sender takes is acknowledged or reported to the client, and
\* an abandoned reception does not block the receiver, however many packets up
\* to MaxFaults the channel loses or damages.
AutomataReturn ==
  /\ [](snd.state # "IDLE" => <>(snd.state = "IDLE"))
  /\ [](rcv.state # "LISTEN" => <>(rcv.state = "LISTEN"))
=============================================================================

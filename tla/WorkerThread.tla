---------------------------- MODULE WorkerThread ----------------------------
(***************************************************************************)
(* The server of modem-daemon.  The master thread accepts connections and  *)
(* queues them; the worker thread drains the queue, reads the ready        *)
(* connections, cuts what they sent into blocks, and moves blocks to and   *)
(* from the modem.                                                         *)
(*                                                                         *)
(* A byte is <<source, block, position>>.  The first two bytes of a block  *)
(* are its size, the third its type.  A header that is not made of the     *)
(* first two bytes of one block has any size of Garbage, any type: sizes   *)
(* below 3 (on which the code reads out of range, or loops on 0) are not   *)
(* modelled.                                                               *)
(***************************************************************************)
EXTENDS Integers, Sequences, SequencesExt, FiniteSets

CONSTANTS
  Conns,        \* connections
  Stream,       \* Stream[c]: the blocks its client sends, [type, size] records
  AirBlocks,    \* sizes of the blocks the other modem sends
  Garbage,      \* bound: sizes a garbled header may have
  DMA,          \* bytes one write() to the modem takes at most
  MaxLost,      \* bound: bytes lost on the air
  Exclusive     \* 1: while a block of one connection is half sent the others are silent

Types == {"CONFIG", "SEND_TEXT", "DATA_REQ"}

AIR == "air"
FOREIGN == "unknown"

ASSUME WorkerThreadAssumption ==
  /\ AIR \notin Conns
  /\ \A c \in Conns : Stream[c] \in Seq([type : Types, size : Nat \ (0..2)])
  /\ AirBlocks \in Seq(Nat \ (0..2)) /\ Garbage \subseteq Nat \ (0..2) /\ Garbage # {}
  /\ DMA \in Nat \ {0} /\ MaxLost \in Nat /\ Exclusive \in 0..1

VARIABLES
  conn,      \* conn[c]: "none", "queued", "open" (in the selector) or "gone"
  queue,     \* connections on their way from the master to the worker thread
  sent,      \* sent[c]: bytes of c that reached the socket
  eof,       \* eof[c]: 1 when the client has closed
  got,       \* got[c]: bytes of c read by the worker
  pc,        \* where the worker is in its loop
  ready,     \* connections reported by epoll_wait and not yet handled
  cur,       \* the connection whose blocks are being processed
  block_from_client, client_block_size,
  block_to_modem, written,           \* written: the static offset of write_modem
  block_from_modem, block_to_client,
  air,       \* bytes received by the modem and not yet read
  airpos,    \* bytes of AirBlocks sent so far
  lost,      \* bytes lost on the air so far
  quiet,     \* "long" when 3 s have passed since the last byte was read
  \* what happened:
  served,    \* served[c]: the blocks of c handed to data_process
  accepted,  \* blocks accepted for the modem
  wire,      \* bytes the modem took
  burst,     \* bytes read since silence was last noticed
  taken,     \* blocks handed to clients
  stale      \* bytes in block_from_modem that silence found too few and left there

conns == <<conn, queue, sent, eof>>
client == <<got, ready, cur, block_from_client, client_block_size, served>>
tx == <<block_to_modem, written, accepted, wire>>
rx == <<block_from_modem, block_to_client, burst, taken, stale>>
radio == <<air, airpos, lost, quiet>>
vars == <<conns, client, tx, rx, radio, pc>>

Bytes(c, f, n) == [i \in 1..n |-> <<c, f, i>>]

\* Sends[c] is everything the client of c sends; everything the other modem sends.
Sends == [c \in Conns |-> FlattenSeq([f \in 1..Len(Stream[c]) |-> Bytes(c, f, Stream[c][f].size)])]
Aired == FlattenSeq([f \in 1..Len(AirBlocks) |-> Bytes(AIR, f, AirBlocks[f])])

SizeOf(b) == IF b[1] = AIR THEN AirBlocks[b[2]] ELSE Stream[b[1]][b[2]].size

\* The values the first two bytes of b may have as a size.
Sizes(b) ==
  IF b[1][3] = 1 /\ b[2] = <<b[1][1], b[1][2], 2>> THEN {SizeOf(b[1])} ELSE Garbage

\* The values the third byte of b may have as a type.
TypesOf(b) == IF b[3][3] = 3 THEN {Stream[b[3][1]][b[3][2]].type} ELSE Types \cup {FOREIGN}

\* b is a block as it was sent.
IsBlock(b) ==
  /\ b # <<>> /\ b[1][3] = 1
  /\ b = Bytes(b[1][1], b[1][2], SizeOf(b[1]))

\* Blocks of c whose last byte is among the first n; n is inside a block.
Blocks(c, n) == Cardinality({i \in 1..n : Sends[c][i][3] = SizeOf(Sends[c][i])})
Inside(c, n) == n > 0 /\ Sends[c][n][3] # SizeOf(Sends[c][n])

Init ==
  /\ conn = [c \in Conns |-> "none"] /\ queue = <<>>
  /\ sent = [c \in Conns |-> 0] /\ eof = [c \in Conns |-> 0] /\ got = [c \in Conns |-> 0]
  /\ pc = "queue" /\ ready = {} /\ cur \in Conns
  /\ block_from_client = <<>> /\ client_block_size = 0
  /\ block_to_modem = <<>> /\ written = 0
  /\ block_from_modem = <<>> /\ block_to_client = <<>>
  /\ air = <<>> /\ airpos = 0 /\ lost = 0 /\ quiet = "short"
  /\ served = [c \in Conns |-> <<>>] /\ accepted = <<>> /\ wire = <<>>
  /\ burst = <<>> /\ taken = <<>> /\ stale = 0
-----------------------------------------------------------------------------
(* Clients, and the master thread. *)

\* With Exclusive: nobody else has sent or was read a part of a block, and
\* whoever enters one waits until everything else was read.
MayDeliver(c, n) ==
  Exclusive = 1 =>
    \A d \in Conns \ {c} :
      /\ Inside(d, sent[d]) \/ Inside(d, got[d]) => conn[d] = "gone"
      /\ Inside(c, n) => got[d] = sent[d] /\ (eof[d] = 0 \/ conn[d] = "gone")

\* The master thread accepts a connection.
Accept(c) ==
  /\ conn[c] = "none"
  /\ conn' = [conn EXCEPT ![c] = "queued"] /\ queue' = Append(queue, c)
  /\ UNCHANGED <<sent, eof, client, tx, rx, radio, pc>>

\* A segment arrives: the first n bytes have now reached the socket.
Deliver(c, n) ==
  /\ conn[c] \in {"queued", "open"} /\ eof[c] = 0
  /\ n > sent[c] /\ n <= Len(Sends[c]) /\ MayDeliver(c, n)
  /\ sent' = [sent EXCEPT ![c] = n]
  /\ UNCHANGED <<conn, queue, eof, client, tx, rx, radio, pc>>

Close(c) ==
  /\ conn[c] \in {"queued", "open"} /\ eof[c] = 0 /\ MayDeliver(c, 0)
  /\ eof' = [eof EXCEPT ![c] = 1]
  /\ UNCHANGED <<conn, queue, sent, client, tx, rx, radio, pc>>
-----------------------------------------------------------------------------
(* The radio: bytes arrive, bytes are lost, three seconds pass. *)

Arrive ==
  /\ airpos < Len(Aired)
  /\ air' = Append(air, Aired[airpos + 1]) /\ airpos' = airpos + 1
  /\ UNCHANGED <<conns, client, tx, rx, lost, quiet, pc>>

Lose ==
  /\ airpos < Len(Aired) /\ lost < MaxLost
  /\ lost' = lost + 1 /\ airpos' = airpos + 1
  /\ UNCHANGED <<conns, client, tx, rx, air, quiet, pc>>

Silence ==
  /\ quiet = "short" /\ air = <<>> /\ block_from_modem # <<>>
  /\ quiet' = "long"
  /\ UNCHANGED <<conns, client, tx, rx, air, airpos, lost, pc>>
-----------------------------------------------------------------------------
(* The worker thread: the connections. *)

Register ==
  /\ pc = "queue" /\ queue # <<>>
  /\ conn' = [conn EXCEPT ![Head(queue)] = "open"] /\ queue' = Tail(queue)
  /\ UNCHANGED <<sent, eof, client, tx, rx, radio, pc>>

\* wait_event: epoll_wait returns after 10 ms at the latest.
WaitEvent ==
  /\ pc = "queue" /\ queue = <<>>
  /\ ready' = {c \in Conns : conn[c] = "open" /\ (got[c] < sent[c] \/ eof[c] = 1)}
  /\ pc' = "events"
  /\ UNCHANGED <<conns, got, cur, block_from_client, client_block_size, served, tx, rx, radio>>

\* data_receive, on a closed connection: what is left of it is thrown away.
DataReceiveEnd(c) ==
  /\ pc = "events" /\ c \in ready /\ eof[c] = 1
  /\ ready' = ready \ {c} /\ got' = [got EXCEPT ![c] = sent[c]]
  /\ conn' = [conn EXCEPT ![c] = "gone"]
  /\ block_from_client' = <<>> /\ client_block_size' = 0
  /\ UNCHANGED <<queue, sent, eof, cur, served, tx, rx, radio, pc>>

\* Mutant: a header that is not complete is taken for one.
DataReceive_HalfHeader(c) ==
  LET buf == block_from_client \o SubSeq(Sends[c], got[c] + 1, sent[c]) IN
  /\ pc = "events" /\ c \in ready /\ eof[c] = 0
  /\ ready' = ready \ {c} /\ got' = [got EXCEPT ![c] = sent[c]]
  /\ block_from_client' = buf
  /\ IF client_block_size = 0
       THEN client_block_size' \in IF Len(buf) < 2 THEN Garbage ELSE Sizes(buf)
       ELSE UNCHANGED client_block_size
  /\ pc' = "blocks" /\ cur' = c
  /\ UNCHANGED <<conns, served, tx, rx, radio>>

\* data_receive: read all there is, then the size of the first block.
DataReceive(c) ==
  LET buf == block_from_client \o SubSeq(Sends[c], got[c] + 1, sent[c]) IN
  /\ pc = "events" /\ c \in ready /\ eof[c] = 0
  /\ ready' = ready \ {c} /\ got' = [got EXCEPT ![c] = sent[c]]
  /\ block_from_client' = buf
  /\ \/ /\ client_block_size = 0 /\ Len(buf) < 2
        /\ UNCHANGED <<pc, cur, client_block_size>>
     \/ /\ client_block_size = 0 /\ Len(buf) >= 2
        /\ client_block_size' \in Sizes(buf)
        /\ pc' = "blocks" /\ cur' = c
     \/ /\ client_block_size # 0
        /\ pc' = "blocks" /\ cur' = c /\ UNCHANGED client_block_size
  /\ UNCHANGED <<conns, served, tx, rx, radio>>

\* Mutant: the block is moved over one that is being written.
SendToModem_Busy(b) ==
  /\ block_to_modem' = b /\ accepted' = Append(accepted, b)
  /\ UNCHANGED <<written, wire>>

\* data_process, SEND_TEXT and SEND_IMAGE: refused while the modem is busy.
SendToModem(b) ==
  IF block_to_modem = <<>>
    THEN /\ block_to_modem' = b /\ accepted' = Append(accepted, b)
         /\ UNCHANGED <<written, wire>>
    ELSE UNCHANGED tx

\* Mutant: the block is kept after it was sent.
GiveToClient_Kept ==
  /\ taken' = IF block_to_client # <<>> THEN Append(taken, block_to_client) ELSE taken
  /\ UNCHANGED <<block_from_modem, burst, stale, block_to_client>>

\* data_process, DATA_REQ.
GiveToClient ==
  /\ taken' = IF block_to_client # <<>> THEN Append(taken, block_to_client) ELSE taken
  /\ block_to_client' = <<>>
  /\ UNCHANGED <<block_from_modem, burst, stale>>

DataProcess(b) ==
  /\ served' = [served EXCEPT ![cur] = Append(@, b)]
  /\ \E t \in TypesOf(b) :
       \/ t = "SEND_TEXT" /\ SendToModem(b) /\ UNCHANGED rx
       \/ t = "DATA_REQ" /\ GiveToClient /\ UNCHANGED tx
       \/ t \in {"CONFIG", FOREIGN} /\ UNCHANGED <<tx, rx>>

\* Mutant: only one block is processed for each event.
NextBlock_OnlyOne ==
  LET rest == SubSeq(block_from_client, client_block_size + 1, Len(block_from_client)) IN
  /\ pc = "blocks" /\ Len(block_from_client) >= client_block_size
  /\ DataProcess(SubSeq(block_from_client, 1, client_block_size))
  /\ block_from_client' = rest
  /\ client_block_size' \in IF Len(rest) >= 2 THEN Sizes(rest) ELSE {0}
  /\ pc' = "events"
  /\ UNCHANGED <<conns, got, ready, cur, radio>>

\* One turn of the loop over the blocks received.
NextBlock ==
  LET rest == SubSeq(block_from_client, client_block_size + 1, Len(block_from_client)) IN
  /\ pc = "blocks" /\ Len(block_from_client) >= client_block_size
  /\ DataProcess(SubSeq(block_from_client, 1, client_block_size))
  /\ block_from_client' = rest
  /\ IF Len(rest) >= 2
       THEN client_block_size' \in Sizes(rest) /\ UNCHANGED pc
       ELSE client_block_size' = 0 /\ pc' = "events"
  /\ UNCHANGED <<conns, got, ready, cur, radio>>

BlocksDone ==
  /\ pc = "blocks" /\ Len(block_from_client) < client_block_size
  /\ pc' = "events"
  /\ UNCHANGED <<conns, client, tx, rx, radio>>

EventsDone ==
  /\ pc = "events" /\ ready = {}
  /\ pc' = "write"
  /\ UNCHANGED <<conns, client, tx, rx, radio>>
-----------------------------------------------------------------------------
(* The worker thread: the modem. *)

\* Mutant: the offset is not reset.
WriteModem_OffsetKept(n) ==
  /\ pc = "write" /\ pc' = "listen"
  /\ n = 0 \/ n = IF Len(block_to_modem) - written < DMA THEN Len(block_to_modem) - written ELSE DMA
  /\ wire' = wire \o SubSeq(block_to_modem, written + 1, written + n)
  /\ written' = written + n
  /\ block_to_modem' = IF written' = Len(block_to_modem) THEN <<>> ELSE block_to_modem
  /\ UNCHANGED <<conns, client, accepted, rx, radio>>

\* write_modem: the driver takes n bytes, or none (its timeout).
WriteModem(n) ==
  /\ pc = "write" /\ pc' = "listen"
  /\ n = 0 \/ n = IF Len(block_to_modem) - written < DMA THEN Len(block_to_modem) - written ELSE DMA
  /\ wire' = wire \o SubSeq(block_to_modem, written + 1, written + n)
  /\ IF written + n = Len(block_to_modem)
       THEN written' = 0 /\ block_to_modem' = <<>>
       ELSE written' = written + n /\ UNCHANGED block_to_modem
  /\ UNCHANGED <<conns, client, accepted, rx, radio>>

\* listen_modem reads n bytes.
ListenRead(n) ==
  /\ pc = "listen" /\ n \in 1..Len(air)
  /\ block_from_modem' = block_from_modem \o SubSeq(air, 1, n)
  /\ burst' = burst \o SubSeq(air, 1, n)
  /\ air' = SubSeq(air, n + 1, Len(air)) /\ quiet' = "short"
  /\ pc' = "queue"
  /\ UNCHANGED <<conns, client, tx, block_to_client, taken, stale, airpos, lost>>

\* Mutant: a block of the wrong size is kept for the next one.
ListenEnd_KeepsBad ==
  /\ pc = "listen" /\ air = <<>> /\ block_from_modem # <<>> /\ quiet = "long"
  /\ burst' = <<>> /\ pc' = "queue"
  /\ stale' = IF Len(block_from_modem) < 3 THEN Len(block_from_modem) ELSE 0
  /\ IF Len(block_from_modem) >= 3 /\ Len(block_from_modem) \in Sizes(block_from_modem)
       THEN block_to_client' = block_from_modem /\ block_from_modem' = <<>>
       ELSE UNCHANGED <<block_from_modem, block_to_client>>
  /\ UNCHANGED <<conns, client, tx, taken, radio>>

\* listen_modem after 3 s of silence.
ListenEnd ==
  /\ pc = "listen" /\ air = <<>> /\ block_from_modem # <<>> /\ quiet = "long"
  /\ burst' = <<>> /\ pc' = "queue"
  /\ stale' = IF Len(block_from_modem) < 3 THEN Len(block_from_modem) ELSE 0
  /\ IF Len(block_from_modem) < 3
       THEN UNCHANGED <<block_from_modem, block_to_client>>
       ELSE /\ \E n \in Sizes(block_from_modem) :
                 block_to_client' = IF n = Len(block_from_modem) THEN block_from_modem
                                    ELSE block_to_client
            /\ block_from_modem' = <<>>
  /\ UNCHANGED <<conns, client, tx, taken, radio>>

\* listen_modem has nothing to do.
ListenIdle ==
  /\ pc = "listen" /\ air = <<>> /\ (block_from_modem = <<>> \/ quiet = "short")
  /\ pc' = "queue"
  /\ UNCHANGED <<conns, client, tx, rx, radio>>
-----------------------------------------------------------------------------
Worker ==
  \/ Register \/ WaitEvent
  \/ \E c \in Conns : DataReceiveEnd(c) \/ DataReceive(c)
  \/ NextBlock \/ BlocksDone \/ EventsDone
  \/ \E n \in 0..DMA : WriteModem(n)
  \/ \E n \in 1..Len(air) : ListenRead(n)
  \/ ListenEnd \/ ListenIdle

Next ==
  \/ \E c \in Conns :
       \/ Accept(c) \/ Close(c)
       \/ \E n \in 1..Len(Sends[c]) : Deliver(c, n)
  \/ Arrive \/ Lose \/ Silence
  \/ Worker

Spec == Init /\ [][Next]_vars

\* The worker thread is never blocked for good: epoll_wait, and reads and
\* writes of the driver, have timeouts.
FairSpec == Spec /\ WF_vars(Worker)
-----------------------------------------------------------------------------
TypeOK ==
  /\ conn \in [Conns -> {"none", "queued", "open", "gone"}]
  /\ \A c \in Conns : got[c] \in 0..sent[c] /\ sent[c] \in 0..Len(Sends[c]) /\ eof[c] \in 0..1
  /\ pc \in {"queue", "events", "blocks", "write", "listen"} /\ ready \subseteq Conns
  /\ client_block_size \in {0} \cup (Nat \ (0..2))
  /\ written \in 0..Len(block_to_modem) /\ quiet \in {"short", "long"} /\ lost \in 0..MaxLost
  /\ stale \in 0..2

\* data_receive cuts what a client sends into the blocks the client sent:
\* they are processed whole, in order, and as soon as they are complete,
\* however the stream is segmented and whoever else connects or closes.
FramesInOrder ==
  \A c \in Conns :
    /\ \A i \in 1..Len(served[c]) : served[c][i] = Bytes(c, i, Stream[c][i].size)
    /\ conn[c] = "open" /\ pc # "blocks" => Len(served[c]) = Blocks(c, got[c])

\* What the modem took is the accepted blocks, whole and in order, up to the
\* offset of write_modem in the last one.
WireHasBlocks ==
  IF block_to_modem = <<>>
    THEN written = 0 /\ wire = FlattenSeq(accepted)
    ELSE /\ block_to_modem = Last(accepted)
         /\ wire = FlattenSeq(Front(accepted)) \o SubSeq(Last(accepted), 1, written)

\* A received block is handed to one client only, once.
TakenOnce ==
  \A i, j \in 1..Len(taken) : taken[i] = taken[j] => i = j

\* worker_thread.cpp:37 and :61: silence ends a block, so one that arrived
\* whole between two silences is offered to the clients.  The exception: a
\* piece of one or two bytes, which an earlier silence left in the buffer,
\* spoils the next block; with that block it is gone and spoils no other.
SilenceEndsBlock ==
  [][ListenEnd /\ IsBlock(burst) =>
       block_to_client' = burst \/ (stale \in 1..2 /\ block_from_modem' = <<>>)]_vars

\* A block that was sent is processed, unless its connection is closed.
FramesServed ==
  \A c \in Conns : \A f \in 1..Len(Stream[c]) :
    (Blocks(c, sent[c]) >= f) ~> (Len(served[c]) >= f \/ eof[c] = 1)
=============================================================================

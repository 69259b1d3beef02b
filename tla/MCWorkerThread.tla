--------------------------- MODULE MCWorkerThread ---------------------------
(* What clients and the other modem send, for TLC. *)
EXTENDS WorkerThread

CONSTANTS c1, c2

Block(t, n) == [type |-> t, size |-> n]

\* Two clients that write to the modem, and nothing on the air.
TwoWriters ==
  c1 :> <<Block("SEND_TEXT", 4), Block("DATA_REQ", 3)>> @@
  c2 :> <<Block("SEND_TEXT", 3), Block("CONFIG", 3)>>

NoBlocks == <<>>

\* A client that asks twice for what the modem received, and two blocks on
\* the air.
OneReader == c1 :> <<Block("DATA_REQ", 3), Block("DATA_REQ", 3)>>

TwoBlocks == <<4, 3>>
=============================================================================

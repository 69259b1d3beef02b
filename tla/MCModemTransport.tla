-------------------------- MODULE MCModemTransport --------------------------
(* Model-checking instance of ModemTransport: the blocks of the client. *)
EXTENDS ModemTransport

MCTotals == <<2, 2, 1>>
=============================================================================

------------------------- MODULE MCReceiverTrust -------------------------
(* ReceiverTrust for TLC: two calls of the outbox flush.                  *)
EXTENDS ReceiverTrust
=============================================================================

--------------------------- MODULE MCReceiverSessions ---------------------------
EXTENDS ReceiverSessions
=============================================================================

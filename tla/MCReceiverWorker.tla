--------------------------- MODULE MCReceiverWorker ---------------------------
(* Two clients, a queue of two blocks instead of four. *)
EXTENDS ReceiverWorker

CONSTANTS c1, c2

MCCallers == {c1, c2}
=============================================================================

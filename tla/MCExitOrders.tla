---------------------------- MODULE MCExitOrders ----------------------------
(* Small instances of ExitOrders. *)
EXTENDS ExitOrders
=============================================================================

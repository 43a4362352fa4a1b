--------------------------- MODULE MCBarrierState ---------------------------
(* Small instances of BarrierState. *)
EXTENDS BarrierState
=============================================================================

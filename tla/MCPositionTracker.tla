-------------------------- MODULE MCPositionTracker --------------------------
(* Small instances of PositionTracker. *)
EXTENDS PositionTracker
=============================================================================

------------------------- MODULE MCEmergencyKillAll -------------------------
(* Small instances of EmergencyKillAll. *)
EXTENDS EmergencyKillAll
=============================================================================

------------------------ MODULE MCStationConnection ------------------------
(* Instances of StationConnection for TLC. *)
EXTENDS StationConnection
=============================================================================

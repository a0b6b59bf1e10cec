--------------------------- MODULE MCParkingSpot ---------------------------
(* Instances of ParkingSpot for TLC. *)
EXTENDS ParkingSpot
=============================================================================

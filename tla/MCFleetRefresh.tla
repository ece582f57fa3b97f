--------------------------- MODULE MCFleetRefresh ---------------------------
(* Instances of FleetRefresh for TLC. *)
EXTENDS FleetRefresh

Tool(port, device, enabled) == [port |-> port, device |-> device, enabled |-> enabled]

\* Three tools; two of them change places and the third is disabled.
ThreeTools ==
  << {Tool(1, "d1", TRUE), Tool(2, "d2", TRUE), Tool(3, "d3", TRUE)},
     {Tool(1, "d2", TRUE), Tool(2, "d1", TRUE), Tool(3, "d3", FALSE)} >>
=============================================================================

-------------------------- MODULE MCRadarHandover --------------------------
(***************************************************************************)
(* Instances of RadarHandover.  Its state is finite as it stands: the cfgs *)
(* choose the link (Echoes, OtherTraffic, LinkFaults) and what the radar   *)
(* may do wrong, and keep the three re-entries of the code.                *)
(***************************************************************************)
EXTENDS RadarHandover
============================================================================

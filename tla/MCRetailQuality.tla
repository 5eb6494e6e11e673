-------------------------- MODULE MCRetailQuality --------------------------
(* Instances of RetailQuality for TLC. *)
EXTENDS RetailQuality

MCOrderCounts == {2}
=============================================================================

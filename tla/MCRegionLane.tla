---------------------------- MODULE MCRegionLane ----------------------------
(***************************************************************************)
(* A cluster of two members, one of them on a tile the vintage lacks, and  *)
(* a cluster of one; a canary plan holds the first cluster only.           *)
(***************************************************************************)
EXTENDS RegionLane

CONSTANTS dense, single, a, b, c

MCTaskOf == [m \in Members |-> IF m = c THEN single ELSE dense]
MCOrder == <<dense, single>>
MCScopes == {{dense}, {dense, single}}

=============================================================================

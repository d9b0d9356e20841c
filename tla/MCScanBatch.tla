----------------------------- MODULE MCScanBatch -----------------------------
(***************************************************************************)
(* Batches with anchors whose files are fine, do not load, or were made    *)
(* for another geometry.                                                   *)
(***************************************************************************)
EXTENDS ScanBatch

=============================================================================

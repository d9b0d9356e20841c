------------------------ MODULE MCPanelAdjudication ------------------------
(***************************************************************************)
(* A panel of two anchors, one of them smoked, one anchor left for the     *)
(* production, two threads and two model versions.                         *)
(***************************************************************************)
EXTENDS PanelAdjudication, TLC

Symmetry == Permutations(Versions)

=============================================================================

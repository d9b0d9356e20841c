--------------------------- MODULE MCDiskPipeline ---------------------------
(***************************************************************************)
(* Two waves of one anchor each, with room for one of them; the chip of    *)
(* the first wave may be downloaded a second time.                         *)
(***************************************************************************)
EXTENDS DiskPipeline, TLC

CONSTANTS w1, w2, a, b

MCSymmetry == Permutations(Shells)
MCWaveOf == (a :> w1) @@ (b :> w2)
MCMaxDownloads == (a :> 2) @@ (b :> 1)

\* One wave of two anchors.
MCOneWave == [x \in Anchors |-> w1]

=============================================================================

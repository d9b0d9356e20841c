--------------------------- MODULE MCFullTimeline ---------------------------
(***************************************************************************)
(* Three capture dates, the second in the technical check, two attempts    *)
(* per request and two workers.  The first job has no imagery for the      *)
(* third date and takes all requests of a stage in one chunk; the second   *)
(* is the same roof taken request by request, so that a PNG lost after the *)
(* first pass stops its recheck drain; the third asks T2 too and lacks two *)
(* PNGs from the start; the last is a v2 pack with a white frame and a gap.*)
(***************************************************************************)
EXTENDS FullTimeline

Job(flow, paired, white, gaps, lost, chunk, bound) ==
    [flow |-> flow, paired |-> paired, white |-> white, gaps |-> gaps,
     missing |-> lost, chunk |-> chunk, maxFaults |-> bound]
MCJobs == {Job("v1", FALSE, {}, {3}, {3}, 3, 0), Job("v1", FALSE, {}, {3}, {3}, 1, 1),
           Job("v1", TRUE, {}, {}, {1, 3}, 3, 2), Job("v2", TRUE, {1}, {3}, {3}, 3, 2)}

=============================================================================

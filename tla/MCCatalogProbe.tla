--------------------------- MODULE MCCatalogProbe ---------------------------
(***************************************************************************)
(* An anchor that two routes may get, and three required queries.  Of five *)
(* dates one is before the window of the merge, one after it and two after *)
(* the census: GEHI knows nothing of the anchor, or Wayback does, or both  *)
(* do and agree in part.  Anchors share nothing but their shard, and the   *)
(* instance with two is beyond the time of a run.                          *)
(***************************************************************************)
EXTENDS CatalogProbe, TLC

MCRequired == {[provider |-> "TM", zoom |-> 19], [provider |-> "TM", zoom |-> 18],
               [provider |-> "Wayback", zoom |-> 18]}
MCDates == 1..5
History(tm19, tm18, wayback) ==
    [q \in MCRequired |-> CASE q.provider = "Wayback" -> wayback
                            [] q.zoom = 19 -> tm19
                            [] OTHER -> tm18]
MCHistories == {History({}, {}, {}), History({}, {}, {2, 5}),
                History({2, 4}, {1, 2}, {3, 5})}
Symmetry == Permutations(Routes)

=============================================================================

---------------------------- MODULE MCZoomLadder ----------------------------
(***************************************************************************)
(* A ladder of two zooms without a chip at first; the second run finds     *)
(* what the first one left.  The date is dropped from the better zoom by   *)
(* the provider's second catalog.  One other reader shares the catalog     *)
(* rows.  Runs are ordinary, overwrite chips and refresh catalogs, or may  *)
(* not call the provider and refuse the lower zoom's chips.                *)
(***************************************************************************)
EXTENDS ZoomLadder

MCLadder == <<20, 19>>
MCFound == {[z \in Zooms |-> "none"]}
MCListing == [z \in Zooms |-> IF z = 20 THEN {0} ELSE {0, 1}]
Mode(overwrite, minZoom, offline, refresh) ==
    [overwrite |-> overwrite, minZoom |-> minZoom, offline |-> offline, refresh |-> refresh]
MCModes == {Mode(FALSE, 0, FALSE, FALSE), Mode(TRUE, 0, FALSE, TRUE),
            Mode(FALSE, 20, TRUE, FALSE)}

=============================================================================

----------------------------- MODULE ZoomLadder -----------------------------
(***************************************************************************)
(* One chip of one anchor (download_chip_with_zoom_ladder in               *)
(* scripts/temporal/gehi_download.py): a chip on disk is reused when the   *)
(* catalog of its zoom lists its date (make_vintage_check in               *)
(* run_adaptive_scan.py), otherwise the zooms are downloaded in the order  *)
(* of the ladder until one succeeds.  Scans are killed and run again in    *)
(* other modes over the same files; other anchors and catalog builders use *)
(* the same catalog rows.                                                  *)
(***************************************************************************)
EXTENDS CatalogCache, Sequences

CONSTANTS
    Scan,       \* the reader that is this anchor's thread
    Ladder,     \* download_zoom_ladder
    Found,      \* the files that may be there at first: the lane makes chips too
    Listing,    \* the versions that list the date, for each zoom
    Modes,      \* the switches of a run
    Browsed,    \* bound: the zooms the other readers look up
    MaxRuns,    \* bound: runs that reach this chip
    MaxFaults   \* bound: kills, failed unlinks and failures of the cache's database

ASSUME LadderAssumption ==
    /\ Scan \in Readers /\ Ladder \in Seq(Zooms) /\ Ladder # <<>>
    /\ \A i, j \in 1..Len(Ladder) : Ladder[i] = Ladder[j] => i = j
    /\ Found \subseteq [Zooms -> {"none", "whole"}]
    /\ Browsed \subseteq Zooms /\ Listing \in [Zooms -> SUBSET Versions]
    /\ Modes # {}
    /\ Modes \subseteq [overwrite : BOOLEAN, minZoom : Nat, offline : BOOLEAN,
                        refresh : BOOLEAN]
    /\ MaxRuns \in Nat /\ MaxFaults \in Nat

VARIABLES
    chips,      \* the file of each zoom
    mode,       \* the switches of this run
    pc,         \* where the call is
    rung,       \* the position in the ladder
    memo,       \* what make_vintage_check knows of each zoom, for this run
    known,      \* zooms with a row when the run began, of which the database has
                \* not failed it since (history)
    spoiled,    \* files a kill or a failed unlink left behind (history)
    result,     \* the zoom of the chip it returned, or 0
    runs, faults

ladderVars == <<chips, mode, pc, rung, memo, known, spoiled, result, runs, faults>>
vars == <<cacheVars, ladderVars>>

Zoom == Ladder[rung]
NonEmpty(z) == chips[z] \in {"whole", "partial"}
Fault == faults < MaxFaults /\ faults' = faults + 1

Init ==
    /\ CacheInit
    /\ chips \in Found
    /\ mode = CHOOSE m \in Modes : TRUE
    /\ pc = "idle" /\ rung = 1
    /\ memo = [z \in Zooms |-> "unset"]
    /\ known = {} /\ spoiled = {}
    /\ result = 0 /\ runs = 0 /\ faults = 0

\* A run starts; an offline one brings catalogs that were built before.
Begin ==
    /\ pc \in {"idle", "done"} /\ runs < MaxRuns
    /\ runs' = runs + 1
    /\ mode' \in Modes
    /\ pc' = IF ~mode'.overwrite THEN "cached" ELSE IF mode'.offline THEN "done" ELSE "live"
    /\ rung' = 1 /\ result' = 0 /\ known' = {z \in Zooms : Stored(z)}
    /\ memo' \in IF mode'.offline THEN [Zooms -> {"unset", "listed", "unlisted"}]
                ELSE {[z \in Zooms |-> "unset"]}
    /\ UNCHANGED <<cacheVars, chips, spoiled, faults>>

\* The next zoom; after the last one the live loop, or the failed result.
Advance ==
    IF rung < Len(Ladder) THEN rung' = rung + 1 /\ pc' = pc
    ELSE /\ rung' = 1
         /\ pc' = IF pc = "cached" /\ ~mode.offline THEN "live" ELSE "done"

\* This rung asks for the catalog of its zoom.
Checks ==
    \/ pc = "live"
    \/ pc = "cached" /\ NonEmpty(Zoom) /\ Zoom >= mode.minZoom

\* No usable file at this zoom.
SkipCached ==
    /\ pc = "cached" /\ ~Checks
    /\ Advance
    /\ UNCHANGED <<cacheVars, chips, mode, memo, known, spoiled, result, runs, faults>>

\* check: a zoom this run has not looked up yet is looked up.
CheckVintage ==
    /\ Checks /\ memo[Zoom] = "unset" /\ ~mode.offline /\ got[Scan] = Nothing
    /\ Lookup(Scan, Zoom, mode.refresh)
    /\ UNCHANGED ladderVars

\* check: what the lookup returned is kept for the run, an empty list too.
Memoize ==
    /\ Checks /\ got[Scan].kind \in {"cached", "live", "stale", "empty"}
    /\ memo' = [memo EXCEPT ![Zoom] =
                   IF got[Scan].version \in Listing[Zoom] THEN "listed" ELSE "unlisted"]
    /\ got' = [got EXCEPT ![Scan] = Nothing]
    /\ UNCHANGED <<now, current, replaced, rows, asked, chips, mode, pc, rung, known,
                   spoiled, result, runs, faults>>

\* Mutant: a check that raised is tried again.
CheckRaises_Retries ==
    /\ Checks
    /\ \/ got[Scan].kind = "raised"
       \/ mode.offline /\ memo[Zoom] = "unset"
    /\ got' = [got EXCEPT ![Scan] = Nothing]
    /\ UNCHANGED <<now, current, replaced, rows, asked, chips, mode, pc, rung, memo, known,
                   spoiled, result, runs, faults>>

\* check raises: no catalog to be had, or none may be asked for.
CheckRaises ==
    /\ Checks
    /\ \/ got[Scan].kind = "raised"
       \/ mode.offline /\ memo[Zoom] = "unset"
    /\ got' = [got EXCEPT ![Scan] = Nothing]
    /\ Advance
    /\ UNCHANGED <<now, current, replaced, rows, asked, chips, mode, memo, known,
                   spoiled, result, runs, faults>>

\* The date is not in the catalog of this zoom.
NotListed ==
    /\ Checks /\ memo[Zoom] = "unlisted"
    /\ Advance
    /\ UNCHANGED <<cacheVars, chips, mode, memo, known, spoiled, result, runs, faults>>

\* skipped_existing
ServeCached ==
    /\ pc = "cached" /\ Checks /\ memo[Zoom] = "listed"
    /\ result' = Zoom /\ pc' = "done"
    /\ UNCHANGED <<cacheVars, chips, mode, rung, memo, known, spoiled, runs, faults>>

\* GEHI is started on this zoom.
CallGehi ==
    /\ pc = "live" /\ memo[Zoom] = "listed"
    /\ pc' = "called"
    /\ UNCHANGED <<cacheVars, chips, mode, rung, memo, known, spoiled, result, runs, faults>>

\* GEHI writes to the file of this zoom before it is done.
GehiWrites ==
    /\ pc = "called" /\ chips[Zoom] # "partial"
    /\ chips' = [chips EXCEPT ![Zoom] = "partial"]
    /\ UNCHANGED <<cacheVars, mode, pc, rung, memo, known, spoiled, result, runs, faults>>

\* Return code 0 and a file with bytes in it: the chip, whole.
GehiSucceeds ==
    /\ pc = "called"
    /\ chips' = [chips EXCEPT ![Zoom] = "whole"]
    /\ spoiled' = spoiled \ {Zoom}
    /\ result' = Zoom /\ pc' = "done"
    /\ UNCHANGED <<cacheVars, mode, rung, memo, known, runs, faults>>

\* Mutant: a failed attempt leaves its file where it is.
GehiFails_Keeps ==
    /\ pc = "called"
    /\ pc' = IF rung < Len(Ladder) THEN "live" ELSE "done"
    /\ rung' = IF rung < Len(Ladder) THEN rung + 1 ELSE 1
    /\ UNCHANGED <<cacheVars, chips, mode, memo, known, spoiled, result, runs, faults>>

\* An exception, a bad return code, a block that outlasted its attempts or an
\* empty file: _quarantine_partial, which may fail to unlink, and the next zoom.
GehiFails ==
    /\ pc = "called"
    /\ \/ /\ chips' = [chips EXCEPT ![Zoom] = "none"]
          /\ spoiled' = spoiled \ {Zoom} /\ UNCHANGED faults
       \/ /\ NonEmpty(Zoom) /\ Fault /\ UNCHANGED chips
          /\ spoiled' = IF chips[Zoom] = "partial" THEN spoiled \cup {Zoom} ELSE spoiled
    /\ pc' = IF rung < Len(Ladder) THEN "live" ELSE "done"
    /\ rung' = IF rung < Len(Ladder) THEN rung + 1 ELSE 1
    /\ UNCHANGED <<cacheVars, mode, memo, known, result, runs>>

\* The scan is killed; a file GEHI was writing stays.
Kill ==
    /\ pc \notin {"idle", "done"} /\ Fault
    /\ spoiled' = IF pc = "called" /\ chips[Zoom] = "partial"
                  THEN spoiled \cup {Zoom} ELSE spoiled
    /\ pc' = "idle"
    /\ Hangup(Scan)
    /\ memo' = [z \in Zooms |-> "unset"] /\ known' = {}
    /\ UNCHANGED <<now, current, replaced, rows, chips, mode, rung, result, runs>>

\* The database of the cache fails a reader.
StoreFails ==
    /\ Fault
    /\ \/ \E r \in Readers :
            /\ PutFails(r)
            /\ known' = IF r = Scan THEN known \ {asked[r].zoom} ELSE known
       \/ /\ Checks /\ memo[Zoom] = "unset" /\ ~mode.offline /\ got[Scan] = Nothing
          /\ LookupFails(Scan)
          /\ known' = known \ {Zoom}
    /\ UNCHANGED <<chips, mode, pc, rung, memo, spoiled, result, runs>>

Others ==
    \/ Tick \/ Publish
    \/ \E r \in Readers : Answer(r) \/ Put(r) \/ Fail(r)
    \/ \E r \in Readers \ {Scan}, z \in Browsed : Lookup(r, z, FALSE)

Ladders ==
    \/ SkipCached \/ CheckVintage \/ Memoize \/ CheckRaises \/ NotListed
    \/ ServeCached \/ CallGehi \/ GehiSucceeds \/ GehiFails

Next ==
    \/ Begin \/ Ladders \/ GehiWrites \/ Kill \/ StoreFails
    \/ Others /\ UNCHANGED ladderVars

Spec == Init /\ [][Next]_vars

\* The thread runs, and both kinds of subprocess have a timeout.
FairSpec ==
    /\ Spec
    /\ WF_vars(Ladders)
    /\ WF_vars((Answer(Scan) \/ Put(Scan) \/ Fail(Scan)) /\ UNCHANGED ladderVars)

-----------------------------------------------------------------------------
(* Properties.                                                             *)

\* No attempt leaves half a chip: a file that is not whole is being written,
\* or was left by a kill or an unlink that failed.  Every other chip that is
\* served is whole.
ServedIsWhole ==
    /\ \A z \in Zooms : chips[z] = "partial" =>
          z \in spoiled \/ (pc = "called" /\ z = Zoom)
    /\ pc = "done" /\ result \in Zooms \ spoiled => chips[result] = "whole"

\* An ordinary run downloads over a chip it has on disk only when it could not
\* see a catalog for that zoom: where a row was stored when it began and the
\* cache's database did not fail, no outage, refresh or stale row costs another
\* download.
ChipOnDiskIsUsed ==
    [][pc = "live" /\ pc' = "called" /\ ~mode.overwrite /\ NonEmpty(Zoom)
          => Zoom < mode.minZoom \/ Zoom \notin known]_vars

\* Every call ends, with a chip or without.
CallEnds == pc \notin {"idle", "done"} ~> pc \in {"idle", "done"}

=============================================================================

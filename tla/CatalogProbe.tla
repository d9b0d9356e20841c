---------------------------- MODULE CatalogProbe ----------------------------
(***************************************************************************)
(* The Cape Town catalog (scripts/temporal/run_ct05_catalog_probe.py): the *)
(* routes ask GEHI the required queries of their anchors and append, in    *)
(* files of their own, an outcome for each query and the dates it listed;  *)
(* a run is resumed from the outcomes.  merge reads the files of all       *)
(* routes and releases the anchors whose queries all succeeded, with the   *)
(* dates a scan may download, or puts them on the retry list.              *)
(*                                                                         *)
(* An outcome that failed is never read for its status, so only successes  *)
(* are kept.  Nothing locks the files: a merge reads all outcomes and then *)
(* all rows, and routes may be probing meanwhile.                          *)
(***************************************************************************)
EXTENDS Naturals, FiniteSets, FiniteSetsExt

CONSTANTS
    Anchors,        \* in the order of the CSV
    Routes,
    Required,       \* REQUIRED_SPECS: provider and zoom
    Dates,          \* the dates a probe lists, by its own --min-date and --max-date
    MinDate,        \* the window of the merge
    MaxDate,
    Census,         \* census_date
    PostFrames,     \* post_census_frames
    MaxAttempts,
    Histories,      \* what GEHI may know: the dates of each query of an anchor
    MaxKills        \* bound

ASSUME CatalogProbeAssumption ==
    /\ Anchors \subseteq Nat /\ IsFiniteSet(Anchors)
    /\ IsFiniteSet(Routes) /\ Routes # {}
    /\ Required \subseteq [provider : {"TM", "Wayback"}, zoom : {18, 19}]
    /\ Dates \subseteq Nat /\ IsFiniteSet(Dates) /\ Census \in Nat
    /\ MinDate \in Nat /\ MaxDate \in Nat
    /\ PostFrames \in Nat /\ MaxAttempts \in Nat \ {0} /\ MaxKills \in Nat
    /\ Histories \subseteq [Required -> SUBSET Dates]

VARIABLES
    history,    \* GEHI's catalog of each anchor
    shard,      \* the anchors CSV of each route
    outcomes,   \* query_outcomes.jsonl: queries that succeeded
    catalogRows, \* catalog_rows.jsonl: their dates
    probe,      \* the run of each route
    reading,    \* the successes the merge under way has read
    merged,     \* the outcome and the candidates of each anchor
    kills

probeVars == <<history, shard, outcomes, catalogRows, probe, reading, merged, kills>>

-----------------------------------------------------------------------------
Keys == Anchors \X Required
NoKey == <<>>
NotProbing == [at |-> "idle", key |-> NoKey, tries |-> 0, unwritten |-> {}, todo |-> {}]
NotMerging == {NoKey}
Unmerged == [status |-> "unmerged", candidates |-> {}]

Known(key) == history[key[1]][key[2]]

Succeeded == UNION {outcomes[r] : r \in Routes}
Unresolved(a, ok) == {q \in Required : <<a, q>> \notin ok}
Listed(a, q) == {d \in Dates : \E r \in Routes : <<a, q, d>> \in catalogRows[r]}

\* The dates of an anchor's rows; a date counts once, whoever listed it.
DatesOf(a, ok, providers) ==
    UNION {Listed(a, q) : q \in {p \in Required \ Unresolved(a, ok) : p.provider \in providers}}

\* Mutant: one frame too many after the census.
Cutoff_OneMore(dates) ==
    LET newer == {d \in dates : Census < d /\ d <= MaxDate}
    IN  IF Census >= MaxDate THEN MaxDate
        ELSE IF PostFrames = 0 \/ newer = {} THEN Census
        ELSE Max({d \in newer : Cardinality({e \in newer : e < d}) <= PostFrames})

\* compute_cutoff
Cutoff(dates) ==
    LET newer == {d \in dates : Census < d /\ d <= MaxDate}
    IN  IF Census >= MaxDate THEN MaxDate
        ELSE IF PostFrames = 0 \/ newer = {} THEN Census
        ELSE Max({d \in newer : Cardinality({e \in newer : e < d}) < PostFrames})

\* _candidate_priority: zoom 19 first, then the provider whose catalog is
\* complete over the anchor's box.
Priority(q) == (IF q.zoom = 19 THEN 0 ELSE 2) + (IF q.provider = "TM" THEN 0 ELSE 1)

\* rows_by_date, and the best row of each date.
Candidates(a, ok) ==
    LET dates == DatesOf(a, ok, {"TM", "Wayback"})
    IN  {c \in [date : dates, query : Required] :
            /\ MinDate <= c.date /\ c.date <= Cutoff(dates)
            /\ c.date \in Listed(a, c.query)
            /\ \A q \in Required : c.date \in Listed(a, q) => Priority(c.query) <= Priority(q)}

\* _anchor_catalog_verdict
Verdict(a, ok) ==
    LET tm == DatesOf(a, ok, {"TM"})
        wayback == DatesOf(a, ok, {"Wayback"})
    IN  IF Unresolved(a, ok) # {}
        THEN [status |-> "operational_failure", candidates |-> {}]
        ELSE [status |-> CASE tm = {} /\ wayback = {} -> "no_history"
                           [] tm = {} /\ wayback # {} -> "wayback_only"
                           [] tm # {} /\ wayback = {} -> "tm_only"
                           [] OTHER -> "tm_and_wayback",
              candidates |-> Candidates(a, ok)]

Released(verdict) == verdict.status \notin {"unmerged", "operational_failure"}

\* plan_routes: every anchor has one route.
ProbeInit ==
    /\ history \in [Anchors -> Histories]
    /\ \E home \in [Anchors -> Routes] :
           shard = [r \in Routes |-> {a \in Anchors : home[a] = r}]
    /\ outcomes = [r \in Routes |-> {}]
    /\ catalogRows = [r \in Routes |-> {}]
    /\ probe = [r \in Routes |-> NotProbing]
    /\ reading = NotMerging /\ merged = [a \in Anchors |-> Unmerged]
    /\ kills = 0

-----------------------------------------------------------------------------
\* plan_remaining_lanes, or the retry list of a merge: a route gets all
\* anchors with a query that no route was answered.
PlanRemaining(r) ==
    /\ probe[r] = NotProbing
    /\ shard' = [shard EXCEPT ![r] = {a \in Anchors : Unresolved(a, Succeeded) # {}}]
    /\ UNCHANGED <<history, outcomes, catalogRows, probe, reading, merged, kills>>

\* The order of run_probe's loops: by anchor, and TM before Wayback, zoom 19
\* before 18.
Rank(key) ==
    4 * key[1] + (IF key[2].provider = "TM" THEN 0 ELSE 2)
               + (IF key[2].zoom = 19 THEN 0 ELSE 1)

\* run_probe: the queries its own outcomes do not have yet.
Start(r) ==
    /\ probe[r] = NotProbing /\ shard[r] # {}
    /\ probe' = [probe EXCEPT ![r] = [NotProbing EXCEPT !.at = "next",
                     !.todo = (shard[r] \X Required) \ outcomes[r]]]
    /\ UNCHANGED <<history, shard, outcomes, catalogRows, reading, merged, kills>>

Ask(r, key) ==
    /\ probe[r].at = "next" /\ key \in probe[r].todo
    /\ \A k \in probe[r].todo : Rank(key) <= Rank(k)
    /\ probe' = [probe EXCEPT ![r].at = "ask", ![r].key = key, ![r].tries = 1,
                              ![r].todo = @ \ {key}]
    /\ UNCHANGED <<history, shard, outcomes, catalogRows, reading, merged, kills>>

\* A blocked response or an exception, with attempts left.
Retry(r) ==
    /\ probe[r].at = "ask" /\ probe[r].tries < MaxAttempts
    /\ probe' = [probe EXCEPT ![r].tries = @ + 1]
    /\ UNCHANGED <<history, shard, outcomes, catalogRows, reading, merged, kills>>

NextQuery(r) == [NotProbing EXCEPT !.at = "next", !.todo = probe[r].todo]

\* Mutant: the page of a blocked response is parsed, and lists nothing.
GiveUp_AsEmpty(r) ==
    /\ probe[r].at = "ask"
    /\ outcomes' = [outcomes EXCEPT ![r] = @ \cup {probe[r].key}]
    /\ probe' = [probe EXCEPT ![r] = NextQuery(r)]
    /\ UNCHANGED <<history, shard, catalogRows, reading, merged, kills>>

\* Blocked or failing on the last attempt, or GEHI refused: the query stays
\* open for another run.
GiveUp(r) ==
    /\ probe[r].at = "ask"
    /\ probe' = [probe EXCEPT ![r] = NextQuery(r)]
    /\ UNCHANGED <<history, shard, outcomes, catalogRows, reading, merged, kills>>

\* ok_nonempty or ok_empty: the outcome is written first.
Answered(r) ==
    /\ probe[r].at = "ask"
    /\ outcomes' = [outcomes EXCEPT ![r] = @ \cup {probe[r].key}]
    /\ probe' = [probe EXCEPT ![r].at = "rows", ![r].unwritten = Known(probe[r].key)]
    /\ UNCHANGED <<history, shard, catalogRows, reading, merged, kills>>

\* Then its rows, by date.
WriteRow(r) ==
    LET d == Min(probe[r].unwritten)
    IN  /\ probe[r].at = "rows" /\ probe[r].unwritten # {}
        /\ catalogRows' = [catalogRows EXCEPT ![r] =
                               @ \cup {<<probe[r].key[1], probe[r].key[2], d>>}]
        /\ probe' = [probe EXCEPT ![r].unwritten = @ \ {d}]
        /\ UNCHANGED <<history, shard, outcomes, reading, merged, kills>>

Written(r) ==
    /\ probe[r].at = "rows" /\ probe[r].unwritten = {}
    /\ probe' = [probe EXCEPT ![r] = NextQuery(r)]
    /\ UNCHANGED <<history, shard, outcomes, catalogRows, reading, merged, kills>>

Finish(r) ==
    /\ probe[r].at = "next" /\ probe[r].todo = {}
    /\ probe' = [probe EXCEPT ![r] = NotProbing]
    /\ UNCHANGED <<history, shard, outcomes, catalogRows, reading, merged, kills>>

KillProbe(r) ==
    /\ probe[r] # NotProbing /\ kills < MaxKills
    /\ probe' = [probe EXCEPT ![r] = NotProbing]
    /\ kills' = kills + 1
    /\ UNCHANGED <<history, shard, outcomes, catalogRows, reading, merged>>

\* _latest_successful_outcomes, by a new merge or one started again.
MergeOutcomes ==
    /\ reading' = Succeeded
    /\ UNCHANGED <<history, shard, outcomes, catalogRows, probe, merged, kills>>

\* The rest of merge_routes: the rows of these queries, and the verdicts.
Merge ==
    /\ reading # NotMerging
    /\ merged' = [a \in Anchors |-> Verdict(a, reading)]
    /\ reading' = NotMerging
    /\ UNCHANGED <<history, shard, outcomes, catalogRows, probe, kills>>

ProbeNext ==
    \/ \E r \in Routes :
           \/ PlanRemaining(r) \/ Start(r) \/ Retry(r) \/ GiveUp(r) \/ Answered(r)
           \/ WriteRow(r) \/ Written(r) \/ Finish(r) \/ KillProbe(r)
           \/ \E key \in Keys : Ask(r, key)
    \/ MergeOutcomes \/ Merge

ProbeSpec == ProbeInit /\ [][ProbeNext]_probeVars

-----------------------------------------------------------------------------
\* Queries recorded as answered whose dates are not all on disk; and those
\* among them that no run is writing.
Incomplete == {key \in Succeeded : Listed(key[1], key[2]) # Known(key)}
Short ==
    {key \in Incomplete : \A r \in Routes : probe[r].at = "rows" => probe[r].key # key}

Runs ==
    [at : {"idle", "next", "ask", "rows"}, key : Keys \cup {NoKey}, tries : 0..MaxAttempts,
     unwritten : SUBSET Dates, todo : SUBSET Keys]

ProbeTypeOK ==
    /\ history \in [Anchors -> Histories]
    /\ shard \in [Routes -> SUBSET Anchors]
    /\ outcomes \in [Routes -> SUBSET Keys]
    /\ catalogRows \in [Routes -> SUBSET (Anchors \X Required \X Dates)]
    /\ probe \in [Routes -> Runs]
    /\ \A a \in Anchors : merged[a].candidates \subseteq [date : Dates, query : Required]
    /\ kills \in 0..MaxKills

\* An answered query has all its dates on disk whichever way the routes share
\* the anchors, are blocked, fail and are resumed; a kill costs one query at
\* most.
ShortCostsKills == Cardinality(Short) <= kills

\* The dates a scan of the anchor should be offered: of all known in the window,
\* those up to the census and the first PostFrames after it.
Offered(a) ==
    LET all == UNION {history[a][q] : q \in Required}
    IN  {d \in all : /\ MinDate <= d /\ d <= MaxDate
                     /\ \/ d <= Census
                        \/ Cardinality({e \in all : Census < e /\ e < d}) < PostFrames}

\* A merge, also one that reads while routes write, releases an anchor with
\* exactly the dates GEHI knows of it in the window, one candidate for each,
\* unless a kill made a query of it short or its rows are still being written.
MergeIsFaithful ==
    [][\A a \in Anchors :
          (merged' # merged /\ Released(merged'[a]) /\ \A key \in Incomplete : key[1] # a) =>
              /\ {c.date : c \in merged'[a].candidates} = Offered(a)
              /\ Cardinality(merged'[a].candidates) = Cardinality(Offered(a))]_probeVars

=============================================================================

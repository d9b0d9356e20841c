---------------------------- MODULE CatalogCache ----------------------------
(***************************************************************************)
(* The on-disk cache of provider catalogs                                  *)
(* (scripts/temporal/gehi_catalog_cache.py) and the calls that read        *)
(* through it (gehi_availability.py, gehi_info.py): anchors scanned at the *)
(* same time and command-line builders look the catalog of a zoom up, ask  *)
(* the provider when the row is missing, old or to be refreshed, and fall  *)
(* back to the stored row when the provider does not answer.               *)
(*                                                                         *)
(* A key is its zoom.  A catalog is the number of the provider's version   *)
(* it came from: what it lists is a function of the version.  Time is in   *)
(* days.                                                                   *)
(***************************************************************************)
EXTENDS Integers, FiniteSets

CONSTANTS
    Readers,        \* threads and processes that look catalogs up
    Zooms,          \* the keys
    MaxAge,         \* max_age_days
    LastVersion,    \* bound: versions the provider publishes after 0
    LastDay         \* bound: the clock

ASSUME CacheAssumption ==
    /\ IsFiniteSet(Readers) /\ IsFiniteSet(Zooms) /\ Zooms \subseteq Nat \ {0}
    /\ MaxAge \in Nat /\ LastVersion \in Nat /\ LastDay \in Nat

VARIABLES
    now,        \* the day
    current,    \* the version the provider would answer with
    replaced,   \* the day each version was replaced (history)
    rows,       \* the row of each key
    asked,      \* what each reader is waiting for
    got         \* what the last lookup of each reader returned

cacheVars == <<now, current, replaced, rows, asked, got>>

Versions == 0..LastVersion
NoRow == [at |-> -1]
Idle == [zoom |-> 0]
Nothing == [kind |-> "nothing"]

Stored(z) == rows[z] # NoRow
Got(kind, v) == [kind |-> kind, version |-> v]

CacheInit ==
    /\ now = 0 /\ current = 0
    /\ replaced = [v \in Versions |-> -1]
    /\ rows = [z \in Zooms |-> NoRow]
    /\ asked = [r \in Readers |-> Idle]
    /\ got = [r \in Readers |-> Nothing]

\* Calls to the provider time out within a day.
Tick ==
    /\ now < LastDay
    /\ \A r \in Readers : asked[r] # Idle => asked[r].since = now
    /\ now' = now + 1
    /\ UNCHANGED <<current, replaced, rows, asked, got>>

\* External: the provider adds imagery.
Publish ==
    /\ current < LastVersion
    /\ current' = current + 1
    /\ replaced' = [replaced EXCEPT ![current] = now]
    /\ UNCHANGED <<now, rows, asked, got>>

\* Mutant: any row is fresh enough.
Fresh_Any(z) == Stored(z)

\* get_fresh finds a row.
Fresh(z) == Stored(z) /\ now - rows[z].at <= MaxAge

\* get_or_fetch: a fresh row answers, or the provider is asked.
Lookup(r, z, refresh) ==
    /\ asked[r] = Idle
    /\ IF ~refresh /\ Fresh(z)
       THEN /\ got' = [got EXCEPT ![r] = Got("cached", rows[z].version)]
            /\ UNCHANGED asked
       ELSE /\ asked' = [asked EXCEPT ![r] = [zoom |-> z, since |-> now, answer |-> -1]]
            /\ got' = [got EXCEPT ![r] = Nothing]
    /\ UNCHANGED <<now, current, replaced, rows>>

\* The subprocess ran: its output is the catalog of this moment.
Answer(r) ==
    /\ asked[r] # Idle /\ asked[r].answer = -1
    /\ asked' = [asked EXCEPT ![r].answer = current]
    /\ UNCHANGED <<now, current, replaced, rows, got>>

\* put: an upsert, stamped with the time of the put.
Put(r) ==
    /\ asked[r] # Idle /\ asked[r].answer # -1
    /\ rows' = [rows EXCEPT ![asked[r].zoom] = [at |-> now, version |-> asked[r].answer]]
    /\ got' = [got EXCEPT ![r] = Got("live", asked[r].answer)]
    /\ asked' = [asked EXCEPT ![r] = Idle]
    /\ UNCHANGED <<now, current, replaced>>

\* The database raises after a good answer: at the upsert, which the caller turns
\* into an empty list, or when the caller reads the row's metadata back, outside
\* its try.  A row that was stored before is not asked for.
PutFails(r) ==
    /\ asked[r] # Idle /\ asked[r].answer # -1
    /\ \/ got' = [got EXCEPT ![r] = Got("empty", -1)] /\ UNCHANGED rows
       \/ /\ got' = [got EXCEPT ![r] = Got("raised", -1)]
          /\ rows' = [rows EXCEPT ![asked[r].zoom] = [at |-> now, version |-> asked[r].answer]]
    /\ asked' = [asked EXCEPT ![r] = Idle]
    /\ UNCHANGED <<now, current, replaced>>

\* It raises in get_fresh: an empty list too.
LookupFails(r) ==
    /\ asked[r] = Idle
    /\ got' = [got EXCEPT ![r] = Got("empty", -1)]
    /\ UNCHANGED <<now, current, replaced, rows, asked>>

\* Mutant: the failure of a refresh is not covered by the stored row.
Fail_NoFallback(r) ==
    /\ asked[r] # Idle /\ asked[r].answer = -1
    /\ \E kind \in {"empty", "raised"} : got' = [got EXCEPT ![r] = Got(kind, -1)]
    /\ asked' = [asked EXCEPT ![r] = Idle]
    /\ UNCHANGED <<now, current, replaced, rows>>

\* live_fn raised: the stored row whatever its age, or an empty list (a
\* timeout), or the RuntimeError of a bad return code.
Fail(r) ==
    /\ asked[r] # Idle /\ asked[r].answer = -1
    /\ IF Stored(asked[r].zoom)
       THEN got' = [got EXCEPT ![r] = Got("stale", rows[asked[r].zoom].version)]
       ELSE \E kind \in {"empty", "raised"} : got' = [got EXCEPT ![r] = Got(kind, -1)]
    /\ asked' = [asked EXCEPT ![r] = Idle]
    /\ UNCHANGED <<now, current, replaced, rows>>

\* The process of a reader dies.
Hangup(r) == asked' = [asked EXCEPT ![r] = Idle] /\ got' = [got EXCEPT ![r] = Nothing]

-----------------------------------------------------------------------------
(* Properties.                                                             *)

\* Short of an outage a catalog is not older than it may be: the version a
\* reader is given was the provider's at most MaxAge days and one call ago,
\* also when readers overtake each other between the answer and the put.
CatalogAge ==
    [][\A r \in Readers :
          got'[r] # got[r] /\ got'[r].kind \in {"cached", "live"} =>
              LET v == got'[r].version
              IN  v = current \/ now - replaced[v] <= MaxAge + 1]_cacheVars

=============================================================================

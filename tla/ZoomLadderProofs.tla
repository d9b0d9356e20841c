-------------------------- MODULE ZoomLadderProofs --------------------------
(***************************************************************************)
(* Theorems about the catalogs of GEHI and the chips behind them.  Of the  *)
(* city's catalog, for any routes, anchors and histories: a kill leaves at *)
(* most one query short of its dates, and a merge offers exactly what GEHI *)
(* knows.  Of cache and zoom ladder, for any readers, zooms, ladder        *)
(* without repetitions, age limit and modes: catalogs are young, chips     *)
(* that are served are whole, and a chip on disk is used.                  *)
(***************************************************************************)
EXTENDS ZoomLadder, CatalogProbe, FiniteSetTheorems, WellFoundedInduction, TLAPS

-----------------------------------------------------------------------------
(* The probe of the city.                                                  *)

\* A set of numbers that is not empty has a smallest one.
LEMMA SmallestDate ==
    ASSUME NEW S \in SUBSET Nat, S # {}
    PROVE  Min(S) \in S /\ \A d \in S : Min(S) <= d
<1>1. PICK x \in S : \A y \in S : ~(<<y, x>> \in OpToRel(<, Nat))
  BY NatLessThanWellFounded, WFMin
<1>2. \A y \in S : ~(y < x)
  BY <1>1 DEF OpToRel
<1>3. \A y \in S : x <= y
  BY <1>2
<1> QED
  BY <1>3 DEF Min

\* A finite set of numbers that is not empty has a largest one.
LEMMA LargestDate ==
    ASSUME NEW S \in SUBSET Nat, IsFiniteSet(S), S # {}
    PROVE  Max(S) \in S /\ \A d \in S : d <= Max(S)
<1> DEFINE Over(x) == {e \in S : x < e}
           Family == {X \in SUBSET S : \E x \in S : X = Over(x)}
<1>1. IsWellFoundedOn(StrictSubsetOrdering(S), SUBSET S)
  BY FS_StrictSubsetOrderingWellFounded, FS_FiniteSubsetsOfFinite
<1>2. Family \subseteq SUBSET S /\ \E X \in SUBSET S : X \in Family
  <2>1. PICK x \in S : TRUE
    OBVIOUS
  <2>2. Over(x) \in Family
    BY <2>1
  <2> QED
    BY <2>2
<1>3. PICK X \in Family : \A Y \in Family : ~(<<Y, X>> \in StrictSubsetOrdering(S))
  <2> HIDE DEF Family
  <2> QED
    BY <1>1, <1>2, WFMin
<1>4. PICK x \in S : X = Over(x)
  BY <1>3
<1>5. \A y \in S : y <= x
  <2>1. SUFFICES ASSUME NEW y \in S, x < y PROVE FALSE
    OBVIOUS
  <2>2. Over(y) \in Family /\ Over(y) \subseteq Over(x) /\ y \in Over(x) /\ y \notin Over(y)
    <3>1. \A e \in S : e \in Nat
      OBVIOUS
    <3>2. \A e \in S : (y < e => x < e) /\ ~(y < y)
      BY <2>1, <3>1
    <3> QED
      BY <2>1, <3>2
  <2>3. <<Over(y), X>> \in StrictSubsetOrdering(S)
    BY <1>4, <2>2 DEF StrictSubsetOrdering
  <2> QED
    BY <1>3, <2>2, <2>3
<1> QED
  BY <1>5 DEF Max

\* What is on disk was listed by GEHI.
RowsAreKnown ==
    \A r \in Routes : \A row \in catalogRows[r] : row[3] \in Known(<<row[1], row[2]>>)

\* A route has a query in hand when it asks, and while it writes rows the
\* outcome is on disk and so are the dates it is done with.
InHand(r) ==
    /\ probe[r].at = "ask" => probe[r].key \in Keys
    /\ probe[r].at = "rows" =>
          /\ probe[r].key \in outcomes[r]
          /\ Known(probe[r].key) \ probe[r].unwritten
                 \subseteq Listed(probe[r].key[1], probe[r].key[2])
          /\ probe[r].unwritten \subseteq Known(probe[r].key)

QueryInHand == \A r \in Routes : InHand(r)

ProbeInv == ProbeTypeOK /\ RowsAreKnown /\ QueryInHand

\* What GEHI knows for a query are dates.
LEMMA KnownAreDates ==
    ASSUME ProbeTypeOK, NEW key \in Keys
    PROVE  /\ Known(key) \in SUBSET Dates /\ key = <<key[1], key[2]>>
           /\ key[1] \in Anchors /\ key[2] \in Required
<1>1. key = <<key[1], key[2]>> /\ key[1] \in Anchors /\ key[2] \in Required
  BY DEF Keys
<1>2. history[key[1]] \in [Required -> SUBSET Dates]
  BY <1>1, CatalogProbeAssumption DEF ProbeTypeOK
<1> QED
  BY <1>1, <1>2 DEF Known

\* A route's run is one of Runs after each of its steps.
LEMMA RunsStep ==
    ASSUME ProbeInv, NEW r \in Routes, NEW run \in Runs, probe' = [probe EXCEPT ![r] = run]
    PROVE  probe' \in [Routes -> Runs]
  BY DEF ProbeInv, ProbeTypeOK

\* Every step keeps the shape.
LEMMA ProbeTypeStep == ASSUME ProbeInv, [ProbeNext]_probeVars PROVE ProbeTypeOK'
<1>0. NotProbing \in Runs
  BY CatalogProbeAssumption DEF NotProbing, Runs
<1>1. ASSUME NEW r \in Routes, NEW run \in Runs, probe' = [probe EXCEPT ![r] = run],
             UNCHANGED <<history, shard, outcomes, catalogRows, merged>>, kills' \in 0..MaxKills
      PROVE  ProbeTypeOK'
  BY <1>1, RunsStep DEF ProbeInv, ProbeTypeOK
<1>2. ASSUME NEW r \in Routes, PlanRemaining(r) PROVE ProbeTypeOK'
  BY <1>2 DEF PlanRemaining, ProbeInv, ProbeTypeOK
<1>3. ASSUME NEW r \in Routes, Start(r) PROVE ProbeTypeOK'
  <2>1. [NotProbing EXCEPT !.at = "next", !.todo = (shard[r] \X Required) \ outcomes[r]] \in Runs
    BY <1>0 DEF Runs, ProbeInv, ProbeTypeOK, Keys
  <2> QED
    BY <1>1, <1>3, <2>1 DEF Start, ProbeInv, ProbeTypeOK
<1>4. ASSUME NEW r \in Routes, probe[r].at = "ask" \/ probe[r].at = "rows",
             probe' = [probe EXCEPT ![r] = NextQuery(r)],
             UNCHANGED <<history, shard, outcomes, catalogRows, merged, kills>>
      PROVE  ProbeTypeOK'
  <2>1. NextQuery(r) \in Runs
    BY <1>0 DEF Runs, NextQuery, ProbeInv, ProbeTypeOK
  <2> QED
    BY <1>1, <1>4, <2>1 DEF ProbeInv, ProbeTypeOK
<1>5. ASSUME NEW r \in Routes, NEW key \in Keys, Ask(r, key) PROVE ProbeTypeOK'
  <2>1. [probe[r] EXCEPT !.at = "ask", !.key = key, !.tries = 1, !.todo = @ \ {key}] \in Runs
    <3>1. probe[r] \in Runs /\ 1 \in 0..MaxAttempts
      BY CatalogProbeAssumption DEF ProbeInv, ProbeTypeOK
    <3> QED
      BY <3>1 DEF Runs
  <2> QED
    BY <1>1, <1>5, <2>1 DEF Ask, ProbeInv, ProbeTypeOK
<1>6. ASSUME NEW r \in Routes, Retry(r) PROVE ProbeTypeOK'
  <2>1. [probe[r] EXCEPT !.tries = @ + 1] \in Runs
    <3>1. probe[r] \in Runs
      BY DEF ProbeInv, ProbeTypeOK
    <3>2. probe[r].tries + 1 \in 0..MaxAttempts
      BY <3>1, <1>6, CatalogProbeAssumption DEF Retry, Runs
    <3> QED
      BY <3>1, <3>2 DEF Runs
  <2> QED
    BY <1>1, <1>6, <2>1 DEF Retry, ProbeInv, ProbeTypeOK
<1>7. ASSUME NEW r \in Routes, Answered(r) PROVE ProbeTypeOK'
  <2>1. probe[r].key \in Keys /\ probe[r] \in Runs
    BY <1>7 DEF Answered, ProbeInv, QueryInHand, InHand, ProbeTypeOK
  <2>2. Known(probe[r].key) \in SUBSET Dates
    BY <2>1, KnownAreDates DEF ProbeInv
  <2>3. [probe[r] EXCEPT !.at = "rows", !.unwritten = Known(probe[r].key)] \in Runs
    BY <2>1, <2>2 DEF Runs
  <2>4. probe' \in [Routes -> Runs]
    BY <1>7, <2>3, RunsStep DEF Answered
  <2> QED
    BY <1>7, <2>1, <2>4 DEF Answered, ProbeInv, ProbeTypeOK
<1>8. ASSUME NEW r \in Routes, WriteRow(r) PROVE ProbeTypeOK'
  <2>1. probe[r].key \in Keys /\ probe[r] \in Runs
    BY <1>8 DEF WriteRow, ProbeInv, QueryInHand, InHand, ProbeTypeOK
  <2>2. probe[r].key[1] \in Anchors /\ probe[r].key[2] \in Required
    BY <2>1 DEF Keys
  <2>3. Min(probe[r].unwritten) \in Dates
    BY <1>8, <2>1, SmallestDate, CatalogProbeAssumption DEF WriteRow, Runs
  <2>4. [probe[r] EXCEPT !.unwritten = @ \ {Min(probe[r].unwritten)}] \in Runs
    BY <2>1 DEF Runs
  <2>5. probe' \in [Routes -> Runs]
    BY <1>8, <2>4, RunsStep DEF WriteRow
  <2>6. catalogRows' \in [Routes -> SUBSET (Anchors \X Required \X Dates)]
    BY <1>8, <2>2, <2>3 DEF WriteRow, ProbeInv, ProbeTypeOK
  <2> QED
    BY <1>8, <2>5, <2>6 DEF WriteRow, ProbeInv, ProbeTypeOK
<1>9. ASSUME NEW r \in Routes, GiveUp(r) \/ Written(r) PROVE ProbeTypeOK'
  BY <1>4, <1>9 DEF GiveUp, Written
<1>10. ASSUME NEW r \in Routes, Finish(r) PROVE ProbeTypeOK'
  BY <1>0, <1>1, <1>10 DEF Finish, ProbeInv, ProbeTypeOK
<1>11. ASSUME NEW r \in Routes, KillProbe(r) PROVE ProbeTypeOK'
  <2>1. kills + 1 \in 0..MaxKills
    BY <1>11, CatalogProbeAssumption DEF KillProbe, ProbeInv, ProbeTypeOK
  <2> QED
    BY <1>0, <1>1, <1>11, <2>1 DEF KillProbe
<1>12. CASE Merge
  <2>1. \A a : DatesOf(a, reading, {"TM", "Wayback"}) \subseteq Dates
    BY DEF DatesOf, Listed
  <2>2. \A a : Candidates(a, reading) \subseteq [date : Dates, query : Required]
    BY <2>1 DEF Candidates
  <2>3. \A a \in Anchors : merged'[a].candidates \subseteq [date : Dates, query : Required]
    <3>1. \A a \in Anchors : merged'[a] = Verdict(a, reading)
      BY <1>12 DEF Merge
    <3>2. \A a : Verdict(a, reading).candidates \in {{}, Candidates(a, reading)}
      BY DEF Verdict
    <3> QED
      BY <2>2, <3>1, <3>2
  <2> QED
    BY <1>12, <2>3 DEF Merge, ProbeInv, ProbeTypeOK
<1>13. CASE MergeOutcomes \/ UNCHANGED probeVars
  BY <1>13 DEF MergeOutcomes, probeVars, ProbeInv, ProbeTypeOK
<1> QED
  BY <1>2, <1>3, <1>5, <1>6, <1>7, <1>8, <1>9, <1>10, <1>11, <1>12, <1>13
  DEF ProbeNext

\* Files and catalogs are append-only.
LEMMA FilesGrow ==
    ASSUME ProbeInv, [ProbeNext]_probeVars
    PROVE  /\ history' = history
           /\ \A r \in Routes : outcomes[r] \subseteq outcomes'[r]
                                /\ catalogRows[r] \subseteq catalogRows'[r]
<1> USE DEF ProbeInv, ProbeTypeOK
<1>1. ASSUME NEW r \in Routes, Answered(r) \/ WriteRow(r)
      PROVE  /\ history' = history
             /\ \A q \in Routes : outcomes[q] \subseteq outcomes'[q]
                                  /\ catalogRows[q] \subseteq catalogRows'[q]
  BY <1>1 DEF Answered, WriteRow
<1>2. CASE UNCHANGED <<history, outcomes, catalogRows>>
  BY <1>2
<1> QED
  BY <1>1, <1>2 DEF ProbeNext, probeVars, PlanRemaining, Start, Ask, Retry, GiveUp, Written,
                    Finish, KillProbe, MergeOutcomes, Merge

\* Every step keeps what the files and the routes say of a query.
LEMMA HandStep ==
    ASSUME ProbeInv, [ProbeNext]_probeVars PROVE RowsAreKnown' /\ QueryInHand'
<1>1. /\ history' = history
      /\ \A r \in Routes : outcomes[r] \subseteq outcomes'[r]
                           /\ catalogRows[r] \subseteq catalogRows'[r]
  BY FilesGrow
<1>2. \A key : Known(key)' = Known(key)
  BY <1>1 DEF Known
<1>3. \A a, q : Listed(a, q) \subseteq Listed(a, q)'
  BY <1>1 DEF Listed
<1>4. \A r \in Routes : probe[r] \in Runs
  BY DEF ProbeInv, ProbeTypeOK
<1>5. ASSUME NEW r \in Routes, probe'[r] = probe[r] PROVE InHand(r)'
  BY <1>1, <1>2, <1>3, <1>5 DEF InHand, ProbeInv, QueryInHand
<1>6. ASSUME NEW r \in Routes, probe'[r].at \notin {"ask", "rows"} PROVE InHand(r)'
  BY <1>6 DEF InHand
<1>7. ASSUME NEW r \in Routes, \A q \in Routes : q # r => probe'[q] = probe[q], InHand(r)'
      PROVE  QueryInHand'
  BY <1>5, <1>7 DEF QueryInHand
<1>8. CASE UNCHANGED <<catalogRows, probe>>
  BY <1>1, <1>2, <1>5, <1>8 DEF ProbeInv, RowsAreKnown, QueryInHand
<1>9. ASSUME NEW r \in Routes, Start(r) \/ GiveUp(r) \/ Written(r) \/ Finish(r) \/ KillProbe(r)
      PROVE  RowsAreKnown' /\ QueryInHand'
  <2>1. probe'[r].at \in {"next", "idle"} /\ \A q \in Routes : q # r => probe'[q] = probe[q]
    <3>1. CASE Start(r)
      BY <3>1 DEF Start, NotProbing, ProbeInv, ProbeTypeOK
    <3>2. CASE GiveUp(r) \/ Written(r)
      BY <3>2 DEF GiveUp, Written, NextQuery, NotProbing, ProbeInv, ProbeTypeOK
    <3>3. CASE Finish(r) \/ KillProbe(r)
      BY <3>3 DEF Finish, KillProbe, NotProbing, ProbeInv, ProbeTypeOK
    <3> QED
      BY <1>9, <3>1, <3>2, <3>3
  <2>2. catalogRows' = catalogRows
    BY <1>9 DEF Start, GiveUp, Written, Finish, KillProbe
  <2> QED
    BY <1>2, <1>6, <1>7, <2>1, <2>2 DEF ProbeInv, RowsAreKnown
<1>10. ASSUME NEW r \in Routes, Retry(r) \/ \E key \in Keys : Ask(r, key)
       PROVE  RowsAreKnown' /\ QueryInHand'
  <2>1. /\ probe'[r].at = "ask" /\ probe'[r].key \in Keys
        /\ \A q \in Routes : q # r => probe'[q] = probe[q]
    <3>1. CASE Retry(r)
      BY <1>4, <3>1 DEF Retry, Runs, ProbeInv, ProbeTypeOK, QueryInHand, InHand
    <3>2. ASSUME NEW key \in Keys, Ask(r, key)
          PROVE  /\ probe'[r].at = "ask" /\ probe'[r].key \in Keys
                 /\ \A q \in Routes : q # r => probe'[q] = probe[q]
      BY <1>4, <3>2 DEF Ask, Runs, ProbeInv, ProbeTypeOK
    <3> QED
      BY <1>10, <3>1, <3>2
  <2>2. catalogRows' = catalogRows
    BY <1>10 DEF Ask, Retry
  <2>3. InHand(r)'
    BY <2>1 DEF InHand
  <2> QED
    BY <1>2, <1>7, <2>1, <2>2, <2>3 DEF ProbeInv, RowsAreKnown
<1>11. ASSUME NEW r \in Routes, Answered(r) PROVE RowsAreKnown' /\ QueryInHand'
  <2>1. /\ probe'[r].at = "rows" /\ probe'[r].key = probe[r].key
        /\ probe'[r].unwritten = Known(probe[r].key)
        /\ probe[r].key \in outcomes'[r]
        /\ \A q \in Routes : q # r => probe'[q] = probe[q]
    BY <1>4, <1>11 DEF Answered, Runs, ProbeInv, ProbeTypeOK
  <2>2. catalogRows' = catalogRows
    BY <1>11 DEF Answered
  <2>3. InHand(r)'
    BY <1>2, <2>1 DEF InHand
  <2> QED
    BY <1>2, <1>7, <2>1, <2>2, <2>3 DEF ProbeInv, RowsAreKnown
<1>12. ASSUME NEW r \in Routes, WriteRow(r) PROVE RowsAreKnown' /\ QueryInHand'
  <2>0. PICK key, d : key = probe[r].key /\ d = Min(probe[r].unwritten)
    OBVIOUS
  <2>1. /\ key \in outcomes[r] /\ probe[r].unwritten \subseteq Known(key)
        /\ Known(key) \ probe[r].unwritten \subseteq Listed(key[1], key[2])
        /\ probe[r].unwritten # {} /\ probe[r].unwritten \in SUBSET Dates
    BY <1>4, <1>12, <2>0 DEF WriteRow, ProbeInv, QueryInHand, InHand, Runs
  <2>2. key \in Keys
    BY <2>1 DEF ProbeInv, ProbeTypeOK
  <2>3. key = <<key[1], key[2]>> /\ key[1] \in Anchors /\ key[2] \in Required
    BY <2>2, KnownAreDates DEF ProbeInv
  <2>4. d \in probe[r].unwritten /\ d \in Dates
    BY <2>0, <2>1, SmallestDate, CatalogProbeAssumption
  <2>5. /\ probe'[r].at = "rows" /\ probe'[r].key = key
        /\ probe'[r].unwritten = probe[r].unwritten \ {d}
        /\ \A q \in Routes : q # r => probe'[q] = probe[q]
    BY <1>4, <1>12, <2>0 DEF WriteRow, Runs, ProbeInv, ProbeTypeOK
  <2>6. catalogRows' = [catalogRows EXCEPT ![r] = @ \cup {<<key[1], key[2], d>>}]
    BY <1>12, <2>0 DEF WriteRow
  <2>7. d \in Listed(key[1], key[2])'
    BY <2>4, <2>6 DEF Listed, ProbeInv, ProbeTypeOK
  <2>8. InHand(r)'
    BY <1>1, <1>2, <1>3, <2>1, <2>5, <2>7 DEF InHand
  <2>9. ASSUME NEW q \in Routes, NEW row \in catalogRows'[q]
        PROVE  row[3] \in Known(<<row[1], row[2]>>)
    <3>1. row \in catalogRows[q] \/ row = <<key[1], key[2], d>>
      BY <2>6 DEF ProbeInv, ProbeTypeOK
    <3>2. CASE row = <<key[1], key[2], d>>
      BY <2>1, <2>3, <2>4, <3>2
    <3> QED
      BY <3>1, <3>2 DEF ProbeInv, RowsAreKnown
  <2>10. RowsAreKnown'
    BY <1>2, <2>9 DEF RowsAreKnown
  <2> QED
    BY <1>7, <2>5, <2>8, <2>10
<1>13. ASSUME NEW r \in Routes, PlanRemaining(r) PROVE RowsAreKnown' /\ QueryInHand'
  BY <1>8, <1>13 DEF PlanRemaining
<1>14. CASE MergeOutcomes \/ Merge \/ UNCHANGED probeVars
  BY <1>8, <1>14 DEF MergeOutcomes, Merge, probeVars
<1> QED
  BY <1>9, <1>10, <1>11, <1>12, <1>13, <1>14 DEF ProbeNext

\* There are finitely many queries.
LEMMA KeysAreFinite == IsFiniteSet(Keys)
<1> DEFINE Pairs == {"TM", "Wayback"} \X {18, 19}
           Specs == [provider : {"TM", "Wayback"}, zoom : {18, 19}]
           spec == [p \in Pairs |-> [provider |-> p[1], zoom |-> p[2]]]
<1>1. IsFiniteSet({"TM", "Wayback"}) /\ IsFiniteSet({18, 19})
  <2>1. IsFiniteSet({"TM"}) /\ IsFiniteSet({18})
    BY FS_Singleton
  <2>2. IsFiniteSet({"TM"} \cup {"Wayback"}) /\ IsFiniteSet({18} \cup {19})
    BY <2>1, FS_AddElement
  <2>3. {"TM"} \cup {"Wayback"} = {"TM", "Wayback"} /\ {18} \cup {19} = {18, 19}
    OBVIOUS
  <2> QED
    BY <2>2, <2>3
<1>2. IsFiniteSet(Pairs)
  BY <1>1, FS_Product
<1>3. spec \in Surjection(Pairs, Specs)
  <2>1. \A s \in Specs : <<s.provider, s.zoom>> \in Pairs
                         /\ spec[<<s.provider, s.zoom>>] = s
    OBVIOUS
  <2> QED
    BY <2>1 DEF Surjection
<1>4. IsFiniteSet(Specs)
  <2> HIDE DEF spec, Pairs, Specs
  <2> QED
    BY <1>2, <1>3, FS_Surjection
<1>5. IsFiniteSet(Required)
  BY <1>4, CatalogProbeAssumption, FS_Subset
<1> QED
  BY <1>5, CatalogProbeAssumption, FS_Product DEF Keys

\* What a step does to the queries that are short: a kill may add the one its
\* route was writing, and nothing else adds any.
LEMMA ShortStep ==
    ASSUME ProbeInv, [ProbeNext]_probeVars
    PROVE  \/ Short' \subseteq Short /\ kills' = kills
           \/ \E key : Short' \subseteq Short \cup {key} /\ kills' = kills + 1
<1>1. /\ history' = history
      /\ \A r \in Routes : outcomes[r] \subseteq outcomes'[r]
                           /\ catalogRows[r] \subseteq catalogRows'[r]
  BY FilesGrow
<1>2. \A key : Known(key)' = Known(key)
  BY <1>1 DEF Known
<1>3. \A r \in Routes : probe[r] \in Runs /\ InHand(r)
  BY DEF ProbeInv, ProbeTypeOK, QueryInHand
<1> DEFINE Writes(key) == \E r \in Routes : probe[r].at = "rows" /\ probe[r].key = key
           Lacks(key) == Listed(key[1], key[2]) # Known(key)
<1>4. \A key : key \in Short <=> key \in Succeeded /\ Lacks(key) /\ ~Writes(key)
  BY DEF Short, Incomplete
<1>5. \A key : key \in Short' <=> key \in Succeeded' /\ Lacks(key)' /\ ~Writes(key)'
  BY DEF Short, Incomplete
<1> HIDE DEF Writes, Lacks
<1>6. ASSUME UNCHANGED <<outcomes, catalogRows>>
      PROVE  \A key : (key \in Succeeded' <=> key \in Succeeded) /\ (Lacks(key)' <=> Lacks(key))
  BY <1>2, <1>6 DEF Succeeded, Lacks, Listed
<1>7. CASE UNCHANGED <<outcomes, catalogRows, probe, kills>>
  BY <1>4, <1>5, <1>6, <1>7 DEF Writes
<1>8. ASSUME NEW r \in Routes, UNCHANGED <<outcomes, catalogRows, kills>>,
             probe[r].at # "rows", probe'[r].at # "rows",
             \A q \in Routes : q # r => probe'[q] = probe[q]
      PROVE  Short' \subseteq Short /\ kills' = kills
  <2>1. \A key : Writes(key)' <=> Writes(key)
    BY <1>8 DEF Writes
  <2> QED
    BY <1>4, <1>5, <1>6, <1>8, <2>1
<1>9. ASSUME NEW r \in Routes, Start(r) \/ Retry(r) \/ GiveUp(r) \/ Finish(r)
      PROVE  Short' \subseteq Short /\ kills' = kills
  <2>1. /\ UNCHANGED <<outcomes, catalogRows, kills>>
        /\ probe[r].at # "rows" /\ \A q \in Routes : q # r => probe'[q] = probe[q]
    BY <1>9 DEF Start, Retry, GiveUp, Finish, NotProbing, ProbeInv, ProbeTypeOK
  <2>2. probe'[r].at # "rows"
    <3>1. CASE Start(r)
      BY <3>1 DEF Start, NotProbing, ProbeInv, ProbeTypeOK
    <3>2. CASE GiveUp(r)
      BY <3>2 DEF GiveUp, NextQuery, NotProbing, ProbeInv, ProbeTypeOK
    <3>3. CASE Finish(r)
      BY <3>3 DEF Finish, NotProbing, ProbeInv, ProbeTypeOK
    <3>4. CASE Retry(r)
      BY <1>3, <3>4 DEF Retry, Runs, ProbeInv, ProbeTypeOK
    <3> QED
      BY <1>9, <3>1, <3>2, <3>3, <3>4
  <2> QED
    BY <1>8, <2>1, <2>2
<1>10. ASSUME NEW r \in Routes, NEW key \in Keys, Ask(r, key)
       PROVE  Short' \subseteq Short /\ kills' = kills
  <2>1. /\ UNCHANGED <<outcomes, catalogRows, kills>>
        /\ probe[r].at # "rows" /\ probe'[r].at # "rows"
        /\ \A q \in Routes : q # r => probe'[q] = probe[q]
    BY <1>3, <1>10 DEF Ask, Runs, ProbeInv, ProbeTypeOK
  <2> QED
    BY <1>8, <2>1
<1>11. ASSUME NEW r \in Routes, Answered(r) PROVE Short' \subseteq Short /\ kills' = kills
  <2>1. /\ outcomes' = [outcomes EXCEPT ![r] = @ \cup {probe[r].key}]
        /\ probe[r].at = "ask" /\ probe'[r].at = "rows" /\ probe'[r].key = probe[r].key
        /\ \A q \in Routes : q # r => probe'[q] = probe[q]
        /\ catalogRows' = catalogRows /\ kills' = kills
    BY <1>3, <1>11 DEF Answered, Runs, ProbeInv, ProbeTypeOK
  <2>2. \A key : key \in Succeeded' => key \in Succeeded \/ key = probe[r].key
    BY <2>1 DEF Succeeded, ProbeInv, ProbeTypeOK
  <2>3. \A key : Writes(key)' <=> Writes(key) \/ key = probe[r].key
    BY <2>1 DEF Writes
  <2>4. \A key : Lacks(key)' <=> Lacks(key)
    BY <1>2, <2>1 DEF Lacks, Listed
  <2> QED
    BY <1>4, <1>5, <2>1, <2>2, <2>3, <2>4
<1>12. ASSUME NEW r \in Routes, WriteRow(r) PROVE Short' \subseteq Short /\ kills' = kills
  <2>1. /\ outcomes' = outcomes /\ kills' = kills
        /\ \A q \in Routes : probe'[q].at = probe[q].at /\ probe'[q].key = probe[q].key
    BY <1>3, <1>12 DEF WriteRow, Runs, ProbeInv, ProbeTypeOK
  <2>2. \A key : key \in Succeeded' <=> key \in Succeeded
    BY <2>1 DEF Succeeded
  <2>3. \A key : Writes(key)' <=> Writes(key)
    BY <2>1 DEF Writes
  <2>4. \A key \in Keys : Lacks(key)' => Lacks(key)
    <3>1. SUFFICES ASSUME NEW key \in Keys, ~Lacks(key) PROVE ~Lacks(key)'
      OBVIOUS
    <3>2. Listed(key[1], key[2]) \subseteq Listed(key[1], key[2])'
      BY <1>1 DEF Listed
    <3>3. RowsAreKnown' /\ key = <<key[1], key[2]>>
      BY HandStep, KnownAreDates DEF ProbeInv
    <3>4. Listed(key[1], key[2])' \subseteq Known(key)'
      BY <3>3 DEF Listed, RowsAreKnown
    <3> QED
      BY <1>2, <3>1, <3>2, <3>4 DEF Lacks
  <2>5. Succeeded \subseteq Keys
    BY DEF Succeeded, ProbeInv, ProbeTypeOK
  <2> QED
    BY <1>4, <1>5, <2>1, <2>2, <2>3, <2>4, <2>5
<1>13. ASSUME NEW r \in Routes, Written(r) \/ KillProbe(r)
       PROVE  /\ UNCHANGED <<outcomes, catalogRows>>
              /\ \A key : Writes(key) => Writes(key)' \/ key = probe[r].key
  <2>1. \A q \in Routes : q # r => probe'[q] = probe[q]
    BY <1>13 DEF Written, KillProbe, ProbeInv, ProbeTypeOK
  <2> QED
    BY <1>13, <2>1 DEF Written, KillProbe, Writes
<1>14. ASSUME NEW r \in Routes, Written(r) PROVE Short' \subseteq Short /\ kills' = kills
  <2>1. probe[r].at = "rows" /\ probe[r].unwritten = {} /\ kills' = kills
    BY <1>14 DEF Written
  <2>2. ~Lacks(probe[r].key)
    <3>1. probe[r].key \in Keys /\ Known(probe[r].key)
               \subseteq Listed(probe[r].key[1], probe[r].key[2])
      BY <1>3, <2>1 DEF InHand, ProbeInv, ProbeTypeOK
    <3>2. Listed(probe[r].key[1], probe[r].key[2]) \subseteq Known(probe[r].key)
      BY <3>1, KnownAreDates DEF Listed, ProbeInv, RowsAreKnown
    <3> QED
      BY <3>1, <3>2 DEF Lacks
  <2> QED
    BY <1>4, <1>5, <1>6, <1>13, <1>14, <2>1, <2>2
<1>15. ASSUME NEW r \in Routes, KillProbe(r)
       PROVE  Short' \subseteq Short \cup {probe[r].key} /\ kills' = kills + 1
  BY <1>4, <1>5, <1>6, <1>13, <1>15 DEF KillProbe
<1>16. ASSUME NEW r \in Routes, PlanRemaining(r) PROVE Short' \subseteq Short /\ kills' = kills
  BY <1>4, <1>5, <1>6, <1>16 DEF PlanRemaining, Writes
<1>17. CASE MergeOutcomes \/ Merge \/ UNCHANGED probeVars
  BY <1>7, <1>17 DEF MergeOutcomes, Merge, probeVars
<1> QED
  BY <1>9, <1>10, <1>11, <1>12, <1>14, <1>15, <1>16, <1>17 DEF ProbeNext

ShortIsPaid == IsFiniteSet(Short) /\ Cardinality(Short) <= kills

\* What a merge has read of the outcomes stays on disk.
ReadIsKept == reading = NotMerging \/ reading \subseteq Succeeded

\* The invariant of the probe.
THEOREM ProbeInvariant == ProbeSpec => [](ProbeInv /\ ReadIsKept /\ ShortIsPaid)
<1>1. ASSUME ProbeInit PROVE ProbeInv /\ ReadIsKept /\ ShortIsPaid
  <2>1. NotProbing \in Runs
    BY CatalogProbeAssumption DEF NotProbing, Runs
  <2>2. PICK home \in [Anchors -> Routes] :
               shard = [r \in Routes |-> {a \in Anchors : home[a] = r}]
    BY <1>1 DEF ProbeInit
  <2>3. ProbeTypeOK
    BY <1>1, <2>1, <2>2, CatalogProbeAssumption DEF ProbeInit, ProbeTypeOK, Unmerged
  <2>4. RowsAreKnown /\ QueryInHand
    BY <1>1 DEF ProbeInit, RowsAreKnown, QueryInHand, InHand, NotProbing
  <2>5. Short = {} /\ kills = 0
    BY <1>1 DEF ProbeInit, Short, Incomplete, Succeeded
  <2>6. ReadIsKept
    BY <1>1 DEF ProbeInit, ReadIsKept
  <2> QED
    BY <2>3, <2>4, <2>5, <2>6, FS_EmptySet DEF ProbeInv, ShortIsPaid
<1>2. ASSUME ProbeInv, ReadIsKept, ShortIsPaid, [ProbeNext]_probeVars
      PROVE  ProbeInv' /\ ReadIsKept' /\ ShortIsPaid'
  <2>1. ProbeInv'
    BY <1>2, ProbeTypeStep, HandStep DEF ProbeInv
  <2>2. kills \in Nat
    BY <1>2, CatalogProbeAssumption DEF ProbeInv, ProbeTypeOK
  <2>0. IsFiniteSet(Short) /\ Cardinality(Short) \in Nat /\ Cardinality(Short) <= kills
    BY <1>2, FS_CardinalityType DEF ShortIsPaid
  <2>3. ASSUME Short' \subseteq Short, kills' = kills PROVE ShortIsPaid'
    <3>1. IsFiniteSet(Short') /\ Cardinality(Short') <= Cardinality(Short)
      BY <2>0, <2>3, FS_Subset
    <3>2. Cardinality(Short') \in Nat
      BY <3>1, FS_CardinalityType
    <3> QED
      BY <2>0, <2>2, <2>3, <3>1, <3>2 DEF ShortIsPaid
  <2>4. ASSUME NEW key, Short' \subseteq Short \cup {key}, kills' = kills + 1
        PROVE  ShortIsPaid'
    <3>1. IsFiniteSet(Short \cup {key}) /\ Cardinality(Short \cup {key}) <= kills + 1
               /\ Cardinality(Short \cup {key}) \in Nat
      <4>1. IsFiniteSet(Short \cup {key})
            /\ Cardinality(Short \cup {key}) =
                  IF key \in Short THEN Cardinality(Short) ELSE Cardinality(Short) + 1
        BY <2>0, FS_AddElement
      <4> QED
        BY <2>0, <2>2, <4>1
    <3>2. IsFiniteSet(Short') /\ Cardinality(Short') <= Cardinality(Short \cup {key})
      BY <2>4, <3>1, FS_Subset
    <3>3. Cardinality(Short') \in Nat
      BY <3>2, FS_CardinalityType
    <3> QED
      BY <2>2, <2>4, <3>1, <3>2, <3>3 DEF ShortIsPaid
  <2>5. ReadIsKept'
    <3>1. Succeeded \subseteq Succeeded'
      BY <1>2, FilesGrow DEF Succeeded
    <3>2. reading' \in {reading, NotMerging} \/ reading' = Succeeded
      BY <1>2 DEF ProbeNext, probeVars, PlanRemaining, Start, Ask, Retry, GiveUp, Answered,
                  WriteRow, Written, Finish, KillProbe, MergeOutcomes, Merge
    <3> QED
      BY <1>2, <3>1, <3>2 DEF ReadIsKept, NotMerging
  <2> QED
    BY <1>2, <2>1, <2>3, <2>4, <2>5, ShortStep
<1> QED
  BY <1>1, <1>2, PTL DEF ProbeSpec

\* Whichever way routes share anchors, are blocked, fail, are killed and
\* planned again, each kill leaves at most one query short of its dates.
THEOREM ShortIsBounded == ProbeSpec => []ShortCostsKills
<1>1. ShortIsPaid => ShortCostsKills
  BY DEF ShortIsPaid, ShortCostsKills
<1> QED
  BY <1>1, ProbeInvariant, PTL

\* The cut-off keeps the dates of the window up to the census and the first
\* PostFrames after it.
LEMMA CutoffKeeps ==
    ASSUME NEW S \in SUBSET Dates, NEW d \in S
    PROVE  d <= Cutoff(S) <=>
               /\ d <= MaxDate
               /\ \/ d <= Census
                  \/ Cardinality({e \in S : Census < e /\ e < d}) < PostFrames
<1> USE CatalogProbeAssumption
<1> DEFINE newer == {e \in S : Census < e /\ e <= MaxDate}
           Before(e) == {x \in newer : x < e}
           first == {e \in newer : Cardinality(Before(e)) < PostFrames}
<1>1. /\ Dates \in SUBSET Nat /\ S \in SUBSET Nat /\ d \in Nat /\ IsFiniteSet(S)
      /\ newer \in SUBSET Nat /\ IsFiniteSet(newer) /\ first \subseteq newer
      /\ IsFiniteSet(first)
  BY FS_Subset
<1>2. ASSUME NEW e \in newer
      PROVE  IsFiniteSet(Before(e)) /\ Cardinality(Before(e)) \in Nat
  BY <1>1, FS_Subset, FS_CardinalityType
<1>3. MaxDate \in Nat /\ Census \in Nat
  OBVIOUS
<1>4. d <= MaxDate => {e \in S : Census < e /\ e < d} = Before(d)
  <2>1. ASSUME d <= MaxDate, NEW e \in S PROVE e < d => e <= MaxDate
    <3>1. e \in Nat /\ d \in Nat
      BY <1>1
    <3> QED
      BY <1>3, <2>1, <3>1
  <2> QED
    BY <2>1
<1>5. Cutoff(S) = IF Census >= MaxDate THEN MaxDate
                  ELSE IF PostFrames = 0 \/ newer = {} THEN Census ELSE Max(first)
  BY DEF Cutoff
<1>6. d \in newer <=> ~(d <= Census) /\ d <= MaxDate
  BY <1>1, <1>3
<1> HIDE DEF newer, first, Before
<1>7. CASE Census >= MaxDate
  BY <1>1, <1>3, <1>5, <1>7
<1>8. CASE ~(Census >= MaxDate) /\ (PostFrames = 0 \/ newer = {})
  <2>1. Cutoff(S) = Census
    BY <1>5, <1>8
  <2>2. d \in newer => ~(Cardinality(Before(d)) < PostFrames)
    BY <1>2, <1>8
  <2> QED
    BY <1>1, <1>3, <1>4, <1>6, <1>8, <2>1, <2>2
<1>9. CASE ~(Census >= MaxDate) /\ PostFrames # 0 /\ newer # {}
  <2>1. Cutoff(S) = Max(first)
    BY <1>5, <1>9
  <2>2. PICK m \in newer : \A e \in newer : m <= e
    BY <1>1, <1>9, SmallestDate
  <2>3. m \in first
    <3>1. \A x \in newer : ~(x < m)
      BY <1>1, <2>2
    <3>2. Before(m) = {}
      BY <3>1 DEF Before
    <3>3. Cardinality(Before(m)) = 0
      BY <3>2, FS_EmptySet
    <3>4. 0 < PostFrames
      BY <1>9
    <3> QED
      BY <3>3, <3>4 DEF first
  <2>4. Max(first) \in first /\ Max(first) \in newer /\ \A e \in first : e <= Max(first)
    BY <1>1, <2>3, LargestDate DEF first
  <2>5. CASE d <= Census
    <3>1. Census < Max(first) /\ Max(first) \in Nat
      BY <1>1, <2>4 DEF newer
    <3>2. d <= MaxDate
      BY <1>1, <1>3, <1>9, <2>5
    <3> QED
      BY <1>1, <1>3, <2>1, <2>5, <3>1, <3>2
  <2>6. CASE ~(d <= MaxDate)
    <3>1. Max(first) <= MaxDate /\ Max(first) \in Nat
      BY <1>1, <2>4 DEF newer
    <3> QED
      BY <1>1, <1>3, <2>1, <2>6, <3>1
  <2>7. CASE ~(d <= Census) /\ d <= MaxDate
    <3>1. d \in newer /\ (d \in first <=> Cardinality(Before(d)) < PostFrames)
      BY <1>6, <2>7 DEF first
    <3>2. ASSUME d <= Max(first) PROVE d \in first
      <4>1. Before(d) \in SUBSET Before(Max(first))
        <5>1. PICK top \in Nat : top = Max(first) /\ \A x \in newer : x \in Nat
          BY <1>1, <2>4
        <5>2. \A x \in newer : x < d => x < top
          BY <1>1, <3>2, <5>1
        <5> QED
          BY <5>1, <5>2 DEF Before
      <4>2. Cardinality(Before(d)) <= Cardinality(Before(Max(first)))
        BY <1>2, <2>4, <4>1, FS_Subset
      <4>3. Cardinality(Before(Max(first))) < PostFrames
        BY <2>4 DEF first
      <4>4. Cardinality(Before(d)) \in Nat /\ Cardinality(Before(Max(first))) \in Nat
        BY <1>2, <2>4, <3>1
      <4>5. Cardinality(Before(d)) < PostFrames
        BY <4>2, <4>3, <4>4
      <4> QED
        BY <3>1, <4>5
    <3> QED
      BY <1>4, <2>1, <2>4, <2>7, <3>1, <3>2
  <2> QED
    BY <2>5, <2>6, <2>7
<1> QED
  BY <1>7, <1>8, <1>9

\* All dates GEHI knows of an anchor.
AllDates(a) == UNION {history[a][q] : q \in Required}

\* _candidate_priority puts the queries in a strict order.
LEMMA PriorityIsStrict ==
    /\ \A q \in Required : Priority(q) \in Nat
    /\ \A p, q \in Required : Priority(p) = Priority(q) => p = q
  BY CatalogProbeAssumption DEF Priority

\* What merge reads of an anchor all of whose queries it found answered, and
\* none of which is incomplete.
LEMMA MergeReads ==
    ASSUME NEW ok \in SUBSET Succeeded,
           NEW a \in Anchors, Unresolved(a, ok) = {}, \A key \in Incomplete : key[1] # a
    PROVE  /\ \A q \in Required : Listed(a, q) = history[a][q]
           /\ DatesOf(a, ok, {"TM", "Wayback"}) = AllDates(a)
<1>1. ASSUME NEW q \in Required PROVE Listed(a, q) = history[a][q]
  <2>1. <<a, q>> \in Succeeded /\ <<a, q>> \notin Incomplete
    BY DEF Unresolved
  <2> QED
    BY <2>1 DEF Incomplete, Known
<1>2. {p \in Required \ Unresolved(a, ok) : p.provider \in {"TM", "Wayback"}} = Required
  BY CatalogProbeAssumption
<1> QED
  BY <1>1, <1>2 DEF DatesOf, AllDates

\* What a merge makes of such an anchor.
LEMMA MergeOffers ==
    ASSUME ProbeInv, NEW ok \in SUBSET Succeeded,
           NEW a \in Anchors, Unresolved(a, ok) = {}, \A key \in Incomplete : key[1] # a
    PROVE  /\ {c.date : c \in Candidates(a, ok)} = Offered(a)
           /\ Cardinality(Candidates(a, ok)) = Cardinality(Offered(a))
<1> DEFINE all == AllDates(a)
           C == Candidates(a, ok)
           Best(d, q) == d \in history[a][q]
                         /\ \A p \in Required : d \in history[a][p] => Priority(q) <= Priority(p)
<1>1. \A q \in Required : Listed(a, q) = history[a][q]
  BY MergeReads
<1>2. DatesOf(a, ok, {"TM", "Wayback"}) = all
  BY MergeReads
<1>3. /\ history[a] \in [Required -> SUBSET Dates] /\ all \in SUBSET Dates
      /\ \A q \in Required : history[a][q] \subseteq all
  <2>1. history[a] \in [Required -> SUBSET Dates]
    BY CatalogProbeAssumption DEF ProbeInv, ProbeTypeOK
  <2> QED
    BY <2>1 DEF AllDates
<1>4. \A d : d \in Offered(a) <=> d \in all /\ MinDate <= d /\ d <= Cutoff(all)
  <2>1. Offered(a) = {d \in all : /\ MinDate <= d /\ d <= MaxDate
                                  /\ \/ d <= Census
                                     \/ Cardinality({e \in all : Census < e /\ e < d})
                                            < PostFrames}
    BY DEF Offered, AllDates
  <2> QED
    BY <1>3, <2>1, CutoffKeeps
<1>5. \A c : c \in C <=> /\ c \in [date : all, query : Required]
                         /\ MinDate <= c.date /\ c.date <= Cutoff(all) /\ Best(c.date, c.query)
  BY <1>1, <1>2 DEF Candidates
<1>6. ASSUME NEW d \in all PROVE \E q \in Required : Best(d, q)
  <2> DEFINE Ranks == {Priority(q) : q \in {p \in Required : d \in history[a][p]}}
  <2>1. Ranks \in SUBSET Nat /\ Ranks # {}
    BY PriorityIsStrict DEF AllDates
  <2>2. Min(Ranks) \in Ranks /\ \A k \in Ranks : Min(Ranks) <= k
    BY <2>1, SmallestDate
  <2>3. PICK q \in Required : d \in history[a][q] /\ Priority(q) = Min(Ranks)
    BY <2>2
  <2> QED
    BY <2>2, <2>3
<1>7. \A d \in all : \A p, q \in Required : Best(d, p) /\ Best(d, q) => p = q
  <2>1. SUFFICES ASSUME NEW d \in all, NEW p \in Required, NEW q \in Required,
                        Best(d, p), Best(d, q)
                 PROVE  p = q
    OBVIOUS
  <2>2. Priority(p) <= Priority(q) /\ Priority(q) <= Priority(p)
    BY <2>1
  <2> QED
    BY <2>2, PriorityIsStrict
<1> HIDE DEF all, C, Best
<1>8. \A d \in Offered(a) : \E c \in C : c.date = d
  <2>1. SUFFICES ASSUME NEW d \in Offered(a) PROVE \E c \in C : c.date = d
    OBVIOUS
  <2>2. PICK q \in Required : Best(d, q)
    BY <1>4, <1>6, <2>1
  <2>3. [date |-> d, query |-> q] \in C
    BY <1>3, <1>4, <1>5, <2>1, <2>2
  <2> QED
    BY <2>3
<1>9. \A c \in C : c.date \in Offered(a)
  BY <1>4, <1>5
<1>10. \A b, c \in C : b.date = c.date => b = c
  <2>1. SUFFICES ASSUME NEW b \in C, NEW c \in C, b.date = c.date PROVE b = c
    OBVIOUS
  <2>2. b.query = c.query
    BY <1>5, <1>7, <2>1
  <2> QED
    BY <1>5, <2>1, <2>2
<1>11. {c.date : c \in C} = Offered(a)
  BY <1>8, <1>9
<1>12. Cardinality(C) = Cardinality(Offered(a))
  <2> DEFINE of == [d \in Offered(a) |-> CHOOSE c \in C : c.date = d]
  <2>1. \A d \in Offered(a) : of[d] \in C /\ of[d].date = d
    BY <1>8
  <2>2. of \in Bijection(Offered(a), C)
    <3>1. of \in [Offered(a) -> C]
      BY <2>1
    <3>2. \A c \in C : c.date \in Offered(a) /\ of[c.date] = c
      BY <1>9, <1>10, <2>1
    <3>3. \A d, e \in Offered(a) : of[d] = of[e] => d = e
      BY <2>1
    <3> HIDE DEF of
    <3>4. of \in Injection(Offered(a), C)
      BY <3>1, <3>3 DEF Injection, IsInjective
    <3>5. of \in Surjection(Offered(a), C)
      BY <3>1, <3>2 DEF Surjection
    <3> QED
      BY <3>4, <3>5 DEF Bijection
  <2>3. IsFiniteSet(Offered(a))
    BY <1>3, <1>4, CatalogProbeAssumption, FS_Subset
  <2> QED
    BY <2>2, <2>3, FS_Bijection DEF ExistsBijection
<1> QED
  BY <1>11, <1>12 DEF C

\* A merge releases an anchor with exactly the dates GEHI knows of it in the
\* window and up to the cut-off, one candidate for each, also beside routes that
\* write, unless a query of it is short by a kill or still being written.
THEOREM MergeHolds == ProbeSpec => MergeIsFaithful
<1> DEFINE Faithful ==
        \A a \in Anchors :
            (merged' # merged /\ Released(merged'[a]) /\ \A key \in Incomplete : key[1] # a) =>
                /\ {c.date : c \in merged'[a].candidates} = Offered(a)
                /\ Cardinality(merged'[a].candidates) = Cardinality(Offered(a))
<1>1. ASSUME ProbeInv, ReadIsKept, [ProbeNext]_probeVars PROVE [Faithful]_probeVars
  <2>1. CASE Merge
    <3>1. SUFFICES ASSUME NEW a \in Anchors, Released(merged'[a]),
                          \A key \in Incomplete : key[1] # a
                   PROVE  /\ {c.date : c \in merged'[a].candidates} = Offered(a)
                          /\ Cardinality(merged'[a].candidates) = Cardinality(Offered(a))
      OBVIOUS
    <3>2. merged'[a] = Verdict(a, reading) /\ reading \in SUBSET Succeeded
      BY <1>1, <2>1 DEF Merge, ReadIsKept
    <3>3. Unresolved(a, reading) = {}
      BY <3>1, <3>2 DEF Verdict, Released
    <3>4. merged'[a].candidates = Candidates(a, reading)
      BY <3>2, <3>3 DEF Verdict
    <3> QED
      BY <1>1, <3>1, <3>2, <3>3, <3>4, MergeOffers
  <2>2. CASE merged' = merged
    BY <2>2
  <2> QED
    BY <1>1, <2>1, <2>2 DEF ProbeNext, probeVars, PlanRemaining, Start, Ask, Retry, GiveUp,
                            Answered, WriteRow, Written, Finish, KillProbe, MergeOutcomes
<1> QED
  BY <1>1, ProbeInvariant, PTL DEF ProbeSpec, MergeIsFaithful

-----------------------------------------------------------------------------
(* Catalog cache and zoom ladder.                                          *)

USE CacheAssumption, LadderAssumption

-----------------------------------------------------------------------------
(* The cache.                                                              *)

Row == [at : Nat, version : Versions]
Query == [zoom : Zooms, since : Nat, answer : {-1} \cup Versions]
Kinds == {"cached", "live", "stale", "empty", "raised"}
Reply == [kind : Kinds, version : {-1} \cup Versions]

CacheShape ==
    /\ now \in Nat /\ current \in Versions
    /\ replaced \in [Versions -> Int]
    /\ rows \in [Zooms -> Row \cup {NoRow}]
    /\ asked \in [Readers -> Query \cup {Idle}]
    /\ got \in [Readers -> Reply \cup {Nothing}]

\* What was current on a day, or has been replaced on it or later.
CurrentSince(v, day) == v = current \/ replaced[v] >= day

\* An answer is as old as its call at most, a call takes a day, and a row is
\* at most a day older than its stamp says.
Young ==
    /\ \A z \in Zooms : Stored(z) =>
          rows[z].at <= now /\ CurrentSince(rows[z].version, rows[z].at - 1)
    /\ \A r \in Readers : asked[r] # Idle =>
          /\ asked[r].since <= now /\ now <= asked[r].since + 1
          /\ asked[r].answer # -1 => CurrentSince(asked[r].answer, asked[r].since)

\* A record of one kind is not one of another.
LEMMA Kinds3 ==
    /\ NoRow \notin Row /\ Idle \notin Query /\ Nothing \notin Reply
    /\ Nothing.kind \notin {"cached", "live", "stale", "empty", "raised"}
<1>1. \A r \in Row : r.at # -1
  BY DEF Row
<1>2. \A a \in Query : a.zoom # 0
  BY DEF Query
<1>3. \A g \in Reply : g.kind # "nothing"
  BY DEF Reply, Kinds
<1> QED
  BY <1>1, <1>2, <1>3 DEF NoRow, Idle, Nothing

\* The steps of the cache: those of other readers, the clock and the provider,
\* and the lookups of the scan.
CacheStep ==
    \/ Tick \/ Publish
    \/ \E r \in Readers : Answer(r) \/ Put(r) \/ Fail(r)
    \/ \E r \in Readers : PutFails(r) \/ LookupFails(r)
    \/ \E r \in Readers, z \in Zooms, refresh \in BOOLEAN : Lookup(r, z, refresh)
    \/ /\ \E a \in {asked, [asked EXCEPT ![Scan] = Idle]} : asked' = a
       /\ \E g \in {got, [got EXCEPT ![Scan] = Nothing]} : got' = g
       /\ UNCHANGED <<now, current, replaced, rows>>

\* Every step of the scan is one of the cache, or leaves it alone.
LEMMA StepOfCache ==
    ASSUME [Next]_vars, rung \in 1..Len(Ladder), mode \in Modes PROVE CacheStep
<1> USE DEF cacheVars, ladderVars
<1>0. Zoom \in Zooms /\ mode.refresh \in BOOLEAN
  BY DEF Zoom
<1>1. CASE Begin \/ SkipCached \/ NotListed \/ ServeCached \/ CallGehi
  BY <1>1 DEF Begin, SkipCached, NotListed, ServeCached, CallGehi, CacheStep
<1>2. CASE GehiSucceeds \/ GehiFails \/ GehiWrites
  BY <1>2 DEF GehiSucceeds, GehiFails, GehiWrites, CacheStep
<1>3. CASE CheckVintage
  BY <1>0, <1>3 DEF CheckVintage, CacheStep
<1>4. CASE Memoize \/ CheckRaises
  BY <1>4 DEF Memoize, CheckRaises, CacheStep
<1>5. CASE Kill
  BY <1>5 DEF Kill, Hangup, CacheStep
<1>6. CASE Others
  BY <1>6 DEF Others, CacheStep
<1>7. CASE StoreFails
  BY <1>7 DEF StoreFails, CacheStep
<1>8. CASE UNCHANGED vars
  BY <1>8 DEF vars, CacheStep
<1> QED
  BY <1>1, <1>2, <1>3, <1>4, <1>5, <1>6, <1>7, <1>8 DEF Next, Ladders

\* The cache keeps its types.
LEMMA CacheShapeStep ==
    ASSUME CacheShape, CacheStep PROVE CacheShape'
<1> USE DEF CacheShape
<1>1. CASE Tick
  BY <1>1 DEF Tick
<1>2. CASE Publish
  BY <1>2 DEF Publish, Versions
<1>3. ASSUME NEW r \in Readers, Answer(r) PROVE CacheShape'
  <2>1. asked[r] \in Query
    BY <1>3 DEF Answer
  <2>2. [asked[r] EXCEPT !.answer = current] \in Query
    BY <2>1 DEF Query
  <2>3. asked' = [asked EXCEPT ![r] = [asked[r] EXCEPT !.answer = current]]
    BY <1>3 DEF Answer
  <2> QED
    BY <1>3, <2>2, <2>3 DEF Answer
<1>4. ASSUME NEW r \in Readers, Put(r) PROVE CacheShape'
  <2>1. asked[r] \in Query /\ asked[r].answer \in Versions /\ asked[r].zoom \in Zooms
    BY <1>4 DEF Put, Query
  <2>2. [at |-> now, version |-> asked[r].answer] \in Row
    BY <2>1 DEF Row
  <2>3. Got("live", asked[r].answer) \in Reply
    BY <2>1 DEF Got, Reply, Kinds
  <2> QED
    BY <1>4, <2>1, <2>2, <2>3 DEF Put
<1>5. ASSUME NEW r \in Readers, Fail(r) PROVE CacheShape'
  <2>1. asked[r] \in Query /\ asked[r].zoom \in Zooms
    BY <1>5 DEF Fail, Query
  <2>2. Stored(asked[r].zoom) => Got("stale", rows[asked[r].zoom].version) \in Reply
    BY <2>1 DEF Stored, Got, Reply, Kinds, Row
  <2>3. Got("empty", -1) \in Reply /\ Got("raised", -1) \in Reply
    BY DEF Got, Reply, Kinds
  <2> QED
    BY <1>5, <2>1, <2>2, <2>3 DEF Fail
<1>6. ASSUME NEW r \in Readers, NEW z \in Zooms, NEW refresh \in BOOLEAN,
             Lookup(r, z, refresh)
      PROVE  CacheShape'
  <2>1. Fresh(z) => Got("cached", rows[z].version) \in Reply
    BY DEF Fresh, Stored, Got, Reply, Kinds, Row
  <2>2. [zoom |-> z, since |-> now, answer |-> -1] \in Query
    BY DEF Query
  <2> QED
    BY <1>6, <2>1, <2>2 DEF Lookup
<1>7. CASE /\ \E a \in {asked, [asked EXCEPT ![Scan] = Idle]} : asked' = a
           /\ \E g \in {got, [got EXCEPT ![Scan] = Nothing]} : got' = g
           /\ UNCHANGED <<now, current, replaced, rows>>
  BY <1>7
<1>8. ASSUME NEW r \in Readers, PutFails(r) PROVE CacheShape'
  <2>1. asked[r] \in Query /\ asked[r].answer \in Versions /\ asked[r].zoom \in Zooms
    BY <1>8 DEF PutFails, Query
  <2>2. [at |-> now, version |-> asked[r].answer] \in Row
    BY <2>1 DEF Row
  <2>3. Got("empty", -1) \in Reply /\ Got("raised", -1) \in Reply
    BY DEF Got, Reply, Kinds
  <2>4. \E kind \in {"empty", "raised"} : got' = [got EXCEPT ![r] = Got(kind, -1)]
    BY <1>8 DEF PutFails
  <2>5. got' \in [Readers -> Reply \cup {Nothing}]
    BY <2>3, <2>4
  <2>6. /\ rows' = rows
           \/ rows' = [rows EXCEPT ![asked[r].zoom] = [at |-> now, version |-> asked[r].answer]]
        /\ asked' = [asked EXCEPT ![r] = Idle] /\ UNCHANGED <<now, current, replaced>>
    BY <1>8 DEF PutFails
  <2>7. rows' \in [Zooms -> Row \cup {NoRow}]
    BY <2>1, <2>2, <2>6
  <2> QED
    BY <2>5, <2>6, <2>7
<1>9. ASSUME NEW r \in Readers, LookupFails(r) PROVE CacheShape'
  <2>1. Got("empty", -1) \in Reply
    BY DEF Got, Reply, Kinds
  <2> QED
    BY <1>9, <2>1 DEF LookupFails
<1> QED
  BY <1>1, <1>2, <1>3, <1>4, <1>5, <1>6, <1>7, <1>8, <1>9 DEF CacheStep

\* Rows and answers stay young.
LEMMA YoungStep ==
    ASSUME CacheShape, Young, CacheStep PROVE Young'
<1> USE DEF Young, CurrentSince, Stored
<1>1. CASE Tick
  BY <1>1 DEF Tick, CacheShape, Row, Query
<1>2. CASE Publish
  <2>1. \A v \in Versions : replaced'[v] = IF v = current THEN now ELSE replaced[v]
    BY <1>2 DEF Publish, CacheShape
  <2>2. \A z \in Zooms : Stored(z) => rows[z] \in Row
    BY DEF CacheShape
  <2>3. \A r \in Readers : asked[r] # Idle => asked[r] \in Query
    BY DEF CacheShape
  <2>4. \A z \in Zooms : Stored(z) =>
            rows[z].at <= now /\ CurrentSince(rows[z].version, rows[z].at - 1)'
    BY <1>2, <2>1, <2>2 DEF Publish, CacheShape, Row
  <2>5. \A r \in Readers : asked[r] # Idle /\ asked[r].answer # -1 =>
            CurrentSince(asked[r].answer, asked[r].since)'
    BY <1>2, <2>1, <2>3 DEF Publish, CacheShape, Query
  <2> QED
    BY <1>2, <2>4, <2>5 DEF Publish
<1>3. ASSUME NEW r \in Readers, Answer(r) PROVE Young'
  BY <1>3 DEF Answer, CacheShape, Query
<1>4. ASSUME NEW r \in Readers, Put(r) \/ PutFails(r), rows' # rows PROVE Young'
  <2>1. /\ asked[r] \in Query /\ asked[r].zoom \in Zooms
        /\ now <= asked[r].since + 1 /\ CurrentSince(asked[r].answer, asked[r].since)
    BY <1>4 DEF Put, PutFails, CacheShape, Query
  <2>2. \A q \in Readers : asked'[q] # Idle => asked'[q] = asked[q]
    BY <1>4 DEF Put, PutFails, CacheShape
  <2>3. \A z \in Zooms : rows'[z] = IF z = asked[r].zoom
                                    THEN [at |-> now, version |-> asked[r].answer]
                                    ELSE rows[z]
    BY <1>4 DEF Put, PutFails, CacheShape
  <2>4. UNCHANGED <<now, current, replaced>>
    BY <1>4 DEF Put, PutFails
  <2>5. \A z \in Zooms : Stored(z)' =>
            rows'[z].at <= now /\ CurrentSince(rows'[z].version, rows'[z].at - 1)
    <3> SUFFICES ASSUME NEW z \in Zooms, Stored(z)'
                 PROVE  rows'[z].at <= now /\ CurrentSince(rows'[z].version, rows'[z].at - 1)
      OBVIOUS
    <3>1. CASE z = asked[r].zoom
      <4>1. rows'[z].at = now /\ rows'[z].version = asked[r].answer
        BY <2>3, <3>1
      <4>2. asked[r].since \in Nat /\ asked[r].since >= now - 1
        <5>1. asked[r].since \in Nat /\ now \in Nat
          BY <2>1 DEF Query, CacheShape
        <5> QED
          BY <2>1, <5>1
      <4>3. asked[r].answer \in Versions
        BY <1>4, <2>1 DEF Put, PutFails, Query
      <4>4. replaced[asked[r].answer] \in Int
        BY <4>3 DEF CacheShape
      <4>5. asked[r].answer = current \/ replaced[asked[r].answer] >= now - 1
        BY <2>1, <4>2, <4>4 DEF CacheShape
      <4> QED
        BY <2>4, <4>1, <4>5 DEF CacheShape
    <3>2. CASE z # asked[r].zoom
      BY <2>3, <2>4, <3>2
    <3> QED
      BY <3>1, <3>2
  <2> QED
    BY <2>2, <2>4, <2>5
<1>5. ASSUME NEW r \in Readers, Fail(r) PROVE Young'
  BY <1>5 DEF Fail, CacheShape
<1>6. ASSUME NEW r \in Readers, NEW z \in Zooms, NEW refresh \in BOOLEAN,
             Lookup(r, z, refresh)
      PROVE  Young'
  BY <1>6 DEF Lookup, CacheShape
<1>7. CASE /\ \E a \in {asked, [asked EXCEPT ![Scan] = Idle]} : asked' = a
           /\ \E g \in {got, [got EXCEPT ![Scan] = Nothing]} : got' = g
           /\ UNCHANGED <<now, current, replaced, rows>>
  BY <1>7 DEF CacheShape
<1>8. ASSUME NEW r \in Readers, Put(r) \/ PutFails(r), rows' = rows PROVE Young'
  <2>1. UNCHANGED <<now, current, replaced, rows>>
    BY <1>8 DEF Put, PutFails
  <2>2. \A q \in Readers : asked'[q] # Idle => asked'[q] = asked[q]
    BY <1>8 DEF Put, PutFails, CacheShape
  <2> QED
    BY <2>1, <2>2
<1>9. ASSUME NEW r \in Readers, LookupFails(r) PROVE Young'
  BY <1>9 DEF LookupFails
<1> QED
  BY <1>1, <1>2, <1>3, <1>4, <1>5, <1>6, <1>7, <1>8, <1>9 DEF CacheStep

\* What was replaced when, and what is current, changes by Publish alone.
\* However readers overtake each other, a catalog is at most as old as it may
\* be plus the day a call takes.
LEMMA LookupsAreYoung ==
    ASSUME CacheShape, Young, CacheStep, NEW r \in Readers,
           got'[r] # got[r], got'[r].kind \in {"cached", "live"}
    PROVE  got'[r].version = current \/ now - replaced[got'[r].version] <= MaxAge + 1
<1> USE DEF CacheShape
<1>1. CASE Tick \/ Publish
  BY <1>1 DEF Tick, Publish
<1>2. ASSUME NEW q \in Readers, Answer(q) PROVE FALSE
  BY <1>2 DEF Answer
<1>3. ASSUME NEW q \in Readers, Put(q)
      PROVE  got'[r].version = current \/ now - replaced[got'[r].version] <= MaxAge + 1
  <2>1. q = r /\ got'[r].version = asked[r].answer
    BY <1>3 DEF Put, Got
  <2>2. /\ asked[r] \in Query /\ asked[r].answer \in Versions
        /\ now <= asked[r].since + 1 /\ CurrentSince(asked[r].answer, asked[r].since)
    BY <1>3, <2>1 DEF Put, Young, Query
  <2>3. asked[r].since \in Nat /\ now - asked[r].since <= 1
    BY <2>2 DEF Query
  <2>4. replaced[asked[r].answer] \in Int
    BY <2>2
  <2> QED
    BY <2>1, <2>2, <2>3, <2>4 DEF CurrentSince
<1>4. ASSUME NEW q \in Readers, Fail(q) PROVE FALSE
  <2>1. q = r
    BY <1>4 DEF Fail
  <2>2. got'[r].kind \in {"stale", "empty", "raised"}
    BY <1>4, <2>1 DEF Fail, Got
  <2> QED
    BY <2>2
<1>5. ASSUME NEW q \in Readers, NEW z \in Zooms, NEW refresh \in BOOLEAN,
             Lookup(q, z, refresh)
      PROVE  got'[r].version = current \/ now - replaced[got'[r].version] <= MaxAge + 1
  <2>1. q = r
    BY <1>5 DEF Lookup
  <2>2. CASE ~refresh /\ Fresh(z)
    <3>1. got'[r].version = rows[z].version
      BY <1>5, <2>1, <2>2 DEF Lookup, Got
    <3>2. /\ rows[z] \in Row /\ now - rows[z].at <= MaxAge
          /\ CurrentSince(rows[z].version, rows[z].at - 1)
      BY <2>2 DEF Fresh, Stored, Young
    <3>3. rows[z].at \in Nat /\ replaced[rows[z].version] \in Int
      BY <3>2 DEF Row
    <3> QED
      BY <3>1, <3>2, <3>3 DEF CurrentSince
  <2>3. CASE ~(~refresh /\ Fresh(z))
    <3>1. got'[r] = Nothing
      BY <1>5, <2>1, <2>3 DEF Lookup
    <3> QED
      BY <3>1, Kinds3
  <2> QED
    BY <2>2, <2>3
<1>6. CASE /\ \E a \in {asked, [asked EXCEPT ![Scan] = Idle]} : asked' = a
           /\ \E g \in {got, [got EXCEPT ![Scan] = Nothing]} : got' = g
           /\ UNCHANGED <<now, current, replaced, rows>>
  <2>1. got'[r] = Nothing
    BY <1>6
  <2> QED
    BY <2>1, Kinds3
<1>7. ASSUME NEW q \in Readers, PutFails(q) \/ LookupFails(q) PROVE FALSE
  <2>1. q = r
    BY <1>7 DEF PutFails, LookupFails
  <2>2. got'[r].kind \in {"empty", "raised"}
    BY <1>7, <2>1 DEF PutFails, LookupFails, Got
  <2> QED
    BY <2>2
<1> QED
  BY <1>1, <1>2, <1>3, <1>4, <1>5, <1>6, <1>7 DEF CacheStep

-----------------------------------------------------------------------------
(* The ladder.                                                             *)

LadderShape ==
    /\ chips \in [Zooms -> {"none", "whole", "partial"}]
    /\ mode \in Modes
    /\ pc \in {"idle", "cached", "live", "called", "done"}
    /\ rung \in 1..Len(Ladder)
    /\ memo \in [Zooms -> {"unset", "listed", "unlisted"}]
    /\ spoiled \subseteq Zooms /\ known \subseteq Zooms

\* A run that goes on has returned nothing, and an offline one never gets to
\* the live loop.
NothingYet ==
    /\ pc \in {"cached", "live", "called"} => result = 0
    /\ pc \in {"live", "called"} => ~mode.offline

\* Rows are never dropped.
KnownIsStored == \A z \in known : Stored(z)

\* The scan asks for the zoom it is at, once, and finds no answer only where
\* no row was stored.
Asking ==
    /\ asked[Scan] # Idle => /\ Checks /\ memo[Zoom] = "unset" /\ got[Scan] = Nothing
                             /\ asked[Scan].zoom = Zoom /\ ~mode.offline
    /\ got[Scan] # Nothing => /\ Checks /\ memo[Zoom] = "unset" /\ ~mode.offline
                              /\ got[Scan].kind = "raised" => Zoom \notin known

\* A zoom with a usable chip the cached pass has been at and left.
Settled(z) == NonEmpty(z) /\ z >= mode.minZoom /\ z \in known => memo[z] = "unlisted"
Passed ==
    /\ pc = "cached" /\ ~mode.offline => \A i \in 1..(rung - 1) : Settled(Ladder[i])
    /\ pc = "live" /\ ~mode.overwrite => \A i \in rung..Len(Ladder) : Settled(Ladder[i])
    /\ pc = "called" /\ ~mode.overwrite => \A i \in (rung + 1)..Len(Ladder) : Settled(Ladder[i])

LadderInv == LadderShape /\ NothingYet /\ KnownIsStored /\ Asking /\ ServedIsWhole /\ Passed
Inv == CacheShape /\ Young /\ LadderInv

\* The steps of other readers, the clock and the provider.
LEMMA OthersStep ==
    ASSUME CacheShape, LadderInv, Others, UNCHANGED ladderVars
    PROVE  LadderInv'
<1> USE DEF ladderVars, CacheShape
<1>1. /\ LadderShape' /\ NothingYet' /\ ServedIsWhole'
      /\ (Passed' <=> Passed) /\ (Checks' <=> Checks) /\ Zoom' = Zoom
      /\ UNCHANGED <<memo, known, mode>>
  BY DEF LadderInv, LadderShape, NothingYet, ServedIsWhole, Passed, Settled, NonEmpty, Checks, Zoom
<1>2. \A z \in Zooms : Stored(z) => Stored(z)'
  <2>1. \A v \in Versions : [at |-> now, version |-> v] \in Row
    BY DEF Row
  <2>2. CASE \E r \in Readers : Put(r)
    <3>1. PICK r \in Readers : Put(r)
      BY <2>2
    <3>2. asked[r].answer \in Versions
      BY <3>1 DEF Put, Query
    <3> QED
      BY <2>1, <3>1, <3>2, Kinds3 DEF Put, Stored
  <2>3. CASE ~\E r \in Readers : Put(r)
    BY <2>3 DEF Others, Tick, Publish, Answer, Fail, Lookup, Stored
  <2> QED
    BY <2>2, <2>3
<1>3. KnownIsStored'
  BY <1>1, <1>2 DEF KnownIsStored, LadderInv, LadderShape
<1>4. Asking'
  <2> USE DEF LadderInv, Asking
  <2>1. CASE Tick \/ Publish
    BY <1>1, <2>1 DEF Tick, Publish
  <2>2. ASSUME NEW r \in Readers, Answer(r) PROVE Asking'
    <3>1. asked'[Scan] # Idle => asked[Scan] # Idle /\ asked'[Scan].zoom = asked[Scan].zoom
      BY <2>2 DEF Answer, Query
    <3> QED
      BY <1>1, <2>2, <3>1 DEF Answer
  <2>3. ASSUME NEW r \in Readers, Put(r) PROVE Asking'
    <3>1. CASE r = Scan
      <4>1. asked'[Scan] = Idle /\ got'[Scan].kind = "live" /\ Checks
            /\ memo[Zoom] = "unset" /\ ~mode.offline
        BY <2>3, <3>1 DEF Put, Got
      <4> QED
        BY <1>1, <4>1
    <3>2. CASE r # Scan
      BY <1>1, <2>3, <3>2 DEF Put
    <3> QED
      BY <3>1, <3>2
  <2>4. ASSUME NEW r \in Readers, Fail(r) PROVE Asking'
    <3>1. CASE r = Scan
      <4>1. asked'[Scan] = Idle /\ Checks /\ memo[Zoom] = "unset"
            /\ asked[Scan].zoom = Zoom /\ ~mode.offline
        BY <2>4, <3>1 DEF Fail
      <4>2. got'[Scan].kind = "raised" => ~Stored(Zoom)
        BY <2>4, <3>1, <4>1 DEF Fail, Got
      <4>3. got'[Scan].kind = "raised" => Zoom \notin known
        BY <4>2 DEF KnownIsStored
      <4> QED
        BY <1>1, <4>1, <4>3
    <3>2. CASE r # Scan
      BY <1>1, <2>4, <3>2 DEF Fail
    <3> QED
      BY <3>1, <3>2
  <2>5. ASSUME NEW r \in Readers \ {Scan}, NEW z \in Browsed, Lookup(r, z, FALSE)
        PROVE  Asking'
    <3>1. asked'[Scan] = asked[Scan] /\ got'[Scan] = got[Scan]
      BY <2>5 DEF Lookup
    <3> QED
      BY <1>1, <3>1
  <2> QED
    BY <2>1, <2>2, <2>3, <2>4, <2>5 DEF Others
<1> QED
  BY <1>1, <1>3, <1>4 DEF LadderInv

\* The call goes on to the next zoom, to the live loop or to its end.
LEMMA Moves ==
    ASSUME LadderInv, pc \in {"cached", "live"}, Advance,
           pc = "cached" /\ ~mode.offline => Settled(Zoom),
           asked'[Scan] = Idle, got'[Scan] = Nothing,
           UNCHANGED <<rows, chips, mode, memo, known, spoiled, result>>
    PROVE  LadderInv'
<1> USE DEF LadderInv, LadderShape
<1>1. /\ LadderShape' /\ pc' \in {"cached", "live", "done"}
      /\ pc' = "cached" => pc = "cached"
  BY DEF Advance
<1>2. NothingYet'
  BY DEF Advance, NothingYet
<1>3. KnownIsStored'
  BY DEF KnownIsStored, Stored
<1>4. Asking'
  BY DEF Asking
<1>5. ServedIsWhole'
  <2>1. \A z \in Zooms : chips[z] = "partial" => z \in spoiled
    BY DEF ServedIsWhole
  <2>2. result \notin Zooms
    BY DEF NothingYet
  <2> QED
    BY <1>1, <2>1, <2>2 DEF ServedIsWhole
<1>6. \A i \in 1..Len(Ladder) : Settled(Ladder[i])' <=> Settled(Ladder[i])
  BY DEF Settled, NonEmpty
<1>7. CASE pc = "cached" /\ rung < Len(Ladder)
  <2>1. pc' = "cached" /\ rung' = rung + 1
    BY <1>7 DEF Advance
  <2>2. \A i \in 1..(rung' - 1) : i = rung \/ i \in 1..(rung - 1)
    BY <2>1
  <2>3. ~mode.offline => \A i \in 1..(rung' - 1) : Settled(Ladder[i])
    BY <1>7, <2>2 DEF Passed, Zoom
  <2>4. ~mode.offline => \A i \in 1..(rung' - 1) : Settled(Ladder[i])'
    BY <1>6, <1>7, <2>1, <2>3
  <2>5. Passed'
    BY <2>1, <2>4 DEF Passed
  <2> QED
    BY <1>1, <1>2, <1>3, <1>4, <1>5, <2>5
<1>8. CASE pc = "cached" /\ ~(rung < Len(Ladder))
  <2>1. rung = Len(Ladder) /\ rung' = 1
    BY <1>8 DEF Advance
  <2>2. ~mode.offline => \A i \in 1..Len(Ladder) : Settled(Ladder[i])
    BY <1>8, <2>1 DEF Passed, Zoom
  <2>3. ~mode.offline => \A i \in 1..Len(Ladder) : Settled(Ladder[i])'
    BY <1>6, <2>2
  <2>4. pc' \in {"live", "done"} /\ (pc' = "live" => ~mode.offline)
    BY <1>8 DEF Advance
  <2>5. Passed'
    BY <2>1, <2>3, <2>4 DEF Passed
  <2> QED
    BY <1>1, <1>2, <1>3, <1>4, <1>5, <2>5
<1>9. CASE pc = "live"
  <2>1. \/ pc' = "done"
        \/ pc' = "live" /\ rung' = rung + 1
    <3>1. ~(pc = "cached")
      BY <1>9
    <3>2. CASE rung < Len(Ladder)
      BY ONLY <1>9, <3>2, Advance, Zenon DEF Advance
    <3>3. CASE ~(rung < Len(Ladder))
      BY ONLY <3>1, <3>3, Advance, Zenon DEF Advance
    <3> QED
      BY <3>2, <3>3
  <2>2. ~mode.overwrite => \A i \in rung..Len(Ladder) : Settled(Ladder[i])'
    BY <1>6, <1>9 DEF Passed
  <2>3. Passed'
    BY <2>1, <2>2 DEF Passed
  <2> QED
    BY <1>1, <1>2, <1>3, <1>4, <1>5, <2>3
<1> QED
  BY <1>7, <1>8, <1>9

\* What the scan itself does to the ladder.
LEMMA ScanStep ==
    ASSUME CacheShape, LadderInv, Begin \/ Ladders \/ GehiWrites \/ Kill
    PROVE  LadderInv'
<1> USE DEF LadderInv, LadderShape
<1>0. Zoom \in Zooms /\ \A i \in 1..Len(Ladder) : Ladder[i] \in Zooms
  BY DEF Zoom
<1>1. CASE Begin
  <2>1. /\ LadderShape' /\ NothingYet'
    BY <1>1 DEF Begin, NothingYet
  <2>2. KnownIsStored'
    BY <1>1 DEF Begin, KnownIsStored, Stored, cacheVars
  <2>3. Asking'
    BY <1>1 DEF Begin, Asking, Checks, cacheVars
  <2>4. ServedIsWhole'
    BY <1>1 DEF Begin, ServedIsWhole
  <2>5. Passed'
    BY <1>1 DEF Begin, Passed
  <2> QED
    BY <2>1, <2>2, <2>3, <2>4, <2>5
<1>2. CASE SkipCached
  <2>1. ~NonEmpty(Zoom) \/ ~(Zoom >= mode.minZoom)
    BY <1>2 DEF SkipCached, Checks
  <2>2. asked[Scan] = Idle /\ got[Scan] = Nothing
    BY <1>2 DEF SkipCached, Asking
  <2> QED
    BY <1>2, <2>1, <2>2, Moves DEF SkipCached, Settled, cacheVars
<1>3. CASE NotListed
  <2>1. asked[Scan] = Idle /\ got[Scan] = Nothing
    BY <1>3 DEF NotListed, Asking
  <2> QED
    BY <1>3, <2>1, Moves DEF NotListed, Checks, Settled, cacheVars
<1>4. CASE CheckRaises
  <2>1. Nothing.kind # "raised"
    BY DEF Nothing
  <2>2. /\ asked[Scan] = Idle
        /\ ~mode.offline => got[Scan] # Nothing /\ Zoom \notin known
    BY <1>4, <2>1 DEF CheckRaises, Asking
  <2>3. asked'[Scan] = Idle /\ got'[Scan] = Nothing
    BY <1>4, <2>2 DEF CheckRaises, CacheShape
  <2> QED
    BY <1>4, <2>2, <2>3, Moves DEF CheckRaises, Checks, Settled
<1>5. CASE CheckVintage
  <2>1. /\ LadderShape' /\ NothingYet' /\ KnownIsStored' /\ ServedIsWhole'
        /\ (Passed' <=> Passed) /\ (Checks' <=> Checks) /\ Zoom' = Zoom
        /\ UNCHANGED <<memo, known, mode>>
    BY <1>5 DEF CheckVintage, Lookup, ladderVars, NothingYet, KnownIsStored, Stored,
                ServedIsWhole, Passed, Settled, NonEmpty, Checks, Zoom
  <2>2. CASE ~mode.refresh /\ Fresh(Zoom)
    <3>1. /\ got' = [got EXCEPT ![Scan] = Got("cached", rows[Zoom].version)]
          /\ asked' = asked /\ got[Scan] = Nothing
      BY <1>5, <2>2 DEF CheckVintage, Lookup
    <3>2. got'[Scan].kind = "cached"
      BY <3>1 DEF CacheShape, Got
    <3>3. asked[Scan] = Idle
      BY <1>5 DEF CheckVintage, Lookup
    <3>4. Asking'
      BY <1>5, <2>1, <3>1, <3>2, <3>3 DEF CheckVintage, Asking
    <3> QED
      BY <2>1, <3>4
  <2>3. CASE ~(~mode.refresh /\ Fresh(Zoom))
    <3>1. asked'[Scan].zoom = Zoom /\ got'[Scan] = Nothing
      BY <1>5, <2>3 DEF CheckVintage, Lookup, CacheShape
    <3>2. Asking'
      BY <1>5, <2>1, <3>1 DEF CheckVintage, Asking
    <3> QED
      BY <2>1, <3>2
  <2> QED
    BY <2>2, <2>3
<1>6. CASE Memoize
  <2>1. /\ got[Scan] # Nothing /\ memo[Zoom] = "unset" /\ Checks
        /\ got'[Scan] = Nothing /\ asked'[Scan] = asked[Scan] /\ asked[Scan] = Idle
    BY <1>6 DEF Memoize, Asking, CacheShape, Nothing
  <2>2. /\ LadderShape' /\ NothingYet' /\ KnownIsStored' /\ ServedIsWhole'
    BY <1>6 DEF Memoize, NothingYet, KnownIsStored, Stored, ServedIsWhole, Zoom
  <2>3. Asking'
    BY <2>1 DEF Asking
  <2>4. \A z \in Zooms : Settled(z) => Settled(z)'
    BY <1>6, <2>1 DEF Memoize, Settled, NonEmpty
  <2>5. \A i \in 1..Len(Ladder) : Settled(Ladder[i]) => Settled(Ladder[i])'
    BY <1>0, <2>4
  <2>6. UNCHANGED <<pc, rung, mode>> /\ pc # "called"
    BY <1>6 DEF Memoize, Checks
  <2>7. /\ \A i \in 1..(rung - 1) : i \in 1..Len(Ladder)
        /\ \A i \in rung..Len(Ladder) : i \in 1..Len(Ladder)
    OBVIOUS
  <2>8. Passed'
    BY <2>5, <2>6, <2>7 DEF Passed
  <2> QED
    BY <2>2, <2>3, <2>8
<1>7. CASE ServeCached
  <2>1. asked[Scan] = Idle /\ got[Scan] = Nothing
    BY <1>7 DEF ServeCached, Asking
  <2>2. LadderShape' /\ NothingYet' /\ KnownIsStored' /\ Asking' /\ Passed'
    BY <1>7, <2>1 DEF ServeCached, NothingYet, KnownIsStored, Stored, Asking, Passed, cacheVars
  <2>3. NonEmpty(Zoom) /\ pc = "cached"
    BY <1>7 DEF ServeCached, Checks
  <2>4. ServedIsWhole'
    BY <1>0, <1>7, <2>3 DEF ServeCached, ServedIsWhole, NonEmpty
  <2> QED
    BY <2>2, <2>4
<1>8. CASE CallGehi
  <2>1. asked[Scan] = Idle /\ got[Scan] = Nothing
    BY <1>8 DEF CallGehi, Asking
  <2>2. LadderShape' /\ NothingYet' /\ KnownIsStored' /\ Asking' /\ ServedIsWhole'
    BY <1>8, <2>1 DEF CallGehi, NothingYet, KnownIsStored, Stored, Asking, ServedIsWhole, cacheVars
  <2>3. \A i \in 1..Len(Ladder) : Settled(Ladder[i])' <=> Settled(Ladder[i])
    BY <1>8 DEF CallGehi, Settled, NonEmpty
  <2>4. Passed'
    BY <1>8, <2>3 DEF CallGehi, Passed
  <2> QED
    BY <2>2, <2>4
<1>9. CASE GehiWrites \/ GehiSucceeds \/ GehiFails
  <2>1. asked[Scan] = Idle /\ got[Scan] = Nothing /\ UNCHANGED cacheVars /\ pc = "called"
    BY <1>9 DEF GehiWrites, GehiSucceeds, GehiFails, Asking, Checks
  <2>2. LadderShape'
    <3>1. CASE GehiWrites \/ GehiSucceeds
      BY <1>0, <3>1 DEF GehiWrites, GehiSucceeds
    <3>2. CASE GehiFails
      <4>1. /\ chips' = [chips EXCEPT ![Zoom] = "none"] \/ chips' = chips
            /\ spoiled' \subseteq spoiled \cup {Zoom}
            /\ pc' \in {"live", "done"} /\ UNCHANGED <<mode, memo, known>>
        BY <3>2 DEF GehiFails, Fault
      <4>2. rung' \in 1..Len(Ladder)
        BY <3>2 DEF GehiFails
      <4> QED
        BY <1>0, <4>1, <4>2
    <3> QED
      BY <1>9, <3>1, <3>2
  <2>3. NothingYet' /\ KnownIsStored'
    BY <1>9, <2>1 DEF GehiWrites, GehiSucceeds, GehiFails, Fault, NothingYet, KnownIsStored,
                      Stored, cacheVars
  <2>4. Asking'
    BY <2>1 DEF Asking, cacheVars
  <2>5. ServedIsWhole'
    <3>1. \A z \in Zooms : chips[z] = "partial" => z \in spoiled \/ z = Zoom
      BY DEF ServedIsWhole
    <3>2. CASE GehiWrites
      BY <1>0, <3>1, <3>2 DEF GehiWrites, ServedIsWhole, Zoom
    <3>3. CASE GehiSucceeds
      BY <1>0, <3>1, <3>3 DEF GehiSucceeds, ServedIsWhole
    <3>4. CASE GehiFails
      <4>1. \A z \in Zooms : chips'[z] = "partial" => z \in spoiled'
        BY <1>0, <3>1, <3>4 DEF GehiFails, Fault
      <4>2. result' \notin Zooms
        BY <3>4 DEF GehiFails, NothingYet
      <4> QED
        BY <4>1, <4>2 DEF ServedIsWhole
    <3> QED
      BY <1>9, <3>2, <3>3, <3>4
  <2>6. \A z \in Zooms \ {Zoom} : chips'[z] = chips[z]
    BY <1>9 DEF GehiWrites, GehiSucceeds, GehiFails
  <2>7. \A i \in (rung + 1)..Len(Ladder) : Ladder[i] \in Zooms \ {Zoom}
    BY <1>0 DEF Zoom
  <2>8. UNCHANGED <<mode, memo, known>>
    BY <1>9 DEF GehiWrites, GehiSucceeds, GehiFails
  <2>9. ~mode.overwrite => \A i \in (rung + 1)..Len(Ladder) : Settled(Ladder[i])'
    BY <2>1, <2>6, <2>7, <2>8 DEF Passed, Settled, NonEmpty
  <2>10. \/ pc' = "done"
         \/ pc' = "called" /\ rung' = rung
         \/ pc' = "live" /\ rung' = rung + 1
    <3>1. CASE GehiWrites \/ GehiSucceeds
      BY <2>1, <3>1 DEF GehiWrites, GehiSucceeds
    <3>2. CASE GehiFails
      <4>1. CASE rung < Len(Ladder)
        BY ONLY <3>2, <4>1 DEF GehiFails
      <4>2. CASE ~(rung < Len(Ladder))
        BY ONLY <3>2, <4>2 DEF GehiFails
      <4> QED
        BY <4>1, <4>2
    <3> QED
      BY <1>9, <3>1, <3>2
  <2>11. Passed'
    BY <2>8, <2>9, <2>10 DEF Passed
  <2> QED
    BY <2>2, <2>3, <2>4, <2>5, <2>11
<1>10. CASE Kill
  <2>1. LadderShape' /\ NothingYet' /\ KnownIsStored' /\ Passed'
    BY <1>0, <1>10 DEF Kill, NothingYet, KnownIsStored, Passed
  <2>2. Asking'
    BY <1>10 DEF Kill, Hangup, Asking, CacheShape
  <2>3. ServedIsWhole'
    BY <1>10 DEF Kill, ServedIsWhole
  <2> QED
    BY <2>1, <2>2, <2>3
<1> QED
  BY <1>1, <1>2, <1>3, <1>4, <1>5, <1>6, <1>7, <1>8, <1>9, <1>10 DEF Ladders

\* The database of the cache fails the scan, which no longer counts the row as
\* known, or another reader.
LEMMA StoreFailsStep ==
    ASSUME CacheShape, LadderInv, StoreFails
    PROVE  LadderInv'
<1> USE DEF LadderInv, LadderShape, CacheShape
<1>1. /\ UNCHANGED <<chips, mode, pc, rung, memo, spoiled, result>> /\ known' \subseteq known
      /\ (Checks' <=> Checks) /\ Zoom' = Zoom
  BY DEF StoreFails, Checks, NonEmpty, Zoom
<1>2. LadderShape' /\ NothingYet'
  BY <1>1 DEF NothingYet
<1>3. ServedIsWhole'
  BY <1>1 DEF ServedIsWhole
<1>4. KnownIsStored'
  <2>1. \A v \in Versions : [at |-> now, version |-> v] # NoRow
    BY DEF NoRow
  <2>2. ASSUME NEW r \in Readers, PutFails(r) PROVE KnownIsStored'
    <3>1. asked[r].answer \in Versions /\ asked[r].zoom \in Zooms
      BY <2>2 DEF PutFails, Query
    <3> QED
      BY <1>1, <2>1, <2>2, <3>1 DEF PutFails, KnownIsStored, Stored
  <2>3. CASE LookupFails(Scan)
    BY <1>1, <2>3 DEF LookupFails, KnownIsStored, Stored
  <2> QED
    BY <2>2, <2>3 DEF StoreFails
<1>5. Asking'
  <2>1. CASE /\ PutFails(Scan)
             /\ known' = known \ {asked[Scan].zoom}
    <3>1. /\ Checks /\ memo[Zoom] = "unset" /\ ~mode.offline /\ asked'[Scan] = Idle
          /\ asked[Scan].zoom = Zoom
      BY <2>1 DEF PutFails, Asking
    <3> QED
      BY <1>1, <2>1, <3>1 DEF Asking
  <2>2. ASSUME NEW r \in Readers \ {Scan}, PutFails(r), known' = known PROVE Asking'
    <3>1. asked'[Scan] = asked[Scan] /\ got'[Scan] = got[Scan]
      BY <2>2 DEF PutFails
    <3> QED
      BY <1>1, <2>2, <3>1 DEF Asking
  <2>3. CASE /\ Checks /\ memo[Zoom] = "unset" /\ ~mode.offline
             /\ LookupFails(Scan)
             /\ known' = known \ {Zoom}
    BY <1>1, <2>3 DEF LookupFails, Asking
  <2> QED
    BY <2>1, <2>2, <2>3 DEF StoreFails
<1>6. Passed'
  <2>1. \A i \in 1..Len(Ladder) : Settled(Ladder[i]) => Settled(Ladder[i])'
    BY <1>1 DEF Settled, NonEmpty
  <2> QED
    BY <1>1, <2>1 DEF Passed
<1> QED
  BY <1>2, <1>3, <1>4, <1>5, <1>6

-----------------------------------------------------------------------------
(* Theorems.                                                               *)

\* The invariant holds at first.
LEMMA InitInv == Init => Inv
<1> SUFFICES ASSUME Init PROVE Inv
  OBVIOUS
<1>1. CacheShape
  BY DEF Init, CacheInit, CacheShape, Versions
<1>2. Young
  BY DEF Init, CacheInit, Young, Stored
<1>3. mode \in Modes
  BY DEF Init
<1>4. LadderShape
  <2>1. Len(Ladder) \in Nat /\ 1 \in 1..Len(Ladder)
    OBVIOUS
  <2>2. chips \in [Zooms -> {"none", "whole", "partial"}]
    BY DEF Init
  <2>3. memo \in [Zooms -> {"unset", "listed", "unlisted"}]
    BY DEF Init
  <2> QED
    BY <1>3, <2>1, <2>2, <2>3 DEF Init, LadderShape
<1>5. NothingYet /\ KnownIsStored
  BY DEF Init, NothingYet, KnownIsStored
<1>6. Asking
  BY DEF Init, CacheInit, Asking
<1>7. ServedIsWhole
  <2>1. \A z \in Zooms : chips[z] # "partial"
    BY DEF Init
  <2> QED
    BY <2>1 DEF Init, ServedIsWhole
<1>8. Passed
  BY DEF Init, Passed
<1> QED
  BY <1>1, <1>2, <1>4, <1>5, <1>6, <1>7, <1>8 DEF Inv, LadderInv

\* Every step keeps the invariant.
LEMMA InvStep == Inv /\ [Next]_vars => Inv'
<1> SUFFICES ASSUME Inv, [Next]_vars PROVE Inv'
  OBVIOUS
<1>1. CacheStep
  BY StepOfCache DEF Inv, LadderInv, LadderShape
<1>2. CacheShape' /\ Young'
  BY <1>1, CacheShapeStep, YoungStep DEF Inv
<1>3. CASE Begin \/ Ladders \/ GehiWrites \/ Kill
  BY <1>2, <1>3, ScanStep DEF Inv
<1>4. CASE Others /\ UNCHANGED ladderVars
  BY <1>2, <1>4, OthersStep DEF Inv
<1>5. CASE UNCHANGED vars
  <2> USE DEF vars, cacheVars, ladderVars, Inv, LadderInv
  <2>1. LadderShape' /\ NothingYet' /\ KnownIsStored'
    BY <1>5 DEF LadderShape, NothingYet, KnownIsStored, Stored
  <2>2. Asking'
    BY <1>5 DEF Asking, Checks, NonEmpty, Zoom
  <2>3. ServedIsWhole'
    BY <1>5 DEF ServedIsWhole, Zoom
  <2>4. Passed'
    BY <1>5 DEF Passed, Settled, NonEmpty
  <2> QED
    BY <1>2, <2>1, <2>2, <2>3, <2>4
<1>6. CASE StoreFails
  BY <1>2, <1>6, StoreFailsStep DEF Inv
<1> QED
  BY <1>3, <1>4, <1>5, <1>6 DEF Next

\* The inductive invariant of cache and ladder.
THEOREM ImageryInvariant == Spec => []Inv
<1>1. Init => Inv
  BY InitInv
<1>2. Inv /\ [Next]_vars => Inv'
  BY InvStep
<1> QED
  BY <1>1, <1>2, PTL DEF Spec

\* Whatever GEHI calls fail and wherever a scan is killed, a chip that is
\* served is whole, unless a kill or a failed unlink left it half written.
THEOREM ChipsServedAreWhole == Spec => []ServedIsWhole
<1>1. Inv => ServedIsWhole
  BY DEF Inv, LadderInv
<1> QED
  BY <1>1, ImageryInvariant, PTL

\* No reader is given a catalog that was replaced more than MaxAge days and a
\* call ago, short of an outage.
THEOREM CatalogsAreYoung == Spec => CatalogAge
<1>1. Inv /\ [Next]_vars => [\A r \in Readers :
          got'[r] # got[r] /\ got'[r].kind \in {"cached", "live"} =>
              LET v == got'[r].version
              IN  v = current \/ now - replaced[v] <= MaxAge + 1]_cacheVars
  <2> SUFFICES ASSUME Inv, [Next]_vars, NEW r \in Readers,
                      got'[r] # got[r], got'[r].kind \in {"cached", "live"}
               PROVE  got'[r].version = current
                         \/ now - replaced[got'[r].version] <= MaxAge + 1
    OBVIOUS
  <2>1. CacheStep
    BY StepOfCache DEF Inv, LadderInv, LadderShape
  <2> QED
    BY <2>1, LookupsAreYoung DEF Inv
<1> QED
  BY <1>1, ImageryInvariant, PTL DEF Spec, CatalogAge

\* An ordinary run never downloads over a chip on disk that it could have
\* taken, where the catalog of the zoom was stored when it began and the
\* cache's database did not fail the scan on it.
THEOREM ChipsOnDiskAreUsed == Spec => ChipOnDiskIsUsed
<1>1. Inv /\ [Next]_vars =>
        [pc = "live" /\ pc' = "called" /\ ~mode.overwrite /\ NonEmpty(Zoom)
           => Zoom < mode.minZoom \/ Zoom \notin known]_vars
  <2> SUFFICES ASSUME Inv, [Next]_vars, pc = "live", pc' = "called", ~mode.overwrite,
                      NonEmpty(Zoom)
               PROVE  Zoom < mode.minZoom \/ Zoom \notin known
    OBVIOUS
  <2>1. CallGehi
    BY DEF Next, Begin, Ladders, SkipCached, CheckVintage, Memoize, CheckRaises, NotListed,
           ServeCached, GehiSucceeds, GehiFails, GehiWrites, Kill, StoreFails, Others, Advance,
           ladderVars, vars
  <2>2. memo[Zoom] = "listed"
    BY <2>1 DEF CallGehi
  <2>3. Settled(Zoom)
    BY DEF Inv, LadderInv, LadderShape, Passed, Zoom
  <2>4. mode.minZoom \in Nat /\ Zoom \in Nat
    <3>1. mode \in Modes /\ rung \in 1..Len(Ladder)
      BY DEF Inv, LadderInv, LadderShape
    <3>2. Ladder[rung] \in Zooms
      BY <3>1
    <3>3. mode.minZoom \in Nat
      BY <3>1
    <3>4. Zooms \subseteq Nat
      OBVIOUS
    <3> QED
      BY <3>2, <3>3, <3>4, Zenon DEF Zoom
  <2>5. Zoom >= mode.minZoom <=> ~(Zoom < mode.minZoom)
    BY <2>4
  <2>6. NonEmpty(Zoom) /\ Zoom >= mode.minZoom /\ Zoom \in known => memo[Zoom] = "unlisted"
    BY <2>3, Zenon DEF Settled
  <2>7. "listed" # "unlisted"
    OBVIOUS
  <2> QED
    BY <2>2, <2>5, <2>6, <2>7, Zenon
<1> QED
  BY <1>1, ImageryInvariant, PTL DEF Spec, ChipOnDiskIsUsed

=============================================================================

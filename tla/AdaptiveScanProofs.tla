------------------------- MODULE AdaptiveScanProofs -------------------------
(***************************************************************************)
(* Theorems about run_adaptive_scan.py.  Of the scan of an anchor, for any *)
(* dates, catalogs, verdicts, interrupts and changes of the catalog: no    *)
(* date is paid for twice, the file only grows, a terminal status is       *)
(* backed by frames, and so is the interval inferred from it.  Of the      *)
(* batch, for any number of anchors and workers: what the exit code says   *)
(* is true of the state files, and a quota or model event leaves an anchor *)
(* to be resumed.                                                          *)
(***************************************************************************)
EXTENDS InstallDates, ScanBatch, FiniteSetTheorems, SequenceTheorems, WellFoundedInduction, TLAPS

-----------------------------------------------------------------------------
(* Dates.                                                                  *)

\* A set of dates that is not empty has a newest one.
LEMMA HasNewest ==
    ASSUME NEW S \in SUBSET Nat, IsFiniteSet(S), S # {}
    PROVE  Newest(S) \in S /\ \A e \in S : e <= Newest(S)
<1> DEFINE Over(x) == {e \in S : x < e}
           Family == {X \in SUBSET S : \E x \in S : X = Over(x)}
<1>1. IsWellFoundedOn(StrictSubsetOrdering(S), SUBSET S)
  BY FS_StrictSubsetOrderingWellFounded, FS_FiniteSubsetsOfFinite
<1>2. Family \subseteq SUBSET S /\ \E X \in SUBSET S : X \in Family
  <2>1. PICK x \in S : TRUE
    OBVIOUS
  <2>2. Over(x) \in Family
    BY <2>1
  <2> QED
    BY <2>2
<1>3. PICK X \in Family : \A Y \in Family : ~(<<Y, X>> \in StrictSubsetOrdering(S))
  <2> HIDE DEF Family
  <2> QED
    BY <1>1, <1>2, WFMin
<1>4. PICK x \in S : X = Over(x)
  BY <1>3
<1>5. X = {}
  <2> SUFFICES ASSUME NEW y \in X PROVE FALSE
    OBVIOUS
  <2>1. y \in S /\ x < y /\ Over(y) \in Family
    BY <1>4
  <2>2. Over(y) \subseteq X /\ y \notin Over(y)
    <3>1. \A e \in S : e \in Nat
      OBVIOUS
    <3>2. \A e \in S : y < e => x < e
      BY <2>1, <3>1
    <3>3. ~(y < y)
      BY <2>1, <3>1
    <3> QED
      BY <1>4, <3>2, <3>3
  <2>3. <<Over(y), X>> \in StrictSubsetOrdering(S)
    BY <1>3, <2>1, <2>2 DEF StrictSubsetOrdering
  <2> QED
    BY <1>3, <2>1, <2>3
<1>6. \A e \in S : e <= x
  BY <1>4, <1>5
<1> QED
  BY <1>4, <1>6 DEF Newest

\* And an oldest one.
LEMMA HasOldest ==
    ASSUME NEW S \in SUBSET Nat, S # {}
    PROVE  Oldest(S) \in S /\ \A e \in S : Oldest(S) <= e
<1>1. PICK x \in S : \A y \in S : ~(<<y, x>> \in OpToRel(<, Nat))
  BY NatLessThanWellFounded, WFMin
<1>2. \A y \in S : ~(y < x)
  BY <1>1 DEF OpToRel
<1>3. \A y \in S : x <= y
  BY <1>2
<1> QED
  BY <1>3 DEF Oldest

\* Sets of dates are finite sets of numbers other than 0.
LEMMA DatesAreFinite ==
    ASSUME NEW S \in SUBSET Dates
    PROVE  /\ IsFiniteSet(S) /\ S \in SUBSET Nat /\ 0 \notin S
           /\ S # {} => /\ Newest(S) \in S /\ Oldest(S) \in S
                        /\ \A e \in S : Oldest(S) <= e /\ e <= Newest(S)
<1>1. IsFiniteSet(S) /\ S \in SUBSET Nat /\ 0 \notin S
  BY ScanAssumption, FS_Subset
<1> QED
  BY <1>1, HasNewest, HasOldest

\* select_evenly_spaced_picks takes some of the vintages, the oldest among them.
LEMMA EvenlySpacedTakes ==
    ASSUME NEW S \in SUBSET Dates, S # {}
    PROVE  EvenlySpaced(S) \subseteq S /\ Oldest(S) \in EvenlySpaced(S)
<1>1. IsFiniteSet(S) /\ S \in SUBSET Nat /\ Oldest(S) \in S /\ \A e \in S : Oldest(S) <= e
  BY DatesAreFinite
<1>2. {e \in S : e < Oldest(S)} = {}
  <2>1. \A e \in S : e \in Nat /\ Oldest(S) \in Nat /\ Oldest(S) <= e
    BY <1>1
  <2>2. \A e \in S : ~(e < Oldest(S))
    BY <2>1
  <2> QED
    BY <2>2
<1>3. Cardinality({e \in S : e < Oldest(S)}) = 0
  BY <1>2, FS_EmptySet
<1>4. 0 \in EvenIndices(Cardinality(S))
  BY DEF EvenIndices
<1> QED
  BY <1>1, <1>3, <1>4 DEF EvenlySpaced

-----------------------------------------------------------------------------
(* The rounds.                                                             *)

Round == [type : RoundTypes, start : Dates \cup {0}, picks : SUBSET Dates,
          results : SUBSET [date : Dates, verdict : Verdicts]]

DatesOf(round) == {r.date : r \in round.results}

\* The rounds of a scan: every pick has one result, no date is picked twice, every
\* round after the first picks something, and a round starts at a frame that
\* was scored, except for a first round without frames.
History(rs) ==
    /\ rs \in Seq(Round)
    /\ \A i \in 1..Len(rs) : DatesOf(rs[i]) = rs[i].picks
    /\ \A i \in 1..Len(rs) : \A x, y \in rs[i].results : x.date = y.date => x = y
    /\ \A i, j \in 1..Len(rs) : i # j => rs[i].picks \cap rs[j].picks = {}
    /\ \A i \in 1..Len(rs) : i > 1 => rs[i].picks # {}
    /\ \A i \in 1..Len(rs) : IF rs[i].start = 0 THEN i = 1 /\ rs[i].picks = {}
                                               ELSE rs[i].start \in Scored(rs)

Has(rs, type) == \E i \in 1..Len(rs) : rs[i].type = type

Evident(C) == {v \in C : v < Census}

\* No vintage of C between the absent and the present frames is left.
Tight(rs, C) ==
    \A v \in Evident(C) :
        /\ \A a \in Absent(rs) : a < v
        /\ \A p \in Present(rs) : v < p
        => v \in Scored(rs)

\* The oldest vintage of C was scored.
Swept(rs, C) == \E v \in Evident(C) \cap Scored(rs) : \A w \in Evident(C) : v <= w

\* What the rounds say of a catalog C that stayed, rather than drifted.
Planned(rs, C, D) ==
    ~D => /\ Scored(rs) \subseteq C
          /\ \A i \in 1..Len(rs) : rs[i].start # 0 => rs[i].start \in Evident(C)
          /\ Has(rs, "bisection") => Tight(rs, C)
          /\ Has(rs, "tail") => Swept(rs, C)

\* What a terminal status rests on.
Backed(s, C, D) ==
    /\ s.status = "done_appears" =>
        /\ Present(s.rounds) # {} /\ Absent(s.rounds) # {}
        /\ ~IsNonmonotonic(s.rounds)
        /\ ~D => Tight(s.rounds, C)
    /\ s.status = "done_installed_during_census" =>
        /\ Present(s.rounds) = {}
        /\ Newest(Evident(C)) \in Absent(s.rounds)
    /\ s.status = AlreadyPresent =>
        /\ Absent(s.rounds) = {} /\ Present(s.rounds) # {}
        /\ ~D => Swept(s.rounds, C)

ScanState == [status : Statuses, rounds : Seq(Round)]

\* The file, the state in memory and what they have to do with each other.
ScanInv ==
    /\ catalog \in Catalogs /\ drifted \in BOOLEAN /\ interrupts \in 0..MaxInterrupts
    /\ pc \in {"idle", "resolve", "loop", "unsaved"}
    /\ state \in ScanState /\ saved \in ScanState
    /\ saved.status = "none" => saved.rounds = <<>>
    /\ History(saved.rounds) /\ Planned(saved.rounds, catalog, drifted)
    /\ pc # "idle" => /\ state.status = "scanning" /\ saved.status = "scanning"
                      /\ History(state.rounds)
                      /\ Planned(state.rounds, catalog, drifted)
    /\ pc \in {"resolve", "loop"} => state = saved
    /\ pc = "unsaved" => \E r \in Round : state.rounds = Append(saved.rounds, r)
    /\ Backed(saved, catalog, drifted)

\* The vintages of C that a walk back has still before it, and their years; an
\* absent frame ends the walk.
OlderIn(rs, C) == {v \in Evident(C) \ Scored(rs) : v < LastRound(rs).start}
OpenYears(rs, C) == IF Absent(rs) = {} THEN Years(OlderIn(rs, C)) ELSE {}

\* The years of C a scan has left behind, once it saw panels.
Walked(rs, C) ==
    IF Present(rs) = {} THEN 0
    ELSE Cardinality(Years(Evident(C))) - Cardinality(OpenYears(rs, C))

\* What every round raises: the first round, the recoveries, the bisection and
\* the years of the walk back.
Measure(rs, C) ==
    (IF rs = <<>> THEN 0 ELSE 1) + CountType(rs, "anchor_recovery")
    + (IF CountType(rs, "bisection") > 0 THEN 1 ELSE 0) + Walked(rs, C)

\* A run went through its loop no more often than the measure has grown.
IterInv ==
    /\ iter \in Nat
    /\ CountType(saved.rounds, "anchor_recovery") <= MaxRecovery
    /\ pc # "idle" => CountType(state.rounds, "anchor_recovery") <= MaxRecovery
    /\ pc = "resolve" => iter = 0
    /\ pc = "loop" => iter <= Measure(state.rounds, catalog)
    /\ pc = "unsaved" => iter + 1 <= Measure(state.rounds, catalog)

-----------------------------------------------------------------------------
(* What the rounds say.                                                    *)

\* What is scored is what was picked; the frames that count are some of it.
LEMMA ScoredIsPicked ==
    ASSUME NEW rs, History(rs)
    PROVE  /\ Len(rs) \in Nat /\ DOMAIN rs = 1..Len(rs)
           /\ \A i \in 1..Len(rs) : rs[i] \in Round
           /\ Scored(rs) = UNION {rs[i].picks : i \in 1..Len(rs)}
           /\ Scored(rs) \in SUBSET Dates
           /\ Present(rs) \subseteq Scored(rs) /\ Absent(rs) \subseteq Scored(rs)
           /\ \A d \in Present(rs) \cup Absent(rs) : d < Census
           /\ Present(rs) \cap Absent(rs) = {}
<1>1. Len(rs) \in Nat /\ DOMAIN rs = 1..Len(rs) /\ \A i \in 1..Len(rs) : rs[i] \in Round
  BY DEF History
<1>2. Scored(rs) = UNION {DatesOf(rs[i]) : i \in 1..Len(rs)}
  BY <1>1 DEF Scored, Results, DatesOf
<1>3. \A i \in 1..Len(rs) : DatesOf(rs[i]) = rs[i].picks
  BY DEF History
<1>4. Scored(rs) = UNION {rs[i].picks : i \in 1..Len(rs)}
  BY <1>2, <1>3
<1>5. Scored(rs) \in SUBSET Dates
  BY <1>1, <1>4 DEF Round
<1>6. /\ Present(rs) \subseteq Scored(rs) /\ Absent(rs) \subseteq Scored(rs)
      /\ \A d \in Present(rs) \cup Absent(rs) : d < Census
  BY DEF Present, Absent, Of, Evidence, Scored
<1>7. ASSUME NEW d \in Present(rs), d \in Absent(rs) PROVE FALSE
  <2>1. PICK i \in 1..Len(rs) : \E x \in rs[i].results : x.date = d /\ x.verdict = "present"
    BY <1>1, <1>7 DEF Present, Of, Evidence, Results
  <2>2. PICK j \in 1..Len(rs) : \E y \in rs[j].results : y.date = d /\ y.verdict = "absent"
    BY <1>1, <1>7 DEF Absent, Of, Evidence, Results
  <2>3. PICK x \in rs[i].results : x.date = d /\ x.verdict = "present"
    BY <2>1
  <2>4. PICK y \in rs[j].results : y.date = d /\ y.verdict = "absent"
    BY <2>2
  <2>5. d \in rs[i].picks /\ d \in rs[j].picks
    BY <1>3, <2>3, <2>4 DEF DatesOf
  <2>6. i = j
    BY <2>5 DEF History
  <2>7. x = y
    BY <2>3, <2>4, <2>6 DEF History
  <2> QED
    BY <2>3, <2>4, <2>7
<1> QED
  BY <1>1, <1>4, <1>5, <1>6, <1>7

\* The round of an action and the verdicts on its picks.
RoundOf(action, verdict) ==
    [type |-> action.type, start |-> action.start, picks |-> action.picks,
     results |-> {[date |-> d, verdict |-> verdict[d]] : d \in action.picks}]

\* An action that may follow the rounds rs.
Follows(action, rs) ==
    /\ action.type \in RoundTypes /\ action.start \in Dates \cup {0}
    /\ action.picks \in SUBSET catalog
    /\ action.picks \cap Scored(rs) = {}
    /\ rs # <<>> => action.picks # {}
    /\ IF action.start = 0 THEN rs = <<>> /\ action.picks = {}
       ELSE \/ action.start \in action.picks /\ action.start \in Evident(catalog)
            \/ action.start \in Absent(rs)
    /\ action.type = "bisection" =>
        action.picks = Inside(rs) /\ Absent(rs) # {} /\ Present(rs) # {}
    /\ action.type = "tail" =>
        action.picks = Older(rs) /\ rs # <<>> /\ LastRound(rs).start # 0

\* One more round adds what it picked to what is scored, and takes nothing away.
LEMMA RoundAdded ==
    ASSUME NEW rs, History(rs), NEW action, Follows(action, rs), catalog \in SUBSET Dates,
           NEW verdict \in [action.picks -> Verdicts]
    PROVE  LET r == RoundOf(action, verdict)
               new == Append(rs, r)
           IN
           /\ r \in Round /\ new \in Seq(Round) /\ Len(new) = Len(rs) + 1
           /\ \A i \in 1..Len(rs) : new[i] = rs[i]
           /\ new[Len(rs) + 1] = r
           /\ DatesOf(r) = action.picks
           /\ \A x, y \in r.results : x.date = y.date => x = y
           /\ Scored(new) = Scored(rs) \cup action.picks
           /\ Present(rs) \subseteq Present(new) /\ Absent(rs) \subseteq Absent(new)
<1> DEFINE r == RoundOf(action, verdict)
           new == Append(rs, r)
<1>1. Len(rs) \in Nat /\ DOMAIN rs = 1..Len(rs) /\ rs \in Seq(Round)
  BY ScoredIsPicked DEF History
<1>2. r \in Round
  BY DEF RoundOf, Round, Follows
<1>3. /\ new \in Seq(Round) /\ Len(new) = Len(rs) + 1 /\ DOMAIN new = 1..(Len(rs) + 1)
      /\ \A i \in 1..Len(rs) : new[i] = rs[i]
      /\ new[Len(rs) + 1] = r
  BY <1>1, <1>2
<1>4. DatesOf(r) = action.picks
  <2>1. r.results = {[date |-> d, verdict |-> verdict[d]] : d \in action.picks}
    BY DEF RoundOf
  <2>2. \A d : [date |-> d, verdict |-> verdict[d]].date = d
    OBVIOUS
  <2> HIDE DEF r
  <2>3. ASSUME NEW d \in DatesOf(r) PROVE d \in action.picks
    BY <2>1, <2>2 DEF DatesOf
  <2>4. ASSUME NEW d \in action.picks PROVE d \in DatesOf(r)
    <3>1. [date |-> d, verdict |-> verdict[d]] \in r.results
      BY <2>1
    <3> QED
      BY <2>2, <3>1 DEF DatesOf
  <2> QED
    BY <2>3, <2>4
<1>5. \A x, y \in r.results : x.date = y.date => x = y
  BY DEF RoundOf
<1>6. Results(new) = Results(rs) \cup r.results
  <2>1. 1..(Len(rs) + 1) = (1..Len(rs)) \cup {Len(rs) + 1}
    BY <1>1
  <2> QED
    BY <1>1, <1>3, <2>1 DEF Results
<1>7. Scored(new) = Scored(rs) \cup action.picks
  BY <1>4, <1>6 DEF Scored, DatesOf
<1>8. Present(rs) \subseteq Present(new) /\ Absent(rs) \subseteq Absent(new)
  BY <1>6 DEF Present, Absent, Of, Evidence
<1> QED
  BY <1>2, <1>3, <1>4, <1>5, <1>7, <1>8

\* The rounds stay a history,
LEMMA HistoryGrows ==
    ASSUME NEW rs, History(rs), NEW action, Follows(action, rs), catalog \in SUBSET Dates,
           NEW verdict \in [action.picks -> Verdicts]
    PROVE  History(Append(rs, RoundOf(action, verdict)))
<1> DEFINE r == RoundOf(action, verdict)
           new == Append(rs, r)
<1>1. /\ new \in Seq(Round) /\ Len(new) = Len(rs) + 1
      /\ \A i \in 1..Len(rs) : new[i] = rs[i]
      /\ new[Len(rs) + 1] = r /\ DatesOf(r) = action.picks
      /\ \A x, y \in r.results : x.date = y.date => x = y
      /\ Scored(new) = Scored(rs) \cup action.picks
      /\ Absent(rs) \subseteq Scored(rs)
      /\ Len(rs) \in Nat
      /\ Scored(rs) = UNION {rs[i].picks : i \in 1..Len(rs)}
  <2>1. Absent(rs) \subseteq Scored(rs) /\ Len(rs) \in Nat
        /\ Scored(rs) = UNION {rs[i].picks : i \in 1..Len(rs)}
    BY ScoredIsPicked
  <2> QED
    BY <2>1, RoundAdded
<1>2. r.picks = action.picks /\ r.start = action.start
  BY DEF RoundOf
<1> HIDE DEF new, r
<1>3. ASSUME NEW i \in 1..Len(new) PROVE i \in 1..Len(rs) \/ i = Len(rs) + 1
  BY <1>1
<1>4. \A i \in 1..Len(new) : DatesOf(new[i]) = new[i].picks
  BY <1>1, <1>2, <1>3 DEF History
<1>5. \A i \in 1..Len(rs) : new[i].picks \cap r.picks = {}
  <2>1. \A i \in 1..Len(rs) : rs[i].picks \subseteq Scored(rs)
    BY <1>1
  <2> QED
    BY <1>1, <1>2, <2>1 DEF Follows
<1>6. \A i, j \in 1..Len(new) : i # j => new[i].picks \cap new[j].picks = {}
  BY <1>1, <1>3, <1>5 DEF History
<1>7. \A i \in 1..Len(new) : i > 1 => new[i].picks # {}
  <2>1. Len(rs) + 1 > 1 => rs # <<>>
    OBVIOUS
  <2> QED
    BY <1>1, <1>2, <1>3, <2>1 DEF History, Follows
<1>8. ASSUME NEW i \in 1..Len(new)
      PROVE  IF new[i].start = 0 THEN i = 1 /\ new[i].picks = {}
                                 ELSE new[i].start \in Scored(new)
  <2>1. CASE i \in 1..Len(rs)
    BY <1>1, <2>1 DEF History
  <2>2. CASE i = Len(rs) + 1
    <3>1. rs = <<>> => i = 1
      BY <2>2
    <3> QED
      BY <1>1, <1>2, <2>2, <3>1 DEF Follows
  <2> QED
    BY <1>3, <2>1, <2>2
<1>9. \A i \in 1..Len(new) : \A x, y \in new[i].results : x.date = y.date => x = y
  BY <1>1, <1>3 DEF History
<1> QED
  BY <1>1, <1>4, <1>6, <1>7, <1>8, <1>9 DEF History, new, r

\* and, of a catalog that stayed, a plan: a bisection leaves nothing inside the
\* interval, and a tail nothing before it.
LEMMA PlanGrows ==
    ASSUME NEW rs, History(rs), Planned(rs, catalog, drifted), NEW action, Follows(action, rs),
           catalog \in SUBSET Dates, NEW verdict \in [action.picks -> Verdicts]
    PROVE  Planned(Append(rs, RoundOf(action, verdict)), catalog, drifted)
<1> DEFINE r == RoundOf(action, verdict)
           new == Append(rs, r)
<1>1. SUFFICES ASSUME ~drifted
               PROVE  /\ Scored(new) \subseteq catalog
                      /\ \A i \in 1..Len(new) :
                            new[i].start # 0 => new[i].start \in Evident(catalog)
                      /\ Has(new, "bisection") => Tight(new, catalog)
                      /\ Has(new, "tail") => Swept(new, catalog)
  BY DEF Planned
<1>2. /\ new \in Seq(Round) /\ Len(new) = Len(rs) + 1
      /\ \A i \in 1..Len(rs) : new[i] = rs[i]
      /\ new[Len(rs) + 1] = r
      /\ Scored(new) = Scored(rs) \cup action.picks
      /\ Present(rs) \subseteq Present(new) /\ Absent(rs) \subseteq Absent(new)
  BY RoundAdded
<1>3. /\ Len(rs) \in Nat /\ Scored(rs) \in SUBSET Dates
      /\ Present(rs) \subseteq Scored(rs) /\ Absent(rs) \subseteq Scored(rs)
      /\ \A d \in Present(rs) \cup Absent(rs) : d < Census
  BY ScoredIsPicked
<1>4. r.type = action.type /\ r.start = action.start
  BY DEF RoundOf
<1> HIDE DEF new, r
<1>5. /\ Scored(rs) \subseteq catalog
      /\ \A i \in 1..Len(rs) : rs[i].start # 0 => rs[i].start \in Evident(catalog)
      /\ Has(rs, "bisection") => Tight(rs, catalog)
      /\ Has(rs, "tail") => Swept(rs, catalog)
  BY <1>1 DEF Planned
<1>6. Scored(new) \subseteq catalog
  BY <1>2, <1>5 DEF Follows
<1>7. ASSUME NEW i \in 1..Len(new), new[i].start # 0
      PROVE  new[i].start \in Evident(catalog)
  <2>1. CASE i \in 1..Len(rs)
    BY <1>2, <1>5, <1>7, <2>1
  <2>2. CASE i = Len(rs) + 1
    BY <1>2, <1>3, <1>4, <1>5, <1>7, <2>2 DEF Follows, EvidenceVintages, Evident
  <2> QED
    BY <1>2, <1>3, <2>1, <2>2
<1>8. \A type : Has(new, type) => Has(rs, type) \/ action.type = type
  BY <1>2, <1>3, <1>4 DEF Has
<1>9. ASSUME Tight(rs, catalog) PROVE Tight(new, catalog)
  BY <1>2, <1>9 DEF Tight
<1>10. ASSUME action.type = "bisection" PROVE Tight(new, catalog)
  <2>1. /\ action.picks = Inside(rs) /\ Absent(rs) # {} /\ Present(rs) # {}
    BY <1>10 DEF Follows
  <2>2. Newest(Absent(rs)) \in Absent(rs) /\ Oldest(Present(rs)) \in Present(rs)
    BY <1>3, <2>1, DatesAreFinite
  <2>3. SUFFICES ASSUME NEW v \in Evident(catalog),
                        \A a \in Absent(new) : a < v, \A p \in Present(new) : v < p
                 PROVE  v \in Scored(new)
    BY DEF Tight
  <2>4. Newest(Absent(rs)) < v /\ v < Oldest(Present(rs))
    BY <1>2, <2>2, <2>3
  <2> QED
    BY <1>2, <2>1, <2>4 DEF Inside, Unscored, EvidenceVintages, Evident
<1>11. ASSUME Swept(rs, catalog) PROVE Swept(new, catalog)
  BY <1>2, <1>11 DEF Swept
<1>12. ASSUME action.type = "tail" PROVE Swept(new, catalog)
  <2>1. /\ action.picks = Older(rs) /\ rs # <<>> /\ LastRound(rs).start # 0
    BY <1>12 DEF Follows
  <2>2. Len(rs) \in 1..Len(rs)
    BY <1>3, <2>1 DEF History
  <2>3. LastRound(rs).start \in Evident(catalog) /\ LastRound(rs).start \in Scored(rs)
    BY <1>5, <2>1, <2>2 DEF LastRound, History
  <2>4. Evident(catalog) \in SUBSET Dates /\ Evident(catalog) # {}
    BY <2>3 DEF EvidenceVintages, Evident
  <2>5. /\ Oldest(Evident(catalog)) \in Evident(catalog)
        /\ \A w \in Evident(catalog) : Oldest(Evident(catalog)) <= w
    BY <2>4, DatesAreFinite
  <2>6. Oldest(Evident(catalog)) \in Scored(new)
    <3> SUFFICES ASSUME Oldest(Evident(catalog)) \notin Scored(rs)
                 PROVE  Oldest(Evident(catalog)) \in Older(rs)
      BY <1>2, <2>1
    <3>1. /\ Oldest(Evident(catalog)) <= LastRound(rs).start
          /\ Oldest(Evident(catalog)) # LastRound(rs).start
          /\ Oldest(Evident(catalog)) \in Nat /\ LastRound(rs).start \in Nat
      BY <2>3, <2>4, <2>5, DatesAreFinite
    <3>2. Oldest(Evident(catalog)) < LastRound(rs).start
      BY <3>1
    <3> QED
      BY <2>5, <3>2 DEF Older, Unscored, EvidenceVintages, Evident
  <2> QED
    BY <2>5, <2>6 DEF Swept
<1> QED
  BY <1>6, <1>7, <1>8, <1>5, <1>9, <1>10, <1>11, <1>12

-----------------------------------------------------------------------------
(* The decisions.                                                          *)

LEMMA Vintages ==
    ASSUME NEW rs, catalog \in SUBSET Dates
    PROVE  /\ Evident(catalog) \in SUBSET Dates /\ Evident(catalog) \subseteq catalog
           /\ Unscored(rs) \subseteq Evident(catalog)
           /\ Unscored(rs) \cap Scored(rs) = {}
           /\ Unscored(rs) \in SUBSET Dates
  BY DEF Evident, EvidenceVintages, Unscored

\* The kinds of actions.
LEMMA Kinds ==
    /\ \A type, start, picks :
        /\ Execute(type, start, picks).kind = "execute"
        /\ Execute(type, start, picks).type = type
        /\ Execute(type, start, picks).start = start
        /\ Execute(type, start, picks).picks = picks
    /\ \A status : End(status).kind = "terminate" /\ End(status).status = status
    /\ Raise.kind = "raise"
  BY DEF Execute, End, Raise

\* A round of unscored vintages that starts at one of them follows.
LEMMA UnscoredFollows ==
    ASSUME catalog \in SUBSET Dates, NEW rs, NEW type \in RoundTypes \ {"bisection", "tail"},
           NEW picks \in SUBSET Unscored(rs), NEW start \in picks
    PROVE  Follows(Execute(type, start, picks), rs)
<1>1. /\ Unscored(rs) \in SUBSET Dates /\ Unscored(rs) \subseteq Evident(catalog)
      /\ Evident(catalog) \subseteq catalog /\ Unscored(rs) \cap Scored(rs) = {}
  BY Vintages
<1>2. start \in Dates /\ start # 0
  BY <1>1, ScanAssumption
<1> QED
  BY <1>1, <1>2, Kinds DEF Follows

LEMMA InitialFollows ==
    ASSUME catalog \in SUBSET Dates, InitialRound.kind = "execute"
    PROVE  Follows(InitialRound, <<>>)
<1> DEFINE recent == {v \in Evident(catalog) : YearOf[v] >= FloorYear}
           from == IF recent # {} THEN recent ELSE Evident(catalog)
           picks == EvenlySpaced(from)
<1>1. Scored(<<>>) = {}
  BY DEF Scored, Results
<1>2. CASE Evident(catalog) = {}
  <2>1. InitialRound = Execute("initial", 0, {})
    BY <1>2, Kinds DEF InitialRound, EvidenceVintages, Evident
  <2> QED
    BY <2>1, Kinds DEF Follows, RoundTypes
<1>3. CASE Evident(catalog) # {}
  <2>1. InitialRound = Execute("initial", Oldest(picks), picks \cup References)
    BY <1>3, Kinds DEF InitialRound, EvidenceVintages, Evident
  <2>2. from # {} /\ from \subseteq Evident(catalog) /\ from \in SUBSET Dates
    BY <1>3, Vintages
  <2> HIDE DEF from
  <2>3. picks \subseteq from /\ picks # {}
    BY <2>2, EvenlySpacedTakes
  <2> HIDE DEF picks
  <2>4. Oldest(picks) \in picks /\ picks \in SUBSET Dates /\ 0 \notin picks
    BY <2>2, <2>3, DatesAreFinite
  <2>5. References \subseteq catalog /\ picks \subseteq catalog
    BY <2>2, <2>3, Vintages DEF References
  <2>6. /\ InitialRound.type = "initial" /\ InitialRound.start = Oldest(picks)
        /\ InitialRound.picks = picks \cup References
    BY <2>1, Kinds
  <2>7. Oldest(picks) \in Evident(catalog) /\ Oldest(picks) \in Dates /\ Oldest(picks) # 0
    BY <2>2, <2>3, <2>4
  <2> QED
    BY <1>1, <2>4, <2>5, <2>6, <2>7 DEF Follows, RoundTypes
<1> QED
  BY <1>2, <1>3

LEMMA RecoveryFollows ==
    ASSUME catalog \in SUBSET Dates, NEW rs, AnchorRecovery(rs).kind = "execute"
    PROVE  Follows(AnchorRecovery(rs), rs)
<1>1. /\ Unscored(rs) # {}
      /\ AnchorRecovery(rs) =
            Execute("anchor_recovery", Newest(Unscored(rs)), {Newest(Unscored(rs))})
  BY Kinds DEF AnchorRecovery
<1>2. Newest(Unscored(rs)) \in Unscored(rs)
  BY <1>1, Vintages, DatesAreFinite
<1> QED
  BY <1>1, <1>2, UnscoredFollows DEF RoundTypes

LEMMA BisectionFollows ==
    ASSUME catalog \in SUBSET Dates, NEW rs, History(rs), rs # <<>>,
           Present(rs) # {}, Absent(rs) # {}, Bisection(rs).kind = "execute"
    PROVE  Follows(Bisection(rs), rs)
<1>1. /\ Inside(rs) # {}
      /\ Bisection(rs) = Execute("bisection", Newest(Absent(rs)), Inside(rs))
  BY Kinds DEF Bisection
<1>2. Absent(rs) \in SUBSET Dates
  BY ScoredIsPicked
<1>3. Newest(Absent(rs)) \in Absent(rs) /\ 0 \notin Absent(rs)
  BY <1>2, DatesAreFinite
<1>4. Inside(rs) \subseteq catalog /\ Inside(rs) \cap Scored(rs) = {}
  BY Vintages DEF Inside
<1> QED
  BY <1>1, <1>2, <1>3, <1>4, Kinds DEF Follows, RoundTypes

LEMMA WalkBackFollows ==
    ASSUME catalog \in SUBSET Dates, NEW rs, History(rs), rs # <<>>,
           AllPresent(rs).kind = "execute"
    PROVE  Follows(AllPresent(rs), rs)
<1> DEFINE picks == EvenlySpaced(InWindow(rs))
           few == Cardinality(InWindow(rs)) < TailThreshold \/ InWindow(rs) = {}
<1>1. LastRound(rs).start # 0 /\ Older(rs) # {}
  BY Kinds DEF AllPresent
<1>2. /\ Older(rs) \subseteq Unscored(rs) /\ InWindow(rs) \subseteq Older(rs)
      /\ Older(rs) \in SUBSET Dates /\ InWindow(rs) \in SUBSET Dates
  BY Vintages DEF Older, InWindow
<1>3. CASE few
  <2>1. AllPresent(rs) = Execute("tail", Oldest(Older(rs)), Older(rs))
    BY <1>3, Kinds DEF AllPresent
  <2>2. Oldest(Older(rs)) \in Older(rs) /\ 0 \notin Older(rs)
    BY <1>1, <1>2, DatesAreFinite
  <2>3. /\ Older(rs) \subseteq catalog /\ Older(rs) \subseteq Evident(catalog)
        /\ Older(rs) \cap Scored(rs) = {}
    BY <1>2, Vintages
  <2> QED
    BY <1>1, <1>2, <2>1, <2>2, <2>3, Kinds DEF Follows, RoundTypes
<1>4. CASE ~few
  <2>1. AllPresent(rs) = Execute("walk_back", Oldest(picks), picks)
    BY <1>4, Kinds DEF AllPresent
  <2>2. picks \subseteq InWindow(rs) /\ picks # {} /\ picks \in SUBSET Dates
    BY <1>2, <1>4, EvenlySpacedTakes
  <2> HIDE DEF picks
  <2>3. Oldest(picks) \in picks
    BY <2>2, DatesAreFinite
  <2> QED
    BY <1>2, <2>1, <2>2, <2>3, UnscoredFollows DEF RoundTypes
<1> QED
  BY <1>3, <1>4

\* Whatever decide_next_action executes picks vintages that were not scored.
LEMMA ActionFollows ==
    ASSUME catalog \in SUBSET Dates, NEW rs, History(rs), Decide(rs).kind = "execute"
    PROVE  Follows(Decide(rs), rs)
<1>1. CASE rs = <<>>
  BY <1>1, InitialFollows DEF Decide
<1>2. CASE rs # <<>>
  <2>1. \/ Decide(rs) = AnchorRecovery(rs)
        \/ Decide(rs) = Bisection(rs) /\ Present(rs) # {} /\ Absent(rs) # {}
        \/ Decide(rs) = AllPresent(rs)
    BY <1>2, Kinds DEF Decide, AllAbsent
  <2> QED
    BY <1>2, <2>1, RecoveryFollows, BisectionFollows, WalkBackFollows
<1> QED
  BY <1>1, <1>2

\* What _decide_mixed ends with: no vintage inside the interval is left.
LEMMA BisectionEnds ==
    ASSUME catalog \in SUBSET Dates, NEW rs, History(rs), Planned(rs, catalog, drifted),
           Present(rs) # {}, Absent(rs) # {}, Bisection(rs).kind = "terminate", ~drifted
    PROVE  Tight(rs, catalog)
<1>1. CASE Inside(rs) = {}
  <2>1. Newest(Absent(rs)) \in Absent(rs) /\ Oldest(Present(rs)) \in Present(rs)
    BY ScoredIsPicked, DatesAreFinite
  <2> QED
    BY <1>1, <2>1 DEF Inside, Unscored, Tight, EvidenceVintages, Evident
<1>2. CASE CountType(rs, "bisection") > 0
  <2>1. {i \in DOMAIN rs : rs[i].type = "bisection"} # {}
    BY <1>2, FS_EmptySet DEF CountType
  <2>2. Has(rs, "bisection")
    BY <2>1, ScoredIsPicked DEF Has
  <2> QED
    BY <2>2 DEF Planned
<1> QED
  BY <1>1, <1>2, Kinds DEF Bisection

\* What _decide_all_present ends with: the oldest vintage was scored.
LEMMA WalkBackEnds ==
    ASSUME catalog \in SUBSET Dates, NEW rs, History(rs), Planned(rs, catalog, drifted), rs # <<>>,
           Present(rs) # {}, AllPresent(rs).kind = "terminate", ~drifted
    PROVE  Swept(rs, catalog)
<1> DEFINE last == LastRound(rs)
<1>1. Len(rs) \in 1..Len(rs) /\ last = rs[Len(rs)] /\ last \in Round
  BY ScoredIsPicked DEF History, LastRound
<1>2. CASE last.type = "tail"
  BY <1>1, <1>2 DEF Planned, Has
<1>3. CASE last.start = 0
  <2>1. Len(rs) = 1 /\ rs[1].picks = {}
    BY <1>1, <1>3 DEF History
  <2>2. Scored(rs) = {}
    BY <2>1, ScoredIsPicked
  <2> QED
    BY <2>2, ScoredIsPicked
<1>4. CASE last.start # 0 /\ Older(rs) = {}
  <2>1. last.start \in Evident(catalog) /\ last.start \in Scored(rs)
    BY <1>1, <1>4 DEF Planned, History
  <2>2. Evident(catalog) \in SUBSET Dates /\ Evident(catalog) # {}
    BY <2>1, Vintages
  <2>3. /\ Oldest(Evident(catalog)) \in Evident(catalog)
        /\ \A w \in Evident(catalog) : Oldest(Evident(catalog)) <= w
        /\ Oldest(Evident(catalog)) \in Nat /\ last.start \in Nat
    BY <2>1, <2>2, DatesAreFinite
  <2>4. Oldest(Evident(catalog)) \in Scored(rs)
    <3> SUFFICES ASSUME Oldest(Evident(catalog)) \notin Scored(rs) PROVE FALSE
      OBVIOUS
    <3>1. Oldest(Evident(catalog)) <= last.start /\ Oldest(Evident(catalog)) # last.start
      BY <2>1, <2>3
    <3>2. Oldest(Evident(catalog)) < last.start
      BY <2>3, <3>1
    <3> QED
      BY <1>4, <2>3, <3>2 DEF Older, Unscored, EvidenceVintages, Evident
  <2> QED
    BY <2>3, <2>4 DEF Swept
<1> QED
  BY <1>2, <1>3, <1>4, Kinds DEF AllPresent

\* Whatever decide_next_action ends with is backed.
LEMMA EndIsBacked ==
    ASSUME catalog \in SUBSET Dates, NEW rs, History(rs), Planned(rs, catalog, drifted),
           Decide(rs).kind = "terminate", NEW status, status = Decide(rs).status
    PROVE  status \in Terminal /\ Backed([status |-> status, rounds |-> rs], catalog, drifted)
<1>1. rs # <<>>
  BY Kinds DEF Decide, InitialRound
<1>2. CASE /\ Decide(rs) = Bisection(rs) /\ Present(rs) # {} /\ Absent(rs) # {}
           /\ ~IsNonmonotonic(rs)
  <2>1. status = "done_appears"
    BY <1>2, Kinds DEF Bisection
  <2> QED
    BY <1>2, <2>1, BisectionEnds DEF Backed, Terminal, AlreadyPresent, OrchestratorError
<1>3. CASE Decide(rs) = AllAbsent(rs) /\ Present(rs) = {}
  <2>1. \/ /\ status = "done_installed_during_census"
           /\ Newest(Evident(catalog)) \in Absent(rs)
        \/ status = "done_ambiguous_no_recent_anchor"
    BY <1>3, Kinds DEF AllAbsent, AnchorRecovery, EvidenceVintages, Evident
  <2> QED
    BY <1>3, <2>1 DEF Backed, Terminal, AlreadyPresent, OrchestratorError
<1>4. CASE Decide(rs) = AllPresent(rs) /\ Present(rs) # {} /\ Absent(rs) = {}
  <2>1. status = AlreadyPresent
    BY <1>4, Kinds DEF AllPresent
  <2>2. ~drifted => Swept(rs, catalog)
    BY <1>1, <1>4, WalkBackEnds
  <2> QED
    BY <1>4, <2>1, <2>2 DEF Backed, Terminal, AlreadyPresent, OrchestratorError
<1>5. CASE status \in {"done_ambiguous_gemini_failed", "done_ambiguous_nonmonotonic",
                       "done_ambiguous_no_recent_anchor"}
  <2> QED
    BY <1>5 DEF Backed, Terminal, AlreadyPresent, OrchestratorError
<1>6. \/ /\ Decide(rs) = Bisection(rs) /\ Present(rs) # {} /\ Absent(rs) # {}
         /\ ~IsNonmonotonic(rs)
      \/ Decide(rs) = AllAbsent(rs) /\ Present(rs) = {}
      \/ Decide(rs) = AllPresent(rs) /\ Present(rs) # {} /\ Absent(rs) = {}
      \/ status \in {"done_ambiguous_gemini_failed", "done_ambiguous_nonmonotonic",
                     "done_ambiguous_no_recent_anchor"}
  BY <1>1, Kinds DEF Decide, AnchorRecovery
<1> QED
  BY <1>2, <1>3, <1>4, <1>5, <1>6

-----------------------------------------------------------------------------
(* The steps.                                                              *)

LEMMA NoRounds ==
    /\ History(<<>>) /\ Scored(<<>>) = {}
    /\ \A C, D : Planned(<<>>, C, D)
    /\ \A type : CountType(<<>>, type) = 0
<1>1. Scored(<<>>) = {}
  BY DEF Scored, Results
<1>2. History(<<>>)
  BY DEF History
<1>3. \A C, D : Planned(<<>>, C, D)
  BY <1>1 DEF Planned, Has
<1>4. ASSUME NEW type PROVE CountType(<<>>, type) = 0
  <2>1. {i \in DOMAIN <<>> : <<>>[i].type = type} = {}
    OBVIOUS
  <2> QED
    BY <2>1, FS_EmptySet DEF CountType
<1> QED
  BY <1>1, <1>2, <1>3, <1>4

\* Nothing is claimed before the end, nor by a failure of the orchestrator.
LEMMA NoClaim ==
    ASSUME NEW s, s.status \in {"none", "scanning", OrchestratorError}
    PROVE  \A C, D : Backed(s, C, D)
  BY DEF Backed, AlreadyPresent, OrchestratorError

\* A catalog that is resolved again is the same one, or there are no rounds yet,
\* or the scan has drifted.
LEMMA PlanResolved ==
    ASSUME NEW rs, NEW C, NEW E, NEW D, NEW F, Planned(rs, C, D),
           D \in BOOLEAN, F = (D \/ (E # C /\ rs # <<>>))
    PROVE  Planned(rs, E, F)
<1>1. CASE F
  BY <1>1 DEF Planned
<1>2. CASE ~F /\ E = C
  BY <1>2 DEF Planned
<1>3. CASE ~F /\ rs = <<>>
  BY <1>3, NoRounds
<1> QED
  BY <1>1, <1>2, <1>3

LEMMA ScanInit ==
    ASSUME Init
    PROVE  ScanInv /\ IterInv
<1>1. saved = NoFile /\ state = NoFile /\ NoFile.status = "none" /\ NoFile.rounds = <<>>
  BY DEF Init, NoFile
<1>2. NoFile \in ScanState
  BY DEF NoFile, ScanState, Statuses
<1>3. Backed(saved, catalog, drifted)
  BY <1>1, NoClaim
<1>4. /\ catalog \in Catalogs /\ drifted \in BOOLEAN /\ interrupts \in 0..MaxInterrupts
      /\ pc = "idle" /\ iter = 0
  <2>1. interrupts = 0 /\ MaxInterrupts \in Nat
    BY ScanAssumption DEF Init
  <2>2. interrupts \in 0..MaxInterrupts
    BY <2>1
  <2>3. catalog \in Catalogs /\ drifted = FALSE /\ pc = "idle" /\ iter = 0
    BY DEF Init
  <2> QED
    BY <2>2, <2>3
<1>5. History(saved.rounds) /\ Planned(saved.rounds, catalog, drifted)
  BY <1>1, NoRounds
<1>6. ScanInv
  BY <1>1, <1>2, <1>3, <1>4, <1>5 DEF ScanInv
<1>7. CountType(saved.rounds, "anchor_recovery") <= MaxRecovery
  BY <1>1, NoRounds, ScanAssumption
<1> QED
  BY <1>4, <1>6, <1>7 DEF IterInv

\* Every step keeps the invariant.
LEMMA ScanStep ==
    ASSUME ScanInv, [Next]_vars
    PROVE  ScanInv'
<1> USE DEF ScanInv
<1>1. catalog \in SUBSET Dates
  BY ScanAssumption
<1>2. NewState \in ScanState /\ NewState.status = "scanning" /\ NewState.rounds = <<>>
  BY DEF NewState, ScanState, Statuses
<1>3. "scanning" \notin Terminal /\ "none" \notin Terminal /\ OrchestratorError \in Statuses
      /\ OrchestratorError # "none"
  BY DEF Terminal, AlreadyPresent, OrchestratorError, Statuses
<1>4. /\ state.status \in Statuses /\ state.rounds \in Seq(Round)
      /\ saved.status \in Statuses /\ saved.rounds \in Seq(Round)
      /\ state = [status |-> state.status, rounds |-> state.rounds]
      /\ saved = [status |-> saved.status, rounds |-> saved.rounds]
  BY DEF ScanState
<1>5. CASE Begin
  <2>1. /\ state' = IF saved = NoFile THEN NewState ELSE saved
        /\ saved' = state' /\ pc' = "resolve"
        /\ catalog' = catalog /\ drifted' = drifted /\ interrupts' = interrupts
        /\ saved.status \notin Terminal
    BY <1>5 DEF Begin
  <2>2. saved # NoFile => saved.status = "scanning"
    BY <1>4, <2>1 DEF Statuses, NoFile
  <2>3. /\ state' \in ScanState /\ state'.status = "scanning"
        /\ History(state'.rounds) /\ Planned(state'.rounds, catalog, drifted)
    BY <1>2, <2>1, <2>2, NoRounds
  <2>4. Backed(saved', catalog', drifted')
    BY <2>1, <2>3, NoClaim
  <2> QED
    BY <2>1, <2>3, <2>4
<1>6. CASE ForceRestart
  <2>1. /\ state' = NewState /\ saved' = NewState /\ pc' = "resolve"
        /\ catalog' = catalog /\ drifted' = FALSE /\ interrupts' \in 0..MaxInterrupts
    BY <1>6, ScanAssumption DEF ForceRestart
  <2>2. Backed(saved', catalog', drifted')
    BY <1>2, <2>1, NoClaim
  <2> QED
    BY <1>2, <2>1, <2>2, NoRounds
<1>7. CASE ResolveCatalog
  <2>1. /\ pc = "resolve" /\ state = saved /\ saved.status = "scanning"
        /\ saved' = saved /\ state' = state /\ pc' = "loop" /\ interrupts' = interrupts
        /\ drifted' = (drifted \/ (catalog' # catalog /\ state.rounds # <<>>))
    BY <1>7 DEF ResolveCatalog
  <2>2. catalog' \in Catalogs /\ drifted' \in BOOLEAN
    BY <1>7, <2>1, ScanAssumption DEF ResolveCatalog
  <2>3. Planned(state.rounds, catalog', drifted')
    BY <2>1, PlanResolved
  <2>4. Backed(saved', catalog', drifted')
    BY <2>1, NoClaim
  <2> QED
    BY <2>1, <2>2, <2>3, <2>4
<1>8. CASE Terminate
  <2> DEFINE status == Decide(state.rounds).status
  <2>1. /\ pc = "loop" /\ state = saved
        /\ Decide(state.rounds).kind = "terminate"
        /\ state' = [state EXCEPT !.status = status] /\ saved' = state'
        /\ pc' = "idle" /\ catalog' = catalog /\ drifted' = drifted
        /\ interrupts' = interrupts
    BY <1>8 DEF Terminate
  <2>2. /\ status \in Terminal
        /\ Backed([status |-> status, rounds |-> state.rounds], catalog, drifted)
    BY <1>1, <2>1, EndIsBacked
  <2> HIDE DEF status
  <2>3. state' = [status |-> status, rounds |-> state.rounds]
    BY <1>4, <2>1
  <2>4. saved'.rounds = state.rounds /\ saved'.status = status /\ saved' \in ScanState
    BY <1>4, <2>1, <2>2, <2>3 DEF ScanState, Statuses
  <2>5. Backed(saved', catalog', drifted')
    BY <2>1, <2>2, <2>3
  <2>6. status # "none"
    BY <1>3, <2>2
  <2> QED
    BY <2>1, <2>4, <2>5, <2>6
<1>9. CASE ExecuteRound
  <2> DEFINE action == Decide(state.rounds)
  <2>1. PICK verdict \in [action.picks -> Verdicts] :
            state' = [state EXCEPT !.rounds = Append(@, RoundOf(action, verdict))]
    BY <1>9 DEF ExecuteRound, RoundOf
  <2> DEFINE r == RoundOf(action, verdict)
  <2>2. /\ pc = "loop" /\ state = saved /\ action.kind = "execute" /\ saved' = saved
        /\ pc' = "unsaved" /\ catalog' = catalog /\ drifted' = drifted
        /\ interrupts' = interrupts
    BY <1>9 DEF ExecuteRound
  <2>3. Follows(action, state.rounds)
    BY <1>1, <2>2, ActionFollows
  <2>4. /\ r \in Round /\ History(Append(state.rounds, r))
        /\ Planned(Append(state.rounds, r), catalog, drifted)
    BY <1>1, <2>2, <2>3, RoundAdded, HistoryGrows, PlanGrows
  <2> HIDE DEF r, action
  <2>5. state' = [status |-> state.status, rounds |-> Append(state.rounds, r)]
    BY <1>4, <2>1 DEF r
  <2>6. state' \in ScanState
    BY <1>4, <2>4, <2>5 DEF ScanState
  <2> QED
    BY <2>2, <2>4, <2>5, <2>6
<1>10. CASE SaveRound
  <2>1. Backed(state, catalog, drifted)
    BY <1>10, NoClaim DEF SaveRound
  <2> QED
    BY <1>10, <2>1 DEF SaveRound
<1>11. CASE OrchestratorFailure
  <2>1. /\ saved' = [saved EXCEPT !.status = OrchestratorError] /\ pc' = "idle"
        /\ catalog' = catalog /\ drifted' = drifted /\ state' = state
        /\ interrupts' = interrupts
    BY <1>11 DEF OrchestratorFailure
  <2>2. saved' = [status |-> OrchestratorError, rounds |-> saved.rounds]
    BY <1>4, <2>1
  <2>3. saved' \in ScanState
    BY <1>3, <1>4, <2>2 DEF ScanState
  <2>4. Backed(saved', catalog', drifted')
    BY <2>2, NoClaim
  <2> QED
    BY <1>3, <2>1, <2>2, <2>3, <2>4
<1>12. CASE FailClosed \/ Crash
  <2>1. /\ catalog' = catalog /\ drifted' = drifted /\ state' = state /\ saved' = saved
        /\ pc' = "idle" /\ interrupts' \in 0..MaxInterrupts
    BY <1>12, ScanAssumption DEF FailClosed, Crash
  <2> QED
    BY <2>1
<1>13. CASE UNCHANGED vars
  BY <1>13 DEF vars
<1> QED
  BY <1>5, <1>6, <1>7, <1>8, <1>9, <1>10, <1>11, <1>12, <1>13 DEF Next

\* The invariant holds of every scan.
THEOREM ScanInvariant == Spec => []ScanInv
<1>1. Init => ScanInv
  BY ScanInit
<1>2. ScanInv /\ [Next]_vars => ScanInv'
  BY ScanStep
<1> QED
  BY <1>1, <1>2, PTL DEF Spec

\* What a terminal status claims of the roof's history is what frames showed
\* (decide_next_action and its case planners in scan_decision.py), for any
\* dates, catalogs and settings, and whatever is interrupted or changes.
THEOREM TerminalHolds == Spec => []TerminalIsBacked
<1>1. ScanInv => TerminalIsBacked
  <2> SUFFICES ASSUME ScanInv PROVE TerminalIsBacked
    OBVIOUS
  <2> DEFINE rs == saved.rounds
  <2>1. Backed(saved, catalog, drifted) /\ History(rs) /\ catalog \in SUBSET Dates
    BY ScanAssumption DEF ScanInv
  <2>2. EvidenceVintages = Evident(catalog)
    BY DEF EvidenceVintages, Evident
  <2>3. AppearsIsTight
    <3> SUFFICES ASSUME saved.status = "done_appears", ~drifted
                 PROVE  /\ Present(rs) # {} /\ Absent(rs) # {}
                        /\ Newest(Absent(rs)) < Oldest(Present(rs))
                        /\ \A v \in EvidenceVintages :
                              Newest(Absent(rs)) < v /\ v < Oldest(Present(rs))
                                  => v \in Scored(rs)
      BY DEF AppearsIsTight
    <3>1. Present(rs) # {} /\ Absent(rs) # {} /\ ~IsNonmonotonic(rs) /\ Tight(rs, catalog)
      BY <2>1 DEF Backed
    <3>2. Absent(rs) \in SUBSET Dates /\ Present(rs) \in SUBSET Dates
      BY <2>1, ScoredIsPicked
    <3>3. /\ Newest(Absent(rs)) \in Absent(rs) /\ \A a \in Absent(rs) : a <= Newest(Absent(rs))
          /\ Oldest(Present(rs)) \in Present(rs) /\ \A p \in Present(rs) : Oldest(Present(rs)) <= p
      BY <3>1, <3>2, DatesAreFinite
    <3>4. \A d \in Absent(rs) \cup Present(rs) : d \in Nat
      BY <3>2, DatesAreFinite
    <3>5. Newest(Absent(rs)) < Oldest(Present(rs))
      <4>1. ~(Oldest(Present(rs)) < Newest(Absent(rs)))
        BY <3>1, <3>3 DEF IsNonmonotonic
      <4>2. Newest(Absent(rs)) # Oldest(Present(rs))
        BY <2>1, <3>3, ScoredIsPicked
      <4> QED
        BY <3>3, <3>4, <4>1, <4>2
    <3>6. ASSUME NEW v \in EvidenceVintages, Newest(Absent(rs)) < v, v < Oldest(Present(rs))
          PROVE  v \in Scored(rs)
      <4>1. v \in Evident(catalog) /\ v \in Nat
        BY <2>1, <2>2, <3>6, DatesAreFinite DEF Evident
      <4>2. \A a \in Absent(rs) : a < v
        BY <3>3, <3>4, <3>6, <4>1
      <4>3. \A p \in Present(rs) : v < p
        BY <3>3, <3>4, <3>6, <4>1
      <4> QED
        BY <3>1, <4>1, <4>2, <4>3 DEF Tight
    <3> QED
      BY <3>1, <3>5, <3>6
  <2>4. InstalledDuringCensusIsSeen
    BY <2>1, <2>2 DEF InstalledDuringCensusIsSeen, Backed
  <2>5. AlreadyPresentReachesOldest
    <3> SUFFICES ASSUME saved.status = AlreadyPresent, ~drifted
                 PROVE  /\ Absent(rs) = {} /\ Present(rs) # {}
                        /\ Oldest(EvidenceVintages) \in Scored(rs)
      BY DEF AlreadyPresentReachesOldest
    <3>1. Absent(rs) = {} /\ Present(rs) # {} /\ Swept(rs, catalog)
      BY <2>1 DEF Backed
    <3>2. PICK v \in Evident(catalog) \cap Scored(rs) : \A w \in Evident(catalog) : v <= w
      BY <3>1 DEF Swept
    <3>3. Evident(catalog) \in SUBSET Dates /\ Evident(catalog) # {}
      BY <2>1, <3>2 DEF Evident
    <3>4. /\ Oldest(Evident(catalog)) \in Evident(catalog)
          /\ Oldest(Evident(catalog)) <= v /\ v <= Oldest(Evident(catalog))
          /\ v \in Nat /\ Oldest(Evident(catalog)) \in Nat
      BY <3>2, <3>3, DatesAreFinite
    <3>5. v = Oldest(Evident(catalog))
      BY <3>4
    <3> QED
      BY <2>2, <3>1, <3>2, <3>5
  <2> QED
    BY <2>3, <2>4, <2>5 DEF TerminalIsBacked
<1> QED
  BY <1>1, ScanInvariant, PTL

-----------------------------------------------------------------------------
(* Progress and the checkpoint.                                            *)

\* One more round is one more of its type.
LEMMA RoundCounted ==
    ASSUME NEW rs \in Seq(Round), NEW r \in Round, NEW type
    PROVE  /\ CountType(rs, type) \in Nat
           /\ r.type = type => CountType(Append(rs, r), type) = CountType(rs, type) + 1
           /\ r.type # type => CountType(Append(rs, r), type) = CountType(rs, type)
<1> DEFINE new == Append(rs, r)
           S == {i \in DOMAIN rs : rs[i].type = type}
           T == {i \in DOMAIN new : new[i].type = type}
<1>1. /\ Len(rs) \in Nat /\ DOMAIN rs = 1..Len(rs) /\ DOMAIN new = 1..(Len(rs) + 1)
      /\ \A i \in 1..Len(rs) : new[i] = rs[i]
      /\ new[Len(rs) + 1] = r
  OBVIOUS
<1> HIDE DEF new
<1>2. /\ r.type = type => T = S \cup {Len(rs) + 1}
      /\ r.type # type => T = S
  BY <1>1
<1>3. Len(rs) + 1 \notin S
  BY <1>1
<1>4. IsFiniteSet(S)
  <2>1. S \subseteq 1..Len(rs) /\ IsFiniteSet(1..Len(rs))
    BY <1>1, FS_Interval
  <2> QED
    BY <2>1, FS_Subset
<1>5. CountType(rs, type) = Cardinality(S) /\ CountType(new, type) = Cardinality(T)
  BY DEF CountType
<1> HIDE DEF S, T
<1>6. Cardinality(S) \in Nat /\ Cardinality(S \cup {Len(rs) + 1}) = Cardinality(S) + 1
  BY <1>3, <1>4, FS_CardinalityType, FS_AddElement
<1> QED
  BY <1>2, <1>5, <1>6 DEF new

\* The years of some dates are a finite set; fewer years count less.
LEMMA YearsCount ==
    ASSUME NEW S \in SUBSET Dates, NEW Y \in SUBSET Years(S)
    PROVE  /\ IsFiniteSet(Y) /\ Cardinality(Y) \in Nat
           /\ Cardinality(Years(S)) \in Nat
           /\ Cardinality(Y) <= Cardinality(Years(S))
           /\ \A y \in Years(S) : y \notin Y => Cardinality(Y) + 1 <= Cardinality(Years(S))
<1>1. IsFiniteSet(S)
  BY DatesAreFinite
<1>2. IsFiniteSet(Years(S))
  <2> DEFINE year == [d \in S |-> YearOf[d]]
  <2>1. year \in Surjection(S, Years(S))
    BY DEF Surjection, Years
  <2> QED
    BY <1>1, <2>1, FS_Surjection
<1>3. IsFiniteSet(Y) /\ Cardinality(Y) <= Cardinality(Years(S))
  BY <1>2, FS_Subset
<1>4. Cardinality(Y) \in Nat /\ Cardinality(Years(S)) \in Nat
  BY <1>2, <1>3, FS_CardinalityType
<1>5. ASSUME NEW y \in Years(S), y \notin Y
      PROVE  Cardinality(Y) + 1 <= Cardinality(Years(S))
  <2>1. Cardinality(Y \cup {y}) = Cardinality(Y) + 1
    BY <1>3, <1>5, FS_AddElement
  <2>2. Cardinality(Y \cup {y}) <= Cardinality(Years(S))
    BY <1>2, <1>5, FS_Subset
  <2> QED
    BY <2>1, <2>2
<1> QED
  BY <1>3, <1>4, <1>5

\* The years left behind are years of the catalog.
LEMMA WalkedCounts ==
    ASSUME NEW rs, NEW C \in SUBSET Dates
    PROVE  /\ OpenYears(rs, C) \subseteq Years(Evident(C))
           /\ IsFiniteSet(OpenYears(rs, C)) /\ Cardinality(OpenYears(rs, C)) \in Nat
           /\ Cardinality(Years(Evident(C))) \in Nat
           /\ Walked(rs, C) \in Nat /\ Walked(rs, C) <= Cardinality(Years(Evident(C)))
<1>1. Evident(C) \in SUBSET Dates
  BY DEF Evident
<1>2. OpenYears(rs, C) \subseteq Years(Evident(C))
  BY DEF OpenYears, OlderIn, Years
<1>3. /\ IsFiniteSet(OpenYears(rs, C)) /\ Cardinality(OpenYears(rs, C)) \in Nat
      /\ Cardinality(Years(Evident(C))) \in Nat
      /\ Cardinality(OpenYears(rs, C)) <= Cardinality(Years(Evident(C)))
  BY <1>1, <1>2, YearsCount
<1>4. /\ Present(rs) = {} => Walked(rs, C) = 0
      /\ Present(rs) # {} => Walked(rs, C) =
            Cardinality(Years(Evident(C))) - Cardinality(OpenYears(rs, C))
  BY DEF Walked
<1> QED
  BY <1>2, <1>3, <1>4

\* A round of a walk back starts in a year that it leaves none before it in.
LEMMA WalkLeavesAYear ==
    ASSUME catalog \in SUBSET Dates, NEW rs, History(rs), rs # <<>>,
           AllPresent(rs).kind = "execute"
    PROVE  LET start == AllPresent(rs).start
           IN  /\ start \in Older(rs) /\ start < LastRound(rs).start
               /\ \A v \in Older(rs) : v < start => YearOf[v] # YearOf[start]
               /\ AllPresent(rs).type \notin {"anchor_recovery", "bisection"}
<1> DEFINE picks == EvenlySpaced(InWindow(rs))
           few == Cardinality(InWindow(rs)) < TailThreshold \/ InWindow(rs) = {}
           last == LastRound(rs).start
<1>1. Older(rs) # {}
  BY Kinds DEF AllPresent
<1>2. /\ InWindow(rs) \subseteq Older(rs)
      /\ Older(rs) \in SUBSET Dates /\ InWindow(rs) \in SUBSET Dates
      /\ \A v \in Older(rs) : v < last
  BY Vintages DEF Older, InWindow
<1>3. CASE few
  <2>1. AllPresent(rs) = Execute("tail", Oldest(Older(rs)), Older(rs))
    BY <1>3, Kinds DEF AllPresent
  <2>2. /\ Oldest(Older(rs)) \in Older(rs) /\ Older(rs) \in SUBSET Nat
        /\ \A v \in Older(rs) : Oldest(Older(rs)) <= v
    BY <1>1, <1>2, DatesAreFinite
  <2>3. \A v \in Older(rs) : ~(v < Oldest(Older(rs)))
    BY <2>2
  <2>4. AllPresent(rs).start = Oldest(Older(rs)) /\ AllPresent(rs).type = "tail"
    BY <2>1, Kinds
  <2> QED
    BY <1>2, <2>2, <2>3, <2>4
<1>4. CASE ~few
  <2>1. AllPresent(rs) = Execute("walk_back", Oldest(picks), picks)
    BY <1>4, Kinds DEF AllPresent
  <2>2. /\ picks \subseteq InWindow(rs) /\ Oldest(InWindow(rs)) \in picks
        /\ InWindow(rs) \in SUBSET Nat
        /\ \A v \in InWindow(rs) : Oldest(InWindow(rs)) <= v
    BY <1>2, <1>4, EvenlySpacedTakes, DatesAreFinite
  <2>3. picks \in SUBSET Dates /\ picks # {}
    BY <1>2, <2>2
  <2> HIDE DEF picks
  <2>4. Oldest(picks) \in picks /\ \A v \in picks : Oldest(picks) <= v
    BY <2>3, DatesAreFinite
  <2>5. Oldest(picks) = Oldest(InWindow(rs))
    <3>1. Oldest(picks) <= Oldest(InWindow(rs)) /\ Oldest(InWindow(rs)) <= Oldest(picks)
      BY <2>2, <2>4
    <3>2. Oldest(picks) \in Nat /\ Oldest(InWindow(rs)) \in Nat
      BY <2>2, <2>4
    <3> QED
      BY <3>1, <3>2
  <2>6. ASSUME NEW v \in Older(rs), v < Oldest(picks)
        PROVE  YearOf[v] # YearOf[Oldest(picks)]
    <3>1. v \in Dates /\ v \in Nat /\ Oldest(picks) \in InWindow(rs) /\ Oldest(picks) \in Nat
      BY <1>2, <2>2, <2>4, DatesAreFinite
    <3>2. v \notin InWindow(rs)
      BY <2>2, <2>5, <2>6, <3>1
    <3>3. ~(YearOf[v] >= YearOf[last] - WalkBackYears)
      BY <3>2 DEF InWindow
    <3>4. YearOf[Oldest(picks)] >= YearOf[last] - WalkBackYears
      BY <3>1 DEF InWindow
    <3> QED
      BY <3>3, <3>4
  <2>7. AllPresent(rs).start = Oldest(picks) /\ AllPresent(rs).type = "walk_back"
    BY <2>1, Kinds
  <2> QED
    BY <1>2, <2>2, <2>4, <2>6, <2>7
<1> QED
  BY <1>3, <1>4

\* So one year at least is no longer open.
LEMMA WalkCloses ==
    ASSUME catalog \in SUBSET Dates, NEW rs, History(rs), rs # <<>>,
           Present(rs) # {}, Absent(rs) = {},
           AllPresent(rs).kind = "execute",
           NEW verdict \in [AllPresent(rs).picks -> Verdicts]
    PROVE  LET new == Append(rs, RoundOf(AllPresent(rs), verdict))
           IN  Walked(rs, catalog) + 1 <= Walked(new, catalog)
<1> DEFINE action == AllPresent(rs)
           r == RoundOf(action, verdict)
           new == Append(rs, r)
           gone == YearOf[action.start]
<1>1. /\ action.start \in Older(rs) /\ action.start < LastRound(rs).start
      /\ \A v \in Older(rs) : v < action.start => YearOf[v] # gone
  BY WalkLeavesAYear
<1>2. Follows(action, rs)
  BY WalkBackFollows
<1> HIDE DEF action
<1>3. /\ Len(new) = Len(rs) + 1 /\ new[Len(rs) + 1] = r
      /\ Scored(new) = Scored(rs) \cup action.picks /\ Present(rs) \subseteq Present(new)
  BY <1>2, RoundAdded DEF action
<1>4. LastRound(new).start = action.start
  BY <1>3 DEF LastRound, RoundOf
<1> HIDE DEF new, r
<1>5. /\ OlderIn(rs, catalog) = Older(rs)
      /\ OpenYears(rs, catalog) = Years(Older(rs))
  BY DEF OpenYears, OlderIn, Older, Unscored, EvidenceVintages, Evident
<1>6. Older(rs) \in SUBSET Dates
  BY Vintages DEF Older
<1>7. gone \in Years(Older(rs))
  BY <1>1 DEF Years
<1>8. OlderIn(new, catalog) \subseteq {v \in Older(rs) : v < action.start}
  <2> SUFFICES ASSUME NEW v \in OlderIn(new, catalog)
               PROVE  v \in Older(rs) /\ v < action.start
    OBVIOUS
  <2>1. v \in Evident(catalog) \ Scored(new) /\ v < action.start
    BY <1>4 DEF OlderIn
  <2>2. v \in Nat /\ action.start \in Nat /\ LastRound(rs).start \in Nat
    <3>1. v \in Dates
      BY <2>1 DEF Evident
    <3>2. rs \in Seq(Round) /\ Len(rs) \in 1..Len(rs)
      BY ScoredIsPicked DEF History
    <3>3. LastRound(rs) \in Round
      BY <3>2 DEF LastRound
    <3>4. LastRound(rs).start \in Dates \cup {0}
      BY <3>3 DEF Round
    <3> QED
      BY <1>1, <1>6, <3>1, <3>4, ScanAssumption
  <2>3. v < LastRound(rs).start
    BY <1>1, <2>1, <2>2
  <2> QED
    BY <1>3, <2>1, <2>3 DEF Older, Unscored, EvidenceVintages, Evident
<1>9. OpenYears(new, catalog) \subseteq Years(Older(rs)) /\ gone \notin OpenYears(new, catalog)
  BY <1>1, <1>8 DEF OpenYears, Years
<1>10. Cardinality(OpenYears(new, catalog)) + 1 <= Cardinality(OpenYears(rs, catalog))
  BY <1>5, <1>6, <1>7, <1>9, YearsCount
<1>11. Present(new) # {}
  BY <1>3
<1>12. /\ Cardinality(OpenYears(rs, catalog)) \in Nat
       /\ Cardinality(OpenYears(new, catalog)) \in Nat
       /\ Cardinality(Years(Evident(catalog))) \in Nat
  BY WalkedCounts
<1>13. Walked(rs, catalog) + 1 <= Walked(new, catalog)
  BY <1>10, <1>11, <1>12 DEF Walked
<1> QED
  BY <1>13 DEF new, r, action

\* A recovery round is planned while there are recoveries left,
LEMMA RecoveryCounts ==
    ASSUME NEW rs, AnchorRecovery(rs).kind = "execute"
    PROVE  /\ AnchorRecovery(rs).type = "anchor_recovery"
           /\ ~(CountType(rs, "anchor_recovery") >= MaxRecovery)
  BY Kinds DEF AnchorRecovery

\* and a bisection once.
LEMMA BisectionCounts ==
    ASSUME NEW rs, Bisection(rs).kind = "execute"
    PROVE  Bisection(rs).type = "bisection" /\ ~(CountType(rs, "bisection") > 0)
  BY Kinds DEF Bisection

\* Every round raises the measure.
LEMMA RoundGains ==
    ASSUME NEW rs, History(rs), Decide(rs).kind = "execute", catalog \in SUBSET Dates,
           CountType(rs, "anchor_recovery") <= MaxRecovery,
           NEW verdict \in [Decide(rs).picks -> Verdicts]
    PROVE  LET new == Append(rs, RoundOf(Decide(rs), verdict))
           IN  /\ Measure(rs, catalog) \in Nat /\ Measure(new, catalog) \in Nat
               /\ Measure(rs, catalog) + 1 <= Measure(new, catalog)
               /\ CountType(new, "anchor_recovery") <= MaxRecovery
<1> DEFINE action == Decide(rs)
           r == RoundOf(action, verdict)
           new == Append(rs, r)
           recoveries(q) == CountType(q, "anchor_recovery")
           bisections(q) == CountType(q, "bisection")
           walked(q) == Walked(q, catalog)
<1>1. Follows(action, rs)
  BY ActionFollows
<1>2. /\ rs \in Seq(Round) /\ Len(rs) \in Nat /\ r \in Round /\ Len(new) = Len(rs) + 1
      /\ Present(rs) \subseteq Present(new) /\ Absent(rs) \subseteq Absent(new)
  BY <1>1, ScoredIsPicked, RoundAdded DEF History
<1>3. r.type = action.type
  BY DEF RoundOf
<1>4. /\ recoveries(rs) \in Nat /\ bisections(rs) \in Nat
      /\ r.type = "anchor_recovery" => recoveries(new) = recoveries(rs) + 1
      /\ r.type # "anchor_recovery" => recoveries(new) = recoveries(rs)
      /\ r.type = "bisection" => bisections(new) = bisections(rs) + 1
      /\ r.type # "bisection" => bisections(new) = bisections(rs)
  BY <1>2, RoundCounted
<1>5. walked(rs) \in Nat /\ walked(new) \in Nat
  BY WalkedCounts
<1>6. MaxRecovery \in Nat /\ recoveries(rs) <= MaxRecovery
  BY ScanAssumption
<1>7. new # <<>>
  <2>1. Len(new) # 0
    BY <1>2
  <2> HIDE DEF new
  <2> QED
    BY <2>1
<1>8. /\ Measure(new, catalog) =
            1 + recoveries(new) + (IF bisections(new) > 0 THEN 1 ELSE 0) + walked(new)
      /\ rs = <<>> => Measure(rs, catalog) =
            0 + recoveries(rs) + (IF bisections(rs) > 0 THEN 1 ELSE 0) + walked(rs)
      /\ rs # <<>> => Measure(rs, catalog) =
            1 + recoveries(rs) + (IF bisections(rs) > 0 THEN 1 ELSE 0) + walked(rs)
  BY <1>7 DEF Measure
<1>9. Present(rs) = {} => walked(rs) = 0
  BY DEF Walked
<1>10. CASE rs = <<>>
  <2>1. Present(rs) = {} /\ recoveries(rs) = 0 /\ bisections(rs) = 0
    BY <1>10, NoRounds, ScoredIsPicked
  <2>2. action.type = "initial"
    BY <1>10, Kinds DEF Decide, InitialRound
  <2>3. recoveries(new) = 0 /\ bisections(new) = 0 /\ walked(rs) = 0
    BY <1>3, <1>4, <1>9, <2>1, <2>2
  <2> HIDE DEF recoveries, bisections, walked, new, r, action
  <2>4. Measure(rs, catalog) = 0 /\ Measure(new, catalog) = 1 + walked(new)
    BY <1>5, <1>8, <1>10, <2>1, <2>3
  <2>5. recoveries(new) <= MaxRecovery
    BY <1>6, <2>3
  <2>6. /\ Measure(rs, catalog) \in Nat /\ Measure(new, catalog) \in Nat
        /\ Measure(rs, catalog) + 1 <= Measure(new, catalog)
    BY <1>5, <2>4
  <2> QED
    BY <2>5, <2>6 DEF new, r, action, recoveries
<1>11. CASE rs # <<>> /\ action = AnchorRecovery(rs) /\ Present(rs) = {}
  <2>1. action.type = "anchor_recovery" /\ ~(recoveries(rs) >= MaxRecovery)
    BY <1>11, RecoveryCounts
  <2>2. /\ recoveries(new) = recoveries(rs) + 1 /\ bisections(new) = bisections(rs)
        /\ walked(rs) = 0
    BY <1>3, <1>4, <1>9, <1>11, <2>1
  <2> HIDE DEF recoveries, bisections, walked, new, r, action
  <2> QED
    BY <1>4, <1>5, <1>6, <1>8, <1>11, <2>1, <2>2 DEF new, r, action, recoveries
<1>12. CASE rs # <<>> /\ action = Bisection(rs) /\ Present(rs) # {} /\ Absent(rs) # {}
  <2>1. action.type = "bisection" /\ ~(bisections(rs) > 0)
    BY <1>12, BisectionCounts
  <2>2. /\ recoveries(new) = recoveries(rs) /\ bisections(new) = bisections(rs) + 1
    BY <1>3, <1>4, <2>1
  <2>3. walked(new) = walked(rs)
    BY <1>2, <1>12 DEF Walked, OpenYears
  <2> HIDE DEF recoveries, bisections, walked, new, r, action
  <2> QED
    BY <1>4, <1>5, <1>6, <1>8, <1>12, <2>1, <2>2, <2>3 DEF new, r, action, recoveries
<1>13. CASE /\ rs # <<>> /\ action = AllPresent(rs) /\ Present(rs) # {} /\ Absent(rs) = {}
  <2>1. action.type \notin {"anchor_recovery", "bisection"}
    BY <1>13, WalkLeavesAYear
  <2>2. recoveries(new) = recoveries(rs) /\ bisections(new) = bisections(rs)
    BY <1>3, <1>4, <2>1
  <2>3. walked(rs) + 1 <= walked(new)
    BY <1>13, WalkCloses
  <2> HIDE DEF recoveries, bisections, walked, new, r, action
  <2> QED
    BY <1>4, <1>5, <1>6, <1>8, <1>13, <2>2, <2>3 DEF new, r, action, recoveries
<1>14. rs # <<>> =>
        \/ action = AnchorRecovery(rs) /\ Present(rs) = {}
        \/ action = Bisection(rs) /\ Present(rs) # {} /\ Absent(rs) # {}
        \/ action = AllPresent(rs) /\ Present(rs) # {} /\ Absent(rs) = {}
  BY Kinds DEF Decide, AllAbsent
<1> QED
  BY <1>10, <1>11, <1>12, <1>13, <1>14

LEMMA IterStep ==
    ASSUME ScanInv, IterInv, [Next]_vars
    PROVE  IterInv'
<1> USE DEF IterInv
<1>1. NoFile.rounds = <<>> /\ NewState.rounds = <<>> /\ CountType(<<>>, "anchor_recovery") = 0
      /\ MaxRecovery \in Nat
  BY NoRounds, ScanAssumption DEF NoFile, NewState
<1>2. CASE Begin
  <2>1. saved'.rounds = saved.rounds
    BY <1>1, <1>2 DEF Begin
  <2> QED
    BY <1>2, <2>1 DEF Begin
<1>3. CASE ForceRestart
  BY <1>1, <1>3 DEF ForceRestart
<1>4. CASE ResolveCatalog
  <2>1. /\ pc' = "loop" /\ iter' = 0 /\ catalog' \in SUBSET Dates
        /\ state' = state /\ saved' = state /\ pc = "resolve"
    BY <1>4, ScanAssumption DEF ResolveCatalog, ScanInv
  <2>2. state.rounds \in Seq(Round)
    BY <2>1 DEF ScanInv, ScanState
  <2>3. PICK C \in SUBSET Dates : C = catalog'
    BY <2>1
  <2>4. Walked(state.rounds, C) \in Nat
    BY WalkedCounts
  <2>5. /\ CountType(state.rounds, "anchor_recovery") \in Nat
        /\ CountType(state.rounds, "bisection") \in Nat
    <3>1. CASE state.rounds = <<>>
      BY <3>1, NoRounds
    <3>2. CASE state.rounds # <<>>
      BY <2>2, <3>2, RoundCounted
    <3> QED
      BY <3>1, <3>2
  <2>6. Measure(state.rounds, C) \in Nat
    BY <2>4, <2>5 DEF Measure
  <2> QED
    BY <2>1, <2>3, <2>6
<1>5. CASE ExecuteRound
  <2> DEFINE action == Decide(state.rounds)
  <2>1. PICK verdict \in [action.picks -> Verdicts] :
            state' = [state EXCEPT !.rounds = Append(@, RoundOf(action, verdict))]
    BY <1>5 DEF ExecuteRound, RoundOf
  <2>2. /\ pc = "loop" /\ action.kind = "execute" /\ pc' = "unsaved"
        /\ catalog' = catalog /\ iter' = iter /\ saved' = saved
        /\ iter <= Measure(state.rounds, catalog)
        /\ CountType(state.rounds, "anchor_recovery") <= MaxRecovery
    BY <1>5 DEF ExecuteRound
  <2>3. catalog \in SUBSET Dates /\ History(state.rounds) /\ state \in ScanState
    BY <2>2, ScanAssumption DEF ScanInv
  <2> DEFINE new == Append(state.rounds, RoundOf(action, verdict))
  <2>4. /\ Measure(state.rounds, catalog) \in Nat /\ Measure(new, catalog) \in Nat
        /\ Measure(state.rounds, catalog) + 1 <= Measure(new, catalog)
        /\ CountType(new, "anchor_recovery") <= MaxRecovery
    BY <2>2, <2>3, RoundGains
  <2> HIDE DEF new
  <2>5. state'.rounds = new
    BY <2>1, <2>3 DEF ScanState, new
  <2> HIDE DEF action
  <2>6. iter + 1 <= Measure(new, catalog)
    BY <2>2, <2>4
  <2> QED
    BY <2>2, <2>4, <2>5, <2>6
<1>6. CASE SaveRound
  <2>1. /\ pc = "unsaved" /\ iter' = iter + 1 /\ saved' = state /\ state' = state
        /\ catalog' = catalog /\ pc' = "loop"
    BY <1>6 DEF SaveRound
  <2> QED
    BY <2>1
<1>7. CASE Terminate
  <2>1. /\ pc = "loop" /\ pc' = "idle" /\ iter' = iter /\ saved' = state'
        /\ state' = [state EXCEPT !.status = Decide(state.rounds).status]
    BY <1>7 DEF Terminate
  <2>2. state \in ScanState
    BY DEF ScanInv
  <2>3. saved'.rounds = state.rounds
    BY <2>1, <2>2 DEF ScanState
  <2> QED
    BY <2>1, <2>3
<1>8. CASE OrchestratorFailure
  <2>1. saved' = [saved EXCEPT !.status = OrchestratorError] /\ pc' = "idle" /\ iter' = iter
    BY <1>8 DEF OrchestratorFailure
  <2>2. saved'.rounds = saved.rounds
    BY <2>1 DEF ScanInv, ScanState
  <2> QED
    BY <2>1, <2>2
<1>9. CASE FailClosed \/ Crash
  BY <1>9 DEF FailClosed, Crash
<1>10. CASE UNCHANGED vars
  BY <1>10 DEF vars
<1> QED
  BY <1>2, <1>3, <1>4, <1>5, <1>6, <1>7, <1>8, <1>9, <1>10 DEF Next

\* The measure is bounded by the years of the catalog.
LEMMA MeasureIsBounded ==
    ASSUME NEW rs \in Seq(Round), NEW C \in SUBSET Dates,
           CountType(rs, "anchor_recovery") <= MaxRecovery
    PROVE  /\ Measure(rs, C) \in Int
           /\ Measure(rs, C) <= Cardinality(Years(Evident(C))) + MaxRecovery + 2
           /\ Cardinality(Years(Evident(C))) \in Nat
<1>1. /\ Walked(rs, C) \in Nat /\ Walked(rs, C) <= Cardinality(Years(Evident(C)))
      /\ Cardinality(Years(Evident(C))) \in Nat
  BY WalkedCounts
<1>2. CountType(rs, "anchor_recovery") \in Nat /\ MaxRecovery \in Nat
  <2>1. CASE rs = <<>>
    BY <2>1, NoRounds, ScanAssumption
  <2>2. CASE rs # <<>>
    BY <2>2, RoundCounted, ScanAssumption
  <2> QED
    BY <2>1, <2>2
<1>3. PICK a, b \in 0..1 : Measure(rs, C) =
            a + CountType(rs, "anchor_recovery") + b + Walked(rs, C)
  BY DEF Measure
<1> QED
  BY <1>1, <1>2, <1>3

\* No frame is paid for twice, every round after the first pays for one at least,
\* and a run goes through the loop of run_one_anchor at most once for every
\* year of imagery and MaxRecovery + 2 times more (decide_next_action and its
\* planners in scan_decision.py): with the settings of the code, 27 years before
\* the census leave max_iter unmet, however many capture dates they hold.
THEOREM RoundsAreNew == Spec => []EveryRoundIsNew
<1>1. Init => ScanInv /\ IterInv
  BY ScanInit
<1>2. ScanInv /\ IterInv /\ [Next]_vars => ScanInv' /\ IterInv'
  BY ScanStep, IterStep
<1>3. ScanInv /\ IterInv => EveryRoundIsNew
  <2> SUFFICES ASSUME ScanInv, IterInv PROVE EveryRoundIsNew
    OBVIOUS
  <2>1. History(saved.rounds)
    BY DEF ScanInv
  <2>2. EachDateScoredOnce
    BY <2>1, ScoredIsPicked DEF EachDateScoredOnce, History
  <2>3. \A i \in DOMAIN saved.rounds : i > 1 => saved.rounds[i].picks # {}
    BY <2>1, ScoredIsPicked DEF History
  <2>4. ASSUME pc = "loop"
        PROVE  iter <= Cardinality(Years(EvidenceVintages)) + MaxRecovery + 2
    <3>1. catalog \in SUBSET Dates /\ state.rounds \in Seq(Round) /\ MaxRecovery \in Nat
      BY ScanAssumption DEF ScanInv, ScanState
    <3>2. /\ iter \in Nat /\ iter <= Measure(state.rounds, catalog)
          /\ CountType(state.rounds, "anchor_recovery") <= MaxRecovery
      BY <2>4 DEF IterInv
    <3>3. EvidenceVintages = Evident(catalog)
      BY DEF EvidenceVintages, Evident
    <3>4. /\ Measure(state.rounds, catalog) \in Int
          /\ Measure(state.rounds, catalog)
                <= Cardinality(Years(Evident(catalog))) + MaxRecovery + 2
          /\ Cardinality(Years(Evident(catalog))) \in Nat
      BY <3>1, <3>2, MeasureIsBounded
    <3> QED
      BY <3>1, <3>2, <3>3, <3>4
  <2> QED
    BY <2>2, <2>3, <2>4 DEF EveryRoundIsNew, RoundsFewerThanYears
<1> QED
  BY <1>1, <1>2, <1>3, PTL DEF Spec

\* Rounds are appended to the file, never dropped or rewritten, and a terminal
\* state is final, short of a forced restart (save_scan_state in run_one_anchor,
\* _record_orchestrator_failure).
THEOREM CheckpointGrows == Spec => CheckpointOnlyGrows
<1> DEFINE Grows ==
        \/ saved' = saved
        \/ saved' = NewState /\ (saved = NoFile \/ interrupts' > interrupts)
        \/ /\ saved.status \notin Terminal
           /\ Len(saved'.rounds) >= Len(saved.rounds)
           /\ SubSeq(saved'.rounds, 1, Len(saved.rounds)) = saved.rounds
<1>1. ASSUME ScanInv, [Next]_vars PROVE Grows \/ UNCHANGED vars
  <2> DEFINE old == saved.rounds
  <2>1. /\ old \in Seq(Round) /\ Len(old) \in Nat /\ interrupts \in Nat
        /\ saved = [status |-> saved.status, rounds |-> old]
        /\ state \in ScanState
    BY <1>1, ScanAssumption DEF ScanInv, ScanState
  <2>2. SubSeq(old, 1, Len(old)) = old
    BY <2>1
  <2>3. "scanning" \notin Terminal
    BY DEF Terminal, AlreadyPresent, OrchestratorError
  <2>4. CASE Begin
    BY <2>4 DEF Begin
  <2>5. CASE ForceRestart
    BY <2>1, <2>5 DEF ForceRestart
  <2>6. CASE ResolveCatalog
    BY <1>1, <2>6 DEF ResolveCatalog, ScanInv
  <2>7. CASE Terminate
    <3>1. pc = "loop" /\ saved.status = "scanning" /\ saved' = [state EXCEPT !.status = Decide(state.rounds).status]
      BY <1>1, <2>7 DEF Terminate, ScanInv
    <3>2. state = saved
      BY <1>1, <3>1 DEF ScanInv
    <3>3. saved'.rounds = old
      BY <2>1, <3>1, <3>2 DEF ScanState
    <3> QED
      BY <2>1, <2>2, <2>3, <3>1, <3>3
  <2>8. CASE SaveRound
    <3>1. pc = "unsaved" /\ saved' = state
      BY <2>8 DEF SaveRound
    <3>2. saved.status = "scanning" /\ \E r \in Round : saved'.rounds = Append(old, r)
      BY <1>1, <3>1 DEF ScanInv
    <3>3. PICK r \in Round : saved'.rounds = Append(old, r)
      BY <3>2
    <3>4. /\ Len(Append(old, r)) = Len(old) + 1
          /\ SubSeq(Append(old, r), 1, Len(old)) = old
      BY <2>1
    <3> QED
      BY <2>1, <2>3, <3>2, <3>3, <3>4
  <2>9. CASE OrchestratorFailure
    <3>1. saved.status = "scanning" /\ saved' = [saved EXCEPT !.status = OrchestratorError]
      BY <1>1, <2>9 DEF OrchestratorFailure, ScanInv
    <3>2. saved'.rounds = old
      BY <2>1, <3>1
    <3> QED
      BY <2>1, <2>2, <2>3, <3>1, <3>2
  <2>10. CASE ExecuteRound \/ FailClosed \/ Crash
    BY <2>10 DEF ExecuteRound, FailClosed, Crash
  <2> QED
    BY <1>1, <2>4, <2>5, <2>6, <2>7, <2>8, <2>9, <2>10 DEF Next
<1>2. ScanInv /\ [Next]_vars => [Grows]_vars
  BY <1>1
<1> HIDE DEF Grows
<1>3. Spec => [][Grows]_vars
  BY <1>2, ScanInvariant, PTL DEF Spec
<1> QED
  BY <1>3 DEF CheckpointOnlyGrows, Grows

-----------------------------------------------------------------------------
(* The interval of a row.                                                  *)

\* What a terminal status and the frames of a scan have to do with each other.
Consistent(seen) ==
    /\ seen.present \in SUBSET Dates /\ seen.absent \in SUBSET Dates
    /\ seen.present \cap seen.absent = {}
    /\ \A d \in seen.present \cup seen.absent : d < Census
    /\ seen.status = "done_appears" =>
        /\ seen.present # {} /\ seen.absent # {}
        /\ \A p \in seen.present, a \in seen.absent : ~(p < a)
    /\ seen.status = "done_installed_during_census" =>
        seen.present = {} /\ seen.absent # {}
    /\ seen.status = AlreadyPresent =>
        seen.present # {} /\ seen.absent = {}

\* The repair leaves a consistent scan as it is or makes it consistent.
LEMMA RepairFits ==
    ASSUME NEW seen, Consistent(seen), NEW sure \in SUBSET seen.present
    PROVE  Consistent(Repair(seen, sure))
<1> DEFINE dips == Dips(seen, sure)
           present == seen.present \cup dips
           absent == seen.absent \ dips
           resolved == /\ seen.status = "done_ambiguous_nonmonotonic"
                       /\ dips # {}
                       /\ \A p \in present, a \in absent : a <= p
           new == Repair(seen, sure)
<1>1. /\ new.status = IF ~resolved THEN seen.status
                      ELSE IF absent # {} THEN "done_appears" ELSE AlreadyPresent
      /\ new.present = present /\ new.absent = absent
  BY DEF Repair
<1>2. /\ dips \subseteq seen.absent
      /\ \A d \in dips : \E p \in seen.present : p < d
  BY DEF Dips
<1> HIDE DEF new, dips
<1>3. /\ present \in SUBSET Dates /\ absent \in SUBSET Dates
      /\ present \cap absent = {}
      /\ \A d \in present \cup absent : d < Census
  BY <1>2 DEF Consistent
<1>4. ASSUME resolved PROVE Consistent(new)
  <2>1. present # {}
    BY <1>4
  <2>2. ASSUME NEW q \in present, NEW a \in absent PROVE ~(q < a)
    <3>1. a <= q /\ a \in Nat /\ q \in Nat
      BY <1>3, <1>4, DatesAreFinite
    <3> QED
      BY <3>1
  <2> QED
    BY <1>1, <1>3, <1>4, <2>1, <2>2 DEF Consistent, AlreadyPresent
<1>5. ASSUME ~resolved PROVE Consistent(new)
  <2>1. new.status = seen.status
    BY <1>1, <1>5
  <2>2. CASE seen.status \in {"done_appears", "done_installed_during_census", AlreadyPresent}
    <3>1. dips = {}
      BY <1>2, <2>2 DEF Consistent
    <3>2. new.present = seen.present /\ new.absent = seen.absent
      BY <1>1, <3>1
    <3> QED
      BY <2>1, <3>2 DEF Consistent
  <2>3. CASE seen.status \notin {"done_appears", "done_installed_during_census", AlreadyPresent}
    BY <1>1, <1>3, <2>1, <2>3 DEF Consistent
  <2> QED
    BY <2>2, <2>3
<1>6. Consistent(new)
  BY <1>4, <1>5
<1> QED
  BY <1>6 DEF new

\* The days that fit are those after the last absent frame, up to the first
\* present one and the bound.
LEMMA FittingIs ==
    ASSUME NEW seen, Consistent(seen), NEW bound \in Nat
    PROVE  /\ \A day \in InstallDays : day \in Nat /\ day > 0
           /\ \A day \in InstallDays :
                day \in Fitting(seen, bound) <=>
                    /\ seen.absent # {} => Newest(seen.absent) < day
                    /\ seen.present # {} => day <= Oldest(seen.present)
                    /\ bound # 0 => day <= bound
           /\ Fitting(seen, bound) \subseteq InstallDays
<1>1. Newest(Dates \cup {Census}) \in Nat
  <2>1. Dates \cup {Census} \in SUBSET Nat /\ IsFiniteSet(Dates \cup {Census})
    BY ScanAssumption, FS_AddElement
  <2> QED
    BY <2>1, HasNewest
<1>2. \A day \in InstallDays : day \in Nat /\ day > 0
  BY <1>1 DEF InstallDays
<1>3. seen.absent \in SUBSET Dates /\ seen.present \in SUBSET Dates
  BY DEF Consistent
<1>4. ASSUME NEW day \in Nat
      PROVE  (\A a \in seen.absent : a < day) <=> (seen.absent # {} => Newest(seen.absent) < day)
  <2>1. seen.absent # {} => /\ Newest(seen.absent) \in seen.absent
                            /\ \A a \in seen.absent : a <= Newest(seen.absent)
    BY <1>3, DatesAreFinite
  <2>2. \A a \in seen.absent : a \in Nat
    BY <1>3, DatesAreFinite
  <2> QED
    BY <2>1, <2>2
<1>5. ASSUME NEW day \in Nat
      PROVE  (\A p \in seen.present : day <= p)
                <=> (seen.present # {} => day <= Oldest(seen.present))
  <2>1. seen.present # {} => /\ Oldest(seen.present) \in seen.present
                             /\ \A p \in seen.present : Oldest(seen.present) <= p
    BY <1>3, DatesAreFinite
  <2>2. \A p \in seen.present : p \in Nat
    BY <1>3, DatesAreFinite
  <2> QED
    BY <2>1, <2>2
<1> QED
  BY <1>2, <1>4, <1>5 DEF Fitting

\* The interval that infer_one reads off is the set of the days that fit.
Exact(seen, flight) ==
    LET row   == InferOne(seen, flight)
        bound == IF flight = 0 /\ seen.status = "done_installed_during_census"
                 THEN Census ELSE flight
    IN  IF row.interval = <<>>
        THEN seen.status \in {"done_appears", "done_installed_during_census"}
                => Fitting(seen, bound) = {}
        ELSE {day \in InstallDays : row.interval[1] < day /\ day <= row.interval[2]}
                = Fitting(seen, bound)

LEMMA RowKinds ==
    /\ \A status : Undated(status).interval = <<>>
    /\ \A status, start, end :
        /\ Dated(status, start, end).interval # <<>>
        /\ Dated(status, start, end).interval[1] = start
        /\ Dated(status, start, end).interval[2] = end
  BY DEF Undated, Dated

LEMMA ClampedBounds ==
    ASSUME NEW date \in Nat, NEW flight \in Nat, NEW day \in Nat
    PROVE  /\ Clamped(date, flight) \in Nat
           /\ day <= Clamped(date, flight) <=> day <= date /\ (flight # 0 => day <= flight)
  BY DEF Clamped

LEMMA AppearsExact ==
    ASSUME NEW seen, Consistent(seen), NEW flight \in Nat, seen.status = "done_appears"
    PROVE  Exact(seen, flight)
<1> DEFINE start == Newest(seen.absent)
           first == Oldest(seen.present)
           end == Clamped(first, flight)
           row == InferOne(seen, flight)
<1>1. /\ seen.present # {} /\ seen.absent # {}
      /\ seen.present \in SUBSET Dates /\ seen.absent \in SUBSET Dates
      /\ \A p \in seen.present, a \in seen.absent : ~(p < a)
  BY DEF Consistent
<1>2. start \in seen.absent /\ first \in seen.present /\ start \in Nat /\ first \in Nat
  BY <1>1, DatesAreFinite
<1>3. ~(start > first)
  BY <1>1, <1>2
<1>4. row = Appears(seen, flight)
  BY DEF InferOne, AlreadyPresent
<1>5. row = IF start > end THEN Undated("done_ambiguous_clamp_inverted")
            ELSE Dated("done_appears", start, end)
  BY <1>1, <1>3, <1>4 DEF Appears
<1> HIDE DEF row
<1>6. \A day \in InstallDays :
         /\ day \in Nat
         /\ day \in Fitting(seen, flight) <=> start < day /\ day <= end
  BY <1>1, <1>2, FittingIs, ClampedBounds
<1>7. Fitting(seen, flight) \subseteq InstallDays
  BY FittingIs
<1>8. end \in Nat
  BY <1>2, ClampedBounds
<1> HIDE DEF start, end
<1>9. CASE start > end
  <2>1. Fitting(seen, flight) = {}
    BY <1>2, <1>6, <1>7, <1>8, <1>9 DEF start
  <2>2. row.interval = <<>>
    BY <1>5, <1>9, RowKinds
  <2> QED
    BY <2>1, <2>2 DEF Exact, row
<1>10. CASE ~(start > end)
  <2>1. {day \in InstallDays : start < day /\ day <= end} = Fitting(seen, flight)
    BY <1>6, <1>7
  <2>2. row.interval # <<>> /\ row.interval[1] = start /\ row.interval[2] = end
    BY <1>5, <1>10, RowKinds
  <2> QED
    BY <2>1, <2>2 DEF Exact, row
<1> QED
  BY <1>9, <1>10

LEMMA DuringCensusExact ==
    ASSUME NEW seen, Consistent(seen), NEW flight \in Nat,
           seen.status = "done_installed_during_census"
    PROVE  Exact(seen, flight)
<1> DEFINE start == Newest(seen.absent)
           end == IF flight # 0 THEN flight ELSE Census
           row == InferOne(seen, flight)
<1>1. /\ seen.present = {} /\ seen.absent # {} /\ seen.absent \in SUBSET Dates
      /\ \A d \in seen.absent : d < Census
  BY DEF Consistent
<1>2. start \in seen.absent /\ start \in Nat /\ start < Census /\ Census \in Nat
  BY <1>1, DatesAreFinite, ScanAssumption
<1>3. end \in Nat /\ end # 0
  BY <1>2
<1>4. row = DuringCensus(seen, flight)
  BY DEF InferOne, AlreadyPresent
<1>5. row = IF start >= end THEN Undated("done_ambiguous_marker_missed_pv")
            ELSE Dated("done_installed_during_census", start, end)
  BY <1>1, <1>4 DEF DuringCensus
<1> HIDE DEF row
<1>6. end = IF flight = 0 /\ seen.status = "done_installed_during_census"
            THEN Census ELSE flight
  OBVIOUS
<1>7. \A day \in InstallDays :
         /\ day \in Nat
         /\ day \in Fitting(seen, end) <=> start < day /\ day <= end
  BY <1>1, <1>3, FittingIs
<1>8. Fitting(seen, end) \subseteq InstallDays
  BY <1>3, FittingIs
<1> HIDE DEF start, end
<1>9. CASE start >= end
  <2>1. Fitting(seen, end) = {}
    BY <1>2, <1>3, <1>7, <1>8, <1>9 DEF start
  <2>2. row.interval = <<>>
    BY <1>5, <1>9, RowKinds
  <2> QED
    BY <1>6, <2>1, <2>2 DEF Exact, row
<1>10. CASE ~(start >= end)
  <2>1. {day \in InstallDays : start < day /\ day <= end} = Fitting(seen, end)
    BY <1>7, <1>8
  <2>2. row.interval # <<>> /\ row.interval[1] = start /\ row.interval[2] = end
    BY <1>5, <1>10, RowKinds
  <2> QED
    BY <1>6, <2>1, <2>2 DEF Exact, row
<1> QED
  BY <1>9, <1>10

LEMMA AlreadyPresentExact ==
    ASSUME NEW seen, Consistent(seen), NEW flight \in Nat, seen.status = AlreadyPresent
    PROVE  Exact(seen, flight)
<1> DEFINE first == Oldest(seen.present)
           end == Clamped(first, flight)
           row == InferOne(seen, flight)
<1>1. seen.present # {} /\ seen.absent = {} /\ seen.present \in SUBSET Dates
  BY DEF Consistent
<1>2. first \in Nat
  BY <1>1, DatesAreFinite
<1>3. seen.present \cup seen.absent = seen.present
  BY <1>1
<1>4. row = Dated(AlreadyPresent, 0, end)
  BY <1>1, <1>3 DEF InferOne, AlreadyPresent
<1> HIDE DEF row
<1>5. \A day \in InstallDays :
         /\ 0 < day
         /\ day \in Fitting(seen, flight) <=> day <= end
  BY <1>1, <1>2, FittingIs, ClampedBounds
<1>6. Fitting(seen, flight) \subseteq InstallDays
  BY FittingIs
<1> HIDE DEF end
<1>7. {day \in InstallDays : 0 < day /\ day <= end} = Fitting(seen, flight)
  BY <1>5, <1>6
<1>8. row.interval # <<>> /\ row.interval[1] = 0 /\ row.interval[2] = end
  BY <1>4, RowKinds
<1> QED
  BY <1>7, <1>8 DEF Exact, row, AlreadyPresent

LEMMA OtherExact ==
    ASSUME NEW seen, NEW flight \in Nat,
           seen.status \notin {"done_appears", "done_installed_during_census", AlreadyPresent}
    PROVE  Exact(seen, flight)
<1>1. InferOne(seen, flight) = Undated(seen.status)
  BY DEF InferOne
<1> QED
  BY <1>1, RowKinds DEF Exact

\* The interval of a row of install_intervals.csv is the set of the dates that
\* fit the frames, the repair and the flight (infer_one, apply_dip_repair), for
\* any scan, any dips and any flight date.
THEOREM IntervalHolds == Spec => []IntervalIsExact
<1>1. ScanInv => IntervalIsExact
  <2> SUFFICES ASSUME ScanInv, NEW flight \in FlightDates,
                      NEW sure \in SUBSET Present(saved.rounds)
               PROVE  Exact(Repair(Seen(saved), sure), flight)
    BY DEF IntervalIsExact, Exact
  <2> DEFINE seen == Seen(saved)
             rs == saved.rounds
  <2>1. Backed(saved, catalog, drifted) /\ History(rs) /\ flight \in Nat
    BY FlightAssumption DEF ScanInv
  <2>2. seen.status = saved.status /\ seen.present = Present(rs) /\ seen.absent = Absent(rs)
    BY DEF Seen
  <2>3. /\ Present(rs) \in SUBSET Dates /\ Absent(rs) \in SUBSET Dates
        /\ Present(rs) \cap Absent(rs) = {}
        /\ \A d \in Present(rs) \cup Absent(rs) : d < Census
    BY <2>1, ScoredIsPicked
  <2> HIDE DEF seen
  <2>4. Consistent(seen)
    BY <2>1, <2>2, <2>3 DEF Consistent, Backed, IsNonmonotonic
  <2>5. Consistent(Repair(seen, sure))
    BY <2>2, <2>4, RepairFits
  <2> QED
    BY <2>1, <2>5, AppearsExact, DuringCensusExact, AlreadyPresentExact, OtherExact DEF seen
<1> QED
  BY <1>1, ScanInvariant, PTL

-----------------------------------------------------------------------------
(* The batch this anchor is one of: the other half of run_adaptive_scan.py, *)
(* for any number of anchors and workers.                                   *)

\* Every step of a batch keeps the types.
LEMMA BatchTypes ==
    ASSUME BatchTypeOK, [BatchNext]_batchVars PROVE BatchTypeOK'
<1> USE BatchAssumption DEF BatchTypeOK, Files, Stages, Errors, NoCode
<1>1. ASSUME NEW a \in Anchors, Take(a) PROVE BatchTypeOK'
  BY <1>1 DEF Take, Move, Save, Throw
<1>2. ASSUME NEW a \in Anchors, Send(a) \/ Answer(a) \/ Finish(a) \/ Fail(a)
      PROVE  BatchTypeOK'
  BY <1>2 DEF Send, Answer, Finish, Fail, Move, Save
<1>3. ASSUME NEW a \in Anchors, FailsClosed(a) PROVE BatchTypeOK'
  BY <1>3 DEF FailsClosed, Move, Throw
<1>4. ASSUME NEW a \in Anchors, RecordFailure(a) PROVE BatchTypeOK'
  BY <1>4 DEF RecordFailure, Move, Save, Throw
<1>5. ASSUME NEW a \in Anchors, Collect(a) PROVE BatchTypeOK'
  BY <1>5 DEF Collect
<1>6. CASE Launch
  BY <1>6 DEF Launch
<1>7. CASE Exit \/ Kill
  BY <1>7 DEF Exit, ExitCode, Kill
<1>8. CASE UNCHANGED batchVars
  BY <1>8 DEF batchVars
<1> QED
  BY <1>1, <1>2, <1>3, <1>4, <1>5, <1>6, <1>7, <1>8 DEF BatchNext, Work

\* An anchor that handle returned has a terminal file; one it is busy with has
\* a resumable one; nothing is at work in a process that is gone.
StageOfFile ==
    \A a \in Anchors :
        /\ stage[a] = "returned" => file[a] \in {"done", "failed"}
        /\ stage[a] \in {"ready", "wire"} => file[a] = "scanning"
        /\ main = "off" => stage[a] \notin {"ready", "wire", "failing"}

\* main goes on only while every future it took had a result, and has no exit
\* code before it ends.
CollectedReturned ==
    /\ main = "running" => \A a \in collected : stage[a] = "returned"
    /\ main # "off" => code = NoCode

\* A batch that exited 0 has nothing left to do.
ZeroIsFinal ==
    code = 0 => \A a \in Anchors : stage[a] = "returned" /\ file[a] = "done"

\* An anchor with a fail-closed exception is over for this process.
FailClosedIsLast ==
    \A a \in Anchors : why[a] = "fail_closed" =>
        /\ file[a] = "scanning"
        /\ stage[a] = "raised" \/ main = "off"

BatchInv == StageOfFile /\ CollectedReturned /\ ZeroIsFinal /\ FailClosedIsLast

\* Every step of a batch keeps the invariant.
LEMMA BatchStep ==
    ASSUME BatchTypeOK, BatchInv, [BatchNext]_batchVars PROVE BatchInv'
<1> USE DEF BatchInv, StageOfFile, CollectedReturned, ZeroIsFinal, FailClosedIsLast,
            BatchTypeOK, Files, Stages, Errors, NoCode
<1>1. ASSUME NEW a \in Anchors, Take(a) PROVE BatchInv'
  BY <1>1 DEF Take, Move, Save, Throw
<1>2. ASSUME NEW a \in Anchors, Send(a) \/ Answer(a) \/ Fail(a)
      PROVE  BatchInv'
  BY <1>2 DEF Send, Answer, Fail, Move
<1>3. ASSUME NEW a \in Anchors, Finish(a) PROVE BatchInv'
  BY <1>3 DEF Finish, Move, Save
<1>4. ASSUME NEW a \in Anchors, FailsClosed(a) PROVE BatchInv'
  BY <1>4 DEF FailsClosed, Move, Throw
<1>5. ASSUME NEW a \in Anchors, RecordFailure(a) PROVE BatchInv'
  BY <1>5 DEF RecordFailure, Move, Save, Throw
<1>6. ASSUME NEW a \in Anchors, Collect(a) PROVE BatchInv'
  BY <1>6 DEF Collect
<1>7. CASE Launch
  BY <1>7 DEF Launch
<1>8. CASE Exit
  <2>1. CASE main = "running" /\ collected = Anchors /\ code' = ExitCode
    BY <1>8, <2>1 DEF Exit, ExitCode
  <2>2. CASE main = "unwinding" /\ code' = 1 /\ Active = {}
    BY <1>8, <2>2 DEF Exit, Active
  <2> QED
    BY <1>8, <2>1, <2>2 DEF Exit
<1>9. CASE Kill
  BY <1>9 DEF Kill
<1>10. CASE UNCHANGED batchVars
  BY <1>10 DEF batchVars
<1> QED
  BY <1>1, <1>2, <1>3, <1>4, <1>5, <1>6, <1>7, <1>8, <1>9, <1>10
  DEF BatchNext, Work

\* The invariant holds of every batch.
THEOREM BatchInvariant ==
    BatchSpec => [](BatchTypeOK /\ BatchInv)
<1>1. ASSUME BatchInit PROVE BatchTypeOK
  <2>1. file \in [Anchors -> Files]
    BY <1>1, BatchAssumption DEF BatchInit
  <2>2. /\ stage \in [Anchors -> Stages]
        /\ why \in [Anchors -> Errors]
    BY <1>1 DEF BatchInit, Stages, Errors
  <2>3. faults \in 0..MaxFaults /\ code = NoCode
    BY <1>1, BatchAssumption DEF BatchInit
  <2> QED
    BY <1>1, <2>1, <2>2, <2>3 DEF BatchInit, BatchTypeOK
<1>2. ASSUME BatchInit PROVE BatchInv
  BY <1>2 DEF BatchInit, BatchInv, StageOfFile, CollectedReturned, ZeroIsFinal,
              FailClosedIsLast, NoCode
<1>3. BatchTypeOK /\ BatchInv /\ [BatchNext]_batchVars => BatchTypeOK' /\ BatchInv'
  BY BatchTypes, BatchStep
<1> QED
  BY <1>1, <1>2, <1>3, PTL DEF BatchSpec

\* "A partial batch must not exit 0", for any number of anchors and workers:
\* an exit code 0 means that every anchor's state file is done.
THEOREM ZeroMeansDone ==
    BatchSpec => []ExitZeroMeansDone
<1>1. BatchInv => ExitZeroMeansDone
  BY DEF BatchInv, ZeroIsFinal, ExitZeroMeansDone
<1> QED
  BY <1>1, BatchInvariant, PTL

\* handle re-raises quota and model events without touching the state file, and
\* nothing else in the process writes it afterwards.
THEOREM FailClosedResumes ==
    BatchSpec => []FailClosedIsResumable
<1>1. BatchInv => FailClosedIsResumable
  BY DEF BatchInv, FailClosedIsLast, FailClosedIsResumable
<1> QED
  BY <1>1, BatchInvariant, PTL

=============================================================================

------------------------- MODULE FullTimelineProofs -------------------------
(***************************************************************************)
(* Theorems about the interval of a full timeline, for any number of dates *)
(* and any labels, and about the reference runner: for any dates, jobs,    *)
(* workers and attempt limit, and any pauses, deaths, lost PNGs and failed *)
(* appends, the raw log is the ledger of AttemptLedger, no model call is   *)
(* wasted while memory knows the file, and a finished stage stays          *)
(* finished.                                                               *)
(***************************************************************************)
EXTENDS FullTimeline, FiniteSetTheorems, WellFoundedInduction, TLAPS

-----------------------------------------------------------------------------
(* The interval.                                                           *)

\* A set of numbers that is not empty has a smallest one.
LEMMA Smallest ==
    ASSUME NEW S \in SUBSET Nat, S # {}
    PROVE  First(S) \in S /\ \A d \in S : First(S) <= d
<1>1. PICK x \in S : \A y \in S : ~(<<y, x>> \in OpToRel(<, Nat))
  BY NatLessThanWellFounded, WFMin
<1>2. \A y \in S : ~(y < x)
  BY <1>1 DEF OpToRel
<1>3. \A y \in S : x <= y
  BY <1>2
<1> QED
  BY <1>3 DEF First

\* A set of numbers up to n that is not empty has a largest one.
LEMMA Largest ==
    ASSUME NEW n \in Nat, NEW S \in SUBSET (1..n), S # {}
    PROVE  Last(S) \in S /\ \A d \in S : d <= Last(S)
<1> DEFINE U == {m \in Nat : \A d \in S : d <= m}
<1>1. n \in U /\ U \in SUBSET Nat
  OBVIOUS
<1>2. PICK m \in U : \A u \in U : m <= u
  BY <1>1, Smallest
<1>3. m \in S
  <2> SUFFICES ASSUME m \notin S PROVE FALSE
    OBVIOUS
  <2>1. \A d \in S : d <= m - 1
    BY <1>2
  <2>2. m - 1 \in Nat
    <3>1. PICK d \in S : TRUE
      OBVIOUS
    <3>2. d \in Nat /\ d >= 1 /\ d <= m - 1 /\ m \in Nat
      BY <2>1
    <3> QED
      BY <3>2
  <2> QED
    BY <1>2, <2>1, <2>2
<1> QED
  BY <1>2, <1>3 DEF Last

\* A finite set of numbers has an upper bound.
LEMMA FiniteHasBound ==
    ASSUME NEW S \in SUBSET Nat, IsFiniteSet(S)
    PROVE  \E n \in Nat : \A d \in S : d <= n
<1> DEFINE HasBound(X) == \E n \in Nat : \A d \in X : d <= n
           Unbounded == {X \in SUBSET S : ~HasBound(X)}
<1>1. SUFFICES ASSUME ~HasBound(S) PROVE FALSE
  OBVIOUS
<1>2. IsWellFoundedOn(StrictSubsetOrdering(S), SUBSET S)
  BY FS_StrictSubsetOrderingWellFounded, FS_FiniteSubsetsOfFinite
<1>3. Unbounded \subseteq SUBSET S /\ S \in Unbounded
  BY <1>1
<1>4. PICK X \in Unbounded :
         \A Y \in Unbounded : ~(<<Y, X>> \in StrictSubsetOrdering(S))
  <2> HIDE DEF Unbounded
  <2> QED
    BY <1>2, <1>3, WFMin
<1>5. X \in SUBSET S /\ X \in SUBSET Nat /\ ~HasBound(X)
  OBVIOUS
<1>6. PICK x \in X : TRUE
  BY <1>5
<1> DEFINE Y == X \ {x}
<1>7. <<Y, X>> \in StrictSubsetOrdering(S)
  BY <1>5, <1>6 DEF StrictSubsetOrdering
<1>8. HasBound(Y)
  BY <1>4, <1>5, <1>7
<1>9. PICK n \in Nat : \A d \in Y : d <= n
  BY <1>8
<1>10. CASE n <= x
  <2>1. \A d \in X : d <= x
    BY <1>5, <1>6, <1>9, <1>10
  <2> QED
    BY <1>5, <1>6, <2>1
<1>11. CASE x <= n
  <2>1. \A d \in X : d <= n
    BY <1>5, <1>6, <1>9, <1>11
  <2> QED
    BY <1>5, <2>1
<1> QED
  BY <1>5, <1>6, <1>10, <1>11

-----------------------------------------------------------------------------

\* The labels of a timeline are labels of its dates, and no date has two.
LEMMA LabelsOfDates ==
    ASSUME NEW n \in Nat, NEW obs, DOMAIN obs \in SUBSET (1..n)
    PROVE  /\ LabelDates(obs, "present") \in SUBSET (1..n)
           /\ LabelDates(obs, "absent") \in SUBSET (1..n)
           /\ \A label : LabelDates(obs, label) \subseteq (DOMAIN obs)
           /\ LabelDates(obs, "present") \cap LabelDates(obs, "absent") = {}
  BY DEF LabelDates

\* Some p of P is followed by an a of A with neither between them.
Adjacent(P, A) ==
    \E q \in P : \E e \in A :
        q < e /\ \A d : d \in P \/ d \in A => ~(q < d /\ d < e)

\* Where a present date comes before an absent one, some two neighbours are
\* in that order.
LEMMA Neighbours ==
    ASSUME NEW n \in Nat, NEW P \in SUBSET (1..n), NEW A \in SUBSET (1..n),
           NEW p \in P, NEW a \in A, p < a
    PROVE  Adjacent(P, A)
<1> DEFINE Late == {e \in A : \E q \in P : q < e}
<1>1. Late \in SUBSET Nat /\ a \in Late
  <2>1. \E q \in P : q < a
    OBVIOUS
  <2>2. A \in SUBSET Nat
    OBVIOUS
  <2> QED
    BY <2>1, <2>2, Zenon
<1>2. PICK e \in Late : \A d \in Late : e <= d
  <2> HIDE DEF Late
  <2> QED
    BY <1>1, Smallest
<1> DEFINE Before == {q \in P : q < e}
<1>3. Before \in SUBSET (1..n) /\ Before # {}
  BY <1>2
<1>4. PICK q \in Before : \A d \in Before : d <= q
  <2> HIDE DEF Before
  <2> QED
    BY <1>3, Largest
<1>5. q \in P /\ e \in A /\ q < e /\ q \in 1..n /\ e \in 1..n
  BY <1>2, <1>4
<1>6. ASSUME NEW d \in P, q < d, d < e PROVE FALSE
  <2>1. d \in 1..n /\ d <= q
    BY <1>4, <1>6
  <2> QED
    BY <1>5, <1>6, <2>1
<1>7. ASSUME NEW d \in A, q < d, d < e PROVE FALSE
  <2>1. d \in 1..n /\ e <= d
    BY <1>2, <1>5, <1>7
  <2> QED
    BY <1>5, <1>7, <2>1
<1> QED
  BY <1>5, <1>6, <1>7 DEF Adjacent

\* Labels without a conflict are in order: absent first, then present.
LEMMA InOrder ==
    ASSUME NEW n \in Nat, NEW D \in SUBSET (1..n), NEW obs \in [D -> Labels],
           ConflictFrames(obs) = {},
           NEW p \in LabelDates(obs, "present"), NEW a \in LabelDates(obs, "absent")
    PROVE  a < p
<1> SUFFICES ASSUME ~(a < p) PROVE FALSE
  OBVIOUS
<1> DEFINE P == LabelDates(obs, "present")
           A == LabelDates(obs, "absent")
<1>1. P \in SUBSET (1..n) /\ A \in SUBSET (1..n) /\ P \cap A = {}
  BY LabelsOfDates
<1>2. p \in P /\ a \in A
  OBVIOUS
<1>3. \A q, e : q \in P /\ e \in A /\ q < e
                /\ (\A d : d \in P \/ d \in A => ~(q < d /\ d < e))
                => <<q, e>> \in ConflictPairs(obs)
  BY DEF ConflictPairs, Confirmed
<1> HIDE DEF P, A
<1>4. p < a
  <2>1. p \in 1..n /\ a \in 1..n /\ p # a
    BY <1>1, <1>2
  <2> QED
    BY <2>1
<1>5. Adjacent(P, A)
  <2>1. P \in SUBSET (1..n) /\ A \in SUBSET (1..n)
    BY <1>1
  <2> QED
    BY <1>2, <1>4, <2>1, Neighbours
<1>6. PICK q \in P : \E e \in A : <<q, e>> \in ConflictPairs(obs)
  BY <1>3, <1>5 DEF Adjacent
<1>7. q \in ConflictFrames(obs)
  BY <1>6 DEF ConflictFrames
<1> QED
  BY <1>7

\* A timeline is in conflict exactly when no install date explains its
\* confirmed labels: infer_interval looks at neighbours only and misses none.
THEOREM ConflictMeansNoCut ==
    ASSUME NEW n \in Nat, NEW D \in SUBSET (1..n), NEW obs \in [D -> Labels]
    PROVE  ConflictFrames(obs) # {} <=> Cuts(obs) = {}
<1> DEFINE P == LabelDates(obs, "present")
           A == LabelDates(obs, "absent")
<1>1. P \in SUBSET (1..n) /\ A \in SUBSET (1..n)
  BY LabelsOfDates
<1>2. \A c : c \in Cuts(obs) <=>
          c \in Nat /\ (\A d \in P : c <= d) /\ (\A d \in A : d < c)
  BY DEF Cuts
<1>3. ConflictFrames(obs) = {} => \A p \in P, a \in A : a < p
  BY InOrder
<1>4. ConflictFrames(obs) # {} => \E q \in P, e \in A : q < e
  <2> SUFFICES ASSUME ConflictFrames(obs) # {} PROVE \E q \in P, e \in A : q < e
    OBVIOUS
  <2>1. PICK p \in ConflictPairs(obs) : TRUE
    BY DEF ConflictFrames
  <2> QED
    BY <2>1 DEF ConflictPairs
<1> HIDE DEF P, A
<1>5. ASSUME NEW q \in P, NEW e \in A, q < e, NEW c \in Cuts(obs) PROVE FALSE
  <2>1. c \in Nat /\ c <= q /\ e < c /\ q \in 1..n /\ e \in 1..n
    BY <1>1, <1>2, <1>5
  <2> QED
    BY <1>5, <2>1
<1>6. CASE P = {}
  <2>1. \A a \in A : a < n + 1
    BY <1>1
  <2>2. n + 1 \in Cuts(obs)
    BY <1>2, <1>6, <2>1
  <2> QED
    BY <1>4, <1>6, <2>2
<1>7. CASE P # {}
  <2>1. P \in SUBSET Nat
    BY <1>1
  <2>2. First(P) \in P /\ \A p \in P : First(P) <= p
    BY <1>7, <2>1, Smallest
  <2>3. ConflictFrames(obs) = {} => First(P) \in Cuts(obs)
    BY <1>2, <1>3, <2>1, <2>2
  <2> QED
    BY <1>4, <1>5, <2>3
<1> QED
  BY <1>6, <1>7

\* A bounded interval is exact: the install dates that explain the labels are
\* those after the last absent date up to the first present one.
THEOREM BoundedIsExact ==
    ASSUME NEW n \in Nat, NEW D \in SUBSET (1..n), NEW obs \in [D -> Labels],
           NEW aerial, InferInterval(obs, aerial).status = "bounded"
    PROVE  Cuts(obs) = (InferInterval(obs, aerial).start + 1)
                       .. InferInterval(obs, aerial).end
<1> DEFINE P == LabelDates(obs, "present")
           A == LabelDates(obs, "absent")
<1>1. P \in SUBSET (1..n) /\ A \in SUBSET (1..n)
  BY LabelsOfDates
<1>2. /\ P # {} /\ A # {}
      /\ InferInterval(obs, aerial).start = Last(A)
      /\ InferInterval(obs, aerial).end = First(P)
  BY DEF InferInterval, Undated
<1>3. \A c : c \in Cuts(obs) <=>
          c \in Nat /\ (\A d \in P : c <= d) /\ (\A d \in A : d < c)
  BY DEF Cuts
<1> HIDE DEF P, A
<1>4. P \in SUBSET Nat
  BY <1>1
<1>5. First(P) \in P /\ \A p \in P : First(P) <= p
  BY <1>2, <1>4, Smallest
<1>6. Last(A) \in A /\ \A a \in A : a <= Last(A)
  BY <1>1, <1>2, Largest
<1>7. First(P) \in 1..n /\ Last(A) \in 1..n
  BY <1>1, <1>5, <1>6
<1> DEFINE f == First(P)
           l == Last(A)
<1> HIDE DEF f, l
<1>8. /\ f \in P /\ l \in A /\ f \in 1..n /\ l \in 1..n
      /\ \A p \in P : f <= p
      /\ \A a \in A : a <= l
  BY <1>5, <1>6, <1>7 DEF f, l
<1>9. \A c : c \in Cuts(obs) => c \in (l + 1)..f
  BY <1>3, <1>8
<1>10. ASSUME NEW c \in (l + 1)..f PROVE c \in Cuts(obs)
  <2>1. c \in Nat /\ l < c /\ c <= f
    BY <1>8
  <2>2. \A d \in P : c <= d
    BY <1>1, <1>8, <2>1
  <2>3. \A d \in A : d < c
    BY <1>1, <1>8, <2>1
  <2> QED
    BY <1>3, <2>1, <2>2, <2>3
<1>11. Cuts(obs) = (l + 1)..f
  BY <1>9, <1>10
<1> QED
  BY <1>2, <1>11 DEF f, l

\* Only dates with a confirmed label are rechecked.
LEMMA RechecksAreConfirmed ==
    ASSUME NEW n \in Nat, NEW obs, DOMAIN obs \in SUBSET (1..n),
           NEW aerial, NEW max
    PROVE  PlanRechecks(InferInterval(obs, aerial), max) \subseteq Confirmed(obs)
<1> DEFINE P == LabelDates(obs, "present")
           A == LabelDates(obs, "absent")
           i == InferInterval(obs, aerial)
<1>1. P \in SUBSET (1..n) /\ A \in SUBSET (1..n) /\ Confirmed(obs) = P \cup A
  BY LabelsOfDates DEF Confirmed
<1>2. P # {} => First(P) \in P
  <2> HIDE DEF P
  <2>1. P \in SUBSET Nat
    BY <1>1
  <2> QED
    BY <1>1, <2>1, Smallest
<1>3. A # {} => Last(A) \in A
  <2> HIDE DEF A
  <2> QED
    BY <1>1, Largest
<1>4. ConflictFrames(obs) \subseteq P \cup A
  BY DEF ConflictFrames, ConflictPairs
<1>5. CASE i.status = "conflict_pending_review"
  <2>1. i.frames = ConflictFrames(obs)
    BY <1>5 DEF InferInterval, Undated
  <2>2. PlanRechecks(i, max) \subseteq i.frames
    <3> HIDE DEF i
    <3> QED
      BY <1>5 DEF PlanRechecks
  <2> QED
    BY <1>1, <1>4, <2>1, <2>2
<1>6. CASE i.status = "bounded"
  <2>1. P # {} /\ A # {} /\ i.start = Last(A) /\ i.end = First(P)
    BY <1>6 DEF InferInterval, Undated
  <2>2. PlanRechecks(i, max) = {i.start, i.end}
    <3> HIDE DEF i
    <3> QED
      BY <1>6 DEF PlanRechecks
  <2> QED
    BY <1>1, <1>2, <1>3, <2>1, <2>2
<1>7. CASE i.status = "left_censored"
  <2>1. P # {} /\ i.end = First(P)
    BY <1>7 DEF InferInterval, Undated
  <2>2. PlanRechecks(i, max) = {i.end}
    <3> HIDE DEF i
    <3> QED
      BY <1>7 DEF PlanRechecks
  <2> QED
    BY <1>1, <1>2, <2>1, <2>2
<1>8. CASE i.status \notin {"conflict_pending_review", "bounded", "left_censored"}
  <2>1. PlanRechecks(i, max) = {}
    <3> HIDE DEF i
    <3> QED
      BY <1>8 DEF PlanRechecks
  <2> QED
    BY <2>1
<1> QED
  BY <1>5, <1>6, <1>7, <1>8

-----------------------------------------------------------------------------
(* The runner.                                                             *)

USE FullTimelineAssumption

Row == [last : Rows \cup {"missing"}, fails : Nat]

\* The types the proofs need.
Shape ==
    /\ disk \in [Keys -> Row] /\ mem \in [Keys -> Row] /\ hidden \in [Keys -> Nat]
    /\ job \in Jobs
    /\ todo \subseteq Keys /\ calling \in [Workers -> Keys \cup {None}]

\* Memory lacks hidden rows only: what it closed is closed on disk, and on
\* disk an open request has at most its hidden rows more.
Mirror(k) ==
    /\ hidden[k] = 0 => mem[k] = disk[k]
    /\ Closed(mem, k) => Closed(disk, k)
    /\ ~Closed(disk, k) => /\ mem[k].fails <= disk[k].fails
                           /\ disk[k].fails <= mem[k].fails + hidden[k]
MemoryBehind == \A k \in Keys : Mirror(k)

\* The pool has work inside run_many only, which only some stages call.
PoolAtWork ==
    /\ ~running => todo = {} /\ \A w \in Workers : calling[w] = None
    /\ running => stage \notin {"down", "preflight", "judge", "noncalls", "done"}

\* A request is with one worker or none, and has attempts left while it is.
OneWorker ==
    \A w \in Workers : calling[w] # None =>
        /\ calling[w] \notin todo
        /\ HasAttempts(mem, calling[w])
        /\ \A v \in Workers : calling[v] = calling[w] => v = w

\* No first pass is asked of a white frame, so v2's non-call closes a request
\* nobody attempted.
InPool(k) == k \in todo \/ \E w \in Workers : calling[w] = k
WhiteUnasked ==
    /\ \A k \in Keys : InPool(k) /\ k.stage = "first_pass" => k.date \notin job.white
    /\ \A d \in job.white : disk[T3(d)].fails = 0 /\ mem[T3(d)].fails = 0

Inv == Shape /\ MemoryBehind /\ PoolAtWork /\ OneWorker /\ WhiteUnasked

-----------------------------------------------------------------------------
(* Requests.                                                               *)

\* None is no request, and the arms and stages tell requests apart.
LEMMA KeysAreRequests ==
    /\ None \notin Keys /\ Preflight \in Keys /\ Satellite \in Keys
    /\ \A d \in Dates : /\ T3(d) \in Keys /\ T2(d) \in Keys
                        /\ T3(d).date = d /\ T2(d).date = d
                        /\ Recheck(d, "boundary_recheck") \in Keys
                        /\ Recheck(d, "conflict_recheck") \in Keys
<1>1. ASSUME NEW d \in Dates
      PROVE  /\ T3(d) \in Keys /\ T2(d) \in Keys
             /\ Recheck(d, "boundary_recheck") \in Keys
             /\ Recheck(d, "conflict_recheck") \in Keys
  <2>1. T3(d) \in {T3(e) : e \in Dates} /\ T2(d) \in {T2(e) : e \in Dates}
    OBVIOUS
  <2>2. \A st \in {"boundary_recheck", "conflict_recheck"} :
           Recheck(d, st) \in {Recheck(e, s) : e \in Dates,
                                s \in {"boundary_recheck", "conflict_recheck"}}
    OBVIOUS
  <2> QED
    BY <2>1, <2>2 DEF Keys
<1>2. \A d : T3(d).date = d /\ T2(d).date = d
  BY DEF T3, T2, Request
<1>3. Preflight \in Keys /\ Satellite \in Keys
  BY DEF Keys
<1>4. \A k \in Keys : k.arm \in {"t3", "t2", "preflight", "reference_satellite"}
  <2> SUFFICES ASSUME NEW k \in Keys
               PROVE  k.arm \in {"t3", "t2", "preflight", "reference_satellite"}
    OBVIOUS
  <2>1. CASE k \in {T3(d) : d \in Dates} \cup {T2(d) : d \in Dates}
    BY <2>1 DEF T3, T2, Request
  <2>2. CASE k \in {Recheck(d, st) : d \in Dates,
                               st \in {"boundary_recheck", "conflict_recheck"}}
    BY <2>2 DEF Recheck, Request
  <2>3. CASE k \in {Preflight, Satellite}
    BY <2>3 DEF Preflight, Satellite, Request
  <2> QED
    BY <2>1, <2>2, <2>3 DEF Keys
<1>5. None.arm = "none"
  BY DEF None
<1> QED
  BY <1>1, <1>2, <1>3, <1>4, <1>5

\* What a job is.
LEMMA Job ==
    ASSUME job \in Jobs
    PROVE  job.white \subseteq Dates /\ job.chunk \in Nat \ {0}
  OBVIOUS

\* The outcomes of a request are rows.
LEMMA OutcomesAreRows ==
    ASSUME NEW k PROVE Outcomes(k) \subseteq Rows
<1>1. CASE k = Preflight
  BY <1>1 DEF Outcomes, Rows, Closings, Answers, Failed
<1>2. CASE k # Preflight /\ k = Satellite
  BY <1>2 DEF Outcomes, Rows, Closings, Answers, Failed
<1>3. CASE k # Preflight /\ k # Satellite
  BY <1>3 DEF Outcomes, Rows, Closings, Answers, Failed
<1> QED
  BY <1>1, <1>2, <1>3

\* The dates have an upper bound.
LEMMA DatesHaveBound == \E n \in Nat : Dates \in SUBSET (1..n)
<1>1. PICK n \in Nat : \A d \in Dates : d <= n
  BY FiniteHasBound
<1>2. Dates \in SUBSET (1..n)
  BY <1>1
<1> QED
  BY <1>2

\* A recheck is a request for a date whose first pass was answered.
LEMMA RecheckKeys ==
    ASSUME NEW log
    PROVE  /\ RecheckRequests(log) \subseteq Keys
           /\ \A k \in RecheckRequests(log) :
                 /\ k.stage # "first_pass"
                 /\ k.date \in Dates /\ Has(log, T3(k.date), Answers)
<1> DEFINE interval == InferInterval(Observations(log), "unknown")
           st == IF interval.status = "conflict_pending_review"
                 THEN "conflict_recheck" ELSE "boundary_recheck"
           dates == PlanRechecks(interval, MaxConflict)
<1>1. PICK n \in Nat : Dates \in SUBSET (1..n)
  BY DatesHaveBound
<1>2. DOMAIN Observations(log) = Dates
  BY DEF Observations
<1>3. dates \subseteq Confirmed(Observations(log))
  BY <1>1, <1>2, RechecksAreConfirmed
<1>4. \A d \in Confirmed(Observations(log)) : d \in Dates /\ Has(log, T3(d), Answers)
  BY DEF Confirmed, LabelDates, Observations
<1>5. RecheckRequests(log) = {Recheck(d, st) : d \in dates}
  BY DEF RecheckRequests
<1>6. st \in {"boundary_recheck", "conflict_recheck"}
  OBVIOUS
<1> HIDE DEF dates, st
<1>7. \A d \in dates : /\ Recheck(d, st) \in Keys
                       /\ Recheck(d, st).stage # "first_pass"
                       /\ Recheck(d, st).date = d
  BY <1>3, <1>4, <1>6, KeysAreRequests DEF Recheck, Request
<1> QED
  BY <1>3, <1>4, <1>5, <1>7

\* Every request a stage plans is one of the roof, and none is the first pass
\* of a white frame.
LEMMA RequestsOfRoof ==
    ASSUME NEW log, job \in Jobs
    PROVE  /\ Requests(log) \subseteq Keys
           /\ \A k \in Requests(log) : k.stage = "first_pass" => k.date \notin job.white
           /\ stage \in {"down", "preflight", "judge", "noncalls", "done"}
              => Requests(log) = {}
<1> DEFINE Fine(S) == S \subseteq Keys /\
                      \A k \in S : k.stage = "first_pass" => k.date \notin job.white
<1>1. Fine({Satellite}) /\ Fine({})
  BY KeysAreRequests DEF Satellite, Request
<1>2. Fine(TechRequests(log))
  BY KeysAreRequests DEF TechRequests, Planned
<1>3. Fine(ScoreRequests(log))
  BY KeysAreRequests DEF ScoreRequests, Planned, Arms
<1>4. Fine(RecheckRequests(log))
  BY RecheckKeys
<1>5. Fine(Requests(log))
  <2> HIDE DEF Fine
  <2>1. CASE stage = "refs_tech" \/ stage = "refs"
    BY <1>1, <2>1 DEF Requests
  <2>2. CASE stage = "tech" \/ stage = "tech_raised"
    BY <1>2, <2>2 DEF Requests
  <2>3. CASE stage = "score" \/ stage = "v2"
    BY <1>3, <2>3 DEF Requests
  <2>4. CASE stage = "recheck" /\ ~(recheckDone /\ scoreDone)
    BY <1>4, <2>4 DEF Requests
  <2>5. CASE /\ stage \notin {"refs_tech", "refs", "tech", "tech_raised", "score", "v2"}
             /\ ~(stage = "recheck" /\ ~(recheckDone /\ scoreDone))
    BY <1>1, <2>5 DEF Requests
  <2> QED
    BY <2>1, <2>2, <2>3, <2>4, <2>5
<1>6. stage \in {"down", "preflight", "judge", "noncalls", "done"} => Requests(log) = {}
  BY DEF Requests
<1> QED
  BY <1>5, <1>6

-----------------------------------------------------------------------------
(* Commits.                                                                *)

\* A commit keeps the log a log, and touches its request only.
LEMMA CommitKeepsShape ==
    ASSUME NEW log \in [Keys -> Row], NEW k \in Keys, NEW row \in Rows
    PROVE  /\ Committed(log, k, row) \in [Keys -> Row]
           /\ \A j \in Keys \ {k} : Committed(log, k, row)[j] = log[j]
  BY DEF Committed, Row

\* What a row makes of an open request.
After(entry, row) ==
    [last |-> row, fails |-> IF row \in Closings THEN 0 ELSE entry.fails + 1]

\* What a commit does to its request.
LEMMA CommitOfKey ==
    ASSUME NEW log \in [Keys -> Row], NEW k \in Keys, NEW row \in Rows
    PROVE  /\ Closed(log, k) => Committed(log, k, row) = log
           /\ ~Closed(log, k) => Committed(log, k, row)[k] = After(log[k], row)
  BY DEF Committed, Closed, After

\* The fields of it.
LEMMA AfterFields ==
    ASSUME NEW entry, NEW row
    PROVE  /\ After(entry, row).last = row
           /\ row \in Closings => After(entry, row).fails = 0
           /\ row \notin Closings => After(entry, row).fails = entry.fails + 1
  BY DEF After

\* A row in the file is a step of the ledger when its request is closed, or
\* has attempts left there or hidden rows to make up for them.
LEMMA CommitIsLedgerStep ==
    ASSUME disk \in [Keys -> Row], hidden \in [Keys -> Nat], NEW k \in Keys, NEW row \in Rows,
           Closed(disk, k) \/ disk[k].fails < Limit + hidden[k],
           disk' = Committed(disk, k, row),
           hidden' \in {hidden, [hidden EXCEPT ![k] = @ + 1]}
    PROVE  Ledger!LedgerNext
<1> DEFINE used == [j \in Keys |-> disk[j].fails]
           closed == [j \in Keys |-> IF Closed(disk, j) THEN disk[j].last ELSE "open"]
<1>1. CASE Closed(disk, k)
  <2>1. disk' = disk
    BY <1>1, CommitOfKey
  <2>2. \A j \in Keys : used'[j] = used[j] /\ closed'[j] = closed[j]
    BY <2>1 DEF Closed
  <2>3. closed[k] # "open"
    BY <1>1 DEF Closed, Closings, Answers, NonCalls
  <2>4. Ledger!AppendRow(k)
    BY <2>2, <2>3 DEF Ledger!AppendRow, Ledger!Keeps
  <2> QED
    BY <2>4 DEF Ledger!LedgerNext
<1>2. CASE ~Closed(disk, k)
  <2>1. /\ disk'[k].last = row
        /\ row \in Closings => disk'[k].fails = 0
        /\ row \notin Closings => disk'[k].fails = disk[k].fails + 1
    <3>1. disk'[k] = After(disk[k], row)
      BY <1>2, CommitOfKey
    <3> QED
      BY <3>1, AfterFields
  <2>2. \A j \in Keys \ {k} : disk'[j] = disk[j]
    BY CommitKeepsShape
  <2>3. \A j \in Keys \ {k} : used'[j] = used[j] /\ closed'[j] = closed[j]
    BY <2>2 DEF Closed
  <2>4. /\ closed[k] = "open" /\ used[k] < Limit + hidden[k] /\ used[k] = disk[k].fails
    BY <1>2
  <2>5. CASE row \in Closings
    <3>1. closed'[k] \in Closings /\ used'[k] = 0
      BY <2>1, <2>5 DEF Closed
    <3>2. Ledger!AppendRow(k)
      BY <2>3, <2>4, <3>1
      DEF Ledger!AppendRow, Ledger!Close, Ledger!Attemptable, Ledger!Keeps
    <3> QED
      BY <3>2 DEF Ledger!LedgerNext
  <2>6. CASE row \notin Closings
    <3>1. closed'[k] = "open" /\ used'[k] = used[k] + 1
      BY <2>1, <2>4, <2>6 DEF Closed
    <3>2. Ledger!AppendRow(k)
      BY <2>3, <2>4, <3>1
      DEF Ledger!AppendRow, Ledger!FailAttempt, Ledger!Attemptable, Ledger!Keeps
    <3> QED
      BY <3>2 DEF Ledger!LedgerNext
  <2> QED
    BY <2>5, <2>6
<1> QED
  BY <1>1, <1>2

\* A request memory has attempts for is a step of the ledger to write about.
LEMMA MirrorAllows ==
    ASSUME Shape, MemoryBehind, NEW k \in Keys, HasAttempts(mem, k)
    PROVE  Closed(disk, k) \/ disk[k].fails < Limit + hidden[k]
<1> SUFFICES ASSUME ~Closed(disk, k) PROVE disk[k].fails < Limit + hidden[k]
  OBVIOUS
<1>1. disk[k].fails <= mem[k].fails + hidden[k] /\ mem[k].fails < Limit
  BY DEF MemoryBehind, Mirror, HasAttempts
<1>2. disk[k].fails \in Nat /\ mem[k].fails \in Nat /\ hidden[k] \in Nat /\ Limit \in Nat
  BY DEF Shape, Row
<1> QED
  BY <1>1, <1>2

\* What is left to attempt on disk is left in memory.
LEMMA MirrorSpends ==
    ASSUME Shape, MemoryBehind, NEW k \in Keys, HasAttempts(disk, k)
    PROVE  HasAttempts(mem, k)
<1>1. ~Closed(disk, k) /\ disk[k].fails < Limit
  BY DEF HasAttempts
<1>2. ~Closed(mem, k) /\ mem[k].fails <= disk[k].fails
  BY <1>1 DEF MemoryBehind, Mirror
<1>3. disk[k].fails \in Nat /\ mem[k].fails \in Nat /\ Limit \in Nat
  BY DEF Shape, Row
<1> QED
  BY <1>1, <1>2, <1>3 DEF HasAttempts

-----------------------------------------------------------------------------
(* Every step keeps the invariant.                                         *)

\* A row that memory and file both get keeps memory behind the file.
LEMMA BothCommit ==
    ASSUME Shape, MemoryBehind, NEW k \in Keys, NEW row \in Rows,
           mem' = Committed(mem, k, row), disk' = Committed(disk, k, row),
           hidden' = hidden
    PROVE  /\ MemoryBehind'
           /\ disk' \in [Keys -> Row] /\ mem' \in [Keys -> Row]
           /\ \A j \in Keys \ {k} : mem'[j] = mem[j] /\ disk'[j] = disk[j]
<1>1. /\ disk' \in [Keys -> Row] /\ mem' \in [Keys -> Row]
      /\ \A j \in Keys \ {k} : mem'[j] = mem[j] /\ disk'[j] = disk[j]
  BY CommitKeepsShape DEF Shape
<1>2. ASSUME NEW j \in Keys \ {k} PROVE Mirror(j)'
  BY <1>1 DEF MemoryBehind, Mirror, Closed
<1>3. Mirror(k)'
  <2>0. /\ mem[k].fails \in Nat /\ disk[k].fails \in Nat /\ hidden[k] \in Nat
        /\ Mirror(k)
    BY DEF Shape, Row, MemoryBehind
  <2>1. CASE Closed(mem, k)
    <3>1. Closed(disk, k)
      BY <2>0, <2>1 DEF Mirror
    <3>2. mem' = mem /\ disk' = disk
      BY <2>1, <3>1, CommitOfKey DEF Shape
    <3> QED
      BY <2>0, <3>2 DEF Mirror, Closed
  <2>2. CASE ~Closed(mem, k) /\ Closed(disk, k)
    <3>1. disk' = disk
      BY <2>2, CommitOfKey DEF Shape
    <3>2. hidden[k] # 0
      BY <2>0, <2>2 DEF Mirror, Closed
    <3> QED
      BY <2>2, <3>1, <3>2 DEF Mirror, Closed
  <2>3. CASE ~Closed(mem, k) /\ ~Closed(disk, k)
    <3>1. /\ mem'[k].last = row /\ disk'[k].last = row
          /\ row \notin Closings => mem'[k].fails = mem[k].fails + 1
          /\ row \notin Closings => disk'[k].fails = disk[k].fails + 1
          /\ mem[k] = disk[k] => mem'[k] = disk'[k]
      <4>1. mem'[k] = After(mem[k], row)
        BY <2>3, CommitOfKey DEF Shape
      <4>2. disk'[k] = After(disk[k], row)
        BY <2>3, CommitOfKey DEF Shape
      <4> QED
        BY <4>1, <4>2, AfterFields
    <3>2. hidden'[k] = 0 => mem'[k] = disk'[k]
      BY <2>0, <3>1 DEF Mirror
    <3>3. Closed(mem, k)' => Closed(disk, k)'
      BY <3>1 DEF Closed
    <3>4. ASSUME ~Closed(disk, k)'
          PROVE  mem'[k].fails <= disk'[k].fails /\ disk'[k].fails <= mem'[k].fails + hidden'[k]
      <4>1. row \notin Closings
        BY <3>1, <3>4 DEF Closed
      <4>2. mem[k].fails <= disk[k].fails /\ disk[k].fails <= mem[k].fails + hidden[k]
        BY <2>0, <2>3 DEF Mirror
      <4>3. /\ mem'[k].fails = mem[k].fails + 1 /\ disk'[k].fails = disk[k].fails + 1
            /\ hidden'[k] = hidden[k]
        BY <3>1, <4>1
      <4> QED
        BY <2>0, <4>2, <4>3
    <3> QED
      BY <3>2, <3>3, <3>4 DEF Mirror
  <2> QED
    BY <2>1, <2>2, <2>3
<1> QED
  BY <1>1, <1>2, <1>3 DEF MemoryBehind

\* So does a row that only the file gets, when it is counted as hidden.
LEMMA OnlyFileCommits ==
    ASSUME Shape, MemoryBehind, NEW k \in Keys, NEW row \in Rows,
           mem' = mem, disk' = Committed(disk, k, row),
           hidden' = [hidden EXCEPT ![k] = @ + 1]
    PROVE  MemoryBehind' /\ disk' \in [Keys -> Row] /\ hidden' \in [Keys -> Nat]
<1>1. /\ disk' \in [Keys -> Row] /\ hidden' \in [Keys -> Nat]
      /\ \A j \in Keys \ {k} : disk'[j] = disk[j] /\ hidden'[j] = hidden[j]
      /\ hidden'[k] = hidden[k] + 1
  BY CommitKeepsShape DEF Shape
<1>2. ASSUME NEW j \in Keys \ {k} PROVE Mirror(j)'
  BY <1>1 DEF MemoryBehind, Mirror, Closed
<1>3. Mirror(k)'
  <2>0. /\ mem[k].fails \in Nat /\ disk[k].fails \in Nat /\ hidden[k] \in Nat
        /\ Mirror(k) /\ hidden'[k] # 0
    BY <1>1 DEF Shape, Row, MemoryBehind
  <2>1. CASE Closed(disk, k)
    <3>1. disk' = disk
      BY <2>1, CommitOfKey DEF Shape
    <3> QED
      BY <2>0, <2>1, <3>1 DEF Mirror, Closed
  <2>2. CASE ~Closed(disk, k)
    <3>1. /\ disk'[k].last = row
          /\ row \notin Closings => disk'[k].fails = disk[k].fails + 1
      <4>1. disk'[k] = After(disk[k], row)
        BY <2>2, CommitOfKey DEF Shape
      <4> QED
        BY <4>1, AfterFields
    <3>2. /\ ~Closed(mem, k) /\ mem[k].fails <= disk[k].fails
          /\ disk[k].fails <= mem[k].fails + hidden[k]
      BY <2>0, <2>2 DEF Mirror
    <3>3. ~Closed(mem, k)'
      BY <3>2 DEF Closed
    <3>4. ASSUME ~Closed(disk, k)'
          PROVE  mem'[k].fails <= disk'[k].fails /\ disk'[k].fails <= mem'[k].fails + hidden'[k]
      <4>1. row \notin Closings
        BY <3>1, <3>4 DEF Closed
      <4>2. disk'[k].fails = disk[k].fails + 1 /\ mem'[k].fails = mem[k].fails
        BY <3>1, <4>1
      <4> QED
        BY <1>1, <2>0, <3>2, <4>2
    <3> QED
      BY <2>0, <3>3, <3>4 DEF Mirror
  <2> QED
    BY <2>1, <2>2
<1> QED
  BY <1>1, <1>2, <1>3 DEF MemoryBehind

\* What Record does to log and memory, whatever a failed append leaves.
LEMMA RecordCommits ==
    ASSUME Shape, MemoryBehind, NEW k \in Keys, NEW row \in Rows, Record(k, row)
    PROVE  /\ \/ mem' = Committed(mem, k, row) /\ failure' = failure
              \/ mem' = mem /\ failure' # "none"
           /\ \/ /\ disk' = Committed(disk, k, row)
                 /\ hidden' \in {hidden, [hidden EXCEPT ![k] = @ + 1]}
              \/ disk' = disk /\ hidden' = hidden
           /\ MemoryBehind'
           /\ disk' \in [Keys -> Row] /\ mem' \in [Keys -> Row] /\ hidden' \in [Keys -> Nat]
           /\ \A j \in Keys \ {k} : mem'[j] = mem[j] /\ disk'[j] = disk[j]
<1>1. CASE /\ mem' = Committed(mem, k, row) /\ disk' = Committed(disk, k, row)
           /\ hidden' = hidden /\ failure' = failure
  BY <1>1, BothCommit DEF Shape
<1>2. CASE mem' = mem /\ disk' = disk /\ hidden' = hidden /\ failure' # "none"
  BY <1>2 DEF Shape, MemoryBehind, Mirror, Closed
<1>3. CASE /\ mem' = mem /\ disk' = Committed(disk, k, row) /\ failure' # "none"
           /\ hidden' = [hidden EXCEPT ![k] = @ + 1]
  <2>1. MemoryBehind' /\ disk' \in [Keys -> Row] /\ hidden' \in [Keys -> Nat]
    BY <1>3, OnlyFileCommits
  <2>2. mem' \in [Keys -> Row] /\ \A j \in Keys \ {k} : mem'[j] = mem[j] /\ disk'[j] = disk[j]
    BY <1>3, CommitKeepsShape DEF Shape
  <2> QED
    BY <1>3, <2>1, <2>2
<1> QED
  BY <1>1, <1>2, <1>3 DEF Record

\* The first pass of a white frame keeps its count of 0, whatever is committed
\* on another request.
LEMMA WhiteKept ==
    ASSUME Inv, NEW k \in Keys, k.stage = "first_pass" => k.date \notin job.white,
           \A j \in Keys \ {k} : mem'[j] = mem[j] /\ disk'[j] = disk[j]
    PROVE  \A d \in job.white : disk'[T3(d)].fails = 0 /\ mem'[T3(d)].fails = 0
<1> SUFFICES ASSUME NEW d \in job.white
             PROVE  disk'[T3(d)].fails = 0 /\ mem'[T3(d)].fails = 0
  OBVIOUS
<1>1. d \in Dates /\ T3(d) \in Keys
  BY Job, KeysAreRequests DEF Inv, Shape
<1>2. T3(d).stage = "first_pass" /\ T3(d).date = d
  BY DEF T3, Request
<1>3. T3(d) # k
  BY <1>2
<1> QED
  BY <1>1, <1>3 DEF Inv, WhiteUnasked

\* The log and the memory stay as they are.
LogKept == UNCHANGED <<job, disk, mem, hidden>>

\* Nothing in the pool, and the log as it was.
LEMMA IdlePool ==
    ASSUME Inv, todo' = {}, calling' = [w \in Workers |-> None],
           running' = FALSE, LogKept
    PROVE  Inv'
<1>1. Shape' /\ MemoryBehind'
  BY DEF LogKept, Inv, Shape, MemoryBehind, Mirror, Closed
<1>2. PoolAtWork' /\ OneWorker'
  BY DEF PoolAtWork, OneWorker
<1>3. WhiteUnasked'
  BY KeysAreRequests DEF LogKept, Inv, WhiteUnasked, InPool
<1> QED
  BY <1>1, <1>2, <1>3 DEF Inv

\* The process ends.
LEMMA ExitStep ==
    ASSUME Inv, Exit, LogKept PROVE Inv'
  BY IdlePool DEF Exit

\* The main thread moves on outside run_many.
LEMMA MainMoves ==
    ASSUME Inv, ~running, ~running', LogKept, UNCHANGED <<todo, calling>>
    PROVE  Inv'
<1>1. Shape' /\ MemoryBehind'
  BY DEF LogKept, Inv, Shape, MemoryBehind, Mirror, Closed
<1>2. PoolAtWork' /\ OneWorker'
  BY DEF Inv, PoolAtWork, OneWorker
<1>3. WhiteUnasked'
  BY DEF LogKept, Inv, WhiteUnasked, InPool
<1> QED
  BY <1>1, <1>2, <1>3 DEF Inv

\* A commit of the main thread, outside run_many.
LEMMA MainCommits ==
    ASSUME Inv, ~running, ~running', NEW k \in Keys, NEW row \in Rows,
           disk' = Committed(disk, k, row), mem' = Committed(mem, k, row),
           UNCHANGED <<job, todo, calling, hidden>>,
           \A d \in job.white : disk'[T3(d)].fails = 0 /\ mem'[T3(d)].fails = 0
    PROVE  Inv'
<1>1. MemoryBehind' /\ disk' \in [Keys -> Row] /\ mem' \in [Keys -> Row]
  BY BothCommit DEF Inv
<1>2. Shape'
  BY <1>1 DEF Inv, Shape
<1>3. PoolAtWork' /\ OneWorker'
  BY DEF Inv, PoolAtWork, OneWorker
<1>4. WhiteUnasked'
  BY DEF Inv, WhiteUnasked, InPool
<1> QED
  BY <1>1, <1>2, <1>3, <1>4 DEF Inv

\* A worker is done with a request.
LEMMA WorkerCommits ==
    ASSUME Inv, NEW w \in Workers, NEW k \in Keys,
           NEW row \in Rows, InPool(k), Record(k, row), running, UNCHANGED <<job, stage, running>>,
           \/ todo' = todo \ {k} /\ calling' = calling /\ k \in todo
           \/ calling' = [calling EXCEPT ![w] = None] /\ todo' = todo /\ calling[w] = k
    PROVE  Inv'
<1>1. /\ disk' \in [Keys -> Row] /\ mem' \in [Keys -> Row] /\ hidden' \in [Keys -> Nat]
      /\ MemoryBehind'
      /\ \A j \in Keys \ {k} : mem'[j] = mem[j] /\ disk'[j] = disk[j]
  BY RecordCommits DEF Inv
<1>2. \A d \in job.white : disk'[T3(d)].fails = 0 /\ mem'[T3(d)].fails = 0
  BY <1>1, WhiteKept DEF Inv, WhiteUnasked
<1>3. Shape'
  BY <1>1 DEF Inv, Shape
<1>4. PoolAtWork'
  BY DEF Inv, PoolAtWork
<1>5. \A v \in Workers : calling'[v] # None => calling'[v] = calling[v] /\ calling[v] # k
  BY DEF Inv, Shape, OneWorker
<1>6. OneWorker'
  BY <1>1, <1>5 DEF Inv, Shape, OneWorker, HasAttempts, Closed
<1>7. \A j \in Keys : InPool(j)' => InPool(j)
  BY <1>5, KeysAreRequests DEF InPool
<1>8. WhiteUnasked'
  BY <1>2, <1>7 DEF Inv, WhiteUnasked
<1> QED
  BY <1>1, <1>3, <1>4, <1>6, <1>8 DEF Inv

\* A process starts from what is on disk.
LEMMA LoadStep ==
    ASSUME Inv, NEW c, Load(c) PROVE Inv'
<1> USE DEF files, pool
<1>1. /\ mem' = disk /\ ~running' /\ ~running
      /\ UNCHANGED <<job, disk, hidden, todo, calling>>
  BY DEF Load, GoTo, Inv, PoolAtWork
<1>2. Shape'
  BY <1>1 DEF Inv, Shape
<1>3. MemoryBehind'
  <2> SUFFICES ASSUME NEW k \in Keys PROVE Mirror(k)'
    BY DEF MemoryBehind
  <2>1. mem'[k] = disk'[k] /\ disk'[k].fails \in Nat /\ hidden'[k] \in Nat
    BY <1>1, <1>2 DEF Shape, Row
  <2> QED
    BY <2>1 DEF Mirror, Closed
<1>4. PoolAtWork' /\ OneWorker'
  BY <1>1 DEF Inv, PoolAtWork, OneWorker
<1>5. WhiteUnasked'
  BY <1>1 DEF Inv, WhiteUnasked, InPool
<1> QED
  BY <1>2, <1>3, <1>4, <1>5 DEF Inv

\* The main thread records that a white frame is not asked about.
LEMMA NonCallStep ==
    ASSUME Inv, NEW d \in job.white, ~running, ~running',
           mem' = Committed(mem, T3(d), "pixel_uninformative"),
           disk' = Committed(disk, T3(d), "pixel_uninformative"),
           UNCHANGED <<job, todo, calling, hidden>>
    PROVE  Inv'
<1>1. d \in Dates /\ T3(d) \in Keys
  BY Job, KeysAreRequests DEF Inv, Shape
<1>2. "pixel_uninformative" \in Rows /\ "pixel_uninformative" \in Closings
  BY DEF Rows, Closings, NonCalls
<1>3. ASSUME NEW e \in job.white
      PROVE  disk'[T3(e)].fails = 0 /\ mem'[T3(e)].fails = 0
  <2>1. /\ e \in Dates /\ T3(e) \in Keys
        /\ disk[T3(e)].fails = 0 /\ mem[T3(e)].fails = 0
    BY Job, KeysAreRequests DEF Inv, Shape, WhiteUnasked
  <2>2. CASE T3(e) = T3(d)
    <3>1. ASSUME NEW log \in [Keys -> Row], log[T3(d)].fails = 0
          PROVE  Committed(log, T3(d), "pixel_uninformative")[T3(d)].fails = 0
      BY <1>1, <1>2, <3>1, CommitOfKey, AfterFields
    <3>2. disk \in [Keys -> Row] /\ mem \in [Keys -> Row]
      BY DEF Inv, Shape
    <3> QED
      BY <2>1, <2>2, <3>1, <3>2
  <2>3. CASE T3(e) # T3(d)
    BY <1>1, <1>2, <2>1, <2>3, CommitKeepsShape DEF Inv, Shape
  <2> QED
    BY <2>2, <2>3
<1> QED
  BY <1>1, <1>2, <1>3, MainCommits

\* Every step keeps the invariant.
LEMMA InvStep ==
    ASSUME Inv, [Next]_vars PROVE Inv'
<1> USE DEF files, pool, LogKept
<1>1. CASE Start \/ StartOneStage
  BY <1>1, LoadStep DEF Start, StartOneStage
<1>2. CASE CallPreflight
  <2>1. /\ ~running /\ ~running' /\ UNCHANGED <<job, hidden, todo, calling>>
        /\ Preflight \in Keys /\ Preflight.stage # "first_pass"
    BY <1>2, KeysAreRequests DEF CallPreflight, Preflight, Request, Inv, PoolAtWork
  <2>2. CASE UNCHANGED <<mem, disk>>
    BY <2>1, <2>2, MainMoves
  <2>3. ASSUME NEW row \in Outcomes(Preflight),
               mem' = Committed(mem, Preflight, row), disk' = Committed(disk, Preflight, row)
        PROVE  Inv'
    <3>1. row \in Rows
      BY OutcomesAreRows
    <3>2. \A j \in Keys \ {Preflight} : mem'[j] = mem[j] /\ disk'[j] = disk[j]
      BY <2>1, <2>3, <3>1, CommitKeepsShape DEF Inv, Shape
    <3>3. \A d \in job.white : disk'[T3(d)].fails = 0 /\ mem'[T3(d)].fails = 0
      BY <2>1, <3>2, WhiteKept
    <3> QED
      BY <2>1, <2>3, <3>1, <3>3, MainCommits
  <2> QED
    BY <1>2, <2>2, <2>3 DEF CallPreflight
<1>3. CASE JudgePreflight
  BY <1>3, ExitStep, MainMoves DEF JudgePreflight, GoTo, Inv, PoolAtWork
<1>4. CASE CommitNonCall
  BY <1>4, NonCallStep DEF CommitNonCall, Inv, PoolAtWork
<1>5. CASE NonCallsDone
  BY <1>5, MainMoves DEF NonCallsDone, GoTo, Inv, PoolAtWork
<1>6. CASE BeginChunk
  <2>1. /\ todo' \subseteq Requests(mem) /\ Requests(mem) # {}
        /\ UNCHANGED <<job, disk, mem, hidden, stage, calling>> /\ ~running
    BY <1>6 DEF BeginChunk, Chunk, Pending, Outstanding
  <2>2. /\ todo' \subseteq Keys
        /\ \A k \in todo' : k.stage = "first_pass" => k.date \notin job.white
        /\ stage \notin {"down", "preflight", "judge", "noncalls", "done"}
    BY <2>1, RequestsOfRoof DEF Inv, Shape
  <2>3. \A w \in Workers : calling'[w] = None
    BY <2>1 DEF Inv, PoolAtWork
  <2>4. \A k \in Keys : InPool(k)' => k \in todo'
    BY <2>3, KeysAreRequests DEF InPool
  <2>5. Shape' /\ MemoryBehind'
    BY <2>1, <2>2 DEF Inv, Shape, MemoryBehind, Mirror, Closed
  <2>6. running'
    BY <1>6 DEF BeginChunk
  <2>7. PoolAtWork' /\ OneWorker'
    <3>1. stage' = stage
      BY <2>1
    <3>2. PoolAtWork'
      BY <2>2, <2>6, <3>1 DEF PoolAtWork
    <3>3. OneWorker'
      BY <2>3 DEF OneWorker
    <3> QED
      BY <3>2, <3>3
  <2>8. WhiteUnasked'
    BY <2>1, <2>2, <2>4 DEF Inv, WhiteUnasked
  <2> QED
    BY <2>5, <2>7, <2>8 DEF Inv
<1>7. CASE SeeFailure \/ SeeStop
  <2>1. todo' = {} /\ UNCHANGED <<job, disk, mem, hidden, stage, running, calling>>
    BY <1>7 DEF SeeFailure, SeeStop
  <2>2. Shape' /\ MemoryBehind'
    BY <2>1 DEF Inv, Shape, MemoryBehind, Mirror, Closed
  <2>3. PoolAtWork' /\ OneWorker'
    BY <2>1 DEF Inv, PoolAtWork, OneWorker, HasAttempts, Closed
  <2>4. \A k \in Keys : InPool(k)' => InPool(k)
    BY <2>1 DEF InPool
  <2> QED
    BY <2>1, <2>2, <2>3, <2>4 DEF Inv, WhiteUnasked
<1>8. CASE EndChunk
  <2>1. CASE Exit
    BY <1>8, <2>1, ExitStep DEF EndChunk
  <2>2. CASE ~Exit
    <3>1. /\ running /\ ~running' /\ todo = {} /\ \A w \in Workers : calling[w] = None
          /\ UNCHANGED <<job, disk, mem, hidden, stage, todo, calling>>
      BY <1>8, <2>2 DEF EndChunk
    <3>2. Shape' /\ MemoryBehind'
      BY <3>1 DEF Inv, Shape, MemoryBehind, Mirror, Closed
    <3>3. PoolAtWork' /\ OneWorker'
      BY <3>1 DEF PoolAtWork, OneWorker
    <3>4. WhiteUnasked'
      BY <3>1 DEF Inv, WhiteUnasked, InPool
    <3> QED
      BY <3>2, <3>3, <3>4 DEF Inv
  <2> QED
    BY <2>1, <2>2
<1>9. CASE ReferencesDone \/ RaiseCap
  BY <1>9, MainMoves DEF ReferencesDone, RaiseCap, GoTo, Drained
<1>10. CASE Freeze
  BY <1>10, ExitStep, MainMoves DEF Freeze, GoTo, Drained
<1>11. CASE ScoreDone
  BY <1>11, ExitStep, MainMoves DEF ScoreDone, GoTo, Drained
<1>12. CASE RecheckDone
  BY <1>12, ExitStep, MainMoves DEF RecheckDone, GoTo, Drained
<1>13. CASE V2Done
  BY <1>13, ExitStep, MainMoves DEF V2Done, GoTo, Drained
<1>14. CASE Crash
  BY <1>14, ExitStep DEF Crash
<1>15. ASSUME NEW w \in Workers, NEW k \in todo, IssueMissing(w, k) PROVE Inv'
  <2>1. k \in Keys /\ running /\ InPool(k)
    BY DEF Inv, Shape, PoolAtWork, InPool
  <2>2. PICK row \in {"not_sent", "image_missing"} : Record(k, row)
    BY <1>15 DEF IssueMissing
  <2>3. row \in Rows
    BY DEF Rows, Closings, NonCalls
  <2> QED
    BY <1>15, <2>1, <2>2, <2>3, WorkerCommits DEF IssueMissing
<1>16. ASSUME NEW w \in Workers, NEW k \in todo, Issue(w, k) PROVE Inv'
  <2>1. /\ k \in Keys /\ running /\ calling[w] = None
        /\ calling' = [calling EXCEPT ![w] = k] /\ todo' = todo \ {k}
        /\ HasAttempts(mem, k)
        /\ UNCHANGED <<job, disk, mem, hidden, stage, running>>
    BY <1>16 DEF Issue, Inv, Shape, PoolAtWork
  <2>2. \A v \in Workers : calling[v] # k
    BY <1>16, <2>1, KeysAreRequests DEF Inv, OneWorker
  <2>3. \A v \in Workers \ {w} : calling'[v] = calling[v]
    BY <2>1 DEF Inv, Shape
  <2>4. calling'[w] = k /\ Shape'
    BY <2>1 DEF Inv, Shape
  <2>5. PoolAtWork' /\ MemoryBehind'
    BY <2>1 DEF Inv, PoolAtWork, MemoryBehind, Mirror, Closed
  <2>6. OneWorker'
    BY <2>1, <2>2, <2>3, <2>4 DEF Inv, OneWorker, HasAttempts, Closed
  <2>7. \A j \in Keys : InPool(j)' => InPool(j)
    BY <2>1, <2>3, <2>4, <1>16 DEF InPool
  <2> QED
    BY <2>1, <2>4, <2>5, <2>6, <2>7 DEF Inv, WhiteUnasked
<1>17. ASSUME NEW w \in Workers, Paused(w) PROVE Inv'
  <2>1. /\ calling' = [calling EXCEPT ![w] = None]
        /\ UNCHANGED <<job, disk, mem, hidden, todo, stage, running>>
    BY <1>17 DEF Paused
  <2>2. \A v \in Workers : calling'[v] = calling[v] \/ calling'[v] = None
    BY <2>1 DEF Inv, Shape
  <2>3. Shape' /\ MemoryBehind'
    BY <2>1 DEF Inv, Shape, MemoryBehind, Mirror, Closed
  <2>4. PoolAtWork' /\ OneWorker'
    BY <2>1, <2>2 DEF Inv, PoolAtWork, OneWorker, HasAttempts, Closed
  <2>5. \A j \in Keys : InPool(j)' => InPool(j)
    BY <2>1, <2>2, KeysAreRequests DEF InPool
  <2> QED
    BY <2>1, <2>3, <2>4, <2>5 DEF Inv, WhiteUnasked
<1>18. ASSUME NEW w \in Workers, Answered(w) PROVE Inv'
  <2>1. /\ calling[w] \in Keys /\ running /\ InPool(calling[w])
    BY <1>18 DEF Answered, Inv, Shape, PoolAtWork, InPool
  <2>2. PICK row \in Rows : Record(calling[w], row)
    BY <1>18, OutcomesAreRows DEF Answered
  <2> QED
    BY <1>18, <2>1, <2>2, WorkerCommits DEF Answered
<1>19. CASE UNCHANGED vars \/ \E d \in Dates : LosePng(d)
  <2>1. UNCHANGED <<job, disk, mem, hidden, todo, calling, stage, running>>
    BY <1>19 DEF vars, LosePng
  <2>2. Shape' /\ MemoryBehind'
    BY <2>1 DEF Inv, Shape, MemoryBehind, Mirror, Closed
  <2>3. PoolAtWork' /\ OneWorker' /\ WhiteUnasked'
    BY <2>1 DEF Inv, PoolAtWork, OneWorker, WhiteUnasked, InPool, HasAttempts, Closed
  <2> QED
    BY <2>2, <2>3 DEF Inv
<1> QED
  BY <1>1, <1>2, <1>3, <1>4, <1>5, <1>6, <1>7, <1>8, <1>9, <1>10, <1>11, <1>12,
     <1>13, <1>14, <1>15, <1>16, <1>17, <1>18, <1>19 DEF Next, Main, Worker

-----------------------------------------------------------------------------
(* Theorems.                                                               *)

\* The invariant holds at first.
LEMMA InitInv == Init => Inv
<1> SUFFICES ASSUME Init PROVE Inv
  OBVIOUS
<1>1. NoRows \in Row /\ NoRows.fails = 0
  BY DEF NoRows, Row
<1>2. Shape /\ PoolAtWork /\ OneWorker
  BY <1>1 DEF Init, Shape, PoolAtWork, OneWorker
<1>3. \A d \in job.white : disk[T3(d)].fails = 0 /\ mem[T3(d)].fails = 0
  BY <1>1, Job, KeysAreRequests DEF Init
<1>4. \A k \in Keys : ~InPool(k)
  BY KeysAreRequests DEF Init, InPool
<1>5. \A k \in Keys : mem[k] = disk[k] /\ hidden[k] = 0 /\ disk[k].fails = 0
  BY <1>1 DEF Init
<1>6. MemoryBehind
  BY <1>5 DEF MemoryBehind, Mirror, Closed
<1> QED
  BY <1>2, <1>3, <1>4, <1>6 DEF Inv, WhiteUnasked

\* The inductive invariant holds of every run, whatever a failed append leaves
\* in the file.
THEOREM RunInvariant == Spec => []Inv
<1>1. Init => Inv
  BY InitInv
<1>2. Inv /\ [Next]_vars => Inv'
  BY InvStep
<1> QED
  BY <1>1, <1>2, PTL DEF Spec

\* However the workers interleave and whenever the process dies, no model call
\* is out for a request that is closed on disk, has spent its attempts there,
\* or is with another worker; only a row of that request which the process
\* itself dropped from memory, when its append raised, makes it call again.
THEOREM CallsAreNotWasted == Spec => []NoWastedCall
<1>1. Inv => NoWastedCall
  <2> SUFFICES ASSUME Inv, NEW w \in Workers, calling[w] # None
               PROVE  /\ \/ HasAttempts(disk, calling[w])
                         \/ hidden[calling[w]] > 0 /\ mem[calling[w]] # disk[calling[w]]
                      /\ \A v \in Workers : calling[v] = calling[w] => v = w
    BY DEF NoWastedCall
  <2>1. /\ calling[w] \in Keys /\ HasAttempts(mem, calling[w])
        /\ \A v \in Workers : calling[v] = calling[w] => v = w
    BY DEF Inv, Shape, OneWorker
  <2>2. ASSUME ~HasAttempts(disk, calling[w])
        PROVE  hidden[calling[w]] > 0 /\ mem[calling[w]] # disk[calling[w]]
    <3>1. mem[calling[w]] # disk[calling[w]]
      BY <2>1, <2>2 DEF HasAttempts, Closed
    <3>2. hidden[calling[w]] # 0 /\ hidden[calling[w]] \in Nat
      BY <2>1, <3>1 DEF Inv, Shape, MemoryBehind, Mirror
    <3> QED
      BY <3>1, <3>2
  <2> QED
    BY <2>1, <2>2
<1> QED
  BY <1>1, RunInvariant, PTL

\* Recording a row for a request memory has attempts for is a step of the
\* ledger, or leaves it alone.
LEMMA RecordKeepsLedger ==
    ASSUME Inv, NEW k \in Keys, NEW row \in Rows, HasAttempts(mem, k), Record(k, row)
    PROVE  UNCHANGED <<disk, hidden>> \/ Ledger!LedgerNext
<1>1. Closed(disk, k) \/ disk[k].fails < Limit + hidden[k]
  BY MirrorAllows DEF Inv
<1>2. \/ /\ disk' = Committed(disk, k, row)
         /\ hidden' \in {hidden, [hidden EXCEPT ![k] = @ + 1]}
      \/ disk' = disk /\ hidden' = hidden
  BY RecordCommits DEF Inv
<1> QED
  BY <1>1, <1>2, CommitIsLedgerStep DEF Inv, Shape

\* A step of the runner is a step of the ledger, or leaves it alone.
LEMMA StepKeepsLedger ==
    ASSUME Inv, [Next]_vars
    PROVE  UNCHANGED <<disk, hidden>> \/ Ledger!LedgerNext
<1> USE DEF files, pool
<1>1. CASE CallPreflight
  <2>1. CASE UNCHANGED <<disk, hidden>>
    BY <2>1
  <2>2. ASSUME NEW row \in Outcomes(Preflight), disk' = Committed(disk, Preflight, row)
        PROVE  Ledger!LedgerNext
    <3>1. Preflight \in Keys /\ row \in Rows /\ HasAttempts(mem, Preflight) /\ hidden' = hidden
      BY <1>1, KeysAreRequests, OutcomesAreRows DEF CallPreflight
    <3>2. Closed(disk, Preflight) \/ disk[Preflight].fails < Limit + hidden[Preflight]
      BY <3>1, MirrorAllows DEF Inv
    <3> QED
      BY <2>2, <3>1, <3>2, CommitIsLedgerStep DEF Inv, Shape
  <2> QED
    BY <1>1, <2>1, <2>2 DEF CallPreflight
<1>2. CASE CommitNonCall
  <2>1. PICK d \in job.white :
           disk' = Committed(disk, T3(d), "pixel_uninformative")
    BY <1>2 DEF CommitNonCall
  <2>2. /\ d \in Dates /\ T3(d) \in Keys /\ disk[T3(d)].fails = 0
        /\ "pixel_uninformative" \in Rows /\ hidden' = hidden
    BY <1>2, Job, KeysAreRequests
    DEF CommitNonCall, Inv, Shape, WhiteUnasked, Rows, Closings, NonCalls
  <2>3. disk[T3(d)].fails < Limit + hidden[T3(d)]
    <3>1. hidden[T3(d)] \in Nat /\ Limit \in Nat \ {0}
      BY <2>2 DEF Inv, Shape
    <3> QED
      BY <2>2, <3>1
  <2> QED
    BY <2>1, <2>2, <2>3, CommitIsLedgerStep DEF Inv, Shape
<1>3. ASSUME NEW w \in Workers, NEW k \in todo, IssueMissing(w, k)
      PROVE  UNCHANGED <<disk, hidden>> \/ Ledger!LedgerNext
  <2>1. k \in Keys /\ HasAttempts(mem, k)
    BY <1>3 DEF IssueMissing, Inv, Shape
  <2>2. PICK row \in {"not_sent", "image_missing"} : Record(k, row)
    BY <1>3 DEF IssueMissing
  <2>3. row \in Rows
    BY DEF Rows, Closings, NonCalls
  <2> QED
    BY <2>1, <2>2, <2>3, RecordKeepsLedger
<1>4. ASSUME NEW w \in Workers, Answered(w)
      PROVE  UNCHANGED <<disk, hidden>> \/ Ledger!LedgerNext
  <2>1. calling[w] \in Keys /\ HasAttempts(mem, calling[w])
    BY <1>4 DEF Answered, Inv, Shape, OneWorker
  <2>2. PICK row \in Rows : Record(calling[w], row)
    BY <1>4, OutcomesAreRows DEF Answered
  <2> QED
    BY <2>1, <2>2, RecordKeepsLedger
<1>5. ASSUME NEW w \in Workers, NEW k \in todo, Issue(w, k)
      PROVE  UNCHANGED <<disk, hidden>>
  BY <1>5 DEF Issue
<1>6. ASSUME NEW w \in Workers, Paused(w) PROVE UNCHANGED <<disk, hidden>>
  BY <1>6 DEF Paused
<1>7. CASE Start \/ StartOneStage \/ Crash
  BY <1>7 DEF Start, StartOneStage, Load, Crash
<1>8. CASE JudgePreflight \/ NonCallsDone \/ BeginChunk \/ SeeFailure \/ SeeStop
  BY <1>8 DEF JudgePreflight, NonCallsDone, BeginChunk, SeeFailure, SeeStop
<1>9. CASE EndChunk \/ ReferencesDone \/ RaiseCap \/ Freeze
  BY <1>9 DEF EndChunk, ReferencesDone, RaiseCap, Freeze
<1>10. CASE ScoreDone \/ RecheckDone \/ V2Done
  BY <1>10 DEF ScoreDone, RecheckDone, V2Done
<1>11. CASE UNCHANGED vars \/ \E d \in Dates : LosePng(d)
  BY <1>11 DEF vars, LosePng
<1> QED
  BY <1>1, <1>2, <1>3, <1>4, <1>5, <1>6, <1>7, <1>8, <1>9, <1>10, <1>11
     DEF Next, Main, Worker

\* The raw log implements the attempt ledger: over workers, pauses, rollbacks,
\* deaths and resumes an answer is never rewritten, and the failed attempts of
\* a request are counted one by one, up to the limit and one more for each row
\* an append that raised has left in the file.
THEOREM LogKeepsLedger == Spec => KeepsLedger
<1>1. Init => Ledger!LedgerInit
  <2> SUFFICES ASSUME Init PROVE Ledger!LedgerInit
    OBVIOUS
  <2>1. \A k \in Keys : disk[k].fails = 0 /\ ~Closed(disk, k)
    BY DEF Init, NoRows, Closed, Closings, Answers, NonCalls
  <2> QED
    BY <2>1 DEF Ledger!LedgerInit, Init
<1>2. Inv /\ [Next]_vars =>
         [Ledger!LedgerNext]_<<[k \in Keys |-> disk[k].fails],
             [k \in Keys |-> IF Closed(disk, k) THEN disk[k].last ELSE "open"], hidden>>
  <2> SUFFICES ASSUME Inv, [Next]_vars, UNCHANGED <<disk, hidden>>
               PROVE  UNCHANGED <<[k \in Keys |-> disk[k].fails],
                  [k \in Keys |-> IF Closed(disk, k) THEN disk[k].last ELSE "open"], hidden>>
    BY StepKeepsLedger
  <2> QED
    BY DEF Closed
<1> QED
  BY <1>1, <1>2, RunInvariant, PTL DEF Spec, KeepsLedger, Ledger!LedgerSpec

-----------------------------------------------------------------------------
(* What a finished stage says stays true.                                  *)

\* The pool asks no first pass of a date without imagery.
GapUnasked ==
    \A k \in Keys : InPool(k) /\ k.stage = "first_pass" => k.date \notin job.gaps

\* Some recheck could not be sent: its PNG was gone.
Lost(log) == \E k \in RecheckRequests(log) : Has(log, k, {"image_missing"})

\* A chunk of rechecks asks about the interval of the labels.  Until it has
\* made progress, or has a reason to end the process or to sleep, some of it
\* is still in the pool: the recheck drain gives up over lost PNGs only.
StageInv ==
    /\ stage \in {"noncalls", "v2"} => job.flow = "v2"
    /\ broken => stops # {} \/ failure = "raised"
    /\ stage = "recheck" => todo \subseteq RecheckRequests(mem)
    /\ stage = "recheck" /\ ~progress =>
          \/ Lost(mem)
          \/ running /\ (stops = {} /\ failure = "none" => \E k \in Keys : InPool(k))

StopTypes ==
    stops \subseteq {"pause", "budget", "mismatch"}
    /\ failure \in {"none", "unseen", "raised"} /\ progress \in BOOLEAN

\* What the sentinels and a finished run say of the rows in memory.
SentinelInv ==
    /\ scoreDone => /\ Outstanding(mem, ScoreRequests(mem)) = {}
                    /\ OpenDates(mem) = {}
    /\ recheckDone /\ FirstPassKnown =>
          /\ ~Incomplete(mem)
          /\ Outstanding(mem, RecheckRequests(mem)) = {}
    /\ stage = "done" /\ job.flow = "v1" /\ FirstPassKnown =>
          Outstanding(mem, RecheckRequests(mem)) = {} \/ Lost(mem)

DoneInv == Inv /\ StopTypes /\ GapUnasked /\ StageInv /\ SentinelInv

\* Attempts are never given back.
Spent(log, more) == \A k \in Keys : HasAttempts(more, k) => HasAttempts(log, k)

\* A log grows where attempts were left, and gets no answer for a date without
\* imagery.
Grows(log, more) ==
    /\ \A k \in Keys : HasAttempts(log, k) \/ more[k] = log[k]
    /\ \A d \in job.gaps \cap Dates :
          Has(more, T3(d), Answers) => more[T3(d)] = log[T3(d)]

\* A log that grows spends attempts.
LEMMA AttemptsAreSpent ==
    ASSUME NEW log, NEW more, Grows(log, more) PROVE Spent(log, more)
BY DEF Grows, Spent, HasAttempts, Closed

\* No stage asks a first pass of a date without imagery.
LEMMA NoGapIsAsked ==
    ASSUME NEW log
    PROVE  \A k \in Requests(log) : k.stage = "first_pass" => k.date \notin job.gaps
<1>1. \A k \in RecheckRequests(log) : k.stage # "first_pass"
  BY DEF RecheckRequests, Recheck, Request
<1>2. Satellite.stage # "first_pass"
  BY DEF Satellite, Request
<1> QED
  BY <1>1, <1>2 DEF Requests, TechRequests, ScoreRequests, Planned

\* Labels that are complete are final, and with them the interval and its
\* rechecks.
LEMMA LabelsAreFinal ==
    ASSUME NEW log, NEW more, Grows(log, more), ~Incomplete(log)
    PROVE  /\ Observations(more) = Observations(log)
           /\ RecheckRequests(more) = RecheckRequests(log)
           /\ ~Incomplete(more)
<1>s. Spent(log, more)
  BY AttemptsAreSpent
<1>1. ASSUME NEW d \in Dates
      PROVE  Observations(more)[d] = Observations(log)[d]
  <2>k. T3(d) \in Keys /\ T2(d) \in Keys /\ T3(d) \in Arms(d) /\ Arms(d) \subseteq Keys
    BY KeysAreRequests DEF Arms
  <2>o. Observations(log)[d] # "open"
    BY DEF Incomplete, LabelDates, Observations
  <2>1. CASE Has(log, T3(d), Answers)
    <3>1. more[T3(d)] = log[T3(d)]
      BY <2>k, <2>1 DEF Grows, Has, HasAttempts, Closed, Closings
    <3> QED BY <2>1, <3>1 DEF Observations, Has
  <2>2. CASE ~Has(log, T3(d), Answers)
    <3>1. ~ManifestOpen(log, d)
      BY <2>2, <2>o DEF Observations
    <3>2. ~ManifestOpen(more, d)
      BY <1>s, <2>k, <3>1 DEF ManifestOpen, Spent
    <3>3. CASE d \in job.gaps
      <4>1. ~Has(more, T3(d), Answers)
        BY <2>2, <3>3 DEF Grows, Has
      <4> QED BY <2>2, <3>1, <3>2, <3>3, <4>1 DEF Observations
    <3>4. CASE d \notin job.gaps
      <4>1. ~HasAttempts(log, T3(d))
        BY <2>k, <3>1, <3>4 DEF ManifestOpen
      <4>2. more[T3(d)] = log[T3(d)]
        BY <2>k, <4>1 DEF Grows
      <4> QED BY <2>2, <3>1, <3>2, <3>4, <4>2 DEF Observations, Has
    <3> QED BY <3>3, <3>4
  <2> QED BY <2>1, <2>2
<1>2. Observations(more) = Observations(log)
  BY <1>1 DEF Observations
<1> QED
  BY <1>2 DEF RecheckRequests, Incomplete

\* As long as no append that raised has left a first-pass row, memory and file
\* give the same labels, and the same rechecks.
LEMMA KnownLabels ==
    ASSUME Inv, FirstPassKnown
    PROVE  /\ RecheckRequests(disk) = RecheckRequests(mem)
           /\ Incomplete(disk) = Incomplete(mem)
<1>1. \A d \in Dates : /\ T3(d) \in Keys /\ T2(d) \in Keys
                       /\ mem[T3(d)] = disk[T3(d)] /\ mem[T2(d)] = disk[T2(d)]
  BY KeysAreRequests DEF Inv, MemoryBehind, Mirror, FirstPassKnown
<1>2. ASSUME NEW d \in Dates PROVE ManifestOpen(disk, d) <=> ManifestOpen(mem, d)
  BY <1>1 DEF ManifestOpen, Arms, HasAttempts, Closed
<1>3. \A d \in Dates : \A S : Has(disk, T3(d), S) <=> Has(mem, T3(d), S)
  BY <1>1 DEF Has
<1>4. Observations(disk) = Observations(mem)
  <2>1. \A d \in Dates : Observations(disk)[d] = Observations(mem)[d]
    BY <1>1, <1>2, <1>3 DEF Observations
  <2> QED
    BY <2>1 DEF Observations
<1> QED
  BY <1>4 DEF RecheckRequests, Incomplete

\* A finished score stays finished.  Whether the reference was rejected does
\* not matter: the open dates are looked at without it.
LEMMA ScoreStays ==
    ASSUME NEW log, NEW more, Spent(log, more),
           Outstanding(log, ScoreRequests(log)) = {}, OpenDates(log) = {}
    PROVE  Outstanding(more, ScoreRequests(more)) = {} /\ OpenDates(more) = {}
<1>0. \A d \in Dates : T3(d) \in Keys /\ T2(d) \in Keys
  BY KeysAreRequests
<1>1. OpenDates(more) = {}
  BY <1>0 DEF OpenDates, Spent
<1>2. ASSUME NEW k \in ScoreRequests(more) PROVE ~HasAttempts(more, k)
  <2>1. PICK d \in Dates : k \in Arms(d)
    BY <1>2 DEF ScoreRequests
  <2>2. k.date \notin job.gaps \cup job.white
    BY <1>2 DEF ScoreRequests, Planned
  <2>3. CASE k = T3(d)
    <3>1. k.date = d
      BY <1>0, <2>3, KeysAreRequests
    <3> QED
      BY <1>1, <2>2, <2>3, <3>1 DEF OpenDates
  <2>4. CASE k = T2(d) /\ k # T3(d)
    <3>1. k.arm # "t3"
      BY <2>4 DEF T2, Request
    <3>2. k \in ScoreRequests(log)
      BY <2>1, <2>2, <3>1 DEF ScoreRequests, Planned
    <3> QED
      BY <1>0, <2>4, <3>2 DEF Outstanding, Spent
  <2> QED
    BY <2>1, <2>3, <2>4 DEF Arms
<1> QED
  BY <1>1, <1>2 DEF Outstanding

\* A finished recheck stays finished.
LEMMA RecheckStays ==
    ASSUME NEW log, NEW more, Spent(log, more),
           RecheckRequests(more) = RecheckRequests(log),
           Outstanding(log, RecheckRequests(log)) = {}
    PROVE  Outstanding(more, RecheckRequests(more)) = {}
<1>1. RecheckRequests(log) \subseteq Keys
  BY RecheckKeys
<1> QED
  BY <1>1 DEF Outstanding, Spent

\* An incomplete timeline has no rechecks.
LEMMA IncompleteHasNone ==
    ASSUME NEW log, Incomplete(log) PROVE RecheckRequests(log) = {}
<1>1. InferInterval(Observations(log), "unknown").status = "incomplete_timeline"
  BY DEF Incomplete, InferInterval
<1> QED
  BY <1>1 DEF RecheckRequests, PlanRechecks

\* A recheck that could not be sent remains one.
LEMMA LostStays ==
    ASSUME NEW log, NEW more, Grows(log, more), Lost(log) PROVE Lost(more)
<1>1. PICK k \in RecheckRequests(log) : Has(log, k, {"image_missing"})
  BY DEF Lost
<1>2. RecheckRequests(more) = RecheckRequests(log)
  BY <1>1, IncompleteHasNone, LabelsAreFinal
<1>3. k \in Keys
  BY RecheckKeys
<1>4. more[k] = log[k]
  BY <1>1, <1>3 DEF Grows, Has, HasAttempts, Closed, Closings, NonCalls
<1> QED
  BY <1>1, <1>2, <1>4 DEF Lost, Has

\* Committing a request with attempts left makes the log grow.
LEMMA CommitGrows ==
    ASSUME NEW log \in [Keys -> Row], NEW k \in Keys, NEW row \in Rows,
           HasAttempts(log, k),
           row \in Answers /\ k.stage = "first_pass" => k.date \notin job.gaps
    PROVE  Grows(log, Committed(log, k, row))
<1> DEFINE more == Committed(log, k, row)
<1>1. \A j \in Keys \ {k} : more[j] = log[j]
  BY CommitKeepsShape
<1>2. more[k].last = row
  BY CommitOfKey, AfterFields DEF HasAttempts
<1> HIDE DEF more
<1>3. ASSUME NEW d \in job.gaps \cap Dates, Has(more, T3(d), Answers)
      PROVE  more[T3(d)] = log[T3(d)]
  <2>1. T3(d) \in Keys /\ T3(d).stage = "first_pass" /\ T3(d).date = d
    BY KeysAreRequests DEF T3, Request
  <2>2. T3(d) # k
    BY <1>2, <1>3, <2>1 DEF Has
  <2> QED BY <1>1, <2>1, <2>2
<1>4. Grows(log, more)
  BY <1>1, <1>3 DEF Grows
<1> QED
  BY <1>4 DEF more

\* No step rewrites what memory holds, it makes it grow, or takes the file
\* anew; and what an append that raised has left is never forgotten.
LEMMA StepGrows ==
    ASSUME Inv, GapUnasked, [Next]_vars
    PROVE  /\ job' = job
           /\ Grows(mem, mem') \/ (mem' = disk /\ stage = "down" /\ stage' = "preflight")
           /\ FirstPassKnown' => FirstPassKnown
           /\ mem' = mem \/ running \/ stage \in {"preflight", "noncalls", "down"}
<1> USE DEF files, pool
<1>0. Grows(mem, mem)
  BY DEF Grows
<1>h. hidden' = hidden => (FirstPassKnown' => FirstPassKnown)
  BY DEF FirstPassKnown
<1>1. CASE CallPreflight
  BY <1>0, <1>1, <1>h, CommitGrows, KeysAreRequests, OutcomesAreRows
     DEF CallPreflight, Inv, Shape, Preflight, Request
<1>2. CASE CommitNonCall
  <2>1. PICK d \in job.white :
           mem' = Committed(mem, T3(d), "pixel_uninformative")
    BY <1>2 DEF CommitNonCall
  <2>2. /\ d \in Dates /\ T3(d) \in Keys /\ mem[T3(d)].fails = 0
        /\ "pixel_uninformative" \in Rows /\ "pixel_uninformative" \notin Answers
    BY Job, KeysAreRequests
    DEF Inv, Shape, WhiteUnasked, Rows, Closings, NonCalls, Answers
  <2>3. CASE Closed(mem, T3(d))
    BY <1>0, <1>2, <1>h, <2>1, <2>3 DEF Committed, CommitNonCall
  <2>4. CASE ~Closed(mem, T3(d))
    BY <1>2, <1>h, <2>1, <2>2, <2>4, CommitGrows DEF HasAttempts, Inv, Shape, CommitNonCall
  <2> QED
    BY <2>3, <2>4
<1>3. ASSUME NEW k \in Keys, NEW row \in Rows, HasAttempts(mem, k), Record(k, row),
             row \in Answers /\ k.stage = "first_pass" => k.date \notin job.gaps
      PROVE  Grows(mem, mem') /\ (FirstPassKnown' => FirstPassKnown)
  <2>1. \/ mem' = Committed(mem, k, row) \/ mem' = mem
    BY <1>3, RecordCommits DEF Inv
  <2>2. hidden' = hidden \/ hidden' = [hidden EXCEPT ![k] = @ + 1]
    BY <1>3, RecordCommits DEF Inv
  <2>3. hidden \in [Keys -> Nat] /\ mem \in [Keys -> Row]
    BY DEF Inv, Shape
  <2>4. \A j \in Keys : hidden'[j] = 0 => hidden[j] = 0
    BY <2>2, <2>3
  <2>5. FirstPassKnown' => FirstPassKnown
    BY <2>4, KeysAreRequests DEF FirstPassKnown
  <2> QED
    BY <1>0, <1>3, <2>1, <2>3, <2>5, CommitGrows
<1>4. ASSUME NEW w \in Workers, NEW k \in todo, IssueMissing(w, k)
      PROVE  Grows(mem, mem') /\ job' = job /\ running /\ (FirstPassKnown' => FirstPassKnown)
  <2>1. k \in Keys /\ HasAttempts(mem, k) /\ running /\ job' = job
    BY <1>4 DEF IssueMissing, Inv, Shape, PoolAtWork
  <2>2. PICK row \in {"not_sent", "image_missing"} : Record(k, row)
    BY <1>4 DEF IssueMissing
  <2>3. row \in Rows /\ row \notin Answers
    BY DEF Rows, Closings, NonCalls, Answers
  <2> QED
    BY <1>3, <2>1, <2>2, <2>3
<1>5. ASSUME NEW w \in Workers, Answered(w)
      PROVE  Grows(mem, mem') /\ job' = job /\ running /\ (FirstPassKnown' => FirstPassKnown)
  <2>1. /\ calling[w] \in Keys /\ HasAttempts(mem, calling[w]) /\ running
        /\ InPool(calling[w]) /\ job' = job
    BY <1>5 DEF Answered, Inv, Shape, OneWorker, PoolAtWork, InPool
  <2>2. PICK row \in Rows : Record(calling[w], row)
    BY <1>5, OutcomesAreRows DEF Answered
  <2>3. calling[w].stage = "first_pass" => calling[w].date \notin job.gaps
    BY <2>1 DEF GapUnasked
  <2> QED
    BY <1>3, <2>1, <2>2, <2>3
<1>6. ASSUME NEW w \in Workers, NEW k \in todo, Issue(w, k)
      PROVE  mem' = mem /\ job' = job /\ hidden' = hidden
  BY <1>6 DEF Issue
<1>7. ASSUME NEW w \in Workers, Paused(w) PROVE mem' = mem /\ job' = job /\ hidden' = hidden
  BY <1>7 DEF Paused
<1>8. CASE Start \/ StartOneStage
  BY <1>h, <1>8 DEF Start, StartOneStage, Load, GoTo
<1>9. CASE Crash \/ \E d \in Dates : LosePng(d)
  BY <1>0, <1>h, <1>9 DEF Crash, LosePng
<1>10. CASE JudgePreflight \/ NonCallsDone \/ BeginChunk \/ SeeFailure \/ SeeStop
  BY <1>0, <1>h, <1>10 DEF JudgePreflight, NonCallsDone, BeginChunk, SeeFailure, SeeStop
<1>11. CASE EndChunk \/ ReferencesDone \/ RaiseCap \/ Freeze
  BY <1>0, <1>h, <1>11 DEF EndChunk, ReferencesDone, RaiseCap, Freeze
<1>12. CASE ScoreDone \/ RecheckDone \/ V2Done
  BY <1>0, <1>h, <1>12 DEF ScoreDone, RecheckDone, V2Done
<1>13. CASE UNCHANGED vars
  BY <1>0, <1>h, <1>13 DEF vars
<1> QED
  BY <1>0, <1>h, <1>1, <1>2, <1>4, <1>5, <1>6, <1>7, <1>8, <1>9, <1>10, <1>11, <1>12,
     <1>13 DEF Next, Main, Worker

\* The pool gets requests of the stage, by BeginChunk only.
LEMMA PoolStep ==
    ASSUME Inv, [Next]_vars, NEW k \in Keys, InPool(k)'
    PROVE  InPool(k) \/ (BeginChunk /\ k \in Requests(mem))
<1> USE DEF files, pool
<1>1. ASSUME todo' \subseteq todo,
             \A v \in Workers : calling'[v] \in {calling[v], None}
      PROVE  InPool(k)
  BY <1>1, KeysAreRequests DEF InPool
<1>2. ASSUME Exit \/ UNCHANGED <<todo, calling>> PROVE InPool(k)
  BY <1>2, KeysAreRequests DEF Exit, InPool
<1>3. CASE Start \/ StartOneStage \/ CallPreflight \/ JudgePreflight \/ CommitNonCall
  BY <1>2, <1>3 DEF Start, StartOneStage, Load, CallPreflight, JudgePreflight, CommitNonCall
<1>4. CASE NonCallsDone \/ SeeFailure \/ SeeStop \/ EndChunk \/ ReferencesDone
  BY <1>1, <1>2, <1>4 DEF NonCallsDone, SeeFailure, SeeStop, EndChunk, ReferencesDone
<1>5. CASE RaiseCap \/ Freeze \/ ScoreDone \/ RecheckDone \/ V2Done \/ Crash
  BY <1>2, <1>5 DEF RaiseCap, Freeze, ScoreDone, RecheckDone, V2Done, Crash
<1>6. CASE BeginChunk
  <2>1. k \in Chunk \/ InPool(k)
    BY <1>6 DEF BeginChunk, InPool
  <2> QED BY <1>6, <2>1 DEF Chunk, Pending, Outstanding
<1>7. ASSUME NEW w \in Workers, NEW j \in todo, IssueMissing(w, j) PROVE InPool(k)
  BY <1>1, <1>7 DEF IssueMissing
<1>8. ASSUME NEW w \in Workers, NEW j \in todo, Issue(w, j) PROVE InPool(k)
  BY <1>8 DEF Issue, InPool, Inv, Shape
<1>9. ASSUME NEW w \in Workers, Paused(w) \/ Answered(w) PROVE InPool(k)
  BY <1>1, <1>9 DEF Paused, Answered, Inv, Shape
<1>10. CASE UNCHANGED vars \/ \E d \in Dates : LosePng(d)
  BY <1>2, <1>10 DEF vars, LosePng
<1> QED
  BY <1>3, <1>4, <1>5, <1>6, <1>7, <1>8, <1>9, <1>10 DEF Next, Main, Worker

\* Every step keeps the first passes of gaps out of the pool.
LEMMA GapStep == Inv /\ GapUnasked /\ [Next]_vars => GapUnasked'
BY PoolStep, NoGapIsAsked, StepGrows DEF GapUnasked

\* With the job fixed, what is asked of the grown log is what will be asked.
LEMMA JobStays ==
    ASSUME job' = job
    PROVE  /\ ScoreRequests(mem)' = ScoreRequests(mem')
           /\ OpenDates(mem)' = OpenDates(mem')
           /\ RecheckRequests(mem)' = RecheckRequests(mem')
           /\ Incomplete(mem)' = Incomplete(mem')
           /\ Lost(mem)' = Lost(mem')
<1>1. /\ \A d : Arms(d)' = Arms(d)
      /\ \A d : ManifestOpen(mem, d)' = ManifestOpen(mem', d)
  BY DEF Arms, ManifestOpen
<1>2. Observations(mem)' = Observations(mem')
  BY <1>1 DEF Observations
<1>3. \A k : Planned(mem, k)' = Planned(mem', k)
  BY DEF Planned
<1> QED
  BY <1>1, <1>2, <1>3
     DEF ScoreRequests, OpenDates, RecheckRequests, Incomplete, Lost, Has

\* What the recheck stage asks.
LEMMA RecheckAsks ==
    ASSUME stage = "recheck"
    PROVE  Requests(mem) = IF recheckDone /\ scoreDone THEN {} ELSE RecheckRequests(mem)
BY DEF Requests

\* A commit on a request with attempts left is seen in the log.
LEMMA CommitIsSeen ==
    ASSUME NEW log \in [Keys -> Row], NEW k \in Keys, NEW row \in Rows,
           HasAttempts(log, k)
    PROVE  Committed(log, k, row) # log
<1>1. Committed(log, k, row)[k] = [last |-> row,
          fails |-> IF row \in Closings THEN 0 ELSE log[k].fails + 1]
  BY DEF Committed, HasAttempts
<1>2. log[k].fails \in Nat /\ log[k].last \notin Closings
  BY DEF Row, HasAttempts, Closed
<1> QED
  BY <1>1, <1>2

\* A drain of rechecks with something pending takes something.
LEMMA ChunkOfSome ==
    ASSUME Inv, stage = "recheck", Pending # {}
    PROVE  /\ Chunk # {} /\ Chunk \subseteq RecheckRequests(mem)
<1>1. Pending \subseteq RecheckRequests(mem)
  BY RecheckAsks DEF Pending, Outstanding
<1>2. \A k \in Pending : Rank(k) \in Nat
  <2> SUFFICES ASSUME NEW k \in Pending PROVE Rank(k) \in Nat
    OBVIOUS
  <2>1. k.date \in Nat
    BY <1>1, RecheckKeys
  <2> QED BY <2>1 DEF Rank
<1> DEFINE S == {Rank(k) : k \in Pending}
<1>3. S \in SUBSET Nat /\ S # {}
  BY <1>2
<1>4. PICK r \in S : \A q \in S : r <= q
  <2> HIDE DEF S
  <2> QED BY <1>3, Smallest
<1>5. PICK k \in Pending : r = Rank(k)
  BY <1>4
<1>6. \A j \in Pending : Rank(k) <= Rank(j)
  BY <1>4, <1>5
<1>7. {j \in Pending : Rank(j) < Rank(k)} = {}
  BY <1>2, <1>6
<1>8. Cardinality({j \in Pending : Rank(j) < Rank(k)}) < job.chunk
  <2> DEFINE Before == {j \in Pending : Rank(j) < Rank(k)}
  <2>1. Before = {}
    BY <1>7
  <2> HIDE DEF Before
  <2>2. Cardinality(Before) = 0
    BY <2>1, FS_EmptySet
  <2>3. job.chunk \in Nat \ {0}
    BY Job DEF Inv, Shape
  <2> QED BY <2>2, <2>3 DEF Before
<1> QED BY <1>1, <1>5, <1>8 DEF Chunk

\* The types of what stops a drain.
LEMMA StopStep == StopTypes /\ [Next]_vars => StopTypes'
<1> SUFFICES ASSUME StopTypes, [Next]_vars PROVE StopTypes'
  OBVIOUS
<1> USE DEF files, pool, StopTypes
<1>1. CASE Start \/ StartOneStage \/ Crash \/ CallPreflight \/ JudgePreflight \/ CommitNonCall
  BY <1>1 DEF Start, StartOneStage, Load, Crash, CallPreflight, JudgePreflight,
     CommitNonCall, GoTo, Exit
<1>2. CASE NonCallsDone \/ BeginChunk \/ SeeFailure \/ SeeStop \/ EndChunk
  BY <1>2 DEF NonCallsDone, BeginChunk, SeeFailure, SeeStop, EndChunk, GoTo, Exit
<1>3. CASE ReferencesDone \/ RaiseCap \/ Freeze \/ ScoreDone \/ RecheckDone \/ V2Done
  BY <1>3 DEF ReferencesDone, RaiseCap, Freeze, ScoreDone, RecheckDone, V2Done, GoTo, Exit
<1>4. ASSUME NEW w \in Workers, NEW k \in todo, IssueMissing(w, k) \/ Issue(w, k)
      PROVE  StopTypes'
  BY <1>4 DEF IssueMissing, Issue, Record
<1>5. ASSUME NEW w \in Workers, Paused(w) \/ Answered(w) PROVE StopTypes'
  BY <1>5 DEF Paused, Answered, Record
<1>6. CASE UNCHANGED vars \/ \E d \in Dates : LosePng(d)
  BY <1>6 DEF vars, LosePng
<1> QED
  BY <1>1, <1>2, <1>3, <1>4, <1>5, <1>6 DEF Next, Main, Worker

\* The main thread goes to a stage of its flow, or the process ends.
LEMMA StageBegins ==
    ASSUME StageInv, job' = job,
           \/ Exit
           \/ /\ UNCHANGED <<todo, stops, failure, broken>> /\ todo = {}
              /\ \E s : GoTo(s) /\ (s \in {"noncalls", "v2"} => job.flow = "v2")
    PROVE  StageInv'
BY DEF StageInv, Exit, GoTo

\* In the recheck stage the rechecks of the pool remain those of the labels.
LEMMA RechecksStay ==
    ASSUME StageInv, stage = "recheck", todo # {} \/ Lost(mem), Grows(mem, mem')
    PROVE  RecheckRequests(mem') = RecheckRequests(mem)
<1>1. RecheckRequests(mem) # {}
  BY DEF StageInv, Lost
<1> QED
  BY <1>1, IncompleteHasNone, LabelsAreFinal

\* A step inside the recheck drain keeps what its clauses say.
LEMMA StageStep ==
    ASSUME Inv, StopTypes, GapUnasked, StageInv, [Next]_vars
    PROVE  StageInv'
<1> USE DEF files, pool
<1>j. /\ job' = job
      /\ Grows(mem, mem') \/ (mem' = disk /\ stage = "down" /\ stage' = "preflight")
  BY StepGrows
<1>1. CASE Start \/ StartOneStage \/ Crash \/ JudgePreflight \/ NonCallsDone
  <2>1. CASE Start \/ StartOneStage
    BY <1>j, <2>1, StageBegins DEF Start, StartOneStage, Load, Inv, PoolAtWork
  <2>2. CASE Crash
    BY <1>j, <2>2, StageBegins DEF Crash
  <2>3. CASE JudgePreflight
    <3>1. FirstStage \in {"noncalls", "v2"} => job.flow = "v2"
      BY DEF FirstStage
    <3> QED BY <1>j, <2>3, <3>1, StageBegins DEF JudgePreflight, Inv, PoolAtWork
  <2>4. CASE NonCallsDone
    BY <1>j, <2>4, StageBegins DEF NonCallsDone, StageInv, Inv, PoolAtWork
  <2> QED BY <1>1, <2>1, <2>2, <2>3, <2>4
<1>2. CASE ReferencesDone \/ RaiseCap \/ Freeze \/ ScoreDone \/ RecheckDone \/ V2Done
  <2>0. todo = {}
    BY <1>2 DEF ReferencesDone, RaiseCap, Freeze, ScoreDone, RecheckDone, V2Done,
       Drained, Inv, PoolAtWork
  <2>1. CASE ReferencesDone \/ RaiseCap
    BY <1>j, <2>0, <2>1, StageBegins DEF ReferencesDone, RaiseCap
  <2>2. CASE Freeze
    <3>1. (IF command = "recheck" THEN "recheck" ELSE "refs") \notin {"noncalls", "v2"}
      OBVIOUS
    <3> QED BY <1>j, <2>0, <2>2, <3>1, StageBegins DEF Freeze
  <2>3. CASE ScoreDone \/ RecheckDone \/ V2Done
    <3>1. "recheck" \notin {"noncalls", "v2"} /\ "done" \notin {"noncalls", "v2"}
      OBVIOUS
    <3> QED BY <1>j, <2>0, <2>3, <3>1, StageBegins DEF ScoreDone, RecheckDone, V2Done
  <2> QED BY <1>2, <2>1, <2>2, <2>3
<1>3. CASE CallPreflight \/ CommitNonCall
  BY <1>j, <1>3 DEF CallPreflight, CommitNonCall, StageInv
<1>4. CASE BeginChunk
  <2>1. /\ UNCHANGED <<stage, stops, failure, broken, mem>> /\ running'
        /\ todo' = Chunk /\ Pending # {}
    BY <1>4 DEF BeginChunk
  <2>2. ASSUME stage = "recheck"
        PROVE  /\ todo' \subseteq RecheckRequests(mem')
               /\ \E k \in Keys : InPool(k)'
    <3>1. todo' # {} /\ todo' \subseteq RecheckRequests(mem)
      BY <2>1, <2>2, ChunkOfSome
    <3>2. RecheckRequests(mem) \subseteq Keys /\ mem' = mem
      BY <2>1, RecheckKeys
    <3> QED BY <3>1, <3>2 DEF InPool
  <2> QED BY <1>j, <2>1, <2>2, JobStays DEF StageInv
<1>5. CASE EndChunk
  <2>1. CASE Exit
    BY <1>j, <2>1, StageBegins
  <2>2. CASE ~Exit
    <3>1. /\ running /\ ~broken' /\ todo = {} /\ todo' = {} /\ mem' = mem
          /\ \A w \in Workers : calling[w] = None
          /\ stops # {} \/ failure = "unseen" => broken
          /\ failure # "raised" /\ stops \subseteq {"pause"}
          /\ progress' = (progress \/ "pause" \in stops) /\ stage' = stage
      BY <1>5, <2>2 DEF EndChunk, StopTypes
    <3>2. ASSUME stage = "recheck", ~progress' PROVE Lost(mem')
      <4>1. ~progress /\ stops = {} /\ failure = "none"
        BY <3>1, <3>2 DEF StageInv, StopTypes
      <4>2. \A k \in Keys : ~InPool(k)
        BY <3>1, KeysAreRequests DEF InPool
      <4> QED BY <3>1, <3>2, <4>1, <4>2 DEF StageInv
    <3> QED BY <1>j, <3>1, <3>2, JobStays DEF StageInv
  <2> QED BY <2>1, <2>2
\* A step of the pool, with the stage as it was.
<1>6. ASSUME running', stage' = stage, todo' \subseteq todo, Grows(mem, mem'),
             broken' => stops' # {} \/ failure' = "raised",
             stage = "recheck" /\ ~progress' /\ stops' = {} /\ failure' = "none"
                => /\ ~progress /\ stops = {} /\ failure = "none"
                   /\ Lost(mem) \/ Lost(mem') \/ \A k \in Keys : InPool(k) => InPool(k)'
      PROVE  StageInv'
  <2>1. stage = "recheck" => todo' \subseteq RecheckRequests(mem')
    <3>1. SUFFICES ASSUME stage = "recheck", todo' # {}
                   PROVE  todo' \subseteq RecheckRequests(mem')
      OBVIOUS
    <3>2. RecheckRequests(mem') = RecheckRequests(mem)
      BY <1>6, <3>1, RechecksStay
    <3> QED BY <1>6, <3>1, <3>2 DEF StageInv
  <2>2. Lost(mem) => Lost(mem')
    BY <1>6, LostStays
  <2>3. stage = "recheck" /\ ~progress' =>
           \/ Lost(mem')
           \/ stops' = {} /\ failure' = "none" => \E k \in Keys : InPool(k)'
    BY <1>6, <2>2 DEF StageInv
  <2> QED BY <1>j, <1>6, <2>1, <2>3, JobStays DEF StageInv
<1>g. Grows(mem, mem)
  BY DEF Grows
<1>7. CASE SeeFailure
  <2>1. /\ running' = running /\ stage' = stage /\ todo' = {} /\ mem' = mem
        /\ failure' = "raised" /\ progress' = progress
    BY <1>7 DEF SeeFailure
  <2>2. stage = "recheck" /\ ~progress => Lost(mem') \/ running'
    BY <2>1 DEF StageInv
  <2> QED BY <1>j, <2>1, <2>2, JobStays DEF StageInv
<1>8. CASE SeeStop
  BY <1>6, <1>8, <1>g DEF SeeStop
<1>9. ASSUME NEW w \in Workers, NEW k \in todo, IssueMissing(w, k) PROVE StageInv'
  <2>1. /\ running' /\ todo' \subseteq todo /\ HasAttempts(mem, k) /\ k \in Keys
        /\ UNCHANGED <<stage, stops, broken, progress>> /\ stage # "down"
    BY <1>9 DEF IssueMissing, Inv, Shape, PoolAtWork
  <2>2. PICK row \in {"not_sent", "image_missing"} :
           Record(k, row) /\ (k.stage # "first_pass" => row = "image_missing")
    BY <1>9 DEF IssueMissing
  <2>3. row \in Rows
    BY DEF Rows, Closings, NonCalls
  <2>4. /\ failure = "raised" => failure' = "raised"
        /\ \/ mem' = Committed(mem, k, row) /\ failure' = failure
           \/ failure' # "none"
    BY <2>2, <2>3, RecordCommits DEF Record, Inv
  <2>5. broken' => stops' # {} \/ failure' = "raised"
    BY <2>1, <2>4 DEF StageInv
  <2>6. ASSUME stage = "recheck", failure' = "none" PROVE Lost(mem') /\ failure = "none"
    <3>1. k \in RecheckRequests(mem) /\ k.stage # "first_pass"
      BY <2>6, RecheckKeys DEF StageInv
    <3>2. mem' = Committed(mem, k, "image_missing") /\ failure = "none"
      BY <2>2, <2>4, <2>6, <3>1
    <3>3. mem'[k].last = "image_missing"
      <4>1. ~Closed(mem, k) /\ mem \in [Keys -> Row] /\ "image_missing" \in Rows
        BY <2>1 DEF HasAttempts, Inv, Shape, Rows, Closings, NonCalls
      <4>2. mem'[k] = After(mem[k], "image_missing")
        BY <2>1, <3>2, <4>1, CommitOfKey
      <4> QED BY <4>2, AfterFields
    <3>4. RecheckRequests(mem') = RecheckRequests(mem)
      BY <1>j, <2>1, <2>6, RechecksStay
    <3> QED BY <3>1, <3>2, <3>3, <3>4 DEF Lost, Has
  <2> QED BY <1>6, <1>j, <2>1, <2>5, <2>6
<1>10. ASSUME NEW w \in Workers, NEW k \in todo, Issue(w, k) PROVE StageInv'
  <2>1. /\ running' /\ calling[w] = None /\ mem' = mem
        /\ UNCHANGED <<stage, stops, broken, progress, failure>>
        /\ calling' = [calling EXCEPT ![w] = k] /\ todo' = todo \ {k}
    BY <1>10 DEF Issue, Inv, PoolAtWork
  <2>2. ASSUME NEW j \in Keys, InPool(j) PROVE InPool(j)'
    <3>1. CASE j = k
      BY <2>1, <3>1 DEF InPool, Inv, Shape
    <3>2. CASE j # k
      <4>1. CASE j \in todo
        BY <2>1, <3>2, <4>1 DEF InPool
      <4>2. CASE j \notin todo
        <5>1. PICK v \in Workers : calling[v] = j
          BY <2>2, <4>2 DEF InPool
        <5>2. v # w
          BY <2>1, <5>1, KeysAreRequests
        <5> QED BY <2>1, <5>1, <5>2 DEF InPool, Inv, Shape
      <4> QED BY <4>1, <4>2
    <3> QED BY <3>1, <3>2
  <2>3. broken' => stops' # {} \/ failure' = "raised"
    BY <2>1 DEF StageInv
  <2> QED BY <1>6, <1>g, <2>1, <2>2, <2>3
<1>11. ASSUME NEW w \in Workers, Paused(w) PROVE StageInv'
  <2>1. running' /\ stops' # {} /\ stage' = stage /\ todo' = todo /\ mem' = mem
    BY <1>11 DEF Paused, Inv, PoolAtWork
  <2> QED BY <1>6, <1>g, <2>1
<1>12. ASSUME NEW w \in Workers, Answered(w) PROVE StageInv'
  <2>1. /\ calling[w] \in Keys /\ HasAttempts(mem, calling[w]) /\ running'
        /\ UNCHANGED <<stage, todo, broken>> /\ stage # "down"
        /\ progress' = (progress \/ mem' # mem) /\ stops \subseteq stops'
    BY <1>12 DEF Answered, Inv, Shape, OneWorker, PoolAtWork
  <2>2. PICK row \in Rows : Record(calling[w], row)
    BY <1>12, OutcomesAreRows DEF Answered
  <2>3. failure = "raised" => failure' = "raised"
    BY <2>2 DEF Record
  <2>4. broken' => stops' # {} \/ failure' = "raised"
    BY <2>1, <2>3 DEF StageInv
  <2>5. ASSUME failure' = "none" PROVE progress'
    <3>1. mem' = Committed(mem, calling[w], row)
      BY <2>2, <2>5 DEF Record
    <3>2. mem' # mem
      BY <2>1, <3>1, CommitIsSeen DEF Inv, Shape
    <3> QED BY <2>1, <3>2
  <2> QED BY <1>6, <1>j, <2>1, <2>4, <2>5
<1>13. CASE UNCHANGED vars \/ \E d \in Dates : LosePng(d)
  <2>1. UNCHANGED <<job, mem, stage, running, todo, calling, stops, failure, broken, progress>>
    BY <1>13 DEF vars, LosePng
  <2>2. \A k \in Keys : InPool(k)' <=> InPool(k)
    BY <2>1 DEF InPool
  <2> QED BY <2>1, <2>2, JobStays DEF StageInv
<1> QED
  BY <1>1, <1>2, <1>3, <1>4, <1>5, <1>7, <1>8, <1>9, <1>10, <1>11, <1>12, <1>13
     DEF Next, Main, Worker

\* Only a recheck or a v2 pack comes to the end of a run.
LEMMA EndOfRun ==
    ASSUME [Next]_vars, stage' = "done", stage # "done" PROVE RecheckDone \/ V2Done
<1> USE DEF files, pool
<1>1. CASE Start \/ StartOneStage \/ Crash \/ CallPreflight \/ JudgePreflight \/ CommitNonCall
  BY <1>1 DEF Start, StartOneStage, Load, Crash, CallPreflight, JudgePreflight,
     CommitNonCall, GoTo, Exit, FirstStage
<1>2. CASE NonCallsDone \/ BeginChunk \/ SeeFailure \/ SeeStop \/ EndChunk
  BY <1>2 DEF NonCallsDone, BeginChunk, SeeFailure, SeeStop, EndChunk, GoTo, Exit
<1>3. CASE ReferencesDone \/ RaiseCap \/ Freeze \/ ScoreDone
  BY <1>3 DEF ReferencesDone, RaiseCap, Freeze, ScoreDone, GoTo, Exit
<1>4. ASSUME NEW w \in Workers, NEW k \in todo, IssueMissing(w, k) \/ Issue(w, k)
      PROVE  FALSE
  BY <1>4 DEF IssueMissing, Issue
<1>5. ASSUME NEW w \in Workers, Paused(w) \/ Answered(w) PROVE FALSE
  BY <1>5 DEF Paused, Answered
<1>6. CASE UNCHANGED vars \/ \E d \in Dates : LosePng(d)
  BY <1>6 DEF vars, LosePng
<1> QED
  BY <1>1, <1>2, <1>3, <1>4, <1>5, <1>6 DEF Next, Main, Worker

\* A sentinel is only written by the action named for it.
LEMMA SentinelWritten ==
    ASSUME [Next]_vars
    PROVE  /\ scoreDone' # scoreDone => ScoreDone \/ V2Done
           /\ recheckDone' # recheckDone => RecheckDone
<1> USE DEF files, pool
<1>1. CASE Start \/ StartOneStage \/ Crash \/ CallPreflight \/ JudgePreflight \/ CommitNonCall
  BY <1>1 DEF Start, StartOneStage, Load, Crash, CallPreflight, JudgePreflight, CommitNonCall
<1>2. CASE NonCallsDone \/ BeginChunk \/ SeeFailure \/ SeeStop \/ EndChunk
  BY <1>2 DEF NonCallsDone, BeginChunk, SeeFailure, SeeStop, EndChunk
<1>3. CASE ReferencesDone \/ RaiseCap \/ Freeze \/ ScoreDone \/ RecheckDone \/ V2Done
  BY <1>3 DEF ReferencesDone, RaiseCap, Freeze, ScoreDone, RecheckDone, V2Done
<1>4. ASSUME NEW w \in Workers, NEW k \in todo, IssueMissing(w, k) \/ Issue(w, k)
      PROVE  UNCHANGED <<scoreDone, recheckDone>>
  BY <1>4 DEF IssueMissing, Issue
<1>5. ASSUME NEW w \in Workers, Paused(w) \/ Answered(w)
      PROVE  UNCHANGED <<scoreDone, recheckDone>>
  BY <1>5 DEF Paused, Answered
<1>6. CASE UNCHANGED vars \/ \E d \in Dates : LosePng(d)
  BY <1>6 DEF vars, LosePng
<1> QED
  BY <1>1, <1>2, <1>3, <1>4, <1>5, <1>6 DEF Next, Main, Worker

\* Every step keeps what the sentinels and a finished run say.
LEMMA SentinelStep ==
    ASSUME Inv, GapUnasked, StageInv, SentinelInv, [Next]_vars
    PROVE  SentinelInv'
<1> USE DEF files, pool
<1>j. /\ job' = job
      /\ Grows(mem, mem') \/ (mem' = disk /\ stage = "down" /\ stage' = "preflight")
      /\ FirstPassKnown' => FirstPassKnown
      /\ mem' = mem \/ running \/ stage \in {"preflight", "noncalls", "down"}
  BY StepGrows
<1>a. \A d \in Dates : /\ Arms(d) \subseteq Keys /\ T3(d) \in Arms(d)
                       /\ \A k \in Arms(d) : k.date = d
  BY KeysAreRequests DEF Arms
<1>s. Spent(mem, mem')
  <2>1. Spent(mem, disk)
    BY MirrorSpends DEF Inv, Spent
  <2> QED BY <1>j, <2>1, AttemptsAreSpent
<1>l. ASSUME FirstPassKnown, ~Incomplete(mem)
      PROVE  RecheckRequests(mem') = RecheckRequests(mem) /\ ~Incomplete(mem')
  <2>1. CASE Grows(mem, mem')
    BY <1>l, <2>1, LabelsAreFinal
  <2>2. CASE mem' = disk
    BY <1>l, <2>2, KnownLabels
  <2> QED BY <1>j, <2>1, <2>2
<1>1. ASSUME scoreDone'
      PROVE  Outstanding(mem', ScoreRequests(mem')) = {} /\ OpenDates(mem') = {}
  <2>1. CASE scoreDone
    BY <1>s, <2>1, ScoreStays DEF SentinelInv
  <2>2. CASE ~scoreDone /\ ScoreDone
    <3>1. mem' = mem /\ \A d \in Dates : ~ManifestOpen(mem, d)
      BY <1>1, <2>2 DEF ScoreDone
    <3>2. OpenDates(mem) = {}
      BY <1>a, <3>1 DEF OpenDates, ManifestOpen
    <3>3. Outstanding(mem, ScoreRequests(mem)) = {}
      BY <1>a, <3>1 DEF Outstanding, ScoreRequests, Planned, ManifestOpen
    <3> QED BY <3>1, <3>2, <3>3
  <2>3. CASE ~scoreDone /\ V2Done
    <3>1. mem' = mem /\ Pending = {} /\ OpenDates(mem) = {} /\ stage = "v2"
      BY <1>1, <2>3 DEF V2Done
    <3>2. Requests(mem) = ScoreRequests(mem)
      BY <3>1 DEF Requests
    <3> QED BY <3>1, <3>2 DEF Pending
  <2> QED BY <1>1, <2>1, <2>2, <2>3, SentinelWritten
<1>2. ASSUME FirstPassKnown, stage = "recheck", Pending = {}
      PROVE  Outstanding(mem, RecheckRequests(mem)) = {}
  BY <1>2, RecheckAsks DEF SentinelInv, Pending
<1>3. ASSUME recheckDone', FirstPassKnown'
      PROVE  ~Incomplete(mem') /\ Outstanding(mem', RecheckRequests(mem')) = {}
  <2>1. CASE recheckDone
    <3>1. ~Incomplete(mem) /\ Outstanding(mem, RecheckRequests(mem)) = {}
      BY <1>j, <1>3, <2>1 DEF SentinelInv
    <3> QED BY <1>j, <1>l, <1>s, <1>3, <3>1, RecheckStays
  <2>2. CASE ~recheckDone
    <3>1. /\ stage = "recheck" /\ Pending = {} /\ ~Incomplete(mem) /\ mem' = mem
      BY <1>3, <2>2, SentinelWritten DEF RecheckDone
    <3> QED BY <1>j, <1>2, <1>3, <3>1
  <2> QED BY <2>1, <2>2
<1>4. ASSUME stage' = "done", job.flow = "v1", FirstPassKnown'
      PROVE  Outstanding(mem', RecheckRequests(mem')) = {} \/ Lost(mem')
  <2>1. CASE stage = "done"
    <3>1. mem' = mem
      BY <1>j, <2>1 DEF Inv, PoolAtWork
    <3> QED BY <1>j, <1>4, <2>1, <3>1 DEF SentinelInv
  <2>2. CASE stage # "done" /\ V2Done
    BY <1>4, <2>2 DEF V2Done, StageInv
  <2>3. CASE stage # "done" /\ RecheckDone
    <3>1. stage = "recheck" /\ Drained /\ mem' = mem
      BY <2>3 DEF RecheckDone
    <3>2. Pending = {} \/ Lost(mem)
      BY <3>1 DEF Drained, StageInv
    <3> QED BY <1>j, <1>2, <1>4, <3>1, <3>2
  <2> QED BY <1>4, <2>1, <2>2, <2>3, EndOfRun
<1> QED
  <2>1. /\ scoreDone' => Outstanding(mem', ScoreRequests(mem)') = {} /\ OpenDates(mem)' = {}
        /\ recheckDone' /\ FirstPassKnown' =>
              ~Incomplete(mem)' /\ Outstanding(mem', RecheckRequests(mem)') = {}
        /\ stage' = "done" /\ job'.flow = "v1" /\ FirstPassKnown' =>
              Outstanding(mem', RecheckRequests(mem)') = {} \/ Lost(mem)'
    BY <1>j, <1>1, <1>3, <1>4, JobStays
  <2> QED BY <2>1 DEF SentinelInv, Outstanding, HasAttempts, Closed

\* Everything about finished stages holds at first.
LEMMA DoneInit == Init => DoneInv
<1> SUFFICES ASSUME Init PROVE DoneInv
  OBVIOUS
<1>1. Inv
  BY InitInv
<1>2. \A k \in Keys : ~InPool(k)
  BY KeysAreRequests DEF Init, InPool
<1> QED
  BY <1>1, <1>2 DEF Init, DoneInv, StopTypes, GapUnasked, StageInv, SentinelInv

\* What memory says of a finished stage, the file says too.
LEMMA FileSaysSo == DoneInv => FinishedMeansDone
<1> SUFFICES ASSUME DoneInv PROVE FinishedMeansDone
  OBVIOUS
<1>0. Inv /\ SentinelInv
  BY DEF DoneInv
<1>1. Spent(mem, disk)
  BY <1>0, MirrorSpends DEF Inv, Spent
<1>2. ScoreDoneIsFinal
  BY <1>0, <1>1, ScoreStays DEF SentinelInv, ScoreDoneIsFinal
<1>3. RecheckDoneIsFinal
  <2> SUFFICES ASSUME recheckDone, FirstPassKnown
               PROVE  ~Incomplete(disk) /\ Outstanding(disk, RecheckRequests(disk)) = {}
    BY DEF RecheckDoneIsFinal
  <2>1. RecheckRequests(disk) = RecheckRequests(mem) /\ Incomplete(disk) = Incomplete(mem)
    BY <1>0, KnownLabels
  <2>2. ~Incomplete(mem) /\ Outstanding(mem, RecheckRequests(mem)) = {}
    BY <1>0 DEF SentinelInv
  <2> QED BY <1>1, <2>1, <2>2, RecheckStays
<1>4. RecheckedTheInterval
  <2> SUFFICES ASSUME stage = "done", job.flow = "v1", FirstPassKnown
               PROVE  \/ Outstanding(disk, RecheckRequests(disk)) = {}
                      \/ \E k \in RecheckRequests(disk) : Has(mem, k, {"image_missing"})
    BY DEF RecheckedTheInterval
  <2>1. RecheckRequests(disk) = RecheckRequests(mem)
    BY <1>0, KnownLabels
  <2>2. Outstanding(mem, RecheckRequests(mem)) = {} \/ Lost(mem)
    BY <1>0 DEF SentinelInv
  <2> QED BY <1>1, <2>1, <2>2, RecheckStays DEF Lost
<1> QED
  BY <1>2, <1>3, <1>4 DEF FinishedMeansDone

\* SCORE_DONE is only there once no date is open in any arm, and stays true,
\* whatever failed appends leave in the file and whichever PNGs are lost.  As
\* long as no append that raised has left a first-pass row, RECHECK_DONE says
\* that the interval is rechecked, and so does a run that calls itself
\* finished, unless its drain gave up over a recheck whose PNG was lost.
THEOREM FinishedStaysDone == Spec => []FinishedMeansDone
<1>1. Init => DoneInv
  BY DoneInit
<1>2. DoneInv /\ [Next]_vars => DoneInv'
  BY InvStep, StopStep, GapStep, StageStep, SentinelStep DEF DoneInv
<1>3. DoneInv => FinishedMeansDone
  BY FileSaysSo
<1> QED
  BY <1>1, <1>2, <1>3, PTL DEF Spec

=============================================================================

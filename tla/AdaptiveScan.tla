---------------------------- MODULE AdaptiveScan ----------------------------
(***************************************************************************)
(* The scan of one anchor: scripts/temporal/scan_decision.py decides the   *)
(* next round from the rounds so far, run_one_anchor in                    *)
(* scripts/temporal/run_adaptive_scan.py scores it and checkpoints the     *)
(* state after every round (scan_state.py), and main's handle turns an     *)
(* exception into a terminal state or leaves the anchor to be resumed.     *)
(*                                                                         *)
(* A date is a number; a vintage is its date (merge_provider_catalogs      *)
(* keeps one entry per date).  Dates below Census are evidence, dates      *)
(* above it calibration references.  What a chip shows is one of four      *)
(* verdicts; "failed" is a row with a decision_source the scorer declares  *)
(* a failure: a failed download, a missing observation, gemini_failed.     *)
(***************************************************************************)
EXTENDS Integers, FiniteSets, Sequences

CONSTANTS
    Dates,              \* all capture dates, positive numbers
    Census,             \* census_mid_date
    YearOf,             \* the year of a date
    Catalogs,           \* what resolving the catalog may return
    Redrawn,            \* the catalogs that a later run may find changed
    FloorYear,          \* round_1_floor_year
    WalkBackYears,      \* walk_back_years
    PicksPerRound,      \* picks_per_round
    TailThreshold,      \* tail_round_threshold
    FailurePct,         \* case_e_failure_pct
    ReferenceSlots,     \* initial_reference_slots
    MaxRecovery,        \* max_anchor_recovery_rounds
    MaxIter,            \* run_one_anchor's max_iter
    MaxInterrupts       \* bound: crashes, quota stops and forced restarts

ASSUME ScanAssumption ==
    /\ Dates \subseteq Nat \ {0} /\ IsFiniteSet(Dates) /\ Census \in Nat
    /\ YearOf \in [Dates -> Nat] /\ Catalogs \subseteq SUBSET Dates
    /\ Redrawn \subseteq Catalogs /\ FailurePct \in Nat
    /\ PicksPerRound \in Nat \ {0} /\ TailThreshold \in Nat
    /\ FloorYear \in Nat /\ WalkBackYears \in Nat /\ ReferenceSlots \in Nat
    /\ MaxRecovery \in Nat /\ MaxIter \in Nat /\ MaxInterrupts \in Nat

VARIABLES
    catalog,    \* the vintages this run plans from
    pc,         \* where run_one_anchor is for this anchor
    iter,       \* rounds this run has gone through its loop
    state,      \* the ScanState in memory
    saved,      \* the scan_state file
    interrupts, \* crashes, quota stops and forced restarts so far
    drifted     \* the catalog changed between two rounds of this scan (history)

vars == <<catalog, pc, iter, state, saved, interrupts, drifted>>

Verdicts == {"present", "absent", "unusable", "failed"}
RoundTypes == {"initial", "walk_back", "bisection", "tail", "anchor_recovery"}
AlreadyPresent == "done_already_present_before_geid_history"
OrchestratorError == "done_ambiguous_orchestrator_error"
Terminal == {"done_appears", "done_installed_during_census", AlreadyPresent,
             "done_ambiguous_nonmonotonic", "done_ambiguous_gemini_failed",
             "done_ambiguous_no_recent_anchor", OrchestratorError}

NoFile == [status |-> "none", rounds |-> <<>>]
NewState == [status |-> "scanning", rounds |-> <<>>]

Newest(S) == CHOOSE d \in S : \A e \in S : e <= d
Oldest(S) == CHOOSE d \in S : \A e \in S : d <= e

-----------------------------------------------------------------------------
(* What the rounds so far say.                                             *)

Results(rs) == UNION {rs[i].results : i \in DOMAIN rs}
Picks(rs) == UNION {rs[i].picks : i \in DOMAIN rs}
Scored(rs) == {r.date : r \in Results(rs)}

\* Only results before the census count.
Evidence(rs) == {r \in Results(rs) : r.date < Census}
Of(rs, v) == {r.date : r \in {x \in Evidence(rs) : x.verdict = v}}
Present(rs) == Of(rs, "present")
Absent(rs) == Of(rs, "absent")

\* failure_pct(...) > case_e_failure_pct
TooManyFailures(rs) ==
    100 * Cardinality(Of(rs, "failed")) > FailurePct * Cardinality(Evidence(rs))

IsNonmonotonic(rs) == \E p \in Present(rs), a \in Absent(rs) : p < a

CountType(rs, t) == Cardinality({i \in DOMAIN rs : rs[i].type = t})

EvidenceVintages == {v \in catalog : v < Census}
\* Mutant: what was scored before is not left out.
Unscored_All(rs) == EvidenceVintages

Unscored(rs) == EvidenceVintages \ Scored(rs)

-----------------------------------------------------------------------------
(* The planners.                                                           *)

\* Python's round(a / b): to the nearest, halves to even.
RoundDiv(a, b) ==
    LET q == a \div b
        r == a % b
    IN  IF 2 * r > b \/ (2 * r = b /\ q % 2 = 1) THEN q + 1 ELSE q

\* The positions select_evenly_spaced_picks takes out of n vintages.
EvenIndices(n) ==
    {0, n - 1} \cup {RoundDiv(i * (n - 1), PicksPerRound - 1) :
                        i \in 1..(PicksPerRound - 2)}

EvenlySpaced(S) ==
    IF Cardinality(S) <= PicksPerRound THEN S
    ELSE {d \in S : Cardinality({e \in S : e < d}) \in EvenIndices(Cardinality(S))}

Execute(type, start, picks) ==
    [kind |-> "execute", type |-> type, start |-> start, picks |-> picks]
End(status) == [kind |-> "terminate", status |-> status]
Raise == [kind |-> "raise"]

\* The newest post-census frames join the initial round as references.
References ==
    LET post == {v \in catalog : v > Census}
    IN  {d \in post : Cardinality({e \in post : e > d}) < ReferenceSlots}

InitialRound ==
    LET recent == {v \in EvidenceVintages : YearOf[v] >= FloorYear}
        picks  == EvenlySpaced(IF recent # {} THEN recent ELSE EvidenceVintages)
    IN  IF catalog = {} THEN Raise
        ELSE IF EvidenceVintages = {} THEN Execute("initial", 0, {})
        ELSE Execute("initial", Oldest(picks), picks \cup References)

AnchorRecovery(rs) ==
    IF CountType(rs, "anchor_recovery") >= MaxRecovery \/ Unscored(rs) = {}
    THEN End("done_ambiguous_no_recent_anchor")
    ELSE LET d == Newest(Unscored(rs))
         IN  Execute("anchor_recovery", d, {d})

\* The open interval between the last absent and the first present frame.
Inside(rs) == {v \in Unscored(rs) :
                  Newest(Absent(rs)) < v /\ v < Oldest(Present(rs))}

\* Mutant: an interval with a single frame inside is taken for tight.
Bisection_SkipsOne(rs) ==
    IF CountType(rs, "bisection") > 0 \/ Cardinality(Inside(rs)) <= 1
    THEN End("done_appears")
    ELSE Execute("bisection", Newest(Absent(rs)), Inside(rs))

\* Mutant: an empty interval is bisected too.
Bisection_Empty(rs) ==
    IF CountType(rs, "bisection") > 0 THEN End("done_appears")
    ELSE Execute("bisection", Newest(Absent(rs)), Inside(rs))

Bisection(rs) ==
    IF CountType(rs, "bisection") > 0 \/ Inside(rs) = {}
    THEN End("done_appears")
    ELSE Execute("bisection", Newest(Absent(rs)), Inside(rs))

\* Mutant: the newest frame scored stands for the newest available one.
AllAbsent_NewestScored(rs) ==
    IF Absent(rs) # {} THEN End("done_installed_during_census")
    ELSE AnchorRecovery(rs)

\* _decide_all_absent; max() of an empty catalog raises.
AllAbsent(rs) ==
    IF EvidenceVintages = {} THEN Raise
    ELSE IF Newest(EvidenceVintages) \in Absent(rs)
    THEN End("done_installed_during_census")
    ELSE AnchorRecovery(rs)

LastRound(rs) == rs[Len(rs)]

\* Mutant: only the next walk-back window is looked at.
Older_NextWindow(rs) ==
    {v \in Unscored(rs) :
        /\ v < LastRound(rs).start
        /\ YearOf[v] >= YearOf[LastRound(rs).start] - WalkBackYears}

Older(rs) == {v \in Unscored(rs) : v < LastRound(rs).start}
InWindow(rs) == {v \in Older(rs) :
                    YearOf[v] >= YearOf[LastRound(rs).start] - WalkBackYears}

\* _decide_all_present: walk back a few years at a time, or sweep the tail.
AllPresent(rs) ==
    LET picks == EvenlySpaced(InWindow(rs))
    IN  IF LastRound(rs).type = "tail" \/ LastRound(rs).start = 0
           \/ Older(rs) = {}
        THEN End(AlreadyPresent)
        ELSE IF Cardinality(InWindow(rs)) < TailThreshold \/ InWindow(rs) = {}
        THEN Execute("tail", Oldest(Older(rs)), Older(rs))
        ELSE Execute("walk_back", Oldest(picks), picks)

\* decide_next_action on a scanning state: the first case that applies.
Decide(rs) ==
    IF rs = <<>> THEN InitialRound
    ELSE IF TooManyFailures(rs) THEN End("done_ambiguous_gemini_failed")
    ELSE IF Present(rs) \cup Absent(rs) = {} THEN AnchorRecovery(rs)
    ELSE IF IsNonmonotonic(rs) THEN End("done_ambiguous_nonmonotonic")
    ELSE IF Present(rs) # {} /\ Absent(rs) # {} THEN Bisection(rs)
    ELSE IF Present(rs) = {} THEN AllAbsent(rs)
    ELSE AllPresent(rs)

-----------------------------------------------------------------------------
(* run_one_anchor and handle.                                              *)

Init ==
    /\ catalog \in Catalogs
    /\ pc = "idle" /\ iter = 0
    /\ state = NoFile /\ saved = NoFile
    /\ interrupts = 0 /\ drifted = FALSE

\* Load the checkpoint, or create and save a fresh one.
Begin ==
    /\ pc = "idle"
    /\ saved.status \notin Terminal
    /\ state' = IF saved = NoFile THEN NewState ELSE saved
    /\ saved' = state'
    /\ pc' = "resolve"
    /\ iter' = 0
    /\ UNCHANGED <<catalog, interrupts, drifted>>

\* --force-restart deletes the checkpoint first, terminal or not.
ForceRestart ==
    /\ pc = "idle"
    /\ saved # NoFile
    /\ interrupts < MaxInterrupts
    /\ interrupts' = interrupts + 1
    /\ state' = NewState
    /\ saved' = NewState
    /\ pc' = "resolve"
    /\ iter' = 0 /\ drifted' = FALSE
    /\ UNCHANGED catalog

\* _fetch_real_vintage_catalog, on every run; the census and the cutoff it
\* resolves are saved before the first decision.
ResolveCatalog ==
    /\ pc = "resolve"
    /\ IF catalog \in Redrawn THEN catalog' \in Redrawn ELSE UNCHANGED catalog
    /\ drifted' = (drifted \/ (catalog' # catalog /\ state.rounds # <<>>))
    /\ saved' = state
    /\ pc' = "loop"
    /\ UNCHANGED <<iter, state, interrupts>>

\* Mutant: the terminal state is not saved.
Terminate_Unsaved ==
    /\ pc = "loop" /\ iter < MaxIter
    /\ LET action == Decide(state.rounds)
       IN  /\ action.kind = "terminate"
           /\ state' = [state EXCEPT !.status = action.status]
    /\ pc' = "idle"
    /\ UNCHANGED <<catalog, iter, saved, interrupts, drifted>>

\* A TerminateAction is saved and run_one_anchor returns.
Terminate ==
    /\ pc = "loop" /\ iter < MaxIter
    /\ LET action == Decide(state.rounds)
       IN  /\ action.kind = "terminate"
           /\ state' = [state EXCEPT !.status = action.status]
    /\ saved' = state'
    /\ pc' = "idle"
    /\ UNCHANGED <<catalog, iter, interrupts, drifted>>

\* execute_round_real: every pick gets a result, whatever went wrong with it.
ExecuteRound ==
    /\ pc = "loop" /\ iter < MaxIter
    /\ LET action == Decide(state.rounds)
       IN  /\ action.kind = "execute"
           /\ \E verdict \in [action.picks -> Verdicts] :
                 state' = [state EXCEPT !.rounds = Append(@,
                    [type |-> action.type, start |-> action.start,
                     picks |-> action.picks,
                     results |-> {[date |-> d, verdict |-> verdict[d]] :
                                     d \in action.picks}])]
    /\ pc' = "unsaved"
    /\ UNCHANGED <<catalog, iter, saved, interrupts, drifted>>

\* save_scan_state after the round.
SaveRound ==
    /\ pc = "unsaved"
    /\ saved' = state
    /\ iter' = iter + 1
    /\ pc' = "loop"
    /\ UNCHANGED <<catalog, state, interrupts, drifted>>

\* A QuotaControlError or ModelIdentityError while scoring: re-raised, the
\* checkpoint stays as it is.
FailClosed ==
    /\ pc = "loop" /\ iter < MaxIter
    /\ Decide(state.rounds).kind = "execute"
    /\ interrupts < MaxInterrupts
    /\ interrupts' = interrupts + 1
    /\ pc' = "idle"
    /\ UNCHANGED <<catalog, iter, state, saved, drifted>>

\* Mutant: the failure is recorded in a fresh state.
OrchestratorFailure_Fresh ==
    /\ \/ pc \in {"resolve", "unsaved"}
       \/ pc = "loop" /\ Decide(state.rounds).kind \in {"raise", "execute"}
       \/ pc = "loop" /\ iter >= MaxIter
    /\ saved' = [NewState EXCEPT !.status = OrchestratorError]
    /\ pc' = "idle"
    /\ UNCHANGED <<catalog, iter, state, interrupts, drifted>>

\* Any other exception: _record_orchestrator_failure reloads the checkpoint,
\* without the round in memory, and makes it terminal.
OrchestratorFailure ==
    /\ \/ pc \in {"resolve", "unsaved"}
       \/ pc = "loop" /\ Decide(state.rounds).kind \in {"raise", "execute"}
       \/ pc = "loop" /\ iter >= MaxIter
    /\ saved' = [saved EXCEPT !.status = OrchestratorError]
    /\ pc' = "idle"
    /\ UNCHANGED <<catalog, iter, state, interrupts, drifted>>

\* The process dies; what was not saved is gone.
Crash ==
    /\ pc # "idle"
    /\ interrupts < MaxInterrupts
    /\ interrupts' = interrupts + 1
    /\ pc' = "idle"
    /\ UNCHANGED <<catalog, iter, state, saved, drifted>>

Next ==
    \/ Begin \/ ForceRestart \/ ResolveCatalog
    \/ Terminate \/ ExecuteRound \/ SaveRound
    \/ FailClosed \/ OrchestratorFailure \/ Crash

Spec == Init /\ [][Next]_vars

\* The operator resumes the run, and a running anchor gets processor time.
FairSpec ==
    /\ Spec
    /\ WF_vars(Begin)
    /\ WF_vars(ResolveCatalog \/ Terminate \/ ExecuteRound \/ SaveRound
               \/ OrchestratorFailure)

-----------------------------------------------------------------------------
(* Properties.                                                             *)

Years(S) == {YearOf[d] : d \in S}
Rounds == Seq([type : RoundTypes, start : Dates \cup {0}, picks : SUBSET Dates,
               results : SUBSET [date : Dates, verdict : Verdicts]])
Statuses == Terminal \cup {"scanning", "none"}

\* Every variable has its type.
TypeOK ==
    /\ catalog \in Catalogs
    /\ pc \in {"idle", "resolve", "loop", "unsaved"} /\ iter \in 0..MaxIter
    /\ state.status \in Statuses /\ saved.status \in Statuses
    /\ state.rounds \in Rounds /\ saved.rounds \in Rounds
    /\ interrupts \in 0..MaxInterrupts /\ drifted \in BOOLEAN

\* No capture date is paid for twice by one checkpoint, whatever was resumed.
EachDateScoredOnce ==
    \A i, j \in DOMAIN saved.rounds :
        i # j => saved.rounds[i].picks \cap saved.rounds[j].picks = {}

\* done_appears reports the interval from the last absent to the first present
\* frame: there is one, and no vintage inside it was left unscored, unless the
\* catalog changed under the scan.
AppearsIsTight ==
    saved.status = "done_appears" /\ ~drifted =>
        LET rs == saved.rounds
        IN  /\ Present(rs) # {} /\ Absent(rs) # {}
            /\ Newest(Absent(rs)) < Oldest(Present(rs))
            /\ \A v \in EvidenceVintages :
                  Newest(Absent(rs)) < v /\ v < Oldest(Present(rs))
                      => v \in Scored(rs)

\* done_installed_during_census is only said when the newest pre-census frame
\* was seen without panels, and none was ever seen with them.
InstalledDuringCensusIsSeen ==
    saved.status = "done_installed_during_census" =>
        /\ Present(saved.rounds) = {}
        /\ Newest(EvidenceVintages) \in Absent(saved.rounds)

\* done_already_present... is only said when the walk back reached the oldest
\* frame of the history (of a catalog that stayed) and no frame was seen
\* without panels.
AlreadyPresentReachesOldest ==
    saved.status = AlreadyPresent /\ ~drifted =>
        /\ Absent(saved.rounds) = {} /\ Present(saved.rounds) # {}
        /\ Oldest(EvidenceVintages) \in Scored(saved.rounds)

\* What a terminal status claims of the roof's history is what frames showed,
\* in whatever order rounds, restarts and catalogs came.
TerminalIsBacked ==
    /\ AppearsIsTight
    /\ InstalledDuringCensusIsSeen
    /\ AlreadyPresentReachesOldest

\* A run goes through its loop at most once for every year of the catalog and
\* MaxRecovery + 2 times more, and every round after the first scores something
\* new.
RoundsFewerThanYears ==
    /\ pc = "loop" => iter <= Cardinality(Years(EvidenceVintages)) + MaxRecovery + 2
    /\ \A i \in DOMAIN saved.rounds : i > 1 => saved.rounds[i].picks # {}

\* Every round is progress: it pays for frames no round paid for before, and
\* some of them, and the years of imagery bound the rounds of a run, so that
\* max_iter stops no scan of a catalog with fewer years than that.
EveryRoundIsNew == EachDateScoredOnce /\ RoundsFewerThanYears

\* Short of a forced restart the file only grows: rounds are appended, never
\* dropped or rewritten, and a terminal state is final.
CheckpointOnlyGrows ==
    [][\/ saved' = saved
       \/ saved' = NewState /\ (saved = NoFile \/ interrupts' > interrupts)
       \/ /\ saved.status \notin Terminal
          /\ Len(saved'.rounds) >= Len(saved.rounds)
          /\ SubSeq(saved'.rounds, 1, Len(saved.rounds)) = saved.rounds]_vars

\* A resumed scan reaches a terminal state.
ScanEnds == <>[](saved.status \in Terminal)

=============================================================================

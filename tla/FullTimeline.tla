---------------------------- MODULE FullTimeline ----------------------------
(***************************************************************************)
(* The full-timeline reference run of one roof                             *)
(* (scripts/temporal/run_reference_fulltimeline_scan.py): preflight,       *)
(* technical check, scoring and rechecks, each draining a list of requests *)
(* through a pool of workers into one append-only raw log; quota pauses,   *)
(* foreign model versions, failed log writes, process deaths and resumes.  *)
(*                                                                         *)
(* The log is kept per request: what its rows are read for is the answer   *)
(* or non-call that closed it, or the number of failed attempts and the    *)
(* newest failure.  A row is its call_status, an answered row its verdict. *)
(* The runner lock makes one process at a time.                            *)
(***************************************************************************)
EXTENDS Timeline

CONSTANTS
    Dates,          \* the capture dates of the roof
    TechDates,      \* the dates select_techcheck picks
    Jobs,           \* the frozen plans and imageries a run may be given
    Verdicts,       \* what a gateway answer may say of a candidate
    Workers,        \* the threads of the pool
    Limit,          \* ATTEMPT_LIMIT
    MaxConflict,    \* MAX_CONFLICT_RECHECKS
    WriteFaults     \* what a failed append may leave in the file

ASSUME FullTimelineAssumption ==
    /\ IsFiniteSet(Dates) /\ Dates \subseteq Nat \ {0} /\ TechDates \subseteq Dates
    /\ Verdicts \subseteq {"present", "absent", "unknown"}
    /\ Limit \in Nat \ {0}
    /\ MaxConflict \in Nat
    /\ WriteFaults \subseteq {"nothing", "torn", "whole"}
    /\ Jobs \subseteq [flow : {"v1", "v2"}, paired : BOOLEAN,
                       white : SUBSET Dates, gaps : SUBSET Dates,
                       missing : SUBSET Dates, chunk : Nat \ {0},
                       maxFaults : Nat]

VARIABLES
    job,        \* the flow, whether T2 is asked too, the white frames, the
                \* dates without imagery, the dates whose PNG is missing from
                \* the start, max(SCORE_CHUNK, in_flight); bound: pauses, budget stops, deaths, failed
                \* writes, lost PNGs and runs of a single stage
    missing,    \* the dates whose PNG is not there
    disk,       \* raw.jsonl
    torn,       \* raw.jsonl holds a line that does not parse
    mem,        \* RawLog.rows
    hidden,     \* history: rows of a request that an append which raised left
                \* in raw.jsonl, after RawLog had dropped them
    stage,      \* where the main thread is
    command,    \* --stage
    running,    \* inside run_many
    todo,       \* requests of the chunk no worker took yet
    calling,    \* the request each worker is calling the model for
    stops,      \* pause_reason, budget_reason, mismatch: what set stop
    failure,    \* a worker's exception: none, unseen, raised
    broken,     \* as_completed was left because stop was set
    progress,   \* the drain goes on: new requests, or a pause was slept out
    admitted,   \* MODEL_VERSION.json
    frozen,     \* PARAMS_FROZEN.json
    scoreDone,  \* SCORE_DONE.json
    recheckDone,\* RECHECK_DONE.json
    faults      \* so far, of job.maxFaults

files == <<disk, torn, hidden, missing, admitted, frozen, scoreDone, recheckDone>>
pool == <<todo, calling, stops, failure, broken>>
vars == <<job, files, mem, stage, command, running, pool, progress, faults>>

-----------------------------------------------------------------------------
(* Requests and rows.                                                      *)

Request(arm, d, st) == [arm |-> arm, date |-> d, stage |-> st]
T3(d) == Request("t3", d, "first_pass")
T2(d) == Request("t2", d, "first_pass")
Recheck(d, st) == Request("t3", d, st)
Preflight == Request("preflight", 0, "preflight")
Satellite == Request("reference_satellite", 0, "reference_check")

Keys == {T3(d) : d \in Dates} \cup {T2(d) : d \in Dates}
        \cup {Recheck(d, st) : d \in Dates,
                               st \in {"boundary_recheck", "conflict_recheck"}}
        \cup {Preflight, Satellite}

Answers == {"present", "absent", "unknown", "accept", "reject"}
NonCalls == {"not_sent", "image_missing", "pixel_uninformative"}
Failed == {"call_failed", "truncated", "model_version_mismatch"}
Closings == Answers \cup NonCalls
Rows == Closings \cup Failed
None == [arm |-> "none"]

\* What posting a request may bring: transport_failed and invalid_response
\* are both call_failed.
Outcomes(k) ==
    {"call_failed", "model_version_mismatch"} \cup
    CASE k = Preflight -> {"accept"}
      [] k = Satellite -> {"accept", "reject"}
      [] OTHER -> Verdicts \cup {"truncated"}

\* What the rows of a request amount to: the newest status, and the failed
\* attempts as long as nothing closed it.
NoRows == [last |-> "missing", fails |-> 0]
Has(log, k, S) == log[k].last \in S
Closed(log, k) == log[k].last \in Closings

\* Mutant: an attempt that was cut short by the token cap is not counted.
Committed_Truncated(log, k, row) ==
    IF Closed(log, k) THEN log
    ELSE [log EXCEPT ![k] = [last |-> row,
            fails |-> IF row \in Closings THEN 0
                      ELSE IF row = "truncated" THEN @.fails ELSE @.fails + 1]]

\* commit_raw_record: what the rows are after a record was committed.  A
\* request that is closed keeps what closed it.
Committed(log, k, row) ==
    IF Closed(log, k) THEN log
    ELSE [log EXCEPT ![k] = [last |-> row,
            fails |-> IF row \in Closings THEN 0 ELSE @.fails + 1]]

\* remaining_attempts(...) > 0
HasAttempts(log, k) == ~Closed(log, k) /\ log[k].fails < Limit

Outstanding(log, requests) == {k \in requests : HasAttempts(log, k)}

\* _latest_status = "truncated"
Truncated(log, requests) == {k \in requests : log[k].last = "truncated"}

-----------------------------------------------------------------------------
(* The requests of each stage.                                             *)

Arms(d) == IF job.paired THEN {T3(d), T2(d)} ELSE {T3(d)}

\* plan_model_requests over the manifest: a T3 request needs a satellite
\* reference, and the reference check may have rejected it.
Planned(log, k) ==
    /\ k.date \notin job.gaps \cup job.white
    /\ k.arm = "t3" => ~(job.flow = "v1" /\ Has(log, Satellite, {"reject"}))

TechRequests(log) ==
    {k \in UNION {{T3(d), T2(d)} : d \in TechDates} : Planned(log, k)}
ScoreRequests(log) == {k \in UNION {Arms(d) : d \in Dates} : Planned(log, k)}

\* Mutant: the manifest looks at the T3 rows only.
ManifestOpen_T3(log, d) == d \notin job.gaps /\ HasAttempts(log, T3(d))

\* _candidate_terminal: the manifest row of this date is still pending.
ManifestOpen(log, d) ==
    d \notin job.gaps /\ \E k \in Arms(d) : HasAttempts(log, k)

\* timeline_observations after apply_manifest_gap_states.
Observations(log) ==
    [d \in Dates |->
        IF Has(log, T3(d), Answers) THEN log[T3(d)].last
        ELSE IF ManifestOpen(log, d) THEN "open"
        ELSE IF d \in job.gaps \/ Has(log, T3(d), NonCalls) THEN "gap"
        ELSE "call_failed"]

Incomplete(log) == LabelDates(Observations(log), "open") # {}

\* The requests _recheck plans; a date without candidate bytes has none.
RecheckRequests(log) ==
    LET interval == InferInterval(Observations(log), "unknown")
        st == IF interval.status = "conflict_pending_review"
              THEN "conflict_recheck" ELSE "boundary_recheck"
    IN  {Recheck(d, st) : d \in PlanRechecks(interval, MaxConflict)}

\* v2's t3_status_for_rows is "" for some date.
OpenDates(log) == {d \in Dates \ job.gaps : HasAttempts(log, T3(d))}

Requests(log) ==
    CASE stage = "refs_tech" \/ stage = "refs" -> {Satellite}
      [] stage = "tech" \/ stage = "tech_raised" -> TechRequests(log)
      [] stage = "score" \/ stage = "v2" -> ScoreRequests(log)
      [] stage = "recheck" /\ ~(recheckDone /\ scoreDone) -> RecheckRequests(log)
      [] OTHER -> {}

Pending == Outstanding(mem, Requests(mem))

-----------------------------------------------------------------------------

Init ==
    /\ job \in Jobs
    /\ disk = [k \in Keys |-> NoRows] /\ mem = disk /\ torn = FALSE
    /\ hidden = [k \in Keys |-> 0] /\ missing = job.missing
    /\ stage = "down" /\ command = "all" /\ running = FALSE
    /\ todo = {} /\ calling = [w \in Workers |-> None]
    /\ stops = {} /\ failure = "none" /\ broken = FALSE /\ progress = TRUE
    /\ admitted = FALSE /\ frozen = FALSE
    /\ scoreDone = FALSE /\ recheckDone = FALSE
    /\ faults = 0

Fault == faults < job.maxFaults /\ faults' = faults + 1

\* The process is gone, its memory with it.
Exit ==
    /\ stage' = "down" /\ running' = FALSE
    /\ todo' = {} /\ calling' = [w \in Workers |-> None]
    /\ stops' = {} /\ failure' = "none" /\ broken' = FALSE /\ progress' = TRUE

GoTo(s) == stage' = s /\ running' = FALSE /\ progress' = TRUE

\* Mutant: the rows of an earlier process are not loaded.
Load_Fresh(c) ==
    /\ stage = "down" /\ ~torn
    /\ c # "all" => job.flow = "v1"
    /\ mem' = [k \in Keys |-> NoRows] /\ command' = c
    /\ GoTo("preflight")
    /\ UNCHANGED <<job, files, pool>>

\* Main takes the lock and RawLog loads the file, or refuses it.
Load(c) ==
    /\ stage = "down" /\ ~torn
    /\ c # "all" => job.flow = "v1"
    /\ mem' = disk /\ command' = c
    /\ GoTo("preflight")
    /\ UNCHANGED <<job, files, pool>>

Start == Load("all") /\ UNCHANGED faults
StartOneStage == \E c \in {"score", "recheck"} : Load(c) /\ Fault

\* _preflight: one request of its own, unless a version was admitted before
\* or its attempts are used up.
CallPreflight ==
    /\ stage = "preflight" /\ ~admitted
    /\ HasAttempts(mem, Preflight)
    /\ \/ \E row \in Outcomes(Preflight) :
             /\ mem' = Committed(mem, Preflight, row)
             /\ disk' = Committed(disk, Preflight, row)
             /\ UNCHANGED faults
       \/ Fault /\ UNCHANGED <<mem, disk>>      \* paused
    /\ stage' = "judge"
    /\ UNCHANGED <<job, torn, hidden, missing, admitted, frozen, scoreDone,
                   recheckDone, command, running, pool, progress>>

FirstStage ==
    IF job.flow = "v2" THEN "noncalls"
    ELSE IF ~frozen THEN "refs_tech"
    ELSE IF command = "recheck" THEN "recheck" ELSE "refs"

\* The newest preflight row decides; it may be one of an earlier process.
JudgePreflight ==
    /\ \/ stage = "judge"
       \/ stage = "preflight" /\ (admitted \/ ~HasAttempts(mem, Preflight))
    /\ IF admitted \/ Has(mem, Preflight, {"accept"})
       THEN admitted' = TRUE /\ GoTo(FirstStage) /\ UNCHANGED pool
       ELSE Exit /\ UNCHANGED admitted
    /\ UNCHANGED <<job, disk, torn, hidden, missing, frozen, scoreDone,
                   recheckDone, mem, command, faults>>

\* _run_v2 commits the non-calls one by one; those of an earlier process are
\* skipped.
CommitNonCall ==
    /\ stage = "noncalls"
    /\ \E d \in job.white :
          /\ ~Has(mem, T3(d), NonCalls)
          /\ mem' = Committed(mem, T3(d), "pixel_uninformative")
          /\ disk' = Committed(disk, T3(d), "pixel_uninformative")
    /\ UNCHANGED <<job, torn, hidden, missing, admitted, frozen, scoreDone,
                   recheckDone, stage, command, running, pool, progress, faults>>

NonCallsDone ==
    /\ stage = "noncalls"
    /\ \A d \in job.white : Has(mem, T3(d), NonCalls)
    /\ GoTo("v2")
    /\ UNCHANGED <<job, files, mem, command, pool, faults>>

-----------------------------------------------------------------------------
(* _drain, run_many and issue.                                             *)

Rank(k) == 2 * k.date + (IF k.arm = "t2" THEN 1 ELSE 0)
Chunk == {k \in Pending :
             Cardinality({j \in Pending : Rank(j) < Rank(k)}) < job.chunk}

BeginChunk ==
    /\ ~running /\ progress /\ Pending # {}
    /\ running' = TRUE /\ progress' = FALSE
    /\ todo' = Chunk
    /\ UNCHANGED <<job, files, mem, stage, command, calling, stops, failure,
                   broken, faults>>

\* RawLog.commit: append and fsync, or roll the memory back and raise.  What
\* raised may be the fsync: then the whole line stays in the file.
Record(k, row) ==
    \/ /\ mem' = Committed(mem, k, row)
       /\ disk' = Committed(disk, k, row)
       /\ UNCHANGED <<torn, hidden, failure, faults>>
    \/ /\ Fault
       /\ \E left \in WriteFaults :
             /\ disk' = IF left = "whole" THEN Committed(disk, k, row) ELSE disk
             /\ hidden' = IF left = "whole" THEN [hidden EXCEPT ![k] = @ + 1] ELSE hidden
             /\ torn' = (torn \/ left = "torn")
       /\ failure' = IF failure = "raised" THEN "raised" ELSE "unseen"
       /\ UNCHANGED mem

\* The first request of the chunk no worker has taken.
NextRequest(k) == k \in todo /\ \A j \in todo : Rank(k) <= Rank(j)

\* issue: a declared image that is not there is recorded, never sent.
IssueMissing(w, k) ==
    /\ NextRequest(k) /\ calling[w] = None /\ stops = {}
    /\ HasAttempts(mem, k) /\ k.date \in missing
    /\ Record(k, IF k.stage = "first_pass" THEN "not_sent" ELSE "image_missing")
    /\ todo' = todo \ {k}
    /\ UNCHANGED <<job, missing, admitted, frozen, scoreDone, recheckDone, stage,
                   command, running, calling, stops, broken, progress>>

\* Mutant: the request stays in the chunk while it is called.
Issue_Again(w, k) ==
    /\ NextRequest(k) /\ calling[w] = None /\ stops = {}
    /\ HasAttempts(mem, k) /\ k.date \notin missing
    /\ calling' = [calling EXCEPT ![w] = k]
    /\ \E t \in {todo, todo \ {k}} : todo' = t
    /\ UNCHANGED <<job, files, mem, stage, command, running, stops, failure,
                   broken, progress, faults>>

\* issue: the request goes out.
Issue(w, k) ==
    /\ NextRequest(k) /\ calling[w] = None /\ stops = {}
    /\ HasAttempts(mem, k) /\ k.date \notin missing
    /\ calling' = [calling EXCEPT ![w] = k]
    /\ todo' = todo \ {k}
    /\ UNCHANGED <<job, files, mem, stage, command, running, stops, failure,
                   broken, progress, faults>>

\* The breaker refuses the attempt or ends it: no row, and stop is set.
Paused(w) ==
    /\ calling[w] # None /\ Fault
    /\ calling' = [calling EXCEPT ![w] = None]
    /\ \E reason \in {"pause", "budget"} : stops' = stops \cup {reason}
    /\ UNCHANGED <<job, files, mem, stage, command, running, todo, failure,
                   broken, progress>>

\* The answer, or the failure, becomes a row.
Answered(w) ==
    /\ calling[w] # None
    /\ \E row \in Outcomes(calling[w]) :
          /\ Record(calling[w], row)
          /\ stops' = IF row = "model_version_mismatch"
                      THEN stops \cup {"mismatch"} ELSE stops
    /\ progress' = (progress \/ mem' # mem)
    /\ calling' = [calling EXCEPT ![w] = None]
    /\ UNCHANGED <<job, missing, admitted, frozen, scoreDone, recheckDone, stage,
                   command, running, todo, broken>>

\* as_completed yields a future that raised before the loop was left.
SeeFailure ==
    /\ failure = "unseen" /\ ~broken
    /\ failure' = "raised" /\ broken' = TRUE /\ todo' = {}
    /\ UNCHANGED <<job, files, mem, stage, command, running, calling, stops,
                   progress, faults>>

\* A completed future is seen with stop set: the rest is cancelled.
SeeStop ==
    /\ running /\ stops # {} /\ ~broken
    /\ broken' = TRUE /\ todo' = {}
    /\ UNCHANGED <<job, files, mem, stage, command, running, calling, stops,
                   failure, progress, faults>>

\* The pool is shut down; an exception, a spent budget or a foreign model
\* ends the process, a pause is slept out.
EndChunk ==
    /\ running /\ todo = {} /\ \A w \in Workers : calling[w] = None
    /\ (stops # {} \/ failure = "unseen") => broken
    /\ IF failure = "raised" \/ stops \cap {"budget", "mismatch"} # {}
       THEN Exit
       ELSE /\ running' = FALSE
            /\ progress' = (progress \/ "pause" \in stops)
            /\ stops' = {} /\ failure' = "none" /\ broken' = FALSE
            /\ UNCHANGED <<stage, todo, calling>>
    /\ UNCHANGED <<job, files, mem, command, faults>>

\* A drain ends with nothing pending, or without progress.
Drained == ~running /\ (Pending = {} \/ ~progress)

-----------------------------------------------------------------------------
(* The stages.                                                             *)

ReferencesDone ==
    /\ stage \in {"refs_tech", "refs"} /\ Drained
    /\ GoTo(IF stage = "refs" THEN "score" ELSE "tech")
    /\ UNCHANGED <<job, files, mem, command, pool, faults>>

\* Requests that were cut short are drained again under a higher cap.
RaiseCap ==
    /\ stage = "tech" /\ Drained
    /\ Truncated(mem, TechRequests(mem)) # {}
    /\ GoTo("tech_raised")
    /\ UNCHANGED <<job, files, mem, command, pool, faults>>

\* The parameters are frozen once, or the process refuses to go on.
Freeze ==
    /\ Drained
    /\ \/ stage = "tech_raised"
       \/ stage = "tech" /\ Truncated(mem, TechRequests(mem)) = {}
    /\ IF /\ Truncated(mem, TechRequests(mem)) = {}
          /\ \E d \in TechDates, k \in Keys :
                k \in {T3(d), T2(d)} /\ Has(mem, k, Answers)
       THEN /\ frozen' = TRUE /\ UNCHANGED pool
            /\ GoTo(IF command = "recheck" THEN "recheck" ELSE "refs")
       ELSE Exit /\ UNCHANGED frozen
    /\ UNCHANGED <<job, disk, torn, hidden, missing, admitted, scoreDone,
                   recheckDone, mem, command, faults>>

\* _score: SCORE_DONE once no manifest row is pending.
ScoreDone ==
    /\ stage = "score" /\ Drained
    /\ IF \E d \in Dates : ManifestOpen(mem, d)
       THEN Exit /\ UNCHANGED scoreDone
       ELSE /\ scoreDone' = TRUE
            /\ IF command = "score" THEN Exit
               ELSE GoTo("recheck") /\ UNCHANGED pool
    /\ UNCHANGED <<job, disk, torn, hidden, missing, admitted, frozen, recheckDone,
                   mem, command, faults>>

\* Mutant: the sentinel is written although the drain gave up.
RecheckDone_GivenUp ==
    /\ stage = "recheck" /\ Drained
    /\ recheckDone' = (recheckDone \/ ~Incomplete(mem))
    /\ IF command = "all" THEN GoTo("done") /\ UNCHANGED pool ELSE Exit
    /\ UNCHANGED <<job, disk, torn, hidden, missing, admitted, frozen, scoreDone,
                   mem, command, faults>>

\* Mutant: the sentinel is written although some roofs were incomplete.
RecheckDone_Incomplete ==
    /\ stage = "recheck" /\ Drained
    /\ recheckDone' = (recheckDone \/ Pending = {})
    /\ IF command = "all" THEN GoTo("done") /\ UNCHANGED pool ELSE Exit
    /\ UNCHANGED <<job, disk, torn, hidden, missing, admitted, frozen, scoreDone,
                   mem, command, faults>>

\* _recheck: RECHECK_DONE once every roof was complete and its rechecks are in;
\* under both sentinels there was nothing to do.
RecheckDone ==
    /\ stage = "recheck" /\ Drained
    /\ recheckDone' = (recheckDone \/ (~Incomplete(mem) /\ Pending = {}))
    /\ IF command = "all" THEN GoTo("done") /\ UNCHANGED pool ELSE Exit
    /\ UNCHANGED <<job, disk, torn, hidden, missing, admitted, frozen, scoreDone,
                   mem, command, faults>>

\* _run_v2: every request closed, every callable date with a status.
V2Done ==
    /\ stage = "v2" /\ Drained
    /\ IF Pending # {} \/ OpenDates(mem) # {}
       THEN Exit /\ UNCHANGED scoreDone
       ELSE scoreDone' = TRUE /\ GoTo("done") /\ UNCHANGED pool
    /\ UNCHANGED <<job, disk, torn, hidden, missing, admitted, frozen, recheckDone,
                   mem, command, faults>>

\* A death, or the disk floor of _drain.
Crash ==
    /\ stage \notin {"down", "done"} /\ Fault
    /\ Exit
    /\ UNCHANGED <<job, files, mem, command>>

\* A rendered PNG is deleted or cannot be read any more.
LosePng(d) ==
    /\ stage # "done" /\ d \notin missing /\ Fault
    /\ missing' = missing \cup {d}
    /\ UNCHANGED <<job, disk, torn, hidden, admitted, frozen, scoreDone,
                   recheckDone, mem, stage, command, running, pool, progress>>

Main ==
    \/ CallPreflight \/ JudgePreflight \/ CommitNonCall \/ NonCallsDone
    \/ BeginChunk \/ SeeFailure \/ SeeStop \/ EndChunk
    \/ ReferencesDone \/ RaiseCap \/ Freeze \/ ScoreDone \/ RecheckDone \/ V2Done
Worker(w) ==
    \/ \E k \in todo : IssueMissing(w, k) \/ Issue(w, k)
    \/ Paused(w) \/ Answered(w)

Next ==
    \/ Start \/ StartOneStage \/ Crash \/ Main
    \/ \E d \in Dates : LosePng(d)
    \/ \E w \in Workers : Worker(w)

Spec == Init /\ [][Next]_vars

\* The operator resumes a run that stopped, and something in a running process
\* moves: a thread gets processor time, the gateway answers or times out.
FairSpec == Spec /\ WF_vars(Start \/ Main \/ \E w \in Workers : Worker(w))

-----------------------------------------------------------------------------
(* Properties.                                                             *)

Stages == {"down", "preflight", "judge", "noncalls", "v2", "refs_tech", "tech",
           "tech_raised", "refs", "score", "recheck", "done"}

\* Every variable has its type.
TypeOK ==
    /\ job \in Jobs /\ missing \subseteq Dates
    /\ disk \in [Keys -> [last : Rows \cup {"missing"}, fails : 0..(Limit + job.maxFaults)]]
    /\ mem \in [Keys -> [last : Rows \cup {"missing"}, fails : 0..(Limit + job.maxFaults)]]
    /\ hidden \in [Keys -> 0..job.maxFaults]
    /\ torn \in BOOLEAN /\ running \in BOOLEAN /\ broken \in BOOLEAN
    /\ stage \in Stages /\ command \in {"all", "score", "recheck"}
    /\ todo \subseteq Keys /\ calling \in [Workers -> Keys \cup {None}]
    /\ stops \subseteq {"pause", "budget", "mismatch"}
    /\ failure \in {"none", "unseen", "raised"} /\ progress \in BOOLEAN
    /\ admitted \in BOOLEAN /\ frozen \in BOOLEAN
    /\ scoreDone \in BOOLEAN /\ recheckDone \in BOOLEAN
    /\ faults \in 0..job.maxFaults

\* The raw log keeps what AttemptLedger promises, over workers, rollbacks,
\* pauses, process deaths and resumes.
Ledger == INSTANCE AttemptLedger WITH
    used <- [k \in Keys |-> disk[k].fails],
    closed <- [k \in Keys |-> IF Closed(disk, k) THEN disk[k].last ELSE "open"]
KeepsLedger == Ledger!LedgerSpec

\* No model call is out for a request that another worker is calling for, or
\* that is closed or used up in the file, unless an append that raised has left
\* a row of that very request there and the process has not read it since.
NoWastedCall ==
    \A w \in Workers : calling[w] # None =>
        /\ \/ HasAttempts(disk, calling[w])
           \/ hidden[calling[w]] > 0 /\ mem[calling[w]] # disk[calling[w]]
        /\ \A v \in Workers : calling[v] = calling[w] => v = w

\* No append that raised has left a first-pass row behind.
FirstPassKnown == \A d \in Dates : hidden[T3(d)] = 0 /\ hidden[T2(d)] = 0

\* SCORE_DONE says that no date is open: each has an answer, a non-call, a
\* gap, or spent attempts, on disk, in every arm it was asked in.
ScoreDoneIsFinal ==
    scoreDone => /\ Outstanding(disk, ScoreRequests(disk)) = {}
                 /\ OpenDates(disk) = {}

\* RECHECK_DONE says that the interval of the labels in the file is rechecked;
\* rows that the process which wrote it had dropped may give another one.
RecheckDoneIsFinal ==
    recheckDone /\ FirstPassKnown =>
        ~Incomplete(disk) /\ Outstanding(disk, RecheckRequests(disk)) = {}

\* A run that calls itself finished has rechecked the interval its labels
\* give now, unless the drain gave up over rechecks whose PNG was lost.
RecheckedTheInterval ==
    stage = "done" /\ job.flow = "v1" /\ FirstPassKnown =>
        \/ Outstanding(disk, RecheckRequests(disk)) = {}
        \/ \E k \in RecheckRequests(disk) : Has(mem, k, {"image_missing"})

\* A finished stage leaves nothing to ask, and stays finished whatever later
\* stages add to the log.
FinishedMeansDone == ScoreDoneIsFinal /\ RecheckDoneIsFinal /\ RecheckedTheInterval

\* What a resume cannot repair: a line that does not parse, a preflight whose
\* attempts were all lost, a technical check without an answer or with a
\* truncated one, and a date no request can be planned for.
DeadEnd ==
    \/ torn
    \/ ~admitted /\ ~HasAttempts(disk, Preflight)
    \/ /\ job.flow = "v1" /\ ~frozen /\ ~HasAttempts(disk, Satellite)
       /\ Outstanding(disk, TechRequests(disk)) = {}
    \/ /\ job.flow = "v1" /\ ~HasAttempts(disk, Satellite)
       /\ \E d \in Dates : /\ ManifestOpen(disk, d)
                           /\ \E k \in Arms(d) : HasAttempts(disk, k) /\ ~Planned(disk, k)

\* Resumed often enough, a run finishes or is in one of the dead ends above.
RunFinishes == <>[](stage = "done" \/ DeadEnd)

=============================================================================

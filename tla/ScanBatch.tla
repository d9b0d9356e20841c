------------------------------ MODULE ScanBatch ------------------------------
(***************************************************************************)
(* One batch of anchors: main and handle of                                *)
(* scripts/temporal/run_adaptive_scan.py.  Anchors are submitted in order  *)
(* to a pool of --anchor-workers threads (one worker: a plain loop).       *)
(* handle turns an exception into a terminal state, or, for fail-closed    *)
(* errors and geometry mismatches, lets it out; main re-raises it from     *)
(* future.result(), and leaving the `with` block waits for the pool, which *)
(* goes on with the anchors still in its queue.                            *)
(*                                                                         *)
(* What happens inside one anchor is module AdaptiveScan, inside one call  *)
(* GeminiTransport; here an anchor may send requests, end, or fail.        *)
(***************************************************************************)
EXTENDS Integers, FiniteSets

CONSTANTS
    NAnchors,       \* anchors of the batch, 1..NAnchors in order
    WorkerCounts,   \* what --anchor-workers may be
    InitialFiles,   \* the state files there may be at first
    MaxFaults       \* bound: kills and failed saves

Anchors == 1..NAnchors
Files == {"none", "scanning", "done", "failed", "unreadable", "other_geometry"}

ASSUME BatchAssumption ==
    /\ NAnchors \in Nat \ {0} /\ WorkerCounts \subseteq Nat \ {0}
    /\ InitialFiles \subseteq Files /\ MaxFaults \in Nat

VARIABLES
    workers,    \* --anchor-workers of this process
    main,       \* off, running, or unwinding with an exception
    code,       \* exit code of the last process that ended by itself
    stage,      \* where handle is for an anchor
    why,        \* the exception its future holds
    collected,  \* futures main has taken the result of
    file,       \* the anchor's state file
    paused,     \* the quota breaker is paused
    faults      \* kills and failed saves so far

batchVars == <<workers, main, code, stage, why, collected, file, paused, faults>>

Stages == {"waiting", "ready", "wire", "failing", "returned", "raised"}
Errors == {"none", "fail_closed", "geometry", "recorder"}
NoCode == -1

Active == {a \in Anchors : stage[a] \in {"ready", "wire", "failing"}}
Waiting == {a \in Anchors : stage[a] = "waiting"}

BatchInit ==
    /\ workers \in WorkerCounts /\ main = "off" /\ code = NoCode
    /\ stage = [a \in Anchors |-> "waiting"]
    /\ why = [a \in Anchors |-> "none"]
    /\ collected = {}
    /\ file \in [Anchors -> InitialFiles]
    /\ paused = FALSE /\ faults = 0

Move(a, s) == stage' = [stage EXCEPT ![a] = s]
Save(a, f) == file' = [file EXCEPT ![a] = f]
Throw(a, e) == Move(a, "raised") /\ why' = [why EXCEPT ![a] = e]

-----------------------------------------------------------------------------
(* handle, in a worker.                                                    *)

\* Mutant: the pool does not serve its queue any more once main has raised.
Take_WhileRunning(a) ==
    /\ stage[a] = "waiting" /\ \A b \in Waiting : a <= b
    /\ Cardinality(Active) < workers
    /\ main = "running"
    /\ file[a] \in {"none", "scanning"} /\ Move(a, "ready") /\ Save(a, "scanning")
    /\ UNCHANGED <<workers, main, code, why, collected, paused, faults>>

\* The next anchor of the queue: its state is loaded, or created and saved.
Take(a) ==
    /\ stage[a] = "waiting" /\ \A b \in Waiting : a <= b
    /\ Cardinality(Active) < workers
    /\ main = "running" \/ (main = "unwinding" /\ workers > 1)
    /\ workers = 1 => \A b \in Anchors : b < a => b \in collected
    /\ \/ file[a] = "unreadable" /\ Move(a, "failing") /\ UNCHANGED <<why, file>>
       \/ file[a] = "other_geometry" /\ Throw(a, "geometry") /\ UNCHANGED file
       \/ file[a] \in {"done", "failed"} /\ Move(a, "returned") /\ UNCHANGED <<why, file>>
       \/ file[a] \in {"none", "scanning"} /\ Move(a, "ready") /\ Save(a, "scanning")
          /\ UNCHANGED why
    /\ UNCHANGED <<workers, main, code, collected, paused, faults>>

\* A round sends a request, unless the breaker refuses it.
Send(a) ==
    /\ stage[a] = "ready" /\ ~paused
    /\ Move(a, "wire")
    /\ UNCHANGED <<workers, main, code, why, collected, file, paused, faults>>

\* The answer is one more round, and the anchor goes on.
Answer(a) ==
    /\ stage[a] = "wire"
    /\ Move(a, "ready")
    /\ UNCHANGED <<workers, main, code, why, collected, file, paused, faults>>

\* run_one_anchor ends with a terminal state.
Finish(a) ==
    /\ stage[a] = "ready"
    /\ Move(a, "returned") /\ Save(a, "done")
    /\ UNCHANGED <<workers, main, code, why, collected, paused, faults>>

\* Mutant: the anchor's state becomes terminal too.
FailsClosed_Terminal(a) ==
    /\ \/ stage[a] = "ready" /\ paused /\ UNCHANGED paused
       \/ stage[a] = "wire" /\ paused' \in {paused, TRUE}
    /\ Throw(a, "fail_closed") /\ Save(a, "failed")
    /\ UNCHANGED <<workers, main, code, collected, faults>>

\* A QuotaControlError or ModelIdentityError is re-raised, the file stays.  The
\* breaker refuses a request, trips on an answer, cannot append the ledger row
\* or the model is a foreign one; only a trip pauses the breaker.
FailsClosed(a) ==
    /\ \/ stage[a] = "ready" /\ paused /\ UNCHANGED paused
       \/ stage[a] = "wire" /\ paused' \in {paused, TRUE}
    /\ Throw(a, "fail_closed")
    /\ UNCHANGED <<workers, main, code, collected, file, faults>>

\* Any other exception.
Fail(a) ==
    /\ stage[a] \in {"ready", "wire"}
    /\ Move(a, "failing")
    /\ UNCHANGED <<workers, main, code, why, collected, file, paused, faults>>

\* _record_orchestrator_failure loads the file again and saves it as a terminal
\* state; what does not load, or cannot be saved, raises out of handle.
RecordFailure(a) ==
    /\ stage[a] = "failing"
    /\ \/ /\ file[a] # "unreadable"
          /\ Move(a, "returned") /\ Save(a, "failed")
          /\ UNCHANGED <<why, faults>>
       \/ /\ file[a] = "unreadable"
          /\ Throw(a, "recorder")
          /\ UNCHANGED <<file, faults>>
       \/ /\ faults < MaxFaults
          /\ faults' = faults + 1
          /\ Throw(a, "recorder")
          /\ UNCHANGED file
    /\ UNCHANGED <<workers, main, code, collected, paused>>

Work(a) ==
    Take(a) \/ Send(a) \/ Answer(a) \/ Finish(a) \/ FailsClosed(a) \/ Fail(a)
    \/ RecordFailure(a)

-----------------------------------------------------------------------------
(* main.                                                                   *)

\* A new process runs the same batch; a pause marker may still be in force.
Launch ==
    /\ main = "off"
    /\ workers' \in WorkerCounts /\ main' = "running" /\ code' = NoCode
    /\ stage' = [a \in Anchors |-> "waiting"] /\ why' = [a \in Anchors |-> "none"]
    /\ collected' = {}
    /\ paused' \in {FALSE, paused}
    /\ UNCHANGED <<file, faults>>

\* Mutant: main goes on past a future that raised.
Collect_Continues(a) ==
    /\ main = "running" /\ stage[a] \in {"returned", "raised"} /\ a \notin collected
    /\ collected' = collected \cup {a}
    /\ UNCHANGED <<workers, main, code, stage, why, file, paused, faults>>

\* future.result() of a future that is done, in any order.
Collect(a) ==
    /\ main = "running" /\ stage[a] \in {"returned", "raised"} /\ a \notin collected
    /\ collected' = collected \cup {a}
    /\ main' = IF stage[a] = "raised" THEN "unwinding" ELSE "running"
    /\ UNCHANGED <<workers, code, stage, why, file, paused, faults>>

\* _exit_code_for_states.
ExitCode == IF \E a \in Anchors : file[a] = "failed" THEN 1 ELSE 0

\* main returns, or its exception ends the process once the pool is done.
Exit ==
    /\ \/ main = "running" /\ collected = Anchors /\ code' = ExitCode
       \/ /\ main = "unwinding" /\ code' = 1
          /\ Active = {} /\ (workers > 1 => Waiting = {})
    /\ main' = "off"
    /\ UNCHANGED <<workers, stage, why, collected, file, paused, faults>>

Kill ==
    /\ main # "off" /\ faults < MaxFaults
    /\ faults' = faults + 1
    /\ main' = "off" /\ stage' = [a \in Anchors |-> "waiting"]
    /\ UNCHANGED <<workers, code, why, collected, file, paused>>

BatchNext ==
    \/ \E a \in Anchors : Work(a) \/ Collect(a)
    \/ Launch \/ Exit \/ Kill

BatchSpec == BatchInit /\ [][BatchNext]_batchVars

\* Threads are scheduled, requests are answered, and no anchor scores rounds
\* for ever (ScanEnds of AdaptiveScan).
BatchFairSpec ==
    /\ BatchSpec
    /\ WF_batchVars(Exit)
    /\ \A a \in Anchors : WF_batchVars(Work(a)) /\ WF_batchVars(Collect(a))
                          /\ SF_batchVars(Finish(a) \/ Fail(a) \/ FailsClosed(a))

-----------------------------------------------------------------------------
(* Properties.                                                             *)

\* Every variable has its type.
BatchTypeOK ==
    /\ workers \in WorkerCounts
    /\ main \in {"off", "running", "unwinding"} /\ code \in {NoCode, 0, 1}
    /\ stage \in [Anchors -> Stages] /\ why \in [Anchors -> Errors]
    /\ collected \subseteq Anchors /\ file \in [Anchors -> Files]
    /\ paused \in BOOLEAN /\ faults \in 0..MaxFaults

\* "A partial batch must not exit 0": the exit code is 0 only if every anchor
\* of the batch has a terminal state that is no failure.
ExitZeroMeansDone == code = 0 => \A a \in Anchors : file[a] = "done"

\* A quota or model event leaves the anchor to be resumed.
FailClosedIsResumable ==
    \A a \in Anchors : why[a] = "fail_closed" => file[a] = "scanning"

\* A process that was launched ends.
BatchEnds == main = "running" ~> main = "off"

=============================================================================

# TLA+ models of the solar backdating scan

The repository dates rooftop solar installations: for every anchor (a roof) it
downloads a few historical satellite chips, asks Gemini whether panels are
visible, and narrows the installation date down from the answers. This
directory models the parts that run for weeks, cost money and must survive
interruption: the adaptive scan with its checkpoints and the interval read off
them, the batch of anchors, the transport to the Gemini gateway, the quota
breaker with its ledger, the store of verdicts that reruns replay, the
full-timeline reference runner with its response log, the catalog cache and the
zoom ladder, the lane that downloads a wave of anchors, the pipeline that
merges, archives, scores and deletes waves on a disk that is too small for all,
the reviews that ask a model several times and publish its consensus, and the
probe that collects the catalog of a whole city.

## The system

| component | state it keeps | operations | interacts with | what is hard |
|---|---|---|---|---|
| Quota circuit breaker (`scripts/temporal/quota_control.py`) | counters in memory; the JSONL attempt ledger and `PAUSED_QUOTA.json` on disk | `before_attempt`, `after_attempt`, start of a process | called by every HTTP attempt of every worker | attempts in flight, failed appends, process deaths, quota windows |
| Gemini transport (`scripts/validation/gemini_solar_image_review.py`) | limiter permits, two retry counters per call | `_post_with_transport_retry`, `score_batch_with_fallback` | breaker below, scorer wrappers above | raising paths that hold a permit, nested retry ladders, fail-closed exceptions among caught ones |
| Adaptive scan of one anchor (`scan_decision.py`, `scan_state.py`, `run_one_anchor`) | the rounds so far, checkpointed after each | decide, execute, save, resume, restart | catalog providers, scorer | crash between scoring and saving, a catalog that changes between runs, the order of decision cases |
| Anchor batch runner (`main`, `handle` of `run_adaptive_scan.py`) | a pool of futures, state files, the exit code | submit, collect, record a failure, exit | all of the above | exceptions that cross threads, a pool that drains after an error, partial batches |
| Verdict store and replay gate (`verdict_store.py`) | a content-addressed JSONL file and its index | open, lookup, put, compact | wraps the scorer | torn lines, several writers, renumbered batches, re-rendered chips |
| Install-date inference (`infer_install_dates.py`) | none | dip repair, interval of a checkpoint | reads checkpoints | status, repaired frames and the flight date meet in one interval |
| Reference full-timeline runner (`run_reference_fulltimeline_scan.py`, `reference_fulltimeline.py`, `fulltimeline_manifest.py`, `score_v2_fulltimeline.py`) | a lock, an append-only raw log, sentinel files | preflight, technical check, score, recheck; drain a list of requests | scorer, breaker | attempts over several processes, torn appends, stages in any order, drains without progress |
| Catalog cache (`gehi_catalog_cache.py`, `gehi_availability.py`) | one row per zoom and place | look up, ask, put, serve a stale row | zoom ladder, scan | age, readers that overtake each other, outages |
| GEHI download and zoom ladder (`gehi_download.py`, `gehi_common.py`) | chip files, what a run knows of each zoom | download one chip at the best zoom | scan, region lane | half written files, kills, catalogs that come and go |
| GEHI region lane (`run_a3_batch_lane.py`, `gehi_region_batch.py`) | stage and task sentinels, tile folders, chips, the manifest | plan, run, manifest, qa, report | zoom ladder | resume over partial output, re-plans |
| Disk pipeline (`run_ct_citywide_disk_pipeline.sh`, `chip_lifecycle.py`, `verify_wave_membership.py`, `rm_hotset_pngs.py`) | sentinels per wave, the hot set, the archive, the deletion manifest | launch, merge, QA, archive, score, release | region lane, scan | commands side by side, commands that stop half way and run again |
| Repeated reviews (`run_r4_shortgap_window_review.py` = V4, `run_r4_shortgap_window_recovery.py` = V5, `run_coj_gate_failure_recovery_pilot.py`) | a file per answer, `attempts.jsonl`, `RUN_LOCK.json` with the exact model version, published tables | prepare, smoke, production | V3's outputs, Gemini | as the next row, without arms |
| Panel adjudication (`run_r4_shortgap_adjudication.py` = V3) | a file per answer, versions of two arms and of the production, human reference, selection, published tables | panel, human reference, select, production | Gemini, the reviewers | commands in any order, answers left by an earlier winner, a pool that drains |
| Cape Town catalog probe (`run_ct05_catalog_probe.py`) | per route: outcomes and rows of queries, append-only; merged tables | plan routes, probe, plan remaining lanes, merge | GEHI | routes that share anchors, blocked answers, kills between two files |
| Install-interval estimators (`src/solar_backdating/estimators`) | none | PAVA, change point, epochs, survival | inference | ties, empty and censored sequences |
| Scoring provenance, scorer registry | append-only sidecars | one row per chip | scorer | none of its own |
| Scoring audit (`audit_ct52_scoring_run.py`) | none | cross-check ledger, states, provenance | reads files | only its idea of a row's identity |
| Localization, displacement, DINOv3, evaluation, reports, manifests, ArcGIS audit | none or files | numeric and one-shot scripts | read files | floating point and I/O |

The scan runs like this. `main` builds one limiter and one breaker, submits the
anchors to a pool and collects futures. `handle` calls `run_one_anchor`, which
loads or creates the checkpoint, resolves the vintage catalog, then loops:
decide, download and score, save. Scoring looks every chip up in the verdict
store and sends the others through `score_batch_with_fallback`, whose calls go
through `_post_with_transport_retry`, which takes a permit, asks the breaker, sends and
reports. Quota and model-identity errors go all the way back up and leave the
checkpoint resumable; every other exception ends in a terminal failed state.
`infer_one` then reads an interval off every checkpoint.

Chips come from the zoom ladder, one by one, or from the region lane, a wave at
a time. In a citywide run the disk pipeline moves a wave through its life:
the lane's chips are merged into the hot set, checked, archived on Dropbox,
scored offline, and deleted. The reference runner is the independent
measurement: it sends every capture date of a roof to the model, in two arms,
and keeps one raw log of answers from which its intervals are derived.
The reviews look again at the doubtful cases: each asks every case twice, a third
time when the answers differ, and publishes what two answers agree on, provided
that one exact model version gave them all.

## Modules

| module | stands for | composes |
|---|---|---|
| `QuotaBreaker` | `QuotaCircuitBreaker`, its two files, processes that come and go, quota windows | |
| `GeminiTransport` | limiter, retry phases, batch and per-image ladder of the workers | `B == INSTANCE QuotaBreaker` |
| `AdaptiveScan` | decision engine, planners and checkpoint loop of one anchor | |
| `InstallDates` | dip repair and interval of a checkpoint | extends `AdaptiveScan` |
| `ScanBatch` | `main`, `handle` and the failure recorder for a batch | `AdaptiveScan` and `GeminiTransport`, abstracted to request / end / fail |
| `VerdictStore` | the verdict store, its file and lock, and the calls of the wrapped scorer | |
| `Timeline` | interval and rechecks of a full timeline | |
| `AttemptLedger` | what the raw log of the reference runner promises | |
| `FullTimeline` | the reference runner: stages, drains, workers, the raw log | extends `Timeline`, implements `AttemptLedger` |
| `CatalogCache` | catalog rows and their readers | |
| `ZoomLadder` | one chip through the ladder, with GEHI and the files it leaves | extends `CatalogCache` |
| `RegionLane` | the five stages of the lane, the steps of a task | |
| `DiskPipeline` | the commands of the citywide pipeline | `RegionLane` and the scan, abstracted to one step each |
| `PanelAdjudication` | V3: panel, reference, selection, production | |
| `CatalogProbe` | routes, probe and merge of the city's catalog | |
| `AdaptiveScanProofs` | theorems about the scan, the interval and the batch | extends `InstallDates`, `ScanBatch` |
| `ZoomLadderProofs` | theorems about the city's catalog, the cache and the ladder | extends `CatalogProbe`, `ZoomLadder` |
| `VerdictStoreProofs` | theorems about the store and the panel | extends `VerdictStore`, `PanelAdjudication` |
| `FullTimelineProofs` | theorems about the interval and the reference runner | extends `FullTimeline` |
| other `*Proofs` | theorems about the module of that name | extend it |
| `MC*` | constants for TLC | extend their modules |

`QuotaBreaker` is the abstract specification of what the transport may do to the
breaker: which attempts are admitted, when a row is due, what a retry is.
`GeminiTransport` implements it (`ImplementsBreaker`, checked as a refinement
and proved), so every property of the breaker is one of the scan's transport.
`AttemptLedger` is the abstract specification of the reference runner's log: a
request has a number of attempts, an answer closes it, nothing is rewritten.
`FullTimeline` implements it (`KeepsLedger`).

### QuotaBreaker

Each of `before_attempt` and `after_attempt` runs under the breaker's lock, so
each is one action; other workers run between them. `Admit` is
`before_attempt` returning, `Refuse` is it raising, with the pause marker it may
write. `Record` is `after_attempt` with the row written, including the trip;
`AppendFails` is the append raising, with nothing, a part of the line, the line
without its newline or all of it in the file. `_append_locked` does not repair the
end of the file, so the next row of the same process is glued to an unfinished line:
`tail` says how the last line ends, and behind one that is not `Closed` `AppendRow`
writes no row but makes the ledger `Malformed`. The process counts the row all the same. `Start(v)` is a new process for window `v`: it rebuilds the
counters from the ledger, honours the marker, and does not come up over a torn
ledger. `Stop` is the end or the death of a process: attempts on the wire leave
no row. `_reserved` and `_in_flight` always change together and are one
variable. `sent`, `started`, `lost`, `wasted` and `tripped` are history
variables for the properties; no guard reads them.

### GeminiTransport

One worker is in one of four places of an attempt: asking for a permit, holding
one and not sent, on the wire, or idle. `Acquire`, `Send` / `Refused`, and
`Reply` / `RowLost` are the three steps of one pass through
`_post_with_transport_retry`; the sleep between attempts is the wait in
`acquire`. `Retry` says which answers are retried in which phase and what
happens to the attempt number; `CallOver` is what `score_batch_with_fallback`
does with the end of a call: return, second batch call, salvage, per-image
calls. A refusal or a trip whose marker cannot be written (`MarkerLost`) leaves the
breaker as an `OSError`, which the fallbacks take for a failed call; every other quota
or identity error aborts the chunk. Only a 200 may carry rows, any subset of the chips, so every shape of
partial answer is covered. Chunks are of different anchors, as the pool runs
them; the chunks of one anchor follow each other in one worker and add no
interleaving. `Start` puts every chunk without a result back into the queue: a
resumed scan scores again what its checkpoint lacks, and `Stop` may lose
results that were not checkpointed.

### AdaptiveScan and InstallDates

A date is a number and a frame shows one of four verdicts. `Decide` is
`decide_next_action` with the same order of cases, over the rounds so far;
`InitialRound`, `Bisection`, `AnchorRecovery`, `AllAbsent` and `AllPresent` are
its planners with their picks. `RoundDiv` is Python's `round` of a quotient,
halves to even, since `select_evenly_spaced_picks` depends on it. A scored round
lives in memory (`state`) until `SaveRound`; `Crash`, `FailClosed` and
`OrchestratorFailure` are the three ways a run ends early, and `ResolveCatalog`
runs on every start because the code resolves the catalog every time.

`InstallDates` reads the checkpoint as `infer_one` does. `Dips` and `Repair` are
`repair_isolated_dips` and `apply_dip_repair`; which present frames the scorer
was confident of is left open, so every subset is tried. `Clamped` is the
flight-date clamp. `IntervalIsExact` compares the row with a reference
definition: the set of install dates that agree with every frame.

### ScanBatch

`main` is running or unwinding with an exception; an anchor is waiting, ready,
on the wire, failing, returned or raised. The number of workers is an argument
of each launch. `Take` is the load with its four
outcomes, `FailsClosed` the re-raise, `RecordFailure` the recorder, `Collect`
the `future.result()` that brings an exception into `main`, `Exit` the return or
the exit of the `with` block, which waits for the pool. With one worker the
same actions are `main`'s plain loop, which stops at the first exception.

### VerdictStore

The file is a sequence of rows; `Junk` is a line that is no JSON, `Split` one cut
inside a character, and `cut` says that the last line lacks its newline. `Load`
is `_load`, `AppendLine` the append of `put`, with the gluing that a cut line
causes, `AppendBreaks` everything a failed or killed append may leave.
`Open` needs the lock, which the scan and the compact command contend for; both
keep an `index` of their own. A call of a worker is `Lookup` chip by chip,
`Score` on the misses, renumbered for the inner scorer and back (`Requested`),
then one `Put` or `NotCached` per observation. Other workers run between any two
of these. `Rerender` changes the pixels of chips no call is using: each anchor's
chips are downloaded by the thread that scores it. A verdict carries the pixels
the scorer saw, which is what `VerdictOfItsPixels` compares with the key. Keys
are contents alone: the other fields of a key are the same in all calls.
Read-only opens change nothing and are left out.

### Timeline, AttemptLedger, FullTimeline

One roof, one process at a time (the runner lock). `disk` and `mem` are
`raw.jsonl` and `RawLog.rows`, kept per request as what the code reads the rows
for: the answer or non-call that closed it, or the number of failed attempts and
the newest failure. `stage` is where the main thread is; `Load` takes the lock
and reads the log, `Requests` is the list each stage builds, `BeginChunk` ...
`EndChunk` are `_drain` and `run_many`, `Issue` / `Answered` / `Paused` one
worker. `Record` is `RawLog.commit`, which rolls memory back when the append
raises; that append may have left nothing, a torn line, or the whole line when the
`fsync` raised (`hidden` counts such rows). What sets `stop` is kept apart (`stops`), because a pause is slept out
while a spent budget or a foreign model ends the process. `JudgePreflight`,
`Freeze`, `ScoreDone`, `RecheckDone` and `V2Done` are the ends of the stages
with their sentinels. A job fixes the flow (v1 stage by stage, v2 in one go),
whether both arms are asked, and which dates are white, without imagery, or
without their PNG from the start; `LosePng` takes away the PNG of any other, so that a
recheck may find it gone and its drain give up.

### CatalogCache and ZoomLadder

A catalog is the number of the provider's version it came from. `Lookup` is
`get_or_fetch`, `Answer` the subprocess, `Put` the upsert with the time of the
put, `Fail` the stale row, empty list or exception. `PutFails` and `LookupFails` are
errors of the database, which the caller turns into an empty list or, behind the upsert,
lets through (`StoreFails` in the ladder). `ZoomLadder` is
`download_chip_with_zoom_ladder` in two passes over the zooms, the one over files
on disk and the live one; `CheckVintage` and `Memoize` are `make_vintage_check`
with what it remembers within a run (an offline run brings catalogs built before), `GehiWrites`, `GehiSucceeds` and `GehiFails`
the subprocess and `_quarantine_partial`. Other readers share the rows.

### RegionLane

`NextStage` is `main` skipping stages whose sentinel is there; a task goes through
dump (or the reuse of a folder), crop, fallback member by member, its record
and its purge. A tile stands for the member it shows. `LeavesTiles` is what a
stopped dump may leave: some whole tiles, and one that is truncated or cannot
be opened. `StartByHand` is an operator's run with `--force`, `--only plan` or
another scope.

### DiskPipeline

A shell runs one command, which is a sequence of steps that may stop after any
of them (`Stops`) and be run again. `MoveChip` is rsync moving one chip over the
one that may be there, `AuditPasses` / `AuditFails` the membership audit,
`ArchiveWave` / `Upload` / `BackedUp` tar, verified upload and contract,
`ReleaseWave` / `HashAll` / `AppendManifest` / `Unlink` / `Released` / `RemoveDirs`
are `release-wave` with `execute_release`. A lane that is forced to run again
(`LaneAgain`) keeps the `qa.done` of its first run, so `MergeWave` may run beside it. A chip is the number of the download
that made it, so a chip that was downloaded again is told from the one that was
hashed or archived.

### PanelAdjudication

Both arms run in one process: smoke A, panel A, smoke B, panel B
(`SmokePasses`, `ArmDone`). A version is established by the first answer in
memory; it reaches the `RUN_LOCK.json` that later processes read at the end of a
smoke and of an arm, and in production with every answer. `LockHuman` and `Select` are
the two commands between panel and production; `human` is the arm that the
reference makes the winner. `Drift` also moves a published table away, as
`_quarantine_version_drift` does. The pool is left when every task has ended,
queued ones too, even when one has raised (`Ended`, `Abort`). Answers are files, kept as the alias asked, the version that answered, and
whether another rep follows.

### CatalogProbe

`Start` reads the outcomes of the route's own folder and asks what they lack.
`Retry`, `GiveUp` and `Answered` are the ends of an attempt; a failed query is not
kept, since no reader takes it for anything but absent. `Answered` writes the
outcome, `WriteRow` its rows, one by one. `PlanRemaining` hands a route every
anchor with an open query, so two routes may ask the same. `MergeOutcomes` and `Merge` are
`merge_routes`: all outcomes are read first, then the rows, from which come the verdict of
each anchor, its cutoff, and one candidate per date within the window of the merge
(`MinDate`, `MaxDate`), which need not be the probe's. Nothing locks the files: routes
may write before, between and after the two steps.

## Runs

| run | instance | shows |
|---|---|---|
| `quota` | 2 workers, 2 logical calls, 2 windows, budget 3 with 1 for new work, 2 faults | budget, reserve, ledger and marker hold under every interleaving with lost and glued rows, failed markers, deaths and restarts |
| `transport` | 2 workers, 1 permit, 2 chunks of 2 chips, budget 5 with 3 for new work, 1 fault, fair | permits, verdicts, bounded retries, refinement of the breaker; no worker waits for ever |
| `scan` | 7 dates and a reference frame, every catalog, every verdict, 1 interruption, fair | what a terminal status and its interval claim is backed by the frames; no date is paid twice; a resumed scan ends |
| `batch` | 3 anchors with fresh, unreadable and foreign-geometry files, 1 or 2 workers, 2 faults, fair | exit code and state files are right; a launched batch ends |
| `store` | 2 workers, anchors of 2 and 1 chips, 3 contents, 4 lines, 1 broken append | stored verdicts belong to their pixels; one fault costs a bounded number of rows |
| `fulltimeline` | 3 dates, 4 jobs (v1 with one arm in chunks of 3 or of 1, v1 with both, v2), 2 workers, 2 attempts, up to 2 faults, fair | answered requests are sent again only for a row the process dropped, sentinels stay true, the log implements `AttemptLedger`; a resumed run finishes or is in a named dead end |
| `imagery` | ladder 20, 19; two readers; 2 catalog versions over 3 days; 2 runs in 3 modes; 1 fault; fair | catalogs are young, no half chip is served, a chip on disk is used; every call ends |
| `lane` | a cluster of 2 members and one of 1, a tile missing, 1 run by hand, 2 kills, fair | the manifest is true of the chips and complete, intermediates are purged, a relaunched lane ends |
| `disk` | 2 waves of 1 anchor, room for 1, 2 shells, one chip downloadable twice | nothing is deleted that is not hashed and archived, no scan misses its chip, the hot set stays bounded |
| `disk_archive` (violation) | 1 wave of 2 anchors, 1 shell | archive-wave after a stopped release replaces the tar by an empty one |
| `panel` | 2 panel anchors, one of them smoked, 1 left for production, 2 versions, 2 threads, 1 mishap | a table of an arm rests on one model; all that is published was answered by the model that won |
| `catalog` | 1 anchor, 3 queries, 2 routes, 5 dates, 1 kill | a merge, also one beside a probing route, offers exactly the dates GEHI knows in its window unless a kill made a query short or its rows are being written |

**Bounds.** `MaxFaults`, `MaxKills` and `MaxInterrupts` bound kills, lost rows and
failed writes in one behaviour; two, where there are two, allow a fault during
the recovery from a fault. The rest, run by run:

- `quota`: two windows (`LastWindow`) are enough for a marker of an earlier one to
  meet a later one. A budget of 3 with one for new work lets two workers compete for
  the last new call and for the reserve, and trip the breaker while the other is
  on the wire.
- `transport`: `MaxAttempts` = `PoolAttempts` = 2 (5 and 8 in the code) are the
  smallest values with a retry inside a phase and a passage between the phases.
  Two chips make one salvaged and one not. One permit makes workers wait. A budget of 5
  lets one call use all its tries and one more than that; three new calls are a batch call, its
  second and one chip, so that the call for the other chip may be refused and its marker lost.
- `scan`: seven dates over three years with three picks a round make every
  planner run: picks that skip vintages, walk backs over two windows, a tail sweep
  in a year without a frame, a bisection, two recoveries. Four catalogs turn into
  one another between runs. `MaxIter` is 8 (32 in the
  code), one more than the seven rounds that `EveryRoundIsNew` allows a catalog of three years with
  two recoveries. Flight dates are none, one inside the timeline and one at its end.
- `batch`: with three anchors and two workers one is queued while one fails and one
  is on the wire.
- `store`: three contents are one more than a single fault may cost, so that
  `LossPerFault` can fail; four lines hold a damaged line and a row of each content.
- `fulltimeline`: three dates make a bounded, a left- and a right-open and a
  conflicting timeline; two attempts per request are one retry, possibly in
  another process; in a chunk of three, one request is queued behind two
  workers. `maxFaults` is part of the job: none where two dates are rechecked in one chunk, 1 or 2
  elsewhere. A drain gives up when the whole first chunk is without its PNG, which takes a job with
  chunks of one request where one PNG may be lost.
- `imagery`: `MaxAge` 0 and three days let a row expire, and a slow answer be
  overtaken by a younger one. The second run meets the chips and rows of the first. The newer catalog drops the date at the better zoom.
- `lane`: one task has two members of which one lacks its tile, so that a task
  can be part cropped and part fallen back; the order of two tasks lets a stop in the first keep
  the second from running; the two plans (`Scopes`) differ in the second task.
- `disk`: with room for one wave the gate is closed while the other is hot, and
  two shells can still pass it together. Symmetry over the shells is sound: they
  are only compared with each other, and the run checks no liveness.

- `panel`: two versions are a model and the one the alias moves to; two anchors and
  two threads let both establish a version at once, and a mishap (a kill, a second
  reference) falls between any two writes.
- `catalog`: three queries give two zooms of one provider and both providers of one zoom; with
  one frame after the census kept, a date of the window is cut off, and a date lies on either side of
  the window. One kill makes a query short; the theorem covers any number. Anchors share only their shard.

Deadlock checking is off in every run: a batch that is done, a scan in a terminal
state, a breaker with a torn ledger, a lane past qa and a disk with every wave
released really stop.

**Fairness.** `transport` assumes that a thread that can run does (weak
fairness of each worker's steps): requests carry a timeout, so a reply or an
exception comes. A worker that waits for a permit is served since the attempts
of the others are bounded. `scan` assumes that the operator resumes an anchor
without a terminal state, which is how the runbooks end every interruption.
`batch` assumes scheduled threads, and that an anchor that keeps scoring rounds
ends at last (strong fairness of `Finish`, `Fail` and `FailsClosed`), which is what
`ScanEnds` shows of one anchor. `fulltimeline` only assumes that something moves in
a process that can and that the operator starts the next one. `imagery`
assumes that the thread runs and that both kinds of subprocess end, which their
timeouts bring about. `lane` assumes that a lane that is up goes on, and that it is
launched again until its qa is done, as the runbook has it. No
fairness is assumed of kills, faults, other readers, the provider or the clock.

## Disagreements met

With a run that shows it:

- Chips "may only be deleted against" a verified durable archive; archive-wave run
  again after a stopped release replaces that archive by the empty directories
  (`disk_archive`).

Met while modelling, described here without a run of their own. About scan and breaker:

- The handoff document has the breaker drain before it pauses on `work_budget`;
  `before_attempt` pauses on the first refused call and so refuses the retries of
  calls in flight (`quota_control.py:273`). `gross_safe_budget` is called a hard
  line; an attempt whose row is lost is not counted, and `SpendBounded` is
  the exact statement that holds.
- Quota-control failures "must not enter the batch salvage ladder"
  (`_is_fail_closed_error`); when `PAUSED_QUOTA.json` cannot be written, what the breaker
  raises is an `OSError`, and the per-image fallback files a `gemini_failed` observation of a
  chip that no attempt was made for. `VerdictHasLedgerRow` is the exact
  statement that holds: at most one such chip for each marker that was not written, and
  never a whole chunk.
- Nothing repairs the end of the quota ledger: after an append that stopped inside its line the
  same process goes on, glues its next row to the fragment and counts it. No later process comes up
  on that ledger (`~torn` in `LedgerMatchesCalls`).
- The first attempt of the pool-exhausted phase repeats the number of the last
  attempt of the phase before it (`gemini_solar_image_review.py:469`), which
  `audit_ct52_scoring_run.py:452` rejects.
- Fail-closed errors "must stop the scan"; with a pool, queued anchors are
  scanned unless the breaker itself is paused. `_record_orchestrator_failure`
  "never re-raises", but it loads the file whose reading may be what failed.
- `AppearsIsTight` has an exception: when the catalog gained dates between
  runs, a bracket may hold dates that an earlier run had not seen.
- Dip repair can yield `done_already_present` although older vintages were
  never scored; an absent frame on the flight date itself gives `done_appears`
  an interval with equal ends, where the census case compares with `>=`.
- The verdict store is to survive a truncated last line ("count it, never fail
  the whole store"); a line cut inside a UTF-8 character makes `_load` raise
  `UnicodeDecodeError`, at this start and every later one (`Split` in the model).
- Nothing ends a truncated store line, so the next append is glued to it and
  lost at the next start, together with a row that only missed its newline.

About the reference runner:

- `_techcheck` raises the conflict cap once, but attempts already used up are not given
  back (`run_reference_fulltimeline_scan.py:1063-1074`), and failures of the
  preflight exhaust its attempts: both are dead ends that `DeadEnd` names, as is
  a v1 date whose reference was rejected, which stays pending.
- A recheck drain whose whole chunk is without its PNG "makes no progress" and gives up with
  rechecks pending (`run_reference_fulltimeline_scan.py:1032-1037`); the run ends with exit code
  0 and without `RECHECK_DONE`. The exemption in `RecheckedTheInterval` is exactly this.
- Rows that an append which raised has left may also change the interval: a process that does not
  know of them rechecks the dates of another one and writes `RECHECK_DONE`
  (`FirstPassKnown` in `RecheckDoneIsFinal`).
- "A stored success leaves zero" attempts (`remaining_attempts`); an append whose `fsync` raised
  left its answer in `raw.jsonl`, and `RawLog.commit` has dropped it from memory, so
  that the request is sent again until the next start reads the file.
  `NoWastedCall` exempts exactly such requests, and
  `KeepsLedger` gives them one more attempt for each such row.
- A torn raw-log line is refused by every later load; so is a torn
  `render_progress.jsonl` by `_render`. Rows that were not sent do not
  count as progress of a drain.

About imagery:

- `_quarantine_partial` (`gehi_download.py:393-402`) also deletes a good chip over
  which an `--overwrite` attempt failed. A kill while GEHI writes, or a failed
  unlink, leaves a part of a `.tif` that a later run serves as `skipped_existing`;
  `spoiled` in `ServedIsWhole` is exactly this.
- The empty list of a timed-out catalog call is remembered for the whole run. So is the one that an
  error of the cache's own database makes of a good answer (`PutFails`, `LookupFails`).
  `parse_zoom_ladder` accepts a zoom twice, which the model assumes away.
- The lane is "resumable"; a dump killed between a `.jpg` and its `.jgw` makes
  `scan_dump_tiles` raise at the same task in every restart: `Stuck` in `LaneFinishes`.
- The lane uses a folder again that a kill left half full; the chip
  of a killed fallback passes as `skipped_existing`; a kill between sentinel and purge
  leaves the intermediates for good; a re-plan with `--force` keeps the old
  task sentinels, and a record outside the new plan is a `KeyError` in
  `stage_manifest`.
- Chips "may only be deleted against" a verified archive, but `BACKUP_OK.json` says which wave was
  archived and not which chips, and stays. A chip that a forced lane downloads again and a merge
  moves in after the archive is deleted on it although no tar ever held it: the `late` in
  `DeletedWasArchived`.
- In the disk pipeline no caller makes the refusal window of a release fire, the
  hot set is not counted when the audit fails after chips moved, a wave with a
  failed member never gets its `MERGE_OK` from the script's own commands, and
  two merges can pass the gate together (`widest` in `HotSetBounded`). A chip merged over another
  between that one's hash and its unlink is deleted unhashed: the `swapped` in `DeletedIsRecorded`.

About panel and catalog probe:

- A returned version that differs "causes an immediate `MODEL_VERSION_DRIFT` stop"
  (the preregistration of V3); `run_arm` leaves its pool through an exit that waits, so queued
  anchors are taken and the model is called after the drift (`TakeUp` after `Drift`). It also
  asks for the whole affected run to be quarantined; the code moves the two published tables
  and leaves the answers, which a later process takes up under the old version.
- The catalog probe "is resumable" by the outcomes it has; they are written before the
  rows, so a kill in between leaves an answered query without rows for good
  (`Short`), and a merge may release the anchor as `no_history`. A merge that
  reads between the two does the same.

## Theorems

Checked by TLAPS for all values of the constants under the assumptions named in
the modules: `PolicyAssumption`, `CallAssumption` and `TransportAssumption`
(positive budgets with Work <= Gross, finite sets, at least one window, chip,
attempt and permit), `BatchAssumption`, `PipelineAssumption` (finite waves and
anchors, room for a wave), `FullTimelineAssumption`, `CacheAssumption`,
`LadderAssumption` (finite readers and zooms, a ladder without repetitions) and
`LaneAssumption` (finite members, every task in the order), `ScanAssumption` and
`FlightAssumption` (catalogs and flight dates are dates), `StoreAssumption` (the
special values are no verdicts, batches are sequences that are not empty, contents and
workers are finite), `CatalogProbeAssumption` and `PanelAdjudicationAssumption` (finite
anchors, a smoke within the panel, a remainder outside of it). Each
safety theorem has the same three parts: the initial states satisfy an
inductive invariant, every action keeps it, and it implies the property.

`QuotaBreakerProofs` climbs a chain of invariants:

1. `TypeCorrect`.
2. `WireInv`: reserved = number of attempts on the wire, and a process that is
   down counts nothing. `ReservationExact` follows. The second half is needed
   since a new process starts with reserved = 0.
3. `LedgerInv`: each attempt is a row the running process counted, a reservation, or
   lost (`Counted`); the file has no row too many, and short of a malformed line it has at least
   the rows the process counted. `BudgetHolds` and `LedgerAccurate` follow: `SpendBounded`
   is not inductive because it says nothing about what is still in flight.
4. `StartInv`: while the breaker is not tripped, the calls started in a window
   are limited by what `before_attempt` saw when it admitted the last new one.
   `ReserveHolds` follows.
5. `PauseInv` ties the pause reason, the marker and the windows that tripped:
   `PauseStaysInWindow`, and with it `MarkerIsHonoured` as an action property.
6. `WasteInv`: an answer is thrown away only by the trip that fills the budget,
   after which nothing more is admitted in the window: `OneAnswerWasted`.

`GeminiTransportProofs`:

- `TransportImplementsBreaker`: every step of the transport is a step of the
  breaker or leaves it alone. `WorkerInv` supplies what that needs: a worker
  with or before a permit has a chunk, so its logical call is one the breaker
  knows. By it the eight theorems above hold of the scan.
- `LimiterExact`: permits are neither leaked nor doubled on any path.
- `VerdictsRestOnRows`: what a returned chunk says rests on calls with a ledger
  row, or on a ledger no later process reads. `VerdictInv` adds what a worker half way through a
  chunk knows: once it makes its second call the first has a row, and so has every per-image call
  counted as failed, but for those a marker that was not written stands for. It counts chips
  without a row, scored or still in a worker's hand, against `unmarked`.

- `RetriesBounded`: `TriesInv` counts what a logical call has used of its two phases.
  `TriesBounded` alone says nothing of the place in the ladder from which the next
  attempt comes, so it is not inductive.

`AdaptiveScanProofs`, the scan of an anchor:

- `ScanInv` says of the file and of the state in memory that their rounds are a
  `History` (every pick has one result, no date is picked twice, every round after the
  first picks something) and were `Planned` (what a bisection or a tail round says of the catalog),
  and how the two differ at each place of the loop. That memory holds every round of the file, and one
  more between scoring and saving, is what makes the rest inductive: only then is what a planner picks new.
- `TerminalHolds`: a terminal status is backed by frames. `Backed` is kept with the
  file, since the catalog it was decided with may have changed since (`drifted`).
- `RoundsAreNew`: no date is paid for twice. How many rounds a
  run may have is `IterInv`, from a `Measure` of the rounds and the catalog: each walk back, tail
  round or bisection uses up a year of imagery or closes the bracket, and recoveries are counted. So the rounds are bounded by the
  years of imagery, `MaxRecovery` and 2, however many dates the years hold. With the code's settings
  its 32 iterations are enough for 27 years of imagery; for more nothing is claimed of the loop's end.
- `CheckpointGrows`, the action property, from the same invariant.
- `IntervalHolds`: the row read off a checkpoint is the set of install dates that fit the
  frames, for any scan, any dips repaired and any flight date. `Consistent` is what a terminal
  status and its frames have to do with each other; the repair keeps or restores it
  (`RepairFits`), and each kind of row is compared with the days that fit, which
  `FittingIs` finds between the last absent and the first present frame.

The batch: `ZeroMeansDone` and `FailClosedResumes` from `BatchInv`.
`StageOfFile` says what the file of an anchor looks like at each of its stages,
`CollectedReturned` that `main` goes on only while every collected future had a result;
without them an exit code 0 could belong to an anchor that is still on the wire.

`VerdictStoreProofs`, the store: `VerdictsFit` from `FileInv` (every row is about the pixels of its
key), `IndexInv` (so is every verdict an index holds, and the lock lets one process in) and
`CallInv`, which follows the picks of a call through the renumbering for the inner
scorer and back: each verdict in hand is about the chip of the pick it is filed under,
whichever picks missed. `LossIsBounded` is not inductive as it stands, because a
broken append costs up to two verdicts, one at once and one when the next row is glued to the cut line; `LossInv`
keeps one in reserve while the last line is cut.

The panel: `ArmsAreOneModel` and `WinnerPublished` from `PanelInv`. What stands behind a
table or a publication could be made untrue by a later run of the same pool, which
takes its answers up and adds to them. `ArmFits` and `PublishedFits` therefore say that those
pools are `Complete`: no anchor has a rep left to ask. `RepsInOrder` and `JobFits`
tie each task to the reps of its anchor, so that a task that asks is never at an anchor that is
complete (`AskedIsOpen`), and every answer taken over outside of a smoke is of the model in memory.
`RunFits` gives an arm the version of its smoke, which `FS_Singleton` finds in the
cardinality the code compares with one.

`DiskPipelineProofs`: the invariant `IInv` has a part for each thing a running command relies on
that other shells may change under it. `ReleaseAllowed`: a release still
has its two contracts. `ArchiveInv`: what an archiving shell has in its tar, or
uploaded, is what is in the hot set, but for chips merged since an archive of the wave began
(`late`). `RecordInv`: the same of hashes and manifest, but for chips merged over a hashed one
(`swapped`, and no others: a chip merged before the hash is hashed). `DeletionsWereArchived`
and `DeletionsAreRecorded` follow for the step that unlinks. `StagedInv`: a
checked wave keeps each chip until its scan ended, whence `ScansFindTheirChips`.
`HotInv`: hot waves and running merges together stay below what the gate and the `widest`
meeting of merges allow, since the gate lets a merge in only with room for one;
`HotSetStaysBounded` follows.

`FullTimelineProofs` begins with the pure operators of `Timeline`: `ConflictMeansNoCut` and
`BoundedIsExact` compare `InferInterval` with the set `Cuts` of install dates that explain
the observations, for every number of dates and every observation of them.
The lemmas name the earliest and latest of a set of dates.

Of the runner: `CallsAreNotWasted`, and `LogKeepsLedger`, the refinement of
`AttemptLedger`, for every kind of failed append. After one that left its whole line memory and
file differ, so the invariant cannot say that they are equal: `MemoryBehind` says, request by
request, that memory lacks at most the `hidden` rows, and that what it takes for closed is closed
in the file. `OneWorker` says that a request is with one worker at most and has attempts left in memory;
`PoolAtWork` when the pool has work at all; `WhiteUnasked` that v2's non-call never closes a
request with attempts.

`FinishedStaysDone` has the longest chain (`DoneInv`): `StopTypes` says which reasons may have
stopped a drain, `GapUnasked` that no first pass of a date without imagery is asked, and
`SentinelInv` what each sentinel stands for in memory, kept true because the log only grows; it
is carried over to the file with `MemoryBehind`. What is delicate is that
`_drain` also ends when a chunk made no progress, with requests still pending. `StageInv` says
when a recheck drain ends that way: a chunk is not empty, so until a row was committed or
something stopped the pool, one of its requests is still there, unless it left the pool
as a missing image (`Lost`). So `RECHECK_DONE` is never written by a drain that gave up, whatever the
sizes of chunks and conflicts.

`ZoomLadderProofs`, the city's catalog: `ShortIsBounded` from `RowsAreKnown`,
`QueryInHand` (while a route writes rows, its outcome and the dates it is done with are on disk)
and the count `ShortIsPaid`: a query becomes short in no step but a kill, and then it is the one
in the hand of the route. `MergeHolds` follows for the step that merges: what it has read of the
outcomes is still there (`ReadIsKept`), rows only come, and those of a query that is
not `Incomplete` are all GEHI knows. The rest is a bijection
between candidates and offered dates; the cut-off counts dates, so the lemmas are about the first
elements of finite sets of numbers.

Cache and ladder: `CatalogsAreYoung` rests on `Young`, which dates every row and every
answer under way; `ChipsServedAreWhole` is inductive with `NothingYet`; for
`ChipsOnDiskAreUsed`, `Passed` says that every zoom the first pass went by was settled,
which needs `KnownIsStored` and `Asking` (an answer is missing only
where no row was stored, or the database failed: such zooms leave `known`).

`RegionLaneProofs`: `OkRowsAreWhole` from `ChipInv` (a chip that is there stays, and
fallbacks, records and rows only speak of one that is), and `ManifestIsComplete` from
`PlanInv`: a run that is done for the plan recorded its tasks, a manifest done for
those has their rows, and a run under way has recorded every task behind it. The run
`lane` has one run by hand. The proof holds for any number; it is what showed that a forced run
repeated after a re-plan leaves the *manifest* of the old plan done, which takes three runs by
hand, so `stale` counts those stages too. `FoldersArePurged` follows from `FolderInv`: every dump
folder but the one of the task at hand cost a kill.

So every safety property and every refinement that a run checks is a theorem. Only
model-checked are the liveness properties (`ChunkEnds`, `ScanEnds`, `BatchEnds`,
`RunFinishes`, `CallEnds`, `LaneFinishes`): liveness under fairness is outside what the installed
provers handle. `ReleasedIsInArchive` is the property that
the violation run finds violated.

## Not modelled, and why

- Prompts, response parsing, image processing, learned scorers, statistics,
  reports and manifest builders, which make up most of the repository's lines:
  data without control, one-shot tables, or floating point.
- The QPS pacer of the limiter and the GEHI rate limiter: wall-clock time. (The
  latter sends one request during a backoff that began while it waited.)
- The estimators: discrete pre-processing feeds floating-point likelihoods, and
  ties between maxima are broken by rounding. An integer model would be a
  different algorithm.
- A per-image answer that brings its own `chip_index` (the prompt does not ask
  for one) would be filed under that index; the model files it under its chip.
- The product of retries, batch calls and per-image calls of one chunk: `TriesBounded` is about one
  call, and `transport` shows that a chunk comes to its end.
- Whether the panel's selection picks the better arm, and panel commands started side by side.
- Which of two verdicts about equal pixels is pinned: both workers miss, both pay,
  the last row wins. `VerdictStore` takes these steps; the code states no property.
- The repeated reviews V4 and V5 and the ArcGIS audit's pilot: they ask and lock like V3's
  panel, with one scope instead of arms. Of V3: sampling, packet rendering, the validation of an answer (one that
  fails it is a `Fail`), human annotations and sidecar tables. Of the catalog probe: lines torn by a kill, which stop the merge, and its raw log.
- The merge of scan-state directories; download and rendering in the reference
  runner; the scoring audit, which only reads.
- `--scan-config` and other switches: constants of the models.

## Plan

Done: breaker, transport, scan of one anchor, inference, batch runner, verdict store,
reference runner, catalog cache and zoom ladder, region lane, disk pipeline,
panel adjudication, catalog probe; theorems for every safety property and refinement of
the runs. Next, in this order:

1. `VerdictStore` composed with `AdaptiveScan`, so that a rerun of a scan replays its
   rounds; `CatalogCache` as the source of its catalogs.
2. `ScanBatch` as an abstraction of `AdaptiveScan`, shown by a refinement mapping, and the steps of that
   mapping proved from `ScanInv`.
3. The reviews V4 and V5 as a module of their own; `PanelInv` carries over without arms.
4. The scan-state merge, and the pre-processing of the estimators, as operators
   against reference definitions.

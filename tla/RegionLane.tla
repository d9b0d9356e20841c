----------------------------- MODULE RegionLane -----------------------------
(***************************************************************************)
(* The batch lane that downloads a wave (scripts/temporal/                 *)
(* run_a3_batch_lane.py over gehi_region_batch.py): candidates are planned *)
(* into cluster tasks; a task is one GEHI dump, stitched and cropped to a  *)
(* chip per member, and a download of its own for every member the dump    *)
(* could not serve.  The lane is killed and started again over the same    *)
(* directory, by its own command or by hand with --force or --only plan.   *)
(*                                                                         *)
(* A tile is the member it shows: a member's window lies on its own tile.  *)
(***************************************************************************)
EXTENDS Naturals, Sequences, FiniteSets

CONSTANTS
    Tasks, Members,
    TaskOf,     \* the task of each member
    Order,      \* the tasks by task_id
    Covered,    \* members whose tile the vintage has
    Scopes,     \* the sets of tasks a plan may have
    MaxByHand,  \* bound: runs with --force or --only plan
    MaxKills    \* bound: kills

ASSUME LaneAssumption ==
    /\ IsFiniteSet(Members) /\ TaskOf \in [Members -> Tasks]
    /\ Order \in Seq(Tasks) /\ {Order[i] : i \in 1..Len(Order)} = Tasks
    /\ Covered \subseteq Members /\ Scopes \subseteq (SUBSET Tasks) \ {{}}
    /\ MaxByHand \in Nat /\ MaxKills \in Nat

VARIABLES
    done,       \* stages/*.done
    plan,       \* plan/tasks.json
    recs,       \* run/done/*.json
    rows,       \* manifest/manifest.csv
    tiles,      \* whole tiles of each task's folder
    torn,       \* the tile a stopped dump was writing in that folder
    chips,      \* the chip of each member
    mode,       \* the arguments of this run
    stage,      \* the stage the lane is in
    at, step,   \* the task of the run stage and what it does
    cropped,    \* members cropped in this task
    todo,       \* members still to fall back
    saved,      \* members the fallback has served
    spoiled,    \* chips half written when the lane was killed (history)
    stale,      \* stages up to qa done for another plan or an older run (history)
    byHand, kills

files == <<done, plan, recs, rows, tiles, torn, chips>>
work == <<at, step, cropped, todo, saved>>
vars == <<files, mode, stage, work, spoiled, stale, byHand, kills>>

Stages == <<"plan", "run", "manifest", "qa", "report">>
NoRec == [dump |-> "none"]
MembersOf(t) == {m \in Members : TaskOf[m] = t}
Task == Order[at]
Dumped(t) == tiles[t] # {} \/ torn[t] # "no"
Own == [force |-> FALSE, only |-> "all", scope |-> Tasks]

Init ==
    /\ done = {} /\ plan = {}
    /\ recs = [t \in Tasks |-> NoRec]
    /\ rows = [m \in Members |-> "none"]
    /\ tiles = [t \in Tasks |-> {}] /\ torn = [t \in Tasks |-> "no"]
    /\ chips = [m \in Members |-> "none"]
    /\ mode = Own
    /\ stage = "idle" /\ at = 1 /\ step = "next"
    /\ cropped = {} /\ todo = {} /\ saved = {}
    /\ spoiled = {} /\ stale = {} /\ byHand = 0 /\ kills = 0

\* main: the first stage from the i-th on that is wanted and not done.
NextStage(i, m, finished) ==
    LET Due(j) == /\ m.only = "all" \/ Stages[j] = "plan"
                  /\ m.force \/ Stages[j] \notin finished
        due == {j \in i..Len(Stages) : Due(j)}
    IN  IF due = {} THEN "idle" ELSE Stages[CHOOSE j \in due : \A k \in due : j <= k]

Start(m) ==
    /\ stage = "idle"
    /\ mode' = m
    /\ stage' = NextStage(1, m, done)
    /\ at' = 1 /\ step' = "next"
    /\ UNCHANGED <<files, cropped, todo, saved, spoiled, stale, kills>>

\* launch-wave: the lane's own command, as long as its gate is open.
Launch ==
    /\ "qa" \notin done
    /\ Start(Own)
    /\ UNCHANGED byHand

StartByHand ==
    /\ byHand < MaxByHand /\ byHand' = byHand + 1
    /\ \E s \in Scopes, f \in BOOLEAN, o \in {"all", "plan"} :
          Start([force |-> f, only |-> o, scope |-> s])

\* stage_plan: the candidates in scope, grouped.
Plan ==
    /\ stage = "plan"
    /\ plan' = mode.scope
    /\ stale' = IF plan' = plan THEN stale ELSE done \ {"plan", "report"}
    /\ done' = done \cup {"plan"}
    /\ stage' = NextStage(2, mode, done')
    /\ UNCHANGED <<recs, rows, tiles, torn, chips, mode, work, spoiled, byHand, kills>>

\* Mutant: the last task is left out.
Due_ButLast ==
    {i \in at..(Len(Order) - 1) : Order[i] \in plan /\ (mode.force \/ recs[Order[i]] = NoRec)}

\* Mutant: the tasks are looked through from the first again.
Due_FromFirst ==
    {i \in 1..Len(Order) : Order[i] \in plan /\ (mode.force \/ recs[Order[i]] = NoRec)}

\* stage_run: the tasks this run still has to do.
Due == {i \in at..Len(Order) : Order[i] \in plan /\ (mode.force \/ recs[Order[i]] = NoRec)}

BeginTask ==
    /\ stage = "run" /\ step = "next" /\ Due # {}
    /\ at' = CHOOSE i \in Due : \A j \in Due : i <= j
    /\ step' = "dump"
    /\ cropped' = {} /\ saved' = {} /\ todo' = MembersOf(Order[at'])
    /\ UNCHANGED <<files, mode, stage, spoiled, stale, byHand, kills>>

\* The lane ends with an exception.
Die ==
    /\ stage' = "idle"
    /\ UNCHANGED <<files, mode, work, spoiled, stale, byHand, kills>>

\* dump_region_tiles raises: scan_dump_tiles cannot open a tile, or its world
\* file is missing, in a folder it meant to reuse.
ScanRaises ==
    /\ stage = "run" /\ step = "dump" /\ torn[Task] = "unreadable"
    /\ Die

\* reused_existing: a folder with tiles is taken for the dump.
Reuse ==
    /\ stage = "run" /\ step = "dump" /\ Dumped(Task) /\ torn[Task] # "unreadable"
    /\ step' = IF torn[Task] = "truncated" THEN "fallback" ELSE "crop"
    /\ UNCHANGED <<files, mode, stage, at, cropped, todo, saved, spoiled, stale, byHand, kills>>

\* GEHI dumps what the vintage covers; with no tile at all the dump failed.
Dump ==
    /\ stage = "run" /\ step = "dump" /\ ~Dumped(Task)
    /\ tiles' = [tiles EXCEPT ![Task] = Covered \cap MembersOf(Task)]
    /\ step' = IF tiles'[Task] = {} THEN "fallback" ELSE "crop"
    /\ UNCHANGED <<done, plan, recs, rows, torn, chips, mode, stage, at, cropped, todo, saved,
                   spoiled, stale, byHand, kills>>

\* What a dump that is stopped leaves in its folder.
LeavesTiles(t) ==
    /\ \E some \in SUBSET (Covered \cap MembersOf(t)) : tiles' = [tiles EXCEPT ![t] = some]
    /\ \E how \in {"no", "truncated", "unreadable"} : torn' = [torn EXCEPT ![t] = how]

\* A return code, a timeout, or blocks that outlasted the attempts.
DumpFails ==
    /\ stage = "run" /\ step = "dump" /\ ~Dumped(Task)
    /\ LeavesTiles(Task)
    /\ step' = "fallback"
    /\ UNCHANGED <<done, plan, recs, rows, chips, mode, stage, at, cropped, todo, saved,
                   spoiled, stale, byHand, kills>>

\* Mutant: windows over holes of the mosaic are cropped like any other.
Crop_OverHoles ==
    /\ stage = "run" /\ step = "crop"
    /\ cropped' = MembersOf(Task)
    /\ chips' = [m \in Members |-> IF m \notin cropped' THEN chips[m]
                                   ELSE IF m \in tiles[Task] THEN "whole" ELSE "blank"]
    /\ spoiled' = spoiled \ cropped'
    /\ todo' = todo \ cropped' /\ step' = "fallback"
    /\ UNCHANGED <<done, plan, recs, rows, tiles, torn, mode, stage, at, saved, stale,
                   byHand, kills>>

\* A chip for each member whose window meets no hole and lies in the mosaic.
Crop ==
    /\ stage = "run" /\ step = "crop"
    /\ cropped' = tiles[Task]
    /\ chips' = [m \in Members |-> IF m \in cropped' THEN "whole" ELSE chips[m]]
    /\ spoiled' = spoiled \ cropped'
    /\ todo' = todo \ cropped' /\ step' = "fallback"
    /\ UNCHANGED <<done, plan, recs, rows, tiles, torn, mode, stage, at, saved, stale,
                   byHand, kills>>

\* The per-anchor download: a file that is there is taken (skipped_existing),
\* a download that fails leaves none.
FallBack(m) ==
    /\ m \in todo /\ stage = "run" /\ step = "fallback"
    /\ IF chips[m] # "none" THEN saved' = saved \cup {m} /\ UNCHANGED chips
       ELSE \/ saved' = saved \cup {m} /\ chips' = [chips EXCEPT ![m] = "whole"]
            \/ UNCHANGED <<chips, saved>>
    /\ todo' = todo \ {m}
    /\ UNCHANGED <<done, plan, recs, rows, tiles, torn, mode, stage, at, step, cropped,
                   spoiled, stale, byHand, kills>>

\* The sentinel of the task.
Record ==
    /\ stage = "run" /\ step = "fallback" /\ todo = {}
    /\ recs' = [recs EXCEPT ![Task] =
                   [dump |-> "done", crops |-> cropped, fallbacks |-> MembersOf(Task) \ cropped,
                    served |-> saved]]
    /\ step' = "purge"
    /\ UNCHANGED <<done, plan, rows, tiles, torn, chips, mode, stage, at, cropped, todo, saved,
                   spoiled, stale, byHand, kills>>

\* Mutant: only the folder of a dump that was cropped is purged.
Purge_Cropped ==
    /\ stage = "run" /\ step = "purge"
    /\ tiles' = IF cropped = {} THEN tiles ELSE [tiles EXCEPT ![Task] = {}]
    /\ torn' = IF cropped = {} THEN torn ELSE [torn EXCEPT ![Task] = "no"]
    /\ step' = "next" /\ at' = at + 1
    /\ UNCHANGED <<done, plan, recs, rows, chips, mode, stage, cropped, todo, saved, spoiled,
                   stale, byHand, kills>>

\* purge_task_intermediates
Purge ==
    /\ stage = "run" /\ step = "purge"
    /\ tiles' = [tiles EXCEPT ![Task] = {}] /\ torn' = [torn EXCEPT ![Task] = "no"]
    /\ step' = "next" /\ at' = at + 1
    /\ UNCHANGED <<done, plan, recs, rows, chips, mode, stage, cropped, todo, saved, spoiled,
                   stale, byHand, kills>>

RunDone ==
    /\ stage = "run" /\ step = "next" /\ Due = {}
    /\ done' = done \cup {"run"}
    /\ stale' = IF "run" \in stale THEN done \cap {"manifest", "qa"} ELSE stale
    /\ stage' = NextStage(3, mode, done')
    /\ UNCHANGED <<plan, recs, rows, tiles, torn, chips, mode, work, spoiled, byHand, kills>>

Recorded == {t \in Tasks : recs[t] # NoRec}

\* stage_manifest raises: no record, or one of a task that is not planned.
ManifestRaises ==
    /\ stage = "manifest" /\ (Recorded = {} \/ ~(Recorded \subseteq plan))
    /\ Die

\* The row of a member of a recorded task: its fallback, or its crop if the
\* file is still there.
RowOf(m) ==
    LET r == recs[TaskOf[m]]
    IN  IF m \in r.fallbacks THEN (IF m \in r.served THEN "ok" ELSE "failed")
        ELSE IF m \in r.crops /\ chips[m] # "none" THEN "ok" ELSE "failed"

Manifest ==
    /\ stage = "manifest" /\ Recorded # {} /\ Recorded \subseteq plan
    /\ rows' = [m \in Members |-> IF TaskOf[m] \in Recorded THEN RowOf(m) ELSE "none"]
    /\ done' = done \cup {"manifest"} /\ stale' = stale \ {"manifest"}
    /\ stage' = NextStage(4, mode, done')
    /\ UNCHANGED <<plan, recs, tiles, torn, chips, mode, work, spoiled, byHand, kills>>

\* stage_qa: quality_gate over the manifest.
QA ==
    /\ stage = "qa"
    /\ done' = done \cup {"qa"} /\ stale' = stale \ {"qa"}
    /\ stage' = NextStage(5, mode, done')
    /\ UNCHANGED <<plan, recs, rows, tiles, torn, chips, mode, work, spoiled, byHand, kills>>

\* stage_report: a summary of the run and of the gate.
Report ==
    /\ stage = "report"
    /\ done' = done \cup {"report"}
    /\ stage' = "idle"
    /\ UNCHANGED <<plan, recs, rows, tiles, torn, chips, mode, work, spoiled, stale, byHand,
                   kills>>

\* The lane is killed: in a dump, between crops, in a download, or elsewhere.
Kill ==
    /\ stage # "idle" /\ kills < MaxKills
    /\ kills' = kills + 1 /\ stage' = "idle"
    /\ IF stage = "run" /\ step = "dump" /\ ~Dumped(Task)
       THEN LeavesTiles(Task) ELSE UNCHANGED <<tiles, torn>>
    /\ IF stage = "run" /\ step = "crop"
       THEN \E some \in SUBSET tiles[Task] :
               /\ chips' = [m \in Members |-> IF m \in some THEN "whole" ELSE chips[m]]
               /\ spoiled' = spoiled \ some
       ELSE IF stage = "run" /\ step = "fallback"
       THEN \E some \in SUBSET {m \in todo : chips[m] = "none"} :
               /\ Cardinality(some) <= 1
               /\ chips' = [m \in Members |-> IF m \in some THEN "partial" ELSE chips[m]]
               /\ spoiled' = spoiled \cup some
       ELSE UNCHANGED <<chips, spoiled>>
    /\ UNCHANGED <<done, plan, recs, rows, mode, work, stale, byHand>>

Steps ==
    \/ Plan \/ BeginTask \/ ScanRaises \/ Reuse \/ Dump \/ DumpFails \/ Crop
    \/ (\E m \in Members : FallBack(m)) \/ Record \/ Purge \/ RunDone
    \/ ManifestRaises \/ Manifest \/ QA \/ Report

Next == Launch \/ StartByHand \/ Steps \/ Kill

Spec == Init /\ [][Next]_vars

\* The lane runs while it is up, and is launched again until it is done.
FairSpec == Spec /\ WF_vars(Steps) /\ WF_vars(Launch)

-----------------------------------------------------------------------------
(* Properties.                                                             *)

TypeOK ==
    /\ done \subseteq {"plan", "run", "manifest", "qa", "report"} /\ plan \subseteq Tasks
    /\ stage \in {"idle", "plan", "run", "manifest", "qa", "report"}
    /\ rows \in [Members -> {"none", "ok", "failed"}]
    /\ chips \in [Members -> {"none", "whole", "partial"}]
    /\ tiles \in [Tasks -> SUBSET Covered]
    /\ at \in 1..(Len(Order) + 1) /\ cropped \cup todo \cup saved \subseteq Members

\* A chip the manifest calls ok shows its member on every pixel, whatever dumps
\* failed, tiles were missing or runs were cut short: the exception is the file
\* a killed download leaves, which the next run takes for a chip.
OkRowIsWhole ==
    \A m \in Members : rows[m] = "ok" => chips[m] = "whole" \/ m \in spoiled

\* The manifest of a finished lane has a row for every member of its plan and
\* for no other, so the denominator of the gate is the plan's; stages left done
\* by an earlier plan are the exception.
EveryMemberHasRow ==
    "qa" \in done /\ stage = "idle" /\ stale = {} =>
        \A m \in Members : rows[m] # "none" <=> TaskOf[m] \in plan

\* Dump folders do not pile up: one belongs to the task at hand, and every
\* other one cost a kill.
IntermediatesPurged ==
    Cardinality({t \in Tasks : Dumped(t)}) <= kills + 1

Stuck ==
    \/ \E t \in plan : torn[t] = "unreadable"
    \/ Recorded \ plan # {}

\* A lane that is launched again after every kill comes through its gate, or meets
\* one of two walls: a tile file it cannot open, or a record its plan lacks.
LaneFinishes == <>[](stage = "idle" /\ "qa" \in done) \/ <>[]Stuck

=============================================================================

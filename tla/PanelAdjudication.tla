------------------------- MODULE PanelAdjudication -------------------------
(***************************************************************************)
(* The V3 short-gap adjudication (run_r4_shortgap_adjudication.py): two    *)
(* blinded model arms are smoked and run over a panel, a human reference   *)
(* is locked, the better arm is selected and asked about all other         *)
(* anchors.  RUN_LOCK.json keeps one exact model version per arm.          *)
(*                                                                         *)
(* What a rep says matters only for the third one: an answer is the alias  *)
(* it was asked of, the version that gave it and whether another rep is    *)
(* asked after it.  An arm stands for the alias its sealed map gives it.   *)
(* QUARANTINED_MODEL_VERSION_DRIFT.json is written and never read.         *)
(***************************************************************************)
EXTENDS Naturals, FiniteSets

CONSTANTS
    Panel,          \* anchors of the panel
    SmokeAnchors,   \* the first of them
    Remainder,      \* anchors of the production
    Workers,
    Versions,
    NoVersion,
    MaxMishaps      \* bound: kills, and reference or selection made again

ASSUME PanelAdjudicationAssumption ==
    /\ IsFiniteSet(Panel) /\ IsFiniteSet(Remainder)
    /\ SmokeAnchors \subseteq Panel /\ Panel \cap Remainder = {}
    /\ Workers \in Nat \ {0} /\ MaxMishaps \in Nat
    /\ NoVersion \notin Versions

VARIABLES
    rep,        \* reps/<arm>/<anchor>/rep<n>.json
    lock,       \* model_arms in RUN_LOCK.json
    table,      \* panel/consensus_arm_<arm>.parquet: the version it rests on
    human,      \* the arm the locked human reference makes the winner
    selection,  \* model_selection.json and its copy in the lock
    published,  \* consensus.parquet and the override sidecar
    run,        \* the pool at work
    memory,     \* model_arms in the process's lock
    job,
    mishaps

files == <<rep, lock, table, human, selection, published>>
process == <<run, memory, job>>
panelVars == <<files, process, mishaps>>

-----------------------------------------------------------------------------
Arms == {"A", "B"}
Smokes == {"A_SMOKE", "B_SMOKE"}
Pools == Arms \cup Smokes \cup {"PRODUCTION"}
Idle == "idle"
Anchors == Panel \cup Remainder
Reps == 1..3

NoModel == [alias |-> "none", version |-> NoVersion]
Locked == [alias : Arms, version : Versions]

SmokeOf(arm) == IF arm = "A" THEN "A_SMOKE" ELSE "B_SMOKE"
Packets(pool) ==
    CASE pool \in Smokes -> SmokeAnchors
      [] pool \in Arms -> Panel
      [] OTHER -> Remainder

\* The alias a pool asks: the production asks the winner's.
Alias(pool) ==
    CASE pool \in {"A", "A_SMOKE"} -> "A"
      [] pool \in {"B", "B_SMOKE"} -> "B"
      [] OTHER -> selection.alias

Unasked == [by |-> NoModel, more |-> FALSE]
Stored(pool, a, r) == rep[pool][a][r] # Unasked
VersionsIn(pool) ==
    {rep[pool][a][r].by.version : a \in Anchors, r \in Reps} \ {NoVersion}

Task(at, r) == [at |-> at, rep |-> r]
Todo == Task("todo", 1)
Done == Task("done", 0)
Raised == Task("raised", 0)
AtWork == {a \in Anchors : job[a].at \in {"look", "call"}}
Queue(pool) == [a \in Anchors |-> IF a \in Packets(pool) THEN Todo ELSE Done]
Nothing == [a \in Anchors |-> Done]

PanelInit ==
    /\ rep = [p \in Pools |-> [a \in Anchors |-> [r \in Reps |-> Unasked]]]
    /\ lock = [p \in Pools |-> NoModel]
    /\ table = [p \in Arms |-> NoVersion]
    /\ human = "none"
    /\ selection = NoModel
    /\ published = NoModel
    /\ run = Idle
    /\ memory = [p \in Pools |-> NoModel]
    /\ job = Nothing
    /\ mishaps = 0

-----------------------------------------------------------------------------
\* run_panel up to its first pool.
StartPanel ==
    /\ run = Idle
    /\ run' = "A_SMOKE" /\ memory' = lock
    /\ job' = Queue("A_SMOKE")
    /\ UNCHANGED <<files, mishaps>>

\* run_production up to its pool: a selection that names a winner, and a
\* production lock that agrees with it.
StartProduction ==
    /\ run = Idle
    /\ selection \in Locked /\ lock["PRODUCTION"] = selection
    /\ run' = "PRODUCTION" /\ memory' = lock
    /\ job' = Queue("PRODUCTION")
    /\ UNCHANGED <<files, mishaps>>

TakeUp(a) ==
    /\ run # Idle /\ job[a] = Todo
    /\ Cardinality(AtWork) < Workers
    /\ job' = [job EXCEPT ![a] = Task("look", 1)]
    /\ UNCHANGED <<files, run, memory, mishaps>>

\* run_anchor_reps and needs_third_rep: what may follow rep r.
More(r) == CASE r = 1 -> {TRUE} [] r = 2 -> BOOLEAN [] r = 3 -> {FALSE}
After(r, more) == IF more THEN Task("look", r + 1) ELSE Done

\* Mutant: an answer on disk is not compared with the locked version.
ResumeFits_Always(a, r) == TRUE

\* one(): a version is only compared where the arm has one already.
ResumeFits(a, r) ==
    LET by == rep[run][a][r].by
    IN  /\ by.alias = Alias(run)
        /\ memory[run] # NoModel => by.version = memory[run].version

Reuse(a) ==
    LET r == job[a].rep
    IN  /\ job[a].at = "look" /\ Stored(run, a, r)
        /\ job' = [job EXCEPT ![a] =
                       IF ResumeFits(a, r) THEN After(r, rep[run][a][r].more) ELSE Raised]
        /\ UNCHANGED <<files, run, memory, mishaps>>

Ask(a) ==
    /\ job[a].at = "look" /\ ~Stored(run, a, job[a].rep)
    /\ job' = [job EXCEPT ![a].at = "call"]
    /\ UNCHANGED <<files, run, memory, mishaps>>

\* admit_exact_version
Admits(version) ==
    /\ version # NoVersion
    /\ memory[run] \in {NoModel, [alias |-> Alias(run), version |-> version]}

\* A call that raises, or an admitted answer that is not valid: retried, or
\* the last attempt of the rep.  The version is established all the same.
Fail(a, version) ==
    /\ job[a].at = "call"
    /\ version # NoVersion => Admits(version)
    /\ memory' = IF version = NoVersion THEN memory
                 ELSE [memory EXCEPT ![run] = [alias |-> Alias(run), version |-> version]]
    /\ \E t \in {job[a], Raised} : job' = [job EXCEPT ![a] = t]
    /\ UNCHANGED <<files, run, mishaps>>

\* A valid answer: call_model_rep writes the lock beside the reps, which is
\* the RUN_LOCK.json that later runs read only in production.
Answer(a, version, more) ==
    LET r == job[a].rep
        admitted == [alias |-> Alias(run), version |-> version]
    IN  /\ job[a].at = "call" /\ Admits(version) /\ more \in More(r)
        /\ memory' = [memory EXCEPT ![run] = admitted]
        /\ lock' = IF run = "PRODUCTION" THEN memory' ELSE lock
        /\ rep' = [rep EXCEPT ![run][a][r] = [by |-> admitted, more |-> more]]
        /\ job' = [job EXCEPT ![a] = After(r, more)]
        /\ UNCHANGED <<table, human, selection, published, run, mishaps>>

\* MODEL_VERSION_DRIFT: _quarantine_version_drift moves the published tables
\* of a production away, and the task raises.
Drift(a, version) ==
    /\ job[a].at = "call" /\ ~Admits(version)
    /\ published' = IF run = "PRODUCTION" THEN NoModel ELSE published
    /\ job' = [job EXCEPT ![a] = Raised]
    /\ UNCHANGED <<rep, lock, table, human, selection, run, memory, mishaps>>

-----------------------------------------------------------------------------
\* The pool is left when every task has ended, those still queued when one
\* raised too.
Ended == run # Idle /\ \A a \in Anchors : job[a] \in {Done, Raised}
AllDone == Ended /\ \A a \in Anchors : job[a] = Done

Quit == run' = Idle /\ memory' = [p \in Pools |-> NoModel]
        /\ job' = Nothing

\* A future that raised, or a smoke of two versions.
Abort ==
    /\ Ended
    /\ \/ \E a \in Anchors : job[a] = Raised
       \/ run \in Smokes /\ Cardinality(VersionsIn(run)) # 1
    /\ Quit
    /\ UNCHANGED <<files, mishaps>>

\* Mutant: the versions of a smoke are not compared.
OneSmokeVersion_Any(arm) == VersionsIn(SmokeOf(arm)) # {}

OneSmokeVersion(arm) == Cardinality(VersionsIn(SmokeOf(arm))) = 1

\* The smoke's version becomes the arm's, and the arm's panel begins.
SmokePasses(arm) ==
    /\ AllDone /\ run = SmokeOf(arm) /\ OneSmokeVersion(arm)
    /\ \E version \in VersionsIn(run) :
           memory' = [memory EXCEPT ![arm] = [alias |-> arm, version |-> version]]
    /\ lock' = memory'
    /\ run' = arm /\ job' = Queue(arm)
    /\ UNCHANGED <<rep, table, human, selection, published, mishaps>>

\* The arm's tables are written; after A comes B's smoke.
ArmDone(arm) ==
    /\ AllDone /\ run = arm
    /\ table' = [table EXCEPT ![arm] = memory[arm].version]
    /\ lock' = memory
    /\ IF arm = "A"
       THEN run' = "B_SMOKE" /\ job' = Queue("B_SMOKE") /\ UNCHANGED memory
       ELSE Quit
    /\ UNCHANGED <<rep, human, selection, published, mishaps>>

\* build_and_lock_human_reference: what it says decides who wins.
LockHuman(winner) ==
    /\ run = Idle
    /\ human # "none" => mishaps < MaxMishaps
    /\ mishaps' = IF human = "none" THEN mishaps ELSE mishaps + 1
    /\ human' = winner
    /\ UNCHANGED <<rep, lock, table, selection, published, process>>

\* score_and_select_panel_model; neither arm may be competent.
Select ==
    /\ run = Idle /\ human # "none"
    /\ \A arm \in Arms : table[arm] # NoVersion
    /\ IF human = "neither"
       THEN selection' = NoModel /\ UNCHANGED lock
       ELSE /\ selection' = [alias |-> human, version |-> lock[human].version]
            /\ lock' = [lock EXCEPT !["PRODUCTION"] = selection']
    /\ UNCHANGED <<rep, table, human, published, process, mishaps>>

\* run_production: the combined consensus and the override sidecar.
Publish ==
    /\ AllDone /\ run = "PRODUCTION"
    /\ published' = selection
    /\ lock' = memory
    /\ Quit
    /\ UNCHANGED <<rep, table, human, selection, mishaps>>

KillPanel ==
    /\ run # Idle /\ mishaps < MaxMishaps
    /\ mishaps' = mishaps + 1
    /\ Quit
    /\ UNCHANGED files

Work(a) ==
    \/ TakeUp(a) \/ Reuse(a) \/ Ask(a)
    \/ \E v \in Versions \cup {NoVersion} :
           \/ Fail(a, v) \/ Drift(a, v)
           \/ \E more \in BOOLEAN : Answer(a, v, more)

PanelNext ==
    \/ StartPanel \/ StartProduction
    \/ \E a \in Anchors : Work(a)
    \/ Abort \/ Publish \/ KillPanel \/ Select
    \/ \E arm \in Arms : SmokePasses(arm) \/ ArmDone(arm)
    \/ \E winner \in Arms \cup {"neither"} : LockHuman(winner)

PanelSpec == PanelInit /\ [][PanelNext]_panelVars

-----------------------------------------------------------------------------
PanelTypeOK ==
    /\ rep \in [Pools -> [Anchors -> [Reps ->
                    [by : Locked, more : BOOLEAN] \cup {Unasked}]]]
    /\ lock \in [Pools -> Locked \cup {NoModel}]
    /\ memory \in [Pools -> Locked \cup {NoModel}]
    /\ table \in [Arms -> Versions \cup {NoVersion}]
    /\ human \in Arms \cup {"neither", "none"}
    /\ {selection, published} \subseteq Locked \cup {NoModel}
    /\ run \in Pools \cup {Idle}
    /\ job \in [Anchors -> [at : {"todo", "look", "call", "done", "raised"}, rep : Nat]]
    /\ mishaps \in 0..MaxMishaps

\* The panel table of an arm rests on answers of one version, the one that
\* its smoke was of, through kills and resumes: a competence is that of one model.
ArmIsOneModel ==
    \A arm \in Arms : table[arm] # NoVersion =>
        VersionsIn(arm) = {table[arm]} /\ VersionsIn(SmokeOf(arm)) = {table[arm]}

\* What is published was answered by the model that won the panel, every
\* answer of it, and by its exact version.
PublishedByTheWinner ==
    published # NoModel =>
        /\ published.version = table[published.alias]
        /\ \A a \in Remainder, r \in Reps :
               Stored("PRODUCTION", a, r) => rep["PRODUCTION"][a][r].by = published

=============================================================================

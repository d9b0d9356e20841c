-------------------------- MODULE RegionLaneProofs --------------------------
(***************************************************************************)
(* Theorems about the region lane: for any tasks, members, order and       *)
(* plans, and any number of kills and runs by hand, what the manifest      *)
(* calls ok is a chip, and the manifest is complete.                       *)
(***************************************************************************)
EXTENDS RegionLane, Integers, FiniteSetTheorems, WellFoundedInduction, TLAPS

\* A set of numbers that is not empty has a smallest one.
LEMMA SmallestOf ==
    ASSUME NEW S \in SUBSET Nat, S # {}
    PROVE  \E x \in S : \A y \in S : x <= y
<1>1. PICK x \in S : \A y \in S : ~(<<y, x>> \in OpToRel(<, Nat))
  BY NatLessThanWellFounded, WFMin
<1>2. \A y \in S : ~(y < x)
  BY <1>1 DEF OpToRel
<1> QED
  BY <1>2

-----------------------------------------------------------------------------
(* Types.                                                                  *)

Rec == [dump : {"done"}, crops : SUBSET Members, fallbacks : SUBSET Members,
        served : SUBSET Members]
TaskSteps == {"next", "dump", "crop", "fallback", "purge"}
Runs == [force : BOOLEAN, only : {"all", "plan"}, scope : SUBSET Tasks]

Shape ==
    /\ done \subseteq {"plan", "run", "manifest", "qa", "report"} /\ plan \subseteq Tasks
    /\ recs \in [Tasks -> Rec \cup {NoRec}]
    /\ rows \in [Members -> {"none", "ok", "failed"}]
    /\ tiles \in [Tasks -> SUBSET Members]
    /\ torn \in [Tasks -> {"no", "truncated", "unreadable"}]
    /\ chips \in [Members -> {"none", "whole", "partial"}]
    /\ mode \in Runs
    /\ stage \in {"idle", "plan", "run", "manifest", "qa", "report"} /\ step \in TaskSteps
    /\ at \in Nat /\ at >= 1
    /\ stage = "plan" => at = 1 /\ step = "next"
    /\ stage = "run" /\ step # "next" => at \in 1..Len(Order)
    /\ cropped \subseteq Members /\ todo \subseteq Members
    /\ saved \subseteq Members /\ spoiled \subseteq Members
    /\ stale \subseteq {"run", "manifest", "qa"}

\* The next stage is a later one; a stage is passed over when it is done, or at
\* the end of an only-plan run.
LEMMA NextStageIs ==
    ASSUME NEW i \in 1..5, NEW m \in Runs, NEW f
    PROVE  /\ NextStage(i, m, f) \in {"idle", "plan", "run", "manifest", "qa", "report"}
           /\ NextStage(i, m, f) = "plan" => i = 1
           /\ NextStage(i, m, f) = "run" => i <= 2
           /\ NextStage(i, m, f) = "manifest" => i <= 3 /\ (i = 3 \/ "run" \in f)
           /\ NextStage(i, m, f) = "qa" => /\ i <= 4
                                           /\ i <= 2 => "run" \in f
                                           /\ i <= 3 => "manifest" \in f
<1> DEFINE Wanted(j) == /\ m.only = "all" \/ Stages[j] = "plan"
                        /\ m.force \/ Stages[j] \notin f
           due == {j \in i..Len(Stages) : Wanted(j)}
           least == CHOOSE j \in due : \A k \in due : j <= k
<1>1. NextStage(i, m, f) = IF due = {} THEN "idle" ELSE Stages[least]
  BY Zenon DEF NextStage
<1>2. CASE due = {}
  BY <1>1, <1>2
<1>3. CASE due # {}
  <2>1. Len(Stages) = 5 /\ Stages[1] = "plan" /\ Stages[2] = "run"
        /\ Stages[3] = "manifest" /\ Stages[4] = "qa" /\ Stages[5] = "report"
    BY DEF Stages
  <2>2. due \in SUBSET Nat
    BY <2>1
  <2>3. \E x \in due : \A y \in due : x <= y
    BY <1>3, <2>2, SmallestOf
  <2>4. least \in due /\ \A k \in due : least <= k
    BY <2>3
  <2> HIDE DEF least
  <2>5. least \in i..5 /\ Wanted(least) /\ least \in {1, 2, 3, 4, 5}
    BY <2>1, <2>4
  <2>6. \A k \in i..5 : k < least => ~Wanted(k)
    <3> SUFFICES ASSUME NEW k \in i..5, k < least, Wanted(k) PROVE FALSE
      OBVIOUS
    <3>1. k \in due
      BY <2>1
    <3>2. least <= k /\ k \in Nat /\ least \in Nat
      BY <2>4, <2>5, <3>1
    <3> QED
      BY <3>2
  <2>7. m.only \in {"all", "plan"} /\ m.force \in BOOLEAN
    BY DEF Runs
  <2>8. NextStage(i, m, f) = Stages[least]
    BY <1>1, <1>3
  <2>9. least > 1 => m.only = "all"
    BY <2>1, <2>5
  <2>10. least > 2 /\ i <= 2 => "run" \in f
    <3> SUFFICES ASSUME least > 2, i <= 2 PROVE "run" \in f
      OBVIOUS
    <3>1. 2 \in i..5 /\ 2 < least
      BY <2>5
    <3>2. ~Wanted(2)
      BY <2>6, <3>1
    <3>3. m.only = "all"
      BY <2>5, <2>9
    <3> QED
      BY <2>1, <3>2, <3>3
  <2>11. least > 3 /\ i <= 3 => "manifest" \in f
    <3> SUFFICES ASSUME least > 3, i <= 3 PROVE "manifest" \in f
      OBVIOUS
    <3>1. 3 \in i..5 /\ 3 < least
      BY <2>5
    <3>2. ~Wanted(3)
      BY <2>6, <3>1
    <3>3. m.only = "all"
      BY <2>5, <2>9
    <3> QED
      BY <2>1, <3>2, <3>3
  <2> HIDE DEF due, Wanted
  <2>12. CASE least = 1
    BY <2>1, <2>5, <2>8, <2>12
  <2>13. CASE least = 2
    BY <2>1, <2>5, <2>8, <2>13
  <2>14. CASE least = 3
    BY <2>1, <2>5, <2>8, <2>10, <2>14
  <2>15. CASE least = 4
    BY <2>1, <2>5, <2>8, <2>10, <2>11, <2>15
  <2>16. CASE least = 5
    BY <2>1, <2>5, <2>8, <2>16
  <2> QED
    BY <2>5, <2>12, <2>13, <2>14, <2>15, <2>16
<1> QED
  BY <1>2, <1>3

USE LaneAssumption

\* The task at hand is a task.
LEMMA TaskIsOne == Shape /\ stage = "run" /\ step # "next" => Task \in Tasks
  BY DEF Shape, Task

\* Every run the lane can be started with is one.
LEMMA RunsAreRuns ==
    /\ Own \in Runs
    /\ \A s \in Scopes, f \in BOOLEAN, o \in {"all", "plan"} :
          [force |-> f, only |-> o, scope |-> s] \in Runs
  BY DEF Own, Runs

\* The types hold at first.
LEMMA ShapeInit == Init => Shape
<1>1. NoRec \in Rec \cup {NoRec}
  OBVIOUS
<1> QED
  BY <1>1, RunsAreRuns DEF Init, Shape, TaskSteps

\* Every step keeps the types.
LEMMA ShapeStep == Shape /\ [Next]_vars => Shape'
<1> SUFFICES ASSUME Shape, [Next]_vars PROVE Shape'
  OBVIOUS
<1> USE DEF Shape, TaskSteps, files, work
<1>0. stage = "run" /\ step # "next" => Task \in Tasks
  BY TaskIsOne
<1>1. ASSUME NEW m \in Runs, Start(m) PROVE Shape'
  BY <1>1, NextStageIs DEF Start
<1>2. CASE Launch
  BY <1>1, <1>2, RunsAreRuns DEF Launch
<1>3. CASE StartByHand
  BY <1>1, <1>3, RunsAreRuns DEF StartByHand
<1>4. CASE Plan
  <2>1. mode.scope \subseteq Tasks
    BY DEF Runs
  <2>2. stage' \in {"idle", "plan", "run", "manifest", "qa", "report"}
    BY <1>4, NextStageIs DEF Plan
  <2>3. stage' # "plan" /\ step' = "next"
    BY <1>4, NextStageIs DEF Plan
  <2> QED
    BY <1>4, <2>1, <2>2, <2>3 DEF Plan
<1>5. CASE BeginTask
  <2>0. Len(Order) \in Nat
    OBVIOUS
  <2>1. Due \in SUBSET Nat /\ Due # {}
    <3>1. Due \subseteq at..Len(Order)
      BY DEF Due
    <3> QED
      BY <1>5, <2>0, <3>1 DEF BeginTask
  <2>2. \E i \in Due : \A j \in Due : i <= j
    BY <2>1, SmallestOf
  <2>3. at' \in Due
    BY <1>5, <2>2 DEF BeginTask
  <2>4. at' \in 1..Len(Order)
    BY <2>3 DEF Due
  <2> QED
    BY <1>5, <2>4 DEF BeginTask, MembersOf
<1>6. CASE ScanRaises \/ ManifestRaises
  BY <1>6 DEF ScanRaises, ManifestRaises, Die
<1>7. CASE Reuse
  BY <1>7 DEF Reuse
<1>8. CASE Dump
  BY <1>0, <1>8 DEF Dump
<1>9. CASE DumpFails
  BY <1>0, <1>9 DEF DumpFails, LeavesTiles
<1>10. CASE Crop
  BY <1>0, <1>10 DEF Crop
<1>11. ASSUME NEW m \in Members, FallBack(m) PROVE Shape'
  <2>1. chips' \in [Members -> {"none", "whole", "partial"}]
    BY <1>11 DEF FallBack
  <2>2. saved' \subseteq Members /\ todo' \subseteq Members
    BY <1>11 DEF FallBack
  <2> QED
    BY <1>11, <2>1, <2>2 DEF FallBack
<1>12. CASE Record
  <2>1. [dump |-> "done", crops |-> cropped, fallbacks |-> MembersOf(Task) \ cropped,
         served |-> saved] \in Rec
    BY DEF Rec, MembersOf
  <2> QED
    BY <1>0, <1>12, <2>1 DEF Record
<1>13. CASE Purge
  BY <1>0, <1>13 DEF Purge
<1>14. CASE RunDone
  <2>1. stage' \in {"idle", "plan", "run", "manifest", "qa", "report"} /\ stage' \notin {"plan", "run"}
    BY <1>14, NextStageIs DEF RunDone
  <2> QED
    BY <1>14, <2>1 DEF RunDone
<1>15. CASE Manifest
  <2>1. stage' \in {"idle", "plan", "run", "manifest", "qa", "report"} /\ stage' \notin {"plan", "run"}
    BY <1>15, NextStageIs DEF Manifest
  <2>2. \A m \in Members : RowOf(m) \in {"ok", "failed"}
    BY DEF RowOf
  <2> QED
    BY <1>15, <2>1, <2>2 DEF Manifest
<1>16. CASE QA \/ Report
  <2>1. stage' \in {"idle", "plan", "run", "manifest", "qa", "report"}
        /\ stage' \notin {"plan", "run"}
    BY <1>16, NextStageIs DEF QA, Report
  <2> QED
    BY <1>16, <2>1 DEF QA, Report
<1>17. CASE Kill
  <2>1. /\ UNCHANGED <<done, plan, recs, rows, mode, work, stale>> /\ stage' = "idle"
    BY <1>17 DEF Kill
  <2>2. tiles' \in [Tasks -> SUBSET Members]
        /\ torn' \in [Tasks -> {"no", "truncated", "unreadable"}]
    <3>1. CASE stage = "run" /\ step = "dump" /\ ~Dumped(Task)
      <4>1. PICK some \in SUBSET (Covered \cap MembersOf(Task)) :
               tiles' = [tiles EXCEPT ![Task] = some]
        BY <1>17, <3>1, Zenon DEF Kill, LeavesTiles
      <4>2. PICK how \in {"no", "truncated", "unreadable"} :
               torn' = [torn EXCEPT ![Task] = how]
        BY <1>17, <3>1, Zenon DEF Kill, LeavesTiles
      <4> QED
        BY <1>0, <4>1, <4>2
    <3>2. CASE ~(stage = "run" /\ step = "dump" /\ ~Dumped(Task))
      BY <1>17, <3>2, Zenon DEF Kill
    <3> QED
      BY <3>1, <3>2
  <2>3. chips' \in [Members -> {"none", "whole", "partial"}] /\ spoiled' \subseteq Members
    <3>1. CASE stage = "run" /\ step = "crop"
      <4>1. PICK some \in SUBSET tiles[Task] :
               /\ chips' = [m \in Members |-> IF m \in some THEN "whole" ELSE chips[m]]
               /\ spoiled' = spoiled \ some
        BY <1>17, <3>1 DEF Kill
      <4> QED
        BY <4>1
    <3>2. CASE stage = "run" /\ step = "fallback"
      <4>1. PICK some \in SUBSET {m \in todo : chips[m] = "none"} :
               /\ chips' = [m \in Members |-> IF m \in some THEN "partial" ELSE chips[m]]
               /\ spoiled' = spoiled \cup some
        BY <1>17, <3>2 DEF Kill
      <4> QED
        BY <4>1
    <3>3. CASE ~(stage = "run" /\ step = "crop") /\ ~(stage = "run" /\ step = "fallback")
      BY <1>17, <3>3 DEF Kill
    <3> QED
      BY <3>1, <3>2, <3>3
  <2> QED
    BY <2>1, <2>2, <2>3
<1>18. CASE UNCHANGED vars
  BY <1>18 DEF vars
<1> QED
  BY <1>2, <1>3, <1>4, <1>5, <1>6, <1>7, <1>8, <1>9, <1>10, <1>11, <1>12, <1>13, <1>14,
     <1>15, <1>16, <1>17, <1>18 DEF Next, Steps

-----------------------------------------------------------------------------
(* What is called ok is a chip.                                            *)

\* A chip that is there stays; a fallback, a record and a row only speak of
\* one that is; and half a chip is the work of a kill.
ChipInv ==
    /\ \A m \in Members : chips[m] = "partial" => m \in spoiled
    /\ \A m \in saved : chips[m] # "none"
    /\ \A t \in Tasks : recs[t] # NoRec => \A m \in recs[t].served : chips[m] # "none"
    /\ \A m \in Members : rows[m] = "ok" => chips[m] # "none"

\* Every step keeps what is known of the chips.
LEMMA ChipStep == Shape /\ ChipInv /\ [Next]_vars => ChipInv'
<1> SUFFICES ASSUME Shape, ChipInv, [Next]_vars PROVE ChipInv'
  OBVIOUS
<1> USE DEF files, work
<1>0. stage = "run" /\ step # "next" => Task \in Tasks
  BY TaskIsOne
<1>1. ASSUME UNCHANGED <<recs, rows, chips, spoiled>>, saved' = saved \/ saved' = {}
      PROVE  ChipInv'
  BY <1>1 DEF ChipInv
<1>2. ASSUME UNCHANGED <<recs, rows, saved>>,
             \A m \in Members : chips[m] # "none" => chips'[m] # "none",
             \A m \in Members : chips'[m] = "partial" => m \in spoiled'
      PROVE  ChipInv'
  <2>1. \A t \in Tasks : recs[t] # NoRec => recs[t].served \subseteq Members
    BY DEF Shape, Rec
  <2> QED
    BY <1>2, <2>1 DEF ChipInv, Shape
<1>3. CASE Launch \/ StartByHand \/ Plan \/ BeginTask \/ ScanRaises \/ Reuse \/ Dump
           \/ DumpFails \/ Purge \/ RunDone \/ ManifestRaises \/ QA \/ Report
           \/ UNCHANGED vars
  BY <1>1, <1>3 DEF Launch, StartByHand, Start, Plan, BeginTask, ScanRaises, Reuse, Dump,
     DumpFails, Purge, RunDone, ManifestRaises, Die, QA, Report, vars
<1>4. CASE Crop
  <2>1. \A m \in Members : chips'[m] = IF m \in cropped' THEN "whole" ELSE chips[m]
    BY <1>4 DEF Crop
  <2> QED
    BY <1>2, <1>4, <2>1 DEF Crop, ChipInv
<1>5. ASSUME NEW m \in Members, FallBack(m) PROVE ChipInv'
  <2>1. /\ \A n \in Members : chips[n] # "none" => chips'[n] # "none"
        /\ \A n \in Members : chips'[n] = "partial" => chips[n] = "partial"
        /\ \A n \in saved' : n \in saved \/ (n = m /\ chips'[m] # "none")
        /\ UNCHANGED <<recs, rows, spoiled>>
    BY <1>5 DEF FallBack, Shape
  <2>2. \A t \in Tasks : recs[t] # NoRec => recs[t].served \subseteq Members
    BY DEF Shape, Rec
  <2>3. saved \subseteq Members
    BY DEF Shape
  <2> QED
    BY <2>1, <2>2, <2>3 DEF ChipInv
<1>6. CASE Record
  <2> DEFINE r == [dump |-> "done", crops |-> cropped,
                   fallbacks |-> MembersOf(Task) \ cropped, served |-> saved]
  <2>1. \A t \in Tasks : recs'[t] = IF t = Task THEN r ELSE recs[t]
    BY <1>6 DEF Record, Shape
  <2>2. r.served = saved
    OBVIOUS
  <2>3. \A t \in Tasks : recs'[t] # NoRec => \A m \in recs'[t].served : chips[m] # "none"
    <3> HIDE DEF r
    <3> QED
      BY <2>1, <2>2 DEF ChipInv
  <2>4. UNCHANGED <<rows, chips, spoiled, saved>>
    BY <1>6 DEF Record
  <2> QED
    BY <2>3, <2>4 DEF ChipInv
<1>7. CASE Manifest
  <2>1. ASSUME NEW m \in Members, rows'[m] = "ok" PROVE chips[m] # "none"
    <3>1. TaskOf[m] \in Recorded /\ RowOf(m) = "ok"
      BY <1>7, <2>1 DEF Manifest
    <3>2. TaskOf[m] \in Tasks /\ recs[TaskOf[m]] # NoRec
      BY <3>1 DEF Recorded
    <3>3. m \in recs[TaskOf[m]].served \/ chips[m] # "none"
      BY <3>1 DEF RowOf
    <3> QED
      BY <3>2, <3>3 DEF ChipInv
  <2>2. UNCHANGED <<recs, chips, spoiled, saved>>
    BY <1>7 DEF Manifest
  <2> QED
    BY <2>1, <2>2 DEF ChipInv
<1>8. CASE Kill
  <2>1. UNCHANGED <<recs, rows, saved>>
    BY <1>8 DEF Kill
  <2>2. CASE stage = "run" /\ step = "crop"
    <3>1. PICK some \in SUBSET tiles[Task] :
             /\ chips' = [m \in Members |-> IF m \in some THEN "whole" ELSE chips[m]]
             /\ spoiled' = spoiled \ some
      BY <1>8, <2>2 DEF Kill
    <3> QED
      BY <1>2, <2>1, <3>1 DEF ChipInv
  <2>3. CASE stage = "run" /\ step = "fallback"
    <3>1. PICK some \in SUBSET {m \in todo : chips[m] = "none"} :
             /\ chips' = [m \in Members |-> IF m \in some THEN "partial" ELSE chips[m]]
             /\ spoiled' = spoiled \cup some
      BY <1>8, <2>3 DEF Kill
    <3> QED
      BY <1>2, <2>1, <3>1 DEF ChipInv
  <2>4. CASE ~(stage = "run" /\ step = "crop") /\ ~(stage = "run" /\ step = "fallback")
    <3>1. UNCHANGED <<chips, spoiled>>
      BY <1>8, <2>4 DEF Kill
    <3> QED
      BY <1>1, <2>1, <3>1
  <2> QED
    BY <2>2, <2>3, <2>4
<1> QED
  BY <1>3, <1>4, <1>5, <1>6, <1>7, <1>8 DEF Next, Steps

-----------------------------------------------------------------------------
(* The manifest is complete.                                               *)

\* A run that is done for this plan has recorded its tasks, a manifest that is
\* done for them has their rows, and a run that goes on has the tasks behind it.
RunIsComplete ==
    "run" \in done /\ "run" \notin stale => plan \subseteq Recorded
RowsAreThePlan ==
    "manifest" \in done /\ "manifest" \notin stale /\ "run" \notin stale =>
        \A m \in Members : rows[m] # "none" <=> TaskOf[m] \in plan
InSequence ==
    /\ stage \in {"manifest", "qa"} \/ "manifest" \in done => "run" \in done
    /\ stage = "qa" \/ "qa" \in done => "manifest" \in done
Behind ==
    stage = "run" =>
        /\ \A i \in 1..Len(Order) : i < at /\ Order[i] \in plan => Order[i] \in Recorded
        /\ step = "purge" => Task \in Recorded
PlanInv == RunIsComplete /\ RowsAreThePlan /\ InSequence /\ Behind

\* A task that is not due is none of the plan's, or recorded.
LEMMA NotDue ==
    ASSUME Shape, NEW i \in 1..Len(Order), i >= at, i \notin Due, Order[i] \in plan
    PROVE  Order[i] \in Recorded
<1>1. i \in at..Len(Order)
  BY DEF Shape
<1>2. recs[Order[i]] # NoRec
  BY <1>1 DEF Due
<1> QED
  BY <1>2 DEF Recorded

\* Every step keeps what is known of plan, records and rows.
LEMMA PlanStep == Shape /\ PlanInv /\ [Next]_vars => PlanInv'
<1> SUFFICES ASSUME Shape, PlanInv, [Next]_vars PROVE PlanInv'
  OBVIOUS
<1> USE DEF files, work
<1>0. stage = "run" /\ step # "next" => at \in 1..Len(Order) /\ Task \in Tasks
  BY TaskIsOne DEF Shape
<1>1. ASSUME UNCHANGED <<done, plan, recs, rows, stale, at>>,
             stage' \in {stage, "idle"}, step' # "purge" \/ step' = step
      PROVE  PlanInv'
  <2>1. RunIsComplete' /\ RowsAreThePlan' /\ InSequence'
    BY <1>1 DEF PlanInv, RunIsComplete, RowsAreThePlan, InSequence, Recorded
  <2>2. Behind'
    BY <1>1 DEF PlanInv, Behind, Recorded, Task
  <2> QED
    BY <2>1, <2>2 DEF PlanInv
<1>2. ASSUME NEW m \in Runs, Start(m) PROVE PlanInv'
  <2>1. UNCHANGED <<done, plan, recs, rows, stale>> /\ at' = 1 /\ step' = "next"
        /\ stage' = NextStage(1, m, done)
    BY <1>2 DEF Start
  <2>2. RunIsComplete' /\ RowsAreThePlan'
    BY <2>1 DEF PlanInv, RunIsComplete, RowsAreThePlan, Recorded
  <2>3. InSequence'
    BY <2>1, NextStageIs DEF PlanInv, InSequence
  <2>4. Behind'
    BY <2>1 DEF Behind
  <2> QED
    BY <2>2, <2>3, <2>4 DEF PlanInv
<1>3. CASE Launch
  BY <1>2, <1>3, RunsAreRuns DEF Launch
<1>4. CASE StartByHand
  BY <1>2, <1>4, RunsAreRuns DEF StartByHand
<1>5. CASE Plan
  <2>1. /\ UNCHANGED <<recs, rows, at, step>> /\ at = 1 /\ step = "next"
        /\ done' = done \cup {"plan"} /\ stage' = NextStage(2, mode, done')
        /\ stale' = IF plan' = plan THEN stale ELSE done \ {"plan", "report"}
        /\ mode \in Runs
    BY <1>5 DEF Plan, Shape
  <2>2. RunIsComplete' /\ RowsAreThePlan'
    BY <2>1 DEF PlanInv, RunIsComplete, RowsAreThePlan, Recorded
  <2>3. InSequence'
    BY <2>1, NextStageIs DEF PlanInv, InSequence
  <2>4. Behind'
    BY <2>1 DEF Behind
  <2> QED
    BY <2>2, <2>3, <2>4 DEF PlanInv
<1>6. CASE BeginTask
  <2>1. /\ UNCHANGED <<done, plan, recs, rows, stale, stage>> /\ step' = "dump"
        /\ at' = CHOOSE i \in Due : \A j \in Due : i <= j
        /\ stage = "run" /\ Due # {}
    BY <1>6 DEF BeginTask
  <2>2. at' \in Due /\ \A j \in Due : at' <= j
    <3>1. Due \in SUBSET Nat
      <4>1. Due \subseteq at..Len(Order) /\ at \in Nat /\ Len(Order) \in Nat
        BY DEF Due, Shape
      <4> QED
        BY <4>1
    <3>2. \E i \in Due : \A j \in Due : i <= j
      BY <2>1, <3>1, SmallestOf
    <3> QED
      BY <2>1, <3>2
  <2>3. at' \in 1..Len(Order)
    BY <2>2 DEF Due, Shape
  <2>4. ASSUME NEW i \in 1..Len(Order), i < at', Order[i] \in plan
        PROVE  Order[i] \in Recorded
    <3>1. CASE i < at
      BY <2>1, <2>4, <3>1 DEF PlanInv, Behind
    <3>2. CASE i >= at
      <4>1. i \notin Due
        BY <2>2, <2>3, <2>4
      <4> QED
        BY <2>4, <3>2, <4>1, NotDue
    <3> QED
      BY <3>1, <3>2 DEF Shape
  <2>5. Behind'
    BY <2>1, <2>4 DEF Behind, Recorded
  <2>6. RunIsComplete' /\ RowsAreThePlan' /\ InSequence'
    BY <2>1 DEF PlanInv, RunIsComplete, RowsAreThePlan, InSequence, Recorded
  <2> QED
    BY <2>5, <2>6 DEF PlanInv
<1>7. CASE ScanRaises \/ ManifestRaises \/ Reuse \/ Dump \/ DumpFails \/ Crop
           \/ (\E m \in Members : FallBack(m)) \/ Kill \/ UNCHANGED vars
  <2>1. /\ UNCHANGED <<done, plan, recs, rows, stale, at>>
        /\ stage' \in {stage, "idle"} /\ (step' # "purge" \/ step' = step)
    BY <1>7 DEF ScanRaises, ManifestRaises, Die, Reuse, Dump, DumpFails, Crop, FallBack,
       Kill, vars
  <2> QED
    BY <1>1, <2>1
<1>8. CASE Record
  <2> DEFINE r == [dump |-> "done", crops |-> cropped,
                   fallbacks |-> MembersOf(Task) \ cropped, served |-> saved]
  <2>1. r # NoRec
    <3>1. r.dump = "done" /\ NoRec.dump = "none"
      BY DEF NoRec
    <3> QED
      BY <3>1
  <2>2. /\ recs' = [recs EXCEPT ![Task] = r] /\ stage = "run" /\ step = "fallback"
        /\ UNCHANGED <<done, plan, rows, stale, stage, at>>
    BY <1>8 DEF Record
  <2>3. Task \in Tasks /\ Task' = Task
    BY <1>0, <2>2 DEF Task
  <2> HIDE DEF r
  <2>4. Recorded' = Recorded \cup {Task}
    BY <2>1, <2>2, <2>3 DEF Recorded, Shape
  <2>5. Behind'
    BY <2>2, <2>3, <2>4 DEF PlanInv, Behind
  <2>6. RunIsComplete' /\ RowsAreThePlan' /\ InSequence'
    BY <2>2, <2>4 DEF PlanInv, RunIsComplete, RowsAreThePlan, InSequence
  <2> QED
    BY <2>5, <2>6 DEF PlanInv
<1>9. CASE Purge
  <2>1. /\ UNCHANGED <<done, plan, recs, rows, stale, stage>> /\ at' = at + 1
        /\ step' = "next" /\ stage = "run" /\ step = "purge"
    BY <1>9 DEF Purge
  <2>2. Behind'
    <3> SUFFICES ASSUME NEW i \in 1..Len(Order), i < at + 1, Order[i] \in plan
                 PROVE  Order[i] \in Recorded
      BY <2>1 DEF Behind, Recorded
    <3>1. CASE i = at
      BY <2>1, <3>1 DEF PlanInv, Behind, Task
    <3>2. CASE i < at
      BY <2>1, <3>2 DEF PlanInv, Behind
    <3> QED
      BY <3>1, <3>2 DEF Shape
  <2>3. RunIsComplete' /\ RowsAreThePlan' /\ InSequence'
    BY <2>1 DEF PlanInv, RunIsComplete, RowsAreThePlan, InSequence, Recorded
  <2> QED
    BY <2>2, <2>3 DEF PlanInv
<1>10. CASE RunDone
  <2>1. /\ UNCHANGED <<plan, recs, rows>> /\ done' = done \cup {"run"} /\ Due = {}
        /\ stale' = IF "run" \in stale THEN done \cap {"manifest", "qa"} ELSE stale
        /\ stage' = NextStage(3, mode, done') /\ stage = "run" /\ mode \in Runs
    BY <1>10 DEF RunDone, Shape
  <2>2. plan \subseteq Recorded
    <3> SUFFICES ASSUME NEW t \in plan PROVE t \in Recorded
      OBVIOUS
    <3>0. t \in Tasks /\ {Order[i] : i \in 1..Len(Order)} = Tasks
      BY DEF Shape
    <3>1. PICK i \in 1..Len(Order) : Order[i] = t
      BY ONLY <3>0
    <3>2. CASE i < at
      BY <2>1, <3>1, <3>2 DEF PlanInv, Behind
    <3>3. CASE i >= at
      BY <2>1, <3>1, <3>3, NotDue
    <3> QED
      BY <3>2, <3>3 DEF Shape
  <2>3. RunIsComplete'
    BY <2>1, <2>2 DEF RunIsComplete, Recorded
  <2>4. RowsAreThePlan'
    BY <2>1 DEF PlanInv, RowsAreThePlan
  <2>5. stage' \notin {"plan", "run"} /\ (stage' = "qa" => "manifest" \in done')
    BY <2>1, NextStageIs
  <2>6. InSequence' /\ Behind'
    BY <2>1, <2>5 DEF PlanInv, InSequence, Behind
  <2> QED
    BY <2>3, <2>4, <2>6 DEF PlanInv
<1>11. CASE Manifest
  <2>1. /\ UNCHANGED <<plan, recs>> /\ done' = done \cup {"manifest"}
        /\ stale' = stale \ {"manifest"} /\ stage = "manifest" /\ Recorded \subseteq plan
        /\ stage' = NextStage(4, mode, done') /\ mode \in Runs
    BY <1>11 DEF Manifest, Shape
  <2>2. "run" \in done
    BY <2>1 DEF PlanInv, InSequence
  <2>3. RowsAreThePlan'
    <3> SUFFICES ASSUME "run" \notin stale
                 PROVE  \A m \in Members : rows'[m] # "none" <=> TaskOf[m] \in plan
      BY <2>1 DEF RowsAreThePlan
    <3>1. Recorded = plan
      BY <2>1, <2>2 DEF PlanInv, RunIsComplete
    <3>2. \A m \in Members : RowOf(m) \in {"ok", "failed"}
      BY DEF RowOf
    <3>3. \A m \in Members : rows'[m] = IF TaskOf[m] \in Recorded THEN RowOf(m) ELSE "none"
      BY <1>11 DEF Manifest
    <3> QED
      BY <3>1, <3>2, <3>3
  <2>4. RunIsComplete'
    BY <2>1, <2>2 DEF PlanInv, RunIsComplete, Recorded
  <2>5. stage' \notin {"plan", "run", "manifest"}
    BY <2>1, NextStageIs
  <2>6. InSequence' /\ Behind'
    BY <2>1, <2>2, <2>5 DEF PlanInv, InSequence, Behind
  <2> QED
    BY <2>3, <2>4, <2>6 DEF PlanInv
<1>12. CASE QA
  <2>1. /\ UNCHANGED <<plan, recs, rows>> /\ done' = done \cup {"qa"}
        /\ stale' = stale \ {"qa"} /\ stage = "qa" /\ mode \in Runs
        /\ stage' = NextStage(5, mode, done')
    BY <1>12 DEF QA, Shape
  <2>2. stage' \in {"idle", "report"}
    BY <2>1, NextStageIs
  <2>3. RunIsComplete' /\ RowsAreThePlan' /\ InSequence' /\ Behind'
    BY <2>1, <2>2 DEF PlanInv, RunIsComplete, RowsAreThePlan, InSequence, Behind, Recorded
  <2> QED
    BY <2>3 DEF PlanInv
<1>13. CASE Report
  <2>1. /\ UNCHANGED <<plan, recs, rows, stale>> /\ done' = done \cup {"report"}
        /\ stage' = "idle"
    BY <1>13 DEF Report
  <2>2. RunIsComplete' /\ RowsAreThePlan' /\ InSequence' /\ Behind'
    BY <2>1 DEF PlanInv, RunIsComplete, RowsAreThePlan, InSequence, Behind, Recorded
  <2> QED
    BY <2>2 DEF PlanInv
<1> QED
  BY <1>3, <1>4, <1>5, <1>6, <1>7, <1>8, <1>9, <1>10, <1>11, <1>12, <1>13 DEF Next, Steps

-----------------------------------------------------------------------------
(* Dump folders.                                                           *)

Folders == {t \in Tasks : Dumped(t)}
AtHand == IF stage = "run" /\ step \in {"crop", "fallback", "purge"} THEN {Task} ELSE {}

\* Every folder but the one of the task at hand cost a kill.
FolderInv == kills \in Nat /\ Cardinality(Folders \ AtHand) <= kills

\* The tasks are finitely many: they are all in the order.
LEMMA TasksAreFinite == IsFiniteSet(Tasks)
<1> DEFINE f == [i \in 1..Len(Order) |-> Order[i]]
<1>1. Len(Order) \in Nat
  OBVIOUS
<1>2. IsFiniteSet(1..Len(Order))
  BY <1>1, FS_Interval
<1>3. f \in Surjection(1..Len(Order), Tasks)
  BY DEF Surjection
<1> QED
  BY <1>2, <1>3, FS_Surjection

\* A step that is not a kill adds no folder but the one at hand.
LEMMA FoldersStep ==
    ASSUME Shape, [Next]_vars, ~Kill
    PROVE  kills' = kills /\ Folders' \ AtHand' \subseteq Folders \ AtHand
<1> USE DEF files, work
<1>0. stage = "run" /\ step # "next" => at \in 1..Len(Order) /\ Task \in Tasks
  BY TaskIsOne DEF Shape
<1>1. kills' = kills
  BY DEF Next, Steps, Launch, StartByHand, Start, Plan, BeginTask, ScanRaises, Die, Reuse,
     Dump, DumpFails, Crop, FallBack, Record, Purge, RunDone, ManifestRaises, Manifest, QA, Report,
     vars
<1>2. ASSUME UNCHANGED <<tiles, torn>>, AtHand = {} \/ AtHand' = AtHand
      PROVE  Folders' \ AtHand' \subseteq Folders \ AtHand
  BY <1>2 DEF Folders, Dumped
<1>3. CASE Launch \/ StartByHand
  <2>1. UNCHANGED <<tiles, torn>> /\ stage = "idle"
    BY <1>3 DEF Launch, StartByHand, Start
  <2> QED
    BY <1>1, <1>2, <2>1 DEF AtHand
<1>4. CASE Plan \/ BeginTask \/ ScanRaises \/ Reuse \/ RunDone \/ ManifestRaises
           \/ Manifest \/ QA \/ Report
  <2>1. /\ UNCHANGED <<tiles, torn>>
        /\ ~(stage = "run" /\ step \in {"crop", "fallback", "purge"})
    BY <1>4 DEF Plan, BeginTask, ScanRaises, Reuse, RunDone, ManifestRaises, Die, Manifest, QA,
                Report
  <2> QED
    BY <1>1, <1>2, <2>1 DEF AtHand
<1>5. CASE Dump \/ DumpFails
  <2>1. /\ stage = "run" /\ step = "dump" /\ stage' = stage /\ at' = at
        /\ step' \in {"crop", "fallback"}
        /\ \A t \in Tasks \ {Task} : tiles'[t] = tiles[t] /\ torn'[t] = torn[t]
    <3>1. CASE Dump
      BY <1>0, <3>1 DEF Dump, Shape
    <3>2. CASE DumpFails
      <4>1. \A t \in Tasks \ {Task} : torn'[t] = torn[t]
        BY <3>2 DEF DumpFails, LeavesTiles
      <4>2. \A t \in Tasks \ {Task} : tiles'[t] = tiles[t]
        BY <3>2 DEF DumpFails, LeavesTiles, Shape
      <4> QED
        BY <3>2, <4>1, <4>2 DEF DumpFails
    <3> QED
      BY <1>5, <3>1, <3>2
  <2>2. AtHand = {} /\ AtHand' = {Task}
    BY <2>1 DEF AtHand, Task
  <2> QED
    BY <1>1, <2>1, <2>2 DEF Folders, Dumped
<1>6. CASE Crop \/ (\E m \in Members : FallBack(m)) \/ Record \/ UNCHANGED vars
  <2>1. /\ UNCHANGED <<tiles, torn, stage, at>>
        /\ \/ step' = step
           \/ step \in {"crop", "fallback", "purge"} /\ step' \in {"crop", "fallback", "purge"}
    BY <1>6 DEF Crop, FallBack, Record, vars
  <2>2. AtHand' = AtHand
    BY <2>1 DEF AtHand, Task
  <2> QED
    BY <1>1, <1>2, <2>1, <2>2
<1>7. CASE Purge
  <2>1. /\ tiles' = [tiles EXCEPT ![Task] = {}] /\ torn' = [torn EXCEPT ![Task] = "no"]
        /\ stage = "run" /\ step = "purge" /\ step' = "next"
    BY <1>7 DEF Purge
  <2>2. AtHand = {Task} /\ AtHand' = {}
    BY <2>1 DEF AtHand
  <2>3. \A t \in Tasks \ {Task} : tiles'[t] = tiles[t] /\ torn'[t] = torn[t]
    BY <2>1 DEF Shape
  <2>4. tiles'[Task] = {} /\ torn'[Task] = "no"
    BY <1>0, <2>1 DEF Shape
  <2>5. Folders' \subseteq Folders \ {Task}
    <3> SUFFICES ASSUME NEW t \in Tasks, Dumped(t)' PROVE Dumped(t) /\ t # Task
      BY DEF Folders
    <3>1. t # Task
      BY <2>4 DEF Dumped
    <3> QED
      BY <2>3, <3>1 DEF Dumped
  <2> QED
    BY <1>1, <2>2, <2>5
<1> QED
  BY <1>3, <1>4, <1>5, <1>6, <1>7 DEF Next, Steps

\* Every step keeps the count of the folders.
LEMMA FolderStep == Shape /\ FolderInv /\ [Next]_vars => FolderInv'
<1> SUFFICES ASSUME Shape, FolderInv, [Next]_vars PROVE FolderInv'
  OBVIOUS
<1> DEFINE before == Folders \ AtHand
<1>0. before \subseteq Tasks /\ IsFiniteSet(before) /\ Cardinality(before) \in Nat
  <2>1. before \subseteq Tasks
    BY DEF Folders
  <2> QED
    BY <2>1, TasksAreFinite, FS_Subset, FS_CardinalityType
<1>1. CASE ~Kill
  <2>1. kills' = kills /\ Folders' \ AtHand' \subseteq before
    BY <1>1, FoldersStep
  <2>2. Cardinality(Folders' \ AtHand') <= Cardinality(before)
        /\ Cardinality(Folders' \ AtHand') \in Nat
    BY <1>0, <2>1, FS_Subset, FS_CardinalityType
  <2> QED
    BY <1>0, <2>1, <2>2 DEF FolderInv
<1>2. CASE Kill
  <2>1. kills' = kills + 1 /\ stage' = "idle"
    BY <1>2 DEF Kill
  <2>2. Folders' \ AtHand' \subseteq before \cup {Task}
    <3>1. \A t \in Tasks : t # Task => tiles'[t] = tiles[t] /\ torn'[t] = torn[t]
      <4>1. CASE stage = "run" /\ step = "dump" /\ ~Dumped(Task)
        <5>1. LeavesTiles(Task)
          BY <1>2, <4>1, Zenon DEF Kill
        <5> QED
          BY <5>1 DEF LeavesTiles, Shape
      <4>2. CASE ~(stage = "run" /\ step = "dump" /\ ~Dumped(Task))
        BY <1>2, <4>2, Zenon DEF Kill
      <4> QED
        BY <4>1, <4>2
    <3>2. AtHand' = {}
      BY <2>1 DEF AtHand
    <3>3. AtHand \subseteq {Task}
      BY DEF AtHand
    <3> QED
      BY <3>1, <3>2, <3>3 DEF Folders, Dumped
  <2>3. /\ IsFiniteSet(before \cup {Task})
        /\ Cardinality(before \cup {Task}) <= Cardinality(before) + 1
        /\ Cardinality(before \cup {Task}) \in Nat
    <3> HIDE DEF before
    <3>1. /\ IsFiniteSet(before \cup {Task})
          /\ Cardinality(before \cup {Task}) =
                IF Task \in before THEN Cardinality(before) ELSE Cardinality(before) + 1
      BY <1>0, FS_AddElement, Zenon
    <3> QED
      BY <1>0, <3>1
  <2>4. Cardinality(Folders' \ AtHand') <= Cardinality(before \cup {Task})
        /\ Cardinality(Folders' \ AtHand') \in Nat
    BY <2>2, <2>3, FS_Subset, FS_CardinalityType
  <2> QED
    BY <1>0, <2>1, <2>3, <2>4 DEF FolderInv
<1> QED
  BY <1>1, <1>2

\* At hand is one task at most.
LEMMA FoldersCounted == Shape /\ FolderInv => IntermediatesPurged
<1> SUFFICES ASSUME FolderInv PROVE Cardinality(Folders) <= kills + 1
  BY DEF IntermediatesPurged, Folders
<1>1. Folders \subseteq Tasks /\ AtHand \in {{}, {Task}}
  BY DEF Folders, AtHand
<1>2. IsFiniteSet(Folders) /\ Cardinality(Folders) \in Nat
  BY <1>1, TasksAreFinite, FS_Subset, FS_CardinalityType
<1>3. Cardinality(Folders \ {Task}) = IF Task \in Folders THEN Cardinality(Folders) - 1
                                      ELSE Cardinality(Folders)
  <2> HIDE DEF Folders
  <2> QED
    BY <1>2, FS_RemoveElement, Zenon
<1>4. CASE AtHand = {}
  <2>1. Folders \ AtHand = Folders
    BY <1>4
  <2>2. Cardinality(Folders) <= kills /\ kills \in Nat
    BY <2>1, Zenon DEF FolderInv
  <2> QED
    BY <1>2, <2>2
<1>5. CASE AtHand = {Task}
  BY <1>2, <1>3, <1>5 DEF FolderInv
<1> QED
  BY <1>1, <1>4, <1>5

-----------------------------------------------------------------------------
(* Theorems.                                                               *)

Inv == Shape /\ ChipInv /\ PlanInv /\ FolderInv

\* The invariant holds at first.
LEMMA InitInv == Init => Inv
<1> SUFFICES ASSUME Init PROVE Inv
  OBVIOUS
<1>1. Shape
  BY ShapeInit
<1>2. ChipInv
  BY DEF Init, ChipInv
<1>3. PlanInv
  BY DEF Init, PlanInv, RunIsComplete, RowsAreThePlan, InSequence, Behind
<1>4. FolderInv
  <2>1. Folders \ AtHand = {}
    BY DEF Init, Folders, Dumped
  <2>2. Cardinality(Folders \ AtHand) = 0
    BY <2>1, FS_EmptySet, Zenon
  <2> QED
    BY <2>2 DEF Init, FolderInv
<1> QED
  BY <1>1, <1>2, <1>3, <1>4 DEF Inv

\* The inductive invariant of the lane.
THEOREM LaneInvariant == Spec => []Inv
<1>1. Inv /\ [Next]_vars => Inv'
  BY ShapeStep, ChipStep, PlanStep, FolderStep DEF Inv
<1> QED
  BY <1>1, InitInv, PTL DEF Spec

\* Whatever dumps fail, and however often the lane is killed and started again,
\* what the manifest calls ok is a chip, short of the half a kill left.
THEOREM OkRowsAreWhole == Spec => []OkRowIsWhole
<1>1. Inv => OkRowIsWhole
  BY DEF Inv, Shape, ChipInv, OkRowIsWhole
<1> QED
  BY <1>1, LaneInvariant, PTL

\* The manifest of a finished lane has the rows of its plan, unless stages were
\* left done by an earlier plan.
THEOREM ManifestIsComplete == Spec => []EveryMemberHasRow
<1>1. Inv => EveryMemberHasRow
  BY DEF Inv, PlanInv, RowsAreThePlan, InSequence, EveryMemberHasRow
<1> QED
  BY <1>1, LaneInvariant, PTL

\* However often it is killed, the lane does not fill its disk with dumps: every
\* folder but one cost a kill.
THEOREM FoldersArePurged == Spec => []IntermediatesPurged
<1>1. Inv => IntermediatesPurged
  BY FoldersCounted DEF Inv
<1> QED
  BY <1>1, LaneInvariant, PTL

=============================================================================

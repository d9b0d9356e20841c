------------------------------ MODULE Timeline ------------------------------
(***************************************************************************)
(* The install interval of one roof, inferred from the first-pass labels   *)
(* of its full timeline (scripts/temporal/reference_fulltimeline.py).  A   *)
(* timeline is a function from capture dates to labels: a confirmed        *)
(* "present" or "absent", a visual "unknown", a terminal "call_failed" or  *)
(* "gap" (no imagery, nothing sent), or "open" while an answer is due.     *)
(***************************************************************************)
EXTENDS Integers, FiniteSets

Labels == {"present", "absent", "unknown", "call_failed", "gap", "open"}

LabelDates(obs, label) == {d \in DOMAIN obs : obs[d] = label}
Confirmed(obs) == LabelDates(obs, "present") \cup LabelDates(obs, "absent")
First(S) == CHOOSE d \in S : \A e \in S : d <= e
Last(S) == CHOOSE d \in S : \A e \in S : e <= d

Undated == [status |-> "undated"]

\* Neighbours among the confirmed dates, present first and then absent.
ConflictPairs(obs) ==
    {p \in LabelDates(obs, "present") \X LabelDates(obs, "absent") :
        /\ p[1] < p[2]
        /\ ~\E d \in Confirmed(obs) : p[1] < d /\ d < p[2]}
ConflictFrames(obs) == UNION {{p[1], p[2]} : p \in ConflictPairs(obs)}

\* infer_interval, for dates at or after WINDOW_START.
InferInterval(obs, aerial) ==
    LET present == LabelDates(obs, "present")
        absent  == LabelDates(obs, "absent")
    IN  IF LabelDates(obs, "open") # {}
        THEN [status |-> "incomplete_timeline"]
        ELSE IF ConflictFrames(obs) # {}
        THEN [status |-> "conflict_pending_review",
              frames |-> ConflictFrames(obs)]
        ELSE IF present # {} /\ absent # {}
        THEN [status |-> "bounded", start |-> Last(absent), end |-> First(present)]
        ELSE IF present # {}
        THEN [status |-> "left_censored", end |-> First(present)]
        ELSE IF absent # {} /\ aerial = "present"
        THEN [status |-> "aerial_upper_bound"]
        ELSE Undated

\* plan_rechecks: the frames in conflict, oldest first and at most max of
\* them, or the one or two frames at the boundary.
PlanRechecks(interval, max) ==
    CASE interval.status = "conflict_pending_review" ->
            {d \in interval.frames :
                Cardinality({e \in interval.frames : e < d}) < max}
      [] interval.status = "bounded" -> {interval.start, interval.end}
      [] interval.status = "left_censored" -> {interval.end}
      [] OTHER -> {}

-----------------------------------------------------------------------------
(* A reference definition: the install dates a roof may have that shows    *)
(* panels on every date from the install on and on none before.            *)

Cuts(obs) ==
    {c \in Nat : /\ \A d \in LabelDates(obs, "present") : c <= d
                 /\ \A d \in LabelDates(obs, "absent") : d < c}

=============================================================================

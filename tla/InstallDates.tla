---------------------------- MODULE InstallDates ----------------------------
(***************************************************************************)
(* From a scan's checkpoint to its row of install_intervals.csv            *)
(* (scripts/temporal/infer_install_dates.py): the repair of isolated dips, *)
(* then the interval that infer_one reads off the status and the frames.   *)
(* An interval is a pair <<start, end>> and stands for the install dates   *)
(* after start up to end; start 0 is the open bound.                       *)
(***************************************************************************)
EXTENDS AdaptiveScan

CONSTANT
    FlightDates     \* when the anchor's grid was flown; 0: not in the table

ASSUME FlightAssumption == FlightDates \subseteq Nat

\* What the inference reads of a checkpoint: status and usable evidence.
Seen(s) == [status |-> s.status, present |-> Present(s.rounds), absent |-> Absent(s.rounds)]

Undated(status) == [status |-> status, interval |-> <<>>]
Dated(status, start, end) == [status |-> status, interval |-> <<start, end>>]

\* repair_isolated_dips: the absent frames with a present one before and one
\* after them that the scorer was confident of.
Dips(seen, sure) ==
    {d \in seen.absent : /\ \E p \in seen.present \cap sure : p < d
                         /\ \E p \in seen.present \cap sure : p > d}

\* apply_dip_repair: on a copy, and with a new status only for a scan that was
\* not monotonic before and is now.
Repair(seen, sure) ==
    LET present == seen.present \cup Dips(seen, sure)
        absent  == seen.absent \ Dips(seen, sure)
        resolved == /\ seen.status = "done_ambiguous_nonmonotonic"
                    /\ Dips(seen, sure) # {}
                    /\ \A p \in present, a \in absent : a <= p
    IN  [status  |-> IF ~resolved THEN seen.status
                     ELSE IF absent # {} THEN "done_appears" ELSE AlreadyPresent,
         present |-> present, absent |-> absent]

\* The earlier of a date and the flight date, which shows the panels too.
Clamped(date, flight) == IF flight # 0 /\ flight < date THEN flight ELSE date

\* Mutant: the interval starts at the first absent frame.
Appears_FirstAbsent(seen, flight) ==
    LET start == Oldest(seen.absent)
        end   == Clamped(Oldest(seen.present), flight)
    IN  IF start > end THEN Undated("done_ambiguous_clamp_inverted")
        ELSE Dated("done_appears", start, end)

\* Case done_appears.
Appears(seen, flight) ==
    IF seen.present = {} \/ seen.absent = {}
       \/ Newest(seen.absent) > Oldest(seen.present)
    THEN Undated("done_appears")
    ELSE LET start == Newest(seen.absent)
             end   == Clamped(Oldest(seen.present), flight)
         IN  IF start > end THEN Undated("done_ambiguous_clamp_inverted")
             ELSE Dated("done_appears", start, end)

\* Case done_installed_during_census.
DuringCensus(seen, flight) ==
    LET end == IF flight # 0 THEN flight ELSE Census
    IN  IF seen.absent = {} THEN Undated("done_installed_during_census")
        ELSE IF Newest(seen.absent) >= end
        THEN Undated("done_ambiguous_marker_missed_pv")
        ELSE Dated("done_installed_during_census", Newest(seen.absent), end)

\* infer_one
InferOne(seen, flight) ==
    CASE seen.status = "done_appears" -> Appears(seen, flight)
      [] seen.status = "done_installed_during_census" -> DuringCensus(seen, flight)
      [] seen.status = AlreadyPresent /\ seen.present \cup seen.absent # {} ->
            Dated(AlreadyPresent, 0,
                  Clamped(Oldest(seen.present \cup seen.absent), flight))
      [] OTHER -> Undated(seen.status)

-----------------------------------------------------------------------------
(* Properties.                                                             *)

InstallDays == 1..(Newest(Dates \cup {Census}) + 1)

\* The install dates that fit every frame and the flight (or the census).
Fitting(seen, bound) ==
    {day \in InstallDays : /\ \A a \in seen.absent : a < day
                           /\ \A p \in seen.present : day <= p
                           /\ bound # 0 => day <= bound}

\* The interval of a row is the set of install dates that fit the frames it
\* rests on, no more and no less, whatever the scan saw, the repair flipped and
\* the flight date cut off; a row is undated when none fits, when the frames
\* still contradict each other or when the scan failed.
IntervalIsExact ==
    saved.status \in Terminal =>
        \A flight \in FlightDates, sure \in SUBSET Present(saved.rounds) :
            LET seen  == Repair(Seen(saved), sure)
                row   == InferOne(seen, flight)
                bound == IF flight = 0 /\ seen.status = "done_installed_during_census"
                         THEN Census ELSE flight
            IN  IF row.interval = <<>>
                THEN seen.status \in {"done_appears", "done_installed_during_census"}
                        => Fitting(seen, bound) = {}
                ELSE {day \in InstallDays :
                         row.interval[1] < day /\ day <= row.interval[2]}
                        = Fitting(seen, bound)

=============================================================================

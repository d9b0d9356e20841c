---------------------------- MODULE QuotaBreaker ----------------------------
(***************************************************************************)
(* scripts/temporal/quota_control.py: QuotaCircuitBreaker, the gate every  *)
(* real Gemini HTTP attempt passes.  A worker reserves a slot before the   *)
(* attempt (before_attempt) and appends one row to a durable JSONL ledger  *)
(* after it (after_attempt); both run under one lock, so each is a single  *)
(* action, and other workers run between the two.  The ledger and the      *)
(* pause marker outlive the process; the counters do not.                  *)
(*                                                                         *)
(* A window is one upstream quota period.  Windows are numbered in the     *)
(* order they are used: an operator starts the next process for the same   *)
(* window or for a later one.  `past` counts the windows whose             *)
(* resume_after instant has gone by.                                       *)
(*                                                                         *)
(* reserved stands for both _reserved and _in_flight, which the code       *)
(* changes together.                                                       *)
(***************************************************************************)
EXTENDS Integers, FiniteSets

CONSTANTS
    Workers,        \* the anchor worker threads of one scan process
    Logical,        \* logical_call_id values
    NoCall,         \* not a logical call: the worker is between attempts
    LastWindow,     \* quota windows are 1..LastWindow
    Gross,          \* QuotaPolicy.gross_safe_budget
    Work,           \* QuotaPolicy.work_budget
    TripAfter,      \* pool_503_trip_after
    MaxFaults       \* bound: failed writes and process deaths in a behaviour

\* QuotaCircuitBreaker.__init__ refuses any other policy.
ASSUME PolicyAssumption ==
    /\ Gross \in Nat \ {0} /\ Work \in Nat \ {0} /\ Work <= Gross
    /\ TripAfter \in Nat \ {0}

ASSUME CallAssumption ==
    /\ IsFiniteSet(Workers) /\ IsFiniteSet(Logical) /\ NoCall \notin Logical
    /\ LastWindow \in Nat \ {0} /\ MaxFaults \in Nat

VARIABLES
    up,         \* a scan process is running
    window,     \* policy.window_id of the running (or last) process
    count,      \* _count: rows of this window the process knows of
    reserved,   \* _reserved and _in_flight
    seen,       \* _seen_logical
    streak,     \* _pool_503_streak
    paused,     \* _paused_reason
    call,       \* the attempt a worker has on the wire
    last,       \* the logical call a worker is still trying to complete
    rows,       \* ledger file: rows per window
    rowSeen,    \* ledger file: logical ids of the rows written, per window
    torn,       \* ledger file: it holds a line that is not JSON
    tail,       \* ledger file: how its last line ends
    marker,     \* PAUSED_QUOTA.json
    past,       \* windows 1..past have been reset upstream
    sent,       \* history: attempts admitted per window
    started,    \* history: logical calls admitted per window
    lost,       \* history: attempts no row was counted for, per window
    wasted,     \* history: good answers thrown away by a trip, per window
    tripped,    \* history: windows in which the breaker tripped
    faults      \* faults so far, at most MaxFaults

mem  == <<up, window, count, reserved, seen, streak, paused>>
work == <<call, last>>
disk == <<rows, rowSeen, torn, tail, marker>>
hist == <<sent, started, lost, wasted, tripped, faults>>
vars == <<mem, work, disk, past, hist>>

Windows == 1..LastWindow
NotPaused == "none"
Reasons == {"work_budget", "hard_budget", "upstream_429", "pool_503"}
\* classify_upstream, as far as after_attempt tells its results apart
Classes == {"ok", "upstream_429_resource_exhausted", "pool_503", "other"}
NoMarker == [window |-> 0, reason |-> NotPaused]
Markers == {NoMarker} \cup [window : Windows, reason : Reasons]

\* The last line of the ledger has its newline, or is part of a row, or (a
\* window v) is a whole row of window v that lacks only the newline.
Closed == 0
Fragment == -1
Tails == {Closed, Fragment} \cup Windows

InFlight == {w \in Workers : call[w] # NoCall}

Init ==
    /\ up = FALSE /\ window = 1 /\ count = 0 /\ reserved = 0 /\ seen = {}
    /\ streak = 0 /\ paused = NotPaused
    /\ call = [w \in Workers |-> NoCall] /\ last = [w \in Workers |-> NoCall]
    /\ rows = [v \in Windows |-> 0] /\ rowSeen = [v \in Windows |-> {}]
    /\ torn = FALSE /\ tail = Closed /\ marker = NoMarker /\ past = 0
    /\ sent = [v \in Windows |-> 0] /\ started = [v \in Windows |-> {}]
    /\ lost = [v \in Windows |-> 0] /\ wasted = [v \in Windows |-> 0]
    /\ tripped = {} /\ faults = 0

-----------------------------------------------------------------------------
(* Tripping.                                                               *)

\* _write_pause_locked: the reason is set in memory before the marker file is
\* replaced; the replacement may fail and leave the old marker.
WritePause(reason) ==
    /\ paused' = reason
    /\ tripped' = tripped \cup {window}
    /\ \/ /\ marker' = [window |-> window, reason |-> reason]
          /\ UNCHANGED faults
       \/ /\ faults < MaxFaults
          /\ faults' = faults + 1
          /\ UNCHANGED marker

\* _trip_locked: only the first trip of a process writes a marker.
Trip(reason) ==
    \/ paused = NotPaused /\ WritePause(reason)
    \/ paused # NotPaused /\ UNCHANGED <<paused, tripped, marker, faults>>

-----------------------------------------------------------------------------
(* before_attempt.                                                         *)

\* A worker starts a logical call no other worker has, or retries its own.
MayAttempt(w, l, retry) ==
    /\ up
    /\ call[w] = NoCall
    /\ \A x \in Workers \ {w} : call[x] # l /\ last[x] # l
    /\ retry => last[w] = l

\* Mutant: new calls may use the reserve too.
Limit_Gross(l, retry) == Gross

\* The limit that applies: retries, and calls the window's ledger already
\* knows, may use the reserve between Work and Gross.
Limit(l, retry) == IF l \in seen \/ retry THEN Gross ELSE Work

\* Mutant: attempts on the wire are not part of what is observed.
Observed_Recorded == count

Observed == count + reserved

Admit(w, l, retry) ==
    /\ MayAttempt(w, l, retry)
    /\ paused = NotPaused
    /\ Observed < Limit(l, retry)
    /\ reserved' = reserved + 1
    /\ call' = [call EXCEPT ![w] = l]
    /\ last' = [last EXCEPT ![w] = l]
    /\ sent' = [sent EXCEPT ![window] = @ + 1]
    /\ started' = [started EXCEPT ![window] = @ \cup {l}]
    /\ UNCHANGED <<up, window, count, seen, streak, paused, disk, past, lost,
                   wasted, tripped, faults>>

\* QuotaPaused / QuotaBudgetReached leave _post_with_transport_retry: the
\* worker drops its logical call.
Refuse(w, l, retry) ==
    /\ MayAttempt(w, l, retry)
    /\ \/ /\ paused # NotPaused
          /\ UNCHANGED <<paused, tripped, marker, faults>>
       \/ /\ paused = NotPaused
          /\ Observed >= Limit(l, retry)
          /\ WritePause(IF Limit(l, retry) = Gross THEN "hard_budget"
                                                   ELSE "work_budget")
    /\ last' = [last EXCEPT ![w] = NoCall]
    /\ UNCHANGED <<up, window, count, reserved, seen, streak, call, rows,
                   rowSeen, torn, tail, past, sent, started, lost, wasted>>

-----------------------------------------------------------------------------
(* after_attempt.                                                          *)

NextStreak(c) == IF c = "pool_503" THEN streak + 1 ELSE 0

\* Mutant: recorded attempts are held against work_budget.
TripReason_AtWork(c) ==
    IF c = "upstream_429_resource_exhausted" THEN "upstream_429"
    ELSE IF c = "pool_503" /\ NextStreak(c) >= TripAfter THEN "pool_503"
    ELSE IF count + 1 >= Work THEN "hard_budget"
    ELSE NotPaused

\* The condition after_attempt trips on, first match first.
TripReason(c) ==
    IF c = "upstream_429_resource_exhausted" THEN "upstream_429"
    ELSE IF c = "pool_503" /\ NextStreak(c) >= TripAfter THEN "pool_503"
    ELSE IF count + 1 >= Gross THEN "hard_budget"
    ELSE NotPaused

\* The reservation is given back before the row is written.
GiveBack(w) ==
    /\ up
    /\ call[w] # NoCall
    /\ reserved' = IF reserved > 0 THEN reserved - 1 ELSE 0
    /\ call' = [call EXCEPT ![w] = NoCall]

\* Text written behind an unfinished line spoils that line, which may have been
\* a row.  Nobody reads a malformed ledger, so rowSeen is not kept up.
RowsWithoutTail == [v \in Windows |-> IF v = tail THEN rows[v] - 1 ELSE rows[v]]

\* Mutant: a process that loads the ledger skips the lines that are not JSON.
Malformed_Skipped == rows' = RowsWithoutTail /\ UNCHANGED <<torn, rowSeen>>

Malformed == torn' = TRUE /\ rows' = RowsWithoutTail /\ UNCHANGED rowSeen

\* One JSON line, flushed and fsynced under the file lock, with or without its
\* newline.  The file is opened to append and is not repaired: behind an
\* unfinished line the row is glued to it and is no row.
AppendRow(w, ended) ==
    /\ tail' = IF ended THEN Closed ELSE IF tail = Closed THEN window ELSE Fragment
    /\ \/ /\ tail = Closed
          /\ rows' = [rows EXCEPT ![window] = @ + 1]
          /\ rowSeen' = [rowSeen EXCEPT ![window] = @ \cup {call[w]}]
          /\ UNCHANGED torn
       \/ tail # Closed /\ Malformed

\* The write succeeded; the process counts the row, glued or not.  A 429 trips
\* before the streak is touched.
Record(w, c) ==
    /\ GiveBack(w)
    /\ AppendRow(w, TRUE)
    /\ count' = count + 1
    /\ seen' = seen \cup {call[w]}
    /\ streak' = IF c = "upstream_429_resource_exhausted"
                 THEN streak ELSE NextStreak(c)
    /\ \/ /\ TripReason(c) = NotPaused
          /\ UNCHANGED <<paused, tripped, marker, faults, last, wasted>>
       \/ /\ TripReason(c) # NotPaused
          /\ Trip(TripReason(c))
          /\ last' = [last EXCEPT ![w] = NoCall]
          /\ wasted' = IF c = "ok" THEN [wasted EXCEPT ![window] = @ + 1]
                                   ELSE wasted
    /\ UNCHANGED <<up, window, past, sent, started, lost>>

\* _append_locked raises: nothing, part of the row, the row without its newline
\* or the whole line reached the file.  Neither the count nor the breaker changes.
AppendFails(w) ==
    /\ GiveBack(w)
    /\ faults < MaxFaults
    /\ faults' = faults + 1
    /\ lost' = [lost EXCEPT ![window] = @ + 1]
    /\ last' = [last EXCEPT ![w] = NoCall]
    /\ \/ UNCHANGED <<rows, rowSeen, torn, tail>>
       \/ Malformed /\ tail' = Fragment
       \/ \E ended \in BOOLEAN : AppendRow(w, ended)
    /\ UNCHANGED <<up, window, count, seen, streak, paused, marker, past, sent,
                   started, wasted, tripped>>

\* A worker ends its logical call (an answer, or no retries left).
EndCall(w) ==
    /\ up
    /\ call[w] = NoCall
    /\ last[w] # NoCall
    /\ last' = [last EXCEPT ![w] = NoCall]
    /\ UNCHANGED <<mem, call, disk, past, hist>>

-----------------------------------------------------------------------------
(* The process and the clock.                                              *)

\* The process ends, by itself or killed: attempts on the wire get no row.
Stop ==
    /\ up
    /\ reserved = 0 \/ faults < MaxFaults
    /\ faults' = IF reserved = 0 THEN faults ELSE faults + 1
    /\ up' = FALSE
    /\ lost' = [lost EXCEPT ![window] = @ + reserved]
    /\ call' = [w \in Workers |-> NoCall]
    /\ last' = [w \in Workers |-> NoCall]
    /\ count' = 0 /\ reserved' = 0 /\ seen' = {} /\ streak' = 0
    /\ paused' = NotPaused
    /\ UNCHANGED <<window, disk, past, sent, started, wasted, tripped>>

\* Mutant: a new process ignores the marker.
LoadedPause_Never(v) == NotPaused

\* _load_existing_pause: the marker counts in its own window, until
\* resume_after.
LoadedPause(v) ==
    IF marker.window = v /\ v > past THEN marker.reason ELSE NotPaused

\* __init__, _load_window_rows, _load_existing_pause.  A torn ledger raises
\* QuotaLedgerAppendError and no process comes up.
Start(v) ==
    /\ ~up
    /\ v >= window
    /\ ~torn
    /\ up' = TRUE
    /\ window' = v
    /\ count' = rows[v]
    /\ seen' = rowSeen[v]
    /\ paused' = LoadedPause(v)
    /\ UNCHANGED <<reserved, streak, work, disk, past, hist>>

\* The clock passes resume_after of the next window.
WindowResets ==
    /\ past < LastWindow
    /\ past' = past + 1
    /\ UNCHANGED <<mem, work, disk, hist>>

Next ==
    \/ \E w \in Workers, l \in Logical, retry \in BOOLEAN :
          Admit(w, l, retry) \/ Refuse(w, l, retry)
    \/ \E w \in Workers, c \in Classes : Record(w, c)
    \/ \E w \in Workers : AppendFails(w) \/ EndCall(w)
    \/ \E v \in Windows : Start(v)
    \/ Stop
    \/ WindowResets

Spec == Init /\ [][Next]_vars

-----------------------------------------------------------------------------
(* Properties.                                                             *)

\* Every variable has its type.
TypeOK ==
    /\ up \in BOOLEAN /\ window \in Windows /\ count \in Nat /\ reserved \in Nat
    /\ seen \in SUBSET Logical /\ streak \in Nat
    /\ paused \in Reasons \cup {NotPaused}
    /\ call \in [Workers -> Logical \cup {NoCall}]
    /\ last \in [Workers -> Logical \cup {NoCall}]
    /\ rows \in [Windows -> Nat] /\ rowSeen \in [Windows -> SUBSET Logical]
    /\ torn \in BOOLEAN /\ tail \in Tails /\ (tail \in Windows => rows[tail] > 0)
    /\ marker \in Markers /\ past \in 0..LastWindow
    /\ sent \in [Windows -> Nat] /\ started \in [Windows -> SUBSET Logical]
    /\ lost \in [Windows -> Nat] /\ wasted \in [Windows -> Nat]
    /\ tripped \in SUBSET Windows /\ faults \in Nat

\* The reservation counter is the number of attempts on the wire: no path
\* through before_attempt / after_attempt, raising or not, leaks a slot or
\* gives one back twice (which max(0, ...) would hide).
ReservedIsInFlight == reserved = Cardinality(InFlight)

\* Whatever the workers interleave and however often the process is restarted,
\* the attempts made in one window exceed gross_safe_budget by at most the
\* attempts whose row was lost to a failed append or a crash.
SpendBounded == \A v \in Windows : sent[v] <= Gross + lost[v]

\* The reserve between work_budget and gross_safe_budget is never spent on new
\* logical calls: a window starts at most work_budget of them (plus lost ones),
\* across workers and restarts.
NewWorkBounded ==
    \A v \in Windows : Cardinality(started[v]) <= Work + lost[v]

\* The ledger file never holds more rows than attempts were made.  One that is
\* all JSON lacks only the attempts still on the wire and those whose append
\* failed or whose process died; rows glued to an unfinished line are missing as
\* well, but no process can be started on such a ledger.
LedgerMatchesCalls ==
    \A v \in Windows :
        /\ rows[v] <= sent[v]
        /\ ~torn => sent[v] <= rows[v] + lost[v]
                                + (IF up /\ v = window THEN reserved ELSE 0)

\* after_attempt raises on the answer that reaches gross_safe_budget, so the
\* answer is paid for and never read: at most one per window.
AtMostOneAnswerWasted == \A v \in Windows : wasted[v] <= 1

\* The breaker is paused only in a window in which it tripped: a marker left by
\* an earlier window never stops a later one.
PauseIsEarned == paused # NotPaused => window \in tripped

\* While the marker of a window is on disk and its resume_after is ahead, no
\* attempt is admitted in that window, by the process that tripped or by any
\* process started after it.
NoCallPastMarker ==
    [][\A v \in Windows :
          sent'[v] > sent[v] => ~(marker.window = v /\ v > past)]_vars

=============================================================================

--------------------------- MODULE AttemptLedger ----------------------------
(***************************************************************************)
(* What the raw response log of a full-timeline run promises: a request is *)
(* attempted at most Limit times without an answer, an answer or a         *)
(* non-call closes it, and what is closed never changes.  A row that is in *)
(* the file although its append raised gives the request one more attempt. *)
(***************************************************************************)
EXTENDS Integers

CONSTANTS
    Keys,       \* the requests: arm, anchor, date and stage
    Closings,   \* the answers and non-calls that close a request
    Limit       \* ATTEMPT_LIMIT

VARIABLES
    used,       \* the failed attempts of an open request
    closed,     \* what closed the request, or "open"
    hidden      \* the rows of a request whose append raised

LedgerInit ==
    /\ used = [k \in Keys |-> 0]
    /\ closed = [k \in Keys |-> "open"]
    /\ hidden = [k \in Keys |-> 0]

Attemptable(k) == closed[k] = "open" /\ used[k] < Limit + hidden[k]

FailAttempt(k) ==
    /\ Attemptable(k)
    /\ closed'[k] = "open" /\ used'[k] = used[k] + 1

Close(k) ==
    /\ Attemptable(k)
    /\ closed'[k] \in Closings /\ used'[k] = 0

Keeps(k) == closed'[k] = closed[k] /\ used'[k] = used[k]

\* One request at a time: every other one keeps what it has.  A further row of
\* a closed request changes nothing.
AppendRow(k) ==
    /\ \/ FailAttempt(k)
       \/ Close(k)
       \/ closed[k] # "open" /\ Keeps(k)
    /\ hidden' \in {hidden, [hidden EXCEPT ![k] = @ + 1]}
    /\ \A j \in Keys \ {k} : Keeps(j)

LedgerNext == \E k \in Keys : AppendRow(k)

LedgerSpec == LedgerInit /\ [][LedgerNext]_<<used, closed, hidden>>

=============================================================================

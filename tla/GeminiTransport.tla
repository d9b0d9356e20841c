--------------------------- MODULE GeminiTransport ---------------------------
(***************************************************************************)
(* scripts/validation/gemini_solar_image_review.py: how the anchor workers *)
(* of one process score chunks of chips.  score_batch_with_fallback asks   *)
(* for a chunk twice as a batch and then for the missing chips one by one; *)
(* every such call goes through _post_with_transport_retry, which takes a  *)
(* limiter slot, asks the quota breaker, sends, reports to the breaker and *)
(* releases the slot, and retries in two phases.                           *)
(*                                                                         *)
(* The breaker is the one of module QuotaBreaker: every step here is one   *)
(* of its steps or leaves it alone.  Sleeping between attempts is waiting  *)
(* for a slot.                                                             *)
(***************************************************************************)
EXTENDS Integers, FiniteSets

CONSTANTS
    Workers, NoCall, LastWindow, Gross, Work, TripAfter, MaxFaults,
    Chunks,         \* chunks of picks; one batch call each
    NoChunk,        \* the worker has no chunk
    NChips,         \* picks of a chunk: chip_index 1..NChips
    MaxAttempts,    \* TRANSPORT_MAX_ATTEMPTS
    PoolAttempts,   \* POOL_EXHAUSTED_MAX_ATTEMPTS
    MaxInFlight     \* the limiter's max_in_flight

ASSUME TransportAssumption ==
    /\ NoChunk \notin Chunks /\ IsFiniteSet(Chunks) /\ IsFiniteSet(Workers)
    /\ LastWindow \in Nat \ {0} /\ NChips \in Nat \ {0}
    /\ MaxAttempts \in Nat \ {0} /\ PoolAttempts \in Nat \ {0}
    /\ MaxInFlight \in Nat \ {0}

VARIABLES
    up, window, count, reserved, seen, streak, paused, call, last, rows,
    rowSeen, torn, tail, marker, past, sent, started, lost, wasted, tripped,
    faults,
    slots,      \* free permits of the limiter's semaphore
    queue,      \* chunks no worker of this process has taken
    pc,         \* idle, acquire, slot (held, not sent) or wire
    chunk,      \* the chunk a worker scores
    chip,       \* 0 in a batch call, else the chip of a per-image call
    again,      \* this is the second batch call
    attempt,    \* attempt_number of the next (or running) attempt
    pool,       \* attempt of the pool-exhausted phase, 0 before it
    best,       \* chips with a valid row in the better batch answer so far
    failed,     \* chips whose per-image call gave no observation
    scored,     \* chunks that were returned, with their chips that failed
    tries,      \* history: attempts a worker made for its call
    unmarked    \* history: pause markers that could not be written

Chips == 1..NChips
\* logical_call_id: of the chunk's batch calls, and of its per-image calls.
Logical == Chunks \X ({0} \cup Chips)

B == INSTANCE QuotaBreaker

breaker == <<up, window, count, reserved, seen, streak, paused, call, last, rows,
             rowSeen, torn, tail, marker, past, sent, started, lost, wasted,
             tripped, faults>>
progress == <<chunk, chip, again, attempt, pool, best, failed, tries>>
local == <<slots, queue, pc, progress, scored, unmarked>>
vars == <<breaker, local>>

\* What a send comes back with: a usable answer, a foreign modelVersion, the
\* two quota signals, a retryable status (502, 504, a plain 429 or 503), any
\* other status, a connection error or timeout, any other exception.
Replies == {"ok", "identity", "pool_503", "upstream_429_resource_exhausted",
            "busy", "denied", "timeout", "broken"}
Exceptions == {"timeout", "broken"}
Class(r) == IF r \in {"ok", "identity"} THEN "ok"
            ELSE IF r \in {"pool_503", "upstream_429_resource_exhausted"} THEN r
            ELSE "other"

Id(w) == <<chunk[w], chip[w]>>
Holding == {w \in Workers : pc[w] \in {"slot", "wire"}}

Init ==
    /\ B!Init
    /\ slots = MaxInFlight /\ queue = {}
    /\ pc = [w \in Workers |-> "idle"]
    /\ chunk = [w \in Workers |-> NoChunk] /\ chip = [w \in Workers |-> 0]
    /\ again = [w \in Workers |-> FALSE]
    /\ attempt = [w \in Workers |-> 1] /\ pool = [w \in Workers |-> 0]
    /\ best = [w \in Workers |-> {}] /\ failed = [w \in Workers |-> {}]
    /\ tries = [w \in Workers |-> 0] /\ scored = {} /\ unmarked = 0

Done == {s.chunk : s \in scored}

-----------------------------------------------------------------------------
(* The process.                                                            *)

\* A new process has fresh threads and a fresh limiter, and scores what has
\* no result yet.
Start ==
    /\ \E v \in 1..LastWindow : B!Start(v)
    /\ queue' = Chunks \ Done
    /\ UNCHANGED <<slots, pc, progress, scored, unmarked>>

\* It ends or is killed, whatever its threads are doing; results whose round
\* was not checkpointed yet are gone.
Stop ==
    /\ B!Stop
    /\ slots' = MaxInFlight /\ queue' = {}
    /\ pc' = [w \in Workers |-> "idle"]
    /\ chunk' = [w \in Workers |-> NoChunk] /\ chip' = [w \in Workers |-> 0]
    /\ again' = [w \in Workers |-> FALSE]
    /\ attempt' = [w \in Workers |-> 1] /\ pool' = [w \in Workers |-> 0]
    /\ best' = [w \in Workers |-> {}] /\ failed' = [w \in Workers |-> {}]
    /\ tries' = [w \in Workers |-> 0]
    /\ scored' \in SUBSET scored
    /\ UNCHANGED unmarked

WindowResets == B!WindowResets /\ UNCHANGED local

\* score_batch_with_fallback begins.
Take(w, c) ==
    /\ up /\ pc[w] = "idle" /\ c \in queue
    /\ queue' = queue \ {c}
    /\ pc' = [pc EXCEPT ![w] = "acquire"]
    /\ chunk' = [chunk EXCEPT ![w] = c]
    /\ UNCHANGED <<breaker, slots, chip, again, attempt, pool, best, failed, tries,
                   scored, unmarked>>

-----------------------------------------------------------------------------
(* What an attempt leads to.                                               *)

\* The worker is done with its chunk.
Leave(w) ==
    /\ pc' = [pc EXCEPT ![w] = "idle"]
    /\ chunk' = [chunk EXCEPT ![w] = NoChunk] /\ chip' = [chip EXCEPT ![w] = 0]
    /\ again' = [again EXCEPT ![w] = FALSE]
    /\ attempt' = [attempt EXCEPT ![w] = 1] /\ pool' = [pool EXCEPT ![w] = 0]
    /\ best' = [best EXCEPT ![w] = {}] /\ failed' = [failed EXCEPT ![w] = {}]
    /\ tries' = [tries EXCEPT ![w] = 0]

\* The exception leaves score_batch_with_fallback: the chunk has no result.
Abort(w) == Leave(w) /\ UNCHANGED scored

Return(w, bad) ==
    /\ scored' = scored \cup {[chunk |-> chunk[w], failed |-> bad]}
    /\ Leave(w)

\* The next HTTP call of the chunk.
NewCall(w, i, second) ==
    /\ pc' = [pc EXCEPT ![w] = "acquire"]
    /\ chip' = [chip EXCEPT ![w] = i]
    /\ again' = [again EXCEPT ![w] = second]
    /\ attempt' = [attempt EXCEPT ![w] = 1]
    /\ pool' = [pool EXCEPT ![w] = 0]
    /\ tries' = [tries EXCEPT ![w] = 0]
    /\ UNCHANGED <<chunk, scored>>

-----------------------------------------------------------------------------
(* Retries of one call.                                                    *)

\* Phase 1 retries what is transient, up to MaxAttempts.
RetryFirst(w, r) ==
    pool[w] = 0 /\ attempt[w] < MaxAttempts /\ r \in {"pool_503", "busy", "timeout"}
\* Phase 2 follows when the last of them found the account pool exhausted,
EnterPool(w, r) ==
    pool[w] = 0 /\ attempt[w] = MaxAttempts /\ r = "pool_503"
\* and retries that answer and any exception.
RetryPool(w, r) ==
    pool[w] \in 1..(PoolAttempts - 1) /\ r \in Exceptions \cup {"pool_503"}

Retried(w, r) == RetryFirst(w, r) \/ EnterPool(w, r) \/ RetryPool(w, r)

\* Mutant: the pool-exhausted phase does not count its exceptions.
Retry_Uncounted(w, r) ==
    /\ pc' = [pc EXCEPT ![w] = "acquire"]
    /\ attempt' = [attempt EXCEPT ![w] =
                      IF pool[w] = 0 /\ attempt[w] < MaxAttempts THEN @ + 1 ELSE @]
    /\ pool' = [pool EXCEPT ![w] =
                   IF RetryFirst(w, r) \/ r \in Exceptions THEN @ ELSE @ + 1]
    /\ UNCHANGED <<chunk, chip, again, best, failed, tries, scored>>

\* The attempt number is `retries + 1` in phase 2: it starts over at the number
\* of the last attempt, and an exception does not count.
Retry(w, r) ==
    /\ pc' = [pc EXCEPT ![w] = "acquire"]
    /\ attempt' = [attempt EXCEPT ![w] =
                      IF EnterPool(w, r) \/ (pool[w] > 0 /\ r \in Exceptions)
                      THEN @ ELSE @ + 1]
    /\ pool' = [pool EXCEPT ![w] = IF RetryFirst(w, r) THEN @ ELSE @ + 1]
    /\ UNCHANGED <<chunk, chip, again, best, failed, tries, scored>>

-----------------------------------------------------------------------------
(* The calls of one chunk.                                                 *)

\* Per-image fallback: the next chip, after chip i, that no batch answered.
Missing(kept, i) == {j \in Chips \ kept : j > i}
NextImage(w, kept, i) ==
    \E j \in Missing(kept, i) :
        (\A k \in Missing(kept, i) : j <= k) /\ NewCall(w, j, TRUE)

\* A batch call gave valid rows for the chips V.  After two of them the better
\* one is salvaged, the first if they tie.
BatchOver(w, V) ==
    LET kept == IF again[w] /\ Cardinality(V) <= Cardinality(best[w])
                THEN best[w] ELSE V
    IN  \/ /\ V = Chips
           /\ Return(w, {})
        \/ /\ V # Chips
           /\ best' = [best EXCEPT ![w] = kept]
           /\ UNCHANGED failed
           /\ IF again[w] THEN NextImage(w, kept, 0) ELSE NewCall(w, 0, TRUE)

\* A per-image call gave an observation, or none.
ImageOver(w, good) ==
    LET bad == IF good THEN failed[w] ELSE failed[w] \cup {chip[w]}
    IN  \/ /\ Missing(best[w], chip[w]) # {}
           /\ failed' = [failed EXCEPT ![w] = bad]
           /\ UNCHANGED best
           /\ NextImage(w, best[w], chip[w])
        \/ /\ Missing(best[w], chip[w]) = {}
           /\ Return(w, bad)

\* Only a 200 has rows; it need not have all of them.
CallOver(w, r) ==
    \/ chip[w] = 0 /\ \E V \in SUBSET Chips :
          (r # "ok" => V = {}) /\ BatchOver(w, V)
    \/ chip[w] # 0 /\ \E good \in BOOLEAN :
          (r # "ok" => ~good) /\ ImageOver(w, good)

-----------------------------------------------------------------------------
(* One attempt.                                                            *)

\* RateLimiter.acquire.
Acquire(w) ==
    /\ up /\ pc[w] = "acquire" /\ slots > 0
    /\ slots' = slots - 1
    /\ pc' = [pc EXCEPT ![w] = "slot"]
    /\ UNCHANGED <<breaker, queue, progress, scored, unmarked>>

\* Mutant: retries are sent without asking the breaker.
Send_Unasked(w) ==
    /\ pc[w] = "slot"
    /\ \/ attempt[w] = 1 /\ B!Admit(w, Id(w), FALSE)
       \/ /\ attempt[w] > 1
          /\ call' = [call EXCEPT ![w] = Id(w)]
          /\ sent' = [sent EXCEPT ![window] = @ + 1]
          /\ UNCHANGED <<up, window, count, reserved, seen, streak, paused, last,
                         rows, rowSeen, torn, tail, marker, past, started, lost,
                         wasted, tripped, faults>>
    /\ pc' = [pc EXCEPT ![w] = "wire"]
    /\ tries' = [tries EXCEPT ![w] = @ + 1]
    /\ UNCHANGED <<slots, queue, chunk, chip, again, attempt, pool, best, failed,
                   scored, unmarked>>

\* before_attempt admits it.
Send(w) ==
    /\ pc[w] = "slot"
    /\ B!Admit(w, Id(w), attempt[w] > 1)
    /\ pc' = [pc EXCEPT ![w] = "wire"]
    /\ tries' = [tries EXCEPT ![w] = @ + 1]
    /\ UNCHANGED <<slots, queue, chunk, chip, again, attempt, pool, best, failed,
                   scored, unmarked>>

\* The breaker trips in this step and cannot replace PAUSED_QUOTA.json: what is
\* raised is the file's OSError and not a QuotaControlError.
MarkerLost ==
    paused = B!NotPaused /\ paused' # B!NotPaused /\ faults' # faults

Marking == unmarked' = IF MarkerLost THEN unmarked + 1 ELSE unmarked

\* Mutant: the slot is kept when before_attempt raises.
Refused_KeepsSlot(w) ==
    /\ pc[w] = "slot"
    /\ B!Refuse(w, Id(w), attempt[w] > 1)
    /\ Marking
    /\ IF MarkerLost THEN CallOver(w, "broken") ELSE Abort(w)
    /\ UNCHANGED <<slots, queue>>

\* before_attempt raises.  The fallback lets a QuotaControlError through, and
\* takes an OSError for a call that failed.
Refused(w) ==
    /\ pc[w] = "slot"
    /\ B!Refuse(w, Id(w), attempt[w] > 1)
    /\ Marking
    /\ slots' = slots + 1
    /\ IF MarkerLost THEN CallOver(w, "broken") ELSE Abort(w)
    /\ UNCHANGED queue

\* A trip in after_attempt and a foreign model are fail-closed.
FailsClosed(r) == r = "identity" \/ B!TripReason(Class(r)) # B!NotPaused

\* The OSError of after_attempt comes before the model is looked at.
Reply(w, r) ==
    /\ pc[w] = "wire"
    /\ B!Record(w, Class(r))
    /\ Marking
    /\ slots' = slots + 1
    /\ \/ MarkerLost /\ CallOver(w, "broken")
       \/ ~MarkerLost /\ FailsClosed(r) /\ Abort(w)
       \/ ~FailsClosed(r) /\ Retried(w, r) /\ Retry(w, r)
       \/ ~FailsClosed(r) /\ ~Retried(w, r) /\ CallOver(w, r)
    /\ UNCHANGED queue

\* Mutant: a row that could not be written is one more failed call.
RowLost_Swallowed(w) ==
    /\ pc[w] = "wire"
    /\ B!AppendFails(w)
    /\ slots' = slots + 1
    /\ CallOver(w, "timeout")
    /\ UNCHANGED <<queue, unmarked>>

\* after_attempt could not append the row: fail-closed.
RowLost(w) ==
    /\ pc[w] = "wire"
    /\ B!AppendFails(w)
    /\ slots' = slots + 1
    /\ Abort(w)
    /\ UNCHANGED <<queue, unmarked>>

Step(w) ==
    \/ Acquire(w) \/ Send(w) \/ Refused(w) \/ RowLost(w)
    \/ \E r \in Replies : Reply(w, r)

Next ==
    \/ Start \/ Stop \/ WindowResets
    \/ \E w \in Workers : Step(w) \/ (\E c \in Chunks : Take(w, c))

Spec == Init /\ [][Next]_vars

\* Threads are scheduled; the process may still be killed at any time.
FairSpec == Spec /\ \A w \in Workers : WF_vars(Step(w))

-----------------------------------------------------------------------------
(* Properties.                                                             *)

\* Every variable has its type.
TypeOK ==
    /\ B!TypeOK
    /\ slots \in 0..MaxInFlight /\ queue \subseteq Chunks
    /\ pc \in [Workers -> {"idle", "acquire", "slot", "wire"}]
    /\ chunk \in [Workers -> Chunks \cup {NoChunk}]
    /\ chip \in [Workers -> {0} \cup Chips] /\ again \in [Workers -> BOOLEAN]
    /\ attempt \in [Workers -> 1..(MaxAttempts + PoolAttempts)]
    /\ pool \in [Workers -> 0..PoolAttempts]
    /\ best \in [Workers -> SUBSET Chips] /\ failed \in [Workers -> SUBSET Chips]
    /\ scored \subseteq [chunk : Chunks, failed : SUBSET Chips]
    /\ tries \in [Workers -> Nat] /\ unmarked \in Nat

\* The limiter's permits are never leaked or doubled, whichever of the raising
\* paths an attempt takes, and a worker waiting to retry holds none.
SlotsBalanced == slots + Cardinality(Holding) = MaxInFlight

\* The workers use the breaker as its specification expects.
ImplementsBreaker == B!Spec

\* The calls the results rest on: those of each chunk that was scored, and those
\* of its chips that are called failed; and the ones among them no ledger that
\* can be read has a row for.
Judged ==
    {k \in Logical : \E s \in scored : s.chunk = k[1] /\ k[2] \in s.failed \cup {0}}
Rowed(k) == torn \/ \E v \in 1..LastWindow : k \in rowSeen[v]
Unbacked == {k \in Judged : ~Rowed(k)}

\* A chunk is scored, and a chip is called failed, on the strength of calls the
\* ledger has a row for: refusals, lost rows, foreign models and kills become no
\* verdict, except at most one for each pause marker that could not be written,
\* and that one is never about a whole chunk.
VerdictHasLedgerRow ==
    /\ Cardinality(Unbacked) <= unmarked
    /\ \A k \in Unbacked : k[2] # 0

\* A call costs at most MaxAttempts + PoolAttempts attempts, whatever mix of
\* answers and exceptions the gateway gives in whichever phase.
TriesBounded == \A w \in Workers : tries[w] <= MaxAttempts + PoolAttempts

\* Every chunk a worker takes up is let go of: scored, aborted or killed.
ChunkEnds ==
    \A w \in Workers : chunk[w] # NoChunk ~> chunk[w] = NoChunk

=============================================================================

------------------------ MODULE GeminiTransportProofs ------------------------
(***************************************************************************)
(* The transport implements the breaker: every step of GeminiTransport is  *)
(* a step of QuotaBreaker or leaves the breaker alone.  And the limiter's  *)
(* permits are neither leaked nor doubled, a verdict rests on ledger rows, *)
(* and the retries of a call are bounded.                                  *)
(***************************************************************************)
EXTENDS GeminiTransport, TLAPS, FiniteSetTheorems

\* What the proof needs of the workers' own state: a worker that holds or waits
\* for a slot works on a chunk.
WorkerInv ==
    /\ pc \in [Workers -> {"idle", "acquire", "slot", "wire"}]
    /\ chunk \in [Workers -> Chunks \cup {NoChunk}]
    /\ chip \in [Workers -> {0} \cup Chips]
    /\ \A w \in Workers : pc[w] # "idle" => chunk[w] \in Chunks

\* The workers' invariant holds at first.
LEMMA WorkerInit == Init => WorkerInv
BY DEF Init, WorkerInv

\* The calls of a chunk name its chips.
LEMMA CallOverType ==
    ASSUME WorkerInv, NEW w \in Workers, NEW r, pc[w] # "idle", CallOver(w, r)
    PROVE  WorkerInv'
<1>1. ASSUME NEW i \in {0} \cup Chips, NEW second, NewCall(w, i, second)
      PROVE  WorkerInv'
  BY <1>1 DEF NewCall, WorkerInv
<1>2. ASSUME NEW bad, Return(w, bad)
      PROVE  WorkerInv'
  BY <1>2 DEF Return, Leave, WorkerInv
<1>3. ASSUME NEW kept, NEW i, NextImage(w, kept, i)
      PROVE  WorkerInv'
  BY <1>1, <1>3 DEF NextImage, Missing
<1>4. ASSUME NEW V, BatchOver(w, V) PROVE WorkerInv'
  BY <1>1, <1>2, <1>3, <1>4 DEF BatchOver
<1>5. ASSUME NEW good, ImageOver(w, good) PROVE WorkerInv'
  BY <1>2, <1>3, <1>5 DEF ImageOver
<1> QED
  BY <1>4, <1>5 DEF CallOver

\* Every step keeps the workers' invariant.
LEMMA WorkerStep == WorkerInv /\ [Next]_vars => WorkerInv'
<1> SUFFICES ASSUME WorkerInv, [Next]_vars PROVE WorkerInv'
  OBVIOUS
<1>1. ASSUME NEW w \in Workers, Abort(w) PROVE WorkerInv'
  BY <1>1 DEF Abort, Leave, WorkerInv
<1>2. CASE Start
  BY <1>2 DEF Start, WorkerInv, progress
<1>3. CASE Stop
  BY <1>3 DEF Stop, WorkerInv
<1>4. CASE WindowResets
  BY <1>4 DEF WindowResets, WorkerInv, local, progress
<1>5. ASSUME NEW w \in Workers, NEW c \in Chunks, Take(w, c) PROVE WorkerInv'
  BY <1>5 DEF Take, WorkerInv
<1>6. ASSUME NEW w \in Workers, Acquire(w) PROVE WorkerInv'
  BY <1>6 DEF Acquire, WorkerInv, progress
<1>7. ASSUME NEW w \in Workers, Send(w) PROVE WorkerInv'
  BY <1>7 DEF Send, WorkerInv, progress
<1>8. ASSUME NEW w \in Workers, Refused(w) \/ RowLost(w) PROVE WorkerInv'
  BY <1>1, <1>8, CallOverType DEF Refused, RowLost
<1>9. ASSUME NEW w \in Workers, NEW r \in Replies, Reply(w, r) PROVE WorkerInv'
  <2>1. CASE Abort(w)
    BY <1>1, <2>1
  <2>2. CASE Retry(w, r)
    BY <1>9, <2>2 DEF Reply, Retry, WorkerInv
  <2>3. CASE CallOver(w, r) \/ CallOver(w, "broken")
    BY <1>9, <2>3, CallOverType DEF Reply
  <2> QED
    BY <1>9, <2>1, <2>2, <2>3 DEF Reply
<1>10. CASE UNCHANGED vars
  BY <1>10 DEF vars, local, progress, WorkerInv
<1> QED
  BY <1>2, <1>3, <1>4, <1>5, <1>6, <1>7, <1>8, <1>9, <1>10 DEF Next, Step

-----------------------------------------------------------------------------

\* The class of a reply is one the breaker knows.
LEMMA ClassIsClass == ASSUME NEW r \in Replies PROVE Class(r) \in B!Classes
BY DEF Replies, Class, B!Classes

\* A worker on a chunk makes one of the breaker's logical calls.
LEMMA IdIsLogical ==
    ASSUME WorkerInv, NEW w \in Workers, pc[w] # "idle"
    PROVE  Id(w) \in Logical
BY DEF WorkerInv, Id, Logical

\* Every step of the transport is one of the breaker, or leaves it alone.
LEMMA BreakerStep == WorkerInv /\ [Next]_vars => [B!Next]_(B!vars)
<1> SUFFICES ASSUME WorkerInv, [Next]_vars PROVE [B!Next]_(B!vars)
  OBVIOUS
<1> USE DEF B!Next
<1>1. CASE Start
  BY <1>1 DEF Start, B!Windows
<1>2. CASE Stop
  BY <1>2 DEF Stop
<1>3. CASE WindowResets
  BY <1>3 DEF WindowResets
<1>4. ASSUME NEW w \in Workers, NEW c \in Chunks, Take(w, c) PROVE UNCHANGED B!vars
  BY <1>4 DEF Take, breaker, B!vars, B!mem, B!work, B!disk, B!hist
<1>5. ASSUME NEW w \in Workers, Acquire(w) PROVE UNCHANGED B!vars
  BY <1>5 DEF Acquire, breaker, B!vars, B!mem, B!work, B!disk, B!hist
<1>6. ASSUME NEW w \in Workers, Send(w) PROVE B!Next
  <2>1. Id(w) \in Logical /\ (attempt[w] > 1) \in BOOLEAN
    BY <1>6, IdIsLogical DEF Send
  <2> QED
    BY <1>6, <2>1 DEF Send
<1>7. ASSUME NEW w \in Workers, Refused(w) PROVE B!Next
  <2>1. Id(w) \in Logical /\ (attempt[w] > 1) \in BOOLEAN
    BY <1>7, IdIsLogical DEF Refused
  <2> QED
    BY <1>7, <2>1 DEF Refused
<1>8. ASSUME NEW w \in Workers, RowLost(w) PROVE B!Next
  BY <1>8 DEF RowLost
<1>9. ASSUME NEW w \in Workers, NEW r \in Replies, Reply(w, r) PROVE B!Next
  BY <1>9, ClassIsClass DEF Reply
<1>10. CASE UNCHANGED vars
  BY <1>10 DEF vars, breaker, B!vars, B!mem, B!work, B!disk, B!hist
<1> QED
  BY <1>1, <1>2, <1>3, <1>4, <1>5, <1>6, <1>7, <1>8, <1>9, <1>10 DEF Next, Step

\* Whatever the workers' calls do, they drive the breaker the way QuotaBreaker
\* allows: each of its theorems holds of the scan's transport.
THEOREM TransportImplementsBreaker == Spec => ImplementsBreaker
<1>1. Init => B!Init
  BY DEF Init
<1> QED
  BY <1>1, WorkerInit, WorkerStep, BreakerStep, PTL DEF Spec, B!Spec, ImplementsBreaker

-----------------------------------------------------------------------------
(* The limiter.                                                            *)

Slots == slots \in Int /\ SlotsBalanced

Held == {"slot", "wire"}

\* A worker that takes or returns a permit changes Holding by one element.
LEMMA HoldingStep ==
    ASSUME WorkerInv, NEW w \in Workers, NEW s, pc' = [pc EXCEPT ![w] = s]
    PROVE  /\ IsFiniteSet(Holding) /\ Cardinality(Holding) \in Nat
           /\ pc[w] \notin Held /\ s \in Held
                 => Cardinality(Holding') = Cardinality(Holding) + 1
           /\ pc[w] \in Held /\ s \notin Held
                 => Cardinality(Holding') = Cardinality(Holding) - 1
           /\ (pc[w] \in Held <=> s \in Held) => Holding' = Holding
<1>1. IsFiniteSet(Holding) /\ Cardinality(Holding) \in Nat
  BY TransportAssumption, FS_Subset, FS_CardinalityType DEF Holding
<1>2. ASSUME pc[w] \notin Held, s \in Held
      PROVE  Cardinality(Holding') = Cardinality(Holding) + 1
  <2>1. Holding' = Holding \cup {w} /\ w \notin Holding
    BY <1>2 DEF WorkerInv, Holding, Held
  <2> QED BY <1>1, <2>1, FS_AddElement
<1>3. ASSUME pc[w] \in Held, s \notin Held
      PROVE  Cardinality(Holding') = Cardinality(Holding) - 1
  <2>1. Holding' = Holding \ {w} /\ w \in Holding
    BY <1>3 DEF WorkerInv, Holding, Held
  <2> QED BY <1>1, <2>1, FS_RemoveElement
<1>4. ASSUME pc[w] \in Held <=> s \in Held PROVE Holding' = Holding
  BY <1>4 DEF WorkerInv, Holding, Held
<1> QED BY <1>1, <1>2, <1>3, <1>4

\* Whatever an attempt leads to, its worker is idle or asks for a permit again.
LEMMA AttemptOver ==
    ASSUME NEW w \in Workers, NEW r,
           Abort(w) \/ Retry(w, r) \/ CallOver(w, r)
    PROVE  \E s : s \notin Held /\ pc' = [pc EXCEPT ![w] = s]
<1>1. "idle" \notin Held /\ "acquire" \notin Held
  BY DEF Held
<1>2. CASE Abort(w) \/ Retry(w, r)
  BY <1>1, <1>2 DEF Abort, Leave, Retry
<1>3. CASE CallOver(w, r)
  <2>1. ASSUME NEW V, BatchOver(w, V)
        PROVE  \E s : s \notin Held /\ pc' = [pc EXCEPT ![w] = s]
    BY <1>1, <2>1 DEF BatchOver, Return, Leave, NewCall, NextImage
  <2>2. ASSUME NEW good, ImageOver(w, good)
        PROVE  \E s : s \notin Held /\ pc' = [pc EXCEPT ![w] = s]
    BY <1>1, <2>2 DEF ImageOver, Return, Leave, NewCall, NextImage
  <2> QED BY <1>3, <2>1, <2>2 DEF CallOver
<1> QED BY <1>2, <1>3

\* Every step keeps the count of the slots.
LEMMA SlotsStep == WorkerInv /\ Slots /\ [Next]_vars => Slots'
<1> SUFFICES ASSUME WorkerInv, Slots, [Next]_vars PROVE Slots'
  OBVIOUS
<1> USE DEF Slots, SlotsBalanced
<1>1. ASSUME NEW w \in Workers, NEW r, pc[w] \in Held, slots' = slots + 1,
             Abort(w) \/ Retry(w, r) \/ CallOver(w, r)
      PROVE  Slots'
  <2> PICK s : s \notin Held /\ pc' = [pc EXCEPT ![w] = s]
    BY <1>1, AttemptOver
  <2>1. /\ Cardinality(Holding) \in Nat
        /\ Cardinality(Holding') = Cardinality(Holding) - 1
    BY <1>1, HoldingStep
  <2> QED BY <1>1, <2>1
<1>2. ASSUME UNCHANGED <<slots, pc>> PROVE Slots'
  BY <1>2 DEF Holding
<1>3. CASE Start
  BY <1>2, <1>3 DEF Start
<1>4. CASE Stop
  <2>1. Holding' = {} /\ slots' = MaxInFlight
    BY <1>4 DEF Stop, Holding
  <2> QED BY <2>1, FS_EmptySet, TransportAssumption
<1>5. CASE WindowResets
  BY <1>2, <1>5 DEF WindowResets, local
<1>6. ASSUME NEW w \in Workers, NEW c \in Chunks, Take(w, c) PROVE Slots'
  <2>1. pc[w] \notin Held /\ "acquire" \notin Held /\ slots' = slots
        /\ pc' = [pc EXCEPT ![w] = "acquire"]
    BY <1>6 DEF Take, Held
  <2> QED BY <2>1, HoldingStep
<1>7. ASSUME NEW w \in Workers, Acquire(w) PROVE Slots'
  <2>1. pc[w] \notin Held /\ "slot" \in Held /\ slots' = slots - 1
        /\ pc' = [pc EXCEPT ![w] = "slot"]
    BY <1>7 DEF Acquire, Held
  <2>2. /\ Cardinality(Holding) \in Nat
        /\ Cardinality(Holding') = Cardinality(Holding) + 1
    BY <2>1, HoldingStep
  <2> QED BY <2>1, <2>2
<1>8. ASSUME NEW w \in Workers, Send(w) PROVE Slots'
  <2>1. pc[w] \in Held /\ "wire" \in Held /\ slots' = slots
        /\ pc' = [pc EXCEPT ![w] = "wire"]
    BY <1>8 DEF Send, Held
  <2> QED BY <2>1, HoldingStep
<1>9. ASSUME NEW w \in Workers, Refused(w) \/ RowLost(w) PROVE Slots'
  BY <1>1, <1>9 DEF Refused, RowLost, Held
<1>10. ASSUME NEW w \in Workers, NEW r \in Replies, Reply(w, r) PROVE Slots'
  BY <1>1, <1>10 DEF Reply, Held
<1>11. CASE UNCHANGED vars
  BY <1>2, <1>11 DEF vars, local
<1> QED
  BY <1>3, <1>4, <1>5, <1>6, <1>7, <1>8, <1>9, <1>10, <1>11 DEF Next, Step

\* The count of the slots holds at first.
LEMMA SlotsInit == Init => Slots
<1> SUFFICES ASSUME Init PROVE Slots
  OBVIOUS
<1>1. Holding = {} /\ slots = MaxInFlight
  BY DEF Init, Holding
<1> QED BY <1>1, FS_EmptySet, TransportAssumption DEF Slots, SlotsBalanced

\* Every path an attempt takes, raising or not, returns its permit once: the
\* free permits and the workers that hold one always add up to max_in_flight,
\* for any number of workers.
THEOREM LimiterExact == Spec => []SlotsBalanced
<1>1. Slots => SlotsBalanced
  BY DEF Slots
<1> QED
  BY <1>1, WorkerInit, WorkerStep, SlotsInit, SlotsStep, PTL DEF Spec

-----------------------------------------------------------------------------
(* Verdicts.                                                               *)

\* Types of what verdicts depend on.
RowType ==
    /\ window \in 1..LastWindow /\ torn \in BOOLEAN /\ unmarked \in Nat
    /\ up \/ paused = B!NotPaused
    /\ rowSeen \in [1..LastWindow -> SUBSET Logical]
    /\ call \in [Workers -> Logical \cup {NoCall}]
    /\ again \in [Workers -> BOOLEAN] /\ failed \in [Workers -> SUBSET Chips]

\* A worker's chunk can still get a result as long as the breaker is not paused
\* or the worker's attempt is on the wire.
Sure(w) == pc[w] = "wire" \/ paused = B!NotPaused

\* What such a worker knows of its chunk is on the strength of written rows: a
\* second call follows a first one with a row, and a failed chip has its own.
KnowsByRow(w) ==
    /\ pc[w] = "wire" => call[w] = Id(w)
    /\ pc[w] = "idle" => ~again[w] /\ failed[w] = {}
    /\ chip[w] # 0 => again[w]
    /\ Sure(w) /\ again[w] => Rowed(<<chunk[w], 0>>)
    /\ Sure(w) => \A i \in failed[w] : Rowed(<<chunk[w], i>>)

VerdictInv ==
    RowType /\ (\A w \in Workers : KnowsByRow(w)) /\ VerdictHasLedgerRow

\* The facts about verdicts hold at first.
LEMMA VerdictInit == Init => VerdictInv
<1> SUFFICES ASSUME Init PROVE VerdictInv
  OBVIOUS
<1>1. Unbacked = {}
  BY DEF Init, Unbacked, Judged
<1>2. VerdictHasLedgerRow
  BY <1>1, FS_EmptySet DEF Init, VerdictHasLedgerRow
<1>3. RowType
  <2>1. B!Init /\ unmarked = 0 /\ 1 \in 1..LastWindow
    BY TransportAssumption DEF Init
  <2>2. /\ window = 1 /\ torn = FALSE /\ paused = B!NotPaused
        /\ rowSeen = [v \in 1..LastWindow |-> {}]
        /\ call = [w \in Workers |-> NoCall]
    BY <2>1 DEF B!Init, B!Windows
  <2>3. /\ again = [w \in Workers |-> FALSE] /\ failed = [w \in Workers |-> {}]
    BY DEF Init
  <2>4. /\ again \in [Workers -> BOOLEAN] /\ failed \in [Workers -> SUBSET Chips]
        /\ call \in [Workers -> Logical \cup {NoCall}]
    BY <2>2, <2>3
  <2>5. rowSeen \in [1..LastWindow -> SUBSET Logical]
    BY <2>2
  <2>6. window \in 1..LastWindow /\ unmarked \in Nat /\ torn \in BOOLEAN
    BY <2>1, <2>2
  <2> QED BY <2>2, <2>4, <2>5, <2>6 DEF RowType
<1>4. \A w \in Workers : KnowsByRow(w)
  BY DEF Init, KnowsByRow
<1> QED BY <1>2, <1>3, <1>4 DEF VerdictInv

\* What an append, finished or not, leaves behind: the row, or a malformed file.
Appended(w) == (\E ended \in BOOLEAN : B!AppendRow(w, ended)) \/ B!Malformed

\* A written row stays.
LEMMA RowsStay ==
    ASSUME RowType, UNCHANGED <<rowSeen, torn>> \/ \E w \in Workers : Appended(w)
    PROVE  \A k : Rowed(k) => Rowed(k)'
BY DEF RowType, Rowed, Appended, B!AppendRow, B!Malformed

\* The append of a call's row makes it one, or spoils the ledger.
LEMMA RowIsThere ==
    ASSUME RowType, NEW w \in Workers, Appended(w), NEW k, k = call[w] PROVE Rowed(k)'
BY DEF RowType, Rowed, Appended, B!AppendRow, B!Malformed

\* A worker that is not touched knows what it knew.
LEMMA OthersKnow ==
    ASSUME WorkerInv, VerdictInv, NEW w \in Workers, NEW x \in Workers, x # w,
           UNCHANGED <<rowSeen, torn>> \/ Appended(w),
           paused' = B!NotPaused => paused = B!NotPaused,
           pc'[x] = pc[x], call'[x] = call[x], chunk'[x] = chunk[x],
           chip'[x] = chip[x], again'[x] = again[x], failed'[x] = failed[x]
    PROVE  KnowsByRow(x)'
<1>1. \A k : Rowed(k) => Rowed(k)'
  BY RowsStay DEF VerdictInv
<1>2. KnowsByRow(x) /\ (Sure(x)' => Sure(x))
  BY DEF VerdictInv, Sure
<1> QED BY <1>1, <1>2 DEF KnowsByRow, Id

\* There are finitely many calls a verdict can lack.
LEMMA UnbackedFinite == IsFiniteSet(Unbacked) /\ Unbacked \subseteq Logical
<1>1. IsFiniteSet({0} \cup Chips)
  <2>1. {0} \cup Chips = 0..NChips
    BY TransportAssumption DEF Chips
  <2>2. 0 \in Int /\ NChips \in Int
    BY TransportAssumption
  <2>3. IsFiniteSet(0..NChips)
    BY <2>2, FS_Interval
  <2> QED BY <2>1, <2>3
<1>2. IsFiniteSet(Logical)
  BY <1>1, FS_Product, TransportAssumption DEF Logical
<1> QED BY <1>2, FS_Subset DEF Unbacked, Judged

\* Nothing new goes without a row.
LEMMA NothingNew ==
    ASSUME VerdictInv, Unbacked' \subseteq Unbacked,
           unmarked' \in {unmarked, unmarked + 1}
    PROVE  VerdictHasLedgerRow'
<1>1. /\ Cardinality(Unbacked') <= Cardinality(Unbacked)
      /\ Cardinality(Unbacked) \in Nat /\ Cardinality(Unbacked') \in Nat
  BY UnbackedFinite, FS_Subset, FS_CardinalityType
<1>2. unmarked \in Nat
  BY DEF VerdictInv, RowType
<1> QED BY <1>1, <1>2 DEF VerdictInv, VerdictHasLedgerRow

\* One chip goes without a row, and a marker could not be written.
LEMMA OneMore ==
    ASSUME VerdictInv, NEW k, k[2] # 0, Unbacked' \subseteq Unbacked \cup {k},
           unmarked' = unmarked + 1
    PROVE  VerdictHasLedgerRow'
<1>1. /\ IsFiniteSet(Unbacked \cup {k})
      /\ Cardinality(Unbacked \cup {k}) <= Cardinality(Unbacked) + 1
      /\ Cardinality(Unbacked) \in Nat /\ Cardinality(Unbacked \cup {k}) \in Nat
  <2>1. CASE k \in Unbacked
    <3>1. Unbacked \cup {k} = Unbacked
      BY <2>1
    <3>2. Cardinality(Unbacked) \in Nat /\ IsFiniteSet(Unbacked)
      BY UnbackedFinite, FS_CardinalityType
    <3>3. Cardinality(Unbacked \cup {k}) = Cardinality(Unbacked)
      BY <3>1
    <3>4. IsFiniteSet(Unbacked \cup {k})
      BY <3>1, <3>2
    <3> QED BY <3>2, <3>3, <3>4
  <2>2. CASE k \notin Unbacked
    <3>1. /\ IsFiniteSet(Unbacked \cup {k}) /\ Cardinality(Unbacked) \in Nat
          /\ Cardinality(Unbacked \cup {k}) = Cardinality(Unbacked) + 1
      BY <2>2, UnbackedFinite, FS_AddElement, FS_CardinalityType
    <3> QED BY <3>1
  <2> QED BY <2>1, <2>2
<1>2. /\ Cardinality(Unbacked') <= Cardinality(Unbacked \cup {k})
      /\ Cardinality(Unbacked') \in Nat
  BY <1>1, FS_Subset, FS_CardinalityType
<1>3. unmarked \in Nat /\ Cardinality(Unbacked) <= unmarked
  BY DEF VerdictInv, RowType, VerdictHasLedgerRow
<1>4. Cardinality(Unbacked') <= unmarked'
  BY <1>1, <1>2, <1>3
<1> QED BY <1>4 DEF VerdictInv, VerdictHasLedgerRow

\* What is on record stays on record when no chunk is returned.
LEMMA ScoredStay ==
    ASSUME VerdictInv, scored' \subseteq scored,
           UNCHANGED <<rowSeen, torn>> \/ (\E w \in Workers : Appended(w)),
           unmarked' \in {unmarked, unmarked + 1}
    PROVE  VerdictHasLedgerRow'
<1>1. \A k : Rowed(k) => Rowed(k)'
  BY RowsStay DEF VerdictInv
<1>2. Unbacked' \subseteq Unbacked
  BY <1>1 DEF Unbacked, Judged
<1> QED BY <1>2, NothingNew

\* A result adds the calls it rests on.
LEMMA Returned ==
    ASSUME NEW w \in Workers, NEW bad, Return(w, bad),
           \A k : Rowed(k) => Rowed(k)', NEW c, c = chunk[w],
           NEW k \in Unbacked', k \notin Unbacked
    PROVE  k = <<c, k[2]>> /\ k[2] \in bad \cup {0} /\ ~Rowed(k)'
<1>1. k \in Judged' /\ ~Rowed(k)' /\ k \notin Judged
  BY DEF Unbacked
<1>2. k \in Logical /\ k = <<k[1], k[2]>>
  BY <1>1 DEF Judged, Logical
<1>3. scored' = scored \cup {[chunk |-> c, failed |-> bad]}
  BY DEF Return
<1>4. PICK s \in scored' : s.chunk = k[1] /\ k[2] \in s.failed \cup {0}
  BY <1>1 DEF Judged
<1>5. s \notin scored
  BY <1>1, <1>2, <1>4 DEF Judged
<1>6. s.chunk = c /\ s.failed = bad
  BY <1>3, <1>4, <1>5
<1> QED BY <1>1, <1>2, <1>4, <1>6

\* A worker that is done with its chunk claims nothing.
LEMMA LeaverKnows ==
    ASSUME WorkerInv, RowType, NEW w \in Workers, Leave(w)
    PROVE  KnowsByRow(w)'
<1>1. pc'[w] = "idle" /\ chip'[w] = 0 /\ again'[w] = FALSE /\ failed'[w] = {}
  BY DEF WorkerInv, RowType, Leave
<1> QED BY <1>1 DEF KnowsByRow

\* What the end of an attempt changes, whatever it leads to.
OnlyMoves(w) ==
    /\ failed' \in [Workers -> SUBSET Chips] /\ again' \in [Workers -> BOOLEAN]
    /\ \A x \in Workers \ {w} :
          /\ pc'[x] = pc[x] /\ chunk'[x] = chunk[x] /\ chip'[x] = chip[x]
          /\ again'[x] = again[x] /\ failed'[x] = failed[x]

\* A call that is over leads to another call of the chunk or to its result, which
\* calls no chip failed but those known to be and the call's own.
LEMMA AfterCall ==
    ASSUME WorkerInv, RowType, NEW w \in Workers, NEW r, CallOver(w, r)
    PROVE  /\ OnlyMoves(w)
           /\ \/ /\ \E i \in {0} \cup Chips : NewCall(w, i, TRUE)
                 /\ failed'[w] \subseteq failed[w] \cup {chip[w]}
              \/ \E bad \in SUBSET (failed[w] \cup {chip[w]}) :
                    /\ Return(w, bad)
                    /\ r # "ok" => chip[w] # 0
<1> USE DEF WorkerInv, RowType
<1>1. ASSUME NEW i \in {0} \cup Chips, NewCall(w, i, TRUE),
             \/ UNCHANGED failed
             \/ \E bad \in SUBSET Chips :
                   /\ failed' = [failed EXCEPT ![w] = bad]
                   /\ bad \subseteq failed[w] \cup {chip[w]}
      PROVE  OnlyMoves(w) /\ failed'[w] \subseteq failed[w] \cup {chip[w]}
  BY <1>1 DEF NewCall, OnlyMoves
<1>2. ASSUME NEW bad, Return(w, bad) PROVE OnlyMoves(w)
  BY <1>2 DEF Return, Leave, OnlyMoves
<1>3. ASSUME NEW V, BatchOver(w, V), r # "ok" => V = {}, chip[w] = 0
      PROVE  \/ UNCHANGED failed /\ \E i \in {0} \cup Chips : NewCall(w, i, TRUE)
             \/ Return(w, {}) /\ r = "ok"
  <2>1. Chips # {}
    BY TransportAssumption DEF Chips
  <2> QED BY <1>3, <2>1 DEF BatchOver, NextImage, Missing
<1>4. ASSUME NEW good, ImageOver(w, good), chip[w] # 0
      PROVE  \E bad \in SUBSET Chips :
                /\ bad \subseteq failed[w] \cup {chip[w]}
                /\ \/ /\ failed' = [failed EXCEPT ![w] = bad]
                      /\ \E i \in {0} \cup Chips : NewCall(w, i, TRUE)
                   \/ Return(w, bad)
  <2> DEFINE bad == IF good THEN failed[w] ELSE failed[w] \cup {chip[w]}
  <2>1. bad \in SUBSET Chips /\ bad \subseteq failed[w] \cup {chip[w]}
    BY <1>4
  <2>2. \/ failed' = [failed EXCEPT ![w] = bad]
           /\ \E i \in {0} \cup Chips : NewCall(w, i, TRUE)
        \/ Return(w, bad)
    BY <1>4 DEF ImageOver, NextImage, Missing
  <2> QED BY <2>1, <2>2
<1>5. CASE chip[w] = 0
  BY <1>1, <1>2, <1>3, <1>5 DEF CallOver
<1>6. CASE chip[w] # 0
  BY <1>1, <1>2, <1>4, <1>6 DEF CallOver
<1> QED BY <1>5, <1>6

\* The row of a call is written before anything is concluded from the call.
LEMMA ConcludeByRow ==
    ASSUME WorkerInv, VerdictInv, NEW w \in Workers, NEW r, pc[w] = "wire",
           Appended(w), UNCHANGED window, up',
           rowSeen' \in [1..LastWindow -> SUBSET Logical], torn' \in BOOLEAN,
           call' = [call EXCEPT ![w] = NoCall],
           paused' = B!NotPaused => paused = B!NotPaused,
           unmarked' \in {unmarked, unmarked + 1},
           Abort(w) \/ Retry(w, r) \/ CallOver(w, r)
    PROVE  VerdictInv'
<1> USE DEF WorkerInv, RowType
<1>t. RowType /\ KnowsByRow(w)
  BY DEF VerdictInv
<1>1. \A k : Rowed(k) => Rowed(k)'
  BY <1>t, RowsStay
<1> PICK c, j : c = chunk[w] /\ j = chip[w]
  OBVIOUS
<1>2. \A i \in failed[w] \cup {0, j} : Rowed(<<c, i>>)'
  <2>1. Rowed(<<c, j>>)'
    BY <1>t, RowIsThere DEF KnowsByRow, Id
  <2>2. chip[w] # 0 => Rowed(<<c, 0>>)'
    BY <1>t, <1>1 DEF KnowsByRow, Sure
  <2>3. \A i \in failed[w] : Rowed(<<c, i>>)'
    BY <1>t, <1>1 DEF KnowsByRow, Sure
  <2> QED BY <2>1, <2>2, <2>3
<1> DEFINE Fine == OnlyMoves(w) /\ KnowsByRow(w)' /\ VerdictHasLedgerRow'
<1>3. ASSUME Abort(w) PROVE Fine
  <2>1. KnowsByRow(w)'
    BY <1>t, <1>3, LeaverKnows DEF Abort
  <2>2. VerdictHasLedgerRow'
    BY <1>3, ScoredStay DEF Abort
  <2> QED BY <1>t, <1>3, <2>1, <2>2 DEF Abort, Leave, OnlyMoves
<1>4. ASSUME Retry(w, r) PROVE Fine
  <2>1. pc'[w] = "acquire" /\ UNCHANGED <<chunk, chip, again, failed, scored>>
    BY <1>4 DEF Retry
  <2>2. KnowsByRow(w)'
    BY <1>t, <1>2, <2>1 DEF KnowsByRow
  <2>3. VerdictHasLedgerRow'
    BY <2>1, ScoredStay
  <2> QED BY <1>t, <1>4, <2>2, <2>3 DEF Retry, OnlyMoves
<1>5. ASSUME NEW i \in {0} \cup Chips, NewCall(w, i, TRUE), OnlyMoves(w),
             failed'[w] \subseteq failed[w] \cup {chip[w]}
      PROVE  Fine
  <2>1. /\ pc'[w] = "acquire" /\ again'[w] = TRUE /\ UNCHANGED <<chunk, scored>>
    BY <1>t, <1>5 DEF NewCall
  <2>2. KnowsByRow(w)'
    BY <1>2, <1>5, <2>1 DEF KnowsByRow
  <2>3. VerdictHasLedgerRow'
    BY <2>1, ScoredStay
  <2> QED BY <1>5, <2>2, <2>3
<1>6. ASSUME NEW bad \in SUBSET (failed[w] \cup {chip[w]}), Return(w, bad),
             OnlyMoves(w)
      PROVE  Fine
  <2>1. KnowsByRow(w)'
    BY <1>t, <1>6, LeaverKnows DEF Return
  <2>2. Unbacked' \subseteq Unbacked
    <3> SUFFICES ASSUME NEW k \in Unbacked', k \notin Unbacked PROVE FALSE
      OBVIOUS
    <3>1. k = <<c, k[2]>> /\ k[2] \in bad \cup {0} /\ ~Rowed(k)'
      BY <1>1, <1>6, Returned
    <3> QED BY <1>2, <1>6, <3>1
  <2> QED BY <1>6, <2>1, <2>2, NothingNew
<1>7. ASSUME CallOver(w, r) PROVE Fine
  BY <1>t, <1>5, <1>6, <1>7, AfterCall
<1>8. Fine
  BY <1>3, <1>4, <1>7
<1>9. RowType'
  BY <1>t, <1>8 DEF OnlyMoves
<1>10. ASSUME NEW x \in Workers \ {w} PROVE KnowsByRow(x)'
  <2>1. call'[x] = call[x]
    BY <1>t
  <2> QED BY <1>8, <2>1, OthersKnow DEF OnlyMoves
<1> QED BY <1>8, <1>9, <1>10 DEF VerdictInv

\* The breaker trips before the attempt and its marker is lost: the call counts
\* as failed, and only if it was the chunk's last is there a result.
LEMMA ConcludeUnasked ==
    ASSUME WorkerInv, VerdictInv, NEW w \in Workers, pc[w] = "slot",
           UNCHANGED <<window, call, rowSeen, torn>>, up',
           paused = B!NotPaused, paused' # B!NotPaused, unmarked' = unmarked + 1,
           CallOver(w, "broken")
    PROVE  VerdictInv'
<1> USE DEF WorkerInv, RowType
<1>t. RowType /\ KnowsByRow(w)
  BY DEF VerdictInv
<1>1. \A k : Rowed(k) => Rowed(k)'
  BY <1>t, RowsStay
<1> PICK c, j : c = chunk[w] /\ j = chip[w]
  OBVIOUS
<1>2. /\ \A i \in failed[w] : Rowed(<<c, i>>)'
      /\ j # 0 => Rowed(<<c, 0>>)'
  BY <1>t, <1>1 DEF KnowsByRow, Sure
<1>3. OnlyMoves(w)
  BY <1>t, AfterCall
<1>4. ASSUME NEW i \in {0} \cup Chips, NewCall(w, i, TRUE)
      PROVE  KnowsByRow(w)' /\ VerdictHasLedgerRow'
  <2>1. /\ pc'[w] = "acquire" /\ again'[w] = TRUE /\ UNCHANGED scored
    BY <1>t, <1>4 DEF NewCall
  <2>2. VerdictHasLedgerRow'
    BY <2>1, ScoredStay
  <2> QED BY <2>1, <2>2 DEF KnowsByRow, Sure
<1>5. ASSUME NEW bad \in SUBSET (failed[w] \cup {chip[w]}), Return(w, bad),
             chip[w] # 0
      PROVE  KnowsByRow(w)' /\ VerdictHasLedgerRow'
  <2>1. KnowsByRow(w)'
    BY <1>t, <1>5, LeaverKnows DEF Return
  <2>2. ASSUME NEW k \in Unbacked', k \notin Unbacked PROVE k = <<c, j>>
    <3>1. k = <<c, k[2]>> /\ k[2] \in bad \cup {0} /\ ~Rowed(k)'
      BY <1>1, <1>5, <2>2, Returned
    <3>2. k[2] \notin failed[w] \cup {0}
      BY <1>2, <1>5, <3>1
    <3> QED BY <1>5, <3>1, <3>2
  <2>3. <<c, j>>[2] # 0 /\ Unbacked' \subseteq Unbacked \cup {<<c, j>>}
    BY <1>5, <2>2
  <2> QED BY <2>1, <2>3, OneMore
<1>6. KnowsByRow(w)' /\ VerdictHasLedgerRow'
  <2>1. \/ \E i \in {0} \cup Chips : NewCall(w, i, TRUE)
        \/ \E bad \in SUBSET (failed[w] \cup {chip[w]}) :
              Return(w, bad) /\ chip[w] # 0
    <3>1. "broken" # "ok"
      OBVIOUS
    <3> QED BY <1>t, <3>1, AfterCall
  <2> QED BY <1>4, <1>5, <2>1
<1>7. RowType'
  BY <1>t, <1>3 DEF OnlyMoves
<1>8. ASSUME NEW x \in Workers \ {w} PROVE KnowsByRow(x)'
  BY <1>3, OthersKnow DEF OnlyMoves
<1> QED BY <1>6, <1>7, <1>8 DEF VerdictInv

\* Every step keeps the facts about verdicts.
LEMMA VerdictStep ==
    WorkerInv /\ VerdictInv /\ [Next]_vars => VerdictInv'
<1> SUFFICES ASSUME WorkerInv, VerdictInv, [Next]_vars PROVE VerdictInv'
  OBVIOUS
<1>t. RowType /\ \A w \in Workers : KnowsByRow(w)
  BY DEF VerdictInv
<1>0. ASSUME UNCHANGED <<up, window, call, rowSeen, torn, paused, pc, chunk, chip,
                         again, failed, scored, unmarked>>
      PROVE  VerdictInv'
  <2>1. \A w \in Workers : KnowsByRow(w)'
    BY <1>t, <1>0 DEF KnowsByRow, Id, Rowed, Sure
  <2>2. VerdictHasLedgerRow'
    BY <1>0, ScoredStay
  <2> QED BY <1>t, <1>0, <2>1, <2>2 DEF VerdictInv, RowType
<1>1. CASE Start
  <2>1. /\ UNCHANGED <<call, rowSeen, torn, pc, chunk, chip, again, failed, scored,
                       unmarked>>
        /\ window' \in 1..LastWindow /\ up'
    BY <1>1 DEF Start, progress, B!Start, B!work, B!disk, B!Windows
  <2>2. ASSUME NEW w \in Workers PROVE KnowsByRow(w)'
    <3>1. Sure(w) /\ ~up
      BY <1>t, <1>1 DEF Start, B!Start, RowType, Sure
    <3> QED BY <1>t, <2>1, <3>1 DEF KnowsByRow, Id, Rowed
  <2>3. VerdictHasLedgerRow'
    BY <2>1, ScoredStay
  <2> QED BY <1>t, <2>1, <2>2, <2>3 DEF VerdictInv, RowType
<1>2. CASE Stop
  <2>1. /\ UNCHANGED <<window, rowSeen, torn, unmarked>>
        /\ again' = [w \in Workers |-> FALSE] /\ failed' = [w \in Workers |-> {}]
        /\ call' = [w \in Workers |-> NoCall] /\ pc' = [w \in Workers |-> "idle"]
        /\ chip' = [w \in Workers |-> 0]
        /\ scored' \subseteq scored /\ paused' = B!NotPaused
    BY <1>2 DEF Stop, B!Stop, B!disk
  <2>2. \A w \in Workers : KnowsByRow(w)'
    BY <2>1 DEF KnowsByRow
  <2>3. VerdictHasLedgerRow'
    BY <2>1, ScoredStay
  <2> QED BY <1>t, <2>1, <2>2, <2>3 DEF VerdictInv, RowType
<1>3. CASE WindowResets
  BY <1>0, <1>3
     DEF WindowResets, local, progress, B!WindowResets, B!mem, B!work, B!disk
<1>4. ASSUME NEW w \in Workers, UNCHANGED <<window, rowSeen, torn, scored>>, up',
             paused' = B!NotPaused => paused = B!NotPaused,
             unmarked' \in {unmarked, unmarked + 1},
             call' \in [Workers -> Logical \cup {NoCall}],
             again' \in [Workers -> BOOLEAN], failed' \in [Workers -> SUBSET Chips],
             KnowsByRow(w)',
             \A x \in Workers \ {w} :
                /\ pc'[x] = pc[x] /\ call'[x] = call[x] /\ chunk'[x] = chunk[x]
                /\ chip'[x] = chip[x] /\ again'[x] = again[x]
                /\ failed'[x] = failed[x]
      PROVE  VerdictInv'
  <2>1. \A x \in Workers \ {w} : KnowsByRow(x)'
    BY <1>4, OthersKnow
  <2>2. VerdictHasLedgerRow'
    BY <1>4, ScoredStay
  <2> QED BY <1>t, <1>4, <2>1, <2>2 DEF VerdictInv, RowType
<1>5. ASSUME NEW w \in Workers, NEW c \in Chunks, Take(w, c) PROVE VerdictInv'
  <2>1. KnowsByRow(w)'
    BY <1>t, <1>5 DEF Take, KnowsByRow, RowType, WorkerInv
  <2> QED BY <1>t, <1>4, <1>5, <2>1 DEF Take, breaker, RowType, WorkerInv
<1>6. ASSUME NEW w \in Workers, Acquire(w) PROVE VerdictInv'
  <2>0. /\ UNCHANGED <<call, paused, rowSeen, torn, chunk, chip, again, failed>>
        /\ pc[w] = "acquire" /\ pc'[w] = "slot"
    BY <1>6 DEF Acquire, breaker, progress, WorkerInv
  <2>1. KnowsByRow(w)'
    BY <1>t, <2>0 DEF KnowsByRow, Sure, Rowed
  <2> QED BY <1>t, <1>4, <1>6, <2>1 DEF Acquire, breaker, progress, RowType, WorkerInv
<1>7. ASSUME NEW w \in Workers, Send(w) PROVE VerdictInv'
  <2>1. /\ UNCHANGED <<window, rowSeen, torn, scored, chunk, chip, again, failed,
                       paused, unmarked>>
        /\ call' = [call EXCEPT ![w] = Id(w)] /\ paused = B!NotPaused
        /\ pc' = [pc EXCEPT ![w] = "wire"] /\ pc[w] = "slot" /\ up'
    BY <1>7 DEF Send, progress, B!Admit, B!MayAttempt, B!disk
  <2>2. KnowsByRow(w)'
    BY <1>t, <2>1 DEF KnowsByRow, Sure, Rowed, RowType, WorkerInv, Id
  <2> QED BY <1>t, <1>4, <2>1, <2>2, IdIsLogical DEF RowType, WorkerInv
<1>8. ASSUME NEW w \in Workers, Refused(w) PROVE VerdictInv'
  <2>1. /\ UNCHANGED <<window, call, rowSeen, torn>> /\ pc[w] = "slot"
        /\ up' /\ (paused' = B!NotPaused => paused = B!NotPaused)
    BY <1>8 DEF Refused, B!Refuse, B!MayAttempt, B!WritePause
  <2>2. CASE MarkerLost /\ CallOver(w, "broken")
    <3>1. unmarked' = unmarked + 1
      BY <1>8, <2>2 DEF Refused, Marking
    <3> QED BY <2>1, <2>2, <3>1, ConcludeUnasked DEF MarkerLost
  <2>3. CASE ~MarkerLost /\ Abort(w)
    <3>1. unmarked' = unmarked
      BY <1>8, <2>3 DEF Refused, Marking
    <3>2. Leave(w) /\ UNCHANGED scored
      BY <2>3 DEF Abort
    <3>3. KnowsByRow(w)'
      BY <1>t, <3>2, LeaverKnows
    <3> QED BY <1>t, <1>4, <2>1, <3>1, <3>2, <3>3 DEF RowType, WorkerInv, Leave
  <2> QED BY <1>8, <2>2, <2>3 DEF Refused
<1>a. ASSUME NEW w \in Workers, pc[w] = "wire", Appended(w)
      PROVE  rowSeen' \in [1..LastWindow -> SUBSET Logical] /\ torn' \in BOOLEAN
  <2>1. call[w] \in Logical
    BY <1>t, <1>a, IdIsLogical DEF KnowsByRow
  <2> QED BY <1>t, <1>a, <2>1 DEF RowType, Appended, B!AppendRow, B!Malformed
<1>9. ASSUME NEW w \in Workers, RowLost(w) PROVE VerdictInv'
  <2>1. /\ UNCHANGED <<window, paused, unmarked>>
        /\ call' = [call EXCEPT ![w] = NoCall]
        /\ pc[w] = "wire" /\ Abort(w) /\ up'
        /\ UNCHANGED <<rowSeen, torn>> \/ Appended(w)
    BY <1>9 DEF RowLost, Appended, B!AppendFails, B!GiveBack
  <2>2. CASE Appended(w)
    BY <1>a, <2>1, <2>2, ConcludeByRow
  <2>3. CASE UNCHANGED <<rowSeen, torn>>
    <3>1. KnowsByRow(w)'
      BY <1>t, <2>1, LeaverKnows DEF Abort
    <3> QED BY <1>t, <1>4, <2>1, <2>3, <3>1 DEF RowType, WorkerInv, Abort, Leave
  <2> QED BY <2>1, <2>2, <2>3
<1>10. ASSUME NEW w \in Workers, NEW r \in Replies, Reply(w, r) PROVE VerdictInv'
  <2>1. /\ pc[w] = "wire" /\ Appended(w) /\ UNCHANGED window /\ up'
        /\ call' = [call EXCEPT ![w] = NoCall]
    BY <1>10 DEF Reply, Appended, B!Record, B!GiveBack
  <2>2. paused' = B!NotPaused => paused = B!NotPaused
    <3>1. B!TripReason(Class(r)) # B!NotPaused => B!Trip(B!TripReason(Class(r)))
      BY <1>10 DEF Reply, B!Record
    <3>2. B!TripReason(Class(r)) = B!NotPaused => UNCHANGED paused
      BY <1>10 DEF Reply, B!Record
    <3> QED BY <3>1, <3>2 DEF B!Trip, B!WritePause
  <2>3. unmarked' \in {unmarked, unmarked + 1}
    BY <1>10 DEF Reply, Marking
  <2>4. \/ Abort(w) \/ Retry(w, r) \/ CallOver(w, r)
        \/ CallOver(w, "broken")
    BY <1>10 DEF Reply
  <2>5. CASE CallOver(w, "broken")
    BY <1>a, <2>1, <2>2, <2>3, <2>5, ConcludeByRow
  <2>6. CASE Abort(w) \/ Retry(w, r) \/ CallOver(w, r)
    BY <1>a, <2>1, <2>2, <2>3, <2>6, ConcludeByRow
  <2> QED BY <2>4, <2>5, <2>6
<1>11. CASE UNCHANGED vars
  BY <1>0, <1>11 DEF vars, local, progress, breaker
<1> QED
  BY <1>1, <1>2, <1>3, <1>5, <1>6, <1>7, <1>8, <1>9, <1>10, <1>11 DEF Next, Step

\* What a chunk's result says rests on calls with a ledger row, or on a ledger
\* that stops every later process: no lost row, foreign model or kill is turned
\* into a verdict, and a refusal is only where a pause marker could not be
\* written, at most one chip for each such marker.
THEOREM VerdictsRestOnRows == Spec => []VerdictHasLedgerRow
<1>1. VerdictInv => VerdictHasLedgerRow
  BY DEF VerdictInv
<1> QED
  BY <1>1, WorkerInit, WorkerStep, VerdictInit, VerdictStep, PTL DEF Spec

-----------------------------------------------------------------------------
(* Retries.                                                                *)

\* Attempts of the running call that are over.
Over(w) == IF pool[w] = 0 THEN attempt[w] - 1 ELSE MaxAttempts + pool[w] - 1

\* A call's attempts are counted by the phase it is in: `attempt` counts the
\* first phase only, `pool` the second, and an idle worker has none.
CountsTries(w) ==
    /\ pool[w] = 0 => attempt[w] <= MaxAttempts
    /\ pc[w] = "idle" => pool[w] = 0 /\ attempt[w] = 1
    /\ tries[w] = IF pc[w] = "wire" THEN Over(w) + 1 ELSE Over(w)

TriesInv ==
    /\ attempt \in [Workers -> Nat \ {0}] /\ pool \in [Workers -> 0..PoolAttempts]
    /\ tries \in [Workers -> Nat]
    /\ \A w \in Workers : CountsTries(w)

\* The count of the attempts holds at first.
LEMMA TriesInit == Init => TriesInv
BY TransportAssumption DEF Init, TriesInv, CountsTries, Over

\* A call that begins, or a worker that leaves, has made no attempt.
LEMMA TriesAfresh ==
    ASSUME WorkerInv, TriesInv, NEW w \in Workers,
           Leave(w) \/ \E i, second : NewCall(w, i, second)
    PROVE  TriesInv'
<1>1. /\ pc'[w] \in {"idle", "acquire"} /\ attempt'[w] = 1 /\ pool'[w] = 0
      /\ tries'[w] = 0
      /\ \A x \in Workers \ {w} : /\ pc'[x] = pc[x] /\ attempt'[x] = attempt[x]
                                  /\ pool'[x] = pool[x] /\ tries'[x] = tries[x]
      /\ attempt' \in [Workers -> Nat \ {0}] /\ pool' \in [Workers -> 0..PoolAttempts]
      /\ tries' \in [Workers -> Nat]
  BY TransportAssumption DEF WorkerInv, TriesInv, Leave, NewCall
<1>2. CountsTries(w)'
  BY <1>1, TransportAssumption DEF CountsTries, Over
<1>3. ASSUME NEW x \in Workers \ {w} PROVE CountsTries(x)'
  BY <1>1, <1>3 DEF TriesInv, CountsTries, Over
<1> QED BY <1>1, <1>2, <1>3 DEF TriesInv

\* Every answer that is retried moves the count of its phase on.
LEMMA TriesRetry ==
    ASSUME WorkerInv, TriesInv, NEW w \in Workers, NEW r, pc[w] = "wire",
           Retried(w, r), Retry(w, r)
    PROVE  TriesInv'
<1>1. CountsTries(w) /\ attempt[w] \in Nat \ {0} /\ pool[w] \in 0..PoolAttempts
  BY DEF TriesInv
<1>2. /\ attempt' = [attempt EXCEPT ![w] = attempt'[w]]
      /\ pool' = [pool EXCEPT ![w] = pool'[w]]
      /\ pc' = [pc EXCEPT ![w] = "acquire"] /\ tries' = tries
  BY DEF Retry, TriesInv
<1>3. attempt'[w] \in Nat \ {0} /\ pool'[w] \in 0..PoolAttempts /\ CountsTries(w)'
  <2>1. pc'[w] = "acquire" /\ tries'[w] = tries[w]
    BY <1>2 DEF WorkerInv
  <2>2. CASE RetryFirst(w, r)
    <3>1. attempt'[w] = attempt[w] + 1 /\ pool'[w] = 0
      BY <1>1, <2>2 DEF Retry, RetryFirst, EnterPool, TriesInv
    <3> QED
      BY <1>1, <2>1, <2>2, <3>1, TransportAssumption
      DEF CountsTries, Over, RetryFirst
  <2>3. CASE EnterPool(w, r)
    <3>1. attempt'[w] = attempt[w] /\ pool'[w] = 1
      BY <1>1, <2>3, TransportAssumption DEF Retry, RetryFirst, EnterPool, TriesInv
    <3> QED
      BY <1>1, <2>1, <2>3, <3>1, TransportAssumption DEF CountsTries, Over, EnterPool
  <2>4. CASE RetryPool(w, r)
    <3>1. attempt'[w] \in {attempt[w], attempt[w] + 1} /\ pool'[w] = pool[w] + 1
      BY <1>1, <2>4, TransportAssumption DEF Retry, RetryFirst, RetryPool, TriesInv
    <3> QED
      BY <1>1, <2>1, <2>4, <3>1, TransportAssumption DEF CountsTries, Over, RetryPool
  <2> QED BY <2>2, <2>3, <2>4 DEF Retried
<1>4. ASSUME NEW x \in Workers \ {w} PROVE CountsTries(x)'
  <2>1. /\ pc'[x] = pc[x] /\ attempt'[x] = attempt[x] /\ pool'[x] = pool[x]
        /\ tries'[x] = tries[x]
    BY <1>2 DEF WorkerInv, TriesInv
  <2> QED BY <2>1 DEF TriesInv, CountsTries, Over
<1>5. /\ attempt' \in [Workers -> Nat \ {0}] /\ pool' \in [Workers -> 0..PoolAttempts]
      /\ tries' \in [Workers -> Nat]
  BY <1>2, <1>3 DEF TriesInv
<1> QED BY <1>3, <1>4, <1>5 DEF TriesInv

\* Every step keeps the count of the attempts.
LEMMA TriesStep == WorkerInv /\ TriesInv /\ [Next]_vars => TriesInv'
<1> SUFFICES ASSUME WorkerInv, TriesInv, [Next]_vars PROVE TriesInv'
  OBVIOUS
<1>1. ASSUME UNCHANGED <<pc, attempt, pool, tries>> PROVE TriesInv'
  BY <1>1 DEF TriesInv, CountsTries, Over
<1>2. CASE Start \/ WindowResets \/ UNCHANGED vars
  BY <1>1, <1>2 DEF Start, WindowResets, vars, local, progress
<1>3. CASE Stop
  BY <1>3, TransportAssumption DEF Stop, TriesInv, CountsTries, Over
<1>4. ASSUME NEW w \in Workers, NEW s \in {"acquire", "slot"}, pc[w] # "wire",
             pc' = [pc EXCEPT ![w] = s], UNCHANGED <<attempt, pool, tries>>
      PROVE  TriesInv'
  BY <1>4 DEF WorkerInv, TriesInv, CountsTries, Over
<1>5. ASSUME NEW w \in Workers, NEW c \in Chunks, Take(w, c) PROVE TriesInv'
  BY <1>4, <1>5 DEF Take
<1>6. ASSUME NEW w \in Workers, Acquire(w) PROVE TriesInv'
  BY <1>4, <1>6 DEF Acquire, progress
<1>7. ASSUME NEW w \in Workers, Send(w) PROVE TriesInv'
  <2>1. /\ pc[w] = "slot" /\ UNCHANGED <<attempt, pool>>
        /\ pc' = [pc EXCEPT ![w] = "wire"]
        /\ tries' = [tries EXCEPT ![w] = @ + 1]
    BY <1>7 DEF Send
  <2>2. ASSUME NEW x \in Workers PROVE CountsTries(x)'
    BY <2>1 DEF WorkerInv, TriesInv, CountsTries, Over
  <2> QED BY <2>1, <2>2 DEF TriesInv
<1>8. ASSUME NEW w \in Workers, Refused(w) \/ RowLost(w) PROVE TriesInv'
  <2>1. CASE Abort(w)
    BY <2>1, TriesAfresh DEF Abort
  <2>2. CASE CallOver(w, "broken")
    <3>1. Leave(w) \/ \E i, second : NewCall(w, i, second)
      BY <2>2 DEF CallOver, BatchOver, ImageOver, Return, NextImage
    <3> QED BY <3>1, TriesAfresh
  <2> QED BY <1>8, <2>1, <2>2 DEF Refused, RowLost
<1>9. ASSUME NEW w \in Workers, NEW r \in Replies, Reply(w, r) PROVE TriesInv'
  <2>1. CASE Abort(w)
    BY <2>1, TriesAfresh DEF Abort
  <2>2. CASE Retried(w, r) /\ Retry(w, r)
    BY <1>9, <2>2, TriesRetry DEF Reply
  <2>3. CASE CallOver(w, r) \/ CallOver(w, "broken")
    <3>1. Leave(w) \/ \E i, second : NewCall(w, i, second)
      BY <2>3 DEF CallOver, BatchOver, ImageOver, Return, NextImage
    <3> QED BY <3>1, TriesAfresh
  <2> QED BY <1>9, <2>1, <2>2, <2>3 DEF Reply
<1> QED BY <1>2, <1>3, <1>5, <1>6, <1>7, <1>8, <1>9 DEF Next, Step

\* No mix of answers and exceptions makes a call retry for ever: the two phases
\* together cost at most MaxAttempts + PoolAttempts attempts.
THEOREM RetriesBounded == Spec => []TriesBounded
<1>1. TriesInv => TriesBounded
  BY TransportAssumption DEF TriesInv, CountsTries, Over, TriesBounded
<1> QED
  BY <1>1, WorkerInit, WorkerStep, TriesInit, TriesStep, PTL DEF Spec

=============================================================================

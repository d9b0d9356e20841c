----------------------------- MODULE VerdictStore -----------------------------
(***************************************************************************)
(* scripts/temporal/verdict_store.py: verdicts of the scorer memoized by   *)
(* the pixels they are about.  The anchor workers of the scan share one    *)
(* store; the compact command is the other process that may write to it.   *)
(* Everything under the store's lock is one action, so lookups and puts of *)
(* different workers interleave chip by chip.                              *)
(*                                                                         *)
(* A key is the content of a chip: the rest of the key (scorer, model,     *)
(* prompt, extras) is the same in all calls here.  A sequence or matrix    *)
(* window is looked up and stored whole, like a batch of one chip.         *)
(***************************************************************************)
EXTENDS Integers, FiniteSets, Sequences, SequencesExt

CONSTANTS
    Threads,        \* anchor workers of the scan process
    Contents,       \* pixels a chip file may hold
    Batches,        \* the chips of each anchor: sequences of paths
    Answers,        \* verdicts of the scorer
    Failed,         \* an observation with a failure source or an error
    None,           \* no verdict, no batch; pixels of a chip that cannot be read
    Junk,           \* a line that is no JSON
    Split,          \* a line cut inside a UTF-8 character
    MaxLines,       \* bound: lines of the file
    MaxFaults       \* bound: writes that fail or are cut short by a kill

Paths == UNION {Range(b) : b \in Batches}
\* What the scorer says, and of which pixels it says it.
Verdicts == [of : Contents \cup {None}, says : Answers \cup {Failed}]
Keys == Contents
Rows == [key : Keys, verdict : Verdicts]
Processes == {"scan", "compact"}

ASSUME StoreAssumption ==
    /\ None \notin Contents /\ Failed \notin Answers
    /\ None \notin Batches /\ None \notin Verdicts
    /\ Junk \notin Rows /\ Split \notin Rows
    /\ IsFiniteSet(Contents) /\ IsFiniteSet(Threads)
    /\ \A b \in Batches : b \in Seq(Range(b)) /\ b # <<>>
    /\ MaxLines \in Nat /\ MaxFaults \in Nat

VARIABLES
    file,           \* lines of the JSONL file
    cut,            \* its last line has no newline
    opened,         \* processes that hold the store open for write
    index,          \* _index of each process
    chips,          \* what the file at each path holds
    pc,             \* idle, lookup, score or record
    batch,          \* the picks of the call a thread is in
    hits,           \* records found so far, by pick
    fresh,          \* [pos, verdict] of the inner call, to be recorded
    faults

vars == <<file, cut, opened, index, chips, pc, batch, hits, fresh, faults>>
disk == <<file, cut>>
calls == <<pc, batch, hits, fresh>>

-----------------------------------------------------------------------------
(* The file.                                                               *)

\* _load: corrupt lines are counted and skipped, later rows win.
Load(f) ==
    [k \in Keys |->
        LET at == {i \in DOMAIN f : f[i] \in Rows /\ f[i].key = k} IN
        IF at = {} THEN None ELSE f[Max(at)].verdict]

\* Text after a line without its newline becomes part of that line.
Glued(f) ==
    Front(f) \o <<IF Last(f) = Split THEN Split ELSE Junk>>

\* A row with its newline.
AppendLine(row) ==
    /\ file' = IF cut THEN Glued(file) ELSE Append(file, row)
    /\ cut' = FALSE

\* What is left of an append that does not come to its end: nothing, a part
\* (cut at a character or inside one), the row without its newline, or all.
AppendBreaks(row) ==
    \/ UNCHANGED disk
    \/ \E end \in {Junk, Split, row} :
        /\ file' = IF cut THEN IF end = Split THEN Front(file) \o <<Split>>
                                              ELSE Glued(file)
                          ELSE Append(file, end)
        /\ cut' = TRUE
    \/ AppendLine(row)

-----------------------------------------------------------------------------
(* Processes.                                                              *)

\* No lock.
LockFree_Ignored == TRUE

\* The flock on <store>.lock.
LockFree == opened = {}

\* Opening for write; _load decodes every line, so it raises on a cut character.
Open(p) ==
    /\ p \notin opened /\ LockFree /\ Split \notin Range(file)
    /\ opened' = opened \cup {p}
    /\ index' = [index EXCEPT ![p] = Load(file)]
    /\ UNCHANGED <<disk, chips, calls, faults>>

Forget(p) ==
    /\ opened' = opened \ {p}
    /\ index' = [index EXCEPT ![p] = [k \in Keys |-> None]]

Close(p) ==
    /\ p \in opened
    /\ p = "scan" => \A t \in Threads : pc[t] = "idle"
    /\ Forget(p)
    /\ UNCHANGED <<disk, chips, calls, faults>>

\* The file is replaced by one with the live row of each key.
Compact ==
    /\ "compact" \in opened
    /\ LET live == {k \in Keys : index["compact"][k] # None} IN
       file' = SetToSeq({[key |-> k, verdict |-> index["compact"][k]] : k \in live})
    /\ cut' = FALSE
    /\ UNCHANGED <<opened, index, chips, calls, faults>>

-----------------------------------------------------------------------------
(* A call of the wrapped scorer by a thread of the scan.                   *)

\* The pixel hash; a chip that cannot be hashed has no key.
KeyOf(path) == chips[path]

Missed(t) == {i \in DOMAIN hits[t] : hits[t][i] = None}

Ascending(S) ==
    CHOOSE s \in [1..Cardinality(S) -> S] :
        \A i, j \in DOMAIN s : i < j => s[i] < s[j]

\* miss_positions: the picks the inner scorer is shown, in their order.
Shown(t) == Ascending(Missed(t))

\* The indices of the inner call are taken for those of the picks.
Requested_Dense(t, j) == j

\* dense_to_requested: the inner scorer counts its chips from one, and its
\* observations are given the indices of the picks again.
Requested(t, j) == Shown(t)[j]

Cacheable(v) == v.says # Failed

\* A batch belongs to one anchor, and an anchor is scored by one thread.
Take(t, b) ==
    /\ "scan" \in opened /\ pc[t] = "idle"
    /\ \A u \in Threads : batch[u] # b
    /\ pc' = [pc EXCEPT ![t] = "lookup"]
    /\ batch' = [batch EXCEPT ![t] = b]
    /\ UNCHANGED <<disk, opened, index, chips, hits, fresh, faults>>

\* One chip of _lookup_chips; the last one decides whether there is an inner call.
Lookup(t) ==
    /\ pc[t] = "lookup"
    /\ LET k == KeyOf(batch[t][Len(hits[t]) + 1])
           found == IF k = None THEN None ELSE index["scan"][k]
           now == Append(hits[t], found)
       IN  /\ hits' = [hits EXCEPT ![t] = now]
           /\ pc' = [pc EXCEPT ![t] =
                  IF Len(now) < Len(batch[t]) THEN "lookup"
                  ELSE IF None \in Range(now) THEN "score" ELSE "record"]
    /\ UNCHANGED <<disk, opened, index, chips, batch, fresh, faults>>

Leave(t) ==
    /\ pc' = [pc EXCEPT ![t] = "idle"]
    /\ batch' = [batch EXCEPT ![t] = None]
    /\ hits' = [hits EXCEPT ![t] = <<>>]
    /\ fresh' = [fresh EXCEPT ![t] = <<>>]

\* The inner call on the missed chips: one observation each.
Score(t) ==
    /\ pc[t] = "score"
    /\ \E says \in [1..Cardinality(Missed(t)) -> Answers \cup {Failed}] :
        fresh' = [fresh EXCEPT ![t] =
            [j \in DOMAIN says |->
                [pos |-> Requested(t, j),
                 verdict |-> [of |-> chips[batch[t][Shown(t)[j]]], says |-> says[j]]]]]
    /\ pc' = [pc EXCEPT ![t] = "record"]
    /\ UNCHANGED <<disk, opened, index, chips, batch, hits, faults>>

\* The inner call raises (quota, identity, anything else).
ScoreRaises(t) ==
    /\ pc[t] = "score" /\ Leave(t)
    /\ UNCHANGED <<disk, opened, index, chips, faults>>

\* What _record_fresh_batch would put next.
Due(t) == KeyOf(batch[t][fresh[t][1].pos])
Row(t) == [key |-> Due(t), verdict |-> fresh[t][1].verdict]
ToPut(t) ==
    pc[t] = "record" /\ fresh[t] # <<>> /\ Due(t) # None /\ Cacheable(fresh[t][1].verdict)

Put(t) ==
    /\ ToPut(t) /\ Len(file) < MaxLines
    /\ AppendLine(Row(t))
    /\ index' = [index EXCEPT !["scan"][Due(t)] = fresh[t][1].verdict]
    /\ fresh' = [fresh EXCEPT ![t] = Tail(@)]
    /\ UNCHANGED <<opened, chips, pc, batch, hits, faults>>

NotCached(t) ==
    /\ pc[t] = "record" /\ fresh[t] # <<>> /\ ~ToPut(t)
    /\ fresh' = [fresh EXCEPT ![t] = Tail(@)]
    /\ UNCHANGED <<disk, opened, index, chips, pc, batch, hits, faults>>

\* The append raises: the call has no result.
PutFails(t) ==
    /\ ToPut(t) /\ Len(file) < MaxLines /\ faults < MaxFaults
    /\ AppendBreaks(Row(t))
    /\ faults' = faults + 1
    /\ Leave(t)
    /\ UNCHANGED <<opened, index, chips>>

Return(t) ==
    /\ pc[t] = "record" /\ fresh[t] = <<>> /\ Leave(t)
    /\ UNCHANGED <<disk, opened, index, chips, faults>>

-----------------------------------------------------------------------------
(* The world.                                                              *)

\* The scan is killed, perhaps in the middle of an append.
Kill ==
    /\ "scan" \in opened
    /\ \/ UNCHANGED <<disk, faults>>
       \/ /\ faults < MaxFaults /\ Len(file) < MaxLines
          /\ \E t \in Threads : ToPut(t) /\ AppendBreaks(Row(t))
          /\ faults' = faults + 1
    /\ Forget("scan")
    /\ pc' = [t \in Threads |-> "idle"]
    /\ batch' = [t \in Threads |-> None]
    /\ hits' = [t \in Threads |-> <<>>] /\ fresh' = [t \in Threads |-> <<>>]
    /\ UNCHANGED chips

\* A download or a clean-up changes a chip; only the thread that scores an
\* anchor downloads its chips, before it scores them.
Rerender(path, content) ==
    /\ \A t \in Threads : batch[t] # None => path \notin Range(batch[t])
    /\ chips[path] # content
    /\ chips' = [chips EXCEPT ![path] = content]
    /\ UNCHANGED <<disk, opened, index, calls, faults>>

Init ==
    /\ file = <<>> /\ cut = FALSE /\ opened = {}
    /\ index = [p \in Processes |-> [k \in Keys |-> None]]
    /\ chips \in [Paths -> Contents \cup {None}]
    /\ pc = [t \in Threads |-> "idle"]
    /\ batch = [t \in Threads |-> None]
    /\ hits = [t \in Threads |-> <<>>] /\ fresh = [t \in Threads |-> <<>>]
    /\ faults = 0

Call(t) ==
    \/ \E b \in Batches : Take(t, b)
    \/ Lookup(t) \/ Score(t) \/ ScoreRaises(t)
    \/ Put(t) \/ NotCached(t) \/ PutFails(t) \/ Return(t)

Next ==
    \/ \E p \in Processes : Open(p) \/ Close(p)
    \/ Compact
    \/ \E t \in Threads : Call(t)
    \/ Kill
    \/ \E path \in Paths : \E c \in Contents \cup {None} : Rerender(path, c)

Spec == Init /\ [][Next]_vars

-----------------------------------------------------------------------------
(* Properties.                                                             *)

\* Every variable has its type.
TypeOK ==
    /\ Range(file) \subseteq Rows \cup {Junk, Split}
    /\ cut \in BOOLEAN /\ (cut => file # <<>>)
    /\ opened \subseteq Processes
    /\ index \in [Processes -> [Keys -> Verdicts \cup {None}]]
    /\ chips \in [Paths -> Contents \cup {None}]
    /\ pc \in [Threads -> {"idle", "lookup", "score", "record"}]
    /\ batch \in [Threads -> Batches \cup {None}]
    /\ \A t \in Threads :
        /\ Range(hits[t]) \subseteq Verdicts \cup {None}
        /\ \A j \in DOMAIN fresh[t] :
            /\ fresh[t][j].pos \in DOMAIN batch[t]
            /\ fresh[t][j].verdict \in Verdicts
    /\ faults \in 0..MaxFaults

\* A verdict is only ever given to the pixels the scorer saw: those a call
\* replays, those it got from the inner call of a partly known batch, and those
\* the store keeps, however chips are re-rendered between calls.
VerdictOfItsPixels ==
    /\ \A t \in Threads :
        /\ \A i \in DOMAIN hits[t] :
            hits[t][i] # None => hits[t][i].of = chips[batch[t][i]]
        /\ \A j \in DOMAIN fresh[t] :
            fresh[t][j].verdict.of = chips[batch[t][fresh[t][j].pos]]
    /\ \A i \in DOMAIN file :
        file[i] \in Rows => file[i].key = file[i].verdict.of

\* Keys with a readable row on a line of its own.
Secure ==
    {k \in Keys : \E i \in DOMAIN file :
        /\ file[i] \in Rows /\ file[i].key = k
        /\ i = Len(file) => ~cut}

Known(p) == {k \in Keys : index[p][k] # None}

\* Index and file of the running scan differ by what broken appends explain: a
\* row that was written by an append that raised, and a row without its newline
\* together with the one that was appended to it.
LossPerFault ==
    "scan" \in opened =>
        /\ Cardinality(Secure \ Known("scan")) <= faults
        /\ Cardinality(Known("scan") \ Secure) <= 2 * faults

=============================================================================

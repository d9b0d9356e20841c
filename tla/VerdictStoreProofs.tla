------------------------- MODULE VerdictStoreProofs -------------------------
(***************************************************************************)
(* Theorems about the verdict store, for any threads, chips, answers and   *)
(* batches, and any number of broken appends: a verdict is only given to   *)
(* the pixels it is about, and a broken append makes the index and the     *)
(* file of the running scan differ by at most two verdicts.                *)
(*                                                                         *)
(* The last sections are about the other place where answers of a model    *)
(* are kept and taken over, the panel of the short-gap adjudication, for   *)
(* any panel, production, workers, versions and any number of kills.       *)
(***************************************************************************)
EXTENDS VerdictStore, PanelAdjudication, FiniteSetTheorems, SequenceTheorems,
        WellFoundedInduction, TLAPS

-----------------------------------------------------------------------------
(* Orders.                                                                 *)

\* A set of numbers that is not empty has a smallest one.
LEMMA HasSmallest ==
    ASSUME NEW S \in SUBSET Nat, S # {}
    PROVE  \E x \in S : \A y \in S : x <= y
<1>1. PICK x \in S : \A y \in S : ~(<<y, x>> \in OpToRel(<, Nat))
  BY NatLessThanWellFounded, WFMin
<1>2. \A y \in S : ~(y < x)
  BY <1>1 DEF OpToRel
<1> QED
  BY <1>2

\* A set of positions of a sequence that is not empty has a largest one.
LEMMA HasLargest ==
    ASSUME NEW n \in Nat, NEW S \in SUBSET (1..n), S # {}
    PROVE  \E x \in S : \A y \in S : x >= y
<1> DEFINE Above == {m \in Nat : \A d \in S : d <= m}
<1>1. n \in Above /\ Above \in SUBSET Nat
  OBVIOUS
<1>2. PICK m \in Above : \A u \in Above : m <= u
  <2> HIDE DEF Above
  <2> QED
    BY <1>1, HasSmallest
<1>3. m \in S
  <2> SUFFICES ASSUME m \notin S PROVE FALSE
    OBVIOUS
  <2>1. \A d \in S : d <= m - 1
    BY <1>2
  <2>2. m - 1 \in Nat
    <3>1. PICK d \in S : TRUE
      OBVIOUS
    <3>2. d \in Nat /\ d >= 1 /\ d <= m - 1 /\ m \in Nat
      BY <2>1
    <3> QED
      BY <3>2
  <2> QED
    BY <1>2, <2>1, <2>2
<1> QED
  BY <1>2, <1>3

\* So that the maximum of such a set is one of them.
LEMMA MaxIsMember ==
    ASSUME NEW n \in Nat, NEW S \in SUBSET (1..n), S # {}
    PROVE  Max(S) \in S
  BY HasLargest DEF Max

\* The positions of any set of them can be listed in their order.
InOrder(S, s) ==
    /\ s \in [1..Cardinality(S) -> S]
    /\ \A i, j \in DOMAIN s : i < j => s[i] < s[j]

LEMMA HasOrder ==
    ASSUME NEW n \in Nat, NEW S \in SUBSET (1..n)
    PROVE  \E s : InOrder(S, s)
<1> DEFINE Bad == {X \in SUBSET S : ~ \E s : InOrder(X, s)}
<1>1. SUFFICES ASSUME ~ \E s : InOrder(S, s) PROVE FALSE
  OBVIOUS
<1>2. IsFiniteSet(S)
  <2>1. 1 \in Int /\ n \in Int
    OBVIOUS
  <2>2. IsFiniteSet(1..n)
    BY <2>1, FS_Interval
  <2> QED
    BY <2>2, FS_Subset
<1>3. IsWellFoundedOn(StrictSubsetOrdering(S), SUBSET S)
  BY <1>2, FS_StrictSubsetOrderingWellFounded, FS_FiniteSubsetsOfFinite
<1>4. Bad \subseteq SUBSET S /\ S \in Bad
  BY <1>1
<1>5. PICK X \in Bad : \A Y \in Bad : ~(<<Y, X>> \in StrictSubsetOrdering(S))
  <2> HIDE DEF Bad
  <2> QED
    BY <1>3, <1>4, WFMin
<1>6. X \in SUBSET S /\ IsFiniteSet(X) /\ X \in SUBSET (1..n)
  BY <1>2, <1>5, FS_Subset
<1>7. CASE X = {}
  <2>1. Cardinality(X) = 0
    BY <1>7, FS_EmptySet
  <2>2. InOrder(X, <<>>)
    BY <1>7, <2>1 DEF InOrder
  <2> QED
    BY <1>5, <2>2
<1>8. CASE X # {}
  <2>1. PICK x \in X : \A y \in X : x >= y
    BY <1>6, <1>8, HasLargest
  <2> DEFINE Y == X \ {x}
             c == Cardinality(Y)
  <2>2. IsFiniteSet(Y) /\ Cardinality(X) = c + 1 /\ c \in Nat
    <3>1. IsFiniteSet(Y) /\ c = Cardinality(X) - 1
      BY <1>6, <2>1, FS_RemoveElement
    <3>2. c \in Nat /\ Cardinality(X) \in Nat
      BY <1>6, <3>1, FS_CardinalityType
    <3> QED
      BY <3>1, <3>2
  <2>3. <<Y, X>> \in StrictSubsetOrdering(S)
    BY <1>6, <2>1 DEF StrictSubsetOrdering
  <2>4. PICK s : InOrder(Y, s)
    BY <1>5, <1>6, <2>3
  <2> DEFINE r == [i \in 1..(c + 1) |-> IF i <= c THEN s[i] ELSE x]
  <2>5. s \in [1..c -> Y] /\ \A i, j \in 1..c : i < j => s[i] < s[j]
    BY <2>4 DEF InOrder
  <2>6. ASSUME NEW i \in 1..c PROVE s[i] \in X /\ s[i] < x
    <3>1. s[i] \in Y
      BY <2>5
    <3>2. s[i] \in X /\ s[i] # x /\ s[i] \in 1..n /\ x \in 1..n /\ x >= s[i]
      BY <1>6, <2>1, <3>1
    <3> QED
      BY <3>2
  <2>7. r \in [1..(c + 1) -> X]
    BY <2>1, <2>2, <2>6
  <2>8. ASSUME NEW i \in 1..(c + 1), NEW j \in 1..(c + 1), i < j
        PROVE  r[i] < r[j]
    <3>1. i \in 1..c
      BY <2>2, <2>8
    <3>2. CASE j <= c
      <4>1. j \in 1..c
        BY <2>2, <3>2
      <4>2. s[i] < s[j]
        BY ONLY <2>5, <2>8, <3>1, <4>1
      <4> QED
        BY <2>8, <3>1, <4>1, <4>2
    <3>3. CASE ~(j <= c)
      BY <2>2, <2>6, <2>8, <3>1, <3>3
    <3> QED
      BY <3>2, <3>3
  <2>9. InOrder(X, r)
    <3> HIDE DEF r
    <3>1. DOMAIN r = 1..(c + 1)
      BY <2>7
    <3> QED
      BY <2>2, <2>7, <2>8, <3>1 DEF InOrder
  <2> QED
    BY <1>5, <2>9
<1> QED
  BY <1>7, <1>8

\* So that what is shown of the missed picks are those, in their order.
LEMMA AscendingInOrder ==
    ASSUME NEW n \in Nat, NEW S \in SUBSET (1..n)
    PROVE  InOrder(S, Ascending(S))
<1>1. PICK s : InOrder(S, s)
  BY HasOrder
<1> QED
  BY <1>1 DEF InOrder, Ascending

-----------------------------------------------------------------------------
(* The invariant.                                                          *)

Lines == Rows \cup {Junk, Split}

\* Every row of the file is about the pixels of its key, and a line without
\* its newline is the last one and was left by a broken append.
FileInv ==
    /\ file \in Seq(Lines) /\ cut \in BOOLEAN /\ faults \in Nat
    /\ cut => (file # <<>> /\ faults >= 1)
    /\ \A i \in 1..Len(file) : file[i] \in Rows => file[i].key = file[i].verdict.of

\* So is every verdict of an index, and the lock lets one process in.
IndexInv ==
    /\ index \in [Processes -> [Keys -> Verdicts \cup {None}]]
    /\ \A p \in Processes : \A k \in Keys :
        index[p][k] # None => index[p][k].of = k
    /\ opened \subseteq Processes
    /\ \A p, q \in opened : p = q

Fresh == [pos : Nat, verdict : Verdicts]

\* A call of picks b in phase p with the records h and the verdicts f, about
\* chips of the pixels c.
CallInv(p, b, h, f, c) ==
    /\ p \in {"idle", "lookup", "score", "record"}
    /\ h \in Seq(Verdicts \cup {None}) /\ f \in Seq(Fresh)
    /\ p = "idle" => b = None /\ h = <<>> /\ f = <<>>
    /\ p # "idle" => b \in Batches /\ Len(h) <= Len(b)
    /\ p = "lookup" => Len(h) < Len(b)
    /\ p # "record" => f = <<>>
    /\ \A i \in 1..Len(h) : h[i] # None => h[i].of = c[b[i]]
    /\ \A j \in 1..Len(f) : f[j].pos \in 1..Len(b) /\ f[j].verdict.of = c[b[f[j].pos]]

CallsInv ==
    /\ chips \in [Paths -> Contents \cup {None}]
    /\ pc \in [Threads -> {"idle", "lookup", "score", "record"}]
    /\ batch \in [Threads -> Batches \cup {None}]
    /\ hits \in [Threads -> Seq(Verdicts \cup {None})]
    /\ fresh \in [Threads -> Seq(Fresh)]
    /\ \A t \in Threads : CallInv(pc[t], batch[t], hits[t], fresh[t], chips)
    /\ \A t \in Threads : pc[t] # "idle" => "scan" \in opened

\* What the index and the file of the running scan differ by: a line without
\* its newline has cost one verdict of the two its append may cost.
LossInv ==
    "scan" \in opened =>
        /\ Cardinality(Secure \ Known("scan")) <= faults
        /\ Cardinality(Known("scan") \ Secure) <= 2 * faults - (IF cut THEN 1 ELSE 0)

StoreInv == FileInv /\ IndexInv /\ CallsInv /\ LossInv

-----------------------------------------------------------------------------
(* The file.                                                               *)

\* A row of a key and a verdict about the pixels of it.
Fitting(row) == row \in Rows /\ row.key = row.verdict.of

\* Text after a line that was cut leaves the lines before it and a line that
\* is no row.
LEMMA GluedLine ==
    ASSUME FileInv, file # <<>>, NEW x \in {Junk, Split}
    PROVE  LET g == Front(file) \o <<x>> IN
           /\ g \in Seq(Lines) /\ Len(g) = Len(file) /\ g # <<>>
           /\ DOMAIN g = 1..Len(file)
           /\ \A i \in 1..Len(file) : g[i] = IF i < Len(file) THEN file[i] ELSE x
  BY DEF FileInv, Lines, Front

\* A batch is a sequence of paths.
LEMMA BatchIsSequence ==
    ASSUME NEW b \in Batches
    PROVE  /\ Len(b) \in Nat /\ Len(b) >= 1 /\ DOMAIN b = 1..Len(b)
           /\ \A i \in 1..Len(b) : b[i] \in Range(b) /\ b[i] \in Paths
<1>1. b \in Seq(Range(b)) /\ b # <<>>
  BY StoreAssumption
<1>2. Len(b) \in Nat /\ Len(b) >= 1 /\ DOMAIN b = 1..Len(b)
  BY <1>1
<1>3. \A i \in 1..Len(b) : b[i] \in Range(b)
  BY <1>2 DEF Range
<1> QED
  BY <1>2, <1>3 DEF Paths

\* What the index is when the store is opened.
LEMMA LoadFits ==
    ASSUME FileInv
    PROVE  /\ Load(file) \in [Keys -> Verdicts \cup {None}]
           /\ \A k \in Keys : Load(file)[k] # None => Load(file)[k].of = k
           /\ \A k \in Keys : Load(file)[k] # None <=>
                \E i \in 1..Len(file) : file[i] \in Rows /\ file[i].key = k
<1>1. file \in Seq(Lines) /\ Len(file) \in Nat /\ DOMAIN file = 1..Len(file)
  BY DEF FileInv
<1>2. ASSUME NEW k \in Keys
      PROVE  /\ Load(file)[k] \in Verdicts \cup {None}
             /\ Load(file)[k] # None => Load(file)[k].of = k
             /\ Load(file)[k] # None <=>
                  \E i \in 1..Len(file) : file[i] \in Rows /\ file[i].key = k
  <2> DEFINE at == {i \in DOMAIN file : file[i] \in Rows /\ file[i].key = k}
  <2>1. Load(file)[k] = IF at = {} THEN None ELSE file[Max(at)].verdict
    BY DEF Load
  <2>2. CASE at = {}
    BY <1>1, <2>1, <2>2
  <2>3. CASE at # {}
    <3>1. at \in SUBSET (1..Len(file))
      BY <1>1
    <3>2. Max(at) \in at
      <4> HIDE DEF at
      <4> QED
        BY <1>1, <2>3, <3>1, MaxIsMember
    <3>3. /\ Max(at) \in 1..Len(file) /\ file[Max(at)] \in Rows
          /\ file[Max(at)].key = k
      BY <1>1, <3>2
    <3>4. file[Max(at)].verdict \in Verdicts /\ file[Max(at)].verdict.of = k
      BY <3>3 DEF FileInv, Rows
    <3>5. Load(file)[k] = file[Max(at)].verdict
      BY <2>1, <2>3
    <3> QED
      BY <3>3, <3>4, <3>5, StoreAssumption
  <2> QED
    BY <2>2, <2>3
<1>3. Load(file) = [k \in Keys |-> Load(file)[k]]
  BY DEF Load
<1> QED
  BY <1>2, <1>3

\* Appending a row keeps the file in order, and secures its key unless the
\* line before it was cut.
LEMMA LineAppended ==
    ASSUME FileInv, NEW row, Fitting(row), AppendLine(row), faults' \in Nat
    PROVE  /\ FileInv' /\ ~cut'
           /\ Secure' = IF cut THEN Secure ELSE Secure \cup {row.key}
<1>1. file \in Seq(Lines) /\ Len(file) \in Nat /\ DOMAIN file = 1..Len(file) /\ cut \in BOOLEAN
  BY DEF FileInv
<1>2. cut' = FALSE
  BY DEF AppendLine
<1>3. CASE cut
  <2>1. PICK x \in {Junk, Split} : file' = Front(file) \o <<x>>
    BY <1>3 DEF AppendLine, Glued
  <2>2. /\ file' \in Seq(Lines) /\ Len(file') = Len(file) /\ DOMAIN file' = 1..Len(file)
        /\ \A i \in 1..Len(file) : file'[i] = IF i < Len(file) THEN file[i] ELSE x
    <3>1. file # <<>>
      BY <1>3 DEF FileInv
    <3> QED
      BY <2>1, <3>1, GluedLine
  <2>3. x \notin Rows
    BY <2>1, StoreAssumption
  <2>4. FileInv'
    BY <1>1, <1>2, <2>2, <2>3 DEF FileInv
  <2>5. Secure' = Secure
    BY <1>1, <1>2, <1>3, <2>2, <2>3 DEF Secure
  <2> QED
    BY <1>2, <1>3, <2>4, <2>5
<1>4. CASE ~cut
  <2>1. file' = Append(file, row) /\ row \in Lines
    BY <1>4 DEF AppendLine, Fitting, Lines
  <2>2. /\ file' \in Seq(Lines) /\ Len(file') = Len(file) + 1
        /\ DOMAIN file' = 1..(Len(file) + 1)
        /\ \A i \in 1..(Len(file) + 1) : file'[i] = IF i <= Len(file) THEN file[i] ELSE row
    BY <1>1, <2>1
  <2>3. FileInv'
    <3>1. \A i \in 1..Len(file') : file'[i] \in Rows => file'[i].key = file'[i].verdict.of
      BY <1>1, <2>2 DEF FileInv, Fitting
    <3> QED
      BY <1>1, <1>2, <2>2, <3>1 DEF FileInv
  <2>4. Secure' = Secure \cup {row.key}
    BY <1>1, <1>2, <1>4, <2>2 DEF Secure, Fitting, Rows
  <2> QED
    BY <1>2, <1>4, <2>3, <2>4
<1> QED
  BY <1>1, <1>3, <1>4

\* A broken append never unsecures a key, and secures at most its own.
LEMMA LineBroken ==
    ASSUME FileInv, NEW row, Fitting(row), AppendBreaks(row), faults' = faults + 1
    PROVE  FileInv' /\ (Secure' = Secure \/ Secure' = Secure \cup {row.key})
<1>1. /\ file \in Seq(Lines) /\ Len(file) \in Nat /\ DOMAIN file = 1..Len(file)
      /\ cut \in BOOLEAN /\ faults \in Nat
  BY DEF FileInv
<1>2. CASE UNCHANGED disk
  BY <1>1, <1>2 DEF disk, FileInv, Secure
<1>3. CASE AppendLine(row)
  BY <1>1, <1>3, LineAppended
<1>4. ASSUME NEW end \in {Junk, Split, row}, cut' = TRUE,
             file' = IF cut THEN IF end = Split THEN Front(file) \o <<Split>>
                                               ELSE Glued(file)
                           ELSE Append(file, end)
      PROVE  FileInv' /\ Secure' = Secure
  <2>1. CASE cut
    <3>1. PICK x \in {Junk, Split} : file' = Front(file) \o <<x>>
      BY <1>4, <2>1 DEF Glued
    <3>2. /\ file' \in Seq(Lines) /\ Len(file') = Len(file) /\ DOMAIN file' = 1..Len(file)
          /\ file' # <<>>
          /\ \A i \in 1..Len(file) : file'[i] = IF i < Len(file) THEN file[i] ELSE x
      <4>1. file # <<>>
        BY <2>1 DEF FileInv
      <4> QED
        BY <3>1, <4>1, GluedLine
    <3>3. x \notin Rows
      BY <3>1, StoreAssumption
    <3>4. FileInv'
      <4>1. \A i \in 1..Len(file') : file'[i] \in Rows => file'[i].key = file'[i].verdict.of
        BY <1>1, <3>2, <3>3 DEF FileInv
      <4>2. faults' \in Nat /\ faults' >= 1
        BY <1>1
      <4> QED
        BY <1>4, <3>2, <4>1, <4>2 DEF FileInv
    <3>5. Secure' = Secure
      BY <1>1, <2>1, <3>2, <3>3 DEF Secure
    <3> QED
      BY <3>4, <3>5
  <2>2. CASE ~cut
    <3>1. file' = Append(file, end) /\ end \in Lines
      BY <1>4, <2>2 DEF Fitting, Lines
    <3>2. /\ file' \in Seq(Lines) /\ Len(file') = Len(file) + 1
          /\ DOMAIN file' = 1..(Len(file) + 1) /\ file' # <<>>
          /\ \A i \in 1..(Len(file) + 1) : file'[i] = IF i <= Len(file) THEN file[i] ELSE end
      BY <1>1, <3>1
    <3>3. end \in Rows => end.key = end.verdict.of
      BY StoreAssumption DEF Fitting
    <3>4. FileInv'
      <4>1. \A i \in 1..Len(file') : file'[i] \in Rows => file'[i].key = file'[i].verdict.of
        BY <1>1, <3>2, <3>3 DEF FileInv
      <4>2. faults' \in Nat /\ faults' >= 1
        BY <1>1
      <4> QED
        BY <1>4, <3>2, <4>1, <4>2 DEF FileInv
    <3>5. Secure' = Secure
      BY <1>1, <1>4, <2>2, <3>2 DEF Secure
    <3> QED
      BY <3>4, <3>5
  <2> QED
    BY <1>1, <2>1, <2>2
<1> QED
  BY <1>2, <1>3, <1>4 DEF AppendBreaks

-----------------------------------------------------------------------------
(* A call.                                                                 *)

Pixels == [Paths -> Contents \cup {None}]

LEMMA CallTaken ==
    ASSUME NEW b \in Batches, NEW c
    PROVE  CallInv("lookup", b, <<>>, <<>>, c)
<1>1. Len(b) \in Nat /\ Len(b) >= 1
  BY BatchIsSequence
<1> QED
  BY <1>1 DEF CallInv

LEMMA CallLeft ==
    ASSUME NEW c
    PROVE  CallInv("idle", None, <<>>, <<>>, c)
  BY DEF CallInv

\* A record of the next pick is found, or none.
LEMMA CallLooksUp ==
    ASSUME NEW b, NEW h, NEW f, NEW c, CallInv("lookup", b, h, f, c),
           NEW v \in Verdicts \cup {None}, v # None => v.of = c[b[Len(h) + 1]],
           NEW p \in {"lookup", "score", "record"},
           p = "lookup" => Len(h) + 1 < Len(b)
    PROVE  CallInv(p, b, Append(h, v), f, c)
<1>1. /\ b \in Batches /\ h \in Seq(Verdicts \cup {None}) /\ f = <<>>
      /\ Len(h) < Len(b) /\ Len(h) \in Nat
      /\ \A i \in 1..Len(h) : h[i] # None => h[i].of = c[b[i]]
  BY DEF CallInv
<1>2. Len(b) \in Nat
  BY <1>1, BatchIsSequence
<1> DEFINE g == Append(h, v)
<1>3. /\ g \in Seq(Verdicts \cup {None}) /\ Len(g) = Len(h) + 1
      /\ \A i \in 1..Len(g) : g[i] = IF i <= Len(h) THEN h[i] ELSE v
  BY <1>1
<1>4. \A i \in 1..Len(g) : g[i] # None => g[i].of = c[b[i]]
  BY <1>1, <1>3
<1> HIDE DEF g
<1>5. Len(g) <= Len(b) /\ (p = "lookup" => Len(g) < Len(b))
  BY <1>1, <1>2, <1>3
<1> QED
  BY <1>1, <1>3, <1>4, <1>5 DEF CallInv, g

\* The inner call gives its verdicts on missed picks, at their positions.
LEMMA CallScores ==
    ASSUME NEW b, NEW h, NEW c \in Pixels, CallInv("score", b, h, <<>>, c),
           NEW miss, miss = {i \in DOMAIN h : h[i] = None},
           NEW says \in [1..Cardinality(miss) -> Answers \cup {Failed}],
           NEW f, f = [j \in DOMAIN says |->
                         [pos |-> Ascending(miss)[j],
                          verdict |-> [of |-> c[b[Ascending(miss)[j]]], says |-> says[j]]]]
    PROVE  CallInv("record", b, h, f, c)
<1> DEFINE n == Cardinality(miss)
           shown == Ascending(miss)
<1>1. /\ b \in Batches /\ h \in Seq(Verdicts \cup {None})
      /\ Len(h) <= Len(b) /\ Len(h) \in Nat /\ DOMAIN h = 1..Len(h)
      /\ \A i \in 1..Len(h) : h[i] # None => h[i].of = c[b[i]]
  BY DEF CallInv
<1>2. Len(b) \in Nat /\ \A i \in 1..Len(b) : b[i] \in Paths
  BY <1>1, BatchIsSequence
<1>3. miss \in SUBSET (1..Len(h))
  BY <1>1
<1>4. n \in Nat
  <2>1. 1 \in Int /\ Len(h) \in Int
    BY <1>1
  <2>2. IsFiniteSet(1..Len(h))
    BY <2>1, FS_Interval
  <2> QED
    BY <1>3, <2>2, FS_Subset, FS_CardinalityType
<1>5. shown \in [1..n -> miss]
  BY <1>1, <1>3, AscendingInOrder DEF InOrder
<1>6. \A j \in 1..n : shown[j] \in 1..Len(b)
  <2>1. \A j \in 1..n : shown[j] \in 1..Len(h)
    <3> HIDE DEF shown
    <3> QED
      BY <1>3, <1>5
  <2> HIDE DEF shown, n
  <2> QED
    BY <1>1, <1>2, <2>1
<1> HIDE DEF shown, n
<1>7. \A j \in 1..n : shown[j] \in Nat /\ c[b[shown[j]]] \in Contents \cup {None}
  BY <1>2, <1>6 DEF Pixels
<1>8. DOMAIN says = 1..n /\ \A j \in 1..n : says[j] \in Answers \cup {Failed}
  BY DEF n
<1>9. \A j \in 1..n :
         [pos |-> shown[j], verdict |-> [of |-> c[b[shown[j]]], says |-> says[j]]] \in Fresh
  BY <1>7, <1>8 DEF Fresh, Verdicts
<1>10. f = [j \in DOMAIN says |->
             [pos |-> shown[j], verdict |-> [of |-> c[b[shown[j]]], says |-> says[j]]]]
  BY DEF shown
<1>11. f \in Seq(Fresh) /\ Len(f) = n
  BY <1>4, <1>8, <1>9, <1>10
<1>12. \A j \in 1..Len(f) : f[j].pos \in 1..Len(b) /\ f[j].verdict.of = c[b[f[j].pos]]
  <2> TAKE j \in 1..Len(f)
  <2>1. j \in 1..n /\ n = Len(f)
    BY <1>11
  <2>2. f[j] = [pos |-> shown[j], verdict |-> [of |-> c[b[shown[j]]], says |-> says[j]]]
    BY ONLY <1>8, <1>10, <2>1
  <2>3. f[j].pos = shown[j] /\ f[j].verdict.of = c[b[shown[j]]]
    BY ONLY <2>2
  <2> QED
    BY <1>6, <2>1, <2>3
<1> QED
  BY <1>1, <1>11, <1>12 DEF CallInv

\* One of them has been dealt with.
LEMMA CallRecords ==
    ASSUME NEW b, NEW h, NEW f, NEW c, CallInv("record", b, h, f, c), f # <<>>
    PROVE  CallInv("record", b, h, Tail(f), c)
<1>1. f \in Seq(Fresh)
  BY DEF CallInv
<1>2. /\ Tail(f) \in Seq(Fresh) /\ Len(f) \in Nat /\ Len(Tail(f)) = Len(f) - 1
      /\ \A j \in 1..Len(Tail(f)) : Tail(f)[j] = f[j + 1]
  BY <1>1, HeadTailProperties, LenProperties
<1>3. \A j \in 1..Len(Tail(f)) :
         Tail(f)[j].pos \in 1..Len(b) /\ Tail(f)[j].verdict.of = c[b[Tail(f)[j].pos]]
  BY <1>2 DEF CallInv
<1> QED
  BY <1>2, <1>3 DEF CallInv

\* What is put is a row about the pixels of its key.
LEMMA RowFits ==
    ASSUME CallsInv, NEW t \in Threads, ToPut(t)
    PROVE  /\ Due(t) \in Keys /\ fresh[t][1].verdict \in Verdicts
           /\ fresh[t][1].verdict.of = Due(t)
           /\ Row(t).key = Due(t) /\ Fitting(Row(t))
<1>1. CallInv(pc[t], batch[t], hits[t], fresh[t], chips) /\ chips \in Pixels
  BY DEF CallsInv, Pixels
<1>2. fresh[t] \in Seq(Fresh) /\ fresh[t] # <<>> /\ pc[t] = "record" /\ Due(t) # None
  BY <1>1 DEF CallInv, ToPut
<1>3. 1 \in 1..Len(fresh[t]) /\ fresh[t][1] \in Fresh
  BY <1>2
<1>4. /\ batch[t] \in Batches /\ fresh[t][1].pos \in 1..Len(batch[t])
      /\ fresh[t][1].verdict.of = chips[batch[t][fresh[t][1].pos]]
  BY <1>1, <1>2, <1>3 DEF CallInv
<1>5. batch[t][fresh[t][1].pos] \in Paths
  BY <1>4, BatchIsSequence
<1>6. Due(t) = chips[batch[t][fresh[t][1].pos]]
  BY DEF Due, KeyOf
<1>7. Due(t) \in Keys
  BY <1>1, <1>2, <1>5, <1>6 DEF Pixels, Keys
<1>8. fresh[t][1].verdict \in Verdicts
  BY <1>3 DEF Fresh
<1> QED
  BY <1>4, <1>6, <1>7, <1>8 DEF Row, Fitting, Rows

\* A step of one call leaves the others alone.
LEMMA OneCall ==
    ASSUME CallsInv, NEW t \in Threads, chips' = chips, opened' = opened,
           NEW p, NEW b, NEW h, NEW f, CallInv(p, b, h, f, chips),
           p # "idle" => "scan" \in opened,
           pc' = [pc EXCEPT ![t] = p], batch' = [batch EXCEPT ![t] = b],
           hits' = [hits EXCEPT ![t] = h], fresh' = [fresh EXCEPT ![t] = f]
    PROVE  CallsInv'
<1>1. /\ p \in {"idle", "lookup", "score", "record"} /\ b \in Batches \cup {None}
      /\ h \in Seq(Verdicts \cup {None}) /\ f \in Seq(Fresh)
  BY DEF CallInv
<1>2. /\ pc' \in [Threads -> {"idle", "lookup", "score", "record"}]
      /\ batch' \in [Threads -> Batches \cup {None}]
      /\ hits' \in [Threads -> Seq(Verdicts \cup {None})]
      /\ fresh' \in [Threads -> Seq(Fresh)]
  BY <1>1 DEF CallsInv
<1>3. ASSUME NEW u \in Threads
      PROVE  /\ CallInv(pc'[u], batch'[u], hits'[u], fresh'[u], chips')
             /\ pc'[u] # "idle" => "scan" \in opened'
  <2>1. CASE u = t
    <3>1. pc'[u] = p /\ batch'[u] = b /\ hits'[u] = h /\ fresh'[u] = f
      BY <2>1 DEF CallsInv
    <3> QED
      BY <3>1
  <2>2. CASE u # t
    <3>1. /\ pc'[u] = pc[u] /\ batch'[u] = batch[u] /\ hits'[u] = hits[u]
          /\ fresh'[u] = fresh[u]
      BY <2>2 DEF CallsInv
    <3> QED
      BY <3>1 DEF CallsInv
  <2> QED
    BY <2>1, <2>2
<1>4. chips' \in [Paths -> Contents \cup {None}]
  BY DEF CallsInv
<1> QED
  BY <1>2, <1>3, <1>4 DEF CallsInv

\* No step gives a call a verdict that is not of its pixels.
LEMMA CallsStep ==
    ASSUME StoreInv, [Next]_vars
    PROVE  CallsInv'
<1> USE DEF StoreInv
<1>1. \A u \in Threads : CallInv(pc[u], batch[u], hits[u], fresh[u], chips)
  BY DEF CallsInv
<1>2. ASSUME NEW t \in Threads, Leave(t), chips' = chips, opened' = opened
      PROVE  CallsInv'
  BY <1>2, CallLeft, OneCall DEF Leave
<1>3. ASSUME NEW t \in Threads, NEW b \in Batches, Take(t, b)
      PROVE  CallsInv'
  <2>1. hits[t] = <<>> /\ fresh[t] = <<>>
    BY <1>1, <1>3 DEF Take, CallInv
  <2>2. hits' = [hits EXCEPT ![t] = <<>>] /\ fresh' = [fresh EXCEPT ![t] = <<>>]
    BY <1>3, <2>1 DEF Take, CallsInv
  <2>3. CallInv("lookup", b, <<>>, <<>>, chips)
    BY CallTaken
  <2> QED
    BY <1>3, <2>2, <2>3, OneCall DEF Take
<1>4. ASSUME NEW t \in Threads, Lookup(t)
      PROVE  CallsInv'
  <2> DEFINE k == KeyOf(batch[t][Len(hits[t]) + 1])
             found == IF k = None THEN None ELSE index["scan"][k]
             now == Append(hits[t], found)
             p == IF Len(now) < Len(batch[t]) THEN "lookup"
                  ELSE IF None \in Range(now) THEN "score" ELSE "record"
  <2>1. /\ pc[t] = "lookup" /\ CallInv("lookup", batch[t], hits[t], fresh[t], chips)
        /\ batch[t] \in Batches /\ Len(hits[t]) < Len(batch[t])
        /\ hits[t] \in Seq(Verdicts \cup {None})
    BY <1>1, <1>4 DEF Lookup, CallInv
  <2>2. batch[t][Len(hits[t]) + 1] \in Paths
    BY <2>1, BatchIsSequence
  <2>3. k \in Keys \cup {None} /\ k = chips[batch[t][Len(hits[t]) + 1]]
    BY <2>2 DEF KeyOf, CallsInv, Keys
  <2>4. found \in Verdicts \cup {None} /\ (found # None => found.of = k)
    BY <2>3, StoreAssumption DEF IndexInv, Processes
  <2>5. Len(now) = Len(hits[t]) + 1
    BY <2>1, <2>4
  <2>6. /\ pc' = [pc EXCEPT ![t] = p] /\ hits' = [hits EXCEPT ![t] = now]
        /\ batch' = [batch EXCEPT ![t] = batch[t]] /\ fresh' = [fresh EXCEPT ![t] = fresh[t]]
        /\ chips' = chips /\ opened' = opened /\ "scan" \in opened
    BY <1>4, <2>1 DEF Lookup, CallsInv
  <2>7. p \in {"lookup", "score", "record"} /\ (p = "lookup" => Len(hits[t]) + 1 < Len(batch[t]))
    BY <2>5
  <2> HIDE DEF k, found, p
  <2>8. CallInv(p, batch[t], now, fresh[t], chips)
    BY <2>1, <2>3, <2>4, <2>7, CallLooksUp
  <2> HIDE DEF now
  <2> QED
    BY <2>6, <2>8, OneCall
<1>5. ASSUME NEW t \in Threads, Score(t)
      PROVE  CallsInv'
  <2>1. /\ pc[t] = "score" /\ fresh[t] = <<>>
        /\ CallInv("score", batch[t], hits[t], <<>>, chips)
    BY <1>1, <1>5 DEF Score, CallInv
  <2>2. PICK says \in [1..Cardinality(Missed(t)) -> Answers \cup {Failed}] :
            fresh' = [fresh EXCEPT ![t] =
                [j \in DOMAIN says |->
                    [pos |-> Requested(t, j),
                     verdict |-> [of |-> chips[batch[t][Shown(t)[j]]], says |-> says[j]]]]]
    BY <1>5 DEF Score
  <2> DEFINE f == [j \in DOMAIN says |->
                     [pos |-> Requested(t, j),
                      verdict |-> [of |-> chips[batch[t][Shown(t)[j]]], says |-> says[j]]]]
  <2>3. CallInv("record", batch[t], hits[t], f, chips)
    <3>1. chips \in Pixels
      BY DEF CallsInv, Pixels
    <3>2. Missed(t) = {i \in DOMAIN hits[t] : hits[t][i] = None}
      BY DEF Missed
    <3>3. f = [j \in DOMAIN says |->
                 [pos |-> Ascending(Missed(t))[j],
                  verdict |-> [of |-> chips[batch[t][Ascending(Missed(t))[j]]],
                               says |-> says[j]]]]
      BY DEF Shown, Requested
    <3> HIDE DEF f
    <3> QED
      BY <2>1, <3>1, <3>2, <3>3, CallScores
  <2>4. fresh' = [fresh EXCEPT ![t] = f]
    BY <2>2
  <2> HIDE DEF f
  <2>5. /\ pc' = [pc EXCEPT ![t] = "record"] /\ hits' = [hits EXCEPT ![t] = hits[t]]
        /\ batch' = [batch EXCEPT ![t] = batch[t]]
        /\ chips' = chips /\ opened' = opened /\ "scan" \in opened
    BY <1>5, <2>1 DEF Score, CallsInv
  <2> QED
    BY <2>3, <2>4, <2>5, OneCall
<1>6. ASSUME NEW t \in Threads, Put(t) \/ NotCached(t)
      PROVE  CallsInv'
  <2>1. /\ pc[t] = "record" /\ fresh[t] # <<>>
        /\ CallInv("record", batch[t], hits[t], fresh[t], chips)
    BY <1>1, <1>6 DEF Put, NotCached, ToPut
  <2>2. CallInv("record", batch[t], hits[t], Tail(fresh[t]), chips)
    BY <2>1, CallRecords
  <2>3. fresh' = [fresh EXCEPT ![t] = Tail(fresh[t])] /\ chips' = chips /\ opened' = opened
    BY <1>6 DEF Put, NotCached
  <2>4. /\ pc' = [pc EXCEPT ![t] = "record"] /\ hits' = [hits EXCEPT ![t] = hits[t]]
        /\ batch' = [batch EXCEPT ![t] = batch[t]] /\ "scan" \in opened
    BY <1>6, <2>1 DEF Put, NotCached, CallsInv
  <2> QED
    BY <2>2, <2>3, <2>4, OneCall
<1>7. CASE \E t \in Threads : Call(t)
  <2>1. PICK t \in Threads : Call(t)
    BY <1>7
  <2>2. CASE ScoreRaises(t) \/ PutFails(t) \/ Return(t)
    BY <1>2, <2>2 DEF ScoreRaises, PutFails, Return
  <2> QED
    BY <1>3, <1>4, <1>5, <1>6, <2>1, <2>2 DEF Call
<1>8. CASE \E p \in Processes : Open(p)
  BY <1>8 DEF Open, calls, CallsInv
<1>9. CASE \E p \in Processes : Close(p)
  <2>1. PICK p \in Processes : Close(p)
    BY <1>9
  <2>2. \A t \in Threads : pc[t] # "idle" => "scan" \in opened'
    BY <2>1 DEF Close, Forget, CallsInv
  <2> QED
    BY <2>1, <2>2 DEF Close, calls, CallsInv
<1>10. CASE Compact
  BY <1>10 DEF Compact, calls, CallsInv
<1>11. CASE Kill
  <2>1. \A t \in Threads : CallInv("idle", None, <<>>, <<>>, chips)
    BY CallLeft
  <2>2. <<>> \in Seq(Fresh) /\ <<>> \in Seq(Verdicts \cup {None})
    OBVIOUS
  <2>3. /\ pc' = [t \in Threads |-> "idle"] /\ batch' = [t \in Threads |-> None]
        /\ hits' = [t \in Threads |-> <<>>] /\ fresh' = [t \in Threads |-> <<>>]
        /\ chips' = chips
    BY <1>11 DEF Kill
  <2> QED
    BY <2>1, <2>2, <2>3 DEF CallsInv
<1>12. CASE \E path \in Paths : \E c \in Contents \cup {None} : Rerender(path, c)
  <2>1. PICK path \in Paths, c \in Contents \cup {None} : Rerender(path, c)
    BY <1>12
  <2>2. /\ chips' = [chips EXCEPT ![path] = c] /\ pc' = pc /\ batch' = batch
        /\ hits' = hits /\ fresh' = fresh /\ opened' = opened
    BY <2>1 DEF Rerender, calls
  <2>3. chips' \in [Paths -> Contents \cup {None}]
    BY <2>2 DEF CallsInv
  <2>4. ASSUME NEW t \in Threads
        PROVE  CallInv(pc[t], batch[t], hits[t], fresh[t], chips')
    <3>1. CallInv(pc[t], batch[t], hits[t], fresh[t], chips)
      BY <1>1
    <3>2. CASE pc[t] = "idle"
      BY <3>1, <3>2 DEF CallInv
    <3>3. CASE pc[t] # "idle"
      <4>1. batch[t] \in Batches /\ Len(hits[t]) <= Len(batch[t])
        BY <3>1, <3>3 DEF CallInv
      <4>2. path \notin Range(batch[t])
        BY <2>1, <4>1, StoreAssumption DEF Rerender
      <4>3. /\ Len(batch[t]) \in Nat
            /\ \A i \in 1..Len(batch[t]) : chips'[batch[t][i]] = chips[batch[t][i]]
        BY <2>2, <4>1, <4>2, BatchIsSequence DEF CallsInv
      <4>4. hits[t] \in Seq(Verdicts \cup {None}) /\ Len(hits[t]) \in Nat
        BY <3>1 DEF CallInv
      <4>5. \A i \in 1..Len(hits[t]) :
               i \in 1..Len(batch[t]) /\ chips'[batch[t][i]] = chips[batch[t][i]]
        BY <4>1, <4>3, <4>4
      <4> QED
        BY <3>1, <4>3, <4>5 DEF CallInv
    <3> QED
      BY <3>2, <3>3
  <2> QED
    BY <2>2, <2>3, <2>4 DEF CallsInv
<1>13. CASE UNCHANGED vars
  BY <1>13 DEF vars, CallsInv
<1> QED
  BY <1>7, <1>8, <1>9, <1>10, <1>11, <1>12, <1>13 DEF Next

-----------------------------------------------------------------------------
(* The index and the lock.                                                 *)

\* What a process is left with that closes the store.
LEMMA Forgotten ==
    ASSUME IndexInv, NEW p \in Processes, Forget(p)
    PROVE  IndexInv'
  BY DEF IndexInv, Forget

LEMMA IndexStep ==
    ASSUME StoreInv, [Next]_vars
    PROVE  IndexInv'
<1> USE DEF StoreInv
<1>1. ASSUME NEW p \in Processes, Open(p) PROVE IndexInv'
  <2>1. /\ Load(file) \in [Keys -> Verdicts \cup {None}]
        /\ \A k \in Keys : Load(file)[k] # None => Load(file)[k].of = k
    BY LoadFits
  <2>2. opened' = {p} /\ index' = [index EXCEPT ![p] = Load(file)]
    BY <1>1 DEF Open, LockFree
  <2> QED
    BY <2>1, <2>2 DEF IndexInv
<1>2. ASSUME NEW p \in Processes, Close(p) PROVE IndexInv'
  BY <1>2, Forgotten DEF Close
<1>3. CASE Kill
  BY <1>3, Forgotten DEF Kill, Processes
<1>4. ASSUME NEW t \in Threads, Put(t) PROVE IndexInv'
  <2>1. /\ Due(t) \in Keys /\ fresh[t][1].verdict \in Verdicts
        /\ fresh[t][1].verdict.of = Due(t)
    BY <1>4, RowFits DEF Put
  <2>2. index' = [index EXCEPT !["scan"][Due(t)] = fresh[t][1].verdict] /\ opened' = opened
    BY <1>4 DEF Put
  <2> QED
    BY <2>1, <2>2 DEF IndexInv, Processes
<1>5. ASSUME opened' = opened, index' = index PROVE IndexInv'
  BY <1>5 DEF IndexInv
<1>6. ASSUME NEW t \in Threads, Call(t) PROVE IndexInv'
  <2>1. CASE Put(t)
    BY <1>4, <2>1
  <2>2. CASE ~Put(t)
    <3>1. opened' = opened /\ index' = index
      BY <1>6, <2>2 DEF Call, Take, Lookup, Score, ScoreRaises, NotCached, PutFails, Return
    <3> QED
      BY <1>5, <3>1
  <2> QED
    BY <2>1, <2>2
<1> QED
  BY <1>1, <1>2, <1>3, <1>5, <1>6 DEF Next, Compact, Rerender, vars

-----------------------------------------------------------------------------
(* The lines of the file.                                                  *)

\* The rows of the index that are written by a compaction.
LEMMA RowsCompacted ==
    ASSUME FileInv, IndexInv, Compact
    PROVE  FileInv'
<1> DEFINE live == {k \in Keys : index["compact"][k] # None}
           row == [k \in live |-> [key |-> k, verdict |-> index["compact"][k]]]
           rows == {[key |-> k, verdict |-> index["compact"][k]] : k \in live}
<1>1. row \in Surjection(live, rows)
  BY DEF Surjection
<1>2. IsFiniteSet(live)
  BY StoreAssumption, FS_Subset DEF Keys
<1>3. IsFiniteSet(rows)
  <2> HIDE DEF live, row, rows
  <2> QED
    BY <1>1, <1>2, FS_Surjection
<1>4. \A r \in rows : r \in Lines /\ r.key = r.verdict.of
  BY DEF IndexInv, Processes, Rows, Lines
<1> HIDE DEF live, row, rows
<1>5. SetToSeq(rows) \in [1..Cardinality(rows) -> rows] /\ Cardinality(rows) \in Nat
  <2>1. Cardinality(rows) \in Nat /\ ExistsBijection(1..Cardinality(rows), rows)
    BY <1>3, FS_CardinalityType
  <2>2. PICK f : f \in Bijection(1..Cardinality(rows), rows)
    BY <2>1 DEF ExistsBijection
  <2>3. f \in [1..Cardinality(rows) -> rows] /\ IsInjective(f)
    BY <2>2 DEF Bijection, Injection, IsInjective
  <2> QED
    BY <2>1, <2>3 DEF SetToSeq
<1>6. file' = SetToSeq(rows) /\ cut' = FALSE /\ faults' = faults
  BY DEF Compact, rows, live
<1>7. file' \in Seq(Lines) /\ \A i \in 1..Len(file') : file'[i].key = file'[i].verdict.of
  <2>1. file' \in Seq(rows)
    BY <1>5, <1>6
  <2>2. file' \in Seq(Lines) /\ \A i \in 1..Len(file') : file'[i] \in rows
    BY <1>4, <2>1
  <2> QED
    BY <1>4, <2>2
<1> QED
  BY <1>6, <1>7 DEF FileInv

LEMMA FileStep ==
    ASSUME StoreInv, [Next]_vars
    PROVE  FileInv'
<1> USE DEF StoreInv
<1>1. ASSUME NEW t \in Threads, ToPut(t), AppendBreaks(Row(t)), faults' = faults + 1
      PROVE  FileInv'
  BY <1>1, RowFits, LineBroken
<1>2. ASSUME NEW t \in Threads, Put(t) PROVE FileInv'
  <2>1. Fitting(Row(t)) /\ AppendLine(Row(t)) /\ faults' \in Nat
    BY <1>2, RowFits DEF Put, FileInv
  <2> QED
    BY <2>1, LineAppended
<1>3. ASSUME UNCHANGED disk, faults' = faults PROVE FileInv'
  BY <1>3 DEF disk, FileInv
<1>4. ASSUME NEW t \in Threads, Call(t) PROVE FileInv'
  <2>1. CASE Put(t)
    BY <1>2, <2>1
  <2>2. CASE PutFails(t)
    BY <1>1, <2>2 DEF PutFails
  <2>3. CASE ~Put(t) /\ ~PutFails(t)
    <3>1. UNCHANGED disk /\ faults' = faults
      BY <1>4, <2>3 DEF Call, Take, Lookup, Score, ScoreRaises, NotCached, Return
    <3> QED
      BY <1>3, <3>1
  <2> QED
    BY <2>1, <2>2, <2>3
<1>5. CASE Kill
  <2>1. CASE UNCHANGED <<disk, faults>>
    BY <1>3, <2>1
  <2>2. CASE ~UNCHANGED <<disk, faults>>
    BY <1>1, <1>5, <2>2 DEF Kill
  <2> QED
    BY <2>1, <2>2
<1>6. CASE Compact
  BY <1>6, RowsCompacted
<1>7. CASE UNCHANGED vars
  BY <1>3, <1>7 DEF vars, disk
<1> QED
  BY <1>3, <1>4, <1>5, <1>6, <1>7 DEF Next, Open, Close, Rerender

-----------------------------------------------------------------------------
(* The loss.                                                               *)

\* Sets of keys are counted.
LEMMA CountKeys ==
    ASSUME NEW S \in SUBSET Keys, NEW T, NEW k,
           T \subseteq S \cup {k}
    PROVE  /\ Cardinality(S) \in Nat /\ Cardinality(T) \in Nat
           /\ Cardinality(T) <= Cardinality(S) + 1
           /\ T \subseteq S => Cardinality(T) <= Cardinality(S)
<1>1. IsFiniteSet(S)
  BY StoreAssumption, FS_Subset DEF Keys
<1>2. IsFiniteSet(S \cup {k}) /\ Cardinality(S) \in Nat
      /\ Cardinality(S \cup {k}) <= Cardinality(S) + 1
  BY <1>1, FS_AddElement, FS_CardinalityType
<1>3. IsFiniteSet(T) /\ Cardinality(T) <= Cardinality(S \cup {k})
  BY <1>2, FS_Subset
<1>4. Cardinality(T) \in Nat /\ Cardinality(S \cup {k}) \in Nat
  BY <1>2, <1>3, FS_CardinalityType
<1>5. T \subseteq S => Cardinality(T) <= Cardinality(S)
  BY <1>1, FS_Subset
<1> QED
  BY <1>2, <1>3, <1>4, <1>5

\* The scan that opens the store knows all that is secure, and one verdict more
\* when the last line has no newline.
LEMMA LossOpen ==
    ASSUME StoreInv, Open("scan")
    PROVE  LossInv'
<1> USE DEF StoreInv
<1>1. /\ file \in Seq(Lines) /\ Len(file) \in Nat /\ DOMAIN file = 1..Len(file)
      /\ cut \in BOOLEAN /\ faults \in Nat /\ (cut => file # <<>> /\ faults >= 1)
  BY DEF FileInv
<1>2. index'["scan"] = Load(file) /\ file' = file /\ cut' = cut /\ faults' = faults
  BY DEF Open, disk, IndexInv, Processes
<1>3. Secure' = Secure
  BY <1>2 DEF Secure
<1>4. Known("scan")' = {k \in Keys :
                           \E i \in 1..Len(file) : file[i] \in Rows /\ file[i].key = k}
  BY <1>2, LoadFits DEF Known
<1>5. Secure \subseteq Known("scan")'
  BY <1>1, <1>4 DEF Secure
<1>6. Cardinality(Secure' \ Known("scan")') = 0
  BY <1>3, <1>5, FS_EmptySet
<1>7. CASE ~cut
  <2>1. Known("scan")' \subseteq Secure
    BY <1>1, <1>4, <1>7 DEF Secure
  <2>2. Cardinality(Known("scan")' \ Secure') = 0
    BY <1>3, <2>1, FS_EmptySet
  <2> QED
    BY <1>1, <1>2, <1>6, <1>7, <2>2 DEF LossInv
<1>8. CASE cut
  <2>1. Known("scan")' \ Secure' \subseteq {} \cup {file[Len(file)].key}
    BY <1>1, <1>3, <1>4 DEF Secure
  <2>2. /\ Cardinality(Known("scan")' \ Secure') <= Cardinality({}) + 1
        /\ Cardinality(Known("scan")' \ Secure') \in Nat
    BY <2>1, CountKeys
  <2>3. Cardinality(Known("scan")' \ Secure') <= 1
    BY <2>2, FS_EmptySet
  <2> QED
    BY <1>1, <1>2, <1>6, <1>8, <2>2, <2>3 DEF LossInv
<1> QED
  BY <1>1, <1>7, <1>8

\* A put makes its key known, and secures it unless the line before was cut.
LEMMA LossPut ==
    ASSUME StoreInv, NEW t \in Threads, Put(t)
    PROVE  LossInv'
<1> USE DEF StoreInv
<1>1. cut \in BOOLEAN /\ faults \in Nat
  BY DEF FileInv
<1>2. /\ Due(t) \in Keys /\ Row(t).key = Due(t) /\ Fitting(Row(t))
      /\ fresh[t][1].verdict \in Verdicts
  BY RowFits DEF Put
<1>3. /\ index' = [index EXCEPT !["scan"][Due(t)] = fresh[t][1].verdict]
      /\ opened' = opened /\ faults' = faults /\ AppendLine(Row(t))
  BY DEF Put
<1>4. "scan" \in opened
  BY DEF Put, ToPut, CallsInv
<1>5. ~cut' /\ Secure' = IF cut THEN Secure ELSE Secure \cup {Due(t)}
  BY <1>1, <1>2, <1>3, LineAppended
<1>6. Known("scan")' = Known("scan") \cup {Due(t)}
  BY <1>2, <1>3, StoreAssumption DEF Known, IndexInv, Processes
<1> DEFINE A == Secure \ Known("scan")
           B == Known("scan") \ Secure
<1>7. A \in SUBSET Keys /\ B \in SUBSET Keys
  BY DEF Secure, Known
<1>8. Cardinality(A) <= faults /\ Cardinality(B) <= 2 * faults - (IF cut THEN 1 ELSE 0)
  BY <1>4 DEF LossInv
<1>9. Secure' \ Known("scan")' \subseteq A
  BY <1>5, <1>6
<1>10. /\ Known("scan")' \ Secure' \subseteq B \cup {Due(t)}
       /\ ~cut => Known("scan")' \ Secure' \subseteq B
  BY <1>5, <1>6
<1> HIDE DEF A, B
<1>11. /\ Cardinality(A) \in Nat /\ Cardinality(Secure' \ Known("scan")') \in Nat
       /\ Cardinality(Secure' \ Known("scan")') <= Cardinality(A)
  <2>1. Secure' \ Known("scan")' \subseteq A \cup {Due(t)}
    BY <1>9
  <2> QED
    BY <1>7, <1>9, <2>1, CountKeys
<1>12. /\ Cardinality(B) \in Nat /\ Cardinality(Known("scan")' \ Secure') \in Nat
       /\ Cardinality(Known("scan")' \ Secure') <= Cardinality(B) + 1
       /\ ~cut => Cardinality(Known("scan")' \ Secure') <= Cardinality(B)
  BY <1>7, <1>10, CountKeys
<1>13. Cardinality(Secure' \ Known("scan")') <= faults'
  BY <1>1, <1>3, <1>8, <1>11
<1>14. Cardinality(Known("scan")' \ Secure') <= 2 * faults'
  BY <1>1, <1>3, <1>8, <1>12
<1> QED
  BY <1>1, <1>3, <1>5, <1>12, <1>13, <1>14 DEF LossInv

\* An append that raises may have secured its key and leaves a cut line at most.
LEMMA LossBroken ==
    ASSUME StoreInv, NEW t \in Threads, PutFails(t)
    PROVE  LossInv'
<1> USE DEF StoreInv
<1>1. cut \in BOOLEAN /\ faults \in Nat
  BY DEF FileInv
<1>2. Row(t).key = Due(t) /\ Fitting(Row(t))
  BY RowFits DEF PutFails
<1>3. /\ index' = index /\ opened' = opened /\ faults' = faults + 1
      /\ AppendBreaks(Row(t))
  BY DEF PutFails
<1>4. "scan" \in opened
  BY DEF PutFails, ToPut, CallsInv
<1>5. cut' \in BOOLEAN /\ (Secure' = Secure \/ Secure' = Secure \cup {Due(t)})
  BY <1>2, <1>3, LineBroken DEF FileInv
<1>6. Known("scan")' = Known("scan")
  BY <1>3 DEF Known
<1> DEFINE A == Secure \ Known("scan")
           B == Known("scan") \ Secure
<1>7. A \in SUBSET Keys /\ B \in SUBSET Keys
  BY DEF Secure, Known
<1>8. Cardinality(A) <= faults /\ Cardinality(B) <= 2 * faults - (IF cut THEN 1 ELSE 0)
  BY <1>4 DEF LossInv
<1>9. /\ Secure' \ Known("scan")' \subseteq A \cup {Due(t)}
      /\ Known("scan")' \ Secure' \subseteq B
      /\ Known("scan")' \ Secure' \subseteq B \cup {Due(t)}
  BY <1>5, <1>6
<1> HIDE DEF A, B
<1>10. /\ Cardinality(A) \in Nat /\ Cardinality(Secure' \ Known("scan")') \in Nat
       /\ Cardinality(Secure' \ Known("scan")') <= Cardinality(A) + 1
  BY <1>7, <1>9, CountKeys
<1>11. /\ Cardinality(B) \in Nat /\ Cardinality(Known("scan")' \ Secure') \in Nat
       /\ Cardinality(Known("scan")' \ Secure') <= Cardinality(B)
  BY <1>7, <1>9, CountKeys
<1>12. Cardinality(Secure' \ Known("scan")') <= faults'
  BY <1>1, <1>3, <1>8, <1>10
<1>13. Cardinality(Known("scan")' \ Secure') <= 2 * faults' - 1
  BY <1>1, <1>3, <1>8, <1>11
<1> QED
  BY <1>1, <1>3, <1>11, <1>12, <1>13 DEF LossInv

LEMMA LossStep ==
    ASSUME StoreInv, [Next]_vars
    PROVE  LossInv'
<1> USE DEF StoreInv
<1>1. ASSUME UNCHANGED disk, index' = index, opened' = opened, faults' = faults
      PROVE  LossInv'
  <2>1. Secure' = Secure /\ Known("scan")' = Known("scan") /\ cut' = cut
    BY <1>1 DEF disk, Secure, Known
  <2> QED
    BY <1>1, <2>1 DEF LossInv
<1>2. ASSUME "scan" \notin opened' PROVE LossInv'
  BY <1>2 DEF LossInv
<1>3. ASSUME NEW p \in Processes, Open(p) PROVE LossInv'
  <2>1. CASE p = "scan"
    BY <1>3, <2>1, LossOpen
  <2>2. CASE p # "scan"
    <3>1. opened' = {p}
      BY <1>3 DEF Open, LockFree
    <3> QED
      BY <1>2, <2>2, <3>1
  <2> QED
    BY <2>1, <2>2
<1>4. ASSUME NEW p \in Processes, Close(p) PROVE LossInv'
  <2>1. opened' = {}
    BY <1>4 DEF Close, Forget, IndexInv
  <2> QED
    BY <1>2, <2>1
<1>5. CASE Compact
  <2>1. "scan" \notin opened'
    BY <1>5 DEF Compact, IndexInv
  <2> QED
    BY <1>2, <2>1
<1>6. CASE Kill
  BY <1>2, <1>6 DEF Kill, Forget
<1>7. ASSUME NEW t \in Threads, Call(t) PROVE LossInv'
  <2>1. CASE Put(t)
    BY <2>1, LossPut
  <2>2. CASE PutFails(t)
    BY <2>2, LossBroken
  <2>3. CASE ~Put(t) /\ ~PutFails(t)
    <3>1. UNCHANGED disk /\ index' = index /\ opened' = opened /\ faults' = faults
      BY <1>7, <2>3 DEF Call, Take, Lookup, Score, ScoreRaises, NotCached, Return
    <3> QED
      BY <1>1, <3>1
  <2> QED
    BY <2>1, <2>2, <2>3
<1>8. CASE UNCHANGED vars
  BY <1>1, <1>8 DEF vars, disk
<1> QED
  BY <1>1, <1>3, <1>4, <1>5, <1>6, <1>7, <1>8 DEF Next, Rerender

-----------------------------------------------------------------------------
(* The theorems.                                                           *)

LEMMA StoreInit ==
    ASSUME Init
    PROVE  StoreInv
<1>1. FileInv
  <2>1. <<>> \in Seq(Lines) /\ Len(<<>>) = 0 /\ 1..0 = {}
    OBVIOUS
  <2> QED
    BY <2>1 DEF Init, FileInv
<1>2. IndexInv
  BY DEF Init, IndexInv
<1>3. CallsInv
  <2>1. \A t \in Threads : CallInv(pc[t], batch[t], hits[t], fresh[t], chips)
    BY CallLeft DEF Init
  <2>2. <<>> \in Seq(Fresh) /\ <<>> \in Seq(Verdicts \cup {None})
    OBVIOUS
  <2> QED
    BY <2>1, <2>2 DEF Init, CallsInv
<1>4. LossInv
  BY DEF Init, LossInv
<1> QED
  BY <1>1, <1>2, <1>3, <1>4 DEF StoreInv

\* The file, the indices, the calls and the loss are as described, whatever the
\* workers, the compaction, the kills and the chips do (VerdictStore in
\* verdict_store.py and VerdictCachingScorer.batch on top of it).
THEOREM StoreInvariant == Spec => []StoreInv
<1>1. Init => StoreInv
  BY StoreInit
<1>2. StoreInv /\ [Next]_vars => StoreInv'
  BY FileStep, IndexStep, CallsStep, LossStep DEF StoreInv
<1> QED
  BY <1>1, <1>2, PTL DEF Spec

\* Every variable keeps its type.
THEOREM StoreTyped == Spec => []TypeOK
<1> DEFINE Few == faults <= MaxFaults
<1>1. Init => Few
  BY StoreAssumption DEF Init
<1>2. StoreInv /\ Few /\ [Next]_vars => Few'
  <2> SUFFICES ASSUME StoreInv, Few, [Next]_vars PROVE Few'
    OBVIOUS
  <2>1. faults \in Nat /\ MaxFaults \in Nat
    BY StoreAssumption DEF StoreInv, FileInv
  <2>2. faults' = faults \/ (faults < MaxFaults /\ faults' = faults + 1)
    BY DEF Next, Open, Close, Compact, Call, Take, Lookup, Score, ScoreRaises, Put,
           NotCached, PutFails, Return, Kill, Rerender, vars
  <2> QED
    BY <2>1, <2>2
<1>3. StoreInv /\ Few => TypeOK
  <2> SUFFICES ASSUME StoreInv, Few PROVE TypeOK
    OBVIOUS
  <2>1. Range(file) \subseteq Rows \cup {Junk, Split}
    BY DEF StoreInv, FileInv, Lines, Range
  <2>2. ASSUME NEW t \in Threads
        PROVE  /\ Range(hits[t]) \subseteq Verdicts \cup {None}
               /\ \A j \in DOMAIN fresh[t] :
                    /\ fresh[t][j].pos \in DOMAIN batch[t]
                    /\ fresh[t][j].verdict \in Verdicts
    <3>1. CallInv(pc[t], batch[t], hits[t], fresh[t], chips)
      BY DEF StoreInv, CallsInv
    <3>2. Range(hits[t]) \subseteq Verdicts \cup {None}
      BY <3>1 DEF CallInv, Range
    <3>3. fresh[t] \in Seq(Fresh) /\ (fresh[t] # <<>> => batch[t] \in Batches)
      BY <3>1 DEF CallInv
    <3>4. ASSUME NEW j \in DOMAIN fresh[t]
          PROVE  fresh[t][j].pos \in DOMAIN batch[t] /\ fresh[t][j].verdict \in Verdicts
      <4>1. j \in 1..Len(fresh[t]) /\ fresh[t] # <<>> /\ fresh[t][j] \in Fresh
        BY <3>3
      <4>2. fresh[t][j].pos \in 1..Len(batch[t]) /\ DOMAIN batch[t] = 1..Len(batch[t])
        BY <3>1, <3>3, <4>1, BatchIsSequence DEF CallInv
      <4> QED
        BY <4>1, <4>2 DEF Fresh
    <3> QED
      BY <3>2, <3>4
  <2>3. faults \in 0..MaxFaults
    BY StoreAssumption DEF StoreInv, FileInv
  <2> QED
    BY <2>1, <2>2, <2>3 DEF TypeOK, StoreInv, FileInv, IndexInv, CallsInv
<1> HIDE DEF Few
<1> QED
  BY <1>1, <1>2, <1>3, StoreInvariant, StoreInit, PTL DEF Spec

\* What a call replays, what it got from the inner scorer and what the store
\* keeps are verdicts on the pixels they are given to (_lookup_chips, the
\* dense_to_requested of the inner call, put), for any batches and threads.
THEOREM VerdictsFit == Spec => []VerdictOfItsPixels
<1>1. StoreInv => VerdictOfItsPixels
  <2> SUFFICES ASSUME StoreInv PROVE VerdictOfItsPixels
    OBVIOUS
  <2>1. ASSUME NEW t \in Threads
        PROVE  /\ \A i \in DOMAIN hits[t] :
                    hits[t][i] # None => hits[t][i].of = chips[batch[t][i]]
               /\ \A j \in DOMAIN fresh[t] :
                    fresh[t][j].verdict.of = chips[batch[t][fresh[t][j].pos]]
    <3>1. CallInv(pc[t], batch[t], hits[t], fresh[t], chips)
      BY DEF StoreInv, CallsInv
    <3>2. DOMAIN hits[t] = 1..Len(hits[t]) /\ DOMAIN fresh[t] = 1..Len(fresh[t])
      BY <3>1 DEF CallInv
    <3> QED
      BY <3>1, <3>2 DEF CallInv
  <2>2. \A i \in DOMAIN file : file[i] \in Rows => file[i].key = file[i].verdict.of
    BY DEF StoreInv, FileInv
  <2> QED
    BY <2>1, <2>2 DEF VerdictOfItsPixels
<1> QED
  BY <1>1, StoreInvariant, PTL

\* Broken appends cost the running scan no more than their own verdicts (put,
\* _load and the append in verdict_store.py), for any number of them.
THEOREM LossIsBounded == Spec => []LossPerFault
<1>1. StoreInv => LossPerFault
  <2> SUFFICES ASSUME StoreInv, "scan" \in opened
               PROVE  /\ Cardinality(Secure \ Known("scan")) <= faults
                      /\ Cardinality(Known("scan") \ Secure) <= 2 * faults
    BY DEF LossPerFault
  <2>1. cut \in BOOLEAN /\ faults \in Nat
    BY DEF StoreInv, FileInv
  <2>2. Known("scan") \ Secure \in SUBSET Keys
    BY DEF Known
  <2>3. Cardinality(Known("scan") \ Secure) \in Nat
    BY <2>2, CountKeys
  <2> QED
    BY <2>1, <2>3 DEF StoreInv, LossInv
<1> QED
  BY <1>1, StoreInvariant, PTL

-----------------------------------------------------------------------------
(* The panel of the short-gap adjudication.                                *)

Replies == [by : Locked, more : BOOLEAN] \cup {Unasked}
Jobs == [at : {"todo", "look", "call", "done", "raised"}, rep : Nat]

\* The reps of an anchor were asked one after the other, each because of what
\* the one before it said.
RepsInOrder ==
    \A pool \in Pools, a \in Anchors, r \in Reps : Stored(pool, a, r) =>
        /\ a \in Packets(pool) /\ rep[pool][a][r].by \in Locked
        /\ r > 1 => Stored(pool, a, r - 1) /\ rep[pool][a][r - 1].more
        /\ r = 3 => ~rep[pool][a][r].more

\* An anchor of which nothing is left to ask.
Complete(pool, a) ==
    /\ Stored(pool, a, 1)
    /\ \A r \in {1, 2} : rep[pool][a][r].more => Stored(pool, a, r + 1)

\* Outside of a smoke an answer that was asked for or taken over is one of the
\* locked model.
Fits(a, r) == run \notin Smokes => rep[run][a][r].by = memory[run]

\* Where a task is in the reps of its anchor.
JobFits(a) ==
    /\ a \notin Packets(run) => job[a] = Done
    /\ job[a].at \in {"look", "call"} =>
          /\ job[a].rep \in Reps
          /\ \A s \in Reps : s < job[a].rep =>
                Stored(run, a, s) /\ rep[run][a][s].more /\ Fits(a, s)
    /\ job[a].at = "call" => ~Stored(run, a, job[a].rep)
    /\ job[a] = Done => /\ a \in Packets(run) => Complete(run, a)
                        /\ \A s \in Reps : Stored(run, a, s) => Fits(a, s)

\* The model an arm is asked of is that of its complete smoke; the one the
\* production is asked of is the selected one.
RunFits ==
    /\ IF run = Idle THEN job = Nothing ELSE \A a \in Anchors : JobFits(a)
    /\ run \in Arms =>
          /\ memory[run] \in Locked /\ memory[run].alias = run
          /\ VersionsIn(SmokeOf(run)) = {memory[run].version}
          /\ \A a \in SmokeAnchors : Complete(SmokeOf(run), a)
    /\ run = "PRODUCTION" => selection \in Locked /\ memory[run] = selection

\* The table of an arm stands for a smoke and a panel of one model which are
\* complete, so that no later run adds to them.
ArmFits(arm) ==
    table[arm] # NoVersion =>
        LET model == [alias |-> arm, version |-> table[arm]]
        IN  /\ lock[arm] = model
            /\ run # Idle => memory[arm] = model
            /\ VersionsIn(arm) = {table[arm]} /\ VersionsIn(SmokeOf(arm)) = {table[arm]}
            /\ \A a \in Panel : Complete(arm, a)
            /\ \A a \in SmokeAnchors : Complete(SmokeOf(arm), a)

TableFits == \A arm \in Arms : ArmFits(arm)

\* A selection names the model of a table.
SelectionFits == selection # NoModel => table[selection.alias] = selection.version

\* What is published is complete, and of one model, that of a table.
PublishedFits ==
    published # NoModel =>
        /\ published \in Locked /\ table[published.alias] = published.version
        /\ \A a \in Remainder : Complete("PRODUCTION", a)
        /\ \A a \in Remainder, r \in Reps :
               Stored("PRODUCTION", a, r) => rep["PRODUCTION"][a][r].by = published

PanelInv ==
    PanelTypeOK /\ RepsInOrder /\ RunFits /\ TableFits /\ SelectionFits /\ PublishedFits

-----------------------------------------------------------------------------
LEMMA OfLocked ==
    ASSUME NEW m \in Locked
    PROVE  /\ m # NoModel /\ m.version # NoVersion
           /\ m.version \in Versions /\ m.alias \in Arms
           /\ m = [alias |-> m.alias, version |-> m.version]
  BY PanelAdjudicationAssumption DEF Locked, NoModel

\* Pools and their packets.
LEMMA OfPools ==
    /\ Arms \subseteq Pools /\ Smokes \subseteq Pools /\ "PRODUCTION" \in Pools
    /\ \A p \in Pools : Packets(p) \subseteq Anchors /\ p # Idle
    /\ \A p \in Pools : p \in Smokes \/ p \in Arms \/ p = "PRODUCTION"
    /\ \A arm \in Arms :
          /\ SmokeOf(arm) \in Smokes /\ arm \notin Smokes
          /\ Packets(arm) = Panel /\ Packets(SmokeOf(arm)) = SmokeAnchors
          /\ arm # "PRODUCTION" /\ SmokeOf(arm) # "PRODUCTION"
          /\ \A other \in Arms : SmokeOf(other) = SmokeOf(arm) => other = arm
          /\ Alias(arm) = arm
    /\ Packets("PRODUCTION") = Remainder /\ "PRODUCTION" \notin Smokes
    /\ Alias("PRODUCTION") = selection.alias
  BY PanelAdjudicationAssumption
     DEF Pools, Arms, Smokes, SmokeOf, Packets, Anchors, Alias, Idle

\* A rep that is stored makes every rep before it one that called for more.
LEMMA AskedInOrder ==
    ASSUME RepsInOrder, NEW pool \in Pools, NEW a \in Anchors,
           NEW r \in Reps, NEW s \in Reps, r < s, Stored(pool, a, s)
    PROVE  Stored(pool, a, r) /\ rep[pool][a][r].more
<1>1. Reps = {1, 2, 3}
  BY DEF Reps
<1>2. Stored(pool, a, s - 1) /\ rep[pool][a][s - 1].more
  BY <1>1 DEF RepsInOrder
<1>3. CASE r = s - 1
  BY <1>2, <1>3
<1>4. CASE r # s - 1
  <2>1. r = 1 /\ s = 3
    BY <1>1, <1>4
  <2>2. Stored(pool, a, 2) /\ 2 \in Reps
    BY <1>1, <1>2, <2>1
  <2>3. Stored(pool, a, 2 - 1) /\ rep[pool][a][2 - 1].more
    BY <2>2 DEF RepsInOrder
  <2> QED
    BY <2>1, <2>3
<1> QED
  BY <1>3, <1>4

\* What the answers of a pool rest on.
LEMMA OfVersions ==
    ASSUME PanelTypeOK, RepsInOrder, NEW pool \in Pools
    PROVE  /\ \A a \in Anchors, r \in Reps : Stored(pool, a, r) =>
                 rep[pool][a][r].by.version \in VersionsIn(pool)
           /\ \A v \in VersionsIn(pool) : v \in Versions /\ v # NoVersion
           /\ \A v \in VersionsIn(pool) : \E a \in Anchors, r \in Reps :
                 Stored(pool, a, r) /\ rep[pool][a][r].by.version = v
<1>1. ASSUME NEW a \in Anchors, NEW r \in Reps, Stored(pool, a, r)
      PROVE  rep[pool][a][r].by \in Locked
  BY <1>1 DEF RepsInOrder
<1>2. ASSUME NEW a \in Anchors, NEW r \in Reps, ~Stored(pool, a, r)
      PROVE  rep[pool][a][r].by.version = NoVersion
  BY <1>2 DEF Stored, Unasked, NoModel
<1> QED
  BY <1>1, <1>2, OfLocked DEF VersionsIn

LEMMA VersionsFinite ==
    ASSUME NEW pool \in Pools
    PROVE  IsFiniteSet(VersionsIn(pool))
<1> DEFINE S == Anchors \X Reps
           f == [k \in S |-> rep[pool][k[1]][k[2]].by.version]
           T == {f[k] : k \in S}
<1>1. IsFiniteSet(S)
  <2>1. IsFiniteSet(Anchors)
    BY PanelAdjudicationAssumption, FS_Union DEF Anchors
  <2>2. IsFiniteSet(Reps)
    <3>1. 1 \in Int /\ 3 \in Int
      OBVIOUS
    <3> QED
      BY <3>1, FS_Interval DEF Reps
  <2> QED
    BY <2>1, <2>2, FS_Product
<1>2. f \in Surjection(S, T)
  BY DEF Surjection
<1>3. IsFiniteSet(T)
  <2> HIDE DEF S, f, T
  <2> QED
    BY <1>1, <1>2, FS_Surjection
<1>4. VersionsIn(pool) \subseteq T
  <2> SUFFICES ASSUME NEW v \in VersionsIn(pool)
               PROVE  v \in T
    OBVIOUS
  <2>1. PICK a \in Anchors, r \in Reps : v = rep[pool][a][r].by.version
    BY DEF VersionsIn
  <2>2. <<a, r>> \in S /\ f[<<a, r>>] = v
    BY <2>1
  <2> QED
    BY <2>2
<1> QED
  BY <1>3, <1>4, FS_Subset

\* A task that asks has a rep to ask: its anchor is not complete.
LEMMA AskedIsOpen ==
    ASSUME PanelInv, NEW a \in Anchors, job[a].at = "call"
    PROVE  /\ run \in Pools /\ a \in Packets(run)
           /\ job[a].rep \in Reps /\ ~Stored(run, a, job[a].rep)
           /\ \A s \in Reps : s < job[a].rep =>
                Stored(run, a, s) /\ rep[run][a][s].more /\ Fits(a, s)
           /\ ~Complete(run, a)
<1>1. JobFits(a) /\ run \in Pools
  <2>1. job # Nothing
    BY DEF Nothing, Done, Task
  <2>2. run # Idle /\ \A b \in Anchors : JobFits(b)
    BY <2>1 DEF PanelInv, RunFits
  <2> QED
    BY <2>2 DEF PanelInv, PanelTypeOK
<1>2. a \in Packets(run)
  BY <1>1 DEF JobFits, Done, Task
<1>3. /\ job[a].rep \in Reps /\ ~Stored(run, a, job[a].rep)
      /\ \A s \in Reps : s < job[a].rep =>
            Stored(run, a, s) /\ rep[run][a][s].more /\ Fits(a, s)
  BY <1>1 DEF JobFits
<1>4. ~Complete(run, a)
  <2>1. CASE job[a].rep = 1
    BY <1>3, <2>1 DEF Complete
  <2>2. ASSUME NEW s \in {1, 2}, job[a].rep = s + 1
        PROVE  ~Complete(run, a)
    BY <1>3, <2>2 DEF Complete, Reps
  <2> QED
    BY <1>3, <2>1, <2>2 DEF Reps
<1> QED
  BY <1>1, <1>2, <1>3, <1>4

\* What is complete is at no task that asks.
LEMMA AskedIsNotDone ==
    ASSUME PanelInv, NEW a \in Anchors, job[a].at = "call"
    PROVE  /\ \A arm \in Arms : run \in {arm, SmokeOf(arm)} => table[arm] = NoVersion
           /\ run = "PRODUCTION" => published = NoModel
<1>1. run \in Pools /\ a \in Packets(run) /\ ~Complete(run, a)
  BY AskedIsOpen
<1>2. ASSUME NEW arm \in Arms, run \in {arm, SmokeOf(arm)}, table[arm] # NoVersion
      PROVE  FALSE
  <2>1. (\A b \in Panel : Complete(arm, b)) /\ \A b \in SmokeAnchors : Complete(SmokeOf(arm), b)
    BY <1>2 DEF PanelInv, TableFits, ArmFits
  <2> QED
    BY <1>1, <1>2, <2>1, OfPools
<1>3. ASSUME run = "PRODUCTION", published # NoModel
      PROVE  FALSE
  <2>1. \A b \in Remainder : Complete("PRODUCTION", b)
    BY <1>3 DEF PanelInv, PublishedFits
  <2> QED
    BY <1>1, <1>3, <2>1, OfPools
<1> QED
  BY <1>2, <1>3

Admitted(version) == [alias |-> Alias(run), version |-> version]

\* A version that is admitted changes nothing but the memory of a smoke.
LEMMA AdmittedFits ==
    ASSUME PanelInv, NEW a \in Anchors, job[a].at = "call",
           NEW version \in Versions \cup {NoVersion}, Admits(version),
           memory' = [memory EXCEPT ![run] = Admitted(version)]
    PROVE  /\ memory' \in [Pools -> Locked \cup {NoModel}]
           /\ Admitted(version) \in Locked /\ memory'[run] = Admitted(version)
           /\ run \notin Smokes => memory' = memory /\ memory[run] = Admitted(version)
           /\ \A arm \in Arms : memory'[arm] = memory[arm]
<1>1. run \in Pools
  BY AskedIsOpen
<1>2. memory \in [Pools -> Locked \cup {NoModel}]
  BY DEF PanelInv, PanelTypeOK
<1>3. version \in Versions /\ memory[run] \in {NoModel, Admitted(version)}
  BY DEF Admits, Admitted
<1>4. Alias(run) \in Arms
  <2>1. CASE run = "PRODUCTION"
    <3>1. selection \in Locked
      BY <2>1 DEF PanelInv, RunFits
    <3> QED
      BY <2>1, <3>1, OfPools, OfLocked
  <2>2. CASE run \in Arms
    BY <2>2, OfPools
  <2>3. CASE run \in Smokes
    BY <2>3 DEF Smokes, Alias, Arms
  <2> QED
    BY <1>1, <2>1, <2>2, <2>3, OfPools
<1>5. Admitted(version) \in Locked
  BY <1>3, <1>4 DEF Locked, Admitted
<1>6. memory' \in [Pools -> Locked \cup {NoModel}] /\ memory'[run] = Admitted(version)
  BY <1>1, <1>2, <1>5
<1>7. ASSUME run \notin Smokes
      PROVE  memory' = memory /\ memory[run] = Admitted(version)
  <2>1. memory[run] \in Locked
    BY <1>1, <1>7, OfPools DEF PanelInv, RunFits
  <2>2. memory[run] = Admitted(version)
    BY <1>3, <2>1, OfLocked
  <2> QED
    BY <1>1, <1>2, <2>2
<1>8. ASSUME NEW arm \in Arms
      PROVE  memory'[arm] = memory[arm]
  BY <1>1, <1>2, <1>7, OfPools
<1> QED
  BY <1>5, <1>6, <1>7, <1>8

-----------------------------------------------------------------------------
(* The steps of a task.                                                    *)

\* What a step of a task leaves as it was: all but one job, and, when there is
\* an answer, but one rep.
TaskStep(a) ==
    /\ run' = run /\ table' = table /\ selection' = selection
    /\ job' \in [Anchors -> Jobs] /\ \A b \in Anchors \ {a} : job'[b] = job[b]
    /\ run \notin Smokes => memory' = memory
    /\ \A arm \in Arms : memory'[arm] = memory[arm] /\ lock'[arm] = lock[arm]

\* After rep r was answered or taken over, the task is where it should be.
LEMMA JobFollows ==
    ASSUME RepsInOrder', NEW a \in Anchors, a \in Packets(run)', (run \in Pools)',
           NEW r \in Reps, Stored(run, a, r)', Fits(a, r)',
           \A s \in Reps : s < r =>
               Stored(run, a, s)' /\ rep'[run'][a][s].more /\ Fits(a, s)',
           job'[a] = After(r, rep'[run'][a][r].more)
    PROVE  JobFits(a)'
<1>0. Reps = {1, 2, 3}
  BY DEF Reps
<1>1. r = 3 => ~rep'[run'][a][r].more
  BY DEF RepsInOrder
<1>2. CASE rep'[run'][a][r].more
  <2>1. job'[a] = [at |-> "look", rep |-> r + 1] /\ r + 1 \in Reps
    BY <1>0, <1>1, <1>2 DEF After, Task
  <2>2. \A s \in Reps : s < r + 1 =>
            Stored(run, a, s)' /\ rep'[run'][a][s].more /\ Fits(a, s)'
    BY <1>0, <1>2
  <2>3. job'[a] # Done
    BY <2>1 DEF Done, Task
  <2> QED
    BY <2>1, <2>2, <2>3 DEF JobFits
<1>3. CASE ~rep'[run'][a][r].more
  <2>1. job'[a] = Done /\ job'[a].at = "done"
    BY <1>3 DEF After, Done, Task
  <2>2. \A s \in Reps : s > r => ~Stored(run, a, s)'
    <3>1. SUFFICES ASSUME NEW s \in Reps, s > r, Stored(run, a, s)'
                   PROVE  FALSE
      OBVIOUS
    <3>2. Stored(run, a, s - 1)' /\ rep'[run'][a][s - 1].more
      BY <1>0, <3>1 DEF RepsInOrder
    <3>3. s = 3 /\ r = 1
      BY <1>0, <1>3, <3>1, <3>2
    <3>4. 2 \in Reps /\ Stored(run, a, 2)'
      BY <1>0, <3>2, <3>3
    <3>5. rep'[run'][a][2 - 1].more
      BY <3>4 DEF RepsInOrder
    <3> QED
      BY <1>3, <3>3, <3>5
  <2>3. \A s \in Reps : Stored(run, a, s)' => Fits(a, s)'
    BY <1>0, <2>2
  <2>4. Complete(run, a)'
    <3>1. Stored(run, a, 1)'
      BY <1>0
    <3>2. ASSUME NEW s \in {1, 2}, rep'[run'][a][s].more
          PROVE  Stored(run, a, s + 1)'
      <4>1. Stored(run, a, s)'
        BY <3>2 DEF Stored, Unasked
      <4>2. s < r
        BY <1>0, <1>3, <2>2, <3>2, <4>1
      <4> QED
        BY <1>0, <4>2
    <3> QED
      BY <3>1, <3>2 DEF Complete
  <2> QED
    BY <2>1, <2>3, <2>4 DEF JobFits
<1> QED
  BY <1>2, <1>3

\* A task that another one does not touch stays where it is.
LEMMA JobStays ==
    ASSUME NEW b \in Anchors, JobFits(b), run \in Pools, run' = run, job'[b] = job[b],
           Packets(run)' = Packets(run), rep'[run][b] = rep[run][b],
           run \notin Smokes => memory' = memory
    PROVE  JobFits(b)'
  BY DEF JobFits, Fits, Complete, Stored

\* A pool begins with what is stored.
LEMMA QueueFits ==
    ASSUME RepsInOrder, NEW pool \in Pools, rep' = rep, run' = pool, job' = Queue(pool)
    PROVE  \A a \in Anchors : JobFits(a)'
<1> SUFFICES ASSUME NEW a \in Anchors
             PROVE  JobFits(a)'
  OBVIOUS
<1>0. Packets(run)' = Packets(pool) /\ job'[a] = IF a \in Packets(pool) THEN Todo ELSE Done
  BY DEF Packets, Queue
<1>1. CASE a \in Packets(pool)
  BY <1>0, <1>1 DEF JobFits, Todo, Done, Task
<1>2. CASE a \notin Packets(pool)
  <2>1. \A s \in Reps : ~Stored(run, a, s)'
    BY <1>2 DEF RepsInOrder, Stored
  <2>2. job'[a] = Done /\ job'[a].at = "done"
    BY <1>0, <1>2 DEF Done, Task
  <2> QED
    BY <1>0, <1>2, <2>1, <2>2 DEF JobFits
<1> QED
  BY <1>1, <1>2

-----------------------------------------------------------------------------
(* What a step leaves of the tables, the selection and what is published.  *)

LEMMA PoolStays ==
    ASSUME NEW pool \in Pools, rep'[pool] = rep[pool]
    PROVE  /\ VersionsIn(pool)' = VersionsIn(pool)
           /\ \A a \in Anchors : Complete(pool, a)' <=> Complete(pool, a)
           /\ \A a \in Anchors, r \in Reps : Stored(pool, a, r)' <=> Stored(pool, a, r)
<1>1. VersionsIn(pool)' = VersionsIn(pool)
  BY DEF VersionsIn
<1>2. \A a \in Anchors : Complete(pool, a)' <=> Complete(pool, a)
  BY DEF Complete, Stored
<1> QED
  BY <1>1, <1>2 DEF Stored

LEMMA ArmStays ==
    ASSUME PanelInv, NEW arm \in Arms, table'[arm] = table[arm],
           table[arm] # NoVersion =>
               /\ rep'[arm] = rep[arm] /\ rep'[SmokeOf(arm)] = rep[SmokeOf(arm)]
               /\ lock'[arm] = lock[arm]
               /\ run' # Idle => memory'[arm] = lock[arm]
    PROVE  ArmFits(arm)'
<1> SUFFICES ASSUME table[arm] # NoVersion
             PROVE  ArmFits(arm)'
  BY DEF ArmFits
<1>1. ArmFits(arm)
  BY DEF PanelInv, TableFits
<1>2. arm \in Pools /\ SmokeOf(arm) \in Pools /\ SmokeOf(arm)' = SmokeOf(arm)
  BY OfPools DEF SmokeOf
<1>3. \A pool \in {arm, SmokeOf(arm)} :
          /\ VersionsIn(pool)' = VersionsIn(pool)
          /\ \A a \in Anchors : Complete(pool, a)' <=> Complete(pool, a)
  BY <1>2, PoolStays
<1>4. Panel \subseteq Anchors /\ SmokeAnchors \subseteq Anchors
  BY PanelAdjudicationAssumption DEF Anchors
<1> QED
  BY <1>1, <1>2, <1>3, <1>4 DEF ArmFits

LEMMA PublishedStays ==
    ASSUME PanelInv, published' \in {published, NoModel},
           published' # NoModel =>
               /\ rep'["PRODUCTION"] = rep["PRODUCTION"]
               /\ table'[published.alias] = table[published.alias]
    PROVE  PublishedFits'
<1> SUFFICES ASSUME published' # NoModel
             PROVE  PublishedFits'
  BY DEF PublishedFits
<1>1. PublishedFits /\ published' = published
  BY DEF PanelInv
<1>2. /\ \A a \in Anchors : Complete("PRODUCTION", a)' <=> Complete("PRODUCTION", a)
      /\ \A a \in Anchors, r \in Reps :
            Stored("PRODUCTION", a, r)' <=> Stored("PRODUCTION", a, r)
  BY OfPools, PoolStays
<1>3. Remainder \subseteq Anchors
  BY DEF Anchors
<1> QED
  BY <1>1, <1>2, <1>3 DEF PublishedFits

\* A step of a task that stores no answer.
LEMMA TaskKeeps ==
    ASSUME PanelInv, PanelTypeOK', NEW a \in Anchors, TaskStep(a), run \in Pools,
           rep' = rep, lock' = lock, published' \in {published, NoModel}, JobFits(a)'
    PROVE  PanelInv'
<1>1. RepsInOrder'
  BY DEF PanelInv, RepsInOrder, Stored, Packets
<1>2. RunFits'
  <2>1. \A b \in Anchors : JobFits(b)'
    <3>1. SUFFICES ASSUME NEW b \in Anchors, b # a
                   PROVE  JobFits(b)'
      OBVIOUS
    <3>2. JobFits(b)
      BY OfPools DEF PanelInv, RunFits
    <3> QED
      BY <3>1, <3>2, JobStays DEF TaskStep, Packets
  <2>2. ASSUME run \in Arms
        PROVE  /\ memory'[run] \in Locked /\ memory'[run].alias = run
               /\ VersionsIn(SmokeOf(run))' = {memory'[run].version}
               /\ \A b \in SmokeAnchors : Complete(SmokeOf(run), b)'
    BY <2>2, OfPools DEF PanelInv, RunFits, TaskStep, VersionsIn, Complete, Stored, SmokeOf
  <2>3. ASSUME run = "PRODUCTION"
        PROVE  selection' \in Locked /\ memory'[run] = selection'
    BY <2>3, OfPools DEF PanelInv, RunFits, TaskStep
  <2> QED
    BY <2>1, <2>2, <2>3, OfPools DEF RunFits, TaskStep
<1>3. TableFits'
  <2>1. \A arm \in Arms : table[arm] # NoVersion => memory[arm] = lock[arm]
    BY OfPools DEF PanelInv, TableFits, ArmFits
  <2> QED
    BY <2>1, ArmStays DEF TaskStep, TableFits
<1>4. SelectionFits'
  BY DEF PanelInv, SelectionFits, TaskStep
<1>5. PublishedFits'
  BY PublishedStays DEF TaskStep
<1> QED
  BY <1>1, <1>2, <1>3, <1>4, <1>5 DEF PanelInv

LEMMA TaskTakenUp ==
    ASSUME PanelInv, NEW a \in Anchors, TakeUp(a)
    PROVE  PanelInv'
<1>1. run \in Pools /\ JobFits(a) /\ job \in [Anchors -> Jobs]
  BY DEF PanelInv, PanelTypeOK, RunFits, TakeUp, Jobs
<1>2. job' = [job EXCEPT ![a] = [at |-> "look", rep |-> 1]]
  BY DEF TakeUp, Task
<1>3. job' \in [Anchors -> Jobs] /\ job'[a] = [at |-> "look", rep |-> 1]
  BY <1>1, <1>2 DEF Jobs
<1>4. TaskStep(a) /\ rep' = rep /\ lock' = lock /\ published' = published
  BY <1>1, <1>2, <1>3 DEF TaskStep, TakeUp, files
<1>5. PanelTypeOK'
  BY <1>3 DEF PanelInv, PanelTypeOK, TakeUp, files, Jobs
<1>6. a \in Packets(run)
  BY <1>1 DEF JobFits, TakeUp, Todo, Done, Task
<1>7. JobFits(a)'
  BY <1>3, <1>4, <1>6 DEF JobFits, Done, Task, TaskStep, Packets, Reps
<1> QED
  BY <1>1, <1>4, <1>5, <1>7, TaskKeeps

LEMMA TaskReused ==
    ASSUME PanelInv, NEW a \in Anchors, Reuse(a)
    PROVE  PanelInv'
<1>r. PICK r \in Nat : r = job[a].rep
  BY DEF PanelInv, PanelTypeOK
<1>0. run # Idle
  <2>1. job # Nothing
    BY DEF Nothing, Reuse, Done, Task
  <2> QED
    BY <2>1 DEF PanelInv, RunFits
<1>1. run \in Pools /\ JobFits(a) /\ job \in [Anchors -> Jobs]
  BY <1>0 DEF PanelInv, PanelTypeOK, RunFits, Jobs
<1>2. /\ r \in Reps /\ Stored(run, a, r)
      /\ \A s \in Reps : s < r => Stored(run, a, s) /\ rep[run][a][s].more /\ Fits(a, s)
  BY <1>r, <1>1 DEF JobFits, Reuse
<1>3. a \in Packets(run) /\ rep[run][a][r].by \in Locked
  BY <1>1, <1>2 DEF PanelInv, RepsInOrder
<1>4. PICK t \in {After(r, rep[run][a][r].more), Raised} :
          /\ job' = [job EXCEPT ![a] = t]
          /\ ResumeFits(a, r) => t = After(r, rep[run][a][r].more)
          /\ ~ResumeFits(a, r) => t = Raised
  BY <1>r DEF Reuse
<1>5. t \in Jobs
  BY <1>1 DEF After, Task, Done, Raised, Jobs
<1>6. job' \in [Anchors -> Jobs] /\ job'[a] = t
  BY <1>1, <1>4, <1>5
<1>7. TaskStep(a) /\ rep' = rep /\ lock' = lock /\ published' = published
  BY <1>1, <1>4, <1>6 DEF TaskStep, Reuse, files
<1>8. PanelTypeOK'
  BY <1>6 DEF PanelInv, PanelTypeOK, Reuse, files, Jobs
<1>9. JobFits(a)'
  <2>1. CASE ResumeFits(a, r)
    <3>1. Fits(a, r)
      <4>1. SUFFICES ASSUME run \notin Smokes
                     PROVE  rep[run][a][r].by = memory[run]
        BY DEF Fits
      <4>2. memory[run] \in Locked /\ memory[run].alias = Alias(run)
        BY <1>1, <4>1, OfPools DEF PanelInv, RunFits
      <4> QED
        BY <1>3, <2>1, <4>2, OfLocked DEF ResumeFits
    <3>2. RepsInOrder'
      BY <1>7 DEF PanelInv, RepsInOrder, Stored, Packets
    <3>3. /\ (a \in Packets(run))' /\ (run \in Pools)' /\ Stored(run, a, r)' /\ Fits(a, r)'
          /\ \A s \in Reps : s < r =>
               Stored(run, a, s)' /\ rep'[run'][a][s].more /\ Fits(a, s)'
      BY <1>1, <1>2, <1>3, <3>1 DEF Reuse, files, Stored, Fits, Packets
    <3>4. job'[a] = After(r, rep'[run'][a][r].more)
      BY <1>4, <1>6, <1>7, <2>1 DEF TaskStep
    <3> QED
      BY <1>2, <3>2, <3>3, <3>4, JobFollows
  <2>2. CASE ~ResumeFits(a, r)
    <3>1. job'[a].at = "raised" /\ job'[a] # Done
      BY <1>4, <1>6, <2>2 DEF Raised, Done, Task
    <3>2. a \in Packets(run)'
      BY <1>3, <1>7 DEF TaskStep, Packets
    <3> QED
      BY <3>1, <3>2 DEF JobFits
  <2> QED
    BY <2>1, <2>2
<1> QED
  BY <1>1, <1>7, <1>8, <1>9, TaskKeeps

LEMMA TaskAsks ==
    ASSUME PanelInv, NEW a \in Anchors, Ask(a)
    PROVE  PanelInv'
<1>0. run # Idle
  <2>1. job # Nothing
    BY DEF Nothing, Ask, Done, Task
  <2> QED
    BY <2>1 DEF PanelInv, RunFits
<1>1. run \in Pools /\ JobFits(a) /\ job \in [Anchors -> Jobs]
  BY <1>0 DEF PanelInv, PanelTypeOK, RunFits, Jobs
<1>2. job' = [job EXCEPT ![a].at = "call"]
  BY DEF Ask
<1>3. job' \in [Anchors -> Jobs] /\ job'[a] = [at |-> "call", rep |-> job[a].rep]
  BY <1>1, <1>2 DEF Jobs
<1>4. TaskStep(a) /\ rep' = rep /\ lock' = lock /\ published' = published
  BY <1>1, <1>2, <1>3 DEF TaskStep, Ask, files
<1>5. PanelTypeOK'
  BY <1>3 DEF PanelInv, PanelTypeOK, Ask, files, Jobs
<1>6. a \in Packets(run)
  BY <1>1 DEF JobFits, Ask, Done, Task
<1>7. JobFits(a)'
  BY <1>1, <1>3, <1>6 DEF JobFits, Ask, files, Done, Task, Packets, Stored, Fits
<1> QED
  BY <1>1, <1>4, <1>5, <1>7, TaskKeeps

LEMMA TaskFails ==
    ASSUME PanelInv, NEW a \in Anchors, NEW version \in Versions \cup {NoVersion},
           Fail(a, version)
    PROVE  PanelInv'
<1>1. run \in Pools /\ a \in Packets(run) /\ job[a].rep \in Reps
  BY AskedIsOpen DEF Fail
<1>2. JobFits(a) /\ job \in [Anchors -> Jobs] /\ memory \in [Pools -> Locked \cup {NoModel}]
  BY <1>1, OfPools DEF PanelInv, PanelTypeOK, RunFits, Jobs
<1>3. PICK t \in {job[a], Raised} : job' = [job EXCEPT ![a] = t]
  BY DEF Fail
<1>4. job' \in [Anchors -> Jobs] /\ job'[a] = t
  BY <1>2, <1>3 DEF Raised, Task, Jobs
<1>5. /\ memory' \in [Pools -> Locked \cup {NoModel}]
      /\ run \notin Smokes => memory' = memory
      /\ \A arm \in Arms : memory'[arm] = memory[arm]
  <2>1. CASE version = NoVersion
    BY <1>2, <2>1 DEF Fail
  <2>2. CASE version # NoVersion
    <3>1. memory' = [memory EXCEPT ![run] = Admitted(version)]
      BY <2>2 DEF Fail, Admitted
    <3> QED
      BY <2>2, <3>1, AdmittedFits DEF Fail
  <2> QED
    BY <2>1, <2>2
<1>6. TaskStep(a) /\ rep' = rep /\ lock' = lock /\ published' = published
  BY <1>2, <1>3, <1>4, <1>5 DEF TaskStep, Fail, files
<1>7. PanelTypeOK'
  BY <1>4, <1>5 DEF PanelInv, PanelTypeOK, Fail, files, Jobs
<1>8. JobFits(a)'
  <2>1. CASE t = job[a]
    BY <1>1, <1>2, <1>4, <1>5, <1>6, <2>1, JobStays DEF TaskStep, Packets
  <2>2. CASE t = Raised
    <3>1. job'[a].at = "raised" /\ job'[a] # Done
      BY <1>4, <2>2 DEF Raised, Done, Task
    <3>2. a \in Packets(run)'
      BY <1>1, <1>6 DEF TaskStep, Packets
    <3> QED
      BY <3>1, <3>2 DEF JobFits
  <2> QED
    BY <2>1, <2>2
<1> QED
  BY <1>1, <1>6, <1>7, <1>8, TaskKeeps

LEMMA TaskDrifts ==
    ASSUME PanelInv, NEW a \in Anchors, NEW version \in Versions \cup {NoVersion},
           Drift(a, version)
    PROVE  PanelInv'
<1>1. run \in Pools /\ a \in Packets(run)
  BY AskedIsOpen DEF Drift
<1>2. job \in [Anchors -> Jobs]
  BY DEF PanelInv, PanelTypeOK, Jobs
<1>3. job' = [job EXCEPT ![a] = Raised]
  BY DEF Drift
<1>4. job' \in [Anchors -> Jobs] /\ job'[a] = Raised
  BY <1>2, <1>3 DEF Raised, Task, Jobs
<1>5. TaskStep(a) /\ rep' = rep /\ lock' = lock
  BY <1>2, <1>3, <1>4 DEF TaskStep, Drift
<1>6. published' \in {published, NoModel}
  BY DEF Drift
<1>7. PanelTypeOK'
  BY <1>4, <1>6 DEF PanelInv, PanelTypeOK, Drift, Jobs
<1>8. JobFits(a)'
  <2>1. job'[a].at = "raised" /\ job'[a] # Done
    BY <1>4 DEF Raised, Done, Task
  <2>2. a \in Packets(run)'
    BY <1>1, <1>5 DEF TaskStep, Packets
  <2> QED
    BY <2>1, <2>2 DEF JobFits
<1> QED
  BY <1>1, <1>5, <1>6, <1>7, <1>8, TaskKeeps

LEMMA TaskAnswered ==
    ASSUME PanelInv, NEW a \in Anchors, NEW version \in Versions \cup {NoVersion},
           NEW more \in BOOLEAN, Answer(a, version, more)
    PROVE  PanelInv'
<1>r. PICK r \in Reps : r = job[a].rep
  BY AskedIsOpen DEF Answer
<1>0. Reps = {1, 2, 3} /\ run' = run /\ more \in More(r)
  BY <1>r DEF Reps, Answer
<1>1. /\ run \in Pools /\ a \in Packets(run) /\ ~Stored(run, a, r)
      /\ \A s \in Reps : s < r =>
            Stored(run, a, s) /\ rep[run][a][s].more /\ Fits(a, s)
  BY <1>r, AskedIsOpen DEF Answer
<1>2. /\ job \in [Anchors -> Jobs]
      /\ rep \in [Pools -> [Anchors -> [Reps -> Replies]]]
      /\ lock \in [Pools -> Locked \cup {NoModel}]
      /\ memory \in [Pools -> Locked \cup {NoModel}]
  BY DEF PanelInv, PanelTypeOK, Jobs, Replies
<1>3. memory' = [memory EXCEPT ![run] = Admitted(version)]
  BY DEF Answer, Admitted
<1>4. /\ memory' \in [Pools -> Locked \cup {NoModel}]
      /\ Admitted(version) \in Locked /\ memory'[run] = Admitted(version)
      /\ run \notin Smokes => memory' = memory /\ memory[run] = Admitted(version)
      /\ \A arm \in Arms : memory'[arm] = memory[arm]
  BY <1>3, AdmittedFits DEF Answer
<1>5. job' = [job EXCEPT ![a] = After(r, more)] /\ After(r, more) \in Jobs
  BY <1>r, <1>0 DEF Answer, After, Task, Done, Jobs
<1>6. job' \in [Anchors -> Jobs] /\ job'[a] = After(r, more)
  BY <1>2, <1>5
<1>7. rep' = [rep EXCEPT ![run][a][r] = [by |-> Admitted(version), more |-> more]]
  BY <1>r DEF Answer, Admitted
<1>8. /\ rep' \in [Pools -> [Anchors -> [Reps -> Replies]]]
      /\ rep'[run][a][r] = [by |-> Admitted(version), more |-> more]
      /\ \A pool \in Pools, b \in Anchors, s \in Reps :
            ~(pool = run /\ b = a /\ s = r) => rep'[pool][b][s] = rep[pool][b][s]
      /\ \A pool \in Pools \ {run} : rep'[pool] = rep[pool]
      /\ \A b \in Anchors \ {a} : rep'[run][b] = rep[run][b]
  <2>1. [by |-> Admitted(version), more |-> more] \in Replies
    BY <1>4 DEF Replies
  <2> QED
    BY <1>1, <1>2, <1>7, <2>1
<1>9. lock' = IF run = "PRODUCTION" THEN memory ELSE lock
  BY <1>4, OfPools DEF Answer
<1>10. PanelTypeOK'
  <2>1. lock' \in [Pools -> Locked \cup {NoModel}]
    BY <1>2, <1>9
  <2> QED
    BY <1>4, <1>6, <1>8, <2>1 DEF PanelInv, PanelTypeOK, Answer, Jobs, Replies
<1>11. /\ Stored(run, a, r)'
       /\ \A pool \in Pools, b \in Anchors, s \in Reps :
            ~(pool = run /\ b = a /\ s = r) => (Stored(pool, b, s)' <=> Stored(pool, b, s))
  <2>1. Admitted(version) # NoModel
    BY <1>4, OfLocked
  <2> QED
    BY <1>0, <1>8, <2>1 DEF Stored, Unasked
<1>12. \A s \in Reps : s < r =>
            Stored(run, a, s)' /\ rep'[run][a][s].more /\ Fits(a, s)'
  BY <1>0, <1>1, <1>4, <1>8, <1>11 DEF Fits
<1>13. RepsInOrder'
  <2>1. SUFFICES ASSUME NEW pool \in Pools, NEW b \in Anchors, NEW s \in Reps,
                        Stored(pool, b, s)'
                 PROVE  /\ b \in Packets(pool)' /\ rep'[pool][b][s].by \in Locked
                        /\ s > 1 => Stored(pool, b, s - 1)' /\ rep'[pool][b][s - 1].more
                        /\ s = 3 => ~rep'[pool][b][s].more
    BY DEF RepsInOrder
  <2>2. Packets(pool)' = Packets(pool)
    BY DEF Packets
  <2>3. CASE pool = run /\ b = a /\ s = r
    <3>1. s > 1 => s - 1 \in Reps /\ s - 1 < r
      BY <1>0, <2>3
    <3>2. s = 3 => ~rep'[pool][b][s].more
      BY <1>0, <1>8, <2>3 DEF More
    <3>3. b \in Packets(pool) /\ rep'[pool][b][s].by \in Locked
      BY <1>1, <1>4, <1>8, <2>3
    <3>4. s > 1 => Stored(pool, b, s - 1)' /\ rep'[pool][b][s - 1].more
      BY <1>0, <1>12, <2>3, <3>1 DEF Stored
    <3> QED
      BY <2>2, <3>2, <3>3, <3>4
  <2>4. CASE ~(pool = run /\ b = a /\ s = r)
    <3>1. Stored(pool, b, s) /\ rep'[pool][b][s] = rep[pool][b][s]
      BY <1>8, <1>11, <2>1, <2>4
    <3>2. /\ b \in Packets(pool) /\ rep[pool][b][s].by \in Locked
          /\ s > 1 => Stored(pool, b, s - 1) /\ rep[pool][b][s - 1].more
          /\ s = 3 => ~rep[pool][b][s].more
      BY <3>1 DEF PanelInv, RepsInOrder
    <3>3. s > 1 => s - 1 \in Reps
      BY <1>0
    <3>4. s > 1 => ~(pool = run /\ b = a /\ s - 1 = r)
      BY <1>1, <3>2
    <3> QED
      BY <1>8, <1>11, <2>2, <3>1, <3>2, <3>3, <3>4
  <2> QED
    BY <2>3, <2>4
<1>14. RunFits'
  <2>1. \A b \in Anchors : JobFits(b)'
    <3>1. JobFits(a)'
      <4>1. (a \in Packets(run))' /\ (run \in Pools)' /\ Fits(a, r)'
        BY <1>0, <1>1, <1>4, <1>8 DEF Packets, Fits
      <4>2. job'[a] = After(r, rep'[run'][a][r].more)
        BY <1>0, <1>6, <1>8
      <4>3. \A s \in Reps : s < r =>
                Stored(run, a, s)' /\ rep'[run'][a][s].more /\ Fits(a, s)'
        BY <1>0, <1>12
      <4> QED
        BY <1>11, <1>13, <4>1, <4>2, <4>3, JobFollows
    <3>2. ASSUME NEW b \in Anchors \ {a}
          PROVE  JobFits(b)'
      <4>1. JobFits(b)
        BY <1>1, OfPools DEF PanelInv, RunFits
      <4>2. job'[b] = job[b]
        BY <1>2, <1>5
      <4>3. Packets(run)' = Packets(run)
        BY <1>0 DEF Packets
      <4> QED
        BY <1>0, <1>1, <1>4, <1>8, <4>1, <4>2, <4>3, JobStays
    <3> QED
      BY <3>1, <3>2
  <2>2. ASSUME run \in Arms
        PROVE  /\ memory'[run] \in Locked /\ memory'[run].alias = run
               /\ VersionsIn(SmokeOf(run))' = {memory'[run].version}
               /\ \A b \in SmokeAnchors : Complete(SmokeOf(run), b)'
    <3>1. SmokeOf(run)' = SmokeOf(run) /\ SmokeOf(run) \in Pools \ {run}
      BY <1>0, <2>2, OfPools DEF SmokeOf
    <3>2. rep'[SmokeOf(run)] = rep[SmokeOf(run)]
      BY <1>8, <3>1
    <3>3. SmokeAnchors \subseteq Anchors
      BY PanelAdjudicationAssumption DEF Anchors
    <3> QED
      BY <1>4, <2>2, <3>1, <3>2, <3>3, OfPools, PoolStays DEF PanelInv, RunFits
  <2>3. ASSUME run = "PRODUCTION"
        PROVE  selection' \in Locked /\ memory'[run] = selection'
    BY <1>4, <2>3, OfPools DEF PanelInv, RunFits, Answer
  <2>4. SmokeOf(run)' = SmokeOf(run)
    BY <1>0 DEF SmokeOf
  <2> QED
    BY <1>0, <1>1, <2>1, <2>2, <2>3, <2>4, OfPools DEF RunFits
<1>15. TableFits'
  <2>1. SUFFICES ASSUME NEW arm \in Arms
                 PROVE  ArmFits(arm)'
    BY DEF TableFits
  <2>2. table' = table
    BY DEF Answer
  <2>3. ASSUME table[arm] # NoVersion
        PROVE  /\ rep'[arm] = rep[arm] /\ rep'[SmokeOf(arm)] = rep[SmokeOf(arm)]
               /\ lock'[arm] = lock[arm] /\ memory'[arm] = lock[arm]
    <3>1. run \notin {arm, SmokeOf(arm)}
      BY <2>3, AskedIsNotDone DEF Answer
    <3>2. memory[arm] = lock[arm]
      BY <1>1, <2>3, OfPools DEF PanelInv, TableFits, ArmFits
    <3> QED
      BY <1>4, <1>8, <1>9, <3>1, <3>2, OfPools
  <2> QED
    BY <2>2, <2>3, ArmStays
<1>16. SelectionFits'
  BY DEF PanelInv, SelectionFits, Answer
<1>17. PublishedFits'
  <2>1. ASSUME published # NoModel
        PROVE  rep'["PRODUCTION"] = rep["PRODUCTION"]
    <3>1. run # "PRODUCTION"
      BY <2>1, AskedIsNotDone DEF Answer
    <3> QED
      BY <1>8, <3>1, OfPools
  <2> QED
    BY <2>1, PublishedStays DEF Answer
<1> QED
  BY <1>10, <1>13, <1>14, <1>15, <1>16, <1>17 DEF PanelInv

-----------------------------------------------------------------------------
(* The steps of a pool.                                                    *)

\* A run that ends, whatever it leaves in the files.
LEMMA RunEnds ==
    ASSUME Quit
    PROVE  RunFits'
  BY DEF Quit, RunFits, Idle, Arms

\* A step that touches no rep and no table.
LEMMA FilesStay ==
    ASSUME PanelInv, PanelTypeOK', RunFits', rep' = rep, table' = table,
           selection' = selection, published' = published,
           \A arm \in Arms : lock'[arm] = lock[arm] /\ (run' # Idle => memory'[arm] = lock[arm])
    PROVE  PanelInv'
<1>1. RepsInOrder'
  BY DEF PanelInv, RepsInOrder, Stored, Packets
<1>2. TableFits'
  BY ArmStays DEF TableFits
<1>3. SelectionFits'
  BY DEF PanelInv, SelectionFits
<1>4. PublishedFits'
  BY PublishedStays
<1> QED
  BY <1>1, <1>2, <1>3, <1>4 DEF PanelInv

LEMMA QueueIsTyped == \A pool \in Pools : Queue(pool) \in [Anchors -> Jobs]
  BY DEF Queue, Todo, Done, Task, Jobs

LEMMA QuitIsTyped ==
    ASSUME Quit
    PROVE  /\ run' \in Pools \cup {Idle} /\ job' \in [Anchors -> Jobs]
           /\ memory' \in [Pools -> Locked \cup {NoModel}]
  BY DEF Quit, Nothing, Done, Task, Jobs

LEMMA PanelStarts ==
    ASSUME PanelInv, StartPanel
    PROVE  PanelInv'
<1>1. "A_SMOKE" \in Smokes /\ "A_SMOKE" \in Pools
  BY OfPools DEF Smokes
<1>2. PanelTypeOK'
  BY <1>1, QueueIsTyped DEF PanelInv, PanelTypeOK, StartPanel, files, Jobs
<1>3. RunFits'
  <2>1. \A a \in Anchors : JobFits(a)'
    BY <1>1, QueueFits DEF PanelInv, StartPanel, files
  <2> QED
    BY <2>1 DEF StartPanel, RunFits, Idle, Arms
<1> QED
  BY <1>2, <1>3, FilesStay DEF StartPanel, files

LEMMA ProductionStarts ==
    ASSUME PanelInv, StartProduction
    PROVE  PanelInv'
<1>1. PanelTypeOK'
  BY OfPools, QueueIsTyped DEF PanelInv, PanelTypeOK, StartProduction, files, Jobs
<1>2. RunFits'
  <2>1. \A a \in Anchors : JobFits(a)'
    BY OfPools, QueueFits DEF PanelInv, StartProduction, files
  <2> QED
    BY <2>1 DEF StartProduction, RunFits, Idle, Arms, files
<1> QED
  BY <1>1, <1>2, FilesStay DEF StartProduction, files

LEMMA RunAborts ==
    ASSUME PanelInv, Quit, UNCHANGED files, mishaps' \in 0..MaxMishaps
    PROVE  PanelInv'
<1>1. PanelTypeOK'
  BY QuitIsTyped DEF PanelInv, PanelTypeOK, files, Jobs
<1> QED
  BY <1>1, RunEnds, FilesStay DEF files, Quit

\* A pool that ended well has all its packets answered.
LEMMA PoolEnds ==
    ASSUME PanelInv, AllDone
    PROVE  /\ run \in Pools /\ \A a \in Packets(run) : Complete(run, a)
           /\ run \notin Smokes => \A a \in Anchors, r \in Reps :
                 Stored(run, a, r) => rep[run][a][r].by = memory[run]
<1>1. run \in Pools /\ \A a \in Anchors : JobFits(a) /\ job[a] = Done
  BY DEF PanelInv, PanelTypeOK, RunFits, AllDone, Ended
<1>2. \A a \in Packets(run) : Complete(run, a)
  BY <1>1, OfPools DEF JobFits
<1>3. \A a \in Anchors, r \in Reps : Stored(run, a, r) => Fits(a, r)
  BY <1>1 DEF JobFits
<1> QED
  BY <1>1, <1>2, <1>3 DEF Fits

LEMMA SmokeEnds ==
    ASSUME PanelInv, NEW arm \in Arms, SmokePasses(arm)
    PROVE  PanelInv'
<1>1. /\ arm \in Pools /\ arm \notin Smokes /\ run = SmokeOf(arm) /\ run \in Pools
      /\ \A a \in SmokeAnchors : Complete(SmokeOf(arm), a)
  BY PoolEnds, OfPools DEF SmokePasses
<1>2. PICK version \in VersionsIn(run) :
          memory' = [memory EXCEPT ![arm] = [alias |-> arm, version |-> version]]
  BY DEF SmokePasses
<1>3. VersionsIn(SmokeOf(arm)) = {version}
  <2>1. IsFiniteSet(VersionsIn(run)) /\ Cardinality(VersionsIn(run)) = 1
    BY <1>1, VersionsFinite DEF SmokePasses, OneSmokeVersion
  <2>2. PICK x : VersionsIn(run) = {x}
    BY <2>1, FS_Singleton
  <2> QED
    BY <1>1, <1>2, <2>2
<1>4. version \in Versions /\ version # NoVersion
  BY <1>1, <1>2, OfVersions DEF PanelInv
<1>5. [alias |-> arm, version |-> version] \in Locked
  BY <1>4 DEF Locked
<1>6. memory \in [Pools -> Locked \cup {NoModel}]
  BY DEF PanelInv, PanelTypeOK
<1>7. /\ memory' \in [Pools -> Locked \cup {NoModel}]
      /\ memory'[arm] = [alias |-> arm, version |-> version]
      /\ \A other \in Arms : other # arm => memory'[other] = memory[other]
  BY <1>1, <1>2, <1>5, <1>6, OfPools
<1>8. /\ lock' = memory' /\ run' = arm /\ job' = Queue(arm)
      /\ UNCHANGED <<rep, table, human, selection, published, mishaps>>
  BY DEF SmokePasses
<1>9. PanelTypeOK'
  BY <1>1, <1>7, <1>8, QueueIsTyped DEF PanelInv, PanelTypeOK, Jobs
<1>10. RunFits'
  <2>1. \A a \in Anchors : JobFits(a)'
    BY <1>1, <1>8, QueueFits DEF PanelInv
  <2>2. SmokeOf(run)' = SmokeOf(arm) /\ SmokeOf(arm) \in Pools
    BY <1>8, OfPools DEF SmokeOf
  <2>3. VersionsIn(SmokeOf(run))' = {memory'[run'].version}
    BY <1>3, <1>7, <1>8, <2>2 DEF VersionsIn
  <2>4. \A a \in SmokeAnchors : Complete(SmokeOf(run), a)'
    BY <1>1, <1>8, <2>2 DEF Complete, Stored
  <2>5. memory'[run'] \in Locked /\ memory'[run'].alias = run'
    BY <1>5, <1>7, <1>8
  <2> QED
    BY <1>1, <1>8, <2>1, <2>3, <2>4, <2>5, OfPools DEF RunFits
<1>11. \A other \in Arms : table[other] # NoVersion => memory'[other] = lock[other]
  <2>1. SUFFICES ASSUME NEW other \in Arms, table[other] # NoVersion
                 PROVE  memory'[other] = lock[other]
    OBVIOUS
  <2>2. ArmFits(other)
    BY DEF PanelInv, TableFits
  <2>3. memory[other] = lock[other] /\ lock[other] = [alias |-> other, version |-> table[other]]
    BY <1>1, <2>1, <2>2, OfPools DEF ArmFits
  <2>4. CASE other = arm
    BY <1>3, <1>7, <2>1, <2>2, <2>3, <2>4 DEF ArmFits
  <2>5. CASE other # arm
    BY <1>7, <2>3, <2>5
  <2> QED
    BY <2>4, <2>5
<1>12. RepsInOrder'
  BY <1>8 DEF PanelInv, RepsInOrder, Stored, Packets
<1>13. TableFits'
  BY <1>8, <1>11, ArmStays DEF TableFits
<1>14. SelectionFits'
  BY <1>8 DEF PanelInv, SelectionFits
<1>15. PublishedFits'
  BY <1>8, PublishedStays
<1> QED
  BY <1>9, <1>10, <1>12, <1>13, <1>14, <1>15 DEF PanelInv

LEMMA ArmEnds ==
    ASSUME PanelInv, NEW arm \in Arms, ArmDone(arm)
    PROVE  PanelInv'
<1> DEFINE version == memory[arm].version
<1>1. /\ arm \in Pools /\ SmokeOf(arm) \in Pools /\ run = arm /\ arm \notin Smokes
      /\ \A a \in Panel : Complete(arm, a)
      /\ \A a \in Anchors, r \in Reps : Stored(arm, a, r) => rep[arm][a][r].by = memory[arm]
  BY PoolEnds, OfPools DEF ArmDone
<1>2. /\ memory[arm] \in Locked /\ memory[arm].alias = arm
      /\ VersionsIn(SmokeOf(arm)) = {version}
      /\ \A a \in SmokeAnchors : Complete(SmokeOf(arm), a)
  BY <1>1, OfPools DEF PanelInv, RunFits
<1>3. version \in Versions /\ version # NoVersion
      /\ memory[arm] = [alias |-> arm, version |-> version]
  BY <1>2, OfLocked
<1>4. VersionsIn(arm) = {version}
  <2>1. \A v \in VersionsIn(arm) : v = version
    BY <1>1, OfVersions DEF PanelInv
  <2>2. version \in VersionsIn(arm)
    <3>1. PICK a \in Anchors, r \in Reps : Stored(SmokeOf(arm), a, r)
      BY <1>1, <1>2, OfVersions DEF PanelInv
    <3>2. a \in Panel
      BY <1>1, <3>1, OfPools, PanelAdjudicationAssumption DEF PanelInv, RepsInOrder
    <3>3. Stored(arm, a, 1) /\ 1 \in Reps
      BY <1>1, <3>2 DEF Complete, Reps
    <3> QED
      BY <1>1, <3>3, OfVersions DEF PanelInv
  <2> QED
    BY <2>1, <2>2
<1>5. /\ table' = [table EXCEPT ![arm] = version] /\ lock' = memory
      /\ UNCHANGED <<rep, human, selection, published, mishaps>>
  BY DEF ArmDone
<1>6. /\ table \in [Arms -> Versions \cup {NoVersion}]
      /\ memory \in [Pools -> Locked \cup {NoModel}]
  BY DEF PanelInv, PanelTypeOK
<1>7. /\ table' \in [Arms -> Versions \cup {NoVersion}] /\ table'[arm] = version
      /\ \A other \in Arms : other # arm => table'[other] = table[other]
  BY <1>3, <1>5, <1>6
<1>8. (run' = "B_SMOKE" /\ job' = Queue("B_SMOKE") /\ memory' = memory) \/ Quit
  BY DEF ArmDone
<1>9. "B_SMOKE" \in Pools /\ "B_SMOKE" \in Smokes
  BY OfPools DEF Smokes
<1>10. PanelTypeOK'
  <2>1. /\ run' \in Pools \cup {Idle} /\ job' \in [Anchors -> Jobs]
        /\ memory' \in [Pools -> Locked \cup {NoModel}]
    BY <1>6, <1>8, <1>9, QueueIsTyped, QuitIsTyped
  <2> QED
    BY <1>5, <1>6, <1>7, <2>1 DEF PanelInv, PanelTypeOK, Jobs
<1>11. RunFits'
  <2>1. CASE run' = "B_SMOKE" /\ job' = Queue("B_SMOKE") /\ memory' = memory
    <3>1. \A a \in Anchors : JobFits(a)'
      BY <1>5, <1>9, <2>1, QueueFits DEF PanelInv
    <3> QED
      BY <2>1, <3>1 DEF RunFits, Idle, Arms
  <2> QED
    BY <1>8, <2>1, RunEnds
<1>12. RepsInOrder'
  BY <1>5 DEF PanelInv, RepsInOrder, Stored, Packets
<1>13. TableFits'
  <2>1. SUFFICES ASSUME NEW other \in Arms
                 PROVE  ArmFits(other)'
    BY DEF TableFits
  <2>2. run' # Idle => memory' = memory
    BY <1>8 DEF Quit
  <2>3. CASE other = arm
    <3>1. SmokeOf(arm)' = SmokeOf(arm)
      BY DEF SmokeOf
    <3>2. \A pool \in {arm, SmokeOf(arm)} :
              /\ VersionsIn(pool)' = VersionsIn(pool)
              /\ \A a \in Anchors : Complete(pool, a)' <=> Complete(pool, a)
      BY <1>1, <1>5, PoolStays
    <3>3. Panel \subseteq Anchors /\ SmokeAnchors \subseteq Anchors
      BY PanelAdjudicationAssumption DEF Anchors
    <3>4. table'[arm] = version /\ lock'[arm] = memory[arm]
      BY <1>5, <1>7
    <3> HIDE DEF version
    <3> QED
      BY <1>1, <1>2, <1>3, <1>4, <2>2, <2>3, <3>1, <3>2, <3>3, <3>4 DEF ArmFits
  <2>4. CASE other # arm
    <3>1. table[other] # NoVersion => memory[other] = lock[other]
      BY <1>1, OfPools DEF PanelInv, TableFits, ArmFits
    <3> QED
      BY <1>5, <1>7, <2>2, <2>4, <3>1, ArmStays
  <2> QED
    BY <2>3, <2>4
\* The tables that stood are as they were.
<1>14. \A other \in Arms : table[other] # NoVersion => table'[other] = table[other]
  <2>1. table[arm] # NoVersion => memory[arm] = [alias |-> arm, version |-> table[arm]]
    BY <1>1, OfPools DEF PanelInv, TableFits, ArmFits
  <2> QED
    BY <1>3, <1>7, <2>1
<1>15. SelectionFits'
  <2>1. selection # NoModel =>
            table[selection.alias] # NoVersion /\ selection.alias \in Arms
    BY OfLocked DEF PanelInv, PanelTypeOK, SelectionFits
  <2> QED
    BY <1>5, <1>14, <2>1 DEF PanelInv, SelectionFits
<1>16. PublishedFits'
  <2>1. published # NoModel =>
            table[published.alias] # NoVersion /\ published.alias \in Arms
    BY OfLocked DEF PanelInv, PublishedFits
  <2> QED
    BY <1>5, <1>14, <2>1, PublishedStays
<1> QED
  BY <1>10, <1>11, <1>12, <1>13, <1>15, <1>16 DEF PanelInv

LEMMA Selected ==
    ASSUME PanelInv, Select
    PROVE  PanelInv'
<1>1. /\ run = Idle /\ UNCHANGED <<rep, table, human, published, process, mishaps>>
      /\ human \in Arms \cup {"neither"} /\ \A arm \in Arms : table[arm] # NoVersion
  BY DEF Select, PanelInv, PanelTypeOK
<1>2. /\ selection' \in Locked \cup {NoModel} /\ lock' \in [Pools -> Locked \cup {NoModel}]
      /\ \A arm \in Arms : lock'[arm] = lock[arm]
      /\ selection' # NoModel => table[selection'.alias] = selection'.version
  <2>1. CASE human = "neither"
    BY <2>1 DEF Select, PanelInv, PanelTypeOK
  <2>2. CASE human # "neither"
    <3>1. human \in Arms /\ lock[human] = [alias |-> human, version |-> table[human]]
      BY <1>1, <2>2 DEF PanelInv, TableFits, ArmFits
    <3>2. /\ selection' = [alias |-> human, version |-> lock[human].version]
          /\ lock' = [lock EXCEPT !["PRODUCTION"] = selection']
      BY <2>2 DEF Select
    <3>3. table[human] \in Versions /\ lock \in [Pools -> Locked \cup {NoModel}]
      BY <1>1, <3>1 DEF PanelInv, PanelTypeOK
    <3>4. selection' = [alias |-> human, version |-> table[human]] /\ selection' \in Locked
      BY <3>1, <3>2, <3>3 DEF Locked
    <3> QED
      BY <3>2, <3>3, <3>4, OfPools
  <2> QED
    BY <2>1, <2>2
<1>3. PanelTypeOK'
  BY <1>1, <1>2 DEF PanelInv, PanelTypeOK, process
<1>4. RepsInOrder'
  BY <1>1 DEF PanelInv, RepsInOrder, Stored, Packets
<1>5. RunFits'
  BY <1>1 DEF PanelInv, RunFits, process, Idle, Arms
<1>6. TableFits'
  BY <1>1, <1>2, ArmStays DEF TableFits, process
<1>7. SelectionFits'
  BY <1>1, <1>2 DEF SelectionFits
<1>8. PublishedFits'
  BY <1>1, PublishedStays
<1> QED
  BY <1>3, <1>4, <1>5, <1>6, <1>7, <1>8 DEF PanelInv

LEMMA ProductionEnds ==
    ASSUME PanelInv, Publish
    PROVE  PanelInv'
<1>1. /\ run = "PRODUCTION" /\ \A a \in Remainder : Complete("PRODUCTION", a)
      /\ \A a \in Anchors, r \in Reps :
            Stored("PRODUCTION", a, r) => rep["PRODUCTION"][a][r].by = memory["PRODUCTION"]
  BY PoolEnds, OfPools DEF Publish
<1>2. selection \in Locked /\ memory["PRODUCTION"] = selection
  BY <1>1 DEF PanelInv, RunFits
<1>3. /\ published' = selection /\ lock' = memory /\ Quit
      /\ UNCHANGED <<rep, table, human, selection, mishaps>>
  BY DEF Publish
<1>4. PanelTypeOK'
  BY <1>2, <1>3, QuitIsTyped DEF PanelInv, PanelTypeOK, Jobs
<1>5. RepsInOrder'
  BY <1>3 DEF PanelInv, RepsInOrder, Stored, Packets
<1>6. TableFits'
  <2>1. \A arm \in Arms : table[arm] # NoVersion => memory[arm] = lock[arm]
    BY <1>1, OfPools DEF PanelInv, TableFits, ArmFits
  <2>2. run' = Idle
    BY <1>3 DEF Quit
  <2> QED
    BY <1>3, <2>1, <2>2, ArmStays DEF TableFits
<1>7. SelectionFits'
  BY <1>3 DEF PanelInv, SelectionFits
<1>8. PublishedFits'
  <2>1. selection # NoModel /\ table[selection.alias] = selection.version
    BY <1>2, OfLocked DEF PanelInv, SelectionFits
  <2>2. /\ \A a \in Remainder : Complete("PRODUCTION", a)'
        /\ \A a \in Remainder, r \in Reps :
              Stored("PRODUCTION", a, r)' => rep'["PRODUCTION"][a][r].by = published'
    BY <1>1, <1>2, <1>3 DEF Complete, Stored, Anchors
  <2> QED
    BY <1>2, <1>3, <2>1, <2>2 DEF PublishedFits
<1> QED
  BY <1>3, <1>4, <1>5, <1>6, <1>7, <1>8, RunEnds DEF PanelInv

LEMMA HumanLocked ==
    ASSUME PanelInv, NEW winner \in Arms \cup {"neither"}, LockHuman(winner)
    PROVE  PanelInv'
<1>1. mishaps' \in 0..MaxMishaps
  BY PanelAdjudicationAssumption DEF LockHuman, PanelInv, PanelTypeOK
<1>2. PanelTypeOK'
  BY <1>1 DEF LockHuman, PanelInv, PanelTypeOK, process
<1>3. RunFits'
  BY DEF LockHuman, PanelInv, RunFits, process, Idle, Arms
<1> QED
  BY <1>2, <1>3, FilesStay DEF LockHuman, process

-----------------------------------------------------------------------------
LEMMA PanelBegins == PanelInit => PanelInv
<1> SUFFICES ASSUME PanelInit
             PROVE  PanelInv
  OBVIOUS
<1>1. PanelTypeOK
  BY PanelAdjudicationAssumption
     DEF PanelInit, PanelTypeOK, Nothing, Done, Task
<1>2. RepsInOrder
  BY DEF PanelInit, RepsInOrder, Stored
<1>3. RunFits
  BY DEF PanelInit, RunFits, Idle, Arms
<1>4. TableFits /\ SelectionFits /\ PublishedFits
  BY DEF PanelInit, TableFits, ArmFits, SelectionFits, PublishedFits
<1> QED
  BY <1>1, <1>2, <1>3, <1>4 DEF PanelInv

LEMMA PanelStep == PanelInv /\ [PanelNext]_panelVars => PanelInv'
<1> SUFFICES ASSUME PanelInv, [PanelNext]_panelVars
             PROVE  PanelInv'
  OBVIOUS
<1>1. CASE StartPanel
  BY <1>1, PanelStarts
<1>2. CASE StartProduction
  BY <1>2, ProductionStarts
<1>3. ASSUME NEW a \in Anchors, Work(a)
      PROVE  PanelInv'
  <2>1. CASE TakeUp(a)
    BY <2>1, TaskTakenUp
  <2>2. CASE Reuse(a)
    BY <2>2, TaskReused
  <2>3. CASE Ask(a)
    BY <2>3, TaskAsks
  <2>4. ASSUME NEW v \in Versions \cup {NoVersion}, Fail(a, v)
        PROVE  PanelInv'
    BY <2>4, TaskFails
  <2>5. ASSUME NEW v \in Versions \cup {NoVersion}, Drift(a, v)
        PROVE  PanelInv'
    BY <2>5, TaskDrifts
  <2>6. ASSUME NEW v \in Versions \cup {NoVersion}, NEW more \in BOOLEAN, Answer(a, v, more)
        PROVE  PanelInv'
    BY <2>6, TaskAnswered
  <2> QED
    BY <1>3, <2>1, <2>2, <2>3, <2>4, <2>5, <2>6 DEF Work
<1>4. CASE Abort
  BY <1>4, RunAborts DEF Abort, PanelInv, PanelTypeOK
<1>5. CASE Publish
  BY <1>5, ProductionEnds
<1>6. CASE KillPanel
  <2>1. mishaps' \in 0..MaxMishaps
    BY <1>6, PanelAdjudicationAssumption DEF KillPanel, PanelInv, PanelTypeOK
  <2> QED
    BY <1>6, <2>1, RunAborts DEF KillPanel
<1>7. CASE Select
  BY <1>7, Selected
<1>8. ASSUME NEW arm \in Arms, SmokePasses(arm)
      PROVE  PanelInv'
  BY <1>8, SmokeEnds
<1>9. ASSUME NEW arm \in Arms, ArmDone(arm)
      PROVE  PanelInv'
  BY <1>9, ArmEnds
<1>10. ASSUME NEW winner \in Arms \cup {"neither"}, LockHuman(winner)
       PROVE  PanelInv'
  BY <1>10, HumanLocked
<1>11. CASE UNCHANGED panelVars
  <2>1. UNCHANGED <<rep, lock, table, human, selection, published, run, memory, job, mishaps>>
    BY <1>11 DEF panelVars, files, process
  <2>2. PanelTypeOK'
    BY <2>1 DEF PanelInv, PanelTypeOK
  <2>3. RunFits'
    <3>1. run # Idle => \A a \in Anchors : JobFits(a)'
      BY <2>1, JobStays DEF PanelInv, PanelTypeOK, RunFits, Packets
    <3>2. run \in Arms => VersionsIn(SmokeOf(run))' = VersionsIn(SmokeOf(run))
      BY <2>1 DEF VersionsIn, SmokeOf
    <3>3. run \in Arms => \A a \in SmokeAnchors :
              Complete(SmokeOf(run), a)' <=> Complete(SmokeOf(run), a)
      BY <2>1 DEF Complete, Stored, SmokeOf
    <3>4. Nothing' = Nothing
      BY DEF Nothing
    <3> QED
      BY <2>1, <3>1, <3>2, <3>3, <3>4 DEF PanelInv, RunFits
  <2>4. \A arm \in Arms : run # Idle /\ table[arm] # NoVersion => memory[arm] = lock[arm]
    BY OfPools DEF PanelInv, TableFits, ArmFits
  <2>5. RepsInOrder'
    BY <2>1 DEF PanelInv, RepsInOrder, Stored, Packets
  <2>6. TableFits'
    BY <2>1, <2>4, ArmStays DEF TableFits
  <2>7. SelectionFits'
    BY <2>1 DEF PanelInv, SelectionFits
  <2>8. PublishedFits'
    BY <2>1, PublishedStays
  <2> QED
    BY <2>2, <2>3, <2>5, <2>6, <2>7, <2>8 DEF PanelInv
<1> QED
  BY <1>1, <1>2, <1>3, <1>4, <1>5, <1>6, <1>7, <1>8, <1>9, <1>10, <1>11 DEF PanelNext

\* The invariant of the panel: the reps of an anchor follow one another, a
\* task stands where its reps are, and what stands behind a table or a
\* publication is complete, so that no resumed run adds to it.
THEOREM PanelInvariant == PanelSpec => []PanelInv
<1>1. PanelInit => PanelInv
  BY PanelBegins
<1>2. PanelInv /\ [PanelNext]_panelVars => PanelInv'
  BY PanelStep
<1> QED
  BY <1>1, <1>2, PTL DEF PanelSpec

\* However often a panel is killed, aborted and resumed, the table of an arm
\* rests on answers of one version only, the one its smoke was of
\* (smoke_one_arm, admit_exact_version and the comparison in one()).
THEOREM ArmsAreOneModel == PanelSpec => []ArmIsOneModel
<1>1. PanelInv => ArmIsOneModel
  BY DEF PanelInv, TableFits, ArmFits, ArmIsOneModel
<1> QED
  BY <1>1, PanelInvariant, PTL

\* What run_production publishes was answered by the exact version that won
\* the panel, even when a selection was made again or a drift withdrew it.
THEOREM WinnerPublished == PanelSpec => []PublishedByTheWinner
<1>1. PanelInv => PublishedByTheWinner
  BY DEF PanelInv, PublishedFits, PublishedByTheWinner
<1> QED
  BY <1>1, PanelInvariant, PTL
=============================================================================

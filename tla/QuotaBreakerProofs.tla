------------------------- MODULE QuotaBreakerProofs -------------------------
(***************************************************************************)
(* Theorems about QuotaBreaker, for any number of workers, logical calls   *)
(* and windows, any policy and any number of faults.                       *)
(***************************************************************************)
EXTENDS QuotaBreaker, TLAPS, FiniteSetTheorems

-----------------------------------------------------------------------------
(* The ledger file.                                                        *)

\* What an append, finished or not, glued or not, may do to the file: a row of
\* the running process's window more, or a malformed file.
LEMMA AppendStep ==
    ASSUME TypeOK, NEW w \in Workers, call[w] \in Logical,
           \/ \E ended \in BOOLEAN : AppendRow(w, ended)
           \/ Malformed /\ tail' = Fragment
    PROVE  /\ rows' \in [Windows -> Nat] /\ rowSeen' \in [Windows -> SUBSET Logical]
           /\ torn' \in BOOLEAN /\ tail' \in Tails
           /\ tail' \in Windows => rows'[tail'] > 0
           /\ torn => torn'
           /\ \/ /\ rows' = [rows EXCEPT ![window] = @ + 1]
                 /\ rowSeen' = [rowSeen EXCEPT ![window] = @ \cup {call[w]}]
                 /\ torn' = torn
              \/ /\ torn' /\ rowSeen' = rowSeen
                 /\ \A v \in Windows : rows'[v] <= rows[v]
<1>0. /\ window \in Windows /\ rows \in [Windows -> Nat] /\ tail \in Tails
      /\ Fragment \notin Windows /\ Closed \notin Windows
      /\ tail \in Windows => rows[tail] > 0
      /\ rowSeen \in [Windows -> SUBSET Logical] /\ torn \in BOOLEAN
  BY CallAssumption DEF TypeOK, Fragment, Closed, Windows
<1>1. CASE Malformed /\ tail' \in {Closed, Fragment}
  <2>1. /\ RowsWithoutTail \in [Windows -> Nat]
        /\ \A v \in Windows : RowsWithoutTail[v] <= rows[v]
    BY <1>0 DEF RowsWithoutTail
  <2> QED BY <1>0, <1>1, <2>1 DEF Malformed, Tails
<1>2. CASE tail = Closed /\ \E ended \in BOOLEAN : AppendRow(w, ended)
  <2>1. /\ rows' = [rows EXCEPT ![window] = @ + 1]
        /\ rowSeen' = [rowSeen EXCEPT ![window] = @ \cup {call[w]}]
        /\ torn' = torn /\ tail' \in {Closed, window}
    BY <1>2 DEF AppendRow
  <2>2. rows' \in [Windows -> Nat] /\ rows'[window] > 0
    BY <1>0, <2>1
  <2> QED BY <1>0, <2>1, <2>2 DEF Tails
<1> QED BY <1>1, <1>2 DEF AppendRow

-----------------------------------------------------------------------------
(* Types.                                                                  *)

\* A trip leaves the pause reason, the marker and the histories well typed.
LEMMA TripType ==
    ASSUME TypeOK, NEW reason \in Reasons, Trip(reason) \/ WritePause(reason)
    PROVE  /\ paused' \in Reasons \cup {NotPaused}
           /\ marker' \in Markers
           /\ tripped' \in SUBSET Windows
           /\ faults' \in Nat
BY DEF TypeOK, Trip, WritePause, Markers, NoMarker

\* Every step keeps the types.
LEMMA TypeStep == TypeOK /\ [Next]_vars => TypeOK'
<1> SUFFICES ASSUME TypeOK, [Next]_vars PROVE TypeOK'
  OBVIOUS
<1> USE PolicyAssumption, CallAssumption
<1>1. CASE \E w \in Workers, l \in Logical, retry \in BOOLEAN :
              Admit(w, l, retry)
  <2> PICK w \in Workers, l \in Logical, retry \in BOOLEAN : Admit(w, l, retry)
    BY <1>1
  <2>1. call' \in [Workers -> Logical \cup {NoCall}]
        /\ last' \in [Workers -> Logical \cup {NoCall}]
    BY DEF TypeOK, Admit
  <2>2. sent' \in [Windows -> Nat] /\ started' \in [Windows -> SUBSET Logical]
    BY DEF TypeOK, Admit
  <2>3. reserved' \in Nat
    BY DEF TypeOK, Admit
  <2> QED BY <2>1, <2>2, <2>3 DEF TypeOK, Admit, disk
<1>2. CASE \E w \in Workers, l \in Logical, retry \in BOOLEAN :
              Refuse(w, l, retry)
  <2> PICK w \in Workers, l \in Logical, retry \in BOOLEAN : Refuse(w, l, retry)
    BY <1>2
  <2>1. /\ paused' \in Reasons \cup {NotPaused} /\ marker' \in Markers
        /\ tripped' \in SUBSET Windows /\ faults' \in Nat
    <3>1. CASE paused # NotPaused
      BY <3>1 DEF TypeOK, Refuse
    <3>2. CASE paused = NotPaused
      <4> DEFINE r == IF Limit(l, retry) = Gross THEN "hard_budget"
                                                 ELSE "work_budget"
      <4>1. r \in Reasons
        BY DEF Reasons
      <4>2. WritePause(r)
        BY <3>2 DEF Refuse
      <4> QED BY <4>1, <4>2, TripType
    <3> QED BY <3>1, <3>2
  <2> QED BY <2>1 DEF TypeOK, Refuse
<1>3. CASE \E w \in Workers, c \in Classes : Record(w, c)
  <2> PICK w \in Workers, c \in Classes : Record(w, c)
    BY <1>3
  <2>1. /\ paused' \in Reasons \cup {NotPaused} /\ marker' \in Markers
        /\ tripped' \in SUBSET Windows /\ faults' \in Nat
    <3>1. CASE TripReason(c) = NotPaused
      BY <3>1 DEF TypeOK, Record
    <3>2. CASE TripReason(c) # NotPaused
      <4>1. TripReason(c) \in Reasons
        BY <3>2 DEF TripReason, Reasons
      <4>2. Trip(TripReason(c))
        BY <3>2 DEF Record
      <4> QED BY <4>1, <4>2, TripType
    <3> QED BY <3>1, <3>2
  <2>2. streak' \in Nat
    BY DEF TypeOK, Record, NextStreak
  <2>3. call[w] \in Logical /\ reserved' \in Nat
    BY DEF TypeOK, Record, GiveBack
  <2>4. last' \in [Workers -> Logical \cup {NoCall}]
        /\ wasted' \in [Windows -> Nat]
    BY DEF TypeOK, Record
  <2>5. /\ rows' \in [Windows -> Nat] /\ rowSeen' \in [Windows -> SUBSET Logical]
        /\ torn' \in BOOLEAN /\ tail' \in Tails
        /\ tail' \in Windows => rows'[tail'] > 0
    BY <2>3, AppendStep DEF Record
  <2>6. call' \in [Workers -> Logical \cup {NoCall}]
    BY DEF TypeOK, Record, GiveBack
  <2>7. count' \in Nat /\ seen' \in SUBSET Logical
    BY <2>3 DEF TypeOK, Record
  <2> QED BY <2>1, <2>2, <2>3, <2>4, <2>5, <2>6, <2>7 DEF TypeOK, Record
<1>4. CASE \E w \in Workers : AppendFails(w)
  <2> PICK w \in Workers : AppendFails(w)
    BY <1>4
  <2>1. call[w] \in Logical /\ reserved' \in Nat
    BY DEF TypeOK, AppendFails, GiveBack
  <2>2. /\ rows' \in [Windows -> Nat] /\ rowSeen' \in [Windows -> SUBSET Logical]
        /\ torn' \in BOOLEAN /\ tail' \in Tails
        /\ tail' \in Windows => rows'[tail'] > 0
    <3>1. CASE UNCHANGED <<rows, rowSeen, torn, tail>>
      BY <3>1 DEF TypeOK
    <3> QED BY <2>1, <3>1, AppendStep DEF AppendFails
  <2>3. /\ call' \in [Workers -> Logical \cup {NoCall}]
        /\ last' \in [Workers -> Logical \cup {NoCall}]
    BY DEF TypeOK, AppendFails, GiveBack
  <2>4. lost' \in [Windows -> Nat] /\ faults' \in Nat
    BY DEF TypeOK, AppendFails
  <2> QED BY <2>1, <2>2, <2>3, <2>4 DEF TypeOK, AppendFails
<1>5. CASE \E w \in Workers : EndCall(w)
  <2> PICK w \in Workers : EndCall(w)
    BY <1>5
  <2> QED BY DEF TypeOK, EndCall, mem, disk, hist
<1>6. CASE \E v \in Windows : Start(v)
  <2> PICK v \in Windows : Start(v)
    BY <1>6
  <2>1. paused' \in Reasons \cup {NotPaused}
    BY DEF TypeOK, Start, LoadedPause, Markers, NoMarker
  <2>2. count' \in Nat /\ seen' \in SUBSET Logical
    BY DEF TypeOK, Start
  <2> QED BY <2>1, <2>2 DEF TypeOK, Start, work, disk, hist
<1>7. CASE Stop
  <2>1. lost' \in [Windows -> Nat]
    BY <1>7 DEF TypeOK, Stop
  <2>2. faults' \in Nat /\ paused' \in Reasons \cup {NotPaused}
    BY <1>7 DEF TypeOK, Stop
  <2> QED BY <1>7, <2>1, <2>2 DEF TypeOK, Stop, disk
<1>8. CASE WindowResets
  BY <1>8 DEF TypeOK, WindowResets, mem, work, disk, hist
<1>9. CASE UNCHANGED vars
  BY <1>9 DEF TypeOK, vars, mem, work, disk, hist
<1> QED BY <1>1, <1>2, <1>3, <1>4, <1>5, <1>6, <1>7, <1>8, <1>9 DEF Next

\* Type correctness of the breaker.
THEOREM TypeCorrect == Spec => []TypeOK
<1>1. Init => TypeOK
  <2> SUFFICES ASSUME Init PROVE TypeOK
    OBVIOUS
  <2>1. 1 \in Windows /\ 0 \in 0..LastWindow
    BY CallAssumption DEF Windows
  <2>2. NotPaused \in Reasons \cup {NotPaused} /\ NoMarker \in Markers
    BY DEF Markers
  <2>3. Closed \in Tails /\ Closed \notin Windows
    BY DEF Tails, Closed, Windows
  <2> QED BY <2>1, <2>2, <2>3 DEF Init, TypeOK
<1> QED BY <1>1, TypeStep, PTL DEF Spec

-----------------------------------------------------------------------------
(* The reservation counter.                                                *)

\* A worker joining or leaving the wire changes InFlight by one element.
LEMMA InFlightStep ==
    ASSUME TypeOK, NEW w \in Workers, NEW l \in Logical \cup {NoCall},
           call' = [call EXCEPT ![w] = l]
    PROVE  /\ IsFiniteSet(InFlight) /\ Cardinality(InFlight) \in Nat
           /\ call[w] = NoCall /\ l # NoCall
                 => Cardinality(InFlight') = Cardinality(InFlight) + 1
           /\ call[w] # NoCall /\ l = NoCall
                 => /\ Cardinality(InFlight) >= 1
                    /\ Cardinality(InFlight') = Cardinality(InFlight) - 1
<1>1. IsFiniteSet(InFlight) /\ Cardinality(InFlight) \in Nat
  BY CallAssumption, FS_Subset, FS_CardinalityType DEF InFlight
<1>2. ASSUME call[w] = NoCall, l # NoCall
      PROVE  Cardinality(InFlight') = Cardinality(InFlight) + 1
  <2>1. InFlight' = InFlight \cup {w} /\ w \notin InFlight
    BY <1>2 DEF TypeOK, InFlight
  <2> QED BY <1>1, <2>1, FS_AddElement
<1>3. ASSUME call[w] # NoCall, l = NoCall
      PROVE  /\ Cardinality(InFlight) >= 1
             /\ Cardinality(InFlight') = Cardinality(InFlight) - 1
  <2>1. InFlight' = InFlight \ {w} /\ w \in InFlight
    BY <1>3 DEF TypeOK, InFlight
  <2>2. Cardinality(InFlight') = Cardinality(InFlight) - 1
    BY <1>1, <2>1, FS_RemoveElement
  <2>3. Cardinality(InFlight') \in Nat
    BY <1>1, <2>1, FS_RemoveElement, FS_CardinalityType
  <2> QED BY <1>1, <2>2, <2>3
<1> QED BY <1>1, <1>2, <1>3

\* A process that is down has nothing on the wire and counts nothing.
DownIsEmpty ==
    ~up => count = 0 /\ reserved = 0 /\ seen = {} /\ paused = NotPaused
           /\ call = [w \in Workers |-> NoCall]

WireInv == ReservedIsInFlight /\ DownIsEmpty

\* Every step keeps the reservation counter equal to the attempts on the wire.
LEMMA WireStep == TypeOK /\ WireInv /\ [Next]_vars => WireInv'
<1> SUFFICES ASSUME TypeOK, WireInv, [Next]_vars PROVE WireInv'
  OBVIOUS
<1> USE CallAssumption
<1>1. ASSUME NEW w \in Workers, GiveBack(w) PROVE ReservedIsInFlight'
  <2>1. call' = [call EXCEPT ![w] = NoCall] /\ call[w] # NoCall
    BY <1>1 DEF GiveBack
  <2>2. reserved = Cardinality(InFlight)
    BY DEF WireInv, ReservedIsInFlight
  <2>3. reserved >= 1 /\ Cardinality(InFlight') = reserved - 1
    BY <2>1, <2>2, InFlightStep
  <2>4. reserved' = reserved - 1
    BY <1>1, <2>3 DEF GiveBack, TypeOK
  <2> QED BY <2>3, <2>4 DEF ReservedIsInFlight
<1>2. ASSUME NEW w \in Workers, NEW l \in Logical, NEW retry \in BOOLEAN,
             Admit(w, l, retry)
      PROVE  WireInv'
  <2>1. call' = [call EXCEPT ![w] = l] /\ call[w] = NoCall /\ l # NoCall
    BY <1>2 DEF Admit, MayAttempt
  <2>2. Cardinality(InFlight') = Cardinality(InFlight) + 1
    BY <2>1, InFlightStep
  <2>3. up' /\ reserved' = reserved + 1
    BY <1>2 DEF Admit, MayAttempt
  <2> QED BY <2>2, <2>3 DEF WireInv, ReservedIsInFlight, DownIsEmpty
<1>3. ASSUME NEW w \in Workers, NEW l \in Logical, NEW retry \in BOOLEAN,
             Refuse(w, l, retry)
      PROVE  WireInv'
  <2>1. up' /\ UNCHANGED <<reserved, call>>
    BY <1>3 DEF Refuse, MayAttempt
  <2> QED BY <2>1 DEF WireInv, ReservedIsInFlight, DownIsEmpty, InFlight
<1>4. ASSUME NEW w \in Workers, NEW c \in Classes, Record(w, c) PROVE WireInv'
  <2>1. up' /\ GiveBack(w)
    BY <1>4 DEF Record, GiveBack
  <2> QED BY <1>1, <2>1 DEF WireInv, DownIsEmpty
<1>5. ASSUME NEW w \in Workers, AppendFails(w) PROVE WireInv'
  <2>1. up' /\ GiveBack(w)
    BY <1>5 DEF AppendFails, GiveBack
  <2> QED BY <1>1, <2>1 DEF WireInv, DownIsEmpty
<1>6. CASE \E w \in Workers : EndCall(w)
  BY <1>6 DEF EndCall, mem, WireInv, ReservedIsInFlight, DownIsEmpty, InFlight
<1>7. CASE \E v \in Windows : Start(v)
  BY <1>7 DEF Start, work, WireInv, ReservedIsInFlight, DownIsEmpty, InFlight
<1>8. CASE Stop
  <2>1. InFlight' = {} /\ reserved' = 0
    BY <1>8 DEF Stop, InFlight
  <2>2. ReservedIsInFlight'
    BY <2>1, FS_EmptySet DEF ReservedIsInFlight
  <2> QED BY <1>8, <2>2 DEF Stop, WireInv, DownIsEmpty
<1>9. CASE WindowResets
  BY <1>9 DEF WindowResets, mem, work, WireInv, ReservedIsInFlight, DownIsEmpty,
              InFlight
<1>10. CASE UNCHANGED vars
  BY <1>10 DEF vars, mem, work, WireInv, ReservedIsInFlight, DownIsEmpty,
               InFlight
<1> QED BY <1>2, <1>3, <1>4, <1>5, <1>6, <1>7, <1>8, <1>9, <1>10 DEF Next

\* Initially nothing is on the wire.
LEMMA WireInit == Init => WireInv
<1> SUFFICES ASSUME Init PROVE WireInv
  OBVIOUS
<1>1. InFlight = {}
  BY DEF Init, InFlight
<1> QED BY <1>1, FS_EmptySet DEF Init, WireInv, ReservedIsInFlight, DownIsEmpty

\* The reservation counter is exactly the number of attempts on the wire, so
\* before_attempt's count + reserved never under-reports what is being spent.
THEOREM ReservationExact == Spec => []ReservedIsInFlight
<1>1. WireInv => ReservedIsInFlight
  BY DEF WireInv
<1> QED BY <1>1, WireInit, WireStep, TypeCorrect, PTL DEF Spec

-----------------------------------------------------------------------------
(* The ledger and the budget.                                              *)

\* An attempt on the wire is counted in the reservation.
LEMMA OnWireReserved ==
    ASSUME TypeOK, ReservedIsInFlight, NEW w \in Workers, call[w] # NoCall
    PROVE  reserved >= 1
<1>1. IsFiniteSet(InFlight) /\ w \in InFlight
  BY CallAssumption, FS_Subset DEF InFlight
<1>2. Cardinality(InFlight) # 0 /\ Cardinality(InFlight) \in Nat
  BY <1>1, FS_EmptySet, FS_CardinalityType
<1> QED BY <1>2 DEF ReservedIsInFlight, TypeOK

\* The running process may know of fewer rows than a well-formed file holds, but
\* each attempt is a row it counted, a reservation, or lost.
Counted ==
    up => /\ ~torn => count <= rows[window]
          /\ sent[window] <= count + reserved + lost[window]

\* The part of LedgerMatchesCalls that has to be inductive: an attempt on the
\* wire is not yet a row.
RowsBelowSent ==
    \A v \in Windows :
        rows[v] + (IF up /\ v = window THEN reserved ELSE 0) <= sent[v]

LedgerInv == RowsBelowSent /\ LedgerMatchesCalls /\ Counted /\ SpendBounded

\* What the steps that leave the histories alone need.
LEMMA LedgerFrame ==
    ASSUME LedgerInv,
           UNCHANGED <<up, window, count, reserved, rows, torn, sent, lost>>
    PROVE  LedgerInv'
BY DEF LedgerInv, RowsBelowSent, LedgerMatchesCalls, Counted, SpendBounded

\* Every step keeps the ledger in agreement with the attempts made.
LEMMA LedgerStep ==
    TypeOK /\ WireInv /\ LedgerInv /\ [Next]_vars => LedgerInv'
<1> SUFFICES ASSUME TypeOK, WireInv, LedgerInv, [Next]_vars PROVE LedgerInv'
  OBVIOUS
<1> USE PolicyAssumption DEF LedgerInv
<1>1. ASSUME NEW w \in Workers, NEW l \in Logical, NEW retry \in BOOLEAN,
             Admit(w, l, retry)
      PROVE  LedgerInv'
  <2>1. /\ up /\ up' /\ window' = window /\ reserved' = reserved + 1
        /\ sent' = [sent EXCEPT ![window] = @ + 1]
        /\ UNCHANGED <<count, rows, torn, lost>>
    BY <1>1 DEF Admit, MayAttempt, disk
  <2>2. count + reserved < Gross
    BY <1>1 DEF Admit, Observed, Limit, TypeOK
  <2>3. RowsBelowSent' /\ LedgerMatchesCalls'
    BY <2>1 DEF RowsBelowSent, LedgerMatchesCalls, TypeOK
  <2>4. Counted'
    BY <2>1 DEF Counted, TypeOK
  <2>5. SpendBounded'
    <3> SUFFICES ASSUME NEW v \in Windows PROVE sent'[v] <= Gross + lost'[v]
      BY DEF SpendBounded
    <3>1. CASE v = window
      BY <2>1, <2>2, <3>1 DEF Counted, TypeOK
    <3>2. CASE v # window
      BY <2>1, <3>2 DEF SpendBounded, TypeOK
    <3> QED BY <3>1, <3>2
  <2> QED BY <2>3, <2>4, <2>5
<1>2. CASE \E w \in Workers, l \in Logical, retry \in BOOLEAN :
              Refuse(w, l, retry)
  BY <1>2, LedgerFrame DEF Refuse
<1>3. ASSUME NEW w \in Workers, NEW c \in Classes, Record(w, c)
      PROVE  LedgerInv'
  <2>1. reserved >= 1
    BY <1>3, OnWireReserved DEF WireInv, Record, GiveBack
  <2>2. /\ up /\ up' /\ window' = window /\ window \in Windows
        /\ count' = count + 1 /\ reserved' = reserved - 1
        /\ UNCHANGED <<sent, lost>>
    BY <1>3, <2>1 DEF Record, GiveBack, TypeOK
  <2>3. /\ torn => torn'
        /\ \/ rows' = [rows EXCEPT ![window] = @ + 1] /\ torn' = torn
           \/ torn' /\ \A v \in Windows : rows'[v] <= rows[v]
        /\ rows' \in [Windows -> Nat] /\ torn' \in BOOLEAN
    BY <1>3, AppendStep DEF Record, GiveBack, TypeOK
  <2>4. RowsBelowSent' /\ LedgerMatchesCalls'
    BY <2>1, <2>2, <2>3 DEF RowsBelowSent, LedgerMatchesCalls, TypeOK
  <2>5. Counted' /\ SpendBounded'
    BY <2>1, <2>2, <2>3 DEF Counted, SpendBounded, TypeOK
  <2> QED BY <2>4, <2>5
<1>4. ASSUME NEW w \in Workers, AppendFails(w) PROVE LedgerInv'
  <2>1. reserved >= 1
    BY <1>4, OnWireReserved DEF WireInv, AppendFails, GiveBack
  <2>2. /\ up /\ up' /\ window' = window /\ window \in Windows
        /\ count' = count /\ reserved' = reserved - 1 /\ sent' = sent
        /\ lost' = [lost EXCEPT ![window] = @ + 1]
    BY <1>4, <2>1 DEF AppendFails, GiveBack, TypeOK
  <2>3. /\ torn => torn'
        /\ \/ rows' = rows /\ torn' = torn
           \/ rows' = [rows EXCEPT ![window] = @ + 1] /\ torn' = torn
           \/ torn' /\ \A v \in Windows : rows'[v] <= rows[v]
        /\ rows' \in [Windows -> Nat] /\ torn' \in BOOLEAN
    BY <1>4, AppendStep DEF AppendFails, GiveBack, TypeOK
  <2>4. ASSUME NEW v \in Windows
        PROVE  /\ rows'[v] + (IF v = window THEN reserved' ELSE 0) <= sent[v]
               /\ ~torn' => sent[v] <= rows'[v] + lost'[v]
                                       + (IF v = window THEN reserved' ELSE 0)
               /\ sent[v] <= Gross + lost'[v] /\ sent'[v] = sent[v]
    <3>1. /\ rows[v] + (IF v = window THEN reserved ELSE 0) <= sent[v]
          /\ ~torn => sent[v] <= rows[v] + lost[v]
                                 + (IF v = window THEN reserved ELSE 0)
          /\ sent[v] <= Gross + lost[v]
      BY <2>2 DEF RowsBelowSent, LedgerMatchesCalls, SpendBounded
    <3>2. /\ sent[v] \in Nat /\ rows[v] \in Nat /\ rows'[v] \in Nat
          /\ lost[v] \in Nat /\ reserved \in Nat
          /\ lost'[v] = IF v = window THEN lost[v] + 1 ELSE lost[v]
      BY <2>2, <2>3 DEF TypeOK
    <3>3. \/ rows'[v] <= rows[v] /\ torn'
          \/ /\ torn' = torn
             /\ \/ rows'[v] = rows[v]
                \/ v = window /\ rows'[v] = rows[v] + 1
      BY <2>2, <2>3 DEF TypeOK
    <3>4. CASE v = window
      BY <2>1, <2>2, <3>1, <3>2, <3>3, <3>4
    <3>5. CASE v # window
      BY <2>1, <2>2, <3>1, <3>2, <3>3, <3>5
    <3> QED BY <3>4, <3>5
  <2>5. RowsBelowSent' /\ SpendBounded'
    BY <2>2, <2>4 DEF RowsBelowSent, SpendBounded
  <2>6. LedgerMatchesCalls'
    <3> SUFFICES ASSUME NEW v \in Windows
                 PROVE  /\ rows'[v] <= sent'[v]
                        /\ ~torn' => sent'[v] <= rows'[v] + lost'[v]
                                       + (IF up' /\ v = window' THEN reserved'
                                                                 ELSE 0)
      BY DEF LedgerMatchesCalls
    <3>1. sent[v] \in Nat /\ reserved \in Nat
      BY DEF TypeOK
    <3>2. rows'[v] \in Nat /\ reserved' \in Nat
      BY <2>1, <2>2, <2>3, <3>1
    <3> QED BY <2>2, <2>4, <3>1, <3>2
  <2>7. Counted'
    <3>1. ~torn => count <= rows[window]
      BY <2>2 DEF Counted
    <3>2. sent[window] <= count + reserved + lost[window]
      BY <2>2 DEF Counted
    <3>3. /\ count \in Nat /\ reserved \in Nat /\ sent[window] \in Nat
          /\ lost[window] \in Nat /\ rows[window] \in Nat
          /\ rows'[window] \in Nat /\ lost'[window] = lost[window] + 1
      BY <2>2, <2>3 DEF TypeOK
    <3>4. ~torn' => ~torn /\ rows'[window] >= rows[window]
      <4>1. rows \in [Windows -> Nat] /\ torn \in BOOLEAN
        BY DEF TypeOK
      <4> QED BY <2>2, <2>3, <3>3, <4>1
    <3>5. ~torn' => count' <= rows'[window]
      BY <2>2, <3>1, <3>3, <3>4
    <3>6. sent'[window] <= count' + reserved' + lost'[window]
      BY <2>2, <3>2, <3>3
    <3> QED BY <2>2, <3>5, <3>6 DEF Counted
  <2> QED BY <2>5, <2>6, <2>7
<1>5. CASE \E w \in Workers : EndCall(w)
  BY <1>5, LedgerFrame DEF EndCall, mem, disk, hist
<1>6. CASE \E v \in Windows : Start(v)
  <2> PICK v \in Windows : Start(v)
    BY <1>6
  <2>1. /\ ~up /\ up' /\ window' = v /\ count' = rows[v] /\ reserved' = 0
        /\ ~torn /\ UNCHANGED <<rows, torn, sent, lost>>
    BY DEF Start, disk, hist, WireInv, DownIsEmpty
  <2> QED BY <2>1 DEF RowsBelowSent, LedgerMatchesCalls, Counted, SpendBounded,
                      TypeOK
<1>7. CASE Stop
  <2>1. /\ up /\ ~up' /\ window' = window
        /\ lost' = [lost EXCEPT ![window] = @ + reserved]
        /\ UNCHANGED <<rows, torn, sent>>
    BY <1>7 DEF Stop, disk
  <2> QED BY <2>1 DEF RowsBelowSent, LedgerMatchesCalls, Counted, SpendBounded,
                      TypeOK
<1>8. CASE WindowResets
  BY <1>8, LedgerFrame DEF WindowResets, mem, disk, hist
<1>9. CASE UNCHANGED vars
  BY <1>9, LedgerFrame DEF vars, mem, disk, hist
<1> QED BY <1>1, <1>2, <1>3, <1>4, <1>5, <1>6, <1>7, <1>8, <1>9 DEF Next

\* Initially no attempt was made and the file is empty.
LEMMA LedgerInit == Init => LedgerInv
BY PolicyAssumption
   DEF Init, LedgerInv, RowsBelowSent, LedgerMatchesCalls, Counted, SpendBounded

\* The budget theorem: in every window, whatever the interleaving of workers,
\* the retries, failed appends, crashes and restarts, the attempts made exceed
\* gross_safe_budget by at most the attempts whose row was lost.
THEOREM BudgetHolds == Spec => []SpendBounded
<1>1. LedgerInv => SpendBounded
  BY DEF LedgerInv
<1> QED BY <1>1, LedgerInit, WireInit, LedgerStep, WireStep, TypeCorrect, PTL
        DEF Spec

\* A ledger a process can be started on and the attempts made differ by what is
\* on the wire or lost.  A partial append spoils the file, and with it the rows
\* the same process goes on to append.
THEOREM LedgerAccurate == Spec => []LedgerMatchesCalls
<1>1. LedgerInv => LedgerMatchesCalls
  BY DEF LedgerInv
<1> QED BY <1>1, LedgerInit, WireInit, LedgerStep, WireStep, TypeCorrect, PTL
        DEF Spec

-----------------------------------------------------------------------------
(* The retry reserve.                                                      *)

\* A logical call the process may charge to the reserve (its window's ledger
\* knows it, or its worker is retrying it) was admitted in this window before.
KnownWasStarted ==
    /\ \A v \in Windows : rowSeen[v] \subseteq started[v]
    /\ up => /\ seen \subseteq started[window]
             /\ \A w \in Workers :
                   /\ call[w] # NoCall => call[w] \in started[window]
                   /\ last[w] # NoCall => last[w] \in started[window]
    /\ ~up => \A w \in Workers : last[w] = NoCall

\* Each logical call admitted took at least one attempt.
StartedBelowSent == \A v \in Windows : Cardinality(started[v]) <= sent[v]

StartInv == KnownWasStarted /\ StartedBelowSent /\ NewWorkBounded

\* The sets of started calls are finite.
LEMMA StartedFinite ==
    ASSUME TypeOK, NEW v \in Windows
    PROVE  IsFiniteSet(started[v]) /\ Cardinality(started[v]) \in Nat
<1>1. started[v] \subseteq Logical
  BY DEF TypeOK
<1> QED BY <1>1, CallAssumption, FS_Subset, FS_CardinalityType

\* Every step keeps KnownWasStarted.
LEMMA KnownStep ==
    TypeOK /\ WireInv /\ KnownWasStarted /\ [Next]_vars => KnownWasStarted'
<1> SUFFICES ASSUME TypeOK, WireInv, KnownWasStarted, [Next]_vars
             PROVE  KnownWasStarted'
  OBVIOUS
<1> USE CallAssumption
<1>1. ASSUME NEW w \in Workers, NEW l \in Logical, NEW retry \in BOOLEAN,
             Admit(w, l, retry)
      PROVE  KnownWasStarted'
  <2>1. /\ up /\ up' /\ UNCHANGED <<window, seen, rowSeen>>
        /\ call' = [call EXCEPT ![w] = l] /\ last' = [last EXCEPT ![w] = l]
        /\ started' = [started EXCEPT ![window] = @ \cup {l}]
    BY <1>1 DEF Admit, MayAttempt, disk
  <2> QED BY <2>1 DEF KnownWasStarted, TypeOK
<1>2. ASSUME NEW w \in Workers, NEW l \in Logical, NEW retry \in BOOLEAN,
             Refuse(w, l, retry)
      PROVE  KnownWasStarted'
  <2>1. /\ up /\ up' /\ UNCHANGED <<window, seen, rowSeen, call, started>>
        /\ last' = [last EXCEPT ![w] = NoCall]
    BY <1>2 DEF Refuse, MayAttempt
  <2> QED BY <2>1 DEF KnownWasStarted, TypeOK
<1>3. ASSUME NEW w \in Workers, NEW c \in Classes, Record(w, c)
      PROVE  KnownWasStarted'
  <2>1. /\ up /\ up' /\ UNCHANGED <<window, started>> /\ call[w] # NoCall
        /\ seen' = seen \cup {call[w]}
        /\ \/ rowSeen' = rowSeen
           \/ rowSeen' = [rowSeen EXCEPT ![window] = @ \cup {call[w]}]
        /\ call' = [call EXCEPT ![w] = NoCall]
        /\ last' = last \/ last' = [last EXCEPT ![w] = NoCall]
    BY <1>3 DEF Record, GiveBack, AppendRow, Malformed
  <2> QED BY <2>1 DEF KnownWasStarted, TypeOK
<1>4. ASSUME NEW w \in Workers, AppendFails(w) PROVE KnownWasStarted'
  <2>1. /\ up /\ up' /\ UNCHANGED <<window, started, seen>>
        /\ call[w] # NoCall
        /\ \/ rowSeen' = rowSeen
           \/ rowSeen' = [rowSeen EXCEPT ![window] = @ \cup {call[w]}]
        /\ call' = [call EXCEPT ![w] = NoCall]
        /\ last' = [last EXCEPT ![w] = NoCall]
    BY <1>4 DEF AppendFails, GiveBack, AppendRow, Malformed
  <2> QED BY <2>1 DEF KnownWasStarted, TypeOK
<1>5. ASSUME NEW w \in Workers, EndCall(w) PROVE KnownWasStarted'
  BY <1>5 DEF EndCall, mem, disk, hist, KnownWasStarted, TypeOK
<1>6. ASSUME NEW v \in Windows, Start(v) PROVE KnownWasStarted'
  <2>1. /\ ~up /\ up' /\ window' = v /\ seen' = rowSeen[v]
        /\ UNCHANGED <<rowSeen, call, last, started>>
    BY <1>6 DEF Start, work, disk, hist
  <2> QED BY <2>1 DEF KnownWasStarted, WireInv, DownIsEmpty, TypeOK
<1>7. CASE Stop
  BY <1>7 DEF Stop, disk, KnownWasStarted
<1>8. CASE WindowResets
  BY <1>8 DEF WindowResets, mem, work, disk, hist, KnownWasStarted
<1>9. CASE UNCHANGED vars
  BY <1>9 DEF vars, mem, work, disk, hist, KnownWasStarted
<1> QED BY <1>1, <1>2, <1>3, <1>4, <1>5, <1>6, <1>7, <1>8, <1>9 DEF Next

\* Only an admission starts a call or makes an attempt; losses only grow.
LEMMA StartedFrame ==
    ASSUME TypeOK, WireInv, [Next]_vars,
           ~ \E w \in Workers, l \in Logical, retry \in BOOLEAN :
                Admit(w, l, retry)
    PROVE  /\ UNCHANGED <<sent, started>>
           /\ \A v \in Windows : lost[v] <= lost'[v]
<1>1. CASE \E w \in Workers : AppendFails(w)
  BY <1>1 DEF AppendFails, TypeOK
<1>2. CASE Stop
  BY <1>2 DEF Stop, TypeOK
<1>3. CASE UNCHANGED <<sent, started, lost>>
  BY <1>3 DEF TypeOK
<1> QED BY <1>1, <1>2, <1>3
        DEF Next, Refuse, Record, EndCall, Start, WindowResets, vars, hist

\* Every step keeps new logical work within work_budget.
LEMMA StartStep ==
    TypeOK /\ WireInv /\ LedgerInv /\ StartInv /\ [Next]_vars => StartInv'
<1> SUFFICES ASSUME TypeOK, WireInv, LedgerInv, StartInv, [Next]_vars
             PROVE  StartInv'
  OBVIOUS
<1>1. KnownWasStarted'
  BY KnownStep DEF StartInv
<1>2. ASSUME NEW w \in Workers, NEW l \in Logical, NEW retry \in BOOLEAN,
             Admit(w, l, retry)
      PROVE  StartedBelowSent' /\ NewWorkBounded'
  <2>1. /\ up /\ UNCHANGED lost /\ window \in Windows
        /\ sent' = [sent EXCEPT ![window] = @ + 1]
        /\ started' = [started EXCEPT ![window] = @ \cup {l}]
    BY <1>2 DEF Admit, MayAttempt, TypeOK
  <2> DEFINE S == started[window]
  <2>2. IsFiniteSet(S) /\ Cardinality(S) \in Nat
    BY <2>1, StartedFinite
  <2>3. started'[window] = S \cup {l} /\ sent'[window] = sent[window] + 1
    BY <2>1 DEF TypeOK
  <2>4. Cardinality(S) <= sent[window]
        /\ Cardinality(S) <= Work + lost[window]
    BY <2>1 DEF StartInv, StartedBelowSent, NewWorkBounded
  <2>5. ASSUME l \notin S
        PROVE  Cardinality(S) + 1 <= Work + lost[window]
    <3>1. l \notin seen /\ ~retry
      <4>1. seen \subseteq S /\ (last[w] # NoCall => last[w] \in S)
        BY <2>1 DEF StartInv, KnownWasStarted
      <4>2. retry => last[w] = l
        BY <1>2 DEF Admit, MayAttempt
      <4> QED BY <2>5, <4>1, <4>2, CallAssumption
    <3>2. count + reserved < Work
      BY <1>2, <3>1 DEF Admit, Observed, Limit
    <3>3. sent[window] <= count + reserved + lost[window]
      BY <2>1 DEF LedgerInv, Counted
    <3>4. /\ count \in Nat /\ reserved \in Nat /\ Work \in Nat
          /\ sent[window] \in Nat /\ lost[window] \in Nat
      BY PolicyAssumption DEF TypeOK
    <3> QED BY <2>2, <2>4, <3>2, <3>3, <3>4
  <2>6. /\ Cardinality(started'[window]) <= sent'[window]
        /\ Cardinality(started'[window]) <= Work + lost'[window]
    <3>0. sent[window] \in Nat /\ lost[window] \in Nat /\ Work \in Nat
      BY PolicyAssumption DEF TypeOK
    <3>1. CASE l \in S
      <4>1. S \cup {l} = S
        BY <3>1
      <4>2. /\ started'[window] = S /\ lost'[window] = lost[window]
            /\ sent'[window] = sent[window] + 1
        BY <2>1, <2>3, <4>1
      <4> HIDE DEF S
      <4> QED BY <2>2, <2>4, <3>0, <4>2
    <3>2. CASE l \notin S
      <4>1. Cardinality(S \cup {l}) = Cardinality(S) + 1
        BY <2>2, <3>2, FS_AddElement
      <4>2. Cardinality(started'[window]) = Cardinality(S) + 1
        BY <2>3, <4>1
      <4>3. lost'[window] = lost[window] /\ sent'[window] = sent[window] + 1
        BY <2>1, <2>3
      <4>4. Cardinality(S) + 1 <= Work + lost[window]
        BY <2>5, <3>2
      <4> HIDE DEF S
      <4> QED BY <2>2, <2>4, <3>0, <4>2, <4>3, <4>4
    <3> QED BY <3>1, <3>2
  <2>7. ASSUME NEW v \in Windows, v # window
        PROVE  started'[v] = started[v] /\ sent'[v] = sent[v]
    BY <2>1, <2>7 DEF TypeOK
  <2> QED BY <2>1, <2>6, <2>7 DEF StartInv, StartedBelowSent, NewWorkBounded
<1>3. ASSUME ~ \E w \in Workers, l \in Logical, retry \in BOOLEAN :
                 Admit(w, l, retry)
      PROVE  StartedBelowSent' /\ NewWorkBounded'
  <2>1. UNCHANGED <<sent, started>> /\ \A v \in Windows : lost[v] <= lost'[v]
    BY <1>3, StartedFrame
  <2>2. TypeOK'
    BY TypeStep
  <2> SUFFICES ASSUME NEW v \in Windows
               PROVE  /\ Cardinality(started[v]) <= sent[v]
                      /\ Cardinality(started[v]) <= Work + lost'[v]
    BY <2>1 DEF StartedBelowSent, NewWorkBounded
  <2>3. /\ Cardinality(started[v]) <= sent[v]
        /\ Cardinality(started[v]) <= Work + lost[v]
    BY DEF StartInv, StartedBelowSent, NewWorkBounded
  <2>4. lost[v] \in Nat /\ lost'[v] \in Nat /\ Work \in Nat
        /\ Cardinality(started[v]) \in Nat
    BY <2>2, PolicyAssumption, StartedFinite DEF TypeOK
  <2> QED BY <2>1, <2>3, <2>4
<1> QED BY <1>1, <1>2, <1>3 DEF StartInv

\* Initially nothing was started.
LEMMA StartInit == Init => StartInv
BY PolicyAssumption, FS_EmptySet
   DEF Init, StartInv, KnownWasStarted, StartedBelowSent, NewWorkBounded

\* The reserve theorem: a window never starts more than work_budget new
\* logical calls (plus attempts lost from the ledger), so what lies between
\* work_budget and gross_safe_budget is left to retries.
THEOREM ReserveHolds == Spec => []NewWorkBounded
<1>1. StartInv => NewWorkBounded
  BY DEF StartInv
<1> QED BY <1>1, StartInit, LedgerInit, WireInit, StartStep, LedgerStep,
           WireStep, TypeCorrect, PTL DEF Spec

-----------------------------------------------------------------------------
(* Pausing.                                                                *)

\* A running process knows the active marker of its window; every marker and
\* every pause comes from a trip in its own window.
PauseInv ==
    /\ PauseIsEarned
    /\ marker.window # 0 => marker.window \in tripped
    /\ up /\ marker.window = window /\ window > past => paused # NotPaused

\* A trip keeps the pause invariant.
LEMMA PauseOnTrip ==
    ASSUME TypeOK, PauseInv, NEW reason \in Reasons,
           Trip(reason) \/ WritePause(reason), UNCHANGED <<up, window, past>>
    PROVE  PauseInv'
<1>1. reason # NotPaused
  BY DEF Reasons, NotPaused
<1>2. CASE WritePause(reason)
  BY <1>1, <1>2 DEF WritePause, PauseInv, PauseIsEarned
<1>3. CASE UNCHANGED <<paused, tripped, marker, faults>>
  BY <1>3 DEF PauseInv, PauseIsEarned
<1> QED BY <1>2, <1>3 DEF Trip

\* Every step keeps the pause invariant.
LEMMA PauseStep ==
    TypeOK /\ WireInv /\ PauseInv /\ [Next]_vars => PauseInv'
<1> SUFFICES ASSUME TypeOK, WireInv, PauseInv, [Next]_vars PROVE PauseInv'
  OBVIOUS
<1>1. CASE \E w \in Workers, l \in Logical, retry \in BOOLEAN :
              Admit(w, l, retry)
  BY <1>1 DEF Admit, disk, PauseInv, PauseIsEarned
<1>2. ASSUME NEW w \in Workers, NEW l \in Logical, NEW retry \in BOOLEAN,
             Refuse(w, l, retry)
      PROVE  PauseInv'
  <2>1. CASE UNCHANGED <<paused, tripped, marker, faults>>
    BY <1>2, <2>1 DEF Refuse, PauseInv, PauseIsEarned
  <2>2. CASE WritePause(IF Limit(l, retry) = Gross THEN "hard_budget"
                                                   ELSE "work_budget")
    <3> DEFINE r == IF Limit(l, retry) = Gross THEN "hard_budget"
                                               ELSE "work_budget"
    <3>1. r \in Reasons
      BY DEF Reasons
    <3>2. UNCHANGED <<up, window, past>>
      BY <1>2 DEF Refuse
    <3> QED BY <2>2, <3>1, <3>2, PauseOnTrip
  <2> QED BY <1>2, <2>1, <2>2 DEF Refuse
<1>3. ASSUME NEW w \in Workers, NEW c \in Classes, Record(w, c)
      PROVE  PauseInv'
  <2>1. UNCHANGED <<up, window, past>>
    BY <1>3 DEF Record
  <2>2. CASE TripReason(c) = NotPaused
    BY <1>3, <2>1, <2>2 DEF Record, PauseInv, PauseIsEarned
  <2>3. CASE TripReason(c) # NotPaused
    <3>1. TripReason(c) \in Reasons /\ Trip(TripReason(c))
      BY <1>3, <2>3 DEF Record, TripReason, Reasons
    <3> QED BY <2>1, <3>1, PauseOnTrip
  <2> QED BY <2>2, <2>3
<1>4. CASE \E w \in Workers : AppendFails(w)
  BY <1>4 DEF AppendFails, PauseInv, PauseIsEarned
<1>5. CASE \E w \in Workers : EndCall(w)
  BY <1>5 DEF EndCall, mem, disk, hist, PauseInv, PauseIsEarned
<1>6. ASSUME NEW v \in Windows, Start(v) PROVE PauseInv'
  <2>1. /\ window' = v /\ UNCHANGED <<marker, past, tripped>> /\ v # 0
        /\ paused' = IF marker.window = v /\ v > past THEN marker.reason
                                                      ELSE NotPaused
    BY <1>6 DEF Start, LoadedPause, disk, hist, Windows
  <2>2. marker.window # 0 => marker.reason # NotPaused
    BY DEF TypeOK, Markers, NoMarker, Reasons, NotPaused
  <2> QED BY <2>1, <2>2 DEF PauseInv, PauseIsEarned
<1>7. CASE Stop
  BY <1>7 DEF Stop, disk, PauseInv, PauseIsEarned
<1>8. CASE WindowResets
  <2>1. past' = past + 1 /\ past \in Nat /\ window \in Nat
    BY <1>8 DEF WindowResets, TypeOK, Windows
  <2> QED BY <1>8, <2>1 DEF WindowResets, mem, disk, hist, PauseInv,
                            PauseIsEarned
<1>9. CASE UNCHANGED vars
  BY <1>9 DEF vars, mem, disk, hist, PauseInv, PauseIsEarned
<1> QED BY <1>1, <1>2, <1>3, <1>4, <1>5, <1>6, <1>7, <1>8, <1>9 DEF Next

\* Initially nothing is paused and no marker exists.
LEMMA PauseInit == Init => PauseInv
BY CallAssumption DEF Init, PauseInv, PauseIsEarned, NoMarker, NotPaused,
                      Windows

\* The pause theorem: a marker on disk silences its window until its
\* resume_after, across any number of process deaths and restarts.
THEOREM MarkerIsHonoured == Spec => NoCallPastMarker
<1> DEFINE Silent == \A v \in Windows :
              sent'[v] > sent[v] => ~(marker.window = v /\ v > past)
<1>1. TypeOK /\ WireInv /\ PauseInv /\ [Next]_vars => Silent
  <2> SUFFICES ASSUME TypeOK, WireInv, PauseInv, [Next]_vars,
                      NEW v \in Windows, sent'[v] > sent[v]
               PROVE  ~(marker.window = v /\ v > past)
    OBVIOUS
  <2>1. PICK w \in Workers, l \in Logical, retry \in BOOLEAN :
           Admit(w, l, retry)
    <3>1. sent' # sent
      BY DEF TypeOK
    <3> QED BY <3>1, StartedFrame
  <2>2. up /\ paused = NotPaused /\ sent' = [sent EXCEPT ![window] = @ + 1]
    BY <2>1 DEF Admit, MayAttempt
  <2>3. v = window
    BY <2>2 DEF TypeOK
  <2> QED BY <2>2, <2>3 DEF PauseInv
<1>2. TypeOK /\ WireInv /\ PauseInv /\ [Next]_vars => [Silent]_vars
  BY <1>1
<1> QED BY <1>2, PauseInit, WireInit, PauseStep, WireStep, TypeCorrect, PTL
        DEF Spec, NoCallPastMarker

\* A pause never leaks from one window into another.
THEOREM PauseStaysInWindow == Spec => []PauseIsEarned
<1>1. PauseInv => PauseIsEarned
  BY DEF PauseInv
<1> QED BY <1>1, PauseInit, WireInit, PauseStep, WireStep, TypeCorrect, PTL
        DEF Spec

-----------------------------------------------------------------------------
(* Answers paid for and thrown away.                                       *)

\* Reservations never reach past Gross; once an answer was wasted the window's
\* rows are at Gross, in a well-formed file and in any process that runs in it.
WasteInv ==
    /\ up /\ reserved # 0 => count + reserved <= Gross
    /\ \A v \in Windows : /\ wasted[v] <= 1
                          /\ wasted[v] # 0 /\ ~torn => rows[v] >= Gross
    /\ up /\ wasted[window] # 0 => count >= Gross

\* Every step keeps the waste invariant.
LEMMA WasteStep ==
    TypeOK /\ WireInv /\ LedgerInv /\ WasteInv /\ [Next]_vars => WasteInv'
<1> SUFFICES ASSUME TypeOK, WireInv, LedgerInv, WasteInv, [Next]_vars
             PROVE  WasteInv'
  OBVIOUS
<1> USE PolicyAssumption DEF WasteInv
<1>1. ASSUME NEW w \in Workers, NEW l \in Logical, NEW retry \in BOOLEAN,
             Admit(w, l, retry)
      PROVE  WasteInv'
  <2>1. /\ up /\ reserved' = reserved + 1
        /\ UNCHANGED <<up, window, count, rows, torn, wasted>>
    BY <1>1 DEF Admit, MayAttempt, disk
  <2>2. count + reserved < Gross
    BY <1>1 DEF Admit, Observed, Limit, TypeOK
  <2> QED BY <2>1, <2>2 DEF TypeOK
<1>2. CASE \E w \in Workers, l \in Logical, retry \in BOOLEAN :
              Refuse(w, l, retry)
  BY <1>2 DEF Refuse
<1>3. ASSUME NEW w \in Workers, NEW c \in Classes, Record(w, c)
      PROVE  WasteInv'
  <2>1. reserved >= 1
    BY <1>3, OnWireReserved DEF WireInv, Record, GiveBack
  <2>2. /\ up /\ UNCHANGED <<up, window>> /\ count' = count + 1
        /\ reserved' = reserved - 1 /\ window \in Windows
    BY <1>3, <2>1 DEF Record, GiveBack, TypeOK
  <2>r. /\ torn => torn'
        /\ \/ rows' = [rows EXCEPT ![window] = @ + 1] /\ torn' = torn
           \/ torn' /\ \A v \in Windows : rows'[v] <= rows[v]
        /\ rows' \in [Windows -> Nat] /\ torn' \in BOOLEAN
    BY <1>3, AppendStep DEF Record, GiveBack, TypeOK
  <2>3. CASE wasted' = wasted
    BY <2>1, <2>2, <2>r, <2>3 DEF TypeOK
  <2>4. CASE c = "ok" /\ TripReason(c) # NotPaused
             /\ wasted' = [wasted EXCEPT ![window] = @ + 1]
    <3>1. count + 1 >= Gross
      BY <2>4 DEF TripReason
    <3>2. wasted[window] = 0
      BY <2>1, <2>2 DEF TypeOK
    <3>3. ~torn => count <= rows[window]
      BY <2>2 DEF LedgerInv, Counted
    <3> QED BY <2>1, <2>2, <2>r, <2>4, <3>1, <3>2, <3>3 DEF TypeOK
  <2> QED BY <1>3, <2>3, <2>4 DEF Record
<1>4. ASSUME NEW w \in Workers, AppendFails(w) PROVE WasteInv'
  <2>1. reserved >= 1
    BY <1>4, OnWireReserved DEF WireInv, AppendFails, GiveBack
  <2>2. UNCHANGED <<up, window, count, wasted>> /\ reserved' = reserved - 1
    BY <1>4, <2>1 DEF AppendFails, GiveBack, TypeOK
  <2>3. /\ torn => torn'
        /\ \/ rows' = rows /\ torn' = torn
           \/ rows' = [rows EXCEPT ![window] = @ + 1] /\ torn' = torn
           \/ torn' /\ \A v \in Windows : rows'[v] <= rows[v]
        /\ rows' \in [Windows -> Nat] /\ torn' \in BOOLEAN
    BY <1>4, AppendStep DEF AppendFails, GiveBack, TypeOK
  <2> QED BY <2>1, <2>2, <2>3 DEF TypeOK
<1>5. CASE \E w \in Workers : EndCall(w)
  BY <1>5 DEF EndCall, mem, disk, hist
<1>6. ASSUME NEW v \in Windows, Start(v) PROVE WasteInv'
  <2>1. /\ window' = v /\ count' = rows[v] /\ reserved' = 0
        /\ ~torn /\ UNCHANGED <<rows, torn, wasted>>
    BY <1>6 DEF Start, disk, hist, WireInv, DownIsEmpty
  <2> QED BY <2>1 DEF TypeOK
<1>7. CASE Stop
  BY <1>7 DEF Stop, disk
<1>8. CASE WindowResets
  BY <1>8 DEF WindowResets, mem, disk, hist
<1>9. CASE UNCHANGED vars
  BY <1>9 DEF vars, mem, disk, hist
<1> QED BY <1>1, <1>2, <1>3, <1>4, <1>5, <1>6, <1>7, <1>8, <1>9 DEF Next

\* Initially nothing was wasted.
LEMMA WasteInit == Init => WasteInv
BY DEF Init, WasteInv

\* The price of stopping at the hard line: in every window at most one good
\* answer is paid for and then discarded by the breaker.
THEOREM OneAnswerWasted == Spec => []AtMostOneAnswerWasted
<1>1. WasteInv => AtMostOneAnswerWasted
  BY DEF WasteInv, AtMostOneAnswerWasted
<1> QED BY <1>1, WasteInit, LedgerInit, WireInit, WasteStep, LedgerStep,
           WireStep, TypeCorrect, PTL DEF Spec
=============================================================================

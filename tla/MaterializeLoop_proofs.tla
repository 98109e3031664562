----------------------- MODULE MaterializeLoop_proofs -----------------------
(***************************************************************************)
(* The planning loop, for every cadence, every starting date and every     *)
(* number of turns.  The loop is a state machine, so the induction over its*)
(* turns is the ordinary induction over steps.                             *)
(***************************************************************************)
EXTENDS MaterializeLoop, Cadence_proofs

(* The remainder test and the multiplication name the same dates.             *)
LEMMA OnCadenceIsSomeShipment ==
  ASSUME NEW a \in Int, NEW k \in Nat \ {0}, NEW d \in Int
  PROVE  OnCadence(a, k, d) <=>
           \E n \in Nat \ {0} : d = OccurrenceDate(a, k, n)
  <1>1. ASSUME OnCadence(a, k, d)
        PROVE  \E n \in Nat \ {0} : d = OccurrenceDate(a, k, n)
    <2> DEFINE n == (d - a) \div k
    <2>1. d - a \in Nat /\ d - a > 0 /\ (d - a) % k = 0
      BY <1>1, SMT DEF OnCadence
    <2>2. d - a = k * n /\ n \in Nat
      BY <2>1, SMTT(30)
    <2>3. n # 0
      <3> HIDE DEF n
      <3> QED BY <2>1, <2>2, SMTT(30)
    <2>4. d = OccurrenceDate(a, k, n)
      <3> HIDE DEF n
      <3>1. k * n \in Int
        BY <2>2, SMT
      <3> QED BY <2>2, <3>1, SMT DEF OccurrenceDate
    <2> HIDE DEF n
    <2> QED
      BY <2>2, <2>3, <2>4
  <1>2. ASSUME NEW n \in Nat \ {0}, d = OccurrenceDate(a, k, n)
        PROVE  OnCadence(a, k, d)
    <2>1. d - a = k * n /\ k * n \in Nat /\ k * n > 0
      BY <1>2, SMTT(30) DEF OccurrenceDate
    <2>2. (k * n) % k = 0
      BY SMTT(30)
    <2> QED
      BY <2>1, <2>2, SMT DEF OnCadence
  <1> QED
    BY <1>1, <1>2

(* Of the dates after c and up to the next shipment, only that shipment is on *)
(* the cadence.                                                               *)
LEMMA NothingOnCadenceBeforeNext ==
  ASSUME NEW a \in Int, NEW k \in Nat \ {0}, NEW c \in Int, NEW d \in Int,
         d > c, d <= NextOccurrenceAfter(a, k, c)
  PROVE  OnCadence(a, k, d) <=> d = NextOccurrenceAfter(a, k, c)
  <1> DEFINE n == NextSequence(a, k, c)
  <1>1. /\ n \in Nat \ {0}
        /\ NextOccurrenceAfter(a, k, c) = OccurrenceDate(a, k, n)
        /\ n > 1 => OccurrenceDate(a, k, n - 1) <= c
    BY NextOccurrenceIsFirstAfter DEF NextOccurrenceAfter
  <1> HIDE DEF n
  <1>2. ASSUME NEW m \in Nat \ {0}, d = OccurrenceDate(a, k, m)
        PROVE  m = n
    <2>1. CASE m < n
      <3>1. CASE m = n - 1
        BY <1>1, <1>2, <2>1, <3>1, SMT
      <3>2. CASE m < n - 1
        <4>1. OccurrenceDate(a, k, m) + k <= OccurrenceDate(a, k, n - 1)
          <5>1. n - 1 \in Int /\ m \in Int
            BY <1>1, SMT
          <5> QED
            BY <3>2, <5>1, ShipmentsAscend, Zenon
        <4>2. OccurrenceDate(a, k, n - 1) \in Int
          BY <1>1, NextShipmentIsOneIntervalOn
        <4> QED
          BY <1>1, <1>2, <2>1, <4>1, <4>2, SMT
      <3> QED
        BY <1>1, <2>1, <3>1, <3>2, SMT
    <2>2. CASE n < m
      <3>1. OccurrenceDate(a, k, n) + k <= OccurrenceDate(a, k, m)
        BY <1>1, <2>2, ShipmentsAscend
      <3>2. OccurrenceDate(a, k, n) \in Int
        BY <1>1, NextShipmentIsOneIntervalOn
      <3> QED
        BY <1>1, <1>2, <3>1, <3>2, SMT
    <2> QED
      BY <1>1, <2>1, <2>2, SMT
  <1> QED
    BY <1>1, <1>2, OnCadenceIsSomeShipment

-----------------------------------------------------------------------------
LoopStart == Start(today, latest)

\* The inductive strengthening: where the cursor stands relative to what has been
\* planned, and that everything planned lies between the start and the cursor.
CursorInv ==
  /\ cursor = IF dates = <<>> THEN LoopStart ELSE dates[Len(dates)]
  /\ cursor >= LoopStart
  /\ \A i \in DOMAIN dates : dates[i] > LoopStart /\ dates[i] <= cursor

IInv == TypeOK /\ CursorInv /\ NoDrift /\ WalksEveryCadenceDate

(* The constants a run can hold are numbers, and an interval is positive.     *)
LEMMA InputsAreNumbers ==
  ASSUME TypeOK
  PROVE  /\ anchor \in Int /\ interval \in Nat \ {0} /\ today \in Int
         /\ LoopStart \in Int /\ LoopStart >= today
         /\ latest # NoDate => latest \in Int /\ LoopStart >= latest
  BY LoopAssumption, SMT DEF TypeOK, LoopStart, Start

(* Before the first turn the loop stands at its start and has planned nothing.*)
LEMMA InitIInv == Init => IInv
  <1> SUFFICES ASSUME Init PROVE IInv
    OBVIOUS
  <1>1. TypeOK
    BY LoopAssumption, SMT DEF Init, TypeOK, Start
  <1>2. LoopStart \in Int /\ cursor = LoopStart /\ dates = <<>>
    BY <1>1, InputsAreNumbers DEF Init, LoopStart
  <1>3. DOMAIN dates = {}
    BY <1>2
  <1> QED
    BY <1>1, <1>2, <1>3, SMT
    DEF IInv, CursorInv, NoDrift, WalksEveryCadenceDate, LoopStart

(* One turn of the loop keeps the whole invariant.                            *)
LEMMA PlanKeepsIInv == IInv /\ Plan => IInv'
  <1> SUFFICES ASSUME IInv, Plan PROVE IInv'
    OBVIOUS
  <1> DEFINE k == Len(dates)
  <1>1. /\ TypeOK /\ CursorInv /\ NoDrift /\ WalksEveryCadenceDate
        /\ anchor \in Int /\ interval \in Nat \ {0} /\ today \in Int
        /\ LoopStart \in Int /\ LoopStart >= today
        /\ latest # NoDate => latest \in Int /\ LoopStart >= latest
        /\ cursor \in Int /\ dates \in Seq(Int) /\ k \in Nat
    BY InputsAreNumbers DEF IInv, TypeOK
  <1>2. /\ cursor' = NextOccurrenceAfter(anchor, interval, cursor)
        /\ dates' = Append(dates, cursor') /\ k < missing
        /\ UNCHANGED <<anchor, interval, today, latest, missing>>
    BY DEF Plan, inputs
  <1>3. LoopStart' = LoopStart
    BY <1>2 DEF LoopStart
  <1>4. cursor' \in Int /\ cursor' > cursor
    BY <1>1, <1>2, NextOccurrenceIsFirstAfter
  <1>5. /\ Len(dates') = k + 1 /\ dates' # <<>> /\ dates' \in Seq(Int)
        /\ dates'[k + 1] = cursor'
        /\ DOMAIN dates = 1..k /\ DOMAIN dates' = 1..(k + 1)
        /\ \A i \in 1..k : dates'[i] = dates[i]
    BY <1>1, <1>2, <1>4
  <1>6. TypeOK'
    BY <1>1, <1>2, <1>4, <1>5, SMT DEF TypeOK
  <1>7. CursorInv'
    BY <1>1, <1>3, <1>4, <1>5, SMT DEF CursorInv
  <1>8. NoDrift'
    <2> DEFINE n == NextSequence(anchor, interval, LoopStart)
    <2>1. n \in Nat \ {0}
      BY <1>1, NextOccurrenceIsFirstAfter
    <2>2. dates'[k + 1] = PlannedDate(anchor, interval, LoopStart, k + 1)
      <3>1. CASE k = 0
        <4>1. dates = <<>>
          BY <1>1, <3>1
        <4>2. cursor' = OccurrenceDate(anchor, interval, n)
          BY <1>1, <1>2, <4>1 DEF CursorInv, NextOccurrenceAfter
        <4>3. n + (k + 1) - 1 = n
          BY <2>1, <3>1, SMT
        <4> QED
          BY <1>5, <4>2, <4>3 DEF PlannedDate
      <3>2. CASE k > 0
        <4>1. dates # <<>> /\ k \in DOMAIN dates
          BY <1>1, <1>5, <3>2, SMT
        <4>2. cursor = OccurrenceDate(anchor, interval, n + k - 1)
          BY <1>1, <4>1 DEF CursorInv, NoDrift, PlannedDate, LoopStart
        <4>3. n + k - 1 \in Nat \ {0} /\ (n + k - 1) + 1 = n + (k + 1) - 1
          <5> HIDE DEF n, k
          <5> QED BY <1>1, <2>1, <3>2, SMT
        <4>4. NextSequence(anchor, interval, cursor) = (n + k - 1) + 1
          BY <1>1, <4>2, <4>3, AskingAgainStepsOneShipment
        <4> QED
          BY <1>2, <1>5, <4>3, <4>4 DEF PlannedDate, NextOccurrenceAfter
      <3> QED
        BY <1>1, <3>1, <3>2, SMT
    <2>3. \A i \in 1..(k + 1) : i \in 1..k \/ i = k + 1
      BY <1>1, SMT
    <2> QED
      BY <1>1, <1>2, <1>3, <1>5, <2>2, <2>3 DEF NoDrift, LoopStart
  <1>9. WalksEveryCadenceDate'
    <2>1. ASSUME NEW d \in (LoopStart + 1)..cursor'
          PROVE  OnCadence(anchor, interval, d) <=>
                   \E i \in DOMAIN dates' : dates'[i] = d
      <3>1. d \in Int /\ d > LoopStart /\ d <= cursor'
        BY <1>1, <1>4, <2>1, SMT
      <3>2. CASE d <= cursor
        <4>1. OnCadence(anchor, interval, d) <=> \E i \in 1..k : dates[i] = d
          <5>1. d \in (LoopStart + 1)..cursor
            BY <1>1, <3>1, <3>2, SMT
          <5> QED
            BY <1>1, <1>5, <5>1 DEF WalksEveryCadenceDate, LoopStart
        <4>2. dates'[k + 1] # d
          BY <1>1, <1>4, <1>5, <3>1, <3>2, SMT
        <4>3. \A i : i \in 1..(k + 1) <=> i \in 1..k \/ i = k + 1
          BY <1>1, SMT
        <4> QED
          BY <1>5, <4>1, <4>2, <4>3
      <3>3. CASE d > cursor
        <4>1. OnCadence(anchor, interval, d) <=> d = cursor'
          BY <1>1, <1>2, <3>1, <3>3, NothingOnCadenceBeforeNext
        <4>2. \A i \in 1..k : dates'[i] # d
          <5>1. \A i \in 1..k : dates[i] \in Int
            BY <1>1
          <5>2. \A i \in 1..k : dates[i] <= cursor
            BY <1>1, <1>5, Zenon DEF CursorInv
          <5> QED
            BY <1>1, <1>5, <3>1, <3>3, <5>1, <5>2, SMT
        <4>3. \A i : i \in 1..(k + 1) <=> i \in 1..k \/ i = k + 1
          BY <1>1, SMT
        <4> QED
          BY <1>5, <4>1, <4>2, <4>3
      <3> QED
        BY <1>1, <3>1, <3>2, <3>3, SMT
    <2>2. \A i \in DOMAIN dates' :
            dates'[i] > today /\ (latest # NoDate => dates'[i] > latest)
      <3>1. \A i \in DOMAIN dates' : dates'[i] > LoopStart /\ dates'[i] \in Int
        BY <1>3, <1>5, <1>7 DEF CursorInv
      <3> QED
        BY <1>1, <3>1, SMT
    <2> QED
      BY <1>2, <1>3, <2>1, <2>2 DEF WalksEveryCadenceDate, LoopStart
  <1> QED
    BY <1>6, <1>7, <1>8, <1>9 DEF IInv

(* The loop's whole invariant, in every run of every length.                  *)
LEMMA LoopInvariant == Spec => []IInv
  <1>1. IInv /\ UNCHANGED vars => IInv'
    BY DEF IInv, TypeOK, CursorInv, NoDrift, WalksEveryCadenceDate, LoopStart,
           vars, inputs
  <1> QED
    BY InitIInv, PlanKeepsIInv, <1>1, PTL DEF Spec, Next

(* The cursor stays a date and the dates planned a sequence of dates.         *)
THEOREM LoopTypeCorrect == Spec => []TypeOK
  BY LoopInvariant, PTL DEF IInv

(* The loop's dates are those of one anchor-relative formula: no number of    *)
(* turns makes a later order drift from anchor + n intervals.                 *)
THEOREM LoopNeverDrifts == Spec => []NoDrift
  BY LoopInvariant, PTL DEF IInv

(* The loop plans every cadence date ahead of its start, in order, and        *)
(* nothing else.                                                              *)
THEOREM LoopWalksTheCadence == Spec => []WalksEveryCadenceDate
  BY LoopInvariant, PTL DEF IInv
=============================================================================

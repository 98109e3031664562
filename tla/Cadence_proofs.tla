--------------------------- MODULE Cadence_proofs ---------------------------
(***************************************************************************)
(* What the cadence arithmetic guarantees, for every anchor, every         *)
(* interval and every date.                                                *)
(***************************************************************************)
EXTENDS Cadence, TLAPS

(* Integer division brackets what it divides: the fact NextOccurrenceAfter    *)
(* relies on when it divides the elapsed days by the interval.                *)
LEMMA DivisionBrackets ==
  ASSUME NEW e \in Nat, NEW k \in Nat \ {0}
  PROVE  /\ e \div k \in Nat
         /\ k * (e \div k) <= e
         /\ e < k * (e \div k) + k
  BY SMTT(30)

(* Multiplying out one more interval: shipment n+1 is one interval after      *)
(* shipment n.                                                                *)
LEMMA NextShipmentIsOneIntervalOn ==
  ASSUME NEW a \in Int, NEW k \in Int, NEW n \in Int
  PROVE  /\ OccurrenceDate(a, k, n) \in Int
         /\ OccurrenceDate(a, k, n + 1) = OccurrenceDate(a, k, n) + k
  BY SMTT(30) DEF OccurrenceDate

(* A later shipment has a later date.                                         *)
LEMMA ShipmentsAscend ==
  ASSUME NEW a \in Int, NEW k \in Nat \ {0}, NEW m \in Int, NEW n \in Int, m < n
  PROVE  OccurrenceDate(a, k, m) + k <= OccurrenceDate(a, k, n)
  BY SMTT(30) DEF OccurrenceDate

(* NextOccurrenceAfter lands strictly after the date, on the cadence, and on  *)
(* the first such shipment: the one before it is not after the date.          *)
THEOREM NextOccurrenceIsFirstAfter ==
  ASSUME NEW a \in Int, NEW k \in Nat \ {0}, NEW after \in Int
  PROVE  /\ NextSequence(a, k, after) \in Nat \ {0}
         /\ NextOccurrenceAfter(a, k, after) \in Int
         /\ NextOccurrenceAfter(a, k, after) > after
         /\ NextSequence(a, k, after) > 1 =>
              OccurrenceDate(a, k, NextSequence(a, k, after) - 1) <= after
  <1> DEFINE e == after - a
             q == e \div k
  <1>1. CASE e < 0
    <2>1. NextSequence(a, k, after) = 1
      BY <1>1 DEF NextSequence
    <2>2. OccurrenceDate(a, k, 1) = a + k
      BY SMT DEF OccurrenceDate
    <2> QED
      BY <1>1, <2>1, <2>2, SMT DEF NextOccurrenceAfter
  <1>2. CASE e >= 0
    <2>1. q \in Nat /\ k * q <= e /\ e < k * q + k
      <3>1. e \in Nat
        BY <1>2, SMT
      <3> QED
        BY <3>1, DivisionBrackets
    <2>2. OccurrenceDate(a, k, q) = a + k * q
      BY DEF OccurrenceDate
    <2>3. OccurrenceDate(a, k, q + 1) = a + k * q + k
      <3> HIDE DEF q
      <3>1. OccurrenceDate(a, k, q + 1) = OccurrenceDate(a, k, q) + k
        BY <2>1, NextShipmentIsOneIntervalOn
      <3> QED
        BY <2>2, <3>1
    <2>4. OccurrenceDate(a, k, q + 1) > after
      <3> HIDE DEF q
      <3>1. k * q \in Int
        BY <2>1, SMT
      <3> QED
        BY <2>1, <2>3, <3>1, SMT
    <2>5. NextSequence(a, k, after) = q + 1
      BY <1>2, <2>4, SMT DEF NextSequence
    <2>6. OccurrenceDate(a, k, q) <= after
      <3> HIDE DEF q
      <3>1. k * q \in Int
        BY <2>1, SMT
      <3> QED
        BY <2>1, <2>2, <3>1, SMT
    <2>7. OccurrenceDate(a, k, q + 1) \in Int
      BY <2>1, NextShipmentIsOneIntervalOn
    <2>8. (q + 1) - 1 = q
      BY <2>1, SMT
    <2> HIDE DEF q
    <2> QED
      BY <2>1, <2>4, <2>5, <2>6, <2>7, <2>8, SMT DEF NextOccurrenceAfter
  <1> QED
    BY <1>1, <1>2, SMT

(* Asking again from the date it returned gives the next shipment: what makes *)
(* the materializer's walk the arithmetic progression it is meant to be.      *)
THEOREM AskingAgainStepsOneShipment ==
  ASSUME NEW a \in Int, NEW k \in Nat \ {0}, NEW n \in Nat \ {0}
  PROVE  NextSequence(a, k, OccurrenceDate(a, k, n)) = n + 1
  <1> DEFINE after == OccurrenceDate(a, k, n)
             m == NextSequence(a, k, after)
  <1>1. after \in Int
    BY NextShipmentIsOneIntervalOn
  <1>2. /\ m \in Nat \ {0}
        /\ OccurrenceDate(a, k, m) > after
        /\ m > 1 => OccurrenceDate(a, k, m - 1) <= after
    BY <1>1, NextOccurrenceIsFirstAfter DEF NextOccurrenceAfter
  <1>3. ~(m < n) /\ m # n
    <2>1. CASE m < n
      <3> HIDE DEF m
      <3>1. OccurrenceDate(a, k, m) + k <= OccurrenceDate(a, k, n)
        BY <1>2, <2>1, ShipmentsAscend
      <3>2. OccurrenceDate(a, k, m) \in Int
        BY <1>2, NextShipmentIsOneIntervalOn
      <3> QED
        BY <1>1, <1>2, <3>1, <3>2, SMT
    <2>2. m # n
      BY <1>1, <1>2, SMT
    <2> QED
      BY <2>1, <2>2
  <1>4. ~(m > n + 1)
    <2> SUFFICES ASSUME m > n + 1 PROVE FALSE
      OBVIOUS
    <2> HIDE DEF m
    <2>1. m - 1 \in Int /\ n < m - 1 /\ m > 1
      BY <1>2, SMT
    <2>2. OccurrenceDate(a, k, n) + k <= OccurrenceDate(a, k, m - 1)
      BY <2>1, ShipmentsAscend
    <2>3. OccurrenceDate(a, k, m - 1) \in Int
      BY <2>1, NextShipmentIsOneIntervalOn
    <2> QED
      BY <1>1, <1>2, <2>1, <2>2, <2>3, SMT
  <1> HIDE DEF m
  <1>5. m = n + 1
    BY <1>2, <1>3, <1>4, SMT
  <1> QED
    BY <1>5 DEF m
=============================================================================

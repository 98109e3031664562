-------------------------- MODULE Schedule_proofs --------------------------
(***************************************************************************)
(* The schedule's invariants, for every anchor, interval, deferral, number *)
(* of keys and horizon, and with no bound on days or orders that matters.  *)
(*                                                                         *)
(* Every transaction is a composition of store operators, so the proof     *)
(* goes the same way: what each operator returns on well-formed rows       *)
(* first, then each service closure from the operators it is built of, and *)
(* the transitions last.                                                   *)
(***************************************************************************)
EXTENDS Schedule, Cadence_proofs, FiniteSetTheorems, FunctionTheorems,
        SequenceTheorems, WellFoundedInduction, TLAPS

Order == [date : Int, status : OccurrenceStatus]

\* The facts a transaction must re-establish, of the rows it commits.
Quiet(d) ==
  d.status \in {"paused", "canceled"} =>
    WithStatus(d, Unsettled) = {} /\ d.nextRun = NoDate

Agrees(d) ==
  /\ d.log.status = d.status
  /\ d.log.interval = d.interval /\ d.log.anchor = d.anchor
  /\ d.log.occ = d.occ

-----------------------------------------------------------------------------
(* Finite sets of dates.                                                     *)

(* A finite, non-empty set of dates has a latest one.                        *)
LEMMA FiniteHasMax ==
  ASSUME NEW S \in SUBSET Int, IsFiniteSet(S), S # {}
  PROVE  \E m \in S : \A x \in S : m >= x
  <1> DEFINE Bad(U) == U # {} /\ ~(\E m \in U : \A x \in U : m >= x)
             T == {n \in Nat : \E U \in SUBSET S : Bad(U) /\ Cardinality(U) = n}
  <1>1. SUFFICES ASSUME Bad(S) PROVE FALSE
    OBVIOUS
  <1>2. Cardinality(S) \in T
    BY <1>1, FS_CardinalityType
  <1>3. PICK n \in T : \A k \in T : ~(<<k, n>> \in OpToRel(<, Nat))
    <2> HIDE DEF T
    <2>1. T \subseteq Nat
      BY DEF T
    <2> QED
      BY <1>2, <2>1, WFMin, NatLessThanWellFounded
  <1>4. PICK U \in SUBSET S : Bad(U) /\ Cardinality(U) = n
    BY <1>3
  <1>5. PICK u \in U : TRUE
    BY <1>4
  <1> DEFINE V == U \ {u}
  <1>6. IsFiniteSet(U)
    BY FS_Subset
  <1>7. Cardinality(V) = n - 1 /\ Cardinality(V) \in Nat /\ n \in Nat
    <2>1. IsFiniteSet(V) /\ Cardinality(V) = Cardinality(U) - 1
      BY <1>5, <1>6, FS_RemoveElement
    <2> QED
      BY <2>1, <1>3, <1>4, FS_CardinalityType
  <1>8. Cardinality(V) \notin T
    <2>1. <<Cardinality(V), n>> \in OpToRel(<, Nat)
      BY <1>7, SMT DEF OpToRel
    <2> QED
      BY <1>3, <2>1
  <1>9. ~Bad(V)
    BY <1>7, <1>8
  <1>10. CASE V = {}
    <2>1. U = {u} /\ u \in Int
      BY <1>5, <1>10
    <2> QED
      BY <1>4, <2>1, SMT
  <1>11. CASE V # {}
    <2>1. PICK v \in V : \A x \in V : v >= x
      BY <1>9, <1>11
    <2>2. u \in Int /\ v \in Int /\ v \in U /\ U \subseteq Int
      BY <1>5
    <2>3. CASE u >= v
      BY <1>4, <1>5, <2>1, <2>2, <2>3, SMT
    <2>4. CASE v >= u
      BY <1>4, <1>5, <2>1, <2>2, <2>4, SMT
    <2> QED
      BY <2>2, <2>3, <2>4, SMT
  <1> QED
    BY <1>10, <1>11

(* Negating turns a latest date into an earliest one.                        *)
LEMMA FiniteHasMin ==
  ASSUME NEW S \in SUBSET Int, IsFiniteSet(S), S # {}
  PROVE  \E m \in S : \A x \in S : m =< x
  <1> DEFINE N == {0 - x : x \in S}
             f == [x \in S |-> 0 - x]
  <1>1. f \in Surjection(S, N)
    BY DEF Surjection
  <1>2. IsFiniteSet(N)
    BY <1>1, FS_Surjection
  <1>3. N \in SUBSET Int /\ N # {}
    BY SMT
  <1>4. PICK p \in N : \A x \in N : p >= x
    <2> HIDE DEF N
    <2> QED BY <1>2, <1>3, FiniteHasMax
  <1>5. PICK m \in S : p = 0 - m
    BY <1>4
  <1>6. ASSUME NEW x \in S PROVE m =< x
    BY <1>4, <1>5, SMT
  <1> QED
    BY <1>5, <1>6

(* Max picks the latest of a finite set of dates.                            *)
LEMMA MaxOfDates ==
  ASSUME NEW S \in SUBSET Int, IsFiniteSet(S), S # {}
  PROVE  Max(S) \in S /\ \A x \in S : Max(S) >= x
  <1>1. \E m \in S : \A x \in S : m >= x
    BY FiniteHasMax
  <1> QED
    BY <1>1 DEF Max

(* Min picks the earliest of a finite set of dates.                          *)
LEMMA MinOfDates ==
  ASSUME NEW S \in SUBSET Int, IsFiniteSet(S), S # {}
  PROVE  Min(S) \in S /\ \A x \in S : Min(S) =< x
  <1>1. \E m \in S : \A x \in S : m =< x
    BY FiniteHasMin
  <1> QED
    BY <1>1 DEF Min


-----------------------------------------------------------------------------
(* Order sequences.                                                          *)

\* Nothing settled in s is rewritten in t, and no order is lost.
Kept(s, t) ==
  /\ DOMAIN s \subseteq DOMAIN t
  /\ \A i \in DOMAIN s : s[i].status \notin Unsettled => t[i] = s[i]

(* An order sequence is numbered 1 to its length, each number an order.      *)
LEMMA OrdersOf ==
  ASSUME NEW s \in Seq(Order)
  PROVE  /\ Len(s) \in Nat
         /\ DOMAIN s = 1..Len(s)
         /\ \A i \in DOMAIN s : /\ s[i] \in Order
                                /\ s[i].date \in Int
                                /\ s[i].status \in OccurrenceStatus
  <1>1. Len(s) \in Nat /\ DOMAIN s = 1..Len(s) /\ s \in [1..Len(s) -> Order]
    BY LenProperties
  <1>2. \A i \in DOMAIN s : s[i] \in Order
    BY <1>1
  <1> QED
    BY <1>1, <1>2 DEF Order

(* Replacing one order leaves the others and their numbers alone.            *)
LEMMA OneOrderReplaced ==
  ASSUME NEW s \in Seq(Order), NEW i \in DOMAIN s, NEW x \in Order
  PROVE  /\ [s EXCEPT ![i] = x] \in Seq(Order)
         /\ DOMAIN [s EXCEPT ![i] = x] = DOMAIN s
         /\ s[i].status \in Unsettled => Kept(s, [s EXCEPT ![i] = x])
  <1>1. i \in 1..Len(s)
    BY OrdersOf
  <1>2. [s EXCEPT ![i] = x] \in Seq(Order)
    BY <1>1, ExceptSeq
  <1> QED
    BY <1>2 DEF Kept

(* Canceling by status touches exactly the orders that have it.              *)
LEMMA CancelingByStatus ==
  ASSUME NEW s \in Seq(Order), NEW statuses \in SUBSET Unsettled
  PROVE  /\ CanceledRows(s, statuses) \in Seq(Order)
         /\ DOMAIN CanceledRows(s, statuses) = DOMAIN s
         /\ \A i \in DOMAIN s : CanceledRows(s, statuses)[i].status \notin statuses
         /\ Kept(s, CanceledRows(s, statuses))
  <1> DEFINE t == CanceledRows(s, statuses)
  <1>1. Len(s) \in Nat /\ DOMAIN s = 1..Len(s)
    BY OrdersOf
  <1>2. DOMAIN t = DOMAIN s
    BY DEF CanceledRows
  <1>3. ASSUME NEW i \in DOMAIN s
        PROVE  /\ t[i] \in Order
               /\ t[i].status \notin statuses
               /\ s[i].status \notin Unsettled => t[i] = s[i]
    <2>1. s[i] \in Order
      BY <1>3, OrdersOf
    <2>2. t[i] = IF s[i].status \in statuses
                 THEN [s[i] EXCEPT !.status = "canceled"] ELSE s[i]
      BY <1>3 DEF CanceledRows
    <2>3. CASE s[i].status \in statuses
      <3>1. /\ t[i] = [s[i] EXCEPT !.status = "canceled"]
            /\ t[i] \in Order /\ t[i].status = "canceled"
        BY <2>1, <2>2, <2>3 DEF Order, OccurrenceStatus
      <3> QED
        BY <2>3, <3>1 DEF Unsettled
    <2> QED
      BY <2>1, <2>2, <2>3
  <1>4. t \in [1..Len(s) -> Order]
    BY <1>1, <1>2, <1>3 DEF CanceledRows
  <1>5. t \in Seq(Order)
    BY <1>1, <1>4, SeqDef
  <1> QED
    BY <1>2, <1>3, <1>5 DEF Kept

(* Appending the run's new orders keeps all that was there.                  *)
LEMMA OrdersAppended ==
  ASSUME NEW s \in Seq(Order), NEW t \in Seq(Order)
  PROVE  s \o t \in Seq(Order) /\ Kept(s, s \o t)
  <1>1. /\ s \o t \in Seq(Order)
        /\ Len(s \o t) = Len(s) + Len(t)
        /\ \A i \in 1..Len(s) + Len(t) :
             (s \o t)[i] = IF i <= Len(s) THEN s[i] ELSE t[i - Len(s)]
    BY ConcatProperties
  <1>2. /\ Len(s) \in Nat /\ DOMAIN s = 1..Len(s)
        /\ Len(t) \in Nat /\ DOMAIN (s \o t) = 1..Len(s \o t)
    BY <1>1, OrdersOf
  <1>3. DOMAIN s \subseteq DOMAIN (s \o t)
    BY <1>1, <1>2, SMT
  <1>4. \A i \in DOMAIN s : (s \o t)[i] = s[i]
    BY <1>1, <1>2, SMT
  <1> QED
    BY <1>1, <1>3, <1>4 DEF Kept

(* What two changes in a row keep, both together keep.                       *)
LEMMA KeptTransitive ==
  ASSUME NEW s, NEW t, NEW u, Kept(s, t), Kept(t, u)
  PROVE  Kept(s, u)
  <1>1. DOMAIN s \subseteq DOMAIN u
    BY DEF Kept
  <1>2. ASSUME NEW i \in DOMAIN s, s[i].status \notin Unsettled
        PROVE  u[i] = s[i]
    <2>1. t[i] = s[i] /\ i \in DOMAIN t
      BY <1>2 DEF Kept
    <2> QED
      BY <1>2, <2>1 DEF Kept
  <1> QED
    BY <1>1, <1>2 DEF Kept

-----------------------------------------------------------------------------
(* The store's statements.                                                   *)

(* The parts of a row the lemmas below keep needing.                         *)
LEMMA RowsHaveOrders ==
  ASSUME NEW d \in Rows
  PROVE  /\ d.occ \in Seq(Order) /\ d.log \in Log /\ d.log.occ \in Seq(Order)
         /\ d.interval \in 7..180 /\ d.anchor \in Int
  BY DEF Rows, Log, Occurrences, Order

(* Any selection of a schedule's orders is finite.                           *)
LEMMA SomeOfTheOrdersAreFinite ==
  ASSUME NEW n \in Nat, NEW J, J \subseteq 1..n
  PROVE  IsFiniteSet(J)
  <1>1. IsFiniteSet(1..n)
    BY FS_Interval, SMT
  <1> QED
    BY <1>1, FS_Subset

(* The dates a query selects are finitely many dates (DatesOf).              *)
LEMMA DatesOfAreDates ==
  ASSUME NEW d \in Rows, NEW statuses, NEW after \in Int
  PROVE  DatesOf(d, statuses, after) \in SUBSET Int /\ IsFiniteSet(DatesOf(d, statuses, after))
  <1> DEFINE J == {j \in WithStatus(d, statuses) : d.occ[j].date > after}
             f == [i \in J |-> d.occ[i].date]
             D == DatesOf(d, statuses, after)
  <1>1. J \subseteq 1..Len(d.occ) /\ Len(d.occ) \in Nat
    BY RowsHaveOrders, OrdersOf DEF WithStatus
  <1>2. IsFiniteSet(J)
    <2> HIDE DEF J
    <2> QED BY <1>1, SomeOfTheOrdersAreFinite
  <1>3. f \in Surjection(J, D)
    BY DEF Surjection, DatesOf
  <1>4. IsFiniteSet(D)
    BY <1>2, <1>3, FS_Surjection
  <1>5. D \in SUBSET Int
    BY RowsHaveOrders, OrdersOf DEF DatesOf, WithStatus
  <1> QED
    BY <1>4, <1>5

(* The last placed order's date, if there is one, is a date.                 *)
LEMMA LastPlacedDates ==
  ASSUME NEW d \in Rows
  PROVE  LastPlacedDate(d) \in SUBSET Int /\ IsFiniteSet(LastPlacedDate(d))
  <1> DEFINE J == WithStatus(d, {"placed"})
             f == [i \in J |-> d.occ[i].date]
             D == LastPlacedDate(d)
  <1>1. J \subseteq 1..Len(d.occ) /\ Len(d.occ) \in Nat
    BY RowsHaveOrders, OrdersOf DEF WithStatus
  <1>2. IsFiniteSet(J)
    <2> HIDE DEF J
    <2> QED BY <1>1, SomeOfTheOrdersAreFinite
  <1>3. f \in Surjection(J, D)
    BY DEF Surjection, LastPlacedDate
  <1>4. IsFiniteSet(D)
    BY <1>2, <1>3, FS_Surjection
  <1>5. D \in SUBSET Int
    BY RowsHaveOrders, OrdersOf DEF LastPlacedDate, WithStatus
  <1> QED
    BY <1>4, <1>5

(* CountFuturePlanned counts.                                                *)
LEMMA CountIsNatural ==
  ASSUME NEW d \in Rows, NEW after \in Int
  PROVE  CountFuturePlanned(d, after) \in Nat
  <1> DEFINE J == {i \in WithStatus(d, {"planned"}) : d.occ[i].date > after}
  <1>1. J \subseteq 1..Len(d.occ) /\ Len(d.occ) \in Nat
    BY RowsHaveOrders, OrdersOf DEF WithStatus
  <1>2. IsFiniteSet(J)
    <2> HIDE DEF J
    <2> QED BY <1>1, SomeOfTheOrdersAreFinite
  <1> QED
    BY <1>2, FS_CardinalityType DEF CountFuturePlanned

(* Rewriting the orders of a log, or of the rows, leaves the rest well-formed. *)
LEMMA LogRewritten ==
  ASSUME NEW l \in Log, NEW q \in Seq(Order)
  PROVE  /\ [l EXCEPT !.occ = q] \in Log
         /\ [l EXCEPT !.occ = q].occ = q
  <1>1. Occurrences = Seq(Order)
    BY DEF Occurrences, Order
  <1> QED
    BY <1>1 DEF Log

(* Rows whose orders and log are rewritten alike go on agreeing.             *)
LEMMA RowsRewritten ==
  ASSUME NEW d \in Rows, NEW q \in Seq(Order), NEW l \in Log,
         l.occ = q, l.status = d.status,
         l.interval = d.interval, l.anchor = d.anchor
  PROVE  LET r == [d EXCEPT !.occ = q, !.log = l]
         IN  /\ r \in Rows /\ Agrees(r)
             /\ r.occ = q /\ r.status = d.status /\ r.nextRun = d.nextRun
  <1>1. Occurrences = Seq(Order)
    BY DEF Occurrences, Order
  <1> QED
    BY <1>1 DEF Rows, Agrees

(* Refreshing next_run_date changes that column and no other.                *)
LEMMA RefreshIsOneColumn ==
  ASSUME NEW d \in Rows, NEW runDate \in Int
  PROVE  /\ RefreshNextRunDate(d, runDate) \in Rows
         /\ RefreshNextRunDate(d, runDate).status = d.status
         /\ RefreshNextRunDate(d, runDate).occ = d.occ
         /\ Agrees(d) => Agrees(RefreshNextRunDate(d, runDate))
  <1> DEFINE ahead == DatesOf(d, {"planned"}, runDate)
             next == IF ahead = {} THEN NoDate ELSE Min(ahead)
  <1>1. next \in Int \union {NoDate}
    <2> HIDE DEF ahead
    <2>1. ahead \in SUBSET Int /\ IsFiniteSet(ahead)
      BY DatesOfAreDates DEF ahead
    <2> QED
      BY <2>1, MinOfDates
  <1>2. RefreshNextRunDate(d, runDate) = [d EXCEPT !.nextRun = next]
    BY DEF RefreshNextRunDate, UpdateScheduleNextRun
  <1> HIDE DEF next
  <1> QED
    BY <1>1, <1>2 DEF Rows, Agrees

(* Whatever date a run starts from, it is a date, and not before the run.    *)
LEMMA StartIsADate ==
  ASSUME NEW d \in Rows, NEW runDate \in Int
  PROVE  StartOfRun(d, runDate) \in Int /\ StartOfRun(d, runDate) >= runDate
  <1> DEFINE D == {runDate} \union DatesOf(d, Unsettled, runDate)
  <1>1. DatesOf(d, Unsettled, runDate) \in SUBSET Int
        /\ IsFiniteSet(DatesOf(d, Unsettled, runDate))
    BY DatesOfAreDates
  <1>2. D \in SUBSET Int /\ D # {} /\ runDate \in D
    BY <1>1
  <1>3. IsFiniteSet(D)
    <2>1. D = DatesOf(d, Unsettled, runDate) \cup {runDate}
      OBVIOUS
    <2> QED
      BY <1>1, <2>1, FS_AddElement
  <1>4. Max(D) \in D /\ \A x \in D : Max(D) >= x
    <2> HIDE DEF D
    <2> QED BY <1>2, <1>3, MaxOfDates
  <1>5. Max(D) \in Int /\ Max(D) >= runDate
    <2> HIDE DEF D
    <2> QED BY <1>2, <1>4
  <1> QED
    BY <1>5 DEF StartOfRun

\* The orders a run plans, and the rows it has before it refreshes next_run_date.
PlannedOrders(d, runDate) ==
  [i \in 1..(Horizon - CountFuturePlanned(d, runDate)) |->
     [date   |-> PlannedDate(d.anchor, d.interval, StartOfRun(d, runDate), i),
      status |-> "planned"]]

RunRows(d, runDate) ==
  [d EXCEPT !.occ = d.occ \o PlannedOrders(d, runDate),
            !.log = [d.log EXCEPT !.occ = d.log.occ \o PlannedOrders(d, runDate)]]

(* A run appends its orders to the rows and to the log, and refreshes.       *)
LEMMA RunAppends ==
  ASSUME NEW d \in Rows, NEW runDate \in Int, Agrees(d)
  PROVE  LET r == RunRows(d, runDate)
         IN  /\ Run(d, runDate) = RefreshNextRunDate(r, runDate)
             /\ PlannedOrders(d, runDate) \in Seq(Order)
             /\ r \in Rows /\ Agrees(r) /\ r.status = d.status
             /\ r.occ = d.occ \o PlannedOrders(d, runDate)
             /\ Kept(d.occ, r.occ)
  <1> DEFINE missing == Horizon - CountFuturePlanned(d, runDate)
             start   == StartOfRun(d, runDate)
             planned == [i \in 1..missing |->
                           [date   |-> PlannedDate(d.anchor, d.interval, start, i),
                            status |-> "planned"]]
             e       == [type |-> "occurrence.materialized", rows |-> planned]
             created == AppendEvent([d EXCEPT !.occ = @ \o planned], e)
  <1>1. missing \in Int
    BY CountIsNatural, ScheduleAssumption
  <1>2. ASSUME NEW i \in 1..missing
        PROVE  PlannedDate(d.anchor, d.interval, start, i) \in Int
    <2>1. start \in Int /\ d.anchor \in Int /\ d.interval \in 7..180
      BY StartIsADate, RowsHaveOrders
    <2> HIDE DEF start, missing
    <2>2. d.interval \in Nat \ {0} /\ i \in Int
      BY <1>1, <2>1
    <2>3. NextSequence(d.anchor, d.interval, start) \in Nat
      BY <2>1, <2>2, NextOccurrenceIsFirstAfter
    <2> DEFINE n == NextSequence(d.anchor, d.interval, start) + i - 1
    <2>4. n \in Int
      BY <2>2, <2>3
    <2>5. d.anchor + d.interval * n \in Int
      <3> HIDE DEF n
      <3> QED BY <2>1, <2>2, <2>4, SMT
    <2> QED
      BY <2>5 DEF PlannedDate, OccurrenceDate
  <1>3. planned \in Seq(Order)
    <2>1. \A i \in 1..missing : planned[i] \in Order
      BY <1>2 DEF Order, OccurrenceStatus, Unsettled
    <2> DEFINE n == IF missing >= 0 THEN missing ELSE 0
    <2>2. n \in Nat /\ 1..missing = 1..n
      <3> HIDE DEF missing
      <3> QED BY <1>1, SMT
    <2>3. planned \in [1..n -> Order]
      BY <2>1, <2>2
    <2> HIDE DEF n, planned
    <2> QED
      BY <2>2, <2>3, SeqDef
  <1> HIDE DEF planned
  <1>4. /\ d.occ \o planned \in Seq(Order) /\ Kept(d.occ, d.occ \o planned)
        /\ d.log.occ \o planned \in Seq(Order)
    BY <1>3, OrdersAppended, RowsHaveOrders
  <1>5. created = [d EXCEPT !.occ = d.occ \o planned,
                            !.log = [d.log EXCEPT !.occ = d.log.occ \o planned]]
    <2>1. d.log \in Log
      BY RowsHaveOrders
    <2>2. Replay(d.log, e) = [d.log EXCEPT !.occ = d.log.occ \o planned]
      BY <2>1 DEF Replay, Log
    <2> QED
      BY <2>2 DEF AppendEvent, Rows
  <1>6. created \in Rows /\ created.status = d.status /\ Agrees(created)
        /\ created.occ = d.occ \o planned
    <2> DEFINE q == d.occ \o planned
               l == [d.log EXCEPT !.occ = q]
    <2>1. d.log \in Log /\ d.log.occ = d.occ /\ q \in Seq(Order)
      BY <1>4, RowsHaveOrders DEF Agrees
    <2> HIDE DEF q
    <2>2. l \in Log /\ l.occ = q
      BY <2>1, LogRewritten
    <2>3. l.status = d.status /\ l.interval = d.interval /\ l.anchor = d.anchor
      BY <2>1 DEF Log, Agrees
    <2>4. created = [d EXCEPT !.occ = q, !.log = l]
      BY <1>5, <2>1 DEF q
    <2> HIDE DEF l, created
    <2> QED
      BY <2>1, <2>2, <2>3, <2>4, RowsRewritten DEF q
  <1>7. Run(d, runDate) = RefreshNextRunDate(created, runDate)
    BY DEF Run, planned
  <1>8. planned = PlannedOrders(d, runDate)
    BY DEF planned, PlannedOrders
  <1>9. created = RunRows(d, runDate)
    BY <1>5, <1>8 DEF RunRows
  <1> HIDE DEF created
  <1> QED
    BY <1>3, <1>4, <1>6, <1>7, <1>8, <1>9

(* A run on an active schedule commits well-formed rows that agree with the  *)
(* log it appends to, and rewrites nothing that was settled.                 *)
LEMMA RunCommits ==
  ASSUME NEW d \in Rows, NEW runDate \in Int, Agrees(d)
  PROVE  /\ Run(d, runDate) \in Rows
         /\ Run(d, runDate).status = d.status
         /\ Agrees(Run(d, runDate))
         /\ Kept(d.occ, Run(d, runDate).occ)
  <1> DEFINE r == RunRows(d, runDate)
  <1>1. /\ Run(d, runDate) = RefreshNextRunDate(r, runDate)
        /\ r \in Rows /\ Agrees(r) /\ r.status = d.status /\ Kept(d.occ, r.occ)
    BY RunAppends
  <1> HIDE DEF r
  <1> QED
    BY <1>1, RefreshIsOneColumn

-----------------------------------------------------------------------------
(* The service's closures.                                                   *)

\* What a transaction owes: well-formed rows its log agrees with, nothing
\* outstanding on a schedule it leaves inactive, nothing settled rewritten.
Commits(d, r) == r \in Rows /\ Agrees(r) /\ Quiet(r) /\ Kept(d.occ, r.occ)

\* The rows after an UPDATE of every column of the schedule and of its orders.
RowsWith(status, interval, anchor, next, until, q, log) ==
  [status |-> status, interval |-> interval, anchor |-> anchor,
   nextRun |-> next, pausedUntil |-> until, occ |-> q, log |-> log]

(* A row put together from well-formed columns is a row, and agrees.         *)
LEMMA RowsAssembled ==
  ASSUME NEW status \in ScheduleStatus, NEW interval \in 7..180, NEW anchor \in Int,
         NEW next \in Int \union {NoDate}, NEW until \in Int \union {NoDate},
         NEW q \in Seq(Order), NEW log \in Log,
         log.status = status, log.interval = interval, log.anchor = anchor,
         log.occ = q
  PROVE  LET r == RowsWith(status, interval, anchor, next, until, q, log)
         IN  r \in Rows /\ Agrees(r)
  BY DEF Rows, Agrees, RowsWith, Occurrences, Order

(* What each of the store's statements makes of the rows, column by column.  *)
LEMMA RowsAsColumns ==
  ASSUME NEW d \in Rows
  PROVE  d = RowsWith(d.status, d.interval, d.anchor, d.nextRun, d.pausedUntil, d.occ, d.log)
  BY DEF Rows, RowsWith

(* UpdateScheduleStatus writes status and paused_until.                      *)
LEMMA StatusByColumn ==
  ASSUME NEW s, NEW iv, NEW an, NEW nx, NEW un, NEW q, NEW l, NEW x, NEW y
  PROVE  UpdateScheduleStatus(RowsWith(s, iv, an, nx, un, q, l), x, y)
           = RowsWith(x, iv, an, nx, y, q, l)
  <1> DEFINE r == RowsWith(s, iv, an, nx, un, q, l)
  <1>1. UpdateScheduleStatus(r, x, y) = [[r EXCEPT !.status = x] EXCEPT !.pausedUntil = y]
    <2> HIDE DEF r
    <2> QED BY DEF UpdateScheduleStatus
  <1>2. [r EXCEPT !.status = x] = RowsWith(x, iv, an, nx, un, q, l)
    BY DEF RowsWith
  <1>3. [RowsWith(x, iv, an, nx, un, q, l) EXCEPT !.pausedUntil = y] = RowsWith(x, iv, an, nx, y, q, l)
    BY DEF RowsWith
  <1>4. UpdateScheduleStatus(r, x, y) = RowsWith(x, iv, an, nx, y, q, l)
    <2> HIDE DEF r
    <2> QED BY <1>1, <1>2, <1>3
  <1> QED
    BY <1>4

(* UpdateScheduleCadence writes the interval and the anchor.                 *)
LEMMA CadenceByColumn ==
  ASSUME NEW s, NEW iv, NEW an, NEW nx, NEW un, NEW q, NEW l, NEW x, NEW y
  PROVE  UpdateScheduleCadence(RowsWith(s, iv, an, nx, un, q, l), x, y)
           = RowsWith(s, x, y, nx, un, q, l)
  <1> DEFINE r == RowsWith(s, iv, an, nx, un, q, l)
  <1>1. UpdateScheduleCadence(r, x, y) = [[r EXCEPT !.interval = x] EXCEPT !.anchor = y]
    <2> HIDE DEF r
    <2> QED BY DEF UpdateScheduleCadence
  <1>2. [r EXCEPT !.interval = x] = RowsWith(s, x, an, nx, un, q, l)
    BY DEF RowsWith
  <1>3. [RowsWith(s, x, an, nx, un, q, l) EXCEPT !.anchor = y] = RowsWith(s, x, y, nx, un, q, l)
    BY DEF RowsWith
  <1>4. UpdateScheduleCadence(r, x, y) = RowsWith(s, x, y, nx, un, q, l)
    <2> HIDE DEF r
    <2> QED BY <1>1, <1>2, <1>3
  <1> QED
    BY <1>4

(* UpdateScheduleNextRun writes next_run_date.                               *)
LEMMA NextRunByColumn ==
  ASSUME NEW s, NEW iv, NEW an, NEW nx, NEW un, NEW q, NEW l, NEW x
  PROVE  UpdateScheduleNextRun(RowsWith(s, iv, an, nx, un, q, l), x)
           = RowsWith(s, iv, an, x, un, q, l)
  BY DEF RowsWith, UpdateScheduleNextRun

(* CancelOccurrences writes order statuses and nothing of the schedule.      *)
LEMMA CancelByColumn ==
  ASSUME NEW s, NEW iv, NEW an, NEW nx, NEW un, NEW q, NEW l, NEW x
  PROVE  CancelOccurrences(RowsWith(s, iv, an, nx, un, q, l), x)
           = RowsWith(s, iv, an, nx, un, CanceledRows(q, x), l)
  BY DEF RowsWith, CancelOccurrences

(* AppendEvent writes the log alone.                                         *)
LEMMA EventByColumn ==
  ASSUME NEW s, NEW iv, NEW an, NEW nx, NEW un, NEW q, NEW l, NEW x
  PROVE  AppendEvent(RowsWith(s, iv, an, nx, un, q, l), x)
           = RowsWith(s, iv, an, nx, un, q, Replay(l, x))
  BY DEF RowsWith, AppendEvent

(* Canceling everything unsettled leaves nothing outstanding.                *)
LEMMA NothingLeftOutstanding ==
  ASSUME NEW s \in Seq(Order), NEW r, r.occ = CanceledRows(s, Unsettled)
  PROVE  WithStatus(r, Unsettled) = {}
  <1>1. \A i \in DOMAIN s : CanceledRows(s, Unsettled)[i].status \notin Unsettled
    BY CancelingByStatus
  <1>2. DOMAIN CanceledRows(s, Unsettled) = DOMAIN s
    BY DEF CanceledRows
  <1> QED
    BY <1>1, <1>2 DEF WithStatus

(* Pausing keeps the rows sound, quiet and in agreement with the log.        *)
LEMMA PausedCommits ==
  ASSUME NEW d \in Rows, Agrees(d), NEW until \in Int \union {NoDate}
  PROVE  Commits(d, Paused(d, until))
  <1> DEFINE q == CanceledRows(d.occ, Unsettled)
             l == [d.log EXCEPT !.status = "paused", !.occ = q]
             r == Paused(d, until)
  <1>1. /\ d.occ \in Seq(Order) /\ d.log \in Log /\ d.interval \in 7..180
        /\ d.anchor \in Int /\ d.log.occ = d.occ
        /\ d.log.interval = d.interval /\ d.log.anchor = d.anchor
    BY RowsHaveOrders DEF Agrees
  <1>2. q \in Seq(Order) /\ Kept(d.occ, q)
    BY <1>1, CancelingByStatus
  <1>3. r = RowsWith("paused", d.interval, d.anchor, NoDate, until, q, l)
    <2>1. Replay(d.log, [type |-> "schedule.paused"]) = l
      BY <1>1 DEF Replay, Log
    <2> DEFINE suspended == UpdateScheduleStatus(d, "paused", until)
               cleared   == CancelOccurrences(suspended, Unsettled)
               quiet     == UpdateScheduleNextRun(cleared, NoDate)
    <2>2. suspended = RowsWith("paused", d.interval, d.anchor, d.nextRun, until, d.occ, d.log)
      BY RowsAsColumns, StatusByColumn
    <2>3. cleared = RowsWith("paused", d.interval, d.anchor, d.nextRun, until, q, d.log)
      BY <2>2, CancelByColumn
    <2>4. quiet = RowsWith("paused", d.interval, d.anchor, NoDate, until, q, d.log)
      BY <2>3, NextRunByColumn
    <2> HIDE DEF l, q, suspended, cleared, quiet
    <2>5. AppendEvent(quiet, [type |-> "schedule.paused"])
            = RowsWith("paused", d.interval, d.anchor, NoDate, until, q, l)
      BY <2>1, <2>4, EventByColumn
    <2> QED
      BY <2>5 DEF Paused, suspended, cleared, quiet
  <1>4. /\ l \in Log /\ l.status = "paused" /\ l.occ = q
        /\ l.interval = d.interval /\ l.anchor = d.anchor
    <2> HIDE DEF q
    <2> QED BY <1>1, <1>2 DEF Log, Occurrences, Order, ScheduleStatus
  <1>5. r \in Rows /\ Agrees(r) /\ r.occ = q /\ r.nextRun = NoDate
    <2> HIDE DEF q, l, r
    <2>1. "paused" \in ScheduleStatus
      BY DEF ScheduleStatus
    <2>2. r \in Rows /\ Agrees(r)
      BY <1>1, <1>2, <1>3, <1>4, <2>1, RowsAssembled
    <2> QED
      BY <1>3, <2>2 DEF RowsWith
  <1>6. WithStatus(r, Unsettled) = {}
    <2> HIDE DEF r
    <2> QED BY <1>1, <1>5, NothingLeftOutstanding
  <1> QED
    BY <1>2, <1>5, <1>6 DEF Commits, Quiet

(* Canceling keeps the rows sound, quiet and in agreement with the log.      *)
LEMMA CanceledCommits ==
  ASSUME NEW d \in Rows, Agrees(d)
  PROVE  Commits(d, Canceled(d))
  <1> DEFINE q == CanceledRows(d.occ, Unsettled)
             l == [d.log EXCEPT !.status = "canceled", !.occ = q]
             r == Canceled(d)
  <1>1. /\ d.occ \in Seq(Order) /\ d.log \in Log /\ d.interval \in 7..180
        /\ d.anchor \in Int /\ d.log.occ = d.occ
        /\ d.log.interval = d.interval /\ d.log.anchor = d.anchor
    BY RowsHaveOrders DEF Agrees
  <1>2. q \in Seq(Order) /\ Kept(d.occ, q)
    BY <1>1, CancelingByStatus
  <1>3. r = RowsWith("canceled", d.interval, d.anchor, NoDate, NoDate, q, l)
    <2>1. Replay(d.log, [type |-> "schedule.canceled"]) = l
      BY <1>1 DEF Replay, Log
    <2> DEFINE suspended == UpdateScheduleStatus(d, "canceled", NoDate)
               cleared   == CancelOccurrences(suspended, Unsettled)
               quiet     == UpdateScheduleNextRun(cleared, NoDate)
    <2>2. suspended = RowsWith("canceled", d.interval, d.anchor, d.nextRun, NoDate, d.occ, d.log)
      BY RowsAsColumns, StatusByColumn
    <2>3. cleared = RowsWith("canceled", d.interval, d.anchor, d.nextRun, NoDate, q, d.log)
      BY <2>2, CancelByColumn
    <2>4. quiet = RowsWith("canceled", d.interval, d.anchor, NoDate, NoDate, q, d.log)
      BY <2>3, NextRunByColumn
    <2> HIDE DEF l, q, suspended, cleared, quiet
    <2>5. AppendEvent(quiet, [type |-> "schedule.canceled"])
            = RowsWith("canceled", d.interval, d.anchor, NoDate, NoDate, q, l)
      BY <2>1, <2>4, EventByColumn
    <2> QED
      BY <2>5 DEF Canceled, suspended, cleared, quiet
  <1>4. /\ l \in Log /\ l.status = "canceled" /\ l.occ = q
        /\ l.interval = d.interval /\ l.anchor = d.anchor
    <2> HIDE DEF q
    <2> QED BY <1>1, <1>2 DEF Log, Occurrences, Order, ScheduleStatus
  <1>5. r \in Rows /\ Agrees(r) /\ r.occ = q /\ r.nextRun = NoDate
    <2> HIDE DEF q, l, r
    <2>1. "canceled" \in ScheduleStatus
      BY DEF ScheduleStatus
    <2>2. r \in Rows /\ Agrees(r)
      BY <1>1, <1>2, <1>3, <1>4, <2>1, RowsAssembled
    <2> QED
      BY <1>3, <2>2 DEF RowsWith
  <1>6. WithStatus(r, Unsettled) = {}
    <2> HIDE DEF r
    <2> QED BY <1>1, <1>5, NothingLeftOutstanding
  <1> QED
    BY <1>2, <1>5, <1>6 DEF Commits, Quiet

(* UpdateOccurrenceStatus writes one order's status.                         *)
LEMMA OrderStatusByColumn ==
  ASSUME NEW s, NEW iv, NEW an, NEW nx, NEW un, NEW q, NEW l, NEW i, NEW x
  PROVE  UpdateOccurrenceStatus(RowsWith(s, iv, an, nx, un, q, l), i, x)
           = RowsWith(s, iv, an, nx, un, [q EXCEPT ![i].status = x], l)
  BY DEF RowsWith, UpdateOccurrenceStatus

(* UpdateOccurrenceDate writes one order's date.                             *)
LEMMA OrderDateByColumn ==
  ASSUME NEW s, NEW iv, NEW an, NEW nx, NEW un, NEW q, NEW l, NEW i, NEW x
  PROVE  UpdateOccurrenceDate(RowsWith(s, iv, an, nx, un, q, l), i, x)
           = RowsWith(s, iv, an, nx, un, [q EXCEPT ![i].date = x], l)
  BY DEF RowsWith, UpdateOccurrenceDate

(* One unsettled order given a new status, or a new date.                    *)
LEMMA OneStatusChanged ==
  ASSUME NEW s \in Seq(Order), NEW i \in DOMAIN s, s[i].status \in Unsettled,
         NEW x \in OccurrenceStatus
  PROVE  [s EXCEPT ![i].status = x] \in Seq(Order) /\ Kept(s, [s EXCEPT ![i].status = x])
  <1> DEFINE y == [s[i] EXCEPT !.status = x]
  <1>1. y \in Order
    BY OrdersOf DEF Order
  <1>2. [s EXCEPT ![i].status = x] = [s EXCEPT ![i] = y]
    OBVIOUS
  <1> HIDE DEF y
  <1> QED
    BY <1>1, <1>2, OneOrderReplaced

(* An unsettled order may move without rewriting a settled one.              *)
LEMMA OneDateChanged ==
  ASSUME NEW s \in Seq(Order), NEW i \in DOMAIN s, s[i].status \in Unsettled,
         NEW x \in Int
  PROVE  [s EXCEPT ![i].date = x] \in Seq(Order) /\ Kept(s, [s EXCEPT ![i].date = x])
  <1> DEFINE y == [s[i] EXCEPT !.date = x]
  <1>1. y \in Order
    BY OrdersOf DEF Order
  <1>2. [s EXCEPT ![i].date = x] = [s EXCEPT ![i] = y]
    OBVIOUS
  <1> HIDE DEF y
  <1> QED
    BY <1>1, <1>2, OneOrderReplaced

(* The rows of a schedule that changed in its orders and its log alone.      *)
LEMMA OrdersRewritten ==
  ASSUME NEW d \in Rows, NEW q \in Seq(Order), NEW l \in Log,
         l.occ = q, l.status = d.status,
         l.interval = d.interval, l.anchor = d.anchor
  PROVE  LET r == RowsWith(d.status, d.interval, d.anchor, d.nextRun, d.pausedUntil, q, l)
         IN  r \in Rows /\ Agrees(r) /\ r.status = d.status /\ r.occ = q
  <1>1. /\ d.status \in ScheduleStatus /\ d.interval \in 7..180 /\ d.anchor \in Int
        /\ d.nextRun \in Int \union {NoDate} /\ d.pausedUntil \in Int \union {NoDate}
    BY DEF Rows
  <1> DEFINE r == RowsWith(d.status, d.interval, d.anchor, d.nextRun, d.pausedUntil, q, l)
  <1>2. r \in Rows
    BY <1>1, <1>1 DEF Rows, RowsWith, Occurrences, Order
  <1>3. Agrees(r) /\ r.status = d.status /\ r.occ = q
    BY DEF Agrees, RowsWith
  <1> QED
    BY <1>2, <1>3

(* The log after an order's status, or date, changed under a retry key.      *)
StatusLogged(l, i, x, ks) == [l EXCEPT !.occ[i].status = x, !.keys = @ \union ks]

DateLogged(l, i, x, ks) ==
  [l EXCEPT !.occ[i].date = x, !.deferred = @ \union {i}, !.keys = @ \union ks]

(* Replaying a keyed status event changes that order in the log alike.       *)
LEMMA LogOfOneStatus ==
  ASSUME NEW l \in Log, NEW i \in DOMAIN l.occ, l.occ[i].status \in Unsettled,
         NEW x \in OccurrenceStatus, NEW ks,
         ks \in SUBSET ({"occurrence.skipped", "occurrence.deferred"} \X Keys)
  PROVE  LET m == StatusLogged(l, i, x, ks)
         IN  /\ m \in Log /\ m.status = l.status
             /\ m.interval = l.interval /\ m.anchor = l.anchor
             /\ m.occ = [l.occ EXCEPT ![i].status = x]
  <1> DEFINE q == [l.occ EXCEPT ![i].status = x]
             m == StatusLogged(l, i, x, ks)
  <1>1. l.occ \in Seq(Order)
    BY DEF Log, Occurrences, Order
  <1>2. q \in Seq(Order)
    BY <1>1, OneStatusChanged
  <1>3. m = [l EXCEPT !.occ = q, !.keys = @ \union ks]
    BY DEF StatusLogged
  <1>4. m.occ = q /\ q \in Occurrences
    BY <1>2, <1>3 DEF Log, Occurrences, Order
  <1> HIDE DEF q, m
  <1>5. /\ m \in Log /\ m.status = l.status
        /\ m.interval = l.interval /\ m.anchor = l.anchor
    BY <1>3, <1>4 DEF Log
  <1> QED
    BY <1>4, <1>5 DEF q, m

(* Replaying an event without a key does so too, and takes no key.           *)
LEMMA LogOfOneStatusUnkeyed ==
  ASSUME NEW l \in Log, NEW i \in DOMAIN l.occ, l.occ[i].status \in Unsettled,
         NEW x \in OccurrenceStatus
  PROVE  LET m == [l EXCEPT !.occ[i].status = x]
         IN  /\ m \in Log /\ m.status = l.status
             /\ m.interval = l.interval /\ m.anchor = l.anchor
             /\ m.occ = [l.occ EXCEPT ![i].status = x]
  <1> DEFINE q == [l.occ EXCEPT ![i].status = x]
             m == [l EXCEPT !.occ[i].status = x]
  <1>1. l.occ \in Seq(Order)
    BY DEF Log, Occurrences, Order
  <1>2. q \in Seq(Order)
    BY <1>1, OneStatusChanged
  <1>3. m = [l EXCEPT !.occ = q]
    OBVIOUS
  <1> HIDE DEF q
  <1> QED
    BY <1>2, <1>3 DEF Log, Occurrences, Order, q

(* Replaying a deferral moves that order in the log alike.                   *)
LEMMA LogOfOneDate ==
  ASSUME NEW l \in Log, NEW i \in DOMAIN l.occ, l.occ[i].status \in Unsettled,
         NEW x \in Int, NEW ks,
         ks \in SUBSET ({"occurrence.skipped", "occurrence.deferred"} \X Keys)
  PROVE  LET m == DateLogged(l, i, x, ks)
         IN  /\ m \in Log /\ m.status = l.status
             /\ m.interval = l.interval /\ m.anchor = l.anchor
             /\ m.occ = [l.occ EXCEPT ![i].date = x]
  <1> DEFINE q == [l.occ EXCEPT ![i].date = x]
             m == DateLogged(l, i, x, ks)
  <1>1. l.occ \in Seq(Order)
    BY DEF Log, Occurrences, Order
  <1>2. q \in Seq(Order)
    BY <1>1, OneDateChanged
  <1>3. i \in Nat
    BY <1>1, OrdersOf
  <1> DEFINE v == l.deferred \union {i}
             w == l.keys \union ks
             m1 == [l EXCEPT !.occ = q]
             m2 == [m1 EXCEPT !.deferred = v]
             m3 == [m2 EXCEPT !.keys = w]
  <1>4. m = m3
    BY DEF DateLogged
  <1> HIDE DEF m
  <1>5. v \in SUBSET Nat
        /\ w \in SUBSET ({"occurrence.skipped", "occurrence.deferred"} \X Keys)
    BY <1>3 DEF Log
  <1> HIDE DEF q, v, w
  <1>6. /\ m1 \in Log /\ m1.occ = q /\ m1.status = l.status
        /\ m1.interval = l.interval /\ m1.anchor = l.anchor
    BY <1>2 DEF Log, Occurrences, Order
  <1> HIDE DEF m1
  <1>7. /\ m2 \in Log /\ m2.occ = q /\ m2.status = l.status
        /\ m2.interval = l.interval /\ m2.anchor = l.anchor
    BY <1>5, <1>6 DEF Log
  <1> HIDE DEF m2
  <1>8. /\ m3 \in Log /\ m3.occ = q /\ m3.status = l.status
        /\ m3.interval = l.interval /\ m3.anchor = l.anchor
    BY <1>5, <1>7 DEF Log
  <1> QED
    BY <1>4, <1>8 DEF m, q

(* What is known of an unsettled order of a row that agrees with its log.    *)
LEMMA UnsettledOrder ==
  ASSUME NEW d \in Rows, Agrees(d), NEW i \in WithStatus(d, Unsettled)
  PROVE  /\ d.occ \in Seq(Order) /\ i \in DOMAIN d.occ /\ d.occ[i].status \in Unsettled
         /\ d.log \in Log /\ d.log.occ = d.occ /\ d.log.status = d.status
         /\ d.log.interval = d.interval /\ d.log.anchor = d.anchor
         /\ d.occ[i].date \in Int
  <1>1. d.occ \in Seq(Order) /\ d.log \in Log
    BY RowsHaveOrders
  <1>2. i \in DOMAIN d.occ /\ d.occ[i].status \in Unsettled
    BY DEF WithStatus
  <1> QED
    BY <1>1, <1>2, OrdersOf DEF Agrees

\* The rows arming commits, column by column.
ArmedRows(d, i) ==
  RowsWith(d.status, d.interval, d.anchor, d.nextRun, d.pausedUntil,
           [d.occ EXCEPT ![i].status = "pending"], [d.log EXCEPT !.occ[i].status = "pending"])

(* Arming writes one order's status, in the rows and in the log.             *)
LEMMA ArmedByColumn ==
  ASSUME NEW d \in Rows, Agrees(d), NEW i \in WithStatus(d, Unsettled)
  PROVE  /\ Armed(d, i) = ArmedRows(d, i)
         /\ Armed(d, i) \in Rows /\ Agrees(Armed(d, i))
         /\ Armed(d, i).status = d.status /\ Kept(d.occ, Armed(d, i).occ)
  <1> DEFINE q == [d.occ EXCEPT ![i].status = "pending"]
             l == [d.log EXCEPT !.occ[i].status = "pending"]
             r == RowsWith(d.status, d.interval, d.anchor, d.nextRun, d.pausedUntil, q, l)
             e == [type |-> "occurrence.armed", seq |-> i]
             changed == UpdateOccurrenceStatus(d, i, "pending")
  <1>1. "pending" \in OccurrenceStatus
    BY DEF OccurrenceStatus, Unsettled
  <1>2. q \in Seq(Order) /\ Kept(d.occ, q)
    BY <1>1, UnsettledOrder, OneStatusChanged
  <1>3. /\ l \in Log /\ l.occ = q /\ l.status = d.status
        /\ l.interval = d.interval /\ l.anchor = d.anchor
    <2>1. /\ d.log \in Log /\ i \in DOMAIN d.log.occ /\ d.log.occ[i].status \in Unsettled
          /\ d.log.occ = d.occ
      BY UnsettledOrder
    <2>2. /\ l \in Log /\ l.status = d.log.status
          /\ l.interval = d.log.interval /\ l.anchor = d.log.anchor
          /\ l.occ = [d.log.occ EXCEPT ![i].status = "pending"]
      BY <1>1, <2>1, LogOfOneStatusUnkeyed
    <2> HIDE DEF l
    <2> QED
      BY <2>1, <2>2, UnsettledOrder
  <1>4. Replay(d.log, e) = l
    BY DEF Replay
  <1>5. Armed(d, i) = r
    <2>1. changed = RowsWith(d.status, d.interval, d.anchor, d.nextRun, d.pausedUntil, q, d.log)
      BY RowsAsColumns, OrderStatusByColumn
    <2> HIDE DEF changed, q, l, e
    <2>2. AppendEvent(changed, e) = r
      BY <1>4, <2>1, EventByColumn
    <2> QED
      BY <2>2 DEF Armed, changed, e
  <1>6. r \in Rows /\ Agrees(r) /\ r.status = d.status /\ r.occ = q
    <2> HIDE DEF q, l
    <2> QED BY <1>2, <1>3, OrdersRewritten
  <1>7. r = ArmedRows(d, i)
    BY DEF ArmedRows
  <1> HIDE DEF q, r
  <1> QED
    BY <1>2, <1>5, <1>6, <1>7

(* Arming keeps the rows sound and in agreement with the log.                *)
LEMMA ArmedCommits ==
  ASSUME NEW d \in Rows, Agrees(d), d.status = "active", NEW i \in WithStatus(d, Unsettled)
  PROVE  Commits(d, Armed(d, i))
  BY ArmedByColumn DEF Commits, Quiet

\* The rows placing an order commits, as PlaceOrder writes them and by column.
Placed(d, i) ==
  [UpdateOccurrenceStatus(d, i, "placed") EXCEPT !.log.occ[i].status = "placed"]

PlacedRows(d, i) ==
  RowsWith(d.status, d.interval, d.anchor, d.nextRun, d.pausedUntil,
           [d.occ EXCEPT ![i].status = "placed"], [d.log EXCEPT !.occ[i].status = "placed"])

(* Placing an order writes that order's status, in the rows and in the log.  *)
LEMMA PlacedByColumn ==
  ASSUME NEW d \in Rows, Agrees(d), NEW i \in WithStatus(d, {"pending"})
  PROVE  /\ Placed(d, i) = PlacedRows(d, i)
         /\ Placed(d, i) \in Rows /\ Agrees(Placed(d, i))
         /\ Placed(d, i).status = d.status /\ Kept(d.occ, Placed(d, i).occ)
  <1> DEFINE q == [d.occ EXCEPT ![i].status = "placed"]
             l == [d.log EXCEPT !.occ[i].status = "placed"]
             r == RowsWith(d.status, d.interval, d.anchor, d.nextRun, d.pausedUntil, q, l)
             changed == UpdateOccurrenceStatus(d, i, "placed")
             placed == [changed EXCEPT !.log.occ[i].status = "placed"]
  <1>1. "placed" \in OccurrenceStatus /\ i \in WithStatus(d, Unsettled)
    BY DEF OccurrenceStatus, Unsettled, WithStatus
  <1>2. q \in Seq(Order) /\ Kept(d.occ, q)
    BY <1>1, UnsettledOrder, OneStatusChanged
  <1>3. /\ l \in Log /\ l.occ = q /\ l.status = d.status
        /\ l.interval = d.interval /\ l.anchor = d.anchor
    <2>1. /\ d.log \in Log /\ i \in DOMAIN d.log.occ /\ d.log.occ[i].status \in Unsettled
          /\ d.log.occ = d.occ
      BY <1>1, UnsettledOrder
    <2>2. /\ l \in Log /\ l.status = d.log.status
          /\ l.interval = d.log.interval /\ l.anchor = d.log.anchor
          /\ l.occ = [d.log.occ EXCEPT ![i].status = "placed"]
      BY <1>1, <2>1, LogOfOneStatusUnkeyed
    <2> HIDE DEF l
    <2> QED
      BY <1>1, <2>1, <2>2, UnsettledOrder
  <1>4. placed = r
    <2>1. changed = RowsWith(d.status, d.interval, d.anchor, d.nextRun, d.pausedUntil, q, d.log)
      BY RowsAsColumns, OrderStatusByColumn
    <2>2. placed = [changed EXCEPT !.log = l]
      <3>1. changed.log = d.log
        <4> HIDE DEF changed, q
        <4> QED BY <2>1 DEF RowsWith
      <3> HIDE DEF changed
      <3> QED BY <3>1
    <2>3. [changed EXCEPT !.log = l] = r
      <3> HIDE DEF changed, q, l
      <3> QED BY <2>1 DEF RowsWith
    <2> QED
      BY <2>2, <2>3
  <1>5. r \in Rows /\ Agrees(r) /\ r.status = d.status /\ r.occ = q
    <2> HIDE DEF q, l
    <2> QED BY <1>2, <1>3, OrdersRewritten
  <1>6. r = PlacedRows(d, i) /\ placed = Placed(d, i)
    BY DEF PlacedRows, Placed
  <1> HIDE DEF q, r, placed
  <1> QED
    BY <1>2, <1>4, <1>5, <1>6

(* Placing an armed order keeps the rows sound and in agreement.             *)
LEMMA PlacedCommits ==
  ASSUME NEW d \in Rows, Agrees(d), Quiet(d), NEW i \in WithStatus(d, {"pending"})
  PROVE  Commits(d, Placed(d, i))
  <1>1. d.status \notin {"paused", "canceled"}
    BY DEF Quiet, WithStatus, Unsettled
  <1> QED
    BY <1>1, PlacedByColumn DEF Commits, Quiet

\* The rows a skip hands to the run that ends it.
SkippedRows(d, i, key) ==
  RowsWith(d.status, d.interval, d.anchor, d.nextRun, d.pausedUntil,
           [d.occ EXCEPT ![i].status = "skipped"],
           StatusLogged(d.log, i, "skipped", {<<"occurrence.skipped", key>>}))

(* Skipping settles one order, in the rows and in the log, and then runs.    *)
LEMMA SkippedThenRuns ==
  ASSUME NEW d \in Rows, Agrees(d),
         NEW i \in WithStatus(d, Unsettled), NEW key \in Keys
  PROVE  LET r == SkippedRows(d, i, key)
         IN  /\ Skipped(d, i, key) = Run(r, today)
             /\ r \in Rows /\ Agrees(r)
             /\ r.status = d.status /\ Kept(d.occ, r.occ)
  <1> DEFINE q == [d.occ EXCEPT ![i].status = "skipped"]
             ks == {<<"occurrence.skipped", key>>}
             l == StatusLogged(d.log, i, "skipped", ks)
             r == RowsWith(d.status, d.interval, d.anchor, d.nextRun, d.pausedUntil, q, l)
             e == [type |-> "occurrence.skipped", seq |-> i, key |-> key]
             changed == UpdateOccurrenceStatus(d, i, "skipped")
  <1>1. "skipped" \in OccurrenceStatus
    BY DEF OccurrenceStatus
  <1>2. q \in Seq(Order) /\ Kept(d.occ, q)
    BY <1>1, UnsettledOrder, OneStatusChanged
  <1>3. /\ l \in Log /\ l.occ = q /\ l.status = d.status
        /\ l.interval = d.interval /\ l.anchor = d.anchor
    <2>1. /\ d.log \in Log /\ i \in DOMAIN d.log.occ /\ d.log.occ[i].status \in Unsettled
          /\ d.log.occ = d.occ
      BY UnsettledOrder
    <2>2. ks \in SUBSET ({"occurrence.skipped", "occurrence.deferred"} \X Keys)
      OBVIOUS
    <2> HIDE DEF ks
    <2>3. /\ l \in Log /\ l.status = d.log.status
          /\ l.interval = d.log.interval /\ l.anchor = d.log.anchor
          /\ l.occ = [d.log.occ EXCEPT ![i].status = "skipped"]
      BY <1>1, <2>1, <2>2, LogOfOneStatus
    <2> HIDE DEF l
    <2> QED
      BY <2>1, <2>3, UnsettledOrder
  <1>4. Replay(d.log, e) = l
    BY DEF Replay, StatusLogged
  <1>5. AppendEvent(changed, e) = r
    <2>1. changed = RowsWith(d.status, d.interval, d.anchor, d.nextRun, d.pausedUntil, q, d.log)
      BY RowsAsColumns, OrderStatusByColumn
    <2> HIDE DEF changed, q, l, e
    <2> QED
      BY <1>4, <2>1, EventByColumn
  <1>6. r \in Rows /\ Agrees(r) /\ r.status = d.status /\ r.occ = q
    <2> HIDE DEF q, l
    <2> QED BY <1>2, <1>3, OrdersRewritten
  <1>7. Skipped(d, i, key) = Run(AppendEvent(changed, e), today)
    BY DEF Skipped
  <1>8. r = SkippedRows(d, i, key)
    BY DEF SkippedRows
  <1> HIDE DEF q, r, e, changed
  <1> QED
    BY <1>2, <1>5, <1>6, <1>7, <1>8

(* Skipping, with the run it ends in, keeps the rows sound and agreeing.     *)
LEMMA SkippedCommits ==
  ASSUME NEW d \in Rows, Agrees(d), d.status = "active", today \in Int,
         NEW i \in WithStatus(d, Unsettled), NEW key \in Keys
  PROVE  Commits(d, Skipped(d, i, key))
  <1> DEFINE r == SkippedRows(d, i, key)
             s == Skipped(d, i, key)
  <1>1. s = Run(r, today) /\ r \in Rows /\ Agrees(r) /\ r.status = d.status
        /\ Kept(d.occ, r.occ)
    BY SkippedThenRuns
  <1> HIDE DEF r, s
  <1>2. s \in Rows /\ Agrees(s) /\ s.status = "active" /\ Kept(r.occ, s.occ)
    BY <1>1, RunCommits
  <1>3. Commits(d, s)
    BY <1>1, <1>2, KeptTransitive DEF Commits, Quiet
  <1> QED
    BY <1>3 DEF s

\* The rows a deferral leaves before next_run_date is refreshed.
DeferredRows(d, i, days, key) ==
  RowsWith(d.status, d.interval, d.anchor, d.nextRun, d.pausedUntil,
           [d.occ EXCEPT ![i].date = d.occ[i].date + days],
           DateLogged(d.log, i, d.occ[i].date + days, {<<"occurrence.deferred", key>>}))

(* Deferring moves one order, in the rows and in the log, and refreshes.     *)
LEMMA DeferredThenRefreshes ==
  ASSUME NEW d \in Rows, Agrees(d),
         NEW i \in WithStatus(d, Unsettled), NEW days \in Int, NEW key \in Keys
  PROVE  LET r == DeferredRows(d, i, days, key)
         IN  /\ Deferred(d, i, days, key) = RefreshNextRunDate(r, today)
             /\ r \in Rows /\ Agrees(r)
             /\ r.status = d.status /\ Kept(d.occ, r.occ)
  <1> DEFINE to == d.occ[i].date + days
             q == [d.occ EXCEPT ![i].date = to]
             ks == {<<"occurrence.deferred", key>>}
             l == DateLogged(d.log, i, to, ks)
             r == RowsWith(d.status, d.interval, d.anchor, d.nextRun, d.pausedUntil, q, l)
             e == [type |-> "occurrence.deferred", seq |-> i, to |-> to, key |-> key]
             changed == UpdateOccurrenceDate(d, i, to)
  <1>1. to \in Int
    BY UnsettledOrder
  <1>2. q \in Seq(Order) /\ Kept(d.occ, q)
    <2> HIDE DEF to
    <2> QED BY <1>1, UnsettledOrder, OneDateChanged
  <1>3. /\ l \in Log /\ l.occ = q /\ l.status = d.status
        /\ l.interval = d.interval /\ l.anchor = d.anchor
    <2>1. /\ d.log \in Log /\ i \in DOMAIN d.log.occ /\ d.log.occ[i].status \in Unsettled
          /\ d.log.occ = d.occ
      BY UnsettledOrder
    <2>2. ks \in SUBSET ({"occurrence.skipped", "occurrence.deferred"} \X Keys)
      OBVIOUS
    <2> HIDE DEF ks, to
    <2>3. /\ l \in Log /\ l.status = d.log.status
          /\ l.interval = d.log.interval /\ l.anchor = d.log.anchor
          /\ l.occ = [d.log.occ EXCEPT ![i].date = to]
      BY <1>1, <2>1, <2>2, LogOfOneDate
    <2> HIDE DEF l
    <2> QED
      BY <2>1, <2>3, UnsettledOrder
  <1>4. Replay(d.log, e) = l
    <2> HIDE DEF to
    <2> QED BY DEF Replay, DateLogged
  <1>5. AppendEvent(changed, e) = r
    <2>1. changed = RowsWith(d.status, d.interval, d.anchor, d.nextRun, d.pausedUntil, q, d.log)
      <3> HIDE DEF to
      <3> QED BY RowsAsColumns, OrderDateByColumn
    <2> HIDE DEF changed, q, l, e
    <2> QED
      BY <1>4, <2>1, EventByColumn
  <1>6. r \in Rows /\ Agrees(r) /\ r.status = d.status /\ r.occ = q
    <2> HIDE DEF q, l
    <2> QED BY <1>2, <1>3, OrdersRewritten
  <1>7. Deferred(d, i, days, key) = RefreshNextRunDate(AppendEvent(changed, e), today)
    BY DEF Deferred
  <1>8. r = DeferredRows(d, i, days, key)
    BY DEF DeferredRows
  <1> HIDE DEF q, r, e, changed
  <1> QED
    BY <1>2, <1>5, <1>6, <1>7, <1>8

(* Deferring keeps the rows sound and in agreement with the log.             *)
LEMMA DeferredCommits ==
  ASSUME NEW d \in Rows, Agrees(d), d.status = "active", today \in Int,
         NEW i \in WithStatus(d, Unsettled), NEW days \in Int, NEW key \in Keys
  PROVE  Commits(d, Deferred(d, i, days, key))
  <1> DEFINE r == DeferredRows(d, i, days, key)
             s == Deferred(d, i, days, key)
  <1>1. s = RefreshNextRunDate(r, today) /\ r \in Rows /\ Agrees(r)
        /\ r.status = d.status /\ Kept(d.occ, r.occ)
    BY DeferredThenRefreshes
  <1> HIDE DEF r, s
  <1>2. s \in Rows /\ Agrees(s) /\ s.status = "active" /\ s.occ = r.occ
    BY <1>1, RefreshIsOneColumn
  <1>3. Commits(d, s)
    BY <1>1, <1>2 DEF Commits, Quiet
  <1> QED
    BY <1>3 DEF s

(* No change keeps everything.                                               *)
LEMMA KeptItself ==
  ASSUME NEW s
  PROVE  Kept(s, s)
  BY DEF Kept

\* The rows resuming hands to the run that ends it.
ResumedRows(d) ==
  RowsWith("active", d.interval, today, d.nextRun, NoDate, d.occ,
           [d.log EXCEPT !.status = "active", !.interval = d.interval, !.anchor = today])

(* Resuming re-anchors to today, leaves the orders alone, and then runs.     *)
LEMMA ResumedThenRuns ==
  ASSUME NEW d \in Rows, Agrees(d), today \in Int
  PROVE  LET r == ResumedRows(d)
         IN  /\ Resumed(d) = Run(r, today)
             /\ r \in Rows /\ Agrees(r)
             /\ r.status = "active" /\ r.occ = d.occ
  <1> DEFINE l == [d.log EXCEPT !.status = "active", !.interval = d.interval,
                                !.anchor = today]
             e == [type |-> "schedule.resumed", interval |-> d.interval, anchor |-> today]
             r == RowsWith("active", d.interval, today, d.nextRun, NoDate, d.occ, l)
             active == UpdateScheduleStatus(d, "active", NoDate)
             anchored == UpdateScheduleCadence(active, d.interval, today)
  <1>1. /\ d.occ \in Seq(Order) /\ d.log \in Log /\ d.interval \in 7..180
        /\ d.log.occ = d.occ /\ d.nextRun \in Int \union {NoDate}
    BY RowsHaveOrders DEF Agrees, Rows
  <1>2. /\ l \in Log /\ l.status = "active" /\ l.occ = d.occ
        /\ l.interval = d.interval /\ l.anchor = today
    BY <1>1 DEF Log, ScheduleStatus
  <1>3. Replay(d.log, e) = l
    BY <1>1 DEF Replay, Log
  <1>4. AppendEvent(anchored, e) = r
    <2>1. active = RowsWith("active", d.interval, d.anchor, d.nextRun, NoDate, d.occ, d.log)
      BY RowsAsColumns, StatusByColumn
    <2> HIDE DEF active
    <2>2. anchored = RowsWith("active", d.interval, today, d.nextRun, NoDate, d.occ, d.log)
      BY <2>1, CadenceByColumn
    <2> HIDE DEF anchored, l, e
    <2> QED
      BY <1>3, <2>2, EventByColumn
  <1>5. r \in Rows /\ Agrees(r) /\ r.status = "active" /\ r.occ = d.occ
    <2> HIDE DEF l
    <2>1. "active" \in ScheduleStatus /\ NoDate \in Int \union {NoDate}
      BY DEF ScheduleStatus
    <2>2. r \in Rows /\ Agrees(r)
      BY <1>1, <1>2, <2>1, RowsAssembled
    <2>3. r.status = "active" /\ r.occ = d.occ
      BY DEF RowsWith
    <2> QED
      BY <2>2, <2>3
  <1>6. Resumed(d) = Run(AppendEvent(anchored, e), today)
    BY DEF Resumed
  <1>7. r = ResumedRows(d)
    BY DEF ResumedRows
  <1> HIDE DEF r, e, anchored
  <1> QED
    BY <1>4, <1>5, <1>6, <1>7

(* Resuming ends active, with rows and log agreeing.                         *)
LEMMA ResumedCommits ==
  ASSUME NEW d \in Rows, Agrees(d), today \in Int
  PROVE  Commits(d, Resumed(d)) /\ Resumed(d).status = "active"
  <1> DEFINE r == ResumedRows(d)
             s == Resumed(d)
  <1>1. s = Run(r, today) /\ r \in Rows /\ Agrees(r) /\ r.status = "active"
        /\ r.occ = d.occ
    BY ResumedThenRuns
  <1> HIDE DEF r, s
  <1>2. s \in Rows /\ Agrees(s) /\ s.status = "active" /\ Kept(d.occ, s.occ)
    BY <1>1, RunCommits
  <1>3. Commits(d, s) /\ s.status = "active"
    BY <1>2 DEF Commits, Quiet
  <1> QED
    BY <1>3 DEF s

\* The anchor a cadence change takes, and the rows it leaves before it plans.
NewAnchor(d) == IF LastPlacedDate(d) = {} THEN today ELSE Max(LastPlacedDate(d))

CadenceChangedRows(d, interval) ==
  RowsWith(d.status, interval, NewAnchor(d), d.nextRun, d.pausedUntil,
           CanceledRows(d.occ, {"planned"}),
           [d.log EXCEPT !.interval = interval, !.anchor = NewAnchor(d),
                         !.occ = CanceledRows(d.occ, {"planned"})])

(* A cadence change re-anchors and clears what was planned; on an active     *)
(* schedule it then runs.                                                    *)
LEMMA CadenceChangedThenRuns ==
  ASSUME NEW d \in Rows, Agrees(d), today \in Int, NEW interval \in 7..180
  PROVE  LET r == CadenceChangedRows(d, interval)
         IN  /\ CadenceChanged(d, interval) =
                  IF d.status = "active" THEN Run(r, today)
                  ELSE UpdateScheduleNextRun(r, NoDate)
             /\ r \in Rows /\ Agrees(r) /\ r.status = d.status
             /\ r.occ = CanceledRows(d.occ, {"planned"})
             /\ Kept(d.occ, r.occ)
  <1> DEFINE last == LastPlacedDate(d)
             anchor == IF last = {} THEN today ELSE Max(last)
             q == CanceledRows(d.occ, {"planned"})
             l == [d.log EXCEPT !.interval = interval, !.anchor = anchor, !.occ = q]
             e == [type |-> "schedule.cadence_changed", interval |-> interval,
                   anchor |-> anchor]
             r == RowsWith(d.status, interval, anchor, d.nextRun, d.pausedUntil, q, l)
             anchored == UpdateScheduleCadence(d, interval, anchor)
             cleared == CancelOccurrences(anchored, {"planned"})
             logged == AppendEvent(cleared, e)
  <1>1. /\ d.occ \in Seq(Order) /\ d.log \in Log
        /\ d.log.occ = d.occ /\ d.nextRun \in Int \union {NoDate}
        /\ d.pausedUntil \in Int \union {NoDate}
        /\ d.status \in ScheduleStatus /\ d.log.status = d.status
    BY RowsHaveOrders DEF Agrees, Rows
  <1>2. anchor \in Int
    <2> HIDE DEF last
    <2>1. last \in SUBSET Int /\ IsFiniteSet(last)
      BY LastPlacedDates DEF last
    <2> QED
      BY <2>1, MaxOfDates
  <1> HIDE DEF anchor
  <1>3. q \in Seq(Order) /\ Kept(d.occ, q)
    BY <1>1, CancelingByStatus DEF Unsettled
  <1>4. /\ l \in Log /\ l.status = d.status /\ l.occ = q
        /\ l.interval = interval /\ l.anchor = anchor
    <2> HIDE DEF q
    <2> QED BY <1>1, <1>2, <1>3 DEF Log, Occurrences, Order
  <1>5. Replay(d.log, e) = l
    BY <1>1 DEF Replay, Log
  <1>6. logged = r
    <2>1. anchored = RowsWith(d.status, interval, anchor, d.nextRun, d.pausedUntil, d.occ, d.log)
      BY RowsAsColumns, CadenceByColumn
    <2> HIDE DEF anchored
    <2>2. cleared = RowsWith(d.status, interval, anchor, d.nextRun, d.pausedUntil, q, d.log)
      BY <2>1, CancelByColumn
    <2> HIDE DEF cleared, l, e, q
    <2> QED
      BY <1>5, <2>2, EventByColumn
  <1>7. r \in Rows /\ Agrees(r) /\ r.status = d.status /\ r.occ = q
    <2> HIDE DEF l, q
    <2>1. r \in Rows /\ Agrees(r)
      BY <1>1, <1>2, <1>3, <1>4, RowsAssembled
    <2>2. r.status = d.status /\ r.occ = q
      BY DEF RowsWith
    <2> QED
      BY <2>1, <2>2
  <1>8. CadenceChanged(d, interval) =
          IF d.status = "active" THEN Run(logged, today)
          ELSE UpdateScheduleNextRun(logged, NoDate)
    BY DEF CadenceChanged, anchor
  <1>9. r = CadenceChangedRows(d, interval)
    BY DEF CadenceChangedRows, NewAnchor, anchor
  <1> HIDE DEF r, e, logged, q
  <1>10. r.occ = CanceledRows(d.occ, {"planned"})
    BY <1>7 DEF q
  <1> QED
    BY <1>3, <1>6, <1>7, <1>8, <1>9, <1>10

(* A cadence change, active or paused, keeps the rows sound and agreeing.    *)
LEMMA CadenceChangedCommits ==
  ASSUME NEW d \in Rows, Agrees(d), Quiet(d), d.status \in {"active", "paused"},
         today \in Int, NEW interval \in 7..180
  PROVE  Commits(d, CadenceChanged(d, interval))
  <1> DEFINE q == CanceledRows(d.occ, {"planned"})
             r == CadenceChangedRows(d, interval)
             s == CadenceChanged(d, interval)
  <1>1. /\ s = IF d.status = "active" THEN Run(r, today)
               ELSE UpdateScheduleNextRun(r, NoDate)
        /\ r \in Rows /\ Agrees(r) /\ r.status = d.status
        /\ r.occ = q /\ Kept(d.occ, r.occ)
    BY CadenceChangedThenRuns
  <1> HIDE DEF r, s
  <1>2. CASE d.status = "active"
    <2>1. s \in Rows /\ Agrees(s) /\ s.status = "active" /\ Kept(r.occ, s.occ)
      BY <1>1, <1>2, RunCommits
    <2>2. Kept(d.occ, s.occ)
      <3> HIDE DEF q
      <3> QED BY <1>1, <2>1, KeptTransitive
    <2> QED
      BY <2>1, <2>2 DEF Commits, Quiet, s
  <1>3. CASE d.status = "paused"
    <2>1. s = [r EXCEPT !.nextRun = NoDate]
      BY <1>1, <1>3 DEF UpdateScheduleNextRun
    <2>2. s \in Rows /\ Agrees(s) /\ s.occ = q /\ s.nextRun = NoDate
      <3> HIDE DEF q
      <3> QED BY <1>1, <2>1 DEF Rows, Agrees
    <2>3. WithStatus(s, Unsettled) = {}
      <3>1. \A i \in DOMAIN d.occ : d.occ[i].status \notin Unsettled
        BY <1>3 DEF Quiet, WithStatus
      <3>2. DOMAIN q = DOMAIN d.occ
        BY DEF CanceledRows
      <3> HIDE DEF q
      <3>3. \A i \in DOMAIN q : q[i].status \notin Unsettled
        BY <1>1, <3>1, <3>2 DEF Kept
      <3> QED
        BY <2>2, <3>3 DEF WithStatus
    <2> HIDE DEF q
    <2>4. Commits(d, s)
      BY <1>1, <2>2, <2>3 DEF Commits, Quiet
    <2> QED
      BY <2>4 DEF s
  <1> QED
    BY <1>2, <1>3

-----------------------------------------------------------------------------
(* The steps.                                                                *)

(* The inductive invariant.  The log's agreement is what makes a replayed    *)
(* event well-typed, and the quiet of an inactive schedule is what a cadence *)
(* change on a paused schedule relies on, so the three go together.          *)
IInv == TypeOK /\ NothingOutstandingUnlessActive /\ LogAgrees

(* The inductive invariant, unpacked into today, the rows and their shape.   *)
LEMMA IInvOfRows ==
  /\ IInv <=> today \in Int /\ db \in Rows /\ Quiet(db) /\ Agrees(db)
  /\ IInv' <=> today' \in Int /\ db' \in Rows /\ Quiet(db') /\ Agrees(db')
  BY DEF IInv, TypeOK, NothingOutstandingUnlessActive, LogAgrees, Quiet, Agrees

(* A schedule as POST /schedules creates it is well-formed.                  *)
LEMMA InitIsSound == Init => IInv
  <1> SUFFICES ASSUME Init PROVE IInv
    OBVIOUS
  <1>1. PICK interval \in Intervals, anchor \in Anchors : db = Created(interval, anchor)
    BY DEF Init
  <1>2. /\ today \in Int /\ interval \in 7..180 /\ anchor \in Int
        /\ <<>> \in Seq(Order)
    BY ScheduleAssumption, EmptySeq DEF Init
  <1> DEFINE l == [status |-> "active", interval |-> interval, anchor |-> anchor,
                   occ |-> <<>>, deferred |-> {}, keys |-> {}]
  <1>3. /\ l \in Log /\ l.status = "active" /\ l.interval = interval
        /\ l.anchor = anchor /\ l.occ = <<>>
    BY <1>2 DEF Log, ScheduleStatus, Occurrences, Order
  <1>4. db = RowsWith("active", interval, anchor, NoDate, NoDate, <<>>, l)
    BY <1>1 DEF Created, RowsWith
  <1>5. db.status = "active"
    BY <1>4 DEF RowsWith
  <1>6. db \in Rows /\ Agrees(db)
    <2> HIDE DEF l
    <2>1. "active" \in ScheduleStatus /\ NoDate \in Int \union {NoDate}
      BY DEF ScheduleStatus
    <2> QED
      BY <1>2, <1>3, <1>4, <2>1, RowsAssembled
  <1> QED
    BY <1>2, <1>5, <1>6, IInvOfRows DEF Quiet

(* Every step either leaves the rows alone or commits a transaction that     *)
(* meets its obligations.                                                    *)
LEMMA StepsCommit ==
  ASSUME IInv, [Next]_vars
  PROVE  today' \in Int /\ (db' = db \/ Commits(db, db'))
  <1>1. today \in Int /\ db \in Rows /\ Quiet(db) /\ Agrees(db)
    BY IInvOfRows
  <1>2. ASSUME NEW until, until \in {today + n : n \in PauseDays} \union {NoDate},
               Pause(until)
        PROVE  today' \in Int /\ Commits(db, db')
    <2>1. until \in Int \union {NoDate}
      BY <1>1, <1>2, ScheduleAssumption
    <2> QED
      BY <1>1, <1>2, <2>1, PausedCommits DEF Pause, Commit
  <1>3. CASE Resume
    BY <1>1, <1>3, ResumedCommits DEF Resume, Commit
  <1>4. ASSUME NEW key \in Keys, SkipNext(key)
        PROVE  today' \in Int /\ Commits(db, db')
    <2>1. PICK i \in DOMAIN db.occ :
            IsSoonest(db, Unsettled, i) /\ Commit(Skipped(db, i, key))
      BY <1>4 DEF SkipNext
    <2>2. i \in WithStatus(db, Unsettled) /\ db.status = "active"
      BY <1>4, <2>1 DEF SkipNext, IsSoonest, ValidTransition, scheduleTransitions
    <2> QED
      BY <1>1, <2>1, <2>2, SkippedCommits DEF Commit
  <1>5. ASSUME NEW key \in Keys, NEW days \in DeferDays, Defer(days, key)
        PROVE  today' \in Int /\ Commits(db, db')
    <2>1. PICK i \in DOMAIN db.occ :
            IsSoonest(db, Unsettled, i) /\ Commit(Deferred(db, i, days, key))
      BY <1>5 DEF Defer
    <2>2. i \in WithStatus(db, Unsettled) /\ db.status = "active"
      BY <1>5, <2>1 DEF Defer, IsSoonest, ValidTransition, scheduleTransitions
    <2>3. days \in Int
      BY ScheduleAssumption
    <2> QED
      BY <1>1, <2>1, <2>2, <2>3, DeferredCommits DEF Commit
  <1>6. ASSUME NEW interval \in Intervals, ChangeCadence(interval)
        PROVE  today' \in Int /\ Commits(db, db')
    <2>1. interval \in 7..180
      BY ScheduleAssumption
    <2>2. db.status \in {"active", "paused"}
      BY <1>6 DEF ChangeCadence, ValidTransition, scheduleTransitions
    <2> QED
      BY <1>1, <1>6, <2>1, <2>2, CadenceChangedCommits DEF ChangeCadence, Commit
  <1>7. CASE Cancel
    BY <1>1, <1>7, CanceledCommits DEF Cancel, Commit
  <1>8. CASE ArmNext
    <2>1. PICK i \in DOMAIN db.occ :
            IsSoonest(db, {"planned"}, i) /\ Commit(Armed(db, i))
      BY <1>8 DEF ArmNext
    <2>2. i \in WithStatus(db, Unsettled) /\ db.status = "active"
      BY <1>8, <2>1 DEF ArmNext, IsSoonest, WithStatus, Unsettled, ValidTransition,
                        scheduleTransitions
    <2> QED
      BY <1>1, <2>1, <2>2, ArmedCommits DEF Commit
  <1>9. ASSUME NEW runDate \in RunDates, Materialize(runDate)
        PROVE  today' \in Int /\ Commits(db, db')
    <2>1. runDate \in Int
      BY <1>1, ScheduleAssumption DEF RunDates
    <2>2. db.status = "active" /\ db' = Run(db, runDate) /\ today' = today
      BY <1>9 DEF Materialize, Commit
    <2> QED
      BY <1>1, <2>1, <2>2, RunCommits DEF Commits, Quiet
  <1>10. CASE PlaceOrder
    <2>1. PICK i \in WithStatus(db, {"pending"}) :
            Commit([UpdateOccurrenceStatus(db, i, "placed")
                      EXCEPT !.log.occ[i].status = "placed"])
      BY <1>10 DEF PlaceOrder
    <2> DEFINE r == Placed(db, i)
    <2>2. Commits(db, r)
      BY <1>1, PlacedCommits
    <2>3. db' = r /\ today' = today
      BY <2>1 DEF Commit, Placed
    <2> HIDE DEF r
    <2> QED
      BY <1>1, <2>2, <2>3
  <1>11. CASE NextDay
    BY <1>1, <1>11 DEF NextDay
  <1>12. CASE UNCHANGED vars
    BY <1>1, <1>12 DEF vars
  <1> QED
    BY <1>2, <1>3, <1>4, <1>5, <1>6, <1>7, <1>8, <1>9, <1>10, <1>11, <1>12
       DEF Next, Customer

(* Every step, the stuttering one included, preserves the invariant.         *)
LEMMA StepsPreserve == IInv /\ [Next]_vars => IInv'
  <1> SUFFICES ASSUME IInv, [Next]_vars PROVE IInv'
    OBVIOUS
  <1>1. today' \in Int /\ (db' = db \/ Commits(db, db'))
    BY StepsCommit
  <1>2. db \in Rows /\ Quiet(db) /\ Agrees(db)
    BY IInvOfRows
  <1> QED
    BY <1>1, <1>2, IInvOfRows DEF Commits

(* The inductive invariant holds of every reachable state.                   *)
LEMMA Invariance == Spec => []IInv
  BY InitIsSound, StepsPreserve, PTL DEF Spec

-----------------------------------------------------------------------------
(* The schedule's rows, orders and log stay well-formed whatever requests,   *)
(* nightly runs and placements come in, in whatever order.                   *)
THEOREM TypeCorrect == Spec => []TypeOK
  <1>1. IInv => TypeOK
    BY DEF IInv
  <1> QED
    BY <1>1, Invariance, PTL

(* Pause, Cancel and ChangeCadence between them leave a paused or canceled   *)
(* schedule with no order outstanding and no next date, for ever.            *)
THEOREM InactiveMeansQuiet == Spec => []NothingOutstandingUnlessActive
  <1>1. IInv => NothingOutstandingUnlessActive
    BY DEF IInv
  <1> QED
    BY <1>1, Invariance, PTL

(* Each closure writes the event that says what it did: replaying the log    *)
(* gives the rows.                                                           *)
THEOREM LogNeverDiverges == Spec => []LogAgrees
  <1>1. IInv => LogAgrees
    BY DEF IInv
  <1> QED
    BY <1>1, Invariance, PTL

(* No transaction rewrites an order that was placed, skipped, canceled or    *)
(* failed, or loses one, so sequence numbers are never reused.               *)
THEOREM SettledOrdersStand == Spec => SettledStaysSettled
  <1>1. IInv /\ [Next]_vars =>
          [/\ DOMAIN db.occ \subseteq DOMAIN db'.occ
           /\ \A i \in DOMAIN db.occ :
                db.occ[i].status \notin Unsettled => db'.occ[i] = db.occ[i]]_vars
    <2> SUFFICES ASSUME IInv, [Next]_vars
                 PROVE  Kept(db.occ, db'.occ)
      BY DEF Kept
    <2>1. db' = db \/ Commits(db, db')
      BY StepsCommit
    <2> QED
      BY <2>1, KeptItself DEF Commits
  <1> QED
    BY <1>1, Invariance, PTL DEF Spec, SettledStaysSettled

=============================================================================

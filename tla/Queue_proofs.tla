--------------------------- MODULE Queue_proofs ---------------------------
(***************************************************************************)
(* The customer's queue, for every history of one schedule.                *)
(*                                                                         *)
(* Planned orders stay on the cadence, and later orders land later: a run  *)
(* plans from past everything spoken for, on the anchor's own dates, each  *)
(* after the one before, and every other transaction either leaves the     *)
(* dates alone and outstanding orders fewer, or moves one order later and  *)
(* says so.                                                                *)
(*                                                                         *)
(* next_run_date names an order that is coming or has come, and hides      *)
(* none: each transaction refreshes it, empties the queue, or moves one    *)
(* order on to where the date still names it.                              *)
(*                                                                         *)
(* Whatever plans leaves the horizon full and no fuller, and a resumption  *)
(* plans what it announces: a run adds exactly what is missing.            *)
(*                                                                         *)
(* And what no step does: take back an order the customer was told of, or  *)
(* act on one key twice.  A skip and a deferral touch the order they name, *)
(* under the key they record; every other transaction, and the run at the  *)
(* end of one, leaves each standing order where it is or settles it, and   *)
(* records no key.                                                         *)
(*                                                                         *)
(* Last, what the cadence sheet shows is what the change then gives: sorted *)
(* lists follow each other, the armed orders stand, and the run counts on  *)
(* from where the sheet does.                                              *)
(***************************************************************************)
EXTENDS Schedule_proofs, CadenceSheet

-----------------------------------------------------------------------------
(* The dates a run plans.                                                    *)

(* A whole number of intervals leaves no remainder.                          *)
LEMMA MultiplesLeaveNothing ==
  ASSUME NEW k \in Nat \ {0}, NEW m \in Nat
  PROVE  (k * m) % k = 0
  BY SMTT(30)

(* A shipment's date is on its own cadence.                                  *)
LEMMA ShipmentsAreOnCadence ==
  ASSUME NEW a \in Int, NEW k \in Nat \ {0}, NEW n \in Nat \ {0}
  PROVE  OnCadence(a, k, OccurrenceDate(a, k, n))
  <1> DEFINE p == k * n
  <1>1. p \in Nat /\ p > 0
    BY SMTT(30)
  <1>2. p % k = 0
    BY MultiplesLeaveNothing
  <1>3. OccurrenceDate(a, k, n) = a + p
    BY DEF OccurrenceDate
  <1> HIDE DEF p
  <1>4. (a + p) - a = p /\ a + p > a
    BY <1>1, SMT
  <1> QED
    BY <1>2, <1>3, <1>4 DEF OnCadence

(* The dates a run plans come after where it starts, on the cadence, and one *)
(* after another (PlannedDate).                                              *)
LEMMA PlannedDatesAscend ==
  ASSUME NEW a \in Int, NEW k \in Nat \ {0}, NEW start \in Int
  PROVE  /\ \A i \in Nat \ {0} : /\ PlannedDate(a, k, start, i) \in Int
                                 /\ PlannedDate(a, k, start, i) > start
                                 /\ OnCadence(a, k, PlannedDate(a, k, start, i))
         /\ \A i, j \in Nat \ {0} :
              i < j => PlannedDate(a, k, start, i) < PlannedDate(a, k, start, j)
  <1> DEFINE n == NextSequence(a, k, start)
             D(m) == OccurrenceDate(a, k, m)
  <1>1. n \in Nat \ {0} /\ D(n) \in Int /\ D(n) > start
    BY NextOccurrenceIsFirstAfter DEF NextOccurrenceAfter
  <1>2. \A i : PlannedDate(a, k, start, i) = D(n + i - 1)
    BY DEF PlannedDate
  <1> HIDE DEF n
  <1>3. \A m \in Int : D(m) \in Int
    BY NextShipmentIsOneIntervalOn
  <1>4. \A l, m \in Int : l < m => D(l) + k <= D(m)
    BY ShipmentsAscend
  <1>5. \A m \in Nat \ {0} : OnCadence(a, k, D(m))
    BY ShipmentsAreOnCadence
  <1> HIDE DEF D
  <1>6. ASSUME NEW i \in Nat \ {0}
        PROVE  D(n + i - 1) \in Int /\ D(n + i - 1) > start /\ OnCadence(a, k, D(n + i - 1))
    <2>1. n + i - 1 \in Nat \ {0} /\ n + i - 1 \in Int /\ n \in Int
          /\ (n + i - 1 = n \/ n < n + i - 1)
      BY <1>1, SMT
    <2> DEFINE m == n + i - 1
    <2>2. m \in Int /\ n \in Int /\ m \in Nat \ {0} /\ (m = n \/ n < m)
      BY <2>1
    <2> HIDE DEF m
    <2>3. D(m) \in Int /\ OnCadence(a, k, D(m))
      BY <1>3, <1>5, <2>2
    <2>4. m = n \/ D(n) + k <= D(m)
      BY <1>4, <2>2
    <2>5. D(m) > start
      BY <1>1, <2>3, <2>4, SMT
    <2> QED
      BY <2>3, <2>5 DEF m
  <1>7. ASSUME NEW i \in Nat \ {0}, NEW j \in Nat \ {0}, i < j
        PROVE  D(n + i - 1) < D(n + j - 1)
    <2> DEFINE l == n + i - 1
               m == n + j - 1
    <2>1. l \in Int /\ m \in Int /\ l < m
      BY <1>1, <1>7, SMT
    <2> HIDE DEF l, m
    <2>2. D(l) + k <= D(m) /\ D(l) \in Int /\ D(m) \in Int
      BY <1>3, <1>4, <2>1
    <2>3. D(l) < D(m)
      BY <2>2, SMT
    <2> QED
      BY <2>3 DEF l, m
  <1> QED
    BY <1>2, <1>6, <1>7

(* A run starts from past everything that is outstanding (StartOfRun).       *)
LEMMA StartIsPastEverything ==
  ASSUME NEW d \in Rows, NEW runDate \in Int, NEW i \in WithStatus(d, Unsettled)
  PROVE  d.occ[i].date \in Int /\ d.occ[i].date <= StartOfRun(d, runDate)
  <1> DEFINE S == DatesOf(d, Unsettled, runDate)
             D == S \union {runDate}
             date == d.occ[i].date
  <1>1. S \in SUBSET Int /\ IsFiniteSet(S)
    BY DatesOfAreDates
  <1>2. date \in Int
    BY RowsHaveOrders, OrdersOf DEF WithStatus
  <1>3. date <= runDate \/ date \in S
    <2>1. date <= runDate \/ date > runDate
      BY <1>2, SMT
    <2> QED
      BY <2>1 DEF DatesOf
  <1>4. D \in SUBSET Int /\ IsFiniteSet(D) /\ D # {} /\ runDate \in D
    <2> HIDE DEF S
    <2> QED BY <1>1, FS_AddElement
  <1>5. StartOfRun(d, runDate) = Max(D)
    <2>1. D = {runDate} \union S
      OBVIOUS
    <2> QED
      BY <2>1 DEF StartOfRun
  <1> HIDE DEF S
  <1>6. Max(D) \in Int /\ Max(D) >= runDate /\ (date \in S => Max(D) >= date)
    <2>1. date \in S => date \in D
      OBVIOUS
    <2> HIDE DEF D, date
    <2> QED BY <1>4, <2>1, MaxOfDates
  <1>7. date <= Max(D)
    <2> HIDE DEF D, date
    <2> QED BY <1>2, <1>3, <1>6, SMT
  <1> QED
    BY <1>2, <1>5, <1>7

-----------------------------------------------------------------------------
(* The queue of one schedule's rows.                                         *)

\* The two properties of the rows: outstanding orders in order, planned on cadence.
InOrder(d) ==
  \A i \in WithStatus(d, Unsettled) \ d.log.deferred, j \in WithStatus(d, Unsettled) :
    i < j => d.occ[i].date < d.occ[j].date

OnRhythm(d) ==
  \A i \in WithStatus(d, {"planned"}) \ d.log.deferred :
    OnCadence(d.anchor, d.interval, d.occ[i].date)

\* Refreshing next_run_date, or clearing it, is nothing to the queue.
SameQueue(d, r) ==
  r.occ = d.occ /\ r.anchor = d.anchor /\ r.interval = d.interval
    /\ r.log.deferred = d.log.deferred

(* The queue is read off the orders, the cadence and the deferrals alone.    *)
LEMMA QueueOfColumns ==
  ASSUME NEW d, NEW r, SameQueue(d, r)
  PROVE  (InOrder(d) => InOrder(r)) /\ (OnRhythm(d) => OnRhythm(r))
  BY DEF SameQueue, InOrder, OnRhythm, WithStatus

(* Writing next_run_date leaves the queue as it was.                         *)
LEMMA NextRunIsNotQueue ==
  ASSUME NEW d \in Rows, NEW date
  PROVE  SameQueue(d, UpdateScheduleNextRun(d, date))
  BY DEF SameQueue, UpdateScheduleNextRun, Rows

(* RefreshNextRunDate writes next_run_date and no more.                      *)
LEMMA RefreshIsNotQueue ==
  ASSUME NEW d \in Rows, NEW runDate
  PROVE  SameQueue(d, RefreshNextRunDate(d, runDate))
  BY NextRunIsNotQueue DEF RefreshNextRunDate

(* Fewer orders outstanding, none of them moved, and the queue is in order.  *)
LEMMA FewerStayInOrder ==
  ASSUME NEW d, NEW r, InOrder(d), d.log.deferred \subseteq r.log.deferred,
         \A i \in WithStatus(r, Unsettled) :
           i \in WithStatus(d, Unsettled) /\ r.occ[i].date = d.occ[i].date
  PROVE  InOrder(r)
  BY DEF InOrder

(* So too with the cadence, as long as it is the same cadence.               *)
LEMMA FewerStayOnRhythm ==
  ASSUME NEW d, NEW r, OnRhythm(d), d.log.deferred \subseteq r.log.deferred,
         r.anchor = d.anchor, r.interval = d.interval,
         \A i \in WithStatus(r, {"planned"}) :
           i \in WithStatus(d, {"planned"}) /\ r.occ[i].date = d.occ[i].date
  PROVE  OnRhythm(r)
  BY DEF OnRhythm

(* What a run adds to the queue: nothing already there is touched, and each  *)
(* order added is a planned date past where the run started.                 *)
LEMMA RunExtendsTheQueue ==
  ASSUME NEW d \in Rows, NEW runDate \in Int, Agrees(d)
  PROVE  LET r == RunRows(d, runDate)
             n == Len(d.occ)
         IN  /\ n \in Nat /\ DOMAIN d.occ = 1..n /\ DOMAIN r.occ \subseteq Nat \ {0}
             /\ \A i \in DOMAIN r.occ : i <= n => r.occ[i] = d.occ[i]
             /\ \A i \in DOMAIN r.occ : i > n =>
                  /\ i - n \in Nat \ {0}
                  /\ r.occ[i].date = PlannedDate(d.anchor, d.interval,
                                                 StartOfRun(d, runDate), i - n)
             /\ r.anchor = d.anchor /\ r.interval = d.interval
             /\ r.log.deferred = d.log.deferred
  <1> DEFINE r == RunRows(d, runDate)
             n == Len(d.occ)
             t == PlannedOrders(d, runDate)
             D(i) == PlannedDate(d.anchor, d.interval, StartOfRun(d, runDate), i)
  <1>1. t \in Seq(Order) /\ d.occ \in Seq(Order) /\ d.log \in Log
    BY RunAppends, RowsHaveOrders
  <1>2. \A i \in DOMAIN t : t[i].date = D(i)
    <2> HIDE DEF D
    <2> QED BY DEF PlannedOrders, D
  <1>3. /\ r.occ = d.occ \o t /\ r.anchor = d.anchor /\ r.interval = d.interval
        /\ r.log.deferred = d.log.deferred
    <2> HIDE DEF t
    <2> QED BY <1>1 DEF RunRows, t, Rows, Log
  <1> HIDE DEF r, t, D
  <1>4. /\ Len(t) \in Nat /\ DOMAIN t = 1..Len(t)
        /\ n \in Nat /\ DOMAIN d.occ = 1..n
    BY <1>1, OrdersOf
  <1>5. /\ DOMAIN r.occ = 1..(n + Len(t))
        /\ \A i \in 1..(n + Len(t)) :
             r.occ[i] = IF i <= n THEN d.occ[i] ELSE t[i - n]
    <2>1. /\ d.occ \o t \in Seq(Order) /\ Len(d.occ \o t) = n + Len(t)
          /\ \A i \in 1..(n + Len(t)) :
               (d.occ \o t)[i] = IF i <= n THEN d.occ[i] ELSE t[i - n]
      BY <1>1, ConcatProperties
    <2>2. DOMAIN (d.occ \o t) = 1..Len(d.occ \o t)
      BY <2>1, OrdersOf
    <2> QED
      BY <1>3, <2>1, <2>2
  <1> HIDE DEF n
  <1>6. ASSUME NEW i \in DOMAIN r.occ, i > n
        PROVE  i - n \in Nat \ {0} /\ r.occ[i].date = D(i - n)
    <2>1. i \in 1..(n + Len(t)) /\ i - n \in 1..Len(t) /\ i - n \in Nat \ {0} /\ ~(i <= n)
      BY <1>4, <1>5, <1>6, SMT
    <2>2. r.occ[i] = t[i - n]
      BY <1>5, <2>1
    <2> QED
      BY <1>2, <1>4, <2>1, <2>2
  <1>7. \A i \in DOMAIN r.occ : i <= n => r.occ[i] = d.occ[i]
    BY <1>5
  <1>8. DOMAIN r.occ \subseteq Nat \ {0}
    BY <1>4, <1>5, SMT
  <1> QED
    BY <1>3, <1>4, <1>6, <1>7, <1>8 DEF r, n, D

(* A run leaves the queue in order and on the cadence (Run).                 *)
LEMMA RunKeepsTheQueue ==
  ASSUME NEW d \in Rows, NEW runDate \in Int, Agrees(d), InOrder(d), OnRhythm(d)
  PROVE  InOrder(Run(d, runDate)) /\ OnRhythm(Run(d, runDate))
  <1> DEFINE r == RunRows(d, runDate)
             n == Len(d.occ)
             start == StartOfRun(d, runDate)
             D(i) == PlannedDate(d.anchor, d.interval, start, i)
  <1>1. /\ Run(d, runDate) = RefreshNextRunDate(r, runDate) /\ r \in Rows
    BY RunAppends
  <1>2. /\ n \in Nat /\ DOMAIN d.occ = 1..n /\ DOMAIN r.occ \subseteq Nat \ {0}
        /\ \A i \in DOMAIN r.occ : i <= n => r.occ[i] = d.occ[i]
        /\ \A i \in DOMAIN r.occ : i > n => i - n \in Nat \ {0} /\ r.occ[i].date = D(i - n)
        /\ r.anchor = d.anchor /\ r.interval = d.interval
        /\ r.log.deferred = d.log.deferred
    BY RunExtendsTheQueue
  <1>3. start \in Int
    BY StartIsADate
  <1>4. /\ \A i \in Nat \ {0} : /\ D(i) \in Int /\ D(i) > start
                              /\ OnCadence(d.anchor, d.interval, D(i))
        /\ \A i, j \in Nat \ {0} : i < j => D(i) < D(j)
    <2>1. d.anchor \in Int /\ d.interval \in 7..180
      BY RowsHaveOrders
    <2>2. d.interval \in Nat \ {0}
      <3> HIDE DEF D, r, n, start
      <3> QED BY <2>1, SMT
    <2> HIDE DEF start
    <2> QED BY <2>2, <1>3, <2>1, PlannedDatesAscend
  <1>5. \A i \in WithStatus(d, Unsettled) : d.occ[i].date \in Int /\ d.occ[i].date <= start
    BY StartIsPastEverything
  <1> HIDE DEF r, n, start, D
  <1>6. \A statuses, i : i \in WithStatus(r, statuses) /\ i <= n =>
          i \in WithStatus(d, statuses) /\ r.occ[i] = d.occ[i]
    <2> SUFFICES ASSUME NEW statuses, NEW i, i \in WithStatus(r, statuses), i <= n
                 PROVE  i \in WithStatus(d, statuses) /\ r.occ[i] = d.occ[i]
      OBVIOUS
    <2>1. i \in DOMAIN r.occ /\ i \in Nat \ {0} /\ r.occ[i] = d.occ[i]
      BY <1>2 DEF WithStatus
    <2>2. i \in DOMAIN d.occ
      BY <1>2, <2>1
    <2> QED
      BY <2>1, <2>2 DEF WithStatus
  <1>7. InOrder(r)
    <2> SUFFICES ASSUME NEW i \in WithStatus(r, Unsettled) \ r.log.deferred,
                        NEW j \in WithStatus(r, Unsettled), i < j
                 PROVE  r.occ[i].date < r.occ[j].date
      BY DEF InOrder
    <2>1. i \in DOMAIN r.occ /\ j \in DOMAIN r.occ /\ i \in Nat \ {0} /\ j \in Nat \ {0}
      BY <1>2 DEF WithStatus
    <2>2. CASE j <= n
      <3>1. i <= n
        BY <1>2, <2>1, <2>2
      <3> QED
        BY <1>2, <1>6, <2>2, <3>1 DEF InOrder
    <2>3. CASE i <= n /\ j > n
      <3>1. r.occ[i].date \in Int /\ r.occ[i].date <= start
        BY <1>5, <1>6, <2>3
      <3>2. r.occ[j].date \in Int /\ r.occ[j].date > start
        BY <1>2, <1>4, <2>1, <2>3
      <3> QED
        BY <1>3, <3>1, <3>2
    <2>4. CASE i > n
      <3>1. j > n /\ i - n < j - n
        BY <1>2, <2>1, <2>4
      <3>2. /\ i - n \in Nat \ {0} /\ r.occ[i].date = D(i - n)
            /\ j - n \in Nat \ {0} /\ r.occ[j].date = D(j - n)
        BY <1>2, <2>1, <2>4, <3>1
      <3> QED
        BY <1>4, <3>1, <3>2
    <2> QED
      BY <1>2, <2>1, <2>2, <2>3, <2>4
  <1>8. OnRhythm(r)
    <2> SUFFICES ASSUME NEW i \in WithStatus(r, {"planned"}) \ r.log.deferred
                 PROVE  OnCadence(r.anchor, r.interval, r.occ[i].date)
      BY DEF OnRhythm
    <2>1. i \in DOMAIN r.occ /\ i \in Nat \ {0}
      BY <1>2 DEF WithStatus
    <2>2. CASE i <= n
      BY <1>2, <1>6, <2>2 DEF OnRhythm
    <2>3. CASE i > n
      BY <1>2, <1>4, <2>1, <2>3
    <2> QED
      BY <1>2, <2>1, <2>2, <2>3
  <1>9. SameQueue(r, Run(d, runDate))
    BY <1>1, RefreshIsNotQueue
  <1> QED
    BY <1>7, <1>8, <1>9, QueueOfColumns

-----------------------------------------------------------------------------
(* The transactions.                                                         *)

(* An order whose status changes out of the queue, or from planned to armed, *)
(* leaves the rest where they were.                                          *)
LEMMA OneFewer ==
  ASSUME NEW d, InOrder(d), OnRhythm(d), NEW r, NEW i \in WithStatus(d, Unsettled),
         NEW x, x # "planned", r.occ = [d.occ EXCEPT ![i].status = x],
         d.occ \in Seq(Order), r.anchor = d.anchor, r.interval = d.interval,
         r.log.deferred = d.log.deferred
  PROVE  InOrder(r) /\ OnRhythm(r)
  <1>1. i \in DOMAIN d.occ /\ DOMAIN r.occ = DOMAIN d.occ
    BY DEF WithStatus
  <1>2. \A j \in DOMAIN d.occ : r.occ[j].date = d.occ[j].date
    BY OrdersOf DEF Order
  <1>3. \A j \in DOMAIN d.occ : j # i => r.occ[j] = d.occ[j]
    OBVIOUS
  <1>4. r.occ[i].status = x
    BY <1>1, OrdersOf DEF Order
  <1>5. \A j \in WithStatus(r, Unsettled) : j \in WithStatus(d, Unsettled)
    BY <1>1, <1>3 DEF WithStatus
  <1>6. \A j \in WithStatus(r, {"planned"}) : j \in WithStatus(d, {"planned"})
    BY <1>1, <1>3, <1>4 DEF WithStatus
  <1>7. \A s : WithStatus(r, s) \subseteq DOMAIN d.occ
    BY <1>1 DEF WithStatus
  <1>8. InOrder(r)
    BY <1>2, <1>5, <1>7, FewerStayInOrder
  <1>9. OnRhythm(r)
    BY <1>2, <1>6, <1>7, FewerStayOnRhythm
  <1> QED
    BY <1>8, <1>9

(* A schedule with nothing outstanding has its queue in order, and so does   *)
(* any schedule whose outstanding orders are none of them planned.           *)
LEMMA NothingOutstandingIsInOrder ==
  ASSUME NEW d, WithStatus(d, Unsettled) = {}
  PROVE  InOrder(d) /\ OnRhythm(d)
  <1>1. WithStatus(d, {"planned"}) = {}
    BY DEF WithStatus, Unsettled
  <1> QED
    BY <1>1 DEF InOrder, OnRhythm

(* Arming keeps the queue.                                                   *)
LEMMA ArmedKeepsTheQueue ==
  ASSUME NEW d \in Rows, Agrees(d), InOrder(d), OnRhythm(d),
         NEW i \in WithStatus(d, Unsettled)
  PROVE  InOrder(Armed(d, i)) /\ OnRhythm(Armed(d, i))
  <1> DEFINE r == ArmedRows(d, i)
  <1>1. /\ r.occ = [d.occ EXCEPT ![i].status = "pending"]
        /\ r.anchor = d.anchor /\ r.interval = d.interval
        /\ r.log.deferred = d.log.deferred
    BY RowsHaveOrders DEF ArmedRows, RowsWith, Log
  <1>2. d.occ \in Seq(Order) /\ Armed(d, i) = r
    BY RowsHaveOrders, ArmedByColumn
  <1> HIDE DEF r
  <1> QED
    BY <1>1, <1>2, OneFewer

(* Placing keeps the queue.                                                  *)
LEMMA PlacedKeepsTheQueue ==
  ASSUME NEW d \in Rows, Agrees(d), InOrder(d), OnRhythm(d),
         NEW i \in WithStatus(d, {"pending"})
  PROVE  InOrder(Placed(d, i)) /\ OnRhythm(Placed(d, i))
  <1> DEFINE r == PlacedRows(d, i)
  <1>1. /\ r.occ = [d.occ EXCEPT ![i].status = "placed"]
        /\ r.anchor = d.anchor /\ r.interval = d.interval
        /\ r.log.deferred = d.log.deferred
    BY RowsHaveOrders DEF PlacedRows, RowsWith, Log
  <1>2. d.occ \in Seq(Order) /\ Placed(d, i) = r /\ i \in WithStatus(d, Unsettled)
    BY RowsHaveOrders, PlacedByColumn DEF WithStatus, Unsettled
  <1> HIDE DEF r
  <1> QED
    BY <1>1, <1>2, OneFewer

(* Skipping takes one order out and the run fills up behind the rest.        *)
LEMMA SkippedKeepsTheQueue ==
  ASSUME NEW d \in Rows, Agrees(d), InOrder(d), OnRhythm(d), today \in Int,
         NEW i \in WithStatus(d, Unsettled), NEW key \in Keys
  PROVE  InOrder(Skipped(d, i, key)) /\ OnRhythm(Skipped(d, i, key))
  <1> DEFINE r == SkippedRows(d, i, key)
  <1>1. /\ r.occ = [d.occ EXCEPT ![i].status = "skipped"]
        /\ r.anchor = d.anchor /\ r.interval = d.interval
        /\ r.log.deferred = d.log.deferred
    BY RowsHaveOrders DEF SkippedRows, StatusLogged, RowsWith, Log
  <1>2. /\ d.occ \in Seq(Order) /\ Skipped(d, i, key) = Run(r, today)
        /\ r \in Rows /\ Agrees(r)
    BY RowsHaveOrders, SkippedThenRuns
  <1> HIDE DEF r
  <1>3. InOrder(r) /\ OnRhythm(r)
    BY <1>1, <1>2, OneFewer
  <1> QED
    BY <1>2, <1>3, RunKeepsTheQueue

(* A deferral moves one order later and exempts it from then on.             *)
LEMMA DeferredKeepsTheQueue ==
  ASSUME NEW d \in Rows, Agrees(d), InOrder(d), OnRhythm(d),
         NEW i \in WithStatus(d, Unsettled), NEW days \in Nat, NEW key \in Keys
  PROVE  InOrder(Deferred(d, i, days, key)) /\ OnRhythm(Deferred(d, i, days, key))
  <1> DEFINE to == d.occ[i].date + days
             r == DeferredRows(d, i, days, key)
  <1>1. /\ r.occ = [d.occ EXCEPT ![i].date = to]
        /\ r.anchor = d.anchor /\ r.interval = d.interval
        /\ r.log.deferred = d.log.deferred \union {i}
    <2> HIDE DEF to
    <2>1. r = RowsWith(d.status, d.interval, d.anchor, d.nextRun, d.pausedUntil,
                       [d.occ EXCEPT ![i].date = to],
                       DateLogged(d.log, i, to, {<<"occurrence.deferred", key>>}))
      BY DEF DeferredRows, to
    <2> HIDE DEF r
    <2> QED BY <2>1, RowsHaveOrders DEF DateLogged, RowsWith, Log
  <1>2. /\ Deferred(d, i, days, key) = RefreshNextRunDate(r, today) /\ r \in Rows
    BY DeferredThenRefreshes
  <1>3. /\ d.occ \in Seq(Order) /\ i \in DOMAIN d.occ
        /\ \A j \in DOMAIN d.occ : d.occ[j].date \in Int
    BY RowsHaveOrders, OrdersOf DEF WithStatus
  <1>4. to \in Int /\ to >= d.occ[i].date
    BY <1>3, SMT
  <1> HIDE DEF r, to
  <1>5. \A statuses : WithStatus(r, statuses) = WithStatus(d, statuses)
    BY <1>1, <1>3, OrdersOf DEF WithStatus, Order
  <1>6. \A j \in DOMAIN d.occ : j # i => r.occ[j] = d.occ[j]
    BY <1>1
  <1>7. r.occ[i].date = to
    BY <1>1, <1>3, OrdersOf DEF Order
  <1>8. \A statuses, j : j \in WithStatus(d, statuses) => j \in DOMAIN d.occ
    BY DEF WithStatus
  <1>9. InOrder(r)
    <2> SUFFICES ASSUME NEW l \in WithStatus(d, Unsettled) \ r.log.deferred,
                        NEW j \in WithStatus(d, Unsettled), l < j
                 PROVE  r.occ[l].date < r.occ[j].date
      BY <1>5 DEF InOrder
    <2>1. l # i /\ l \notin d.log.deferred /\ l \in DOMAIN d.occ /\ j \in DOMAIN d.occ
      BY <1>1, <1>8
    <2>2. d.occ[l].date < d.occ[j].date /\ r.occ[l] = d.occ[l]
      BY <1>6, <2>1 DEF InOrder
    <2>3. CASE j = i
      BY <1>3, <1>4, <1>7, <2>1, <2>2, <2>3, SMT
    <2>4. CASE j # i
      BY <1>6, <2>1, <2>2, <2>4
    <2> QED
      BY <2>3, <2>4
  <1>10. OnRhythm(r)
    BY <1>1, <1>5, <1>6, <1>8 DEF OnRhythm
  <1>11. SameQueue(r, Deferred(d, i, days, key))
    BY <1>2, RefreshIsNotQueue
  <1> QED
    BY <1>9, <1>10, <1>11, QueueOfColumns

(* Resuming starts from an empty queue, on the new anchor.                   *)
LEMMA ResumedKeepsTheQueue ==
  ASSUME NEW d \in Rows, Agrees(d), today \in Int, WithStatus(d, Unsettled) = {}
  PROVE  InOrder(Resumed(d)) /\ OnRhythm(Resumed(d))
  <1> DEFINE r == ResumedRows(d)
  <1>1. Resumed(d) = Run(r, today) /\ r \in Rows /\ Agrees(r) /\ r.occ = d.occ
    BY ResumedThenRuns
  <1> HIDE DEF r
  <1>2. WithStatus(r, Unsettled) = {}
    BY <1>1 DEF WithStatus
  <1> QED
    BY <1>1, <1>2, NothingOutstandingIsInOrder, RunKeepsTheQueue

(* A cadence change clears what was planned at the old interval, so that     *)
(* what stands, the armed order, is in order and nothing is off the cadence. *)
LEMMA CadenceChangedKeepsTheQueue ==
  ASSUME NEW d \in Rows, Agrees(d), InOrder(d), today \in Int, NEW interval \in 7..180
  PROVE  InOrder(CadenceChanged(d, interval)) /\ OnRhythm(CadenceChanged(d, interval))
  <1> DEFINE q == CanceledRows(d.occ, {"planned"})
             r == CadenceChangedRows(d, interval)
             s == CadenceChanged(d, interval)
  <1>1. /\ s = IF d.status = "active" THEN Run(r, today)
               ELSE UpdateScheduleNextRun(r, NoDate)
        /\ r \in Rows /\ Agrees(r) /\ r.occ = q
    BY CadenceChangedThenRuns
  <1>2. r.log.deferred = d.log.deferred
    BY RowsHaveOrders DEF CadenceChangedRows, RowsWith, Log
  <1>3. \A i \in DOMAIN d.occ :
          q[i].status \in Unsettled => q[i] = d.occ[i] /\ q[i].status # "planned"
    <2>1. \A i \in DOMAIN d.occ : d.occ[i].status \in OccurrenceStatus /\ d.occ[i] \in Order
      BY RowsHaveOrders, OrdersOf
    <2> QED
      BY <2>1 DEF CanceledRows, Unsettled, Order
  <1>4. DOMAIN q = DOMAIN d.occ
    BY DEF CanceledRows
  <1> HIDE DEF q, r
  <1>5. InOrder(r)
    <2>1. \A i \in WithStatus(r, Unsettled) :
            i \in WithStatus(d, Unsettled) /\ r.occ[i].date = d.occ[i].date
      BY <1>1, <1>3, <1>4 DEF WithStatus
    <2> QED
      BY <1>2, <2>1, FewerStayInOrder
  <1>6. OnRhythm(r)
    BY <1>1, <1>3, <1>4 DEF OnRhythm, WithStatus, Unsettled
  <1> HIDE DEF s
  <1>7. CASE d.status = "active"
    <2>1. InOrder(s) /\ OnRhythm(s)
      BY <1>1, <1>5, <1>6, <1>7, RunKeepsTheQueue
    <2> QED
      BY <2>1 DEF s
  <1>8. CASE d.status # "active"
    <2>1. SameQueue(r, s)
      BY <1>1, <1>8, NextRunIsNotQueue
    <2>2. InOrder(s) /\ OnRhythm(s)
      BY <1>5, <1>6, <2>1, QueueOfColumns
    <2> QED
      BY <2>2 DEF s
  <1> QED
    BY <1>7, <1>8

-----------------------------------------------------------------------------
(* The steps.                                                                *)

(* A pause leaves the schedule paused.                                       *)
LEMMA PausedIsPaused ==
  ASSUME NEW d \in Rows, NEW until
  PROVE  Paused(d, until).status = "paused"
  BY DEF Paused, UpdateScheduleStatus, UpdateScheduleNextRun, CancelOccurrences,
         AppendEvent, Rows

(* A cancellation leaves the schedule canceled.                              *)
LEMMA CanceledIsCanceled ==
  ASSUME NEW d \in Rows
  PROVE  Canceled(d).status = "canceled"
  BY DEF Canceled, UpdateScheduleStatus, UpdateScheduleNextRun, CancelOccurrences,
         AppendEvent, Rows

(* The inductive invariant: the queue's two properties, and the well-formed, *)
(* quiet, agreeing rows they are kept on.                                    *)
QInv == IInv /\ LaterOrdersLandLater /\ PlannedOnCadence

(* The inductive invariant, unpacked into the rows.                          *)
LEMMA QInvOfRows ==
  /\ QInv <=> IInv /\ InOrder(db) /\ OnRhythm(db)
  /\ QInv' <=> IInv' /\ InOrder(db)' /\ OnRhythm(db)'
  BY DEF QInv, LaterOrdersLandLater, PlannedOnCadence, InOrder, OnRhythm

(* A schedule is created with nothing planned.                               *)
LEMMA InitQueue == Init => QInv
  <1> SUFFICES ASSUME Init PROVE QInv
    OBVIOUS
  <1>1. db.occ = <<>>
    BY DEF Init, Created
  <1>2. WithStatus(db, Unsettled) = {}
    BY <1>1 DEF WithStatus
  <1> QED
    BY <1>2, InitIsSound, NothingOutstandingIsInOrder, QInvOfRows

(* Every step keeps the queue in order and on the cadence.                   *)
LEMMA StepsKeepTheQueue == QInv /\ [Next]_vars => QInv'
  <1> SUFFICES ASSUME QInv, [Next]_vars PROVE InOrder(db') /\ OnRhythm(db')
    BY QInvOfRows, StepsPreserve DEF InOrder, OnRhythm, WithStatus
  <1>1. /\ IInv /\ InOrder(db) /\ OnRhythm(db)
        /\ today \in Int /\ db \in Rows /\ Quiet(db) /\ Agrees(db)
    BY QInvOfRows, IInvOfRows
  <1>2. db' = db \/ Commits(db, db')
    BY <1>1, StepsCommit
  <1>3. CASE db'.status \in {"paused", "canceled"}
    <2>1. Quiet(db')
      BY <1>1, <1>2 DEF Commits
    <2>2. WithStatus(db', Unsettled) = {}
      BY <1>3, <2>1 DEF Quiet
    <2> QED
      BY <2>2, NothingOutstandingIsInOrder
  <1>4. CASE \E until \in {today + n : n \in PauseDays} \union {NoDate} : Pause(until)
    <2>1. PICK until : db' = Paused(db, until)
      BY <1>4 DEF Pause, Commit
    <2>2. db'.status = "paused"
      BY <1>1, <2>1, PausedIsPaused
    <2> QED
      BY <1>3, <2>2
  <1>5. CASE Resume
    <2>1. db' = Resumed(db) /\ WithStatus(db, Unsettled) = {}
      BY <1>1, <1>5 DEF Resume, Commit, ValidTransition, scheduleTransitions, Quiet
    <2> QED
      BY <1>1, <2>1, ResumedKeepsTheQueue
  <1>6. CASE \E key \in Keys : SkipNext(key)
    <2>1. PICK key \in Keys, i \in DOMAIN db.occ :
            IsSoonest(db, Unsettled, i) /\ Commit(Skipped(db, i, key))
      BY <1>6 DEF SkipNext
    <2>2. i \in WithStatus(db, Unsettled) /\ db' = Skipped(db, i, key)
      BY <2>1 DEF IsSoonest, Commit
    <2> QED
      BY <1>1, <2>2, SkippedKeepsTheQueue
  <1>7. CASE \E key \in Keys, days \in DeferDays : Defer(days, key)
    <2>1. PICK key \in Keys, days \in DeferDays, i \in DOMAIN db.occ :
            IsSoonest(db, Unsettled, i) /\ Commit(Deferred(db, i, days, key))
      BY <1>7 DEF Defer
    <2>2. i \in WithStatus(db, Unsettled) /\ db' = Deferred(db, i, days, key)
      BY <2>1 DEF IsSoonest, Commit
    <2>3. days \in Nat
      BY ScheduleAssumption
    <2> QED
      BY <1>1, <2>2, <2>3, DeferredKeepsTheQueue
  <1>8. CASE \E interval \in Intervals : ChangeCadence(interval)
    <2>1. PICK interval \in Intervals : db' = CadenceChanged(db, interval)
      BY <1>8 DEF ChangeCadence, Commit
    <2>2. interval \in 7..180
      BY ScheduleAssumption
    <2> QED
      BY <1>1, <2>1, <2>2, CadenceChangedKeepsTheQueue
  <1>9. CASE Cancel
    <2>1. db' = Canceled(db)
      BY <1>9 DEF Cancel, Commit
    <2>2. db'.status = "canceled"
      BY <1>1, <2>1, CanceledIsCanceled
    <2> QED
      BY <1>3, <2>2
  <1>10. CASE ArmNext
    <2>1. PICK i \in DOMAIN db.occ :
            IsSoonest(db, {"planned"}, i) /\ Commit(Armed(db, i))
      BY <1>10 DEF ArmNext
    <2>2. i \in WithStatus(db, Unsettled) /\ db' = Armed(db, i)
      BY <2>1 DEF IsSoonest, Commit, WithStatus, Unsettled
    <2> QED
      BY <1>1, <2>2, ArmedKeepsTheQueue
  <1>11. CASE \E runDate \in RunDates : Materialize(runDate)
    <2>1. PICK runDate \in RunDates : db' = Run(db, runDate)
      BY <1>11 DEF Materialize, Commit
    <2>2. runDate \in Int
      BY <1>1, ScheduleAssumption DEF RunDates
    <2> QED
      BY <1>1, <2>1, <2>2, RunKeepsTheQueue
  <1>12. CASE PlaceOrder
    <2>1. PICK i \in WithStatus(db, {"pending"}) : db' = Placed(db, i)
      BY <1>12 DEF PlaceOrder, Commit, Placed
    <2> QED
      BY <1>1, <2>1, PlacedKeepsTheQueue
  <1>13. CASE NextDay \/ UNCHANGED vars
    BY <1>1, <1>13 DEF NextDay, vars
  <1> QED
    BY <1>4, <1>5, <1>6, <1>7, <1>8, <1>9, <1>10, <1>11, <1>12, <1>13
       DEF Next, Customer

(* The queue's invariant holds of every reachable state.                     *)
LEMMA QueueInvariance == Spec => []QInv
  BY InitQueue, StepsKeepTheQueue, PTL DEF Spec

-----------------------------------------------------------------------------
(* Whatever order pauses, resumes, skips, deferrals and cadence changes come *)
(* in, a planned order nobody deferred is a whole number of intervals from   *)
(* the schedule's anchor as it now stands (Run; CancelOccurrences).          *)
THEOREM PlannedStaysOnCadence == Spec => []PlannedOnCadence
  <1>1. QInv => PlannedOnCadence
    BY DEF QInv
  <1> QED
    BY <1>1, QueueInvariance, PTL

(* Orders are planned one after another for ever: no two land on one day     *)
(* unless the customer moved one there (StartOfRun; PlannedDate).            *)
THEOREM LaterOrdersKeepLandingLater == Spec => []LaterOrdersLandLater
  <1>1. QInv => LaterOrdersLandLater
    BY DEF QInv
  <1> QED
    BY <1>1, QueueInvariance, PTL

-----------------------------------------------------------------------------
(* The date of the next order.                                               *)

\* The two properties of next_run_date, of any rows and any day.
HidesNothing(d, day) ==
  \A i \in WithStatus(d, {"planned"}) :
    d.occ[i].date > day => d.nextRun # NoDate /\ d.nextRun <= d.occ[i].date

NamesAnOrder(d) ==
  d.nextRun # NoDate =>
    \E i \in WithStatus(d, Unsettled \union {"placed"}) : d.occ[i].date = d.nextRun

(* Refreshing names the soonest of the orders planned past the run's date,   *)
(* and none when there is none (RefreshNextRunDate).                         *)
LEMMA RefreshNamesTheSoonest ==
  ASSUME NEW r \in Rows, NEW runDate \in Int
  PROVE  LET s == RefreshNextRunDate(r, runDate)
         IN  /\ s.occ = r.occ
             /\ HidesNothing(s, runDate) /\ NamesAnOrder(s)
             /\ s.nextRun # NoDate =>
                  \E i \in WithStatus(s, {"planned"}) : s.occ[i].date = s.nextRun
  <1> DEFINE ahead == DatesOf(r, {"planned"}, runDate)
             next == IF ahead = {} THEN NoDate ELSE Min(ahead)
             s == RefreshNextRunDate(r, runDate)
  <1>1. ahead \in SUBSET Int /\ IsFiniteSet(ahead)
    BY DatesOfAreDates
  <1>2. s.occ = r.occ /\ s.nextRun = next
    BY DEF RefreshNextRunDate, UpdateScheduleNextRun, Rows
  <1>3. \A i \in WithStatus(r, {"planned"}) : r.occ[i].date > runDate => r.occ[i].date \in ahead
    BY DEF DatesOf
  <1>4. \A date \in ahead : \E i \in WithStatus(r, {"planned"}) : r.occ[i].date = date
    BY DEF DatesOf
  <1> HIDE DEF ahead, s
  <1>5. ahead # {} => next \in ahead /\ \A date \in ahead : next <= date
    BY <1>1, MinOfDates
  <1>6. next # NoDate => ahead # {}
    OBVIOUS
  <1>7. ahead # {} => next # NoDate
    BY <1>1, <1>5, ScheduleAssumption
  <1> HIDE DEF next
  <1>8. \A statuses : WithStatus(s, statuses) = WithStatus(r, statuses)
    BY <1>2 DEF WithStatus
  <1>9. HidesNothing(s, runDate)
    BY <1>2, <1>3, <1>5, <1>7, <1>8 DEF HidesNothing
  <1>10. s.nextRun # NoDate => \E i \in WithStatus(s, {"planned"}) : s.occ[i].date = s.nextRun
    BY <1>2, <1>4, <1>5, <1>6, <1>8
  <1>11. NamesAnOrder(s)
    <2>1. WithStatus(s, {"planned"}) \subseteq WithStatus(s, Unsettled \union {"placed"})
      BY DEF WithStatus, Unsettled
    <2> QED
      BY <1>10, <2>1 DEF NamesAnOrder
  <1> QED
    BY <1>2, <1>9, <1>10, <1>11 DEF s

(* What hides nothing past one day hides nothing past a later one.           *)
LEMMA LaterHidesNothing ==
  ASSUME NEW d \in Rows, NEW day \in Int, NEW later \in Int, day <= later,
         HidesNothing(d, day)
  PROVE  HidesNothing(d, later)
  <1>1. \A i \in WithStatus(d, {"planned"}) : d.occ[i].date \in Int
    BY RowsHaveOrders, OrdersOf DEF WithStatus
  <1>2. \A i \in WithStatus(d, {"planned"}) : d.occ[i].date > later => d.occ[i].date > day
    BY <1>1, SMT
  <1> QED
    BY <1>2 DEF HidesNothing

\* One order moves on, armed or placed, and next_run_date is left as it was.
MovesOn(d, r) ==
  \E i \in DOMAIN d.occ, status \in {"pending", "placed"} :
    /\ d.occ[i].status \in Unsettled
    /\ r.occ = [d.occ EXCEPT ![i].status = status] /\ r.nextRun = d.nextRun

(* It does not matter to next_run_date: the order is no longer planned, and  *)
(* an order next_run_date may still name.                                    *)
LEMMA MovingOnKeepsNextRun ==
  ASSUME NEW d \in Rows, NEW r, MovesOn(d, r), NEW day
  PROVE  /\ HidesNothing(d, day) => HidesNothing(r, day)
         /\ NamesAnOrder(d) => NamesAnOrder(r)
  <1>1. PICK i \in DOMAIN d.occ, status \in {"pending", "placed"} :
          /\ d.occ[i].status \in Unsettled
          /\ r.occ = [d.occ EXCEPT ![i].status = status] /\ r.nextRun = d.nextRun
    BY DEF MovesOn
  <1>2. \A j \in DOMAIN d.occ : d.occ[j] \in Order
    BY RowsHaveOrders, OrdersOf
  <1>3. DOMAIN r.occ = DOMAIN d.occ
    BY <1>1
  <1>4. \A j \in DOMAIN d.occ : /\ r.occ[j].date = d.occ[j].date
                                /\ r.occ[j].status = IF j = i THEN status ELSE d.occ[j].status
    BY <1>1, <1>2 DEF Order
  <1>5. WithStatus(r, {"planned"}) \subseteq WithStatus(d, {"planned"})
    BY <1>3, <1>4 DEF WithStatus
  <1>6. WithStatus(d, Unsettled \union {"placed"}) \subseteq WithStatus(r, Unsettled \union {"placed"})
    BY <1>3, <1>4 DEF WithStatus, Unsettled
  <1>7. \A statuses, j : j \in WithStatus(d, statuses) => j \in DOMAIN d.occ
    BY DEF WithStatus
  <1> QED
    BY <1>1, <1>4, <1>5, <1>6, <1>7 DEF HidesNothing, NamesAnOrder

(* A run ends by refreshing next_run_date.                                   *)
LEMMA RunRefreshes ==
  ASSUME NEW d \in Rows, NEW runDate \in Int, Agrees(d)
  PROVE  \E r \in Rows : Run(d, runDate) = RefreshNextRunDate(r, runDate)
  BY RunAppends

\* How a step can leave the rows: refreshed on some run's date, quiet, with nothing
\* planned and no next date, or with one order moved on.
Refreshed(r, runDate) == \E before \in Rows : r = RefreshNextRunDate(before, runDate)

Emptied(r) == r.nextRun = NoDate /\ WithStatus(r, {"planned"}) = {}

(* The days on which jobs are run are days.                                  *)
LEMMA RunsHaveDates ==
  ASSUME today \in Int
  PROVE  \A runDate \in RunDates \union {today} : runDate \in Int
  BY ScheduleAssumption DEF RunDates

\* The dates a transaction may take for a day: the customer's own, and the jobs'.
TodayFor(day) == {day} \union {day + skew : skew \in RunDateSkew}

(* They are a few days, one of them the latest.                              *)
LEMMA LatestOfTheDates ==
  ASSUME NEW day \in Int
  PROVE  /\ \A runDate \in TodayFor(day) : runDate \in Int
         /\ Max(TodayFor(day)) \in TodayFor(day)
         /\ \A runDate \in TodayFor(day) : runDate <= Max(TodayFor(day))
  <1>1. TodayFor(day) \subseteq (day - 1)..(day + 1)
    <2>1. ASSUME NEW skew \in RunDateSkew
          PROVE  day + skew \in (day - 1)..(day + 1)
      <3>1. skew = -1 \/ skew = 0 \/ skew = 1
        BY ScheduleAssumption
      <3> QED
        BY <3>1
    <2>2. day \in (day - 1)..(day + 1)
      OBVIOUS
    <2> QED
      BY <2>1, <2>2 DEF TodayFor
  <1>2. \A runDate \in TodayFor(day) : runDate \in Int
    BY <1>1
  <1>3. IsFiniteSet(TodayFor(day))
    <2>1. IsFiniteSet((day - 1)..(day + 1))
      BY FS_Interval
    <2> QED
      BY <1>1, <2>1, FS_Subset
  <1>4. day \in TodayFor(day)
    BY DEF TodayFor
  <1>5. /\ Max(TodayFor(day)) \in TodayFor(day)
        /\ \A runDate \in TodayFor(day) : Max(TodayFor(day)) >= runDate
    BY <1>2, <1>3, <1>4, MaxOfDates
  <1> QED
    BY <1>2, <1>5

(* No run is dated past the latest date.                                     *)
LEMMA NoRunIsLater ==
  ASSUME today \in Int
  PROVE  /\ LatestRunDate \in Int
         /\ \A runDate \in RunDates \union {today} :
              runDate \in Int /\ runDate <= LatestRunDate
  <1>1. LatestRunDate = Max(TodayFor(today)) /\ RunDates \union {today} = TodayFor(today)
    BY DEF LatestRunDate, RunDates, TodayFor
  <1> QED
    BY <1>1, LatestOfTheDates

(* Where no job's date is ahead of the customer's, the latest date is today. *)
LEMMA LatestIsToday ==
  ASSUME today \in Int, RunDateSkew \subseteq {-1, 0}
  PROVE  LatestRunDate = today
  <1>1. LatestRunDate = Max(TodayFor(today))
    BY DEF LatestRunDate, RunDates, TodayFor
  <1>2. \A runDate \in TodayFor(today) : runDate <= today
    <2>1. ASSUME NEW skew \in RunDateSkew
          PROVE  today + skew <= today
      <3>1. skew = -1 \/ skew = 0
        OBVIOUS
      <3> QED
        BY <3>1
    <2> QED
      BY <2>1 DEF TodayFor
  <1>3. today \in TodayFor(today)
    BY DEF TodayFor
  <1>4. LatestRunDate \in Int /\ LatestRunDate <= today /\ today <= LatestRunDate
    BY <1>1, <1>2, <1>3, LatestOfTheDates
  <1> QED
    BY <1>4

(* The latest date moves with the days.                                      *)
LEMMA LatestRunDateAdvances ==
  ASSUME today \in Int, today' = today \/ today' = today + 1
  PROVE  /\ LatestRunDate \in Int /\ LatestRunDate' \in Int
         /\ LatestRunDate <= LatestRunDate'
  <1>1. LatestRunDate = Max(TodayFor(today)) /\ LatestRunDate' = Max(TodayFor(today'))
    BY DEF LatestRunDate, RunDates, TodayFor
  <1>2. today' \in Int
    OBVIOUS
  <1>3. ASSUME NEW date \in TodayFor(today)
        PROVE  date \in TodayFor(today') \/ date + 1 \in TodayFor(today')
    <2>1. CASE date = today
      BY <2>1 DEF TodayFor
    <2>2. ASSUME NEW skew \in RunDateSkew, date = today + skew
          PROVE  date \in TodayFor(today') \/ date + 1 \in TodayFor(today')
      <3>1. today' + skew \in TodayFor(today')
        BY DEF TodayFor
      <3>2. skew \in Int
        BY ScheduleAssumption
      <3>3. today' + skew = date \/ today' + skew = date + 1
        BY <2>2, <3>2
      <3> QED
        BY <3>1, <3>3
    <2> QED
      BY <2>1, <2>2 DEF TodayFor
  <1>4. Max(TodayFor(today)) \in TodayFor(today) /\ Max(TodayFor(today)) \in Int
    BY LatestOfTheDates
  <1>5. /\ \A date \in TodayFor(today') : date <= Max(TodayFor(today'))
        /\ Max(TodayFor(today')) \in Int
    BY <1>2, LatestOfTheDates
  <1>6. Max(TodayFor(today)) <= Max(TodayFor(today'))
    BY <1>3, <1>4, <1>5
  <1> QED
    BY <1>1, <1>4, <1>5, <1>6

(* Every transaction leaves next_run_date in one of these ways.              *)
LEMMA StepsRefreshOrMoveOn ==
  ASSUME IInv, [Next]_vars
  PROVE  \/ db' = db /\ (today' = today \/ today' = today + 1)
         \/ /\ today' = today
            /\ \/ \E runDate \in RunDates \union {today} : Refreshed(db', runDate)
               \/ Emptied(db')
               \/ MovesOn(db, db')
  <1>1. today \in Int /\ db \in Rows /\ Quiet(db) /\ Agrees(db)
    BY IInvOfRows
  <1>2. db' = db \/ Commits(db, db')
    BY <1>1, StepsCommit
  <1>3. CASE db'.status \in {"paused", "canceled"} /\ today' = today
    <2>1. Quiet(db')
      BY <1>1, <1>2 DEF Commits
    <2>2. WithStatus(db', {"planned"}) \subseteq WithStatus(db', Unsettled)
      BY DEF WithStatus, Unsettled
    <2> QED
      BY <1>3, <2>1, <2>2 DEF Quiet, Emptied
  <1>4. CASE \E until \in {today + n : n \in PauseDays} \union {NoDate} : Pause(until)
    <2>1. PICK until : db' = Paused(db, until) /\ today' = today
      BY <1>4 DEF Pause, Commit
    <2> QED
      BY <1>1, <1>3, <2>1, PausedIsPaused
  <1>5. CASE Resume
    <2>1. db' = Resumed(db) /\ today' = today
      BY <1>5 DEF Resume, Commit
    <2>2. PICK r \in Rows : Resumed(db) = Run(r, today) /\ Agrees(r)
      BY <1>1, ResumedThenRuns
    <2> QED
      BY <1>1, <2>1, <2>2, RunRefreshes DEF Refreshed
  <1>6. CASE \E key \in Keys : SkipNext(key)
    <2>1. PICK key \in Keys, i \in DOMAIN db.occ :
            IsSoonest(db, Unsettled, i) /\ Commit(Skipped(db, i, key))
      BY <1>6 DEF SkipNext
    <2>2. i \in WithStatus(db, Unsettled) /\ db' = Skipped(db, i, key) /\ today' = today
      BY <2>1 DEF IsSoonest, Commit
    <2>3. PICK r \in Rows : Skipped(db, i, key) = Run(r, today) /\ Agrees(r)
      BY <1>1, <2>2, SkippedThenRuns
    <2> QED
      BY <1>1, <2>2, <2>3, RunRefreshes DEF Refreshed
  <1>7. CASE \E key \in Keys, days \in DeferDays : Defer(days, key)
    <2>1. PICK key \in Keys, days \in DeferDays, i \in DOMAIN db.occ :
            IsSoonest(db, Unsettled, i) /\ Commit(Deferred(db, i, days, key))
      BY <1>7 DEF Defer
    <2>2. i \in WithStatus(db, Unsettled) /\ db' = Deferred(db, i, days, key) /\ today' = today
      BY <2>1 DEF IsSoonest, Commit
    <2>3. days \in Int
      BY ScheduleAssumption
    <2>4. \E r \in Rows : Deferred(db, i, days, key) = RefreshNextRunDate(r, today)
      BY <1>1, <2>2, <2>3, DeferredThenRefreshes
    <2> QED
      BY <1>1, <2>2, <2>4 DEF Refreshed
  <1>8. CASE \E interval \in Intervals : ChangeCadence(interval)
    <2>1. PICK interval \in Intervals : db' = CadenceChanged(db, interval) /\ today' = today
      BY <1>8 DEF ChangeCadence, Commit
    <2>2. interval \in 7..180
      BY ScheduleAssumption
    <2>3. PICK r \in Rows :
            /\ Agrees(r) /\ r.status = db.status
            /\ CadenceChanged(db, interval) =
                 IF db.status = "active" THEN Run(r, today) ELSE UpdateScheduleNextRun(r, NoDate)
      BY <1>1, <2>2, CadenceChangedThenRuns
    <2>4. CASE db.status = "active"
      BY <1>1, <2>1, <2>3, <2>4, RunRefreshes DEF Refreshed
    <2>5. CASE db.status # "active"
      <3>1. db.status = "paused"
        BY <1>8, <2>5 DEF ChangeCadence, ValidTransition, scheduleTransitions
      <3>2. db'.status = "paused"
        BY <2>1, <2>3, <2>5, <3>1 DEF UpdateScheduleNextRun, Rows
      <3> QED
        BY <1>3, <2>1, <3>2
    <2> QED
      BY <2>4, <2>5
  <1>9. CASE Cancel
    <2>1. db' = Canceled(db) /\ today' = today
      BY <1>9 DEF Cancel, Commit
    <2> QED
      BY <1>1, <1>3, <2>1, CanceledIsCanceled
  <1>10. CASE ArmNext
    <2>1. PICK i \in DOMAIN db.occ :
            IsSoonest(db, {"planned"}, i) /\ Commit(Armed(db, i))
      BY <1>10 DEF ArmNext
    <2>2. /\ i \in WithStatus(db, Unsettled) /\ db' = Armed(db, i) /\ today' = today
      BY <2>1 DEF IsSoonest, Commit, WithStatus, Unsettled
    <2>3. db' = ArmedRows(db, i)
      BY <1>1, <2>2, ArmedByColumn
    <2>4. /\ db'.occ = [db.occ EXCEPT ![i].status = "pending"]
          /\ db'.nextRun = db.nextRun
      BY <2>3 DEF ArmedRows, RowsWith
    <2>5. i \in DOMAIN db.occ /\ db.occ[i].status \in Unsettled
      BY <2>2 DEF WithStatus
    <2>6. MovesOn(db, db')
      BY <2>4, <2>5 DEF MovesOn
    <2> QED
      BY <2>2, <2>6
  <1>11. CASE \E runDate \in RunDates : Materialize(runDate)
    <2>1. PICK runDate \in RunDates : db' = Run(db, runDate) /\ today' = today
      BY <1>11 DEF Materialize, Commit
    <2>2. runDate \in Int
      BY <1>1, RunsHaveDates
    <2>3. \E r \in Rows : Run(db, runDate) = RefreshNextRunDate(r, runDate)
      BY <1>1, <2>2, RunRefreshes
    <2>4. Refreshed(db', runDate)
      BY <2>1, <2>3 DEF Refreshed
    <2> QED
      BY <2>1, <2>4
  <1>12. CASE PlaceOrder
    <2>1. PICK i \in WithStatus(db, {"pending"}) : db' = Placed(db, i) /\ today' = today
      BY <1>12 DEF PlaceOrder, Commit, Placed
    <2>2. db' = PlacedRows(db, i)
      BY <1>1, <2>1, PlacedByColumn
    <2>3. i \in DOMAIN db.occ /\ db.occ[i].status \in Unsettled
      BY DEF WithStatus, Unsettled
    <2>4. /\ db'.occ = [db.occ EXCEPT ![i].status = "placed"]
          /\ db'.nextRun = db.nextRun
      BY <2>2 DEF PlacedRows, RowsWith
    <2>5. MovesOn(db, db')
      BY <2>3, <2>4 DEF MovesOn
    <2> QED
      BY <2>1, <2>5
  <1>13. CASE NextDay \/ UNCHANGED vars
    BY <1>13 DEF NextDay, vars
  <1> QED
    BY <1>4, <1>5, <1>6, <1>7, <1>8, <1>9, <1>10, <1>11, <1>12, <1>13
       DEF Next, Customer

(* next_run_date is never left naming an order that was skipped, canceled or *)
(* moved away: whatever could do that refreshes it (SkipNext; Defer).        *)
THEOREM NextRunAlwaysNamesAnOrder == Spec => []NextRunNamesAnOrder
  <1>1. Init => NextRunNamesAnOrder
    BY DEF Init, Created, NextRunNamesAnOrder
  <1>2. IInv /\ NextRunNamesAnOrder /\ [Next]_vars => NextRunNamesAnOrder'
    <2> SUFFICES ASSUME IInv, NextRunNamesAnOrder, [Next]_vars
                 PROVE  NamesAnOrder(db')
      BY DEF NextRunNamesAnOrder, NamesAnOrder, WithStatus
    <2>1. today \in Int /\ db \in Rows /\ NamesAnOrder(db)
      BY IInvOfRows DEF NextRunNamesAnOrder, NamesAnOrder
    <2>2. CASE db' = db
      BY <2>1, <2>2
    <2>3. ASSUME NEW runDate \in RunDates \union {today}, Refreshed(db', runDate)
          PROVE  NamesAnOrder(db')
      BY <2>1, <2>3, RunsHaveDates, RefreshNamesTheSoonest DEF Refreshed
    <2>4. CASE Emptied(db')
      BY <2>4 DEF Emptied, NamesAnOrder
    <2>5. CASE MovesOn(db, db')
      BY <2>1, <2>5, MovingOnKeepsNextRun
    <2> QED
      BY <2>2, <2>3, <2>4, <2>5, StepsRefreshOrMoveOn
  <1> QED
    BY <1>1, <1>2, Invariance, PTL DEF Spec

(* Every order planned past the dates on which jobs may be run is at or after *)
(* next_run_date (RefreshNextRunDate): a run dated a day ahead passes over    *)
(* the order planned for that day, and no other.                             *)
THEOREM NextRunHidesNoPlannedOrder == Spec => []NextRunHidesNothing
  <1>1. Init => NextRunHidesNothing
    BY DEF Init, Created, NextRunHidesNothing, WithStatus
  <1>2. IInv /\ NextRunHidesNothing /\ [Next]_vars => NextRunHidesNothing'
    <2> SUFFICES ASSUME IInv, NextRunHidesNothing, [Next]_vars
                 PROVE  HidesNothing(db', LatestRunDate')
      BY DEF NextRunHidesNothing, HidesNothing, WithStatus
    <2>1. today \in Int /\ db \in Rows /\ HidesNothing(db, LatestRunDate)
      BY IInvOfRows DEF NextRunHidesNothing, HidesNothing
    <2>a. ASSUME today' = today \/ today' = today + 1
          PROVE  /\ LatestRunDate \in Int /\ LatestRunDate' \in Int
                 /\ LatestRunDate <= LatestRunDate'
      BY <2>1, <2>a, LatestRunDateAdvances
    <2>b. today' = today => LatestRunDate' = LatestRunDate
      BY DEF LatestRunDate, RunDates
    <2>2. CASE db' = db /\ (today' = today \/ today' = today + 1)
      <3>1. HidesNothing(db, LatestRunDate')
        BY <2>1, <2>2, <2>a, LaterHidesNothing
      <3> QED
        BY <2>2, <3>1
    <2>3. ASSUME NEW runDate \in RunDates \union {today}, Refreshed(db', runDate), today' = today
          PROVE  HidesNothing(db', LatestRunDate')
      <3>1. runDate \in Int /\ LatestRunDate \in Int /\ runDate <= LatestRunDate
        BY <2>1, NoRunIsLater
      <3>2. HidesNothing(db', runDate)
        BY <2>3, <3>1, RefreshNamesTheSoonest DEF Refreshed
      <3>3. db' \in Rows
        BY StepsPreserve, IInvOfRows
      <3> QED
        BY <2>3, <2>b, <3>1, <3>2, <3>3, LaterHidesNothing
    <2>4. CASE Emptied(db')
      BY <2>4 DEF Emptied, HidesNothing
    <2>5. CASE MovesOn(db, db') /\ today' = today
      <3>1. HidesNothing(db', LatestRunDate)
        BY <2>1, <2>5, MovingOnKeepsNextRun
      <3> QED
        BY <2>5, <2>b, <3>1
    <2> QED
      BY <2>2, <2>3, <2>4, <2>5, StepsRefreshOrMoveOn
  <1> QED
    BY <1>1, <1>2, Invariance, PTL DEF Spec

(* Where no job dates its run past the customer's own day, that is every      *)
(* order planned ahead of today (docs/SCHEDULED_JOBS.md).                     *)
THEOREM NextRunHidesNothingAheadOfToday ==
  ASSUME RunDateSkew \subseteq {-1, 0}
  PROVE  Spec => [](\A i \in WithStatus(db, {"planned"}) :
                     db.occ[i].date > today => db.nextRun # NoDate /\ db.nextRun <= db.occ[i].date)
  <1>1. IInv => LatestRunDate = today
    BY IInvOfRows, LatestIsToday
  <1>2. IInv /\ NextRunHidesNothing =>
          \A i \in WithStatus(db, {"planned"}) :
             db.occ[i].date > today => db.nextRun # NoDate /\ db.nextRun <= db.occ[i].date
    BY <1>1 DEF NextRunHidesNothing
  <1> QED
    BY <1>2, Invariance, NextRunHidesNoPlannedOrder, PTL

-----------------------------------------------------------------------------
(* How far ahead a run plans.                                                *)

(* Numbers that count to the same are the same.                              *)
LEMMA CountsToTheSame ==
  ASSUME NEW l \in Nat, NEW m \in Nat, 1..l = 1..m
  PROVE  l = m
  <1>1. l > m => l \in 1..l /\ l \notin 1..m
    BY SMT
  <1>2. m > l => m \in 1..m /\ m \notin 1..l
    BY SMT
  <1>3. ~(l > m) /\ ~(m > l)
    BY <1>1, <1>2
  <1> QED
    BY <1>3, SMT

(* The orders a run adds, one by one: as many as the horizon is missing, all *)
(* planned, on the dates of the cadence past where the run starts.           *)
LEMMA RunAddsWhatIsMissing ==
  ASSUME NEW d \in Rows, NEW runDate \in Int, Agrees(d)
  PROVE  LET s == Run(d, runDate)
             n == Len(d.occ)
             missing == Horizon - CountFuturePlanned(d, runDate)
             m == IF missing >= 0 THEN missing ELSE 0
         IN  /\ n \in Nat /\ m \in Nat /\ DOMAIN d.occ = 1..n
             /\ Len(s.occ) = n + m /\ DOMAIN s.occ = 1..(n + m)
             /\ \A i \in 1..n : s.occ[i] = d.occ[i]
             /\ \A i \in (n + 1)..(n + m) :
                  /\ s.occ[i].status = "planned"
                  /\ s.occ[i].date = PlannedDate(d.anchor, d.interval,
                                                 StartOfRun(d, runDate), i - n)
  <1> DEFINE s == Run(d, runDate)
             n == Len(d.occ)
             missing == Horizon - CountFuturePlanned(d, runDate)
             m == IF missing >= 0 THEN missing ELSE 0
             t == PlannedOrders(d, runDate)
             D(i) == PlannedDate(d.anchor, d.interval, StartOfRun(d, runDate), i)
  <1>1. /\ t \in Seq(Order) /\ d.occ \in Seq(Order)
        /\ s.occ = d.occ \o t
    <2> DEFINE r == RunRows(d, runDate)
    <2>1. /\ s = RefreshNextRunDate(r, runDate) /\ t \in Seq(Order)
          /\ r \in Rows /\ r.occ = d.occ \o t
      BY RunAppends
    <2> HIDE DEF r, s, t
    <2> QED
      BY <2>1, RefreshIsOneColumn, RowsHaveOrders
  <1>2. missing \in Int
    BY CountIsNatural, ScheduleAssumption
  <1>3. t = [i \in 1..missing |-> [date |-> D(i), status |-> "planned"]]
    BY DEF PlannedOrders
  <1> HIDE DEF missing, t, D
  <1>4. m \in Nat /\ 1..missing = 1..m
    BY <1>2, SMT
  <1> HIDE DEF m
  <1>5. /\ Len(t) \in Nat /\ DOMAIN t = 1..Len(t) /\ DOMAIN t = 1..m
        /\ n \in Nat /\ DOMAIN d.occ = 1..n
    BY <1>1, <1>3, <1>4, OrdersOf
  <1>6. Len(t) = m
    <2> DEFINE l == Len(t)
    <2>1. l \in Nat /\ 1..l = 1..m
      BY <1>5
    <2> HIDE DEF l
    <2>2. l = m
      BY <1>4, <2>1, CountsToTheSame
    <2> QED
      BY <2>2 DEF l
  <1>7. /\ s.occ \in Seq(Order) /\ Len(s.occ) = n + m
        /\ \A i \in 1..(n + m) : s.occ[i] = IF i <= n THEN d.occ[i] ELSE t[i - n]
    <2>1. /\ d.occ \o t \in Seq(Order) /\ Len(d.occ \o t) = Len(d.occ) + Len(t)
          /\ \A i \in 1..(Len(d.occ) + Len(t)) :
               (d.occ \o t)[i] = IF i <= Len(d.occ) THEN d.occ[i] ELSE t[i - Len(d.occ)]
      BY <1>1, ConcatProperties
    <2> HIDE DEF s
    <2> QED
      BY <1>1, <1>6, <2>1
  <1>8. DOMAIN s.occ = 1..(n + m)
    BY <1>7, OrdersOf
  <1> HIDE DEF s, n
  <1>9. \A i \in 1..n : i \in 1..(n + m) /\ i <= n
    BY <1>4, <1>5, SMT
  <1>10. \A i \in (n + 1)..(n + m) : i \in 1..(n + m) /\ ~(i <= n) /\ i - n \in 1..m
    BY <1>4, <1>5, SMT
  <1>11. \A i \in 1..n : s.occ[i] = d.occ[i]
    BY <1>7, <1>9
  <1>12. \A i \in (n + 1)..(n + m) : s.occ[i].status = "planned" /\ s.occ[i].date = D(i - n)
    <2> SUFFICES ASSUME NEW i \in (n + 1)..(n + m)
                 PROVE  s.occ[i].status = "planned" /\ s.occ[i].date = D(i - n)
      OBVIOUS
    <2>1. s.occ[i] = t[i - n] /\ i - n \in 1..missing
      BY <1>4, <1>7, <1>10
    <2> QED
      BY <1>3, <2>1
  <1> QED
    BY <1>4, <1>5, <1>7, <1>8, <1>11, <1>12 DEF s, n, m, missing, D

(* A run leaves the queue full past its own date, and no more than full if   *)
(* it planned anything (CountFuturePlanned against the horizon).             *)
LEMMA RunFillsTheHorizon ==
  ASSUME NEW d \in Rows, NEW runDate \in Int, Agrees(d)
  PROVE  LET s == Run(d, runDate)
         IN  /\ PlannedAheadOf(s, runDate) \in Nat
             /\ PlannedAheadOf(s, runDate) >= Horizon
             /\ Len(s.occ) > Len(d.occ) => PlannedAheadOf(s, runDate) = Horizon
  <1> DEFINE s == Run(d, runDate)
             n == Len(d.occ)
             c == CountFuturePlanned(d, runDate)
             m == IF Horizon - c >= 0 THEN Horizon - c ELSE 0
             D(i) == PlannedDate(d.anchor, d.interval, StartOfRun(d, runDate), i)
             J == {i \in DOMAIN d.occ : d.occ[i].status = "planned" /\ d.occ[i].date > runDate}
             K == {i \in DOMAIN s.occ : s.occ[i].status = "planned" /\ s.occ[i].date > runDate}
             T == (n + 1)..(n + m)
  <1>1. /\ n \in Nat /\ m \in Nat /\ DOMAIN d.occ = 1..n
        /\ Len(s.occ) = n + m /\ DOMAIN s.occ = 1..(n + m)
        /\ \A i \in 1..n : s.occ[i] = d.occ[i]
        /\ \A i \in T : s.occ[i].status = "planned" /\ s.occ[i].date = D(i - n)
    BY RunAddsWhatIsMissing
  <1>2. c \in Nat /\ Horizon \in Nat
    BY CountIsNatural, ScheduleAssumption
  <1>3. Cardinality(J) = c /\ PlannedAheadOf(s, runDate) = Cardinality(K)
    <2>1. J = {i \in WithStatus(d, {"planned"}) : d.occ[i].date > runDate}
      BY DEF WithStatus
    <2> HIDE DEF J, s
    <2> QED
      BY <2>1 DEF CountFuturePlanned, PlannedAheadOf, s
  <1>4. \A i \in Nat \ {0} : D(i) \in Int /\ D(i) > runDate
    <2> DEFINE start == StartOfRun(d, runDate)
    <2>1. start \in Int /\ start >= runDate /\ d.anchor \in Int /\ d.interval \in Nat \ {0}
      <3>1. start \in Int /\ start >= runDate /\ d.anchor \in Int /\ d.interval \in 7..180
        BY StartIsADate, RowsHaveOrders
      <3> HIDE DEF start
      <3> QED
        BY <3>1, SMT
    <2> HIDE DEF start
    <2>2. \A i \in Nat \ {0} : /\ PlannedDate(d.anchor, d.interval, start, i) \in Int
                               /\ PlannedDate(d.anchor, d.interval, start, i) > start
      BY <2>1, PlannedDatesAscend
    <2> QED
      BY <2>1, <2>2, SMT DEF start
  <1> HIDE DEF s, n, c, D
  <1>5. \A i \in T : i - n \in Nat \ {0} /\ i \in 1..(n + m) /\ i \notin 1..n
    <2> HIDE DEF m
    <2> QED BY <1>1, SMT
  <1>6. \A i \in 1..(n + m) : i \in 1..n \/ i \in T
    <2> HIDE DEF m
    <2> QED BY <1>1, SMT
  <1>7. \A i \in 1..n : i \in 1..(n + m)
    <2> HIDE DEF m
    <2> QED BY <1>1, SMT
  <1> HIDE DEF T, m
  <1>8. K = J \union T /\ J \intersect T = {}
    <2>1. K \subseteq J \union T
      BY <1>1, <1>6
    <2>2. J \subseteq K
      BY <1>1, <1>7
    <2>3. T \subseteq K
      BY <1>1, <1>4, <1>5
    <2>4. J \intersect T = {}
      BY <1>1, <1>5
    <2> QED
      BY <2>1, <2>2, <2>3, <2>4
  <1>9. IsFiniteSet(J) /\ J \subseteq 1..n
    BY <1>1, SomeOfTheOrdersAreFinite
  <1>10. IsFiniteSet(T) /\ Cardinality(T) = m
    <2>1. n + 1 \in Int /\ n + m \in Int
      BY <1>1
    <2> DEFINE a == n + 1
               b == n + m
    <2>2. IsFiniteSet(a..b) /\ Cardinality(a..b) = IF a > b THEN 0 ELSE b - a + 1
      <3> HIDE DEF a, b
      <3> QED BY <2>1, FS_Interval DEF a, b
    <2> QED
      BY <1>1, <2>2, SMT DEF T
  <1> HIDE DEF J, K
  <1>11. Cardinality(K) = c + m
    <2>1. Cardinality(J \union T) = Cardinality(J) + Cardinality(T) - Cardinality(J \intersect T)
      BY <1>9, <1>10, FS_Union
    <2>2. Cardinality(J \intersect T) = 0
      BY <1>8, FS_EmptySet
    <2> QED
      BY <1>1, <1>2, <1>3, <1>8, <1>10, <2>1, <2>2
  <1>12. /\ c + m \in Nat /\ c + m >= Horizon
         /\ n + m > n => c + m = Horizon
    BY <1>1, <1>2, SMT DEF m
  <1> QED
    BY <1>1, <1>3, <1>11, <1>12 DEF s, n

(* Orders planned past a later day are no more than past an earlier one.     *)
LEMMA FewerAheadOfLater ==
  ASSUME NEW d \in Rows, NEW day \in Int, NEW later \in Int, day <= later
  PROVE  /\ PlannedAheadOf(d, later) \in Nat /\ PlannedAheadOf(d, day) \in Nat
         /\ PlannedAheadOf(d, later) <= PlannedAheadOf(d, day)
  <1> DEFINE S == {i \in DOMAIN d.occ : d.occ[i].status = "planned" /\ d.occ[i].date > day}
             L == {i \in DOMAIN d.occ : d.occ[i].status = "planned" /\ d.occ[i].date > later}
  <1>1. Len(d.occ) \in Nat /\ DOMAIN d.occ = 1..Len(d.occ)
        /\ \A i \in DOMAIN d.occ : d.occ[i].date \in Int
    BY RowsHaveOrders, OrdersOf
  <1>2. \A i \in DOMAIN d.occ : d.occ[i].date > later => d.occ[i].date > day
    BY <1>1, SMT
  <1>3. L \subseteq S /\ S \subseteq 1..Len(d.occ)
    BY <1>1, <1>2
  <1>4. PlannedAheadOf(d, later) = Cardinality(L) /\ PlannedAheadOf(d, day) = Cardinality(S)
    BY DEF PlannedAheadOf
  <1> HIDE DEF L, S
  <1>5. IsFiniteSet(S)
    BY <1>1, <1>3, SomeOfTheOrdersAreFinite
  <1>6. /\ IsFiniteSet(L) /\ Cardinality(L) <= Cardinality(S)
    BY <1>3, <1>5, FS_Subset
  <1>7. Cardinality(L) \in Nat /\ Cardinality(S) \in Nat
    BY <1>5, <1>6, FS_CardinalityType
  <1> QED
    BY <1>4, <1>6, <1>7

(* Sequences of orders with the same numbers are of the same length.         *)
LEMMA SameNumbersSameLength ==
  ASSUME NEW s \in Seq(Order), NEW t \in Seq(Order), DOMAIN s = DOMAIN t
  PROVE  Len(s) = Len(t)
  <1> DEFINE l == Len(s)
             m == Len(t)
  <1>1. l \in Nat /\ m \in Nat /\ 1..l = 1..m
    BY OrdersOf
  <1> HIDE DEF l, m
  <1>2. l = m
    BY <1>1, CountsToTheSame
  <1> QED
    BY <1>2 DEF l, m

(* From a paused schedule's empty queue a run plans the cadence from the new *)
(* anchor, whose first date is one interval from today.                      *)
LEMMA ResumedPlansFromToday ==
  ASSUME NEW d \in Rows, Agrees(d), today \in Int, WithStatus(d, Unsettled) = {}
  PROVE  Resumed(d).nextRun = today + Resumed(d).interval
  <1> DEFINE r == ResumedRows(d)
             s == Resumed(d)
             n == Len(r.occ)
             k == d.interval
             D(i) == PlannedDate(today, k, today, i)
  <1>1. s = Run(r, today) /\ r \in Rows /\ Agrees(r) /\ r.occ = d.occ
    BY ResumedThenRuns
  <1>2. r.anchor = today /\ r.interval = k
    BY DEF ResumedRows, RowsWith
  <1>3. k \in Nat \ {0}
    <2>1. k \in 7..180
      BY RowsHaveOrders
    <2> HIDE DEF k
    <2> QED BY <2>1, SMT
  <1> HIDE DEF r, s, k
  <1>4. WithStatus(r, Unsettled) = {} /\ WithStatus(r, {"planned"}) = {}
    BY <1>1 DEF WithStatus, Unsettled
  <1>5. StartOfRun(r, today) = today
    <2>1. {today} \union DatesOf(r, Unsettled, today) = {today}
      BY <1>4 DEF DatesOf
    <2>2. {today} \in SUBSET Int /\ IsFiniteSet({today}) /\ {today} # {}
      BY FS_Singleton
    <2>3. Max({today}) \in {today}
      BY <2>2, MaxOfDates
    <2> QED
      BY <2>1, <2>3 DEF StartOfRun
  <1>6. CountFuturePlanned(r, today) = 0
    <2>1. {i \in WithStatus(r, {"planned"}) : r.occ[i].date > today} = {}
      BY <1>4
    <2> QED
      BY <2>1, FS_EmptySet DEF CountFuturePlanned
  <1>7. /\ n \in Nat /\ DOMAIN r.occ = 1..n /\ DOMAIN s.occ = 1..(n + Horizon)
        /\ \A i \in 1..n : s.occ[i] = r.occ[i]
        /\ \A i \in (n + 1)..(n + Horizon) :
             s.occ[i].status = "planned" /\ s.occ[i].date = D(i - n)
    <2>1. Horizon \in Nat /\ Horizon - 0 = Horizon /\ Horizon >= 0
      BY ScheduleAssumption
    <2> DEFINE missing == Horizon - CountFuturePlanned(r, today)
               m == IF missing >= 0 THEN missing ELSE 0
               E(i) == PlannedDate(r.anchor, r.interval, StartOfRun(r, today), i)
    <2>2. /\ n \in Nat /\ DOMAIN r.occ = 1..n /\ DOMAIN Run(r, today).occ = 1..(n + m)
          /\ \A i \in 1..n : Run(r, today).occ[i] = r.occ[i]
          /\ \A i \in (n + 1)..(n + m) :
               /\ Run(r, today).occ[i].status = "planned"
               /\ Run(r, today).occ[i].date = E(i - n)
      BY <1>1, RunAddsWhatIsMissing
    <2>3. m = Horizon
      BY <1>6, <2>1
    <2>4. \A i : E(i) = D(i)
      BY <1>2, <1>5
    <2> HIDE DEF D, E, m, n
    <2> QED
      BY <1>1, <2>2, <2>3, <2>4
  <1>8. D(1) = today + k /\ D(1) \in Int /\ D(1) > today
    <2>1. 0 \div k = 0 /\ today - today = 0 /\ k * 1 = k
      BY <1>3, SMT
    <2>2. NextSequence(today, k, today) = 1
      <3>1. OccurrenceDate(today, k, 1) > today
        BY <1>3, <2>1, SMT DEF OccurrenceDate
      <3> QED
        BY <2>1, <3>1 DEF NextSequence
    <2>3. D(1) = today + k
      BY <2>1, <2>2 DEF PlannedDate, OccurrenceDate
    <2> QED
      BY <1>3, <2>3
  <1>9. \A i \in Nat \ {0} : D(i) \in Int /\ D(1) <= D(i)
    <2>1. /\ \A i \in Nat \ {0} : D(i) \in Int
          /\ \A i, j \in Nat \ {0} : i < j => D(i) < D(j)
      BY <1>3, PlannedDatesAscend
    <2> HIDE DEF D
    <2>2. ASSUME NEW i \in Nat \ {0} PROVE D(1) <= D(i)
      <3>1. D(1) \in Int /\ D(i) \in Int /\ (i = 1 \/ 1 < i)
        BY <2>1, SMT
      <3> QED
        BY <2>1, <3>1, SMT
    <2> QED
      BY <2>1, <2>2
  <1> HIDE DEF D, n
  <1>10. n + 1 \in (n + 1)..(n + Horizon) /\ n + 1 \in 1..(n + Horizon) /\ (n + 1) - n = 1
    BY <1>7, ScheduleAssumption, SMT
  <1>11. \A i \in 1..(n + Horizon) :
           i \in 1..n \/ (i \in (n + 1)..(n + Horizon) /\ i - n \in Nat \ {0})
    BY <1>7, ScheduleAssumption, SMT
  <1>12. n + 1 \in WithStatus(s, {"planned"}) /\ s.occ[n + 1].date = D(1)
    BY <1>7, <1>10 DEF WithStatus
  <1>13. \A i \in WithStatus(s, {"planned"}) :
           s.occ[i].date \in Int /\ D(1) <= s.occ[i].date
    <2> SUFFICES ASSUME NEW i \in WithStatus(s, {"planned"})
                 PROVE  s.occ[i].date \in Int /\ D(1) <= s.occ[i].date
      OBVIOUS
    <2>1. i \in 1..(n + Horizon) /\ s.occ[i].status = "planned"
      BY <1>7 DEF WithStatus
    <2>2. i \notin 1..n
      BY <1>4, <1>7, <2>1 DEF WithStatus
    <2>3. s.occ[i].date = D(i - n) /\ i - n \in Nat \ {0}
      BY <1>7, <1>11, <2>1, <2>2
    <2> QED
      BY <1>9, <2>3
  <1>14. /\ HidesNothing(s, today)
         /\ s.nextRun # NoDate => \E i \in WithStatus(s, {"planned"}) : s.occ[i].date = s.nextRun
    <2>1. PICK before \in Rows : s = RefreshNextRunDate(before, today)
      BY <1>1, RunRefreshes
    <2> QED
      BY <2>1, RefreshNamesTheSoonest
  <1>15. s.nextRun # NoDate /\ s.nextRun <= D(1)
    BY <1>8, <1>12, <1>14 DEF HidesNothing
  <1>16. s.nextRun \in Int /\ D(1) <= s.nextRun
    BY <1>13, <1>14, <1>15
  <1>17. s.nextRun = D(1)
    BY <1>8, <1>15, <1>16, SMT
  <1>18. s.interval = k
    <2> DEFINE t == RunRows(r, today)
    <2>1. s = RefreshNextRunDate(t, today) /\ t \in Rows
      BY <1>1, RunAppends
    <2>2. t.interval = r.interval
      BY <1>1, RunExtendsTheQueue
    <2> HIDE DEF t
    <2> QED
      BY <1>2, <2>1, <2>2, RefreshIsNotQueue DEF SameQueue
  <1> QED
    BY <1>8, <1>17, <1>18 DEF s

(* Only resuming makes a paused schedule active, and the next date it leaves *)
(* is the one its event announces, an interval from today (Resume).          *)
THEOREM ResumePlansWhatItSays == Spec => ResumePlansWhatItAnnounces
  <1>1. IInv /\ [Next]_vars =>
          [db.status = "paused" /\ db'.status = "active" =>
             db'.nextRun = today + db'.interval]_vars
    <2> SUFFICES ASSUME IInv, Next, db.status = "paused", db'.status = "active"
                 PROVE  db'.nextRun = today + db'.interval
      OBVIOUS
    <2>1. today \in Int /\ db \in Rows /\ Agrees(db) /\ WithStatus(db, Unsettled) = {}
      BY IInvOfRows DEF Quiet
    <2>2. CASE Resume
      <3>1. db' = Resumed(db)
        BY <2>2 DEF Resume, Commit
      <3> QED
        BY <2>1, <3>1, ResumedPlansFromToday
    <2>3. CASE \E interval \in Intervals : ChangeCadence(interval)
      <3>1. PICK interval \in Intervals : db' = CadenceChanged(db, interval)
        BY <2>3 DEF ChangeCadence, Commit
      <3>2. interval \in 7..180
        BY ScheduleAssumption
      <3> DEFINE row == CadenceChangedRows(db, interval)
      <3>3. /\ row \in Rows /\ row.status = "paused"
            /\ CadenceChanged(db, interval) = UpdateScheduleNextRun(row, NoDate)
        BY <2>1, <3>2, CadenceChangedThenRuns
      <3> HIDE DEF row
      <3>4. db'.status = "paused"
        BY <3>1, <3>3 DEF UpdateScheduleNextRun, Rows
      <3> QED
        BY <3>4
    <2>4. CASE Cancel
      <3>1. db' = Canceled(db)
        BY <2>4 DEF Cancel, Commit
      <3> QED
        BY <2>1, <3>1, CanceledIsCanceled
    <2>5. CASE PlaceOrder
      <3>1. WithStatus(db, {"pending"}) = {}
        BY <2>1 DEF WithStatus, Unsettled
      <3> QED
        BY <2>5, <3>1 DEF PlaceOrder
    <2>6. CASE NextDay
      BY <2>6 DEF NextDay
    <2> QED
      BY <2>2, <2>3, <2>4, <2>5, <2>6
         DEF Next, Customer, Pause, SkipNext, Defer, ArmNext, Materialize, ValidTransition,
             scheduleTransitions
  <1> QED
    BY <1>1, Invariance, PTL DEF Spec, ResumePlansWhatItAnnounces

\* A step that runs, on rows of its own with no order more than there were.
RunsOn(d, s, runDate) ==
  \E r \in Rows : Agrees(r) /\ Len(r.occ) = Len(d.occ) /\ s = Run(r, runDate)

(* Only a run adds orders (CreateOccurrence has no other caller).            *)
LEMMA StepsRunOrAddNothing ==
  ASSUME IInv, [Next]_vars
  PROVE  \/ Len(db'.occ) = Len(db.occ)
         \/ \E runDate \in RunDates \union {today} : RunsOn(db, db', runDate)
  <1>1. /\ today \in Int /\ db \in Rows /\ Agrees(db) /\ db.occ \in Seq(Order)
        /\ db' \in Rows /\ db'.occ \in Seq(Order)
    BY IInvOfRows, StepsPreserve, RowsHaveOrders
  <1>2. CASE DOMAIN db'.occ = DOMAIN db.occ
    BY <1>1, <1>2, SameNumbersSameLength
  <1>3. ASSUME NEW statuses, db'.occ = CanceledRows(db.occ, statuses)
        PROVE  DOMAIN db'.occ = DOMAIN db.occ
    BY <1>3 DEF CanceledRows
  <1>4. CASE \E until \in {today + n : n \in PauseDays} \union {NoDate} : Pause(until)
    <2>1. PICK until : db' = Paused(db, until)
      BY <1>4 DEF Pause, Commit
    <2>2. db'.occ = CanceledRows(db.occ, Unsettled)
      BY <1>1, <2>1 DEF Paused, UpdateScheduleStatus, CancelOccurrences, UpdateScheduleNextRun,
                        AppendEvent, Rows
    <2> QED
      BY <1>2, <1>3, <2>2
  <1>5. CASE Resume
    <2>1. db' = Resumed(db)
      BY <1>5 DEF Resume, Commit
    <2>2. PICK r \in Rows : Resumed(db) = Run(r, today) /\ Agrees(r) /\ r.occ = db.occ
      BY <1>1, ResumedThenRuns
    <2>3. RunsOn(db, db', today)
      BY <2>1, <2>2 DEF RunsOn
    <2> QED
      BY <2>3
  <1>6. CASE \E key \in Keys : SkipNext(key)
    <2>1. PICK key \in Keys, i \in DOMAIN db.occ :
            IsSoonest(db, Unsettled, i) /\ Commit(Skipped(db, i, key))
      BY <1>6 DEF SkipNext
    <2>2. i \in WithStatus(db, Unsettled) /\ db' = Skipped(db, i, key)
      BY <2>1 DEF IsSoonest, Commit
    <2> DEFINE r == SkippedRows(db, i, key)
    <2>3. r \in Rows /\ Agrees(r) /\ Skipped(db, i, key) = Run(r, today)
      BY <1>1, <2>2, SkippedThenRuns
    <2>4. DOMAIN r.occ = DOMAIN db.occ
      BY DEF SkippedRows, RowsWith
    <2> HIDE DEF r
    <2>5. Len(r.occ) = Len(db.occ)
      BY <1>1, <2>3, <2>4, RowsHaveOrders, SameNumbersSameLength
    <2>6. RunsOn(db, db', today)
      BY <2>2, <2>3, <2>5 DEF RunsOn
    <2> QED
      BY <2>6
  <1>7. CASE \E key \in Keys, days \in DeferDays : Defer(days, key)
    <2>1. PICK key \in Keys, days \in DeferDays, i \in DOMAIN db.occ :
            IsSoonest(db, Unsettled, i) /\ Commit(Deferred(db, i, days, key))
      BY <1>7 DEF Defer
    <2>2. i \in WithStatus(db, Unsettled) /\ db' = Deferred(db, i, days, key) /\ days \in Int
      BY <2>1, ScheduleAssumption DEF IsSoonest, Commit
    <2> DEFINE r == DeferredRows(db, i, days, key)
    <2>3. r \in Rows /\ Deferred(db, i, days, key) = RefreshNextRunDate(r, today)
      BY <1>1, <2>2, DeferredThenRefreshes
    <2>4. DOMAIN r.occ = DOMAIN db.occ
      BY DEF DeferredRows, RowsWith
    <2> HIDE DEF r
    <2>5. db'.occ = r.occ
      BY <1>1, <2>2, <2>3, RefreshIsOneColumn
    <2> QED
      BY <1>2, <2>4, <2>5
  <1>8. CASE \E interval \in Intervals : ChangeCadence(interval)
    <2>1. PICK interval \in Intervals : db' = CadenceChanged(db, interval)
      BY <1>8 DEF ChangeCadence, Commit
    <2>2. interval \in 7..180
      BY ScheduleAssumption
    <2>3. PICK r \in Rows :
            /\ Agrees(r) /\ r.occ = CanceledRows(db.occ, {"planned"})
            /\ db' = IF db.status = "active" THEN Run(r, today) ELSE UpdateScheduleNextRun(r, NoDate)
      BY <1>1, <2>1, <2>2, CadenceChangedThenRuns
    <2>4. DOMAIN r.occ = DOMAIN db.occ
      BY <2>3 DEF CanceledRows
    <2>5. CASE db.status = "active"
      <3>1. Len(r.occ) = Len(db.occ)
        BY <1>1, <2>4, RowsHaveOrders, SameNumbersSameLength
      <3>2. RunsOn(db, db', today)
        BY <2>3, <2>5, <3>1 DEF RunsOn
      <3> QED
        BY <3>2
    <2>6. CASE db.status # "active"
      <3>1. db'.occ = r.occ
        BY <2>3, <2>6 DEF UpdateScheduleNextRun, Rows
      <3> QED
        BY <1>2, <2>4, <3>1
    <2> QED
      BY <2>5, <2>6
  <1>9. CASE Cancel
    <2>1. db' = Canceled(db)
      BY <1>9 DEF Cancel, Commit
    <2>2. db'.occ = CanceledRows(db.occ, Unsettled)
      BY <1>1, <2>1 DEF Canceled, UpdateScheduleStatus, CancelOccurrences, UpdateScheduleNextRun,
                        AppendEvent, Rows
    <2> QED
      BY <1>2, <1>3, <2>2
  <1>10. CASE ArmNext
    <2>1. PICK i \in DOMAIN db.occ :
            IsSoonest(db, {"planned"}, i) /\ Commit(Armed(db, i))
      BY <1>10 DEF ArmNext
    <2>2. i \in WithStatus(db, Unsettled) /\ db' = Armed(db, i)
      BY <2>1 DEF IsSoonest, Commit, WithStatus, Unsettled
    <2>3. db' = ArmedRows(db, i)
      BY <1>1, <2>2, ArmedByColumn
    <2>4. DOMAIN db'.occ = DOMAIN db.occ
      BY <2>3 DEF ArmedRows, RowsWith
    <2> QED
      BY <1>2, <2>4
  <1>11. CASE \E runDate \in RunDates : Materialize(runDate)
    <2>1. PICK runDate \in RunDates : db' = Run(db, runDate)
      BY <1>11 DEF Materialize, Commit
    <2>2. RunsOn(db, db', runDate)
      BY <1>1, <2>1 DEF RunsOn
    <2> QED
      BY <2>2
  <1>12. CASE PlaceOrder
    <2>1. PICK i \in WithStatus(db, {"pending"}) : db' = Placed(db, i)
      BY <1>12 DEF PlaceOrder, Commit, Placed
    <2>2. db' = PlacedRows(db, i)
      BY <1>1, <2>1, PlacedByColumn
    <2>3. DOMAIN db'.occ = DOMAIN db.occ
      BY <2>2 DEF PlacedRows, RowsWith
    <2> QED
      BY <1>2, <2>3
  <1>13. CASE NextDay \/ UNCHANGED vars
    BY <1>13 DEF NextDay, vars
  <1> QED
    BY <1>4, <1>5, <1>6, <1>7, <1>8, <1>9, <1>10, <1>11, <1>12, <1>13
       DEF Next, Customer

(* Whatever plans (the nightly run, a resumption, a skip, a cadence change   *)
(* of an active schedule) leaves the queue full ahead of its own date, and   *)
(* no step plans past full: a run dated a day ahead does not count the order *)
(* planned for that day, and counts every other (CountFuturePlanned).        *)
THEOREM PlanningKeepsTheQueueFull == Spec => PlanningFillsTheQueue
  <1> DEFINE filled == /\ \A runDate \in RunDates :
                            Materialize(runDate) => PlannedAheadOf(db', runDate) >= Horizon
                       /\ Replan => PlannedAheadOf(db', today) >= Horizon
             bounded == Len(db'.occ) > Len(db.occ) => PlannedAheadOf(db', LatestRunDate) <= Horizon
  <1>1. ASSUME IInv, [Next]_vars
        PROVE  filled
    <2>1. today \in Int /\ db \in Rows /\ Agrees(db)
      BY <1>1, IInvOfRows
    <2>2. ASSUME Replan
          PROVE  \E r \in Rows : Agrees(r) /\ db' = Run(r, today)
      <3>1. CASE Resume
        BY <2>1, <3>1, ResumedThenRuns DEF Resume, Commit
      <3>2. CASE \E key \in Keys : SkipNext(key)
        <4>1. PICK key \in Keys, i \in DOMAIN db.occ :
                IsSoonest(db, Unsettled, i) /\ db' = Skipped(db, i, key)
          BY <3>2 DEF SkipNext, Commit
        <4>2. i \in WithStatus(db, Unsettled)
          BY <4>1 DEF IsSoonest
        <4> QED
          BY <2>1, <4>1, <4>2, SkippedThenRuns
      <3>3. CASE db.status = "active" /\ \E interval \in Intervals : ChangeCadence(interval)
        <4>1. PICK interval \in Intervals : db' = CadenceChanged(db, interval)
          BY <3>3 DEF ChangeCadence, Commit
        <4>2. interval \in 7..180
          BY ScheduleAssumption
        <4> QED
          BY <2>1, <3>3, <4>1, <4>2, CadenceChangedThenRuns
      <3> QED
        BY <2>2, <3>1, <3>2, <3>3 DEF Replan
    <2>3. \A r \in Rows, runDate \in RunDates \union {today} :
             Agrees(r) => PlannedAheadOf(Run(r, runDate), runDate) >= Horizon
      BY <2>1, RunsHaveDates, RunFillsTheHorizon
    <2>4. ASSUME NEW runDate \in RunDates, Materialize(runDate)
          PROVE  PlannedAheadOf(db', runDate) >= Horizon
      BY <2>1, <2>3, <2>4 DEF Materialize, Commit
    <2> QED
      BY <2>2, <2>3, <2>4
  <1>2. ASSUME IInv, [Next]_vars
        PROVE  bounded
    <2>1. today \in Int /\ db \in Rows /\ Agrees(db) /\ db' \in Rows
      BY <1>2, IInvOfRows, StepsPreserve
    <2>2. ASSUME Len(db'.occ) > Len(db.occ), NEW runDate \in RunDates \union {today},
                 RunsOn(db, db', runDate)
          PROVE  PlannedAheadOf(db', LatestRunDate) <= Horizon
      <3>1. runDate \in Int /\ LatestRunDate \in Int /\ runDate <= LatestRunDate
        BY <2>1, NoRunIsLater
      <3>2. PICK r \in Rows : Agrees(r) /\ Len(r.occ) = Len(db.occ) /\ db' = Run(r, runDate)
        BY <2>2 DEF RunsOn
      <3>3. PlannedAheadOf(db', runDate) = Horizon
        BY <2>2, <3>1, <3>2, RunFillsTheHorizon
      <3>4. PlannedAheadOf(db', LatestRunDate) <= PlannedAheadOf(db', runDate)
        BY <2>1, <3>1, FewerAheadOfLater
      <3> QED
        BY <3>3, <3>4
    <2>3. CASE Len(db'.occ) = Len(db.occ)
      <3>1. Len(db.occ) \in Nat
        BY <2>1, RowsHaveOrders, OrdersOf
      <3>2. ~(Len(db'.occ) > Len(db.occ))
        BY <2>3, <3>1
      <3> QED
        BY <3>2
    <2> QED
      BY <1>2, <2>2, <2>3, StepsRunOrAddNothing
  <1>3. IInv /\ [Next]_vars => [filled /\ bounded]_vars
    BY <1>1, <1>2
  <1> QED
    BY <1>3, Invariance, PTL DEF Spec, PlanningFillsTheQueue
-----------------------------------------------------------------------------
(* What no step does: take back an order the customer was told of, or act on *)
(* one key twice.                                                            *)

\* NoticeStands and EachKeyActsOnce, of the rows before a step and after it.
NoticesStand(d, r) ==
  \A i \in WithStatus(d, {"pending"}) :
    /\ r.occ[i].status # "planned"
    /\ r.occ[i].date # d.occ[i].date => i \in r.log.deferred /\ r.log.keys # d.log.keys

Touched(d, r) ==
  {i \in DOMAIN d.occ : \/ r.occ[i].date # d.occ[i].date
                        \/ r.occ[i].status = "skipped" /\ d.occ[i].status # "skipped"}

KeysActOnce(d, r) == Cardinality(Touched(d, r)) = Cardinality(r.log.keys \ d.log.keys)

\* Order i is neither moved nor skipped, and goes back to planned in no case.
LeftAlone(d, r, i) ==
  /\ r.occ[i].date = d.occ[i].date
  /\ r.occ[i].status = "skipped" => d.occ[i].status = "skipped"
  /\ r.occ[i].status = "planned" => d.occ[i].status = "planned"

Untouched(d, r) == r.log.keys = d.log.keys /\ \A i \in DOMAIN d.occ : LeftAlone(d, r, i)

(* A step that touches no order and records no key owes nothing.             *)
LEMMA UntouchedStands ==
  ASSUME NEW d, NEW r, Untouched(d, r)
  PROVE  NoticesStand(d, r) /\ KeysActOnce(d, r)
  <1>1. NoticesStand(d, r)
    BY DEF Untouched, LeftAlone, NoticesStand, WithStatus
  <1>2. Touched(d, r) = {} /\ r.log.keys \ d.log.keys = {}
    BY DEF Untouched, LeftAlone, Touched
  <1> QED
    BY <1>1, <1>2 DEF KeysActOnce

(* A step that touches one order under a key never used is paid for by it.   *)
LEMMA OneTouchedStands ==
  ASSUME NEW d, NEW r, NEW i \in DOMAIN d.occ, NEW k, k \notin d.log.keys,
         r.log.keys = d.log.keys \union {k},
         \A j \in DOMAIN d.occ : j # i => LeftAlone(d, r, j),
         i \in Touched(d, r),
         d.occ[i].status = "pending" => r.occ[i].status # "planned",
         r.occ[i].date # d.occ[i].date => i \in r.log.deferred
  PROVE  NoticesStand(d, r) /\ KeysActOnce(d, r)
  <1>1. NoticesStand(d, r)
    <2>1. r.log.keys # d.log.keys
      OBVIOUS
    <2> QED
      BY <2>1 DEF LeftAlone, NoticesStand, WithStatus
  <1>2. Touched(d, r) = {i} /\ r.log.keys \ d.log.keys = {k}
    BY DEF LeftAlone, Touched
  <1>3. Cardinality({i}) = 1 /\ Cardinality({k}) = 1
    BY FS_Singleton
  <1> QED
    BY <1>1, <1>2, <1>3 DEF KeysActOnce

(* What one order's change does to each order of the sequence.               *)
LEMMA OneStatusEach ==
  ASSUME NEW s \in Seq(Order), NEW i \in DOMAIN s, NEW x
  PROVE  /\ DOMAIN [s EXCEPT ![i].status = x] = DOMAIN s
         /\ [s EXCEPT ![i].status = x][i].status = x
         /\ [s EXCEPT ![i].status = x][i].date = s[i].date
         /\ \A j \in DOMAIN s : j # i => [s EXCEPT ![i].status = x][j] = s[j]
  BY OrdersOf DEF Order

(* What canceling does to each order of the sequence.                        *)
LEMMA CancelingEach ==
  ASSUME NEW s \in Seq(Order), NEW statuses, NEW i \in DOMAIN s
  PROVE  /\ DOMAIN CanceledRows(s, statuses) = DOMAIN s
         /\ CanceledRows(s, statuses)[i].date = s[i].date
         /\ \/ CanceledRows(s, statuses)[i].status = s[i].status
            \/ CanceledRows(s, statuses)[i].status = "canceled"
  BY OrdersOf DEF Order, CanceledRows

(* A run touches none of the orders it finds and records no key.             *)
LEMMA RunTouchesNothing ==
  ASSUME NEW d \in Rows, NEW runDate \in Int, Agrees(d)
  PROVE  LET s == Run(d, runDate)
         IN  /\ s.log.keys = d.log.keys /\ s.log.deferred = d.log.deferred
             /\ \A i \in DOMAIN d.occ : s.occ[i] = d.occ[i]
  <1> DEFINE r == RunRows(d, runDate)
             s == Run(d, runDate)
             n == Len(d.occ)
  <1>1. s = RefreshNextRunDate(r, runDate) /\ r \in Rows /\ Kept(d.occ, r.occ)
    BY RunAppends
  <1>2. r.log.keys = d.log.keys /\ r.log.deferred = d.log.deferred
    BY RowsHaveOrders DEF RunRows, Rows, Log
  <1>3. /\ DOMAIN d.occ = 1..n /\ n \in Nat
        /\ \A i \in DOMAIN r.occ : i <= n => r.occ[i] = d.occ[i]
    BY RunExtendsTheQueue
  <1> HIDE DEF r, s
  <1>4. s.log = r.log /\ s.occ = r.occ
    BY <1>1 DEF RefreshNextRunDate, UpdateScheduleNextRun, Rows
  <1>5. \A i \in DOMAIN d.occ : s.occ[i] = d.occ[i]
    BY <1>1, <1>3, <1>4 DEF Kept
  <1> QED
    BY <1>2, <1>4, <1>5 DEF s

-----------------------------------------------------------------------------
(* The transactions.                                                         *)

(* A skip touches the order it skips, under its key.                         *)
LEMMA SkippedStands ==
  ASSUME NEW d \in Rows, Agrees(d), today \in Int, NEW i \in WithStatus(d, Unsettled),
         NEW key \in Keys, ~EventExistsWithKey(d, "occurrence.skipped", key)
  PROVE  NoticesStand(d, Skipped(d, i, key)) /\ KeysActOnce(d, Skipped(d, i, key))
  <1> DEFINE k == <<"occurrence.skipped", key>>
             r == SkippedRows(d, i, key)
             s == Skipped(d, i, key)
  <1>1. /\ s = Run(r, today) /\ r \in Rows /\ Agrees(r)
        /\ d.occ \in Seq(Order) /\ i \in DOMAIN d.occ /\ d.occ[i].status \in Unsettled
    BY SkippedThenRuns, RowsHaveOrders DEF WithStatus
  <1>2. r.occ = [d.occ EXCEPT ![i].status = "skipped"]
    BY DEF SkippedRows, RowsWith
  <1>3. r.log.keys = d.log.keys \union {k}
    BY RowsHaveOrders DEF SkippedRows, RowsWith, StatusLogged, Log
  <1>4. k \notin d.log.keys
    BY DEF EventExistsWithKey
  <1> HIDE DEF r, s, k
  <1>5. /\ DOMAIN r.occ = DOMAIN d.occ
        /\ r.occ[i].status = "skipped" /\ r.occ[i].date = d.occ[i].date
        /\ \A j \in DOMAIN d.occ : j # i => r.occ[j] = d.occ[j]
    BY <1>1, <1>2, OneStatusEach
  <1>6. s.log.keys = r.log.keys /\ \A j \in DOMAIN d.occ : s.occ[j] = r.occ[j]
    BY <1>1, <1>5, RunTouchesNothing
  <1>7. i \in Touched(d, s)
    BY <1>1, <1>5, <1>6 DEF Touched, Unsettled
  <1>8. \A j \in DOMAIN d.occ : j # i => LeftAlone(d, s, j)
    BY <1>5, <1>6 DEF LeftAlone
  <1>9. s.occ[i].status # "planned" /\ s.occ[i].date = d.occ[i].date
    BY <1>1, <1>5, <1>6
  <1>10. NoticesStand(d, s) /\ KeysActOnce(d, s)
    BY <1>1, <1>3, <1>4, <1>6, <1>7, <1>8, <1>9, OneTouchedStands
  <1> QED
    BY <1>10 DEF s

(* A deferral touches the order it moves, under its key, and says so.        *)
LEMMA DeferredStands ==
  ASSUME NEW d \in Rows, Agrees(d), NEW i \in WithStatus(d, Unsettled),
         NEW days \in Nat \ {0}, NEW key \in Keys,
         ~EventExistsWithKey(d, "occurrence.deferred", key)
  PROVE  NoticesStand(d, Deferred(d, i, days, key)) /\ KeysActOnce(d, Deferred(d, i, days, key))
  <1> DEFINE k == <<"occurrence.deferred", key>>
             to == d.occ[i].date + days
             q == [d.occ EXCEPT ![i].date = to]
             r == DeferredRows(d, i, days, key)
             s == Deferred(d, i, days, key)
  <1>1. /\ s = RefreshNextRunDate(r, today) /\ r \in Rows
        /\ d.occ \in Seq(Order) /\ i \in DOMAIN d.occ
    BY DeferredThenRefreshes, RowsHaveOrders DEF WithStatus
  <1>2. r = RowsWith(d.status, d.interval, d.anchor, d.nextRun, d.pausedUntil, q,
                     DateLogged(d.log, i, to, {k}))
    BY DEF DeferredRows
  <1>3. k \notin d.log.keys
    BY DEF EventExistsWithKey
  <1>4. to # d.occ[i].date
    <2>1. d.occ[i].date \in Int
      BY <1>1, OrdersOf
    <2> QED
      BY <2>1, SMT
  <1> HIDE DEF r, s, k, to
  <1>5. /\ q[i].date = to /\ q[i].status = d.occ[i].status
        /\ \A j \in DOMAIN d.occ : j # i => q[j] = d.occ[j]
    BY <1>1, OrdersOf DEF Order
  <1>6. s.log = r.log /\ s.occ = r.occ
    BY <1>1 DEF RefreshNextRunDate, UpdateScheduleNextRun, Rows
  <1> HIDE DEF q
  <1>7. /\ r.occ = q /\ r.log.keys = d.log.keys \union {k} /\ i \in r.log.deferred
    <2>1. r.occ = q /\ r.log = DateLogged(d.log, i, to, {k})
      BY <1>2 DEF RowsWith
    <2>2. d.log \in Log
      BY RowsHaveOrders
    <2>3. /\ DateLogged(d.log, i, to, {k}).keys = d.log.keys \union {k}
          /\ DateLogged(d.log, i, to, {k}).deferred = d.log.deferred \union {i}
      BY <2>2 DEF DateLogged, Log
    <2> QED
      BY <2>1, <2>3
  <1>8. i \in Touched(d, s)
    BY <1>1, <1>4, <1>5, <1>6, <1>7 DEF Touched
  <1>9. \A j \in DOMAIN d.occ : j # i => LeftAlone(d, s, j)
    BY <1>5, <1>6, <1>7 DEF LeftAlone
  <1>10. d.occ[i].status = "pending" => s.occ[i].status # "planned"
    BY <1>5, <1>6, <1>7
  <1>11. NoticesStand(d, s) /\ KeysActOnce(d, s)
    BY <1>1, <1>3, <1>6, <1>7, <1>8, <1>9, <1>10, OneTouchedStands
  <1> QED
    BY <1>11 DEF s

(* Canceling what is outstanding touches nothing else (Pause, Cancel).       *)
LEMMA CancelingTouchesNothing ==
  ASSUME NEW d \in Rows, NEW r, NEW statuses,
         r.occ = CanceledRows(d.occ, statuses), r.log.keys = d.log.keys
  PROVE  Untouched(d, r)
  BY RowsHaveOrders, CancelingEach DEF Untouched, LeftAlone

(* Pausing cancels, and records no key.                                      *)
LEMMA PausedTouchesNothing ==
  ASSUME NEW d \in Rows, NEW until
  PROVE  Untouched(d, Paused(d, until))
  <1> DEFINE r == Paused(d, until)
  <1>1. r.occ = CanceledRows(d.occ, Unsettled) /\ r.log.keys = d.log.keys
    BY RowsHaveOrders
       DEF Paused, UpdateScheduleStatus, UpdateScheduleNextRun, CancelOccurrences,
           AppendEvent, Replay, Rows, Log
  <1> HIDE DEF r
  <1>2. Untouched(d, r)
    BY <1>1, CancelingTouchesNothing
  <1> QED
    BY <1>2 DEF r

(* Canceling cancels, and records no key.                                    *)
LEMMA CanceledTouchesNothing ==
  ASSUME NEW d \in Rows
  PROVE  Untouched(d, Canceled(d))
  <1> DEFINE r == Canceled(d)
  <1>1. r.occ = CanceledRows(d.occ, Unsettled) /\ r.log.keys = d.log.keys
    BY RowsHaveOrders
       DEF Canceled, UpdateScheduleStatus, UpdateScheduleNextRun, CancelOccurrences,
           AppendEvent, Replay, Rows, Log
  <1> HIDE DEF r
  <1>2. Untouched(d, r)
    BY <1>1, CancelingTouchesNothing
  <1> QED
    BY <1>2 DEF r

(* A run after a step that touches nothing touches nothing.                  *)
LEMMA UntouchedThenRun ==
  ASSUME NEW d \in Rows, NEW r \in Rows, Agrees(r), NEW runDate \in Int,
         DOMAIN r.occ = DOMAIN d.occ, Untouched(d, r)
  PROVE  Untouched(d, Run(r, runDate))
  BY RunTouchesNothing DEF Untouched, LeftAlone

(* Resuming touches nothing: it plans.                                       *)
LEMMA ResumedTouchesNothing ==
  ASSUME NEW d \in Rows, Agrees(d), today \in Int
  PROVE  Untouched(d, Resumed(d))
  <1> DEFINE r == ResumedRows(d)
  <1>1. Resumed(d) = Run(r, today) /\ r \in Rows /\ Agrees(r) /\ r.occ = d.occ
    BY ResumedThenRuns
  <1>2. r.log.keys = d.log.keys
    BY RowsHaveOrders DEF ResumedRows, RowsWith, Log
  <1> HIDE DEF r
  <1>3. Untouched(d, r)
    BY <1>1, <1>2 DEF Untouched, LeftAlone
  <1> QED
    BY <1>1, <1>3, UntouchedThenRun

(* A cadence change cancels what is planned, never what is armed, and plans. *)
LEMMA CadenceChangedTouchesNothing ==
  ASSUME NEW d \in Rows, Agrees(d), today \in Int, NEW interval \in 7..180
  PROVE  Untouched(d, CadenceChanged(d, interval))
  <1> DEFINE q == CanceledRows(d.occ, {"planned"})
             r == CadenceChangedRows(d, interval)
             s == CadenceChanged(d, interval)
  <1>1. /\ s = IF d.status = "active" THEN Run(r, today)
               ELSE UpdateScheduleNextRun(r, NoDate)
        /\ r \in Rows /\ Agrees(r) /\ r.occ = q
    BY CadenceChangedThenRuns
  <1>2. r.log.keys = d.log.keys
    BY RowsHaveOrders DEF CadenceChangedRows, RowsWith, Log
  <1> HIDE DEF r, s
  <1>3. Untouched(d, r) /\ DOMAIN r.occ = DOMAIN d.occ
    <2>1. DOMAIN q = DOMAIN d.occ
      BY DEF CanceledRows
    <2> QED
      BY <1>1, <1>2, <2>1, CancelingTouchesNothing
  <1>4. CASE d.status = "active"
    <2>1. Untouched(d, s)
      BY <1>1, <1>3, <1>4, UntouchedThenRun
    <2> QED
      BY <2>1 DEF s
  <1>5. CASE d.status # "active"
    <2>1. s.occ = r.occ /\ s.log = r.log
      BY <1>1, <1>5 DEF UpdateScheduleNextRun, Rows
    <2>2. Untouched(d, s)
      BY <1>3, <2>1 DEF Untouched, LeftAlone
    <2> QED
      BY <2>2 DEF s
  <1> QED
    BY <1>4, <1>5

(* Arming and placing change one order's status, to neither planned nor      *)
(* skipped, and record no key.                                               *)
LEMMA OneStatusTouchesNothing ==
  ASSUME NEW d \in Rows, NEW r, NEW i \in DOMAIN d.occ, NEW x \in {"pending", "placed"},
         r.occ = [d.occ EXCEPT ![i].status = x], r.log.keys = d.log.keys
  PROVE  Untouched(d, r)
  <1>1. d.occ \in Seq(Order)
    BY RowsHaveOrders
  <1>2. /\ r.occ[i].status = x /\ r.occ[i].date = d.occ[i].date
        /\ \A j \in DOMAIN d.occ : j # i => r.occ[j] = d.occ[j]
    BY <1>1, OneStatusEach
  <1>3. x # "planned" /\ x # "skipped"
    OBVIOUS
  <1>4. LeftAlone(d, r, i)
    BY <1>2, <1>3 DEF LeftAlone
  <1>5. \A j \in DOMAIN d.occ : j # i => LeftAlone(d, r, j)
    BY <1>2 DEF LeftAlone
  <1> QED
    BY <1>4, <1>5 DEF Untouched

(* Arming touches nothing.                                                   *)
LEMMA ArmedTouchesNothing ==
  ASSUME NEW d \in Rows, Agrees(d), NEW i \in WithStatus(d, Unsettled)
  PROVE  Untouched(d, Armed(d, i))
  <1> DEFINE r == ArmedRows(d, i)
  <1>1. r.occ = [d.occ EXCEPT ![i].status = "pending"] /\ r.log.keys = d.log.keys
    BY RowsHaveOrders DEF ArmedRows, RowsWith, Log
  <1>2. Armed(d, i) = r /\ i \in DOMAIN d.occ
    BY ArmedByColumn DEF WithStatus
  <1> HIDE DEF r
  <1> QED
    BY <1>1, <1>2, OneStatusTouchesNothing

(* Placing touches nothing.                                                  *)
LEMMA PlacedTouchesNothing ==
  ASSUME NEW d \in Rows, Agrees(d), NEW i \in WithStatus(d, {"pending"})
  PROVE  Untouched(d, Placed(d, i))
  <1> DEFINE r == PlacedRows(d, i)
  <1>1. r.occ = [d.occ EXCEPT ![i].status = "placed"] /\ r.log.keys = d.log.keys
    BY RowsHaveOrders DEF PlacedRows, RowsWith, Log
  <1>2. Placed(d, i) = r /\ i \in DOMAIN d.occ
    BY PlacedByColumn DEF WithStatus
  <1> HIDE DEF r
  <1> QED
    BY <1>1, <1>2, OneStatusTouchesNothing

-----------------------------------------------------------------------------
(* Every step meets both.                                                    *)
LEMMA StepsStand ==
  ASSUME IInv, [Next]_vars
  PROVE  NoticesStand(db, db') /\ KeysActOnce(db, db')
  <1>1. today \in Int /\ db \in Rows /\ Agrees(db)
    BY IInvOfRows
  <1>2. SUFFICES ASSUME ~Untouched(db, db')
                 PROVE  NoticesStand(db, db') /\ KeysActOnce(db, db')
    BY UntouchedStands
  <1>3. CASE \E key \in Keys : SkipNext(key)
    <2>1. PICK key \in Keys, i \in DOMAIN db.occ :
            /\ ~EventExistsWithKey(db, "occurrence.skipped", key)
            /\ IsSoonest(db, Unsettled, i) /\ Commit(Skipped(db, i, key))
      BY <1>3 DEF SkipNext
    <2>2. i \in WithStatus(db, Unsettled) /\ db' = Skipped(db, i, key)
      BY <2>1 DEF IsSoonest, Commit
    <2> QED
      BY <1>1, <2>1, <2>2, SkippedStands
  <1>4. CASE \E key \in Keys, days \in DeferDays : Defer(days, key)
    <2>1. PICK key \in Keys, days \in DeferDays, i \in DOMAIN db.occ :
            /\ ~EventExistsWithKey(db, "occurrence.deferred", key)
            /\ IsSoonest(db, Unsettled, i) /\ Commit(Deferred(db, i, days, key))
      BY <1>4 DEF Defer
    <2>2. i \in WithStatus(db, Unsettled) /\ db' = Deferred(db, i, days, key)
      BY <2>1 DEF IsSoonest, Commit
    <2>3. days \in Nat \ {0}
      BY ScheduleAssumption
    <2> QED
      BY <1>1, <2>1, <2>2, <2>3, DeferredStands
  <1>5. CASE \E until \in {today + n : n \in PauseDays} \union {NoDate} : Pause(until)
    <2>1. PICK until : db' = Paused(db, until)
      BY <1>5 DEF Pause, Commit
    <2> QED
      BY <1>1, <1>2, <2>1, PausedTouchesNothing
  <1>6. CASE Resume
    BY <1>1, <1>2, <1>6, ResumedTouchesNothing DEF Resume, Commit
  <1>7. CASE \E interval \in Intervals : ChangeCadence(interval)
    <2>1. PICK interval \in Intervals : db' = CadenceChanged(db, interval)
      BY <1>7 DEF ChangeCadence, Commit
    <2>2. interval \in 7..180
      BY ScheduleAssumption
    <2> QED
      BY <1>1, <1>2, <2>1, <2>2, CadenceChangedTouchesNothing
  <1>8. CASE Cancel
    BY <1>1, <1>2, <1>8, CanceledTouchesNothing DEF Cancel, Commit
  <1>9. CASE ArmNext
    <2>1. PICK i \in DOMAIN db.occ :
            IsSoonest(db, {"planned"}, i) /\ Commit(Armed(db, i))
      BY <1>9 DEF ArmNext
    <2>2. i \in WithStatus(db, Unsettled) /\ db' = Armed(db, i)
      BY <2>1 DEF IsSoonest, Commit, WithStatus, Unsettled
    <2> QED
      BY <1>1, <1>2, <2>2, ArmedTouchesNothing
  <1>10. CASE \E runDate \in RunDates : Materialize(runDate)
    <2>1. PICK runDate \in RunDates : db' = Run(db, runDate)
      BY <1>10 DEF Materialize, Commit
    <2>2. runDate \in Int
      BY <1>1, ScheduleAssumption DEF RunDates
    <2>3. Untouched(db, db)
      BY DEF Untouched, LeftAlone
    <2> QED
      BY <1>1, <1>2, <2>1, <2>2, <2>3, UntouchedThenRun
  <1>11. CASE PlaceOrder
    <2>1. PICK i \in WithStatus(db, {"pending"}) : db' = Placed(db, i)
      BY <1>11 DEF PlaceOrder, Commit, Placed
    <2> QED
      BY <1>1, <1>2, <2>1, PlacedTouchesNothing
  <1>12. CASE NextDay \/ UNCHANGED vars
    <2>1. db' = db
      BY <1>12 DEF NextDay, vars
    <2> QED
      BY <1>2, <2>1 DEF Untouched, LeftAlone
  <1> QED
    BY <1>3, <1>4, <1>5, <1>6, <1>7, <1>8, <1>9, <1>10, <1>11, <1>12
       DEF Next, Customer

(* An order the customer has been told of never goes back to planned, and    *)
(* only a deferral under a key of its own moves its date (ChangeCadence).    *)
THEOREM AnnouncedOrdersStand == Spec => NoticeStands
  <1>1. IInv /\ [Next]_vars =>
          [\A i \in WithStatus(db, {"pending"}) :
             /\ db'.occ[i].status # "planned"
             /\ db'.occ[i].date # db.occ[i].date =>
                  i \in db'.log.deferred /\ db'.log.keys # db.log.keys]_vars
    BY StepsStand DEF NoticesStand
  <1> QED
    BY <1>1, Invariance, PTL DEF Spec, NoticeStands

(* However often, and on whatever order, a key is presented, the steps skip  *)
(* and move as many orders as there are keys recorded (EventExistsWithKey).  *)
THEOREM KeysActOnceForEver == Spec => EachKeyActsOnce
  <1>1. IInv /\ [Next]_vars =>
          [Cardinality({i \in DOMAIN db.occ :
                          \/ db'.occ[i].date # db.occ[i].date
                          \/ db'.occ[i].status = "skipped" /\ db.occ[i].status # "skipped"})
             = Cardinality(db'.log.keys \ db.log.keys)]_vars
    BY StepsStand DEF KeysActOnce, Touched
  <1> QED
    BY <1>1, Invariance, PTL DEF Spec, EachKeyActsOnce

-----------------------------------------------------------------------------
(* The cadence sheet.                                                        *)

\* The orders that come before one of them, when they are sorted.
Before(orders, o) == {p \in orders : Sooner(p, o)}

(* The first so many numbers are so many.                                    *)
LEMMA CountingUp ==
  ASSUME NEW n \in Nat
  PROVE  IsFiniteSet(1..n) /\ Cardinality(1..n) = n
  <1>1. 1 \in Int /\ n \in Int
    OBVIOUS
  <1>2. IsFiniteSet(1..n) /\ Cardinality(1..n) = IF 1 > n THEN 0 ELSE n - 1 + 1
    BY <1>1, FS_Interval
  <1>3. (IF 1 > n THEN 0 ELSE n - 1 + 1) = n
    BY SMT
  <1> QED
    BY <1>2, <1>3

(* Orders are sorted by a strict total order: by date, then by number.       *)
LEMMA SoonerIsAnOrder ==
  ASSUME NEW S \in SUBSET (Int \X Int)
  PROVE  /\ \A o \in S : ~Sooner(o, o)
         /\ \A o, p \in S : ~(Sooner(o, p) /\ Sooner(p, o))
         /\ \A o, p, q \in S : Sooner(o, p) /\ Sooner(p, q) => Sooner(o, q)
         /\ \A o, p \in S : o # p => Sooner(o, p) \/ Sooner(p, o)
  <1>1. \A o \in S : o[1] \in Int /\ o[2] \in Int /\ o = <<o[1], o[2]>>
    OBVIOUS
  <1>2. \A o, p \in S : o # p => o[1] # p[1] \/ o[2] # p[2]
    BY <1>1
  <1> QED
    BY <1>1, <1>2, SMT DEF Sooner

(* An order that sorts later has more before it.                             *)
LEMMA RanksGrow ==
  ASSUME NEW S \in SUBSET (Int \X Int), IsFiniteSet(S), NEW o \in S, NEW p \in S, Sooner(o, p)
  PROVE  Cardinality(Before(S, o)) < Cardinality(Before(S, p))
  <1>1. Before(S, o) \subseteq Before(S, p)
    BY SoonerIsAnOrder DEF Before
  <1>2. o \in Before(S, p) /\ o \notin Before(S, o)
    BY SoonerIsAnOrder DEF Before
  <1>3. IsFiniteSet(Before(S, p)) /\ IsFiniteSet(Before(S, o))
    BY FS_Subset DEF Before
  <1>4. /\ Cardinality(Before(S, o)) <= Cardinality(Before(S, p))
        /\ Cardinality(Before(S, o)) # Cardinality(Before(S, p))
    BY <1>1, <1>2, <1>3, FS_Subset
  <1>5. Cardinality(Before(S, o)) \in Nat /\ Cardinality(Before(S, p)) \in Nat
    BY <1>3, FS_CardinalityType
  <1> QED
    BY <1>4, <1>5, SMT

(* The order with so many before it is the one that has them (Nth).          *)
LEMMA NthIsThatOne ==
  ASSUME NEW S \in SUBSET (Int \X Int), IsFiniteSet(S), NEW o \in S,
         NEW n \in Nat, Cardinality(Before(S, o)) = n - 1
  PROVE  Nth(S, n) = o
  <1>1. Nth(S, n) \in S /\ Cardinality(Before(S, Nth(S, n))) = n - 1
    BY DEF Nth, Before
  <1>2. \A p, q \in S : Sooner(p, q) => Cardinality(Before(S, p)) # Cardinality(Before(S, q))
    <2> SUFFICES ASSUME NEW p \in S, NEW q \in S, Sooner(p, q)
                 PROVE  Cardinality(Before(S, p)) # Cardinality(Before(S, q))
      OBVIOUS
    <2>1. Cardinality(Before(S, p)) < Cardinality(Before(S, q))
      BY RanksGrow
    <2>2. Cardinality(Before(S, q)) \in Nat
      BY FS_Subset, FS_CardinalityType DEF Before
    <2> QED
      BY <2>1, <2>2, SMT
  <1> QED
    BY <1>1, <1>2, SoonerIsAnOrder

(* Every place in the sequence is somebody's: there are as many orders as    *)
(* places, and no two have the same number before them.                      *)
LEMMA NthIsOneOfThem ==
  ASSUME NEW S \in SUBSET (Int \X Int), IsFiniteSet(S), NEW n \in 1..Cardinality(S)
  PROVE  Nth(S, n) \in S /\ Cardinality(Before(S, Nth(S, n))) = n - 1
  <1> DEFINE c == Cardinality(S)
             rank == [o \in S |-> Cardinality(Before(S, o)) + 1]
  <1>1. c \in Nat
    BY FS_CardinalityType
  <1>2. \A o \in S : rank[o] \in 1..c
    <2> SUFFICES ASSUME NEW o \in S PROVE rank[o] \in 1..c
      OBVIOUS
    <2>1. Before(S, o) \in SUBSET S /\ Before(S, o) # S
      BY SoonerIsAnOrder DEF Before
    <2>2. /\ Cardinality(Before(S, o)) \in Nat
          /\ Cardinality(Before(S, o)) <= c /\ Cardinality(Before(S, o)) # c
      BY <2>1, FS_Subset, FS_CardinalityType
    <2>3. Cardinality(Before(S, o)) + 1 \in 1..c
      <3> HIDE DEF c
      <3> QED BY <1>1, <2>2, SMT
    <2> QED
      BY <2>3
  <1>3. \A o, p \in S : rank[o] = rank[p] => o = p
    <2>1. \A o, p \in S : Sooner(o, p) => Cardinality(Before(S, o)) < Cardinality(Before(S, p))
      BY RanksGrow
    <2>2. \A o \in S : Cardinality(Before(S, o)) \in Nat
      BY FS_Subset, FS_CardinalityType DEF Before
    <2>3. \A o, p \in S : Sooner(o, p) => rank[o] # rank[p]
      BY <2>1, <2>2, SMT
    <2> QED
      BY <2>3, SoonerIsAnOrder
  <1>4. rank \in Injection(S, 1..c)
    <2> HIDE DEF c
    <2>1. rank \in [S -> 1..c]
      BY <1>2
    <2> HIDE DEF rank
    <2> QED BY <1>3, <2>1 DEF Injection, IsInjective
  <1>5. IsFiniteSet(1..c) /\ Cardinality(1..c) = c
    <2> HIDE DEF c, rank
    <2> QED BY <1>1, CountingUp
  <1>6. rank \in Surjection(S, 1..c)
    <2> HIDE DEF rank
    <2> QED BY <1>4, <1>5, FS_Injection
  <1>7. PICK o \in S : rank[o] = n
    BY <1>6 DEF Surjection
  <1>8. Cardinality(Before(S, o)) = n - 1
    <2>1. Cardinality(Before(S, o)) \in Nat
      BY FS_Subset, FS_CardinalityType DEF Before
    <2>2. Cardinality(Before(S, o)) + 1 = n
      BY <1>7
    <2> QED
      BY <2>1, <2>2, SMT
  <1> QED
    BY <1>8 DEF Nth, Before

(* Where every order of one set comes before every order of another, the two *)
(* sequences follow each other.                                              *)
LEMMA FirstTheOneThenTheOther ==
  ASSUME NEW A \in SUBSET (Int \X Int), NEW B \in SUBSET (Int \X Int),
         IsFiniteSet(A), IsFiniteSet(B), \A o \in A, p \in B : Sooner(o, p)
  PROVE  LET a == Cardinality(A)
             b == Cardinality(B)
         IN  /\ a \in Nat /\ b \in Nat /\ Cardinality(A \union B) = a + b
             /\ \A n \in 1..a : DatesInOrder(A \union B)[n] = DatesInOrder(A)[n]
             /\ \A n \in 1..b : DatesInOrder(A \union B)[a + n] = DatesInOrder(B)[n]
  <1> DEFINE S == A \union B
             a == Cardinality(A)
             b == Cardinality(B)
  <1>1. S \in SUBSET (Int \X Int)
    OBVIOUS
  <1>2. A \intersect B = {}
    BY <1>1, SoonerIsAnOrder
  <1>3. IsFiniteSet(S) /\ Cardinality(S) = a + b /\ a \in Nat /\ b \in Nat
    <2>1. IsFiniteSet(S) /\ Cardinality(S) = a + b - Cardinality(A \intersect B)
      BY FS_Union
    <2>2. Cardinality(A \intersect B) = 0 /\ a \in Nat /\ b \in Nat
      BY <1>2, FS_EmptySet, FS_CardinalityType
    <2> HIDE DEF S, a, b
    <2> QED BY <2>1, <2>2, SMT
  <1>4. \A o \in A : Before(S, o) = Before(A, o)
    BY <1>1, SoonerIsAnOrder DEF Before
  <1>5. ASSUME NEW o \in B
        PROVE  Cardinality(Before(S, o)) = a + Cardinality(Before(B, o))
    <2>1. Before(S, o) = A \union Before(B, o) /\ A \intersect Before(B, o) = {}
      BY <1>2 DEF Before
    <2>2. IsFiniteSet(Before(B, o))
      BY FS_Subset DEF Before
    <2>3. Cardinality(A \union Before(B, o))
            = a + Cardinality(Before(B, o)) - Cardinality(A \intersect Before(B, o))
      BY <2>2, FS_Union
    <2>4. Cardinality(A \intersect Before(B, o)) = 0 /\ Cardinality(Before(B, o)) \in Nat
      BY <2>1, <2>2, FS_EmptySet, FS_CardinalityType
    <2>5. Cardinality(Before(S, o))
            = a + Cardinality(Before(B, o)) - Cardinality(A \intersect Before(B, o))
      BY <2>1, <2>3
    <2> HIDE DEF S, a
    <2> QED BY <1>3, <2>4, <2>5, SMT
  <1>6. ASSUME NEW n \in 1..a
        PROVE  DatesInOrder(S)[n] = DatesInOrder(A)[n]
    <2>1. Nth(A, n) \in A /\ Cardinality(Before(A, Nth(A, n))) = n - 1
      BY NthIsOneOfThem
    <2>2. n \in Nat /\ n \in 1..(a + b)
      <3> HIDE DEF a, b
      <3> QED BY <1>3, SMT
    <2>3. Nth(S, n) = Nth(A, n)
      <3> HIDE DEF S, a, b
      <3>1. Nth(A, n) \in S
        BY <2>1 DEF S
      <3> QED
        BY <1>1, <1>3, <1>4, <2>1, <2>2, <3>1, NthIsThatOne
    <2> QED
      BY <1>3, <2>2, <2>3 DEF DatesInOrder
  <1>7. ASSUME NEW n \in 1..b
        PROVE  DatesInOrder(S)[a + n] = DatesInOrder(B)[n]
    <2>1. Nth(B, n) \in B /\ Cardinality(Before(B, Nth(B, n))) = n - 1
      BY NthIsOneOfThem
    <2>2. a + n \in Nat /\ a + n \in 1..(a + b) /\ a + (n - 1) = (a + n) - 1
      <3> HIDE DEF a, b
      <3> QED BY <1>3, SMT
    <2>3. Nth(S, a + n) = Nth(B, n)
      <3> HIDE DEF S, a, b
      <3>1. Nth(B, n) \in S
        BY <2>1 DEF S
      <3>2. Cardinality(Before(S, Nth(B, n))) = (a + n) - 1
        BY <1>5, <2>1, <2>2
      <3> QED
        BY <1>1, <1>3, <2>2, <3>1, <3>2, NthIsThatOne
    <2> QED
      BY <1>3, <2>2, <2>3 DEF DatesInOrder
  <1> QED
    BY <1>3, <1>6, <1>7

(* Orders listed one after another are sorted as they are listed.            *)
LEMMA ListedInOrder ==
  ASSUME NEW h \in Nat, NEW f \in [1..h -> Int \X Int],
         \A i, j \in 1..h : i < j => Sooner(f[i], f[j])
  PROVE  LET S == {f[i] : i \in 1..h}
         IN  /\ S \in SUBSET (Int \X Int) /\ IsFiniteSet(S) /\ Cardinality(S) = h
             /\ \A n \in 1..h : DatesInOrder(S)[n] = f[n][1]
  <1> DEFINE S == {f[i] : i \in 1..h}
             T(n) == {f[i] : i \in 1..n}
  <1>1. S \in SUBSET (Int \X Int)
    OBVIOUS
  <1>2. \A i, j \in 1..h : f[i] = f[j] => i = j
    <2>1. \A i, j \in 1..h : i # j => i < j \/ j < i
      BY SMT
    <2>2. \A i \in 1..h : f[i] \in S
      OBVIOUS
    <2> QED
      BY <1>1, <2>1, <2>2, SoonerIsAnOrder
  <1>3. ASSUME NEW n \in 0..h
        PROVE  IsFiniteSet(T(n)) /\ Cardinality(T(n)) = n
    <2> DEFINE g == [i \in 1..n |-> f[i]]
    <2>0. 1..n \subseteq 1..h /\ n \in Nat
      BY SMT
    <2>1. g \in Bijection(1..n, T(n))
      <3>1. g \in [1..n -> T(n)] /\ \A t \in T(n) : \E i \in 1..n : g[i] = t
        OBVIOUS
      <3>2. \A i, j \in 1..n : g[i] = g[j] => i = j
        BY <1>2, <2>0
      <3> HIDE DEF g, T
      <3> QED
        BY <3>1, <3>2 DEF Bijection, Injection, Surjection, IsInjective
    <2>2. ExistsBijection(1..n, T(n))
      <3> HIDE DEF g
      <3> QED BY <2>1 DEF ExistsBijection
    <2>3. IsFiniteSet(1..n) /\ Cardinality(1..n) = n
      <3> HIDE DEF g, T
      <3> QED BY <2>0, CountingUp
    <2> HIDE DEF T
    <2> QED
      BY <2>2, <2>3, FS_Bijection
  <1>4. S = T(h) /\ h \in 0..h
    OBVIOUS
  <1>5. IsFiniteSet(S) /\ Cardinality(S) = h
    <2> HIDE DEF S, T
    <2> QED BY <1>3, <1>4
  <1>6. ASSUME NEW n \in 1..h
        PROVE  DatesInOrder(S)[n] = f[n][1]
    <2>1. n \in Nat /\ n - 1 \in 0..h /\ \A i \in 1..h : i \in 1..(n - 1) <=> i < n
      BY SMT
    <2>2. Before(S, f[n]) = T(n - 1)
      <3>1. \A i \in 1..h : Sooner(f[i], f[n]) <=> i < n
        <4>1. \A i \in 1..h : i < n \/ i = n \/ n < i
          BY SMT
        <4>2. \A i \in 1..h : f[i] \in S
          OBVIOUS
        <4>3. \A i \in 1..h : ~(i < n) => ~Sooner(f[i], f[n])
          <5> HIDE DEF S
          <5> QED BY <1>1, <4>1, <4>2, SoonerIsAnOrder
        <4> QED
          BY <4>3
      <3>2. 1..(n - 1) \subseteq 1..h
        BY SMT
      <3> QED
        BY <2>1, <3>1, <3>2 DEF Before
    <2>3. Cardinality(Before(S, f[n])) = n - 1
      <3> HIDE DEF S, T
      <3> QED BY <1>3, <2>1, <2>2
    <2>4. f[n] \in S
      OBVIOUS
    <2>5. Nth(S, n) = f[n]
      <3> HIDE DEF S
      <3> QED BY <1>1, <1>5, <2>1, <2>3, <2>4, NthIsThatOne
    <2> HIDE DEF S
    <2> QED
      BY <1>5, <2>5 DEF DatesInOrder
  <1> QED
    BY <1>1, <1>5, <1>6

-----------------------------------------------------------------------------
(* The orders a sheet or a queue lists are finitely many.                    *)
LEMMA OrdersWithAreOrders ==
  ASSUME NEW d \in Rows, NEW statuses
  PROVE  /\ OrdersWith(d, statuses) \in SUBSET (Int \X Int)
         /\ IsFiniteSet(OrdersWith(d, statuses))
  <1> DEFINE J == WithStatus(d, statuses)
             f == [i \in J |-> <<d.occ[i].date, i>>]
             S == OrdersWith(d, statuses)
  <1>1. J \subseteq 1..Len(d.occ) /\ Len(d.occ) \in Nat
    BY RowsHaveOrders, OrdersOf DEF WithStatus
  <1>2. IsFiniteSet(J)
    <2> HIDE DEF J
    <2> QED BY <1>1, SomeOfTheOrdersAreFinite
  <1>3. f \in Surjection(J, S)
    BY DEF Surjection, OrdersWith
  <1>4. \A i \in J : d.occ[i].date \in Int /\ i \in Int
    BY <1>1, RowsHaveOrders, OrdersOf DEF WithStatus
  <1>5. S \in SUBSET (Int \X Int)
    BY <1>4 DEF OrdersWith
  <1>6. IsFiniteSet(S)
    <2> HIDE DEF f, J, S
    <2> QED BY <1>2, <1>3, FS_Surjection
  <1> QED
    BY <1>5, <1>6

(* A sorted list of dates has one for each order.                            *)
LEMMA SortedIsASequence ==
  ASSUME NEW S \in SUBSET (Int \X Int), IsFiniteSet(S)
  PROVE  /\ DatesInOrder(S) \in Seq(Int) /\ Len(DatesInOrder(S)) = Cardinality(S)
         /\ Cardinality(S) \in Nat
  <1> DEFINE c == Cardinality(S)
  <1>1. c \in Nat
    BY FS_CardinalityType
  <1>2. \A n \in 1..c : Nth(S, n)[1] \in Int
    <2>1. \A n \in 1..c : Nth(S, n) \in S
      BY NthIsOneOfThem
    <2> QED
      BY <2>1
  <1>3. DatesInOrder(S) = [n \in 1..c |-> Nth(S, n)[1]]
    BY DEF DatesInOrder
  <1> HIDE DEF c
  <1>4. DatesInOrder(S) \in [1..c -> Int]
    BY <1>2, <1>3
  <1> QED
    BY <1>1, <1>4, SMT DEF c

(* What stands after a cadence change is the armed orders, where they were,  *)
(* and a whole horizon of new ones on the new rhythm (ChangeCadence, Run).   *)
LEMMA CadenceChangedGives ==
  ASSUME NEW d \in Rows, Agrees(d), d.status = "active", today \in Int,
         NEW interval \in 7..180
  PROVE  LET n == Len(d.occ)
             start == StartOfRun(CadenceChangedRows(d, interval), today)
             planned(m) == PlannedDate(NewAnchor(d), interval, start, m)
         IN  /\ n \in Nat
             /\ OrdersWith(CadenceChanged(d, interval), Unsettled)
                  = OrdersWith(d, {"pending"}) \union {<<planned(m), n + m>> : m \in 1..Horizon}
             /\ DatesOf(CadenceChangedRows(d, interval), Unsettled, today)
                  = DatesOf(d, {"pending"}, today)
  <1> DEFINE r == CadenceChangedRows(d, interval)
             s == CadenceChanged(d, interval)
             n == Len(d.occ)
             start == StartOfRun(r, today)
             planned(m) == PlannedDate(NewAnchor(d), interval, start, m)
             A == OrdersWith(d, {"pending"})
             B == {<<planned(m), n + m>> : m \in 1..Horizon}
  <1>1. /\ s = Run(r, today) /\ r \in Rows /\ Agrees(r)
        /\ r.occ = CanceledRows(d.occ, {"planned"})
    BY CadenceChangedThenRuns
  <1>2. r.anchor = NewAnchor(d) /\ r.interval = interval
    BY DEF CadenceChangedRows, RowsWith
  <1>3. /\ d.occ \in Seq(Order) /\ n \in Nat /\ DOMAIN d.occ = 1..n
        /\ \A i \in 1..n : d.occ[i].status \in OccurrenceStatus
    BY RowsHaveOrders, OrdersOf
  <1>4. DOMAIN r.occ = 1..n
    BY <1>1, <1>3 DEF CanceledRows
  <1>5. \A i \in 1..n :
          /\ r.occ[i].status # "planned"
          /\ r.occ[i].status = "pending" <=> d.occ[i].status = "pending"
          /\ d.occ[i].status = "pending" => r.occ[i] = d.occ[i]
    <2>1. \A i \in 1..n : d.occ[i] \in Order
      BY <1>3, OrdersOf
    <2> QED
      BY <1>1, <1>3, <2>1 DEF CanceledRows, Order
  <1>6. WithStatus(r, {"planned"}) = {}
    BY <1>4, <1>5 DEF WithStatus
  <1>7. WithStatus(r, Unsettled) = WithStatus(d, {"pending"})
    BY <1>3, <1>4, <1>5 DEF WithStatus, Unsettled
  <1>8. \A i \in WithStatus(d, {"pending"}) : i \in 1..n /\ r.occ[i] = d.occ[i]
    BY <1>3, <1>5 DEF WithStatus
  <1>9. CountFuturePlanned(r, today) = 0
    <2>1. {i \in WithStatus(r, {"planned"}) : r.occ[i].date > today} = {}
      BY <1>6
    <2> QED
      BY <2>1, FS_EmptySet DEF CountFuturePlanned
  <1>10. Horizon \in Nat /\ Horizon - 0 = Horizon /\ Horizon >= 0
    BY ScheduleAssumption
  <1> HIDE DEF r, s
  <1>11. Len(r.occ) = n
    <2> DEFINE l == Len(r.occ)
    <2>1. l \in Nat /\ 1..l = 1..n
      BY <1>1, <1>4, RowsHaveOrders, OrdersOf
    <2> HIDE DEF l, n
    <2>2. l = n
      BY <1>3, <2>1, CountsToTheSame
    <2> QED
      BY <2>2 DEF l
  <1>12. /\ DOMAIN s.occ = 1..(n + Horizon)
         /\ \A i \in 1..n : s.occ[i] = r.occ[i]
         /\ \A i \in (n + 1)..(n + Horizon) :
              s.occ[i].status = "planned" /\ s.occ[i].date = planned(i - n)
    <2> DEFINE l == Len(r.occ)
               missing == Horizon - CountFuturePlanned(r, today)
               m == IF missing >= 0 THEN missing ELSE 0
               E(i) == PlannedDate(r.anchor, r.interval, StartOfRun(r, today), i)
    <2>1. /\ DOMAIN Run(r, today).occ = 1..(l + m)
          /\ \A i \in 1..l : Run(r, today).occ[i] = r.occ[i]
          /\ \A i \in (l + 1)..(l + m) :
               /\ Run(r, today).occ[i].status = "planned"
               /\ Run(r, today).occ[i].date = E(i - l)
      BY <1>1, RunAddsWhatIsMissing
    <2>2. m = Horizon /\ l = n
      BY <1>9, <1>10, <1>11
    <2>3. \A i : E(i) = planned(i)
      BY <1>2
    <2> HIDE DEF l, m, E, planned, n
    <2> QED
      BY <1>1, <2>1, <2>2, <2>3
  <1>13. DatesOf(r, Unsettled, today) = DatesOf(d, {"pending"}, today)
    BY <1>7, <1>8 DEF DatesOf
  <1>14. "planned" \in Unsettled /\ "pending" \in Unsettled
    BY DEF Unsettled
  <1> HIDE DEF n, planned
  <1>15. OrdersWith(s, Unsettled) \subseteq A \union B
    <2> SUFFICES ASSUME NEW i \in WithStatus(s, Unsettled)
                 PROVE  <<s.occ[i].date, i>> \in A \union B
      BY DEF OrdersWith
    <2>1. i \in 1..(n + Horizon) /\ s.occ[i].status \in Unsettled
      BY <1>12 DEF WithStatus
    <2>2. \/ i \in 1..n
          \/ i \in (n + 1)..(n + Horizon) /\ i - n \in 1..Horizon /\ i = n + (i - n)
      BY <1>3, <1>10, <2>1, SMT
    <2>3. CASE i \in 1..n
      <3>1. i \in WithStatus(d, {"pending"}) /\ s.occ[i] = d.occ[i]
        BY <1>4, <1>7, <1>8, <1>12, <2>1, <2>3 DEF WithStatus
      <3> QED
        BY <3>1 DEF OrdersWith
    <2>4. CASE i \in (n + 1)..(n + Horizon) /\ i - n \in 1..Horizon /\ i = n + (i - n)
      <3>1. s.occ[i].date = planned(i - n)
        BY <1>12, <2>4
      <3>2. <<s.occ[i].date, i>> = <<planned(i - n), n + (i - n)>>
        BY <2>4, <3>1
      <3> QED
        BY <2>4, <3>2
    <2> QED
      BY <2>2, <2>3, <2>4
  <1>16. A \subseteq OrdersWith(s, Unsettled)
    <2> SUFFICES ASSUME NEW i \in WithStatus(d, {"pending"})
                 PROVE  <<d.occ[i].date, i>> \in OrdersWith(s, Unsettled)
      BY DEF OrdersWith
    <2>1. i \in 1..n /\ s.occ[i] = d.occ[i] /\ d.occ[i].status = "pending"
      BY <1>8, <1>12 DEF WithStatus
    <2>2. i \in 1..(n + Horizon)
      BY <1>3, <1>10, <2>1, SMT
    <2> QED
      BY <1>12, <1>14, <2>1, <2>2 DEF OrdersWith, WithStatus
  <1>17. B \subseteq OrdersWith(s, Unsettled)
    <2> SUFFICES ASSUME NEW m \in 1..Horizon
                 PROVE  <<planned(m), n + m>> \in OrdersWith(s, Unsettled)
      OBVIOUS
    <2> DEFINE i == n + m
    <2>1. /\ i \in (n + 1)..(n + Horizon) /\ i \in 1..(n + Horizon) /\ i - n = m
      BY <1>3, <1>10, SMT
    <2> HIDE DEF i
    <2>2. s.occ[i].status \in Unsettled /\ s.occ[i].date = planned(m)
      BY <1>12, <1>14, <2>1
    <2>3. <<planned(m), i>> \in OrdersWith(s, Unsettled)
      BY <1>12, <2>1, <2>2 DEF OrdersWith, WithStatus
    <2> QED
      BY <2>3 DEF i
  <1>18. OrdersWith(s, Unsettled) = A \union B
    <2> HIDE DEF A, B
    <2> QED BY <1>15, <1>16, <1>17
  <1> QED
    BY <1>3, <1>13, <1>18 DEF r, s, n, planned

(* Where the first date of the new rhythm is still ahead and no armed order  *)
(* lies past it, the run plans from there on: from that date itself, or from *)
(* the next where an armed order already has it.                             *)
LEMMA StartsWhereTheSheetCounts ==
  ASSUME NEW D \in SUBSET Int, IsFiniteSet(D), NEW day \in Int, NEW a \in Int,
         NEW interval \in Nat \ {0}, day < OccurrenceDate(a, interval, 1),
         \A x \in D : day < x /\ x <= OccurrenceDate(a, interval, 1)
  PROVE  LET first == OccurrenceDate(a, interval, 1)
             start == Max({day} \union D)
         IN  /\ start \in Int /\ start <= first
             /\ NextSequence(a, interval, start) = IF first \in D THEN 2 ELSE 1
  <1> DEFINE first == OccurrenceDate(a, interval, 1)
             S == {day} \union D
             start == Max(S)
             n == NextSequence(a, interval, start)
  <1>1. first \in Int
    BY NextShipmentIsOneIntervalOn
  <1>2. S \in SUBSET Int /\ IsFiniteSet(S) /\ S # {} /\ S = D \union {day}
    BY FS_AddElement
  <1>3. start \in S /\ start \in Int /\ \A x \in S : start >= x
    <2> HIDE DEF S
    <2> QED BY <1>2, MaxOfDates
  <1>4. start <= first /\ (first \in D <=> start = first)
    <2>1. start = day \/ start \in D
      BY <1>3
    <2>2. first \in D => start >= first
      BY <1>3
    <2>3. day < first /\ \A x \in D : x <= first
      OBVIOUS
    <2> HIDE DEF start, S, first
    <2>4. start <= first
      BY <1>1, <1>3, <2>1, <2>3, SMT
    <2>5. first \in D => start = first
      BY <1>1, <1>3, <2>2, <2>4, SMT
    <2>6. start = first => start # day
      BY <1>1, <2>3, SMT
    <2>7. start = first => first \in D
      BY <2>1, <2>6
    <2> QED
      BY <2>4, <2>5, <2>7 DEF start, S, first
  <1>5. CASE start = first
    <2>1. NextSequence(a, interval, first) = 1 + 1
      BY AskingAgainStepsOneShipment
    <2>2. n = 2
      BY <1>5, <2>1
    <2> HIDE DEF n, start, S, first
    <2>3. n = IF first \in D THEN 2 ELSE 1
      BY <1>4, <1>5, <2>2
    <2> QED
      BY <1>3, <1>4, <2>3 DEF n, start, S, first
  <1>6. CASE start # first
    <2> HIDE DEF start, S
    <2>1. /\ n \in Nat \ {0}
          /\ n > 1 => OccurrenceDate(a, interval, n - 1) <= start
      BY <1>3, NextOccurrenceIsFirstAfter
    <2> HIDE DEF n
    <2>2. ~(n > 1)
      <3> SUFFICES ASSUME n > 1 PROVE FALSE
        OBVIOUS
      <3>1. n - 1 \in Int /\ (n - 1 = 1 \/ 1 < n - 1)
        BY <2>1, SMT
      <3> DEFINE m == n - 1
                 O(i) == OccurrenceDate(a, interval, i)
      <3>2. m \in Int /\ (m = 1 \/ 1 < m) /\ O(m) <= start
        BY <2>1, <3>1
      <3> HIDE DEF m
      <3>3. O(m) \in Int /\ (1 < m => O(1) + interval <= O(m))
        <4>1. interval \in Int /\ 1 \in Int
          BY SMT
        <4>2. O(m) \in Int
          BY <3>2, <4>1, NextShipmentIsOneIntervalOn
        <4>3. 1 < m => O(1) + interval <= O(m)
          BY <3>2, <4>1, ShipmentsAscend
        <4> QED
          BY <4>2, <4>3
      <3>4. O(1) = first
        OBVIOUS
      <3> HIDE DEF O, first
      <3> QED
        BY <1>1, <1>3, <1>4, <1>6, <3>2, <3>3, <3>4, SMT
    <2>3. n = 1
      BY <2>1, <2>2, SMT
    <2> HIDE DEF first
    <2>4. n = IF first \in D THEN 2 ELSE 1
      BY <1>4, <1>6, <2>3
    <2> QED
      BY <1>3, <1>4, <2>4 DEF n, start, S, first
  <1> QED
    BY <1>5, <1>6

\* What fills in behind armed orders on these dates, and how many of the first dates of
\* the new rhythm they already have.
FillIn(anchor, interval, kept) ==
  {o \in {<<OccurrenceDate(anchor, interval, n), n>> : n \in 1..count} : o[1] \notin kept}

AlreadyThere(anchor, interval, kept) ==
  IF OccurrenceDate(anchor, interval, 1) \in kept THEN 1 ELSE 0

(* What fills in behind the armed orders is the new rhythm, from its first   *)
(* date or, where an armed order has that one, from its second.              *)
LEMMA FillsInBehind ==
  ASSUME NEW a \in Int, NEW interval \in Nat \ {0}, NEW K,
         \A x \in K : x \in Int /\ x <= OccurrenceDate(a, interval, 1)
  PROVE  LET fillIn == FillIn(a, interval, K)
             k == AlreadyThere(a, interval, K)
         IN  /\ fillIn \in SUBSET (Int \X Int) /\ IsFiniteSet(fillIn)
             /\ Cardinality(fillIn) = count - k
             /\ \A m \in 1..(count - k) :
                  DatesInOrder(fillIn)[m] = OccurrenceDate(a, interval, k + m)
  <1> DEFINE O(n) == OccurrenceDate(a, interval, n)
             generated == {<<O(n), n>> : n \in 1..count}
             fillIn == {o \in generated : o[1] \notin K}
             k == IF O(1) \in K THEN 1 ELSE 0
             h == count - k
             f == [m \in 1..h |-> <<O(k + m), k + m>>]
             S == {f[m] : m \in 1..h}
  <1>1. interval \in Int
    BY SMT
  <1>2. \A n \in Int : O(n) \in Int
    BY <1>1, NextShipmentIsOneIntervalOn
  <1>3. \A m, n \in Int : m < n => O(m) < O(n)
    <2> SUFFICES ASSUME NEW m \in Int, NEW n \in Int, m < n PROVE O(m) < O(n)
      OBVIOUS
    <2>1. O(m) + interval <= O(n) /\ O(m) \in Int /\ O(n) \in Int
      BY <1>2, ShipmentsAscend
    <2> HIDE DEF O
    <2> QED
      BY <2>1, SMT
  <1>4. \A x \in K : x \in Int /\ x <= O(1)
    OBVIOUS
  <1> HIDE DEF O
  <1>5. k \in {0, 1} /\ (k = 1 <=> O(1) \in K)
    OBVIOUS
  <1>6. \A n \in 1..count : O(n) \notin K <=> n > k
    <2> SUFFICES ASSUME NEW n \in 1..count PROVE O(n) \notin K <=> n > k
      OBVIOUS
    <2>1. n \in Int /\ (n = 1 \/ 1 < n)
      BY SMT
    <2>2. CASE n = 1
      <3> HIDE DEF k
      <3>1. k = 1 => ~(1 > k)
        OBVIOUS
      <3>2. k = 0 => 1 > k
        OBVIOUS
      <3> QED
        BY <1>5, <2>2, <3>1, <3>2
    <2>3. CASE 1 < n
      <3> HIDE DEF k
      <3>1. O(1) < O(n) /\ O(1) \in Int /\ O(n) \in Int
        BY <1>2, <1>3, <2>1, <2>3
      <3>2. O(n) \notin K
        <4> SUFFICES ASSUME O(n) \in K PROVE FALSE
          OBVIOUS
        <4>1. O(n) <= O(1)
          BY <1>4
        <4> QED
          BY <3>1, <4>1, SMT
      <3>3. n > k
        BY <1>5, <2>1, <2>3, SMT
      <3> QED
        BY <3>2, <3>3
    <2> QED
      BY <2>1, <2>2, <2>3
  <1> HIDE DEF k
  <1>7. /\ h \in Nat
        /\ \A m \in 1..h : k + m \in 1..count /\ k + m > k /\ k + m \in Int
        /\ \A n \in 1..count : n > k => n - k \in 1..h /\ k + (n - k) = n
    BY <1>5, SMT DEF count
  <1> HIDE DEF h
  <1>8. f \in [1..h -> Int \X Int]
    BY <1>2, <1>7
  <1>9. \A i, j \in 1..h : i < j => Sooner(f[i], f[j])
    <2> SUFFICES ASSUME NEW i \in 1..h, NEW j \in 1..h, i < j
                 PROVE  Sooner(f[i], f[j])
      OBVIOUS
    <2>1. k + i \in Int /\ k + j \in Int /\ k + i < k + j
      BY <1>5, <1>7, SMT
    <2>2. O(k + i) < O(k + j)
      BY <1>3, <2>1
    <2> QED
      BY <2>2 DEF Sooner
  <1>10. S = fillIn
    <2>1. ASSUME NEW m \in 1..h
          PROVE  f[m] \in fillIn
      <3>1. k + m \in 1..count /\ O(k + m) \notin K
        BY <1>6, <1>7
      <3>2. <<O(k + m), k + m>> \in generated
        BY <3>1
      <3> QED
        BY <3>1, <3>2
    <2>2. ASSUME NEW n \in 1..count, O(n) \notin K
          PROVE  <<O(n), n>> \in S
      <3>1. n - k \in 1..h /\ k + (n - k) = n
        BY <1>6, <1>7, <2>2
      <3>2. f[n - k] = <<O(n), n>>
        BY <3>1
      <3> HIDE DEF f
      <3> QED
        BY <3>1, <3>2
    <2>3. S \subseteq fillIn
      <3> HIDE DEF f, fillIn
      <3> QED BY <2>1
    <2>4. fillIn \subseteq S
      <3> HIDE DEF f, S
      <3> QED BY <2>2
    <2> QED
      BY <2>3, <2>4
  <1>11. /\ S \in SUBSET (Int \X Int) /\ IsFiniteSet(S) /\ Cardinality(S) = h
         /\ \A m \in 1..h : DatesInOrder(S)[m] = f[m][1]
    <2> HIDE DEF f
    <2> QED BY <1>7, <1>8, <1>9, ListedInOrder
  <1>12. \A m \in 1..h : f[m][1] = O(k + m)
    OBVIOUS
  <1> HIDE DEF S, f, fillIn
  <1>13. /\ fillIn \in SUBSET (Int \X Int) /\ IsFiniteSet(fillIn) /\ Cardinality(fillIn) = h
         /\ \A m \in 1..h : DatesInOrder(fillIn)[m] = O(k + m)
    BY <1>10, <1>11, <1>12
  <1> QED
    BY <1>13 DEF fillIn, h, k, O, FillIn, AlreadyThere

(* Two lists of dates after each other, cut off at what a column shows.      *)
LEMMA OneListThenTheOther ==
  ASSUME NEW s \in Seq(Int), NEW t \in Seq(Int), Len(s) + Len(t) >= count, NEW n \in 1..count
  PROVE  SubSeq(s \o t, 1, count)[n] = IF n <= Len(s) THEN s[n] ELSE t[n - Len(s)]
  <1> DEFINE u == s \o t
  <1>1. /\ u \in Seq(Int) /\ Len(u) = Len(s) + Len(t)
        /\ \A i \in 1..(Len(s) + Len(t)) :
             u[i] = IF i <= Len(s) THEN s[i] ELSE t[i - Len(s)]
    BY ConcatProperties
  <1>2. Len(s) \in Nat /\ Len(t) \in Nat
    BY LenProperties
  <1> HIDE DEF u
  <1>3. 1 \in 1..(Len(u) + 1) /\ count \in (1 - 1)..Len(u) /\ n \in 1..(count - 1 + 1)
    BY <1>1, <1>2, SMT DEF count
  <1>4. SubSeq(u, 1, count)[n] = u[1 + n - 1]
    BY <1>1, <1>3, SubSeqProperties
  <1>5. 1 + n - 1 = n /\ n \in 1..(Len(s) + Len(t))
    BY <1>2, SMT DEF count
  <1> QED
    BY <1>1, <1>4, <1>5 DEF u

(* The dates the sheet shows are the first the schedule then has.            *)
LEMMA ShownIsGiven ==
  ASSUME db \in Rows, Agrees(db), db.status = "active", today \in Int,
         NEW interval \in 7..180,
         today < OccurrenceDate(previewAnchor, interval, 1),
         \A o \in OrdersWith(db, {"pending"}) : o[1] <= OccurrenceDate(previewAnchor, interval, 1)
  PROVE  LET shown == previewDates(previewAnchor, interval, OrdersWith(db, {"pending"}))
             given == DatesInOrder(OrdersWith(CadenceChanged(db, interval), Unsettled))
         IN  \A n \in 1..Min({count, Len(given)}) : shown[n] = given[n]
  <1> DEFINE anchor == previewAnchor
             O(n) == OccurrenceDate(anchor, interval, n)
             A == OrdersWith(db, {"pending"})
             a == Cardinality(A)
             kept == {o[1] : o \in A}
             fillIn == FillIn(anchor, interval, kept)
             k == AlreadyThere(anchor, interval, kept)
             shown == previewDates(anchor, interval, A)
             start == StartOfRun(CadenceChangedRows(db, interval), today)
             planned(m) == PlannedDate(anchor, interval, start, m)
             l == Len(db.occ)
             f == [m \in 1..Horizon |-> <<planned(m), l + m>>]
             B == {f[m] : m \in 1..Horizon}
             given == DatesInOrder(OrdersWith(CadenceChanged(db, interval), Unsettled))
  <1>1. interval \in Nat \ {0} /\ anchor \in Int /\ anchor = NewAnchor(db)
    <2>1. LastPlacedDate(db) \in SUBSET Int /\ IsFiniteSet(LastPlacedDate(db))
      BY LastPlacedDates
    <2>2. LastPlacedDate(db) # {} => Max(LastPlacedDate(db)) \in Int
      BY <2>1, MaxOfDates
    <2>3. interval \in Nat \ {0}
      BY SMT
    <2> QED
      BY <2>2, <2>3 DEF previewAnchor, NewAnchor
  <1>2. A \in SUBSET (Int \X Int) /\ IsFiniteSet(A) /\ a \in Nat
    <2>1. A \in SUBSET (Int \X Int) /\ IsFiniteSet(A)
      BY OrdersWithAreOrders
    <2> QED
      BY <2>1, FS_CardinalityType
  <1>3. today < O(1) /\ \A o \in A : o[1] <= O(1) /\ o[1] \in Int
    BY <1>2
  <1>4. /\ l \in Nat
        /\ OrdersWith(CadenceChanged(db, interval), Unsettled)
             = A \union {<<planned(m), l + m>> : m \in 1..Horizon}
        /\ start = Max({today} \union DatesOf(db, {"pending"}, today))
    <2> DEFINE E(m) == PlannedDate(NewAnchor(db), interval, start, m)
    <2>1. /\ l \in Nat
          /\ OrdersWith(CadenceChanged(db, interval), Unsettled)
               = A \union {<<E(m), l + m>> : m \in 1..Horizon}
          /\ DatesOf(CadenceChangedRows(db, interval), Unsettled, today)
               = DatesOf(db, {"pending"}, today)
      BY CadenceChangedGives
    <2>2. \A m : E(m) = planned(m)
      BY <1>1
    <2>3. start = Max({today} \union DatesOf(db, {"pending"}, today))
      BY <2>1 DEF StartOfRun
    <2> HIDE DEF A, E, planned, start, l
    <2> QED
      BY <2>1, <2>2, <2>3
  <1> HIDE DEF anchor, start
  <1>5. /\ start \in Int /\ start <= O(1)
        /\ NextSequence(anchor, interval, start) = 1 + k
    <2> DEFINE D == DatesOf(db, {"pending"}, today)
    <2>1. D \in SUBSET Int /\ IsFiniteSet(D)
      BY DatesOfAreDates
    <2>2. D = {x \in kept : x > today}
      <3>1. kept = {db.occ[i].date : i \in WithStatus(db, {"pending"})}
        <4>1. ASSUME NEW i \in WithStatus(db, {"pending"})
              PROVE  db.occ[i].date \in kept
          <5>1. <<db.occ[i].date, i>> \in A /\ <<db.occ[i].date, i>>[1] = db.occ[i].date
            BY DEF OrdersWith
          <5> HIDE DEF A
          <5> QED
            BY <5>1
        <4>2. ASSUME NEW o \in A
              PROVE  \E i \in WithStatus(db, {"pending"}) : o[1] = db.occ[i].date
          BY DEF OrdersWith
        <4> HIDE DEF A
        <4> QED
          BY <4>1, <4>2
      <3> HIDE DEF kept
      <3> QED
        BY <3>1 DEF DatesOf
    <2>3. \A x \in D : today < x /\ x <= O(1)
      <3> HIDE DEF A, O
      <3>1. \A x \in kept : x <= O(1) /\ x \in Int
        BY <1>3
      <3>2. \A x \in D : x \in kept /\ x > today /\ x \in Int
        BY <2>1, <2>2
      <3> HIDE DEF D, kept
      <3>3. \A x \in Int : x > today => today < x
        BY SMT
      <3> QED
        BY <3>1, <3>2, <3>3
    <2>4. O(1) > today
      <3>1. O(1) \in Int
        BY <1>1, NextShipmentIsOneIntervalOn
      <3> HIDE DEF O
      <3> QED BY <1>3, <3>1, SMT
    <2>5. O(1) \in D <=> O(1) \in kept
      <3> HIDE DEF D, O, kept
      <3> QED BY <2>2, <2>4
    <2> HIDE DEF D
    <2>6. /\ start \in Int /\ start <= O(1)
          /\ NextSequence(anchor, interval, start) = IF O(1) \in D THEN 2 ELSE 1
      BY <1>1, <1>3, <1>4, <2>1, <2>3, StartsWhereTheSheetCounts DEF D
    <2>7. k = IF O(1) \in kept THEN 1 ELSE 0
      BY DEF AlreadyThere
    <2> HIDE DEF O, kept, k
    <2> QED
      BY <2>5, <2>6, <2>7
  <1>6. \A m \in 1..Horizon :
          /\ planned(m) \in Int /\ planned(m) > start /\ planned(m) = O(k + m)
    <2> SUFFICES ASSUME NEW m \in 1..Horizon
                 PROVE  planned(m) \in Int /\ planned(m) > start /\ planned(m) = O(k + m)
      OBVIOUS
    <2>1. m \in Nat \ {0}
      BY ScheduleAssumption, SMT
    <2>2. planned(m) \in Int /\ planned(m) > start
      BY <1>1, <1>5, <2>1, PlannedDatesAscend
    <2>3. (1 + k) + m - 1 = k + m
      <3>1. k \in {0, 1}
        BY DEF AlreadyThere
      <3> HIDE DEF k
      <3> QED BY <2>1, <3>1, SMT
    <2> HIDE DEF k
    <2>4. planned(m) = O(k + m)
      BY <1>5, <2>3 DEF PlannedDate
    <2> QED
      BY <2>2, <2>4
  <1>7. \A i, j \in 1..Horizon : i < j => planned(i) < planned(j)
    <2>1. \A i \in 1..Horizon : i \in Nat \ {0}
      BY ScheduleAssumption, SMT
    <2> QED
      BY <1>1, <1>5, <2>1, PlannedDatesAscend
  <1>8. /\ B \in SUBSET (Int \X Int) /\ IsFiniteSet(B) /\ Cardinality(B) = Horizon
        /\ \A n \in 1..Horizon : DatesInOrder(B)[n] = planned(n)
    <2> HIDE DEF planned, l
    <2>1. \A m \in 1..Horizon : l + m \in Int
      BY <1>4, ScheduleAssumption, SMT
    <2>2. f \in [1..Horizon -> Int \X Int]
      BY <1>6, <2>1
    <2>3. \A i, j \in 1..Horizon : i < j => Sooner(f[i], f[j])
      BY <1>7 DEF Sooner
    <2>4. \A n \in 1..Horizon : f[n][1] = planned(n)
      OBVIOUS
    <2>5. Horizon \in Nat
      BY ScheduleAssumption
    <2> HIDE DEF f
    <2> QED
      BY <2>2, <2>3, <2>4, <2>5, ListedInOrder
  <1>9. OrdersWith(CadenceChanged(db, interval), Unsettled) = A \union B
    <2> HIDE DEF A, planned, l
    <2>1. B = {<<planned(m), l + m>> : m \in 1..Horizon}
      OBVIOUS
    <2> QED
      BY <1>4, <2>1
  <1>10. \A o \in A, p \in B : Sooner(o, p)
    <2> SUFFICES ASSUME NEW o \in A, NEW m \in 1..Horizon
                 PROVE  Sooner(o, f[m])
      OBVIOUS
    <2>1. o[1] <= start
      <3> DEFINE r == CadenceChangedRows(db, interval)
      <3>1. PICK i \in WithStatus(db, {"pending"}) : o[1] = db.occ[i].date
        BY DEF OrdersWith
      <3>2. o[1] \in Int /\ (o[1] <= today \/ o[1] > today)
        <4>1. o[1] \in Int
          BY <1>2
        <4> QED
          BY <4>1, SMT
      <3> DEFINE D == DatesOf(db, {"pending"}, today)
      <3>3. o[1] > today => o[1] \in D
        BY <3>1 DEF DatesOf
      <3>4. D \in SUBSET Int /\ IsFiniteSet(D)
        BY DatesOfAreDates
      <3> HIDE DEF D, A
      <3>5. {today} \union D \in SUBSET Int /\ IsFiniteSet({today} \union D)
        <4>1. {today} \union D = D \union {today}
          OBVIOUS
        <4> QED
          BY <3>4, <4>1, FS_AddElement
      <3>6. start >= today /\ (o[1] \in D => start >= o[1])
        BY <1>4, <3>5, MaxOfDates DEF D
      <3> QED
        BY <1>5, <3>2, <3>3, <3>6, SMT
    <2>2. f[m][1] = planned(m) /\ planned(m) > start /\ planned(m) \in Int
      BY <1>6
    <2>3. o[1] \in Int
      BY <1>2
    <2> HIDE DEF f, planned, A
    <2>4. o[1] < planned(m)
      BY <1>5, <2>1, <2>2, <2>3, SMT
    <2> QED
      BY <2>2, <2>4 DEF Sooner
  <1> HIDE DEF f, B, l
  <1>11. /\ Cardinality(A \union B) = a + Horizon
         /\ \A n \in 1..a : DatesInOrder(A \union B)[n] = DatesInOrder(A)[n]
         /\ \A n \in 1..Horizon : DatesInOrder(A \union B)[a + n] = planned(n)
    <2> HIDE DEF A, planned
    <2> QED
      BY <1>2, <1>8, <1>10, FirstTheOneThenTheOther
  <1>12. Len(given) = a + Horizon
    <2> HIDE DEF A, given, a, planned
    <2>1. A \union B \in SUBSET (Int \X Int) /\ IsFiniteSet(A \union B)
      BY <1>2, <1>8, FS_Union
    <2> QED
      BY <1>9, <1>11, <2>1, SortedIsASequence DEF given
  <1>13. /\ fillIn \in SUBSET (Int \X Int) /\ IsFiniteSet(fillIn)
         /\ Cardinality(fillIn) = count - k
         /\ \A m \in 1..(count - k) : DatesInOrder(fillIn)[m] = O(k + m)
    <2>1. \A x \in kept : x \in Int /\ x <= OccurrenceDate(anchor, interval, 1)
      BY <1>3
    <2> HIDE DEF kept
    <2> QED
      BY <1>1, <2>1, FillsInBehind
  <1>14. k \in {0, 1} /\ (k = 1 => a >= 1)
    <2>1. O(1) \in kept => A # {}
      OBVIOUS
    <2>2. A # {} => a # 0
      <3> HIDE DEF A
      <3> QED BY <1>2, FS_EmptySet
    <2>3. k \in {0, 1} /\ (k = 1 => O(1) \in kept)
      BY DEF AlreadyThere
    <2> HIDE DEF a, A, kept, k
    <2> QED
      BY <1>2, <2>1, <2>2, <2>3, SMT
  <1>15. /\ shown = SubSeq(DatesInOrder(A) \o DatesInOrder(fillIn), 1, count)
         /\ DatesInOrder(A) \in Seq(Int) /\ Len(DatesInOrder(A)) = a
         /\ DatesInOrder(fillIn) \in Seq(Int) /\ Len(DatesInOrder(fillIn)) = count - k
    <2>1. shown = SubSeq(DatesInOrder(A) \o DatesInOrder(fillIn), 1, count)
      BY DEF previewDates, FillIn
    <2> HIDE DEF A, fillIn, shown, k
    <2>2. DatesInOrder(A) \in Seq(Int) /\ Len(DatesInOrder(A)) = a
      BY <1>2, SortedIsASequence
    <2>3. DatesInOrder(fillIn) \in Seq(Int) /\ Len(DatesInOrder(fillIn)) = count - k
      BY <1>13, SortedIsASequence
    <2> QED
      BY <2>1, <2>2, <2>3
  <1>16. Min({count, a + Horizon}) <= count /\ Min({count, a + Horizon}) <= a + Horizon
         /\ Min({count, a + Horizon}) \in Int
    <2> DEFINE S == {count, a + Horizon}
    <2>1. a + Horizon \in Int /\ count \in Int
      BY <1>2, ScheduleAssumption, SMT DEF count
    <2>2. S \in SUBSET Int /\ IsFiniteSet(S) /\ S # {} /\ count \in S /\ a + Horizon \in S
      <3> HIDE DEF a
      <3>1. S = {count} \union {a + Horizon}
        OBVIOUS
      <3>2. IsFiniteSet({count} \union {a + Horizon})
        BY FS_Singleton, FS_AddElement
      <3> QED
        BY <2>1, <3>1, <3>2
    <2> HIDE DEF S
    <2>3. Min(S) \in S /\ \A x \in S : Min(S) =< x
      BY <2>2, MinOfDates
    <2> QED
      BY <2>2, <2>3 DEF S
  <1> HIDE DEF A, a, k, shown, fillIn, given, planned, kept, O
  <1>17. ASSUME NEW n \in 1..Min({count, Len(given)})
         PROVE  shown[n] = given[n]
    <2> DEFINE least == Min({count, a + Horizon})
    <2>1. n \in 1..least /\ least <= count /\ least <= a + Horizon /\ least \in Int
      BY <1>12, <1>16
    <2> HIDE DEF least
    <2>2. /\ n \in 1..count /\ n \in Int
          /\ n \in 1..a \/ (n - a \in 1..Horizon /\ n - a \in 1..(count - k)
                            /\ a + (n - a) = n /\ ~(n <= a))
          /\ n \in 1..a => n <= a
          /\ a + (count - k) >= count
      <3>1. Horizon \in Nat /\ count = 3
        BY ScheduleAssumption DEF count
      <3>2. n \in Int /\ 1 <= n /\ n <= 3 /\ n <= a + Horizon
        BY <1>2, <2>1, <3>1, SMT
      <3>3. k \in {0, 1} /\ 3 - k <= 3 /\ n - a <= 3 - k /\ a + (3 - k) >= 3
        BY <1>2, <1>14, <3>2, SMT
      <3>4. n <= a \/ 1 <= n - a
        BY <1>2, <3>2, SMT
      <3>5. 3 - k \in Int
        BY <3>3, SMT
      <3>6. n \in 1..3 /\ (n <= a => n \in 1..a) /\ (n \in 1..a => n <= a)
        BY <1>2, <3>2, SMT
      <3>7. ~(n <= a) => n - a \in 1..Horizon /\ n - a \in 1..(3 - k)
        BY <1>2, <3>1, <3>2, <3>3, <3>4, <3>5, SMT
      <3>8. a + (n - a) = n
        BY <1>2, <3>2, SMT
      <3> QED
        BY <3>1, <3>2, <3>3, <3>6, <3>7, <3>8
    <2>3. shown[n] = IF n <= a THEN DatesInOrder(A)[n] ELSE DatesInOrder(fillIn)[n - a]
      <3> DEFINE s == DatesInOrder(A)
                 t == DatesInOrder(fillIn)
      <3>1. s \in Seq(Int) /\ t \in Seq(Int) /\ Len(s) = a /\ Len(t) = count - k
        BY <1>15
      <3>2. Len(s) + Len(t) >= count /\ n \in 1..count
        BY <2>2, <3>1
      <3>3. shown = SubSeq(s \o t, 1, count)
        BY <1>15
      <3> HIDE DEF s, t
      <3>4. SubSeq(s \o t, 1, count)[n] = IF n <= Len(s) THEN s[n] ELSE t[n - Len(s)]
        BY <3>1, <3>2, OneListThenTheOther
      <3> QED
        BY <3>1, <3>3, <3>4 DEF s, t
    <2>4. given[n] = DatesInOrder(A \union B)[n]
      BY <1>9 DEF given
    <2>5. CASE n \in 1..a
      BY <1>11, <2>2, <2>3, <2>4, <2>5
    <2>6. CASE n \notin 1..a
      <3> DEFINE m == n - a
      <3>1. m \in 1..Horizon /\ m \in 1..(count - k) /\ a + m = n /\ ~(n <= a)
        BY <2>2, <2>6
      <3> HIDE DEF m
      <3>2. given[n] = planned(m)
        BY <1>11, <2>4, <3>1
      <3>3. DatesInOrder(fillIn)[m] = O(k + m)
        BY <1>13, <3>1
      <3>4. planned(m) = O(k + m)
        BY <1>6, <3>1
      <3> QED
        BY <2>3, <3>1, <3>2, <3>3, <3>4 DEF m
    <2> QED
      BY <2>5, <2>6
  <1> QED
    BY <1>17 DEF shown, given, A, anchor

(* What the cadence sheet shows is what saving it gives, wherever the first  *)
(* date of the new rhythm is still ahead and no armed order lies past it:    *)
(* for any interval, horizon and orders (previewDates; ChangeCadence).       *)
THEOREM SheetShowsWhatIsSaved == Spec => PreviewIsKept
  <1>1. IInv /\ [Next]_vars =>
          [\A interval \in Intervals :
             LET armed == OrdersWith(db, {"pending"})
                 first == OccurrenceDate(previewAnchor, interval, 1)
                 shown == previewDates(previewAnchor, interval, armed)
                 given == DatesInOrder(OrdersWith(db', Unsettled))
             IN  /\ db.status = "active" /\ ChangeCadence(interval)
                 /\ today < first /\ \A o \in armed : o[1] <= first
                 => \A n \in 1..Min({count, Len(given)}) : shown[n] = given[n]]_vars
    <2> SUFFICES ASSUME IInv, NEW interval \in Intervals,
                        db.status = "active", ChangeCadence(interval),
                        today < OccurrenceDate(previewAnchor, interval, 1),
                        \A o \in OrdersWith(db, {"pending"}) :
                          o[1] <= OccurrenceDate(previewAnchor, interval, 1)
                 PROVE  LET shown == previewDates(previewAnchor, interval,
                                                  OrdersWith(db, {"pending"}))
                            given == DatesInOrder(OrdersWith(db', Unsettled))
                        IN  \A n \in 1..Min({count, Len(given)}) : shown[n] = given[n]
      OBVIOUS
    <2>1. today \in Int /\ db \in Rows /\ Agrees(db)
      BY IInvOfRows
    <2>2. interval \in 7..180
      BY ScheduleAssumption
    <2>3. db' = CadenceChanged(db, interval)
      BY DEF ChangeCadence, Commit
    <2> QED
      BY <2>1, <2>2, <2>3, ShownIsGiven
  <1> QED
    BY <1>1, Invariance, PTL DEF Spec, PreviewIsKept
=============================================================================

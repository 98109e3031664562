------------------------------ MODULE Schedule ------------------------------
(***************************************************************************)
(* One schedule and the transactions that change it.                       *)
(*                                                                         *)
(* Every write the service makes to a schedule happens inside one InTx,    *)
(* behind SELECT ... FOR UPDATE on its row (internal/schedule/service.go,  *)
(* transition; internal/materialize, RunAll), so a transaction is one      *)
(* step here: a function from the rows it locked to the rows it commits,   *)
(* composed from the store's statements in the order the code issues them. *)
(* A rejected request, and a retry whose key is already recorded, commits  *)
(* nothing, which is a stuttering step.                                    *)
(***************************************************************************)
EXTENDS Cadence, Sequences, FiniteSets, FiniteSetsExt

CONSTANTS
  Anchors,        \* anchor dates POST /schedules may carry
  Intervals,      \* intervals requested, inside ValidateInterval's 7..180
  DeferDays,      \* deferrals requested, inside ValidateDeferDays's 1..180
  PauseDays,      \* how far ahead a customer may ask a pause to end
  Keys,           \* idempotency keys the portal mints
  Horizon,        \* MATERIALIZE_HORIZON
  RunDateSkew,    \* the nightly job's UTC date, less the customer's own date
  FirstDay,       \* the customer's date when the schedule is created
  LastDay,        \* bound: the last date a run reaches
  MaxOccurrences, \* bound: occurrences one schedule accumulates
  NoDate          \* SQL NULL

ASSUME ScheduleAssumption ==
  /\ Anchors \subseteq Int
  /\ Intervals \subseteq 7..180
  /\ DeferDays \subseteq 1..180
  /\ PauseDays \subseteq Nat \ {0}
  /\ Horizon \in Nat \ {0}
  /\ RunDateSkew \subseteq -1..1
  /\ FirstDay \in Int /\ LastDay \in Int
  /\ MaxOccurrences \in Nat
  /\ NoDate \notin Int

VARIABLES
  today, \* the date in the schedule's own timezone
  db     \* the schedule's row, its occurrence rows and its event log

vars == <<today, db>>

ScheduleStatus == {"active", "paused", "canceled", "failed"}
Unsettled == {"planned", "pending"}
OccurrenceStatus == Unsettled \union {"placed", "skipped", "failed", "canceled"}

\* An occurrence's sequence number is its place in db.occ: numbers are handed out
\* from MaxSequenceNo + 1 under the lock, and no row is ever deleted.
Occurrences == Seq([date : Int, status : OccurrenceStatus])

\* The log is held as what a reader rebuilds by replaying it (spec section 8's
\* read models), with the retry keys its rows carry.
Log == [status : ScheduleStatus, interval : 7..180, anchor : Int,
        occ : Occurrences, deferred : SUBSET Nat,
        keys : SUBSET ({"occurrence.skipped", "occurrence.deferred"} \X Keys)]

Rows == [status : ScheduleStatus, interval : 7..180, anchor : Int,
         nextRun : Int \union {NoDate}, pausedUntil : Int \union {NoDate},
         occ : Occurrences, log : Log]

-----------------------------------------------------------------------------
(* The store: internal/store/store.go, one operator per statement.          *)

WithStatus(d, statuses) == {i \in DOMAIN d.occ : d.occ[i].status \in statuses}

\* Mutant: the status is spelled as the schema's CHECK does not.
CancelledRows(occ, statuses) ==
  [i \in DOMAIN occ |->
     IF occ[i].status \in statuses
     THEN [occ[i] EXCEPT !.status = "cancelled"] ELSE occ[i]]

\* Mutant: the status filter is lost.
CancelEveryRow(occ, statuses) ==
  [i \in DOMAIN occ |-> [occ[i] EXCEPT !.status = "canceled"]]

\* Mutant: pausing leaves the armed order standing.
CancelAllButPending(occ, statuses) ==
  [i \in DOMAIN occ |->
     IF occ[i].status \in statuses \ {"pending"}
     THEN [occ[i] EXCEPT !.status = "canceled"] ELSE occ[i]]

CanceledRows(occ, statuses) ==
  [i \in DOMAIN occ |->
     IF occ[i].status \in statuses
     THEN [occ[i] EXCEPT !.status = "canceled"] ELSE occ[i]]

CancelOccurrences(d, statuses) ==
  [d EXCEPT !.occ = CanceledRows(@, statuses)]

UpdateScheduleStatus(d, status, until) ==
  [d EXCEPT !.status = status, !.pausedUntil = until]

UpdateScheduleCadence(d, interval, anchor) ==
  [d EXCEPT !.interval = interval, !.anchor = anchor]

UpdateScheduleNextRun(d, date) == [d EXCEPT !.nextRun = date]

UpdateOccurrenceStatus(d, i, status) == [d EXCEPT !.occ[i].status = status]

UpdateOccurrenceDate(d, i, date) == [d EXCEPT !.occ[i].date = date]

EventExistsWithKey(d, type, key) == <<type, key>> \in d.log.keys

\* What one event says happened, to a reader who knows only the events.
Replay(log, e) ==
  CASE e.type = "schedule.paused" ->
         [log EXCEPT !.status = "paused", !.occ = CanceledRows(@, Unsettled)]
    [] e.type = "schedule.resumed" ->
         [log EXCEPT !.status = "active", !.interval = e.interval,
                     !.anchor = e.anchor]
    [] e.type = "schedule.cadence_changed" ->
         [log EXCEPT !.interval = e.interval, !.anchor = e.anchor,
                     !.occ = CanceledRows(@, {"planned"})]
    [] e.type = "schedule.canceled" ->
         [log EXCEPT !.status = "canceled", !.occ = CanceledRows(@, Unsettled)]
    [] e.type = "occurrence.skipped" ->
         [log EXCEPT !.occ[e.seq].status = "skipped",
                     !.keys = @ \union {<<e.type, e.key>>}]
    [] e.type = "occurrence.deferred" ->
         [log EXCEPT !.occ[e.seq].date = e.to, !.deferred = @ \union {e.seq},
                     !.keys = @ \union {<<e.type, e.key>>}]
    [] e.type = "occurrence.armed" ->
         [log EXCEPT !.occ[e.seq].status = "pending"]
    [] e.type = "occurrence.materialized" ->
         [log EXCEPT !.occ = @ \o e.rows]

AppendEvent(d, e) == [d EXCEPT !.log = Replay(@, e)]

\* Mutant: orders whose date has passed still fill the horizon.
CountPlanned(d, after) == Cardinality(WithStatus(d, {"planned"}))

CountFuturePlanned(d, after) ==
  Cardinality({i \in WithStatus(d, {"planned"}) : d.occ[i].date > after})

\* ORDER BY scheduled_for, sequence_no LIMIT 1.
IsSoonest(d, statuses, i) ==
  /\ i \in WithStatus(d, statuses)
  /\ \A j \in WithStatus(d, statuses) :
       d.occ[i].date < d.occ[j].date \/ (d.occ[i].date = d.occ[j].date /\ i <= j)

\* ORDER BY scheduled_for DESC over placed orders: the date ChangeCadence anchors to.
LastPlacedDate(d) == {d.occ[i].date : i \in WithStatus(d, {"placed"})}

-----------------------------------------------------------------------------
(* The materializer: internal/materialize/materialize.go.                   *)

DatesOf(d, statuses, after) ==
  {d.occ[i].date : i \in {j \in WithStatus(d, statuses) : d.occ[j].date > after}}

\* Mutant: the last row read wins, not the earliest.
RefreshToLast(d, runDate) ==
  LET ahead == DatesOf(d, {"planned"}, runDate)
  IN  UpdateScheduleNextRun(d, IF ahead = {} THEN NoDate ELSE Max(ahead))

RefreshNextRunDate(d, runDate) ==
  LET ahead == DatesOf(d, {"planned"}, runDate)
  IN  UpdateScheduleNextRun(d, IF ahead = {} THEN NoDate ELSE Min(ahead))

\* Mutant: only planned dates are taken as spoken for, not the armed order's.
StartAfterPlanned(d, runDate) == Max({runDate} \union DatesOf(d, {"planned"}, runDate))

\* Continue from LatestScheduledDate, the furthest date already spoken for, or from
\* the run's own date when that is later or there is none.
StartOfRun(d, runDate) == Max({runDate} \union DatesOf(d, Unsettled, runDate))

\* Run, on an active schedule: plan what the horizon is missing, walking the cadence
\* (module MaterializeLoop).  A full horizon plans nothing and still refreshes
\* next_run_date.
Run(d, runDate) ==
  LET missing == Horizon - CountFuturePlanned(d, runDate)
      start   == StartOfRun(d, runDate)
      planned == [i \in 1..missing |->
                    [date   |-> PlannedDate(d.anchor, d.interval, start, i),
                     status |-> "planned"]]
      created == AppendEvent([d EXCEPT !.occ = @ \o planned],
                             [type |-> "occurrence.materialized", rows |-> planned])
  IN  RefreshNextRunDate(created, runDate)

-----------------------------------------------------------------------------
(* The service: internal/schedule/service.go.  Each operator is the apply   *)
(* closure of one transition.                                               *)

\* The statuses each action accepts (internal/domain/transitions.go).
scheduleTransitions ==
  [pause |-> {"active"}, resume |-> {"paused"}, skip_next |-> {"active"},
   defer |-> {"active"}, change_cadence |-> {"active", "paused"},
   cancel |-> {"active", "paused", "failed"}, arm |-> {"active"}]

ValidTransition(action) == db.status \in scheduleTransitions[action]

Paused(d, until) ==
  LET suspended == UpdateScheduleStatus(d, "paused", until)
      cleared   == CancelOccurrences(suspended, Unsettled)
  IN  AppendEvent(UpdateScheduleNextRun(cleared, NoDate),
                  [type |-> "schedule.paused"])

\* Mutant: the schedule resumes on the rhythm it left.
ResumedOnOldAnchor(d) ==
  LET active == UpdateScheduleStatus(d, "active", NoDate)
      logged == AppendEvent(active,
                  [type |-> "schedule.resumed", interval |-> d.interval,
                   anchor |-> d.anchor])
  IN  Run(logged, today)

\* Mutant: the event is written from the row as it was read.
ResumedLoggingOldAnchor(d) ==
  LET active   == UpdateScheduleStatus(d, "active", NoDate)
      anchored == UpdateScheduleCadence(active, d.interval, today)
      logged   == AppendEvent(anchored,
                    [type |-> "schedule.resumed", interval |-> d.interval,
                     anchor |-> d.anchor])
  IN  Run(logged, today)

Resumed(d) ==
  LET active   == UpdateScheduleStatus(d, "active", NoDate)
      anchored == UpdateScheduleCadence(active, d.interval, today)
      logged   == AppendEvent(anchored,
                    [type |-> "schedule.resumed", interval |-> d.interval,
                     anchor |-> today])
  IN  Run(logged, today)

\* Mutant: the horizon is not topped up after a skip, nor next_run_date refreshed.
SkippedOnly(d, i, key) ==
  AppendEvent(UpdateOccurrenceStatus(d, i, "skipped"),
              [type |-> "occurrence.skipped", seq |-> i, key |-> key])

Skipped(d, i, key) ==
  LET logged == AppendEvent(UpdateOccurrenceStatus(d, i, "skipped"),
                  [type |-> "occurrence.skipped", seq |-> i, key |-> key])
  IN  Run(logged, today)

\* Mutant: an armed order that moves goes back to planned, to be armed again.
DeferredUnarmed(d, i, days, key) ==
  LET to     == d.occ[i].date + days
      moved  == UpdateOccurrenceStatus(UpdateOccurrenceDate(d, i, to), i, "planned")
      logged == AppendEvent(moved,
                  [type |-> "occurrence.deferred", seq |-> i, to |-> to, key |-> key])
  IN  RefreshNextRunDate(logged, today)

Deferred(d, i, days, key) ==
  LET to     == d.occ[i].date + days
      logged == AppendEvent(UpdateOccurrenceDate(d, i, to),
                  [type |-> "occurrence.deferred", seq |-> i, to |-> to, key |-> key])
  IN  RefreshNextRunDate(logged, today)

Armed(d, i) ==
  AppendEvent(UpdateOccurrenceStatus(d, i, "pending"),
              [type |-> "occurrence.armed", seq |-> i])

\* Mutant: the orders planned at the old interval are not rewritten.
CadenceChangedKeepingPlan(d, interval) ==
  LET anchor   == IF LastPlacedDate(d) = {} THEN today ELSE Max(LastPlacedDate(d))
      anchored == UpdateScheduleCadence(d, interval, anchor)
  IN  IF d.status = "active" THEN Run(anchored, today)
      ELSE UpdateScheduleNextRun(anchored, NoDate)

\* Mutant: the new cadence is saved and the old plan canceled, but nothing planned.
CadenceChangedUnplanned(d, interval) ==
  LET anchor   == IF LastPlacedDate(d) = {} THEN today ELSE Max(LastPlacedDate(d))
      anchored == UpdateScheduleCadence(d, interval, anchor)
      logged   == AppendEvent(CancelOccurrences(anchored, {"planned"}),
                    [type |-> "schedule.cadence_changed", interval |-> interval,
                     anchor |-> anchor])
  IN  UpdateScheduleNextRun(logged, NoDate)

CadenceChanged(d, interval) ==
  LET anchor   == IF LastPlacedDate(d) = {} THEN today ELSE Max(LastPlacedDate(d))
      anchored == UpdateScheduleCadence(d, interval, anchor)
      logged   == AppendEvent(CancelOccurrences(anchored, {"planned"}),
                    [type |-> "schedule.cadence_changed", interval |-> interval,
                     anchor |-> anchor])
  IN  IF d.status = "active" THEN Run(logged, today)
      ELSE UpdateScheduleNextRun(logged, NoDate)

Canceled(d) ==
  LET ended   == UpdateScheduleStatus(d, "canceled", NoDate)
      cleared == CancelOccurrences(ended, Unsettled)
  IN  AppendEvent(UpdateScheduleNextRun(cleared, NoDate),
                  [type |-> "schedule.canceled"])

-----------------------------------------------------------------------------
\* POST /schedules commits the row and its schedule.created event together; nothing
\* is planned and next_run_date is NULL until the first materializer run.
Created(interval, anchor) ==
  [status |-> "active", interval |-> interval, anchor |-> anchor,
   nextRun |-> NoDate, pausedUntil |-> NoDate, occ |-> <<>>,
   log |-> [status |-> "active", interval |-> interval, anchor |-> anchor,
            occ |-> <<>>, deferred |-> {}, keys |-> {}]]

Init ==
  /\ today = FirstDay
  /\ \E interval \in Intervals, anchor \in Anchors : db = Created(interval, anchor)

Commit(d) == db' = d /\ Len(d.occ) <= MaxOccurrences /\ UNCHANGED today

Pause(until) ==
  /\ ValidTransition("pause")
  /\ until # NoDate => until > today
  /\ Commit(Paused(db, until))

Resume ==
  /\ ValidTransition("resume")
  /\ Commit(Resumed(db))

\* Mutant: a retry is not recognised.
SkipNextUnkeyed(key) ==
  /\ ValidTransition("skip_next")
  /\ \E i \in DOMAIN db.occ :
       IsSoonest(db, Unsettled, i) /\ Commit(Skipped(db, i, key))

SkipNext(key) ==
  /\ ValidTransition("skip_next")
  /\ ~EventExistsWithKey(db, "occurrence.skipped", key)
  /\ \E i \in DOMAIN db.occ :
       IsSoonest(db, Unsettled, i) /\ Commit(Skipped(db, i, key))

Defer(days, key) ==
  /\ ValidTransition("defer")
  /\ ~EventExistsWithKey(db, "occurrence.deferred", key)
  /\ \E i \in DOMAIN db.occ :
       IsSoonest(db, Unsettled, i) /\ Commit(Deferred(db, i, days, key))

ChangeCadence(interval) ==
  /\ ValidTransition("change_cadence")
  /\ Commit(CadenceChanged(db, interval))

Cancel ==
  /\ ValidTransition("cancel")
  /\ Commit(Canceled(db))

\* ArmNext trusts its caller about the date; module Sweep is its only caller.
ArmNext ==
  /\ ValidTransition("arm")
  /\ \E i \in DOMAIN db.occ :
       IsSoonest(db, {"planned"}, i) /\ Commit(Armed(db, i))

\* RunAll's transaction for this schedule, on the run date.
Materialize(runDate) ==
  /\ db.status = "active"
  /\ Commit(Run(db, runDate))

\* Not in this repository yet: the order pipeline of spec section 5 step 3, which
\* places an armed order on its date.  LastPlacedOccurrence and ChangeCadence are
\* written for it, and the tests stand in for it by inserting placed rows.
PlaceOrder ==
  \E i \in WithStatus(db, {"pending"}) :
    /\ db.occ[i].date <= today
    /\ Commit([UpdateOccurrenceStatus(db, i, "placed")
                 EXCEPT !.log.occ[i].status = "placed"])

NextDay == today < LastDay /\ today' = today + 1 /\ UNCHANGED db

\* A nightly job's run date is the UTC date, whatever day it is for the customer.
RunDates == {today + skew : skew \in RunDateSkew}

Customer ==
  \/ \E until \in {today + n : n \in PauseDays} \union {NoDate} : Pause(until)
  \/ Resume
  \/ \E key \in Keys : SkipNext(key)
  \/ \E key \in Keys, days \in DeferDays : Defer(days, key)
  \/ \E interval \in Intervals : ChangeCadence(interval)
  \/ Cancel

Next ==
  \/ Customer
  \/ ArmNext
  \/ \E runDate \in RunDates : Materialize(runDate)
  \/ PlaceOrder
  \/ NextDay

Spec == Init /\ [][Next]_vars

-----------------------------------------------------------------------------
TypeOK == today \in Int /\ db \in Rows

(* A paused or canceled schedule has nothing outstanding and names no next    *)
(* order: anything else tells the customer an order is still coming (Pause;   *)
(* properties_test.go, invariant 3).                                          *)
NothingOutstandingUnlessActive ==
  db.status \in {"paused", "canceled"} =>
    WithStatus(db, Unsettled) = {} /\ db.nextRun = NoDate

(* Every planned order that no customer deferred is a whole number of         *)
(* intervals from the schedule's current anchor, whatever order pauses,       *)
(* resumes, skips, deferrals and cadence changes came in (spec section 3).    *)
PlannedOnCadence ==
  \A i \in WithStatus(db, {"planned"}) \ db.log.deferred :
    OnCadence(db.anchor, db.interval, db.occ[i].date)

(* Orders are planned one after another: an unsettled order that was never    *)
(* deferred comes strictly before every unsettled order planned after it, so  *)
(* no two orders are planned for one day, across re-anchoring too.            *)
LaterOrdersLandLater ==
  \A i \in WithStatus(db, Unsettled) \ db.log.deferred, j \in WithStatus(db, Unsettled) :
    i < j => db.occ[i].date < db.occ[j].date

\* The latest date a transaction may take for today: the customer's own, or a job's.
LatestRunDate == Max({today} \union RunDates)

(* next_run_date never hides an order: whatever is planned beyond every date  *)
(* a transaction may take for today is at or after it (RefreshNextRunDate;    *)
(* spec section 3's indexed query).                                           *)
NextRunHidesNothing ==
  \A i \in WithStatus(db, {"planned"}) :
    db.occ[i].date > LatestRunDate => db.nextRun # NoDate /\ db.nextRun <= db.occ[i].date

(* next_run_date names an order that is really coming or has come: never one  *)
(* that was skipped, canceled or moved to another date (SkipNext tops the     *)
(* horizon up "so next_run_date points at the order that is now next").       *)
NextRunNamesAnOrder ==
  db.nextRun # NoDate =>
    \E i \in WithStatus(db, Unsettled \union {"placed"}) : db.occ[i].date = db.nextRun

(* The event log and the state it describes never disagree: replaying the     *)
(* events gives the rows (service.go's package comment; spec section 3).      *)
LogAgrees ==
  /\ db.log.status = db.status
  /\ db.log.interval = db.interval /\ db.log.anchor = db.anchor
  /\ db.log.occ = db.occ

(* A settled order is never rewritten and no row disappears, so a sequence    *)
(* number, which is the payment gateway's idempotency key, is never reused    *)
(* (IdempotencyKey; CancelOccurrences; ValidateOccurrenceAction).             *)
SettledStaysSettled ==
  [][/\ DOMAIN db.occ \subseteq DOMAIN db'.occ
     /\ \A i \in DOMAIN db.occ :
          db.occ[i].status \notin Unsettled => db'.occ[i] = db.occ[i]]_vars

(* An armed order has been announced to the customer: it never goes back to   *)
(* planned, and only a deferral the customer asked for, under a key of its    *)
(* own, moves its date (ChangeCadence's comment; spec section 5).             *)
NoticeStands ==
  [][\A i \in WithStatus(db, {"pending"}) :
       /\ db'.occ[i].status # "planned"
       /\ db'.occ[i].date # db.occ[i].date =>
            i \in db'.log.deferred /\ db'.log.keys # db.log.keys]_vars

(* Resuming promises the next order one interval from today (the event's      *)
(* next_order_date, which the email repeats), and that is the order planned.  *)
ResumePlansWhatItAnnounces ==
  [][db.status = "paused" /\ db'.status = "active" =>
       db'.nextRun = today + db'.interval]_vars

(* One request acts on one order: a step skips or moves exactly as many       *)
(* orders as it records new retry keys, however often, and on whatever order, *)
(* a key is presented (docs/adr/0009; EventExistsWithKey).                    *)
EachKeyActsOnce ==
  [][Cardinality({i \in DOMAIN db.occ :
                    \/ db'.occ[i].date # db.occ[i].date
                    \/ db'.occ[i].status = "skipped" /\ db.occ[i].status # "skipped"})
       = Cardinality(db'.log.keys \ db.log.keys)]_vars

PlannedAheadOf(d, day) ==
  Cardinality({i \in DOMAIN d.occ : d.occ[i].status = "planned" /\ d.occ[i].date > day})

\* The transitions that run the materializer, each on the customer's own date.
Replan ==
  \/ Resume
  \/ \E key \in Keys : SkipNext(key)
  \/ db.status = "active" /\ \E interval \in Intervals : ChangeCadence(interval)

(* Whatever plans orders (the nightly run, a resumption, a skip, a cadence    *)
(* change of an active schedule) leaves the customer's queue full, orders     *)
(* planned ahead of its date and not just planned, however many were armed,   *)
(* skipped, deferred, canceled or passed over before; and nothing plans past  *)
(* full, even though deferring an order whose date had passed overfills the   *)
(* queue (Run's callers; spec section 5 step 1).                              *)
PlanningFillsTheQueue ==
  [][/\ \A runDate \in RunDates :
          Materialize(runDate) => PlannedAheadOf(db', runDate) >= Horizon
     /\ Replan => PlannedAheadOf(db', today) >= Horizon
     /\ Len(db'.occ) > Len(db.occ) => PlannedAheadOf(db', LatestRunDate) <= Horizon]_vars
=============================================================================

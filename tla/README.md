# Formal models of CadenceOS

CadenceOS keeps customers' recurring orders: a Go service over PostgreSQL, three
scheduled commands, and a JavaScript portal. These TLA+ modules model its core
(the schedule's state machine, the calls and jobs that reach it at the same time, the
materializer, the nightly sweep, the notification outbox and the portal's request
protocol), TLC checks them on small instances, and TLAPS proves the statements that
matter most for every value of the constants.

`PROJECT.json` lists the components, the runs, the source lines each definition
stands for, the findings, the hazards and the theorems.

## The system

| Component | State it keeps | Operations | Interacts with |
|---|---|---|---|
| Cadence arithmetic (`internal/domain/cadence.go`) | none | `OccurrenceDate`, `NextOccurrenceAfter` | called by the materializer |
| Materializer (`internal/materialize`, `cmd/materialize`) | none of its own | `RunAll` (nightly), `Run`, `RefreshNextRunDate` | locks each active schedule; also called inside the service's transactions |
| Schedule service (`internal/schedule`, `internal/domain/transitions.go`) | none of its own | `Pause`, `Resume`, `SkipNext`, `Defer`, `ChangeCadence`, `Cancel`, `ArmNext` | one transaction each, behind the row lock, ending in one event |
| Sweep (`internal/sweep`, `cmd/sweep`) | what it listed and peeked, in memory | `ResumeDue`, then `ArmDue` | reads without a lock, then calls the service |
| Notification outbox (`internal/notify`, `cmd/notify`) | `notification_log` | `ClaimNotifiableEvents`, `dispatchOne`, `MarkNotificationSent`, `MarkNotificationFailed` | reads events the service committed; calls Postmark |
| Store (`internal/store`) | `schedules`, `occurrences`, `schedule_events`, `notification_log` | one method per statement, `InTx` | everyone |
| HTTP API (`internal/httpapi`) | none | create, read, the transitions | the service and the store |
| Authentication and scope (`internal/auth`) | none | token and service-key checks, row scope | the API; the scope reaches the store's reads |
| Portal (`web/portal/src`) | the schedule on screen, the key of the open sheet | the five transitions, retry after re-authentication | the API |
| Email rendering, configuration, compliance scan, server and migration commands | none at run time | | |

What is hard in it:

* two calls for one schedule, or two checkouts for one order, are in the database at
  once, and either may fail before its COMMIT, at it or after it;
* the sweep decides on what it read before the lock, and the transition it calls
  re-checks the status and the target but not the decision;
* `next_run_date` copies what the planned rows say, and only some transactions
  refresh it;
* re-anchoring (resume, cadence change) while an armed order survives, and
  deferrals off the cadence, put two rhythms into one queue;
* the jobs date their runs in UTC and the customer lives in another zone;
* retries resolve "the next order" again, and the next order has changed;
* the cadence sheet computes the service's dates a second time, from what is on screen;
* the portal's reads overlap its writes, answers come in any order, and all of them
  share one token exchange;
* the claim of the outbox is one SQL statement but not one step.

What makes each part correct is stated as the properties below; the hazards, each
at its line, are in `PROJECT.json`.

## The modules

| Module | Models | Extends |
|---|---|---|
| `Cadence` | the calendar arithmetic, over day numbers | |
| `MaterializeLoop` | the planning loop of `Run`, turn by turn | `Cadence` |
| `Schedule` | one schedule: its row, its orders, its log, and every transaction on them | `Cadence` |
| `Requests` | the calls and job turns on one schedule as transactions, with who asks and what each is answered | |
| `Sweep` | a nightly pass, read by read, beside every other writer | `Schedule` |
| `CadenceSheet` | the portal's preview of a cadence change, beside the change | `Schedule` |
| `NotifyOutbox` | overlapping dispatch runs over the outbox | |
| `Portal` | one open portal page: reads, writes, retries, the token exchange, the skip sheet | |
| `MCMaterializeLoop`, `MCSchedule`, `MCSweep` | the instances TLC checks | the module named; `MCSchedule` extends `CadenceSheet` |
| `Cadence_proofs`, `MaterializeLoop_proofs`, `Schedule_proofs`, `Queue_proofs`, `Requests_proofs`, `Sweep_proofs`, `NotifyOutbox_proofs`, `Portal_proofs` | the theorems | |

`Schedule` is the abstract specification. `Sweep` and `Requests` are two detailed ones,
each shown to implement it: `Sweep` adds what the nightly pass remembers between
transactions, `Requests` takes a transaction apart.

### How they correspond to the code

**`Cadence`.** A `domain.Date` is a day number: the code adds days and compares.
`NextSequence` keeps the code's division, its step past, and its special case for
an anchor in the future. `OnCadence` is the reference definition, by remainder.

**`MaterializeLoop`.** One turn of the `for` in `Materializer.Run` is one `Plan`.
It shows that walking the cursor visits the dates of one formula, `PlannedDate`,
and `Schedule` uses that formula, so that a run is one step there.

**`Schedule`.** `db` is what one schedule's transaction locks and commits. A
transaction is one step, because every writer holds `SELECT ... FOR UPDATE` on the
schedule's row from its first statement to its commit. Each store statement is an
operator from rows to rows, and each transition composes them in the order the code
issues them (`Paused`, `Resumed`, `Skipped`, ...). The actions add the guards: the
transition table, the retry key, the order that is next. A rejected request commits
nothing and is a stuttering step. Rows are never deleted and sequence numbers grow
by one under the lock, so an order's number is its place in `db.occ`. The event log
is held as what replaying it gives, together with the retry keys its rows carry:
that is what `LogAgrees` compares and `EventExistsWithKey` reads.

`PlaceOrder` is the order pipeline that spec section 5 describes and the repository
does not have yet; it is modelled from the code that reads placed rows
(`LastPlacedOccurrence`, `ChangeCadence`) and marked external. `failed` is in the
status sets because the transition table and the schema have it; nothing writes it.

**`Requests`.** A call is a request in a handler of `internal/httpapi`, or a turn of
`cmd/materialize` or `cmd/sweep`. It is `sent`; then the credential and the body are
looked at (`TurnAway`: 401, 400), and then a transaction begins. A transition takes the
row's lock (`GetScheduleForUpdate`: `locked`, with the rows it read), applies its closure
to what it read (`Apply`: `applied`, or rolled back with 409) and commits (`committed`);
the answer follows (`Respond`). A checkout inserts behind the unique `origin_order_id`
(`inserted`, committed and answered 201), or finds the key taken (`duplicate`) and is
handed the schedule that is there (`HandBack`: 200). `Fail` ends a call with 500 wherever
it is: before COMMIT nothing of it stays, after COMMIT all of it does and the caller is
not told so. `store` is what is committed; until `made` says that the schedule exists, it
is what its checkout will insert. `Outcomes` is a transition's closure, built from
`Schedule`'s own operators in the code's order: the status first, then the retry key. The
scope is part of the read: another customer's row is not there, not even to wait for.

`ImplementsSchedule` is `INSTANCE Schedule WITH db <- store`: a COMMIT is one of
`Schedule`'s transactions, and everything else a stutter.

**`Sweep`.** `pc` is where the pass stands for this schedule: listing, the resume
turn, listing again, peeking, arming. Between any two of them anyone else may
commit (`Others`). `ResumeDue` keeps the `paused_until` it listed, `ArmDue` the
order it peeked, and the transition each then calls is `Schedule`'s own. A resume
pass that fails still hands over to the arm pass (`ResumeFails`); `Abort` is a failed
arm pass, or a sweep that is killed or timed out. A turn for another schedule changes none of
this schedule's rows, so one schedule is enough.

**`CadenceSheet`.** `previewDates` is the portal's copy of the arithmetic: from the last
placed order, or today, with armed orders kept in front. Orders are pairs of a date and
a number, so that dates two orders share stay two dates when sorted. `PreviewIsKept` compares it with
what `ChangeCadence` then plans. The two agree as long as the first date on the new
rhythm is still ahead and no armed order lies past it. Elsewhere the sheet shows dates
that have gone by, or dates before the armed order, that the service does not plan.

**`NotifyOutbox`.** A `cmd/notify` process claims a page, dispatches it event by
event and claims again while pages come back full. The claim is PostgreSQL's three
steps under READ COMMITTED: the snapshot that evaluates the WHERE clause, the locks
with SKIP LOCKED, the upsert. Since the locked rows are `schedule_events` rows,
which nothing updates, locking re-evaluates nothing. A send may be taken, refused,
or taken with its answer lost. Time is kept as ages: a unit of time adds one to
every row's age and every run's.

**`Portal`.** `wire` is the bag of requests in flight: each is sent, answered, or
awaiting a token exchange, and any of them may be served, lost or come back next.
`screen` is `state` in `mountActiveSchedule`, a phase for each half; `exchanges` are
the promises the host has returned and `reauth` the one the page holds. A request
that meets a 401 awaits that promise, whatever has become of it, and is sent once
more. The server is reduced to what these tell apart: which order is soonest, counted
by how often that has changed, and which order each retry key has skipped; `Schedule`
has the rest. A 409, a 500 and a lost answer are one outcome, `failed`, since the
page treats them alike. `runDirect` stands for the two writes without a sheet, and
the skip sheet for the one whose key and named order matter.

## The runs

| Run | Checks | Instance |
|---|---|---|
| `materialize_loop` | the loop never drifts, and plans exactly the cadence dates ahead | 7 anchors before, on and after the run date, intervals 7, 8 and 13, up to four orders |
| `schedule` | the schedule's invariants and action properties; one key acts on one order; planning fills the queue; the cadence sheet's preview is kept | two intervals, a deferral that is a multiple of neither, days 0 to 8, up to five orders, horizon 2, run dates a day behind the customer's, the same, or a day ahead |
| `requests` | overlapping calls implement `Schedule`; a locked row is current; one schedule for an order; answers are true; strangers learn nothing; retries change nothing; every call is answered | two calls, days 0 and 1, three orders, one key, horizon 1; create, read, pause, skip, defer, cancel, materialize |
| `sweep` | the sweep implements `Schedule`; it arms what was due; pauses without an end stand, timed ones end, due orders are armed | days 0 to 5, four orders, horizon 2 |
| `sweep_stale_arm` | *violated:* the sweep arms only inside the window | |
| `sweep_stale_resume` | *violated:* the sweep never touches a pause without an end | |
| `next_order` | *violated:* the date shown as the next order hides none | |
| `notify` | nothing is written off as sent that was not; a live claim is not taken for abandoned; every event is resolved in the end | two overlapping runs, two events, one without an address, pages of one |
| `notify_double_claim` | *violated:* one run per event | two runs, a page of two |
| `portal` | one confirmation skips one order; nothing waits for nothing | one sheet, two exchanges, three requests in flight, three orders |
| `portal_expiry` | *violated:* a 401 is shown only if the exchange failed | tokens expire between requests only |
| `portal_stale_skip` | *violated:* the order a sheet names is the order skipped | no other writers, no expiry, four requests in flight |

Bounds. The anchor lies before the first day, so the first order falls due inside
the days of a run and can be armed, announced and placed. `LastDay` covers a whole interval
of seven days, so a schedule goes through planning, arming, placing and planning
again. `MaxOccurrences` leaves room for two replanned queues; a transaction that
would exceed it is not taken, and in `Sweep` a pause is only taken where the
resumption fits, so that liveness is not an artefact of the bound. In the outbox
only the order of the two timeouts matters, so they are 1 and 2 units for ten and
fifteen minutes (2 and 3 in `notify_double_claim`), and two attempts stand for five: one that may be retried and one
that may not. Deadlock is not checked because every bounded run ends: days and
orders run out, and in `Portal` a request that does not fit `MaxInFlight` is not made.
Three requests in flight are the two reads of a load beside one write, or an overlap
of two reads of the queue; one sheet is submitted any number of times, which is what
`OneSheetOneSkip` is about, and two exchanges let one be reused and one be started
anew.

Two calls are what a lock or a unique key is about: the one that has it and the one that
wants it. Calls are sent again and again, so there are retries behind each other too. A
call is sent only while every call in hand has room to plan, so that no transaction is
held up by `MaxOccurrences`, and a transaction commits on the day it read its clock. The
routes `resume`, `change_cadence` and `arm` are left out of the run, where they only
multiply its states, and are covered by the theorem that `Requests` implements `Schedule`.

No symmetry is used. A job's run date is its UTC date: `schedule` takes it a day behind the
customer's, the same and a day ahead, `sweep` behind or the same (a day ahead only
multiplies its states), and the theorems take all three.

Fairness. In `Requests`, a call the server has in hand is served (weak fairness), and a
call that waits for a lock gets its turn (strong fairness): PostgreSQL queues them in the
order they came. Nothing is assumed of clients or of failures, and the days may stand
still. `SweepFairness`: the days pass and a scheduler starts a pass every night
(weak fairness for the days); a pass may fail or be aborted, but a step that keeps
coming up is carried out in the end (strong fairness). Customers, the materializer and the order
pipeline owe nothing. `NotifyOutbox!Fairness`: time passes, runs are
started again and go on until they end, and a step that keeps coming up, in one run or
another, is taken in the end by some run: crashes, failed reads and overlapping claims may
go on for ever, but not every attempt dies before its outcome is recorded. That is more
than the code can promise: an event whose every attempt dies is retried without end,
because the attempts cap is read only when a failed send is marked.

## What the violated runs show

Each is a statement of the repository that the code does not keep.

* `sweep_stale_arm`: the pass finds an order due, the customer skips it, and
  `ArmNext` arms the next one an interval early. `ArmsWhatWasDue` holds: without
  such a change in between the sweep never does that.
* `sweep_stale_resume`: a timed pause is listed on its day; the customer resumes, and
  pauses again with no end date; the pass's `Resume` finds a paused schedule under the
  lock and ends that pause. `IndefinitePausesStand` holds: a pause without an end that no
  pass has in hand is left alone by every pass that follows.
* `next_order`: after an order is armed, the next nightly run moves `next_run_date`
  past it, and the portal labels the later date "Next order".
* `notify_double_claim`: two claims whose snapshots both predate the other's commit
  take the same event, one after the other. Delivery is at-least-once by design
  (docs/adr/0010); the comment on the claim promises more.
* `portal_expiry`: the page keeps the promise of its first exchange until `load()`
  clears it. When the token expires again, a 401 awaits that fulfilled promise, the
  retry carries the expired token, and its 401 is shown though no exchange was tried.
  `NoHalfGivesUpEarly` holds: the first expiry is shared by both halves as intended.
* `portal_stale_skip`: a longer interval is being saved, the queue's row actions stay
  live, the customer opens the skip sheet on the old queue, and the skip acts on the
  new one. A read overtaken by a later one leads to the same. `OneSheetOneSkip` holds:
  it is always one order, but it may not be the one that was named.

One statement of the documentation holds only in part, and the property says which part:
docs/adr/0009 has the same key presented twice "a no-op that still returns 200". It is a
no-op always, but the status is looked at before the key, so a retry that comes after the
schedule was paused or canceled is answered 409 (`RetriesAreNoOps`).

## What is proved

All from the named assumptions on the constants (`ScheduleAssumption`,
`LoopAssumption`, `RequestsAssumption`, `OutboxAssumption`, `PortalAssumption`), with no bound on days,
orders, keys, calls, runs, events or horizon.

* **`Cadence_proofs`**: `NextOccurrenceAfter` returns the first cadence date
  strictly after its argument (`NextOccurrenceIsFirstAfter`), from what integer
  division brackets; asking again from that date steps one shipment on.
* **`MaterializeLoop_proofs`**: the loop never drifts and walks exactly the cadence
  dates. The inductive invariant says where the cursor stands: on the last date
  planned, which is the formula's date for that turn. Without it the next turn's
  start would be unknown. `TypeOK` holds too: the loop ends with its count at the horizon.
* **`Schedule_proofs`**: `TypeOK`, `NothingOutstandingUnlessActive`, `LogAgrees` and
  `SettledStaysSettled` hold of `Schedule!Spec`. The inductive invariant is the
  conjunction of the first three: the log's agreement is what makes an order the
  rows name also an order the log has, and the quiet of an inactive schedule is what
  a cadence change on a paused one relies on. The proof follows the model: lemmas on
  finite sets of dates (`Max` and `Min` exist), on sequences of orders (what replacing,
  canceling and appending keep), on each store statement, one on each transition's
  closure (`PausedCommits`, ...: well-formed, agreeing, quiet, nothing settled
  rewritten), and one lemma that every step is one of these (`StepsCommit`).
* **`Queue_proofs`**: what the customer's queue looks like. `PlannedOnCadence` and
  `LaterOrdersLandLater` hold: a run starts past everything outstanding and plans
  ascending cadence dates, so it appends in order; a deferral moves an order later and is
  exempt from then on. `NextRunNamesAnOrder` and `NextRunHidesNothing` hold because every
  step refreshes the stored date, empties the queue, or moves one order on to where the
  date still names it. `PlanningFillsTheQueue` (for the nightly run, a resumption, a skip
  and an active schedule's cadence change) and `ResumePlansWhatItAnnounces` hold
  because a run adds exactly the orders that are missing, which takes counting them: as
  many new rows as the horizon lacks, all planned, all past where the run starts.
  Both count from the date a step takes for today, and `NextRunHidesNothing` from the
  latest such date (`LatestRunDate`), which moves on with the days: a job that dates its
  run a day ahead passes over an order planned for that very day. Where no job does,
  nothing planned ahead of today is hidden (`NextRunHidesNothingAheadOfToday`).
  It also has `NoticeStands` and `EachKeyActsOnce`, from which orders each transaction
  touches: a skip and a deferral the one they name, under the key they record,
  and all others none that they do not settle.
  Last, `SheetShowsWhatIsSaved` proves `PreviewIsKept`, for any interval, horizon and
  queue. Sorting is by rank, and each place of the sorted list is one order's; sets of
  which one lies wholly before the other give lists that follow each other. So both the
  preview and the queue are the armed orders followed by the new rhythm, and where the
  first new date is ahead of today and no armed order lies past it, the run starts where
  the sheet counts: at that date, or at the next if an armed order already has it.
* **`Requests_proofs`**: overlapping transactions implement `Schedule!Spec`, so every
  theorem about `Schedule` holds of what is committed: `CommittedRowsAreSound` and
  `CommittedStepsKeepTheirPromises` state them of `store`. The theorems come from an
  instance of `Queue_proofs`, whose operators are shown to be `Schedule`'s one by one.
  `TypeOK` adds to the rows what the closures' outcomes and the calls' answers are
  (`OutcomesAreRows`). The inductive invariant is the
  discipline of the database: one call past the lock, one past the unique key and that
  one before any schedule exists, and what a lock's holder works on is what is committed,
  or what its closure made of it. `LockedRowsAreCurrent` and `OneScheduleEachOrder`
  follow from it, and so do `StrangersLearnNothing` and `RetriesAreNoOps`.
  `AnswersTellTheTruth` needs one thing more: what a committed call has left in the rows,
  its key or the cancellation, every later transaction keeps (`OutcomesCarryOut`).
* **`Sweep_proofs`**: the sweep implements `Schedule!Spec` (each step of a pass is one
  transition or a stutter), so every invariant and action property above holds beside the
  sweep too (`SweepKeepsTheScheduleSound`, `SweepKeepsThePromises`); `SweepTypeOK`;
  `ArmsWhatWasDue`, from the invariant that the order in hand was due when it was peeked
  and that days only pass; and `IndefinitePausesStand`, from what each action asks of the
  status: a listing takes no pause without an end, and of the rest only the customer's own
  resumption and a cancellation leave one.
* **`NotifyOutbox_proofs`**: `TypeOK`, `SentMeansHandled` and `ClaimOutlivesItsRun`, for
  any number of overlapping runs. The invariant says that a row in a run's hand is claimed
  and no older than the run, and that a row is written off only once it is handled. A
  step of one run owes the others only that their rows grow no older, and that is the one
  thing each action is shown to give (`Considerate`).
* **`Portal_proofs`**: all five invariants of the page, for any number of requests,
  sheets, exchanges and orders. The invariant they come from says that a submit in flight
  is the only one and belongs to the open sheet (the requests are a bag, so that its count
  is one is part of it), that a retry follows an exchange that ended, and that whatever
  spins has a request of its own kind in flight.

Only model-checked: the liveness properties
(`TimedPauseEnds`, `DueOrdersAreArmed`, `EveryCallIsAnswered`, `EveryEventIsResolved`).
Liveness and anything about ENABLED is out of the prover's reach, and so is induction over
data through the library's schemes; the models use no recursive operators.

## Not modelled

* `MATERIALIZE_HORIZON=1`: skipping the only planned order then plans the same date
  again, since nothing else is left to continue from. The runs that look at the queue use a horizon
  of two; `requests` uses one, where only the order of transactions matters.
* The pause, cadence, cancel and defer sheets one by one (they share the skip sheet's
  shell), but for the cadence preview. Its other column, for the present interval, counts
  from the last placed order and not from the schedule's anchor, and is left out.
* The operator console: a second client, without a token exchange. Its dialogs act on the
  schedule on screen, which an overlapping load can replace while a dialog is open, as in
  `portal_stale_skip`.
* The bodies of answers: a caller is told a status code. The list of a customer's
  schedules: it reads without a lock and nothing depends on it.
* Time zones and parsing of dates: `today` is the customer's own date.
* Signatures, key digests and the parsing of headers: a credential is its owner's, another
  customer's or the checkout's, and what each may do and see is in `Requests`.
* Email rendering, configuration, the compliance scan,
  server start-up, migration and development commands: no state, or pure I/O.
* Two schedules at once: no transaction touches two.

## Plan

Done: `Cadence`, `MaterializeLoop`, `Schedule`, `Sweep`, `Requests`, `CadenceSheet`,
`NotifyOutbox`, `Portal`, with their runs, and the theorems above.

Next, in this order:

1. **Portal and schedule together**: `Portal`'s server replaced by `Schedule`'s own
   transitions, and the console as a second client of the same kind.
2. **Outbox and schedule together**: the notice against the order it announces.

## Running

    tlc -config Schedule.cfg MCSchedule.tla
    tlc -config Requests.cfg Requests.tla
    tlapm Schedule_proofs.tla

------------------------------ MODULE Requests ------------------------------
(***************************************************************************)
(* The calls that reach one schedule's row at the same time: requests in   *)
(* the handlers of internal/httpapi, and the turns the nightly jobs take.  *)
(* Each is a PostgreSQL transaction with a beginning, a middle and an end, *)
(* which may fail at any of them.                                          *)
(*                                                                         *)
(* Module Schedule takes each transaction in one step.  This module earns  *)
(* it: what the row lock and the unique origin order leave of all the      *)
(* interleavings is a behaviour of Schedule (ImplementsSchedule).          *)
(***************************************************************************)
EXTENDS Integers, Sequences, FiniteSets

CONSTANTS
  Calls,          \* calls the service has in hand at once
  Routes,         \* what an instance's calls ask for
  Anchors, Intervals, DeferDays, PauseDays, Keys, Horizon, RunDateSkew,
  FirstDay, LastDay, MaxOccurrences, NoDate, \* as in module Schedule
  NoKey           \* an idempotency_key left empty

ASSUME RequestsAssumption ==
  \* As in module Schedule.
  /\ Anchors \subseteq Int
  /\ Intervals \subseteq 7..180
  /\ DeferDays \subseteq 1..180
  /\ PauseDays \subseteq Nat \ {0}
  /\ Horizon \in Nat \ {0}
  /\ RunDateSkew \subseteq -1..1
  /\ FirstDay \in Int /\ LastDay \in Int
  /\ MaxOccurrences \in Nat
  /\ NoDate \notin Int
  \* A date asked for comes nearer while the request travels.
  /\ \A n \in PauseDays : 1..n \subseteq PauseDays
  /\ NoKey \notin Keys

VARIABLES
  today, \* the date in the schedule's own timezone
  store, \* the schedule's committed rows; before that, those its checkout will insert
  made,  \* how many schedules have been committed for the founding order
  call   \* for each call, how far it is, what it asks, what its transaction sees

vars == <<today, store, made, call>>

S == INSTANCE Schedule WITH db <- store

Exists == made > 0

-----------------------------------------------------------------------------
(* Requests.                                                                *)

\* Who presents which credential: two portal tokens, the owner's and another
\* customer's, and the checkout's service key.
Senders == {"owner", "stranger", "service"}

\* Spec section 3's range, in days.
ValidateInterval(days) == days \in 7..180

ValidateDeferDays(days) == days \in 1..180

\* NoKey also stands for a key too long to keep.
ValidateIdempotencyKey(key) == key # NoKey

CancellationReasons ==
  {"too_expensive", "too_frequent", "switched_brand", "delivery_issue",
   "payment_issue", "no_longer_wanted", "other"}

\* What may be asked, values the validators refuse among them.
Askable ==
  {r \in  [who : Senders, route : {"get", "resume"}]
   \* The same checkout each time, or one with a field missing or malformed.
   \union [who : Senders, route : {"create"}, complete : BOOLEAN]
   \union [who : Senders, route : {"cancel"}, reason : {"other", "free text"}]
   \union [who : Senders, route : {"pause"},
           until : {NoDate} \union {today + n : n \in PauseDays}]
   \union [who : Senders, route : {"skip_next"}, key : Keys \union {NoKey}]
   \union [who : Senders, route : {"defer"}, days : DeferDays \union {0, 181},
           key : Keys \union {NoKey}]
   \union [who : Senders, route : {"change_cadence"},
           interval : Intervals \union {6, 181}]
   \* A turn of cmd/materialize or cmd/sweep for this schedule.
   \union [who : {"system"}, route : {"materialize", "arm", "resume"}] :
   r.route \in Routes}

\* The credential each route group admits; jobs call the service directly.
Admitted(r) ==
  \/ r.who = "system"
  \/ r.who = "service" /\ r.route = "create"
  \/ r.who \in {"owner", "stranger"} /\ r.route # "create"

\* Mutant: an empty key is let through.
WellFormedKeyless(r) ==
  /\ r.route = "create" => r.complete
  /\ r.route = "defer" => ValidateDeferDays(r.days)
  /\ r.route = "change_cadence" => ValidateInterval(r.interval)
  /\ r.route = "cancel" => r.reason \in CancellationReasons

WellFormed(r) ==
  /\ r.route = "create" => r.complete
  /\ r.route \in {"skip_next", "defer"} => ValidateIdempotencyKey(r.key)
  /\ r.route = "defer" => ValidateDeferDays(r.days)
  /\ r.route = "change_cadence" => ValidateInterval(r.interval)
  /\ r.route = "cancel" => r.reason \in CancellationReasons

\* Mutant: the customer filter is lost.
Unscoped(r) == TRUE

\* The rows the caller's scope leaves visible: its own, or all for a job.
InScope(r) == r.who \in {"owner", "system"}

-----------------------------------------------------------------------------
(* What a transition's apply closure may leave of the rows it locked.  None *)
(* of it when the closure returns a TransitionError.                        *)

Soonest(d, statuses) == {i \in DOMAIN d.occ : S!IsSoonest(d, statuses, i)}

Unkeyed(r, d) ==
  CASE r.route = "pause" ->
         {e \in {S!Paused(d, r.until)} : r.until # NoDate => r.until > today}
    [] r.route = "resume" -> {S!Resumed(d)}
    [] r.route = "skip_next" ->
         {S!Skipped(d, i, r.key) : i \in Soonest(d, S!Unsettled)}
    [] r.route = "defer" ->
         {S!Deferred(d, i, r.days, r.key) : i \in Soonest(d, S!Unsettled)}
    [] r.route = "change_cadence" -> {S!CadenceChanged(d, r.interval)}
    [] r.route = "cancel" -> {S!Canceled(d)}
    [] r.route = "arm" -> {S!Armed(d, i) : i \in Soonest(d, {"planned"})}
    [] r.route = "materialize" ->
         {IF d.status = "active" THEN S!Run(d, runDate) ELSE d : runDate \in S!RunDates}

\* The request's key is in the log: it has been carried out before.
Done(r, d) ==
  \/ r.route = "skip_next" /\ S!EventExistsWithKey(d, "occurrence.skipped", r.key)
  \/ r.route = "defer" /\ S!EventExistsWithKey(d, "occurrence.deferred", r.key)

\* Mutant: a key that has been used is not looked for.
OutcomesKeyOrNot(r, d) ==
  IF r.route # "materialize" /\ d.status \notin S!scheduleTransitions[r.route] THEN {}
  ELSE Unkeyed(r, d)

\* ValidateScheduleTransition, then the closure: the status before the key.
Outcomes(r, d) ==
  IF r.route # "materialize" /\ d.status \notin S!scheduleTransitions[r.route] THEN {}
  ELSE IF Done(r, d) THEN {d}
  ELSE Unkeyed(r, d)

-----------------------------------------------------------------------------
Init ==
  /\ today = FirstDay
  /\ \E interval \in Intervals, anchor \in Anchors :
       store = S!Created(interval, anchor)
  /\ made = 0
  /\ call = [c \in Calls |-> [stage |-> "answered", code |-> 200]]

Asks(c) == call[c].request
In(c, stage) == call[c].stage = stage
Advance(c, state) == call' = [call EXCEPT ![c] = state]

\* Back at the client, and whatever was uncommitted rolled back.
Answer(c, code) == Advance(c, [stage |-> "answered", code |-> code])

\* Bound: a call is made only while every call in hand has rows to plan into.
Send(c) ==
  /\ In(c, "answered")
  /\ Len(store.occ) + Horizon * Cardinality(Calls) <= MaxOccurrences
  /\ \E r \in Askable : Advance(c, [stage |-> "sent", request |-> r])
  /\ UNCHANGED <<today, store, made>>

\* The middleware, then the handler's reading of the body: no transaction is begun.
TurnAway(c) ==
  /\ In(c, "sent")
  /\ \/ ~Admitted(Asks(c)) /\ Answer(c, 401)
     \/ Admitted(Asks(c)) /\ ~WellFormed(Asks(c)) /\ Answer(c, 400)
  /\ UNCHANGED <<today, store, made>>

Accepted(c) == In(c, "sent") /\ Admitted(Asks(c)) /\ WellFormed(Asks(c))

\* Get or Upcoming: a read without a lock, of rows in the caller's scope.
Get(c) ==
  /\ Accepted(c) /\ Asks(c).route = "get"
  /\ Answer(c, IF Exists /\ InScope(Asks(c)) THEN 200 ELSE 404)
  /\ UNCHANGED <<today, store, made>>

\* Mutant: the handler looks for the origin order, and inserts if there is none.
InsertAfterLooking(c) ==
  /\ Accepted(c) /\ Asks(c).route = "create"
  /\ Advance(c, [stage |-> IF Exists THEN "duplicate" ELSE "inserted",
                 request |-> Asks(c)])
  /\ UNCHANGED <<today, store, made>>

\* INSERT INTO schedules, behind the unique origin_order_id: it waits for whoever
\* has inserted the same order and not yet committed.
Insert(c) ==
  /\ Accepted(c) /\ Asks(c).route = "create"
  /\ \A other \in Calls : ~In(other, "inserted")
  /\ Advance(c, [stage |-> IF Exists THEN "duplicate" ELSE "inserted",
                 request |-> Asks(c)])
  /\ UNCHANGED <<today, store, made>>

\* ErrDuplicateSchedule: the checkout is handed the schedule that is there.
HandBack(c) ==
  /\ In(c, "duplicate") /\ Exists
  /\ Answer(c, 200)
  /\ UNCHANGED <<today, store, made>>

Transacts(c) == Accepted(c) /\ Asks(c).route \notin {"create", "get"}

HoldsRow(c) == In(c, "locked") \/ In(c, "applied")

\* Mutant: the read does not lock.
ReadUnlocked(c) ==
  /\ Transacts(c)
  /\ IF Exists /\ InScope(Asks(c))
     THEN Advance(c, [stage |-> "locked", request |-> Asks(c), work |-> store])
     ELSE Answer(c, 404)
  /\ UNCHANGED <<today, store, made>>

\* BEGIN; SELECT ... WHERE id = $1 and the caller's scope, FOR UPDATE.  A row that is
\* not there for this caller is not waited for.
GetScheduleForUpdate(c) ==
  /\ Transacts(c)
  /\ IF Exists /\ InScope(Asks(c))
     THEN /\ \A other \in Calls : ~HoldsRow(other)
          /\ Advance(c, [stage |-> "locked", request |-> Asks(c), work |-> store])
     ELSE Answer(c, 404)
  /\ UNCHANGED <<today, store, made>>

\* Mutant: a refusal neither commits nor rolls back.
ApplyOrHang(c) ==
  /\ In(c, "locked")
  /\ \E after \in Outcomes(Asks(c), call[c].work) :
       Advance(c, [stage |-> "applied", request |-> Asks(c), work |-> after])
  /\ UNCHANGED <<today, store, made>>

\* A TransitionError rolls back and is answered 409.
Apply(c) ==
  /\ In(c, "locked")
  /\ LET after == Outcomes(Asks(c), call[c].work)
     IN  \/ after = {} /\ Answer(c, 409)
         \/ \E d \in after :
              Advance(c, [stage |-> "applied", request |-> Asks(c), work |-> d])
  /\ UNCHANGED <<today, store, made>>

\* Mutant: a failed COMMIT passes for one that succeeded.
CommitUnchecked(c) ==
  /\ \/ In(c, "inserted") /\ made' = made + 1 /\ UNCHANGED store
     \/ /\ In(c, "applied") /\ Len(call[c].work.occ) <= MaxOccurrences
        /\ store' \in {store, call[c].work}
        /\ UNCHANGED made
  /\ Advance(c, [stage |-> "committed", request |-> Asks(c)])
  /\ UNCHANGED today

Commit(c) ==
  /\ \/ In(c, "inserted") /\ made' = made + 1 /\ UNCHANGED store
     \/ /\ In(c, "applied") /\ Len(call[c].work.occ) <= MaxOccurrences
        /\ store' = call[c].work
        /\ UNCHANGED made
  /\ Advance(c, [stage |-> "committed", request |-> Asks(c)])
  /\ UNCHANGED today

Respond(c) ==
  /\ In(c, "committed")
  /\ Answer(c, IF Asks(c).route = "create" THEN 201 ELSE 200)
  /\ UNCHANGED <<today, store, made>>

\* An error from the database, a canceled context or a server that dies: before COMMIT
\* the transaction is rolled back.  After it, the items could not be read, or COMMIT's
\* own answer was lost: the change stands and the caller is told 500.
Fail(c) ==
  /\ ~In(c, "answered")
  /\ Answer(c, 500)
  /\ UNCHANGED <<today, store, made>>

\* Bound: a transaction commits on the day it read its clock.
NextDay ==
  /\ today < LastDay
  /\ \A c \in Calls : ~In(c, "applied")
  /\ today' = today + 1
  /\ UNCHANGED <<store, made, call>>

Serve(c) == TurnAway(c) \/ Get(c) \/ HandBack(c) \/ Apply(c) \/ Commit(c) \/ Respond(c)

\* What may have to wait for another call's transaction.
Wait(c) == Insert(c) \/ GetScheduleForUpdate(c)

Next ==
  \/ \E c \in Calls : Send(c) \/ Serve(c) \/ Wait(c) \/ Fail(c)
  \/ NextDay

Spec == Init /\ [][Next]_vars

\* PostgreSQL grants a row's lock in the order it was asked for, so a call that is in
\* the queue gets its turn; nothing is assumed of clients or of failures.
Fairness == \A c \in Calls : WF_vars(Serve(c)) /\ SF_vars(Wait(c))

FairSpec == Spec /\ Fairness

-----------------------------------------------------------------------------
TypeOK ==
  /\ today \in Int /\ made \in Nat
  /\ store \in S!Rows
  /\ \A c \in Calls :
       /\ call[c].stage \in {"answered", "sent", "duplicate", "inserted", "locked",
                             "applied", "committed"}
       /\ In(c, "answered") => call[c].code \in {200, 201, 400, 401, 404, 409, 500}
       /\ HoldsRow(c) => call[c].work \in S!Rows

(* Whatever calls overlap, and wherever they fail, what is committed is a     *)
(* history of whole transactions, each on the rows the last one left          *)
(* (docs/adr/0007; transition's comment).                                     *)
ImplementsSchedule == S!Spec

(* A transaction that holds the row is working on what is committed: nobody   *)
(* commits between its read and its own commit (GetScheduleForUpdate).        *)
LockedRowsAreCurrent ==
  \A c \in Calls : In(c, "locked") => call[c].work = store

(* However many times a checkout is sent, and however its sendings overlap,   *)
(* the origin order has one schedule (docs/adr/0008;                          *)
(* schedules_origin_order_id_unique).                                         *)
OneScheduleEachOrder ==
  /\ made <= 1
  /\ \A c \in Calls : In(c, "inserted") => made = 0

Answers(c) == ~In(c, "answered") /\ call'[c].stage = "answered"

(* What a caller is told is so: a schedule it is handed exists, an order it   *)
(* is told was skipped or moved has its key in the log, a schedule it is told *)
(* was canceled stays canceled; and only the owner, told 404, has no schedule *)
(* (respond; Create).                                                         *)
AnswersTellTheTruth ==
  [][\A c \in Calls : Answers(c) =>
       LET r == Asks(c)  code == call'[c].code
       IN  /\ code \in {200, 201} =>
                /\ Exists
                /\ r.route = "skip_next" => <<"occurrence.skipped", r.key>> \in store.log.keys
                /\ r.route = "defer" => <<"occurrence.deferred", r.key>> \in store.log.keys
                /\ r.route = "cancel" => store.status = "canceled"
           /\ code = 404 /\ r.who = "owner" => ~Exists]_vars

(* Another customer's call is turned away before it takes the lock the owner  *)
(* would wait for, and is never told that the schedule exists (scope.go; the  *)
(* scoped read of GetScheduleForUpdate).                                      *)
StrangersLearnNothing ==
  [][\A c \in Calls : In(c, "sent") /\ Asks(c).who = "stranger" /\ call'[c] # call[c] =>
       call'[c].stage = "answered" /\ call'[c].code \in {400, 401, 404, 500}]_vars

(* A skip or a deferral sent again after it was carried out changes nothing,  *)
(* and is refused only if the schedule has meanwhile been paused or canceled, *)
(* since the status is looked at before the key (docs/adr/0009; transition).  *)
RetriesAreNoOps ==
  [][\A c \in Calls :
       In(c, "locked") /\ Done(Asks(c), call[c].work) /\ call'[c] # call[c] =>
         \/ call'[c].stage = "applied" /\ call'[c].work = store
         \/ /\ call'[c].stage = "answered" /\ call'[c].code \in {409, 500}
            /\ call'[c].code = 409 => store.status # "active"]_vars

(* Every call is answered in the end: nobody waits for a lock for ever,       *)
(* whoever else comes and goes, and whatever is refused or fails (inTx).      *)
EveryCallIsAnswered ==
  \A c \in Calls : In(c, "sent") ~> In(c, "answered")
=============================================================================

---------------------------- MODULE NotifyOutbox ----------------------------
(***************************************************************************)
(* The notification outbox: cmd/notify runs that may overlap, each paging  *)
(* through claims of notification_log rows and sending one email per       *)
(* claimed event (internal/notify/notify.go; ClaimNotifiableEvents,        *)
(* MarkNotificationSent and MarkNotificationFailed in store.go).           *)
(*                                                                         *)
(* Time is held as ages: how long ago a row was last attempted and a run   *)
(* started, each counted only as far as the code compares it.              *)
(***************************************************************************)
EXTENDS Integers, FiniteSets, FiniteSetsExt

CONSTANTS
  Events,            \* ids of the notifiable events committed to schedule_events
  Notices,           \* those that are occurrence.armed
  NoAddress,         \* those whose schedule has no customer_email
  Runs,              \* cmd/notify processes
  BatchSize,         \* events one claim takes (200)
  MaxAttempts,       \* attempts after which a failure is permanent (5)
  VisibilityTimeout, \* age past which a pending row is taken for abandoned (15 min)
  RunTimeout         \* age at which a run's context is canceled (10 min)

ASSUME OutboxAssumption ==
  /\ Events \subseteq Nat
  /\ Notices \subseteq Events /\ NoAddress \subseteq Events
  /\ BatchSize \in Nat \ {0} /\ MaxAttempts \in Nat \ {0}
  /\ RunTimeout \in Nat /\ VisibilityTimeout \in Nat
  /\ RunTimeout < VisibilityTimeout

VARIABLES
  rows,     \* notification_log, by event; attempts counted up to MaxAttempts
  orders,   \* how each notice's order stands now
  run,      \* where each process is and what it has in hand
  delivered \* the events some email has gone out for

vars == <<rows, orders, run, delivered>>

Stale == VisibilityTimeout + 1
NoRow == [status |-> "none", attempts |-> 0, age |-> 0]
Off == [at |-> "off", age |-> 0, seen |-> {}, page |-> {}, full |-> FALSE]

Init ==
  /\ rows = [e \in Events |-> NoRow]
  /\ orders = [e \in Notices |-> "pending"]
  /\ run = [w \in Runs |-> Off]
  /\ delivered = {}

AtMost(x, bound) == IF x > bound THEN bound ELSE x

\* Mutant: a row left pending by a run that died is never taken again.
DueOnce(e) == rows[e].status = "none"

\* The claim's WHERE clause, on the statement's snapshot.
Due(e) ==
  \/ rows[e].status = "none"
  \/ rows[e].status = "pending" /\ rows[e].age > VisibilityTimeout

\* ORDER BY e.id LIMIT BatchSize.
FirstPage(S) == {e \in S : Cardinality({f \in S : f < e}) < BatchSize}

Current(w) == Min(run[w].page)

\* dispatchOne returned: on to the page's next event, or, the page done, to another
\* claim when it was full and to the end of the run when it was short.
Advance(w) ==
  LET rest == run[w].page \ {Current(w)}
  IN  run' = [run EXCEPT ![w] =
               IF rest # {} THEN [@ EXCEPT !.at = "dispatch", !.page = rest]
               ELSE IF @.full THEN [@ EXCEPT !.at = "claim", !.page = {}]
               ELSE Off]

Start(w) ==
  /\ run[w].at = "off"
  /\ run' = [run EXCEPT ![w].at = "claim"]
  /\ UNCHANGED <<rows, orders, delivered>>

\* ClaimNotifiableEvents is one statement, and PostgreSQL runs it in three steps that
\* another run's statement can fall between: the statement's snapshot is taken, ...
ClaimSnapshot(w) ==
  /\ run[w].at = "claim"
  /\ run' = [run EXCEPT ![w].at = "lock", ![w].seen = {e \in Events : Due(e)}]
  /\ UNCHANGED <<rows, orders, delivered>>

\* ... the event rows it found are locked, those another statement has locked at this
\* moment skipped (nothing re-evaluates the WHERE clause: the event row itself never
\* changes), ...
ClaimLock(w) ==
  /\ run[w].at = "lock"
  /\ LET locked == UNION {run[v].page : v \in {u \in Runs : run[u].at = "upsert"}}
         page   == FirstPage(run[w].seen \ locked)
     IN  run' = [run EXCEPT ![w].at = "upsert", ![w].seen = {}, ![w].page = page]
  /\ UNCHANGED <<rows, orders, delivered>>

\* The claim came back with rows: a full page asks for another claim after it.
Claimed(r) == [r EXCEPT !.at = "dispatch", !.full = Cardinality(r.page) = BatchSize]

\* Mutant: a row claimed again keeps the time of its first attempt.
ClaimUpsertKeepingTime(w) ==
  /\ run[w].at = "upsert"
  /\ rows' = [e \in Events |->
       IF e \notin run[w].page THEN rows[e]
       ELSE IF rows[e] = NoRow THEN [status |-> "pending", attempts |-> 1, age |-> 0]
       ELSE [rows[e] EXCEPT !.attempts = AtMost(@ + 1, MaxAttempts)]]
  /\ run' = [run EXCEPT ![w] = IF @.page = {} THEN Off ELSE Claimed(@)]
  /\ UNCHANGED <<orders, delivered>>

\* ... and their log rows are inserted, or on conflict counted up and stamped whatever
\* their status has become.  An empty page ends the run.
ClaimUpsert(w) ==
  /\ run[w].at = "upsert"
  /\ rows' = [e \in Events |->
       IF e \notin run[w].page THEN rows[e]
       ELSE IF rows[e] = NoRow THEN [status |-> "pending", attempts |-> 1, age |-> 0]
       ELSE [rows[e] EXCEPT !.attempts = AtMost(@ + 1, MaxAttempts), !.age = 0]]
  /\ run' = [run EXCEPT ![w] = IF @.page = {} THEN Off ELSE Claimed(@)]
  /\ UNCHANGED <<orders, delivered>>

\* dispatchOne reads the schedule and, for a notice, its order as it stands now.  No
\* address, or an order no longer pending, goes straight to marking the row resolved.
Read(w) ==
  /\ run[w].at = "dispatch"
  /\ LET e == Current(w)
         resolved == e \in NoAddress \/ (e \in Notices /\ orders[e] = "settled")
     IN  run' = [run EXCEPT ![w].at = IF resolved THEN "mark sent" ELSE "send"]
  /\ UNCHANGED <<rows, orders, delivered>>

\* Mutant: the sender's error is dropped.
SendIgnoringError(w) ==
  /\ run[w].at = "send"
  /\ \/ delivered' = delivered \union {Current(w)}
     \/ UNCHANGED delivered
  /\ run' = [run EXCEPT ![w].at = "mark sent"]
  /\ UNCHANGED <<rows, orders>>

\* Postmark takes the message, refuses it, or takes it and the answer is lost.
Send(w) ==
  /\ run[w].at = "send"
  /\ \/ /\ delivered' = delivered \union {Current(w)}
        /\ \E at \in {"mark sent", "mark failed"} : run' = [run EXCEPT ![w].at = at]
     \/ /\ UNCHANGED delivered
        /\ run' = [run EXCEPT ![w].at = "mark failed"]
  /\ UNCHANGED <<rows, orders>>

MarkNotificationSent(w) ==
  /\ run[w].at = "mark sent"
  /\ rows' = [rows EXCEPT ![Current(w)].status = "sent"]
  /\ Advance(w)
  /\ UNCHANGED <<orders, delivered>>

\* Mutant: the last attempt's failure is written with a status the schema has not.
MarkNotificationAbandoned(w) ==
  /\ run[w].at = "mark failed"
  /\ rows' = [rows EXCEPT ![Current(w)].status =
                IF rows[Current(w)].attempts >= MaxAttempts THEN "abandoned" ELSE "pending"]
  /\ Advance(w)
  /\ UNCHANGED <<orders, delivered>>

MarkNotificationFailed(w) ==
  /\ run[w].at = "mark failed"
  /\ rows' = [rows EXCEPT ![Current(w)].status =
                IF rows[Current(w)].attempts >= MaxAttempts THEN "failed" ELSE "pending"]
  /\ Advance(w)
  /\ UNCHANGED <<orders, delivered>>

\* A read, the render or a mark fails: the error is logged and the loop goes on, the
\* row left as the claim wrote it.
DispatchError(w) ==
  /\ run[w].at \in {"dispatch", "mark sent", "mark failed"}
  /\ Advance(w)
  /\ UNCHANGED <<rows, orders, delivered>>

\* The process dies, or the claim fails; its locks go with it.
Crash(w) ==
  /\ run[w].at # "off"
  /\ run' = [run EXCEPT ![w] = Off]
  /\ UNCHANGED <<rows, orders, delivered>>

\* A notice's order is skipped, canceled or placed.  Deferring it changes nothing the
\* dispatcher looks at: however far the date moves, the order stays pending.
SettleOrder(e) ==
  /\ orders[e] = "pending"
  /\ orders' = [orders EXCEPT ![e] = "settled"]
  /\ UNCHANGED <<rows, run, delivered>>

\* A unit of time.  A run never outlives RunTimeout: its context is canceled and every
\* call it has left fails.  A claim's statement is short beside the unit.
Tick ==
  /\ \A w \in Runs : run[w].age < RunTimeout /\ run[w].at \notin {"lock", "upsert"}
  /\ rows' = [e \in Events |->
                IF rows[e].status = "none" THEN rows[e]
                ELSE [rows[e] EXCEPT !.age = AtMost(@ + 1, Stale)]]
  /\ run' = [w \in Runs |-> IF run[w].at = "off" THEN run[w]
                            ELSE [run[w] EXCEPT !.age = @ + 1]]
  /\ UNCHANGED <<orders, delivered>>

RunStep(w) ==
  \/ Start(w) \/ ClaimSnapshot(w) \/ ClaimLock(w) \/ ClaimUpsert(w) \/ Read(w)
  \/ Send(w) \/ MarkNotificationSent(w) \/ MarkNotificationFailed(w)

Next ==
  \/ \E w \in Runs : RunStep(w) \/ DispatchError(w) \/ Crash(w)
  \/ \E e \in Notices : SettleOrder(e)
  \/ Tick

Spec == Init /\ [][Next]_vars

\* Time passes, the scheduler keeps starting runs, and a run goes on or ends.  Any run
\* may crash anywhere and any read or mark may fail, but not every time: a step that keeps
\* coming up is taken in the end, by whichever run, and so is the claim of some event.
\* (An event whose every attempt died before its outcome was recorded would be retried
\* for ever, the cap notwithstanding.)
Fairness ==
  /\ []<><<Tick>>_vars
  /\ \A w \in Runs : WF_vars(RunStep(w))
  /\ SF_vars(\E w \in Runs : ClaimSnapshot(w))
  /\ SF_vars(\E w \in Runs : ClaimLock(w))
  /\ SF_vars(\E w \in Runs : ClaimUpsert(w) /\ run[w].page # {})
  /\ SF_vars(\E w \in Runs : Read(w))
  /\ SF_vars(\E w \in Runs : Send(w))
  /\ SF_vars(\E w \in Runs : MarkNotificationSent(w) \/ MarkNotificationFailed(w))

FairSpec == Spec /\ Fairness

-----------------------------------------------------------------------------
\* The events a run has claimed and not yet finished with.
InHand(w) ==
  IF run[w].at \in {"dispatch", "send", "mark sent", "mark failed"} THEN run[w].page ELSE {}

TypeOK ==
  /\ rows \in [Events -> [status : {"none", "pending", "sent", "failed"},
                          attempts : 0..MaxAttempts, age : 0..Stale]]
  /\ orders \in [Notices -> {"pending", "settled"}]
  /\ run \in [Runs -> [at : {"off", "claim", "lock", "upsert", "dispatch", "send",
                             "mark sent", "mark failed"},
                       age : 0..RunTimeout, seen : SUBSET Events,
                       page : SUBSET Events, full : BOOLEAN]]
  /\ delivered \subseteq Events

(* A row reads sent only if an email went out, or there was nothing to send:  *)
(* no address, or an order that is not coming.  No crash, lost answer or      *)
(* overlap of runs loses an email that way (docs/adr/0010, at-least-once).    *)
SentMeansHandled ==
  \A e \in Events :
    rows[e].status = "sent" =>
      \/ e \in delivered
      \/ e \in NoAddress
      \/ e \in Notices /\ orders[e] = "settled"

(* While a run has an event in hand no claim that starts now can take it for  *)
(* abandoned, however slow the run is and however many pages it walks         *)
(* (visibilityTimeout against cmd/notify's own timeout).                      *)
ClaimOutlivesItsRun ==
  \A w \in Runs : \A e \in InHand(w) : ~Due(e)

(* Every event is resolved in the end and stays resolved: its email sent, or  *)
(* given up on after MaxAttempts (RunAll; MarkNotificationFailed).            *)
EveryEventIsResolved ==
  \A e \in Events : <>[](rows[e].status \in {"sent", "failed"})

(* "Two overlapping cmd/notify runs cannot both claim the same event."        *)
OneRunPerEvent ==
  \A v, w \in Runs : v # w => InHand(v) \intersect InHand(w) = {}
=============================================================================

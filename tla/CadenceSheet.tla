---------------------------- MODULE CadenceSheet ----------------------------
(***************************************************************************)
(* The cadence sheet's preview (web/portal/src/sheet-cadence.js) beside    *)
(* the service that then carries the change out: the same arithmetic,      *)
(* written a second time in the portal, from the orders on screen.         *)
(***************************************************************************)
EXTENDS Schedule

\* Orders as the sheet and the queue sort them: the date, and the number that breaks a
\* tie.
OrdersWith(d, statuses) == {<<d.occ[i].date, i>> : i \in WithStatus(d, statuses)}

Sooner(o, p) == o[1] < p[1] \/ (o[1] = p[1] /\ o[2] < p[2])

\* The order with n - 1 others before it.
Nth(orders, n) ==
  CHOOSE o \in orders : Cardinality({p \in orders : Sooner(p, o)}) = n - 1

DatesInOrder(orders) == [n \in 1..Cardinality(orders) |-> Nth(orders, n)[1]]

\* Mutant: the orders on screen are not looked at.
previewFromToday == today

\* The latest placed order's date, or today where nothing has been placed.
previewAnchor ==
  IF LastPlacedDate(db) = {} THEN today ELSE Max(LastPlacedDate(db))

\* How many dates a column of the preview shows.
count == 3

\* Mutant: every date is computed anew, the armed order's too.
previewEveryDateAnew(anchor, interval, armed) ==
  [n \in 1..count |-> OccurrenceDate(anchor, interval, n)]

\* Armed orders keep their dates and come first; the generated dates fill in
\* behind them, without the ones an armed order already has.
previewDates(anchor, interval, armed) ==
  LET kept      == {o[1] : o \in armed}
      generated == {<<OccurrenceDate(anchor, interval, n), n>> : n \in 1..count}
      fillIn    == {o \in generated : o[1] \notin kept}
  IN  SubSeq(DatesInOrder(armed) \o DatesInOrder(fillIn), 1, count)

(* What the sheet shows for an interval is what saving it gives, as far as    *)
(* the service plans, wherever the first date on the new rhythm is still      *)
(* ahead and no armed order lies past it (previewDates' comment: "the preview *)
(* claims to mirror the service").  Elsewhere the service starts further on   *)
(* than the preview, which knows of neither today nor the armed order's date  *)
(* when it counts.                                                            *)
PreviewIsKept ==
  [][\A interval \in Intervals :
       LET armed == OrdersWith(db, {"pending"})
           first == OccurrenceDate(previewAnchor, interval, 1)
           shown == previewDates(previewAnchor, interval, armed)
           given == DatesInOrder(OrdersWith(db', Unsettled))
       IN  /\ db.status = "active" /\ ChangeCadence(interval)
           /\ today < first /\ \A o \in armed : o[1] <= first
           => \A n \in 1..Min({count, Len(given)}) : shown[n] = given[n]]_vars
=============================================================================

------------------------------- MODULE Cadence -------------------------------
(***************************************************************************)
(* The calendar arithmetic of internal/domain/cadence.go.  A domain.Date   *)
(* is a day number: the code carries no time of day, adds days and         *)
(* compares, and nothing in it depends on where months end.                *)
(***************************************************************************)
EXTENDS Integers

\* The nth shipment of a cadence, always computed from the anchor.
OccurrenceDate(anchor, interval, n) == anchor + interval * n

\* Mutant: the division is taken for a ceiling and the step past is lost.
NextSequenceNoStep(anchor, interval, after) ==
  LET elapsed == after - anchor
  IN  IF elapsed < 0 THEN 1 ELSE elapsed \div interval

\* The index of the first shipment strictly after a date.  An anchor still in
\* the future has shipment 1 ahead of it.  The code divides, adds one, and steps
\* once more if that did not land past the date.
NextSequence(anchor, interval, after) ==
  LET elapsed == after - anchor
      n       == (elapsed \div interval) + 1
  IN  IF elapsed < 0 THEN 1
      ELSE IF OccurrenceDate(anchor, interval, n) > after THEN n
      ELSE n + 1

\* The date half of NextOccurrenceAfter's answer, the half its callers use.
NextOccurrenceAfter(anchor, interval, after) ==
  OccurrenceDate(anchor, interval, NextSequence(anchor, interval, after))

\* The ith date the materializer's loop plans, starting behind cursor.  The loop
\* advances its cursor to each date it gets back; module MaterializeLoop runs it
\* turn by turn and shows that it visits exactly these dates.
PlannedDate(anchor, interval, cursor, i) ==
  OccurrenceDate(anchor, interval, NextSequence(anchor, interval, cursor) + i - 1)

\* d falls on the cadence: a whole number of intervals, at least one, after the
\* anchor.  A reference definition, by remainder where the code multiplies.
OnCadence(anchor, interval, d) == d > anchor /\ (d - anchor) % interval = 0
=============================================================================

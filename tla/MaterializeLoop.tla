--------------------------- MODULE MaterializeLoop ---------------------------
(***************************************************************************)
(* Materializer.Run's planning loop (internal/materialize/materialize.go), *)
(* turn by turn: the cursor starts at the later of today and the latest    *)
(* date already spoken for, and each turn plans the first cadence date     *)
(* strictly after it and moves the cursor there.                           *)
(***************************************************************************)
EXTENDS Cadence, Sequences

CONSTANTS
  Anchors,    \* anchor dates a schedule may have
  Intervals,  \* intervals, inside the 7..180 that ValidateInterval admits
  Dates,      \* dates that today and the latest planned order may fall on
  MaxMissing, \* how many occurrences one run may have to plan
  NoDate      \* SQL NULL: no unsettled occurrence

ASSUME LoopAssumption ==
  /\ Anchors \subseteq Int
  /\ Intervals \subseteq 7..180
  /\ Dates \subseteq Int
  /\ MaxMissing \in Nat
  /\ NoDate \notin Int

VARIABLES
  anchor, interval, \* the locked row's cadence
  today,            \* the date the run was given
  latest,           \* LatestScheduledDate's answer
  missing,          \* horizon less the planned occurrences that exist
  cursor,           \* where the loop has walked to
  dates             \* the dates it has planned

inputs == <<anchor, interval, today, latest, missing>>
vars == <<inputs, cursor, dates>>

\* Mutant: a latest date before today is taken too, so the past is planned.
StartFromLatest(t, l) == IF l # NoDate THEN l ELSE t

\* Continue from the furthest date spoken for, but never from before today.
Start(t, l) == IF l # NoDate /\ l > t THEN l ELSE t

Init ==
  /\ anchor \in Anchors
  /\ interval \in Intervals
  /\ today \in Dates
  /\ latest \in Dates \union {NoDate}
  /\ missing \in 1..MaxMissing
  /\ cursor = Start(today, latest)
  /\ dates = <<>>

\* Mutant: the date is accumulated onto the last one instead of being recomputed
\* from the anchor.
PlanByAdding ==
  /\ Len(dates) < missing
  /\ cursor' = cursor + interval
  /\ dates' = Append(dates, cursor')
  /\ UNCHANGED inputs

\* Mutant: one turn too many.
PlanOnePastTheHorizon ==
  /\ Len(dates) <= missing
  /\ cursor' = NextOccurrenceAfter(anchor, interval, cursor)
  /\ dates' = Append(dates, cursor')
  /\ UNCHANGED inputs

\* One turn of the loop.
Plan ==
  /\ Len(dates) < missing
  /\ cursor' = NextOccurrenceAfter(anchor, interval, cursor)
  /\ dates' = Append(dates, cursor')
  /\ UNCHANGED inputs

Next == Plan
Spec == Init /\ [][Next]_vars

-----------------------------------------------------------------------------
TypeOK ==
  /\ anchor \in Anchors
  /\ interval \in Intervals
  /\ today \in Dates
  /\ latest \in Dates \union {NoDate}
  /\ missing \in 1..MaxMissing
  /\ cursor \in Int
  /\ dates \in Seq(Int)
  /\ Len(dates) <= missing

(* The loop visits the dates that one anchor-relative formula names, however  *)
(* many turns it takes: walking the cursor forward never accumulates drift    *)
(* (cadence.go, OccurrenceDate's comment; docs/adr/0004).                     *)
NoDrift ==
  \A i \in DOMAIN dates :
    dates[i] = PlannedDate(anchor, interval, Start(today, latest), i)

(* Between where the loop started and where it stands, the dates planned are  *)
(* exactly the dates on the cadence: none is missed, none is off it, and none *)
(* is today, in the past, or at or before a date already spoken for.          *)
WalksEveryCadenceDate ==
  /\ \A d \in (Start(today, latest) + 1)..cursor :
       OnCadence(anchor, interval, d) <=> \E i \in DOMAIN dates : dates[i] = d
  /\ \A i \in DOMAIN dates :
       dates[i] > today /\ (latest # NoDate => dates[i] > latest)
=============================================================================

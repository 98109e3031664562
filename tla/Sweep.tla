------------------------------- MODULE Sweep -------------------------------
(***************************************************************************)
(* The nightly sweep (internal/sweep/sweep.go, cmd/sweep) beside everyone  *)
(* else who changes the schedule.  A pass lists candidates and decides     *)
(* what is due outside any lock, then calls the service, which locks the   *)
(* row and re-checks only what the transition itself requires; a           *)
(* customer's request can commit between any two of these steps.  The      *)
(* loop's turns for other schedules touch none of this schedule's rows.    *)
(***************************************************************************)
EXTENDS Schedule

ArmWindowDays == 3

VARIABLES
  pc,    \* where the pass stands; "idle" when none is running
  listed, \* the paused_until the resume listing read
  peeked \* the order the arm loop read as the next planned one

pass == <<pc, listed, peeked>>
sweepVars == <<vars, pass>>

Nothing == [seq |-> 0, date |-> NoDate]

SweepInit == Init /\ pc = "idle" /\ listed = NoDate /\ peeked = Nothing

Goto(at) == pc' = at /\ listed' = NoDate /\ peeked' = Nothing

\* Mutant: only pauses that end on the very day of the run are listed.
ListDueThatDay(runDate) ==
  /\ db.status = "paused"
  /\ db.pausedUntil # NoDate
  /\ db.pausedUntil = runDate + 1

\* Mutant: a pause with no end date reads as one whose end has come.
ListUnlessTooEarly(runDate) ==
  /\ db.status = "paused"
  /\ db.pausedUntil = NoDate \/ db.pausedUntil <= runDate + 1

\* The listing takes a day more than the run's UTC date, for customers whose own date
\* is already ahead of it.
ListSchedulesDueToResume(runDate) ==
  /\ db.status = "paused"
  /\ db.pausedUntil # NoDate
  /\ db.pausedUntil <= runDate + 1

\* Mutant: only orders that enter the window on the day of the run are listed.
ListArmsThatDay(runDate) ==
  /\ db.status = "active"
  /\ \E i \in WithStatus(db, {"planned"}) :
       db.occ[i].date = runDate + ArmWindowDays + 1

ListSchedulesDueToArm(runDate) ==
  /\ db.status = "active"
  /\ \E i \in WithStatus(db, {"planned"}) :
       db.occ[i].date <= runDate + ArmWindowDays + 1

\* cmd/sweep runs ResumeDue first.
BeginResume ==
  /\ pc = "idle"
  /\ UNCHANGED vars
  /\ \E runDate \in RunDates :
       IF ListSchedulesDueToResume(runDate)
       THEN pc' = "resume" /\ listed' = db.pausedUntil /\ UNCHANGED peeked
       ELSE Goto("begin arm")

\* The candidate's turn: not due on the customer's own calendar, resumed, or found
\* already moved when Resume took the lock.
ResumeDue ==
  /\ pc = "resume"
  /\ Goto("begin arm")
  /\ \/ listed <= today /\ Resume
     \/ (listed > today \/ ~ValidTransition("resume")) /\ UNCHANGED vars

\* The resume pass fails, its listing or the candidate's turn, with nothing committed;
\* the arm pass runs regardless.
ResumeFails ==
  /\ pc \in {"idle", "resume"}
  /\ Goto("begin arm")
  /\ UNCHANGED vars

BeginArm ==
  /\ pc = "begin arm"
  /\ UNCHANGED vars
  /\ \E runDate \in RunDates :
       Goto(IF ListSchedulesDueToArm(runDate) THEN "peek" ELSE "idle")

\* Mutant: whatever the listing over-selected is taken as due.
PeekListed ==
  /\ pc = "peek"
  /\ UNCHANGED <<vars, listed>>
  /\ \E i \in DOMAIN db.occ :
       /\ IsSoonest(db, {"planned"}, i)
       /\ peeked' = [seq |-> i, date |-> db.occ[i].date]
       /\ pc' = "arm"

\* NextPlannedOccurrence, read with no lock held, and the decision whether it has
\* come within ArmWindowDays on the customer's own calendar.
PeekArm ==
  /\ pc = "peek"
  /\ UNCHANGED <<vars, listed>>
  /\ LET due == {i \in DOMAIN db.occ : /\ IsSoonest(db, {"planned"}, i)
                                       /\ db.occ[i].date - ArmWindowDays <= today}
     IN  IF due = {} THEN pc' = "idle" /\ UNCHANGED peeked
         ELSE /\ pc' = "arm"
              /\ \E i \in due : peeked' = [seq |-> i, date |-> db.occ[i].date]

\* Mutant: the order that was peeked is armed, without resolving the target again.
ArmPeekedRow ==
  /\ pc = "arm"
  /\ Goto("idle")
  /\ Commit(Armed(db, peeked.seq))

\* ArmNext locks the row and resolves the target again, but not whether it is due.
ArmDue ==
  /\ pc = "arm"
  /\ Goto("idle")
  /\ \/ ArmNext
     \/ /\ ~ValidTransition("arm") \/ WithStatus(db, {"planned"}) = {}
        /\ UNCHANGED vars

\* An arm pass that fails, or a sweep that is killed or runs out of its ten minutes,
\* leaves only what it committed; the next one starts over.
Abort == pc # "idle" /\ Goto("idle") /\ UNCHANGED vars

\* Bound: a pause leaves room under MaxOccurrences for the orders resuming it plans.
RoomToResume == db'.status = "paused" => Len(db'.occ) + Horizon <= MaxOccurrences

Others ==
  /\ UNCHANGED pass
  /\ \/ Customer /\ RoomToResume
     \/ \E runDate \in RunDates : Materialize(runDate)
     \/ PlaceOrder
     \/ NextDay

SweepNext ==
  \/ Others
  \/ BeginResume \/ ResumeDue \/ ResumeFails
  \/ BeginArm \/ PeekArm \/ ArmDue \/ Abort

SweepSpec == SweepInit /\ [][SweepNext]_sweepVars

\* The scheduler starts a pass every night and the days go by.  A pass may fail or be
\* aborted, but not every pass: whatever keeps coming up in passes is carried out.
\* Customers, the materializer and the order pipeline owe nothing.
SweepFairness ==
  /\ WF_sweepVars(NextDay /\ UNCHANGED pass)
  /\ SF_sweepVars(BeginResume) /\ SF_sweepVars(ResumeDue)
  /\ SF_sweepVars(BeginArm) /\ SF_sweepVars(PeekArm) /\ SF_sweepVars(ArmDue)

FairSweepSpec == SweepSpec /\ SweepFairness

-----------------------------------------------------------------------------
SweepTypeOK ==
  /\ TypeOK
  /\ pc \in {"idle", "resume", "begin arm", "peek", "arm"}
  /\ listed \in Int \union {NoDate}
  /\ peeked \in [seq : Nat, date : Int \union {NoDate}]

(* A pass that reads before it locks still only ever does what one locked     *)
(* transition could do by itself: its interleaving with customers is          *)
(* invisible in the rows (sweep.go, "Resume locks the row and re-checks").    *)
ImplementsSchedule == Spec

(* The sweep arms an order outside its pre-billing window only when somebody  *)
(* moved, skipped or canceled the order it had found due: one left alone is   *)
(* armed itself, and inside the window (ArmDue; ArmWindowDays).               *)
ArmsWhatWasDue ==
  [][\A i \in WithStatus(db, {"planned"}) :
       /\ pass' # pass /\ db'.occ[i].status = "pending"
       /\ db.occ[peeked.seq] = [date |-> peeked.date, status |-> "planned"]
       => db.occ[i].date <= today + ArmWindowDays]_sweepVars

(* A pause without an end date, begun or standing while no pass has this      *)
(* schedule in hand, lasts until the customer resumes or cancels: no pass     *)
(* takes it up, however many run and wherever they stop, and neither a        *)
(* cadence change, the materializer nor the days give it an end ("a pause     *)
(* with no paused_until is indefinite", ResumeDue; ListSchedulesDueToResume). *)
IndefinitePausesStand ==
  [][db.status = "paused" /\ db.pausedUntil = NoDate /\ pc # "resume" =>
       \/ db'.status = "paused" /\ db'.pausedUntil = NoDate /\ pc' # "resume"
       \/ (Resume \/ Cancel) /\ UNCHANGED pass]_sweepVars

(* Every timed pause that the days reach is over in the end, by the customer  *)
(* or by the sweep, however often passes are aborted (ResumeDue).             *)
TimedPauseEnds ==
  LET inTimedPause == db.status = "paused" /\ db.pausedUntil \in FirstDay..LastDay
  IN  inTimedPause ~> ~inTimedPause

(* No planned order stays unarmed inside its window: each is armed in the     *)
(* end, unless the customer skips, moves or cancels it first (ArmDue; spec    *)
(* section 5 step 2).                                                         *)
DueOrdersAreArmed ==
  LET due == DatesOf(db, {"planned"}, FirstDay) \intersect FirstDay..(LastDay + ArmWindowDays)
  IN  due # {} ~> due = {}

(* The sweep's own claim, without that proviso: what it arms "has come        *)
(* within ArmWindowDays of its date".                                         *)
ArmsInsideTheWindow ==
  [][pc = "arm" /\ pc' = "idle" =>
       \A i \in WithStatus(db, {"planned"}) :
         db'.occ[i].status = "pending" => db.occ[i].date <= today + ArmWindowDays]_sweepVars

(* The sweep's own claim, without the proviso that no pass has the schedule   *)
(* in hand: a pause with no paused_until "is never touched" (ResumeDue).      *)
IndefinitePausesAreNeverTouched ==
  [][db.status = "paused" /\ db.pausedUntil = NoDate /\ pass' # pass => db' = db]_sweepVars

(* The date the portal leads with as the next order is no later than any      *)
(* order still to come, the armed one included.                               *)
NextRunHidesNoOrder ==
  \A i \in WithStatus(db, Unsettled) :
    db.occ[i].date > today /\ db.nextRun # NoDate => db.nextRun <= db.occ[i].date
=============================================================================

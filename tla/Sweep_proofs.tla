---------------------------- MODULE Sweep_proofs ----------------------------
(***************************************************************************)
(* The sweep's reads outside the lock, for every schedule and every bound: *)
(* what it does to the rows is what the schedule's own transitions could   *)
(* do, so the schedule's invariants carry over, and what it read is due    *)
(* stays due until it acts.                                                *)
(***************************************************************************)
EXTENDS Sweep, Queue_proofs

(* A pass that starts has started on a schedule that starts.                 *)
LEMMA SweepStartsAsSchedule == SweepInit => Init
  BY DEF SweepInit

(* Each step of a pass is one transition of the schedule, or none.           *)
LEMMA SweepStepsAsSchedule == [SweepNext]_sweepVars => [Next]_vars
  <1> SUFFICES ASSUME [SweepNext]_sweepVars PROVE [Next]_vars
    OBVIOUS
  <1>1. CASE Others
    BY <1>1 DEF Others, Next
  <1>2. CASE BeginResume
    BY <1>2 DEF BeginResume
  <1>3. CASE ResumeDue
    BY <1>3 DEF ResumeDue, Next, Customer
  <1>4. CASE BeginArm
    BY <1>4 DEF BeginArm
  <1>5. CASE PeekArm
    BY <1>5 DEF PeekArm
  <1>6. CASE ArmDue
    BY <1>6 DEF ArmDue, Next
  <1>7. CASE Abort
    BY <1>7 DEF Abort
  <1>8. CASE ResumeFails
    BY <1>8 DEF ResumeFails
  <1>9. CASE UNCHANGED sweepVars
    BY <1>9 DEF sweepVars
  <1> QED
    BY <1>1, <1>2, <1>3, <1>4, <1>5, <1>6, <1>7, <1>8, <1>9 DEF SweepNext

(* The sweep beside customers, the materializer and the order pipeline       *)
(* implements the schedule that knows nothing of it.                         *)
THEOREM SweepImplementsSchedule == SweepSpec => ImplementsSchedule
  BY SweepStartsAsSchedule, SweepStepsAsSchedule, PTL
     DEF SweepSpec, ImplementsSchedule, Spec

(* So a pass that reads outside the lock breaks no invariant of the schedule, *)
(* wherever it is aborted (internal/sweep; ResumeDue, ArmDue).                *)
THEOREM SweepKeepsTheScheduleSound ==
  SweepSpec => /\ []NothingOutstandingUnlessActive /\ []LogAgrees
               /\ []PlannedOnCadence /\ []LaterOrdersLandLater
               /\ []NextRunHidesNothing /\ []NextRunNamesAnOrder
  BY SweepImplementsSchedule, InactiveMeansQuiet, LogNeverDiverges,
     PlannedStaysOnCadence, LaterOrdersKeepLandingLater, NextRunHidesNoPlannedOrder,
     NextRunAlwaysNamesAnOrder, PTL
     DEF ImplementsSchedule

(* Nor any promise about a step: the sweep arms and resumes, and takes nothing *)
(* back, acts on no key, resumes with the order it announces, and leaves what  *)
(* a cadence's sheet shows true (internal/sweep; ResumeDue; previewDates).     *)
THEOREM SweepKeepsThePromises ==
  SweepSpec => /\ SettledStaysSettled /\ NoticeStands /\ EachKeyActsOnce
               /\ PlanningFillsTheQueue /\ ResumePlansWhatItAnnounces /\ PreviewIsKept
  BY SweepImplementsSchedule, SettledOrdersStand, AnnouncedOrdersStand,
     KeysActOnceForEver, PlanningKeepsTheQueueFull, ResumePlansWhatItSays,
     SheetShowsWhatIsSaved, PTL
     DEF ImplementsSchedule

-----------------------------------------------------------------------------
(* What the pass holds between its read and its transition: an order whose   *)
(* date had come within the window when it was read, which the days going by *)
(* can only bring closer.                                                    *)
HeldOrderIsDue ==
  pc = "arm" =>
    /\ peeked.seq \in DOMAIN db.occ
    /\ peeked.date \in Int /\ peeked.date <= today + ArmWindowDays

(* A day is never taken back.                                                *)
LEMMA DaysOnlyPass ==
  ASSUME today \in Int, [SweepNext]_sweepVars
  PROVE  today' \in Int /\ today =< today'
  <1>1. [Next]_vars
    BY SweepStepsAsSchedule
  <1>2. today' = today \/ today' = today + 1
    BY <1>1 DEF Next, Customer, Pause, Resume, SkipNext, Defer, ChangeCadence, Cancel,
       ArmNext, Materialize, PlaceOrder, NextDay, Commit, vars
  <1> QED
    BY <1>2

(* Only peeking takes an order in hand, and nothing makes it less due.       *)
LEMMA HeldOrderStaysDue ==
  ASSUME IInv, HeldOrderIsDue, [SweepNext]_sweepVars
  PROVE  HeldOrderIsDue'
  <1>1. today \in Int /\ today' \in Int /\ today =< today'
    BY DaysOnlyPass DEF IInv, TypeOK
  <1>2. CASE UNCHANGED <<pc, peeked>>
    <2>1. DOMAIN db.occ \subseteq DOMAIN db'.occ
      BY SweepStepsAsSchedule, StepsCommit DEF Commits, Kept
    <2> QED
      BY <1>1, <1>2, <2>1 DEF HeldOrderIsDue, ArmWindowDays
  <1>3. CASE pc' # "arm"
    BY <1>3 DEF HeldOrderIsDue
  <1>4. CASE PeekArm /\ pc' = "arm"
    <2>1. PICK i \in DOMAIN db.occ :
            /\ db.occ[i].date - ArmWindowDays <= today
            /\ peeked' = [seq |-> i, date |-> db.occ[i].date]
      BY <1>4 DEF PeekArm
    <2>2. db.occ[i].date \in Int
      BY RowsHaveOrders, OrdersOf DEF IInv, TypeOK
    <2>3. today' = today /\ db' = db
      BY <1>4 DEF PeekArm, vars
    <2> QED
      BY <1>1, <2>1, <2>2, <2>3 DEF HeldOrderIsDue, ArmWindowDays
  <1> QED
    BY <1>2, <1>3, <1>4 DEF SweepNext, Others, BeginResume, ResumeDue, BeginArm, PeekArm,
       ArmDue, ResumeFails, Abort, Goto, pass, sweepVars

(* Holding throughout, whatever the sweep interleaves with.                  *)
LEMMA SweepInvariance == SweepSpec => [](IInv /\ HeldOrderIsDue)
  <1>1. SweepInit => HeldOrderIsDue
    BY DEF SweepInit, HeldOrderIsDue
  <1>2. IInv /\ HeldOrderIsDue /\ [SweepNext]_sweepVars => HeldOrderIsDue'
    BY HeldOrderStaysDue
  <1>3. SweepSpec => []IInv
    BY SweepImplementsSchedule, Invariance DEF ImplementsSchedule
  <1> QED
    BY <1>1, <1>2, <1>3, PTL DEF SweepSpec

-----------------------------------------------------------------------------
\* The variables of a pass, well-formed: where it is, what it listed, what it peeked.
Stages == {"idle", "resume", "begin arm", "peek", "arm"}
Dates == Int \union {NoDate}
Peeks == [seq : Nat, date : Dates]

PassOK == pc \in Stages /\ listed \in Dates /\ peeked \in Peeks

(* What a pass lists and peeks is read from well-formed rows.                 *)
THEOREM SweepTypeCorrect == SweepSpec => []SweepTypeOK
  <1>1. NoDate \in Dates /\ Nothing \in Peeks
    BY DEF Dates, Peeks, Nothing
  <1>2. SweepInit => PassOK
    BY <1>1 DEF SweepInit, PassOK, Stages
  <1>3. IInv /\ PassOK /\ [SweepNext]_sweepVars => PassOK'
    <2> SUFFICES ASSUME IInv, PassOK, [SweepNext]_sweepVars
                 PROVE  PassOK'
      OBVIOUS
    <2>1. db.pausedUntil \in Dates
      BY DEF IInv, TypeOK, Rows, Dates
    <2>2. ASSUME NEW i \in DOMAIN db.occ
          PROVE  [seq |-> i, date |-> db.occ[i].date] \in Peeks
      <3>1. i \in Nat /\ db.occ[i].date \in Int
        BY RowsHaveOrders, OrdersOf DEF IInv, TypeOK
      <3> QED
        BY <3>1 DEF Peeks, Dates
    <2>3. CASE PeekArm
      <3>1. pc' \in Stages /\ listed' = listed
        BY <2>3 DEF PeekArm, Stages
      <3>2. \/ peeked' = peeked
            \/ \E i \in DOMAIN db.occ : peeked' = [seq |-> i, date |-> db.occ[i].date]
        BY <2>3 DEF PeekArm
      <3> QED
        BY <2>2, <3>1, <3>2 DEF PassOK
    <2>4. CASE BeginResume
      <3>1. \/ pc' = "resume" /\ listed' = db.pausedUntil /\ peeked' = peeked
            \/ pc' = "begin arm" /\ listed' = NoDate /\ peeked' = Nothing
        BY <2>4 DEF BeginResume, Goto
      <3> QED
        BY <1>1, <2>1, <3>1 DEF PassOK, Stages
    <2>5. CASE ~PeekArm /\ ~BeginResume
      <3>1. \/ pc' = pc /\ listed' = listed /\ peeked' = peeked
            \/ pc' \in Stages /\ listed' = NoDate /\ peeked' = Nothing
        BY <2>5 DEF SweepNext, Others, ResumeDue, BeginArm, ArmDue, ResumeFails, Abort,
                    Goto, Stages, pass, sweepVars
      <3> QED
        BY <1>1, <3>1 DEF PassOK
    <2> QED
      BY <2>3, <2>4, <2>5
  <1>4. TypeOK /\ PassOK => SweepTypeOK
    BY DEF SweepTypeOK, PassOK, Stages, Dates, Peeks
  <1>5. IInv => TypeOK
    BY DEF IInv
  <1> QED
    BY <1>2, <1>3, <1>4, <1>5, SweepInvariance, PTL DEF SweepSpec

(* The sweep arms a late order only if the one it peeked has changed since:  *)
(* ArmNext takes the soonest planned order, and while the peeked one is      *)
(* still planned on its date the soonest is no later than that.              *)
THEOREM SweepArmsWhatWasDue == SweepSpec => ArmsWhatWasDue
  <1> DEFINE late == \A i \in WithStatus(db, {"planned"}) :
               /\ pass' # pass /\ db'.occ[i].status = "pending"
               /\ db.occ[peeked.seq] = [date |-> peeked.date, status |-> "planned"]
               => db.occ[i].date <= today + ArmWindowDays
  <1>1. ASSUME IInv, HeldOrderIsDue, SweepNext PROVE late
    <2> SUFFICES ASSUME NEW i \in WithStatus(db, {"planned"}),
                        pass' # pass, db'.occ[i].status = "pending",
                        db.occ[peeked.seq] = [date |-> peeked.date, status |-> "planned"]
                 PROVE  db.occ[i].date <= today + ArmWindowDays
      OBVIOUS
    <2>1. db \in Rows /\ today \in Int /\ i \in DOMAIN db.occ
      BY <1>1 DEF IInv, TypeOK, WithStatus
    <2>2. db.occ[i].status = "planned"
      BY DEF WithStatus
    <2>3. db' # db
      BY <2>2
    <2>4. CASE ResumeDue
      <3>1. db.status = "paused"
        BY <2>3, <2>4 DEF ResumeDue, Resume, ValidTransition, scheduleTransitions, vars
      <3>2. WithStatus(db, Unsettled) = {}
        BY <1>1, <3>1 DEF IInv, NothingOutstandingUnlessActive
      <3> QED
        BY <3>2 DEF WithStatus, Unsettled
    <2>5. CASE ArmDue
      <3>1. pc = "arm" /\ ArmNext
        BY <2>3, <2>5 DEF ArmDue, vars
      <3>2. PICK j \in DOMAIN db.occ :
              IsSoonest(db, {"planned"}, j) /\ db' = Armed(db, j)
        BY <3>1 DEF ArmNext, Commit
      <3>3. i = j
        <4>1. db'.occ = [db.occ EXCEPT ![j].status = "pending"]
          BY <2>1, <3>2 DEF Armed, AppendEvent, UpdateOccurrenceStatus, Rows
        <4> QED
          BY <2>1, <2>2, <4>1
      <3>4. peeked.seq \in WithStatus(db, {"planned"})
            /\ db.occ[peeked.seq].date = peeked.date
        BY <1>1, <3>1 DEF HeldOrderIsDue, WithStatus
      <3>5. db.occ[j].date < peeked.date \/ db.occ[j].date = peeked.date
        BY <3>2, <3>4 DEF IsSoonest
      <3>6. db.occ[j].date \in Int
        BY <2>1, RowsHaveOrders, OrdersOf
      <3> QED
        BY <1>1, <2>1, <3>1, <3>3, <3>5, <3>6 DEF HeldOrderIsDue, ArmWindowDays
    <2> QED
      BY <1>1, <2>3, <2>4, <2>5 DEF SweepNext, Others, BeginResume, BeginArm, PeekArm,
                                         ResumeFails, Abort, vars
  <1>2. IInv /\ HeldOrderIsDue /\ [SweepNext]_sweepVars => [late]_sweepVars
    BY <1>1
  <1> QED
    BY <1>2, SweepInvariance, PTL DEF SweepSpec, ArmsWhatWasDue

(* A pause with no end date that no pass has in hand stands until the        *)
(* customer ends it: no listing takes it up, and only the resume pass, the   *)
(* customer's own resumption and a cancellation leave a pause (ResumeDue).   *)
THEOREM IndefinitePausesLast == SweepSpec => IndefinitePausesStand
  <1> DEFINE indefinite == db.status = "paused" /\ db.pausedUntil = NoDate
             left == (Resume \/ Cancel) /\ UNCHANGED pass
             stands == indefinite /\ pc # "resume" =>
                         \/ db'.status = "paused" /\ db'.pausedUntil = NoDate /\ pc' # "resume"
                         \/ left
  <1>1. ASSUME IInv, [SweepNext]_sweepVars, indefinite, pc # "resume"
        PROVE  \/ db'.status = "paused" /\ db'.pausedUntil = NoDate /\ pc' # "resume"
               \/ left
    <2>1. db \in Rows /\ today \in Int /\ Agrees(db)
      BY <1>1, IInvOfRows
    <2>2. CASE Others
      <3>1. pc' # "resume" /\ UNCHANGED pass
        BY <1>1, <2>2 DEF Others, pass
      <3>2. CASE Resume \/ Cancel
        BY <3>1, <3>2
      <3>3. CASE \E interval \in Intervals : ChangeCadence(interval)
        <4>1. PICK interval \in Intervals : db' = CadenceChanged(db, interval)
          BY <3>3 DEF ChangeCadence, Commit
        <4>2. db'.status = "paused" /\ db'.pausedUntil = NoDate
          BY <1>1, <2>1, <4>1 DEF CadenceChanged, UpdateScheduleCadence, CancelOccurrences,
                                  AppendEvent, UpdateScheduleNextRun, Rows
        <4> QED
          BY <3>1, <4>2
      <3>4. CASE PlaceOrder
        <4>1. db'.status = db.status /\ db'.pausedUntil = db.pausedUntil
          BY <2>1, <3>4 DEF PlaceOrder, Commit, UpdateOccurrenceStatus, Rows
        <4> QED
          BY <1>1, <3>1, <4>1
      <3>5. CASE NextDay
        BY <1>1, <3>1, <3>5 DEF NextDay
      <3> QED
        BY <1>1, <2>2, <3>2, <3>3, <3>4, <3>5
           DEF Others, Customer, Pause, SkipNext, Defer, Materialize, ValidTransition,
               scheduleTransitions
    <2>3. CASE BeginResume
      BY <1>1, <2>3 DEF BeginResume, ListSchedulesDueToResume, Goto, vars
    <2>4. CASE ArmDue
      BY <1>1, <2>4 DEF ArmDue, ArmNext, ValidTransition, scheduleTransitions, Goto, vars
    <2> QED
      BY <1>1, <2>2, <2>3, <2>4 DEF SweepNext, ResumeDue, ResumeFails, BeginArm, PeekArm,
                                    Abort, Goto, sweepVars, pass, vars
  <1>2. IInv /\ HeldOrderIsDue /\ [SweepNext]_sweepVars => [stands]_sweepVars
    BY <1>1
  <1> QED
    BY <1>2, SweepInvariance, PTL DEF SweepSpec, IndefinitePausesStand
=============================================================================

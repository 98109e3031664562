--------------------------- MODULE Requests_proofs ---------------------------
(***************************************************************************)
(* What the row lock and the unique origin order guarantee, for any number *)
(* of calls in hand and every value of the constants.                      *)
(***************************************************************************)
EXTENDS Requests, TLAPS

\* What a request says, read on the day it has reached.
Sensible(r) ==
  /\ r.route \in {"create", "get", "pause", "resume", "skip_next", "defer",
                  "change_cadence", "cancel", "arm", "materialize"}
  /\ r.route = "pause" =>
       r.until = NoDate \/ (r.until \in Int /\ \E n \in PauseDays : r.until <= today + n)
  /\ r.route = "skip_next" => r.key \in Keys \union {NoKey}
  /\ r.route = "defer" => r.days \in DeferDays \union {0, 181} /\ r.key \in Keys \union {NoKey}
  /\ r.route = "change_cadence" => r.interval \in Intervals \union {6, 181}

\* One call at a time past the lock, one insert at a time past the index.
Exclusion ==
  \A c, e \in Calls :
    /\ HoldsRow(c) /\ HoldsRow(e) => c = e
    /\ In(c, "inserted") /\ In(e, "inserted") => c = e

CallOK(c) ==
  /\ ~In(c, "answered") => Sensible(Asks(c))
  /\ In(c, "inserted") => made = 0
  /\ HoldsRow(c) =>
       /\ made = 1 /\ WellFormed(Asks(c))
       /\ Asks(c).route \notin {"create", "get"}
  /\ In(c, "locked") => call[c].work = store
  /\ In(c, "applied") => call[c].work \in Outcomes(Asks(c), store)

IInv ==
  /\ today \in Int /\ made \in {0, 1} /\ DOMAIN call = Calls
  /\ Exclusion
  /\ \A c \in Calls : CallOK(c)

-----------------------------------------------------------------------------
\* Only the call that advances is changed.
LEMMA Advancing ==
  ASSUME NEW c \in Calls, NEW state, DOMAIN call = Calls, Advance(c, state)
  PROVE  /\ DOMAIN call' = Calls
         /\ call'[c] = state
         /\ \A e \in Calls : e # c => call'[e] = call[e]
  BY DEF Advance

\* Everything that can be asked makes sense.
LEMMA AskableIsSensible ==
  ASSUME today \in Int, NEW r \in Askable
  PROVE  Sensible(r)
  <1> USE RequestsAssumption
  <1>1. CASE \/ r \in [who : Senders, route : {"get", "resume"}]
             \/ r \in [who : Senders, route : {"create"}, complete : BOOLEAN]
             \/ r \in [who : Senders, route : {"cancel"}, reason : {"other", "free text"}]
    BY <1>1 DEF Sensible
  <1>2. CASE r \in [who : Senders, route : {"pause"},
                    until : {NoDate} \union {today + n : n \in PauseDays}]
    BY <1>2 DEF Sensible
  <1>3. CASE r \in [who : Senders, route : {"skip_next"}, key : Keys \union {NoKey}]
    BY <1>3 DEF Sensible
  <1>4. CASE r \in [who : Senders, route : {"defer"}, days : DeferDays \union {0, 181},
                    key : Keys \union {NoKey}]
    BY <1>4 DEF Sensible
  <1>5. CASE r \in [who : Senders, route : {"change_cadence"},
                    interval : Intervals \union {6, 181}]
    BY <1>5 DEF Sensible
  <1>6. CASE r \in [who : {"system"}, route : {"materialize", "arm", "resume"}]
    BY <1>6 DEF Sensible
  <1>7. QED
    BY <1>1, <1>2, <1>3, <1>4, <1>5, <1>6 DEF Askable

\* What a transition would leave depends on the day and on nothing else that moves.
LEMMA SameDaySameOutcomes ==
  ASSUME UNCHANGED today, NEW r, NEW d
  PROVE  Outcomes(r, d)' = Outcomes(r, d)
  <1>1. S!Resumed(d)' = S!Resumed(d)
    BY DEF S!Resumed
  <1>2. ASSUME NEW i
        PROVE  S!Skipped(d, i, r.key)' = S!Skipped(d, i, r.key)
    BY DEF S!Skipped
  <1>3. ASSUME NEW i
        PROVE  S!Deferred(d, i, r.days, r.key)' = S!Deferred(d, i, r.days, r.key)
    BY DEF S!Deferred
  <1>4. S!CadenceChanged(d, r.interval)' = S!CadenceChanged(d, r.interval)
    BY DEF S!CadenceChanged
  <1>5. S!RunDates' = S!RunDates
    BY DEF S!RunDates
  <1>6. Unkeyed(r, d)' = Unkeyed(r, d)
    BY <1>1, <1>2, <1>3, <1>4, <1>5 DEF Unkeyed
  <1>7. QED
    BY <1>6 DEF Outcomes, Done

\* What a transition leaves of current rows, committed, is a step of Schedule.
LEMMA OutcomeIsAStep ==
  ASSUME NEW r, today \in Int, Sensible(r), WellFormed(r),
         r.route \notin {"create", "get"},
         NEW d \in Outcomes(r, store),
         Len(d.occ) <= MaxOccurrences, store' = d, today' = today
  PROVE  S!Next \/ UNCHANGED S!vars
  <1> USE RequestsAssumption
  <1>1. CASE Done(r, store) \/ d = store
    <2>1. d = store
      BY <1>1 DEF Outcomes
    <2>2. QED
      BY <2>1 DEF S!vars
  <1>2. CASE ~Done(r, store) /\ d # store
    <2>1. d \in Unkeyed(r, store)
      BY <1>2 DEF Outcomes
    <2>2. r.route # "materialize" => store.status \in S!scheduleTransitions[r.route]
      BY DEF Outcomes
    <2>3. S!Commit(d)
      BY DEF S!Commit
    <2>4. CASE r.route = "pause"
      <3>1. d = S!Paused(store, r.until) /\ (r.until # NoDate => r.until > today)
        BY <2>1, <2>4 DEF Unkeyed
      <3>2. r.until \in {today + n : n \in PauseDays} \union {NoDate}
        <4>1. CASE r.until = NoDate
          BY <4>1
        <4>2. CASE r.until # NoDate
          <5>1. PICK n \in PauseDays : r.until \in Int /\ r.until <= today + n
            BY <2>4, <4>2 DEF Sensible
          <5>2. n \in Nat /\ r.until - today \in 1..n
            BY <3>1, <4>2, <5>1
          <5>3. r.until - today \in PauseDays
            BY <5>1, <5>2
          <5>4. r.until = today + (r.until - today)
            BY <5>1
          <5>5. QED
            BY <5>3, <5>4
        <4>3. QED
          BY <4>1, <4>2
      <3>3. S!Pause(r.until)
        BY <2>2, <2>3, <2>4, <3>1 DEF S!Pause, S!ValidTransition
      <3>4. QED
        BY <3>2, <3>3 DEF S!Next, S!Customer
    <2>5. CASE r.route = "resume"
      <3>1. S!Resume
        BY <2>1, <2>2, <2>3, <2>5 DEF Unkeyed, S!Resume, S!ValidTransition
      <3>2. QED
        BY <3>1 DEF S!Next, S!Customer
    <2>6. CASE r.route = "skip_next"
      <3>1. r.key \in Keys
        BY <2>6 DEF Sensible, WellFormed, ValidateIdempotencyKey
      <3>2. PICK i \in DOMAIN store.occ :
              S!IsSoonest(store, S!Unsettled, i) /\ d = S!Skipped(store, i, r.key)
        BY <2>1, <2>6 DEF Unkeyed, Soonest
      <3>3. S!SkipNext(r.key)
        BY <1>2, <2>2, <2>3, <2>6, <3>2 DEF Done, S!SkipNext, S!ValidTransition
      <3>4. QED
        BY <3>1, <3>3 DEF S!Next, S!Customer
    <2>7. CASE r.route = "defer"
      <3>1. r.key \in Keys /\ r.days \in DeferDays
        <4>1. r.days \in 1..180
          BY <2>7 DEF WellFormed, ValidateDeferDays
        <4>2. r.days # 0 /\ r.days # 181
          BY <4>1, \A x \in 1..180 : x # 0 /\ x # 181
        <4>3. QED
          BY <2>7, <4>2 DEF Sensible, WellFormed, ValidateIdempotencyKey
      <3>2. PICK i \in DOMAIN store.occ :
              /\ S!IsSoonest(store, S!Unsettled, i)
              /\ d = S!Deferred(store, i, r.days, r.key)
        BY <2>1, <2>7 DEF Unkeyed, Soonest
      <3>3. S!Defer(r.days, r.key)
        BY <1>2, <2>2, <2>3, <2>7, <3>2 DEF Done, S!Defer, S!ValidTransition
      <3>4. QED
        BY <3>1, <3>3 DEF S!Next, S!Customer
    <2>8. CASE r.route = "change_cadence"
      <3>1. r.interval \in Intervals
        <4>1. r.interval \in 7..180
          BY <2>8 DEF WellFormed, ValidateInterval
        <4>2. r.interval # 6 /\ r.interval # 181
          BY <4>1, \A x \in 7..180 : x # 6 /\ x # 181
        <4>3. QED
          BY <2>8, <4>2 DEF Sensible
      <3>2. S!ChangeCadence(r.interval)
        BY <2>1, <2>2, <2>3, <2>8 DEF Unkeyed, S!ChangeCadence, S!ValidTransition
      <3>3. QED
        BY <3>1, <3>2 DEF S!Next, S!Customer
    <2>9. CASE r.route = "cancel"
      <3>1. S!Cancel
        BY <2>1, <2>2, <2>3, <2>9 DEF Unkeyed, S!Cancel, S!ValidTransition
      <3>2. QED
        BY <3>1 DEF S!Next, S!Customer
    <2>10. CASE r.route = "arm"
      <3>1. PICK i \in DOMAIN store.occ :
              S!IsSoonest(store, {"planned"}, i) /\ d = S!Armed(store, i)
        BY <2>1, <2>10 DEF Unkeyed, Soonest
      <3>2. S!ArmNext
        BY <2>2, <2>3, <2>10, <3>1 DEF S!ArmNext, S!ValidTransition
      <3>3. QED
        BY <3>2 DEF S!Next
    <2>11. CASE r.route = "materialize"
      <3>1. PICK runDate \in S!RunDates :
              d = IF store.status = "active" THEN S!Run(store, runDate) ELSE store
        BY <2>1, <2>11 DEF Unkeyed
      <3>2. S!Materialize(runDate)
        BY <1>2, <2>3, <3>1 DEF S!Materialize
      <3>3. QED
        BY <3>1, <3>2 DEF S!Next
    <2>12. QED
      BY <2>4, <2>5, <2>6, <2>7, <2>8, <2>9, <2>10, <2>11 DEF Sensible
  <1>3. QED
    BY <1>1, <1>2

-----------------------------------------------------------------------------
\* A call that stays where it is, while the rows and the day stay too, stays right.
LEMMA StayingIsOK ==
  ASSUME NEW e \in Calls, CallOK(e), call'[e] = call[e],
         UNCHANGED <<today, store, made>>
  PROVE  CallOK(e)'
  <1>1. In(e, "applied")' => (call[e].work \in Outcomes(Asks(e), store))'
    <2>1. PICK r, d : r = Asks(e) /\ d = store
      OBVIOUS
    <2>2. Asks(e)' = r /\ store' = d
      BY <2>1 DEF Asks
    <2>3. Outcomes(r, d)' = Outcomes(r, d)
      BY SameDaySameOutcomes
    <2>4. QED
      BY <2>1, <2>2, <2>3 DEF CallOK, In
  <1>2. QED
    BY <1>1 DEF CallOK, In, Asks, HoldsRow, Sensible, WellFormed

\* A call that advances outside the lock and the index, the rows staying as they are.
LEMMA QuietStep ==
  ASSUME IInv, NEW c \in Calls, NEW state, Advance(c, state),
         UNCHANGED <<today, store, made>>,
         state.stage \in {"answered", "sent", "duplicate", "committed"},
         state.stage # "answered" => Sensible(state.request)
  PROVE  IInv'
  <1>1. /\ DOMAIN call' = Calls
        /\ call'[c] = state
        /\ \A e \in Calls : e # c => call'[e] = call[e]
    BY Advancing DEF IInv
  <1>2. Exclusion'
    BY <1>1 DEF IInv, Exclusion, HoldsRow, In
  <1>3. CallOK(c)'
    BY <1>1 DEF CallOK, In, Asks, HoldsRow, Sensible
  <1>4. ASSUME NEW e \in Calls, e # c PROVE CallOK(e)'
    BY <1>1, <1>4, StayingIsOK DEF IInv
  <1>5. QED
    BY <1>1, <1>2, <1>3, <1>4 DEF IInv

LEMMA InsertKeeps ==
  ASSUME IInv, NEW c \in Calls, Insert(c)
  PROVE  IInv'
  <1>1. Sensible(Asks(c))
    BY DEF IInv, CallOK, Insert, Accepted, In
  <1>2. CASE Exists
    BY <1>1, <1>2, QuietStep DEF Insert
  <1>3. CASE ~Exists
    <2>1. /\ DOMAIN call' = Calls
          /\ call'[c] = [stage |-> "inserted", request |-> Asks(c)]
          /\ \A e \in Calls : e # c => call'[e] = call[e]
      BY <1>3, Advancing DEF Insert, IInv
    <2>2. made = 0
      BY <1>3 DEF IInv, Exists
    <2>3. Exclusion'
      BY <2>1 DEF IInv, Exclusion, HoldsRow, In, Insert
    <2>4. CallOK(c)'
      BY <1>1, <2>1, <2>2 DEF CallOK, In, Asks, HoldsRow, Sensible, Insert
    <2>5. ASSUME NEW e \in Calls, e # c PROVE CallOK(e)'
      BY <2>1, <2>5, StayingIsOK DEF IInv, Insert
    <2>6. QED
      BY <2>1, <2>3, <2>4, <2>5 DEF IInv, Insert
  <1>4. QED
    BY <1>2, <1>3

LEMMA LockKeeps ==
  ASSUME IInv, NEW c \in Calls, GetScheduleForUpdate(c)
  PROVE  IInv'
  <1>1. /\ Sensible(Asks(c)) /\ WellFormed(Asks(c))
        /\ Asks(c).route \notin {"create", "get"}
    BY DEF IInv, CallOK, GetScheduleForUpdate, Transacts, Accepted, In
  <1>2. CASE ~(Exists /\ InScope(Asks(c)))
    BY <1>2, QuietStep DEF GetScheduleForUpdate, Answer
  <1>3. CASE Exists /\ InScope(Asks(c))
    <2>1. /\ DOMAIN call' = Calls
          /\ call'[c] = [stage |-> "locked", request |-> Asks(c), work |-> store]
          /\ \A e \in Calls : e # c => call'[e] = call[e]
          /\ \A e \in Calls : ~HoldsRow(e)
      BY <1>3, Advancing DEF GetScheduleForUpdate, IInv
    <2>2. made = 1
      BY <1>3 DEF IInv, Exists
    <2>3. Exclusion'
      BY <2>1 DEF IInv, Exclusion, HoldsRow, In
    <2>4. CallOK(c)'
      BY <1>1, <2>1, <2>2
         DEF CallOK, In, Asks, HoldsRow, Sensible, WellFormed, GetScheduleForUpdate
    <2>5. ASSUME NEW e \in Calls, e # c PROVE CallOK(e)'
      BY <2>1, <2>5, StayingIsOK DEF IInv, GetScheduleForUpdate
    <2>6. QED
      BY <2>1, <2>3, <2>4, <2>5 DEF IInv, GetScheduleForUpdate
  <1>4. QED
    BY <1>2, <1>3

LEMMA ApplyKeeps ==
  ASSUME IInv, NEW c \in Calls, Apply(c)
  PROVE  IInv'
  <1>1. /\ Sensible(Asks(c)) /\ WellFormed(Asks(c))
        /\ Asks(c).route \notin {"create", "get"}
        /\ HoldsRow(c) /\ made = 1 /\ call[c].work = store
    BY DEF IInv, CallOK, Apply, In, HoldsRow
  <1>2. CASE Answer(c, 409)
    BY <1>2, QuietStep DEF Apply, Answer
  <1>3. CASE \E d \in Outcomes(Asks(c), call[c].work) :
               Advance(c, [stage |-> "applied", request |-> Asks(c), work |-> d])
    <2>1. PICK d \in Outcomes(Asks(c), store) :
            Advance(c, [stage |-> "applied", request |-> Asks(c), work |-> d])
      BY <1>1, <1>3
    <2>2. /\ DOMAIN call' = Calls
          /\ call'[c] = [stage |-> "applied", request |-> Asks(c), work |-> d]
          /\ \A e \in Calls : e # c => call'[e] = call[e]
      BY <2>1, Advancing DEF IInv
    <2>3. Exclusion'
      BY <1>1, <2>2 DEF IInv, Exclusion, HoldsRow, In
    <2>4. (call[c].work \in Outcomes(Asks(c), store))'
      <3>1. PICK r, rows : r = Asks(c) /\ rows = store
        OBVIOUS
      <3>2. Asks(c)' = r /\ store' = rows /\ call'[c].work = d
        BY <2>2, <3>1 DEF Asks, Apply
      <3>3. Outcomes(r, rows)' = Outcomes(r, rows)
        BY SameDaySameOutcomes DEF Apply
      <3>4. QED
        BY <2>1, <3>1, <3>2, <3>3
    <2>5. CallOK(c)'
      BY <1>1, <2>2, <2>4 DEF CallOK, In, Asks, HoldsRow, Sensible, WellFormed, Apply
    <2>6. ASSUME NEW e \in Calls, e # c PROVE CallOK(e)'
      BY <2>2, <2>6, StayingIsOK DEF IInv, Apply
    <2>7. QED
      BY <2>2, <2>3, <2>5, <2>6 DEF IInv, Apply
  <1>4. QED
    BY <1>2, <1>3 DEF Apply

LEMMA CommitKeeps ==
  ASSUME IInv, NEW c \in Calls, Commit(c)
  PROVE  IInv'
  <1>1. /\ DOMAIN call' = Calls
        /\ call'[c] = [stage |-> "committed", request |-> Asks(c)]
        /\ \A e \in Calls : e # c => call'[e] = call[e]
    BY Advancing DEF IInv, Commit
  <1>2. Exclusion'
    BY <1>1 DEF IInv, Exclusion, HoldsRow, In
  <1>3. CallOK(c)'
    BY <1>1 DEF IInv, CallOK, In, Asks, HoldsRow, Sensible, Commit
  \* Nobody else is past the lock or the index.
  <1>4. ASSUME NEW e \in Calls, e # c
        PROVE  ~HoldsRow(e) /\ ~In(e, "inserted")
    <2>1. CASE In(c, "inserted")
      BY <1>4, <2>1 DEF IInv, Exclusion, CallOK
    <2>2. CASE In(c, "applied")
      BY <1>4, <2>2 DEF IInv, Exclusion, CallOK, HoldsRow
    <2>3. QED
      BY <2>1, <2>2 DEF Commit
  <1>5. ASSUME NEW e \in Calls, e # c PROVE CallOK(e)'
    BY <1>1, <1>4, <1>5 DEF IInv, CallOK, In, Asks, HoldsRow, Sensible, Commit
  <1>6. made' \in {0, 1}
    BY DEF IInv, CallOK, HoldsRow, Commit
  <1>7. QED
    BY <1>1, <1>2, <1>3, <1>5, <1>6 DEF IInv, Commit

LEMMA NextDayKeeps ==
  ASSUME IInv, NextDay
  PROVE  IInv'
  <1>1. ASSUME NEW c \in Calls PROVE CallOK(c)'
    <2>1. CallOK(c) /\ ~In(c, "applied") /\ call' = call
      BY DEF IInv, NextDay
    <2>2. Sensible(Asks(c)) => Sensible(Asks(c))'
      <3>1. ASSUME NEW n \in PauseDays, NEW until \in Int, until <= today + n
            PROVE  until <= today' + n
        BY <3>1, RequestsAssumption DEF IInv, NextDay
      <3>2. QED
        BY <2>1, <3>1 DEF Sensible, Asks
    <2>3. QED
      BY <2>1, <2>2 DEF CallOK, In, Asks, HoldsRow, WellFormed, NextDay
  <1>2. Exclusion'
    BY DEF IInv, Exclusion, HoldsRow, In, NextDay
  <1>3. QED
    BY <1>1, <1>2 DEF IInv, NextDay

-----------------------------------------------------------------------------
LEMMA StepKeeps ==
  ASSUME IInv, [Next]_vars
  PROVE  IInv'
  <1>1. ASSUME NEW c \in Calls, Send(c) PROVE IInv'
    BY <1>1, QuietStep, AskableIsSensible DEF IInv, Send
  <1>2. ASSUME NEW c \in Calls, TurnAway(c) PROVE IInv'
    BY <1>2, QuietStep DEF TurnAway, Answer
  <1>3. ASSUME NEW c \in Calls, Get(c) PROVE IInv'
    BY <1>3, QuietStep DEF Get, Answer
  <1>4. ASSUME NEW c \in Calls, HandBack(c) PROVE IInv'
    BY <1>4, QuietStep DEF HandBack, Answer
  <1>5. ASSUME NEW c \in Calls, Respond(c) PROVE IInv'
    BY <1>5, QuietStep DEF Respond, Answer
  <1>6. ASSUME NEW c \in Calls, Fail(c) PROVE IInv'
    BY <1>6, QuietStep DEF Fail, Answer
  <1>7. CASE UNCHANGED vars
    <2>1. ASSUME NEW c \in Calls PROVE CallOK(c)'
      BY <1>7, StayingIsOK DEF IInv, vars
    <2>2. QED
      BY <1>7, <2>1 DEF IInv, Exclusion, HoldsRow, In, vars
  <1>8. QED
    BY <1>1, <1>2, <1>3, <1>4, <1>5, <1>6, <1>7, InsertKeeps, LockKeeps, ApplyKeeps,
       CommitKeeps, NextDayKeeps DEF Next, Serve, Wait

LEMMA InitiallyKept == Init => IInv
  BY RequestsAssumption DEF Init, IInv, Exclusion, CallOK, In, HoldsRow

(* No interleaving breaks the discipline of the lock and the index.           *)
THEOREM Discipline == Spec => []IInv
  <1>1. IInv /\ [Next]_vars => IInv'
    BY StepKeeps
  <1>2. QED
    BY InitiallyKept, <1>1, PTL DEF Spec

(* Whoever holds the row works on what is committed, however many calls are   *)
(* in hand (GetScheduleForUpdate).                                            *)
THEOREM LockedRowsStayCurrent == Spec => []LockedRowsAreCurrent
  <1>1. IInv => LockedRowsAreCurrent
    BY DEF IInv, CallOK, LockedRowsAreCurrent
  <1>2. QED
    BY <1>1, Discipline, PTL

(* One origin order never has two schedules, whatever its checkouts' retries  *)
(* do (CreateSchedule; schedules_origin_order_id_unique).                     *)
THEOREM OneScheduleForEver == Spec => []OneScheduleEachOrder
  <1>1. IInv => OneScheduleEachOrder
    BY DEF IInv, CallOK, OneScheduleEachOrder
  <1>2. QED
    BY <1>1, Discipline, PTL

\* Every step is a whole transaction of Schedule, the day passing, or a stutter.
LEMMA StepImplements ==
  ASSUME IInv, [Next]_vars
  PROVE  [S!Next]_(S!vars)
  <1>1. CASE UNCHANGED <<today, store>>
    BY <1>1 DEF S!vars
  <1>2. CASE NextDay
    BY <1>2 DEF NextDay, S!NextDay, S!Next
  <1>3. ASSUME NEW c \in Calls, Commit(c), ~UNCHANGED store
        PROVE  [S!Next]_(S!vars)
    <2>1. In(c, "applied") /\ store' = call[c].work /\ today' = today
      BY <1>3 DEF Commit
    <2>2. PICK r, d : r = Asks(c) /\ d = call[c].work
      OBVIOUS
    <2>3. /\ Sensible(r) /\ WellFormed(r) /\ r.route \notin {"create", "get"}
          /\ d \in Outcomes(r, store)
      BY <2>1, <2>2 DEF IInv, CallOK, In, HoldsRow
    <2>4. Len(d.occ) <= MaxOccurrences
      BY <1>3, <2>1, <2>2 DEF Commit, In
    <2>5. QED
      BY <2>1, <2>2, <2>3, <2>4, OutcomeIsAStep DEF IInv
  <1>4. QED
    BY <1>1, <1>2, <1>3 DEF Next, Serve, Wait, Send, TurnAway, Get, HandBack, Apply,
       Respond, Insert, GetScheduleForUpdate, Fail, Commit, vars

(* The concurrent transactions of the handlers and the jobs implement the     *)
(* one-step transactions of Schedule, so what holds of Schedule holds of what *)
(* is committed here (docs/adr/0007).                                         *)
THEOREM RequestsImplementSchedule == Spec => ImplementsSchedule
  <1>1. Init => S!Init
    BY DEF Init, S!Init
  <1>2. IInv /\ [Next]_vars => [S!Next]_(S!vars)
    BY StepImplements
  <1>3. QED
    BY <1>1, <1>2, Discipline, PTL DEF Spec, ImplementsSchedule, S!Spec
-----------------------------------------------------------------------------
(* What Queue_proofs and Schedule_proofs prove of a schedule, read of the rows *)
(* as they are committed.  Requests has its own instance of Schedule, and the  *)
(* two say the same, operator by operator.                                     *)
Committed == INSTANCE Queue_proofs WITH db <- store

\* The rows are the same rows.
LEMMA SameRows == S!Rows = Committed!Rows
  BY DEF S!Rows, Committed!Rows, S!Log, Committed!Log, S!Occurrences, Committed!Occurrences,
         S!OccurrenceStatus, Committed!OccurrenceStatus, S!Unsettled, Committed!Unsettled,
         S!ScheduleStatus, Committed!ScheduleStatus

\* The statements select the same rows, and the same dates.
LEMMA SameStatements ==
  /\ S!Unsettled = Committed!Unsettled
  /\ \A d, x : S!WithStatus(d, x) = Committed!WithStatus(d, x)
  /\ \A q, x : S!CanceledRows(q, x) = Committed!CanceledRows(q, x)
  /\ \A d, x, day : S!DatesOf(d, x, day) = Committed!DatesOf(d, x, day)
  /\ \A d : S!LastPlacedDate(d) = Committed!LastPlacedDate(d)
  /\ \A x : S!Max(x) = Committed!Max(x)
  /\ \A x : S!Min(x) = Committed!Min(x)
  /\ \A x : S!Cardinality(x) = Committed!Cardinality(x)
  <1>1. \A d, x : S!WithStatus(d, x) = Committed!WithStatus(d, x)
    BY DEF S!WithStatus, Committed!WithStatus
  <1>2. /\ \A d, x, day : S!DatesOf(d, x, day) = Committed!DatesOf(d, x, day)
        /\ \A d : S!LastPlacedDate(d) = Committed!LastPlacedDate(d)
    BY <1>1 DEF S!DatesOf, Committed!DatesOf, S!LastPlacedDate, Committed!LastPlacedDate
  <1>3. (\A x : S!Max(x) = Committed!Max(x)) /\ (\A x : S!Min(x) = Committed!Min(x))
    BY DEF S!Max, Committed!Max, S!Min, Committed!Min
  <1>4. \A x : S!Cardinality(x) = Committed!Cardinality(x)
    BY DEF S!Cardinality, Committed!Cardinality
  <1> QED
    BY <1>1, <1>2, <1>3, <1>4
       DEF S!CanceledRows, Committed!CanceledRows, S!Unsettled, Committed!Unsettled

\* An event says the same of them.
LEMMA SameEvents ==
  \A d, e : S!AppendEvent(d, e) = Committed!AppendEvent(d, e)
  <1>1. /\ S!Unsettled = Committed!Unsettled
        /\ \A q, x : S!CanceledRows(q, x) = Committed!CanceledRows(q, x)
    BY SameStatements
  <1>2. \A log, e : S!Replay(log, e) = Committed!Replay(log, e)
    BY <1>1 DEF S!Replay, Committed!Replay
  <1> QED
    BY <1>2 DEF S!AppendEvent, Committed!AppendEvent

\* The next date is refreshed alike.
LEMMA SameRefresh ==
  \A d, day : S!RefreshNextRunDate(d, day) = Committed!RefreshNextRunDate(d, day)
  BY SameStatements
     DEF S!RefreshNextRunDate, Committed!RefreshNextRunDate, S!UpdateScheduleNextRun,
         Committed!UpdateScheduleNextRun

\* A run plans the same orders.
LEMMA SameRun ==
  \A d, day : S!Run(d, day) = Committed!Run(d, day)
  <1>1. \A d, day : S!StartOfRun(d, day) = Committed!StartOfRun(d, day)
    BY SameStatements DEF S!StartOfRun, Committed!StartOfRun
  <1>3. \A d, day : S!CountFuturePlanned(d, day) = Committed!CountFuturePlanned(d, day)
    BY SameStatements DEF S!CountFuturePlanned, Committed!CountFuturePlanned
  <1>4. \A a, b, x, y : S!PlannedDate(a, b, x, y) = Committed!PlannedDate(a, b, x, y)
    BY DEF S!PlannedDate, Committed!PlannedDate, S!OccurrenceDate, Committed!OccurrenceDate,
       S!NextSequence, Committed!NextSequence
  <1> QED
    BY <1>1, <1>3, <1>4, SameEvents, SameRefresh DEF S!Run, Committed!Run

\* A cadence change counts from the same anchor.
LEMMA SameCadenceChanged ==
  ASSUME NEW d, NEW interval
  PROVE  S!CadenceChanged(d, interval) = Committed!CadenceChanged(d, interval)
  <1> DEFINE last == Committed!LastPlacedDate(d)
             anchor == IF last = {} THEN today ELSE Committed!Max(last)
             anchored == Committed!UpdateScheduleCadence(d, interval, anchor)
             cleared == Committed!CancelOccurrences(anchored, {"planned"})
             event == [type |-> "schedule.cadence_changed", interval |-> interval,
                       anchor |-> anchor]
             logged == Committed!AppendEvent(cleared, event)
  <1>1. anchor = IF S!LastPlacedDate(d) = {} THEN today ELSE S!Max(S!LastPlacedDate(d))
    BY SameStatements
  <1> HIDE DEF anchor
  <1>2. anchored = S!UpdateScheduleCadence(d, interval, anchor)
    BY DEF S!UpdateScheduleCadence, Committed!UpdateScheduleCadence
  <1> HIDE DEF anchored
  <1>3. cleared = S!CancelOccurrences(anchored, {"planned"})
    BY SameStatements DEF S!CancelOccurrences, Committed!CancelOccurrences
  <1> HIDE DEF cleared
  <1>4. logged = S!AppendEvent(cleared, event)
    BY SameEvents
  <1> HIDE DEF event, logged
  <1>5. S!UpdateScheduleNextRun(logged, NoDate) = Committed!UpdateScheduleNextRun(logged, NoDate)
    BY DEF S!UpdateScheduleNextRun, Committed!UpdateScheduleNextRun
  <1>6. S!CadenceChanged(d, interval) =
          IF d.status = "active" THEN S!Run(logged, today)
          ELSE S!UpdateScheduleNextRun(logged, NoDate)
    BY <1>1, <1>2, <1>3, <1>4 DEF S!CadenceChanged, event
  <1>7. Committed!CadenceChanged(d, interval) =
          IF d.status = "active" THEN Committed!Run(logged, today)
          ELSE Committed!UpdateScheduleNextRun(logged, NoDate)
    BY DEF Committed!CadenceChanged, event, logged, cleared, anchored, anchor
  <1> QED
    BY <1>5, <1>6, <1>7, SameRun

\* Every transition leaves the same rows.
LEMMA SameTransitions ==
  /\ \A d, until : S!Paused(d, until) = Committed!Paused(d, until)
  /\ \A d : S!Resumed(d) = Committed!Resumed(d)
  /\ \A d, i, key : S!Skipped(d, i, key) = Committed!Skipped(d, i, key)
  /\ \A d, i, days, key : S!Deferred(d, i, days, key) = Committed!Deferred(d, i, days, key)
  /\ \A d, i : S!Armed(d, i) = Committed!Armed(d, i)
  /\ \A d, interval : S!CadenceChanged(d, interval) = Committed!CadenceChanged(d, interval)
  /\ \A d : S!Canceled(d) = Committed!Canceled(d)
  <1> USE SameStatements, SameEvents, SameRefresh, SameRun
      DEF S!UpdateScheduleStatus, Committed!UpdateScheduleStatus, S!UpdateScheduleCadence,
          Committed!UpdateScheduleCadence, S!UpdateScheduleNextRun, Committed!UpdateScheduleNextRun,
          S!UpdateOccurrenceStatus, Committed!UpdateOccurrenceStatus, S!UpdateOccurrenceDate,
          Committed!UpdateOccurrenceDate, S!CancelOccurrences, Committed!CancelOccurrences
  <1>1. \A d, until : S!Paused(d, until) = Committed!Paused(d, until)
    BY DEF S!Paused, Committed!Paused
  <1>2. \A d : S!Resumed(d) = Committed!Resumed(d)
    BY DEF S!Resumed, Committed!Resumed
  <1>3. \A d, i, key : S!Skipped(d, i, key) = Committed!Skipped(d, i, key)
    BY DEF S!Skipped, Committed!Skipped
  <1>4. \A d, i, days, key : S!Deferred(d, i, days, key) = Committed!Deferred(d, i, days, key)
    BY DEF S!Deferred, Committed!Deferred
  <1>5. \A d, i : S!Armed(d, i) = Committed!Armed(d, i)
    BY DEF S!Armed, Committed!Armed
  <1>6. \A d, interval : S!CadenceChanged(d, interval) = Committed!CadenceChanged(d, interval)
    BY SameCadenceChanged
  <1>7. \A d : S!Canceled(d) = Committed!Canceled(d)
    BY DEF S!Canceled, Committed!Canceled
  <1> QED
    BY <1>1, <1>2, <1>3, <1>4, <1>5, <1>6, <1>7

\* So the two have the same steps.
LEMMA SameSteps ==
  /\ S!Init <=> Committed!Init
  /\ S!Next <=> Committed!Next
  <1> USE SameTransitions
  <1>1. S!Init <=> Committed!Init
    BY DEF S!Init, Committed!Init, S!Created, Committed!Created
  <1>2. \A d : S!Commit(d) <=> Committed!Commit(d)
    BY DEF S!Commit, Committed!Commit
  <1>3. /\ \A action : S!ValidTransition(action) <=> Committed!ValidTransition(action)
        /\ \A d, type, key :
             S!EventExistsWithKey(d, type, key) <=> Committed!EventExistsWithKey(d, type, key)
        /\ \A d, x, i : S!IsSoonest(d, x, i) <=> Committed!IsSoonest(d, x, i)
    BY SameStatements
       DEF S!ValidTransition, Committed!ValidTransition,
           S!scheduleTransitions, Committed!scheduleTransitions,
           S!EventExistsWithKey, Committed!EventExistsWithKey, S!IsSoonest, Committed!IsSoonest
  <1>4. \A until : S!Pause(until) <=> Committed!Pause(until)
    BY <1>2, <1>3 DEF S!Pause, Committed!Pause
  <1>5. (S!Resume <=> Committed!Resume) /\ (S!Cancel <=> Committed!Cancel)
    BY <1>2, <1>3 DEF S!Resume, Committed!Resume, S!Cancel, Committed!Cancel
  <1>6. \A key : S!SkipNext(key) <=> Committed!SkipNext(key)
    BY <1>2, <1>3, SameStatements DEF S!SkipNext, Committed!SkipNext
  <1>7. \A days, key : S!Defer(days, key) <=> Committed!Defer(days, key)
    BY <1>2, <1>3, SameStatements DEF S!Defer, Committed!Defer
  <1>8. \A interval : S!ChangeCadence(interval) <=> Committed!ChangeCadence(interval)
    BY <1>2, <1>3 DEF S!ChangeCadence, Committed!ChangeCadence
  <1>9. S!ArmNext <=> Committed!ArmNext
    BY <1>2, <1>3 DEF S!ArmNext, Committed!ArmNext
  <1>10. \A runDate : S!Materialize(runDate) <=> Committed!Materialize(runDate)
    BY <1>2, SameRun DEF S!Materialize, Committed!Materialize
  <1>11. S!PlaceOrder <=> Committed!PlaceOrder
    BY <1>2, SameStatements
       DEF S!PlaceOrder, Committed!PlaceOrder,
           S!UpdateOccurrenceStatus, Committed!UpdateOccurrenceStatus
  <1>12. (S!NextDay <=> Committed!NextDay) /\ S!RunDates = Committed!RunDates
    BY DEF S!NextDay, Committed!NextDay, S!RunDates, Committed!RunDates
  <1>13. S!Customer <=> Committed!Customer
    BY <1>4, <1>5, <1>6, <1>7, <1>8 DEF S!Customer, Committed!Customer
  <1> QED
    BY <1>1, <1>9, <1>10, <1>11, <1>12, <1>13 DEF S!Next, Committed!Next

\* What implements the one implements the other.
LEMMA ScheduleIsCommitted == S!Spec => Committed!Spec
  <1>1. [S!Next]_(S!vars) => [Committed!Next]_(Committed!vars)
    BY SameSteps DEF S!vars, Committed!vars
  <1>2. S!Init => Committed!Init
    BY SameSteps
  <1> QED
    BY <1>1, <1>2, PTL DEF S!Spec, Committed!Spec

(* However many calls overlap and wherever they fail, what is committed keeps *)
(* every invariant of Schedule: the rows, their log, the queue and the next   *)
(* date agree (docs/adr/0007).                                                *)
THEOREM CommittedRowsAreSound ==
  Spec => /\ []Committed!TypeOK
          /\ []Committed!NothingOutstandingUnlessActive
          /\ []Committed!LogAgrees
          /\ []Committed!PlannedOnCadence
          /\ []Committed!LaterOrdersLandLater
          /\ []Committed!NextRunHidesNothing
          /\ []Committed!NextRunNamesAnOrder
  <1>1. Committed!Spec => /\ []Committed!TypeOK
                          /\ []Committed!NothingOutstandingUnlessActive
                          /\ []Committed!LogAgrees
                          /\ []Committed!PlannedOnCadence
                          /\ []Committed!LaterOrdersLandLater
                          /\ []Committed!NextRunHidesNothing
                          /\ []Committed!NextRunNamesAnOrder
    BY RequestsAssumption, Committed!TypeCorrect, Committed!InactiveMeansQuiet,
       Committed!LogNeverDiverges, Committed!PlannedStaysOnCadence,
       Committed!LaterOrdersKeepLandingLater, Committed!NextRunHidesNoPlannedOrder,
       Committed!NextRunAlwaysNamesAnOrder
  <1> QED
    BY <1>1, ScheduleIsCommitted, RequestsImplementSchedule, PTL DEF ImplementsSchedule

(* And every promise about a step: whatever overlaps, a key acts once, an     *)
(* order announced or settled is not taken back, what plans fills the queue,  *)
(* and a cadence saved gives the dates its sheet showed (docs/adr/0009;       *)
(* CancelOccurrences; Run; previewDates).                                     *)
THEOREM CommittedStepsKeepTheirPromises ==
  Spec => /\ Committed!SettledStaysSettled
          /\ Committed!NoticeStands
          /\ Committed!EachKeyActsOnce
          /\ Committed!PlanningFillsTheQueue
          /\ Committed!ResumePlansWhatItAnnounces
          /\ Committed!PreviewIsKept
  <1>1. Committed!Spec => /\ Committed!SettledStaysSettled
                          /\ Committed!NoticeStands
                          /\ Committed!EachKeyActsOnce
                          /\ Committed!PlanningFillsTheQueue
                          /\ Committed!ResumePlansWhatItAnnounces
                          /\ Committed!PreviewIsKept
    BY RequestsAssumption, Committed!SettledOrdersStand, Committed!AnnouncedOrdersStand,
       Committed!KeysActOnceForEver, Committed!PlanningKeepsTheQueueFull,
       Committed!ResumePlansWhatItSays, Committed!SheetShowsWhatIsSaved
  <1> QED
    BY <1>1, ScheduleIsCommitted, RequestsImplementSchedule, PTL DEF ImplementsSchedule

-----------------------------------------------------------------------------
\* Sound rows, and what a request makes of them, are rows.
LEMMA OutcomesAreRows ==
  ASSUME today \in Int, NEW d \in Committed!Rows, Committed!Agrees(d), Committed!Quiet(d),
         NEW r, Sensible(r), WellFormed(r), r.route \notin {"create", "get"},
         NEW e \in Outcomes(r, d)
  PROVE  e \in Committed!Rows
  <1>1. CASE Done(r, d) \/ e = d
    BY <1>1 DEF Outcomes
  <1>2. CASE ~Done(r, d)
    <2>1. e \in Unkeyed(r, d)
      BY <1>2 DEF Outcomes
    <2>2. r.route # "materialize" => d.status \in S!scheduleTransitions[r.route]
      BY DEF Outcomes
    <2>3. \A i, statuses : i \in Soonest(d, statuses) => i \in Committed!WithStatus(d, statuses)
      BY SameStatements DEF Soonest, S!IsSoonest
    <2>4. S!Unsettled = Committed!Unsettled
      BY SameStatements
    <2>5. \A f : Committed!Commits(d, f) => f \in Committed!Rows
      BY DEF Committed!Commits
    <2>6. CASE r.route = "pause"
      <3>1. e = Committed!Paused(d, r.until) /\ r.until \in Int \union {NoDate}
        BY <2>1, <2>6, SameTransitions DEF Unkeyed, Sensible
      <3> QED
        BY <3>1, <2>5, RequestsAssumption, Committed!PausedCommits
    <2>7. CASE r.route = "resume"
      <3>1. e = Committed!Resumed(d)
        BY <2>1, <2>7, SameTransitions DEF Unkeyed
      <3> QED
        BY <3>1, <2>5, RequestsAssumption, Committed!ResumedCommits
    <2>8. CASE r.route = "skip_next"
      <3>1. r.key \in Keys /\ d.status = "active"
        BY <2>2, <2>8 DEF Sensible, WellFormed, ValidateIdempotencyKey, S!scheduleTransitions
      <3>2. PICK i \in Committed!WithStatus(d, Committed!Unsettled) :
              e = Committed!Skipped(d, i, r.key)
        BY <2>1, <2>3, <2>4, <2>8, SameTransitions DEF Unkeyed
      <3> QED
        BY <3>1, <3>2, <2>5, RequestsAssumption, Committed!SkippedCommits
    <2>9. CASE r.route = "defer"
      <3>1. r.key \in Keys /\ d.status = "active" /\ r.days \in Int
        BY <2>2, <2>9 DEF Sensible, WellFormed, ValidateIdempotencyKey, ValidateDeferDays,
                          S!scheduleTransitions
      <3>2. PICK i \in Committed!WithStatus(d, Committed!Unsettled) :
              e = Committed!Deferred(d, i, r.days, r.key)
        BY <2>1, <2>3, <2>4, <2>9, SameTransitions DEF Unkeyed
      <3> QED
        BY <3>1, <3>2, <2>5, RequestsAssumption, Committed!DeferredCommits
    <2>10. CASE r.route = "change_cadence"
      <3>1. d.status \in {"active", "paused"} /\ r.interval \in 7..180
        BY <2>2, <2>10 DEF WellFormed, ValidateInterval, S!scheduleTransitions
      <3>2. e = Committed!CadenceChanged(d, r.interval)
        BY <2>1, <2>10, SameTransitions DEF Unkeyed
      <3> QED
        BY <3>1, <3>2, <2>5, RequestsAssumption, Committed!CadenceChangedCommits
    <2>11. CASE r.route = "cancel"
      <3>1. e = Committed!Canceled(d)
        BY <2>1, <2>11, SameTransitions DEF Unkeyed
      <3> QED
        BY <3>1, <2>5, RequestsAssumption, Committed!CanceledCommits
    <2>12. CASE r.route = "arm"
      <3>1. d.status = "active"
        BY <2>2, <2>12 DEF S!scheduleTransitions
      <3>2. PICK i \in Committed!WithStatus(d, {"planned"}) : e = Committed!Armed(d, i)
        BY <2>1, <2>3, <2>12, SameTransitions DEF Unkeyed
      <3>3. i \in Committed!WithStatus(d, Committed!Unsettled)
        BY DEF Committed!WithStatus, Committed!Unsettled
      <3> QED
        BY <3>1, <3>2, <3>3, <2>5, RequestsAssumption, Committed!ArmedCommits
    <2>13. CASE r.route = "materialize"
      <3>1. PICK runDate \in S!RunDates :
              e = IF d.status = "active" THEN Committed!Run(d, runDate) ELSE d
        BY <2>1, <2>13, SameRun DEF Unkeyed
      <3>2. runDate \in Int
        BY RequestsAssumption DEF S!RunDates
      <3> QED
        BY <3>1, <3>2, RequestsAssumption, Committed!RunCommits
    <2> QED
      BY <2>6, <2>7, <2>8, <2>9, <2>10, <2>11, <2>12, <2>13 DEF Sensible
  <1> QED
    BY <1>1, <1>2

\* What a call can be, and be told.
Standing(state) ==
  /\ state.stage \in {"answered", "sent", "duplicate", "inserted", "locked",
                      "applied", "committed"}
  /\ state.stage = "answered" => state.code \in {200, 201, 400, 401, 404, 409, 500}

LEMMA StandingStays ==
  ASSUME IInv, \A c \in Calls : Standing(call[c]), [Next]_vars
  PROVE  \A c \in Calls : Standing(call'[c])
  <1>1. ASSUME NEW c \in Calls, NEW state, Advance(c, state), Standing(state)
        PROVE  \A e \in Calls : Standing(call'[e])
    <2>1. /\ call'[c] = state
          /\ \A e \in Calls : e # c => call'[e] = call[e]
      BY <1>1, Advancing DEF IInv
    <2> QED
      BY <1>1, <2>1
  <1>2. ASSUME NEW c \in Calls, NEW code \in {200, 201, 400, 401, 404, 409, 500},
               Answer(c, code)
        PROVE  \A e \in Calls : Standing(call'[e])
    BY <1>1, <1>2 DEF Answer, Standing
  <1>3. ASSUME NEW c \in Calls, Send(c) PROVE \A e \in Calls : Standing(call'[e])
    <2>1. PICK r \in Askable : Advance(c, [stage |-> "sent", request |-> r])
      BY <1>3 DEF Send
    <2> QED
      BY <1>1, <2>1 DEF Standing
  <1>4. ASSUME NEW c \in Calls, Serve(c) PROVE \A e \in Calls : Standing(call'[e])
    <2>1. CASE TurnAway(c)  BY <1>2, <2>1 DEF TurnAway
    <2>2. CASE Get(c)       BY <1>2, <2>2 DEF Get
    <2>3. CASE HandBack(c)  BY <1>2, <2>3 DEF HandBack
    <2>4. CASE Apply(c)
      <3>1. ASSUME NEW d, Advance(c, [stage |-> "applied", request |-> Asks(c), work |-> d])
            PROVE  \A e \in Calls : Standing(call'[e])
        BY <1>1, <3>1 DEF Standing
      <3>2. \/ Answer(c, 409)
            \/ \E d : Advance(c, [stage |-> "applied", request |-> Asks(c), work |-> d])
        BY <2>4 DEF Apply
      <3>3. CASE Answer(c, 409)
        BY <1>2, <3>3
      <3>4. CASE \E d : Advance(c, [stage |-> "applied", request |-> Asks(c), work |-> d])
        <4>1. PICK d : Advance(c, [stage |-> "applied", request |-> Asks(c), work |-> d])
          BY <3>4
        <4> QED
          BY <3>1, <4>1
      <3> QED
        BY <3>2, <3>3, <3>4
    <2>5. CASE Commit(c)    BY <1>1, <2>5 DEF Commit, Standing
    <2>6. CASE Respond(c)   BY <1>2, <2>6 DEF Respond
    <2> QED
      BY <1>4, <2>1, <2>2, <2>3, <2>4, <2>5, <2>6 DEF Serve
  <1>5. ASSUME NEW c \in Calls, Wait(c) PROVE \A e \in Calls : Standing(call'[e])
    <2>1. CASE Insert(c)
      BY <1>1, <2>1 DEF Insert, Standing
    <2>2. CASE GetScheduleForUpdate(c)
      <3>1. ASSUME Advance(c, [stage |-> "locked", request |-> Asks(c), work |-> store])
            PROVE  \A e \in Calls : Standing(call'[e])
        BY <1>1, <3>1 DEF Standing
      <3> QED
        BY <1>2, <2>2, <3>1 DEF GetScheduleForUpdate
    <2> QED
      BY <1>5, <2>1, <2>2 DEF Wait
  <1>6. ASSUME NEW c \in Calls, Fail(c) PROVE \A e \in Calls : Standing(call'[e])
    BY <1>2, <1>6 DEF Fail
  <1>7. CASE NextDay \/ UNCHANGED vars
    BY <1>7 DEF NextDay, vars
  <1> QED
    BY <1>3, <1>4, <1>5, <1>6, <1>7 DEF Next

(* What is committed, what a transaction sees and what a caller is told have  *)
(* their types: a transaction's view is a row the schedule's transitions make *)
(* of a sound one (OutcomesAreRows).                                          *)
THEOREM RequestsTypeCorrect == Spec => []TypeOK
  <1>1. Spec => [](\A c \in Calls : Standing(call[c]))
    <2>1. Init => \A c \in Calls : Standing(call[c])
      BY DEF Init, Standing
    <2>2. IInv /\ (\A c \in Calls : Standing(call[c])) /\ [Next]_vars =>
            (\A c \in Calls : Standing(call[c]))'
      BY StandingStays
    <2> QED
      BY <2>1, <2>2, Discipline, PTL DEF Spec
  <1>2. /\ IInv /\ Committed!TypeOK /\ Committed!NothingOutstandingUnlessActive
        /\ Committed!LogAgrees /\ (\A c \in Calls : Standing(call[c]))
        => TypeOK
    <2> SUFFICES ASSUME IInv, Committed!TypeOK, Committed!NothingOutstandingUnlessActive,
                        Committed!LogAgrees, \A c \in Calls : Standing(call[c])
                 PROVE  TypeOK
      OBVIOUS
    <2>1. store \in Committed!Rows /\ Committed!Agrees(store) /\ Committed!Quiet(store)
      BY DEF Committed!TypeOK, Committed!NothingOutstandingUnlessActive,
             Committed!LogAgrees, Committed!Agrees, Committed!Quiet
    <2>2. ASSUME NEW c \in Calls, HoldsRow(c)
          PROVE  call[c].work \in Committed!Rows
      <3>1. Sensible(Asks(c)) /\ WellFormed(Asks(c)) /\ Asks(c).route \notin {"create", "get"}
        BY <2>2 DEF IInv, CallOK, HoldsRow, In
      <3>2. call[c].work = store \/ call[c].work \in Outcomes(Asks(c), store)
        BY <2>2 DEF IInv, CallOK, HoldsRow
      <3>3. today \in Int
        BY DEF IInv
      <3> QED
        BY <2>1, <3>1, <3>2, <3>3, OutcomesAreRows
    <2>3. \A c \in Calls :
             /\ call[c].stage \in {"answered", "sent", "duplicate", "inserted", "locked",
                                  "applied", "committed"}
             /\ In(c, "answered") => call[c].code \in {200, 201, 400, 401, 404, 409, 500}
      BY DEF Standing, In
    <2>4. today \in Int /\ made \in Nat
      BY DEF IInv
    <2> QED
      BY <2>1, <2>2, <2>3, <2>4, SameRows DEF TypeOK
  <1> QED
    BY <1>1, <1>2, Discipline, CommittedRowsAreSound, PTL
-----------------------------------------------------------------------------
\* A call is moved by its own client, the server at its request, or a failure.
LEMMA OneCallMoves ==
  ASSUME IInv, [Next]_vars, NEW c \in Calls, call'[c] # call[c]
  PROVE  Send(c) \/ Serve(c) \/ Wait(c) \/ Fail(c)
  <1>1. ASSUME NEW e \in Calls, NEW state, Advance(e, state)
        PROVE  c = e
    BY <1>1, Advancing DEF IInv
  <1>2. ASSUME NEW e \in Calls, NEW code, Answer(e, code)
        PROVE  c = e
    BY <1>1, <1>2 DEF Answer
  <1>3. ASSUME NEW e \in Calls, Send(e) PROVE c = e
    BY <1>1, <1>3 DEF Send
  <1>4. ASSUME NEW e \in Calls, Serve(e) PROVE c = e
    <2>1. CASE TurnAway(e)  BY <1>2, <2>1 DEF TurnAway
    <2>2. CASE Get(e)       BY <1>2, <2>2 DEF Get
    <2>3. CASE HandBack(e)  BY <1>2, <2>3 DEF HandBack
    <2>4. CASE Apply(e)     BY <1>1, <1>2, <2>4 DEF Apply
    <2>5. CASE Commit(e)    BY <1>1, <2>5 DEF Commit
    <2>6. CASE Respond(e)   BY <1>2, <2>6 DEF Respond
    <2> QED
      BY <1>4, <2>1, <2>2, <2>3, <2>4, <2>5, <2>6 DEF Serve
  <1>5. ASSUME NEW e \in Calls, Wait(e) PROVE c = e
    <2>1. CASE Insert(e)
      BY <1>1, <2>1 DEF Insert
    <2>2. CASE GetScheduleForUpdate(e)
      BY <1>1, <1>2, <2>2 DEF GetScheduleForUpdate
    <2> QED
      BY <1>5, <2>1, <2>2 DEF Wait
  <1>6. ASSUME NEW e \in Calls, Fail(e) PROVE c = e
    BY <1>2, <1>6 DEF Fail
  <1>7. ~NextDay /\ ~UNCHANGED vars
    BY DEF NextDay, vars
  <1>8. PICK e \in Calls : Send(e) \/ Serve(e) \/ Wait(e) \/ Fail(e)
    BY <1>7 DEF Next
  <1> QED
    BY <1>3, <1>4, <1>5, <1>6, <1>8

\* What the call that moves is then.
LEMMA MovedTo ==
  ASSUME IInv, NEW c \in Calls, NEW state, Advance(c, state)
  PROVE  call'[c] = state
  BY Advancing DEF IInv

(* Another customer never waits for this schedule's lock, and every answer it *)
(* gets is one it would get if there were no schedule (scope.go;              *)
(* GetScheduleForUpdate).                                                     *)
THEOREM StrangersNeverLearn == Spec => StrangersLearnNothing
  <1>1. IInv /\ [Next]_vars =>
          [\A c \in Calls : In(c, "sent") /\ Asks(c).who = "stranger" /\ call'[c] # call[c] =>
             call'[c].stage = "answered" /\ call'[c].code \in {400, 401, 404, 500}]_vars
    <2> SUFFICES ASSUME IInv, [Next]_vars, NEW c \in Calls,
                        In(c, "sent"), Asks(c).who = "stranger", call'[c] # call[c]
                 PROVE  call'[c].stage = "answered" /\ call'[c].code \in {400, 401, 404, 500}
      OBVIOUS
    <2>1. ASSUME NEW code, Answer(c, code)
          PROVE  call'[c].stage = "answered" /\ call'[c].code = code
      BY <2>1, MovedTo DEF Answer
    <2>2. CASE TurnAway(c)
      BY <2>1, <2>2 DEF TurnAway
    <2>3. CASE Get(c)
      BY <2>1, <2>3 DEF Get, InScope
    <2>4. CASE GetScheduleForUpdate(c)
      BY <2>1, <2>4 DEF GetScheduleForUpdate, InScope
    <2>5. CASE Fail(c)
      BY <2>1, <2>5 DEF Fail
    \* The checkout's route admits no customer.
    <2>6. ~Insert(c)
      BY DEF Insert, Accepted, Admitted
    <2>7. ~(Send(c) \/ HandBack(c) \/ Apply(c) \/ Commit(c) \/ Respond(c))
      BY DEF Send, HandBack, Apply, Commit, Respond, In
    <2> QED
      BY <2>2, <2>3, <2>4, <2>5, <2>6, <2>7, OneCallMoves DEF Serve, Wait
  <1> QED
    BY <1>1, Discipline, PTL DEF Spec, StrangersLearnNothing

(* A retry of a skip or a deferral that was carried out leaves the schedule   *)
(* as it is, at whatever distance and among whatever other calls it comes     *)
(* (transition; EventExistsWithKey).                                          *)
THEOREM RetriesStayNoOps == Spec => RetriesAreNoOps
  <1>1. IInv /\ [Next]_vars =>
          [\A c \in Calls :
             In(c, "locked") /\ Done(Asks(c), call[c].work) /\ call'[c] # call[c] =>
               \/ call'[c].stage = "applied" /\ call'[c].work = store
               \/ /\ call'[c].stage = "answered" /\ call'[c].code \in {409, 500}
                  /\ call'[c].code = 409 => store.status # "active"]_vars
    <2> SUFFICES ASSUME IInv, [Next]_vars, NEW c \in Calls,
                        In(c, "locked"), Done(Asks(c), call[c].work), call'[c] # call[c]
                 PROVE  \/ call'[c].stage = "applied" /\ call'[c].work = store
                        \/ /\ call'[c].stage = "answered" /\ call'[c].code \in {409, 500}
                           /\ call'[c].code = 409 => store.status # "active"
      OBVIOUS
    <2>1. ASSUME NEW code, Answer(c, code)
          PROVE  call'[c].stage = "answered" /\ call'[c].code = code
      BY <2>1, MovedTo DEF Answer
    <2>2. call[c].work = store
      BY DEF IInv, CallOK
    <2>3. CASE Fail(c)
      BY <2>1, <2>3 DEF Fail
    <2>4. CASE Apply(c)
      <3>1. \/ Outcomes(Asks(c), store) = {} /\ store.status # "active"
            \/ Outcomes(Asks(c), store) = {store}
        BY <2>2 DEF Outcomes, Done, S!scheduleTransitions
      <3>2. CASE Answer(c, 409) /\ Outcomes(Asks(c), store) = {}
        BY <2>1, <3>1, <3>2
      <3>3. ASSUME NEW d \in Outcomes(Asks(c), store),
                   Advance(c, [stage |-> "applied", request |-> Asks(c), work |-> d])
            PROVE  call'[c].stage = "applied" /\ call'[c].work = store
        BY <3>1, <3>3, MovedTo
      <3> QED
        BY <2>2, <2>4, <3>2, <3>3 DEF Apply
    <2>5. ~(Send(c) \/ TurnAway(c) \/ Get(c) \/ HandBack(c) \/ Commit(c) \/ Respond(c))
      BY DEF Send, TurnAway, Get, HandBack, Commit, Respond, Accepted, In
    <2>6. ~Wait(c)
      BY DEF Wait, Insert, GetScheduleForUpdate, Transacts, Accepted, In
    <2> QED
      BY <2>3, <2>4, <2>5, <2>6, OneCallMoves DEF Serve
  <1> QED
    BY <1>1, Discipline, PTL DEF Spec, RetriesAreNoOps
-----------------------------------------------------------------------------
(* What the log keeps.                                                      *)

\* Rows that have a status and a log with its retry keys.
Shaped(d) == {"status", "log"} \subseteq DOMAIN d /\ "keys" \in DOMAIN d.log

\* Rows whose log has the keys it had, and those of one request more.
Gains(d, e, keys) == Shaped(e) /\ e.log.keys = d.log.keys \union keys

\* A run records no key.
LEMMA RunsKeepKeys ==
  ASSUME NEW d, Shaped(d), NEW runDate
  PROVE  Gains(d, S!Run(d, runDate), {})
  <1> DEFINE planned == [i \in 1..(Horizon - S!CountFuturePlanned(d, runDate)) |->
                           [date   |-> S!PlannedDate(d.anchor, d.interval,
                                                     S!StartOfRun(d, runDate), i),
                            status |-> "planned"]]
             extended == [d EXCEPT !.occ = @ \o planned]
             e == [type |-> "occurrence.materialized", rows |-> planned]
             created == S!AppendEvent(extended, e)
  <1>1. Shaped(extended) /\ extended.log = d.log
    BY DEF Shaped
  <1> HIDE DEF planned, extended
  <1>2. created.log = [d.log EXCEPT !.occ = @ \o planned] /\ DOMAIN created = DOMAIN extended
    BY <1>1 DEF Shaped, S!AppendEvent, S!Replay
  <1>3. Gains(d, created, {})
    BY <1>1, <1>2 DEF Shaped, Gains
  <1> HIDE DEF created
  <1>4. Gains(d, S!RefreshNextRunDate(created, runDate), {})
    BY <1>3 DEF Shaped, Gains, S!RefreshNextRunDate, S!UpdateScheduleNextRun
  <1>5. S!Run(d, runDate) = S!RefreshNextRunDate(created, runDate)
    BY DEF S!Run, created, extended, planned
  <1> QED
    BY <1>4, <1>5

\* The key a request leaves in the log.
KeyOf(r) ==
  CASE r.route = "skip_next" -> {<<"occurrence.skipped", r.key>>}
    [] r.route = "defer" -> {<<"occurrence.deferred", r.key>>}
    [] OTHER -> {}

\* A transition records its request's key, and forgets none.
LEMMA ClosuresKeepKeys ==
  ASSUME NEW r, NEW d, Shaped(d), Sensible(r), r.route \notin {"create", "get"},
         NEW e \in Unkeyed(r, d)
  PROVE  Gains(d, e, KeyOf(r))
  <1>1. CASE r.route = "pause"
    <2>1. e = S!Paused(d, r.until)
      BY <1>1 DEF Unkeyed
    <2> QED
      BY <1>1, <2>1 DEF Shaped, Gains, KeyOf, S!Paused, S!UpdateScheduleStatus,
         S!CancelOccurrences, S!UpdateScheduleNextRun, S!AppendEvent, S!Replay
  <1>2. CASE r.route = "resume"
    <2> DEFINE logged ==
          S!AppendEvent(S!UpdateScheduleCadence(S!UpdateScheduleStatus(d, "active", NoDate),
                                                d.interval, today),
                        [type |-> "schedule.resumed", interval |-> d.interval,
                         anchor |-> today])
    <2>1. Gains(d, logged, {})
      BY DEF Shaped, Gains, S!UpdateScheduleStatus, S!UpdateScheduleCadence,
         S!AppendEvent, S!Replay
    <2>2. e = S!Run(logged, today)
      BY <1>2 DEF Unkeyed, S!Resumed
    <2> HIDE DEF logged
    <2>3. Gains(logged, e, {})
      BY <2>1, <2>2, RunsKeepKeys DEF Gains
    <2> QED
      BY <1>2, <2>1, <2>3 DEF Gains, KeyOf
  <1>3. CASE r.route = "skip_next"
    <2>1. PICK i \in DOMAIN d.occ : e = S!Skipped(d, i, r.key)
      BY <1>3 DEF Unkeyed, Soonest
    <2> DEFINE logged ==
          S!AppendEvent(S!UpdateOccurrenceStatus(d, i, "skipped"),
                        [type |-> "occurrence.skipped", seq |-> i, key |-> r.key])
    <2>2. Gains(d, logged, {<<"occurrence.skipped", r.key>>})
      BY DEF Shaped, Gains, S!UpdateOccurrenceStatus, S!AppendEvent, S!Replay
    <2>3. e = S!Run(logged, today)
      BY <2>1 DEF S!Skipped
    <2> HIDE DEF logged
    <2>4. Gains(logged, e, {})
      BY <2>2, <2>3, RunsKeepKeys DEF Gains
    <2> QED
      BY <1>3, <2>2, <2>4 DEF Gains, KeyOf
  <1>4. CASE r.route = "defer"
    <2>1. PICK i \in DOMAIN d.occ : e = S!Deferred(d, i, r.days, r.key)
      BY <1>4 DEF Unkeyed, Soonest
    <2> DEFINE to     == d.occ[i].date + r.days
               logged ==
          S!AppendEvent(S!UpdateOccurrenceDate(d, i, to),
                        [type |-> "occurrence.deferred", seq |-> i, to |-> to,
                         key |-> r.key])
    <2>2. Gains(d, logged, {<<"occurrence.deferred", r.key>>})
      BY DEF Shaped, Gains, S!UpdateOccurrenceDate, S!AppendEvent, S!Replay
    <2>3. e = S!RefreshNextRunDate(logged, today)
      BY <2>1 DEF S!Deferred
    <2> HIDE DEF logged
    <2>4. Gains(logged, e, {})
      BY <2>2, <2>3 DEF Shaped, Gains, S!RefreshNextRunDate, S!UpdateScheduleNextRun
    <2> QED
      BY <1>4, <2>2, <2>4 DEF Gains, KeyOf
  <1>5. CASE r.route = "change_cadence"
    <2> DEFINE anchor == IF S!LastPlacedDate(d) = {} THEN today ELSE S!Max(S!LastPlacedDate(d))
               logged ==
          S!AppendEvent(S!CancelOccurrences(S!UpdateScheduleCadence(d, r.interval, anchor),
                                            {"planned"}),
                        [type |-> "schedule.cadence_changed", interval |-> r.interval,
                         anchor |-> anchor])
    <2>1. e = IF d.status = "active" THEN S!Run(logged, today)
              ELSE S!UpdateScheduleNextRun(logged, NoDate)
      BY <1>5 DEF Unkeyed, S!CadenceChanged
    <2> HIDE DEF anchor
    <2>2. Gains(d, logged, {})
      BY DEF Shaped, Gains, S!UpdateScheduleCadence, S!CancelOccurrences,
         S!AppendEvent, S!Replay
    <2> HIDE DEF logged
    <2>3. CASE d.status = "active"
      BY <1>5, <2>1, <2>2, <2>3, RunsKeepKeys DEF Gains, KeyOf
    <2>4. CASE d.status # "active"
      BY <1>5, <2>1, <2>2, <2>4 DEF Shaped, Gains, KeyOf, S!UpdateScheduleNextRun
    <2> QED
      BY <2>3, <2>4
  <1>6. CASE r.route = "cancel"
    <2>1. e = S!Canceled(d)
      BY <1>6 DEF Unkeyed
    <2> QED
      BY <1>6, <2>1 DEF Shaped, Gains, KeyOf, S!Canceled, S!UpdateScheduleStatus,
         S!CancelOccurrences, S!UpdateScheduleNextRun, S!AppendEvent, S!Replay
  <1>7. CASE r.route = "arm"
    <2>1. PICK i \in DOMAIN d.occ : e = S!Armed(d, i)
      BY <1>7 DEF Unkeyed, Soonest
    <2> QED
      BY <1>7, <2>1 DEF Shaped, Gains, KeyOf, S!Armed, S!UpdateOccurrenceStatus,
         S!AppendEvent, S!Replay
  <1>8. CASE r.route = "materialize"
    <2>1. PICK runDate \in S!RunDates :
            e = IF d.status = "active" THEN S!Run(d, runDate) ELSE d
      BY <1>8 DEF Unkeyed
    <2>2. CASE d.status = "active"
      BY <1>8, <2>1, <2>2, RunsKeepKeys DEF KeyOf
    <2>3. CASE d.status # "active"
      BY <1>8, <2>1, <2>3 DEF Gains, KeyOf
    <2> QED
      BY <2>2, <2>3
  <1> QED
    BY <1>1, <1>2, <1>3, <1>4, <1>5, <1>6, <1>7, <1>8 DEF Sensible

\* A cancellation leaves the schedule canceled.
LEMMA CancellationCancels ==
  ASSUME NEW d, Shaped(d)
  PROVE  S!Canceled(d).status = "canceled"
  BY DEF Shaped, S!Canceled, S!UpdateScheduleStatus, S!CancelOccurrences,
     S!UpdateScheduleNextRun, S!AppendEvent

-----------------------------------------------------------------------------
(* What a caller is told.                                                   *)

\* What a request that was carried out has left in the rows.
Carried(r, d) ==
  /\ KeyOf(r) \subseteq d.log.keys
  /\ r.route = "cancel" => d.status = "canceled"

\* Whatever later transactions do, it stays there.
Kept(d, e) ==
  /\ Shaped(e) /\ d.log.keys \subseteq e.log.keys
  /\ d.status = "canceled" => e.status = "canceled"

LEMMA OutcomesCarryOut ==
  ASSUME NEW r, NEW d, Shaped(d), Sensible(r), r.route \notin {"create", "get"},
         NEW e \in Outcomes(r, d)
  PROVE  Kept(d, e) /\ Carried(r, e)
  <1>1. CASE Done(r, d)
    <2>1. e = d
      BY <1>1 DEF Outcomes
    <2> QED
      BY <1>1, <2>1 DEF Kept, Carried, KeyOf, Done, S!EventExistsWithKey
  <1>2. CASE ~Done(r, d)
    <2>1. e \in Unkeyed(r, d)
      BY <1>2 DEF Outcomes
    <2>2. Gains(d, e, KeyOf(r))
      BY <2>1, ClosuresKeepKeys
    <2>3. d.status = "canceled" => e = d
      <3>1. r.route # "materialize" => d.status \in S!scheduleTransitions[r.route]
        BY DEF Outcomes
      <3>2. r.route # "materialize" => d.status # "canceled"
        BY <3>1 DEF Sensible, S!scheduleTransitions
      <3>3. r.route = "materialize" /\ d.status = "canceled" => e = d
        BY <2>1 DEF Unkeyed
      <3> QED
        BY <3>2, <3>3
    <2>4. r.route = "cancel" => e = S!Canceled(d)
      BY <2>1 DEF Unkeyed
    <2> QED
      BY <2>2, <2>3, <2>4, CancellationCancels DEF Kept, Carried, Gains
  <1> QED
    BY <1>1, <1>2

\* How far a call is says what has been done for it.
Truthful(c) ==
  /\ In(c, "inserted") \/ In(c, "duplicate") => Asks(c).route = "create"
  /\ In(c, "committed") => made = 1 /\ (Asks(c).route # "create" => Carried(Asks(c), store))

TInv == IInv /\ Shaped(store) /\ \A c \in Calls : Truthful(c)

LEMMA InitiallyTruthful == Init => TInv
  <1> SUFFICES ASSUME Init
               PROVE  TInv
    OBVIOUS
  <1>1. Shaped(store)
    BY DEF Init, Shaped, S!Created
  <1>2. ASSUME NEW c \in Calls
        PROVE  Truthful(c)
    BY <1>2 DEF Init, Truthful, In
  <1> QED
    BY <1>1, <1>2, InitiallyKept DEF TInv

\* A call that stays put stays truthful while its work stays carried out.
LEMMA StayingTruthful ==
  ASSUME NEW e \in Calls, Truthful(e), call'[e] = call[e],
         made' = made \/ made' = 1, Kept(store, store')
  PROVE  Truthful(e)'
  <1>1. Carried(Asks(e), store) => Carried(Asks(e), store)'
    BY DEF Kept, Carried, KeyOf, Asks
  <1> QED
    BY <1>1 DEF Truthful, In, Asks

\* Every step keeps it.
LEMMA StepStaysTruthful ==
  ASSUME TInv, [Next]_vars
  PROVE  TInv'
  <1>1. IInv'
    BY StepKeeps DEF TInv
  <1>2. Kept(store, store') /\ (made' = made \/ made' = 1)
    <2>1. CASE UNCHANGED <<store, made>>
      BY <2>1 DEF TInv, Kept
    <2>2. ASSUME NEW c \in Calls, Commit(c)
          PROVE  Kept(store, store') /\ (made' = made \/ made' = 1)
      <3>1. CASE In(c, "inserted")
        BY <2>2, <3>1 DEF Commit, In, TInv, IInv, CallOK, Kept
      <3>2. CASE In(c, "applied")
        <4>1. PICK r : r = Asks(c)
          OBVIOUS
        <4>2. /\ Sensible(r) /\ r.route \notin {"create", "get"}
              /\ call[c].work \in Outcomes(r, store)
          BY <3>2, <4>1 DEF TInv, IInv, CallOK, In, HoldsRow
        <4>3. Kept(store, call[c].work)
          BY <4>2, OutcomesCarryOut DEF TInv
        <4> QED
          BY <2>2, <3>2, <4>3 DEF Commit, In
      <3> QED
        BY <2>2, <3>1, <3>2 DEF Commit
    <2> QED
      BY <2>1, <2>2 DEF Next, Serve, Wait, Send, TurnAway, Get, HandBack, Apply,
         Respond, Insert, GetScheduleForUpdate, Fail, NextDay, vars
  <1>3. ASSUME NEW c \in Calls
        PROVE  Truthful(c)'
    <2>1. CASE call'[c] = call[c]
      BY <1>2, <2>1, StayingTruthful DEF TInv
    <2>2. CASE call'[c] # call[c]
      <3>1. ASSUME NEW state, Advance(c, state),
                   state.stage \notin {"inserted", "duplicate", "committed"}
            PROVE  Truthful(c)'
        BY <3>1, MovedTo DEF TInv, Truthful, In
      <3>2. CASE Insert(c)
        <4>1. /\ call'[c] = [stage |-> IF Exists THEN "duplicate" ELSE "inserted",
                             request |-> Asks(c)]
              /\ Asks(c).route = "create"
          BY <3>2, MovedTo DEF Insert, TInv
        <4> QED
          BY <4>1 DEF Truthful, In, Asks
      <3>3. CASE Commit(c)
        <4>1. call'[c] = [stage |-> "committed", request |-> Asks(c)]
          BY <3>3, MovedTo DEF Commit, TInv
        <4>2. PICK r : r = Asks(c)
          OBVIOUS
        <4>3. CASE In(c, "inserted")
          <5>1. made' = 1 /\ r.route = "create"
            BY <3>3, <4>2, <4>3 DEF Commit, In, TInv, IInv, CallOK, Truthful
          <5> QED
            BY <4>1, <4>2, <5>1 DEF Truthful, In, Asks
        <4>4. CASE In(c, "applied")
          <5>1. /\ Sensible(r) /\ r.route \notin {"create", "get"} /\ made' = 1
                /\ store' \in Outcomes(r, store)
            BY <3>3, <4>2, <4>4 DEF Commit, TInv, IInv, CallOK, In, HoldsRow
          <5>2. PICK d : d = store'
            OBVIOUS
          <5>3. Carried(r, d)
            BY <5>1, <5>2, OutcomesCarryOut DEF TInv
          <5>4. Asks(c)' = r
            BY <4>1, <4>2 DEF Asks
          <5>5. Carried(Asks(c), store)'
            BY <5>2, <5>3, <5>4 DEF Carried, KeyOf
          <5> QED
            BY <4>1, <5>1, <5>5 DEF Truthful, In
        <4> QED
          BY <3>3, <4>3, <4>4 DEF Commit
      <3>4. ASSUME NEW code, Answer(c, code)
            PROVE  Truthful(c)'
        BY <3>1, <3>4 DEF Answer
      <3>5. CASE Send(c)
        BY <3>1, <3>5 DEF Send
      <3>6. CASE GetScheduleForUpdate(c)
        BY <3>1, <3>4, <3>6 DEF GetScheduleForUpdate
      <3>7. CASE Apply(c)
        <4>1. ASSUME NEW d, Advance(c, [stage |-> "applied", request |-> Asks(c), work |-> d])
              PROVE  Truthful(c)'
          BY <3>1, <4>1
        <4> QED
          BY <3>4, <3>7, <4>1 DEF Apply
      <3>8. CASE TurnAway(c) \/ Get(c) \/ HandBack(c) \/ Respond(c) \/ Fail(c)
        BY <3>4, <3>8 DEF TurnAway, Get, HandBack, Respond, Fail
      <3> QED
        BY <2>2, <3>2, <3>3, <3>5, <3>6, <3>7, <3>8, OneCallMoves DEF TInv, Serve, Wait
    <2> QED
      BY <2>1, <2>2
  <1> QED
    BY <1>1, <1>2, <1>3 DEF TInv, Kept

(* What a caller is told is so, whatever other calls did before its own was   *)
(* carried out or between that and its answer (respond; Create).              *)
THEOREM AnswersAreTrue == Spec => AnswersTellTheTruth
  <1>1. TInv /\ [Next]_vars =>
          [\A c \in Calls : Answers(c) =>
             LET r == Asks(c)  code == call'[c].code
             IN  /\ code \in {200, 201} =>
                      /\ Exists
                      /\ r.route = "skip_next" =>
                           <<"occurrence.skipped", r.key>> \in store.log.keys
                      /\ r.route = "defer" =>
                           <<"occurrence.deferred", r.key>> \in store.log.keys
                      /\ r.route = "cancel" => store.status = "canceled"
                 /\ code = 404 /\ r.who = "owner" => ~Exists]_vars
    <2> SUFFICES ASSUME TInv, [Next]_vars, NEW c \in Calls, Answers(c)
                 PROVE  /\ call'[c].code \in {200, 201} =>
                             Exists /\ (Asks(c).route \notin {"create", "get"} =>
                                          Carried(Asks(c), store))
                        /\ call'[c].code = 404 /\ Asks(c).who = "owner" => ~Exists
      BY DEF Carried, KeyOf
    <2>1. call'[c] # call[c]
      BY DEF Answers, In
    <2>2. ASSUME NEW code, Answer(c, code)
          PROVE  call'[c].code = code
      BY <2>2, MovedTo DEF Answer, TInv
    <2>3. CASE TurnAway(c)
      BY <2>2, <2>3 DEF TurnAway
    <2>4. CASE Get(c)
      BY <2>2, <2>4 DEF Get, InScope
    <2>5. CASE HandBack(c)
      BY <2>2, <2>5 DEF HandBack, TInv, Truthful
    <2>6. CASE GetScheduleForUpdate(c)
      <3>1. CASE Exists /\ InScope(Asks(c))
        BY <2>6, <3>1, MovedTo DEF GetScheduleForUpdate, Answers, In, TInv
      <3>2. CASE ~(Exists /\ InScope(Asks(c)))
        BY <2>2, <2>6, <3>2 DEF GetScheduleForUpdate, InScope
      <3> QED
        BY <3>1, <3>2
    <2>7. CASE Apply(c)
      <3>1. ASSUME NEW d, Advance(c, [stage |-> "applied", request |-> Asks(c), work |-> d])
            PROVE  FALSE
        BY <3>1, MovedTo DEF Answers, In, TInv
      <3>2. CASE Answer(c, 409)
        BY <2>2, <3>2
      <3> QED
        BY <2>7, <3>1, <3>2 DEF Apply
    <2>8. CASE Respond(c)
      BY <2>2, <2>8 DEF Respond, TInv, Truthful, Exists
    <2>9. CASE Fail(c)
      BY <2>2, <2>9 DEF Fail
    <2>10. ~Send(c) /\ ~Insert(c) /\ ~Commit(c)
      <3>1. ASSUME NEW state, Advance(c, state), state.stage # "answered"
            PROVE  FALSE
        BY <3>1, MovedTo DEF Answers, In, TInv
      <3> QED
        BY <3>1 DEF Send, Insert, Commit, Answers
    <2> QED
      BY <2>1, <2>3, <2>4, <2>5, <2>6, <2>7, <2>8, <2>9, <2>10, OneCallMoves
         DEF TInv, Serve, Wait
  <1>2. TInv /\ [Next]_vars => TInv'
    BY StepStaysTruthful
  <1> QED
    BY <1>1, <1>2, InitiallyTruthful, PTL DEF Spec, AnswersTellTheTruth
=============================================================================

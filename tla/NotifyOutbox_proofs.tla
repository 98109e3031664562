------------------------ MODULE NotifyOutbox_proofs ------------------------
(***************************************************************************)
(* The outbox's invariants, for any number of events and of overlapping    *)
(* runs, any page size and attempts cap, and any two timeouts of which the *)
(* run's is the shorter.                                                   *)
(*                                                                         *)
(* A step of one run changes that run and the rows it has in hand; what it *)
(* owes the other runs is only that their rows grow no older by it, and    *)
(* what it owes the log is that it writes no row off unhandled.            *)
(***************************************************************************)
EXTENDS NotifyOutbox, NaturalsInduction, WellFoundedInduction, TLAPS

RowType == [status : {"none", "pending", "sent", "failed"},
            attempts : 0..MaxAttempts, age : 0..Stale]

RunType == [at : {"off", "claim", "lock", "upsert", "dispatch", "send",
                  "mark sent", "mark failed"},
            age : 0..RunTimeout, seen : SUBSET Events,
            page : SUBSET Events, full : BOOLEAN]

\* Where a run has a page in hand.
Working == {"dispatch", "send", "mark sent", "mark failed"}

\* The email went out, or there is none to send.
Handled(e) == e \in delivered \/ e \in NoAddress \/ (e \in Notices /\ orders[e] = "settled")

\* What is known of a run at work: it has a page, whose rows it has claimed and which
\* are no older than it is, and it writes no row off but a handled one.
Holds(r) ==
  /\ r.at \in Working =>
       r.page # {} /\ \A e \in r.page : rows[e].status # "none" /\ rows[e].age <= r.age
  /\ r.at = "mark sent" => Handled(Min(r.page))

\* The inductive invariant.  An event without a row has none of a row's columns, which
\* is what makes a first claim's row a new one.
OInv == /\ TypeOK /\ SentMeansHandled
        /\ \A e \in Events : rows[e].status = "none" => rows[e] = NoRow
        /\ \A w \in Runs : Holds(run[w])

\* Handled and Holds of a run's record, after a step.
HandledThen(e) ==
  e \in delivered' \/ e \in NoAddress \/ (e \in Notices /\ orders'[e] = "settled")

HoldsThen(r) ==
  /\ r.at \in Working =>
       r.page # {} /\ \A e \in r.page : rows'[e].status # "none" /\ rows'[e].age <= r.age
  /\ r.at = "mark sent" => HandledThen(Min(r.page))

-----------------------------------------------------------------------------
(* A page's first event is one of the page (Current).                        *)
LEMMA FirstOfPage ==
  ASSUME NEW P \in SUBSET Events, P # {}
  PROVE  Min(P) \in P
  <1>1. P \subseteq Nat
    BY OutboxAssumption
  <1>2. PICK m \in P : \A k \in P : ~(<<k, m>> \in OpToRel(<, Nat))
    BY <1>1, WFMin, NatLessThanWellFounded
  <1>3. ASSUME NEW k \in P
        PROVE  m <= k
    <2>1. m \in Nat /\ k \in Nat
      BY <1>1
    <2>2. k < m => <<k, m>> \in OpToRel(<, Nat)
      BY <2>1, SMT DEF OpToRel
    <2>3. ~(k < m)
      BY <1>2, <2>2
    <2> QED
      BY <2>1, <2>3, SMT
  <1> QED
    BY <1>3 DEF Min

(* The parts of the invariant, unprimed and primed.                          *)
LEMMA OInvParts ==
  /\ OInv <=> /\ rows \in [Events -> RowType] /\ orders \in [Notices -> {"pending", "settled"}]
              /\ run \in [Runs -> RunType] /\ delivered \subseteq Events
              /\ \A e \in Events : rows[e].status = "sent" => Handled(e)
              /\ \A e \in Events : rows[e].status = "none" => rows[e] = NoRow
              /\ \A w \in Runs : Holds(run[w])
  /\ OInv' <=> /\ rows' \in [Events -> RowType]
               /\ orders' \in [Notices -> {"pending", "settled"}]
               /\ run' \in [Runs -> RunType] /\ delivered' \subseteq Events
               /\ \A e \in Events : rows'[e].status = "sent" => HandledThen(e)
               /\ \A e \in Events : rows'[e].status = "none" => rows'[e] = NoRow
               /\ \A w \in Runs : HoldsThen(run'[w])
  BY DEF OInv, TypeOK, SentMeansHandled, Handled, HandledThen, Holds, HoldsThen,
         RowType, RunType

\* What a step leaves of the other runs' concerns: what is handled stays handled, a row
\* in the log stays there and grows no older, and none is newly written off unhandled.
Considerate ==
  /\ rows' \in [Events -> RowType]
  /\ orders' \in [Notices -> {"pending", "settled"}]
  /\ delivered' \subseteq Events
  /\ \A e \in Events : Handled(e) => HandledThen(e)
  /\ \A e \in Events : rows'[e].status = "sent" => rows[e].status = "sent" \/ HandledThen(e)
  /\ \A e \in Events :
       rows[e].status # "none" => rows'[e].status # "none" /\ rows'[e].age <= rows[e].age
  /\ \A e \in Events : rows'[e].status = "none" => rows'[e] = NoRow

(* A considerate step leaves a run it does not change in order.              *)
LEMMA OthersHold ==
  ASSUME OInv, Considerate, NEW v \in Runs
  PROVE  HoldsThen(run[v])
  <1>1. /\ rows \in [Events -> RowType] /\ run[v] \in RunType /\ Holds(run[v])
        /\ rows' \in [Events -> RowType]
    BY OInvParts DEF Considerate
  <1>2. run[v].page \in SUBSET Events /\ run[v].age \in Int
    <2>1. run[v].page \in SUBSET Events /\ run[v].age \in 0..RunTimeout
      BY <1>1 DEF RunType
    <2> QED
      BY <2>1, SMT
  <1>3. ASSUME run[v].at \in Working, NEW e \in run[v].page
        PROVE  rows'[e].status # "none" /\ rows'[e].age <= run[v].age
    <2>1. e \in Events /\ rows[e].status # "none" /\ rows[e].age <= run[v].age
      BY <1>1, <1>2, <1>3 DEF Holds
    <2>2. rows'[e].status # "none" /\ rows'[e].age <= rows[e].age
      BY <2>1 DEF Considerate
    <2>3. rows[e].age \in Int /\ rows'[e].age \in Int
      BY <1>1, <2>1, OutboxAssumption DEF RowType, Stale
    <2> QED
      BY <1>2, <2>1, <2>2, <2>3, SMT
  <1>4. ASSUME run[v].at = "mark sent"
        PROVE  HandledThen(Min(run[v].page))
    <2>1. run[v].at \in Working
      BY <1>4 DEF Working
    <2>2. Min(run[v].page) \in Events
      BY <1>1, <1>2, <2>1, FirstOfPage DEF Holds
    <2> QED
      BY <1>1, <1>4, <2>2 DEF Holds, Considerate
  <1> QED
    BY <1>1, <1>3, <1>4 DEF Holds, HoldsThen

(* A considerate step of one run, which leaves itself in order.              *)
LEMMA OneRunSteps ==
  ASSUME OInv, Considerate, NEW w \in Runs, NEW x \in RunType,
         run' = [run EXCEPT ![w] = x], HoldsThen(x)
  PROVE  OInv'
  <1>1. run \in [Runs -> RunType] /\ \A e \in Events : rows[e].status = "sent" => Handled(e)
    BY OInvParts
  <1>2. run' \in [Runs -> RunType]
    BY <1>1
  <1>3. \A v \in Runs : HoldsThen(run'[v])
    <2>1. \A v \in Runs : v # w => run'[v] = run[v]
      BY <1>1
    <2>2. run'[w] = x
      BY <1>1
    <2> QED
      BY <2>1, <2>2, OthersHold
  <1>4. \A e \in Events : rows'[e].status = "sent" => HandledThen(e)
    BY <1>1 DEF Considerate
  <1> QED
    BY <1>2, <1>3, <1>4, OInvParts DEF Considerate

(* A step that leaves rows, orders and deliveries alone is considerate.      *)
LEMMA LookingIsConsiderate ==
  ASSUME OInv, UNCHANGED <<rows, orders, delivered>>
  PROVE  Considerate
  <1>1. /\ rows \in [Events -> RowType] /\ orders \in [Notices -> {"pending", "settled"}]
        /\ delivered \subseteq Events
        /\ \A e \in Events : rows[e].status = "none" => rows[e] = NoRow
    BY OInvParts
  <1>2. \A e \in Events : rows[e].age <= rows[e].age
    <2>1. \A e \in Events : rows[e].age \in Int
      BY <1>1, OutboxAssumption DEF RowType, Stale
    <2> QED
      BY <2>1, SMT
  <1> QED
    BY <1>1, <1>2 DEF Considerate, Handled, HandledThen

(* A considerate step of no run leaves the runs in order.                    *)
LEMMA NoRunSteps ==
  ASSUME OInv, Considerate, run' = run
  PROVE  OInv'
  <1>1. run \in [Runs -> RunType] /\ \A e \in Events : rows[e].status = "sent" => Handled(e)
    BY OInvParts
  <1>2. \A v \in Runs : HoldsThen(run'[v])
    BY OthersHold
  <1>3. \A e \in Events : rows'[e].status = "sent" => HandledThen(e)
    BY <1>1 DEF Considerate
  <1> QED
    BY <1>1, <1>2, <1>3, OInvParts DEF Considerate

(* Writing the status of a row a run has claimed is considerate, as long as  *)
(* none is written off unhandled (MarkNotificationSent, ...Failed).          *)
LEMMA MarkingIsConsiderate ==
  ASSUME OInv, NEW e \in Events, rows[e].status # "none",
         NEW status \in {"pending", "sent", "failed"},
         status = "sent" => Handled(e),
         rows' = [rows EXCEPT ![e].status = status], UNCHANGED <<orders, delivered>>
  PROVE  Considerate
  <1>1. /\ rows \in [Events -> RowType] /\ orders \in [Notices -> {"pending", "settled"}]
        /\ delivered \subseteq Events
        /\ \A f \in Events : rows[f].status = "none" => rows[f] = NoRow
    BY OInvParts
  <1> DEFINE x == [rows[e] EXCEPT !.status = status]
  <1>2. x \in RowType /\ x.status = status /\ x.age = rows[e].age
    BY <1>1 DEF RowType
  <1>3. rows' = [rows EXCEPT ![e] = x]
    OBVIOUS
  <1> HIDE DEF x
  <1>4. /\ rows' \in [Events -> RowType] /\ rows'[e] = x
        /\ \A f \in Events : f # e => rows'[f] = rows[f]
    BY <1>1, <1>2, <1>3
  <1>5. \A f \in Events : rows'[f].age = rows[f].age /\ rows[f].age <= rows[f].age
    <2>1. \A f \in Events : rows[f].age \in 0..Stale
      BY <1>1 DEF RowType
    <2>2. \A f \in Events : rows[f].age <= rows[f].age
      BY <2>1, OutboxAssumption, SMT DEF Stale
    <2> QED
      BY <1>2, <1>4, <2>2
  <1>6. \A f \in Events : Handled(f) => HandledThen(f)
    BY DEF Handled, HandledThen
  <1>7. \A f \in Events :
          /\ rows'[f].status = "sent" => rows[f].status = "sent" \/ HandledThen(f)
          /\ rows[f].status # "none" => rows'[f].status # "none"
          /\ rows'[f].status = "none" => rows'[f] = NoRow
    BY <1>1, <1>2, <1>4, <1>6
  <1> QED
    BY <1>1, <1>4, <1>5, <1>6, <1>7 DEF Considerate

-----------------------------------------------------------------------------
(* The runs' own records.                                                    *)

(* A run between pages owes nothing.                                         *)
LEMMA IdleHolds ==
  ASSUME NEW x, x.at \in {"off", "claim", "lock", "upsert"}
  PROVE  HoldsThen(x)
  BY DEF HoldsThen, Working

(* Moving a run's program counter is one record for another.                 *)
LEMMA RunMoves ==
  ASSUME NEW r \in RunType,
         NEW at \in {"off", "claim", "lock", "upsert", "dispatch", "send",
                     "mark sent", "mark failed"}
  PROVE  LET x == [r EXCEPT !.at = at]
         IN  x \in RunType /\ x.at = at /\ x.page = r.page /\ x.age = r.age
  BY DEF RunType

(* The record of a run that is off.                                          *)
LEMMA OffIsARun == Off \in RunType /\ Off.at = "off"
  BY OutboxAssumption DEF Off, RunType

(* A run at work has a page, whose first event is in hand.                   *)
LEMMA AtWork ==
  ASSUME OInv, NEW w \in Runs, run[w].at \in Working
  PROVE  /\ run[w] \in RunType /\ run[w].page \in SUBSET Events /\ run[w].page # {}
         /\ Current(w) \in run[w].page /\ Current(w) \in Events
         /\ rows[Current(w)].status # "none"
         /\ run[w].at = "mark sent" => Handled(Current(w))
  <1>1. run[w] \in RunType /\ Holds(run[w])
    BY OInvParts
  <1>2. run[w].page \in SUBSET Events /\ run[w].page # {}
    BY <1>1 DEF RunType, Holds
  <1>3. Current(w) \in run[w].page
    BY <1>2, FirstOfPage DEF Current
  <1> QED
    BY <1>1, <1>2, <1>3 DEF Holds, Current

(* Going on with the page, considerate of the others, keeps the invariant.   *)
LEMMA AdvanceKeeps ==
  ASSUME OInv, Considerate, NEW w \in Runs, run[w].at \in Working, Advance(w)
  PROVE  OInv'
  <1> DEFINE rest == run[w].page \ {Current(w)}
             x == IF rest # {} THEN [run[w] EXCEPT !.at = "dispatch", !.page = rest]
                  ELSE IF run[w].full THEN [run[w] EXCEPT !.at = "claim", !.page = {}]
                  ELSE Off
  <1>1. run' = [run EXCEPT ![w] = x]
    BY DEF Advance
  <1>2. run[w] \in RunType /\ rest \in SUBSET Events
    BY AtWork
  <1>3. HoldsThen(run[w])
    BY OthersHold
  <1> HIDE DEF rest
  <1>4. CASE rest # {}
    <2>1. x = [run[w] EXCEPT !.at = "dispatch", !.page = rest]
      BY <1>4
    <2> HIDE DEF x
    <2>2. x \in RunType /\ x.at = "dispatch" /\ x.page = rest /\ x.age = run[w].age
      BY <1>2, <2>1 DEF RunType
    <2>3. HoldsThen(x)
      BY <1>3, <1>4, <2>2 DEF HoldsThen, rest
    <2> QED
      BY <1>1, <2>2, <2>3, OneRunSteps
  <1>5. CASE rest = {} /\ run[w].full
    <2>1. x = [run[w] EXCEPT !.at = "claim", !.page = {}]
      BY <1>5
    <2> HIDE DEF x
    <2>2. x \in RunType /\ x.at = "claim"
      BY <1>2, <2>1 DEF RunType
    <2>3. HoldsThen(x)
      BY <2>2, IdleHolds
    <2> QED
      BY <1>1, <2>2, <2>3, OneRunSteps
  <1>6. CASE rest = {} /\ ~run[w].full
    <2>1. x = Off
      BY <1>6
    <2> HIDE DEF x
    <2>2. x \in RunType /\ x.at = "off"
      BY <2>1, OffIsARun
    <2>3. HoldsThen(x)
      BY <2>2, IdleHolds
    <2> QED
      BY <1>1, <2>2, <2>3, OneRunSteps
  <1> QED
    BY <1>4, <1>5, <1>6

-----------------------------------------------------------------------------
(* The steps.                                                                *)

(* Starting, and the first two steps of a claim, change the run alone.       *)
LEMMA StartKeeps ==
  ASSUME OInv, NEW w \in Runs, Start(w) \/ ClaimSnapshot(w) \/ ClaimLock(w)
  PROVE  OInv'
  <1>1. Considerate
    BY LookingIsConsiderate DEF Start, ClaimSnapshot, ClaimLock
  <1>2. run \in [Runs -> RunType] /\ run[w] \in RunType
    BY OInvParts
  <1>3. CASE Start(w)
    <2> DEFINE x == [run[w] EXCEPT !.at = "claim"]
    <2>1. run' = [run EXCEPT ![w] = x]
      BY <1>3 DEF Start
    <2>2. x \in RunType /\ x.at = "claim"
      BY <1>2, RunMoves
    <2> HIDE DEF x
    <2>3. HoldsThen(x)
      BY <2>2, IdleHolds
    <2> QED
      BY <1>1, <2>1, <2>2, <2>3, OneRunSteps
  <1>4. CASE ClaimSnapshot(w)
    <2> DEFINE S == {e \in Events : Due(e)}
               x == [run[w] EXCEPT !.at = "lock", !.seen = S]
    <2>1. run' = [run EXCEPT ![w] = x]
      BY <1>2, <1>4 DEF ClaimSnapshot
    <2>2. S \in SUBSET Events
      OBVIOUS
    <2> HIDE DEF S
    <2>3. x \in RunType /\ x.at = "lock"
      BY <1>2, <2>2 DEF RunType
    <2> HIDE DEF x
    <2>4. HoldsThen(x)
      BY <2>3, IdleHolds
    <2> QED
      BY <1>1, <2>1, <2>3, <2>4, OneRunSteps
  <1>5. CASE ClaimLock(w)
    <2> DEFINE locked == UNION {run[v].page : v \in {u \in Runs : run[u].at = "upsert"}}
               page == FirstPage(run[w].seen \ locked)
               x == [run[w] EXCEPT !.at = "upsert", !.seen = {}, !.page = page]
    <2>1. run' = [run EXCEPT ![w] = x]
      <3>1. run' = [run EXCEPT ![w].at = "upsert", ![w].seen = {}, ![w].page = page]
        BY <1>5 DEF ClaimLock
      <3> HIDE DEF page
      <3> QED
        BY <1>2, <3>1
    <2>2. page \in SUBSET Events
      BY <1>2 DEF FirstPage, RunType
    <2> HIDE DEF page
    <2>3. x \in RunType /\ x.at = "upsert"
      BY <1>2, <2>2 DEF RunType
    <2> HIDE DEF x
    <2>4. HoldsThen(x)
      BY <2>3, IdleHolds
    <2> QED
      BY <1>1, <2>1, <2>3, <2>4, OneRunSteps
  <1> QED
    BY <1>3, <1>4, <1>5

(* The upsert writes or renews the page's rows and leaves the rest.          *)
LEMMA UpsertIsConsiderate ==
  ASSUME OInv, NEW w \in Runs, ClaimUpsert(w)
  PROVE  /\ Considerate
         /\ \A e \in run[w].page : rows'[e].status # "none" /\ rows'[e].age = 0
  <1>1. /\ rows \in [Events -> RowType] /\ orders \in [Notices -> {"pending", "settled"}]
        /\ delivered \subseteq Events /\ run[w].page \in SUBSET Events
        /\ \A e \in Events : rows[e].status = "none" => rows[e] = NoRow
    BY OInvParts DEF RunType
  <1> DEFINE new == [status |-> "pending", attempts |-> 1, age |-> 0]
             again(e) == [rows[e] EXCEPT !.attempts = AtMost(@ + 1, MaxAttempts), !.age = 0]
  <1>2. \A e \in Events : rows'[e] = IF e \notin run[w].page THEN rows[e]
                                    ELSE IF rows[e] = NoRow THEN new ELSE again(e)
    BY DEF ClaimUpsert
  <1>3. new \in RowType /\ new.status = "pending" /\ new.age = 0
    BY OutboxAssumption DEF RowType, Stale
  <1>4. ASSUME NEW e \in Events
        PROVE  /\ again(e) \in RowType /\ again(e).status = rows[e].status
               /\ again(e).age = 0
    <2>1. rows[e] \in RowType /\ rows[e].attempts \in 0..MaxAttempts
      BY <1>1 DEF RowType
    <2>2. AtMost(rows[e].attempts + 1, MaxAttempts) \in 0..MaxAttempts
      BY <2>1, OutboxAssumption DEF AtMost
    <2>3. 0 \in 0..Stale
      BY OutboxAssumption DEF Stale
    <2> QED
      BY <2>1, <2>2, <2>3 DEF RowType
  <1> HIDE DEF new, again
  <1>5. ASSUME NEW e \in Events
        PROVE  /\ rows'[e] \in RowType /\ rows[e].age \in 0..Stale
               /\ rows'[e].age = rows[e].age \/ rows'[e].age = 0
               /\ rows'[e].status \in {rows[e].status, "pending"}
               /\ rows[e].status # "none" => rows'[e].status = rows[e].status \/ rows[e] = NoRow
               /\ e \in run[w].page => rows'[e].status # "none" /\ rows'[e].age = 0
               /\ rows'[e].status = "none" => rows'[e] = rows[e]
    <2>1. rows[e] \in RowType /\ rows[e].age \in 0..Stale
      BY <1>1 DEF RowType
    <2> QED
      BY <1>1, <1>2, <1>3, <1>4, <2>1
  <1>6. rows' \in [Events -> RowType]
    <2>1. rows' = [e \in Events |-> rows'[e]]
      BY DEF ClaimUpsert
    <2> QED
      BY <1>5, <2>1
  <1>7. \A e \in Events : rows'[e].age <= rows[e].age
    BY <1>5, OutboxAssumption, SMT DEF Stale
  <1>8. \A e \in Events : Handled(e) => HandledThen(e)
    BY DEF ClaimUpsert, Handled, HandledThen
  <1>9. \A e \in Events : rows[e].status # "none" => rows'[e].status # "none"
    BY <1>5
  <1>10. \A e \in Events : rows'[e].status = "sent" => rows[e].status = "sent"
    BY <1>5
  <1>11. \A e \in Events : rows'[e].status = "none" => rows'[e] = NoRow
    BY <1>1, <1>5
  <1>12. orders' = orders /\ delivered' = delivered
    BY DEF ClaimUpsert
  <1>13. Considerate
    BY <1>1, <1>6, <1>7, <1>8, <1>9, <1>10, <1>11, <1>12 DEF Considerate
  <1> QED
    BY <1>1, <1>5, <1>13

(* The last step of a claim puts the run to work on its page, or off.        *)
LEMMA UpsertKeeps ==
  ASSUME OInv, NEW w \in Runs, ClaimUpsert(w)
  PROVE  OInv'
  <1> DEFINE x == IF run[w].page = {} THEN Off ELSE Claimed(run[w])
  <1>1. /\ Considerate
        /\ \A e \in run[w].page : rows'[e].status # "none" /\ rows'[e].age = 0
    BY UpsertIsConsiderate
  <1>2. run' = [run EXCEPT ![w] = x]
    BY DEF ClaimUpsert
  <1>3. run[w] \in RunType /\ run[w].age \in 0..RunTimeout
    BY OInvParts DEF RunType
  <1>4. CASE run[w].page = {}
    <2>1. x = Off
      BY <1>4
    <2> HIDE DEF x
    <2>2. x \in RunType /\ x.at = "off"
      BY <2>1, OffIsARun
    <2>3. HoldsThen(x)
      BY <2>2, IdleHolds
    <2> QED
      BY <1>1, <1>2, <2>2, <2>3, OneRunSteps
  <1>5. CASE run[w].page # {}
    <2> DEFINE f == Cardinality(run[w].page) = BatchSize
    <2>1. x = [run[w] EXCEPT !.at = "dispatch", !.full = f]
      BY <1>5 DEF Claimed
    <2>2. f \in BOOLEAN
      OBVIOUS
    <2> HIDE DEF x, f
    <2>3. x \in RunType /\ x.at = "dispatch" /\ x.page = run[w].page /\ x.age = run[w].age
      BY <1>3, <2>1, <2>2 DEF RunType
    <2>4. x.age >= 0
      BY <1>3, <2>3, OutboxAssumption
    <2>5. HoldsThen(x)
      BY <1>1, <1>5, <2>3, <2>4 DEF HoldsThen
    <2> QED
      BY <1>1, <1>2, <2>3, <2>5, OneRunSteps
  <1> QED
    BY <1>4, <1>5

(* A row's age is a number.                                                  *)
LEMMA AgesCompare ==
  ASSUME OInv
  PROVE  \A e \in Events : rows[e].age <= rows[e].age
  <1>1. rows \in [Events -> RowType]
    BY OInvParts
  <1>2. \A e \in Events : rows[e].age \in Int
    BY <1>1, OutboxAssumption DEF RowType, Stale
  <1> QED
    BY <1>2, SMT

(* Reading the schedule decides what to do with the event in hand.           *)
LEMMA ReadKeeps ==
  ASSUME OInv, NEW w \in Runs, Read(w)
  PROVE  OInv'
  <1> DEFINE e == Current(w)
             resolved == e \in NoAddress \/ (e \in Notices /\ orders[e] = "settled")
             at == IF resolved THEN "mark sent" ELSE "send"
             x == [run[w] EXCEPT !.at = at]
  <1>1. Considerate
    BY LookingIsConsiderate DEF Read
  <1>2. run' = [run EXCEPT ![w] = x]
    BY DEF Read
  <1>3. run[w] \in RunType /\ run[w].at \in Working
    BY OInvParts DEF Read, Working
  <1>4. at \in {"mark sent", "send"} /\ (at = "mark sent" => HandledThen(e))
    BY DEF Read, HandledThen
  <1>5. HoldsThen(run[w])
    BY <1>1, OthersHold
  <1> HIDE DEF at
  <1>6. x \in RunType /\ x.at = at /\ x.page = run[w].page /\ x.age = run[w].age
    <2>1. at \in {"off", "claim", "lock", "upsert", "dispatch", "send", "mark sent", "mark failed"}
      BY <1>4
    <2> QED
      BY <1>3, <2>1, RunMoves
  <1> HIDE DEF x
  <1>7. HoldsThen(x)
    BY <1>3, <1>4, <1>5, <1>6 DEF HoldsThen, Current
  <1> QED
    BY <1>1, <1>2, <1>6, <1>7, OneRunSteps

(* A send that is taken handles the event; only then may it be marked sent.  *)
LEMMA SendKeeps ==
  ASSUME OInv, NEW w \in Runs, Send(w)
  PROVE  OInv'
  <1>1. PICK at \in {"mark sent", "mark failed"} :
          /\ run' = [run EXCEPT ![w].at = at]
          /\ \/ delivered' = delivered \union {Current(w)}
             \/ delivered' = delivered /\ at = "mark failed"
    BY DEF Send
  <1> DEFINE x == [run[w] EXCEPT !.at = at]
  <1>2. run[w] \in RunType /\ run[w].at \in Working
    BY OInvParts DEF Send, Working
  <1>3. Current(w) \in Events
    BY <1>2, AtWork
  <1>4. Considerate
    <2>1. /\ rows \in [Events -> RowType] /\ orders \in [Notices -> {"pending", "settled"}]
          /\ delivered \subseteq Events
          /\ \A e \in Events : rows[e].status = "none" => rows[e] = NoRow
      BY OInvParts
    <2>2. \A e \in Events : rows[e].age <= rows[e].age
      BY AgesCompare
    <2>3. rows' = rows /\ orders' = orders
      BY DEF Send
    <2>4. delivered' \subseteq Events /\ delivered \subseteq delivered'
      BY <1>1, <1>3, <2>1
    <2> QED
      BY <2>1, <2>2, <2>3, <2>4 DEF Considerate, Handled, HandledThen
  <1>5. run' = [run EXCEPT ![w] = x]
    BY <1>1
  <1>6. x \in RunType /\ x.at = at /\ x.page = run[w].page /\ x.age = run[w].age
    <2>1. at \in {"off", "claim", "lock", "upsert", "dispatch", "send", "mark sent", "mark failed"}
      OBVIOUS
    <2> QED
      BY <1>2, <2>1, RunMoves
  <1>7. HoldsThen(run[w])
    BY <1>4, OthersHold
  <1>8. at = "mark sent" => HandledThen(Current(w))
    BY <1>1 DEF HandledThen
  <1> HIDE DEF x
  <1>9. HoldsThen(x)
    BY <1>2, <1>6, <1>7, <1>8 DEF HoldsThen, Current
  <1> QED
    BY <1>4, <1>5, <1>6, <1>9, OneRunSteps

(* A mark, or an error in its place, resolves the event in hand and goes on. *)
LEMMA MarkKeeps ==
  ASSUME OInv, NEW w \in Runs,
         MarkNotificationSent(w) \/ MarkNotificationFailed(w) \/ DispatchError(w)
  PROVE  OInv'
  <1>1. run[w].at \in Working /\ Advance(w)
    BY DEF MarkNotificationSent, MarkNotificationFailed, DispatchError, Working
  <1>2. Current(w) \in Events /\ rows[Current(w)].status # "none"
    BY <1>1, AtWork
  <1>3. CASE MarkNotificationSent(w)
    <2>1. Handled(Current(w))
      BY <1>1, <1>3, AtWork DEF MarkNotificationSent
    <2>2. Considerate
      BY <1>2, <1>3, <2>1, MarkingIsConsiderate DEF MarkNotificationSent
    <2> QED
      BY <1>1, <2>2, AdvanceKeeps
  <1>4. CASE MarkNotificationFailed(w)
    <2> DEFINE status == IF rows[Current(w)].attempts >= MaxAttempts THEN "failed" ELSE "pending"
    <2>1. status \in {"failed", "pending"}
      OBVIOUS
    <2>2. rows' = [rows EXCEPT ![Current(w)].status = status]
      BY <1>4 DEF MarkNotificationFailed
    <2> HIDE DEF status
    <2>3. Considerate
      BY <1>2, <1>4, <2>1, <2>2, MarkingIsConsiderate DEF MarkNotificationFailed
    <2> QED
      BY <1>1, <2>3, AdvanceKeeps
  <1>5. CASE DispatchError(w)
    BY <1>1, <1>5, LookingIsConsiderate, AdvanceKeeps DEF DispatchError
  <1> QED
    BY <1>3, <1>4, <1>5

(* A crash leaves what was claimed to be taken for abandoned in its time.    *)
LEMMA CrashKeeps ==
  ASSUME OInv, NEW w \in Runs, Crash(w)
  PROVE  OInv'
  <1>1. Considerate /\ run' = [run EXCEPT ![w] = Off]
    BY LookingIsConsiderate DEF Crash
  <1>2. HoldsThen(Off)
    BY OffIsARun, IdleHolds
  <1> QED
    BY <1>1, <1>2, OffIsARun, OneRunSteps

(* A settled order handles its notice.                                       *)
LEMMA SettleKeeps ==
  ASSUME OInv, NEW e \in Notices, SettleOrder(e)
  PROVE  OInv'
  <1>1. /\ rows \in [Events -> RowType] /\ orders \in [Notices -> {"pending", "settled"}]
        /\ delivered \subseteq Events
        /\ \A f \in Events : rows[f].status = "none" => rows[f] = NoRow
    BY OInvParts
  <1>2. \A f \in Events : rows[f].age <= rows[f].age
    <2>1. \A f \in Events : rows[f].age \in Int
      BY <1>1, OutboxAssumption DEF RowType, Stale
    <2> QED
      BY <2>1, SMT
  <1>3. /\ orders' = [orders EXCEPT ![e] = "settled"]
        /\ rows' = rows /\ run' = run /\ delivered' = delivered
    BY DEF SettleOrder
  <1>4. \A f \in Events : Handled(f) => HandledThen(f)
    BY <1>1, <1>3 DEF Handled, HandledThen
  <1>5. Considerate
    BY <1>1, <1>2, <1>3, <1>4 DEF Considerate
  <1> QED
    BY <1>3, <1>5, NoRunSteps

(* A unit of time ages a run's rows and the run alike.                       *)
LEMMA TickKeeps ==
  ASSUME OInv, Tick
  PROVE  OInv'
  <1>1. /\ rows \in [Events -> RowType] /\ orders \in [Notices -> {"pending", "settled"}]
        /\ run \in [Runs -> RunType] /\ delivered \subseteq Events
        /\ \A e \in Events : rows[e].status = "sent" => Handled(e)
        /\ \A e \in Events : rows[e].status = "none" => rows[e] = NoRow
        /\ \A w \in Runs : Holds(run[w])
    BY OInvParts
  <1> DEFINE older(e) == [rows[e] EXCEPT !.age = AtMost(@ + 1, Stale)]
             later(w) == [run[w] EXCEPT !.age = @ + 1]
  <1>2. /\ rows' = [e \in Events |-> IF rows[e].status = "none" THEN rows[e] ELSE older(e)]
        /\ run' = [w \in Runs |-> IF run[w].at = "off" THEN run[w] ELSE later(w)]
        /\ orders' = orders /\ delivered' = delivered
        /\ \A w \in Runs : run[w].age < RunTimeout
    BY DEF Tick
  <1>3. ASSUME NEW e \in Events
        PROVE  /\ older(e) \in RowType /\ older(e).status = rows[e].status
               /\ rows[e].age \in Int /\ older(e).age <= rows[e].age + 1
    <2>1. rows[e] \in RowType /\ rows[e].age \in 0..Stale
      BY <1>1 DEF RowType
    <2>2. /\ AtMost(rows[e].age + 1, Stale) \in 0..Stale
          /\ AtMost(rows[e].age + 1, Stale) <= rows[e].age + 1
          /\ rows[e].age \in Int
      BY <2>1, OutboxAssumption DEF AtMost, Stale
    <2> DEFINE a == AtMost(rows[e].age + 1, Stale)
    <2>3. a \in 0..Stale /\ older(e) = [rows[e] EXCEPT !.age = a]
      BY <2>2
    <2> HIDE DEF a, older
    <2>4. older(e) \in RowType /\ older(e).status = rows[e].status /\ older(e).age = a
      BY <2>1, <2>3 DEF RowType
    <2> QED
      BY <2>2, <2>4 DEF a
  <1>4. ASSUME NEW w \in Runs
        PROVE  /\ later(w) \in RunType /\ later(w).at = run[w].at
               /\ later(w).page = run[w].page /\ run[w].age \in Int
               /\ later(w).age = run[w].age + 1
    <2>1. run[w] \in RunType /\ run[w].age \in 0..RunTimeout /\ run[w].age < RunTimeout
      BY <1>1, <1>2 DEF RunType
    <2> DEFINE a == run[w].age + 1
    <2>2. a \in 0..RunTimeout /\ run[w].age \in Int
      BY <2>1, OutboxAssumption
    <2> HIDE DEF a
    <2>3. later(w) = [run[w] EXCEPT !.age = a]
      BY DEF a
    <2> HIDE DEF later
    <2>4. /\ later(w) \in RunType /\ later(w).at = run[w].at
          /\ later(w).page = run[w].page /\ later(w).age = a
      BY <2>1, <2>2, <2>3 DEF RunType
    <2> QED
      BY <2>2, <2>4 DEF a
  <1> HIDE DEF older, later
  <1>5. rows' \in [Events -> RowType] /\ run' \in [Runs -> RunType]
    BY <1>1, <1>2, <1>3, <1>4
  <1>6. \A e \in Events : /\ rows'[e].status = rows[e].status
                          /\ rows[e].status = "none" => rows'[e] = rows[e]
    BY <1>2, <1>3
  <1>7. \A e \in Events : Handled(e) => HandledThen(e)
    BY <1>2 DEF Handled, HandledThen
  <1>8. ASSUME NEW w \in Runs
        PROVE  HoldsThen(run'[w])
    <2>1. CASE run[w].at = "off"
      <3>1. run'[w] = run[w]
        BY <1>2, <2>1
      <3> QED
        BY <2>1, <3>1, IdleHolds
    <2>2. CASE run[w].at # "off"
      <3>1. run'[w] = later(w)
        BY <1>2, <2>2
      <3>2. /\ run'[w].at = run[w].at /\ run'[w].page = run[w].page
            /\ run[w].age \in Int /\ run'[w].age = run[w].age + 1
            /\ run[w].page \in SUBSET Events /\ Holds(run[w])
        BY <1>1, <1>4, <3>1 DEF RunType
      <3>3. ASSUME run[w].at \in Working, NEW e \in run[w].page
            PROVE  rows'[e].status # "none" /\ rows'[e].age <= run'[w].age
        <4>1. e \in Events /\ rows[e].status # "none" /\ rows[e].age <= run[w].age
          BY <3>2, <3>3 DEF Holds
        <4>2. rows'[e] = older(e) /\ rows'[e].status # "none"
          BY <1>2, <1>6, <4>1
        <4>3. rows[e].age \in Int /\ rows'[e].age <= rows[e].age + 1
          BY <1>3, <4>1, <4>2
        <4>4. rows'[e].age \in Int
          <5>1. rows'[e] \in RowType
            BY <1>5, <4>1
          <5>2. rows'[e].age \in 0..Stale
            BY <5>1 DEF RowType
          <5> QED
            BY <5>2, OutboxAssumption DEF Stale
        <4> QED
          BY <3>2, <4>1, <4>2, <4>3, <4>4
      <3>4. ASSUME run[w].at = "mark sent"
            PROVE  HandledThen(Min(run[w].page))
        <4>1. run[w].at \in Working
          BY <3>4 DEF Working
        <4>2. Min(run[w].page) \in Events
          BY <3>2, <4>1, FirstOfPage DEF Holds
        <4> QED
          BY <1>7, <3>2, <3>4, <4>2 DEF Holds
      <3> QED
        BY <3>2, <3>3, <3>4 DEF Holds, HoldsThen
    <2> QED
      BY <2>1, <2>2
  <1>9. /\ \A e \in Events : rows'[e].status = "sent" => HandledThen(e)
        /\ \A e \in Events : rows'[e].status = "none" => rows'[e] = NoRow
    BY <1>1, <1>6, <1>7
  <1> QED
    BY <1>1, <1>2, <1>5, <1>8, <1>9, OInvParts

(* At the start nothing is claimed and nobody is at work.                    *)
LEMMA InitIsHandled == Init => OInv
  <1> SUFFICES ASSUME Init PROVE OInv
    OBVIOUS
  <1>1. NoRow \in RowType /\ NoRow.status = "none"
    BY OutboxAssumption DEF NoRow, RowType, Stale
  <1>2. \A w \in Runs : Holds(run[w])
    BY OffIsARun DEF Init, Holds, Working
  <1> QED
    BY <1>1, <1>2, OffIsARun, OInvParts DEF Init

(* Every step keeps the invariant.                                           *)
LEMMA OutboxSteps == OInv /\ [Next]_vars => OInv'
  <1> SUFFICES ASSUME OInv, [Next]_vars PROVE OInv'
    OBVIOUS
  <1>1. ASSUME NEW w \in Runs, RunStep(w) \/ DispatchError(w) \/ Crash(w)
        PROVE  OInv'
    BY <1>1, StartKeeps, UpsertKeeps, ReadKeeps, SendKeeps, MarkKeeps, CrashKeeps
       DEF RunStep
  <1>2. ASSUME NEW e \in Notices, SettleOrder(e)
        PROVE  OInv'
    BY <1>2, SettleKeeps
  <1>3. CASE UNCHANGED vars
    BY <1>3, LookingIsConsiderate, NoRunSteps DEF vars
  <1> QED
    BY <1>1, <1>2, <1>3, TickKeeps DEF Next

(* The inductive invariant holds of every reachable state.                   *)
LEMMA OutboxInvariance == Spec => []OInv
  BY InitIsHandled, OutboxSteps, PTL DEF Spec

-----------------------------------------------------------------------------
(* The log's rows, the orders and the runs' records stay well-formed.        *)
THEOREM OutboxTypeCorrect == Spec => []TypeOK
  <1>1. OInv => TypeOK
    BY DEF OInv
  <1> QED
    BY <1>1, OutboxInvariance, PTL

(* Whatever crashes, fails, is lost or overlaps, no row reads sent unless an *)
(* email went out or there was none to send (docs/adr/0010).                 *)
THEOREM NothingIsLost == Spec => []SentMeansHandled
  <1>1. OInv => SentMeansHandled
    BY DEF OInv
  <1> QED
    BY <1>1, OutboxInvariance, PTL

(* A run's own timeout being the shorter, nothing it has in hand is taken    *)
(* for abandoned while it lives (visibilityTimeout).                         *)
THEOREM ClaimsOutliveTheirRuns == Spec => []ClaimOutlivesItsRun
  <1>1. OInv => ClaimOutlivesItsRun
    <2> SUFFICES ASSUME OInv, NEW w \in Runs, NEW e \in InHand(w)
                 PROVE  ~Due(e)
      BY DEF ClaimOutlivesItsRun
    <2>1. run[w].at \in Working /\ e \in run[w].page
      BY DEF InHand, Working
    <2>2. Holds(run[w]) /\ run[w] \in RunType /\ rows \in [Events -> RowType]
      BY OInvParts
    <2>3. rows[e].status # "none" /\ rows[e].age <= run[w].age /\ e \in Events
      BY <2>1, <2>2 DEF Holds, RunType
    <2>4. run[w].age \in 0..RunTimeout /\ rows[e].age \in 0..Stale
      BY <2>2, <2>3 DEF RunType, RowType
    <2>5. ~(rows[e].age > VisibilityTimeout)
      BY <2>3, <2>4, OutboxAssumption DEF Stale
    <2> QED
      BY <2>3, <2>5 DEF Due
  <1> QED
    BY <1>1, OutboxInvariance, PTL

=============================================================================

------------------------------- MODULE Portal -------------------------------
(***************************************************************************)
(* The portal (web/portal/src): one open page on one schedule, its reads   *)
(* and writes in flight, the token exchange they share, and the sheet that *)
(* skips an order, against a server reduced to what these tell apart.      *)
(*                                                                         *)
(* Orders are numbered by how often the soonest one has changed: the order *)
(* a skip acts on is server.next, and the queue on screen leads with the   *)
(* number some read found there.                                           *)
(***************************************************************************)
EXTENDS Naturals, Sequences, FiniteSets, Bags

CONSTANTS
  LastOrder,    \* bound on the orders the server gets through
  MaxSheets,    \* bound on the skip sheets the customer opens
  MaxExchanges, \* bound on the token exchanges the host runs
  MaxInFlight,  \* bound on the requests in flight
  OthersWrite,  \* whether jobs and other tabs change the queue meanwhile
  QuickExpiry   \* whether a token may expire under a request in flight

ASSUME PortalAssumption ==
  /\ {MaxSheets, MaxExchanges, MaxInFlight} \subseteq Nat /\ LastOrder \in Nat \ {0}
  /\ OthersWrite \in BOOLEAN /\ QuickExpiry \in BOOLEAN

VARIABLES
  server,      \* the soonest order, and the skips recorded: order by key
  token,       \* "good" or "expired"
  exchanges,   \* the promises config.onReauthenticate has returned
  reauth,      \* the one the page holds, 0 for null
  screen,      \* state.schedule and state.occurrences
  actionError, \* whether the band of a failed sheet-less write is up
  sheet,       \* the open skip sheet
  named,       \* by key, the order its sheet named to the customer
  wire         \* the requests in flight, in no order

vars == <<server, token, exchanges, reauth, screen, actionError, sheet, named, wire>>

Halves == {"schedule", "occurrences"}
NoSheet == [key |-> 0, pending |-> FALSE]

Loading == [phase |-> "loading", next |-> 0]
Ready(next) == [phase |-> "ready", next |-> next]
Error(why) == [phase |-> why, next |-> 0]

\* A request: what it is for, how far it is, and whether it is the retry that follows
\* an exchange.  answer is "failed", "expired" (401) or "ok"; an answer about the queue
\* says what was next.
Request(op, key, retried) ==
  [op |-> op, key |-> key, retried |-> retried,
   stage |-> "sent", answer |-> "none", next |-> 0, promise |-> 0]

One(r) == SetToBag({r})
Gets(halves) == SetToBag({Request(h, 0, FALSE) : h \in halves})
LoadingHalves(halves) == [h \in Halves |-> IF h \in halves THEN Loading ELSE screen[h]]
InFlight == BagToSet(wire)

\* The upcoming order at the head of the queue on screen, by date and then number, as
\* the server picks the one it acts on.
Lead == screen["occurrences"].next

\* The queue's rows, and with them its actions, show once both halves are in.
QueueShown == \A h \in Halves : screen[h].phase = "ready"

\* The bound: a request that does not fit is not made.
Send(bag) == wire' = bag /\ BagCardinality(bag) <= MaxInFlight

Init ==
  /\ server = [next |-> 1, skipped |-> {}]
  /\ token = "good" /\ exchanges = <<>> /\ reauth = 0
  /\ screen = [h \in Halves |-> Loading]
  /\ actionError = FALSE /\ sheet = NoSheet /\ named = <<>>
  /\ wire = Gets(Halves)

-----------------------------------------------------------------------------
(* The server, behind the token check and the network. *)

Answered(r, answer, next) ==
  wire' = (wire (-) One(r)) (+)
          One([r EXCEPT !.stage = "answered", !.answer = answer, !.next = next])

page == <<exchanges, reauth, screen, actionError, sheet, named>>

\* The request or its answer is lost on the way, or the server answers an error or a
\* 409, and nothing is committed.
Fail(r) ==
  /\ r.stage = "sent"
  /\ Answered(r, "failed", 0)
  /\ UNCHANGED <<server, token, page>>

Unauthorized(r) ==
  /\ r.stage = "sent" /\ token = "expired"
  /\ Answered(r, "expired", 0)
  /\ UNCHANGED <<server, token, page>>

Read(r) ==
  /\ r.stage = "sent" /\ token = "good" /\ r.op \in Halves
  /\ Answered(r, "ok", IF r.op = "occurrences" THEN server.next ELSE 0)
  /\ UNCHANGED <<server, token, page>>

KeyRecorded(key) == \E s \in server.skipped : s.key = key

Recorded(key) == [next |-> server.next + 1,
                  skipped |-> server.skipped \union {[key |-> key, order |-> server.next]}]

\* Mutant: a retry is not recognised.
SkipEveryTime(r) ==
  /\ r.stage = "sent" /\ token = "good" /\ r.op = "skip"
  /\ server.next < LastOrder /\ server' = Recorded(r.key)
  /\ \E answer \in {"ok", "failed"} : Answered(r, answer, 0)
  /\ UNCHANGED <<token, page>>

\* A recorded key replays: 200 and no second skip.  The answer to a skip that was
\* committed may still be lost, or be a 500 when reading the items back fails.
Skip(r) ==
  /\ r.stage = "sent" /\ token = "good" /\ r.op = "skip"
  /\ IF KeyRecorded(r.key) THEN UNCHANGED server
     ELSE server.next < LastOrder /\ server' = Recorded(r.key)
  /\ \E answer \in {"ok", "failed"} : Answered(r, answer, 0)
  /\ UNCHANGED <<token, page>>

\* Resume and the change of interval plan the queue anew; an armed order keeps its place.
Replan(r) ==
  /\ r.stage = "sent" /\ token = "good" /\ r.op = "direct"
  /\ \E next \in {server.next, server.next + 1} :
       next <= LastOrder /\ server' = [server EXCEPT !.next = next]
  /\ \E answer \in {"ok", "failed"} : Answered(r, answer, 0)
  /\ UNCHANGED <<token, page>>

\* A nightly job, or the customer's other tab.
Others ==
  /\ OthersWrite /\ server.next < LastOrder
  /\ server' = [server EXCEPT !.next = @ + 1]
  /\ UNCHANGED <<token, page, wire>>

Expire ==
  /\ token = "good" /\ Len(exchanges) < MaxExchanges
  /\ QuickExpiry \/ wire = EmptyBag
  /\ token' = "expired"
  /\ UNCHANGED <<server, page, wire>>

ExchangeEnds ==
  \E p \in DOMAIN exchanges, how \in {"done", "failed"} :
    /\ exchanges[p] = "running"
    /\ exchanges' = [exchanges EXCEPT ![p] = how]
    /\ token' = IF how = "done" THEN "good" ELSE token
    /\ UNCHANGED <<server, reauth, screen, actionError, sheet, named, wire>>

-----------------------------------------------------------------------------
(* What the page does with an answer. *)

\* Mutant: one "already tried" for the whole page, in place of one for each request.
AwaitUnlessTried(r) ==
  /\ r.stage = "answered" /\ r.answer = "expired" /\ ~r.retried
  /\ IF reauth = 0
     THEN /\ Len(exchanges) < MaxExchanges
          /\ exchanges' = Append(exchanges, "running")
          /\ reauth' = Len(exchanges')
          /\ wire' = (wire (-) One(r)) (+)
                     One([r EXCEPT !.stage = "awaiting", !.promise = reauth'])
          /\ UNCHANGED screen
     ELSE /\ r.op \in Halves
          /\ screen' = [screen EXCEPT ![r.op] = Error("expired")]
          /\ wire' = wire (-) One(r)
          /\ UNCHANGED <<exchanges, reauth>>
  /\ UNCHANGED <<server, token, actionError, sheet, named>>

\* Mutant: the promise is not kept.
AwaitUnshared(r) ==
  /\ r.stage = "answered" /\ r.answer = "expired" /\ ~r.retried
  /\ Len(exchanges) < MaxExchanges /\ exchanges' = Append(exchanges, "running")
  /\ wire' = (wire (-) One(r)) (+)
             One([r EXCEPT !.stage = "awaiting", !.promise = reauth])
  /\ UNCHANGED <<server, token, reauth, screen, actionError, sheet, named>>

\* reauth ??= config.onReauthenticate(): a 401 awaits the exchange the page holds, be it
\* running or long over, and starts one only if it holds none.
Await(r) ==
  /\ r.stage = "answered" /\ r.answer = "expired" /\ ~r.retried
  /\ IF reauth # 0 THEN UNCHANGED <<exchanges, reauth>>
     ELSE /\ Len(exchanges) < MaxExchanges
          /\ exchanges' = Append(exchanges, "running")
          /\ reauth' = Len(exchanges')
  /\ wire' = (wire (-) One(r)) (+)
             One([r EXCEPT !.stage = "awaiting", !.promise = reauth'])
  /\ UNCHANGED <<server, token, screen, actionError, sheet, named>>

\* The retry repeats the request, key and all.
Retry(r) ==
  /\ r.stage = "awaiting" /\ exchanges[r.promise] = "done"
  /\ wire' = (wire (-) One(r)) (+) One(Request(r.op, r.key, TRUE))
  /\ screen' = LoadingHalves({r.op} \intersect Halves)
  /\ UNCHANGED <<server, token, exchanges, reauth, actionError, sheet, named>>

Surfaces(r, why) ==
  \/ r.stage = "answered" /\ r.answer = why /\ (why = "expired" => r.retried)
  \/ r.stage = "awaiting" /\ exchanges[r.promise] = "failed" /\ why = "expired"

\* A read that came back, however old, is what its half shows.
ReadReturns(r) ==
  /\ r.op \in Halves
  /\ \/ Surfaces(r, "ok") /\ screen' = [screen EXCEPT ![r.op] = Ready(r.next)]
     \/ \E why \in {"failed", "expired"} :
          Surfaces(r, why) /\ screen' = [screen EXCEPT ![r.op] = Error(why)]
  /\ wire' = wire (-) One(r)
  /\ UNCHANGED <<server, token, exchanges, reauth, actionError, sheet, named>>

\* Mutant: the queue is cleared and not read again.
applyWithoutReading(r) ==
  /\ screen' = [h \in Halves |-> IF h = "schedule" THEN Ready(0) ELSE Loading]
  /\ Send(wire (-) One(r))
  /\ actionError' = FALSE /\ UNCHANGED reauth

\* The schedule in the answer goes on screen; the queue is read again.
applyTransition(r) ==
  /\ screen' = [h \in Halves |-> IF h = "schedule" THEN Ready(0) ELSE Loading]
  /\ Send((wire (-) One(r)) (+) Gets({"occurrences"}))
  /\ actionError' = FALSE /\ UNCHANGED reauth

SheetSucceeds(r) ==
  /\ r.op = "skip" /\ Surfaces(r, "ok")
  /\ sheet' = NoSheet
  /\ applyTransition(r)
  /\ UNCHANGED <<server, token, exchanges, named>>

\* The sheet stays open under the message and the data below it is read again.
SheetFails(r) ==
  /\ r.op = "skip" /\ \E why \in {"failed", "expired"} : Surfaces(r, why)
  /\ sheet' = [sheet EXCEPT !.pending = FALSE]
  /\ screen' = LoadingHalves(Halves)
  /\ Send((wire (-) One(r)) (+) Gets(Halves))
  /\ UNCHANGED <<server, token, exchanges, reauth, actionError, named>>

DirectSucceeds(r) ==
  /\ r.op = "direct" /\ Surfaces(r, "ok")
  /\ applyTransition(r)
  /\ UNCHANGED <<server, token, exchanges, sheet, named>>

\* The band goes up, and load() runs.
DirectFails(r) ==
  /\ r.op = "direct" /\ \E why \in {"failed", "expired"} : Surfaces(r, why)
  /\ actionError' = TRUE /\ reauth' = 0
  /\ screen' = LoadingHalves(Halves)
  /\ Send((wire (-) One(r)) (+) Gets(Halves))
  /\ UNCHANGED <<server, token, exchanges, sheet, named>>

-----------------------------------------------------------------------------
(* The customer.  An open sheet is modal: the page below it takes no clicks. *)

\* The sheet names the order the queue on screen leads with, and mints its key.
openSkipSheet ==
  /\ sheet.key = 0 /\ Len(named) < MaxSheets
  /\ QueueShown
  /\ named' = Append(named, Lead)
  /\ sheet' = [key |-> Len(named'), pending |-> FALSE]
  /\ UNCHANGED <<server, token, exchanges, reauth, screen, actionError, wire>>

Submit ==
  /\ sheet.key # 0 /\ ~sheet.pending
  /\ sheet' = [sheet EXCEPT !.pending = TRUE]
  /\ Send(wire (+) One(Request("skip", sheet.key, FALSE)))
  /\ UNCHANGED <<server, token, exchanges, reauth, screen, actionError, named>>

\* Mutant: a submit in flight does not hold the sheet open.
dismissAnyway ==
  /\ sheet.key # 0
  /\ sheet' = NoSheet
  /\ UNCHANGED <<server, token, exchanges, reauth, screen, actionError, named, wire>>

dismiss ==
  /\ sheet.key # 0 /\ ~sheet.pending
  /\ sheet' = NoSheet
  /\ UNCHANGED <<server, token, exchanges, reauth, screen, actionError, named, wire>>

\* Resume, a longer interval instead of canceling, and "Try again" on the band.
runDirect ==
  /\ sheet.key = 0 /\ screen["schedule"].phase = "ready"
  /\ actionError' = FALSE
  /\ Send(wire (+) One(Request("direct", 0, FALSE)))
  /\ UNCHANGED <<server, token, exchanges, reauth, screen, sheet, named>>

\* The retry of a half that failed; the host may call it whenever it likes.
load ==
  /\ reauth' = 0
  /\ screen' = LoadingHalves(Halves)
  /\ Send(wire (+) Gets(Halves))
  /\ UNCHANGED <<server, token, exchanges, actionError, sheet, named>>

Next ==
  \/ \E r \in InFlight :
       \/ Fail(r) \/ Unauthorized(r) \/ Read(r) \/ Skip(r) \/ Replan(r)
       \/ Await(r) \/ Retry(r) \/ ReadReturns(r)
       \/ SheetSucceeds(r) \/ SheetFails(r) \/ DirectSucceeds(r) \/ DirectFails(r)
  \/ Others \/ Expire \/ ExchangeEnds
  \/ openSkipSheet \/ Submit \/ dismiss \/ runDirect \/ load

Spec == Init /\ [][Next]_vars

-----------------------------------------------------------------------------
View == [phase : {"loading", "ready", "failed", "expired"}, next : 0..LastOrder]

Requests ==
  [op : Halves \union {"skip", "direct"}, key : 0..MaxSheets, retried : BOOLEAN,
   stage : {"sent", "answered", "awaiting"}, answer : {"none", "ok", "failed", "expired"},
   next : 0..LastOrder, promise : 0..MaxExchanges]

\* A request that awaits an exchange awaits one that was started.
TypeOK ==
  /\ server \in [next : 1..LastOrder,
                 skipped : SUBSET [key : 1..MaxSheets, order : 1..LastOrder]]
  /\ token \in {"good", "expired"}
  /\ exchanges \in Seq({"running", "done", "failed"})
  /\ reauth \in 0..Len(exchanges)
  /\ screen \in [Halves -> View]
  /\ actionError \in BOOLEAN
  /\ sheet \in [key : 0..Len(named), pending : BOOLEAN]
  /\ named \in Seq(1..LastOrder)
  /\ IsABag(wire) /\ InFlight \subseteq Requests
  /\ \A r \in InFlight : r.stage = "awaiting" => r.promise \in 1..Len(exchanges)

(* One sheet skips one order at most, however often it is submitted, its      *)
(* answers lost and its token exchanged (transitions.js: "the key is minted   *)
(* when the customer opens the confirmation"; docs/adr/0009).                 *)
OneSheetOneSkip ==
  /\ \A s, t \in server.skipped : s.key = t.key => s = t
  /\ Cardinality(server.skipped) <= Len(named)

(* Nothing loads for ever: a half on its skeleton, or a sheet on its spinner, *)
(* has a request in flight that will settle it, through every overlap of      *)
(* reloads, retries and writes (fetchHalf; setPending).                       *)
NothingLoadsForEver ==
  /\ \A h \in Halves : screen[h].phase = "loading" => \E r \in InFlight : r.op = h
  /\ sheet.pending => \E r \in InFlight : r.op = "skip" /\ r.key = sheet.key

(* A sheet's rejection has somewhere to be shown: while its request is in     *)
(* flight the sheet that made it is the one that is open (sheets.js, "a       *)
(* submit in flight holds the sheet open").                                   *)
RejectionsAreSeen ==
  \A r \in InFlight : r.op = "skip" => sheet = [key |-> r.key, pending |-> TRUE]

(* A half reports an expired token only after an exchange has ended: losing   *)
(* the race for the shared one is no reason to give up (mountActiveSchedule,  *)
(* "the guard has to be per-half, not shared").                               *)
NoHalfGivesUpEarly ==
  \A h \in Halves :
    screen[h].phase = "expired" => \E p \in DOMAIN exchanges : exchanges[p] # "running"

(* "Re-run the host's token exchange rather than showing an error, and only   *)
(* surface one if that also fails" (screen-active.js, fetchHalf).             *)
SurfacedOnlyIfTheExchangeFailed ==
  \A h \in Halves :
    screen[h].phase = "expired" => \E p \in DOMAIN exchanges : exchanges[p] = "failed"

(* The order a confirmation names is the order that is skipped.  "A customer  *)
(* would have been told one date and had another one skipped.  So the actions *)
(* live only where they are truthful" (screen-active.js, upcomingRow).        *)
SkipsWhatTheSheetNamed ==
  \A s \in server.skipped : s.order = named[s.key]
=============================================================================

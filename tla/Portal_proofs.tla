--------------------------- MODULE Portal_proofs ---------------------------
(***************************************************************************)
(* What the portal's page guarantees however its requests overlap, for any *)
(* number of them, of sheets, of exchanges and of orders.                  *)
(***************************************************************************)
EXTENDS Portal, FiniteSetTheorems, TLAPS

-----------------------------------------------------------------------------
(* Requests in flight, as a bag.                                            *)

\* What taking one request out leaves.
LEMMA TakenOut ==
  ASSUME NEW w, IsABag(w), NEW r \in DOMAIN w
  PROVE  LET v == w (-) One(r)
         IN  /\ IsABag(v)
             /\ DOMAIN v \subseteq DOMAIN w
             /\ \A q \in DOMAIN w : q # r => q \in DOMAIN v /\ v[q] = w[q]
             /\ w[r] = 1 => r \notin DOMAIN v
  BY DEF IsABag, One, SetToBag, (-)

\* What sending some more gives.
LEMMA PutIn ==
  ASSUME NEW w, IsABag(w), NEW S
  PROVE  LET v == w (+) SetToBag(S)
         IN  /\ IsABag(v)
             /\ DOMAIN v = DOMAIN w \union S
             /\ \A q \in DOMAIN w \ S : v[q] = w[q]
             /\ \A q \in S \ DOMAIN w : v[q] = 1
  BY DEF IsABag, SetToBag, (+)

LEMMA OnePutIn ==
  ASSUME NEW w, IsABag(w), NEW x
  PROVE  LET v == w (+) One(x)
         IN  /\ IsABag(v)
             /\ DOMAIN v = DOMAIN w \union {x}
             /\ \A q \in DOMAIN w \ {x} : v[q] = w[q]
             /\ x \notin DOMAIN w => v[x] = 1
  BY DEF IsABag, One, SetToBag, (+)

-----------------------------------------------------------------------------
(* The inductive invariant.                                                 *)

\* An exchange has ended.
Ended(ex) == \E p \in DOMAIN ex : ex[p] # "running"

\* A request is a retry only of an exchange that ended, awaits one that was started,
\* and brings the queue with an order at its head.
RequestOK(r, ex) ==
  /\ r \in Requests
  /\ r.stage = "awaiting" => r.promise \in 1..Len(ex)
  /\ r.retried => Ended(ex)
  /\ r.op = "occurrences" /\ r.answer = "ok" => r.next \in 1..LastOrder

\* The one submit in flight is the open sheet's.
SubmitOK(r, w, sh, nm) ==
  /\ r.key \in 1..Len(nm) /\ sh = [key |-> r.key, pending |-> TRUE]
  /\ w[r] = 1
  /\ \A q \in DOMAIN w : q.op = "skip" => q = r

WireOK(w, sh, nm, ex) ==
  /\ IsABag(w)
  /\ \A r \in DOMAIN w :
       RequestOK(r, ex) /\ (r.op = "skip" => SubmitOK(r, w, sh, nm))

ScreenOK(scr, ex) ==
  /\ scr \in [Halves -> View]
  /\ \A h \in Halves : scr[h].phase = "expired" => Ended(ex)
  /\ scr["occurrences"].phase = "ready" => scr["occurrences"].next \in 1..LastOrder

\* Whatever spins has a request that will stop it.
Settling(w, scr, sh) ==
  /\ \A h \in Halves : scr[h].phase = "loading" => \E r \in DOMAIN w : r.op = h
  /\ sh.pending => \E r \in DOMAIN w : r.op = "skip" /\ r.key = sh.key

SkipsOK(srv, nm) ==
  /\ srv \in [next : 1..LastOrder, skipped : SUBSET [key : 1..MaxSheets, order : 1..LastOrder]]
  /\ \A s, t \in srv.skipped : s.key = t.key => s = t
  /\ \A s \in srv.skipped : s.key \in 1..Len(nm)

HostOK(tok, ex, held) ==
  /\ tok \in {"good", "expired"}
  /\ ex \in Seq({"running", "done", "failed"}) /\ Len(ex) <= MaxExchanges
  /\ held \in 0..Len(ex)

SheetOK(sh, nm, err) ==
  /\ err \in BOOLEAN
  /\ nm \in Seq(1..LastOrder) /\ Len(nm) <= MaxSheets
  /\ sh \in [key : 0..Len(nm), pending : BOOLEAN]

PInv ==
  /\ SkipsOK(server, named) /\ HostOK(token, exchanges, reauth)
  /\ SheetOK(sheet, named, actionError)
  /\ ScreenOK(screen, exchanges)
  /\ WireOK(wire, sheet, named, exchanges)
  /\ Settling(wire, screen, sheet)

-----------------------------------------------------------------------------
(* The wire.                                                                *)

\* A request that goes on to its next stage.
LEMMA GoesOn ==
  ASSUME NEW w, NEW sh, NEW nm, NEW ex, WireOK(w, sh, nm, ex),
         NEW r \in DOMAIN w, NEW x, x # r, x.op = r.op, x.key = r.key, RequestOK(x, ex)
  PROVE  LET v == (w (-) One(r)) (+) One(x)
         IN  /\ WireOK(v, sh, nm, ex)
             /\ \A q \in DOMAIN w : \E y \in DOMAIN v : y.op = q.op /\ y.key = q.key
  <1> DEFINE u == w (-) One(r)
             v == u (+) One(x)
  <1>a. IsABag(w)
    BY DEF WireOK
  <1>1. /\ IsABag(u) /\ DOMAIN u \subseteq DOMAIN w
        /\ \A q \in DOMAIN w : q # r => q \in DOMAIN u /\ u[q] = w[q]
        /\ w[r] = 1 => r \notin DOMAIN u
    BY <1>a, TakenOut
  <1> HIDE DEF u
  <1>2. /\ IsABag(v) /\ DOMAIN v = DOMAIN u \union {x}
        /\ \A q \in DOMAIN u \ {x} : v[q] = u[q]
        /\ x \notin DOMAIN u => v[x] = 1
    BY <1>1, OnePutIn
  <1> HIDE DEF v
  <1>3. ASSUME NEW q \in DOMAIN v
        PROVE  RequestOK(q, ex) /\ (q.op = "skip" => SubmitOK(q, v, sh, nm))
    <2>1. RequestOK(q, ex)
      BY <1>1, <1>2, <1>3 DEF WireOK
    <2>2. CASE r.op = "skip"
      <3>1. /\ SubmitOK(r, w, sh, nm) /\ r \notin DOMAIN u
            /\ \A y \in DOMAIN u : y.op # "skip"
        BY <1>1, <2>2 DEF WireOK, SubmitOK
      <3> QED
        BY <1>2, <2>1, <2>2, <3>1 DEF SubmitOK
    <2>3. CASE r.op # "skip" /\ q.op = "skip"
      <3>1. q \in DOMAIN w /\ q # r /\ q # x /\ SubmitOK(q, w, sh, nm)
        BY <1>1, <1>2, <2>3 DEF WireOK
      <3> QED
        BY <1>1, <1>2, <2>1, <2>3, <3>1 DEF SubmitOK
    <2> QED
      BY <2>1, <2>2, <2>3
  <1>4. ASSUME NEW q \in DOMAIN w
        PROVE  \E y \in DOMAIN v : y.op = q.op /\ y.key = q.key
    BY <1>1, <1>2
  <1> QED
    BY <1>2, <1>3, <1>4 DEF WireOK, u, v

\* A request whose answer the page has taken.
LEMMA IsOver ==
  ASSUME NEW w, NEW sh, NEW nm, NEW ex, WireOK(w, sh, nm, ex), NEW r \in DOMAIN w
  PROVE  LET v == w (-) One(r)
         IN  /\ WireOK(v, sh, nm, ex)
             /\ \A q \in DOMAIN w : q.op # r.op => q \in DOMAIN v
             /\ r.op = "skip" => \A q \in DOMAIN v : q.op # "skip"
  <1> DEFINE v == w (-) One(r)
  <1>1. /\ IsABag(v) /\ DOMAIN v \subseteq DOMAIN w
        /\ \A q \in DOMAIN w : q # r => q \in DOMAIN v /\ v[q] = w[q]
        /\ w[r] = 1 => r \notin DOMAIN v
    BY TakenOut DEF WireOK
  <1> HIDE DEF v
  <1>2. r.op = "skip" => \A q \in DOMAIN v : q.op # "skip"
    BY <1>1 DEF WireOK, SubmitOK
  <1>3. ASSUME NEW q \in DOMAIN v
        PROVE  RequestOK(q, ex) /\ (q.op = "skip" => SubmitOK(q, v, sh, nm))
    BY <1>1, <1>2, <1>3 DEF WireOK, SubmitOK
  <1> QED
    BY <1>1, <1>2, <1>3 DEF WireOK, v

\* Reads are made.
LEMMA ReadsMade ==
  ASSUME NEW w, NEW sh, NEW nm, NEW ex, WireOK(w, sh, nm, ex), NEW halves \in SUBSET Halves
  PROVE  LET v == w (+) Gets(halves)
         IN  /\ WireOK(v, sh, nm, ex)
             /\ DOMAIN w \subseteq DOMAIN v
             /\ \A h \in halves : \E r \in DOMAIN v : r.op = h
             /\ \A r \in DOMAIN v : r \in DOMAIN w \/ r.op \in halves
  <1> DEFINE S == {Request(h, 0, FALSE) : h \in halves}
             v == w (+) SetToBag(S)
  <1>1. \A r \in S : RequestOK(r, ex) /\ r.op \in halves /\ r.op # "skip"
    <2>1. ASSUME NEW h \in halves
          PROVE  LET r == Request(h, 0, FALSE)
                 IN  RequestOK(r, ex) /\ r.op \in halves /\ r.op # "skip"
      BY PortalAssumption DEF Request, RequestOK, Requests, Halves
    <2> QED
      BY <2>1
  <1>2. \A h \in halves : \E r \in S : r.op = h
    <2>1. ASSUME NEW h \in halves
          PROVE  Request(h, 0, FALSE) \in S /\ Request(h, 0, FALSE).op = h
      BY DEF Request
    <2> QED
      BY <2>1
  <1> HIDE DEF S
  <1>3. /\ IsABag(v) /\ DOMAIN v = DOMAIN w \union S
        /\ \A q \in DOMAIN w \ S : v[q] = w[q]
    BY PutIn DEF WireOK
  <1> HIDE DEF v
  <1>4. ASSUME NEW q \in DOMAIN v
        PROVE  RequestOK(q, ex) /\ (q.op = "skip" => SubmitOK(q, v, sh, nm))
    BY <1>1, <1>3, <1>4 DEF WireOK, SubmitOK
  <1> QED
    BY <1>1, <1>2, <1>3, <1>4 DEF WireOK, v, S, Gets

\* A write is made, the open sheet's or one without a sheet.
LEMMA WriteMade ==
  ASSUME NEW w, NEW sh, NEW nm, NEW ex, WireOK(w, sh, nm, ex), NEW x, RequestOK(x, ex),
         x.op = "skip" => /\ x.key \in 1..Len(nm) /\ sh = [key |-> x.key, pending |-> TRUE]
                          /\ \A q \in DOMAIN w : q.op # "skip"
  PROVE  LET v == w (+) One(x)
         IN  WireOK(v, sh, nm, ex) /\ DOMAIN w \subseteq DOMAIN v /\ x \in DOMAIN v
  <1> DEFINE v == w (+) One(x)
  <1>1. /\ IsABag(v) /\ DOMAIN v = DOMAIN w \union {x}
        /\ \A q \in DOMAIN w \ {x} : v[q] = w[q]
        /\ x \notin DOMAIN w => v[x] = 1
    BY OnePutIn DEF WireOK
  <1> HIDE DEF v
  <1>2. ASSUME NEW q \in DOMAIN v
        PROVE  RequestOK(q, ex) /\ (q.op = "skip" => SubmitOK(q, v, sh, nm))
    BY <1>1, <1>2 DEF WireOK, SubmitOK
  <1> QED
    BY <1>1, <1>2 DEF WireOK, v

\* With no submit in flight, sheets come and go.
LEMMA SheetsComeAndGo ==
  ASSUME NEW w, NEW sh, NEW nm, NEW ex, WireOK(w, sh, nm, ex), NEW sh2, NEW nm2,
         \A q \in DOMAIN w : q.op # "skip"
  PROVE  WireOK(w, sh2, nm2, ex)
  BY DEF WireOK

\* More exchanges, or one that ended, take nothing back.
LEMMA ExchangesGoOn ==
  ASSUME NEW w, NEW sh, NEW nm, NEW ex, WireOK(w, sh, nm, ex), NEW ex2,
         Len(ex) <= Len(ex2), Ended(ex) => Ended(ex2),
         Len(ex) \in Nat, Len(ex2) \in Nat
  PROVE  WireOK(w, sh, nm, ex2)
  BY DEF WireOK, RequestOK

-----------------------------------------------------------------------------
LEMMA InitiallyOK == Init => PInv
  <1> SUFFICES ASSUME Init
               PROVE  PInv
    OBVIOUS
  <1>1. IsABag(EmptyBag) /\ DOMAIN EmptyBag = {}
    BY DEF IsABag, EmptyBag, SetToBag
  <1>2. WireOK(EmptyBag, sheet, named, exchanges)
    BY <1>1 DEF WireOK
  <1>3. wire = EmptyBag (+) Gets(Halves)
    <2> DEFINE S == {Request(h, 0, FALSE) : h \in Halves}
    <2>1. wire = [e \in S |-> 1]
      BY DEF Init, Gets, SetToBag
    <2>2. Gets(Halves) = [e \in S |-> 1]
      BY DEF Gets, SetToBag
    <2> HIDE DEF S
    <2>3. EmptyBag (+) [e \in S |-> 1] = [e \in S |-> 1]
      BY <1>1 DEF (+)
    <2> QED
      BY <2>1, <2>2, <2>3
  <1>4. /\ WireOK(wire, sheet, named, exchanges)
        /\ \A h \in Halves : \E r \in DOMAIN wire : r.op = h
    BY <1>2, <1>3, ReadsMade
  <1>5. SkipsOK(server, named) /\ HostOK(token, exchanges, reauth)
    BY PortalAssumption DEF Init, SkipsOK, HostOK
  <1>6. SheetOK(sheet, named, actionError)
    <2>1. named \in Seq(1..LastOrder) /\ Len(named) = 0
      BY DEF Init
    <2>2. sheet \in [key : 0..Len(named), pending : BOOLEAN]
      BY <2>1 DEF Init, NoSheet
    <2>3. 0 <= MaxSheets
      BY PortalAssumption
    <2>4. actionError \in BOOLEAN
      BY DEF Init
    <2> QED
      BY <2>1, <2>2, <2>3, <2>4 DEF SheetOK
  <1>7. ScreenOK(screen, exchanges)
    <2>1. Loading \in View /\ Loading.phase = "loading"
      BY PortalAssumption DEF Loading, View
    <2> QED
      BY <2>1 DEF Init, ScreenOK, Halves
  <1>8. Settling(wire, screen, sheet)
    BY <1>4 DEF Init, Settling, NoSheet
  <1> QED
    BY <1>4, <1>5, <1>6, <1>7, <1>8 DEF PInv

-----------------------------------------------------------------------------
(* The steps.                                                               *)

\* What spins still has its request, under whatever stage.
LEMMA StillSettling ==
  ASSUME NEW w, NEW scr, NEW sh, Settling(w, scr, sh), NEW v,
         \A q \in DOMAIN w : \E y \in DOMAIN v : y.op = q.op /\ y.key = q.key
  PROVE  Settling(v, scr, sh)
  <1>1. ASSUME NEW h \in Halves, scr[h].phase = "loading"
        PROVE  \E r \in DOMAIN v : r.op = h
    <2>1. PICK q \in DOMAIN w : q.op = h
      BY <1>1 DEF Settling
    <2> QED
      BY <2>1
  <1>2. ASSUME sh.pending
        PROVE  \E r \in DOMAIN v : r.op = "skip" /\ r.key = sh.key
    <2>1. PICK q \in DOMAIN w : q.op = "skip" /\ q.key = sh.key
      BY <1>2 DEF Settling
    <2> QED
      BY <2>1
  <1> QED
    BY <1>1, <1>2 DEF Settling

\* Halves that are read again are on their skeletons.
LEMMA ReloadedScreen ==
  ASSUME ScreenOK(screen, exchanges), NEW halves \in SUBSET Halves,
         screen' = LoadingHalves(halves)
  PROVE  /\ ScreenOK(screen', exchanges)
         /\ \A h \in Halves \ halves : screen'[h] = screen[h]
  <1>1. Loading \in View /\ Loading.phase = "loading"
    BY PortalAssumption DEF Loading, View
  <1> QED
    BY <1>1 DEF ScreenOK, LoadingHalves, Halves

\* The server answers, and the page does not know yet.
LEMMA AnsweringKeeps ==
  ASSUME PInv, NEW r \in InFlight, r.stage = "sent",
         NEW answer \in {"ok", "failed", "expired"}, NEW next \in 0..LastOrder,
         r.op = "occurrences" /\ answer = "ok" => next \in 1..LastOrder,
         Answered(r, answer, next), SkipsOK(server', named'), UNCHANGED <<token, page>>
  PROVE  PInv'
  <1> DEFINE x == [r EXCEPT !.stage = "answered", !.answer = answer, !.next = next]
  <1>1. r \in DOMAIN wire /\ RequestOK(r, exchanges) /\ r \in Requests
    BY DEF PInv, WireOK, InFlight, BagToSet, RequestOK
  <1>2. /\ x \in Requests /\ x.op = r.op /\ x.key = r.key /\ x.retried = r.retried
        /\ x.stage = "answered" /\ x.answer = answer /\ x.next = next
    BY <1>1 DEF Requests
  <1>3. wire' = (wire (-) One(r)) (+) One(x)
    BY DEF Answered
  <1> HIDE DEF x
  <1>4. RequestOK(x, exchanges) /\ x # r
    BY <1>1, <1>2 DEF RequestOK
  <1>5. /\ WireOK(wire', sheet, named, exchanges)
        /\ \A q \in DOMAIN wire : \E y \in DOMAIN wire' : y.op = q.op /\ y.key = q.key
    BY <1>1, <1>2, <1>3, <1>4, GoesOn DEF PInv
  <1>6. Settling(wire', screen, sheet)
    BY <1>5, StillSettling DEF PInv
  <1> QED
    BY <1>5, <1>6 DEF PInv, page

\* A skip is recorded once, under the key of a sheet that was opened.
LEMMA SkippingKeeps ==
  ASSUME PInv, NEW r \in InFlight, r.op = "skip",
         IF KeyRecorded(r.key) THEN UNCHANGED server
         ELSE server.next < LastOrder /\ server' = Recorded(r.key)
  PROVE  SkipsOK(server', named)
  <1>1. r.key \in 1..Len(named) /\ Len(named) \in Nat /\ Len(named) <= MaxSheets
    BY DEF PInv, WireOK, SubmitOK, InFlight, BagToSet, SheetOK
  <1>2. r.key \in 1..MaxSheets
    BY <1>1, PortalAssumption
  <1>3. server.next \in 1..LastOrder
    BY DEF PInv, SkipsOK
  <1>4. CASE KeyRecorded(r.key)
    BY <1>4 DEF PInv
  <1>5. CASE ~KeyRecorded(r.key)
    <2>1. /\ server'.next = server.next + 1
          /\ server'.skipped = server.skipped \union {[key |-> r.key, order |-> server.next]}
          /\ server' = [next |-> server'.next, skipped |-> server'.skipped]
      BY <1>5 DEF Recorded
    <2>2. server'.next \in 1..LastOrder
      BY <1>3, <1>5, <2>1, PortalAssumption
    <2>3. server'.skipped \subseteq [key : 1..MaxSheets, order : 1..LastOrder]
      BY <1>2, <1>3, <2>1 DEF PInv, SkipsOK
    <2>4. \A s \in server.skipped : s.key # r.key
      BY <1>5 DEF KeyRecorded
    <2>5. \A s, t \in server'.skipped : s.key = t.key => s = t
      BY <2>1, <2>4 DEF PInv, SkipsOK
    <2>6. \A s \in server'.skipped : s.key \in 1..Len(named)
      BY <1>1, <2>1 DEF PInv, SkipsOK
    <2> QED
      BY <2>1, <2>2, <2>3, <2>5, <2>6 DEF SkipsOK
  <1> QED
    BY <1>4, <1>5

\* The soonest order changes.
LEMMA MovingOnKeeps ==
  ASSUME PInv, NEW next \in 1..LastOrder, server' = [server EXCEPT !.next = next]
  PROVE  SkipsOK(server', named)
  BY DEF PInv, SkipsOK

LEMMA ServerKeeps ==
  ASSUME PInv, NEW r \in InFlight,
         Fail(r) \/ Unauthorized(r) \/ Read(r) \/ Skip(r) \/ Replan(r)
  PROVE  PInv'
  <1>1. 0 \in 0..LastOrder /\ server.next \in 1..LastOrder
    BY PortalAssumption DEF PInv, SkipsOK
  <1>2. CASE Fail(r)
    BY <1>1, <1>2, AnsweringKeeps DEF Fail, PInv, page
  <1>3. CASE Unauthorized(r)
    BY <1>1, <1>3, AnsweringKeeps DEF Unauthorized, PInv, page
  <1>4. CASE Read(r)
    <2>1. CASE r.op = "occurrences"
      BY <1>1, <1>4, <2>1, AnsweringKeeps DEF Read, PInv, page
    <2>2. CASE r.op # "occurrences"
      BY <1>1, <1>4, <2>2, AnsweringKeeps DEF Read, PInv, page
    <2> QED
      BY <2>1, <2>2
  <1>5. CASE Skip(r)
    <2>1. PICK answer \in {"ok", "failed"} : Answered(r, answer, 0)
      BY <1>5 DEF Skip
    <2>2. SkipsOK(server', named') /\ r.op # "occurrences"
      BY <1>5, SkippingKeeps DEF Skip, page
    <2> QED
      BY <1>1, <1>5, <2>1, <2>2, AnsweringKeeps DEF Skip
  <1>6. CASE Replan(r)
    <2>1. PICK answer \in {"ok", "failed"} : Answered(r, answer, 0)
      BY <1>6 DEF Replan
    <2>2. PICK next \in {server.next, server.next + 1} :
            next <= LastOrder /\ server' = [server EXCEPT !.next = next]
      BY <1>6 DEF Replan
    <2>3. next \in 1..LastOrder
      BY <1>1, <2>2, PortalAssumption
    <2>4. SkipsOK(server', named') /\ r.op # "occurrences"
      BY <1>6, <2>2, <2>3, MovingOnKeeps DEF Replan, page
    <2> QED
      BY <1>1, <1>6, <2>1, <2>4, AnsweringKeeps DEF Replan
  <1> QED
    BY <1>2, <1>3, <1>4, <1>5, <1>6

\* An exchange begins: the ones before it are as they were.
LEMMA ExchangeBegins ==
  ASSUME NEW ex \in Seq({"running", "done", "failed"}), NEW ex2, ex2 = Append(ex, "running")
  PROVE  /\ ex2 \in Seq({"running", "done", "failed"})
         /\ Len(ex) \in Nat /\ Len(ex2) = Len(ex) + 1
         /\ Ended(ex) => Ended(ex2)
  <1>1. /\ ex2 \in Seq({"running", "done", "failed"})
        /\ Len(ex) \in Nat /\ Len(ex2) = Len(ex) + 1
        /\ \A p \in 1..Len(ex) : ex2[p] = ex[p]
    OBVIOUS
  <1>2. DOMAIN ex = 1..Len(ex) /\ DOMAIN ex2 = 1..Len(ex2)
    BY <1>1
  <1>3. Ended(ex) => Ended(ex2)
    BY <1>1, <1>2 DEF Ended
  <1> QED
    BY <1>1, <1>3

\* What is on screen is not taken back by another exchange.
LEMMA ScreenGoesOn ==
  ASSUME NEW scr, NEW ex, ScreenOK(scr, ex), NEW ex2, Ended(ex) => Ended(ex2)
  PROVE  ScreenOK(scr, ex2)
  BY DEF ScreenOK

LEMMA AwaitKeeps ==
  ASSUME PInv, NEW r \in InFlight, Await(r)
  PROVE  PInv'
  <1>1. r \in DOMAIN wire /\ RequestOK(r, exchanges) /\ r \in Requests
    BY DEF PInv, WireOK, InFlight, BagToSet, RequestOK
  <1>2. /\ exchanges \in Seq({"running", "done", "failed"})
        /\ Len(exchanges) \in Nat /\ Len(exchanges) <= MaxExchanges
        /\ reauth \in 0..Len(exchanges)
    BY DEF PInv, HostOK
  <1>3. /\ HostOK(token', exchanges', reauth') /\ reauth' \in 1..Len(exchanges')
        /\ Len(exchanges) <= Len(exchanges')
        /\ Ended(exchanges) => Ended(exchanges')
        /\ Len(exchanges') \in Nat /\ Len(exchanges') <= MaxExchanges
    <2>1. CASE reauth # 0
      BY <1>2, <2>1 DEF Await, PInv, HostOK
    <2>2. CASE reauth = 0
      <3>1. Len(exchanges) < MaxExchanges /\ exchanges' = Append(exchanges, "running")
            /\ reauth' = Len(exchanges')
        BY <2>2 DEF Await
      <3>2. /\ exchanges' \in Seq({"running", "done", "failed"})
            /\ Len(exchanges') = Len(exchanges) + 1
            /\ Ended(exchanges) => Ended(exchanges')
        BY <1>2, <3>1, ExchangeBegins
      <3>3. Len(exchanges') \in Nat /\ Len(exchanges') <= MaxExchanges
            /\ reauth' \in 1..Len(exchanges')
        BY <1>2, <3>1, <3>2, PortalAssumption
      <3> QED
        BY <1>2, <3>2, <3>3 DEF Await, PInv, HostOK
    <2> QED
      BY <2>1, <2>2
  <1> DEFINE x == [r EXCEPT !.stage = "awaiting", !.promise = reauth']
  <1>4. /\ x \in Requests /\ x.op = r.op /\ x.key = r.key /\ x.retried = r.retried
        /\ x.stage = "awaiting" /\ x.promise = reauth' /\ x.answer = "expired"
    <2>1. reauth' \in 0..MaxExchanges
      BY <1>3, PortalAssumption
    <2> QED
      BY <1>1, <2>1 DEF Requests, Await
  <1>5. wire' = (wire (-) One(r)) (+) One(x)
    BY DEF Await
  <1>6. r.stage = "answered" /\ UNCHANGED <<server, token, screen, actionError, sheet, named>>
    BY DEF Await
  <1> HIDE DEF x
  <1>7. RequestOK(x, exchanges') /\ x # r
    BY <1>1, <1>3, <1>4, <1>6 DEF RequestOK
  <1>8. WireOK(wire, sheet, named, exchanges')
    BY <1>2, <1>3, ExchangesGoOn DEF PInv
  <1>9. /\ WireOK(wire', sheet, named, exchanges')
        /\ \A q \in DOMAIN wire : \E y \in DOMAIN wire' : y.op = q.op /\ y.key = q.key
    BY <1>1, <1>4, <1>5, <1>7, <1>8, GoesOn
  <1>10. Settling(wire', screen, sheet)
    BY <1>9, StillSettling DEF PInv
  <1>11. ScreenOK(screen, exchanges')
    BY <1>3, ScreenGoesOn DEF PInv
  <1> QED
    BY <1>3, <1>6, <1>9, <1>10, <1>11 DEF PInv

LEMMA RetryKeeps ==
  ASSUME PInv, NEW r \in InFlight, Retry(r)
  PROVE  PInv'
  <1>1. r \in DOMAIN wire /\ RequestOK(r, exchanges) /\ r \in Requests /\ r.stage = "awaiting"
    BY DEF PInv, WireOK, InFlight, BagToSet, RequestOK, Retry
  <1>2. Ended(exchanges)
    <2>1. r.promise \in DOMAIN exchanges /\ exchanges[r.promise] = "done"
      BY <1>1 DEF RequestOK, Retry, PInv, HostOK
    <2> QED
      BY <2>1 DEF Ended
  <1> DEFINE x == Request(r.op, r.key, TRUE)
  <1>3. /\ x \in Requests /\ x.op = r.op /\ x.key = r.key
        /\ x.stage = "sent" /\ x.answer = "none"
    BY <1>1, PortalAssumption DEF Requests, Request
  <1>4. wire' = (wire (-) One(r)) (+) One(x)
    BY DEF Retry
  <1> HIDE DEF x
  <1>5. RequestOK(x, exchanges) /\ x # r
    BY <1>1, <1>2, <1>3 DEF RequestOK
  <1>6. /\ WireOK(wire', sheet, named, exchanges)
        /\ \A q \in DOMAIN wire : \E y \in DOMAIN wire' : y.op = q.op /\ y.key = q.key
    BY <1>1, <1>3, <1>4, <1>5, GoesOn DEF PInv
  <1>7. /\ ScreenOK(screen', exchanges)
        /\ \A h \in Halves \ {r.op} : screen'[h] = screen[h]
    BY ReloadedScreen DEF PInv, Retry
  <1>8. \E y \in DOMAIN wire' : y.op = r.op
    BY <1>1, <1>6
  <1>9. Settling(wire', screen, sheet)
    BY <1>6, StillSettling DEF PInv
  <1>10. Settling(wire', screen', sheet)
    BY <1>7, <1>8, <1>9 DEF Settling
  <1> QED
    BY <1>6, <1>7, <1>10 DEF PInv, Retry

LEMMA ReadReturnsKeeps ==
  ASSUME PInv, NEW r \in InFlight, ReadReturns(r)
  PROVE  PInv'
  <1>1. /\ r \in DOMAIN wire /\ RequestOK(r, exchanges) /\ r \in Requests
        /\ r.op \in Halves /\ wire' = wire (-) One(r)
    BY DEF PInv, WireOK, InFlight, BagToSet, RequestOK, ReadReturns
  <1>2. /\ WireOK(wire', sheet, named, exchanges)
        /\ \A q \in DOMAIN wire : q.op # r.op => q \in DOMAIN wire'
    BY <1>1, IsOver DEF PInv
  <1>3. PICK view : screen' = [screen EXCEPT ![r.op] = view] /\
                    \/ view = Ready(r.next) /\ Surfaces(r, "ok")
                    \/ \E why \in {"failed", "expired"} : view = Error(why) /\ Surfaces(r, why)
    BY DEF ReadReturns
  \* A read shows what it brought, or why it brought nothing.
  <1>4. /\ view \in View /\ view.phase # "loading"
        /\ view.phase = "expired" => Ended(exchanges)
        /\ r.op = "occurrences" /\ view.phase = "ready" => view.next \in 1..LastOrder
    <2>1. CASE view = Ready(r.next) /\ Surfaces(r, "ok")
      <3>1. r.next \in 0..LastOrder /\ r.answer = "ok"
        BY <1>1, <2>1 DEF Requests, Surfaces
      <3> QED
        BY <1>1, <2>1, <3>1 DEF View, Ready, RequestOK
    <2>2. CASE view = Error("failed")
      BY <2>2, PortalAssumption DEF View, Error
    <2>3. CASE view = Error("expired") /\ Surfaces(r, "expired")
      <3>1. CASE r.retried
        BY <1>1, <2>3, <3>1, PortalAssumption DEF View, Error, RequestOK
      <3>2. CASE ~r.retried
        <4>1. r.promise \in DOMAIN exchanges /\ exchanges[r.promise] = "failed"
          BY <1>1, <2>3, <3>2 DEF Surfaces, RequestOK, PInv, HostOK
        <4>2. Ended(exchanges)
          BY <4>1 DEF Ended
        <4> QED
          BY <2>3, <4>2, PortalAssumption DEF View, Error
      <3> QED
        BY <3>1, <3>2
    <2> QED
      BY <1>3, <2>1, <2>2, <2>3
  <1>5. /\ screen' \in [Halves -> View] /\ screen'[r.op] = view
        /\ \A h \in Halves \ {r.op} : screen'[h] = screen[h]
    BY <1>1, <1>3, <1>4 DEF PInv, ScreenOK
  <1>6. ScreenOK(screen', exchanges)
    BY <1>4, <1>5 DEF PInv, ScreenOK, Halves
  <1>7. Settling(wire', screen', sheet)
    <2>1. ASSUME NEW h \in Halves, screen'[h].phase = "loading"
          PROVE  \E q \in DOMAIN wire' : q.op = h
      <3>1. h # r.op /\ screen[h].phase = "loading"
        BY <1>4, <1>5, <2>1
      <3>2. PICK q \in DOMAIN wire : q.op = h
        BY <3>1 DEF PInv, Settling
      <3> QED
        BY <1>2, <3>1, <3>2
    <2>2. ASSUME sheet.pending
          PROVE  \E q \in DOMAIN wire' : q.op = "skip" /\ q.key = sheet.key
      <3>1. PICK q \in DOMAIN wire : q.op = "skip" /\ q.key = sheet.key
        BY <2>2 DEF PInv, Settling
      <3> QED
        BY <1>1, <1>2, <3>1 DEF Halves
    <2> QED
      BY <2>1, <2>2 DEF Settling
  <1> QED
    BY <1>2, <1>6, <1>7 DEF PInv, ReadReturns

\* Both halves are read again, beside whatever else is in flight.
LEMMA ReloadKeeps ==
  ASSUME PInv, NEW w, NEW sh, WireOK(w, sh, named, exchanges),
         sh.pending => \E q \in DOMAIN w : q.op = "skip" /\ q.key = sh.key,
         screen' = LoadingHalves(Halves), wire' = w (+) Gets(Halves)
  PROVE  /\ WireOK(wire', sh, named, exchanges)
         /\ ScreenOK(screen', exchanges) /\ Settling(wire', screen', sh)
  <1>1. /\ WireOK(wire', sh, named, exchanges)
        /\ DOMAIN w \subseteq DOMAIN wire'
        /\ \A h \in Halves : \E q \in DOMAIN wire' : q.op = h
    BY ReadsMade
  <1>2. ScreenOK(screen', exchanges)
    BY ReloadedScreen DEF PInv
  <1>3. Settling(wire', screen', sh)
    BY <1>1 DEF Settling
  <1> QED
    BY <1>1, <1>2, <1>3

\* The schedule comes with the answer and the queue is read again.
LEMMA TransitionKeeps ==
  ASSUME PInv, NEW r, NEW sh, WireOK(wire (-) One(r), sh, named, exchanges),
         sh.pending => \E q \in DOMAIN (wire (-) One(r)) : q.op = "skip" /\ q.key = sh.key,
         applyTransition(r)
  PROVE  /\ WireOK(wire', sh, named, exchanges)
         /\ ScreenOK(screen', exchanges) /\ Settling(wire', screen', sh)
  <1> DEFINE w == wire (-) One(r)
  <1>1. wire' = w (+) Gets({"occurrences"})
    BY DEF applyTransition, Send
  <1> HIDE DEF w
  <1>2. WireOK(w, sh, named, exchanges)
        /\ (sh.pending => \E q \in DOMAIN w : q.op = "skip" /\ q.key = sh.key)
    BY DEF w
  <1>3. {"occurrences"} \in SUBSET Halves
    BY DEF Halves
  <1>4. /\ WireOK(wire', sh, named, exchanges)
        /\ DOMAIN w \subseteq DOMAIN wire'
        /\ \A h \in {"occurrences"} : \E q \in DOMAIN wire' : q.op = h
    BY <1>1, <1>2, <1>3, ReadsMade
  <1>5. /\ Loading \in View /\ Loading.phase = "loading"
        /\ Ready(0) \in View /\ Ready(0).phase = "ready"
    BY PortalAssumption DEF Loading, Ready, View
  <1>6. screen' = [h \in Halves |-> IF h = "schedule" THEN Ready(0) ELSE Loading]
    BY DEF applyTransition
  <1>7. ScreenOK(screen', exchanges)
    BY <1>5, <1>6 DEF ScreenOK, Halves
  <1>8. \A h \in Halves : screen'[h].phase = "loading" => h = "occurrences"
    BY <1>5, <1>6 DEF Halves
  <1>9. Settling(wire', screen', sh)
    BY <1>2, <1>4, <1>8 DEF Settling
  <1> QED
    BY <1>4, <1>7, <1>9

LEMMA WritesReturnKeeps ==
  ASSUME PInv, NEW r \in InFlight,
         SheetSucceeds(r) \/ SheetFails(r) \/ DirectSucceeds(r) \/ DirectFails(r)
  PROVE  PInv'
  <1> DEFINE w == wire (-) One(r)
  <1>1. /\ r \in DOMAIN wire
        /\ WireOK(w, sheet, named, exchanges)
        /\ \A q \in DOMAIN wire : q.op # r.op => q \in DOMAIN w
        /\ r.op = "skip" => \A q \in DOMAIN w : q.op # "skip"
    BY IsOver DEF PInv, InFlight, BagToSet
  <1>2. \A sh : r.op = "skip" => WireOK(w, sh, named, exchanges)
    BY <1>1, SheetsComeAndGo
  <1>3. r.op = "direct" /\ sheet.pending =>
          \E q \in DOMAIN w : q.op = "skip" /\ q.key = sheet.key
    BY <1>1 DEF PInv, Settling
  <1>4. 0 \in 0..Len(named) /\ 0 \in 0..Len(exchanges) /\ sheet.key \in 0..Len(named)
    BY DEF PInv, SheetOK, HostOK
  <1>5. CASE SheetSucceeds(r)
    <2>1. r.op = "skip" /\ sheet' = NoSheet /\ applyTransition(r)
          /\ UNCHANGED <<server, token, exchanges, named>>
      BY <1>5 DEF SheetSucceeds
    <2>2. /\ WireOK(wire', sheet', named, exchanges)
          /\ ScreenOK(screen', exchanges) /\ Settling(wire', screen', sheet')
      BY <1>2, <2>1, TransitionKeeps DEF NoSheet
    <2>3. SheetOK(sheet', named, actionError')
      BY <1>4, <2>1 DEF SheetOK, NoSheet, applyTransition, PInv
    <2> QED
      BY <2>1, <2>2, <2>3 DEF PInv, applyTransition
  <1>6. CASE SheetFails(r)
    <2>1. /\ r.op = "skip" /\ sheet' = [sheet EXCEPT !.pending = FALSE]
          /\ screen' = LoadingHalves(Halves) /\ wire' = w (+) Gets(Halves)
          /\ UNCHANGED <<server, token, exchanges, reauth, actionError, named>>
      BY <1>6 DEF SheetFails, Send
    <2>2. sheet' \in [key : 0..Len(named), pending : BOOLEAN] /\ ~sheet'.pending
      BY <2>1 DEF PInv, SheetOK
    <2> HIDE DEF w
    <2>3. /\ WireOK(wire', sheet', named, exchanges)
          /\ ScreenOK(screen', exchanges) /\ Settling(wire', screen', sheet')
      BY <1>2, <2>1, <2>2, ReloadKeeps
    <2>4. SheetOK(sheet', named, actionError')
      BY <2>1, <2>2 DEF PInv, SheetOK
    <2> QED
      BY <2>1, <2>3, <2>4 DEF PInv
  <1>7. CASE DirectSucceeds(r)
    <2>1. r.op = "direct" /\ applyTransition(r)
          /\ UNCHANGED <<server, token, exchanges, sheet, named>>
      BY <1>7 DEF DirectSucceeds
    <2>2. /\ WireOK(wire', sheet, named, exchanges)
          /\ ScreenOK(screen', exchanges) /\ Settling(wire', screen', sheet)
      BY <1>1, <1>3, <2>1, TransitionKeeps
    <2>3. SheetOK(sheet, named, actionError')
      BY <2>1 DEF SheetOK, applyTransition, PInv
    <2> QED
      BY <2>1, <2>2, <2>3 DEF PInv, applyTransition
  <1>8. CASE DirectFails(r)
    <2>1. /\ r.op = "direct" /\ actionError' = TRUE /\ reauth' = 0
          /\ screen' = LoadingHalves(Halves) /\ wire' = w (+) Gets(Halves)
          /\ UNCHANGED <<server, token, exchanges, sheet, named>>
      BY <1>8 DEF DirectFails, Send
    <2> HIDE DEF w
    <2>2. /\ WireOK(wire', sheet, named, exchanges)
          /\ ScreenOK(screen', exchanges) /\ Settling(wire', screen', sheet)
      BY <1>1, <1>3, <2>1, ReloadKeeps
    <2>3. SheetOK(sheet, named, actionError')
      BY <2>1 DEF SheetOK, PInv
    <2>4. HostOK(token, exchanges, reauth')
      BY <1>4, <2>1 DEF PInv, HostOK
    <2> QED
      BY <2>1, <2>2, <2>3, <2>4 DEF PInv
  <1> QED
    BY <1>5, <1>6, <1>7, <1>8

LEMMA ExchangeEndsKeeps ==
  ASSUME PInv, ExchangeEnds
  PROVE  PInv'
  <1>1. PICK p \in DOMAIN exchanges, how \in {"done", "failed"} :
          /\ exchanges' = [exchanges EXCEPT ![p] = how]
          /\ token' = IF how = "done" THEN "good" ELSE token
          /\ UNCHANGED <<server, reauth, screen, actionError, sheet, named, wire>>
    BY DEF ExchangeEnds
  <1>2. exchanges \in Seq({"running", "done", "failed"}) /\ Len(exchanges) \in Nat
    BY DEF PInv, HostOK
  <1>3. /\ exchanges' \in Seq({"running", "done", "failed"})
        /\ Len(exchanges') = Len(exchanges)
        /\ p \in DOMAIN exchanges' /\ exchanges'[p] # "running"
    BY <1>1, <1>2
  <1>4. Ended(exchanges')
    BY <1>3 DEF Ended
  <1>5. WireOK(wire, sheet, named, exchanges')
    BY <1>2, <1>3, <1>4, ExchangesGoOn DEF PInv
  <1>6. ScreenOK(screen, exchanges')
    BY <1>4, ScreenGoesOn DEF PInv
  <1>7. HostOK(token', exchanges', reauth)
    BY <1>1, <1>3 DEF PInv, HostOK
  <1> QED
    BY <1>1, <1>5, <1>6, <1>7 DEF PInv

LEMMA OthersKeep ==
  ASSUME PInv, Others \/ Expire
  PROVE  PInv'
  <1>1. CASE Others
    <2>1. server.next + 1 \in 1..LastOrder
      BY <1>1, PortalAssumption DEF Others, PInv, SkipsOK
    <2>2. SkipsOK(server', named)
      BY <1>1, <2>1, MovingOnKeeps DEF Others
    <2> QED
      BY <1>1, <2>2 DEF Others, PInv, page
  <1>2. CASE Expire
    BY <1>2 DEF Expire, PInv, HostOK, page
  <1> QED
    BY <1>1, <1>2

\* Nothing is being submitted but by an open sheet that says so.
LEMMA NoSubmitUnlessPending ==
  ASSUME PInv, ~sheet.pending
  PROVE  \A q \in DOMAIN wire : q.op # "skip"
  BY DEF PInv, WireOK, SubmitOK

LEMMA OpeningKeeps ==
  ASSUME PInv, openSkipSheet
  PROVE  PInv'
  <1>1. /\ sheet.key = 0 /\ Len(named) < MaxSheets /\ named' = Append(named, Lead)
        /\ sheet' = [key |-> Len(named'), pending |-> FALSE]
        /\ screen["occurrences"].phase = "ready"
        /\ UNCHANGED <<server, token, exchanges, reauth, screen, actionError, wire>>
    BY DEF openSkipSheet, QueueShown, Halves
  <1>2. Lead \in 1..LastOrder
    BY <1>1 DEF PInv, ScreenOK, Lead
  <1>3. /\ named' \in Seq(1..LastOrder) /\ Len(named) \in Nat
        /\ Len(named') = Len(named) + 1
    BY <1>1, <1>2 DEF PInv, SheetOK
  <1>4. Len(named') <= MaxSheets /\ sheet' \in [key : 0..Len(named'), pending : BOOLEAN]
    BY <1>1, <1>3, PortalAssumption
  <1>5. \A q \in DOMAIN wire : q.op # "skip"
    BY <1>1 DEF PInv, WireOK, SubmitOK, SheetOK
  <1>6. WireOK(wire, sheet', named', exchanges)
    BY <1>5, SheetsComeAndGo DEF PInv
  <1>7. SkipsOK(server, named')
    BY <1>3 DEF PInv, SkipsOK
  <1>8. Settling(wire, screen, sheet')
    BY <1>1 DEF PInv, Settling
  <1>9. SheetOK(sheet', named', actionError)
    BY <1>3, <1>4 DEF PInv, SheetOK
  <1> QED
    BY <1>1, <1>6, <1>7, <1>8, <1>9 DEF PInv

LEMMA SubmittingKeeps ==
  ASSUME PInv, Submit
  PROVE  PInv'
  <1> DEFINE x == Request("skip", sheet.key, FALSE)
  <1>1. /\ sheet.key # 0 /\ ~sheet.pending
        /\ sheet' = [sheet EXCEPT !.pending = TRUE]
        /\ wire' = wire (+) One(x)
        /\ UNCHANGED <<server, token, exchanges, reauth, screen, actionError, named>>
    BY DEF Submit, Send
  <1>2. /\ sheet \in [key : 0..Len(named), pending : BOOLEAN]
        /\ Len(named) \in Nat /\ Len(named) <= MaxSheets
    BY DEF PInv, SheetOK
  <1>3. sheet.key \in 1..Len(named) /\ sheet.key \in 0..MaxSheets
    BY <1>1, <1>2, PortalAssumption
  <1>4. sheet' = [key |-> sheet.key, pending |-> TRUE] /\ sheet'.key = sheet.key
    BY <1>1, <1>2
  <1>5. RequestOK(x, exchanges) /\ x.op = "skip" /\ x.key = sheet.key
    BY <1>3, PortalAssumption DEF Request, RequestOK, Requests
  <1> HIDE DEF x
  <1>6. \A q \in DOMAIN wire : q.op # "skip"
    BY <1>1, NoSubmitUnlessPending
  <1>7. WireOK(wire, sheet', named, exchanges)
    BY <1>6, SheetsComeAndGo DEF PInv
  <1>8. WireOK(wire', sheet', named, exchanges) /\ DOMAIN wire \subseteq DOMAIN wire'
        /\ x \in DOMAIN wire'
    BY <1>1, <1>3, <1>4, <1>5, <1>6, <1>7, WriteMade
  <1>9. Settling(wire', screen, sheet')
    BY <1>4, <1>5, <1>8 DEF PInv, Settling
  <1>10. SheetOK(sheet', named, actionError)
    BY <1>1, <1>2 DEF PInv, SheetOK
  <1> QED
    BY <1>1, <1>8, <1>9, <1>10 DEF PInv

LEMMA DismissingKeeps ==
  ASSUME PInv, dismiss
  PROVE  PInv'
  <1>1. WireOK(wire, sheet', named, exchanges)
    BY NoSubmitUnlessPending, SheetsComeAndGo DEF PInv, dismiss
  <1>2. Settling(wire, screen, sheet')
    BY DEF PInv, Settling, dismiss, NoSheet
  <1>3. SheetOK(sheet', named, actionError)
    BY DEF PInv, SheetOK, dismiss, NoSheet
  <1> QED
    BY <1>1, <1>2, <1>3 DEF PInv, dismiss

LEMMA DirectWriteKeeps ==
  ASSUME PInv, runDirect
  PROVE  PInv'
  <1> DEFINE x == Request("direct", 0, FALSE)
  <1>1. /\ actionError' = FALSE /\ wire' = wire (+) One(x)
        /\ UNCHANGED <<server, token, exchanges, reauth, screen, sheet, named>>
    BY DEF runDirect, Send
  <1>2. RequestOK(x, exchanges) /\ x.op = "direct"
    BY PortalAssumption DEF Request, RequestOK, Requests
  <1> HIDE DEF x
  <1>3. WireOK(wire', sheet, named, exchanges) /\ DOMAIN wire \subseteq DOMAIN wire'
    BY <1>1, <1>2, WriteMade DEF PInv
  <1>4. Settling(wire', screen, sheet)
    BY <1>3 DEF PInv, Settling
  <1>5. SheetOK(sheet, named, actionError')
    BY <1>1 DEF PInv, SheetOK
  <1> QED
    BY <1>1, <1>3, <1>4, <1>5 DEF PInv

LEMMA LoadKeeps ==
  ASSUME PInv, load
  PROVE  PInv'
  <1>1. /\ reauth' = 0 /\ screen' = LoadingHalves(Halves) /\ wire' = wire (+) Gets(Halves)
        /\ UNCHANGED <<server, token, exchanges, actionError, sheet, named>>
    BY DEF load, Send
  <1>2. sheet.pending => \E q \in DOMAIN wire : q.op = "skip" /\ q.key = sheet.key
    BY DEF PInv, Settling
  <1>3. /\ WireOK(wire', sheet, named, exchanges)
        /\ ScreenOK(screen', exchanges) /\ Settling(wire', screen', sheet)
    BY <1>1, <1>2, ReloadKeeps DEF PInv
  <1>4. HostOK(token, exchanges, reauth')
    BY <1>1 DEF PInv, HostOK
  <1> QED
    BY <1>1, <1>3, <1>4 DEF PInv

-----------------------------------------------------------------------------
(* What the page guarantees.                                                *)

\* Every step, the page's own, the server's, the host's and the customer's, keeps it.
LEMMA EveryStepKeeps == PInv /\ [Next]_vars => PInv'
  <1> SUFFICES ASSUME PInv, [Next]_vars
               PROVE  PInv'
    OBVIOUS
  <1>1. CASE UNCHANGED vars
    BY <1>1 DEF PInv, vars
  <1> QED
    BY <1>1, ServerKeeps, AwaitKeeps, RetryKeeps, ReadReturnsKeeps, WritesReturnKeeps,
       OthersKeep, ExchangeEndsKeeps, OpeningKeeps, SubmittingKeeps, DismissingKeeps,
       DirectWriteKeeps, LoadKeeps DEF Next

(* The page's invariant holds of every reachable state.                       *)
THEOREM PortalInvariance == Spec => []PInv
  BY InitiallyOK, EveryStepKeeps, PTL DEF Spec

(* The page's state is well-typed through every overlap (mountActiveSchedule).  *)
THEOREM PortalTypeCorrect == Spec => []TypeOK
  <1>1. PInv => TypeOK
    BY DEF PInv, SkipsOK, HostOK, SheetOK, ScreenOK, WireOK, RequestOK, TypeOK,
       InFlight, BagToSet
  <1> QED
    BY <1>1, PortalInvariance, PTL

(* One sheet skips one order at most, however often it is submitted and what- *)
(* ever is lost: the keys in the log are those of sheets that were opened,    *)
(* each there once (openSkipSheet; EventExistsWithKey).                       *)
THEOREM OneSheetSkipsOnce == Spec => []OneSheetOneSkip
  <1>1. PInv => OneSheetOneSkip
    <2> SUFFICES ASSUME PInv
                 PROVE  Cardinality(server.skipped) <= Len(named)
      BY DEF PInv, SkipsOK, OneSheetOneSkip
    <2> DEFINE keyOf == [s \in server.skipped |-> s.key]
    <2>1. keyOf \in Injection(server.skipped, 1..Len(named))
      <3>1. keyOf \in [server.skipped -> 1..Len(named)]
        BY DEF PInv, SkipsOK
      <3>2. \A s, t \in server.skipped : keyOf[s] = keyOf[t] => s = t
        BY DEF PInv, SkipsOK
      <3> QED
        BY <3>1, <3>2 DEF Injection, IsInjective
    <2>2. Len(named) \in Nat
      BY DEF PInv, SheetOK
    <2>3. IsFiniteSet(1..Len(named)) /\ Cardinality(1..Len(named)) = Len(named)
      <3>1. \A n \in Nat : IsFiniteSet(1..n) /\ Cardinality(1..n) = n
        BY FS_Interval
      <3> QED
        BY <2>2, <3>1
    <2> QED
      BY <2>1, <2>3, FS_Injection
  <1> QED
    BY <1>1, PortalInvariance, PTL

(* Whatever spins has a request in flight that will settle it (fetchHalf;     *)
(* setPending).                                                               *)
THEOREM NothingSpinsForEver == Spec => []NothingLoadsForEver
  <1>1. PInv => NothingLoadsForEver
    BY DEF PInv, Settling, NothingLoadsForEver, InFlight, BagToSet
  <1> QED
    BY <1>1, PortalInvariance, PTL

(* A rejected submit finds its sheet open (openSheet's requestDismiss).       *)
THEOREM RejectionsAreAlwaysSeen == Spec => []RejectionsAreSeen
  <1>1. PInv => RejectionsAreSeen
    BY DEF PInv, WireOK, SubmitOK, RejectionsAreSeen, InFlight, BagToSet
  <1> QED
    BY <1>1, PortalInvariance, PTL

(* No half of the page gives up on an expired token before an exchange has    *)
(* ended (withFreshToken; fetchHalf).                                         *)
THEOREM HalvesWaitForAnExchange == Spec => []NoHalfGivesUpEarly
  <1>1. PInv => NoHalfGivesUpEarly
    BY DEF PInv, ScreenOK, Ended, NoHalfGivesUpEarly
  <1> QED
    BY <1>1, PortalInvariance, PTL
=============================================================================

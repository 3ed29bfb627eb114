----------------------------- MODULE SalesProofs -----------------------------
(* Proofs about the sales of Booking: what a confirm books, that bookings    *)
(* are unique, that holds are legal and answers true, and that every step is *)
(* one of SeatLedger or a stutter.                                           *)
EXTENDS BookingProofs

-----------------------------------------------------------------------------
(* Steps that change no committed row                                      *)

\* A process that has left its transaction has nothing to sell.
LEMMA DoneSale ==
    ASSUME TypeOK, NEW p \in Procs, NEW r, End(p, r)
    PROVE  SaleOK(p)' /\ tx'[p].ref = None
  <1>1. pc'[p] \in {"idle", "next"} /\ tx'[p] = NoTx
    BY DEF TypeOK, End, After
  <1>2. QED
    BY <1>1 DEF SaleOK, PaidOK, ReplayOK, WantOK, ReturnOK, InsertOK, InTx, NoTx

\* The sales are about committed rows only.
LEMMA SameRows ==
    ASSUME SalesInv, UNCHANGED <<holds, occ, bookings>>
    PROVE  BookedIffConfirmed' /\ BookingsAreUnique' /\ HoldsAreLegal'
  <1>1. BookedIffConfirmed'
    BY DEF SalesInv, BookedIffConfirmed, Unreleased
  <1>2. BookingsAreUnique' /\ HoldsAreLegal'
    BY DEF SalesInv, BookingsAreUnique, HoldsAreLegal, Conflict
  <1>3. QED
    BY <1>1, <1>2

\* If only p moves and no committed row changes, what has to be shown again is
\* what p is about to sell, and the answer.
LEMMA SaleQuiet ==
    ASSUME Inv, SalesInv, NEW p \in Procs, UNCHANGED <<holds, occ, bookings>>,
           \A q \in Procs \ {p} : pc'[q] = pc[q] /\ req'[q] = req[q] /\ tx'[q] = tx[q],
           SaleOK(p)', AnswersAreTrue',
           tx'[p].ref # None =>
             \A q \in Procs \ {p} : tx[q].ref # None =>
               ~Conflict(BookingOf(p, tx[p].ref)', BookingOf(q, tx[q].ref))
    PROVE  SalesInv'
  <1>1. BookedIffConfirmed' /\ BookingsAreUnique' /\ HoldsAreLegal'
    BY SameRows
  <1>2. ASSUME NEW q \in Procs \ {p} PROVE SaleOK(q)'
    <2>0. SaleOK(q) /\ pc'[q] = pc[q] /\ req'[q] = req[q] /\ tx'[q] = tx[q]
      BY DEF SalesInv
    <2>1. PaidOK(q)' /\ ReplayOK(q)' /\ WantOK(q)' /\ ReturnOK(q)'
      BY <2>0 DEF SaleOK, PaidOK, ReplayOK, WantOK, ReturnOK, InTx, Unreleased
    <2>2. InsertOK(q)'
      BY <2>0 DEF SaleOK, InsertOK, BookingOf, Conflict
    <2>3. QED
      BY <2>1, <2>2 DEF SaleOK
  <1>3. InsertsDiffer'
    <2> SUFFICES ASSUME NEW x \in Procs, NEW y \in Procs, x # y,
                        tx'[x].ref # None, tx'[y].ref # None
                 PROVE  ~Conflict(BookingOf(x, tx[x].ref), BookingOf(y, tx[y].ref))'
      BY DEF InsertsDiffer
    <2>1. \A q \in Procs \ {p} : BookingOf(q, tx[q].ref)' = BookingOf(q, tx[q].ref)
      BY DEF BookingOf
    <2>2. CASE x = p
      <3>1. ~Conflict(BookingOf(p, tx[p].ref)', BookingOf(y, tx[y].ref))
        BY <2>2
      <3>2. BookingOf(y, tx[y].ref)' = BookingOf(y, tx[y].ref)
        BY <2>1, <2>2
      <3>3. QED
        BY <2>2, <3>1, <3>2 DEF Conflict
    <2>3. CASE y = p
      <3>1. ~Conflict(BookingOf(p, tx[p].ref)', BookingOf(x, tx[x].ref))
        BY <2>3
      <3>2. BookingOf(x, tx[x].ref)' = BookingOf(x, tx[x].ref)
        BY <2>1, <2>3
      <3>3. QED
        BY <2>3, <3>1, <3>2 DEF Conflict
    <2>4. CASE x # p /\ y # p
      BY <2>1, <2>4 DEF SalesInv, InsertsDiffer, Conflict
    <2>5. QED
      BY <2>2, <2>3, <2>4
  <1>4. QED
    BY <1>1, <1>2, <1>3 DEF SalesInv

\* No answer is a true one.
LEMMA SilenceIsTrue == ASSUME answer' = NoAnswer PROVE AnswersAreTrue'
  BY DEF NoAnswer, AnswerTo, AnswersAreTrue

\* A rollback keeps the sales, if it blames the key only for another booking
\* and the hold only when it is over.
LEMMA SaleRollback ==
    ASSUME Inv, SalesInv, NEW p \in Procs, NEW r, Rollback(p, r), r # "booked",
           r = "idempotencyKeyReused" =>
             \E b \in GetBookingByIdempotencyKey(holds[req[p].tok].cust, req[p].key) :
                b.hold # req[p].tok,
           r = "holdExpired" => Over(req[p].tok)
    PROVE  SalesInv'
  <1>1. SaleOK(p)' /\ tx'[p].ref = None
    BY DoneSale DEF Inv, Rollback
  <1>2. \A q \in Procs \ {p} : pc'[q] = pc[q] /\ req'[q] = req[q] /\ tx'[q] = tx[q]
    BY DEF Inv, TypeOK, Rollback, End
  <1>3. UNCHANGED <<now, holds, occ, bookings>>
    BY DEF Rollback
  <1>4. answer' = [is |-> r, tok |-> req[p].tok, key |-> req[p].key]
    BY DEF Rollback, End, AnswerTo
  <1>5. AnswersAreTrue'
    BY <1>3, <1>4 DEF AnswersAreTrue, GetBookingByIdempotencyKey, Over
  <1>6. QED
    BY <1>1, <1>2, <1>3, <1>5, SaleQuiet

\* An answer before the transaction is neither a sale nor about a key.
LEMMA SaleAnswer ==
    ASSUME Inv, SalesInv, NEW q, NEW r \in {"invalidSelection", "notFound"}, Answer(q, r)
    PROVE  SalesInv'
  <1>1. UNCHANGED <<holds, occ, bookings, pc, req, tx>> /\ answer'.is = r
    BY DEF Answer, AnswerTo
  <1>2. AnswersAreTrue'
    BY <1>1 DEF AnswersAreTrue
  <1>3. BookedIffConfirmed' /\ BookingsAreUnique' /\ HoldsAreLegal'
    BY <1>1, SameRows
  <1>4. InsertsDiffer'
    BY <1>1 DEF SalesInv, InsertsDiffer, BookingOf, Conflict
  <1>5. ASSUME NEW p \in Procs PROVE SaleOK(p)'
    <2>0. SaleOK(p)
      BY DEF SalesInv
    <2>1. PaidOK(p)' /\ ReplayOK(p)' /\ WantOK(p)' /\ ReturnOK(p)'
      BY <1>1, <2>0 DEF SaleOK, PaidOK, ReplayOK, WantOK, ReturnOK, InTx, Unreleased
    <2>2. InsertOK(p)'
      BY <1>1, <2>0 DEF SaleOK, InsertOK, BookingOf, Conflict
    <2>3. QED
      BY <2>1, <2>2 DEF SaleOK
  <1>6. QED
    BY <1>2, <1>3, <1>4, <1>5 DEF SalesInv

\* BEGIN keeps the sales, given a hold that wants a legal number of seats.
LEMMA SaleBegin ==
    ASSUME Inv, SalesInv, NEW p \in Procs, NEW q, Begin(p, q),
           q.kind = "hold" => Cardinality(q.want) \in 1 .. MaxSeatsPerHold
    PROVE  SalesInv'
  <1>1. \A x \in Procs \ {p} : pc'[x] = pc[x] /\ req'[x] = req[x] /\ tx'[x] = tx[x]
    BY DEF Inv, TypeOK, Begin
  <1>2. pc'[p] = "begun" /\ req'[p] = q /\ tx'[p].ref = None /\ tx'[p].freed = {}
    BY DEF Inv, TypeOK, Begin, NoTx
  <1>3. SaleOK(p)'
    BY <1>2 DEF SaleOK, PaidOK, ReplayOK, WantOK, ReturnOK, InsertOK
  <1>4. UNCHANGED <<holds, occ, bookings>> /\ answer' = NoAnswer
    BY DEF Begin
  <1>5. QED
    BY <1>1, <1>2, <1>3, <1>4, SilenceIsTrue, SaleQuiet

\* So does a step inside the transaction that has no reference yet, if what it
\* is about to sell is in order.
LEMMA SaleContinue ==
    ASSUME Inv, SalesInv, NEW p \in Procs, NEW l, NEW t, Continue(p, l, t), t.ref = None,
           PaidOK(p)', ReplayOK(p)', WantOK(p)', ReturnOK(p)'
    PROVE  SalesInv'
  <1>1. \A x \in Procs \ {p} : pc'[x] = pc[x] /\ req'[x] = req[x] /\ tx'[x] = tx[x]
    BY DEF Inv, TypeOK, Continue
  <1>2. tx'[p] = t
    BY DEF Inv, TypeOK, Continue
  <1>3. SaleOK(p)'
    BY <1>2 DEF SaleOK, InsertOK
  <1>4. UNCHANGED <<holds, occ, bookings>> /\ answer' = NoAnswer
    BY DEF Continue
  <1>5. QED
    BY <1>1, <1>2, <1>3, <1>4, SilenceIsTrue, SaleQuiet

-----------------------------------------------------------------------------
(* The actions, one by one                                                 *)

\* A list that normalizeSeats accepts has as many seats as it allows.
LEMMA SelectionSize ==
    ASSUME NEW list \in SeatLists, ValidSelection(list)
    PROVE  Cardinality({list[i] : i \in DOMAIN list}) \in 1 .. MaxSeatsPerHold
  <1> DEFINE S == {list[i] : i \in DOMAIN list}
             n == Len(list)
  <1>1. list \in Seq(Int) /\ n \in 1 .. MaxSeatsPerHold /\ n \in Nat /\ DOMAIN list = 1 .. n
    BY InputAssumption, ConfigAssumption DEF ValidSelection
  <1>2. list \in Surjection(1 .. n, S)
    <2>1. list \in [1 .. n -> Int]
      BY <1>1
    <2>2. list \in [1 .. n -> S]
      BY <1>1, <2>1
    <2>3. QED
      BY <1>1, <2>2 DEF Surjection
  <1>3. IsFiniteSet(1 .. n) /\ Cardinality(1 .. n) = n
    BY <1>1, FS_Interval
  <1>4. IsFiniteSet(S) /\ Cardinality(S) <= n
    BY <1>2, <1>3, FS_Surjection
  <1>5. S # {}
    <2>1. 1 \in DOMAIN list
      BY <1>1
    <2>2. QED
      BY <2>1
  <1>6. Cardinality(S) \in Nat /\ Cardinality(S) # 0
    BY <1>4, <1>5, FS_CardinalityType, FS_EmptySet
  <1> HIDE DEF S, n
  <1>7. Cardinality(S) \in 1 .. MaxSeatsPerHold
    BY <1>1, <1>4, <1>6, ConfigAssumption
  <1>8. QED
    BY <1>7 DEF S

\* No operation sells anything by starting.
LEMMA SaleStart ==
    ASSUME Inv, SalesInv, NEW p \in Clients, StartHold(p) \/ StartConfirm(p) \/ StartRelease(p)
    PROVE  SalesInv'
  <1>0. p \in Procs
    BY DEF Procs
  <1>1. CASE StartHold(p)
    <2>1. PICK st \in Showtimes, list \in SeatLists, cust \in Customers \cup {None} :
             \/ Answer(NoReq, "invalidSelection")
             \/ /\ ValidSelection(list)
                /\ \E h \in HoldIds : Begin(p, HoldRequest(st, h, list, cust))
      BY <1>1 DEF StartHold
    <2>2. ASSUME NEW h \in HoldIds, ValidSelection(list), Begin(p, HoldRequest(st, h, list, cust))
          PROVE  SalesInv'
      <3>1. HoldRequest(st, h, list, cust).want = {list[i] : i \in DOMAIN list}
        BY DEF HoldRequest, NoReq
      <3>2. Cardinality(HoldRequest(st, h, list, cust).want) \in 1 .. MaxSeatsPerHold
        BY <2>2, <3>1, SelectionSize
      <3>3. QED
        BY <1>0, <2>2, <3>2, SaleBegin
    <2>3. QED
      BY <2>1, <2>2, SaleAnswer
  <1>2. CASE StartConfirm(p)
    <2>1. PICK h \in HoldIds, key \in Keys \cup {None} :
            LET q == [NoReq EXCEPT !.kind = "confirm", !.tok = h, !.key = key,
                                   !.show = holds[h].show]
            IN  Answer(q, "invalidSelection") \/ Answer(q, "notFound") \/ Begin(p, q)
      BY <1>2 DEF StartConfirm
    <2> DEFINE q == [NoReq EXCEPT !.kind = "confirm", !.tok = h, !.key = key,
                                  !.show = holds[h].show]
    <2>2. q.kind = "confirm"
      BY DEF NoReq
    <2> HIDE DEF q
    <2>3. Answer(q, "invalidSelection") \/ Answer(q, "notFound") \/ Begin(p, q)
      BY <2>1 DEF q
    <2>4. QED
      BY <1>0, <2>2, <2>3, SaleAnswer, SaleBegin
  <1>3. CASE StartRelease(p)
    <2>1. PICK h \in HoldIds :
            LET q == [NoReq EXCEPT !.kind = "release", !.tok = h, !.show = holds[h].show]
            IN  Answer(q, "notFound") \/ Begin(p, q)
      BY <1>3 DEF StartRelease
    <2> DEFINE q == [NoReq EXCEPT !.kind = "release", !.tok = h, !.show = holds[h].show]
    <2>2. q.kind = "release"
      BY DEF NoReq
    <2> HIDE DEF q
    <2>3. Answer(q, "notFound") \/ Begin(p, q)
      BY <2>1 DEF q
    <2>4. QED
      BY <1>0, <2>2, <2>3, SaleAnswer, SaleBegin
  <1>4. QED
    BY <1>1, <1>2, <1>3

\* Nor does the sweeper's way from one showtime to the next, nor the lock.
LEMMA SaleIdle ==
    ASSUME Inv, SalesInv, NEW p \in Procs,
           StartSweep(p) \/ SweepNext(p) \/ LockShowtime(p)
    PROVE  SalesInv'
  <1>0. pc[p] \in {"idle", "next", "begun"} /\ tx[p].ref = None /\ tx[p].freed = {} /\ SaleOK(p)
    BY DEF Inv, ProcOK, StageOK, SalesInv, StartSweep, SweepNext, LockShowtime
  <1>1. ASSUME NEW st, Begin(p, [NoReq EXCEPT !.kind = "sweep", !.show = st])
        PROVE  SalesInv'
    <2>1. [NoReq EXCEPT !.kind = "sweep", !.show = st].kind = "sweep"
      BY DEF NoReq
    <2>2. QED
      BY <1>1, <2>1, SaleBegin
  <1>2. CASE ~\E st : Begin(p, [NoReq EXCEPT !.kind = "sweep", !.show = st])
    <2>1. UNCHANGED <<holds, occ, bookings, tx>> /\ answer' = NoAnswer
      BY <1>2 DEF StartSweep, SweepNext, LockShowtime
    <2>2. \A x \in Procs \ {p} : pc'[x] = pc[x] /\ req'[x] = req[x] /\ tx'[x] = tx[x]
      BY <1>2, <2>1 DEF Inv, TypeOK, StartSweep, SweepNext, LockShowtime
    <2>3. \/ pc'[p] \in {"idle", "next"}
          \/ pc[p] = "begun" /\ pc'[p] = "body" /\ req'[p] = req[p]
      BY <1>2 DEF Inv, TypeOK, StartSweep, SweepNext, LockShowtime
    <2>4. SaleOK(p)'
      BY <1>0, <2>1, <2>3 DEF SaleOK, PaidOK, ReplayOK, WantOK, ReturnOK, InsertOK, InTx
    <2>5. QED
      BY <1>0, <2>1, <2>2, <2>4, SilenceIsTrue, SaleQuiet
  <1>3. QED
    BY <1>1, <1>2

\* The clock sells nothing either.
LEMMA SaleTick == ASSUME SalesInv, Tick PROVE SalesInv'
  <1>1. UNCHANGED <<holds, occ, bookings, pc, req, tx>> /\ answer' = NoAnswer
    BY DEF Tick
  <1>2. InsertsDiffer'
    BY <1>1 DEF SalesInv, InsertsDiffer, BookingOf, Conflict
  <1>3. ASSUME NEW p \in Procs PROVE SaleOK(p)'
    <2>0. SaleOK(p)
      BY DEF SalesInv
    <2>1. PaidOK(p)' /\ ReplayOK(p)' /\ WantOK(p)' /\ ReturnOK(p)'
      BY <1>1, <2>0 DEF SaleOK, PaidOK, ReplayOK, WantOK, ReturnOK, InTx, Unreleased
    <2>2. InsertOK(p)'
      BY <1>1, <2>0 DEF SaleOK, InsertOK, BookingOf, Conflict
    <2>3. QED
      BY <2>1, <2>2 DEF SaleOK
  <1>4. QED
    BY <1>1, <1>2, <1>3, SameRows, SilenceIsTrue DEF SalesInv

\* A hold reclaims among the seats it wants, and sells nothing.
LEMMA SaleHold ==
    ASSUME Inv, SalesInv, NEW p \in Procs, HoldBody(p) \/ ClaimSeats(p)
    PROVE  SalesInv'
  <1>0. /\ req[p].kind = "hold" /\ pc[p] \in {"body", "claim"} /\ InTx(p)
        /\ tx[p] \in Txs /\ tx[p].ref = None /\ WantOK(p)
    BY DEF HoldBody, ClaimSeats, Inv, TypeOK, ProcOK, StageOK, InTx, SalesInv, SaleOK
  <1>1. ASSUME NEW l \in {"claim", "commit"}, NEW t, Continue(p, l, t), t.ref = None,
               \A r \in t.freed : r[2] \in req[p].want
        PROVE  SalesInv'
    <2>1. pc'[p] = l /\ tx'[p] = t /\ req' = req
      BY <1>1 DEF Continue, Inv, TypeOK
    <2>2. PaidOK(p)' /\ ReplayOK(p)' /\ ReturnOK(p)' /\ WantOK(p)'
      BY <1>0, <1>1, <2>1 DEF PaidOK, ReplayOK, ReturnOK, WantOK
    <2>3. QED
      BY <1>1, <2>2, SaleContinue
  <1>2. CASE HoldBody(p)
    <2> DEFINE freed == ReclaimExpiredSeats(req[p].show, req[p].want, tx[p].now)
               t == [tx[p] EXCEPT !.freed = freed]
    <2>1. HoldRefusal(p, freed) \notin {"booked", "idempotencyKeyReused", "holdExpired"}
      BY DEF HoldRefusal
    <2>2. t.ref = None /\ \A r \in t.freed : r[2] \in req[p].want
      BY <1>0, <1>2 DEF Txs, ReclaimExpiredSeats, HoldBody, Inv, ProcOK, StageOK
    <2>3. Rollback(p, HoldRefusal(p, freed)) \/ Continue(p, "claim", t)
      BY <1>2 DEF HoldBody
    <2> HIDE DEF t, freed
    <2>4. QED
      BY <1>1, <2>1, <2>2, <2>3, SaleRollback
  <1>3. CASE ClaimSeats(p)
    <2> DEFINE t == [tx[p] EXCEPT !.claims = req[p].want]
    <2>2. t.ref = None /\ \A r \in t.freed : r[2] \in req[p].want
      BY <1>0 DEF Txs, WantOK
    <2>3. Rollback(p, "seatRaceLost") \/ Continue(p, "commit", t)
      BY <1>3 DEF ClaimSeats
    <2> HIDE DEF t
    <2>4. QED
      BY <1>1, <2>2, <2>3, SaleRollback
  <1>4. QED
    BY <1>2, <1>3

\* A confirmed hold is replayed, and nothing is sold again.
LEMMA SaleReplay == ASSUME Inv, SalesInv, NEW p \in Procs, ReplayConfirm(p) PROVE SalesInv'
  <1>0. /\ req[p].kind = "confirm" /\ holds[req[p].tok].state = "confirmed" /\ pc[p] = "body"
        /\ tx[p].ref = None /\ tx[p].sold = {}
    BY DEF ReplayConfirm, Inv, ProcOK, StageOK
  <1>1. CASE Rollback(p, "notFound")
    BY <1>1, SaleRollback
  <1>2. CASE Continue(p, "commit", tx[p])
    <2>1. pc'[p] = "commit" /\ tx'[p] = tx[p] /\ req' = req /\ holds' = holds
      BY <1>2 DEF Continue, Inv, TypeOK
    <2>2. PaidOK(p)' /\ ReplayOK(p)' /\ ReturnOK(p)' /\ WantOK(p)'
      BY <1>0, <2>1 DEF PaidOK, ReplayOK, ReturnOK, WantOK
    <2>3. QED
      BY <1>0, <1>2, <2>2, SaleContinue
  <1>3. QED
    BY <1>1, <1>2 DEF ReplayConfirm

\* A hold that is neither sold nor over is whole, and not yet lapsed by the
\* confirm's own, older clock: the checks of Confirm do not call it expired.
LEMMA RefusedIsOver ==
    ASSUME Inv, SalesInv, NEW p \in Procs, pc[p] = "body", req[p].kind = "confirm",
           holds[req[p].tok].state # "confirmed"
    PROVE  ConfirmRefusal(p) = "holdExpired" => Over(req[p].tok)
  <1> DEFINE h == req[p].tok
             sell == ConfirmHoldSeats(h, tx[p].now)
  <1>1. /\ h \in HoldIds /\ holds[h].state \in {"open", "released"}
        /\ holds[h].expires \in Nat /\ tx[p].now <= now /\ tx[p].now \in Nat /\ now \in Nat
    <2>1. h \in HoldIds /\ holds[h].state # "absent" /\ tx[p].now <= now
      BY DEF Inv, ProcOK, RequestOK, StageOK, InTx
    <2>2. holds[h] \in HoldRow /\ tx[p] \in Txs /\ now \in Nat
      BY <2>1 DEF Inv, TypeOK
    <2>3. QED
      BY <2>1, <2>2 DEF HoldRow, HoldStates, Txs
  <1>2. SUFFICES ASSUME holds[h].state = "open", now < holds[h].expires
                 PROVE  ConfirmRefusal(p) # "holdExpired"
    BY <1>1 DEF Over
  <1>3. Unreleased(h) # {}
    BY <1>1, <1>2 DEF Inv, LiveHoldIsWhole
  <1>4. tx[p].now < holds[h].expires
    BY <1>1, <1>2
  <1>5. sell = Unreleased(h)
    <2>1. \A s \in SeatIds : occ[h][s] # "confirmed"
      BY <1>1, <1>2 DEF SalesInv, BookedIffConfirmed
    <2>2. QED
      BY <1>1, <1>4, <2>1 DEF ConfirmHoldSeats, Unreleased
  <1>6. QED
    BY <1>1, <1>2, <1>3, <1>4, <1>5 DEF ConfirmRefusal

\* The comparison of the two counts makes sure that a confirm sells all the
\* hold still has, and the price is counted over the same seats.
LEMMA SaleConfirm == ASSUME Inv, SalesInv, NEW p \in Procs, ConfirmBody(p) PROVE SalesInv'
  <1> DEFINE h == req[p].tok
             sell == ConfirmHoldSeats(h, tx[p].now)
             t == [tx[p] EXCEPT !.sold = sell,
                                !.total = PriceMinor[req[p].show] * Cardinality(Unreleased(h))]
  <1>0. /\ req[p].kind = "confirm" /\ holds[h].state # "confirmed" /\ pc[p] = "body"
        /\ tx[p].ref = None /\ tx[p] \in Txs
    BY DEF ConfirmBody, Inv, ProcOK, StageOK, TypeOK
  <1>1. CASE ConfirmRefusal(p) # "none" /\ Rollback(p, ConfirmRefusal(p))
    <2>1. ConfirmRefusal(p) = "idempotencyKeyReused" =>
            \E b \in GetBookingByIdempotencyKey(holds[h].cust, req[p].key) : b.hold # h
      BY DEF ConfirmRefusal
    <2>2. ConfirmRefusal(p) # "booked"
      BY DEF ConfirmRefusal
    <2>3. ConfirmRefusal(p) = "holdExpired" => Over(h)
      BY <1>0, RefusedIsOver
    <2>4. QED
      BY <1>1, <2>1, <2>2, <2>3, SaleRollback
  <1>2. CASE ConfirmRefusal(p) = "none" /\ Continue(p, "insert", t)
    <2>1. pc'[p] = "insert" /\ tx'[p] = t /\ UNCHANGED <<req, holds, occ>>
      BY <1>2 DEF Continue, Inv, TypeOK
    <2>2. Unreleased(h) # {} /\ Cardinality(sell) = Cardinality(Unreleased(h))
      BY <1>2 DEF ConfirmRefusal
    <2>3. sell = Unreleased(h)
      <3>1. sell \subseteq Unreleased(h)
        BY DEF ConfirmHoldSeats, Unreleased
      <3>2. IsFiniteSet(Unreleased(h))
        BY FiniteAssumption, FS_Subset DEF Unreleased
      <3>3. QED
        BY <2>2, <3>1, <3>2, FS_Subset
    <2>4. t.ref = None /\ t.sold = sell
          /\ t.total = PriceMinor[req[p].show] * Cardinality(Unreleased(h))
      BY <1>0 DEF Txs
    <2> HIDE DEF t, sell
    <2>5. PaidOK(p)' /\ ReplayOK(p)' /\ ReturnOK(p)' /\ WantOK(p)'
      <3>1. Unreleased(h)' = Unreleased(h)
        BY <2>1 DEF Unreleased
      <3>2. PaidOK(p)'
        BY <1>0, <2>1, <2>2, <2>3, <2>4, <3>1 DEF PaidOK, Unreleased
      <3>3. QED
        BY <1>0, <2>1, <3>2 DEF ReplayOK, ReturnOK, WantOK
    <2>6. QED
      BY <1>2, <2>4, <2>5, SaleContinue
  <1>3. QED
    BY <1>1, <1>2 DEF ConfirmBody

\* An insert goes through only if it conflicts with no booking, committed or not.
LEMMA SaleInsert == ASSUME Inv, SalesInv, NEW p \in Procs, CreateBooking(p) PROVE SalesInv'
  <1>0. /\ req[p].kind = "confirm" /\ pc[p] = "insert" /\ PaidOK(p)
        /\ tx[p].ref = None /\ tx[p] \in Txs
    BY DEF CreateBooking, Inv, ProcOK, StageOK, TypeOK, SalesInv, SaleOK
  <1>1. PICK ref \in Refs :
          /\ ~InsertBlocked(p, ref)
          /\ \/ Continue(p, "recheck", [tx[p] EXCEPT !.tries = @ + 1])
             \/ /\ \A b \in bookings : ~Conflict(BookingOf(p, ref), b)
                /\ Continue(p, "commit", [tx[p] EXCEPT !.ref = ref])
    BY DEF CreateBooking
  <1>2. CASE Continue(p, "recheck", [tx[p] EXCEPT !.tries = @ + 1])
    <2> DEFINE t == [tx[p] EXCEPT !.tries = @ + 1]
    <2>1. t.ref = None /\ t.sold = tx[p].sold /\ t.total = tx[p].total
      BY <1>0 DEF Txs
    <2>2. pc'[p] = "recheck" /\ tx'[p] = t /\ UNCHANGED <<req, holds, occ>>
      BY <1>2 DEF Continue, Inv, TypeOK
    <2>3. Continue(p, "recheck", t)
      BY <1>2
    <2> HIDE DEF t
    <2>4. PaidOK(p)' /\ ReplayOK(p)' /\ ReturnOK(p)' /\ WantOK(p)'
      BY <1>0, <2>1, <2>2 DEF PaidOK, ReplayOK, ReturnOK, WantOK, Unreleased
    <2>5. QED
      BY <2>1, <2>3, <2>4, SaleContinue
  <1>3. CASE /\ \A b \in bookings : ~Conflict(BookingOf(p, ref), b)
             /\ Continue(p, "commit", [tx[p] EXCEPT !.ref = ref])
    <2> DEFINE t == [tx[p] EXCEPT !.ref = ref]
    <2>1. t.ref = ref /\ t.sold = tx[p].sold /\ t.total = tx[p].total
      BY <1>0 DEF Txs
    <2>2. /\ pc'[p] = "commit" /\ tx'[p] = t /\ UNCHANGED <<req, holds, occ, bookings>>
          /\ answer' = NoAnswer
      BY <1>3 DEF Continue, Inv, TypeOK
    <2>3. \A x \in Procs \ {p} : pc'[x] = pc[x] /\ req'[x] = req[x] /\ tx'[x] = tx[x]
      BY <1>3 DEF Inv, TypeOK, Continue
    <2>4. ref # None
      BY InputAssumption
    <2> HIDE DEF t
    <2>5. PaidOK(p)' /\ ReplayOK(p)' /\ ReturnOK(p)' /\ WantOK(p)'
      BY <1>0, <2>1, <2>2, <2>4 DEF PaidOK, ReplayOK, ReturnOK, WantOK, Unreleased
    <2>6. BookingOf(p, tx[p].ref)' = BookingOf(p, ref)
      BY <2>1, <2>2 DEF BookingOf
    <2>7. InsertOK(p)'
      BY <1>3, <2>2, <2>6 DEF InsertOK, Conflict
    <2>8. \A q \in Procs \ {p} : tx[q].ref # None =>
            ~Conflict(BookingOf(p, tx[p].ref)', BookingOf(q, tx[q].ref))
      BY <1>1, <2>6 DEF InsertBlocked
    <2>9. QED
      BY <2>2, <2>3, <2>5, <2>7, <2>8, SilenceIsTrue, SaleQuiet DEF SaleOK
  <1>4. QED
    BY <1>1, <1>2, <1>3

\* After a suppressed insert the key is blamed only if it paid for another
\* hold: this one has no booking, or it would be confirmed.
LEMMA SaleRecheck == ASSUME Inv, SalesInv, NEW p \in Procs, RecheckKey(p) PROVE SalesInv'
  <1> DEFINE h == req[p].tok
  <1>0. /\ req[p].kind = "confirm" /\ pc[p] = "recheck" /\ PaidOK(p) /\ InTx(p) /\ ProcOK(p)
        /\ tx[p].ref = None
    BY DEF RecheckKey, Inv, ProcOK, StageOK, SalesInv, SaleOK, InTx
  <1>1. \A b \in bookings : b.hold # h
    <2>1. h \in HoldIds /\ holds[h].state # "confirmed"
      BY <1>0 DEF ProcOK, RequestOK, PaidOK
    <2>2. {b \in bookings : b.hold = h} = {}
      BY <2>1 DEF SalesInv, BookedIffConfirmed
    <2>3. QED
      BY <2>2
  <1>2. CASE /\ GetBookingByIdempotencyKey(holds[h].cust, req[p].key) # {}
             /\ Rollback(p, "idempotencyKeyReused")
    <2>1. \E b \in GetBookingByIdempotencyKey(holds[h].cust, req[p].key) : b.hold # h
      BY <1>1, <1>2 DEF GetBookingByIdempotencyKey
    <2>2. QED
      BY <1>2, <2>1, SaleRollback
  <1>3. CASE Rollback(p, "error")
    BY <1>3, SaleRollback
  <1>4. CASE Continue(p, "insert", tx[p])
    <2>1. pc'[p] = "insert" /\ tx'[p] = tx[p] /\ UNCHANGED <<req, holds, occ>>
      BY <1>4 DEF Continue, Inv, TypeOK
    <2>2. PaidOK(p)' /\ ReplayOK(p)' /\ ReturnOK(p)' /\ WantOK(p)'
      BY <1>0, <2>1 DEF PaidOK, ReplayOK, ReturnOK, WantOK, Unreleased
    <2>3. QED
      BY <1>0, <1>4, <2>2, SaleContinue
  <1>5. QED
    BY <1>2, <1>3, <1>4 DEF RecheckKey

\* Releases and sweeps sell nothing, and a release leaves its hold nothing.
LEMMA SaleReturn ==
    ASSUME Inv, SalesInv, NEW p \in Procs, ReleaseBody(p) \/ SweepBody(p)
    PROVE  SalesInv'
  <1>0. /\ req[p].kind \in {"release", "sweep"} /\ pc[p] = "body"
        /\ tx[p].ref = None /\ tx[p] \in Txs
    BY DEF ReleaseBody, SweepBody, Inv, ProcOK, StageOK, TypeOK
  <1>1. ASSUME NEW F, Continue(p, "commit", [tx[p] EXCEPT !.freed = F]),
               req[p].kind = "release" => F = {req[p].tok} \X ReleaseHoldSeats(req[p].tok)
        PROVE  SalesInv'
    <2> DEFINE t == [tx[p] EXCEPT !.freed = F]
    <2>1. t.ref = None /\ t.freed = F
      BY <1>0 DEF Txs
    <2>2. pc'[p] = "commit" /\ tx'[p] = t /\ UNCHANGED <<req, holds, occ>>
      BY <1>1 DEF Continue, Inv, TypeOK
    <2>3. Continue(p, "commit", t)
      BY <1>1
    <2> HIDE DEF t
    <2>4. ReturnOK(p)'
      BY <1>0, <1>1, <2>1, <2>2 DEF ReturnOK, ReleaseHoldSeats
    <2>5. PaidOK(p)' /\ ReplayOK(p)' /\ WantOK(p)'
      BY <1>0, <2>1, <2>2 DEF PaidOK, ReplayOK, WantOK
    <2>6. QED
      BY <2>1, <2>3, <2>4, <2>5, SaleContinue
  <1>2. CASE ReleaseBody(p)
    BY <1>1, <1>2, SaleRollback DEF ReleaseBody
  <1>3. CASE SweepBody(p)
    BY <1>1, <1>3 DEF SweepBody
  <1>4. QED
    BY <1>2, <1>3
-----------------------------------------------------------------------------
(* COMMIT                                                                  *)

\* What a COMMIT does to the rows of a hold, by what the transaction is.
LEMMA CommitByKind ==
    ASSUME Inv, SalesInv, NEW p \in Procs, Commit(p), NEW h \in HoldIds, NEW s \in SeatIds
    PROVE  /\ req[p].kind = "confirm" /\ h = req[p].tok =>
                occ'[h][s] = IF s \in tx[p].sold THEN "confirmed" ELSE occ[h][s]
           /\ req[p].kind = "confirm" /\ h # req[p].tok => occ'[h][s] = occ[h][s]
           /\ req[p].kind = "hold" /\ h = req[p].tok =>
                occ'[h][s] = IF s \in req[p].want THEN "claimed" ELSE "none"
           /\ ~(h = req[p].tok /\ req[p].kind \in {"hold", "confirm"}) =>
                occ'[h][s] = IF <<h, s>> \in tx[p].freed THEN "released" ELSE occ[h][s]
  <1>0. pc[p] = "commit" /\ InTx(p) /\ ProcOK(p) /\ req[p].kind \in Kinds
    BY DEF Commit, Inv, InTx, TypeOK, Requests
  <1>1. occ'[h][s] = NewRow(p, h, s)
    BY DEF Commit
  <1>2. CASE req[p].kind = "confirm"
    <2>1. tx[p].freed = {} /\ tx[p].claims = {}
      BY <1>0, <1>2 DEF ProcOK, StageOK
    <2>2. QED
      BY <1>1, <1>2, <2>1 DEF NewRow
  <1>3. CASE req[p].kind = "hold"
    <2>1. tx[p].claims = req[p].want /\ tx[p].sold = {}
      BY <1>0, <1>3 DEF ProcOK, StageOK
    <2>2. h = req[p].tok => occ[h][s] = "none" /\ <<h, s>> \notin tx[p].freed
      BY <1>0, <1>3 DEF ProcOK, RequestOK, FreedOK, Inv, HoldRowsOK
    <2>3. QED
      BY <1>1, <1>3, <2>1, <2>2 DEF NewRow
  <1>4. CASE req[p].kind \in {"release", "sweep"}
    <2>1. tx[p].claims = {} /\ tx[p].sold = {}
      BY <1>0, <1>4 DEF ProcOK, StageOK
    <2>2. QED
      BY <1>1, <1>4, <2>1 DEF NewRow
  <1>5. QED
    BY <1>0, <1>2, <1>3, <1>4 DEF Kinds

\* A COMMIT takes nothing from what another transaction is about to sell,
\* reclaim or insert.
LEMMA SaleOthers ==
    ASSUME Inv, SalesInv, NEW p \in Procs, Commit(p), NEW q \in Procs \ {p}
    PROVE  /\ PaidOK(q)' /\ ReplayOK(q)' /\ WantOK(q)' /\ ReturnOK(q)'
           /\ tx[q].ref # None => BookingOf(q, tx[q].ref)' = BookingOf(q, tx[q].ref)
  <1>0. /\ pc[p] = "commit" /\ InTx(p) /\ ProcOK(p) /\ ProcOK(q) /\ SaleOK(q)
        /\ pc'[q] = pc[q] /\ req'[q] = req[q] /\ tx'[q] = tx[q]
    BY DEF Commit, End, Inv, InTx, TypeOK, SalesInv
  <1>1. WantOK(q)'
    BY <1>0 DEF SaleOK, WantOK, InTx
  <1>2. CASE pc[q] \in Locked /\ req[q].kind \in {"confirm", "release"}
    <2>1. /\ InTx(q) /\ req[q].show \in Showtimes /\ req[q].show # req[p].show
          /\ req[q].tok \in HoldIds /\ holds[req[q].tok].show = req[q].show
      BY <1>0, <1>2 DEF ProcOK, LockOK, RequestOK, InTx, Locked
    <2>2. /\ holds'[req[q].tok] = holds[req[q].tok]
          /\ \A s \in SeatIds : occ'[req[q].tok][s] = occ[req[q].tok][s]
      BY <2>1, CommitElsewhere
    <2>3. Unreleased(req[q].tok)' = Unreleased(req[q].tok)
      BY <1>0, <2>2 DEF Unreleased
    <2>4. PaidOK(q)'
      BY <1>0, <2>2, <2>3 DEF SaleOK, PaidOK
    <2>5. ReplayOK(q)' /\ ReturnOK(q)'
      BY <1>0, <2>2 DEF SaleOK, ReplayOK, ReturnOK
    <2>6. BookingOf(q, tx[q].ref)' = BookingOf(q, tx[q].ref)
      BY <1>0, <2>2 DEF BookingOf
    <2>7. QED
      BY <1>1, <2>4, <2>5, <2>6
  <1>3. CASE ~(pc[q] \in Locked /\ req[q].kind \in {"confirm", "release"})
    <2>1. tx[q].ref = None /\ pc[q] \notin {"insert", "recheck"}
          /\ ~(pc[q] = "commit" /\ req[q].kind \in {"confirm", "release"})
      BY <1>0, <1>3 DEF ProcOK, StageOK, Locked, Inv, TypeOK, Labels
    <2>2. PaidOK(q)' /\ ReplayOK(q)' /\ ReturnOK(q)'
      BY <1>0, <2>1 DEF PaidOK, ReplayOK, ReturnOK
    <2>3. QED
      BY <1>1, <2>1, <2>2
  <1>4. QED
    BY <1>2, <1>3

\* A COMMIT makes a hold confirmed and its booking at once, or neither.
LEMMA CommitBooks ==
    ASSUME Inv, SalesInv, NEW p \in Procs, Commit(p)
    PROVE  BookedIffConfirmed'
  <1>0. /\ pc[p] = "commit" /\ InTx(p) /\ ProcOK(p) /\ SaleOK(p) /\ req[p].kind \in Kinds
    BY DEF Commit, Inv, InTx, TypeOK, Requests, SalesInv
  <1> SUFFICES ASSUME NEW h \in HoldIds
               PROVE  LET mine == {b \in bookings' : b.hold = h}
                          sold == {s \in SeatIds : occ'[h][s] = "confirmed"}
                      IN  /\ holds'[h].state = "confirmed" =>
                               /\ Unreleased(h)' = sold /\ sold # {}
                               /\ \E b \in mine : /\ mine = {b}
                                                  /\ b.show = holds'[h].show
                                                  /\ b.total = PriceMinor[b.show] * Cardinality(sold)
                          /\ holds'[h].state # "confirmed" => mine = {} /\ sold = {}
    BY DEF BookedIffConfirmed
  <1> DEFINE mine == {b \in bookings : b.hold = h}
             sold == {s \in SeatIds : occ[h][s] = "confirmed"}
             B == BookingOf(p, tx[p].ref)
  <1>1. /\ holds[h].state = "confirmed" =>
             /\ Unreleased(h) = sold /\ sold # {}
             /\ \E b \in mine : /\ mine = {b}
                                /\ b.show = holds[h].show
                                /\ b.total = PriceMinor[b.show] * Cardinality(sold)
        /\ holds[h].state # "confirmed" => mine = {} /\ sold = {}
    BY DEF SalesInv, BookedIffConfirmed
  <1>2. B.hold = req[p].tok /\ B.show = req[p].show /\ B.total = tx[p].total
    BY DEF BookingOf
  <1>3. CASE h = req[p].tok /\ req[p].kind = "confirm" /\ tx[p].ref # None
    <2>1. /\ holds[h].state # "confirmed" /\ tx[p].sold = Unreleased(h) /\ tx[p].sold # {}
          /\ tx[p].total = PriceMinor[req[p].show] * Cardinality(tx[p].sold)
      BY <1>0, <1>3 DEF SaleOK, PaidOK
    <2>2. \A s \in SeatIds : occ'[h][s] = IF s \in tx[p].sold THEN "confirmed" ELSE occ[h][s]
      BY <1>3, CommitByKind
    <2>3. {s \in SeatIds : occ'[h][s] = "confirmed"} = tx[p].sold
      BY <1>1, <2>1, <2>2 DEF Unreleased
    <2>4. Unreleased(h)' = tx[p].sold
      BY <2>1, <2>2 DEF Unreleased
    <2>5. bookings' = bookings \cup {B}
      BY <1>3 DEF Commit
    <2>6. {b \in bookings' : b.hold = h} = {B}
      BY <1>1, <1>2, <1>3, <2>1, <2>5
    <2>7. holds'[h].state = "confirmed" /\ holds'[h].show = req[p].show
      BY <1>3, CommitHold
    <2> HIDE DEF B
    <2>8. QED
      BY <1>2, <2>1, <2>3, <2>4, <2>6, <2>7
  <1>4. CASE ~(h = req[p].tok /\ req[p].kind = "confirm" /\ tx[p].ref # None)
    <2>1. {b \in bookings' : b.hold = h} = mine
      <3>1. tx[p].ref # None => req[p].kind = "confirm"
        BY <1>0 DEF ProcOK, StageOK
      <3>2. QED
        BY <1>2, <1>4, <3>1 DEF Commit
    <2>2. holds[h].state = "confirmed" => \A s \in SeatIds : <<h, s>> \notin tx[p].freed
      BY <1>0, <1>1 DEF ProcOK, FreedOK, Unreleased
    <2>3. CASE h = req[p].tok /\ req[p].kind = "confirm"
      <3>1. tx[p].ref = None /\ tx[p].sold = {} /\ holds[h].state = "confirmed"
        BY <1>0, <1>4, <2>3 DEF SaleOK, ReplayOK
      <3>2. \A s \in SeatIds : occ'[h][s] = occ[h][s]
        BY <2>3, <3>1, CommitByKind
      <3>3. holds'[h].state = "confirmed" /\ holds'[h].show = holds[h].show
        BY <2>3, CommitHold
      <3>4. Unreleased(h)' = Unreleased(h) /\ {s \in SeatIds : occ'[h][s] = "confirmed"} = sold
        BY <3>2 DEF Unreleased
      <3>5. QED
        BY <1>1, <2>1, <3>1, <3>3, <3>4
    <2>4. CASE h = req[p].tok /\ req[p].kind = "hold"
      <3>1. holds[h].state = "absent" /\ holds'[h].state = "open"
        BY <2>4, CommitHold
      <3>2. {s \in SeatIds : occ'[h][s] = "confirmed"} = {}
        BY <2>4, CommitByKind
      <3>3. QED
        BY <1>1, <2>1, <3>1, <3>2
    <2>5. CASE ~(h = req[p].tok /\ req[p].kind \in {"hold", "confirm"})
      <3>1. \A s \in SeatIds :
              occ'[h][s] = IF <<h, s>> \in tx[p].freed THEN "released" ELSE occ[h][s]
        BY <2>5, CommitByKind
      <3>2. /\ holds'[h].state = "confirmed" <=> holds[h].state = "confirmed"
            /\ holds'[h].show = holds[h].show
        <4>1. CASE h = req[p].tok /\ req[p].kind = "release"
          <5>1. holds[h].state # "confirmed"
            BY <1>0, <4>1 DEF ProcOK, RequestOK
          <5>2. QED
            BY <4>1, <5>1, CommitHold
        <4>2. CASE h # req[p].tok \/ req[p].kind = "sweep"
          BY <4>2, CommitRows
        <4>3. QED
          BY <1>0, <2>5, <4>1, <4>2 DEF Kinds
      <3>3. CASE holds[h].state = "confirmed"
        <4>1. \A s \in SeatIds : occ'[h][s] = occ[h][s]
          BY <2>2, <3>1, <3>3
        <4>2. Unreleased(h)' = Unreleased(h) /\ {s \in SeatIds : occ'[h][s] = "confirmed"} = sold
          BY <4>1 DEF Unreleased
        <4>3. QED
          BY <1>1, <2>1, <3>2, <3>3, <4>2
      <3>4. CASE holds[h].state # "confirmed"
        <4>1. {s \in SeatIds : occ'[h][s] = "confirmed"} = {}
          BY <1>1, <3>1, <3>4
        <4>2. QED
          BY <1>1, <2>1, <3>2, <3>4, <4>1
      <3>5. QED
        BY <3>3, <3>4
    <2>6. QED
      BY <2>3, <2>4, <2>5
  <1>5. QED
    BY <1>3, <1>4

\* A COMMIT grants only what the hold was checked for, and keeps who has what.
LEMMA CommitLegal ==
    ASSUME Inv, SalesInv, NEW p \in Procs, Commit(p)
    PROVE  HoldsAreLegal'
  <1>0. pc[p] = "commit" /\ InTx(p) /\ ProcOK(p) /\ SaleOK(p) /\ req[p].kind \in Kinds
    BY DEF Commit, Inv, InTx, TypeOK, Requests, SalesInv
  <1> SUFFICES ASSUME NEW h \in HoldIds
               PROVE  LET seats == {s \in SeatIds : occ'[h][s] # "none"}
                      IN  IF holds'[h].state = "absent" THEN seats = {}
                          ELSE /\ holds'[h].show \in SalesOpen
                               /\ seats \subseteq SeatsOf[holds'[h].show]
                               /\ Cardinality(seats) \in 1 .. MaxSeatsPerHold
    BY DEF HoldsAreLegal
  <1>1. CASE h = req[p].tok /\ req[p].kind = "hold"
    <2>1. holds'[h].state = "open" /\ holds'[h].show = req[p].show
      BY <1>1, CommitHold
    <2>2. req[p].show \in SalesOpen /\ req[p].want \subseteq SeatsOf[req[p].show]
      BY <1>0, <1>1 DEF ProcOK, CheckedOK
    <2>3. req[p].want \subseteq SeatIds
      BY <2>2, CatalogAssumption
    <2>4. {s \in SeatIds : occ'[h][s] # "none"} = req[p].want
      <3>1. \A s \in SeatIds : occ'[h][s] = IF s \in req[p].want THEN "claimed" ELSE "none"
        BY <1>1, CommitByKind
      <3>2. QED
        BY <2>3, <3>1
    <2>5. Cardinality(req[p].want) \in 1 .. MaxSeatsPerHold
      BY <1>0, <1>1 DEF SaleOK, WantOK
    <2>6. QED
      BY <2>1, <2>2, <2>4, <2>5
  <1>2. CASE ~(h = req[p].tok /\ req[p].kind = "hold")
    <2>1. \A s \in SeatIds : occ'[h][s] = "none" <=> occ[h][s] = "none"
      <3>1. \A s \in SeatIds : <<h, s>> \in tx[p].freed => occ[h][s] = "claimed"
        BY <1>0 DEF ProcOK, FreedOK
      <3>2. \A s \in tx[p].sold : occ[req[p].tok][s] = "claimed"
        BY <1>0 DEF ProcOK, SoldOK
      <3>3. ASSUME NEW s \in SeatIds PROVE occ'[h][s] = "none" <=> occ[h][s] = "none"
        <4>1. CASE h = req[p].tok /\ req[p].kind = "confirm"
          <5>1. occ'[h][s] = IF s \in tx[p].sold THEN "confirmed" ELSE occ[h][s]
            BY <4>1, CommitByKind
          <5>2. QED
            BY <3>2, <4>1, <5>1
        <4>2. CASE ~(h = req[p].tok /\ req[p].kind \in {"hold", "confirm"})
          <5>1. occ'[h][s] = IF <<h, s>> \in tx[p].freed THEN "released" ELSE occ[h][s]
            BY <4>2, CommitByKind
          <5>2. QED
            BY <3>1, <5>1
        <4>3. QED
          BY <1>2, <4>1, <4>2
      <3>4. QED
        BY <3>3
    <2>2. /\ holds'[h].state = "absent" <=> holds[h].state = "absent"
          /\ holds'[h].show = holds[h].show
      <3>1. CASE h = req[p].tok /\ req[p].kind \in {"confirm", "release"}
        BY <3>1, CommitHold
      <3>2. CASE h # req[p].tok \/ req[p].kind = "sweep"
        BY <3>2, CommitRows
      <3>3. QED
        BY <1>0, <1>2, <3>1, <3>2 DEF Kinds
    <2>3. {s \in SeatIds : occ'[h][s] # "none"} = {s \in SeatIds : occ[h][s] # "none"}
      BY <2>1
    <2>4. QED
      BY <2>2, <2>3 DEF SalesInv, HoldsAreLegal
  <1>3. QED
    BY <1>1, <1>2

\* A COMMIT keeps the sales.
LEMMA SaleCommit == ASSUME Inv, SalesInv, NEW p \in Procs, Commit(p) PROVE SalesInv'
  <1> DEFINE B == BookingOf(p, tx[p].ref)
  <1>0. pc[p] = "commit" /\ InTx(p) /\ ProcOK(p) /\ SaleOK(p) /\ TypeOK
    BY DEF Commit, Inv, InTx, SalesInv
  <1>1. PICK r \in {Success(req[p].kind), "error"} : End(p, r)
    BY DEF Commit
  <1>2. SaleOK(p)' /\ tx'[p].ref = None
    BY <1>0, <1>1, DoneSale
  <1>3. \A q \in Procs \ {p} : tx'[q] = tx[q]
    BY <1>0, <1>1 DEF TypeOK, End
  <1>4. bookings' \subseteq bookings \cup {B} /\ (tx[p].ref = None => bookings' = bookings)
    BY DEF Commit
  <1>5. BookingsAreUnique'
    <2>1. \A b \in bookings : tx[p].ref # None => ~Conflict(B, b) /\ ~Conflict(b, B)
      BY <1>0 DEF SaleOK, InsertOK, Conflict
    <2>2. \A b, c \in bookings : Conflict(b, c) => b = c
      BY DEF SalesInv, BookingsAreUnique
    <2> HIDE DEF B
    <2>3. \A b, c \in bookings' : Conflict(b, c) => b = c
      BY <1>4, <2>1, <2>2
    <2>4. QED
      BY <2>3 DEF BookingsAreUnique, Conflict
  <1>6. ASSUME NEW q \in Procs \ {p}, tx[q].ref # None
        PROVE  InsertOK(q)'
    <2>1. BookingOf(q, tx[q].ref)' = BookingOf(q, tx[q].ref)
      BY <1>6, SaleOthers
    <2>2. \A b \in bookings : ~Conflict(BookingOf(q, tx[q].ref), b)
      BY <1>6 DEF SalesInv, SaleOK, InsertOK
    <2>3. tx[p].ref # None => ~Conflict(BookingOf(q, tx[q].ref), B)
      BY <1>6 DEF SalesInv, InsertsDiffer
    <2> HIDE DEF B
    <2>4. \A b \in bookings' : ~Conflict(BookingOf(q, tx[q].ref), b)
      BY <1>4, <2>2, <2>3
    <2>5. QED
      BY <2>1, <2>4 DEF InsertOK, Conflict
  <1>7. ASSUME NEW q \in Procs \ {p} PROVE SaleOK(q)'
    <2>1. tx[q].ref = None => InsertOK(q)'
      BY <1>3 DEF InsertOK
    <2>2. QED
      BY <1>6, <2>1, SaleOthers DEF SaleOK
  <1>8. InsertsDiffer'
    <2> SUFFICES ASSUME NEW x \in Procs, NEW y \in Procs, x # y,
                        tx'[x].ref # None, tx'[y].ref # None
                 PROVE  ~Conflict(BookingOf(x, tx[x].ref), BookingOf(y, tx[y].ref))'
      BY DEF InsertsDiffer
    <2>1. x # p /\ y # p
      BY <1>2
    <2>2. tx'[x] = tx[x] /\ tx'[y] = tx[y]
      BY <1>3, <2>1
    <2>3. /\ BookingOf(x, tx[x].ref)' = BookingOf(x, tx[x].ref)
          /\ BookingOf(y, tx[y].ref)' = BookingOf(y, tx[y].ref)
      BY <2>1, <2>2, SaleOthers
    <2>4. ~Conflict(BookingOf(x, tx[x].ref), BookingOf(y, tx[y].ref))
      BY <2>2 DEF SalesInv, InsertsDiffer
    <2>5. QED
      BY <2>3, <2>4 DEF Conflict
  <1>9. BookedIffConfirmed' /\ HoldsAreLegal'
    BY CommitBooks, CommitLegal
  <1>10. AnswersAreTrue'
    <2>1. answer' = [is |-> r, tok |-> req[p].tok, key |-> req[p].key]
      BY <1>1 DEF End, AnswerTo
    <2>2. r \notin {"idempotencyKeyReused", "holdExpired"} /\ (r = "booked" => req[p].kind = "confirm")
      BY <1>0 DEF Success, TypeOK, Requests, Kinds
    <2>3. r = "booked" => \E b \in bookings' : b.hold = req[p].tok
      <3>1. ASSUME r = "booked" PROVE req[p].tok \in HoldIds /\ holds'[req[p].tok].state = "confirmed"
        BY <2>2, <3>1, CommitHold
      <3>2. QED
        BY <1>9, <3>1 DEF BookedIffConfirmed
    <2>4. QED
      BY <2>1, <2>2, <2>3 DEF AnswersAreTrue
  <1>11. QED
    BY <1>2, <1>5, <1>7, <1>8, <1>9, <1>10 DEF SalesInv
-----------------------------------------------------------------------------
(* The theorems                                                            *)

\* Nothing is sold in the empty database.
LEMMA InitSales == Init => SalesInv
  <1> SUFFICES ASSUME Init PROVE SalesInv
    OBVIOUS
  <1>1. BookedIffConfirmed /\ HoldsAreLegal
    BY DEF Init, NoHold, BookedIffConfirmed, HoldsAreLegal
  <1>2. BookingsAreUnique /\ AnswersAreTrue
    BY DEF Init, BookingsAreUnique, AnswersAreTrue, NoAnswer, AnswerTo
  <1>3. ASSUME NEW p \in Procs PROVE SaleOK(p) /\ tx[p].ref = None
    <2>1. pc[p] = "idle" /\ tx[p] = NoTx
      BY DEF Init
    <2>2. QED
      BY <2>1 DEF SaleOK, PaidOK, ReplayOK, WantOK, ReturnOK, InsertOK, InTx, NoTx
  <1>4. InsertsDiffer
    BY <1>3 DEF InsertsDiffer
  <1>5. QED
    BY <1>1, <1>2, <1>3, <1>4 DEF SalesInv

\* Every step keeps the sales in order.
LEMMA NextSales == Inv /\ SalesInv /\ [Next]_vars => SalesInv'
  <1> SUFFICES ASSUME Inv, SalesInv, [Next]_vars PROVE SalesInv'
    OBVIOUS
  <1>1. CASE UNCHANGED vars
    <2>1. UNCHANGED <<now, holds, occ, bookings, pc, req, tx, answer>>
      BY <1>1 DEF vars
    <2>2. InsertsDiffer' /\ AnswersAreTrue'
      BY <2>1 DEF SalesInv, InsertsDiffer, BookingOf, Conflict, AnswersAreTrue,
         GetBookingByIdempotencyKey, Over
    <2>3. ASSUME NEW p \in Procs PROVE SaleOK(p)'
      <3>0. SaleOK(p)
        BY DEF SalesInv
      <3>1. PaidOK(p)' /\ ReplayOK(p)' /\ WantOK(p)' /\ ReturnOK(p)'
        BY <2>1, <3>0 DEF SaleOK, PaidOK, ReplayOK, WantOK, ReturnOK, InTx, Unreleased
      <3>2. InsertOK(p)'
        BY <2>1, <3>0 DEF SaleOK, InsertOK, BookingOf, Conflict
      <3>3. QED
        BY <3>1, <3>2 DEF SaleOK
    <2>4. QED
      BY <2>1, <2>2, <2>3, SameRows DEF SalesInv
  <1>2. CASE Next
    <2>1. CASE Tick
      BY <2>1, SaleTick
    <2>2. ASSUME NEW p \in Clients, StartHold(p) \/ StartConfirm(p) \/ StartRelease(p)
          PROVE  SalesInv'
      BY <2>2, SaleStart
    <2>3. ASSUME NEW p \in Sweepers, StartSweep(p) PROVE SalesInv'
      BY <2>3, SaleIdle DEF Procs
    <2>4. ASSUME NEW p \in Procs, LockTimeout(p) \/ Abort(p) PROVE SalesInv'
      BY <2>4, SaleRollback DEF LockTimeout, Abort
    <2>5. ASSUME NEW p \in Procs, Progress(p), ~LockTimeout(p) PROVE SalesInv'
      BY <2>5, SaleIdle, SaleHold, SaleReplay, SaleConfirm, SaleInsert, SaleRecheck, SaleReturn,
         SaleCommit DEF Progress
    <2>6. QED
      BY <1>2, <2>1, <2>2, <2>3, <2>4, <2>5 DEF Next
  <1>3. QED
    BY <1>1, <1>2

\* The sales are in order in every reachable state.
LEMMA SalesInvariance == Spec => [](Inv /\ SalesInv)
  <1>1. Init => Inv /\ SalesInv
    BY InitInv, InitSales
  <1>2. (Inv /\ SalesInv) /\ [Next]_vars => (Inv /\ SalesInv)'
    BY NextInv, NextSales
  <1>3. QED
    BY <1>1, <1>2, PTL DEF Spec

\* Confirm's COMMIT is the only step that confirms a hold or makes a booking,
\* and does both: no sold seat without its booking, no booking without its
\* seats, and the price is that of the seats sold.
THEOREM SaleAndBookingTogether == Spec => []BookedIffConfirmed
  <1>1. SalesInv => BookedIffConfirmed
    BY DEF SalesInv
  <1>2. QED
    BY <1>1, SalesInvariance, PTL

\* No two bookings share a reference, a hold or a customer's key, although
\* confirms of different showtimes look at the key under different locks.
THEOREM BookingsStayUnique == Spec => []BookingsAreUnique
  <1>1. SalesInv => BookingsAreUnique
    BY DEF SalesInv
  <1>2. QED
    BY <1>1, SalesInvariance, PTL

\* Hold grants only seats of the showtime's auditorium, between one and the
\* limit, and only while the showtime is on sale.
THEOREM OnlyLegalHolds == Spec => []HoldsAreLegal
  <1>1. SalesInv => HoldsAreLegal
    BY DEF SalesInv
  <1>2. QED
    BY <1>1, SalesInvariance, PTL

\* A confirm that is answered with success has its booking, a key is called
\* reused only if it paid for another hold, and a hold is called expired only
\* if it was released or has run out.
THEOREM AnswersStayTrue == Spec => []AnswersAreTrue
  <1>1. SalesInv => AnswersAreTrue
    BY DEF SalesInv
  <1>2. QED
    BY <1>1, SalesInvariance, PTL
-----------------------------------------------------------------------------
(* The refinement of SeatLedger                                            *)

\* The mapped ledger: who has which slots, until when, and which are sold.
Grants == [h \in HoldIds |-> {holds[h].show} \X Unreleased(h)]
Dues == [h \in HoldIds |-> holds[h].expires]
Sold == {h \in HoldIds : holds[h].state = "confirmed"}

\* What one hold has is judged seat by seat.
LEMMA GrantLess ==
    ASSUME NEW a, NEW U, NEW V, NEW b, NEW W,
           \A s : s \in V <=> s \in U /\ ~(a = b /\ s \in W)
    PROVE  {a} \X V = ({a} \X U) \ ({b} \X W)
  <1>1. ASSUME NEW x PROVE x \in {a} \X V <=> x \in ({a} \X U) \ ({b} \X W)
    OBVIOUS
  <1>2. QED
    BY <1>1

LEMMA GrantNone ==
    ASSUME NEW a, NEW U
    PROVE  {a} \X U = {} <=> U = {}
  <1>1. ASSUME U # {} PROVE {a} \X U # {}
    <2>1. PICK s \in U : TRUE
      BY <1>1
    <2>2. <<a, s>> \in {a} \X U
      OBVIOUS
    <2>3. QED
      BY <2>2
  <1>2. ASSUME U = {} PROVE {a} \X U = {}
    BY <1>2
  <1>3. QED
    BY <1>1, <1>2

\* A claimed row belongs to a hold that was not sold.
LEMMA ClaimedIsUnsold ==
    ASSUME SalesInv, NEW h \in HoldIds, NEW s \in SeatIds, occ[h][s] = "claimed"
    PROVE  holds[h].state # "confirmed" /\ s \in Unreleased(h)
  BY DEF SalesInv, BookedIffConfirmed, Unreleased

\* Rows a hold or a sweep is about to reclaim are overdue in the ledger.
LEMMA FreedIsOverdue ==
    ASSUME Inv, SalesInv, NEW p \in Procs, req[p].kind # "release",
           NEW h \in HoldIds, NEW s \in SeatIds, <<h, s>> \in tx[p].freed
    PROVE  /\ holds[h].state # "confirmed" /\ holds[h].expires <= now
           /\ s \in Unreleased(h) /\ holds[h].show = req[p].show
  <1>1. /\ occ[h][s] = "claimed" /\ holds[h].show = req[p].show
        /\ holds[h].expires <= tx[p].now
    BY DEF Inv, ProcOK, FreedOK
  <1>2. tx[p].now <= now /\ tx[p].now \in Nat /\ holds[h].expires \in Nat /\ now \in Nat
    BY DEF Inv, ProcOK, StageOK, TypeOK, Txs, HoldRow
  <1>3. QED
    BY <1>1, <1>2, ClaimedIsUnsold

\* The COMMIT of a hold grants its seats, and takes them from overdue holds.
LEMMA LedgerGrant ==
    ASSUME Inv, SalesInv, NEW p \in Procs, Commit(p), TypeOK', req[p].kind = "hold"
    PROVE  Ledger!Next
  <1>0. /\ pc[p] = "commit" /\ InTx(p) /\ ProcOK(p) /\ SaleOK(p) /\ req[p].tok \in HoldIds
        /\ req[p].show \in Showtimes /\ req[p].want # {}
    BY DEF Commit, Inv, InTx, SalesInv, ProcOK, RequestOK
  <1>h. PICK h \in HoldIds : h = req[p].tok
    BY <1>0
  <1>S. PICK S : S = {req[p].show} \X req[p].want
    OBVIOUS
  <1>a. req[p].want \subseteq SeatIds
    BY <1>0, CatalogAssumption DEF ProcOK, CheckedOK
  <1>1. S # {} /\ S \in SUBSET (Showtimes \X SeatIds)
    <2>1. S # {}
      BY <1>0, <1>S, GrantNone
    <2>2. QED
      BY <1>0, <1>a, <1>S, <2>1
  <1>2. holds[h].state = "absent" /\ holds'[h].state = "open" /\ holds'[h].show = req[p].show
    BY <1>h, CommitHold
  <1>3. Unreleased(h) = {}
    BY <1>0, <1>2 DEF Unreleased, Inv, HoldRowsOK
  <1>4. ASSUME NEW g \in HoldIds, NEW s \in Unreleased(g)
        PROVE  <<g, s>> \in tx[p].freed <=> holds[g].show = req[p].show /\ s \in req[p].want
    <2>1. s \in SeatIds
      BY DEF Unreleased
    <2>2. <<g, s>> \in tx[p].freed => s \in req[p].want
      BY <1>0 DEF SaleOK, WantOK
    <2>3. <<g, s>> \in tx[p].freed => holds[g].show = req[p].show
      BY <2>1, FreedIsOverdue
    <2>4. holds[g].show = req[p].show /\ s \in req[p].want => <<g, s>> \in tx[p].freed
      BY <1>0 DEF ProcOK, CheckedOK, HoldsOf
    <2>5. QED
      BY <2>2, <2>3, <2>4
  <1>5. ASSUME NEW g \in HoldIds
        PROVE  Grants[g] \cap S \subseteq
                 IF g \notin Sold /\ Dues[g] <= now THEN Grants[g] ELSE {}
    <2>1. CASE g \notin Sold /\ Dues[g] <= now
      BY <2>1
    <2>2. CASE ~(g \notin Sold /\ Dues[g] <= now)
      <3>1. SUFFICES ASSUME NEW x, x \in Grants[g], x \in S PROVE FALSE
        BY <2>2
      <3>2. PICK s \in Unreleased(g) : x = <<holds[g].show, s>>
        BY <3>1 DEF Grants
      <3>3. holds[g].show = req[p].show /\ s \in req[p].want /\ s \in SeatIds
        BY <1>S, <3>1, <3>2 DEF Unreleased
      <3>4. <<g, s>> \in tx[p].freed
        BY <1>4, <3>3
      <3>5. holds[g].state # "confirmed" /\ holds[g].expires <= now
        BY <3>3, <3>4, FreedIsOverdue
      <3>6. QED
        BY <2>2, <3>5 DEF Sold, Dues
    <2>3. QED
      BY <2>1, <2>2
  <1>b. Unreleased(h)' = req[p].want
    <2>1. \A s \in SeatIds : occ'[h][s] = IF s \in req[p].want THEN "claimed" ELSE "none"
      BY <1>h, CommitByKind
    <2>2. ASSUME NEW s PROVE s \in Unreleased(h)' <=> s \in req[p].want
      BY <1>a, <2>1 DEF Unreleased
    <2>3. QED
      BY <2>2
  <1>6. ASSUME NEW g \in HoldIds
        PROVE  Grants'[g] = IF g = h THEN S ELSE Grants[g] \ S
    <2>0. Grants'[g] = {holds'[g].show} \X Unreleased(g)' /\ Grants[g] = {holds[g].show} \X Unreleased(g)
      BY DEF Grants
    <2>1. CASE g = h
      BY <1>2, <1>b, <1>S, <2>0, <2>1
    <2>2. CASE g # h
      <3>1. holds'[g].show = holds[g].show
        BY <1>h, <2>2, CommitRows
      <3>2. \A s \in SeatIds :
              occ'[g][s] = IF <<g, s>> \in tx[p].freed THEN "released" ELSE occ[g][s]
        BY <1>h, <2>2, CommitByKind
      <3>3. ASSUME NEW s PROVE s \in Unreleased(g)' <=> s \in Unreleased(g) /\ <<g, s>> \notin tx[p].freed
        BY <3>2 DEF Unreleased
      <3>4. \A s : s \in Unreleased(g)' <=>
              s \in Unreleased(g) /\ ~(holds[g].show = req[p].show /\ s \in req[p].want)
        BY <1>4, <3>3
      <3>5. {holds[g].show} \X Unreleased(g)' = ({holds[g].show} \X Unreleased(g)) \ S
        BY <1>S, <3>4, GrantLess
      <3>6. QED
        BY <2>0, <2>2, <3>1, <3>5
    <2>3. QED
      BY <2>1, <2>2
  <1>7. ASSUME NEW g \in HoldIds
        PROVE  Dues'[g] \in Nat /\ (g # h => Dues'[g] = Dues[g])
    <2>1. Dues'[g] = holds'[g].expires /\ Dues[g] = holds[g].expires
      BY DEF Dues
    <2>2. g # h => holds'[g] = holds[g]
      BY <1>h, CommitRows
    <2>3. holds'[g].expires \in Nat
      BY DEF TypeOK, HoldRow
    <2>4. QED
      BY <2>1, <2>2, <2>3
  <1>8. now' = now
    BY DEF Commit
  <1>9. Sold' = Sold /\ h \notin Sold
    <2>1. \A g \in HoldIds : holds'[g].state = "confirmed" <=> holds[g].state = "confirmed"
      BY <1>2, <1>h, CommitRows
    <2>2. QED
      BY <1>2, <2>1 DEF Sold
  <1>10. Ledger!Grant(h, S)
    <2>1. Grants[h] = {}
      BY <1>0, <1>3, GrantNone DEF Grants
    <2>2. Grants' = [g \in HoldIds |-> IF g = h THEN S ELSE Grants[g] \ S]
      BY <1>6 DEF Grants
    <2>3. Dues' \in [HoldIds -> Nat] /\ \A g \in HoldIds \ {h} : Dues'[g] = Dues[g]
      BY <1>7 DEF Dues
    <2>4. QED
      BY <1>5, <1>8, <1>9, <2>1, <2>2, <2>3 DEF Ledger!Grant, Ledger!Overdue, Grants, Dues, Sold
  <1>11. QED
    BY <1>1, <1>10 DEF Ledger!Next

\* The COMMIT of a sweep takes back overdue slots.
LEMMA LedgerReclaim ==
    ASSUME Inv, SalesInv, NEW p \in Procs, Commit(p), req[p].kind = "sweep"
    PROVE  Ledger!Next
  <1>0. req[p].show \in Showtimes /\ now' = now /\ holds' = holds
    BY DEF Commit, Inv, InTx, ProcOK, RequestOK
  <1>t. PICK take : take = [g \in HoldIds |->
                              {req[p].show} \X {s \in SeatIds : <<g, s>> \in tx[p].freed}]
    OBVIOUS
  <1>1. ASSUME NEW g \in HoldIds, NEW s \in SeatIds, <<g, s>> \in tx[p].freed
        PROVE  g \notin Sold /\ Dues[g] <= now /\ <<req[p].show, s>> \in Grants[g]
    <2>1. /\ holds[g].state # "confirmed" /\ holds[g].expires <= now
          /\ s \in Unreleased(g) /\ holds[g].show = req[p].show
      BY <1>1, FreedIsOverdue
    <2>2. QED
      BY <2>1 DEF Sold, Dues, Grants
  <1>2. ASSUME NEW g \in HoldIds
        PROVE  take[g] \subseteq IF g \notin Sold /\ Dues[g] <= now THEN Grants[g] ELSE {}
    <2>1. ASSUME NEW x \in take[g] PROVE g \notin Sold /\ Dues[g] <= now /\ x \in Grants[g]
      <3>1. PICK s \in SeatIds : x = <<req[p].show, s>> /\ <<g, s>> \in tx[p].freed
        BY <1>t
      <3>2. QED
        BY <1>1, <3>1
    <2>2. QED
      BY <2>1
  <1>3. take \in [HoldIds -> SUBSET (Showtimes \X SeatIds)]
    BY <1>0, <1>t
  <1>4. ASSUME NEW g \in HoldIds PROVE Grants'[g] = Grants[g] \ take[g]
    <2>0. Grants'[g] = {holds[g].show} \X Unreleased(g)' /\ Grants[g] = {holds[g].show} \X Unreleased(g)
      BY <1>0 DEF Grants
    <2>1. \A s \in SeatIds :
            occ'[g][s] = IF <<g, s>> \in tx[p].freed THEN "released" ELSE occ[g][s]
      BY CommitByKind
    <2>2. ASSUME NEW s PROVE s \in Unreleased(g)' <=> s \in Unreleased(g) /\ <<g, s>> \notin tx[p].freed
      BY <2>1 DEF Unreleased
    <2>3. \A s \in SeatIds : <<g, s>> \in tx[p].freed => holds[g].show = req[p].show
      BY FreedIsOverdue
    <2>4. \A s : s \in Unreleased(g)' <=> s \in Unreleased(g)
            /\ ~(holds[g].show = req[p].show /\ s \in {u \in SeatIds : <<g, u>> \in tx[p].freed})
      BY <2>2, <2>3 DEF Unreleased
    <2>5. QED
      BY <1>t, <2>0, <2>4, GrantLess
  <1>5. Grants' = [g \in HoldIds |-> Grants[g] \ take[g]] /\ Dues' = Dues /\ Sold' = Sold
    BY <1>0, <1>4 DEF Grants, Dues, Sold
  <1>6. Ledger!Reclaim
    BY <1>0, <1>2, <1>3, <1>5 DEF Ledger!Reclaim, Ledger!Overdue, Grants, Dues, Sold
  <1>7. QED
    BY <1>6 DEF Ledger!Next

\* The COMMIT of a release gives back everything the hold has.
LEMMA LedgerReturn ==
    ASSUME Inv, SalesInv, NEW p \in Procs, Commit(p), req[p].kind = "release"
    PROVE  Ledger!Next
  <1>0. /\ pc[p] = "commit" /\ InTx(p) /\ ProcOK(p) /\ SaleOK(p) /\ req[p].tok \in HoldIds
        /\ holds[req[p].tok].state # "confirmed" /\ now' = now
    BY DEF Commit, Inv, InTx, ProcOK, RequestOK, SalesInv
  <1>h. PICK h \in HoldIds : h = req[p].tok
    BY <1>0
  <1>1. \A g \in HoldIds, s \in SeatIds :
          occ'[g][s] = IF <<g, s>> \in tx[p].freed THEN "released" ELSE occ[g][s]
    BY CommitByKind
  <1>2. Unreleased(h)' = {}
    <2>1. \A s \in SeatIds : occ[h][s] # "confirmed"
      BY <1>0, <1>h DEF SalesInv, BookedIffConfirmed
    <2>2. \A s \in SeatIds : occ[h][s] = "claimed" => <<h, s>> \in tx[p].freed
      BY <1>0, <1>h DEF SaleOK, ReturnOK
    <2>3. \A s \in SeatIds : occ'[h][s] \notin {"claimed", "confirmed"}
      BY <1>1, <2>1, <2>2
    <2>4. QED
      BY <2>3 DEF Unreleased
  <1>3. ASSUME NEW g \in HoldIds, g # h PROVE Unreleased(g)' = Unreleased(g) /\ holds'[g] = holds[g]
    <2>1. \A s \in SeatIds : <<g, s>> \notin tx[p].freed
      BY <1>0, <1>h, <1>3 DEF ProcOK, FreedOK
    <2>2. \A s \in SeatIds : occ'[g][s] = occ[g][s]
      BY <1>1, <2>1
    <2>3. holds'[g] = holds[g]
      BY <1>h, <1>3, CommitRows
    <2>4. QED
      BY <2>2, <2>3 DEF Unreleased
  <1>4. /\ holds'[h].expires = holds[h].expires
        /\ holds'[h].state # "confirmed" /\ holds[h].state # "confirmed"
    BY <1>0, <1>h, CommitHold
  <1>5. ASSUME NEW g \in HoldIds PROVE Grants'[g] = IF g = h THEN {} ELSE Grants[g]
    <2>1. CASE g = h
      BY <1>2, <2>1, GrantNone DEF Grants
    <2>2. CASE g # h
      BY <1>3, <2>2 DEF Grants
    <2>3. QED
      BY <2>1, <2>2
  <1>6. Grants' = [Grants EXCEPT ![h] = {}]
    BY <1>5 DEF Grants
  <1>7. Dues' = Dues /\ Sold' = Sold /\ h \notin Sold
    <2>1. \A g \in HoldIds : holds'[g].expires = holds[g].expires
      BY <1>3, <1>4
    <2>2. \A g \in HoldIds : holds'[g].state = "confirmed" <=> holds[g].state = "confirmed"
      BY <1>3, <1>4
    <2>3. QED
      BY <1>4, <2>1, <2>2 DEF Dues, Sold
  <1>8. Ledger!Return(h)
    BY <1>0, <1>6, <1>7 DEF Ledger!Return, Grants, Dues, Sold
  <1>9. QED
    BY <1>8 DEF Ledger!Next

\* The COMMIT of a confirm, replayed or not, sells what the hold has.
LEMMA LedgerSell ==
    ASSUME Inv, SalesInv, NEW p \in Procs, Commit(p), req[p].kind = "confirm"
    PROVE  Ledger!Next
  <1>0. /\ pc[p] = "commit" /\ InTx(p) /\ ProcOK(p) /\ SaleOK(p) /\ req[p].tok \in HoldIds
        /\ now' = now
    BY DEF Commit, Inv, InTx, ProcOK, RequestOK, SalesInv
  <1>h. PICK h \in HoldIds : h = req[p].tok
    BY <1>0
  <1>1. Unreleased(h) # {}
    <2>1. CASE tx[p].ref # None
      BY <1>0, <1>h, <2>1 DEF SaleOK, PaidOK
    <2>2. CASE tx[p].ref = None
      <3>1. holds[h].state = "confirmed"
        BY <1>0, <1>h, <2>2 DEF SaleOK, ReplayOK
      <3>2. QED
        BY <3>1 DEF SalesInv, BookedIffConfirmed
    <2>3. QED
      BY <2>1, <2>2
  <1>2. ASSUME NEW g \in HoldIds PROVE Unreleased(g)' = Unreleased(g)
    <2>1. ASSUME NEW s \in SeatIds
          PROVE  occ'[g][s] = occ[g][s] \/ (occ'[g][s] = "confirmed" /\ occ[g][s] = "claimed")
      <3>1. CASE g = h
        <4>1. occ'[g][s] = IF s \in tx[p].sold THEN "confirmed" ELSE occ[g][s]
          BY <1>h, <3>1, CommitByKind
        <4>2. s \in tx[p].sold => occ[g][s] = "claimed"
          BY <1>0, <1>h, <3>1 DEF ProcOK, SoldOK
        <4>3. CASE s \in tx[p].sold
          BY <4>1, <4>2, <4>3
        <4>4. CASE s \notin tx[p].sold
          BY <4>1, <4>4
        <4>5. QED
          BY <4>3, <4>4
      <3>2. CASE g # h
        <4>1. occ'[g][s] = occ[g][s]
          BY <1>h, <3>2, CommitByKind
        <4>2. QED
          BY <4>1
      <3>3. QED
        BY <3>1, <3>2
    <2>2. \A s \in SeatIds : s \in Unreleased(g)' <=> s \in Unreleased(g)
      BY <2>1 DEF Unreleased
    <2>3. QED
      BY <2>2 DEF Unreleased
  <1>3. \A g \in HoldIds : g # h => holds'[g] = holds[g]
    BY <1>h, CommitRows
  <1>4. /\ holds'[h].state = "confirmed" /\ holds'[h].expires = holds[h].expires
        /\ holds'[h].show = holds[h].show
    BY <1>h, CommitHold
  <1>5. \A g \in HoldIds : holds'[g].show = holds[g].show /\ holds'[g].expires = holds[g].expires
    BY <1>3, <1>4
  <1>6. Sold' = Sold \cup {h}
    BY <1>3, <1>4 DEF Sold
  <1>7. Grants' = Grants /\ Dues' = Dues /\ Grants[h] # {}
    BY <1>1, <1>2, <1>5, GrantNone DEF Grants, Dues
  <1>8. Ledger!Sell(h)
    BY <1>0, <1>6, <1>7 DEF Ledger!Sell, Grants, Dues, Sold
  <1>9. QED
    BY <1>8 DEF Ledger!Next

\* Until its COMMIT a transaction leaves the ledger alone, and so does every
\* way it can be refused, time out or die.
LEMMA LedgerQuiet ==
    Next => UNCHANGED <<now, holds, occ>> \/ Tick \/ \E p \in Procs : Commit(p)
  <1> DEFINE Same == UNCHANGED <<now, holds, occ>>
  <1> SUFFICES ASSUME Next PROVE Same \/ Tick \/ \E p \in Procs : Commit(p)
    OBVIOUS
  <1>1. ASSUME NEW p \in Clients, StartHold(p) \/ StartConfirm(p) \/ StartRelease(p) PROVE Same
    BY <1>1 DEF StartHold, StartConfirm, StartRelease, Answer, Begin
  <1>2. ASSUME NEW p \in Sweepers, StartSweep(p) PROVE Same
    BY <1>2 DEF StartSweep
  <1>3. ASSUME NEW p \in Procs, LockShowtime(p) \/ LockTimeout(p) \/ Abort(p) PROVE Same
    BY <1>3 DEF LockShowtime, LockTimeout, Abort, Rollback
  <1>4. ASSUME NEW p \in Procs, HoldBody(p) \/ ClaimSeats(p) \/ ReleaseBody(p) PROVE Same
    BY <1>4 DEF HoldBody, ClaimSeats, ReleaseBody, Rollback, Continue
  <1>5. ASSUME NEW p \in Procs, ReplayConfirm(p) \/ ConfirmBody(p) PROVE Same
    BY <1>5 DEF ReplayConfirm, ConfirmBody, Rollback, Continue
  <1>6. ASSUME NEW p \in Procs, CreateBooking(p) \/ RecheckKey(p) PROVE Same
    BY <1>6 DEF CreateBooking, RecheckKey, Rollback, Continue
  <1>7. ASSUME NEW p \in Procs, SweepNext(p) \/ SweepBody(p) PROVE Same
    BY <1>7 DEF SweepNext, SweepBody, Begin, Continue
  <1> HIDE DEF Same
  <1>8. QED
    BY <1>1, <1>2, <1>3, <1>4, <1>5, <1>6, <1>7 DEF Next, Progress

\* Every step is one step of the ledger, or none.
LEMMA LedgerStep ==
    ASSUME Inv, SalesInv, TypeOK', [Next]_vars
    PROVE  [Ledger!Next]_(Ledger!ledger)
  <1>1. CASE UNCHANGED <<now, holds, occ>>
    <2>1. now' = now /\ Grants' = Grants /\ Dues' = Dues /\ Sold' = Sold
      BY <1>1 DEF Grants, Dues, Sold, Unreleased
    <2>2. QED
      BY <2>1 DEF Ledger!ledger, Grants, Dues, Sold
  <1>2. CASE Tick
    <2>1. now' = now + 1 /\ Grants' = Grants /\ Dues' = Dues /\ Sold' = Sold
      BY <1>2 DEF Tick, Grants, Dues, Sold, Unreleased
    <2>2. Ledger!Pass
      BY <2>1 DEF Ledger!Pass, Grants, Dues, Sold
    <2>3. QED
      BY <2>2 DEF Ledger!Next
  <1>3. ASSUME NEW p \in Procs, Commit(p) PROVE Ledger!Next
    <2>1. req[p].kind \in {"hold", "confirm", "release", "sweep"}
      BY DEF Inv, TypeOK, Requests, Kinds
    <2>2. QED
      BY <1>3, <2>1, LedgerGrant, LedgerSell, LedgerReturn, LedgerReclaim
  <1>4. CASE UNCHANGED vars
    BY <1>1, <1>4 DEF vars
  <1>5. QED
    BY <1>1, <1>2, <1>3, <1>4, LedgerQuiet

\* The write path implements SeatLedger, whatever its transactions, clocks and
\* failures do: a COMMIT is one atomic step of the ledger, everything else is
\* invisible in it.
THEOREM WritePathIsLedger == Spec => RefinesLedger
  <1>1. Init => Ledger!Init
    <2>1. ASSUME Init PROVE now = 0 /\ Grants = [h \in HoldIds |-> {}]
                            /\ Dues = [h \in HoldIds |-> 0] /\ Sold = {}
      <3>1. \A h \in HoldIds : Unreleased(h) = {} /\ holds[h] = NoHold
        BY <2>1 DEF Init, Unreleased
      <3>2. \A h \in HoldIds : {holds[h].show} \X Unreleased(h) = {}
        BY <3>1, GrantNone
      <3>3. QED
        BY <2>1, <3>1, <3>2 DEF Init, Grants, Dues, Sold, NoHold
    <2>2. QED
      BY <2>1 DEF Ledger!Init, Grants, Dues, Sold
  <1>2. (Inv /\ SalesInv) /\ (Inv /\ SalesInv)' /\ [Next]_vars => [Ledger!Next]_(Ledger!ledger)
    BY LedgerStep DEF Inv
  <1>3. QED
    BY <1>1, <1>2, SalesInvariance, PTL DEF Spec, RefinesLedger, Ledger!Spec
=============================================================================

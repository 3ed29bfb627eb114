----------------------------- MODULE ReadsProofs -----------------------------
(***************************************************************************)
(* Proofs about Reads: the answers that are put together from several      *)
(* statements while the write path commits between them.                   *)
(***************************************************************************)
EXTENDS Reads, SalesProofs

\* What a reader can have got so far.
ReadRecord ==
    [is: {"none", "hold", "booking", "map"}, done: BOOLEAN, tok: HoldIds \cup {None},
     show: Showtimes \cup {None},
     status: {"none", "notFound", "held", "confirmed", "released", "expired"},
     total: Nat, seats: SUBSET SeatIds, sold: SUBSET SeatIds]

SoldUnder(h) == {s \in SeatIds : occ[h][s] = "confirmed"}

\* The first statement found the hold's row, and its showtime is still there.
FoundOK(r) == read[r].is \in {"hold", "booking"} /\ ~read[r].done =>
    /\ read[r].tok \in HoldIds
    /\ holds[read[r].tok].state # "absent"
    /\ read[r].show = holds[read[r].tok].show

\* What was seen confirmed is still confirmed, and a booking's total its own.
ConfirmedOK(r) == read[r].is \in {"hold", "booking"} /\ read[r].status = "confirmed" =>
    /\ read[r].tok \in HoldIds
    /\ holds[read[r].tok].state = "confirmed"
    /\ read[r].is = "booking" \/ read[r].done =>
         \E b \in bookings : b.hold = read[r].tok /\ b.total = read[r].total
    /\ read[r].done => read[r].seats = SoldUnder(read[r].tok)

\* What a seat map showed sold is sold.
MapOK(r) == read[r].is = "map" =>
    /\ read[r].show \in Showtimes
    /\ \A s \in read[r].sold : \E h \in HoldsOf(read[r].show) : occ[h][s] = "confirmed"

\* The inductive invariant: a first statement's answer cannot be taken back by
\* a writer that commits before the second.
ReadInv ==
    /\ read \in [Readers -> ReadRecord]
    /\ \A r \in Readers : FoundOK(r) /\ ConfirmedOK(r) /\ MapOK(r)
-----------------------------------------------------------------------------
(* What writers leave alone                                                *)

\* A write never takes back a hold's showtime, a confirmation or a sale.
LEMMA WritesKeep ==
    ASSUME Inv, SalesInv, [Next]_vars
    PROVE  /\ bookings \subseteq bookings'
           /\ \A h \in HoldIds : holds[h].state # "absent" =>
                /\ holds'[h].state # "absent" /\ holds'[h].show = holds[h].show
                /\ holds[h].state = "confirmed" =>
                     holds'[h].state = "confirmed" /\ SoldUnder(h)' = SoldUnder(h)
  <1>1. CASE UNCHANGED <<holds, occ, bookings>>
    BY <1>1 DEF SoldUnder
  <1>2. ASSUME NEW p \in Procs, Commit(p)
        PROVE  /\ bookings \subseteq bookings'
               /\ \A h \in HoldIds : holds[h].state # "absent" =>
                    /\ holds'[h].state # "absent" /\ holds'[h].show = holds[h].show
                    /\ holds[h].state = "confirmed" =>
                         holds'[h].state = "confirmed" /\ SoldUnder(h)' = SoldUnder(h)
    <2>0. pc[p] = "commit" /\ InTx(p) /\ ProcOK(p)
      BY <1>2 DEF Commit, Inv, InTx
    <2>1. bookings \subseteq bookings'
      BY <1>2 DEF Commit
    <2>2. ASSUME NEW h \in HoldIds, holds[h].state # "absent"
          PROVE  holds'[h].state # "absent" /\ holds'[h].show = holds[h].show
      <3>1. CASE req[p].kind = "sweep" \/ h # req[p].tok
        BY <1>2, <2>2, <3>1, CommitRows
      <3>2. CASE req[p].kind # "sweep" /\ h = req[p].tok
        BY <1>2, <2>2, <3>2, CommitHold
      <3>3. QED
        BY <3>1, <3>2
    <2>3. ASSUME NEW h \in HoldIds, holds[h].state = "confirmed"
          PROVE  holds'[h].state = "confirmed"
      <3>1. CASE req[p].kind = "sweep" \/ h # req[p].tok
        BY <1>2, <2>3, <3>1, CommitRows
      <3>2. CASE req[p].kind # "sweep" /\ h = req[p].tok
        <4>1. req[p].kind = "confirm"
          BY <2>0, <2>3, <3>2 DEF ProcOK, RequestOK, Inv, TypeOK, Requests, Kinds
        <4>2. QED
          BY <1>2, <3>2, <4>1, CommitHold
      <3>3. QED
        BY <3>1, <3>2
    <2>4. ASSUME NEW h \in HoldIds, holds[h].state = "confirmed"
          PROVE  SoldUnder(h)' = SoldUnder(h)
      <3>1. \A s \in SeatIds : occ[h][s] # "claimed"
        BY <2>4 DEF SalesInv, BookedIffConfirmed, Unreleased
      <3>2. \A s \in SeatIds : occ[h][s] = "confirmed" => occ'[h][s] = "confirmed"
        <4>1. ASSUME NEW s \in SeatIds, occ[h][s] = "confirmed" PROVE occ'[h][s] = "confirmed"
          <5>1. <<h, s>> \notin tx[p].freed
            BY <2>0, <3>1 DEF ProcOK, FreedOK
          <5>2. h = req[p].tok => s \notin tx[p].claims
            <6>1. CASE tx[p].claims = {}
              BY <6>1
            <6>2. CASE tx[p].claims # {}
              BY <2>0, <2>4, <6>2 DEF ProcOK, StageOK, RequestOK
            <6>3. QED
              BY <6>1, <6>2
          <5>3. \/ occ'[h][s] = occ[h][s]
                \/ <<h, s>> \in tx[p].freed
                \/ h = req[p].tok /\ s \in tx[p].claims
                \/ occ'[h][s] = "confirmed"
            BY <1>2, CommitRows
          <5>4. QED
            BY <4>1, <5>1, <5>2, <5>3
        <4>2. QED
          BY <4>1
      <3>3. \A s \in SeatIds : occ'[h][s] = "confirmed" => occ[h][s] = "confirmed"
        <4>1. ASSUME NEW s \in SeatIds, occ'[h][s] = "confirmed" PROVE occ[h][s] = "confirmed"
          <5>1. ~(h = req[p].tok /\ s \in tx[p].sold)
            BY <2>0, <3>1 DEF ProcOK, SoldOK
          <5>2. \/ occ'[h][s] = occ[h][s]
                \/ occ'[h][s] \in {"released", "claimed"}
                \/ h = req[p].tok /\ s \in tx[p].sold
            BY <1>2, CommitRows
          <5>3. QED
            BY <4>1, <5>1, <5>2
        <4>2. QED
          BY <4>1
      <3>4. QED
        BY <3>2, <3>3 DEF SoldUnder
    <2>5. QED
      BY <2>1, <2>2, <2>3, <2>4
  <1>3. CASE Tick
    BY <1>1, <1>3 DEF Tick
  <1>4. Next => UNCHANGED <<holds, occ, bookings>> \/ Tick \/ \E p \in Procs : Commit(p)
    BY LedgerQuiet, OnlyCommitWrites
  <1>5. CASE UNCHANGED vars
    BY <1>1, <1>5 DEF vars
  <1>6. QED
    BY <1>1, <1>2, <1>3, <1>4, <1>5

\* A write step disturbs nothing a reader relies on.
LEMMA ReadWrite ==
    ASSUME Inv, SalesInv, ReadInv, [Next]_vars, UNCHANGED read
    PROVE  ReadInv'
  <1>1. read' \in [Readers -> ReadRecord]
    BY DEF ReadInv
  <1>2. ASSUME NEW r \in Readers PROVE (FoundOK(r) /\ ConfirmedOK(r) /\ MapOK(r))'
    <2>0. FoundOK(r) /\ ConfirmedOK(r) /\ MapOK(r) /\ read'[r] = read[r]
      BY DEF ReadInv
    <2>1. FoundOK(r)'
      BY <2>0, WritesKeep DEF FoundOK
    <2>2. ConfirmedOK(r)'
      <3>1. SUFFICES ASSUME read[r].is \in {"hold", "booking"}, read[r].status = "confirmed"
                     PROVE  ConfirmedOK(r)'
        BY <2>0 DEF ConfirmedOK
      <3>2. PICK h \in HoldIds : h = read[r].tok /\ holds[h].state = "confirmed"
        BY <2>0, <3>1 DEF ConfirmedOK
      <3>3. holds'[h].state = "confirmed" /\ SoldUnder(h)' = SoldUnder(h)
        BY <3>2, WritesKeep
      <3>4. bookings \subseteq bookings'
        BY WritesKeep
      <3>5. read[r].done => read[r].seats = SoldUnder(h)
        BY <2>0, <3>1, <3>2 DEF ConfirmedOK
      <3>6. read[r].is = "booking" \/ read[r].done =>
              \E b \in bookings' : b.hold = read[r].tok /\ b.total = read[r].total
        BY <2>0, <3>1, <3>4 DEF ConfirmedOK
      <3>7. read'[r].done => read'[r].seats = SoldUnder(read[r].tok)'
        BY <2>0, <3>2, <3>3, <3>5 DEF SoldUnder
      <3>8. QED
        BY <2>0, <3>2, <3>3, <3>6, <3>7 DEF ConfirmedOK
    <2>3. MapOK(r)'
      <3>1. SUFFICES ASSUME read[r].is = "map" PROVE MapOK(r)'
        BY <2>0 DEF MapOK
      <3>2. ASSUME NEW s \in read[r].sold
            PROVE  \E h \in HoldsOf(read[r].show)' : occ'[h][s] = "confirmed"
        <4>1. PICK h \in HoldsOf(read[r].show) : occ[h][s] = "confirmed"
          BY <2>0, <3>1 DEF MapOK
        <4>2. h \in HoldIds /\ holds[h].show = read[r].show /\ s \in SeatIds
          BY <4>1 DEF HoldsOf, ReadInv, ReadRecord
        <4>3. holds[h].state = "confirmed" /\ holds[h].state # "absent"
          BY <4>1, <4>2 DEF SalesInv, BookedIffConfirmed
        <4>4. holds'[h].show = holds[h].show /\ SoldUnder(h)' = SoldUnder(h)
          BY <4>2, <4>3, WritesKeep
        <4>5. occ'[h][s] = "confirmed"
          BY <4>1, <4>2, <4>4 DEF SoldUnder
        <4>6. h \in HoldsOf(read[r].show)'
          BY <2>0, <4>2, <4>4 DEF HoldsOf
        <4>7. QED
          BY <4>5, <4>6
      <3>3. QED
        BY <2>0, <3>1, <3>2 DEF MapOK
    <2>4. QED
      BY <2>1, <2>2, <2>3
  <1>3. QED
    BY <1>1, <1>2 DEF ReadInv

\* A statement changes what its own reader has got and nothing else.
LEMMA ReadOne ==
    ASSUME ReadInv, NEW r \in Readers, NEW v \in ReadRecord, Gets(r, v),
           (FoundOK(r) /\ ConfirmedOK(r) /\ MapOK(r))'
    PROVE  ReadInv'
  <1>1. read' = [read EXCEPT ![r] = v] /\ holds' = holds /\ occ' = occ /\ bookings' = bookings
    BY DEF Gets, vars
  <1>2. read' \in [Readers -> ReadRecord]
    BY <1>1 DEF ReadInv
  <1>3. ASSUME NEW q \in Readers, q # r PROVE (FoundOK(q) /\ ConfirmedOK(q) /\ MapOK(q))'
    <2>1. read'[q] = read[q] /\ FoundOK(q) /\ ConfirmedOK(q) /\ MapOK(q)
      BY <1>1, <1>3 DEF ReadInv
    <2>2. QED
      BY <1>1, <2>1 DEF FoundOK, ConfirmedOK, MapOK, SoldUnder, HoldsOf
  <1>4. QED
    BY <1>2, <1>3 DEF ReadInv
-----------------------------------------------------------------------------
(* The statements of the reads                                             *)

\* The price of the seats of a confirmed hold is the total of its booking.
LEMMA SoldIsPaid ==
    ASSUME Inv, SalesInv, NEW h \in HoldIds, holds[h].state = "confirmed"
    PROVE  /\ Unreleased(h) = SoldUnder(h) /\ SoldUnder(h) # {}
           /\ \E b \in bookings : b.hold = h /\ b.show = holds[h].show
                /\ b.total = PriceMinor[holds[h].show] * Cardinality(Unreleased(h))
  BY DEF SalesInv, BookedIffConfirmed, SoldUnder

\* GetHold's first statement.
LEMMA ReadHold ==
    ASSUME Inv, SalesInv, ReadInv, NEW r \in Readers, GetHold(r)
    PROVE  ReadInv'
  <1>1. PICK h \in HoldIds :
          Gets(r, [NoRead EXCEPT !.is = "hold", !.tok = h, !.show = holds[h].show,
                                 !.status = HoldStatus(h), !.done = HoldStatus(h) = "notFound"])
    BY DEF GetHold
  <1>v. PICK v : v = [NoRead EXCEPT !.is = "hold", !.tok = h, !.show = holds[h].show,
                                 !.status = HoldStatus(h), !.done = HoldStatus(h) = "notFound"]
    OBVIOUS
  <1>2. holds[h] \in HoldRow
    BY DEF Inv, TypeOK
  <1>3. /\ HoldStatus(h) \in {"notFound", "held", "confirmed", "released", "expired"}
        /\ HoldStatus(h) = "notFound" <=> holds[h].state = "absent"
        /\ HoldStatus(h) = "confirmed" <=> holds[h].state = "confirmed"
    BY <1>2 DEF HoldStatus, HoldRow, HoldStates
  <1>4. /\ v.is = "hold" /\ v.tok = h /\ v.show = holds[h].show /\ v.status = HoldStatus(h)
        /\ v.done = (HoldStatus(h) = "notFound") /\ v.total = 0 /\ v.seats = {} /\ v.sold = {}
    BY <1>v DEF NoRead
  <1>5. v \in ReadRecord
    BY <1>v, <1>2, <1>3 DEF ReadRecord, NoRead, HoldRow
  <1>6. read'[r] = v /\ holds' = holds
    BY <1>1, <1>v DEF Gets, vars, ReadInv
  <1>7. (FoundOK(r) /\ ConfirmedOK(r) /\ MapOK(r))'
    BY <1>3, <1>4, <1>6 DEF FoundOK, ConfirmedOK, MapOK
  <1>8. QED
    BY <1>1, <1>v, <1>5, <1>7, ReadOne

\* GetHold's second statement: the price of what it finds is the booking's
\* total, if the first one found the hold confirmed.
LEMMA ReadHoldSeats ==
    ASSUME Inv, SalesInv, ReadInv, NEW r \in Readers, HoldSeats(r)
    PROVE  ReadInv'
  <1>0. read[r].is = "hold" /\ ~read[r].done /\ read[r] \in ReadRecord /\ ConfirmedOK(r)
    BY DEF HoldSeats, ReadInv
  <1>1. PICK h \in HoldIds : h = read[r].tok /\ read[r].show = holds[h].show /\ holds[h].state # "absent"
    BY <1>0 DEF ReadInv, FoundOK
  <1>2. PICK v : v = [read[r] EXCEPT !.seats = Unreleased(h), !.done = TRUE,
                        !.total = PriceMinor[holds[h].show] * Cardinality(Unreleased(h))]
    OBVIOUS
  <1>3. Gets(r, v)
    BY <1>1, <1>2 DEF HoldSeats, GetHoldSeats
  <1>4. PriceMinor[holds[h].show] * Cardinality(Unreleased(h)) \in Nat
    <2>1. holds[h].show \in Catalog
      BY <1>1 DEF Inv, HoldRowsOK
    <2>2. PriceMinor[holds[h].show] \in Nat
      BY <2>1, CatalogAssumption
    <2>3. Cardinality(Unreleased(h)) \in Nat
      BY FiniteAssumption, FS_Subset, FS_CardinalityType DEF Unreleased
    <2>4. QED
      BY <2>2, <2>3
  <1>5. /\ v.is = "hold" /\ v.tok = h /\ v.status = read[r].status /\ v.done = TRUE
        /\ v.total = PriceMinor[holds[h].show] * Cardinality(Unreleased(h))
        /\ v.seats = Unreleased(h)
    BY <1>0, <1>1, <1>2 DEF ReadRecord
  <1>6. v \in ReadRecord
    BY <1>0, <1>2, <1>4 DEF ReadRecord, Unreleased
  <1>7. read'[r] = v /\ holds' = holds /\ occ' = occ /\ bookings' = bookings
    BY <1>3 DEF Gets, vars, ReadInv
  <1>8. ConfirmedOK(r)'
    <2>1. SUFFICES ASSUME read[r].status = "confirmed" PROVE ConfirmedOK(r)'
      BY <1>5, <1>7 DEF ConfirmedOK
    <2>2. holds[h].state = "confirmed"
      BY <1>0, <1>1, <2>1 DEF ConfirmedOK
    <2>3. Unreleased(h) = SoldUnder(h) /\ \E b \in bookings : b.hold = h /\ b.total = v.total
      BY <1>5, <2>2, SoldIsPaid
    <2>4. read'[r].seats = SoldUnder(read[r].tok)'
      BY <1>5, <1>7, <2>3 DEF SoldUnder
    <2>5. QED
      BY <1>5, <1>7, <2>2, <2>3, <2>4 DEF ConfirmedOK
  <1>9. FoundOK(r)' /\ MapOK(r)'
    BY <1>5, <1>7 DEF FoundOK, MapOK
  <1>10. QED
    BY <1>3, <1>6, <1>8, <1>9, ReadOne

\* GetBooking's first statement.
LEMMA ReadBooking ==
    ASSUME Inv, SalesInv, ReadInv, NEW r \in Readers, GetBooking(r)
    PROVE  ReadInv'
  <1>1. CASE Gets(r, [NoRead EXCEPT !.is = "booking", !.status = "notFound"])
    <2>1. PICK v : v = [NoRead EXCEPT !.is = "booking", !.status = "notFound"]
      OBVIOUS
    <2>2. v \in ReadRecord /\ v.done = TRUE /\ v.status = "notFound" /\ v.is = "booking"
      BY <2>1 DEF NoRead, ReadRecord
    <2>3. read'[r] = v
      BY <1>1, <2>1 DEF Gets, ReadInv
    <2>4. (FoundOK(r) /\ ConfirmedOK(r) /\ MapOK(r))'
      BY <2>2, <2>3 DEF FoundOK, ConfirmedOK, MapOK
    <2>5. QED
      BY <1>1, <2>1, <2>2, <2>4, ReadOne
  <1>2. ASSUME NEW b \in bookings,
               Gets(r, [NoRead EXCEPT !.is = "booking", !.tok = b.hold, !.show = b.show,
                                      !.total = b.total, !.status = "confirmed", !.done = FALSE])
        PROVE  ReadInv'
    <2>1. PICK v : v = [NoRead EXCEPT !.is = "booking", !.tok = b.hold, !.show = b.show,
                                      !.total = b.total, !.status = "confirmed", !.done = FALSE]
      OBVIOUS
    <2>2. b.hold \in HoldIds /\ b.show \in Catalog /\ b.total \in Nat
      BY DEF Inv, TypeOK, Bookings
    <2>3. /\ v.is = "booking" /\ v.tok = b.hold /\ v.show = b.show /\ v.total = b.total
          /\ v.status = "confirmed" /\ v.done = FALSE
      BY <2>1 DEF NoRead
    <2>4. v \in ReadRecord
      BY <2>1, <2>2, CatalogAssumption DEF NoRead, ReadRecord
    <2>5. read'[r] = v /\ holds' = holds /\ bookings' = bookings
      BY <1>2, <2>1 DEF Gets, vars, ReadInv
    <2>6. holds[b.hold].state = "confirmed" /\ holds[b.hold].show = b.show
      <3>1. b \in {c \in bookings : c.hold = b.hold}
        OBVIOUS
      <3>2. holds[b.hold].state = "confirmed"
        BY <2>2, <3>1 DEF SalesInv, BookedIffConfirmed
      <3>3. \E c \in bookings : c.show = holds[b.hold].show /\ {d \in bookings : d.hold = b.hold} = {c}
        BY <2>2, <3>2 DEF SalesInv, BookedIffConfirmed
      <3>4. QED
        BY <3>1, <3>2, <3>3
    <2>7. (FoundOK(r) /\ ConfirmedOK(r) /\ MapOK(r))'
      BY <2>2, <2>3, <2>5, <2>6 DEF FoundOK, ConfirmedOK, MapOK
    <2>8. QED
      BY <1>2, <2>1, <2>4, <2>7, ReadOne
  <1>3. QED
    BY <1>1, <1>2 DEF GetBooking, GetBookingByRef

\* GetBooking's second statement: between the two, no writer can have changed
\* which seats are sold.
LEMMA ReadBookingSeats ==
    ASSUME Inv, SalesInv, ReadInv, NEW r \in Readers, BookingSeats(r)
    PROVE  ReadInv'
  <1>0. read[r].is = "booking" /\ ~read[r].done /\ read[r] \in ReadRecord /\ ConfirmedOK(r)
    BY DEF BookingSeats, ReadInv
  <1>1. PICK h \in HoldIds : h = read[r].tok
    BY <1>0 DEF ReadInv, FoundOK
  <1>2. PICK v : v = [read[r] EXCEPT !.seats = Unreleased(h), !.done = TRUE]
    OBVIOUS
  <1>3. Gets(r, v)
    BY <1>1, <1>2 DEF BookingSeats, GetHoldSeats
  <1>4. /\ v.is = "booking" /\ v.tok = h /\ v.status = read[r].status /\ v.done = TRUE
        /\ v.total = read[r].total /\ v.seats = Unreleased(h)
    BY <1>0, <1>1, <1>2 DEF ReadRecord
  <1>5. v \in ReadRecord
    BY <1>0, <1>2 DEF ReadRecord, Unreleased
  <1>6. read'[r] = v /\ holds' = holds /\ occ' = occ /\ bookings' = bookings
    BY <1>3 DEF Gets, vars, ReadInv
  <1>7. ConfirmedOK(r)'
    <2>1. SUFFICES ASSUME read[r].status = "confirmed" PROVE ConfirmedOK(r)'
      BY <1>4, <1>6 DEF ConfirmedOK
    <2>2. holds[h].state = "confirmed" /\ \E b \in bookings : b.hold = h /\ b.total = v.total
      BY <1>0, <1>1, <1>4, <2>1 DEF ConfirmedOK
    <2>3. read'[r].seats = SoldUnder(read[r].tok)'
      BY <1>4, <1>6, <2>2, SoldIsPaid DEF SoldUnder
    <2>4. QED
      BY <1>4, <1>6, <2>2, <2>3 DEF ConfirmedOK
  <1>8. FoundOK(r)' /\ MapOK(r)'
    BY <1>4, <1>6 DEF FoundOK, MapOK
  <1>9. QED
    BY <1>3, <1>5, <1>7, <1>8, ReadOne

\* The seat map's sold seats are those of confirmed rows, whatever the clock.
LEMMA SoldSeatsAre ==
    ASSUME NEW st
    PROVE  SoldSeats(st) = {s \in SeatIds : \E h \in HoldsOf(st) : occ[h][s] = "confirmed"}
  BY DEF SoldSeats, Live, HoldsOf, Unreleased

\* SeatMap, one statement.
LEMMA ReadMap ==
    ASSUME Inv, SalesInv, ReadInv, NEW r \in Readers, SeatMap(r)
    PROVE  /\ ReadInv'
           /\ read'[r].sold = {s \in SeatIds :
                                 \E h \in HoldsOf(read'[r].show) : occ[h][s] = "confirmed"}
  <1>1. PICK st \in Showtimes :
          Gets(r, IF st \notin Catalog
                  THEN [NoRead EXCEPT !.is = "map", !.show = st, !.status = "notFound"]
                  ELSE [NoRead EXCEPT !.is = "map", !.show = st,
                                      !.seats = TakenSeats(st), !.sold = SoldSeats(st)])
    BY DEF SeatMap
  <1>2. PICK v : v = IF st \notin Catalog
                  THEN [NoRead EXCEPT !.is = "map", !.show = st, !.status = "notFound"]
                  ELSE [NoRead EXCEPT !.is = "map", !.show = st,
                                      !.seats = TakenSeats(st), !.sold = SoldSeats(st)]
    OBVIOUS
  <1>3. Gets(r, v)
    BY <1>1, <1>2
  <1>4. v.is = "map" /\ v.show = st /\ v.done = TRUE
    BY <1>2 DEF NoRead
  <1>5. v.sold = {s \in SeatIds : \E h \in HoldsOf(st) : occ[h][s] = "confirmed"}
    <2>1. CASE st \in Catalog
      BY <1>2, <2>1, SoldSeatsAre DEF NoRead
    <2>2. CASE st \notin Catalog
      <3>1. HoldsOf(st) = {}
        BY <2>2, InputAssumption DEF HoldsOf, Inv, HoldRowsOK
      <3>2. v.sold = {}
        BY <1>2, <2>2 DEF NoRead
      <3>3. QED
        BY <3>1, <3>2
    <2>3. QED
      BY <2>1, <2>2
  <1>6. v \in ReadRecord
    <2>1. TakenSeats(st) \subseteq SeatIds /\ SoldSeats(st) \subseteq SeatIds
      BY DEF TakenSeats, SoldSeats
    <2>2. QED
      BY <1>2, <2>1 DEF NoRead, ReadRecord
  <1>7. read'[r] = v /\ holds' = holds /\ occ' = occ
    BY <1>3 DEF Gets, vars, ReadInv
  <1>8. MapOK(r)'
    BY <1>4, <1>5, <1>7 DEF MapOK, HoldsOf
  <1>9. (FoundOK(r) /\ ConfirmedOK(r))'
    BY <1>4, <1>7 DEF FoundOK, ConfirmedOK
  <1>10. QED
    BY <1>3, <1>4, <1>5, <1>6, <1>7, <1>8, <1>9, ReadOne
-----------------------------------------------------------------------------
(* Theorems                                                                *)

\* The write path of ReadSpec is that of Spec.
LEMMA ReadsOnlyRead == ReadSpec => Spec
  <1>1. ReadInit => Init
    BY DEF ReadInit
  <1>2. [ReadNext]_<<vars, read>> => [Next]_vars
    BY DEF ReadNext, GetHold, HoldSeats, GetBooking, BookingSeats, SeatMap, Gets
  <1>3. QED
    BY <1>1, <1>2, PTL DEF ReadSpec, Spec

LEMMA ReadInvariance == ReadSpec => [](Inv /\ SalesInv /\ ReadInv)
  <1>1. ReadInit => ReadInv
    <2>1. ASSUME ReadInit PROVE ReadInv
      <3>1. NoRead \in ReadRecord
        BY DEF NoRead, ReadRecord
      <3>2. read \in [Readers -> ReadRecord] /\ \A r \in Readers : read[r] = NoRead
        BY <2>1, <3>1 DEF ReadInit
      <3>3. QED
        BY <3>2 DEF ReadInv, FoundOK, ConfirmedOK, MapOK, NoRead
    <2>2. QED
      BY <2>1
  <1>2. ASSUME Inv, SalesInv, ReadInv, [ReadNext]_<<vars, read>> PROVE ReadInv'
    <2>1. CASE Next /\ UNCHANGED read
      BY <1>2, <2>1, ReadWrite
    <2>2. CASE UNCHANGED <<vars, read>>
      BY <1>2, <2>2, ReadWrite
    <2>3. ASSUME NEW r \in Readers,
                 GetHold(r) \/ HoldSeats(r) \/ GetBooking(r) \/ BookingSeats(r) \/ SeatMap(r)
          PROVE  ReadInv'
      BY <1>2, <2>3, ReadHold, ReadHoldSeats, ReadBooking, ReadBookingSeats, ReadMap
    <2>4. QED
      BY <1>2, <2>1, <2>2, <2>3 DEF ReadNext
  <1>3. Inv /\ SalesInv /\ ReadInv /\ [ReadNext]_<<vars, read>> => ReadInv'
    BY <1>2
  <1>4. QED
    BY <1>1, <1>3, ReadsOnlyRead, SalesInvariance, PTL DEF ReadSpec

\* However many writers commit between the statements of GetHold or
\* GetBooking, what they answer about a sale is the whole sale.
THEOREM PaidReadsStayWhole == ReadSpec => []PaidReadsAreWhole
  <1>1. ASSUME Inv, SalesInv, ReadInv PROVE PaidReadsAreWhole
    <2>1. SUFFICES ASSUME NEW r \in Readers, read[r].is \in {"hold", "booking"},
                          read[r].done, read[r].status = "confirmed"
                   PROVE  /\ read[r].seats # {}
                          /\ read[r].seats = SoldUnder(read[r].tok)
                          /\ \E b \in bookings : b.hold = read[r].tok /\ b.total = read[r].total
      BY DEF PaidReadsAreWhole, SoldUnder
    <2>2. ConfirmedOK(r)
      BY <1>1 DEF ReadInv
    <2>3. QED
      BY <1>1, <2>1, <2>2, SoldIsPaid DEF ConfirmedOK
  <1>2. Inv /\ SalesInv /\ ReadInv => PaidReadsAreWhole
    BY <1>1
  <1>3. QED
    BY <1>2, ReadInvariance, PTL

\* A seat that a reader's seat map showed sold is sold in its next one.
THEOREM SoldStaysSold == ReadSpec => SoldNeverReturns
  <1> DEFINE Kept(r) == /\ read[r].is = "map" /\ read'[r].is = "map"
                        /\ read[r].show = read'[r].show
                        => read[r].sold \subseteq read'[r].sold
  <1>1. ASSUME Inv, SalesInv, ReadInv, ReadNext, NEW r \in Readers PROVE Kept(r)
    <2>1. CASE read'[r] = read[r]
      BY <2>1
    <2>2. CASE SeatMap(r)
      <3>1. SUFFICES ASSUME read[r].is = "map", read[r].show = read'[r].show,
                            NEW s \in read[r].sold
                     PROVE  s \in read'[r].sold
        OBVIOUS
      <3>2. s \in SeatIds /\ \E h \in HoldsOf(read[r].show) : occ[h][s] = "confirmed"
        BY <1>1, <3>1 DEF ReadInv, ReadRecord, MapOK
      <3>3. read'[r].sold = {u \in SeatIds :
                               \E h \in HoldsOf(read'[r].show) : occ[h][u] = "confirmed"}
        BY <1>1, <2>2, ReadMap
      <3>4. QED
        BY <3>1, <3>2, <3>3
    <2>3. CASE GetHold(r) \/ GetBooking(r)
      <3>1. read \in [Readers -> ReadRecord]
        BY <1>1 DEF ReadInv
      <3>2. GetHold(r) => read'[r].is = "hold"
        BY <3>1 DEF GetHold, Gets, NoRead
      <3>3. GetBooking(r) => read'[r].is = "booking"
        BY <3>1 DEF GetBooking, Gets, NoRead
      <3>4. QED
        BY <2>3, <3>2, <3>3
    <2>4. CASE HoldSeats(r) \/ BookingSeats(r)
      BY <2>4 DEF HoldSeats, BookingSeats
    <2>5. ASSUME NEW q \in Readers, q # r, GetHold(q) \/ HoldSeats(q) \/ GetBooking(q)
                   \/ BookingSeats(q) \/ SeatMap(q)
          PROVE  read'[r] = read[r]
      <3>1. PICK v : read' = [read EXCEPT ![q] = v]
        BY <2>5 DEF GetHold, HoldSeats, GetBooking, BookingSeats, SeatMap, Gets
      <3>2. QED
        BY <1>1, <2>5, <3>1 DEF ReadInv
    <2> HIDE DEF Kept
    <2>6. QED
      BY <1>1, <2>1, <2>2, <2>3, <2>4, <2>5 DEF ReadNext
  <1>2. ASSUME Inv, SalesInv, ReadInv, [ReadNext]_<<vars, read>>
        PROVE  [\A r \in Readers : Kept(r)]_<<vars, read>>
    BY <1>1, <1>2
  <1>3. Inv /\ SalesInv /\ ReadInv /\ [ReadNext]_<<vars, read>>
          => [\A r \in Readers : Kept(r)]_<<vars, read>>
    BY <1>2
  <1>4. QED
    BY <1>3, ReadInvariance, PTL DEF ReadSpec, SoldNeverReturns
=============================================================================

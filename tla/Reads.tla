-------------------------------- MODULE Reads --------------------------------
(***************************************************************************)
(* The reads of the booking service, composed with its write path.  GetHold *)
(* and GetBooking run several statements without a transaction, so each of *)
(* them sees the rows committed when it ran, and writers commit between    *)
(* them.  SeatMap is one statement.  GetShowtime reads columns that nothing *)
(* writes and is no step of its own.                                       *)
(***************************************************************************)
EXTENDS Booking

CONSTANT Readers   \* goroutines serving GET requests

VARIABLE read      \* read[r]: what the reader has got so far

NoRead == [is |-> "none", done |-> TRUE, tok |-> None, show |-> None, status |-> "none",
           total |-> 0, seats |-> {}, sold |-> {}]

Gets(r, v) ==
    /\ read' = [read EXCEPT ![r] = v]
    /\ UNCHANGED vars

\* GetHoldByToken: its live column, by the clock of the statement.
LiveHold(h) ==
    /\ holds[h].state # "released"
    /\ holds[h].state = "confirmed" \/ holds[h].expires > now

HoldStatus(h) ==
    CASE holds[h].state = "absent"    -> "notFound"
      [] holds[h].state = "released"  -> "released"
      [] holds[h].state = "confirmed" -> "confirmed"
      [] OTHER -> IF LiveHold(h) THEN "held" ELSE "expired"

\* GetHold: GetHoldByToken, then GetHoldSeats; the total is that of the seats
\* the second statement found.
GetHold(r) ==
    /\ read[r].done
    /\ \E h \in HoldIds :
         Gets(r, [NoRead EXCEPT !.is = "hold", !.tok = h, !.show = holds[h].show,
                                !.status = HoldStatus(h), !.done = HoldStatus(h) = "notFound"])

\* Mutant: the seats are read through the hold's own expiry.
BadGetHoldSeats(h) == {s \in Unreleased(h) : holds[h].expires > now}

GetHoldSeats(h) == Unreleased(h)

HoldSeats(r) ==
    /\ read[r].is = "hold" /\ ~read[r].done
    /\ LET seats == GetHoldSeats(read[r].tok)
       IN  Gets(r, [read[r] EXCEPT !.seats = seats, !.done = TRUE,
                                   !.total = PriceMinor[read[r].show] * Cardinality(seats)])

GetBookingByRef(ref) == {b \in bookings : b.ref = ref}

\* GetBooking: GetBookingByRef, then GetHoldSeats.
GetBooking(r) ==
    /\ read[r].done
    /\ \E ref \in Refs :
         \/ /\ GetBookingByRef(ref) = {}
            /\ Gets(r, [NoRead EXCEPT !.is = "booking", !.status = "notFound"])
         \/ \E b \in GetBookingByRef(ref) :
              Gets(r, [NoRead EXCEPT !.is = "booking", !.tok = b.hold, !.show = b.show,
                                     !.total = b.total, !.status = "confirmed", !.done = FALSE])

BookingSeats(r) ==
    /\ read[r].is = "booking" /\ ~read[r].done
    /\ Gets(r, [read[r] EXCEPT !.seats = GetHoldSeats(read[r].tok), !.done = TRUE])

\* Mutant: the live view forgets that a sold seat does not expire.
BadSoldSeats(st) ==
    {s \in SeatIds : \E h \in HoldsOf(st) : occ[h][s] = "confirmed" /\ holds[h].expires > now}

\* GetSeatMap: what is sold, and what is taken at all.
SoldSeats(st) ==
    {s \in SeatIds : \E h \in HoldsOf(st) : Live(h, s, now) /\ occ[h][s] = "confirmed"}
TakenSeats(st) == {s \in SeatIds : \E h \in HoldsOf(st) : Live(h, s, now)}

SeatMap(r) ==
    /\ read[r].done
    /\ \E st \in Showtimes :
         Gets(r, IF st \notin Catalog
                 THEN [NoRead EXCEPT !.is = "map", !.show = st, !.status = "notFound"]
                 ELSE [NoRead EXCEPT !.is = "map", !.show = st,
                                     !.seats = TakenSeats(st), !.sold = SoldSeats(st)])

ReadInit == Init /\ read = [r \in Readers |-> NoRead]

ReadNext ==
    \/ Next /\ UNCHANGED read
    \/ \E r \in Readers :
         GetHold(r) \/ HoldSeats(r) \/ GetBooking(r) \/ BookingSeats(r) \/ SeatMap(r)

ReadSpec == ReadInit /\ [][ReadNext]_<<vars, read>>

-----------------------------------------------------------------------------
(* Properties                                                              *)

\* What was paid for is reported whole: however many writers commit between
\* its statements, an answer that says confirmed lists exactly the seats that
\* are sold under the hold, and their total is the one in the booking.
PaidReadsAreWhole ==
    \A r \in Readers :
        read[r].is \in {"hold", "booking"} /\ read[r].done /\ read[r].status = "confirmed" =>
            /\ read[r].seats # {}
            /\ read[r].seats = {s \in SeatIds : occ[read[r].tok][s] = "confirmed"}
            /\ \E b \in bookings : b.hold = read[r].tok /\ b.total = read[r].total

\* A seat that one seat map showed sold is sold in every later one.
SoldNeverReturns ==
    [][\A r \in Readers :
         /\ read[r].is = "map" /\ read'[r].is = "map"
         /\ read[r].show = read'[r].show
         => read[r].sold \subseteq read'[r].sold]_<<vars, read>>

\* hold.go: "No lock, so this is a snapshot rather than an authority."  A
\* snapshot of a live hold lists its seats.
HeldReadsAreWhole ==
    \A r \in Readers :
        read[r].is = "hold" /\ read[r].done /\ read[r].status = "held" => read[r].seats # {}
=============================================================================

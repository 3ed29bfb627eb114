------------------------------ MODULE MCBooking ------------------------------
(* Constants for model checking Booking; each .cfg picks the ones it needs. *)
EXTENDS BookingInv, TLC

\* One auditorium with two seats and one showtime on sale in it.
OneShow      == {1}
TwoSeats     == {1, 2}
SeatsOfOne   == (1 :> {1, 2})
PriceOfOne   == (1 :> 3)
PlainLists   == {<<1>>, <<1, 2>>}

\* Showtimes 1 and 2 are on sale, 3 is closed for sales and 4 is unknown; seat
\* 2 does not belong to the auditorium of showtime 1.
ManyShows    == 1 .. 4
KnownShows   == 1 .. 3
OpenShows    == 1 .. 2
SeatsOfMany  == [st \in 1 .. 3 |-> IF st = 1 THEN {1} ELSE {1, 2}]
PriceOfMany  == [st \in 1 .. 3 |-> 2 + st]
\* Empty, zero, doubled, too long; then two that pass normalizeSeats.
OddLists     == {<<>>, <<0>>, <<1, 1>>, <<1, 2>>, <<2>>, <<1>>}

HoldSymmetry == Permutations(HoldIds)
Symmetric    == Permutations(Clients) \cup Permutations(HoldIds)
AllSymmetric == Symmetric \cup Permutations(Keys) \cup Permutations(Refs)
=============================================================================

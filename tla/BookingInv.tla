------------------------------ MODULE BookingInv ------------------------------
(***************************************************************************)
(* The inductive invariants of Booking: what is true of every process at   *)
(* every point of its transaction, and strong enough that each step keeps  *)
(* them.  TLC checks them on small instances; BookingProofs proves the     *)
(* first, about seats and locks, and SalesProofs the second, about sales.  *)
(***************************************************************************)
EXTENDS Booking

\* The points at which a transaction has taken its showtime's lock.
Locked == {"body", "claim", "insert", "recheck", "commit"}

\* A transaction knows its showtime; a confirm or release is about a hold of
\* that showtime, a hold about a token that no hold has yet.
RequestOK(p) == InTx(p) =>
    /\ req[p].show \in Showtimes
    /\ req[p].kind # "sweep" => req[p].tok \in HoldIds
    /\ req[p].kind \in {"confirm", "release"} =>
         holds[req[p].tok].state # "absent" /\ holds[req[p].tok].show = req[p].show
    /\ req[p].kind = "release" /\ pc[p] = "commit" =>
         holds[req[p].tok].state # "confirmed"
    /\ req[p].kind = "hold" =>
         req[p].want # {} /\ holds[req[p].tok].state = "absent"

\* What a transaction may have written, by how far it has come.
StageOK(p) ==
    /\ pc[p] \in {"idle", "next", "begun", "body"} =>
         /\ tx[p].freed = {} /\ tx[p].claims = {} /\ tx[p].sold = {}
         /\ tx[p].ref = None /\ tx[p].tries = 0
    /\ pc[p] = "claim" => req[p].kind = "hold"
    /\ pc[p] \in {"insert", "recheck"} => req[p].kind = "confirm" /\ tx[p].ref = None
    /\ pc[p] = "insert" => tx[p].tries < RefAttempts
    /\ pc[p] = "commit" /\ req[p].kind = "hold" => tx[p].claims = req[p].want
    /\ tx[p].claims # {} => pc[p] = "commit" /\ req[p].kind = "hold"
    /\ tx[p].sold # {} \/ tx[p].ref # None => req[p].kind = "confirm"
    /\ tx[p].freed # {} => req[p].kind # "confirm"
    /\ tx[p].now <= now

\* Whoever has passed LockShowtime owns the lock of its showtime.
LockOK(p) == pc[p] \in Locked => lock[req[p].show] = p

\* The rows a transaction is about to release are held, not sold, and of its
\* showtime; they are its own hold's, or had lapsed when it began.
FreedOK(p) ==
    \A r \in tx[p].freed :
        /\ occ[r[1]][r[2]] = "claimed"
        /\ holds[r[1]].show = req[p].show
        /\ IF req[p].kind = "release" THEN r[1] = req[p].tok
           ELSE holds[r[1]].expires <= tx[p].now

\* The rows a confirm is about to sell are held by its hold.
SoldOK(p) == \A s \in tx[p].sold : occ[req[p].tok][s] = "claimed"

\* What a hold found out about its seats when it checked them is still so: they
\* are seats of a showtime on sale, and each row that occupies one of them is
\* a row the transaction itself reclaims.
CheckedOK(p) == pc[p] \in {"claim", "commit"} /\ req[p].kind = "hold" =>
    /\ req[p].show \in SalesOpen
    /\ req[p].want \subseteq SeatsOf[req[p].show]
    /\ \A h \in HoldsOf(req[p].show), s \in req[p].want :
         s \in Unreleased(h) => <<h, s>> \in tx[p].freed

ProcOK(p) ==
    RequestOK(p) /\ StageOK(p) /\ LockOK(p) /\ FreedOK(p) /\ SoldOK(p) /\ CheckedOK(p)

\* Two holds in progress have different tokens.
TokensDiffer ==
    \A p, q \in Procs :
        p # q /\ InTx(p) /\ InTx(q) /\ req[p].kind = "hold" /\ req[q].kind = "hold" =>
            req[p].tok # req[q].tok

\* A token no hold was committed for has no showtime and no rows; a hold is
\* for a showtime of the catalogue.
HoldRowsOK ==
    \A h \in HoldIds :
        IF holds[h].state = "absent"
        THEN holds[h].show = None /\ \A s \in SeatIds : occ[h][s] = "none"
        ELSE holds[h].show \in Catalog

\* The inductive invariant: no transaction's private view of its showtime goes
\* stale while it holds the lock.
Inv ==
    /\ TypeOK
    /\ HoldRowsOK
    /\ TokensDiffer
    /\ \A p \in Procs : ProcOK(p)
    /\ OneUnreleasedRow
    /\ NoSeatRaceLost
    /\ LiveHoldIsWhole
-----------------------------------------------------------------------------
(* Sales: the second inductive invariant, on top of the first.             *)

\* A confirm that has not been refused sells every seat its hold still has,
\* at least one, at their price.
PaidOK(p) == pc[p] \in {"insert", "recheck"} \/ tx[p].ref # None =>
    /\ holds[req[p].tok].state # "confirmed"
    /\ tx[p].sold = Unreleased(req[p].tok) /\ tx[p].sold # {}
    /\ tx[p].total = PriceMinor[req[p].show] * Cardinality(tx[p].sold)

\* A confirm without a reference to commit is the replay of a confirmed hold.
ReplayOK(p) == pc[p] = "commit" /\ req[p].kind = "confirm" /\ tx[p].ref = None =>
    holds[req[p].tok].state = "confirmed" /\ tx[p].sold = {}

\* A hold wants as many seats as normalizeSeats lets through, and reclaims
\* nothing else.
WantOK(p) == InTx(p) /\ req[p].kind = "hold" =>
    /\ Cardinality(req[p].want) \in 1 .. MaxSeatsPerHold
    /\ \A r \in tx[p].freed : r[2] \in req[p].want

\* A release gives back everything its hold has.
ReturnOK(p) == pc[p] = "commit" /\ req[p].kind = "release" =>
    \A s \in SeatIds : occ[req[p].tok][s] = "claimed" => <<req[p].tok, s>> \in tx[p].freed

\* No committed booking conflicts with one that is inserted and not committed.
InsertOK(p) == tx[p].ref # None =>
    \A b \in bookings : ~Conflict(BookingOf(p, tx[p].ref), b)

SaleOK(p) == PaidOK(p) /\ ReplayOK(p) /\ WantOK(p) /\ ReturnOK(p) /\ InsertOK(p)

\* Nor do two inserts that are not committed, of whichever showtimes.
InsertsDiffer ==
    \A p, q \in Procs :
        p # q /\ tx[p].ref # None /\ tx[q].ref # None =>
            ~Conflict(BookingOf(p, tx[p].ref), BookingOf(q, tx[q].ref))

\* What a confirm decided about its hold, and an insert about the bookings of
\* every showtime, is still so when it commits.
SalesInv ==
    /\ \A p \in Procs : SaleOK(p)
    /\ InsertsDiffer
    /\ BookedIffConfirmed
    /\ BookingsAreUnique
    /\ HoldsAreLegal
    /\ AnswersAreTrue
=============================================================================

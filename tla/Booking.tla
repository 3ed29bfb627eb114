------------------------------- MODULE Booking -------------------------------
(***************************************************************************)
(* The write path of the booking service: Hold, Confirm, Release and the   *)
(* sweeper's reclaim, run by concurrent processes against one Postgres     *)
(* database.  Every one of them is a READ COMMITTED transaction that takes *)
(* the advisory lock of its showtime first (store.InShowtimeTx), reads the *)
(* committed rows, and publishes its own writes at COMMIT.                 *)
(*                                                                         *)
(* Time.  Postgres' now() is the time of the BEGIN, not of the statement,  *)
(* so a transaction that waited for the lock judges expiry by the clock it *)
(* read before the wait: tx[p].now.                                        *)
(*                                                                         *)
(* Data.  A hold is its token.  A seat_occupancy row is a pair             *)
(* <<hold, seat>> (a hold claims a seat at most once); its showtime_id and *)
(* expires_at are the copies ClaimSeats takes from the hold, which nothing *)
(* updates.                                                                *)
(***************************************************************************)
EXTENDS Integers, FiniteSets, Sequences

CONSTANTS
    Clients,          \* goroutines serving API requests, of every replica
    Sweepers,         \* the sweep loop of each replica
    Showtimes,        \* showtime ids a request may name
    Catalog,          \* those that have a row in showtimes
    SalesOpen,        \* those whose sales_open column is true
    SeatIds,          \* rows of seats
    SeatsOf,          \* SeatsOf[st]: the seats of the showtime's auditorium
    SeatLists,        \* the seat id lists a hold request may carry
    HoldIds,          \* hold tokens
    Customers,        \* customer references
    Keys,             \* idempotency keys
    Refs,             \* booking references
    PriceMinor,       \* PriceMinor[st]: the showtime's price
    HoldTTL,          \* lifetime of a hold, in clock ticks
    MaxSeatsPerHold,
    RefAttempts,      \* refAttempts of insertBooking
    SweepBatch,       \* how many showtimes one sweep visits at most
    MaxTime,          \* bound on the clock
    None              \* SQL NULL, Go's nil and the empty string

Procs == Clients \cup Sweepers

ASSUME ProcsAssumption == None \notin Procs
ASSUME CatalogAssumption ==
    /\ Showtimes \subseteq Nat
    /\ Catalog \subseteq Showtimes
    /\ SalesOpen \subseteq Catalog
    /\ SeatIds \subseteq Nat
    /\ SeatsOf \in [Catalog -> SUBSET SeatIds]
    /\ PriceMinor \in [Catalog -> Nat]
ASSUME InputAssumption ==
    /\ SeatLists \subseteq Seq(Int)
    /\ None \notin HoldIds \cup Customers \cup Keys \cup Refs \cup Showtimes
ASSUME FiniteAssumption == IsFiniteSet(SeatIds)
ASSUME ConfigAssumption ==
    /\ HoldTTL \in Nat /\ MaxSeatsPerHold \in Nat \ {0}
    /\ RefAttempts \in Nat \ {0} /\ SweepBatch \in Nat /\ MaxTime \in Nat

VARIABLES
    now,       \* the database clock
    holds,     \* holds[h]: the committed row of table holds
    occ,       \* occ[h][s]: the committed seat_occupancy row of hold h, seat s
    bookings,  \* the committed rows of table bookings
    lock,      \* lock[st]: who owns the showtime's advisory lock
    pc,        \* where each process is
    req,       \* what its current operation was asked to do
    tx,        \* its open transaction: clock, uncommitted writes, attempts
    todo,      \* the showtimes a sweep has still to visit
    answer     \* the request answered in the last step, and how

vars == <<now, holds, occ, bookings, lock, pc, req, tx, todo, answer>>

-----------------------------------------------------------------------------
(* Rows and requests.                                                      *)

HoldStates == {"absent", "open", "confirmed", "released"}
RowStates  == {"none", "claimed", "confirmed", "released"}
HoldRow    == [state: HoldStates, show: Showtimes \cup {None},
               cust: Customers \cup {None}, expires: Nat]
NoHold     == [state |-> "absent", show |-> None, cust |-> None, expires |-> 0]

Kinds    == {"hold", "confirm", "release", "sweep"}
Requests == [kind: Kinds, show: Showtimes \cup {None}, tok: HoldIds \cup {None},
             want: SUBSET Int, cust: Customers \cup {None}, key: Keys \cup {None}]
NoReq    == [kind |-> "hold", show |-> None, tok |-> None,
             want |-> {}, cust |-> None, key |-> None]

Txs  == [now: Nat, freed: SUBSET (HoldIds \X SeatIds), claims: SUBSET SeatIds,
         sold: SUBSET SeatIds, total: Nat, ref: Refs \cup {None},
         tries: 0 .. RefAttempts]
NoTx == [now |-> 0, freed |-> {}, claims |-> {}, sold |-> {},
         total |-> 0, ref |-> None, tries |-> 0]

Bookings == [ref: Refs, hold: HoldIds, show: Catalog, cust: Customers \cup {None},
             key: Keys \cup {None}, total: Nat]

Refusals == {"notFound", "salesClosed", "invalidSelection", "seatsUnavailable",
             "seatRaceLost", "holdExpired", "alreadyConfirmed",
             "idempotencyKeyReused", "busy", "error"}
Replies  == Refusals \cup {"none", "held", "booked", "released", "swept"}
Answers  == [is: Replies, tok: HoldIds \cup {None}, key: Keys \cup {None}]
AnswerTo(q, r) == [is |-> r, tok |-> q.tok, key |-> q.key]
NoAnswer == AnswerTo(NoReq, "none")

-----------------------------------------------------------------------------
(* The queries, over committed rows.  t is the transaction's now().        *)

\* Mutant: the queries join only open holds, so that a sold seat looks free.
BadHoldsOf(st) == {h \in HoldIds : holds[h].show = st /\ holds[h].state = "open"}
HoldsOf(st) == {h \in HoldIds : holds[h].show = st}

\* GetHoldSeats and the partial unique index: released_at IS NULL.
Unreleased(h) == {s \in SeatIds : occ[h][s] \in {"claimed", "confirmed"}}

\* Mutants: expires_at < now(); and confirmed_at IS NULL forgotten.
BadLapsedStrict(h, s, t) == occ[h][s] = "claimed" /\ holds[h].expires < t
BadLapsedSold(h, s, t) == s \in Unreleased(h) /\ holds[h].expires <= t

\* The reclaim predicate: not released, not confirmed, expires_at <= now().
Lapsed(h, s, t) == occ[h][s] = "claimed" /\ holds[h].expires <= t

\* The view live_seat_occupancy.
Live(h, s, t) ==
    s \in Unreleased(h) /\ (occ[h][s] = "confirmed" \/ holds[h].expires > t)

\* Mutant: a clock that runs one tick ahead decides what has lapsed.
BadReclaimExpiredSeats(st, S, t) ==
    {r \in HoldIds \X SeatIds :
        r[1] \in HoldsOf(st) /\ r[2] \in S /\ Lapsed(r[1], r[2], t + 1)}

\* The rows ReclaimExpiredSeats[ForShowtime] updates.
ReclaimExpiredSeats(st, S, t) ==
    {r \in HoldIds \X SeatIds :
        r[1] \in HoldsOf(st) /\ r[2] \in S /\ Lapsed(r[1], r[2], t)}

\* Read in the transaction that has already reclaimed the rows in freed.
FindSeatConflicts(st, S, t, freed) ==
    {s \in S \cap SeatIds : \E h \in HoldsOf(st) : Live(h, s, t) /\ <<h, s>> \notin freed}

GetBookingByHold(h) == {b \in bookings : b.hold = h}

GetBookingByIdempotencyKey(cust, key) ==
    {b \in bookings : b.cust = cust /\ b.key = key}

ListShowtimesWithExpiredSeats ==
    LET due == {st \in Showtimes :
                  \E h \in HoldsOf(st), s \in SeatIds : Lapsed(h, s, now)}
    IN  {st \in due : Cardinality({x \in due : x < st}) < SweepBatch}

-----------------------------------------------------------------------------
(* How an operation ends.                                                  *)

\* A sweep goes on after a success and after ErrBusy, and stops at any other
\* error; every other operation has answered its caller.
After(p, r) ==
    IF req[p].kind = "sweep" /\ r \in {"swept", "busy"} THEN "next" ELSE "idle"

\* The lock a transaction owns goes with it, however it ends.
Unlock(p) == lock' = [st \in Showtimes |-> IF lock[st] = p THEN None ELSE lock[st]]

End(p, r) ==
    /\ Unlock(p)
    /\ pc' = [pc EXCEPT ![p] = After(p, r)]
    /\ tx' = [tx EXCEPT ![p] = NoTx]
    /\ req' = [req EXCEPT ![p] = NoReq]
    /\ answer' = AnswerTo(req[p], r)

\* The transaction's function returned an error: nothing it wrote is kept.
Rollback(p, r) ==
    /\ End(p, r)
    /\ UNCHANGED <<now, holds, occ, bookings, todo>>

\* The operation is answered before any transaction is begun.
Answer(q, r) ==
    /\ answer' = AnswerTo(q, r)
    /\ UNCHANGED <<now, holds, occ, bookings, lock, pc, req, tx, todo>>

\* BEGIN: from here on the transaction's now() stands still.
Begin(p, q) ==
    /\ req' = [req EXCEPT ![p] = q]
    /\ answer' = NoAnswer
    /\ tx' = [tx EXCEPT ![p] = [NoTx EXCEPT !.now = now]]
    /\ pc' = [pc EXCEPT ![p] = "begun"]
    /\ UNCHANGED <<now, holds, occ, bookings, lock>>

\* The transaction goes on with t as its uncommitted state.
Continue(p, label, t) ==
    /\ pc' = [pc EXCEPT ![p] = label]
    /\ tx' = [tx EXCEPT ![p] = t]
    /\ answer' = NoAnswer
    /\ UNCHANGED <<now, holds, occ, bookings, lock, req, todo>>

-----------------------------------------------------------------------------
(* The clock and the advisory lock.                                        *)

Tick ==
    /\ now < MaxTime
    /\ now' = now + 1
    /\ answer' = NoAnswer
    /\ UNCHANGED <<holds, occ, bookings, lock, pc, req, tx, todo>>

LockShowtime(p) ==
    /\ pc[p] = "begun"
    /\ lock[req[p].show] = None
    /\ lock' = [lock EXCEPT ![req[p].show] = p]
    /\ pc' = [pc EXCEPT ![p] = "body"]
    /\ answer' = NoAnswer
    /\ UNCHANGED <<now, holds, occ, bookings, req, tx, todo>>

-----------------------------------------------------------------------------
(* Hold                                                                    *)

\* Mutant: the bound on the number of seats is off by one.
BadValidSelection(list) ==
    /\ Len(list) \in 1 .. MaxSeatsPerHold + 1
    /\ \A i \in DOMAIN list : list[i] > 0
    /\ \A i, j \in DOMAIN list : list[i] = list[j] => i = j

\* normalizeSeats accepts the list; what remains of it is a set.
ValidSelection(list) ==
    /\ Len(list) \in 1 .. MaxSeatsPerHold
    /\ \A i \in DOMAIN list : list[i] > 0
    /\ \A i, j \in DOMAIN list : list[i] = list[j] => i = j

HoldRequest(st, h, list, cust) ==
    [NoReq EXCEPT !.show = st, !.tok = h, !.cust = cust,
                  !.want = {list[i] : i \in DOMAIN list}]

\* newHoldToken draws 128 random bits: a token no one has or is about to have.
FreshToken(h) ==
    /\ holds[h].state = "absent"
    /\ \A q \in Procs : req[q].kind = "hold" => req[q].tok # h

StartHold(p) ==
    /\ pc[p] = "idle"
    /\ \E st \in Showtimes, list \in SeatLists, cust \in Customers \cup {None} :
          \/ /\ cust = None \/ ~ValidSelection(list)
             /\ Answer(NoReq, "invalidSelection")
          \/ /\ cust # None /\ ValidSelection(list)
             /\ \E h \in HoldIds : FreshToken(h) /\ Begin(p, HoldRequest(st, h, list, cust))
             /\ UNCHANGED todo

\* CountSeatsInShowtime counts as many seats as were asked for.
AllInShowtime(st, S) == S \subseteq SeatsOf[st]

HoldRefusal(p, freed) ==
    LET st == req[p].show
    IN  CASE st \notin Catalog   -> "notFound"
          [] st \in Catalog \ SalesOpen -> "salesClosed"
          [] st \in SalesOpen /\ ~AllInShowtime(st, req[p].want) -> "invalidSelection"
          [] OTHER -> IF FindSeatConflicts(st, req[p].want, tx[p].now, freed) # {}
                      THEN "seatsUnavailable" ELSE "none"

\* GetShowtime, CountSeatsInShowtime, ReclaimExpiredSeats, FindSeatConflicts
\* and CreateHold; a refusal rolls the reclaim back as well.
HoldBody(p) ==
    LET freed   == ReclaimExpiredSeats(req[p].show, req[p].want, tx[p].now)
        refusal == HoldRefusal(p, freed)
    IN  /\ pc[p] = "body" /\ req[p].kind = "hold"
        /\ \/ refusal # "none" /\ Rollback(p, refusal)
           \/ refusal = "none" /\ Continue(p, "claim", [tx[p] EXCEPT !.freed = freed])

\* A row the unique index holds against a claim of p, and a slot on which
\* another transaction's unfinished claim or release makes p wait for it.
SlotTaken(p) ==
    \E h \in HoldsOf(req[p].show), s \in req[p].want \cap SeatIds :
        s \in Unreleased(h) /\ <<h, s>> \notin tx[p].freed
ClaimBlocked(p) ==
    \E q \in Procs \ {p} :
        /\ req[q].show = req[p].show
        /\ \E s \in req[p].want : s \in tx[q].claims \/ \E r \in tx[q].freed : r[2] = s

ClaimSeats(p) ==
    /\ pc[p] = "claim"
    /\ ~ClaimBlocked(p)
    /\ IF SlotTaken(p)
       THEN Rollback(p, "seatRaceLost")
       ELSE Continue(p, "commit", [tx[p] EXCEPT !.claims = req[p].want])

-----------------------------------------------------------------------------
(* Confirm                                                                 *)

\* The lookup before the transaction only serves to find the showtime.
StartConfirm(p) ==
    /\ pc[p] = "idle"
    /\ \E h \in HoldIds, key \in Keys \cup {None} :
         LET q == [NoReq EXCEPT !.kind = "confirm", !.tok = h, !.key = key,
                                !.show = holds[h].show]
         IN  \/ key = None /\ Answer(q, "invalidSelection")
             \/ key # None /\ holds[h].state = "absent" /\ Answer(q, "notFound")
             \/ key # None /\ holds[h].state # "absent" /\ Begin(p, q) /\ UNCHANGED todo

ConfirmHoldSeats(h, t) == {s \in SeatIds : occ[h][s] = "claimed" /\ holds[h].expires > t}

\* The checks of Confirm's body on a hold that is not confirmed, in order.
ConfirmRefusal(p) ==
    LET h == req[p].tok IN
    IF holds[h].state = "released" THEN "holdExpired"
    ELSE IF \E b \in GetBookingByIdempotencyKey(holds[h].cust, req[p].key) : b.hold # h
    THEN "idempotencyKeyReused"
    ELSE IF \/ Unreleased(h) = {}
            \/ Cardinality(ConfirmHoldSeats(h, tx[p].now)) # Cardinality(Unreleased(h))
            \/ holds[h].expires <= tx[p].now
    THEN "holdExpired" ELSE "none"

\* A hold that is already confirmed is answered with its booking, whatever
\* key the request carries; nothing is written.
ReplayConfirm(p) ==
    /\ pc[p] = "body" /\ req[p].kind = "confirm"
    /\ holds[req[p].tok].state = "confirmed"
    /\ IF GetBookingByHold(req[p].tok) # {}
       THEN Continue(p, "commit", tx[p])
       ELSE Rollback(p, "notFound")

\* Mutant: the price is that of the seats once held, not of the seats sold.
BadConfirmBody(p) ==
    LET h       == req[p].tok
        refusal == ConfirmRefusal(p)
    IN  /\ pc[p] = "body" /\ req[p].kind = "confirm"
        /\ holds[h].state # "confirmed"
        /\ \/ refusal # "none" /\ Rollback(p, refusal)
           \/ /\ refusal = "none"
              /\ Continue(p, "insert",
                   [tx[p] EXCEPT !.sold = ConfirmHoldSeats(h, tx[p].now),
                                 !.total = PriceMinor[req[p].show]
                                           * Cardinality({s \in SeatIds : occ[h][s] # "none"})])

ConfirmBody(p) ==
    LET h       == req[p].tok
        refusal == ConfirmRefusal(p)
    IN  /\ pc[p] = "body" /\ req[p].kind = "confirm"
        /\ holds[h].state # "confirmed"
        /\ \/ refusal # "none" /\ Rollback(p, refusal)
           \/ /\ refusal = "none"
              /\ Continue(p, "insert",
                   [tx[p] EXCEPT !.sold = ConfirmHoldSeats(h, tx[p].now),
                                 !.total = PriceMinor[req[p].show] * Cardinality(Unreleased(h))])

BookingOf(p, ref) ==
    [ref |-> ref, hold |-> req[p].tok, show |-> req[p].show,
     cust |-> holds[req[p].tok].cust, key |-> req[p].key, total |-> tx[p].total]

\* The three unique constraints of table bookings.
Conflict(b, c) ==
    b.ref = c.ref \/ b.hold = c.hold \/ (b.cust = c.cust /\ b.key = c.key)

\* Mutant: only committed bookings count as conflicts.
BadInsertBlocked(p, ref) == FALSE

\* ON CONFLICT DO NOTHING waits for an unfinished insert that would conflict.
InsertBlocked(p, ref) ==
    \E q \in Procs \ {p} :
        tx[q].ref # None /\ Conflict(BookingOf(p, ref), BookingOf(q, tx[q].ref))

\* Mutant: a suppressed insert is taken for a booking.
BadCreateBooking(p) ==
    /\ pc[p] = "insert"
    /\ \E ref \in Refs :
         LET clash == \E b \in bookings : Conflict(BookingOf(p, ref), b)
         IN  /\ ~InsertBlocked(p, ref)
             /\ \/ clash /\ Continue(p, "commit", tx[p])
                \/ ~clash /\ Continue(p, "commit", [tx[p] EXCEPT !.ref = ref])

CreateBooking(p) ==
    /\ pc[p] = "insert"
    /\ \E ref \in Refs :
         LET clash == \E b \in bookings : Conflict(BookingOf(p, ref), b)
         IN  /\ ~InsertBlocked(p, ref)
             /\ \/ clash /\ Continue(p, "recheck", [tx[p] EXCEPT !.tries = @ + 1])
                \/ ~clash /\ Continue(p, "commit", [tx[p] EXCEPT !.ref = ref])

\* Mutants: one attempt too many; and every collision blamed on the key.
BadRecheckKeyBound(p) ==
    /\ pc[p] = "recheck"
    /\ IF GetBookingByIdempotencyKey(holds[req[p].tok].cust, req[p].key) # {}
       THEN Rollback(p, "idempotencyKeyReused")
       ELSE IF tx[p].tries > RefAttempts
       THEN Rollback(p, "error")
       ELSE Continue(p, "insert", tx[p])
BadRecheckKeyBlame(p) == pc[p] = "recheck" /\ Rollback(p, "idempotencyKeyReused")

\* The insert was suppressed: by the key, or by the reference it had drawn.
RecheckKey(p) ==
    /\ pc[p] = "recheck"
    /\ IF GetBookingByIdempotencyKey(holds[req[p].tok].cust, req[p].key) # {}
       THEN Rollback(p, "idempotencyKeyReused")
       ELSE IF tx[p].tries = RefAttempts
       THEN Rollback(p, "error")
       ELSE Continue(p, "insert", tx[p])

-----------------------------------------------------------------------------
(* Release                                                                 *)

StartRelease(p) ==
    /\ pc[p] = "idle"
    /\ \E h \in HoldIds :
         LET q == [NoReq EXCEPT !.kind = "release", !.tok = h, !.show = holds[h].show]
         IN  \/ holds[h].state = "absent" /\ Answer(q, "notFound")
             \/ holds[h].state # "absent" /\ Begin(p, q) /\ UNCHANGED todo

ReleaseHoldSeats(h) == {s \in SeatIds : occ[h][s] = "claimed"}

\* ReleaseHoldSeats and ReleaseHold; a second release changes nothing.
ReleaseBody(p) ==
    LET h == req[p].tok
    IN  /\ pc[p] = "body" /\ req[p].kind = "release"
        /\ \/ holds[h].state = "confirmed" /\ Rollback(p, "alreadyConfirmed")
           \/ /\ holds[h].state # "confirmed"
              /\ Continue(p, "commit",
                   [tx[p] EXCEPT !.freed = {h} \X ReleaseHoldSeats(h)])

-----------------------------------------------------------------------------
(* The sweeper                                                             *)

StartSweep(p) ==
    /\ pc[p] = "idle"
    /\ todo' = [todo EXCEPT ![p] = ListShowtimesWithExpiredSeats]
    /\ pc' = [pc EXCEPT ![p] = "next"]
    /\ req' = [req EXCEPT ![p] = [NoReq EXCEPT !.kind = "sweep"]]
    /\ answer' = NoAnswer
    /\ UNCHANGED <<now, holds, occ, bookings, lock, tx>>

SweepNext(p) ==
    /\ pc[p] = "next"
    /\ \/ /\ todo[p] = {}
          /\ pc' = [pc EXCEPT ![p] = "idle"]
          /\ answer' = NoAnswer
          /\ UNCHANGED <<now, holds, occ, bookings, lock, req, tx, todo>>
       \/ \E st \in todo[p] :
            /\ \A x \in todo[p] : st <= x
            /\ todo' = [todo EXCEPT ![p] = @ \ {st}]
            /\ Begin(p, [NoReq EXCEPT !.kind = "sweep", !.show = st])

\* Mutant: expires_at is not looked at.
BadSweepBody(p) ==
    /\ pc[p] = "body" /\ req[p].kind = "sweep"
    /\ Continue(p, "commit",
         [tx[p] EXCEPT !.freed = {r \in HoldsOf(req[p].show) \X SeatIds :
                                    occ[r[1]][r[2]] = "claimed"}])

SweepBody(p) ==
    /\ pc[p] = "body" /\ req[p].kind = "sweep"
    /\ Continue(p, "commit",
         [tx[p] EXCEPT !.freed = ReclaimExpiredSeats(req[p].show, SeatIds, tx[p].now)])

-----------------------------------------------------------------------------
(* COMMIT, and the ways a transaction dies.                                *)

Success(kind) == CASE kind = "hold"    -> "held"
                   [] kind = "confirm" -> "booked"
                   [] kind = "release" -> "released"
                   [] kind = "sweep"   -> "swept"

\* The rows of hold h and seat s, and of hold h, as p's transaction leaves them.
NewRow(p, h, s) ==
    IF <<h, s>> \in tx[p].freed THEN "released"
    ELSE IF h = req[p].tok /\ s \in tx[p].claims THEN "claimed"
    ELSE IF h = req[p].tok /\ s \in tx[p].sold THEN "confirmed"
    ELSE occ[h][s]

NewHold(p) ==
    LET old == holds[req[p].tok] IN
    CASE req[p].kind = "hold" ->
           [state |-> "open", show |-> req[p].show, cust |-> req[p].cust,
            expires |-> tx[p].now + HoldTTL]
      [] req[p].kind = "confirm" -> [old EXCEPT !.state = "confirmed"]
      [] req[p].kind = "release" ->
           IF old.state = "open" THEN [old EXCEPT !.state = "released"] ELSE old

\* Everything the transaction wrote becomes visible and its lock is free at
\* once.  The acknowledgement may be lost on the way: the caller then gets an
\* error for a transaction that took place.
Commit(p) ==
    /\ pc[p] = "commit"
    /\ occ' = [h \in HoldIds |-> [s \in SeatIds |-> NewRow(p, h, s)]]
    /\ holds' = IF req[p].kind = "sweep" THEN holds
                ELSE [holds EXCEPT ![req[p].tok] = NewHold(p)]
    /\ bookings' = IF tx[p].ref = None THEN bookings
                   ELSE bookings \cup {BookingOf(p, tx[p].ref)}
    /\ \E r \in {Success(req[p].kind), "error"} : End(p, r)
    /\ UNCHANGED <<now, todo>>

InTx(p) == pc[p] \notin {"idle", "next"}

\* Mutant: the timeout is not set.
BadLockTimeout(p) == FALSE

\* lock_timeout: p waits for the advisory lock, for a slot of the unique
\* index, or for another transaction's conflicting booking.
LockTimeout(p) ==
    /\ \/ pc[p] = "begun" /\ lock[req[p].show] # None
       \/ pc[p] = "claim" /\ ClaimBlocked(p)
       \/ pc[p] = "insert" /\ \E ref \in Refs : InsertBlocked(p, ref)
    /\ Rollback(p, "busy")

\* The statement timeout (ErrBusy), or a lost connection, a cancelled request
\* or a crash of the replica (any other error), at any point before COMMIT
\* takes effect.  An error of the recheck is swallowed (confirm.go:150): the
\* insert after it then fails, for another reason, in the aborted transaction.
Abort(p) ==
    /\ InTx(p)
    /\ \E r \in {"busy", "error"} : (r = "busy" => pc[p] # "recheck") /\ Rollback(p, r)

-----------------------------------------------------------------------------
Init ==
    /\ now = 0
    /\ holds = [h \in HoldIds |-> NoHold]
    /\ occ = [h \in HoldIds |-> [s \in SeatIds |-> "none"]]
    /\ bookings = {}
    /\ lock = [st \in Showtimes |-> None]
    /\ pc = [p \in Procs |-> "idle"]
    /\ req = [p \in Procs |-> NoReq]
    /\ tx = [p \in Procs |-> NoTx]
    /\ todo = [p \in Procs |-> {}]
    /\ answer = NoAnswer

\* What a process does by itself once its operation has started.
Progress(p) ==
    \/ LockShowtime(p) \/ LockTimeout(p)
    \/ HoldBody(p) \/ ClaimSeats(p)
    \/ ReplayConfirm(p) \/ ConfirmBody(p) \/ CreateBooking(p) \/ RecheckKey(p)
    \/ ReleaseBody(p) \/ SweepNext(p) \/ SweepBody(p)
    \/ Commit(p)

Next ==
    \/ Tick
    \/ \E p \in Clients : StartHold(p) \/ StartConfirm(p) \/ StartRelease(p)
    \/ \E p \in Sweepers : StartSweep(p)
    \/ \E p \in Procs : Progress(p) \/ Abort(p)

Spec == Init /\ [][Next]_vars

\* Postgres runs every statement it is sent and lock_timeout bounds every
\* wait; nobody has to send a request, and nothing has to fail.
FairSpec == Spec /\ \A p \in Procs : WF_vars(Progress(p))
-----------------------------------------------------------------------------
(* Properties                                                              *)

Labels == {"idle", "next", "begun", "body", "claim", "insert", "recheck", "commit"}

\* Every variable has its type; in particular a confirm draws at most
\* RefAttempts references before it gives up.
TypeOK ==
    /\ now \in Nat
    /\ holds \in [HoldIds -> HoldRow]
    /\ occ \in [HoldIds -> [SeatIds -> RowStates]]
    /\ bookings \subseteq Bookings
    /\ lock \in [Showtimes -> Procs \cup {None}]
    /\ pc \in [Procs -> Labels]
    /\ req \in [Procs -> Requests]
    /\ tx \in [Procs -> Txs]
    /\ todo \in [Procs -> SUBSET Showtimes]
    /\ answer \in Answers

\* No double booking: a seat of a showtime has at most one unreleased row,
\* whatever transactions interleave, time out, crash or expire.
OneUnreleasedRow ==
    \A g, h \in HoldIds :
        g # h /\ holds[g].show = holds[h].show => Unreleased(g) \cap Unreleased(h) = {}

\* seat_occupancy_live_uniq never fires (store/errors.go: a bug signal rather
\* than a routine outcome): reclaim and conflict check together see every
\* row the index would object to, and the lock keeps it so until the claim.
NoSeatRaceLost == answer.is # "seatRaceLost"

\* A confirmed hold and its booking come together: no sold seat is stranded
\* without a booking, none of a booked hold's seats is still only held, and
\* the customer pays for exactly the seats that are sold.
BookedIffConfirmed ==
    \A h \in HoldIds :
        LET mine == {b \in bookings : b.hold = h}
            sold == {s \in SeatIds : occ[h][s] = "confirmed"}
        IN  /\ holds[h].state = "confirmed" =>
                 /\ Unreleased(h) = sold /\ sold # {}
                 /\ \E b \in mine : /\ mine = {b}
                                    /\ b.show = holds[h].show
                                    /\ b.total = PriceMinor[b.show] * Cardinality(sold)
            /\ holds[h].state # "confirmed" => mine = {} /\ sold = {}

\* A hold that nobody released keeps all the seats it was granted until the
\* database clock reaches expires_at, not a tick earlier: no reclaim, by a
\* rival hold or by the sweeper, takes part of it.
LiveHoldIsWhole ==
    \A h \in HoldIds : holds[h].state = "open" /\ now < holds[h].expires =>
        /\ Unreleased(h) # {}
        /\ \A s \in SeatIds : occ[h][s] # "released"

\* A hold is only ever granted for a showtime on sale, for at least one and at
\* most MaxSeatsPerHold seats, all of them seats of its auditorium.
HoldsAreLegal ==
    \A h \in HoldIds :
        LET seats == {s \in SeatIds : occ[h][s] # "none"}
        IN  IF holds[h].state = "absent" THEN seats = {}
            ELSE /\ holds[h].show \in SalesOpen
                 /\ seats \subseteq SeatsOf[holds[h].show]
                 /\ Cardinality(seats) \in 1 .. MaxSeatsPerHold

\* Hold h is over: unsold, and given up or past its time.
Over(h) ==
    /\ holds[h].state # "confirmed"
    /\ holds[h].state = "released" \/ holds[h].expires <= now

\* What the API answers is so: a confirm answered with success has a booking,
\* a key is refused only if it paid for another hold, and a hold is called
\* expired only if it is not sold and was released or has run out: not because
\* another transaction has taken some of its seats too early.
AnswersAreTrue ==
    LET h == answer.tok IN
    /\ answer.is = "booked" => \E b \in bookings : b.hold = h
    /\ answer.is = "idempotencyKeyReused" =>
         \E b \in GetBookingByIdempotencyKey(holds[h].cust, answer.key) : b.hold # h
    /\ answer.is = "holdExpired" => Over(h)

\* A sold seat is sold for good and its booking is never changed.
SoldForever ==
    [][/\ bookings \subseteq bookings'
       /\ \A h \in HoldIds, s \in SeatIds :
            occ[h][s] = "confirmed" => occ'[h][s] = "confirmed"]_vars

\* A reference, a hold and a customer's key each name at most one booking,
\* although confirms for different showtimes share no lock.
BookingsAreUnique == \A b, c \in bookings : Conflict(b, c) => b = c

\* Every operation is answered: the bounded waits and the bounded number of
\* reference draws leave no request hanging.
RequestAnswered == \A p \in Procs : pc[p] # "idle" ~> pc[p] = "idle"

\* The service keeps the promise of SeatLedger: every COMMIT is one step of
\* it, everything before the COMMIT and every rollback is none.
Ledger == INSTANCE SeatLedger WITH
    Slots <- Showtimes \X SeatIds,
    Holds <- HoldIds,
    clock <- now,
    grant <- [h \in HoldIds |-> {holds[h].show} \X Unreleased(h)],
    due   <- [h \in HoldIds |-> holds[h].expires],
    sold  <- {h \in HoldIds : holds[h].state = "confirmed"}

RefinesLedger == Ledger!Spec

\* ARCHITECTURE.md, 4.1: "multi-seat atomicity comes for free".  A booking
\* covers every seat its hold was granted.
BookingIsWhole ==
    \A b \in bookings, s \in SeatIds : occ[b.hold][s] # "released"
=============================================================================

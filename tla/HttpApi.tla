------------------------------- MODULE HttpApi -------------------------------
(***************************************************************************)
(* A request on its way through internal/httpapi: instrument, throttle,    *)
(* route, handler, service call, answer, and the deferred function that    *)
(* measures it.  Its client may leave at any moment, the handler may       *)
(* panic, and the connection to the database may break around COMMIT.      *)
(*                                                                         *)
(* The throttle's verdict is a choice here (module RateLimiter makes it),  *)
(* and so is what the service finds in the database (module Booking).      *)
(* An error is the set of the sentinels in its chain, which is what        *)
(* errors.Is and errors.As see of it.                                      *)
(***************************************************************************)
EXTENDS ShowtimeTx, Sequences

CONSTANTS
    Requests,    \* goroutines that serve one request after another
    Inputs       \* the requests that clients send

-----------------------------------------------------------------------------
(* Routes                                                                  *)

Writes == {"createHold", "releaseHold", "confirmHold"}

Handlers == Writes \cup {"listMovies", "listShowtimes", "getShowtime",
                         "seatMap", "getHold", "getBooking"}

\* Requests that no pattern of the API's mux matches.  An unclean path is none
\* of them: main's mux has redirected it before it gets here.
Unmatched == {"no route", "wrong method"}

\* The checks a handler makes before it calls the service, in their order.
Checks(route) ==
    CASE route = "listShowtimes" -> <<"movie_id", "from", "to", "range">>
      [] route \in {"getShowtime", "seatMap"} -> <<"path">>
      [] route = "createHold" -> <<"path", "customer", "media type", "body size", "body">>
      [] route = "confirmHold" -> <<"key">>
      [] OTHER -> <<>>

CheckNames == {"movie_id", "from", "to", "range", "path", "media type",
               "body size", "body", "key"}

\* A request: where it goes, how it names its customer, which checks it fails.
Input == [route: Handlers \cup Unmatched,
          customer: {"absent", "malformed", "named"},
          wrong: SUBSET CheckNames]

ASSUME InputsAssumption == Inputs \subseteq Input /\ Inputs # {} /\ None \notin Requests

FailsCheck(input, check) ==
    IF check = "customer" THEN input.customer = "absent" ELSE check \in input.wrong

\* The checks that input fails, by their position; the first one answers.
Failing(input) ==
    {i \in 1 .. Len(Checks(input.route)) : FailsCheck(input, Checks(input.route)[i])}

FirstFailing(input) ==
    Checks(input.route)[CHOOSE i \in Failing(input) : \A j \in Failing(input) : i <= j]

-----------------------------------------------------------------------------
(* Errors                                                                  *)

\* Mutant: whatever is not recognised is taken for load.
BadClassify(condition) ==
    CASE condition = "no rows" -> {"store.ErrNotFound"}
      [] condition = "seat_occupancy_live_uniq" -> {"store.ErrSeatRaceLost"}
      [] OTHER -> {"store.ErrBusy"}

\* Classify: what the store makes of a condition that Postgres, or the
\* connection to it, reports.
Classify(condition) ==
    CASE condition = "no rows" -> {"store.ErrNotFound"}
      [] condition = "seat_occupancy_live_uniq" -> {"store.ErrSeatRaceLost"}
      [] condition = "bookings_customer_ref_idempotency_key_key" -> {"store.ErrDuplicateBooking"}
      [] condition = "bookings_hold_id_key" -> {"store.ErrHoldAlreadyBooked"}
      [] condition = "exclusion_violation" -> {"store.ErrScheduleConflict"}
      [] condition \in {"lock_not_available", "query_canceled"} -> {"store.ErrBusy"}
      [] condition \in {"other_unique_violation", "check_violation", "foreign_key_violation"} ->
           {"store.ErrConstraint"}
      [] OTHER -> {}

FromStore(err) ==
    err \cup (IF "store.ErrBusy" \in err THEN {"ErrBusy"}
              ELSE IF "store.ErrNotFound" \in err THEN {"ErrNotFound"} ELSE {})

\* Mutant: the SeatsUnavailable does not unwrap to its cause.
BadHoldError(err) ==
    IF "store.ErrSeatRaceLost" \in err THEN {"SeatsUnavailable"} ELSE FromStore(err)

HoldError(err) ==
    IF "store.ErrSeatRaceLost" \in err THEN err \cup {"SeatsUnavailable"}
    ELSE FromStore(err)

\* The error a handler gets back from the service for a condition.
ServiceError(route, condition) ==
    IF route = "createHold" THEN HoldError(Classify(condition))
    ELSE FromStore(Classify(condition))

\* The domain errors of an operation: before or without a transaction, and
\* those of its transaction's function.
Refusals(route) ==
    CASE route = "createHold" -> {"ErrInvalidSelection"}
      [] route \in {"getHold", "releaseHold", "confirmHold", "getBooking"} -> {"ErrNotFound"}
      [] OTHER -> {}

TxRefusals(route) ==
    CASE route = "createHold" -> {"ErrSalesClosed", "ErrInvalidSelection", "SeatsUnavailable"}
      [] route = "releaseHold" -> {"ErrAlreadyConfirmed"}
      [] route = "confirmHold" -> {"ErrHoldExpired", "ErrIdempotencyKeyReused"}

\* The conditions a statement of an operation may raise.  "connection" is a
\* broken connection or the cancelled context of a client that left.  The live
\* seat index never fires unless the lock is bypassed (Booking, NoSeatRaceLost);
\* the API is written for the case that it is.  A hold's token may collide; the
\* constraints of bookings raise nothing, since their insert is ON CONFLICT.
Conditions(route) ==
    {"query_canceled", "connection"}
      \cup (IF route \in {"listMovies", "listShowtimes"} THEN {} ELSE {"no rows"})
      \cup (IF route = "createHold" THEN {"seat_occupancy_live_uniq", "other_unique_violation"}
            ELSE {})

\* The problem a handler returns for a check that fails.
CheckProblem(check) ==
    CASE check = "path" -> "notFound"
      [] check = "media type" -> "unsupportedMediaType"
      [] check = "body size" -> "requestTooLarge"
      [] OTHER -> "invalidRequest"

\* problemFor: a problem is its own answer, of the sentinels the first one of
\* the list that is in the chain decides.
ProblemFor(err) ==
    CASE "invalidRequest" \in err -> 400
      [] "notFound" \in err -> 404
      [] "requestTooLarge" \in err -> 413
      [] "unsupportedMediaType" \in err -> 415
      [] "SeatsUnavailable" \in err -> 409
      [] "ErrNotFound" \in err -> 404
      [] "ErrInvalidSelection" \in err -> 422
      [] "ErrHoldExpired" \in err -> 410
      [] "ErrSalesClosed" \in err -> 409
      [] "ErrAlreadyConfirmed" \in err -> 409
      [] "ErrIdempotencyKeyReused" \in err -> 422
      [] "ErrBusy" \in err -> 503
      [] OTHER -> 500

SuccessStatus(route) ==
    CASE route \in {"createHold", "confirmHold"} -> 201
      [] route = "releaseHold" -> 204
      [] OTHER -> 200

Success == {200, 201, 204}

-----------------------------------------------------------------------------
(* A request on its way                                                    *)

VARIABLE http    \* http[r]: the request that goroutine r serves, or served last

\* The outer mux has matched "/v1/" and left that pattern on the request.
NewRequest(input) ==
    [at |-> "throttle", input |-> input, pattern |-> "/v1/", err |-> {},
     condition |-> "none",    \* what the database reported
     status |-> 0,            \* recorder.status: 0 until the head is written
     heads |-> 0,             \* how many heads went to the connection
     wire |-> "open",         \* then complete, or cut off
     left |-> FALSE,          \* the client left: the context is cancelled
     panicked |-> FALSE,
     committed |-> FALSE,     \* the database has committed the operation
     raceLost |-> FALSE,      \* SeatRaceLost was called
     measured |-> <<>>]       \* what ObserveRequest was called with

InitHttp == http = [r \in Requests |-> [NewRequest(CHOOSE i \in Inputs : TRUE) EXCEPT !.at = "none"]]

Goes(r, v) == http' = [http EXCEPT ![r] = v]

\* The handler returns err, and fail is next.
Fails(r, err) == Goes(r, [http[r] EXCEPT !.at = "fail", !.err = err])

FailsOn(r, condition) ==
    Goes(r, [http[r] EXCEPT !.at = "fail", !.condition = condition,
                            !.err = ServiceError(http[r].input.route, condition)])

\* WriteHeader of the recorder; the body, if there is one, is still to come.
WriteHeader(v, status) ==
    [v EXCEPT !.status = IF v.status = 0 THEN status ELSE v.status, !.heads = @ + 1,
              !.at = IF status = 204 THEN "return" ELSE "body"]

\* writeProblem, from which nothing is called that could panic.
Problem(v, status) == [WriteHeader(v, status) EXCEPT !.at = "return"]

Arrive(r) ==
    /\ http[r].at \in {"none", "ended"}
    /\ \E input \in Inputs : Goes(r, NewRequest(input))
    /\ UNCHANGED shared

\* throttle: 400 for a malformed customer, 429 for one above the rate.
Throttle(r) ==
    LET v == http[r] IN
    /\ v.at = "throttle"
    /\ \/ v.input.customer = "malformed" /\ Goes(r, Problem(v, 400))
       \/ v.input.customer = "named" /\ Goes(r, Problem(v, 429))
       \/ v.input.customer # "malformed" /\ Goes(r, [v EXCEPT !.at = "route"])
    /\ UNCHANGED shared

\* route: the mux records the pattern it matched, or none.
Route(r) ==
    LET v == http[r] IN
    /\ v.at = "route"
    /\ Goes(r, IF v.input.route \in Handlers
               THEN [v EXCEPT !.at = "handle", !.pattern = v.input.route]
               ELSE Problem([v EXCEPT !.pattern = ""],
                            IF v.input.route = "no route" THEN 404 ELSE 405))
    /\ UNCHANGED shared

\* The handler checks the request and calls the service.
Handle(r) ==
    LET v == http[r] IN
    /\ v.at = "handle"
    /\ IF Failing(v.input) # {} THEN Fails(r, {CheckProblem(FirstFailing(v.input))})
       ELSE Goes(r, [v EXCEPT !.at = "call"])
    /\ UNCHANGED shared

-----------------------------------------------------------------------------
(* The service                                                             *)

\* Outside a transaction: a read, or what a write does before it begins one.
\* Hold asks the database nothing before its transaction.
Read(r) ==
    LET v == http[r]
        route == v.input.route IN
    /\ v.at = "call"
    /\ \/ \E err \in Refusals(route) : Fails(r, {err})
       \/ /\ route # "createHold"
          /\ \E condition \in Conditions(route) : FailsOn(r, condition)
       \/ Goes(r, [v EXCEPT !.at = IF route \in Writes THEN "begin" ELSE "answer"])
    /\ UNCHANGED shared

Lock(r) ==
    /\ http[r].at = "begin"
    /\ \E s \in Showtimes : LockShowtime(r, s)
    /\ Goes(r, [http[r] EXCEPT !.at = "tx"])
    /\ UNCHANGED lapsed

\* The lock did not come within lock_timeout, or BEGIN or the wait failed.
NoLock(r) ==
    /\ http[r].at = "begin"
    /\ \/ /\ \E s \in Showtimes : lock[s] # None
          /\ FailsOn(r, "lock_not_available")
       \/ FailsOn(r, "connection")
    /\ UNCHANGED shared

\* The transaction's function refuses, or one of its statements fails.
Rollback(r) ==
    LET route == http[r].input.route IN
    /\ http[r].at = "tx"
    /\ \/ \E err \in TxRefusals(route) : Fails(r, {err})
       \/ \E condition \in Conditions(route) : FailsOn(r, condition)
    /\ EndTx(r)
    /\ UNCHANGED lapsed

\* A hold reclaims the lapsed claims on its seats and a release its own; a
\* confirm whose clock is older than the lapse makes its own permanent.  These
\* are none, some or all of the showtime's.
Reclaimed(r) ==
    UNION {{[lapsed EXCEPT ![s] = n] : n \in 0 .. lapsed[s]} :
             s \in {t \in Showtimes : lock[t] = r}}

\* COMMIT: acknowledged; or refused; or the connection broke, and then it may
\* have been carried out or not.
Commit(r) ==
    LET v == http[r] IN
    /\ v.at = "tx"
    /\ \/ Goes(r, [v EXCEPT !.at = "answer", !.committed = TRUE]) /\ lapsed' \in Reclaimed(r)
       \/ /\ Goes(r, [v EXCEPT !.at = "fail", !.committed = TRUE,
                               !.err = ServiceError(v.input.route, "connection")])
          /\ lapsed' \in Reclaimed(r)
       \/ /\ \E condition \in {"query_canceled", "connection"} : FailsOn(r, condition)
          /\ UNCHANGED lapsed
    /\ EndTx(r)

-----------------------------------------------------------------------------
(* The answer                                                              *)

\* writeJSON: a value that cannot be encoded fails before anything is written.
Answer(r) ==
    LET v == http[r] IN
    /\ v.at = "answer"
    /\ \/ Goes(r, WriteHeader(v, SuccessStatus(v.input.route)))
       \/ v.input.route # "releaseHold" /\ Fails(r, {})
    /\ UNCHANGED shared

WriteBody(r) ==
    /\ http[r].at = "body"
    /\ Goes(r, [http[r] EXCEPT !.at = "return"])
    /\ UNCHANGED shared

\* fail: nothing for a client that left; otherwise the race is counted and the
\* problem written.
Fail(r) ==
    LET v == http[r] IN
    /\ v.at = "fail"
    /\ Goes(r, IF v.left THEN [v EXCEPT !.at = "return"]
               ELSE [Problem(v, ProblemFor(v.err)) EXCEPT
                       !.raceLost = "store.ErrSeatRaceLost" \in v.err])
    /\ UNCHANGED shared

\* A handler panics: before the service call, in a transaction (which InTx's
\* deferred Rollback ends), on its result, or after the head.
Panic(r) ==
    /\ http[r].at \in {"handle", "call", "tx", "answer", "body"}
    /\ Goes(r, [http[r] EXCEPT !.at = "return", !.panicked = TRUE])
    /\ EndTx(r)
    /\ UNCHANGED lapsed

\* Mutant: every panic is answered with a problem.
BadRecovered(v) ==
    IF ~v.panicked THEN [v EXCEPT !.wire = "complete"]
    ELSE [Problem(v, 500) EXCEPT !.wire = "complete"]

\* What recover makes of it: a problem while there is no head, and otherwise
\* the connection is aborted.
Recovered(v) ==
    IF ~v.panicked THEN [v EXCEPT !.wire = "complete"]
    ELSE IF v.status = 0 THEN [Problem(v, 500) EXCEPT !.wire = "complete"]
    ELSE [v EXCEPT !.wire = "cut"]

\* ObserveRequest, with the matched pattern as the label.
ObserveRequest(v, status) ==
    [v EXCEPT !.measured = Append(@, <<IF v.pattern = "" THEN "unmatched" ELSE v.pattern, status>>)]

\* Mutant: the request is measured before the panic is turned into an answer.
BadReturn(r) ==
    /\ http[r].at = "return"
    /\ Goes(r, [ObserveRequest(Recovered(http[r]), http[r].status) EXCEPT !.at = "ended"])
    /\ UNCHANGED shared

\* The deferred function of instrument; net/http completes the response.
Return(r) ==
    LET v == Recovered(http[r]) IN
    /\ http[r].at = "return"
    /\ Goes(r, [ObserveRequest(v, v.status) EXCEPT !.at = "ended"])
    /\ UNCHANGED shared

Leave(r) ==
    /\ http[r].at \notin {"none", "ended"} /\ ~http[r].left
    /\ Goes(r, [http[r] EXCEPT !.left = TRUE])
    /\ UNCHANGED shared

Serve(r) ==
    \/ Throttle(r) \/ Route(r) \/ Handle(r)
    \/ Read(r) \/ Lock(r) \/ NoLock(r) \/ Rollback(r) \/ Commit(r)
    \/ Answer(r) \/ WriteBody(r) \/ Fail(r) \/ Return(r)

-----------------------------------------------------------------------------
(* Properties                                                              *)

HttpTypeOK ==
    \A r \in Requests :
        /\ http[r].at \in {"none", "throttle", "route", "handle", "call", "begin", "tx",
                          "answer", "body", "fail", "return", "ended"}
        /\ http[r].input \in Inputs
        /\ http[r].status \in {0, 400, 404, 405, 409, 410, 413, 415, 422, 429, 500, 503} \cup Success
        /\ http[r].wire \in {"open", "complete", "cut"}

Ended(r) == http[r].at = "ended"

\* The status tells what became of the operation, whatever broke around its
\* COMMIT: a client that got a complete success can rely on it, and every
\* refusal but 500 (so also the 503 it is told to repeat) changed nothing.
StatusTellsEffect ==
    \A r \in Requests : Ended(r) /\ http[r].input.route \in Writes =>
        /\ http[r].wire = "complete" /\ http[r].status \in Success => http[r].committed
        /\ http[r].committed => http[r].status \in Success \cup {0, 500}

\* A response has one head, and a client that stays gets one; a body that a
\* panic broke off is never passed off as complete (middleware.go: "rather than
\* let a truncated body pass as complete").
OneWholeAnswer ==
    \A r \in Requests : Ended(r) =>
        /\ http[r].heads <= 1
        /\ http[r].heads = 0 => http[r].left
        /\ http[r].panicked /\ http[r].status \in Success => http[r].wire = "cut"

\* api.go: "ObserveRequest is called once per request", with the status that was
\* sent and a label of the fixed set, panics and throttled requests included.
MeasuredOnce ==
    \A r \in Requests : Ended(r) =>
        \E label \in Handlers \cup {"/v1/", "unmatched"} :
            /\ http[r].measured = <<<<label, http[r].status>>>>
            /\ label \in Handlers => label = http[r].input.route

\* A double claim that the index caught is counted, although the client is told
\* of an ordinary conflict (unless the client left before it could be told).
RaceIsCounted ==
    \A r \in Requests : Ended(r) =>
        (http[r].condition = "seat_occupancy_live_uniq" => http[r].raceLost \/ http[r].left)
=============================================================================
